------------------------------ MODULE SendPage ------------------------------
(***************************************************************************)
(* One visit to the Send page (src/pages/Send.tsx): its screens, the       *)
(* resolution of names, estimates, confirmation, and the poll for the      *)
(* result of a payment, which the LDK context keeps (src/ldk/context.tsx). *)
(* What the context stores of a payment is PaymentHistory.                 *)
(*                                                                         *)
(* A Bolt 11 payment has the id of its invoice: 0 for the one entered or   *)
(* found in the DNS, n for the one fetched by request n.  A payment of an  *)
(* offer has a fresh id above these.                                       *)
(***************************************************************************)
EXTENDS Naturals, Sequences, FiniteSets

CONSTANTS
  MaxAsks,     \* bound: controllers made by resolveAddress and fetchAndRouteInvoice
  MaxOffers,   \* bound: payments of offers
  MaxPayments  \* bound: payments begun

Ids == 0..(MaxAsks + MaxOffers)
\* ParsedPaymentInput.  named: the raw input is user@domain.
Items == [type : {"onchain", "bolt11", "bolt12", "lnurl"}, id : 0..MaxAsks, named : BOOLEAN]
NoItem == [type |-> "none", id |-> 0, named |-> FALSE]
Item(type, named) == [type |-> type, id |-> 0, named |-> named]

VARIABLES
  step,       \* sendStep
  amountData, \* amountStepDataRef
  asks, ctl,  \* controllers made; the one in resolveAbortRef, 0 once aborted
  res,        \* resolutions and fetches under way
  resolving,  \* isResolving
  estimate,   \* the estimate processRecipientInput awaits: processingRef
  sending,    \* sendingRef
  tasks,      \* what the confirmation handlers await
  polls,      \* intervals that poll for a result
  timer,      \* pollTimerRef
  pay,        \* LDK's outbound payments
  events,     \* LDK's events, oldest first
  result      \* paymentResultsRef

page == <<step, amountData>>
lookup == <<asks, ctl, res, resolving, estimate>>
confirm == <<sending, tasks, polls, timer>>
payments == <<pay, events, result>>
vars == <<step, amountData, asks, ctl, res, resolving, estimate, sending, tasks,
          polls, timer, pay, events, result>>

At(name) == [at |-> name]
Nothing == At("nothing")
Amount(item) == [at |-> "amount", item |-> item]
OcReview(item, from) == [at |-> "oc-review", item |-> item, from |-> from]
LnReview(item, from) == [at |-> "ln-review", item |-> item, from |-> from]
Sending(id) == [at |-> "ln-sending", id |-> id]
Success(id) == [at |-> "ln-success", id |-> id]
Failed(retry) == [at |-> "error", retry |-> retry]

From == {"recipient", "amount"}
Reviews == {OcReview(i, f) : i \in Items, f \in From}
Steps == {At(n) : n \in {"recipient", "oc-success", "gone"}} \union {Amount(i) : i \in Items}
         \union Reviews \union {LnReview(i, f) : i \in Items, f \in From}
         \union {Sending(i) : i \in Ids} \union {Success(i) : i \in Ids}
         \union {Failed(Nothing)} \union {Failed(r) : r \in Reviews}

Asks == [n : 1..MaxAsks, phase : {"dns", "lnurl", "invoice"}]

TypeOK ==
  /\ step \in Steps /\ amountData \in Items \union {NoItem}
  /\ asks \in 0..MaxAsks /\ ctl \in 0..asks /\ res \subseteq Asks
  /\ resolving \in BOOLEAN /\ estimate \in Reviews \union {Nothing}
  /\ sending \in BOOLEAN /\ tasks \subseteq Steps
  /\ polls \subseteq Ids /\ timer \subseteq Ids
  /\ pay \in [Ids -> {"none", "pending", "abandoned", "fulfilled", "failed"}]
  /\ events \in Seq(Ids \X {"sent", "failed"})
  /\ result \in [Ids -> {"none", "pending", "sent", "failed"}]

Init ==
  /\ step = At("recipient") /\ amountData = NoItem
  /\ asks = 0 /\ ctl = 0 /\ res = {} /\ resolving = FALSE /\ estimate = Nothing
  /\ sending = FALSE /\ tasks = {} /\ polls = {} /\ timer = {}
  /\ pay = [i \in Ids |-> "none"] /\ events = <<>> /\ result = [i \in Ids |-> "none"]

-----------------------------------------------------------------------------
(* Recipient, resolution and amount. *)

\* setSendStep: nothing once the page is unmounted.
Show(s) == step' = IF step.at = "gone" THEN step ELSE s

\* A new controller, and the abort of the one before.
StartAsk(phase, others) ==
  /\ asks < MaxAsks /\ asks' = asks + 1 /\ ctl' = asks + 1
  /\ res' = others \union {[n |-> asks + 1, phase |-> phase]}
  /\ resolving' = TRUE

AskEnds(r) == res' = res \ {r} /\ resolving' = FALSE /\ UNCHANGED <<asks, ctl>>

\* A payment request whose amount is embedded goes to its review, any other
\* to the amount screen.
Route(item, fixed) ==
  IF fixed /\ item.type \in {"bolt11", "bolt12"}
  THEN Show(LnReview(item, "recipient")) ELSE Show(Amount(item))

\* Paste, Next or a scanned code: processRecipientInput.
Enter(type, fixed) ==
  /\ step.at = "recipient" /\ ~resolving /\ estimate = Nothing
  /\ amountData' = NoItem
  /\ IF type = "onchain" /\ fixed
     THEN estimate' = OcReview(Item(type, FALSE), "recipient") /\ UNCHANGED step
     ELSE Route(Item(type, FALSE), fixed) /\ UNCHANGED estimate
  /\ UNCHANGED <<asks, ctl, res, resolving, confirm, payments>>

EnterName ==
  /\ step.at = "recipient" /\ ~resolving /\ estimate = Nothing
  /\ StartAsk("dns", res)
  /\ UNCHANGED <<page, estimate, confirm, payments>>

\* The DNS has a payment request, or LNURL is tried.  A cancelled request
\* only fails.
DnsAnswers(r) ==
  /\ r \in res /\ r.phase = "dns" /\ r.n = ctl
  /\ \/ /\ \E type \in {"onchain", "bolt11", "bolt12"}, fixed \in BOOLEAN :
             Route(Item(type, TRUE), fixed)
        /\ AskEnds(r)
     \/ /\ res' = (res \ {r}) \union {[r EXCEPT !.phase = "lnurl"]}
        /\ UNCHANGED <<step, asks, ctl, resolving>>
  /\ UNCHANGED <<amountData, estimate, confirm, payments>>

\* A range needs an amount; a single amount is asked for at once.
LnurlAnswers(r) ==
  /\ r \in res /\ r.phase = "lnurl" /\ r.n = ctl
  /\ \/ Show(Amount(Item("lnurl", TRUE))) /\ AskEnds(r)
     \/ StartAsk("invoice", res \ {r}) /\ UNCHANGED step
  /\ UNCHANGED <<amountData, estimate, confirm, payments>>

Fetched(n) == [type |-> "bolt11", id |-> n, named |-> TRUE]

InvoiceArrives(r) ==
  /\ r \in res /\ r.phase = "invoice" /\ r.n = ctl
  /\ Show(LnReview(Fetched(r.n), "amount")) /\ AskEnds(r)
  /\ UNCHANGED <<amountData, estimate, confirm, payments>>

\* An error, a timeout, a refused answer, or the abort.
AskFails(r) ==
  /\ r \in res /\ AskEnds(r)
  /\ UNCHANGED <<page, estimate, confirm, payments>>

CancelResolving ==
  /\ step.at = "recipient" /\ resolving
  /\ ctl' = 0 /\ resolving' = FALSE
  /\ UNCHANGED <<page, asks, res, estimate, confirm, payments>>

\* handleAmountNext.  An on-chain recipient is parsed again from the raw
\* input, which for a name resolves it again.
AmountNext ==
  /\ step.at = "amount"
  /\ LET item == step.item IN
     \/ /\ item.type = "lnurl" \/ (item.type = "onchain" /\ item.named /\ estimate = Nothing)
        /\ StartAsk(IF item.type = "lnurl" THEN "invoice" ELSE "dns", res)
        /\ UNCHANGED <<page, estimate>>
     \/ /\ item.type \in {"bolt11", "bolt12"}
        /\ amountData' = item /\ Show(LnReview(item, "amount"))
        /\ UNCHANGED lookup
     \/ /\ item.type = "onchain" /\ ~item.named /\ estimate = Nothing
        /\ amountData' = item /\ estimate' = OcReview(item, "amount")
        /\ UNCHANGED <<step, asks, ctl, res, resolving>>
  /\ UNCHANGED <<confirm, payments>>

AmountBack ==
  /\ step.at = "amount" /\ Show(At("recipient"))
  /\ UNCHANGED <<amountData, lookup, confirm, payments>>

EstimateEnds ==
  /\ estimate # Nothing /\ estimate' = Nothing
  /\ (Show(estimate) \/ UNCHANGED step)
  /\ UNCHANGED <<amountData, asks, ctl, res, resolving, confirm, payments>>

ReviewBack ==
  /\ step.at \in {"oc-review", "ln-review"}
  /\ Show(IF step.from = "amount" /\ amountData # NoItem THEN Amount(amountData)
          ELSE At("recipient"))
  /\ UNCHANGED <<amountData, lookup, confirm, payments>>

-----------------------------------------------------------------------------
(* Confirmation. *)

\* send_payment or pay_for_offer accepted: the result store and the poll.
Begin(id) ==
  /\ Cardinality({i \in Ids : pay[i] # "none"} \union {id}) <= MaxPayments
  /\ pay' = [pay EXCEPT ![id] = "pending"]
  /\ result' = [result EXCEPT ![id] = "pending"]
  /\ polls' = polls \union {id} /\ timer' = {id} /\ sending' = TRUE
  /\ Show(Sending(id))
  /\ UNCHANGED events

\* LDK has no payment of this id under way or just fulfilled.
Payable(id) == pay[id] \in {"none", "failed"}
Offers == (MaxAsks + 1)..(MaxAsks + MaxOffers)
Fresh == {i \in Offers : pay[i] = "none"}

Refused ==
  /\ sending' = FALSE /\ Show(Failed(Nothing))
  /\ UNCHANGED <<polls, timer, payments>>

\* handleLnConfirm: an offer may first have to wait for the LSP's connection.
LnConfirm ==
  /\ step.at = "ln-review" /\ ~sending
  /\ \/ /\ step.item.type = "bolt11"
        /\ IF Payable(step.item.id) THEN Begin(step.item.id) \/ Refused ELSE Refused
        /\ UNCHANGED tasks
     \/ /\ step.item.type = "bolt12"
        /\ \/ (Refused \/ \E id \in Fresh : Begin(id)) /\ UNCHANGED tasks
           \/ /\ tasks' = tasks \union {step} /\ sending' = TRUE
              /\ UNCHANGED <<step, polls, timer, payments>>
  /\ UNCHANGED <<amountData, lookup>>

ConnectEnds(t) ==
  /\ t \in tasks /\ t.at = "ln-review" /\ tasks' = tasks \ {t}
  /\ (Refused \/ \E id \in Fresh : Begin(id))
  /\ UNCHANGED <<amountData, lookup>>

\* Faulty variant: only the button's isBroadcasting guards the handler.
OcConfirmUnguarded ==
  /\ step.at = "oc-review" /\ {t \in tasks : t.at = "oc-review"} = {}
  /\ sending' = TRUE /\ tasks' = tasks \union {step}
  /\ UNCHANGED <<page, lookup, polls, timer, payments>>

OcConfirm ==
  /\ step.at = "oc-review" /\ ~sending
  /\ sending' = TRUE /\ tasks' = tasks \union {step}
  /\ UNCHANGED <<page, lookup, polls, timer, payments>>

\* sendMax or sendToAddress has ended.
BroadcastEnds(t) ==
  /\ t \in tasks /\ t.at = "oc-review" /\ tasks' = tasks \ {t}
  /\ sending' = FALSE /\ (Show(At("oc-success")) \/ Show(Failed(t)))
  /\ UNCHANGED <<amountData, lookup, polls, timer, payments>>

StopPolling(id) == polls' = polls \ {id} /\ timer' = {} /\ sending' = FALSE

\* Faulty variant: a payment LDK no longer lists is taken for fulfilled.
PollUnlisted(id) ==
  /\ id \in polls
  /\ LET good == result[id] = "sent" \/ (result[id] = "pending" /\ pay[id] \in {"fulfilled", "failed"})
         bad == result[id] = "failed" \/ (result[id] = "pending" /\ pay[id] = "abandoned")
     IN (good \/ bad) /\ Show(IF good THEN Success(id) ELSE Failed(Nothing))
  /\ StopPolling(id)
  /\ UNCHANGED <<amountData, lookup, tasks, payments>>

\* One tick of the poll: the event's result first, then LDK's own list.
Poll(id) ==
  /\ id \in polls
  /\ LET good == result[id] = "sent" \/ (result[id] = "pending" /\ pay[id] = "fulfilled")
         bad == result[id] = "failed" \/ (result[id] = "pending" /\ pay[id] = "abandoned")
     IN (good \/ bad) /\ Show(IF good THEN Success(id) ELSE Failed(Nothing))
  /\ StopPolling(id)
  /\ UNCHANGED <<amountData, lookup, tasks, payments>>

\* Five minutes of it.
PollTimeout(id) ==
  /\ id \in polls /\ StopPolling(id) /\ Show(Failed(Nothing))
  /\ UNCHANGED <<amountData, lookup, tasks, payments>>

\* handleCancelPayment: the payment may be fulfilled all the same.
CancelPayment ==
  /\ step.at = "ln-sending"
  /\ pay' = [pay EXCEPT ![step.id] = IF @ = "pending" THEN "abandoned" ELSE @]
  /\ polls' = polls \ timer /\ timer' = {} /\ sending' = FALSE
  /\ Show(Failed(Nothing))
  /\ UNCHANGED <<amountData, lookup, tasks, events, result>>

TryAgain ==
  /\ step.at = "error" /\ step.retry # Nothing /\ Show(step.retry)
  /\ UNCHANGED <<amountData, lookup, confirm, payments>>

\* Done, the header's back, or the browser's: the page is unmounted, and its
\* state gone.  What it awaits goes on.
Leave ==
  /\ step.at # "gone" /\ step' = At("gone") /\ amountData' = NoItem
  /\ ctl' = 0 /\ res' = {} /\ resolving' = FALSE /\ estimate' = Nothing
  /\ polls' = polls \ timer /\ timer' = {} /\ sending' = FALSE
  /\ UNCHANGED <<asks, tasks, payments>>

-----------------------------------------------------------------------------
(* LDK and its events. *)

PaySettles(id, how) ==
  /\ pay[id] \in {"pending", "abandoned"}
  /\ pay' = [pay EXCEPT ![id] = IF how = "sent" THEN "fulfilled" ELSE "failed"]
  /\ events' = Append(events, <<id, how>>)
  /\ UNCHANGED <<page, lookup, confirm, result>>

\* The callback for PaymentSent and PaymentFailed.
HandleEvent ==
  /\ events # <<>> /\ events' = Tail(events)
  /\ result' = [result EXCEPT ![Head(events)[1]] = Head(events)[2]]
  /\ UNCHANGED <<page, lookup, confirm, pay>>

-----------------------------------------------------------------------------
Next ==
  \/ \E type \in {"onchain", "bolt11", "bolt12"}, fixed \in BOOLEAN : Enter(type, fixed)
  \/ EnterName \/ CancelResolving \/ AmountNext \/ AmountBack \/ EstimateEnds \/ ReviewBack
  \/ \E r \in res : DnsAnswers(r) \/ LnurlAnswers(r) \/ InvoiceArrives(r) \/ AskFails(r)
  \/ LnConfirm \/ OcConfirm \/ CancelPayment \/ TryAgain \/ Leave
  \/ \E t \in tasks : ConnectEnds(t) \/ BroadcastEnds(t)
  \/ \E id \in Ids : Poll(id) \/ PollTimeout(id)
  \/ \E id \in Ids, how \in {"sent", "failed"} : PaySettles(id, how)
  \/ HandleEvent

Spec == Init /\ [][Next]_vars

-----------------------------------------------------------------------------
(* Properties. *)

\* At most one payment at a time is being made or waited for by the page,
\* and sendingRef tells whether there is one: neither a second confirmation
\* beside it nor a page that refuses every confirmation after it.
OnePaymentAtATime ==
  step.at # "gone" =>
    /\ Cardinality(tasks) + Cardinality(polls) <= 1
    /\ sending <=> tasks # {} \/ polls # {}

\* "sent successfully" is shown only for a payment the network has fulfilled.
SuccessShownIsSent == step.at = "ln-success" => pay[step.id] = "fulfilled"

\* Back from a review (a step in which no request is answered) never leads to
\* the amount screen of another recipient.  It may: see section 7 of the README.
BackToSameRecipient ==
  [][step.at \in {"oc-review", "ln-review"} /\ step'.at = "amount" /\ res' = res =>
       step'.item.named = step.item.named]_vars
=============================================================================
