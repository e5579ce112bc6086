-------------------------- MODULE JitReceiveProofs --------------------------
(***************************************************************************)
(* The request table's promises, for any ids, peers and cap, and what the  *)
(* Request screen shows, for any amounts, menus and number of calls.       *)
(***************************************************************************)
EXTENDS JitReceive, FiniteSetTheorems, TLAPS

-----------------------------------------------------------------------------
(* The fee menu: for every payment, every menu, any word size and any unit. *)

(* Rounding up: the rounded share, counted in full units, covers the exact  *)
(* one.                                                                     *)
LEMMA RoundedUpCovers ==
  ASSUME NEW x \in Nat, NEW m \in Nat \ {0}
  PROVE  /\ (x + (m - 1)) \div m \in Nat
         /\ x <= ((x + (m - 1)) \div m) * m
<1> DEFINE y == x + (m - 1)
           q == y \div m
<1>1. y \in Nat /\ q \in Int
  OBVIOUS
<1>2. y = m * q + (y % m) /\ y % m \in 0..(m - 1)
  BY <1>1
<1>3. y < m * q + m
  BY <1>1, <1>2
<1>4. q >= 0
  BY <1>1
<1>5. m * q = q * m
  BY <1>1
<1> QED
  BY <1>1, <1>3, <1>4, <1>5

(* calculateOpeningFee never charges less than its two terms ask for, and   *)
(* its result is an amount.                                                 *)
THEOREM FeeCoversTerms ==
  ASSUME NEW payment \in Nat, NEW fp \in FeeParams
  PROVE  /\ OpeningFee(payment, fp) \in Nat
         /\ fp.minFee <= OpeningFee(payment, fp)
         /\ payment * fp.proportional <= OpeningFee(payment, fp) * Million
<1> DEFINE x == payment * fp.proportional
           share == (x + (Million - 1)) \div Million
<1>1. fp.minFee \in Int /\ fp.proportional \in Nat
  BY DEF FeeParams
<1>2. x \in Nat /\ Million \in Nat \ {0}
  BY <1>1, FeesAssumption
<1>3. share \in Nat /\ x <= share * Million
  BY <1>2, RoundedUpCovers
<1>4. OpeningFee(payment, fp) = IF share < fp.minFee THEN fp.minFee ELSE share
  BY DEF OpeningFee
<1> HIDE DEF x, share
<1>5. CASE share < fp.minFee
  <2>1. share * Million <= fp.minFee * Million
    BY <1>1, <1>2, <1>3, <1>5
  <2> QED
    BY <1>1, <1>2, <1>3, <1>4, <1>5, <2>1 DEF x
<1>6. CASE ~ (share < fp.minFee)
  BY <1>1, <1>2, <1>3, <1>4, <1>6 DEF x
<1> QED
  BY <1>5, <1>6

(* An entry the wallet buys leaves a positive amount to receive, fits the   *)
(* payment and was computed without overflow (types.ts 94-107).             *)
THEOREM SelectedPaysOut ==
  ASSUME NEW payment \in Nat, NEW menu \in Seq(FeeParams),
         NEW i \in Selected(menu, payment)
  PROVE  /\ i \in DOMAIN menu /\ menu[i] \in FeeParams
         /\ Fits(payment, menu[i])
         /\ ~ Overflows(payment, menu[i])
         /\ payment - OpeningFee(payment, menu[i]) \in 1..payment
<1>1. /\ i \in DOMAIN menu /\ Stops(payment, menu[i]) /\ ~ Overflows(payment, menu[i])
      /\ menu[i] \in FeeParams
  BY DEF Selected
<1>2. Fits(payment, menu[i]) /\ OpeningFee(payment, menu[i]) < payment
  BY <1>1 DEF Stops
<1>3. OpeningFee(payment, menu[i]) \in Nat
  BY <1>1, FeeCoversTerms
<1> QED
  BY <1>1, <1>2, <1>3

(* On a menu in the order bLIP-52 asks for, no entry the wallet could have  *)
(* bought is cheaper than the one it buys.                                  *)
THEOREM SelectedIsCheapest ==
  ASSUME NEW payment \in Nat, NEW menu \in Seq(FeeParams),
         Ordered(menu, payment),
         NEW i \in Selected(menu, payment), NEW k \in DOMAIN menu,
         Stops(payment, menu[k])
  PROVE  OpeningFee(payment, menu[i]) <= OpeningFee(payment, menu[k])
<1>1. /\ i \in DOMAIN menu /\ Stops(payment, menu[i])
      /\ \A n \in 1..(i - 1) : ~ Stops(payment, menu[n])
      /\ menu[i] \in FeeParams /\ menu[k] \in FeeParams
  BY DEF Selected
<1>2. i \in Nat /\ k \in Nat /\ k >= 1
  BY <1>1
<1>3. ~ (k < i)
  BY <1>1, <1>2
<1>4. CASE k = i
  BY <1>1, <1>4, FeeCoversTerms
<1>5. CASE i < k
  BY <1>1, <1>5 DEF Ordered, Stops
<1> QED
  BY <1>2, <1>3, <1>4, <1>5

-----------------------------------------------------------------------------

(* The request table: entries are unique per id and are exactly the open    *)
(* promises.                                                                *)
RequestsInv ==
  /\ RequestsTypeOK
  /\ SettledOnce
  /\ IsFiniteSet(pending)

LEMMA RequestsInitInv == RequestsInit => RequestsInv
<1> SUFFICES ASSUME RequestsInit PROVE RequestsInv
  OBVIOUS
<1>1. RequestsTypeOK
  BY DEF RequestsInit, RequestsTypeOK, Request, Outcomes
<1>2. SettledOnce
  BY DEF RequestsInit, SettledOnce
<1>3. IsFiniteSet(pending)
  BY FS_EmptySet DEF RequestsInit
<1> QED
  BY <1>1, <1>2, <1>3 DEF RequestsInv

(* Entries leave the map as their promises are settled.                     *)
LEMMA DropKeepsInv ==
  ASSUME RequestsInv, NEW S \in SUBSET pending, NEW how \in {"answered", "rejected"},
         Drop(S, how)
  PROVE  RequestsInv'
<1> DEFINE hit(id) == \E r \in S : r.id = id
<1>1. /\ RequestsTypeOK /\ SettledOnce /\ IsFiniteSet(pending)
      /\ outbound' = outbound
      /\ pending' = pending \ S
  BY DEF RequestsInv, Drop
<1>2. \A id \in Ids : /\ outcome'[id] = IF hit(id) THEN how ELSE outcome[id]
                      /\ settled'[id] = settled[id] + IF hit(id) THEN 1 ELSE 0
  BY DEF Drop, Settle
<1>3. \A id \in Ids : hit(id) => outcome[id] = "open" /\ settled[id] = 0
  BY <1>1 DEF SettledOnce
<1>4. RequestsTypeOK'
  <2>1. outcome' \in [Ids -> Outcomes]
    BY <1>1 DEF Drop, Settle, RequestsTypeOK, Outcomes
  <2>2. settled' \in [Ids -> Nat]
    BY <1>1 DEF Drop, Settle, RequestsTypeOK
  <2> QED
    BY <1>1, <2>1, <2>2 DEF RequestsTypeOK
<1>5. SettledOnce'
  <2> SUFFICES ASSUME NEW id \in Ids
               PROVE  /\ settled'[id] = (IF outcome'[id] \in {"unused", "open"} THEN 0 ELSE 1)
                      /\ outcome'[id] = "open" <=> \E r \in pending' : r.id = id
                      /\ \A r, s \in pending' : r.id = id /\ s.id = id => r = s
    BY DEF SettledOnce
  <2>1. CASE hit(id)
    <3>1. outcome'[id] = how /\ settled'[id] = 1
      BY <1>2, <1>3, <2>1
    <3>2. ~ \E r \in pending' : r.id = id
      BY <1>1, <2>1 DEF SettledOnce
    <3> QED
      BY <3>1, <3>2
  <2>2. CASE ~ hit(id)
    <3>1. outcome'[id] = outcome[id] /\ settled'[id] = settled[id]
      BY <1>1, <1>2, <2>2 DEF RequestsTypeOK
    <3>2. \A r \in pending : r.id = id => r \in pending'
      BY <1>1, <2>2
    <3> QED
      BY <1>1, <3>1, <3>2 DEF SettledOnce
  <2> QED
    BY <2>1, <2>2
<1>6. IsFiniteSet(pending')
  BY <1>1, FS_Difference
<1> QED
  BY <1>4, <1>5, <1>6 DEF RequestsInv

LEMMA SendKeepsInv ==
  ASSUME RequestsInv, NEW id \in Ids, NEW p \in Peers, SendRequest(id, p)
  PROVE  RequestsInv'
<1> DEFINE r == [id |-> id, peer |-> p]
<1>1. /\ RequestsTypeOK /\ SettledOnce /\ IsFiniteSet(pending)
      /\ outcome[id] = "unused" /\ settled[id] = 0
      /\ ~ \E q \in pending : q.id = id
      /\ r \in Request /\ r.id = id
  BY DEF RequestsInv, SendRequest, SettledOnce, Request
<1>2. CASE Cardinality(PendingOf(p)) >= MaxPending
  <2>1. /\ pending' = pending /\ outbound' = outbound
        /\ \A i \in Ids : /\ outcome'[i] = IF i = id THEN "rejected" ELSE outcome[i]
                          /\ settled'[i] = settled[i] + IF i = id THEN 1 ELSE 0
        /\ outcome' \in [Ids -> Outcomes] /\ settled' \in [Ids -> Nat]
    BY <1>1, <1>2 DEF SendRequest, Settle, RequestsTypeOK, Outcomes
  <2>2. RequestsTypeOK'
    BY <1>1, <2>1 DEF RequestsTypeOK
  <2>3. SettledOnce'
    <3> SUFFICES ASSUME NEW i \in Ids
                 PROVE  /\ settled'[i] = (IF outcome'[i] \in {"unused", "open"} THEN 0 ELSE 1)
                        /\ outcome'[i] = "open" <=> \E q \in pending' : q.id = i
                        /\ \A q, s \in pending' : q.id = i /\ s.id = i => q = s
      BY DEF SettledOnce
    <3>1. CASE i = id
      BY <1>1, <2>1, <3>1 DEF SettledOnce
    <3>2. CASE i # id
      <4>1. outcome'[i] = outcome[i] /\ settled'[i] = settled[i]
        BY <1>1, <2>1, <3>2 DEF RequestsTypeOK
      <4> QED
        BY <1>1, <2>1, <4>1 DEF SettledOnce
    <3> QED
      BY <3>1, <3>2
  <2> QED
    BY <1>1, <2>1, <2>2, <2>3 DEF RequestsInv
<1>3. CASE ~ (Cardinality(PendingOf(p)) >= MaxPending)
  <2>1. /\ pending' = pending \union {r} /\ outbound' = outbound \union {r}
        /\ outcome' = [outcome EXCEPT ![id] = "open"] /\ settled' = settled
    BY <1>3 DEF SendRequest
  <2>2. RequestsTypeOK'
    BY <1>1, <2>1 DEF RequestsTypeOK, Outcomes
  <2>3. SettledOnce'
    <3> SUFFICES ASSUME NEW i \in Ids
                 PROVE  /\ settled'[i] = (IF outcome'[i] \in {"unused", "open"} THEN 0 ELSE 1)
                        /\ outcome'[i] = "open" <=> \E q \in pending' : q.id = i
                        /\ \A q, s \in pending' : q.id = i /\ s.id = i => q = s
      BY DEF SettledOnce
    <3>1. CASE i = id
      BY <1>1, <2>1, <3>1 DEF SettledOnce, RequestsTypeOK
    <3>2. CASE i # id
      <4>1. outcome'[i] = outcome[i]
        BY <1>1, <2>1, <3>2 DEF RequestsTypeOK
      <4>2. \A q \in pending' : q.id = i => q \in pending
        BY <1>1, <2>1, <3>2
      <4> QED
        BY <1>1, <2>1, <4>1, <4>2 DEF SettledOnce
    <3> QED
      BY <3>1, <3>2
  <2>4. IsFiniteSet(pending')
    BY <1>1, <2>1, FS_AddElement
  <2> QED
    BY <2>2, <2>3, <2>4 DEF RequestsInv
<1> QED
  BY <1>2, <1>3

LEMMA RequestsNextInv == RequestsInv /\ [RequestsNext]_requestVars => RequestsInv'
<1> SUFFICES ASSUME RequestsInv, [RequestsNext]_requestVars PROVE RequestsInv'
  OBVIOUS
<1>1. ASSUME NEW id \in Ids, NEW p \in Peers, SendRequest(id, p) PROVE RequestsInv'
  BY <1>1, SendKeepsInv
<1>2. CASE GetAndClearPendingMsg
  BY <1>2 DEF GetAndClearPendingMsg, RequestsInv, RequestsTypeOK, SettledOnce
<1>3. ASSUME NEW id \in Ids, NEW p \in Peers, HandleCustomMessage(id, p)
      PROVE RequestsInv'
  BY <1>3, DropKeepsInv DEF HandleCustomMessage
<1>4. ASSUME NEW p \in Peers, PeerDisconnected(p) PROVE RequestsInv'
  BY <1>4, DropKeepsInv DEF PeerDisconnected, PendingOf
<1>5. ASSUME NEW S \in SUBSET pending, Reap(S) PROVE RequestsInv'
  BY <1>5, DropKeepsInv DEF Reap
<1>6. CASE UNCHANGED requestVars
  BY <1>6 DEF requestVars, RequestsInv, RequestsTypeOK, SettledOnce
<1> QED
  BY <1>1, <1>2, <1>3, <1>4, <1>5, <1>6 DEF RequestsNext
(* Entries only leave a peer's share of the map, except by sendRequest.     *)
LEMMA DropKeepsCap ==
  ASSUME RequestsInv, PendingBounded, pending' \in SUBSET pending
  PROVE  PendingBounded'
<1> SUFFICES ASSUME NEW p \in Peers PROVE Cardinality(PendingOf(p)') <= MaxPending
  BY DEF PendingBounded
<1>1. IsFiniteSet(PendingOf(p)) /\ PendingOf(p)' \in SUBSET PendingOf(p)
  BY FS_Subset DEF RequestsInv, PendingOf
<1>2. /\ Cardinality(PendingOf(p)') <= Cardinality(PendingOf(p))
      /\ IsFiniteSet(PendingOf(p)')
  BY <1>1, FS_Subset
<1>3. Cardinality(PendingOf(p)) \in Nat /\ Cardinality(PendingOf(p)') \in Nat
  BY <1>1, <1>2, FS_CardinalityType
<1>4. Cardinality(PendingOf(p)) <= MaxPending
  BY DEF PendingBounded
<1> QED
  BY <1>2, <1>3, <1>4, RequestsAssumption

LEMMA SendKeepsCap ==
  ASSUME RequestsInv, PendingBounded, NEW id \in Ids, NEW p \in Peers,
         SendRequest(id, p)
  PROVE  PendingBounded'
<1> DEFINE r == [id |-> id, peer |-> p]
<1>1. CASE Cardinality(PendingOf(p)) >= MaxPending
  BY <1>1, DropKeepsCap DEF SendRequest
<1>2. CASE ~ (Cardinality(PendingOf(p)) >= MaxPending)
  <2>1. pending' = pending \union {r}
    BY <1>2 DEF SendRequest
  <2> SUFFICES ASSUME NEW q \in Peers PROVE Cardinality(PendingOf(q)') <= MaxPending
    BY DEF PendingBounded
  <2>2. IsFiniteSet(PendingOf(q)) /\ Cardinality(PendingOf(q)) \in Nat
    <3>1. PendingOf(q) \in SUBSET pending /\ IsFiniteSet(pending)
      BY DEF PendingOf, RequestsInv
    <3>2. IsFiniteSet(PendingOf(q))
      BY <3>1, FS_Subset
    <3> QED
      BY <3>2, FS_CardinalityType
  <2>3. CASE q = p
    <3>1. PendingOf(q)' = PendingOf(q) \union {r}
      BY <2>1, <2>3 DEF PendingOf
    <3> HIDE DEF r
    <3>2. /\ IsFiniteSet(PendingOf(q) \union {r})
          /\ Cardinality(PendingOf(q) \union {r}) =
               IF r \in PendingOf(q) THEN Cardinality(PendingOf(q))
                                     ELSE Cardinality(PendingOf(q)) + 1
      BY <2>2, FS_AddElement, Zenon
    <3> QED
      BY <1>2, <2>2, <2>3, <3>1, <3>2, RequestsAssumption
  <2>4. CASE q # p
    <3>1. PendingOf(q)' = PendingOf(q)
      BY <2>1, <2>4 DEF PendingOf
    <3> QED
      BY <3>1 DEF PendingBounded
  <2> QED
    BY <2>3, <2>4
<1> QED
  BY <1>1, <1>2

LEMMA RequestsNextCap ==
  RequestsInv /\ PendingBounded /\ [RequestsNext]_requestVars => PendingBounded'
<1> SUFFICES ASSUME RequestsInv, PendingBounded, [RequestsNext]_requestVars
             PROVE PendingBounded'
  OBVIOUS
<1>1. ASSUME NEW id \in Ids, NEW p \in Peers, SendRequest(id, p)
      PROVE PendingBounded'
  BY <1>1, SendKeepsCap
<1>2. CASE GetAndClearPendingMsg \/ UNCHANGED requestVars
  BY <1>2, DropKeepsCap DEF GetAndClearPendingMsg, requestVars
<1>3. ASSUME NEW S, NEW how, Drop(S, how) PROVE PendingBounded'
  BY <1>3, DropKeepsCap DEF Drop
<1> QED
  BY <1>1, <1>2, <1>3 DEF RequestsNext, HandleCustomMessage, PeerDisconnected, Reap

(* Every promise of the request table is settled exactly once, in any order *)
(* of answers, disconnects and reaping (message-handler.ts 61-162).         *)
THEOREM PromisesSettledOnce == RequestsSpec => []SettledOnce
<1>1. RequestsInv => SettledOnce
  BY DEF RequestsInv
<1> QED
  BY RequestsInitInv, RequestsNextInv, <1>1, PTL DEF RequestsSpec

(* A peer never has more open requests than the cap (message-handler.ts     *)
(* 74-81), for any cap.                                                     *)
THEOREM CapHolds == RequestsSpec => []PendingBounded
<1>1. RequestsInit => PendingBounded
  <2> SUFFICES ASSUME RequestsInit, NEW p \in Peers
               PROVE Cardinality(PendingOf(p)) <= MaxPending
    BY DEF PendingBounded
  <2>1. PendingOf(p) = {}
    BY DEF RequestsInit, PendingOf
  <2> QED
    BY <2>1, FS_EmptySet, RequestsAssumption
<1> QED
  BY RequestsInitInv, RequestsNextInv, RequestsNextCap, <1>1, PTL DEF RequestsSpec

-----------------------------------------------------------------------------
(* The page only uses the table through its operations.                     *)
LEMMA StepIsRequestsStep == [Next]_vars => [RequestsNext]_requestVars
<1> SUFFICES ASSUME [Next]_vars PROVE [RequestsNext]_requestVars
  OBVIOUS
<1>1. Lsp \in Peers /\ \A j \in Calls : <<j, "info">> \in Ids /\ <<j, "buy">> \in Ids
  BY JitAssumption
<1>2. CASE \/ UNCHANGED vars \/ OpenPage \/ ClosePage \/ PeersReconnected
           \/ ChannelOpens \/ PaymentSucceeds \/ SocketDies \/ ConnectedElsewhere
           \/ \E a \in Amounts \union {0} : SetAmount(a)
  BY <1>2 DEF vars, OpenPage, ClosePage, PeersReconnected, ChannelOpens,
              PaymentSucceeds, SocketDies, ConnectedElsewhere, SetAmount
<1>3. ASSUME NEW j \in Calls, CallStep(j) PROVE [RequestsNext]_requestVars
  <2>1. ASSUME GetInfo(j) PROVE RequestsNext
    BY <1>1, <2>1 DEF GetInfo, RequestsNext
  <2>2. ASSUME Finish(j, TRUE) \/ Finish(j, FALSE) PROVE UNCHANGED requestVars
    BY <2>2 DEF Finish
  <2>3. CASE Connected(j) \/ ConnectFails(j)
    BY <2>1, <2>2, <2>3 DEF Connected, ConnectFails
  <2>4. CASE Buy(j)
    BY <1>1, <2>4 DEF Buy, RequestsNext
  <2>5. CASE Register(j) \/ RequestFails(j) \/ Signed(j)
    BY <2>2, <2>5 DEF Register, RequestFails, Signed
  <2> QED
    BY <1>3, <2>3, <2>4, <2>5 DEF CallStep
<1>4. CASE Flush
  BY <1>4 DEF Flush, RequestsNext
<1>5. ASSUME NEW id \in Ids, NEW p \in Peers, Message(id, p)
      PROVE [RequestsNext]_requestVars
  BY <1>5 DEF Message, RequestsNext
<1>6. CASE LdkNotices
  BY <1>1, <1>6 DEF LdkNotices, RequestsNext
<1>7. ASSUME NEW S \in SUBSET pending, ReapSome(S) PROVE [RequestsNext]_requestVars
  BY <1>7 DEF ReapSome, RequestsNext
<1> QED
  BY <1>2, <1>3, <1>4, <1>5, <1>6, <1>7 DEF Next

(* The page together with the client, the connection and the LSP is a user  *)
(* of the request table: every behaviour is one of RequestsSpec.            *)
THEOREM ImplementsRequests == Spec => RequestsSpec
<1>1. Init => RequestsInit
  BY DEF Init
<1> QED
  BY <1>1, StepIsRequestsStep, PTL DEF Spec, RequestsSpec

(* So both guarantees hold in the whole.                                    *)
THEOREM JitPromisesSettledOnce == Spec => [](SettledOnce /\ PendingBounded)
  BY ImplementsRequests, PromisesSettledOnce, CapHolds, PTL
-----------------------------------------------------------------------------
(* What holds of a requestJitInvoice call.  The last two conjuncts are why  *)
(* the counter suffices: a call whose result would be applied was made for  *)
(* the amount on screen, and either the page waits for it or the cleanup of *)
(* the standard path will disown it before the amount can change.           *)
Bought(j) ==
  /\ InFlight(j) => call[j].amount \in Amounts
  /\ call[j].pc \in {"buy", "sign"} =>
       /\ call[j].menu \in Menus
       /\ call[j].entry \in Selected(call[j].menu, call[j].amount)
       /\ outcome[<<j, "info">>] = "answered"
  /\ call[j].pc = "sign" => call[j].expected =
       call[j].amount - OpeningFee(call[j].amount, call[j].menu[call[j].entry])

Numbered(j) == call[j].live => open /\ InFlight(j) /\ call[j].number <= counter

ForAmount(j) ==
  Applies(j) => call[j].amount = amount /\ (step = "negotiating" \/ armed)

CallInv(j) == Bought(j) /\ Numbered(j) /\ ForAmount(j)

NumbersDiffer ==
  \A j, k \in Calls : call[j].live /\ call[k].live /\ call[j].number = call[k].number
                        => j = k

ClosedIsBlank == ~ open => amount = 0 /\ step = "none" /\ invoice = NoInvoice

PageInv ==
  /\ SettledOnce
  /\ TypeOK
  /\ \A j \in Calls : CallInv(j)
  /\ NumbersDiffer
  /\ ClosedIsBlank
  /\ SpinnerHasCall
  /\ InvoiceForAmount

LEMMA AmountsPositive == Amounts \subseteq Nat /\ 0 \notin Amounts
  BY JitAssumption

LEMMA PageInitInv == Init => PageInv
<1> SUFFICES ASSUME Init PROVE PageInv
  OBVIOUS
<1>1. RequestsTypeOK /\ SettledOnce
  BY RequestsInitInv DEF Init, RequestsInv
<1>2. TypeOK
  <2>1. NoCall \in CallType
    BY DEF NoCall, CallRecord, CallType
  <2>2. MaxDrops \in Nat
    BY JitAssumption
  <2>3. call \in [Calls -> CallType]
    BY <2>1 DEF Init
  <2>4. invoice \in [kind : {"none", "standard", "jit"}, amount : Amounts \union {0}]
    BY DEF Init, NoInvoice
  <2>5. /\ open \in BOOLEAN /\ armed \in BOOLEAN /\ reconnected \in BOOLEAN
        /\ hasChannels \in BOOLEAN
    BY DEF Init
  <2>6. /\ amount \in Amounts \union {0} /\ counter \in Nat /\ step \in Steps
        /\ conn \in {"up", "stale", "down"} /\ owed \in SUBSET Ids
        /\ drops \in 0..MaxDrops
    BY <2>2 DEF Init, Steps
  <2> QED
    BY <1>1, <2>3, <2>4, <2>5, <2>6 DEF TypeOK
<1>3. \A j \in Calls : call[j] = NoCall
  BY DEF Init
<1>4. \A j \in Calls : CallInv(j)
  BY <1>3 DEF CallInv, Bought, Numbered, ForAmount, InFlight, Applies, NoCall,
            CallRecord
<1>5. NumbersDiffer
  BY <1>3 DEF NumbersDiffer, NoCall, CallRecord
<1>6. ClosedIsBlank /\ SpinnerHasCall /\ InvoiceForAmount
  BY DEF Init, ClosedIsBlank, SpinnerHasCall, InvoiceForAmount
<1> QED
  BY <1>1, <1>2, <1>4, <1>5, <1>6 DEF PageInv

(* A rerun of the effect, on a page that shows it negotiates only if the    *)
(* amount is the same.                                                      *)
LEMMA EffectKeepsInv ==
  ASSUME PageInv, open, NEW a \in Amounts \union {0}, NEW pr \in BOOLEAN,
         RunEffect(a, pr), amount' = a, reconnected' = pr,
         UNCHANGED <<open, hasChannels, requestVars, wireVars>>,
         step # "negotiating" \/ (a = amount /\ pr)
  PROVE  PageInv'
<1> DEFINE before == IF armed THEN counter + 1 ELSE counter
<1>1. /\ Effect(a, before, pr) /\ before \in Nat /\ counter \in Nat
      /\ counter <= before /\ armed \in BOOLEAN
      /\ TypeOK /\ SettledOnce /\ NumbersDiffer /\ InvoiceForAmount
      /\ pending' = pending /\ outbound' = outbound
      /\ outcome' = outcome /\ settled' = settled
      /\ open' = open /\ hasChannels' = hasChannels
      /\ conn' = conn /\ owed' = owed /\ drops' = drops
  BY DEF PageInv, TypeOK, RunEffect, requestVars, wireVars
<1>2. SettledOnce' /\ ClosedIsBlank'
  BY <1>1 DEF SettledOnce, ClosedIsBlank
<1>3. \A k \in Calls : /\ CallInv(k) /\ call[k].number \in Nat
                       /\ call[k] \in CallType
  BY DEF PageInv, TypeOK, CallType
<1>4. \A k \in Calls : call[k].live /\ call[k].number = before
        => armed = FALSE /\ step = "negotiating" /\ a = amount /\ pr /\ call[k].amount = a
  <2> SUFFICES ASSUME NEW k \in Calls, call[k].live, call[k].number = before
               PROVE  armed = FALSE /\ step = "negotiating" /\ a = amount /\ pr
                        /\ call[k].amount = a
    OBVIOUS
  <2>1. call[k].number <= counter
    BY <1>3 DEF CallInv, Numbered
  <2>2. armed = FALSE /\ before = counter
    BY <1>1, <1>3, <2>1
  <2>3. Applies(k) /\ ForAmount(k)
    BY <1>3, <2>2 DEF Applies, CallInv
  <2> QED
    BY <2>2, <2>3 DEF ForAmount
<1>5. CASE ~ pr /\ hasChannels
  <2>1. /\ counter' = before /\ armed' = FALSE /\ call' = call
        /\ step' = step /\ invoice' = invoice
    BY <1>1, <1>5 DEF Effect
  <2>2. step # "negotiating"
    BY <1>5
  <2>3. TypeOK'
    BY <1>1, <2>1 DEF TypeOK, RequestsTypeOK
  <2>4. \A k \in Calls : CallInv(k)'
    <3> SUFFICES ASSUME NEW k \in Calls PROVE CallInv(k)'
      OBVIOUS
    <3>1. Bought(k)' /\ Numbered(k)'
      BY <1>1, <1>3, <1>4, <2>1, <2>2 DEF CallInv, Bought, Numbered, InFlight
    <3>2. ForAmount(k)'
      BY <1>1, <1>3, <1>4, <2>1, <2>2 DEF CallInv, Bought, Numbered, ForAmount, Applies
    <3> QED
      BY <3>1, <3>2 DEF CallInv
  <2>5. NumbersDiffer' /\ SpinnerHasCall' /\ InvoiceForAmount'
    BY <1>1, <1>5, <2>1, <2>2 DEF NumbersDiffer, SpinnerHasCall, InvoiceForAmount
  <2> QED
    BY <1>2, <2>3, <2>4, <2>5 DEF PageInv
<1>6. CASE /\ a = 0
           /\ step' = "none" /\ invoice' = NoInvoice
           /\ counter' = before /\ armed' = FALSE
           /\ UNCHANGED call
  <2>1. TypeOK'
    BY <1>1, <1>6 DEF TypeOK, RequestsTypeOK, Steps, NoInvoice
  <2>2. \A k \in Calls : CallInv(k)'
    <3> SUFFICES ASSUME NEW k \in Calls PROVE CallInv(k)'
      OBVIOUS
    <3>1. Bought(k)' /\ Numbered(k)'
      BY <1>1, <1>3, <1>4, <1>6, AmountsPositive DEF CallInv, Bought, Numbered, InFlight
    <3>2. ForAmount(k)'
      BY <1>1, <1>3, <1>4, <1>6, AmountsPositive DEF CallInv, Bought, Numbered, ForAmount, Applies
    <3> QED
      BY <3>1, <3>2 DEF CallInv
  <2>3. NumbersDiffer' /\ SpinnerHasCall' /\ InvoiceForAmount'
    BY <1>1, <1>6 DEF NumbersDiffer, SpinnerHasCall, InvoiceForAmount
  <2> QED
    BY <1>2, <2>1, <2>2, <2>3 DEF PageInv
<1>7. CASE /\ a # 0
           /\ step' = "negotiating" /\ invoice' = NoInvoice
           /\ counter' = before + 1 /\ armed' = FALSE
           /\ StartCall(a, before + 1)
  <2> DEFINE new == CallRecord("connect", a, before + 1, TRUE)
  <2>1. PICK j \in Calls : call[j].pc = "unused" /\ call' = [call EXCEPT ![j] = new]
    BY <1>7 DEF StartCall
  <2>2. /\ new.pc = "connect" /\ new.amount = a /\ new.number = before + 1
        /\ new.live = TRUE /\ new \in CallType
    <3>1. before + 1 \in Nat /\ a \in Amounts \union {0}
      BY <1>1
    <3> HIDE DEF before
    <3> QED
      BY <3>1 DEF CallType, CallRecord
  <2> HIDE DEF new
  <2>3. /\ call'[j] = new /\ \A k \in Calls : k # j => call'[k] = call[k]
        /\ call' \in [Calls -> CallType]
    BY <1>1, <2>1, <2>2 DEF TypeOK
  <2>4. TypeOK'
    <3>1. counter' \in Nat
      BY <1>1, <1>7
    <3> HIDE DEF before
    <3>2. invoice' \in [kind : {"none", "standard", "jit"}, amount : Amounts \union {0}]
      BY <1>7 DEF NoInvoice
    <3>3. step' \in Steps /\ armed' \in BOOLEAN /\ RequestsTypeOK'
      BY <1>1, <1>7 DEF Steps, TypeOK, RequestsTypeOK
    <3> QED
      BY <1>1, <2>3, <3>1, <3>2, <3>3 DEF TypeOK
  <2>5. \A k \in Calls : k # j => CallInv(k)'
    BY <1>1, <1>3, <1>7, <2>3
       DEF CallInv, Bought, Numbered, ForAmount, Applies, InFlight
  <2>6. CallInv(j)' /\ InFlight(j)' /\ Applies(j)' /\ call'[j].amount = a
    BY <1>1, <1>7, <2>2, <2>3
       DEF CallInv, Bought, Numbered, ForAmount, Applies, InFlight
  <2>7. NumbersDiffer'
    BY <1>1, <1>3, <2>2, <2>3 DEF NumbersDiffer, CallInv, Numbered
  <2>8. SpinnerHasCall' /\ InvoiceForAmount'
    BY <1>7, <2>6 DEF SpinnerHasCall, InvoiceForAmount
  <2> QED
    BY <1>2, <2>4, <2>5, <2>6, <2>7, <2>8 DEF PageInv
<1>8. CASE /\ \/ step' = "standard" /\ invoice' = InvoiceFor("standard", a)
              \/ step' = "none" /\ invoice' = NoInvoice
           /\ counter' = before /\ armed' = TRUE
           /\ UNCHANGED call
  <2>1. TypeOK'
    BY <1>1, <1>8 DEF TypeOK, RequestsTypeOK, Steps, NoInvoice, InvoiceFor
  <2>2. \A k \in Calls : CallInv(k)'
    <3> SUFFICES ASSUME NEW k \in Calls PROVE CallInv(k)'
      OBVIOUS
    <3>1. Bought(k)' /\ Numbered(k)'
      BY <1>1, <1>3, <1>4, <1>8 DEF CallInv, Bought, Numbered, InFlight
    <3>2. ForAmount(k)'
      BY <1>1, <1>3, <1>4, <1>8 DEF CallInv, Bought, Numbered, ForAmount, Applies
    <3> QED
      BY <3>1, <3>2 DEF CallInv
  <2>3. NumbersDiffer' /\ SpinnerHasCall' /\ InvoiceForAmount'
    BY <1>1, <1>8 DEF NumbersDiffer, SpinnerHasCall, InvoiceForAmount, InvoiceFor
  <2> QED
    BY <1>2, <2>1, <2>2, <2>3 DEF PageInv
<1> HIDE DEF before
<1> QED
  BY <1>1, <1>5, <1>6, <1>7, <1>8 DEF Effect
(* A promise that was resolved stays resolved.                              *)
LEMMA AnsweredStays ==
  ASSUME RequestsInv, [RequestsNext]_requestVars, NEW id \in Ids,
         outcome[id] = "answered"
  PROVE  outcome'[id] = "answered"
<1>1. outcome \in [Ids -> Outcomes] /\ ~ \E r \in pending : r.id = id
  BY DEF RequestsInv, RequestsTypeOK, SettledOnce
<1>2. ASSUME NEW i \in Ids, NEW p \in Peers, SendRequest(i, p)
      PROVE outcome'[id] = "answered"
  <2>1. i # id
    BY <1>2 DEF SendRequest
  <2> QED
    BY <1>1, <1>2, <2>1 DEF SendRequest, Settle
<1>3. ASSUME NEW S \in SUBSET pending, NEW how, Drop(S, how)
      PROVE outcome'[id] = "answered"
  BY <1>1, <1>3 DEF Drop, Settle
<1>4. CASE GetAndClearPendingMsg \/ UNCHANGED requestVars
  BY <1>4 DEF GetAndClearPendingMsg, requestVars
<1>5. ASSUME NEW i \in Ids, NEW p \in Peers, HandleCustomMessage(i, p)
      PROVE outcome'[id] = "answered"
  BY <1>3, <1>5 DEF HandleCustomMessage
<1>6. ASSUME NEW p \in Peers, PeerDisconnected(p) PROVE outcome'[id] = "answered"
  BY <1>3, <1>6 DEF PeerDisconnected, PendingOf
<1>7. ASSUME NEW S \in SUBSET pending, Reap(S) PROVE outcome'[id] = "answered"
  BY <1>3, <1>7 DEF Reap
<1> QED
  BY <1>2, <1>4, <1>5, <1>6, <1>7 DEF RequestsNext

(* What every step of the network and of a call leaves of the invariant.    *)
LEMMA CallMoves ==
  ASSUME PageInv, RequestsInv, RequestsInv', [RequestsNext]_requestVars,
         UNCHANGED screenVars,
         conn' \in {"up", "stale", "down"}, owed' \in SUBSET Ids, drops' \in 0..MaxDrops,
         NEW j \in Calls, call' \in [Calls -> CallType],
         \A k \in Calls : k # j => call'[k] = call[k],
         call'[j].amount = call[j].amount, call'[j].number = call[j].number,
         call'[j].live = call[j].live, InFlight(j)' <=> InFlight(j), Bought(j)'
  PROVE  PageInv'
<1>1. /\ TypeOK /\ NumbersDiffer /\ ClosedIsBlank /\ SpinnerHasCall /\ InvoiceForAmount
      /\ \A k \in Calls : Bought(k) /\ Numbered(k) /\ ForAmount(k)
      /\ RequestsTypeOK' /\ SettledOnce'
  BY DEF PageInv, CallInv, RequestsInv
<1>2. /\ step' = step /\ invoice' = invoice /\ open' = open /\ amount' = amount
      /\ counter' = counter /\ armed' = armed /\ reconnected' = reconnected
      /\ hasChannels' = hasChannels
  BY DEF screenVars, shown, rest
<1>3. TypeOK'
  BY <1>1, <1>2 DEF TypeOK
<1>4. \A k \in Calls : /\ InFlight(k)' <=> InFlight(k)
                       /\ Applies(k)' <=> Applies(k)
                       /\ call'[k].amount = call[k].amount
                       /\ call'[k].live = call[k].live
                       /\ call'[k].number = call[k].number
  BY <1>2 DEF InFlight, Applies
<1>5. \A k \in Calls : Numbered(k)' /\ ForAmount(k)'
  BY <1>1, <1>2, <1>4 DEF Numbered, ForAmount
<1>6. \A k \in Calls : Bought(k)'
  <2> SUFFICES ASSUME NEW k \in Calls, k # j PROVE Bought(k)'
    OBVIOUS
  <2>1. <<k, "info">> \in Ids
    BY JitAssumption
  <2>2. outcome[<<k, "info">>] = "answered" => outcome'[<<k, "info">>] = "answered"
    BY <2>1, AnsweredStays
  <2> QED
    BY <1>1, <2>2 DEF Bought, InFlight
<1>7. NumbersDiffer' /\ ClosedIsBlank' /\ SpinnerHasCall' /\ InvoiceForAmount'
  BY <1>1, <1>2, <1>4 DEF NumbersDiffer, ClosedIsBlank, SpinnerHasCall, InvoiceForAmount
<1> QED
  BY <1>1, <1>3, <1>5, <1>6, <1>7 DEF PageInv, CallInv

(* Steps that move no call at all.                                          *)
LEMMA NoCallMoves ==
  ASSUME PageInv, RequestsInv, RequestsInv', [RequestsNext]_requestVars,
         UNCHANGED screenVars, UNCHANGED call,
         conn' \in {"up", "stale", "down"}, owed' \in SUBSET Ids, drops' \in 0..MaxDrops
  PROVE  PageInv'
<1>1. /\ TypeOK /\ NumbersDiffer /\ ClosedIsBlank /\ SpinnerHasCall /\ InvoiceForAmount
      /\ \A k \in Calls : Bought(k) /\ Numbered(k) /\ ForAmount(k)
      /\ RequestsTypeOK' /\ SettledOnce'
  BY DEF PageInv, CallInv, RequestsInv
<1>2. /\ step' = step /\ invoice' = invoice /\ open' = open /\ amount' = amount
      /\ counter' = counter /\ armed' = armed /\ reconnected' = reconnected
      /\ hasChannels' = hasChannels
  BY DEF screenVars, shown, rest
<1>3. TypeOK'
  BY <1>1, <1>2 DEF TypeOK
<1>4. \A k \in Calls : Numbered(k)' /\ ForAmount(k)'
  BY <1>1, <1>2 DEF Numbered, ForAmount, InFlight, Applies
<1>5. \A k \in Calls : Bought(k)'
  <2> SUFFICES ASSUME NEW k \in Calls PROVE Bought(k)'
    OBVIOUS
  <2>1. <<k, "info">> \in Ids
    BY JitAssumption
  <2>2. outcome[<<k, "info">>] = "answered" => outcome'[<<k, "info">>] = "answered"
    BY <2>1, AnsweredStays
  <2> QED
    BY <1>1, <2>2 DEF Bought, InFlight
<1>6. NumbersDiffer' /\ ClosedIsBlank' /\ SpinnerHasCall' /\ InvoiceForAmount'
  BY <1>1, <1>2 DEF NumbersDiffer, ClosedIsBlank, SpinnerHasCall, InvoiceForAmount,
                    InFlight, Applies
<1> QED
  BY <1>1, <1>3, <1>4, <1>5, <1>6 DEF PageInv, CallInv

(* The result of a call: it is applied only if it is of the latest request. *)
LEMMA FinishKeepsInv ==
  ASSUME PageInv, NEW j \in Calls, InFlight(j), NEW ok \in BOOLEAN, Finish(j, ok)
  PROVE  PageInv'
<1>1. /\ TypeOK /\ SettledOnce /\ NumbersDiffer /\ ClosedIsBlank
      /\ SpinnerHasCall /\ InvoiceForAmount
      /\ \A k \in Calls : Bought(k) /\ Numbered(k) /\ ForAmount(k)
  BY DEF PageInv, CallInv
<1>2. /\ open' = open /\ amount' = amount /\ counter' = counter /\ armed' = armed
      /\ reconnected' = reconnected /\ hasChannels' = hasChannels
      /\ pending' = pending /\ outbound' = outbound
      /\ outcome' = outcome /\ settled' = settled
      /\ conn' = conn /\ owed' = owed /\ drops' = drops
      /\ call' = [call EXCEPT ![j] = Ended]
  BY DEF Finish, rest, requestVars, wireVars
<1>3. Ended.pc = "end" /\ Ended.live = FALSE /\ Ended \in CallType
  BY DEF Ended, CallRecord, CallType
<1>4. /\ call' \in [Calls -> CallType] /\ call'[j] = Ended
      /\ \A k \in Calls : k # j => call'[k] = call[k]
  BY <1>1, <1>2, <1>3 DEF TypeOK
<1>5. SettledOnce' /\ RequestsTypeOK'
  BY <1>1, <1>2 DEF SettledOnce, TypeOK, RequestsTypeOK
<1>6. Bought(j)' /\ Numbered(j)' /\ ForAmount(j)'
  BY <1>3, <1>4 DEF Bought, Numbered, ForAmount, InFlight, Applies
<1>7. \A k \in Calls : k # j => Bought(k)' /\ Numbered(k)'
  BY <1>1, <1>2, <1>4 DEF Bought, Numbered, InFlight
<1>8. NumbersDiffer'
  BY <1>1, <1>3, <1>4 DEF NumbersDiffer
<1>9. CASE ~ Applies(j)
  <2>1. step' = step /\ invoice' = invoice
    BY <1>9 DEF Finish, shown
  <2>2. TypeOK'
    BY <1>1, <1>2, <1>4, <1>5, <2>1 DEF TypeOK
  <2>3. \A k \in Calls : k # j => ForAmount(k)'
    BY <1>1, <1>2, <1>4, <2>1 DEF ForAmount, Applies
  <2>4. SpinnerHasCall'
    BY <1>1, <1>2, <1>4, <1>9, <2>1 DEF SpinnerHasCall, InFlight, Applies
  <2>5. ClosedIsBlank' /\ InvoiceForAmount'
    BY <1>1, <1>2, <2>1 DEF ClosedIsBlank, InvoiceForAmount
  <2> QED
    BY <1>5, <1>6, <1>7, <1>8, <2>2, <2>3, <2>4, <2>5 DEF PageInv, CallInv
<1>10. CASE Applies(j)
  <2>1. /\ open /\ call[j].amount = amount /\ amount \in Amounts
        /\ call[j].live /\ call[j].number = counter
    BY <1>1, <1>10 DEF Numbered, ForAmount, Applies, Bought
  <2>2. \/ step' = "jit" /\ invoice' = InvoiceFor("jit", call[j].amount)
        \/ step' = "none" /\ invoice' = NoInvoice
    BY <1>10 DEF Finish
  <2>3. TypeOK'
    <3>1. step' \in Steps
      BY <2>2 DEF Steps
    <3>2. invoice' \in [kind : {"none", "standard", "jit"}, amount : Amounts \union {0}]
      BY <2>1, <2>2 DEF InvoiceFor, NoInvoice
    <3> QED
      BY <1>1, <1>2, <1>4, <1>5, <3>1, <3>2 DEF TypeOK
  <2>4. \A k \in Calls : k # j => ~ Applies(k)'
    BY <1>1, <1>2, <1>4, <2>1 DEF Applies, NumbersDiffer
  <2>5. SpinnerHasCall'
    BY <2>2 DEF SpinnerHasCall
  <2>6. ClosedIsBlank' /\ InvoiceForAmount'
    BY <1>2, <2>1, <2>2 DEF ClosedIsBlank, InvoiceForAmount, InvoiceFor
  <2> QED
    BY <1>5, <1>6, <1>7, <1>8, <2>3, <2>4, <2>5, <2>6 DEF PageInv, CallInv, ForAmount
<1> QED
  BY <1>9, <1>10
-----------------------------------------------------------------------------
(* What replacing fields of a call's record leaves of it.                   *)
LEMMA WithPc ==
  ASSUME NEW c \in CallType, NEW s \in {"info", "reconnect"}
  PROVE  /\ [c EXCEPT !.pc = s] \in CallType
         /\ [c EXCEPT !.pc = s].pc = s
         /\ [c EXCEPT !.pc = s].amount = c.amount
         /\ [c EXCEPT !.pc = s].number = c.number
         /\ [c EXCEPT !.pc = s].live = c.live
         /\ [c EXCEPT !.pc = s].menu = c.menu
         /\ [c EXCEPT !.pc = s].entry = c.entry
         /\ [c EXCEPT !.pc = s].expected = c.expected
  BY DEF CallType

LEMMA WithEntry ==
  ASSUME NEW c \in CallType, NEW i \in Nat
  PROVE  /\ [c EXCEPT !.pc = "buy", !.entry = i] \in CallType
         /\ [c EXCEPT !.pc = "buy", !.entry = i].pc = "buy"
         /\ [c EXCEPT !.pc = "buy", !.entry = i].amount = c.amount
         /\ [c EXCEPT !.pc = "buy", !.entry = i].number = c.number
         /\ [c EXCEPT !.pc = "buy", !.entry = i].live = c.live
         /\ [c EXCEPT !.pc = "buy", !.entry = i].menu = c.menu
         /\ [c EXCEPT !.pc = "buy", !.entry = i].entry = i
         /\ [c EXCEPT !.pc = "buy", !.entry = i].expected = c.expected
  BY DEF CallType

LEMMA WithExpected ==
  ASSUME NEW c \in CallType, NEW e \in Nat
  PROVE  /\ [c EXCEPT !.pc = "sign", !.expected = e] \in CallType
         /\ [c EXCEPT !.pc = "sign", !.expected = e].pc = "sign"
         /\ [c EXCEPT !.pc = "sign", !.expected = e].amount = c.amount
         /\ [c EXCEPT !.pc = "sign", !.expected = e].number = c.number
         /\ [c EXCEPT !.pc = "sign", !.expected = e].live = c.live
         /\ [c EXCEPT !.pc = "sign", !.expected = e].menu = c.menu
         /\ [c EXCEPT !.pc = "sign", !.expected = e].entry = c.entry
         /\ [c EXCEPT !.pc = "sign", !.expected = e].expected = e
  BY DEF CallType

LEMMA WithMenu ==
  ASSUME NEW c \in CallType, NEW m \in Menus
  PROVE  /\ [c EXCEPT !.menu = m] \in CallType
         /\ [c EXCEPT !.menu = m].pc = c.pc
         /\ [c EXCEPT !.menu = m].amount = c.amount
         /\ [c EXCEPT !.menu = m].number = c.number
         /\ [c EXCEPT !.menu = m].live = c.live
         /\ [c EXCEPT !.menu = m].menu = m
         /\ [c EXCEPT !.menu = m].entry = c.entry
         /\ [c EXCEPT !.menu = m].expected = c.expected
  BY DEF CallType

LEMMA WithoutPage ==
  ASSUME NEW c \in CallType
  PROVE  /\ [c EXCEPT !.live = FALSE, !.number = 0] \in CallType
         /\ [c EXCEPT !.live = FALSE, !.number = 0].pc = c.pc
         /\ [c EXCEPT !.live = FALSE, !.number = 0].amount = c.amount
         /\ [c EXCEPT !.live = FALSE, !.number = 0].number = 0
         /\ [c EXCEPT !.live = FALSE, !.number = 0].live = FALSE
         /\ [c EXCEPT !.live = FALSE, !.number = 0].menu = c.menu
         /\ [c EXCEPT !.live = FALSE, !.number = 0].entry = c.entry
         /\ [c EXCEPT !.live = FALSE, !.number = 0].expected = c.expected
  BY DEF CallType

LEMMA ReplacesCall ==
  ASSUME NEW j \in Calls, call \in [Calls -> CallType], NEW d \in CallType,
         call' = [call EXCEPT ![j] = d]
  PROVE  /\ call' \in [Calls -> CallType] /\ call'[j] = d
         /\ \A k \in Calls : k # j => call'[k] = call[k]
  OBVIOUS

(* Opening and closing the page, opened channels and payments.              *)
LEMMA ScreenKeepsInv ==
  ASSUME PageInv, OpenPage \/ ClosePage \/ ChannelOpens \/ PaymentSucceeds
  PROVE  PageInv'
<1>1. /\ TypeOK /\ SettledOnce /\ NumbersDiffer /\ ClosedIsBlank
      /\ SpinnerHasCall /\ InvoiceForAmount
      /\ \A k \in Calls : Bought(k) /\ Numbered(k) /\ ForAmount(k)
  BY DEF PageInv, CallInv
<1>2. /\ UNCHANGED <<requestVars, wireVars>>
      /\ pending' = pending /\ outbound' = outbound
      /\ outcome' = outcome /\ settled' = settled
      /\ conn' = conn /\ owed' = owed /\ drops' = drops
  BY DEF OpenPage, ClosePage, ChannelOpens, PaymentSucceeds, requestVars, wireVars
<1>3. SettledOnce' /\ RequestsTypeOK'
  BY <1>1, <1>2 DEF SettledOnce, TypeOK, RequestsTypeOK
<1>4. CASE OpenPage
  <2>1. /\ ~ open /\ open' = TRUE /\ amount' = amount /\ reconnected' = reconnected
        /\ hasChannels' = hasChannels /\ Effect(0, 0, reconnected)
        /\ amount = 0 /\ step = "none" /\ invoice = NoInvoice
    BY <1>1, <1>4 DEF OpenPage, ClosedIsBlank
  <2>2. /\ call' = call /\ counter' = 0 /\ armed' \in BOOLEAN
        /\ \/ step' = "none" /\ invoice' = NoInvoice
           \/ step' = "standard" /\ invoice' = InvoiceFor("standard", 0)
    BY <2>1 DEF Effect
  <2>3. TypeOK'
    <3>1. step' \in Steps /\ counter' \in Nat
      BY <2>2 DEF Steps
    <3>2. invoice' \in [kind : {"none", "standard", "jit"}, amount : Amounts \union {0}]
      BY <2>2 DEF InvoiceFor, NoInvoice
    <3> QED
      BY <1>1, <1>2, <1>3, <2>1, <2>2, <3>1, <3>2 DEF TypeOK
  <2>4. \A k \in Calls : Bought(k)' /\ Numbered(k)' /\ ForAmount(k)'
    BY <1>1, <1>2, <2>1, <2>2 DEF Bought, Numbered, ForAmount, InFlight, Applies
  <2>5. NumbersDiffer' /\ ClosedIsBlank' /\ SpinnerHasCall' /\ InvoiceForAmount'
    BY <1>1, <2>1, <2>2 DEF NumbersDiffer, ClosedIsBlank, SpinnerHasCall,
                            InvoiceForAmount, InvoiceFor, NoInvoice
  <2> QED
    BY <1>3, <2>3, <2>4, <2>5 DEF PageInv, CallInv
<1>5. CASE ClosePage
  <2>1. /\ open' = FALSE /\ amount' = 0 /\ step' = "none" /\ invoice' = NoInvoice
        /\ counter' = 0 /\ armed' = FALSE
        /\ call' = [k \in Calls |-> [call[k] EXCEPT !.live = FALSE, !.number = 0]]
        /\ reconnected' = reconnected /\ hasChannels' = hasChannels
    BY <1>5 DEF ClosePage
  <2>2. \A k \in Calls : /\ call'[k] \in CallType
                         /\ call'[k].live = FALSE /\ call'[k].pc = call[k].pc
                         /\ call'[k].amount = call[k].amount
                         /\ call'[k].menu = call[k].menu
                         /\ call'[k].entry = call[k].entry
                         /\ call'[k].expected = call[k].expected
    <3> SUFFICES ASSUME NEW k \in Calls
                 PROVE  /\ call'[k] \in CallType
                        /\ call'[k].live = FALSE /\ call'[k].pc = call[k].pc
                        /\ call'[k].amount = call[k].amount
                        /\ call'[k].menu = call[k].menu
                        /\ call'[k].entry = call[k].entry
                        /\ call'[k].expected = call[k].expected
      OBVIOUS
    <3>1. call[k] \in CallType
      BY <1>1 DEF TypeOK
    <3>2. call'[k] = [call[k] EXCEPT !.live = FALSE, !.number = 0]
      BY <2>1
    <3> QED
      BY <3>1, <3>2, WithoutPage
  <2>3. TypeOK'
    <3>1. call' \in [Calls -> CallType]
      BY <2>1, <2>2
    <3>2. invoice' \in [kind : {"none", "standard", "jit"}, amount : Amounts \union {0}]
      BY <2>1 DEF NoInvoice
    <3> QED
      BY <1>1, <1>2, <1>3, <2>1, <3>1, <3>2 DEF TypeOK, Steps
  <2>4. \A k \in Calls : Bought(k)' /\ Numbered(k)' /\ ForAmount(k)'
    BY <1>1, <1>2, <2>2 DEF Bought, Numbered, ForAmount, InFlight, Applies
  <2>5. NumbersDiffer' /\ ClosedIsBlank' /\ SpinnerHasCall' /\ InvoiceForAmount'
    BY <2>1, <2>2 DEF NumbersDiffer, ClosedIsBlank, SpinnerHasCall, InvoiceForAmount
  <2> QED
    BY <1>3, <2>3, <2>4, <2>5 DEF PageInv, CallInv
<1>6. CASE ChannelOpens
  <2>1. /\ hasChannels' = TRUE /\ open' = open /\ amount' = amount /\ step' = step
        /\ invoice' = invoice /\ counter' = counter /\ armed' = armed
        /\ reconnected' = reconnected /\ call' = call /\ ~ hasChannels
    BY <1>6 DEF ChannelOpens
  <2>2. TypeOK'
    BY <1>1, <1>2, <1>3, <2>1 DEF TypeOK
  <2>3. \A k \in Calls : Bought(k)' /\ Numbered(k)' /\ ForAmount(k)'
    BY <1>1, <1>2, <2>1 DEF Bought, Numbered, ForAmount, InFlight, Applies
  <2>4. NumbersDiffer' /\ ClosedIsBlank' /\ SpinnerHasCall' /\ InvoiceForAmount'
    BY <1>1, <2>1 DEF NumbersDiffer, ClosedIsBlank, SpinnerHasCall, InvoiceForAmount,
                      InFlight, Applies
  <2> QED
    BY <1>3, <2>2, <2>3, <2>4 DEF PageInv, CallInv
<1>7. CASE PaymentSucceeds
  <2>1. /\ step \in {"standard", "jit"} /\ step' = "success"
        /\ hasChannels' = hasChannels /\ open' = open /\ amount' = amount
        /\ invoice' = invoice /\ counter' = counter /\ armed' = armed
        /\ reconnected' = reconnected /\ call' = call
    BY <1>7 DEF PaymentSucceeds
  <2>2. TypeOK'
    BY <1>1, <1>2, <1>3, <2>1 DEF TypeOK, Steps
  <2>3. \A k \in Calls : Bought(k)' /\ Numbered(k)' /\ ForAmount(k)'
    BY <1>1, <1>2, <2>1 DEF Bought, Numbered, ForAmount, InFlight, Applies
  <2>4. NumbersDiffer' /\ ClosedIsBlank' /\ SpinnerHasCall' /\ InvoiceForAmount'
    BY <1>1, <2>1 DEF NumbersDiffer, ClosedIsBlank, SpinnerHasCall, InvoiceForAmount
  <2> QED
    BY <1>3, <2>2, <2>3, <2>4 DEF PageInv, CallInv
<1> QED
  BY <1>4, <1>5, <1>6, <1>7

(* The steps of requestJitInvoice, and the LSP's messages.                  *)
LEMMA GetInfoKeepsInv ==
  ASSUME PageInv, RequestsInv, RequestsInv', [RequestsNext]_requestVars,
         NEW j \in Calls, call[j].pc \in {"connect", "reconnect"}, GetInfo(j),
         UNCHANGED screenVars,
         conn' \in {"up", "stale", "down"}, owed' \in SUBSET Ids, drops' \in 0..MaxDrops
  PROVE  PageInv'
<1>1. call[j] \in CallType /\ call \in [Calls -> CallType] /\ Bought(j)
  BY DEF PageInv, TypeOK, CallInv
<1>2. call' = [call EXCEPT ![j] = [call[j] EXCEPT !.pc = "info"]]
  BY DEF GetInfo
<1>3. /\ call' \in [Calls -> CallType] /\ \A k \in Calls : k # j => call'[k] = call[k]
      /\ call'[j].amount = call[j].amount /\ call'[j].number = call[j].number
      /\ call'[j].live = call[j].live /\ call'[j].pc = "info"
  <2> DEFINE d == [call[j] EXCEPT !.pc = "info"]
  <2>1. /\ d \in CallType /\ d.amount = call[j].amount /\ d.number = call[j].number
        /\ d.live = call[j].live
        /\ d.pc = "info"
    BY <1>1, <1>2, WithPc
  <2>2. call' = [call EXCEPT ![j] = d]
    BY <1>1, <1>2
  <2> HIDE DEF d
  <2> QED
    BY <1>1, <2>1, <2>2, ReplacesCall
<1>4. (InFlight(j)' <=> InFlight(j)) /\ Bought(j)'
  BY <1>1, <1>3 DEF Bought, InFlight
<1> QED
  BY <1>3, <1>4, CallMoves

LEMMA CallStepKeepsInv ==
  ASSUME PageInv, RequestsInv, RequestsInv', [RequestsNext]_requestVars,
         NEW j \in Calls, CallStep(j)
  PROVE  PageInv'
<1>1. /\ call[j] \in CallType /\ call \in [Calls -> CallType] /\ Bought(j)
      /\ conn \in {"up", "stale", "down"} /\ owed \in SUBSET Ids /\ drops \in 0..MaxDrops
  BY DEF PageInv, TypeOK, CallInv
<1>2. CASE Connected(j)
  BY <1>1, <1>2, GetInfoKeepsInv DEF Connected
<1>3. CASE ConnectFails(j)
  <2>1. CASE call[j].pc = "connect" /\ conn # "down" /\ GetInfo(j)
               /\ UNCHANGED <<screenVars, wireVars>>
    BY <1>1, <2>1, GetInfoKeepsInv DEF wireVars
  <2>2. CASE /\ call[j].pc = "connect"
             /\ call' = [call EXCEPT ![j].pc = "reconnect"]
             /\ UNCHANGED <<requestVars, screenVars, wireVars>>
    <3>1. /\ call' \in [Calls -> CallType] /\ \A k \in Calls : k # j => call'[k] = call[k]
          /\ call'[j].amount = call[j].amount /\ call'[j].number = call[j].number
          /\ call'[j].live = call[j].live /\ call'[j].pc = "reconnect"
      <4> DEFINE d == [call[j] EXCEPT !.pc = "reconnect"]
      <4>1. /\ d \in CallType /\ d.amount = call[j].amount /\ d.number = call[j].number
            /\ d.live = call[j].live
            /\ d.pc = "reconnect"
        BY <1>1, <2>2, WithPc
      <4>2. call' = [call EXCEPT ![j] = d]
        BY <1>1, <2>2
      <4> HIDE DEF d
      <4> QED
        BY <1>1, <4>1, <4>2, ReplacesCall
    <3>2. (InFlight(j)' <=> InFlight(j)) /\ Bought(j)'
      BY <1>1, <2>2, <3>1 DEF Bought, InFlight
    <3> QED
      BY <1>1, <2>2, <3>1, <3>2, CallMoves DEF wireVars
  <2>3. CASE call[j].pc = "reconnect" /\ Finish(j, FALSE)
    BY <2>3, FinishKeepsInv DEF InFlight
  <2> QED
    BY <1>3, <2>1, <2>2, <2>3 DEF ConnectFails
<1>4. CASE Buy(j)
  <2>1. PICK i \in Selected(call[j].menu, call[j].amount) :
          call' = [call EXCEPT ![j].pc = "buy", ![j].entry = i]
    BY <1>4 DEF Buy
  <2>2. /\ call[j].pc = "info" /\ outcome[<<j, "info">>] = "answered"
        /\ UNCHANGED screenVars /\ UNCHANGED wireVars
    BY <1>4 DEF Buy
  <2>3. call[j].amount \in Amounts
    BY <1>1, <2>2 DEF Bought, InFlight
  <2>4. call[j].menu \in Menus /\ i \in Nat
    <3>1. call[j].menu \in Menus \union {<<>>} /\ i \in DOMAIN call[j].menu
      BY <1>1 DEF CallType, Selected
    <3>2. call[j].menu # <<>>
      BY <3>1
    <3>3. call[j].menu \in Seq(FeeParams)
      BY <3>1, <3>2, JitAssumption
    <3> QED
      BY <3>1, <3>2, <3>3
  <2>5. call' = [call EXCEPT ![j] = [call[j] EXCEPT !.pc = "buy", !.entry = i]]
    BY <1>1, <2>1
  <2>6. /\ call' \in [Calls -> CallType] /\ \A k \in Calls : k # j => call'[k] = call[k]
        /\ call'[j].amount = call[j].amount /\ call'[j].number = call[j].number
        /\ call'[j].live = call[j].live /\ call'[j].pc = "buy"
        /\ call'[j].menu = call[j].menu /\ call'[j].entry = i
    <3> DEFINE d == [call[j] EXCEPT !.pc = "buy", !.entry = i]
    <3>1. /\ d \in CallType /\ d.amount = call[j].amount /\ d.number = call[j].number
          /\ d.live = call[j].live
          /\ d.pc = "buy" /\ d.menu = call[j].menu /\ d.entry = i
      BY <1>1, <2>4, <2>5, WithEntry
    <3>2. call' = [call EXCEPT ![j] = d]
      BY <1>1, <2>4, <2>5
    <3> HIDE DEF d
    <3> QED
      BY <1>1, <3>1, <3>2, ReplacesCall
  <2>7. outcome'[<<j, "info">>] = "answered"
    BY <2>2, AnsweredStays, JitAssumption
  <2>8. (InFlight(j)' <=> InFlight(j)) /\ Bought(j)'
    BY <2>2, <2>3, <2>4, <2>6, <2>7 DEF Bought, InFlight
  <2> QED
    BY <1>1, <2>2, <2>6, <2>8, CallMoves DEF wireVars
<1>5. CASE Register(j)
  <2> DEFINE fee == OpeningFee(call[j].amount, call[j].menu[call[j].entry])
  <2>1. /\ call[j].pc = "buy" /\ UNCHANGED <<requestVars, screenVars, wireVars>>
        /\ call' = [call EXCEPT ![j].pc = "sign", ![j].expected = call[j].amount - fee]
    BY <1>5 DEF Register
  <2>2. /\ call[j].amount \in Amounts /\ call[j].menu \in Menus
        /\ call[j].entry \in Selected(call[j].menu, call[j].amount)
        /\ outcome[<<j, "info">>] = "answered"
    BY <1>1, <2>1 DEF Bought, InFlight
  <2>3. call[j].amount - fee \in Nat
    <3>1. call[j].amount \in Nat /\ call[j].menu \in Seq(FeeParams)
      BY <2>2, JitAssumption
    <3>2. call[j].amount - fee \in 1..call[j].amount
      BY <2>2, <3>1, SelectedPaysOut
    <3> QED
      BY <3>1, <3>2
  <2> HIDE DEF fee
  <2>4. call' = [call EXCEPT ![j] = [call[j] EXCEPT !.pc = "sign",
                                                    !.expected = call[j].amount - fee]]
    BY <1>1, <2>1
  <2>5. /\ call' \in [Calls -> CallType] /\ \A k \in Calls : k # j => call'[k] = call[k]
        /\ call'[j].amount = call[j].amount /\ call'[j].number = call[j].number
        /\ call'[j].live = call[j].live /\ call'[j].pc = "sign"
        /\ call'[j].menu = call[j].menu /\ call'[j].entry = call[j].entry
        /\ call'[j].expected = call[j].amount - fee
    <3> DEFINE d == [call[j] EXCEPT !.pc = "sign", !.expected = call[j].amount - fee]
    <3>1. /\ d \in CallType /\ d.amount = call[j].amount /\ d.number = call[j].number
          /\ d.live = call[j].live
          /\ d.pc = "sign" /\ d.menu = call[j].menu /\ d.entry = call[j].entry
          /\ d.expected = call[j].amount - fee
      BY <1>1, <2>3, <2>4, WithExpected
    <3>2. call' = [call EXCEPT ![j] = d]
      BY <1>1, <2>3, <2>4
    <3> HIDE DEF d
    <3> QED
      BY <1>1, <3>1, <3>2, ReplacesCall
  <2>6. outcome'[<<j, "info">>] = "answered"
    BY <2>2, AnsweredStays, JitAssumption
  <2>7. (InFlight(j)' <=> InFlight(j)) /\ Bought(j)'
    BY <2>1, <2>2, <2>5, <2>6 DEF Bought, InFlight, fee
  <2> QED
    BY <1>1, <2>1, <2>5, <2>7, CallMoves DEF wireVars
<1>6. CASE RequestFails(j) \/ Signed(j)
  BY <1>6, FinishKeepsInv DEF RequestFails, Signed, InFlight
<1> QED
  BY <1>2, <1>3, <1>4, <1>5, <1>6 DEF CallStep

LEMMA MessageKeepsInv ==
  ASSUME PageInv, RequestsInv, RequestsInv', [RequestsNext]_requestVars,
         NEW id \in Ids, NEW p \in Peers, Message(id, p)
  PROVE  PageInv'
<1>1. /\ call \in [Calls -> CallType] /\ \A j \in Calls : Bought(j)
      /\ conn \in {"up", "stale", "down"} /\ owed \in SUBSET Ids /\ drops \in 0..MaxDrops
  BY DEF PageInv, TypeOK, CallInv
<1>2. /\ UNCHANGED screenVars /\ conn' = conn /\ drops' = drops /\ owed' \in SUBSET Ids
  BY <1>1 DEF Message
<1>3. CASE UNCHANGED call
  BY <1>1, <1>2, <1>3, NoCallMoves
<1>4. CASE id[2] = "info" /\ outcome[id] = "open"
             /\ \E m \in Menus : call' = [call EXCEPT ![id[1]].menu = m]
  <2>1. PICK m \in Menus : call' = [call EXCEPT ![id[1]].menu = m]
    BY <1>4
  <2>2. PICK j \in Calls : id = <<j, "info">>
    BY <1>4, JitAssumption
  <2>3. call' = [call EXCEPT ![j] = [call[j] EXCEPT !.menu = m]]
    BY <2>1, <2>2
  <2>4. /\ call' \in [Calls -> CallType] /\ \A k \in Calls : k # j => call'[k] = call[k]
        /\ call'[j].amount = call[j].amount /\ call'[j].number = call[j].number
        /\ call'[j].live = call[j].live /\ call'[j].pc = call[j].pc
    <3> DEFINE d == [call[j] EXCEPT !.menu = m]
    <3>1. /\ d \in CallType /\ d.amount = call[j].amount /\ d.number = call[j].number
          /\ d.live = call[j].live
          /\ d.pc = call[j].pc
      BY <1>1, <2>3, WithMenu
    <3>2. call' = [call EXCEPT ![j] = d]
      BY <1>1, <2>3
    <3> HIDE DEF d
    <3> QED
      BY <1>1, <3>1, <3>2, ReplacesCall
  <2>5. call[j].pc \notin {"buy", "sign"}
    BY <1>1, <1>4, <2>2 DEF Bought
  <2>6. (InFlight(j)' <=> InFlight(j)) /\ Bought(j)'
    BY <1>1, <2>4, <2>5 DEF Bought, InFlight
  <2> QED
    BY <1>1, <1>2, <2>4, <2>6, CallMoves
<1> QED
  BY <1>3, <1>4 DEF Message
-----------------------------------------------------------------------------
LEMMA PageNextInv == PageInv /\ RequestsInv /\ [Next]_vars => PageInv' /\ RequestsInv'
<1> SUFFICES ASSUME PageInv, RequestsInv, [Next]_vars PROVE PageInv' /\ RequestsInv'
  OBVIOUS
<1>1. [RequestsNext]_requestVars /\ RequestsInv'
  BY StepIsRequestsStep, RequestsNextInv
<1>2. /\ TypeOK /\ conn \in {"up", "stale", "down"} /\ owed \in SUBSET Ids
      /\ drops \in 0..MaxDrops /\ amount \in Amounts \union {0} /\ reconnected \in BOOLEAN
  BY DEF PageInv, TypeOK
<1>3. CASE OpenPage \/ ClosePage \/ ChannelOpens \/ PaymentSucceeds
  BY <1>1, <1>3, ScreenKeepsInv
<1>4. ASSUME NEW a \in Amounts \union {0}, SetAmount(a) PROVE PageInv'
  BY <1>2, <1>4, EffectKeepsInv DEF SetAmount
<1>5. CASE PeersReconnected
  <2>1. CASE open
    BY <1>1, <1>2, <1>5, <2>1, EffectKeepsInv DEF PeersReconnected
  <2>2. CASE ~ open
    <3>1. /\ step' = step /\ invoice' = invoice /\ counter' = counter /\ armed' = armed
          /\ call' = call /\ open' = open /\ amount' = amount
          /\ hasChannels' = hasChannels /\ reconnected' = TRUE
          /\ pending' = pending /\ outbound' = outbound
          /\ outcome' = outcome /\ settled' = settled
          /\ conn' = conn /\ owed' = owed /\ drops' = drops
      BY <1>5, <2>2 DEF PeersReconnected, requestVars, wireVars
    <3>2. TypeOK' /\ SettledOnce' /\ NumbersDiffer' /\ ClosedIsBlank'
      BY <1>2, <3>1 DEF PageInv, TypeOK, RequestsTypeOK, SettledOnce, NumbersDiffer,
                        ClosedIsBlank
    <3>3. SpinnerHasCall' /\ InvoiceForAmount'
      BY <2>2, <3>1 DEF PageInv, SpinnerHasCall, InvoiceForAmount, InFlight, Applies
    <3>4. \A k \in Calls : CallInv(k)'
      BY <3>1 DEF PageInv, CallInv, Bought, Numbered, ForAmount, InFlight, Applies
    <3> QED
      BY <1>1, <3>2, <3>3, <3>4 DEF PageInv
  <2> QED
    BY <2>1, <2>2
<1>6. ASSUME NEW j \in Calls, CallStep(j) PROVE PageInv'
  BY <1>1, <1>6, CallStepKeepsInv
<1>7. CASE Flush
  <2>1. owed' \in SUBSET Ids
    <3>1. outbound \in SUBSET Request
      BY <1>2 DEF TypeOK, RequestsTypeOK
    <3> QED
      BY <1>2, <1>7, <3>1 DEF Flush, Request
  <2> QED
    BY <1>1, <1>2, <1>7, <2>1, NoCallMoves DEF Flush
<1>8. ASSUME NEW id \in Ids, NEW p \in Peers, Message(id, p) PROVE PageInv'
  BY <1>1, <1>8, MessageKeepsInv
<1>9. CASE SocketDies
  <2>1. drops' \in 0..MaxDrops
    BY <1>2, <1>9, JitAssumption DEF SocketDies
  <2> QED
    BY <1>1, <1>2, <1>9, <2>1, NoCallMoves DEF SocketDies
<1>10. CASE LdkNotices \/ ConnectedElsewhere
  BY <1>1, <1>2, <1>10, NoCallMoves DEF LdkNotices, ConnectedElsewhere
<1>11. ASSUME NEW S \in SUBSET pending, ReapSome(S) PROVE PageInv'
  BY <1>1, <1>2, <1>11, NoCallMoves DEF ReapSome, wireVars
<1>12. CASE UNCHANGED vars
  BY <1>1, <1>2, <1>12, NoCallMoves DEF vars, wireVars
<1> QED
  BY <1>1, <1>3, <1>4, <1>5, <1>6, <1>7, <1>8, <1>9, <1>10, <1>11, <1>12 DEF Next

LEMMA Invariance == Spec => [](PageInv /\ RequestsInv)
<1>1. Init => PageInv /\ RequestsInv
  BY PageInitInv, RequestsInitInv DEF Init
<1> QED
  BY <1>1, PageNextInv, PTL DEF Spec

(* The page, the calls, the table and the connection keep their types; in   *)
(* particular what a call expects to receive is never negative.             *)
THEOREM JitTypeCorrect == Spec => []TypeOK
<1>1. PageInv => TypeOK
  BY DEF PageInv
<1> QED
  BY <1>1, Invariance, PTL

(* The QR code asks for the amount on screen (Receive.tsx 124-154), for any *)
(* amounts and any number of requests.                                      *)
THEOREM InvoiceMatchesAmount == Spec => []InvoiceForAmount
<1>1. PageInv => InvoiceForAmount
  BY DEF PageInv
<1> QED
  BY <1>1, Invariance, PTL

(* No rerun of the effect leaves the spinner without a request whose result *)
(* will replace it.                                                         *)
THEOREM SpinnerNeverOrphaned == Spec => []SpinnerHasCall
<1>1. PageInv => SpinnerHasCall
  BY DEF PageInv
<1> QED
  BY <1>1, Invariance, PTL

(* A JIT invoice is backed by a registered payment of a positive amount, at *)
(* the lowest fee an ordered menu allows, for any menus and word size.      *)
THEOREM JitInvoicePaysOut == Spec => []ExpectedReceive
<1>1. PageInv => ExpectedReceive
  <2> SUFFICES ASSUME PageInv, NEW j \in Calls, call[j].pc = "sign"
               PROVE  LET c == call[j]
                          fp == c.menu[c.entry]
                          usable == {i \in DOMAIN c.menu :
                                       /\ Fits(c.amount, c.menu[i])
                                       /\ ~ Overflows(c.amount, c.menu[i])
                                       /\ OpeningFee(c.amount, c.menu[i]) < c.amount}
                      IN /\ c.expected \in 1..c.amount
                         /\ c.amount * fp.proportional <= (c.amount - c.expected) * Million
                         /\ Ordered(c.menu, c.amount) =>
                              \A i \in usable :
                                c.expected >= c.amount - OpeningFee(c.amount, c.menu[i])
    BY DEF ExpectedReceive
  <2> DEFINE a == call[j].amount
             menu == call[j].menu
             e == call[j].entry
             fee == OpeningFee(a, menu[e])
  <2>1. /\ a \in Nat /\ menu \in Seq(FeeParams) /\ e \in Selected(menu, a)
        /\ call[j].expected = a - fee
    BY JitAssumption DEF PageInv, CallInv, Bought, InFlight
  <2>2. menu[e] \in FeeParams /\ e \in DOMAIN menu /\ a - fee \in 1..a
    BY <2>1, SelectedPaysOut
  <2>3. fee \in Nat /\ a * menu[e].proportional <= fee * Million
    BY <2>1, <2>2, FeeCoversTerms
  <2>4. a - (a - fee) = fee
    BY <2>1, <2>3
  <2>5. ASSUME Ordered(menu, a), NEW i \in DOMAIN menu, Fits(a, menu[i]),
               OpeningFee(a, menu[i]) < a
        PROVE  a - fee >= a - OpeningFee(a, menu[i])
    <3>1. Stops(a, menu[i])
      BY <2>5 DEF Stops
    <3>2. fee <= OpeningFee(a, menu[i])
      BY <2>1, <2>5, <3>1, SelectedIsCheapest
    <3>3. OpeningFee(a, menu[i]) \in Nat
      <4>1. menu[i] \in FeeParams
        BY <2>1, <2>5
      <4> HIDE DEF menu, a
      <4> QED
        BY <2>1, <4>1, FeeCoversTerms
    <3> HIDE DEF a, menu, fee
    <3> QED
      BY <2>1, <2>3, <3>2, <3>3
  <2> QED
    BY <2>1, <2>2, <2>3, <2>4, <2>5
<1> QED
  BY <1>1, Invariance, PTL

(* Requests only go to the LSP, so only its messages resolve them.          *)
AddressedToLsp == \A r \in pending : r.peer = Lsp

LEMMA AddressedNext == AddressedToLsp /\ [Next]_vars => AddressedToLsp'
<1> SUFFICES ASSUME AddressedToLsp, [Next]_vars PROVE AddressedToLsp'
  OBVIOUS
<1>1. ASSUME NEW id, SendRequest(id, Lsp) PROVE AddressedToLsp'
  BY <1>1 DEF SendRequest, AddressedToLsp
<1>2. ASSUME pending' \in SUBSET pending PROVE AddressedToLsp'
  BY <1>2 DEF AddressedToLsp
<1>3. ASSUME NEW j \in Calls, CallStep(j) PROVE AddressedToLsp'
  <2>1. CASE GetInfo(j) \/ Buy(j)
    BY <1>1, <2>1 DEF GetInfo, Buy
  <2>2. CASE UNCHANGED requestVars
    BY <1>2, <2>2 DEF requestVars
  <2> QED
    BY <1>3, <2>1, <2>2 DEF CallStep, Connected, ConnectFails, Register, RequestFails,
                            Signed, Finish
<1>4. CASE \/ UNCHANGED vars \/ OpenPage \/ ClosePage \/ PeersReconnected
           \/ ChannelOpens \/ PaymentSucceeds \/ SocketDies \/ ConnectedElsewhere
           \/ \E a \in Amounts \union {0} : SetAmount(a)
  BY <1>2, <1>4 DEF vars, OpenPage, ClosePage, PeersReconnected, ChannelOpens,
              PaymentSucceeds, SocketDies, ConnectedElsewhere, SetAmount, requestVars
<1>5. CASE \/ Flush \/ LdkNotices
           \/ \E id \in Ids, p \in Peers : Message(id, p)
           \/ \E S \in SUBSET pending : ReapSome(S)
  BY <1>2, <1>5 DEF Flush, LdkNotices, Message, ReapSome, GetAndClearPendingMsg,
              PeerDisconnected, HandleCustomMessage, Reap, Drop
<1> QED
  BY <1>3, <1>4, <1>5 DEF Next

(* A request is only ever resolved by an answer the LSP gave to it on a     *)
(* live connection (message-handler.ts 120-127).                            *)
THEOREM OnlyLspAnswers == Spec => AnsweredByLsp
<1> DEFINE Rule == \A id \in Ids : outcome[id] = "open" /\ outcome'[id] = "answered"
                      => id \in owed /\ conn = "up"
<1>1. PageInv /\ AddressedToLsp /\ [Next]_vars => [Rule]_vars
  <2> SUFFICES ASSUME PageInv, AddressedToLsp, Next,
                      NEW id \in Ids, outcome[id] = "open", outcome'[id] = "answered"
               PROVE  id \in owed /\ conn = "up"
    OBVIOUS
  <2>1. outcome \in [Ids -> Outcomes]
    BY DEF PageInv, TypeOK, RequestsTypeOK
  <2>2. ASSUME NEW i \in Ids, SendRequest(i, Lsp) PROVE FALSE
    BY <2>1, <2>2 DEF SendRequest, Settle
  <2>3. ASSUME NEW S, Drop(S, "rejected") PROVE FALSE
    BY <2>1, <2>3 DEF Drop, Settle
  <2>4. ASSUME outcome' = outcome PROVE FALSE
    BY <2>1, <2>4
  <2>5. ASSUME NEW j \in Calls, CallStep(j) PROVE FALSE
    <3>1. <<j, "info">> \in Ids /\ <<j, "buy">> \in Ids
      BY JitAssumption
    <3>2. CASE GetInfo(j) \/ Buy(j)
      BY <2>2, <3>1, <3>2 DEF GetInfo, Buy
    <3>3. CASE UNCHANGED requestVars
      BY <2>4, <3>3 DEF requestVars
    <3> QED
      BY <2>5, <3>2, <3>3 DEF CallStep, Connected, ConnectFails, Register, RequestFails,
                              Signed, Finish
  <2>6. CASE \/ OpenPage \/ ClosePage \/ PeersReconnected \/ Flush
             \/ ChannelOpens \/ PaymentSucceeds \/ SocketDies \/ ConnectedElsewhere
             \/ \E a \in Amounts \union {0} : SetAmount(a)
    BY <2>4, <2>6 DEF OpenPage, ClosePage, PeersReconnected, ChannelOpens, Flush,
          GetAndClearPendingMsg, PaymentSucceeds, SocketDies, ConnectedElsewhere,
          SetAmount, requestVars
  <2>7. CASE LdkNotices \/ \E S \in SUBSET pending : ReapSome(S)
    BY <2>3, <2>7 DEF LdkNotices, ReapSome, PeerDisconnected, Reap
  <2>8. ASSUME NEW i \in Ids, NEW p \in Peers, Message(i, p)
        PROVE  id \in owed /\ conn = "up"
    <3>1. Drop({r \in pending : r.id = i /\ r.peer = p}, "answered")
      BY <2>8 DEF Message, HandleCustomMessage
    <3>2. \E r \in pending : r.id = i /\ r.peer = p /\ r.id = id
      BY <2>1, <3>1 DEF Drop, Settle
    <3>3. i = id /\ p = Lsp
      BY <3>2 DEF AddressedToLsp
    <3> QED
      BY <2>8, <3>3 DEF Message
  <2> QED
    BY <2>5, <2>6, <2>7, <2>8 DEF Next
<1>2. Init => AddressedToLsp
  BY DEF Init, RequestsInit, AddressedToLsp
<1>3. Spec => []AddressedToLsp
  BY <1>2, AddressedNext, PTL DEF Spec
<1> QED
  BY <1>1, <1>3, Invariance, PTL DEF Spec, AnsweredByLsp
=============================================================================
