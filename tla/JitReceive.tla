----------------------------- MODULE JitReceive -----------------------------
(***************************************************************************)
(* The Request screen (src/pages/Receive.tsx) and what it drives: when the *)
(* wallet has too little inbound capacity it asks the LSP for a channel to *)
(* be opened just in time (requestJitInvoice of src/ldk/context.tsx: make  *)
(* sure of a connection, lsps2.get_info, lsps2.buy, sign an invoice).  The *)
(* request table is LspsRequests, the fee arithmetic OpeningFees.          *)
(*                                                                         *)
(* The screen's effect runs again when the amount or peersReconnected      *)
(* changes; requests already running are not cancelled, a counter is to    *)
(* keep their results off the screen.  What list_channels answers is read  *)
(* when the effect runs and may have changed between any two runs; that    *)
(* the wallet has channels at all is a variable, as the screen shows a     *)
(* spinner on it, and channels are taken to open but not to vanish.        *)
(*                                                                         *)
(* A connection to the LSP is `up', `stale' (the socket died, LDK has not  *)
(* noticed) or `down'.  LDK refuses a second connection to a peer it still *)
(* lists, so connecting succeeds only from `down'.                         *)
(***************************************************************************)
EXTENDS LspsRequests, OpeningFees

CONSTANTS
  Lsp,         \* LDK_CONFIG.lspNodeId
  Amounts,     \* amounts the user asks for; 0 stands for no amount
  Menus,       \* fee menus the LSP may answer with
  MaxCalls,    \* bound: requestJitInvoice calls
  MaxEdits,    \* bound: the counter up to which the amount is edited
  MaxDrops     \* bound: connections to the LSP that die

Calls == 1..MaxCalls

ASSUME JitAssumption ==
  /\ Ids = Calls \X {"info", "buy"}
  /\ Lsp \in Peers
  /\ Amounts \subseteq Nat \ {0}
  /\ Menus \subseteq Seq(FeeParams)
  /\ MaxCalls \in Nat /\ MaxEdits \in Nat /\ MaxDrops \in Nat

VARIABLES
  open,          \* the page is mounted
  amount,        \* confirmedAmountDigits
  step,          \* receiveState, with the path of 'ready' for its name
  invoice,       \* the invoice shown
  counter,       \* requestCounterRef
  armed,         \* the last run of the effect left a cleanup function
  reconnected,   \* peersReconnected
  hasChannels,   \* list_channels is not empty
  call,          \* the requestJitInvoice calls
  conn,          \* the connection to the LSP
  owed,          \* requests the LSP got on this connection and has not answered
  drops          \* connections that died so far

shown == <<step, invoice>>
rest == <<open, amount, counter, armed, reconnected, hasChannels>>
screenVars == <<shown, rest>>
wireVars == <<conn, owed, drops>>
vars == <<requestVars, screenVars, call, wireVars>>

NoInvoice == [kind |-> "none", amount |-> 0]
InvoiceFor(kind, a) == [kind |-> kind, amount |-> a]
Steps == {"none", "standard", "jit", "negotiating", "success"}

CallRecord(pc, a, number, live) ==
  [pc |-> pc, amount |-> a, number |-> number, live |-> live,
   menu |-> <<>>, entry |-> 0, expected |-> 0]
NoCall == CallRecord("unused", 0, 0, FALSE)
Ended == CallRecord("end", 0, 0, FALSE)

InFlight(j) == call[j].pc \notin {"unused", "end"}

Init ==
  /\ RequestsInit
  /\ open = FALSE /\ amount = 0 /\ step = "none" /\ invoice = NoInvoice
  /\ counter = 0 /\ armed = FALSE
  /\ reconnected = FALSE
  /\ hasChannels \in BOOLEAN
  /\ call = [j \in Calls |-> NoCall]
  /\ conn = "down" /\ owed = {} /\ drops = 0

-----------------------------------------------------------------------------
(* The page.                                                               *)

\* Faulty variant: thisRequest = requestCounterRef.current++.
StartCallPostIncrement(a, number) ==
  \E j \in Calls :
    /\ call[j].pc = "unused" /\ \A k \in 1..(j - 1) : call[k].pc # "unused"
    /\ call' = [call EXCEPT ![j] = CallRecord("connect", a, number - 1, TRUE)]

\* requestJitInvoice up to its first await: connectAndTrack.
StartCall(a, number) ==
  \E j \in Calls :
    /\ call[j].pc = "unused" /\ \A k \in 1..(j - 1) : call[k].pc # "unused"
    /\ call' = [call EXCEPT ![j] = CallRecord("connect", a, number, TRUE)]

\* The invoice effect, with the channels as list_channels now shows them.
Effect(a, before, pr) ==
  \/ /\ ~ pr /\ hasChannels
     /\ counter' = before /\ armed' = FALSE
     /\ UNCHANGED <<step, invoice, call>>
  \/ /\ pr \/ ~ hasChannels
     /\ \E usable \in {FALSE, hasChannels}, inbound \in Amounts \union {0} :
          LET needsJit == IF a = 0 THEN ~ usable ELSE inbound < a
          IN /\ inbound > 0 => usable
             /\ \/ /\ needsJit /\ a = 0
                   /\ step' = "none" /\ invoice' = NoInvoice
                   /\ counter' = before /\ armed' = FALSE
                   /\ UNCHANGED call
                \/ /\ needsJit /\ a # 0
                   /\ step' = "negotiating" /\ invoice' = NoInvoice
                   /\ counter' = before + 1 /\ armed' = FALSE
                   /\ StartCall(a, before + 1)
                \/ /\ ~ needsJit
                   /\ \/ step' = "standard" /\ invoice' = InvoiceFor("standard", a)
                      \/ step' = "none" /\ invoice' = NoInvoice
                   /\ counter' = before /\ armed' = TRUE
                   /\ UNCHANGED call

\* React runs the cleanup of the last run, then the effect.
RunEffect(a, pr) == Effect(a, IF armed THEN counter + 1 ELSE counter, pr)

OpenPage ==
  /\ ~ open
  /\ open' = TRUE /\ Effect(0, 0, reconnected)
  /\ UNCHANGED <<amount, reconnected, hasChannels, requestVars, wireVars>>

\* Calls of an unmounted page have no screen left to change.
ClosePage ==
  /\ open
  /\ open' = FALSE /\ amount' = 0 /\ step' = "none" /\ invoice' = NoInvoice
  /\ counter' = 0 /\ armed' = FALSE
  /\ call' = [j \in Calls |-> [call[j] EXCEPT !.live = FALSE, !.number = 0]]
  /\ UNCHANGED <<reconnected, hasChannels, requestVars, wireVars>>

\* handleConfirmAmount, handleRemoveAmount: the numpad is not rendered while
\* a request is negotiated or after a payment.
SetAmount(a) ==
  /\ open /\ step \notin {"negotiating", "success"} /\ a # amount
  /\ counter < MaxEdits
  /\ amount' = a /\ RunEffect(a, reconnected)
  /\ UNCHANGED <<open, reconnected, hasChannels, requestVars, wireVars>>

\* The start-up reconnection ends and re-renders a page that is open.
PeersReconnected ==
  /\ ~ reconnected
  /\ reconnected' = TRUE
  /\ IF open THEN RunEffect(amount, TRUE)
             ELSE UNCHANGED <<step, invoice, counter, armed, call>>
  /\ UNCHANGED <<open, amount, hasChannels, requestVars, wireVars>>

ChannelOpens ==
  /\ ~ hasChannels
  /\ hasChannels' = TRUE
  /\ UNCHANGED <<open, amount, step, invoice, counter, armed, reconnected,
                 call, requestVars, wireVars>>

\* The payment history shows the invoice on screen as paid.
PaymentSucceeds ==
  /\ step \in {"standard", "jit"}
  /\ step' = "success"
  /\ UNCHANGED <<open, amount, invoice, counter, armed, reconnected, hasChannels,
                 call, requestVars, wireVars>>

-----------------------------------------------------------------------------
(* requestJitInvoice, from one await to the next.                          *)

GetInfo(j) ==
  /\ call' = [call EXCEPT ![j].pc = "info"]
  /\ SendRequest(<<j, "info">>, Lsp)

\* Faulty variant: every result of a mounted page is applied.
AppliesAlways(j) == call[j].live

\* The page's .then and .catch: only the latest request's result is applied.
Applies(j) == call[j].live /\ call[j].number = counter

Finish(j, ok) ==
  /\ call' = [call EXCEPT ![j] = Ended]
  /\ IF ~ Applies(j) THEN UNCHANGED shown
     ELSE IF ok THEN step' = "jit" /\ invoice' = InvoiceFor("jit", call[j].amount)
     ELSE step' = "none" /\ invoice' = NoInvoice
  /\ UNCHANGED <<rest, requestVars, wireVars>>

Connected(j) ==
  /\ call[j].pc \in {"connect", "reconnect"} /\ conn = "down"
  /\ conn' = "up"
  /\ GetInfo(j)
  /\ UNCHANGED <<screenVars, owed, drops>>

\* The handshake fails or times out: if LDK lists the LSP all the same, go on
\* with that connection, else try once more.
ConnectFails(j) ==
  \/ /\ call[j].pc = "connect" /\ conn # "down"
     /\ GetInfo(j)
     /\ UNCHANGED <<screenVars, wireVars>>
  \/ /\ call[j].pc = "connect" /\ conn = "down"
     /\ call' = [call EXCEPT ![j].pc = "reconnect"]
     /\ UNCHANGED <<requestVars, screenVars, wireVars>>
  \/ /\ call[j].pc = "reconnect"
     /\ Finish(j, FALSE)

\* getOpeningFeeParams returned a menu with an entry for the amount that does
\* not expire too soon: lsps2.buy.
Buy(j) ==
  /\ call[j].pc = "info" /\ outcome[<<j, "info">>] = "answered"
  /\ \E i \in Selected(call[j].menu, call[j].amount) :
       call' = [call EXCEPT ![j].pc = "buy", ![j].entry = i]
  /\ SendRequest(<<j, "buy">>, Lsp)
  /\ UNCHANGED <<screenVars, wireVars>>

\* buyChannel returned: create_inbound_payment for what is left after the fee.
Register(j) ==
  /\ call[j].pc = "buy" /\ outcome[<<j, "buy">>] = "answered"
  /\ LET fee == OpeningFee(call[j].amount, call[j].menu[call[j].entry])
     IN call' = [call EXCEPT ![j].pc = "sign", ![j].expected = call[j].amount - fee]
  /\ UNCHANGED <<requestVars, screenVars, wireVars>>

\* The request was not answered, or the answer is an error, malformed, about
\* to expire or without an entry for the amount.
RequestFails(j) ==
  /\ call[j].pc \in {"info", "buy"}
  /\ outcome[<<j, call[j].pc>>] # "open"
  /\ Finish(j, FALSE)

\* The invoice is signed by the node, which may fail.
Signed(j) == call[j].pc = "sign" /\ \E ok \in BOOLEAN : Finish(j, ok)

-----------------------------------------------------------------------------
(* The connection and the LSP.                                             *)

\* LDK sends what was queued; without a live connection it gets nowhere.
Flush ==
  /\ outbound # {}
  /\ GetAndClearPendingMsg
  /\ owed' = IF conn = "up" THEN owed \union {r.id : r \in outbound} ELSE owed
  /\ UNCHANGED <<screenVars, call, conn, drops>>

\* A message from a peer: the LSP answers what it got, with some menu; any
\* other peer may use any id.
Message(id, sender) ==
  /\ sender = Lsp => id \in owed /\ conn = "up"
  /\ owed' = IF sender = Lsp THEN owed \ {id} ELSE owed
  /\ HandleCustomMessage(id, sender)
  /\ IF id[2] = "info" /\ outcome[id] = "open" /\ outcome'[id] = "answered"
     THEN \E m \in Menus : call' = [call EXCEPT ![id[1]].menu = m]
     ELSE UNCHANGED call
  /\ UNCHANGED <<screenVars, conn, drops>>

SocketDies ==
  /\ conn = "up" /\ drops < MaxDrops
  /\ conn' = "stale" /\ owed' = {} /\ drops' = drops + 1
  /\ UNCHANGED <<requestVars, screenVars, call>>

\* onclose or LDK's ping timer: socket_disconnected.
LdkNotices ==
  /\ conn = "stale"
  /\ conn' = "down"
  /\ PeerDisconnected(Lsp)
  /\ UNCHANGED <<screenVars, call, owed, drops>>

\* The start-up connection or the reconnection timer.
ConnectedElsewhere ==
  /\ conn = "down"
  /\ conn' = "up"
  /\ UNCHANGED <<requestVars, screenVars, call, owed, drops>>

ReapSome(S) == Reap(S) /\ UNCHANGED <<screenVars, call, wireVars>>

-----------------------------------------------------------------------------
CallStep(j) ==
  Connected(j) \/ ConnectFails(j) \/ Buy(j) \/ Register(j) \/ RequestFails(j)
    \/ Signed(j)

Next ==
  \/ OpenPage
  \/ ClosePage
  \/ \E a \in Amounts \union {0} : SetAmount(a)
  \/ PeersReconnected
  \/ ChannelOpens
  \/ PaymentSucceeds
  \/ \E j \in Calls : CallStep(j)
  \/ Flush
  \/ \E id \in Ids, p \in Peers : Message(id, p)
  \/ SocketDies
  \/ LdkNotices
  \/ ConnectedElsewhere
  \/ \E S \in SUBSET pending : ReapSome(S)

Spec == Init /\ [][Next]_vars

(* Connecting ends after 15 s at the latest, promises and microtasks run,   *)
(* and the reaper gets to every old request.  The LSP owes nothing.         *)
Fairness ==
  /\ \A j \in Calls : WF_vars(CallStep(j))
  /\ WF_vars(Flush)
  /\ \A id \in Ids : WF_vars(\E S \in SUBSET pending :
                            (\E r \in S : r.id = id) /\ ReapSome(S))

FairSpec == Spec /\ Fairness

-----------------------------------------------------------------------------
CallType ==
  [pc : {"unused", "connect", "reconnect", "info", "buy", "sign", "end"},
   amount : Amounts \union {0}, number : Nat, live : BOOLEAN,
   menu : Menus \union {<<>>}, entry : Nat, expected : Nat]

TypeOK ==
  /\ RequestsTypeOK
  /\ open \in BOOLEAN /\ armed \in BOOLEAN /\ reconnected \in BOOLEAN
  /\ hasChannels \in BOOLEAN
  /\ amount \in Amounts \union {0} /\ counter \in Nat
  /\ step \in Steps
  /\ invoice \in [kind : {"none", "standard", "jit"}, amount : Amounts \union {0}]
  /\ call \in [Calls -> CallType]
  /\ conn \in {"up", "stale", "down"}
  /\ owed \in SUBSET Ids
  /\ drops \in 0..MaxDrops

(* The QR code asks for the amount on screen, whatever requests for other   *)
(* amounts are still running or come back late (Receive.tsx 124-125).  The  *)
(* spinner hides the code until the peers of existing channels reconnect.   *)
InvoiceForAmount ==
  open /\ (reconnected \/ ~ hasChannels) /\ invoice # NoInvoice
    => invoice.amount = amount

(* While the page shows that it negotiates, a request it will accept the    *)
(* result of is running: no rerun of the effect orphans the spinner.        *)
SpinnerHasCall ==
  step = "negotiating" =>
    \E j \in Calls : InFlight(j) /\ Applies(j) /\ call[j].amount = amount

(* A JIT invoice is backed by a registered payment of a positive amount the *)
(* LSP can forward after its fee, bought at the lowest fee of an ordered    *)
(* menu that the amount allows (context.tsx 281-300, types.ts 94-107).      *)
ExpectedReceive ==
  \A j \in Calls : call[j].pc = "sign" =>
    LET c == call[j]
        fp == c.menu[c.entry]
        usable == {i \in DOMAIN c.menu : /\ Fits(c.amount, c.menu[i])
                                         /\ ~ Overflows(c.amount, c.menu[i])
                                         /\ OpeningFee(c.amount, c.menu[i]) < c.amount}
    IN /\ c.expected \in 1..c.amount
       /\ c.amount * fp.proportional <= (c.amount - c.expected) * Million
       /\ Ordered(c.menu, c.amount) =>
            \A i \in usable : c.expected >= c.amount - OpeningFee(c.amount, c.menu[i])

(* A request is only ever resolved by an answer of the LSP to it, given on  *)
(* the connection it was sent on.                                           *)
AnsweredByLsp ==
  [][\A id \in Ids : outcome[id] = "open" /\ outcome'[id] = "answered"
       => id \in owed /\ conn = "up"]_vars

(* The page stops negotiating even if the LSP never answers, the socket     *)
(* dies unnoticed or the effect runs again meanwhile.                       *)
NegotiationEnds == step = "negotiating" ~> step # "negotiating"
=============================================================================
