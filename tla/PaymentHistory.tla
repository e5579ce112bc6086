--------------------------- MODULE PaymentHistory ---------------------------
(***************************************************************************)
(* The payment history: the record of an outbound payment written when it  *)
(* begins (src/ldk/context.tsx), the ones written on LDK's payment events  *)
(* (src/ldk/traits/event-handler.ts), the read and write of an update      *)
(* (src/ldk/storage/payment-history.ts), and the copy the context shows.   *)
(* The store runs the operations of IndexedDB in the order they are asked  *)
(* for.                                                                    *)
(***************************************************************************)
EXTENDS Naturals, Sequences

CONSTANTS
  Outbound,    \* payment ids; a Bolt 11 id is the hash, and may be paid again after a failure
  Inbound,
  MaxBegun,    \* bound: payments begun
  MaxFailures  \* bound: failed writes and updates

Ids == Outbound \union Inbound
Outcomes == {"sent", "failed", "claimed"}
Statuses == {"none", "pending"} \union Outcomes

VARIABLES
  begun,     \* payments begun
  pay,       \* LDK's payments
  events,    \* LDK's events, oldest first
  known,     \* the last status each payment's handler was told of
  rows,      \* ldk_payment_history
  shown,     \* paymentHistory of the context
  idb,       \* operations on the store, oldest first
  failures,
  excused    \* history: payments with a failed write or update

vars == <<begun, pay, events, known, rows, shown, idb, failures, excused>>

\* "upsert" is an operation of the faulty variant only.
Ops == [op : {"put", "update", "upsert", "load"}, id : Ids, status : Statuses]
Op(op, id, status) == [op |-> op, id |-> id, status |-> status]

TypeOK ==
  /\ begun \in 0..MaxBegun /\ pay \in [Ids -> {"idle", "inflight", "settled"}]
  /\ events \in Seq(Ids \X Outcomes) /\ known \in [Ids -> Statuses]
  /\ rows \in [Ids -> Statuses] /\ shown \in [Ids -> Statuses]
  /\ idb \in Seq(Ops) /\ failures \in 0..MaxFailures /\ excused \subseteq Ids

Nowhere == [i \in Ids |-> "none"]
Init ==
  /\ begun = 0 /\ pay = [i \in Ids |-> "idle"] /\ events = <<>> /\ known = Nowhere
  /\ rows = Nowhere /\ shown = Nowhere /\ idb = <<>> /\ failures = 0 /\ excused = {}

-----------------------------------------------------------------------------
\* sendBolt11Payment and sendBolt12Payment, accepted by LDK.
Began(id, op) ==
  /\ id \in Outbound /\ pay[id] = "idle" /\ begun < MaxBegun /\ begun' = begun + 1
  /\ pay' = [pay EXCEPT ![id] = "inflight"]
  /\ known' = [known EXCEPT ![id] = "pending"]
  /\ idb' = Append(idb, Op(op, id, "pending"))
  /\ UNCHANGED <<events, rows, shown, failures, excused>>

\* Faulty variant: the new record is written by a read and a write.
BeginByUpdate(id) == Began(id, "upsert")

Begin(id) == Began(id, "put")

\* An HTLC arrives and is claimable: claim_funds.
Claimable(id) ==
  /\ id \in Inbound /\ pay[id] = "idle"
  /\ pay' = [pay EXCEPT ![id] = "inflight"]
  /\ UNCHANGED <<begun, events, known, rows, shown, idb, failures, excused>>

\* LDK has the outcome; after a failure it takes the same invoice again.
Settles(id, out) ==
  /\ pay[id] = "inflight" /\ (out = "claimed") = (id \in Inbound)
  /\ pay' = [pay EXCEPT ![id] = IF out = "failed" THEN "idle" ELSE "settled"]
  /\ events' = Append(events, <<id, out>>)
  /\ UNCHANGED <<begun, known, rows, shown, idb, failures, excused>>

\* PaymentClaimed puts a record, PaymentSent and PaymentFailed update theirs;
\* the callback loads the history without waiting for either.
HandleEvent ==
  /\ events # <<>> /\ events' = Tail(events)
  /\ LET id == Head(events)[1]  out == Head(events)[2] IN
     /\ known' = [known EXCEPT ![id] = out]
     /\ idb' = idb \o <<Op(IF id \in Inbound THEN "put" ELSE "update", id, out),
                        Op("load", id, out)>>
  /\ UNCHANGED <<begun, pay, rows, shown, failures, excused>>

-----------------------------------------------------------------------------
(* The store's next operation. *)

\* A payment just begun is loaded once its record is put.
RunPut ==
  /\ idb # <<>> /\ Head(idb).op = "put"
  /\ LET o == Head(idb) IN
     /\ rows' = [rows EXCEPT ![o.id] = o.status]
     /\ idb' = IF o.status = "pending" THEN Append(Tail(idb), [o EXCEPT !.op = "load"])
               ELSE Tail(idb)
  /\ UNCHANGED <<begun, pay, events, known, shown, failures, excused>>

\* A write is rejected, or the read of an update, which then writes nothing.
PutFails ==
  /\ idb # <<>> /\ Head(idb).op \in {"put", "update", "upsert"}
  /\ failures < MaxFailures /\ failures' = failures + 1
  /\ excused' = excused \union {Head(idb).id} /\ idb' = Tail(idb)
  /\ UNCHANGED <<begun, pay, events, known, rows, shown>>

\* updatePaymentStatus reads the record, and puts it back if there is one.
RunUpdate ==
  /\ idb # <<>> /\ Head(idb).op \in {"update", "upsert"}
  /\ LET o == Head(idb) IN
     idb' = IF rows[o.id] = "none" /\ o.op = "update" THEN Tail(idb)
            ELSE Append(Tail(idb), [o EXCEPT !.op = "put"])
  /\ UNCHANGED <<begun, pay, events, known, rows, shown, failures, excused>>

\* loadAllPayments, and the state of the context.
RunLoad ==
  /\ idb # <<>> /\ Head(idb).op = "load"
  /\ shown' = rows /\ idb' = Tail(idb)
  /\ UNCHANGED <<begun, pay, events, known, rows, failures, excused>>

Next ==
  \/ \E id \in Ids : Begin(id) \/ Claimable(id) \/ \E out \in Outcomes : Settles(id, out)
  \/ HandleEvent \/ RunPut \/ PutFails \/ RunUpdate \/ RunLoad

Spec == Init /\ [][Next]_vars

-----------------------------------------------------------------------------
\* Once the event of a sent payment is handled and the store has no write of
\* its record left, the record says so, unless a write or update failed: the update made
\* for the event is neither overtaken by the record of the payment's start nor
\* by what an earlier failure of the same invoice still writes.
SentIsRecorded ==
  \A id \in Outbound :
    known[id] = "sent" /\ id \notin excused
    /\ (\A k \in DOMAIN idb : idb[k].id # id \/ idb[k].op = "load")
    => rows[id] = "sent"

\* What is shown when nothing is left to do is what is stored.  It may not be: see
\* section 7 of the README.
HistoryShown == idb = <<>> => shown = rows
=============================================================================
