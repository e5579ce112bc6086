---------------------------- MODULE LspsRequests ----------------------------
(***************************************************************************)
(* The request table of src/ldk/lsps2/message-handler.ts: it turns LDK's   *)
(* synchronous custom-message callbacks into promises.  A request is open  *)
(* from sendRequest until the peer answers it, the peer disconnects, or    *)
(* the reaper finds it older than REQUEST_TIMEOUT_MS.  These race: each    *)
(* runs in its own turn of the event loop, in any order.                   *)
(*                                                                         *)
(* Time is abstracted: the reaper may find any of the open requests old.   *)
(* Request ids are UUIDs, so every request has an id of its own.           *)
(***************************************************************************)
EXTENDS Naturals, FiniteSets

CONSTANTS
  Ids,          \* request ids
  Peers,        \* Lightning peers, hex public keys
  MaxPending    \* MAX_PENDING_PER_PEER, 10 in the code

ASSUME RequestsAssumption == MaxPending \in Nat

VARIABLES
  pending,    \* the Map of open requests: id and addressee
  outbound,   \* requests queued for get_and_clear_pending_msg
  outcome,    \* how the promise of each request was settled
  settled     \* history: how often its resolve or reject was called

requestVars == <<pending, outbound, outcome, settled>>

Request == [id : Ids, peer : Peers]
Outcomes == {"unused", "open", "answered", "rejected"}

PendingOf(p) == {r \in pending : r.peer = p}

RequestsInit ==
  /\ pending = {}
  /\ outbound = {}
  /\ outcome = [id \in Ids |-> "unused"]
  /\ settled = [id \in Ids |-> 0]

\* The promises of the requests in S are resolved or rejected.
Settle(S, how) ==
  /\ outcome' = [id \in Ids |-> IF \E r \in S : r.id = id THEN how ELSE outcome[id]]
  /\ settled' = [id \in Ids |-> settled[id] + IF \E r \in S : r.id = id THEN 1 ELSE 0]

\* Faulty variant: the entry stays in the map.
DropKeeps(S, how) == Settle(S, how) /\ UNCHANGED <<pending, outbound>>

\* Entries leave the map in the same turn in which their promise is settled.
Drop(S, how) ==
  /\ Settle(S, how)
  /\ pending' = pending \ S
  /\ UNCHANGED outbound

\* Faulty variant: the cap is off by one.
SendRequestOverCap(id, p) ==
  /\ outcome[id] = "unused"
  /\ IF Cardinality(PendingOf(p)) > MaxPending
     THEN /\ Settle({[id |-> id, peer |-> p]}, "rejected")
          /\ UNCHANGED <<pending, outbound>>
     ELSE /\ pending' = pending \union {[id |-> id, peer |-> p]}
          /\ outbound' = outbound \union {[id |-> id, peer |-> p]}
          /\ outcome' = [outcome EXCEPT ![id] = "open"]
          /\ UNCHANGED settled

SendRequest(id, p) ==
  /\ outcome[id] = "unused"
  /\ IF Cardinality(PendingOf(p)) >= MaxPending
     THEN /\ Settle({[id |-> id, peer |-> p]}, "rejected")
          /\ UNCHANGED <<pending, outbound>>
     ELSE /\ pending' = pending \union {[id |-> id, peer |-> p]}
          /\ outbound' = outbound \union {[id |-> id, peer |-> p]}
          /\ outcome' = [outcome EXCEPT ![id] = "open"]
          /\ UNCHANGED settled

\* process_events, from the microtask sendRequest queued or any other turn.
GetAndClearPendingMsg ==
  /\ outbound' = {}
  /\ UNCHANGED <<pending, outcome, settled>>

\* Faulty variant: the sender is not compared with the addressee.
HandleAnySender(id, sender) == Drop({r \in pending : r.id = id}, "answered")

\* handle_custom_message: a message with this id came from sender.
HandleCustomMessage(id, sender) ==
  Drop({r \in pending : r.id = id /\ r.peer = sender}, "answered")

PeerDisconnected(p) == Drop(PendingOf(p), "rejected")

\* Faulty variant: old entries are deleted without rejecting their promises.
ReapForgets(S) == pending' = pending \ S /\ UNCHANGED <<outbound, outcome, settled>>

\* The interval timer finds the requests S older than REQUEST_TIMEOUT_MS.
Reap(S) == Drop(S, "rejected")

RequestsNext ==
  \/ \E id \in Ids, p \in Peers : SendRequest(id, p)
  \/ GetAndClearPendingMsg
  \/ \E id \in Ids, p \in Peers : HandleCustomMessage(id, p)
  \/ \E p \in Peers : PeerDisconnected(p)
  \/ \E S \in SUBSET pending : Reap(S)

RequestsSpec == RequestsInit /\ [][RequestsNext]_requestVars

RequestsTypeOK ==
  /\ pending \in SUBSET Request
  /\ outbound \in SUBSET Request
  /\ outcome \in [Ids -> Outcomes]
  /\ settled \in [Ids -> Nat]

(* Whatever the order in which the answer, the disconnect and the reaper    *)
(* come, a promise is settled exactly once, and it is in the map exactly    *)
(* while it is open: no entry is left behind to count against its peer.     *)
SettledOnce ==
  \A id \in Ids :
    /\ settled[id] = (IF outcome[id] \in {"unused", "open"} THEN 0 ELSE 1)
    /\ outcome[id] = "open" <=> \E r \in pending : r.id = id
    /\ \A r, s \in pending : r.id = id /\ s.id = id => r = s

(* The cap of sendRequest holds whatever was answered, reaped or dropped.   *)
PendingBounded == \A p \in Peers : Cardinality(PendingOf(p)) <= MaxPending
=============================================================================
