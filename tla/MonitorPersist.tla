--------------------------- MODULE MonitorPersist ---------------------------
(***************************************************************************)
(* The ChannelMonitor persister of src/ldk/traits/persist.ts: every        *)
(* snapshot LDK hands over is queued per channel, written to the remote    *)
(* versioned store (VSS) with a compare-and-swap on the cached version,    *)
(* then to IndexedDB, and only then acknowledged to LDK.  Failed writes    *)
(* back off and retry; a version conflict re-reads the server's object.    *)
(*                                                                         *)
(* A snapshot is a number: the n-th monitor state LDK made for a channel.  *)
(* The network may lose a request, lose a reply (the 15 s fetch timeout),  *)
(* or deliver a request the client has long given up on (`late').  The tab *)
(* may be reloaded at any point: memory is lost, both stores stay, and LDK *)
(* re-persists what it loads from IndexedDB.                               *)
(***************************************************************************)
EXTENDS Naturals, Sequences

CONSTANTS
  Channels,             \* funding outpoints, the keys of the monitor store
  MaxConflictRetries,   \* MAX_CONFLICT_RETRIES, 5 in the code
  DegradedAfter,        \* backoffs before DEGRADED_THRESHOLD_MS is reached: 5
                        \* (0.5 + 1 + 2 + 4 + 8 s is the first sum over 10 s)
  MaxSnapshots,         \* bound: snapshots LDK makes per channel
  MaxQueue,             \* bound: writes queued per channel
  MaxFaults,            \* bound: failed requests and failed local writes
  MaxReloads            \* bound: reloads of the tab

ASSUME ConstantsAssumption ==
  /\ MaxConflictRetries \in Nat
  /\ DegradedAfter \in Nat \ {0}
  /\ MaxSnapshots \in Nat
  /\ MaxQueue \in Nat
  /\ MaxFaults \in Nat
  /\ MaxReloads \in Nat

VARIABLES
  latest,     \* number of the newest snapshot LDK made
  queue,      \* channelWriteChains: data of the pending persistWithRetry calls
  pc,         \* where the persistWithRetry call of the queue's head stands
  retries,    \* its conflictRetries
  waits,      \* its backoffs so far (totalWaitMs), counted up to DegradedAfter
  cache,      \* versionCache, 0 when it has no entry
  got,        \* the object the server answered to a getObject
  vss,        \* the object on the VSS server: version and data
  late,       \* puts the client gave up on that may still reach the server
  idb,        \* ldk_channel_monitors: the snapshot in IndexedDB, 0 if none
  acked,      \* the newest snapshot passed to channel_monitor_updated
  ready,      \* the React context has reached status 'ready'
  vssStatus,  \* its vssStatus, what the user sees
  faults,     \* failures so far
  reloads     \* reloads so far

stores == <<vss, late>>
screen == <<ready, vssStatus>>
vars == <<latest, queue, pc, retries, waits, cache, got, vss, late, idb, acked,
          ready, vssStatus, faults, reloads>>

Object == [ver : Nat, data : Nat]
Absent == [ver |-> 0, data |-> 0]

Phases == {"idle", "ready", "put", "accepted", "conflict", "get", "gotten",
           "idb", "idbSame", "stored", "backoff"}

\* The snapshot the running persistWithRetry call was given.
Current(c) == Head(queue[c])

\* The call has signalled onVssUnavailable (degradedNotified).
Notified(c) == waits[c] = DegradedAfter

Request(c) == [ver |-> cache[c], data |-> Current(c)]

Init ==
  /\ latest = [c \in Channels |-> 0]
  /\ queue = [c \in Channels |-> <<>>]
  /\ pc = [c \in Channels |-> "idle"]
  /\ retries = [c \in Channels |-> 0]
  /\ waits = [c \in Channels |-> 0]
  /\ cache = [c \in Channels |-> 0]
  /\ got = [c \in Channels |-> Absent]
  /\ vss = [c \in Channels |-> Absent]
  /\ late = [c \in Channels |-> {}]
  /\ idb = [c \in Channels |-> 0]
  /\ acked = [c \in Channels |-> 0]
  /\ ready = FALSE
  /\ vssStatus = "ok"
  /\ faults = 0
  /\ reloads = 0

-----------------------------------------------------------------------------
(* LDK hands over a snapshot: handlePersist.  LDK holds the channel's      *)
(* monitor if it is new (a peer opened a channel on a running wallet), or  *)
(* was loaded from IndexedDB, or has a write pending.                      *)

HasMonitor(c) ==
  \/ latest[c] = 0 /\ ready
  \/ idb[c] > 0
  \/ queue[c] # <<>>

Persist(c) ==
  /\ HasMonitor(c)
  /\ latest[c] < MaxSnapshots
  /\ Len(queue[c]) < MaxQueue
  /\ latest' = [latest EXCEPT ![c] = @ + 1]
  /\ queue' = [queue EXCEPT ![c] = Append(@, latest[c] + 1)]
  /\ pc' = [pc EXCEPT ![c] = IF queue[c] = <<>> THEN "ready" ELSE @]
  /\ UNCHANGED <<retries, waits, cache, got, stores, idb, acked, screen,
                 faults, reloads>>

-----------------------------------------------------------------------------
(* One pass of the loop in persistWithRetry: the VSS write.                *)

\* putObject(key, data, versionCache.get(key) ?? 0) is on its way.  The cached
\* version cannot change before the answer: only this call writes it.
SendPut(c) ==
  /\ pc[c] = "ready"
  /\ pc' = [pc EXCEPT ![c] = "put"]
  /\ UNCHANGED <<latest, queue, retries, waits, cache, got, stores, idb, acked,
                 screen, faults, reloads>>

\* The server's compare-and-swap: a put applies iff its version is the stored
\* one, and the stored version goes up by one.
CanApply(obj, r) == r.ver = obj.ver
Applied(obj, r) == IF CanApply(obj, r)
                   THEN [ver |-> obj.ver + 1, data |-> r.data]
                   ELSE obj

ServerPut(c) ==
  /\ pc[c] = "put"
  /\ vss' = [vss EXCEPT ![c] = Applied(@, Request(c))]
  /\ pc' = [pc EXCEPT ![c] = IF CanApply(vss[c], Request(c))
                             THEN "accepted" ELSE "conflict"]
  /\ UNCHANGED <<latest, queue, retries, waits, cache, got, late, idb, acked,
                 screen, faults, reloads>>

\* putObject resolves to version + 1, whatever the server now holds.
PutReply(c) ==
  /\ pc[c] = "accepted"
  /\ cache' = [cache EXCEPT ![c] = @ + 1]
  /\ pc' = [pc EXCEPT ![c] = "idb"]
  /\ UNCHANGED <<latest, queue, retries, waits, got, stores, idb, acked, screen,
                 faults, reloads>>

\* Network error, timeout or server error: fall to the backoff.  A request that
\* had not been processed may still be travelling.
PutFails(c) ==
  /\ pc[c] \in {"put", "accepted", "conflict"}
  /\ faults < MaxFaults
  /\ faults' = faults + 1
  /\ late' = IF pc[c] = "put"
             THEN [late EXCEPT ![c] = @ \cup {Request(c)}]
             ELSE late
  /\ pc' = [pc EXCEPT ![c] = "backoff"]
  /\ UNCHANGED <<latest, queue, retries, waits, cache, got, vss, idb, acked,
                 screen, reloads>>

\* A put nobody waits for any more reaches the server.
LateLands(c) ==
  \E r \in late[c] :
    /\ late' = [late EXCEPT ![c] = @ \ {r}]
    /\ vss' = [vss EXCEPT ![c] = Applied(@, r)]
    /\ UNCHANGED <<latest, queue, pc, retries, waits, cache, got, idb, acked,
                   screen, faults, reloads>>

-----------------------------------------------------------------------------
(* Conflict resolution.                                                    *)

\* Faulty variant: conflicts are resolved without a limit.
ConflictReplyUnlimited(c) ==
  /\ pc[c] = "conflict"
  /\ retries' = [retries EXCEPT ![c] = @ + 1]
  /\ pc' = [pc EXCEPT ![c] = "get"]
  /\ UNCHANGED <<latest, queue, waits, cache, got, stores, idb, acked, screen,
                 faults, reloads>>

\* A conflict is resolved by re-reading the object, at most MaxConflictRetries
\* times in the life of the call; after that it is an error like any other.
ConflictReply(c) ==
  /\ pc[c] = "conflict"
  /\ IF retries[c] < MaxConflictRetries
     THEN /\ retries' = [retries EXCEPT ![c] = @ + 1]
          /\ pc' = [pc EXCEPT ![c] = "get"]
     ELSE /\ pc' = [pc EXCEPT ![c] = "backoff"]
          /\ UNCHANGED retries
  /\ UNCHANGED <<latest, queue, waits, cache, got, stores, idb, acked, screen,
                 faults, reloads>>

ServerGet(c) ==
  /\ pc[c] = "get"
  /\ got' = [got EXCEPT ![c] = vss[c]]
  /\ pc' = [pc EXCEPT ![c] = "gotten"]
  /\ UNCHANGED <<latest, queue, retries, waits, cache, stores, idb, acked,
                 screen, faults, reloads>>

\* Faulty variant: whatever the server holds counts as these bytes.
GetReplyAnyData(c) ==
  /\ pc[c] = "gotten"
  /\ cache' = [cache EXCEPT ![c] = got[c].ver]
  /\ pc' = [pc EXCEPT ![c] = "idbSame"]
  /\ UNCHANGED <<latest, queue, retries, waits, got, stores, idb, acked, screen,
                 faults, reloads>>

\* Faulty variant: the server's version is not adopted.
GetReplyKeepsVersion(c) ==
  /\ pc[c] = "gotten"
  /\ pc' = [pc EXCEPT ![c] = IF got[c].data = Current(c)
                             THEN "idbSame" ELSE "ready"]
  /\ UNCHANGED <<latest, queue, retries, waits, cache, got, stores, idb, acked,
                 screen, faults, reloads>>

\* Adopt the server's version (0 for a missing object); if the server already
\* has these bytes the VSS write is done, else put again at once.
GetReply(c) ==
  /\ pc[c] = "gotten"
  /\ cache' = [cache EXCEPT ![c] = got[c].ver]
  /\ pc' = [pc EXCEPT ![c] = IF got[c].data = Current(c)
                             THEN "idbSame" ELSE "ready"]
  /\ UNCHANGED <<latest, queue, retries, waits, got, stores, idb, acked, screen,
                 faults, reloads>>

\* The re-read fails: the error is logged and the loop continues at once, with
\* the version it had.
GetFails(c) ==
  /\ pc[c] \in {"get", "gotten"}
  /\ faults < MaxFaults
  /\ faults' = faults + 1
  /\ pc' = [pc EXCEPT ![c] = "ready"]
  /\ UNCHANGED <<latest, queue, retries, waits, cache, got, stores, idb, acked,
                 screen, reloads>>

-----------------------------------------------------------------------------
(* The local write, the acknowledgement, the backoff.                      *)

IdbCommit(c) ==
  /\ pc[c] \in {"idb", "idbSame"}
  /\ idb' = [idb EXCEPT ![c] = Current(c)]
  /\ pc' = [pc EXCEPT ![c] = "stored"]
  /\ UNCHANGED <<latest, queue, retries, waits, cache, got, stores, acked,
                 screen, faults, reloads>>

\* Faulty variant: a failed local write is swallowed after the VSS write.
IdbFailsSwallowed(c) ==
  /\ pc[c] \in {"idb", "idbSame"}
  /\ faults < MaxFaults
  /\ faults' = faults + 1
  /\ pc' = [pc EXCEPT ![c] = "stored"]
  /\ UNCHANGED <<latest, queue, retries, waits, cache, got, stores, idb, acked,
                 screen, reloads>>

\* idbPut rejects: in the main path this is an error like any other, during
\* conflict resolution it is swallowed and the loop continues at once.
IdbFails(c) ==
  /\ pc[c] \in {"idb", "idbSame"}
  /\ faults < MaxFaults
  /\ faults' = faults + 1
  /\ pc' = [pc EXCEPT ![c] = IF @ = "idb" THEN "backoff" ELSE "ready"]
  /\ UNCHANGED <<latest, queue, retries, waits, cache, got, stores, idb, acked,
                 screen, reloads>>

\* Faulty variant: the update id is read when the write is done, not when LDK
\* handed the snapshot over.
AckNewest(c) ==
  /\ pc[c] = "stored"
  /\ acked' = [acked EXCEPT ![c] = latest[c]]
  /\ queue' = [queue EXCEPT ![c] = Tail(@)]
  /\ pc' = [pc EXCEPT ![c] = IF Tail(queue[c]) = <<>> THEN "idle" ELSE "ready"]
  /\ retries' = [retries EXCEPT ![c] = 0]
  /\ waits' = [waits EXCEPT ![c] = 0]
  /\ vssStatus' = IF Notified(c) /\ ready THEN "ok" ELSE vssStatus
  /\ UNCHANGED <<latest, cache, got, stores, idb, ready, faults, reloads>>

\* Faulty variant: recovery is not signalled.
AckSilently(c) ==
  /\ pc[c] = "stored"
  /\ acked' = [acked EXCEPT ![c] = Current(c)]
  /\ queue' = [queue EXCEPT ![c] = Tail(@)]
  /\ pc' = [pc EXCEPT ![c] = IF Tail(queue[c]) = <<>> THEN "idle" ELSE "ready"]
  /\ retries' = [retries EXCEPT ![c] = 0]
  /\ waits' = [waits EXCEPT ![c] = 0]
  /\ UNCHANGED <<latest, cache, got, stores, idb, screen, faults, reloads>>

\* persistWithRetry resolves: onVssRecovered if the call had signalled, then
\* channel_monitor_updated, and the next call of the chain starts.
Ack(c) ==
  /\ pc[c] = "stored"
  /\ acked' = [acked EXCEPT ![c] = Current(c)]
  /\ queue' = [queue EXCEPT ![c] = Tail(@)]
  /\ pc' = [pc EXCEPT ![c] = IF Tail(queue[c]) = <<>> THEN "idle" ELSE "ready"]
  /\ retries' = [retries EXCEPT ![c] = 0]
  /\ waits' = [waits EXCEPT ![c] = 0]
  /\ vssStatus' = IF Notified(c) /\ ready THEN "ok" ELSE vssStatus
  /\ UNCHANGED <<latest, cache, got, stores, idb, ready, faults, reloads>>

\* The backoff timer fires: account for the wait, signal onVssUnavailable when
\* the threshold is reached (once per call), and run the loop again.
Wake(c) ==
  /\ pc[c] = "backoff"
  /\ waits' = [waits EXCEPT ![c] = IF Notified(c) THEN @ ELSE @ + 1]
  /\ vssStatus' = IF ready /\ ~Notified(c) /\ waits[c] + 1 = DegradedAfter
                  THEN "degraded" ELSE vssStatus
  /\ pc' = [pc EXCEPT ![c] = "ready"]
  /\ UNCHANGED <<latest, queue, retries, cache, got, stores, idb, acked, ready,
                 faults, reloads>>

-----------------------------------------------------------------------------
(* The tab.                                                                *)

\* init finished: the context shows the wallet, with status 'ok'.
BecomeReady ==
  /\ ~ready
  /\ ready' = TRUE
  /\ vssStatus' = "ok"
  /\ UNCHANGED <<latest, queue, pc, retries, waits, cache, got, stores, idb,
                 acked, faults, reloads>>

\* The tab dies and the wallet is opened again on the same IndexedDB: versions
\* are seeded from the server for every stored monitor (all of them, or none
\* when a request fails), and watch_channel persists every loaded monitor again.
Reload ==
  /\ reloads < MaxReloads
  /\ reloads' = reloads + 1
  /\ late' = [c \in Channels |->
                IF pc[c] = "put" THEN late[c] \cup {Request(c)} ELSE late[c]]
  /\ queue' = [c \in Channels |-> IF idb[c] > 0 THEN <<idb[c]>> ELSE <<>>]
  /\ pc' = [c \in Channels |-> IF idb[c] > 0 THEN "ready" ELSE "idle"]
  /\ retries' = [c \in Channels |-> 0]
  /\ waits' = [c \in Channels |-> 0]
  /\ \/ cache' = [c \in Channels |-> IF idb[c] > 0 THEN vss[c].ver ELSE 0]
     \/ cache' = [c \in Channels |-> 0]
  /\ got' = [c \in Channels |-> Absent]
  /\ ready' = FALSE
  /\ vssStatus' = "ok"
  /\ UNCHANGED <<latest, vss, idb, acked, faults>>

-----------------------------------------------------------------------------

\* The steps of a write that is not disturbed.
Progress(c) ==
  \/ SendPut(c) \/ ServerPut(c) \/ PutReply(c)
  \/ ConflictReply(c) \/ ServerGet(c) \/ GetReply(c)
  \/ IdbCommit(c) \/ Ack(c) \/ Wake(c)

Disturb(c) == PutFails(c) \/ GetFails(c) \/ IdbFails(c) \/ LateLands(c)

Next ==
  \/ \E c \in Channels : Persist(c) \/ Progress(c) \/ Disturb(c)
  \/ BecomeReady
  \/ Reload

Spec == Init /\ [][Next]_vars

\* Requests are answered, timers fire and promises run their callbacks; that a
\* request fails, that the tab is reloaded and that LDK has news is up to the
\* environment, and failures are finitely many (MaxFaults).
FairSpec == Spec /\ \A c \in Channels : WF_vars(Progress(c))

-----------------------------------------------------------------------------
(* Properties.                                                             *)

TypeOK ==
  /\ latest \in [Channels -> Nat]
  /\ queue \in [Channels -> Seq(Nat)]
  /\ pc \in [Channels -> Phases]
  /\ retries \in [Channels -> Nat]
  /\ waits \in [Channels -> Nat]
  /\ \A c \in Channels :
       retries[c] <= MaxConflictRetries /\ waits[c] <= DegradedAfter
  /\ cache \in [Channels -> Nat]
  /\ got \in [Channels -> Object]
  /\ vss \in [Channels -> Object]
  /\ late \in [Channels -> SUBSET Object]
  /\ idb \in [Channels -> Nat]
  /\ acked \in [Channels -> Nat]
  /\ ready \in BOOLEAN
  /\ vssStatus \in {"ok", "degraded"}
  /\ faults \in Nat
  /\ reloads \in Nat

\* Whatever LDK was told is persisted can be recovered from either store alone,
\* through lost replies, late requests, conflicts and reloads (persist.ts
\* 134-140: channel_monitor_updated is not called until both writes succeed).
AckedDurable ==
  \A c \in Channels : acked[c] <= idb[c] /\ acked[c] <= vss[c].data

\* VSS first, IndexedDB second: the local copy is never newer than the remote
\* one, also after a late request has changed the remote one.
VssFirst == \A c \in Channels : idb[c] <= vss[c].data

\* No request still travelling can take the server's object of c below n.
SafeFrom(c, n) ==
  /\ n <= vss[c].data
  /\ \A r \in late[c] : r.data < n => r.ver < vss[c].ver

\* The writes of a channel are queued in the order they were made; those behind
\* the running one are newer than anything any store or request holds.
QueueInv(c) ==
  /\ queue[c] = <<>> <=> pc[c] = "idle"
  /\ \A i \in 1..Len(queue[c]) :
       /\ idb[c] <= queue[c][i]
       /\ queue[c][i] <= latest[c]
       /\ \A j \in 1..Len(queue[c]) : i < j => queue[c][i] < queue[c][j]
       /\ i > 1 => /\ vss[c].data < queue[c][i]
                   /\ \A r \in late[c] : r.data < queue[c][i]

\* Nothing holds a snapshot that was not made or a version the server has not
\* given out.
KnownInv(c) ==
  /\ acked[c] <= idb[c]
  /\ idb[c] <= latest[c]
  /\ vss[c].data <= latest[c]
  /\ cache[c] <= vss[c].ver
  /\ got[c].ver <= vss[c].ver
  /\ pc[c] = "accepted" => cache[c] < vss[c].ver
  /\ \A r \in late[c] : r.ver <= vss[c].ver /\ r.data <= latest[c]

\* Where the server cannot go below: what IndexedDB holds; the snapshot being
\* written, once the server has it or has answered that it has it.
SafeInv(c) ==
  /\ SafeFrom(c, idb[c])
  /\ pc[c] # "idle" /\ vss[c].data = Current(c) => SafeFrom(c, Current(c))
  /\ pc[c] = "gotten" /\ got[c].data = Current(c) => SafeFrom(c, Current(c))
  /\ pc[c] \in {"accepted", "idb", "idbSame", "stored"}
       => SafeFrom(c, Current(c))
  /\ pc[c] = "stored" => idb[c] = Current(c)

\* Why a late or repeated put can never undo an acknowledged one: the inductive
\* invariant behind AckedDurable, VssFirst and the refinement.
NoRollback == \A c \in Channels : QueueInv(c) /\ KnownInv(c) /\ SafeInv(c)

\* The user is told that backups fail only while a write that has waited past
\* the threshold is still pending (ldk-context.ts 69).
DegradedMeansFailing ==
  vssStatus = "degraded" => \E c \in Channels : Notified(c)

\* The converse: while the wallet is shown and a write has signalled that VSS
\* is unavailable and is still pending, the status says so.
FailingIsShown ==
  (ready /\ \E c \in Channels : Notified(c)) => vssStatus = "degraded"

\* Every write that is queued is acknowledged in the end.
EveryWriteAcked ==
  \A c \in Channels : queue[c] # <<>> ~> queue[c] = <<>>

\* The persister implements the storage LDK relies on: what survives the loss
\* of one store only moves forward, and so does what LDK was told.
Store == INSTANCE DurableStore WITH
           made <- latest,
           safe <- [c \in Channels |-> IF idb[c] <= vss[c].data
                                       THEN idb[c] ELSE vss[c].data],
           told <- acked

ImplementsStore == Store!Spec
=============================================================================
