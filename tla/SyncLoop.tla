------------------------------ MODULE SyncLoop ------------------------------
(***************************************************************************)
(* The sync loop around syncOnce (startSyncLoop of                         *)
(* src/ldk/sync/chain-sync.ts): its timer with backoff, the status it      *)
(* shows, its writes of the ChannelManager, network graph and scorer, and  *)
(* the rapid gossip sync (src/ldk/sync/rapid-gossip-sync.ts), whose first  *)
(* run goes on beside the ticks.  syncOnce itself is ChainSync; here it    *)
(* ends or throws.                                                         *)
(*                                                                         *)
(* Gossip is a set of numbered updates; the server's answer to a timestamp *)
(* holds the later ones, and a timestamp is the number of the last update. *)
(***************************************************************************)
EXTENDS Naturals

CONSTANTS
  GraphEvery,     \* ticks between writes of the graph, 10 in the code
  RgsEvery,       \* rgsSyncIntervalTicks
  StaleThreshold,
  MaxBackoff,     \* MAX_BACKOFF_MS in units of intervalMs
  MaxGossip,      \* bound: updates the server ever has
  MaxTroubles     \* bound: failed operations and crashes

VARIABLES
  pc,           \* where the tick stands; "wait": its timer runs
  stopped,
  tickCount,    \* modulo GraphEvery * RgsEvery
  errors,       \* consecutiveErrors, at most StaleThreshold
  backoff,      \* currentBackoff, in units of intervalMs
  status,       \* syncStatus of the context
  dirty,        \* LDK's needs-persistence flag
  cmNeedsPersist,
  server,       \* updates 1..server are at the gossip server
  graph,        \* updates in the NetworkGraph
  rgs,          \* rgsHandle and its lastSyncTimestamp, the running applyRgsUpdate
  storedGraph, storedTimestamp,
  troubles,
  owed          \* history: a taken flag whose write has not succeeded

loop == <<stopped, tickCount, errors, backoff, status>>
cm == <<dirty, cmNeedsPersist, owed>>
gossip == <<server, graph, rgs, storedGraph, storedTimestamp>>
vars == <<pc, stopped, tickCount, errors, backoff, status, dirty, cmNeedsPersist,
          server, graph, rgs, storedGraph, storedTimestamp, troubles, owed>>

Time == 0..MaxGossip
Rgs == [handle : BOOLEAN, ts : Time, at : {"idle", "read", "fetch", "put"}, upto : Time]
NoRgs == [handle |-> FALSE, ts |-> 0, at |-> "idle", upto |-> 0]

TypeOK ==
  /\ pc \in {"wait", "sync", "cm", "graph", "rgs", "rgsgraph", "ok"}
  /\ stopped \in BOOLEAN /\ tickCount \in 0..(GraphEvery * RgsEvery - 1)
  /\ errors \in 0..StaleThreshold /\ backoff \in 1..MaxBackoff
  /\ status \in {"syncing", "synced", "stale"}
  /\ dirty \in BOOLEAN /\ cmNeedsPersist \in BOOLEAN /\ owed \in BOOLEAN
  /\ server \in Time /\ graph \subseteq 1..server /\ rgs \in Rgs
  /\ storedGraph \subseteq 1..server /\ storedTimestamp \in 0..server
  /\ troubles \in 0..MaxTroubles

Init ==
  /\ pc = "wait" /\ stopped = FALSE /\ tickCount = 0 /\ errors = 0
  /\ backoff = 1 /\ status = "syncing"
  /\ dirty = FALSE /\ cmNeedsPersist = FALSE /\ owed = FALSE
  /\ server = 0 /\ graph = {} /\ rgs = NoRgs /\ storedGraph = {} /\ storedTimestamp = 0
  /\ troubles = 0

Trouble == troubles < MaxTroubles /\ troubles' = troubles + 1
Lower(a, b) == IF a < b THEN a ELSE b

-----------------------------------------------------------------------------
(* The tick. *)

\* ensureRgs starts the first gossip sync, or starts it again after a failure.
Tick ==
  /\ pc = "wait" /\ ~ stopped /\ pc' = "sync"
  /\ rgs' = IF ~ rgs.handle /\ rgs.at = "idle" THEN [rgs EXCEPT !.at = "read"] ELSE rgs
  /\ UNCHANGED <<loop, cm, server, graph, storedGraph, storedTimestamp, troubles>>

\* syncOnce has ended.  LDK's flag is read and cleared only if no write is owed.
Synced ==
  /\ pc = "sync"
  /\ IF cmNeedsPersist \/ dirty
     THEN /\ pc' = "cm" /\ cmNeedsPersist' = FALSE /\ owed' = TRUE
          /\ dirty' = (dirty /\ cmNeedsPersist)
     ELSE pc' = "graph" /\ UNCHANGED cm
  /\ UNCHANGED <<loop, gossip, troubles>>

CmPersisted ==
  /\ pc = "cm" /\ pc' = "graph" /\ owed' = FALSE
  /\ UNCHANGED <<loop, dirty, cmNeedsPersist, gossip, troubles>>

\* The tick's catch block.
Throws ==
  /\ errors' = Lower(errors + 1, StaleThreshold)
  /\ backoff' = Lower(2 * backoff, MaxBackoff)
  /\ status' = IF errors + 1 >= StaleThreshold THEN "stale" ELSE status
  /\ pc' = "wait"

\* syncOnce throws.
SyncFails ==
  /\ pc = "sync" /\ Trouble /\ Throws
  /\ UNCHANGED <<stopped, tickCount, cm, gossip>>

\* Faulty variant: the write is not made again.
CmFailsForgets ==
  /\ pc = "cm" /\ Trouble /\ Throws
  /\ UNCHANGED <<stopped, tickCount, dirty, cmNeedsPersist, owed, gossip>>

CmFails ==
  /\ pc = "cm" /\ Trouble /\ Throws
  /\ cmNeedsPersist' = TRUE
  /\ UNCHANGED <<stopped, tickCount, dirty, owed, gossip>>

\* Every so many ticks, the graph and the scorer.
Due(n) == (tickCount + 1) % n = 0

GraphPut ==
  /\ pc = "graph" /\ pc' = "rgs"
  /\ storedGraph' = IF Due(GraphEvery) THEN graph ELSE storedGraph
  /\ UNCHANGED <<loop, cm, server, graph, rgs, storedTimestamp, troubles>>

\* Either of the two writes fails.
GraphFails ==
  /\ pc = "graph" /\ Due(GraphEvery) /\ Trouble /\ Throws
  /\ storedGraph' \in {storedGraph, graph}
  /\ UNCHANGED <<stopped, tickCount, cm, server, graph, rgs, storedTimestamp>>

\* The periodic gossip sync: from the handle's timestamp, or nothing.
PeriodicRgs ==
  /\ pc = "rgs"
  /\ IF rgs.handle /\ Due(RgsEvery)
     THEN rgs.at = "idle" /\ rgs' = [rgs EXCEPT !.at = "fetch"] /\ pc' = "rgsgraph"
     ELSE pc' = "ok" /\ UNCHANGED rgs
  /\ UNCHANGED <<loop, cm, server, graph, storedGraph, storedTimestamp, troubles>>

\* ... and the graph right after it.  Failures of both are only logged.
RgsGraphPut ==
  /\ pc = "rgsgraph" /\ rgs.at = "idle" /\ pc' = "ok"
  /\ storedGraph' = graph
  /\ UNCHANGED <<loop, cm, server, graph, rgs, storedTimestamp, troubles>>

RgsGraphFails ==
  /\ pc = "rgsgraph" /\ rgs.at = "idle" /\ Trouble /\ pc' = "ok"
  /\ UNCHANGED <<loop, cm, gossip>>

TickOk ==
  /\ pc = "ok" /\ pc' = "wait"
  /\ tickCount' = (tickCount + 1) % (GraphEvery * RgsEvery)
  /\ errors' = 0 /\ backoff' = 1 /\ status' = "synced"
  /\ UNCHANGED <<stopped, cm, gossip, troubles>>

Stop ==
  /\ ~ stopped /\ stopped' = TRUE
  /\ UNCHANGED <<pc, tickCount, errors, backoff, status, cm, gossip, troubles>>

-----------------------------------------------------------------------------
(* applyRgsUpdate, in the first run after reading the stored timestamp. *)

RgsRead ==
  /\ rgs.at = "read"
  /\ rgs' = [rgs EXCEPT !.at = "fetch", !.ts = storedTimestamp]
  /\ UNCHANGED <<pc, loop, cm, server, graph, storedGraph, storedTimestamp, troubles>>

RgsReply ==
  /\ rgs.at = "fetch"
  /\ graph' = graph \union (rgs.ts + 1)..server
  /\ rgs' = [rgs EXCEPT !.at = "put", !.upto = server]
  /\ UNCHANGED <<pc, loop, cm, server, storedGraph, storedTimestamp, troubles>>

RgsPut ==
  /\ rgs.at = "put"
  /\ storedTimestamp' = rgs.upto
  /\ rgs' = [handle |-> TRUE, ts |-> rgs.upto, at |-> "idle", upto |-> 0]
  /\ UNCHANGED <<pc, loop, cm, server, graph, storedGraph, troubles>>

\* A failed first run is started again by a later tick; a periodic one is left,
\* without the write of the graph.
RgsFails ==
  /\ rgs.at # "idle" /\ Trouble
  /\ rgs' = [rgs EXCEPT !.at = "idle", !.upto = 0]
  /\ pc' = IF pc = "rgsgraph" THEN "ok" ELSE pc
  /\ UNCHANGED <<loop, cm, server, graph, storedGraph, storedTimestamp>>

-----------------------------------------------------------------------------
(* Around the loop. *)

\* LDK's state changes.
LdkChanges ==
  /\ ~ dirty /\ dirty' = TRUE
  /\ UNCHANGED <<pc, loop, cmNeedsPersist, owed, gossip, troubles>>

Gossip ==
  /\ server < MaxGossip /\ server' = server + 1
  /\ UNCHANGED <<pc, loop, cm, graph, rgs, storedGraph, storedTimestamp, troubles>>

\* The tab is hidden: the graph is written (the ChannelManager's write is in
\* WalletBackup).
Hidden ==
  /\ storedGraph' = graph
  /\ UNCHANGED <<pc, loop, cm, server, graph, rgs, storedTimestamp, troubles>>

\* The tab dies and starts again.
Restart ==
  /\ Trouble
  /\ pc' = "wait" /\ stopped' = FALSE /\ tickCount' = 0 /\ errors' = 0
  /\ backoff' = 1 /\ status' = "syncing"
  /\ dirty' = FALSE /\ cmNeedsPersist' = FALSE /\ owed' = FALSE
  /\ graph' = storedGraph /\ rgs' = NoRgs
  /\ UNCHANGED <<server, storedGraph, storedTimestamp>>

TickStep ==
  \/ Synced \/ CmPersisted \/ GraphPut \/ PeriodicRgs \/ RgsGraphPut \/ TickOk
RgsStep == RgsRead \/ RgsReply \/ RgsPut

Next ==
  \/ Tick \/ TickStep \/ SyncFails \/ CmFails \/ GraphFails \/ RgsGraphFails \/ Stop
  \/ RgsStep \/ RgsFails
  \/ LdkChanges \/ Gossip \/ Hidden \/ Restart

Spec == Init /\ [][Next]_vars
FairSpec == Spec /\ WF_vars(Tick) /\ WF_vars(TickStep) /\ WF_vars(RgsStep)

-----------------------------------------------------------------------------
\* The loop takes LDK's flag before its write and so is the only one that knows
\* of the change: a write that fails is made again until one succeeds, also when
\* syncOnce throws in between (chain-sync.ts:229-237).
WriteRetried == owed ~> (~ owed \/ stopped)

\* A gossip sync asks only for what is later than what its graph has.  Not after
\* a crash between the two writes: see section 7 of the README.
NoGossipGap == rgs.at = "fetch" => 1..rgs.ts \subseteq graph
=============================================================================
