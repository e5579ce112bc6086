---------------------------- MODULE OnchainWallet ----------------------------
(***************************************************************************)
(* The on-chain wallet of one session: the full scan at the start          *)
(* (src/onchain/init.ts), the sync loop with pause, resume and syncNow     *)
(* (src/onchain/sync.ts), sends and estimates (src/onchain/context.tsx),   *)
(* addresses revealed for LDK (src/onchain/address-utils.ts), and the      *)
(* changes of the BDK wallet on their way into the stored changeset        *)
(* (src/onchain/storage/changeset.ts).  The fee rate a send may wait for   *)
(* is FeeRates.                                                            *)
(*                                                                         *)
(* Changes of the wallet are numbered; take_staged hands over all that are *)
(* staged, to whoever calls it.                                            *)
(***************************************************************************)
EXTENDS Naturals, FiniteSets

CONSTANTS
  Sends,          \* bound: sends of the user, which may overlap
  SyncNowRetries,
  MaxChanges,     \* bound: changes of the BDK wallet
  MaxTroubles     \* bound: failed requests and failed writes

Changes == 1..MaxChanges

VARIABLES
  tick,       \* the loop: in the full scan, idle between ticks, or in a tick
  timers,     \* pending timeouts that will call tick
  paused, stopped,
  retries,    \* retriesRemaining
  send,       \* where each send stands
  funding,    \* a funding transaction is built and its changes not taken yet
  made,       \* changes so far
  staged,
  puts,       \* running calls of putChangeset
  stored,
  troubles,
  excused     \* history: changes dropped by an estimate, a failed write or an overlap

loop == <<tick, timers, paused, stopped, retries>>
changes == <<made, staged, puts, stored, excused>>
vars == <<tick, timers, paused, stopped, retries, send, funding, made,
          staged, puts, stored, troubles, excused>>

NotRead == {0}
Puts == [delta : SUBSET Changes, seen : {NotRead} \union SUBSET Changes,
         by : {"scan", "tick", "other"}]

TypeOK ==
  /\ tick \in {"off", "scan", "scanput", "idle", "sync", "put"}
  /\ timers \in 0..1 /\ paused \in BOOLEAN /\ stopped \in BOOLEAN
  /\ retries \in 0..SyncNowRetries
  /\ send \in [Sends -> {"idle", "estimate", "rate", "broadcast", "over"}]
  /\ funding \in BOOLEAN
  /\ made \in 0..MaxChanges /\ staged \subseteq 1..made /\ stored \subseteq 1..made
  /\ puts \subseteq Puts /\ troubles \in 0..MaxTroubles
  /\ excused \subseteq 1..made

Init ==
  /\ tick = "scan" /\ timers = 0 /\ paused = FALSE /\ stopped = FALSE
  /\ retries = 0 /\ send = [s \in Sends |-> "idle"] /\ funding = FALSE
  /\ made = 0 /\ staged = {} /\ puts = {} /\ stored = {}
  /\ troubles = 0 /\ excused = {}

Trouble == troubles < MaxTroubles /\ troubles' = troubles + 1
Ready == tick \in {"idle", "sync", "put"}
Syncing == tick \in {"sync", "put"}
Less1(n) == IF n = 0 THEN 0 ELSE n - 1

-----------------------------------------------------------------------------
(* Changes and the stored changeset. *)

\* The wallet makes the changes new, at most one.
Make(new) ==
  /\ new # {} => made < MaxChanges
  /\ made' = made + Cardinality(new)
NewChanges == {{}, {made + 1}}

\* take_staged, of all that is staged, and if there is any a call of putChangeset.
TakeAndPut(all, by) ==
  /\ staged' = {}
  /\ puts' = IF all = {} THEN puts
             ELSE puts \union {[delta |-> all, seen |-> NotRead, by |-> by]}

\* scheduleNext, with r retries left.
ScheduleNext(r) ==
  IF stopped THEN UNCHANGED timers /\ retries' = r
  ELSE timers' = timers + 1 /\ retries' = Less1(r)

\* putChangeset reads what is stored.
PutRead(p) ==
  /\ p \in puts /\ p.seen = NotRead
  /\ puts' = (puts \ {p}) \union {[p EXCEPT !.seen = stored]}
  /\ UNCHANGED <<loop, send, funding, made, staged, stored, troubles, excused>>

\* The scan and the tick go on when their call has ended, well or not.
PutEnds(p) ==
  /\ puts' = puts \ {p}
  /\ IF p.by = "other" THEN UNCHANGED <<tick, timers, retries>>
     ELSE /\ tick' = IF p.by = "scan" /\ stopped THEN "off" ELSE "idle"
          /\ ScheduleNext(retries)
  /\ UNCHANGED <<paused, stopped, send, funding, made, staged>>

\* Faulty variant: the delta is written as it is.
PutUnmerged(p) ==
  /\ p \in puts /\ p.seen # NotRead
  /\ stored' = p.delta
  /\ excused' = excused \union (stored \ p.seen)
  /\ PutEnds(p) /\ UNCHANGED troubles

\* What was read, merged with the delta, is written over what others stored since.
PutMerged(p) ==
  /\ p \in puts /\ p.seen # NotRead
  /\ stored' = p.seen \union p.delta
  /\ excused' = excused \union (stored \ p.seen)
  /\ PutEnds(p) /\ UNCHANGED troubles

PutFails(p) ==
  /\ p \in puts /\ Trouble
  /\ excused' = excused \union p.delta
  /\ PutEnds(p) /\ UNCHANGED stored

-----------------------------------------------------------------------------
(* The full scan and the sync loop. *)

\* A failed scan is only logged; what is staged is written either way.
ScanEnds ==
  /\ tick = "scan"
  /\ \E new \in NewChanges :
       /\ Make(new) /\ TakeAndPut(staged \union new, "scan")
       /\ IF staged \union new # {} THEN tick' = "scanput" /\ UNCHANGED <<timers, retries>>
          ELSE tick' = (IF stopped THEN "off" ELSE "idle") /\ ScheduleNext(retries)
  /\ UNCHANGED <<paused, stopped, send, funding, stored, troubles, excused>>

\* A call of tick() with t timers left, r retries, and the pause flag p.
CallTick(t, r, p) ==
  IF Syncing THEN timers' = t /\ retries' = r /\ UNCHANGED tick
  ELSE IF p THEN timers' = t + 1 /\ retries' = Less1(r) /\ UNCHANGED tick
  ELSE timers' = t /\ retries' = r /\ tick' = "sync"

TimerFires ==
  /\ timers > 0
  /\ CallTick(timers - 1, retries, paused)
  /\ UNCHANGED <<paused, stopped, send, funding, changes, troubles>>

\* Faulty variant: the timeout stays.
SyncNowKeepsTimer ==
  IF stopped \/ ~ Ready THEN UNCHANGED <<tick, timers, retries>>
  ELSE timers <= 1 /\ CallTick(timers, SyncNowRetries, paused)

\* syncNow, its pending timeout cancelled.
SyncNow ==
  IF stopped \/ ~ Ready THEN UNCHANGED <<tick, timers, retries>>
  ELSE CallTick(0, SyncNowRetries, paused)

\* LDK's events ask for a sync.
SyncNeeded ==
  /\ SyncNow
  /\ UNCHANGED <<paused, stopped, send, funding, changes, troubles>>

SyncReply ==
  /\ tick = "sync"
  /\ \E new \in NewChanges :
       /\ Make(new) /\ TakeAndPut(staged \union new, "tick")
       /\ IF staged \union new # {} THEN tick' = "put" /\ UNCHANGED <<timers, retries>>
          ELSE tick' = "idle" /\ ScheduleNext(retries)
  /\ UNCHANGED <<paused, stopped, send, funding, stored, troubles, excused>>

\* The request fails or takes longer than BDK_SYNC_TIMEOUT_MS.
SyncFails ==
  /\ tick = "sync" /\ Trouble
  /\ tick' = "idle" /\ ScheduleNext(retries)
  /\ UNCHANGED <<paused, stopped, send, funding, changes>>

Stop ==
  /\ ~ stopped /\ stopped' = TRUE /\ timers' = 0
  /\ UNCHANGED <<tick, paused, retries, send, funding, changes, troubles>>

-----------------------------------------------------------------------------
(* Sends. *)

\* buildPsbt and what follows without an await, with `base' staged: the send
\* waits for its broadcast, or throws, the build's changes staged or discarded.
Build(s, base, gone) ==
  \E new \in NewChanges :
    /\ Make(new)
    /\ \/ /\ send' = [send EXCEPT ![s] = "broadcast"] /\ paused' = TRUE
          /\ staged' = base \union new /\ excused' = excused \union gone
       \/ /\ send' = [send EXCEPT ![s] = "over"] /\ paused' = FALSE
          /\ \/ new = {} /\ staged' = base /\ excused' = excused \union gone
             \/ staged' = {} /\ excused' = excused \union gone \union base \union new

\* buildSignBroadcast: pause, then the fee rate unless the page has given one.
Begin(s, base, gone) ==
  \/ /\ paused' = TRUE /\ send' = [send EXCEPT ![s] = "rate"]
     /\ staged' = base /\ excused' = excused \union gone /\ UNCHANGED made
  \/ Build(s, base, gone)

\* Sent with no channel open: no reserve to check.
SendStart(s) ==
  /\ send[s] = "idle" /\ Ready /\ ~ stopped
  /\ Begin(s, staged, {})
  /\ UNCHANGED <<tick, timers, stopped, retries, funding, puts, stored, troubles>>

\* An estimate, of the review page or of a send that has a reserve to check.
Estimate(s) ==
  /\ send[s] = "idle" /\ Ready /\ ~ stopped
  /\ send' = [send EXCEPT ![s] = "estimate"]
  /\ UNCHANGED <<loop, funding, changes, troubles>>

\* It discards all that is staged; then the send begins, or there is none.
Estimated(s) ==
  /\ send[s] = "estimate"
  /\ \/ /\ send' = [send EXCEPT ![s] = "idle"]
        /\ staged' = {} /\ excused' = excused \union staged
        /\ UNCHANGED <<paused, made>>
     \/ ~ stopped /\ Begin(s, {}, staged)
  /\ UNCHANGED <<tick, timers, stopped, retries, funding, puts, stored, troubles>>

SendRate(s) ==
  /\ send[s] = "rate"
  /\ Build(s, staged, {})
  /\ UNCHANGED <<tick, timers, stopped, retries, funding, puts, stored, troubles>>

\* The broadcast is done: persistChangeset, syncNow while still paused, resume.
Sent(s) ==
  /\ send[s] = "broadcast" /\ send' = [send EXCEPT ![s] = "over"]
  /\ TakeAndPut(staged, "other") /\ SyncNow /\ paused' = FALSE
  /\ UNCHANGED <<stopped, funding, made, stored, troubles, excused>>

SendFails(s) ==
  /\ send[s] = "broadcast" /\ Trouble
  /\ send' = [send EXCEPT ![s] = "over"] /\ paused' = FALSE
  /\ UNCHANGED <<tick, timers, stopped, retries, funding, changes>>

-----------------------------------------------------------------------------
(* The Lightning node's use of the wallet. *)

\* An address is revealed for a channel, a fee bump or the Receive page.
Reveal ==
  /\ \E new \in NewChanges : Make(new) /\ TakeAndPut(staged \union new, "other")
  /\ UNCHANGED <<loop, send, funding, stored, troubles, excused>>

\* FundingGenerationReady builds, stores the transaction, and then takes the changes.
FundingBuilt ==
  /\ ~ funding /\ funding' = TRUE
  /\ \E new \in NewChanges : Make(new) /\ staged' = staged \union new
  /\ UNCHANGED <<loop, send, puts, stored, troubles, excused>>

FundingTaken ==
  /\ funding /\ funding' = FALSE
  /\ TakeAndPut(staged, "other")
  /\ UNCHANGED <<loop, send, made, stored, troubles, excused>>

FundingFails ==
  /\ funding /\ Trouble /\ funding' = FALSE
  /\ UNCHANGED <<loop, send, changes>>

-----------------------------------------------------------------------------
SendStep(s) == Estimated(s) \/ SendRate(s) \/ Sent(s)
PutStep == \E p \in puts : PutRead(p) \/ PutMerged(p)
LoopStep == ScanEnds \/ TimerFires \/ SyncReply

Next ==
  \/ LoopStep \/ SyncNeeded \/ SyncFails \/ Stop
  \/ PutStep \/ \E p \in puts : PutFails(p)
  \/ \E s \in Sends : SendStart(s) \/ Estimate(s) \/ SendStep(s) \/ SendFails(s)
  \/ Reveal \/ FundingBuilt \/ FundingTaken \/ FundingFails

Spec == Init /\ [][Next]_vars

-----------------------------------------------------------------------------
\* The loop neither dies nor runs twice: whatever the order of ticks, pauses,
\* syncNow and stop, either one timeout is pending or one tick is running
\* (sync.ts:43-135, where timeoutId may name a timeout that has fired).
OneTickPending ==
  IF stopped THEN timers = 0
  ELSE Ready => timers + (IF Syncing THEN 1 ELSE 0) = 1

\* A change of the wallet is staged, being written or stored, unless an estimate
\* discarded it, its write failed, or a write that had read before it was stored
\* went over it (changeset.ts:16-26).
LossExplained ==
  1..made \subseteq staged \union stored \union excused \union UNION {p.delta : p \in puts}
=============================================================================
