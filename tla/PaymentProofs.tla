---------------------------- MODULE PaymentProofs ----------------------------
(***************************************************************************)
(* Proofs about the parts of a session that move money: the on-chain       *)
(* wallet (OnchainWallet), the Send page (SendPage) and the history of     *)
(* payments (PaymentHistory), for any bounds.                              *)
(***************************************************************************)
EXTENDS Session, Sequences, FiniteSetTheorems, TLAPS

LEMMA PaymentBounds ==
  /\ SyncNowRetries \in Nat /\ MaxChanges \in Nat /\ MaxTroubles \in Nat
  /\ MaxAsks \in Nat /\ MaxOffers \in Nat /\ MaxPayments \in Nat
  /\ MaxBegun \in Nat /\ MaxFailures \in Nat
BY SessionAssumption, ChainSyncAssumption

\* The instances' cardinality is that of FiniteSets.
LEMMA OneCardinality ==
  ASSUME NEW s
  PROVE  Bdk!Cardinality(s) = Cardinality(s) /\ Page!Cardinality(s) = Cardinality(s)
<1>1. Bdk!Cardinality(s) = Cardinality(s)
  BY DEF Bdk!Cardinality, Cardinality
<1>2. Page!Cardinality(s) = Cardinality(s)
  BY DEF Page!Cardinality, Cardinality
<1> QED
  BY <1>1, <1>2

(***************************************************************************)
(* The on-chain wallet.                                                    *)
(***************************************************************************)

\* What a running write of m changes may be.
PutsOf(m) == [delta : SUBSET (1..m), seen : {Bdk!NotRead} \cup SUBSET (1..m),
              by : {"scan", "tick", "other"}]

\* The changes the running writes carry.
Carried(s) == UNION {p.delta : p \in s}

WalletTypes ==
  /\ bdk_tick \in {"off", "scan", "scanput", "idle", "sync", "put"}
  /\ bdk_timers \in 0..1 /\ bdk_paused \in BOOLEAN /\ bdk_stopped \in BOOLEAN
  /\ bdk_retries \in 0..SyncNowRetries
  /\ bdk_send \in [Sends -> {"idle", "estimate", "rate", "broadcast", "over"}]
  /\ bdk_funding \in BOOLEAN /\ bdk_troubles \in 0..MaxTroubles

ChangeTypes ==
  /\ bdk_made \in 0..MaxChanges
  /\ bdk_staged \in SUBSET (1..bdk_made) /\ bdk_stored \in SUBSET (1..bdk_made)
  /\ bdk_excused \in SUBSET (1..bdk_made) /\ bdk_puts \in SUBSET PutsOf(bdk_made)

\* One timeout or one tick, and the write the scan or the tick waits for.
LoopRuns ==
  /\ bdk_stopped => bdk_timers = 0
  /\ bdk_tick = "off" => bdk_stopped
  /\ bdk_tick \in {"scan", "scanput", "sync", "put"} => bdk_timers = 0
  /\ bdk_tick = "idle" /\ ~ bdk_stopped => bdk_timers = 1
  /\ \A p \in bdk_puts : /\ p.by = "scan" => bdk_tick = "scanput"
                         /\ p.by = "tick" => bdk_tick = "put"
  /\ \A p, q \in bdk_puts : p.by # "other" /\ q.by # "other" => p = q

WalletInv == WalletTypes /\ ChangeTypes /\ LoopRuns /\ LossExplained

\* What no step of the wallet does: lose a change without a trace.
Accounted ==
  bdk_staged \cup bdk_stored \cup bdk_excused \cup Carried(bdk_puts)

ChangesKept ==
  /\ bdk_made' \in 0..MaxChanges
  /\ bdk_staged' \in SUBSET (1..bdk_made') /\ bdk_stored' \in SUBSET (1..bdk_made')
  /\ bdk_excused' \in SUBSET (1..bdk_made') /\ bdk_puts' \in SUBSET PutsOf(bdk_made')
  /\ Accounted \subseteq Accounted' /\ 1..bdk_made' \subseteq 1..bdk_made \cup Accounted'

LEMMA KeptChanges ==
  ASSUME WalletInv, ChangesKept
  PROVE  ChangeTypes' /\ LossExplained'
<1>1. ChangeTypes'
  BY DEF ChangesKept, ChangeTypes
<1>2. 1..bdk_made \subseteq Accounted
  BY DEF WalletInv, LossExplained, Bdk!LossExplained, Accounted, Carried
<1>3. 1..bdk_made' \subseteq Accounted'
  BY <1>2 DEF ChangesKept
<1>4. LossExplained'
  BY <1>3 DEF LossExplained, Bdk!LossExplained, Accounted, Carried
<1> QED
  BY <1>1, <1>4

LEMMA PutsGrow ==
  ASSUME NEW m \in Nat, NEW k \in Nat, m <= k
  PROVE  1..m \subseteq 1..k /\ PutsOf(m) \subseteq PutsOf(k)
<1>1. 1..m \subseteq 1..k
  OBVIOUS
<1>2. SUBSET (1..m) \subseteq SUBSET (1..k)
  BY <1>1
<1> QED
  BY <1>1, <1>2, SMT DEF PutsOf

\* The wallet makes at most one change.
LEMMA OneMade ==
  ASSUME ChangeTypes, NEW new \in Bdk!NewChanges, Bdk!Make(new)
  PROVE  /\ bdk_made' \in 0..MaxChanges /\ bdk_made <= bdk_made'
         /\ 1..bdk_made' = 1..bdk_made \cup new
<1>1. bdk_made \in Nat /\ bdk_made \in 0..MaxChanges
  BY PaymentBounds DEF ChangeTypes
<1>2. CASE new = {}
  <2>1. bdk_made' = bdk_made + 0
    <3>1. Cardinality(new) = 0
      BY <1>2, FS_EmptySet
    <3> QED
      BY <3>1, OneCardinality DEF Bdk!Make
  <2>2. bdk_made' = bdk_made
    BY <1>1, <2>1
  <2>3. bdk_made' \in 0..MaxChanges /\ bdk_made <= bdk_made'
    BY <1>1, <2>2
  <2>4. 1..bdk_made' = 1..bdk_made \cup new
    BY <1>2, <2>2
  <2> QED
    BY <2>3, <2>4
<1>3. CASE new = {bdk_made + 1}
  <2>1. bdk_made' = bdk_made + 1
    <3>1. Cardinality(new) = 1
      BY <1>3, FS_Singleton
    <3> QED
      BY <3>1, OneCardinality DEF Bdk!Make
  <2>2. bdk_made < MaxChanges
    BY <1>3 DEF Bdk!Make
  <2>3. bdk_made' \in 0..MaxChanges /\ bdk_made <= bdk_made'
    BY <1>1, <2>1, <2>2, PaymentBounds
  <2>4. 1..(bdk_made + 1) = 1..bdk_made \cup {bdk_made + 1}
    BY <1>1
  <2> QED
    BY <1>3, <2>1, <2>3, <2>4
<1> QED
  BY <1>2, <1>3 DEF Bdk!NewChanges

\* All that was staged goes to a write.
LEMMA AllTaken ==
  ASSUME NEW all, NEW by \in {"scan", "tick", "other"}, NEW m,
         all \subseteq 1..m, bdk_puts \subseteq PutsOf(m), Bdk!TakeAndPut(all, by)
  PROVE  /\ bdk_staged' = {} /\ bdk_puts' \subseteq PutsOf(m)
         /\ Carried(bdk_puts') = Carried(bdk_puts) \cup all
         /\ \A p \in bdk_puts' : p \in bdk_puts \/ (p.by = by /\ all # {})
         /\ \A p, q \in bdk_puts' : p \in bdk_puts \/ q \in bdk_puts \/ p = q
<1> DEFINE new == [delta |-> all, seen |-> Bdk!NotRead, by |-> by]
<1>1. new \in PutsOf(m) /\ new.delta = all /\ new.by = by
  BY SMT DEF PutsOf
<1>2. bdk_staged' = {} /\ bdk_puts' = IF all = {} THEN bdk_puts ELSE bdk_puts \cup {new}
  BY DEF Bdk!TakeAndPut
<1> HIDE DEF new
<1>3. Carried(bdk_puts \cup {new}) = Carried(bdk_puts) \cup all
  BY <1>1 DEF Carried
<1> QED
  BY <1>1, <1>2, <1>3

\* What building a transaction does, with base of the staged changes kept and
\* the others discarded by the estimate before it.
BuildDone ==
  /\ bdk_send' \in [Sends -> {"idle", "estimate", "rate", "broadcast", "over"}]
  /\ bdk_paused' \in BOOLEAN /\ bdk_made' \in 0..MaxChanges /\ bdk_made <= bdk_made'
  /\ bdk_staged' \subseteq 1..bdk_made' /\ bdk_excused' \subseteq 1..bdk_made'
  /\ bdk_staged \cup bdk_excused \subseteq bdk_staged' \cup bdk_excused'
  /\ 1..bdk_made' \subseteq 1..bdk_made \cup bdk_staged' \cup bdk_excused'

LEMMA BuildMoves ==
  ASSUME WalletInv, NEW s \in Sends, NEW base, NEW gone, base \cup gone = bdk_staged,
         Bdk!Build(s, base, gone)
  PROVE  BuildDone
<1>1. PICK new \in Bdk!NewChanges :
        /\ Bdk!Make(new)
        /\ \/ /\ bdk_send' = [bdk_send EXCEPT ![s] = "broadcast"] /\ bdk_paused' = TRUE
              /\ bdk_staged' = base \cup new /\ bdk_excused' = bdk_excused \cup gone
           \/ /\ bdk_send' = [bdk_send EXCEPT ![s] = "over"] /\ bdk_paused' = FALSE
              /\ \/ new = {} /\ bdk_staged' = base /\ bdk_excused' = bdk_excused \cup gone
                 \/ /\ bdk_staged' = {}
                    /\ bdk_excused' = bdk_excused \cup gone \cup base \cup new
  BY DEF Bdk!Build
<1>2. WalletTypes /\ ChangeTypes
  BY DEF WalletInv
<1>3. /\ bdk_made' \in 0..MaxChanges /\ bdk_made <= bdk_made'
      /\ 1..bdk_made' = 1..bdk_made \cup new
  BY <1>1, <1>2, OneMade
<1>4. bdk_send' \in [Sends -> {"idle", "estimate", "rate", "broadcast", "over"}]
      /\ bdk_paused' \in BOOLEAN
  BY <1>1, <1>2 DEF WalletTypes
<1>5. bdk_staged \subseteq 1..bdk_made /\ bdk_excused \subseteq 1..bdk_made
  BY <1>2 DEF ChangeTypes
<1>6. bdk_staged' \cup bdk_excused' = bdk_staged \cup bdk_excused \cup new
  BY <1>1
<1> QED
  BY <1>3, <1>4, <1>5, <1>6 DEF BuildDone

LEMMA BeginMoves ==
  ASSUME WalletInv, NEW s \in Sends, NEW base, NEW gone, base \cup gone = bdk_staged,
         Bdk!Begin(s, base, gone)
  PROVE  BuildDone
<1>1. CASE Bdk!Build(s, base, gone)
  BY <1>1, BuildMoves
<1>2. CASE /\ bdk_paused' = TRUE /\ bdk_send' = [bdk_send EXCEPT ![s] = "rate"]
           /\ bdk_staged' = base /\ bdk_excused' = bdk_excused \cup gone
           /\ UNCHANGED bdk_made
  <2>1. WalletTypes /\ ChangeTypes
    BY DEF WalletInv
  <2>2. bdk_send' \in [Sends -> {"idle", "estimate", "rate", "broadcast", "over"}]
        /\ bdk_paused' \in BOOLEAN
    BY <1>2, <2>1 DEF WalletTypes
  <2>3. bdk_made' = bdk_made /\ bdk_made \in Nat /\ bdk_made' \in 0..MaxChanges
    BY <1>2, <2>1, PaymentBounds DEF ChangeTypes
  <2>4. bdk_staged \subseteq 1..bdk_made /\ bdk_excused \subseteq 1..bdk_made
    BY <2>1 DEF ChangeTypes
  <2>5. bdk_made <= bdk_made'
    BY <2>3
  <2>6. bdk_staged' \cup bdk_excused' = bdk_staged \cup bdk_excused
    BY <1>2
  <2> QED
    BY <2>2, <2>3, <2>4, <2>5, <2>6 DEF BuildDone
<1> QED
  BY <1>1, <1>2 DEF Bdk!Begin

LEMMA BuildKeeps ==
  ASSUME WalletInv, BuildDone,
         UNCHANGED <<bdk_tick, bdk_timers, bdk_stopped, bdk_retries, bdk_funding, bdk_puts,
                     bdk_stored, bdk_troubles>>
  PROVE  WalletInv'
<1>1. WalletTypes /\ ChangeTypes /\ LoopRuns
  BY DEF WalletInv
<1>2. bdk_made \in Nat /\ bdk_made' \in Nat /\ bdk_made <= bdk_made'
  BY <1>1, PaymentBounds DEF ChangeTypes, BuildDone
<1>3. 1..bdk_made \subseteq 1..bdk_made' /\ PutsOf(bdk_made) \subseteq PutsOf(bdk_made')
  BY <1>2, PutsGrow
<1>4. WalletTypes'
  BY <1>1 DEF WalletTypes, BuildDone
<1>5. bdk_stored' \subseteq 1..bdk_made' /\ bdk_puts' \subseteq PutsOf(bdk_made')
  BY <1>1, <1>3 DEF ChangeTypes
<1>6. Accounted \subseteq Accounted' /\ 1..bdk_made' \subseteq 1..bdk_made \cup Accounted'
  BY DEF Accounted, BuildDone
<1>7. ChangesKept
  BY <1>5, <1>6 DEF ChangesKept, BuildDone
<1>8. LoopRuns'
  BY <1>1 DEF LoopRuns
<1> QED
  BY <1>4, <1>7, <1>8, KeptChanges DEF WalletInv

\* Sends: what they build is staged or discarded.
LEMMA SendsKeep ==
  ASSUME WalletInv, NEW s \in Sends,
         Bdk!SendStart(s) \/ Bdk!Estimated(s) \/ Bdk!SendRate(s)
  PROVE  WalletInv'
<1>1. UNCHANGED <<bdk_tick, bdk_timers, bdk_stopped, bdk_retries, bdk_funding, bdk_puts,
                  bdk_stored, bdk_troubles>>
  BY DEF Bdk!SendStart, Bdk!Estimated, Bdk!SendRate
<1>2. CASE \/ Bdk!Begin(s, bdk_staged, {}) \/ Bdk!Begin(s, {}, bdk_staged)
           \/ Bdk!Build(s, bdk_staged, {})
  BY <1>1, <1>2, BeginMoves, BuildMoves, BuildKeeps
<1>3. CASE /\ bdk_send' = [bdk_send EXCEPT ![s] = "idle"] /\ bdk_staged' = {}
           /\ bdk_excused' = bdk_excused \cup bdk_staged /\ UNCHANGED <<bdk_paused, bdk_made>>
  <2>1. WalletTypes /\ ChangeTypes
    BY DEF WalletInv
  <2>2. bdk_send' \in [Sends -> {"idle", "estimate", "rate", "broadcast", "over"}]
        /\ bdk_paused' \in BOOLEAN
    BY <1>3, <2>1 DEF WalletTypes
  <2>3. bdk_made' = bdk_made /\ bdk_made \in Nat /\ bdk_made' \in 0..MaxChanges
    BY <1>3, <2>1, PaymentBounds DEF ChangeTypes
  <2>4. bdk_staged \subseteq 1..bdk_made /\ bdk_excused \subseteq 1..bdk_made
    BY <2>1 DEF ChangeTypes
  <2>5. BuildDone
    BY <1>3, <2>2, <2>3, <2>4 DEF BuildDone
  <2> QED
    BY <1>1, <2>5, BuildKeeps
<1> QED
  BY <1>2, <1>3 DEF Bdk!SendStart, Bdk!Estimated, Bdk!SendRate

\* Steps that leave the loop and the changes alone.
LEMMA PlainKeeps ==
  ASSUME WalletInv, WalletTypes',
         UNCHANGED <<bdk_tick, bdk_timers, bdk_stopped, bdk_made, bdk_staged, bdk_puts,
                     bdk_stored, bdk_excused>>
  PROVE  WalletInv'
<1>1. ChangeTypes' /\ LoopRuns' /\ LossExplained'
  BY DEF WalletInv, ChangeTypes, LoopRuns, LossExplained, Bdk!LossExplained
<1> QED
  BY <1>1 DEF WalletInv

LEMMA TroubleTyped ==
  ASSUME WalletTypes, Bdk!Trouble PROVE bdk_troubles' \in 0..MaxTroubles
BY PaymentBounds DEF WalletTypes, Bdk!Trouble

LEMMA SmallStepsKeep ==
  ASSUME WalletInv
  PROVE  /\ \A s \in Sends : Bdk!Estimate(s) \/ Bdk!SendFails(s) => WalletInv'
         /\ Bdk!FundingFails => WalletInv'
<1>1. WalletTypes
  BY DEF WalletInv
<1>2. ASSUME NEW s \in Sends, Bdk!Estimate(s) PROVE WalletInv'
  <2>1. WalletTypes'
    BY <1>1, <1>2 DEF Bdk!Estimate, Bdk!loop, Bdk!changes, WalletTypes
  <2> QED
    BY <1>2, <2>1, PlainKeeps DEF Bdk!Estimate, Bdk!loop, Bdk!changes
<1>3. ASSUME NEW s \in Sends, Bdk!SendFails(s) PROVE WalletInv'
  <2>1. bdk_troubles' \in 0..MaxTroubles
    BY <1>1, <1>3, TroubleTyped DEF Bdk!SendFails
  <2>2. WalletTypes'
    BY <1>1, <1>3, <2>1 DEF Bdk!SendFails, Bdk!changes, WalletTypes
  <2> QED
    BY <1>3, <2>2, PlainKeeps DEF Bdk!SendFails, Bdk!changes
<1>4. ASSUME Bdk!FundingFails PROVE WalletInv'
  <2>1. bdk_troubles' \in 0..MaxTroubles
    BY <1>1, <1>4, TroubleTyped DEF Bdk!FundingFails
  <2>2. WalletTypes'
    BY <1>1, <1>4, <2>1 DEF Bdk!FundingFails, Bdk!loop, Bdk!changes, WalletTypes
  <2> QED
    BY <1>4, <2>2, PlainKeeps DEF Bdk!FundingFails, Bdk!loop, Bdk!changes
<1> QED
  BY <1>2, <1>3, <1>4

\* scheduleNext sets the one timeout, or none once stopped.
LEMMA Scheduled ==
  ASSUME WalletTypes, bdk_timers = 0, Bdk!ScheduleNext(bdk_retries)
  PROVE  /\ bdk_timers' \in 0..1 /\ bdk_retries' \in 0..SyncNowRetries
         /\ bdk_timers' = IF bdk_stopped THEN 0 ELSE 1
<1>1. bdk_retries \in 0..SyncNowRetries /\ Bdk!Less1(bdk_retries) \in 0..SyncNowRetries
  BY PaymentBounds DEF WalletTypes, Bdk!Less1
<1>2. CASE bdk_stopped
  <2>1. bdk_timers' = 0 /\ bdk_retries' = bdk_retries
    BY <1>2 DEF Bdk!ScheduleNext
  <2> QED
    BY <1>1, <1>2, <2>1
<1>3. CASE ~ bdk_stopped
  <2>1. bdk_timers' = 1 /\ bdk_retries' = Bdk!Less1(bdk_retries)
    BY <1>3 DEF Bdk!ScheduleNext
  <2> QED
    BY <1>1, <1>3, <2>1
<1> QED
  BY <1>2, <1>3

\* tick(), called when no timeout is left and the scan is over.
LEMMA Ticked ==
  ASSUME WalletTypes, LoopRuns, ~ bdk_stopped, Bdk!Ready,
         NEW r \in 0..SyncNowRetries, Bdk!CallTick(0, r, bdk_paused),
         UNCHANGED bdk_stopped, \A p \in bdk_puts' : p \in bdk_puts \/ p.by = "other"
  PROVE  /\ bdk_tick' \in {"off", "scan", "scanput", "idle", "sync", "put"}
         /\ bdk_timers' \in 0..1 /\ bdk_retries' \in 0..SyncNowRetries /\ LoopRuns'
<1>1. bdk_tick \in {"idle", "sync", "put"}
  BY DEF Bdk!Ready
<1>2. Bdk!Less1(r) \in 0..SyncNowRetries
  BY PaymentBounds DEF Bdk!Less1
<1>3. CASE bdk_tick \in {"sync", "put"}
  <2>1. bdk_timers' = 0 /\ bdk_retries' = r /\ bdk_tick' = bdk_tick
    BY <1>3 DEF Bdk!CallTick, Bdk!Syncing
  <2>2. LoopRuns'
    BY <1>3, <2>1 DEF LoopRuns
  <2> QED
    BY <1>3, <2>1, <2>2
<1>4. CASE bdk_tick = "idle" /\ bdk_paused
  <2>1. bdk_timers' = 1 /\ bdk_retries' = Bdk!Less1(r) /\ bdk_tick' = "idle"
    BY <1>4 DEF Bdk!CallTick, Bdk!Syncing
  <2>2. LoopRuns'
    BY <1>4, <2>1 DEF LoopRuns
  <2> QED
    BY <1>2, <2>1, <2>2
<1>5. CASE bdk_tick = "idle" /\ ~ bdk_paused
  <2>1. bdk_timers' = 0 /\ bdk_retries' = r /\ bdk_tick' = "sync"
    BY <1>5 DEF Bdk!CallTick, Bdk!Syncing
  <2>2. LoopRuns'
    BY <1>5, <2>1 DEF LoopRuns
  <2> QED
    BY <2>1, <2>2
<1> QED
  BY <1>1, <1>3, <1>4, <1>5

LEMMA SyncedNow ==
  ASSUME WalletTypes, LoopRuns, Bdk!SyncNow,
         UNCHANGED bdk_stopped, \A p \in bdk_puts' : p \in bdk_puts \/ p.by = "other"
  PROVE  /\ bdk_tick' \in {"off", "scan", "scanput", "idle", "sync", "put"}
         /\ bdk_timers' \in 0..1 /\ bdk_retries' \in 0..SyncNowRetries /\ LoopRuns'
<1>1. CASE bdk_stopped \/ ~ Bdk!Ready
  <2>1. UNCHANGED <<bdk_tick, bdk_timers, bdk_retries>>
    BY <1>1 DEF Bdk!SyncNow
  <2> QED
    BY <2>1 DEF LoopRuns, WalletTypes
<1>2. CASE ~ bdk_stopped /\ Bdk!Ready
  <2>1. Bdk!CallTick(0, SyncNowRetries, bdk_paused) /\ SyncNowRetries \in 0..SyncNowRetries
    BY <1>2, PaymentBounds DEF Bdk!SyncNow
  <2> QED
    BY <1>2, <2>1, Ticked
<1> QED
  BY <1>1, <1>2

LEMMA TimersKeep ==
  ASSUME WalletInv
  PROVE  /\ Bdk!TimerFires => WalletInv'
         /\ Bdk!SyncNeeded => WalletInv'
<1>1. WalletTypes /\ ChangeTypes /\ LoopRuns /\ LossExplained
  BY DEF WalletInv
<1>2. ASSUME Bdk!TimerFires PROVE WalletInv'
  <2>1. bdk_timers = 1
    BY <1>1, <1>2 DEF Bdk!TimerFires, WalletTypes
  <2>2. ~ bdk_stopped /\ bdk_tick = "idle"
    BY <1>1, <2>1 DEF LoopRuns, WalletTypes
  <2>3. bdk_timers - 1 = 0
    BY <2>1
  <2>4. Bdk!CallTick(0, bdk_retries, bdk_paused)
    BY <1>2, <2>3 DEF Bdk!TimerFires
  <2>5. UNCHANGED <<bdk_paused, bdk_stopped, bdk_send, bdk_funding, bdk_made, bdk_staged,
                    bdk_puts, bdk_stored, bdk_excused, bdk_troubles>>
    BY <1>2 DEF Bdk!TimerFires, Bdk!changes
  <2>6. /\ bdk_tick' \in {"off", "scan", "scanput", "idle", "sync", "put"}
        /\ bdk_timers' \in 0..1 /\ bdk_retries' \in 0..SyncNowRetries /\ LoopRuns'
    BY <1>1, <2>2, <2>4, <2>5, Ticked DEF WalletTypes, Bdk!Ready
  <2>7. ChangeTypes' /\ LossExplained'
    BY <1>1, <2>5 DEF ChangeTypes, LossExplained, Bdk!LossExplained
  <2> QED
    BY <1>1, <2>5, <2>6, <2>7 DEF WalletInv, WalletTypes
<1>3. ASSUME Bdk!SyncNeeded PROVE WalletInv'
  <2>1. UNCHANGED <<bdk_paused, bdk_stopped, bdk_send, bdk_funding, bdk_made, bdk_staged,
                    bdk_puts, bdk_stored, bdk_excused, bdk_troubles>>
    BY <1>3 DEF Bdk!SyncNeeded, Bdk!changes
  <2>2. /\ bdk_tick' \in {"off", "scan", "scanput", "idle", "sync", "put"}
        /\ bdk_timers' \in 0..1 /\ bdk_retries' \in 0..SyncNowRetries /\ LoopRuns'
    BY <1>1, <1>3, <2>1, SyncedNow DEF Bdk!SyncNeeded
  <2>3. ChangeTypes' /\ LossExplained'
    BY <1>1, <2>1 DEF ChangeTypes, LossExplained, Bdk!LossExplained
  <2> QED
    BY <1>1, <2>1, <2>2, <2>3 DEF WalletInv, WalletTypes
<1> QED
  BY <1>2, <1>3

LEMMA StopKeeps ==
  ASSUME WalletInv, Bdk!Stop PROVE WalletInv'
<1>1. /\ bdk_stopped' = TRUE /\ bdk_timers' = 0
      /\ UNCHANGED <<bdk_tick, bdk_paused, bdk_retries, bdk_send, bdk_funding, bdk_made,
                     bdk_staged, bdk_puts, bdk_stored, bdk_excused, bdk_troubles>>
  BY DEF Bdk!Stop, Bdk!changes
<1>2. WalletTypes'
  BY <1>1 DEF WalletInv, WalletTypes
<1>3. ChangeTypes' /\ LossExplained' /\ LoopRuns'
  BY <1>1 DEF WalletInv, ChangeTypes, LossExplained, Bdk!LossExplained, LoopRuns
<1> QED
  BY <1>2, <1>3 DEF WalletInv

LEMMA SyncFailsKeeps ==
  ASSUME WalletInv, Bdk!SyncFails PROVE WalletInv'
<1>1. WalletTypes /\ ChangeTypes /\ LoopRuns /\ LossExplained
  BY DEF WalletInv
<1>2. /\ bdk_tick = "sync" /\ bdk_tick' = "idle" /\ Bdk!ScheduleNext(bdk_retries)
      /\ UNCHANGED <<bdk_paused, bdk_stopped, bdk_send, bdk_funding, bdk_made, bdk_staged,
                     bdk_puts, bdk_stored, bdk_excused>>
  BY DEF Bdk!SyncFails, Bdk!changes
<1>3. bdk_timers = 0
  BY <1>1, <1>2 DEF LoopRuns
<1>4. /\ bdk_timers' \in 0..1 /\ bdk_retries' \in 0..SyncNowRetries
      /\ bdk_timers' = IF bdk_stopped THEN 0 ELSE 1
  BY <1>1, <1>2, <1>3, Scheduled
<1>5. bdk_troubles' \in 0..MaxTroubles
  BY <1>1, TroubleTyped DEF Bdk!SyncFails
<1>6. WalletTypes'
  BY <1>1, <1>2, <1>4, <1>5 DEF WalletTypes
<1>7. LoopRuns'
  BY <1>1, <1>2, <1>4 DEF LoopRuns
<1>8. ChangeTypes' /\ LossExplained'
  BY <1>1, <1>2 DEF ChangeTypes, LossExplained, Bdk!LossExplained
<1> QED
  BY <1>6, <1>7, <1>8 DEF WalletInv

\* A scan or a sync that ends: with changes to write it waits for the write.
LEMMA RoundKeeps ==
  ASSUME WalletInv, NEW by \in {"scan", "tick"}, NEW wait, NEW new \in Bdk!NewChanges,
         \/ by = "scan" /\ bdk_tick = "scan" /\ wait = "scanput"
         \/ by = "tick" /\ bdk_tick = "sync" /\ wait = "put",
         Bdk!Make(new), Bdk!TakeAndPut(bdk_staged \cup new, by),
         IF bdk_staged \cup new # {} THEN bdk_tick' = wait /\ UNCHANGED <<bdk_timers, bdk_retries>>
         ELSE /\ bdk_tick' = (IF by = "scan" /\ bdk_stopped THEN "off" ELSE "idle")
              /\ Bdk!ScheduleNext(bdk_retries),
         UNCHANGED <<bdk_paused, bdk_stopped, bdk_send, bdk_funding, bdk_stored, bdk_troubles,
                     bdk_excused>>
  PROVE  WalletInv'
<1> DEFINE all == bdk_staged \cup new
<1>1. WalletTypes /\ ChangeTypes /\ LoopRuns
  BY DEF WalletInv
<1>2. /\ bdk_made' \in 0..MaxChanges /\ bdk_made <= bdk_made'
      /\ 1..bdk_made' = 1..bdk_made \cup new
  BY <1>1, OneMade
<1>3. bdk_made \in Nat /\ bdk_made' \in Nat
  BY <1>1, <1>2, PaymentBounds DEF ChangeTypes
<1>4. 1..bdk_made \subseteq 1..bdk_made' /\ PutsOf(bdk_made) \subseteq PutsOf(bdk_made')
  BY <1>2, <1>3, PutsGrow
<1>5. all \subseteq 1..bdk_made' /\ bdk_puts \subseteq PutsOf(bdk_made')
  BY <1>1, <1>2, <1>4 DEF ChangeTypes
<1>6. by \in {"scan", "tick", "other"}
  OBVIOUS
<1>7. /\ bdk_staged' = {} /\ bdk_puts' \subseteq PutsOf(bdk_made')
      /\ Carried(bdk_puts') = Carried(bdk_puts) \cup all
      /\ \A p \in bdk_puts' : p \in bdk_puts \/ (p.by = by /\ all # {})
      /\ \A p, q \in bdk_puts' : p \in bdk_puts \/ q \in bdk_puts \/ p = q
  BY <1>5, <1>6, AllTaken
<1>8. ChangesKept
  <2>1. Accounted \subseteq Accounted' /\ 1..bdk_made' \subseteq 1..bdk_made \cup Accounted'
    BY <1>2, <1>7 DEF Accounted
  <2>2. bdk_stored' \subseteq 1..bdk_made' /\ bdk_excused' \subseteq 1..bdk_made'
    BY <1>1, <1>4 DEF ChangeTypes
  <2> QED
    BY <1>2, <1>7, <2>1, <2>2 DEF ChangesKept
<1>9. bdk_timers = 0 /\ \A p \in bdk_puts : p.by = "other"
  <2>1. bdk_puts \subseteq PutsOf(bdk_made)
    BY <1>1 DEF ChangeTypes
  <2>2. \A p \in bdk_puts : p.by \in {"scan", "tick", "other"}
    BY <2>1, SMT DEF PutsOf
  <2> QED
    BY <1>1, <2>2 DEF LoopRuns
<1>10. CASE all # {}
  <2>1. bdk_tick' = wait /\ bdk_timers' = bdk_timers /\ bdk_retries' = bdk_retries
    BY <1>10
  <2>2. WalletTypes'
    BY <1>1, <2>1 DEF WalletTypes
  <2>3. LoopRuns'
    BY <1>7, <1>9, <2>1 DEF LoopRuns
  <2> QED
    BY <1>8, <2>2, <2>3, KeptChanges DEF WalletInv
<1>11. CASE all = {}
  <2>1. /\ bdk_tick' = (IF by = "scan" /\ bdk_stopped THEN "off" ELSE "idle")
        /\ Bdk!ScheduleNext(bdk_retries)
    BY <1>11
  <2>2. /\ bdk_timers' \in 0..1 /\ bdk_retries' \in 0..SyncNowRetries
        /\ bdk_timers' = IF bdk_stopped THEN 0 ELSE 1
    BY <1>1, <1>9, <2>1, Scheduled
  <2>3. WalletTypes'
    BY <1>1, <2>1, <2>2 DEF WalletTypes
  <2>4. \A p \in bdk_puts' : p.by = "other"
    BY <1>7, <1>9, <1>11
  <2>5. LoopRuns'
    BY <1>1, <2>1, <2>2, <2>4 DEF LoopRuns
  <2> QED
    BY <1>8, <2>3, <2>5, KeptChanges DEF WalletInv
<1> QED
  BY <1>10, <1>11

LEMMA RoundsKeep ==
  ASSUME WalletInv
  PROVE  /\ Bdk!ScanEnds => WalletInv'
         /\ Bdk!SyncReply => WalletInv'
<1>1. ASSUME Bdk!ScanEnds PROVE WalletInv'
  <2>1. /\ bdk_tick = "scan"
        /\ UNCHANGED <<bdk_paused, bdk_stopped, bdk_send, bdk_funding, bdk_stored,
                       bdk_troubles, bdk_excused>>
    BY <1>1 DEF Bdk!ScanEnds
  <2>2. PICK new \in Bdk!NewChanges :
          /\ Bdk!Make(new) /\ Bdk!TakeAndPut(bdk_staged \cup new, "scan")
          /\ IF bdk_staged \cup new # {}
             THEN bdk_tick' = "scanput" /\ UNCHANGED <<bdk_timers, bdk_retries>>
             ELSE /\ bdk_tick' = (IF bdk_stopped THEN "off" ELSE "idle")
                  /\ Bdk!ScheduleNext(bdk_retries)
    BY <1>1 DEF Bdk!ScanEnds
  <2> DEFINE by == "scan"  wait == "scanput"
  <2>3. by \in {"scan", "tick"} /\ by = "scan" /\ wait = "scanput"
    OBVIOUS
  <2>4. /\ Bdk!TakeAndPut(bdk_staged \cup new, by)
        /\ IF bdk_staged \cup new # {}
           THEN bdk_tick' = wait /\ UNCHANGED <<bdk_timers, bdk_retries>>
           ELSE /\ bdk_tick' = (IF by = "scan" /\ bdk_stopped THEN "off" ELSE "idle")
                /\ Bdk!ScheduleNext(bdk_retries)
    BY <2>2
  <2> HIDE DEF by, wait
  <2> QED
    BY <2>1, <2>2, <2>3, <2>4, RoundKeeps
<1>2. ASSUME Bdk!SyncReply PROVE WalletInv'
  <2>1. /\ bdk_tick = "sync"
        /\ UNCHANGED <<bdk_paused, bdk_stopped, bdk_send, bdk_funding, bdk_stored,
                       bdk_troubles, bdk_excused>>
    BY <1>2 DEF Bdk!SyncReply
  <2>2. PICK new \in Bdk!NewChanges :
          /\ Bdk!Make(new) /\ Bdk!TakeAndPut(bdk_staged \cup new, "tick")
          /\ IF bdk_staged \cup new # {}
             THEN bdk_tick' = "put" /\ UNCHANGED <<bdk_timers, bdk_retries>>
             ELSE bdk_tick' = "idle" /\ Bdk!ScheduleNext(bdk_retries)
    BY <1>2 DEF Bdk!SyncReply
  <2> DEFINE by == "tick"  wait == "put"
  <2>3. by \in {"scan", "tick"} /\ by = "tick" /\ wait = "put"
    OBVIOUS
  <2>4. /\ Bdk!TakeAndPut(bdk_staged \cup new, by)
        /\ IF bdk_staged \cup new # {}
           THEN bdk_tick' = wait /\ UNCHANGED <<bdk_timers, bdk_retries>>
           ELSE /\ bdk_tick' = (IF by = "scan" /\ bdk_stopped THEN "off" ELSE "idle")
                /\ Bdk!ScheduleNext(bdk_retries)
    BY <2>2
  <2> HIDE DEF by, wait
  <2> QED
    BY <2>1, <2>2, <2>3, <2>4, RoundKeeps
<1> QED
  BY <1>1, <1>2

\* Calls of persistChangeset that neither the scan nor the tick waits for.
LEMMA TakesKeep ==
  ASSUME WalletInv, NEW new \in Bdk!NewChanges, Bdk!Make(new),
         Bdk!TakeAndPut(bdk_staged \cup new, "other"),
         UNCHANGED <<bdk_stopped, bdk_stored, bdk_troubles, bdk_excused>>,
         bdk_paused' \in BOOLEAN, bdk_funding' \in BOOLEAN,
         bdk_send' \in [Sends -> {"idle", "estimate", "rate", "broadcast", "over"}],
         UNCHANGED <<bdk_tick, bdk_timers, bdk_retries>> \/ Bdk!SyncNow
  PROVE  WalletInv'
<1> DEFINE all == bdk_staged \cup new
<1>1. WalletTypes /\ ChangeTypes /\ LoopRuns
  BY DEF WalletInv
<1>2. /\ bdk_made' \in 0..MaxChanges /\ bdk_made <= bdk_made'
      /\ 1..bdk_made' = 1..bdk_made \cup new
  BY <1>1, OneMade
<1>3. bdk_made \in Nat /\ bdk_made' \in Nat
  BY <1>1, <1>2, PaymentBounds DEF ChangeTypes
<1>4. 1..bdk_made \subseteq 1..bdk_made' /\ PutsOf(bdk_made) \subseteq PutsOf(bdk_made')
  BY <1>2, <1>3, PutsGrow
<1>5. all \subseteq 1..bdk_made' /\ bdk_puts \subseteq PutsOf(bdk_made')
  BY <1>1, <1>2, <1>4 DEF ChangeTypes
<1>6. /\ bdk_staged' = {} /\ bdk_puts' \subseteq PutsOf(bdk_made')
      /\ Carried(bdk_puts') = Carried(bdk_puts) \cup all
      /\ \A p \in bdk_puts' : p \in bdk_puts \/ (p.by = "other" /\ all # {})
  BY <1>5, AllTaken
<1>7. ChangesKept
  <2>1. Accounted \subseteq Accounted' /\ 1..bdk_made' \subseteq 1..bdk_made \cup Accounted'
    BY <1>2, <1>6 DEF Accounted
  <2>2. bdk_stored' \subseteq 1..bdk_made' /\ bdk_excused' \subseteq 1..bdk_made'
    BY <1>1, <1>4 DEF ChangeTypes
  <2> QED
    BY <1>2, <1>6, <2>1, <2>2 DEF ChangesKept
<1>8. /\ bdk_tick' \in {"off", "scan", "scanput", "idle", "sync", "put"}
      /\ bdk_timers' \in 0..1 /\ bdk_retries' \in 0..SyncNowRetries /\ LoopRuns'
  <2>1. CASE UNCHANGED <<bdk_tick, bdk_timers, bdk_retries>>
    BY <1>1, <1>6, <2>1 DEF LoopRuns, WalletTypes
  <2>2. CASE Bdk!SyncNow
    BY <1>1, <1>6, <2>2, SyncedNow
  <2> QED
    BY <2>1, <2>2
<1>9. WalletTypes'
  BY <1>1, <1>8 DEF WalletTypes
<1> QED
  BY <1>7, <1>8, <1>9, KeptChanges DEF WalletInv

LEMMA NothingMade ==
  ASSUME ChangeTypes, UNCHANGED bdk_made
  PROVE  {} \in Bdk!NewChanges /\ Bdk!Make({}) /\ bdk_staged \cup {} = bdk_staged
<1>1. bdk_made \in Nat
  BY PaymentBounds DEF ChangeTypes
<1>2. Cardinality({}) = 0
  BY FS_EmptySet
<1>3. Bdk!Make({})
  BY <1>1, <1>2, OneCardinality DEF Bdk!Make
<1> QED
  BY <1>3 DEF Bdk!NewChanges

LEMMA TakersKeep ==
  ASSUME WalletInv
  PROVE  /\ \A s \in Sends : Bdk!Sent(s) => WalletInv'
         /\ Bdk!Reveal => WalletInv'
         /\ Bdk!FundingTaken => WalletInv'
<1>1. WalletTypes /\ ChangeTypes
  BY DEF WalletInv
<1>2. ASSUME NEW s \in Sends, Bdk!Sent(s) PROVE WalletInv'
  <2>1. /\ bdk_send' = [bdk_send EXCEPT ![s] = "over"] /\ bdk_paused' = FALSE
        /\ Bdk!TakeAndPut(bdk_staged, "other") /\ Bdk!SyncNow
        /\ UNCHANGED <<bdk_stopped, bdk_funding, bdk_made, bdk_stored, bdk_troubles,
                       bdk_excused>>
    BY <1>2 DEF Bdk!Sent
  <2>2. bdk_send' \in [Sends -> {"idle", "estimate", "rate", "broadcast", "over"}]
        /\ bdk_funding' \in BOOLEAN /\ bdk_paused' \in BOOLEAN
    BY <1>1, <2>1 DEF WalletTypes
  <2> QED
    BY <1>1, <2>1, <2>2, NothingMade, TakesKeep
<1>3. ASSUME Bdk!Reveal PROVE WalletInv'
  <2>1. PICK new \in Bdk!NewChanges :
          Bdk!Make(new) /\ Bdk!TakeAndPut(bdk_staged \cup new, "other")
    BY <1>3 DEF Bdk!Reveal
  <2>2. UNCHANGED <<bdk_tick, bdk_timers, bdk_paused, bdk_stopped, bdk_retries, bdk_send,
                    bdk_funding, bdk_stored, bdk_troubles, bdk_excused>>
    BY <1>3 DEF Bdk!Reveal, Bdk!loop
  <2>3. bdk_send' \in [Sends -> {"idle", "estimate", "rate", "broadcast", "over"}]
        /\ bdk_funding' \in BOOLEAN /\ bdk_paused' \in BOOLEAN
    BY <1>1, <2>2 DEF WalletTypes
  <2> QED
    BY <2>1, <2>2, <2>3, TakesKeep
<1>4. ASSUME Bdk!FundingTaken PROVE WalletInv'
  <2>1. /\ Bdk!TakeAndPut(bdk_staged, "other") /\ bdk_funding' = FALSE
        /\ UNCHANGED <<bdk_tick, bdk_timers, bdk_paused, bdk_stopped, bdk_retries, bdk_send,
                       bdk_made, bdk_stored, bdk_troubles, bdk_excused>>
    BY <1>4 DEF Bdk!FundingTaken, Bdk!loop
  <2>2. bdk_send' \in [Sends -> {"idle", "estimate", "rate", "broadcast", "over"}]
        /\ bdk_funding' \in BOOLEAN /\ bdk_paused' \in BOOLEAN
    BY <1>1, <2>1 DEF WalletTypes
  <2> QED
    BY <1>1, <2>1, <2>2, NothingMade, TakesKeep
<1> QED
  BY <1>2, <1>3, <1>4

LEMMA FundingBuiltKeeps ==
  ASSUME WalletInv, Bdk!FundingBuilt PROVE WalletInv'
<1>1. WalletTypes /\ ChangeTypes /\ LoopRuns
  BY DEF WalletInv
<1>2. PICK new \in Bdk!NewChanges : Bdk!Make(new) /\ bdk_staged' = bdk_staged \cup new
  BY DEF Bdk!FundingBuilt
<1>3. /\ bdk_funding' = TRUE
      /\ UNCHANGED <<bdk_tick, bdk_timers, bdk_paused, bdk_stopped, bdk_retries, bdk_send,
                     bdk_puts, bdk_stored, bdk_troubles, bdk_excused>>
  BY DEF Bdk!FundingBuilt, Bdk!loop
<1>4. /\ bdk_made' \in 0..MaxChanges /\ bdk_made <= bdk_made'
      /\ 1..bdk_made' = 1..bdk_made \cup new
  BY <1>1, <1>2, OneMade
<1>5. bdk_made \in Nat /\ bdk_made' \in Nat
  BY <1>1, <1>4, PaymentBounds DEF ChangeTypes
<1>6. 1..bdk_made \subseteq 1..bdk_made' /\ PutsOf(bdk_made) \subseteq PutsOf(bdk_made')
  BY <1>4, <1>5, PutsGrow
<1>7. ChangesKept
  <2>1. /\ bdk_staged' \subseteq 1..bdk_made' /\ bdk_stored' \subseteq 1..bdk_made'
        /\ bdk_excused' \subseteq 1..bdk_made' /\ bdk_puts' \subseteq PutsOf(bdk_made')
    BY <1>1, <1>2, <1>3, <1>4, <1>6 DEF ChangeTypes
  <2>2. Accounted \subseteq Accounted' /\ 1..bdk_made' \subseteq 1..bdk_made \cup Accounted'
    BY <1>2, <1>3, <1>4 DEF Accounted
  <2> QED
    BY <1>4, <2>1, <2>2 DEF ChangesKept
<1>8. WalletTypes'
  BY <1>1, <1>3 DEF WalletTypes
<1>9. LoopRuns'
  BY <1>1, <1>3 DEF LoopRuns
<1> QED
  BY <1>7, <1>8, <1>9, KeptChanges DEF WalletInv

LEMMA PutFields ==
  ASSUME ChangeTypes, NEW p \in bdk_puts
  PROVE  /\ p \in PutsOf(bdk_made) /\ p.delta \in SUBSET (1..bdk_made)
         /\ p.by \in {"scan", "tick", "other"}
         /\ (p.seen # Bdk!NotRead => p.seen \in SUBSET (1..bdk_made))
<1>1. p \in PutsOf(bdk_made)
  BY DEF ChangeTypes
<1> QED
  BY <1>1, SMT DEF PutsOf

LEMMA PutReadKeeps ==
  ASSUME WalletInv, NEW p \in bdk_puts, Bdk!PutRead(p) PROVE WalletInv'
<1> DEFINE new == [p EXCEPT !.seen = bdk_stored]
<1>1. WalletTypes /\ ChangeTypes /\ LoopRuns
  BY DEF WalletInv
<1>2. /\ bdk_puts' = (bdk_puts \ {p}) \cup {new}
      /\ UNCHANGED <<bdk_tick, bdk_timers, bdk_paused, bdk_stopped, bdk_retries, bdk_send,
                     bdk_funding, bdk_made, bdk_staged, bdk_stored, bdk_troubles,
                     bdk_excused>>
  BY DEF Bdk!PutRead, Bdk!loop
<1>3. new \in PutsOf(bdk_made) /\ new.delta = p.delta /\ new.by = p.by
  <2>1. p \in PutsOf(bdk_made) /\ bdk_stored \in SUBSET (1..bdk_made)
    BY <1>1, PutFields DEF ChangeTypes
  <2> QED
    BY <2>1, SMT DEF PutsOf
<1> HIDE DEF new
<1>4. Carried(bdk_puts') = Carried(bdk_puts)
  BY <1>2, <1>3 DEF Carried
<1>5. ChangesKept
  <2>1. bdk_puts' \subseteq PutsOf(bdk_made)
    BY <1>1, <1>2, <1>3 DEF ChangeTypes
  <2>2. Accounted' = Accounted
    BY <1>2, <1>4 DEF Accounted
  <2> QED
    BY <1>1, <1>2, <2>1, <2>2 DEF ChangesKept, ChangeTypes
<1>6. WalletTypes'
  BY <1>1, <1>2 DEF WalletTypes
<1>7. LoopRuns'
  BY <1>1, <1>2, <1>3 DEF LoopRuns
<1> QED
  BY <1>5, <1>6, <1>7, KeptChanges DEF WalletInv

\* Well or not, the scan and the tick go on when their write has ended.
LEMMA PutEndsKeeps ==
  ASSUME WalletInv, NEW p \in bdk_puts, Bdk!PutEnds(p),
         bdk_troubles' \in 0..MaxTroubles,
         bdk_stored' \subseteq 1..bdk_made, bdk_excused' \subseteq 1..bdk_made,
         p.delta \cup bdk_stored \cup bdk_excused \subseteq bdk_stored' \cup bdk_excused'
  PROVE  WalletInv'
<1>1. WalletTypes /\ ChangeTypes /\ LoopRuns
  BY DEF WalletInv
<1>2. /\ bdk_puts' = bdk_puts \ {p}
      /\ UNCHANGED <<bdk_paused, bdk_stopped, bdk_send, bdk_funding, bdk_made, bdk_staged>>
  BY DEF Bdk!PutEnds
<1>3. ChangesKept
  <2>1. bdk_puts' \subseteq PutsOf(bdk_made)
    BY <1>1, <1>2 DEF ChangeTypes
  <2>2. Carried(bdk_puts) \subseteq Carried(bdk_puts') \cup p.delta
    BY <1>2 DEF Carried
  <2>3. Accounted \subseteq Accounted'
    BY <1>2, <2>2 DEF Accounted
  <2> QED
    BY <1>1, <1>2, <2>1, <2>3 DEF ChangesKept, ChangeTypes
<1>4. CASE p.by = "other"
  <2>1. UNCHANGED <<bdk_tick, bdk_timers, bdk_retries>>
    BY <1>4 DEF Bdk!PutEnds
  <2>2. WalletTypes' /\ LoopRuns'
    BY <1>1, <1>2, <2>1 DEF WalletTypes, LoopRuns
  <2> QED
    BY <1>3, <2>2, KeptChanges DEF WalletInv
<1>5. CASE p.by # "other"
  <2>1. /\ bdk_tick' = (IF p.by = "scan" /\ bdk_stopped THEN "off" ELSE "idle")
        /\ Bdk!ScheduleNext(bdk_retries)
    BY <1>5 DEF Bdk!PutEnds
  <2>2. bdk_tick \in {"scanput", "put"} /\ bdk_timers = 0
    BY <1>1, <1>5, PutFields DEF LoopRuns
  <2>3. /\ bdk_timers' \in 0..1 /\ bdk_retries' \in 0..SyncNowRetries
        /\ bdk_timers' = IF bdk_stopped THEN 0 ELSE 1
    BY <1>1, <2>1, <2>2, Scheduled
  <2>4. WalletTypes'
    BY <1>1, <1>2, <2>1, <2>3 DEF WalletTypes
  <2>5. \A q \in bdk_puts' : q.by = "other"
    BY <1>1, <1>2, <1>5 DEF LoopRuns
  <2>6. LoopRuns'
    BY <1>1, <1>2, <2>1, <2>3, <2>5 DEF LoopRuns
  <2> QED
    BY <1>3, <2>4, <2>6, KeptChanges DEF WalletInv
<1> QED
  BY <1>4, <1>5

LEMMA PutsKeep ==
  ASSUME WalletInv, NEW p \in bdk_puts, Bdk!PutMerged(p) \/ Bdk!PutFails(p) PROVE WalletInv'
<1>1. WalletTypes /\ ChangeTypes
  BY DEF WalletInv
<1>2. /\ bdk_stored \subseteq 1..bdk_made /\ bdk_excused \subseteq 1..bdk_made
      /\ p.delta \subseteq 1..bdk_made
  BY <1>1, PutFields DEF ChangeTypes
<1>3. CASE Bdk!PutMerged(p)
  <2>1. /\ p.seen # Bdk!NotRead /\ bdk_stored' = p.seen \cup p.delta /\ Bdk!PutEnds(p)
        /\ bdk_excused' = bdk_excused \cup (bdk_stored \ p.seen)
        /\ bdk_troubles' = bdk_troubles
    BY <1>3 DEF Bdk!PutMerged
  <2>2. p.seen \subseteq 1..bdk_made
    BY <1>1, <2>1, PutFields
  <2>3. bdk_troubles' \in 0..MaxTroubles
    BY <1>1, <2>1 DEF WalletTypes
  <2>4. bdk_stored' \subseteq 1..bdk_made /\ bdk_excused' \subseteq 1..bdk_made
    BY <1>2, <2>1, <2>2
  <2>5. p.delta \cup bdk_stored \cup bdk_excused \subseteq bdk_stored' \cup bdk_excused'
    BY <2>1
  <2> QED
    BY <2>1, <2>3, <2>4, <2>5, PutEndsKeeps
<1>4. CASE Bdk!PutFails(p)
  <2>1. /\ bdk_excused' = bdk_excused \cup p.delta /\ Bdk!PutEnds(p)
        /\ bdk_stored' = bdk_stored /\ Bdk!Trouble
    BY <1>4 DEF Bdk!PutFails
  <2>2. bdk_troubles' \in 0..MaxTroubles
    BY <1>1, <2>1, TroubleTyped
  <2>3. bdk_stored' \subseteq 1..bdk_made /\ bdk_excused' \subseteq 1..bdk_made
    BY <1>2, <2>1
  <2>4. p.delta \cup bdk_stored \cup bdk_excused \subseteq bdk_stored' \cup bdk_excused'
    BY <2>1
  <2> QED
    BY <2>1, <2>2, <2>3, <2>4, PutEndsKeeps
<1> QED
  BY <1>3, <1>4

LEMMA WalletMoves ==
  ASSUME [SessionNext]_sessionVars PROVE [Bdk!Next]_(Bdk!vars)
<1>1. CASE UNCHANGED sessionVars
  BY <1>1 DEF sessionVars, bdkVars, Bdk!vars
<1>2. CASE SessionNext
  <2>1. part # "onchain" => UNCHANGED bdkVars
    BY <1>2 DEF SessionNext, Rest
  <2>2. part = "onchain" => Bdk!Next
    BY <1>2 DEF SessionNext
  <2> QED
    BY <2>1, <2>2 DEF bdkVars, Bdk!vars
<1> QED
  BY <1>1, <1>2

LEMMA WalletHolds ==
  /\ SessionInit => WalletInv
  /\ WalletInv /\ [SessionNext]_sessionVars => WalletInv'
<1>1. SessionInit => WalletInv
  <2> SUFFICES ASSUME Bdk!Init PROVE WalletInv
    BY DEF SessionInit
  <2>1. WalletTypes
    <3>1. /\ bdk_retries \in 0..SyncNowRetries /\ bdk_troubles \in 0..MaxTroubles
          /\ bdk_timers \in 0..1
      BY PaymentBounds DEF Bdk!Init
    <3> QED
      BY <3>1 DEF Bdk!Init, WalletTypes
  <2>2. ChangeTypes
    <3>1. bdk_made \in 0..MaxChanges
      BY PaymentBounds DEF Bdk!Init
    <3> QED
      BY <3>1 DEF Bdk!Init, ChangeTypes
  <2>3. LoopRuns
    BY DEF Bdk!Init, LoopRuns
  <2>4. LossExplained
    <3>1. 1..bdk_made = {}
      BY DEF Bdk!Init
    <3> QED
      BY <3>1 DEF LossExplained, Bdk!LossExplained
  <2> QED
    BY <2>1, <2>2, <2>3, <2>4 DEF WalletInv
<1>2. WalletInv /\ [SessionNext]_sessionVars => WalletInv'
  <2> SUFFICES ASSUME WalletInv, [Bdk!Next]_(Bdk!vars) PROVE WalletInv'
    BY WalletMoves
  <2>1. CASE Bdk!LoopStep \/ Bdk!SyncNeeded \/ Bdk!SyncFails \/ Bdk!Stop
    BY <2>1, RoundsKeep, TimersKeep, SyncFailsKeeps, StopKeeps DEF Bdk!LoopStep
  <2>2. CASE Bdk!PutStep \/ \E p \in bdk_puts : Bdk!PutFails(p)
    BY <2>2, PutReadKeeps, PutsKeep DEF Bdk!PutStep
  <2>3. CASE \E s \in Sends : \/ Bdk!SendStart(s) \/ Bdk!Estimate(s) \/ Bdk!SendStep(s)
                              \/ Bdk!SendFails(s)
    BY <2>3, SendsKeep, SmallStepsKeep, TakersKeep DEF Bdk!SendStep
  <2>4. CASE Bdk!Reveal \/ Bdk!FundingBuilt \/ Bdk!FundingTaken \/ Bdk!FundingFails
    BY <2>4, TakersKeep, FundingBuiltKeeps, SmallStepsKeep
  <2>5. CASE UNCHANGED Bdk!vars
    BY <2>5 DEF Bdk!vars, WalletInv, WalletTypes, ChangeTypes, LoopRuns, LossExplained,
       Bdk!LossExplained
  <2> QED
    BY <2>1, <2>2, <2>3, <2>4, <2>5 DEF Bdk!Next
<1> QED
  BY <1>1, <1>2

\* The loop of the on-chain wallet neither dies nor runs twice, whatever the order
\* of ticks, pauses, syncNow and stop (sync.ts), for any sends and any retries.
THEOREM LoopNeverForks == SessionSpec => []OneTickPending
<1>1. WalletInv => OneTickPending
  BY DEF WalletInv, WalletTypes, LoopRuns, OneTickPending, Bdk!OneTickPending, Bdk!Ready,
     Bdk!Syncing
<1> QED
  BY <1>1, WalletHolds, PTL DEF SessionSpec

\* No change of the on-chain wallet is lost but to an estimate, a failed write or a
\* write that overlapped (changeset.ts), for any number of changes and writes.
THEOREM ChangesAccounted == SessionSpec => []LossExplained
<1>1. WalletInv => LossExplained
  BY DEF WalletInv
<1> QED
  BY <1>1, WalletHolds, PTL DEF SessionSpec

LEMMA WalletTyped == WalletInv => Bdk!TypeOK
<1> SUFFICES ASSUME WalletInv PROVE Bdk!TypeOK
  OBVIOUS
<1>1. WalletTypes /\ ChangeTypes
  BY DEF WalletInv
<1>2. 1..bdk_made \subseteq Bdk!Changes
  BY <1>1, PaymentBounds DEF ChangeTypes, Bdk!Changes
<1>3. SUBSET (1..bdk_made) \subseteq SUBSET Bdk!Changes
  BY <1>2
<1>4. PutsOf(bdk_made) \subseteq Bdk!Puts
  BY <1>3, SMT DEF PutsOf, Bdk!Puts
<1> QED
  BY <1>1, <1>4 DEF WalletTypes, ChangeTypes, Bdk!TypeOK

(***************************************************************************)
(* The Send page.                                                          *)
(***************************************************************************)

StepTypes ==
  page_step \in Page!Steps /\ page_amountData \in Page!Items \cup {Page!NoItem}

LookupTypes ==
  /\ page_asks \in 0..MaxAsks /\ page_ctl \in 0..page_asks /\ page_res \in SUBSET Page!Asks
  /\ page_resolving \in BOOLEAN /\ page_estimate \in Page!Reviews \cup {Page!Nothing}

ConfirmTypes ==
  /\ page_sending \in BOOLEAN /\ page_tasks \in SUBSET Page!Steps
  /\ page_polls \in SUBSET Page!Ids /\ page_timer \in SUBSET Page!Ids

PayStates == {"none", "pending", "abandoned", "fulfilled", "failed"}

PayTypes ==
  /\ page_pay \in [Page!Ids -> PayStates]
  /\ page_events \in Seq(Page!Ids \X {"sent", "failed"})
  /\ page_result \in [Page!Ids -> {"none", "pending", "sent", "failed"}]

\* Either one handler runs or one poll, which is the one pollTimerRef names.
OneWaits ==
  page_step.at # "gone" =>
    /\ page_tasks = {} \/ page_polls = {}
    /\ \A s, t \in page_tasks : s = t
    /\ \A i, j \in page_polls : i = j
    /\ page_timer = page_polls
    /\ page_sending <=> page_tasks # {} \/ page_polls # {}
    /\ page_step.at = "ln-sending" => page_tasks = {}

\* What says that a payment was sent says so of a fulfilled one.
SentIsFulfilled ==
  /\ \A i \in Page!Ids : page_result[i] = "sent" => page_pay[i] = "fulfilled"
  /\ \A k \in 1..Len(page_events) :
       page_events[k][2] = "sent" => page_pay[page_events[k][1]] = "fulfilled"
  /\ page_step.at = "ln-success" => page_pay[page_step.id] = "fulfilled"

PageInv ==
  StepTypes /\ LookupTypes /\ ConfirmTypes /\ PayTypes /\ OneWaits /\ SentIsFulfilled

\* The screens.
LEMMA Screens ==
  /\ \A i \in Page!Items : Page!Amount(i) \in Page!Steps /\ Page!Amount(i).at = "amount"
  /\ \A i \in Page!Items, f \in Page!From :
       /\ Page!LnReview(i, f) \in Page!Steps /\ Page!LnReview(i, f).at = "ln-review"
       /\ Page!OcReview(i, f) \in Page!Reviews
  /\ \A i \in Page!Ids :
       /\ Page!Sending(i) \in Page!Steps /\ Page!Sending(i).at = "ln-sending"
       /\ Page!Success(i) \in Page!Steps /\ Page!Success(i).at = "ln-success"
       /\ Page!Success(i).id = i
  /\ \A r \in Page!Reviews : Page!Failed(r) \in Page!Steps /\ Page!Failed(r).at = "error"
  /\ Page!Failed(Page!Nothing) \in Page!Steps /\ Page!Failed(Page!Nothing).at = "error"
  /\ \A n \in {"recipient", "oc-success", "gone"} :
       Page!At(n) \in Page!Steps /\ Page!At(n).at = n
  /\ \A r \in Page!Reviews : r \in Page!Steps /\ r.at = "oc-review"
<1>1. \A i \in Page!Items : Page!Amount(i) \in Page!Steps /\ Page!Amount(i).at = "amount"
  BY DEF Page!Steps, Page!Amount
<1>2. \A i \in Page!Items, f \in Page!From :
        /\ Page!LnReview(i, f) \in Page!Steps /\ Page!LnReview(i, f).at = "ln-review"
        /\ Page!OcReview(i, f) \in Page!Reviews
  BY DEF Page!Steps, Page!LnReview, Page!Reviews
<1>3. \A i \in Page!Ids :
        /\ Page!Sending(i) \in Page!Steps /\ Page!Sending(i).at = "ln-sending"
        /\ Page!Success(i) \in Page!Steps /\ Page!Success(i).at = "ln-success"
        /\ Page!Success(i).id = i
  <2> SUFFICES ASSUME NEW i \in Page!Ids
               PROVE  /\ Page!Sending(i) \in Page!Steps /\ Page!Sending(i).at = "ln-sending"
                      /\ Page!Success(i) \in Page!Steps /\ Page!Success(i).at = "ln-success"
                      /\ Page!Success(i).id = i
    OBVIOUS
  <2>1. Page!Sending(i) \in Page!Steps /\ Page!Success(i) \in Page!Steps
    BY DEF Page!Steps
  <2>2. Page!Sending(i).at = "ln-sending"
    BY DEF Page!Sending
  <2>3. Page!Success(i).at = "ln-success" /\ Page!Success(i).id = i
    BY DEF Page!Success
  <2> QED
    BY <2>1, <2>2, <2>3
<1>4. \A r \in Page!Reviews : Page!Failed(r) \in Page!Steps /\ Page!Failed(r).at = "error"
  <2>1. \A r \in Page!Reviews : Page!Failed(r) \in Page!Steps
    BY DEF Page!Steps
  <2>2. \A r : Page!Failed(r).at = "error"
    BY DEF Page!Failed
  <2> QED
    BY <2>1, <2>2
<1>5. Page!Failed(Page!Nothing) \in Page!Steps /\ Page!Failed(Page!Nothing).at = "error"
  BY DEF Page!Steps, Page!Failed
<1>6. \A n \in {"recipient", "oc-success", "gone"} :
        Page!At(n) \in Page!Steps /\ Page!At(n).at = n
  BY DEF Page!Steps, Page!At
<1>7. \A r \in Page!Reviews : r \in Page!Steps /\ r.at = "oc-review"
  BY DEF Page!Steps, Page!Reviews, Page!OcReview
<1> QED
  BY <1>1, <1>2, <1>3, <1>4, <1>5, <1>6, <1>7

\* What a screen shows is of its kind.
LEMMA ScreenKinds ==
  ASSUME NEW s \in Page!Steps
  PROVE  /\ s.at = "amount" => s.item \in Page!Items
         /\ s.at = "ln-review" => s.item \in Page!Items
         /\ s.at = "oc-review" => s \in Page!Reviews
         /\ s.at \in {"ln-sending", "ln-success"} => s.id \in Page!Ids
         /\ s.at = "error" /\ s.retry # Page!Nothing => s.retry \in Page!Reviews
<1>1. \/ \E n \in {"recipient", "oc-success", "gone"} : s = Page!At(n)
      \/ \E i \in Page!Items : s = Page!Amount(i)
      \/ s \in Page!Reviews
      \/ \E i \in Page!Items, f \in Page!From : s = Page!LnReview(i, f)
      \/ \E i \in Page!Ids : s = Page!Sending(i)
      \/ \E i \in Page!Ids : s = Page!Success(i)
      \/ s = Page!Failed(Page!Nothing)
      \/ \E r \in Page!Reviews : s = Page!Failed(r)
  BY DEF Page!Steps
<1>2. CASE \E n \in {"recipient", "oc-success", "gone"} : s = Page!At(n)
  BY <1>2 DEF Page!At
<1>3. CASE \E i \in Page!Items : s = Page!Amount(i)
  BY <1>3 DEF Page!Amount
<1>4. CASE s \in Page!Reviews
  <2>1. s.at = "oc-review"
    BY <1>4, Screens
  <2> QED
    BY <1>4, <2>1
<1>5. CASE \E i \in Page!Items, f \in Page!From : s = Page!LnReview(i, f)
  BY <1>5 DEF Page!LnReview
<1>6. CASE \E i \in Page!Ids : s = Page!Sending(i)
  BY <1>6 DEF Page!Sending
<1>7. CASE \E i \in Page!Ids : s = Page!Success(i)
  BY <1>7 DEF Page!Success
<1>8. CASE s = Page!Failed(Page!Nothing)
  <2>1. s.at = "error" /\ s.retry = Page!Nothing
    BY <1>8 DEF Page!Failed
  <2> QED
    BY <2>1
<1>9. CASE \E r \in Page!Reviews : s = Page!Failed(r)
  <2>1. s.at = "error" /\ s.retry \in Page!Reviews
    BY <1>9 DEF Page!Failed
  <2> QED
    BY <2>1
<1> QED
  BY <1>1, <1>2, <1>3, <1>4, <1>5, <1>6, <1>7, <1>8, <1>9

\* A step that neither confirms nor polls: it shows a screen of the way to the
\* review, or none.
QuietStep ==
  \/ page_step' = page_step
  \/ /\ page_step.at # "gone" /\ page_step' \in Page!Steps
     /\ page_step'.at \notin {"ln-sending", "ln-success", "gone"}

LEMMA QuietKeeps ==
  ASSUME PageInv, QuietStep, page_amountData' \in Page!Items \cup {Page!NoItem},
         LookupTypes',
         UNCHANGED <<page_sending, page_tasks, page_polls, page_timer, page_pay, page_events,
                     page_result>>
  PROVE  PageInv'
<1>1. StepTypes' /\ (page_step'.at = "gone" => page_step' = page_step)
      /\ (page_step'.at \in {"ln-sending", "ln-success"} => page_step' = page_step)
  BY DEF QuietStep, PageInv, StepTypes
<1>2. (page_step'.at # "gone" => page_step.at # "gone")
  BY DEF QuietStep
<1>3. ConfirmTypes' /\ PayTypes'
  BY DEF PageInv, ConfirmTypes, PayTypes
<1>4. OneWaits'
  BY <1>1, <1>2 DEF PageInv, OneWaits
<1>5. SentIsFulfilled'
  BY <1>1 DEF PageInv, SentIsFulfilled
<1> QED
  BY <1>1, <1>3, <1>4, <1>5 DEF PageInv

LEMMA ShownQuietly ==
  ASSUME NEW s \in Page!Steps, s.at \notin {"ln-sending", "ln-success", "gone"}, Page!Show(s)
  PROVE  QuietStep
BY DEF QuietStep, Page!Show

LEMMA ItemTyped ==
  ASSUME NEW type \in {"onchain", "bolt11", "bolt12", "lnurl"}, NEW named \in BOOLEAN
  PROVE  Page!Item(type, named) \in Page!Items
BY PaymentBounds DEF Page!Item, Page!Items

LEMMA FetchedTyped ==
  ASSUME NEW n \in 1..MaxAsks PROVE Page!Fetched(n) \in Page!Items
<1>1. n \in 0..MaxAsks
  BY PaymentBounds
<1> QED
  BY <1>1 DEF Page!Fetched, Page!Items

LEMMA RoutedQuietly ==
  ASSUME NEW item \in Page!Items, NEW fixed, Page!Route(item, fixed)
  PROVE  QuietStep
<1>1. "recipient" \in Page!From
  BY DEF Page!From
<1>2. CASE Page!Show(Page!LnReview(item, "recipient"))
  <2> DEFINE s == Page!LnReview(item, "recipient")
  <2>1. s \in Page!Steps /\ s.at = "ln-review"
    BY <1>1, Screens
  <2> HIDE DEF s
  <2>2. Page!Show(s)
    BY <1>2 DEF s
  <2> QED
    BY <2>1, <2>2, ShownQuietly
<1>3. CASE Page!Show(Page!Amount(item))
  <2> DEFINE s == Page!Amount(item)
  <2>1. s \in Page!Steps /\ s.at = "amount"
    BY Screens
  <2> HIDE DEF s
  <2>2. Page!Show(s)
    BY <1>3 DEF s
  <2> QED
    BY <2>1, <2>2, ShownQuietly
<1> QED
  BY <1>2, <1>3 DEF Page!Route

LEMMA AskStarts ==
  ASSUME LookupTypes, NEW phase \in {"dns", "lnurl", "invoice"}, NEW others \in SUBSET Page!Asks,
         Page!StartAsk(phase, others)
  PROVE  /\ page_asks' \in 0..MaxAsks /\ page_ctl' \in 0..page_asks'
         /\ page_res' \in SUBSET Page!Asks /\ page_resolving' \in BOOLEAN
<1>1. /\ page_asks < MaxAsks /\ page_asks' = page_asks + 1 /\ page_ctl' = page_asks + 1
      /\ page_res' = others \cup {[n |-> page_asks + 1, phase |-> phase]}
      /\ page_resolving' = TRUE
  BY DEF Page!StartAsk
<1>2. page_asks + 1 \in 1..MaxAsks /\ page_asks \in Nat
  BY <1>1, PaymentBounds DEF LookupTypes
<1>3. [n |-> page_asks + 1, phase |-> phase] \in Page!Asks
  BY <1>2 DEF Page!Asks
<1>4. page_asks' \in 0..MaxAsks /\ page_ctl' \in 0..page_asks'
  BY <1>1, <1>2, PaymentBounds
<1> QED
  BY <1>1, <1>3, <1>4

LEMMA AskOver ==
  ASSUME LookupTypes, NEW r, Page!AskEnds(r)
  PROVE  /\ page_asks' \in 0..MaxAsks /\ page_ctl' \in 0..page_asks'
         /\ page_res' \in SUBSET Page!Asks /\ page_resolving' \in BOOLEAN
BY DEF LookupTypes, Page!AskEnds

LEMMA EnterKeeps ==
  ASSUME PageInv, NEW type \in {"onchain", "bolt11", "bolt12"}, NEW fixed \in BOOLEAN,
         Page!Enter(type, fixed)
  PROVE  PageInv'
<1> DEFINE item == Page!Item(type, FALSE)
<1>1. /\ page_amountData' = Page!NoItem
      /\ UNCHANGED <<page_asks, page_ctl, page_res, page_resolving, page_sending, page_tasks,
                     page_polls, page_timer, page_pay, page_events, page_result>>
  BY DEF Page!Enter, Page!confirm, Page!payments
<1>2. item \in Page!Items /\ "recipient" \in Page!From
  BY ItemTyped DEF Page!From
<1>3. QuietStep /\ page_estimate' \in Page!Reviews \cup {Page!Nothing}
  <2>1. CASE page_estimate' = Page!OcReview(item, "recipient") /\ page_step' = page_step
    BY <1>2, <2>1, Screens DEF QuietStep
  <2>2. CASE Page!Route(item, fixed) /\ page_estimate' = page_estimate
    BY <1>2, <2>2, RoutedQuietly DEF PageInv, LookupTypes
  <2> QED
    BY <2>1, <2>2 DEF Page!Enter
<1>4. LookupTypes'
  BY <1>1, <1>3 DEF PageInv, LookupTypes
<1> QED
  BY <1>1, <1>3, <1>4, QuietKeeps

LEMMA NameKeeps ==
  ASSUME PageInv, Page!EnterName \/ Page!CancelResolving PROVE PageInv'
<1>1. UNCHANGED <<page_step, page_amountData, page_estimate, page_sending, page_tasks,
                  page_polls, page_timer, page_pay, page_events, page_result>>
  BY DEF Page!EnterName, Page!CancelResolving, Page!page, Page!confirm, Page!payments
<1>2. LookupTypes /\ StepTypes
  BY DEF PageInv
<1>3. /\ page_asks' \in 0..MaxAsks /\ page_ctl' \in 0..page_asks'
      /\ page_res' \in SUBSET Page!Asks /\ page_resolving' \in BOOLEAN
  <2>1. CASE Page!EnterName
    <3>1. Page!StartAsk("dns", page_res) /\ page_res \in SUBSET Page!Asks
      BY <1>2, <2>1 DEF Page!EnterName, LookupTypes
    <3>2. PICK phase \in {"dns", "lnurl", "invoice"} : phase = "dns"
      OBVIOUS
    <3>3. Page!StartAsk(phase, page_res)
      BY <3>1, <3>2
    <3> QED
      BY <1>2, <3>1, <3>3, AskStarts
  <2>2. CASE Page!CancelResolving
    <3>1. /\ page_ctl' = 0 /\ page_resolving' = FALSE /\ page_asks' = page_asks
          /\ page_res' = page_res
      BY <2>2 DEF Page!CancelResolving
    <3>2. page_asks \in 0..MaxAsks /\ 0 \in 0..page_asks
      BY <1>2, PaymentBounds DEF LookupTypes
    <3>3. page_res' \in SUBSET Page!Asks /\ page_resolving' \in BOOLEAN
      BY <1>2, <3>1 DEF LookupTypes
    <3> QED
      BY <3>1, <3>2, <3>3
  <2> QED
    BY <2>1, <2>2
<1>4. LookupTypes'
  BY <1>1, <1>2, <1>3 DEF LookupTypes
<1> QED
  BY <1>1, <1>2, <1>4, QuietKeeps DEF QuietStep, StepTypes

\* The answers: the DNS, LNURL and the invoice.
LEMMA AnswersKeep ==
  ASSUME PageInv, NEW r \in page_res,
         Page!DnsAnswers(r) \/ Page!LnurlAnswers(r) \/ Page!InvoiceArrives(r) \/ Page!AskFails(r)
  PROVE  PageInv'
<1>1. UNCHANGED <<page_amountData, page_estimate, page_sending, page_tasks, page_polls,
                  page_timer, page_pay, page_events, page_result>>
  BY DEF Page!DnsAnswers, Page!LnurlAnswers, Page!InvoiceArrives, Page!AskFails, Page!page,
     Page!confirm, Page!payments
<1>2. LookupTypes /\ StepTypes
  BY DEF PageInv
<1>3. r \in Page!Asks /\ r.n \in 1..MaxAsks
  <2>1. r \in Page!Asks
    BY <1>2 DEF LookupTypes
  <2> QED
    BY <2>1, SMT DEF Page!Asks
<1> DEFINE Done == /\ page_asks' \in 0..MaxAsks /\ page_ctl' \in 0..page_asks'
                   /\ page_res' \in SUBSET Page!Asks /\ page_resolving' \in BOOLEAN
                   /\ QuietStep
<1>4. ASSUME Page!DnsAnswers(r) PROVE Done
  <2>1. CASE /\ \E type \in {"onchain", "bolt11", "bolt12"}, fixed \in BOOLEAN :
                  Page!Route(Page!Item(type, TRUE), fixed)
             /\ Page!AskEnds(r)
    <3>1. PICK type \in {"onchain", "bolt11", "bolt12"}, fixed \in BOOLEAN :
            Page!Route(Page!Item(type, TRUE), fixed)
      BY <2>1
    <3>2. Page!Item(type, TRUE) \in Page!Items
      BY ItemTyped
    <3>3. QuietStep
      BY <3>1, <3>2, RoutedQuietly
    <3> QED
      BY <1>2, <2>1, <3>3, AskOver
  <2>2. CASE /\ page_res' = (page_res \ {r}) \cup {[r EXCEPT !.phase = "lnurl"]}
             /\ UNCHANGED <<page_step, page_asks, page_ctl, page_resolving>>
    <3>1. [r EXCEPT !.phase = "lnurl"] \in Page!Asks
      BY <1>3, SMT DEF Page!Asks
    <3> QED
      BY <1>2, <2>2, <3>1 DEF LookupTypes, QuietStep
  <2> QED
    BY <1>4, <2>1, <2>2 DEF Page!DnsAnswers
<1>5. ASSUME Page!LnurlAnswers(r) PROVE Done
  <2>1. CASE Page!Show(Page!Amount(Page!Item("lnurl", TRUE))) /\ Page!AskEnds(r)
    <3> DEFINE s == Page!Amount(Page!Item("lnurl", TRUE))
    <3>1. Page!Item("lnurl", TRUE) \in Page!Items
      BY PaymentBounds DEF Page!Item, Page!Items
    <3>2. s \in Page!Steps /\ s.at = "amount"
      BY <3>1, Screens
    <3> HIDE DEF s
    <3>3. Page!Show(s)
      BY <2>1 DEF s
    <3>4. QuietStep
      BY <3>2, <3>3, ShownQuietly
    <3> QED
      BY <1>2, <2>1, <3>4, AskOver
  <2>2. CASE Page!StartAsk("invoice", page_res \ {r}) /\ UNCHANGED page_step
    <3>1. PICK phase \in {"dns", "lnurl", "invoice"} : phase = "invoice"
      OBVIOUS
    <3>2. PICK others \in SUBSET Page!Asks : others = page_res \ {r}
      BY <1>2 DEF LookupTypes
    <3>3. Page!StartAsk(phase, others)
      BY <2>2, <3>1, <3>2
    <3> QED
      BY <1>2, <2>2, <3>3, AskStarts DEF QuietStep
  <2> QED
    BY <1>5, <2>1, <2>2 DEF Page!LnurlAnswers
<1>6. ASSUME Page!InvoiceArrives(r) PROVE Done
  <2> DEFINE s == Page!LnReview(Page!Fetched(r.n), "amount")
  <2>1. Page!Fetched(r.n) \in Page!Items /\ "amount" \in Page!From
    BY <1>3, FetchedTyped DEF Page!From
  <2>2. s \in Page!Steps /\ s.at = "ln-review"
    BY <2>1, Screens
  <2> HIDE DEF s
  <2>3. Page!Show(s) /\ Page!AskEnds(r)
    BY <1>6 DEF Page!InvoiceArrives, s
  <2>4. QuietStep
    BY <2>2, <2>3, ShownQuietly
  <2> QED
    BY <1>2, <2>3, <2>4, AskOver
<1>7. ASSUME Page!AskFails(r) PROVE Done
  <2>1. Page!AskEnds(r) /\ page_step' = page_step
    BY <1>7 DEF Page!AskFails, Page!page
  <2> QED
    BY <1>2, <2>1, AskOver DEF QuietStep
<1>8. Done
  BY <1>4, <1>5, <1>6, <1>7
<1>9. LookupTypes'
  BY <1>1, <1>2, <1>8 DEF LookupTypes
<1>10. page_amountData' \in Page!Items \cup {Page!NoItem}
  BY <1>1, <1>2 DEF StepTypes
<1> QED
  BY <1>1, <1>8, <1>9, <1>10, QuietKeeps

LEMMA AmountNextKeeps ==
  ASSUME PageInv, Page!AmountNext PROVE PageInv'
<1> DEFINE item == page_step.item
<1>1. LookupTypes /\ StepTypes
  BY DEF PageInv
<1>2. page_step.at = "amount"
      /\ UNCHANGED <<page_sending, page_tasks, page_polls, page_timer, page_pay, page_events,
                     page_result>>
  BY DEF Page!AmountNext, Page!confirm, Page!payments
<1>3. item \in Page!Items /\ "amount" \in Page!From
  BY <1>1, <1>2, ScreenKinds DEF StepTypes, Page!From
<1>4. \/ /\ item.type = "lnurl" \/ (item.type = "onchain" /\ item.named /\ page_estimate = Page!Nothing)
         /\ Page!StartAsk(IF item.type = "lnurl" THEN "invoice" ELSE "dns", page_res)
         /\ UNCHANGED <<page_step, page_amountData, page_estimate>>
      \/ /\ page_amountData' = item /\ Page!Show(Page!LnReview(item, "amount"))
         /\ UNCHANGED <<page_asks, page_ctl, page_res, page_resolving, page_estimate>>
      \/ /\ page_amountData' = item /\ page_estimate' = Page!OcReview(item, "amount")
         /\ UNCHANGED <<page_step, page_asks, page_ctl, page_res, page_resolving>>
  BY DEF Page!AmountNext, Page!page, Page!lookup
<1>5. CASE /\ Page!StartAsk(IF item.type = "lnurl" THEN "invoice" ELSE "dns", page_res)
           /\ UNCHANGED <<page_step, page_amountData, page_estimate>>
  <2>1. PICK phase \in {"dns", "lnurl", "invoice"} :
          phase = IF item.type = "lnurl" THEN "invoice" ELSE "dns"
    OBVIOUS
  <2>2. Page!StartAsk(phase, page_res) /\ page_res \in SUBSET Page!Asks
    BY <1>1, <1>5, <2>1 DEF LookupTypes
  <2>3. LookupTypes'
    BY <1>1, <1>5, <2>2, AskStarts DEF LookupTypes
  <2> QED
    BY <1>1, <1>2, <1>5, <2>3, QuietKeeps DEF QuietStep, StepTypes
<1>6. CASE /\ page_amountData' = item /\ Page!Show(Page!LnReview(item, "amount"))
           /\ UNCHANGED <<page_asks, page_ctl, page_res, page_resolving, page_estimate>>
  <2> DEFINE s == Page!LnReview(item, "amount")
  <2>1. s \in Page!Steps /\ s.at = "ln-review"
    BY <1>3, Screens
  <2> HIDE DEF s
  <2>2. Page!Show(s)
    BY <1>6 DEF s
  <2>3. QuietStep
    BY <2>1, <2>2, ShownQuietly
  <2>4. LookupTypes'
    BY <1>1, <1>6 DEF LookupTypes
  <2> QED
    BY <1>2, <1>3, <1>6, <2>3, <2>4, QuietKeeps
<1>7. CASE /\ page_amountData' = item /\ page_estimate' = Page!OcReview(item, "amount")
           /\ UNCHANGED <<page_step, page_asks, page_ctl, page_res, page_resolving>>
  <2>1. page_estimate' \in Page!Reviews
    BY <1>3, <1>7, Screens
  <2>2. LookupTypes'
    BY <1>1, <1>7, <2>1 DEF LookupTypes
  <2> QED
    BY <1>2, <1>3, <1>7, <2>2, QuietKeeps DEF QuietStep
<1> QED
  BY <1>4, <1>5, <1>6, <1>7

\* Back, the end of an estimate, and the retry of a broadcast.
LEMMA BacksKeep ==
  ASSUME PageInv,
         Page!AmountBack \/ Page!ReviewBack \/ Page!EstimateEnds \/ Page!TryAgain
  PROVE  PageInv'
<1>1. LookupTypes /\ StepTypes
  BY DEF PageInv
<1>2. UNCHANGED <<page_amountData, page_asks, page_ctl, page_res, page_resolving, page_sending,
                  page_tasks, page_polls, page_timer, page_pay, page_events, page_result>>
  BY DEF Page!AmountBack, Page!ReviewBack, Page!EstimateEnds, Page!TryAgain, Page!lookup,
     Page!confirm, Page!payments
<1>3. page_estimate' \in Page!Reviews \cup {Page!Nothing}
  BY <1>1 DEF Page!AmountBack, Page!ReviewBack, Page!EstimateEnds, Page!TryAgain, Page!lookup,
     LookupTypes
<1>4. QuietStep
  <2> DEFINE home == Page!At("recipient")  amount == Page!Amount(page_amountData)
  <2>1. home \in Page!Steps /\ home.at = "recipient"
    BY Screens
  <2>2. page_amountData # Page!NoItem => amount \in Page!Steps /\ amount.at = "amount"
    BY <1>1, Screens DEF StepTypes
  <2>3. page_estimate # Page!Nothing => page_estimate \in Page!Steps /\ page_estimate.at = "oc-review"
    BY <1>1, Screens DEF LookupTypes
  <2>4. page_step.at = "error" /\ page_step.retry # Page!Nothing
          => page_step.retry \in Page!Steps /\ page_step.retry.at = "oc-review"
    BY <1>1, Screens, ScreenKinds DEF StepTypes
  <2> HIDE DEF home, amount
  <2>5. \/ page_step' = page_step
        \/ Page!Show(home)
        \/ page_amountData # Page!NoItem /\ Page!Show(amount)
        \/ page_estimate # Page!Nothing /\ Page!Show(page_estimate)
        \/ page_step.at = "error" /\ page_step.retry # Page!Nothing /\ Page!Show(page_step.retry)
    BY DEF Page!AmountBack, Page!ReviewBack, Page!EstimateEnds, Page!TryAgain, home, amount
  <2> QED
    BY <2>1, <2>2, <2>3, <2>4, <2>5, ShownQuietly DEF QuietStep
<1>5. LookupTypes'
  BY <1>1, <1>2, <1>3 DEF LookupTypes
<1> QED
  BY <1>1, <1>2, <1>4, <1>5, QuietKeeps DEF StepTypes

\* What a screen that has just been shown says of the one before.
LEMMA ShownFacts ==
  ASSUME StepTypes, NEW s \in Page!Steps, s.at # "gone", Page!Show(s)
  PROVE  /\ page_step' \in Page!Steps
         /\ page_step.at = "gone" => page_step' = page_step
         /\ page_step.at # "gone" => page_step' = s
BY DEF StepTypes, Page!Show

\* The page stops waiting, whatever it waited for.
LEMMA StopsWaiting ==
  ASSUME PageInv, NEW s \in Page!Steps, s.at \notin {"gone", "ln-sending"}, Page!Show(s),
         UNCHANGED <<page_amountData, page_asks, page_ctl, page_res, page_resolving,
                     page_estimate, page_events, page_result>>,
         page_sending' = FALSE, ConfirmTypes', PayTypes',
         \A i \in Page!Ids : page_pay[i] = "fulfilled" => page_pay'[i] = "fulfilled",
         page_step.at # "gone" => page_tasks' = {} /\ page_polls' = {} /\ page_timer' = {},
         s.at = "ln-success" => s.id \in Page!Ids /\ page_pay'[s.id] = "fulfilled"
  PROVE  PageInv'
<1>1. StepTypes /\ LookupTypes /\ PayTypes /\ SentIsFulfilled
  BY DEF PageInv
<1>2. /\ page_step' \in Page!Steps
      /\ page_step.at = "gone" => page_step' = page_step
      /\ page_step.at # "gone" => page_step' = s
  BY <1>1, ShownFacts
<1>3. StepTypes' /\ LookupTypes'
  BY <1>1, <1>2 DEF StepTypes, LookupTypes
<1>4. OneWaits'
  BY <1>2 DEF OneWaits
<1>5. SentIsFulfilled'
  <2>1. \A i \in Page!Ids : page_result'[i] = "sent" => page_pay'[i] = "fulfilled"
    BY <1>1 DEF SentIsFulfilled
  <2>2. ASSUME NEW k \in 1..Len(page_events'), page_events'[k][2] = "sent"
        PROVE  page_pay'[page_events'[k][1]] = "fulfilled"
    <3>1. page_events[k] \in Page!Ids \X {"sent", "failed"}
      BY <1>1 DEF PayTypes
    <3>2. page_events[k][1] \in Page!Ids
      BY <3>1
    <3> QED
      BY <1>1, <2>2, <3>2 DEF SentIsFulfilled
  <2>3. page_step'.at = "ln-success" => page_pay'[page_step'.id] = "fulfilled"
    BY <1>2
  <2> QED
    BY <2>1, <2>2, <2>3 DEF SentIsFulfilled
<1> QED
  BY <1>3, <1>4, <1>5 DEF PageInv

LEMMA FailedScreen ==
  Page!Failed(Page!Nothing) \in Page!Steps /\ Page!Failed(Page!Nothing).at = "error"
BY Screens

\* A handler whose payment is refused.
LEMMA RefusedKeeps ==
  ASSUME PageInv, Page!Refused, page_tasks' \in SUBSET Page!Steps,
         page_step.at # "gone" => page_tasks' = {} /\ page_polls = {},
         UNCHANGED <<page_amountData, page_asks, page_ctl, page_res, page_resolving,
                     page_estimate>>
  PROVE  PageInv'
<1> DEFINE s == Page!Failed(Page!Nothing)
<1>1. /\ page_sending' = FALSE /\ Page!Show(s)
      /\ UNCHANGED <<page_polls, page_timer, page_pay, page_events, page_result>>
  BY DEF Page!Refused, Page!payments
<1>2. s \in Page!Steps /\ s.at = "error"
  BY FailedScreen
<1> HIDE DEF s
<1>3. ConfirmTypes' /\ PayTypes'
  BY <1>1 DEF PageInv, ConfirmTypes, PayTypes
<1>4. page_step.at # "gone" => page_tasks' = {} /\ page_polls' = {} /\ page_timer' = {}
  BY <1>1 DEF PageInv, OneWaits
<1> QED
  BY <1>1, <1>2, <1>3, <1>4, StopsWaiting

\* A payment that LDK accepts: the page polls for it and for nothing else.
LEMMA BeginKeeps ==
  ASSUME PageInv, NEW id \in Page!Ids, Page!Begin(id), page_pay[id] # "fulfilled",
         page_tasks' \in SUBSET Page!Steps,
         page_step.at # "gone" => page_tasks' = {} /\ page_polls = {},
         UNCHANGED <<page_amountData, page_asks, page_ctl, page_res, page_resolving,
                     page_estimate>>
  PROVE  PageInv'
<1> DEFINE s == Page!Sending(id)
<1>1. /\ page_pay' = [page_pay EXCEPT ![id] = "pending"]
      /\ page_result' = [page_result EXCEPT ![id] = "pending"]
      /\ page_polls' = page_polls \cup {id} /\ page_timer' = {id} /\ page_sending' = TRUE
      /\ Page!Show(s) /\ page_events' = page_events
  BY DEF Page!Begin
<1>2. StepTypes /\ LookupTypes /\ ConfirmTypes /\ PayTypes /\ OneWaits /\ SentIsFulfilled
  BY DEF PageInv
<1>3. s \in Page!Steps /\ s.at = "ln-sending"
  BY Screens
<1> HIDE DEF s
<1>4. /\ page_step' \in Page!Steps
      /\ page_step.at = "gone" => page_step' = page_step
      /\ page_step.at # "gone" => page_step' = s
  BY <1>1, <1>2, <1>3, ShownFacts
<1>5. StepTypes' /\ LookupTypes'
  BY <1>2, <1>4 DEF StepTypes, LookupTypes
<1>6. ConfirmTypes'
  BY <1>1, <1>2 DEF ConfirmTypes
<1>7. PayTypes'
  <2>1. page_pay' \in [Page!Ids -> PayStates]
    BY <1>1, <1>2 DEF PayTypes, PayStates
  <2>2. page_result' \in [Page!Ids -> {"none", "pending", "sent", "failed"}]
    BY <1>1, <1>2 DEF PayTypes
  <2> QED
    BY <1>1, <1>2, <2>1, <2>2 DEF PayTypes
<1>8. OneWaits'
  BY <1>1, <1>4 DEF OneWaits
<1>9. SentIsFulfilled'
  <2>1. \A i \in Page!Ids : /\ page_pay'[i] = IF i = id THEN "pending" ELSE page_pay[i]
                            /\ page_result'[i] = IF i = id THEN "pending" ELSE page_result[i]
    BY <1>1, <1>2 DEF PayTypes
  <2>2. \A i \in Page!Ids : page_result'[i] = "sent" => page_pay'[i] = "fulfilled"
    BY <1>2, <2>1 DEF SentIsFulfilled
  <2>3. ASSUME NEW k \in 1..Len(page_events'), page_events'[k][2] = "sent"
        PROVE  page_pay'[page_events'[k][1]] = "fulfilled"
    <3>1. page_events[k] \in Page!Ids \X {"sent", "failed"}
      BY <1>1, <1>2 DEF PayTypes
    <3>2. page_events[k][1] \in Page!Ids
      BY <3>1
    <3>3. page_pay[page_events[k][1]] = "fulfilled"
      BY <1>1, <1>2, <2>3 DEF SentIsFulfilled
    <3> QED
      BY <1>1, <2>1, <3>2, <3>3
  <2>4. page_step'.at # "ln-success"
    BY <1>3, <1>4
  <2> QED
    BY <2>2, <2>3, <2>4 DEF SentIsFulfilled
<1> QED
  BY <1>5, <1>6, <1>7, <1>8, <1>9 DEF PageInv

\* A handler that goes on to await something.
LEMMA WaitKeeps ==
  ASSUME PageInv, page_step.at \in {"ln-review", "oc-review"}, page_sending = FALSE,
         page_sending' = TRUE, page_tasks' = page_tasks \cup {page_step},
         UNCHANGED <<page_step, page_amountData, page_asks, page_ctl, page_res, page_resolving,
                     page_estimate, page_polls, page_timer, page_pay, page_events, page_result>>
  PROVE  PageInv'
<1>1. StepTypes /\ LookupTypes /\ ConfirmTypes /\ PayTypes /\ OneWaits /\ SentIsFulfilled
  BY DEF PageInv
<1>2. page_tasks = {} /\ page_polls = {}
  BY <1>1 DEF OneWaits
<1>3. StepTypes' /\ LookupTypes' /\ PayTypes' /\ SentIsFulfilled'
  BY <1>1 DEF StepTypes, LookupTypes, PayTypes, SentIsFulfilled
<1>4. ConfirmTypes'
  BY <1>1 DEF ConfirmTypes, StepTypes
<1>5. OneWaits'
  BY <1>1, <1>2 DEF OneWaits
<1> QED
  BY <1>3, <1>4, <1>5 DEF PageInv

LEMMA OfferIds ==
  ASSUME NEW id \in Page!Fresh PROVE id \in Page!Ids /\ page_pay[id] # "fulfilled"
<1>1. id \in (MaxAsks + 1)..(MaxAsks + MaxOffers) /\ page_pay[id] = "none"
  BY DEF Page!Fresh, Page!Offers
<1> QED
  BY <1>1, PaymentBounds DEF Page!Ids

LEMMA LnConfirmKeeps ==
  ASSUME PageInv, Page!LnConfirm PROVE PageInv'
<1>1. /\ page_step.at = "ln-review" /\ ~ page_sending
      /\ UNCHANGED <<page_amountData, page_asks, page_ctl, page_res, page_resolving,
                     page_estimate>>
  BY DEF Page!LnConfirm, Page!lookup
<1>2. StepTypes /\ ConfirmTypes /\ OneWaits
  BY DEF PageInv
<1>3. page_tasks = {} /\ page_polls = {} /\ page_sending = FALSE
  BY <1>1, <1>2 DEF OneWaits, ConfirmTypes
<1>4. CASE UNCHANGED page_tasks /\ Page!Refused
  BY <1>1, <1>3, <1>4, RefusedKeeps
<1>5. CASE /\ Page!Begin(page_step.item.id) /\ UNCHANGED page_tasks
           /\ Page!Payable(page_step.item.id)
  <2>1. page_step.item \in Page!Items
    BY <1>1, <1>2, ScreenKinds DEF StepTypes
  <2>2. page_step.item.id \in 0..MaxAsks
    BY <2>1, SMT DEF Page!Items
  <2>3. page_step.item.id \in Page!Ids
    BY <2>2, PaymentBounds DEF Page!Ids
  <2>4. page_pay[page_step.item.id] # "fulfilled"
    BY <1>5 DEF Page!Payable
  <2> QED
    BY <1>1, <1>3, <1>5, <2>3, <2>4, BeginKeeps
<1>6. CASE UNCHANGED page_tasks /\ \E id \in Page!Fresh : Page!Begin(id)
  <2>1. PICK id \in Page!Fresh : Page!Begin(id)
    BY <1>6
  <2> QED
    BY <1>1, <1>3, <1>6, <2>1, OfferIds, BeginKeeps
<1>7. CASE /\ page_tasks' = page_tasks \cup {page_step} /\ page_sending' = TRUE
           /\ UNCHANGED <<page_step, page_polls, page_timer, page_pay, page_events,
                          page_result>>
  BY <1>1, <1>3, <1>7, WaitKeeps
<1> QED
  BY <1>4, <1>5, <1>6, <1>7 DEF Page!LnConfirm, Page!payments

LEMMA OcConfirmKeeps ==
  ASSUME PageInv, Page!OcConfirm PROVE PageInv'
<1>1. /\ page_step.at = "oc-review" /\ ~ page_sending /\ page_sending' = TRUE
      /\ page_tasks' = page_tasks \cup {page_step}
      /\ UNCHANGED <<page_step, page_amountData, page_asks, page_ctl, page_res, page_resolving,
                     page_estimate, page_polls, page_timer, page_pay, page_events, page_result>>
  BY DEF Page!OcConfirm, Page!page, Page!lookup, Page!payments
<1>2. page_sending = FALSE
  BY <1>1 DEF PageInv, ConfirmTypes
<1> QED
  BY <1>1, <1>2, WaitKeeps

\* The end of what a handler awaits, the page still there or not.
LEMMA TasksKeep ==
  ASSUME PageInv, NEW t \in page_tasks, Page!ConnectEnds(t) \/ Page!BroadcastEnds(t)
  PROVE  PageInv'
<1>1. /\ page_tasks' = page_tasks \ {t}
      /\ UNCHANGED <<page_amountData, page_asks, page_ctl, page_res, page_resolving,
                     page_estimate>>
  BY DEF Page!ConnectEnds, Page!BroadcastEnds, Page!lookup
<1>2. ConfirmTypes /\ OneWaits
  BY DEF PageInv
<1>3. /\ page_tasks' \in SUBSET Page!Steps /\ t \in Page!Steps
      /\ page_step.at # "gone" => page_tasks' = {} /\ page_polls = {}
  BY <1>1, <1>2 DEF ConfirmTypes, OneWaits
<1>4. CASE Page!ConnectEnds(t)
  <2>1. CASE Page!Refused
    BY <1>1, <1>3, <2>1, RefusedKeeps
  <2>2. CASE \E id \in Page!Fresh : Page!Begin(id)
    <3>1. PICK id \in Page!Fresh : Page!Begin(id)
      BY <2>2
    <3> QED
      BY <1>1, <1>3, <3>1, OfferIds, BeginKeeps
  <2> QED
    BY <1>4, <2>1, <2>2 DEF Page!ConnectEnds
<1>5. CASE Page!BroadcastEnds(t)
  <2>1. /\ t.at = "oc-review" /\ page_sending' = FALSE
        /\ UNCHANGED <<page_polls, page_timer, page_pay, page_events, page_result>>
    BY <1>5 DEF Page!BroadcastEnds, Page!payments
  <2>2. PICK s \in Page!Steps : /\ s.at \in {"oc-success", "error"} /\ Page!Show(s)
    <3>1. Page!At("oc-success") \in Page!Steps /\ Page!At("oc-success").at = "oc-success"
      BY Screens
    <3>2. t \in Page!Reviews
      BY <1>3, <2>1, ScreenKinds
    <3>3. Page!Failed(t) \in Page!Steps /\ Page!Failed(t).at = "error"
      BY <3>2, Screens
    <3>4. Page!Show(Page!At("oc-success")) \/ Page!Show(Page!Failed(t))
      BY <1>5 DEF Page!BroadcastEnds
    <3> QED
      BY <3>1, <3>3, <3>4
  <2>3. ConfirmTypes' /\ PayTypes'
    BY <1>2, <1>3, <2>1 DEF PageInv, ConfirmTypes, PayTypes
  <2>4. page_step.at # "gone" => page_tasks' = {} /\ page_polls' = {} /\ page_timer' = {}
    BY <1>2, <1>3, <2>1 DEF OneWaits
  <2> QED
    BY <1>1, <2>1, <2>2, <2>3, <2>4, StopsWaiting
<1> QED
  BY <1>4, <1>5

\* A poll that ends: with the result of the payment, or after five minutes.
LEMMA PollsKeep ==
  ASSUME PageInv, NEW id \in Page!Ids, Page!Poll(id) \/ Page!PollTimeout(id)
  PROVE  PageInv'
<1>1. /\ id \in page_polls /\ page_polls' = page_polls \ {id} /\ page_timer' = {}
      /\ page_sending' = FALSE
      /\ UNCHANGED <<page_amountData, page_asks, page_ctl, page_res, page_resolving,
                     page_estimate, page_tasks, page_pay, page_events, page_result>>
  BY DEF Page!Poll, Page!PollTimeout, Page!StopPolling, Page!lookup, Page!payments
<1>2. ConfirmTypes /\ OneWaits /\ SentIsFulfilled /\ PayTypes
  BY DEF PageInv
<1>3. PICK s \in Page!Steps :
        /\ s.at \in {"ln-success", "error"} /\ Page!Show(s)
        /\ s.at = "ln-success" => s.id \in Page!Ids /\ page_pay[s.id] = "fulfilled"
  <2>1. Page!Failed(Page!Nothing) \in Page!Steps /\ Page!Failed(Page!Nothing).at = "error"
    BY FailedScreen
  <2>2. CASE Page!Show(Page!Failed(Page!Nothing))
    BY <2>1, <2>2
  <2>3. CASE /\ Page!Show(Page!Success(id))
             /\ \/ page_result[id] = "sent"
                \/ page_result[id] = "pending" /\ page_pay[id] = "fulfilled"
    <3>1. Page!Success(id) \in Page!Steps /\ Page!Success(id).at = "ln-success"
          /\ Page!Success(id).id = id
      BY Screens
    <3>2. page_pay[id] = "fulfilled"
      BY <1>2, <2>3 DEF SentIsFulfilled
    <3> QED
      BY <2>3, <3>1, <3>2
  <2> QED
    BY <2>2, <2>3 DEF Page!Poll, Page!PollTimeout
<1>4. ConfirmTypes' /\ PayTypes'
  BY <1>1, <1>2 DEF ConfirmTypes, PayTypes
<1>5. page_step.at # "gone" => page_tasks' = {} /\ page_polls' = {} /\ page_timer' = {}
  BY <1>1, <1>2 DEF OneWaits
<1> QED
  BY <1>1, <1>3, <1>4, <1>5, StopsWaiting

\* A payment given up on may be fulfilled all the same.
LEMMA CancelKeeps ==
  ASSUME PageInv, Page!CancelPayment PROVE PageInv'
<1> DEFINE s == Page!Failed(Page!Nothing)
<1>1. /\ page_step.at = "ln-sending"
      /\ page_pay' = [page_pay EXCEPT ![page_step.id] = IF @ = "pending" THEN "abandoned" ELSE @]
      /\ page_polls' = page_polls \ page_timer /\ page_timer' = {} /\ page_sending' = FALSE
      /\ Page!Show(s)
      /\ UNCHANGED <<page_amountData, page_asks, page_ctl, page_res, page_resolving,
                     page_estimate, page_tasks, page_events, page_result>>
  BY DEF Page!CancelPayment, Page!lookup
<1>2. s \in Page!Steps /\ s.at = "error"
  BY FailedScreen
<1> HIDE DEF s
<1>3. StepTypes /\ ConfirmTypes /\ OneWaits /\ PayTypes
  BY DEF PageInv
<1>4. page_step.id \in Page!Ids
  BY <1>1, <1>3, ScreenKinds DEF StepTypes
<1>5. page_pay' \in [Page!Ids -> PayStates]
      /\ \A i \in Page!Ids : page_pay[i] = "fulfilled" => page_pay'[i] = "fulfilled"
  BY <1>1, <1>3, <1>4 DEF PayTypes, PayStates
<1>6. ConfirmTypes' /\ PayTypes'
  BY <1>1, <1>3, <1>5 DEF ConfirmTypes, PayTypes
<1>7. page_step.at # "gone" => page_tasks' = {} /\ page_polls' = {} /\ page_timer' = {}
  BY <1>1, <1>3 DEF OneWaits
<1> QED
  BY <1>1, <1>2, <1>5, <1>6, <1>7, StopsWaiting

LEMMA LeaveKeeps ==
  ASSUME PageInv, Page!Leave PROVE PageInv'
<1>1. /\ page_step' = Page!At("gone") /\ page_amountData' = Page!NoItem /\ page_ctl' = 0
      /\ page_res' = {} /\ page_resolving' = FALSE /\ page_estimate' = Page!Nothing
      /\ page_polls' = page_polls \ page_timer /\ page_timer' = {} /\ page_sending' = FALSE
      /\ UNCHANGED <<page_asks, page_tasks, page_pay, page_events, page_result>>
  BY DEF Page!Leave, Page!payments
<1>2. LookupTypes /\ ConfirmTypes /\ PayTypes /\ SentIsFulfilled
  BY DEF PageInv
<1>3. page_step' \in Page!Steps /\ page_step'.at = "gone"
  BY <1>1, Screens
<1>4. 0 \in 0..page_asks /\ page_asks \in 0..MaxAsks
  BY <1>2, PaymentBounds DEF LookupTypes
<1>5. StepTypes' /\ ConfirmTypes' /\ PayTypes'
  BY <1>1, <1>2, <1>3 DEF StepTypes, ConfirmTypes, PayTypes
<1>6. LookupTypes'
  BY <1>1, <1>4 DEF LookupTypes
<1>7. OneWaits' /\ SentIsFulfilled'
  BY <1>1, <1>2, <1>3 DEF OneWaits, SentIsFulfilled
<1> QED
  BY <1>5, <1>6, <1>7 DEF PageInv

\* LDK settles a payment, and its event tells of the outcome.
LEMMA SettleKeeps ==
  ASSUME PageInv, NEW id \in Page!Ids, NEW how \in {"sent", "failed"},
         Page!PaySettles(id, how)
  PROVE  PageInv'
<1>1. /\ page_pay[id] \in {"pending", "abandoned"}
      /\ page_pay' = [page_pay EXCEPT ![id] = IF how = "sent" THEN "fulfilled" ELSE "failed"]
      /\ page_events' = Append(page_events, <<id, how>>)
      /\ UNCHANGED <<page_step, page_amountData, page_asks, page_ctl, page_res, page_resolving,
                     page_estimate, page_sending, page_tasks, page_polls, page_timer,
                     page_result>>
  BY DEF Page!PaySettles, Page!page, Page!lookup, Page!confirm
<1>2. StepTypes /\ LookupTypes /\ ConfirmTypes /\ PayTypes /\ OneWaits /\ SentIsFulfilled
  BY DEF PageInv
<1>3. /\ StepTypes' /\ LookupTypes' /\ ConfirmTypes' /\ OneWaits'
  BY <1>1, <1>2 DEF StepTypes, LookupTypes, ConfirmTypes, OneWaits
<1>4. page_events \in Seq(Page!Ids \X {"sent", "failed"})
      /\ page_events' \in Seq(Page!Ids \X {"sent", "failed"})
  BY <1>1, <1>2 DEF PayTypes
<1>5. /\ page_pay' \in [Page!Ids -> PayStates]
      /\ \A i \in Page!Ids : page_pay[i] = "fulfilled" => page_pay'[i] = "fulfilled"
      /\ how = "sent" => page_pay'[id] = "fulfilled"
  BY <1>1, <1>2 DEF PayTypes, PayStates
<1>6. PayTypes'
  BY <1>1, <1>2, <1>4, <1>5 DEF PayTypes
<1>7. SentIsFulfilled'
  <2>1. ASSUME NEW i \in Page!Ids, page_result'[i] = "sent" PROVE page_pay'[i] = "fulfilled"
    BY <1>1, <1>2, <1>5, <2>1 DEF SentIsFulfilled
  <2>2. ASSUME NEW k \in 1..Len(page_events'), page_events'[k][2] = "sent"
        PROVE  page_pay'[page_events'[k][1]] = "fulfilled"
    <3>1. CASE k \in 1..Len(page_events)
      <4>1. page_events'[k] = page_events[k]
        BY <1>1, <1>4, <3>1
      <4>2. page_events[k] \in Page!Ids \X {"sent", "failed"}
        BY <1>4, <3>1
      <4>3. page_events[k][1] \in Page!Ids
        BY <4>2
      <4>4. page_pay[page_events[k][1]] = "fulfilled"
        BY <1>2, <2>2, <3>1, <4>1 DEF SentIsFulfilled
      <4> QED
        BY <1>5, <4>1, <4>3, <4>4
    <3>2. CASE k = Len(page_events) + 1
      <4>1. page_events'[k] = <<id, how>>
        BY <1>1, <1>4, <3>2
      <4>2. page_events'[k][1] = id /\ page_events'[k][2] = how
        BY <4>1
      <4> QED
        BY <1>5, <2>2, <4>2
    <3>3. Len(page_events') = Len(page_events) + 1 /\ Len(page_events) \in Nat
      BY <1>1, <1>4
    <3> QED
      BY <3>1, <3>2, <3>3
  <2>3. ASSUME page_step'.at = "ln-success" PROVE page_pay'[page_step'.id] = "fulfilled"
    <3>1. page_step.at = "ln-success" /\ page_step' = page_step
      BY <1>1, <2>3
    <3>2. page_step.id \in Page!Ids
      BY <1>2, <3>1, ScreenKinds DEF StepTypes
    <3> QED
      BY <1>2, <1>5, <3>1, <3>2 DEF SentIsFulfilled
  <2> QED
    BY <2>1, <2>2, <2>3 DEF SentIsFulfilled
<1> QED
  BY <1>3, <1>6, <1>7 DEF PageInv

\* The callback takes the oldest event.
LEMMA EventKeeps ==
  ASSUME PageInv, Page!HandleEvent PROVE PageInv'
<1>1. /\ page_events # <<>> /\ page_events' = Tail(page_events)
      /\ page_result' = [page_result EXCEPT ![Head(page_events)[1]] = Head(page_events)[2]]
      /\ UNCHANGED <<page_step, page_amountData, page_asks, page_ctl, page_res, page_resolving,
                     page_estimate, page_sending, page_tasks, page_polls, page_timer, page_pay>>
  BY DEF Page!HandleEvent, Page!page, Page!lookup, Page!confirm
<1>2. StepTypes /\ LookupTypes /\ ConfirmTypes /\ PayTypes /\ OneWaits /\ SentIsFulfilled
  BY DEF PageInv
<1>3. /\ StepTypes' /\ LookupTypes' /\ ConfirmTypes' /\ OneWaits'
  BY <1>1, <1>2 DEF StepTypes, LookupTypes, ConfirmTypes, OneWaits
<1>4. page_events \in Seq(Page!Ids \X {"sent", "failed"})
  BY <1>2 DEF PayTypes
<1>5. /\ Head(page_events) = page_events[1] /\ 1 \in 1..Len(page_events)
      /\ Tail(page_events) \in Seq(Page!Ids \X {"sent", "failed"})
      /\ Len(Tail(page_events)) = Len(page_events) - 1 /\ Len(page_events) \in Nat
      /\ \A k \in 1..Len(Tail(page_events)) : Tail(page_events)[k] = page_events[k + 1]
  BY <1>1, <1>4
<1>6. page_events[1] \in Page!Ids \X {"sent", "failed"}
  BY <1>4, <1>5
<1>7. page_events[1][1] \in Page!Ids /\ page_events[1][2] \in {"sent", "failed"}
  BY <1>6
<1>8. PayTypes'
  BY <1>1, <1>2, <1>5, <1>7 DEF PayTypes
<1>9. SentIsFulfilled'
  <2>1. ASSUME NEW i \in Page!Ids, page_result'[i] = "sent" PROVE page_pay'[i] = "fulfilled"
    BY <1>1, <1>2, <1>5, <1>7, <2>1 DEF SentIsFulfilled, PayTypes
  <2>2. ASSUME NEW k \in 1..Len(page_events'), page_events'[k][2] = "sent"
        PROVE  page_pay'[page_events'[k][1]] = "fulfilled"
    <3>1. page_events'[k] = page_events[k + 1] /\ k + 1 \in 1..Len(page_events)
      BY <1>1, <1>5
    <3> QED
      BY <1>1, <1>2, <2>2, <3>1 DEF SentIsFulfilled
  <2>3. page_step'.at = "ln-success" => page_pay'[page_step'.id] = "fulfilled"
    BY <1>1, <1>2 DEF SentIsFulfilled
  <2> QED
    BY <2>1, <2>2, <2>3 DEF SentIsFulfilled
<1> QED
  BY <1>3, <1>8, <1>9 DEF PageInv

LEMMA PageMoves ==
  ASSUME [SessionNext]_sessionVars PROVE [Page!Next]_(Page!vars)
<1>1. CASE UNCHANGED sessionVars
  BY <1>1 DEF sessionVars, pageVars, Page!vars
<1>2. CASE SessionNext
  <2>1. part # "send" => UNCHANGED pageVars
    BY <1>2 DEF SessionNext, Rest
  <2>2. part = "send" => Page!Next
    BY <1>2 DEF SessionNext
  <2> QED
    BY <2>1, <2>2 DEF pageVars, Page!vars
<1> QED
  BY <1>1, <1>2

LEMMA PageHolds ==
  /\ SessionInit => PageInv
  /\ PageInv /\ [SessionNext]_sessionVars => PageInv'
<1>1. SessionInit => PageInv
  <2> SUFFICES ASSUME Page!Init PROVE PageInv
    BY DEF SessionInit
  <2>1. page_step \in Page!Steps /\ page_step.at = "recipient"
    BY Screens DEF Page!Init
  <2>2. StepTypes
    BY <2>1 DEF Page!Init, StepTypes
  <2>3. LookupTypes
    <3>1. 0 \in 0..MaxAsks /\ 0 \in 0..0
      BY PaymentBounds
    <3> QED
      BY <3>1 DEF Page!Init, LookupTypes
  <2>4. ConfirmTypes /\ PayTypes
    <3>1. ConfirmTypes
      BY DEF Page!Init, ConfirmTypes
    <3>2. page_events \in Seq(Page!Ids \X {"sent", "failed"})
      BY DEF Page!Init
    <3>3. page_pay \in [Page!Ids -> PayStates]
          /\ page_result \in [Page!Ids -> {"none", "pending", "sent", "failed"}]
      BY DEF Page!Init, PayStates
    <3> QED
      BY <3>1, <3>2, <3>3 DEF PayTypes
  <2>5. OneWaits
    BY <2>1 DEF Page!Init, OneWaits
  <2>6. SentIsFulfilled
    <3>1. /\ \A i \in Page!Ids : page_result[i] # "sent"
          /\ 1..Len(page_events) = {} /\ page_step.at # "ln-success"
      BY <2>1 DEF Page!Init
    <3> QED
      BY <3>1 DEF SentIsFulfilled
  <2> QED
    BY <2>2, <2>3, <2>4, <2>5, <2>6 DEF PageInv
<1>2. PageInv /\ [SessionNext]_sessionVars => PageInv'
  <2> SUFFICES ASSUME PageInv, [Page!Next]_(Page!vars) PROVE PageInv'
    BY PageMoves
  <2>1. CASE \E type \in {"onchain", "bolt11", "bolt12"}, fixed \in BOOLEAN :
               Page!Enter(type, fixed)
    BY <2>1, EnterKeeps
  <2>2. CASE \/ Page!EnterName \/ Page!CancelResolving \/ Page!AmountNext
             \/ Page!AmountBack \/ Page!EstimateEnds \/ Page!ReviewBack \/ Page!TryAgain
    BY <2>2, NameKeeps, AmountNextKeeps, BacksKeep
  <2>3. CASE \E r \in page_res : \/ Page!DnsAnswers(r) \/ Page!LnurlAnswers(r)
                                 \/ Page!InvoiceArrives(r) \/ Page!AskFails(r)
    BY <2>3, AnswersKeep
  <2>4. CASE Page!LnConfirm \/ Page!OcConfirm \/ Page!CancelPayment \/ Page!Leave
    BY <2>4, LnConfirmKeeps, OcConfirmKeeps, CancelKeeps, LeaveKeeps
  <2>5. CASE \E t \in page_tasks : Page!ConnectEnds(t) \/ Page!BroadcastEnds(t)
    BY <2>5, TasksKeep
  <2>6. CASE \E id \in Page!Ids : Page!Poll(id) \/ Page!PollTimeout(id)
    BY <2>6, PollsKeep
  <2>7. CASE \E id \in Page!Ids, how \in {"sent", "failed"} : Page!PaySettles(id, how)
    BY <2>7, SettleKeeps
  <2>8. CASE Page!HandleEvent
    BY <2>8, EventKeeps
  <2>9. CASE UNCHANGED Page!vars
    BY <2>9 DEF Page!vars, PageInv, StepTypes, LookupTypes, ConfirmTypes, PayTypes, OneWaits,
       SentIsFulfilled
  <2> QED
    BY <2>1, <2>2, <2>3, <2>4, <2>5, <2>6, <2>7, <2>8, <2>9 DEF Page!Next
<1> QED
  BY <1>1, <1>2

\* A set all whose elements are the same.
LEMMA AtMostOne ==
  ASSUME NEW S, \A x, y \in S : x = y
  PROVE  Cardinality(S) \in 0..1 /\ (S = {} => Cardinality(S) = 0)
<1>1. CASE S = {}
  BY <1>1, FS_EmptySet
<1>2. CASE S # {}
  <2>1. PICK x \in S : TRUE
    BY <1>2
  <2>2. S = {x}
    BY <2>1
  <2>3. Cardinality(S) = 1
    BY <2>2, FS_Singleton
  <2> QED
    BY <1>2, <2>3
<1> QED
  BY <1>1, <1>2

\* The Send page makes or waits for one payment at a time, whatever is confirmed,
\* cancelled, answered or left behind, for any number of requests and payments.
THEOREM OneAtATime == SessionSpec => []OnePaymentAtATime
<1>1. PageInv => OnePaymentAtATime
  <2> SUFFICES ASSUME PageInv, page_step.at # "gone"
               PROVE  /\ Page!Cardinality(page_tasks) + Page!Cardinality(page_polls) <= 1
                      /\ page_sending <=> page_tasks # {} \/ page_polls # {}
    BY DEF OnePaymentAtATime, Page!OnePaymentAtATime
  <2> DEFINE n == Page!Cardinality(page_tasks)  m == Page!Cardinality(page_polls)
  <2>1. /\ page_tasks = {} \/ page_polls = {}
        /\ \A s, t \in page_tasks : s = t
        /\ \A i, j \in page_polls : i = j
        /\ page_sending <=> page_tasks # {} \/ page_polls # {}
    BY DEF PageInv, OneWaits
  <2>2. n \in 0..1 /\ (page_tasks = {} => n = 0)
    BY <2>1, AtMostOne, OneCardinality
  <2>3. m \in 0..1 /\ (page_polls = {} => m = 0)
    BY <2>1, AtMostOne, OneCardinality
  <2> HIDE DEF n, m
  <2>4. n + m <= 1
    BY <2>1, <2>2, <2>3
  <2> QED
    BY <2>1, <2>4 DEF n, m
<1> QED
  BY <1>1, PageHolds, PTL DEF SessionSpec

\* "sent successfully" is the screen of a payment the network has fulfilled, the
\* cancelled ones and the polls that outlive their screen included.
THEOREM SuccessIsSent == SessionSpec => []SuccessShownIsSent
<1>1. PageInv => SuccessShownIsSent
  BY DEF PageInv, SentIsFulfilled, SuccessShownIsSent, Page!SuccessShownIsSent
<1> QED
  BY <1>1, PageHolds, PTL DEF SessionSpec

LEMMA PageTyped == PageInv => Page!TypeOK
BY DEF PageInv, StepTypes, LookupTypes, ConfirmTypes, PayTypes, PayStates, Page!TypeOK

(***************************************************************************)
(* The payment history.  Only the payments sent (Payers) are updated; one  *)
(* is identified with its record in the store and its operations in the    *)
(* queue of the store.                                                     *)
(***************************************************************************)

\* No "upsert", and no status that is not one.
QueueOps == [op : {"put", "update", "load"}, id : History!Ids,
             status : History!Statuses \ {"none"}]

Payers == Outbound \ Inbound

IsWrite(o, i) == o.id = i /\ o.op # "load"

HasPut(q, i) == \E k \in 1..Len(q) : q[k].id = i /\ q[k].op = "put"

\* The record of i, r, is in the store or on its way there.
Written(q, r, i) == r # "none" \/ HasPut(q, i)

\* An update of i finds a record.
Found(q, r, i) ==
  \A k \in 1..Len(q) : q[k].id = i /\ q[k].op = "update" =>
    r # "none" \/ \E j \in 1..Len(q) : j < k /\ q[j].id = i /\ q[j].op = "put"

\* Of the writes of i, the update to "sent", the write of such an update, or
\* neither is left; in each case the record ends as "sent".
UpdateLeft(q, i) ==
  \E k \in 1..Len(q) :
    /\ q[k].id = i /\ q[k].op = "update" /\ q[k].status = "sent"
    /\ \A j \in 1..Len(q) : j > k /\ IsWrite(q[j], i) => q[j].op = "put"
PutLeft(q, i) ==
  \E k \in 1..Len(q) :
    /\ q[k].id = i /\ q[k].op = "put" /\ q[k].status = "sent"
    /\ \A j \in 1..Len(q) : IsWrite(q[j], i) => j <= k /\ q[j].op = "put"
NothingLeft(q, i) == \A j \in 1..Len(q) : ~ IsWrite(q[j], i)
Settling(q, r, i) ==
  UpdateLeft(q, i) \/ PutLeft(q, i) \/ (NothingLeft(q, i) /\ r = "sent")

\* What the store holds and will write of i, whose last known status is w.
Stands(q, r, w, i) ==
  (w # "none" => Written(q, r, i)) /\ Found(q, r, i) /\ (w = "sent" => Settling(q, r, i))

HistTypes ==
  /\ hist_begun \in 0..MaxBegun /\ hist_failures \in 0..MaxFailures
  /\ hist_pay \in [History!Ids -> {"idle", "inflight", "settled"}]
  /\ hist_events \in Seq(History!Ids \X History!Outcomes)
  /\ hist_known \in [History!Ids -> History!Statuses]
  /\ hist_rows \in [History!Ids -> History!Statuses]
  /\ hist_shown \in [History!Ids -> History!Statuses]
  /\ hist_idb \in Seq(QueueOps) /\ hist_excused \in SUBSET History!Ids

\* The event of a sent payment is its last.
EventsMatch ==
  \A k \in 1..Len(hist_events) :
    /\ hist_events[k][2] = "sent" =>
         /\ hist_events[k][1] \notin Inbound /\ hist_pay[hist_events[k][1]] = "settled"
         /\ \A j \in 1..Len(hist_events) : j > k => hist_events[j][1] # hist_events[k][1]
    /\ hist_events[k][1] \notin Inbound => hist_known[hist_events[k][1]] # "none"

BegunKnown == \A i \in Payers : hist_pay[i] # "idle" => hist_known[i] # "none"

SentOver ==
  \A i \in History!Ids : hist_known[i] = "sent" =>
    /\ i \notin Inbound /\ hist_pay[i] = "settled"
    /\ \A k \in 1..Len(hist_events) : hist_events[k][1] # i

RecordsStand ==
  \A i \in Payers \ hist_excused : Stands(hist_idb, hist_rows[i], hist_known[i], i)

HistInv == HistTypes /\ EventsMatch /\ BegunKnown /\ SentOver /\ RecordsStand

\* The queue q becomes q2: d operations are taken at its head and any number
\* added at its end.
Moved(q, q2, d) ==
  /\ q \in Seq(QueueOps) /\ q2 \in Seq(QueueOps) /\ d \in 0..1
  /\ d <= Len(q) /\ Len(q) <= Len(q2) + d
  /\ \A k \in 1..Len(q) : k > d => q2[k - d] = q[k]

LEMMA TailMoved ==
  ASSUME NEW q \in Seq(QueueOps), q # <<>>
  PROVE  /\ Head(q) = q[1] /\ q[1] \in QueueOps /\ Moved(q, Tail(q), 1)
         /\ Len(Tail(q)) + 1 = Len(q)
<1>1. /\ Head(q) = q[1] /\ q[1] \in QueueOps /\ Tail(q) \in Seq(QueueOps)
      /\ Len(q) \in Nat /\ Len(q) >= 1 /\ Len(Tail(q)) = Len(q) - 1
      /\ \A k \in 1..Len(Tail(q)) : Tail(q)[k] = q[k + 1]
  OBVIOUS
<1>2. ASSUME NEW k \in 1..Len(q), k > 1 PROVE Tail(q)[k - 1] = q[k]
  <2>1. k - 1 \in 1..Len(Tail(q)) /\ (k - 1) + 1 = k
    BY <1>1, <1>2
  <2> QED
    BY <1>1, <2>1
<1> QED
  BY <1>1, <1>2 DEF Moved

LEMMA AppendMoved ==
  ASSUME NEW q \in Seq(QueueOps), NEW x \in QueueOps
  PROVE  /\ Moved(q, Append(q, x), 0) /\ Len(Append(q, x)) = Len(q) + 1
         /\ Append(q, x)[Len(q) + 1] = x
BY DEF Moved

LEMMA TurnMoved ==
  ASSUME NEW q \in Seq(QueueOps), q # <<>>, NEW x \in QueueOps
  PROVE  /\ Moved(q, Append(Tail(q), x), 1) /\ Len(Append(Tail(q), x)) = Len(q)
         /\ Append(Tail(q), x)[Len(q)] = x
<1> DEFINE t == Tail(q)
<1>1. /\ t \in Seq(QueueOps) /\ Len(q) \in Nat /\ Len(t) \in Nat /\ Len(t) + 1 = Len(q)
      /\ \A k \in 1..Len(q) : k > 1 => t[k - 1] = q[k]
  BY TailMoved DEF Moved
<1> HIDE DEF t
<1>2. /\ Append(t, x) \in Seq(QueueOps) /\ Len(Append(t, x)) = Len(t) + 1
      /\ Append(t, x)[Len(t) + 1] = x
      /\ \A k \in 1..Len(t) : Append(t, x)[k] = t[k]
  BY <1>1
<1>3. ASSUME NEW k \in 1..Len(q), k > 1 PROVE Append(t, x)[k - 1] = q[k]
  <2>1. k - 1 \in 1..Len(t)
    BY <1>1, <1>3
  <2> QED
    BY <1>1, <1>2, <1>3, <2>1
<1>4. Moved(q, Append(t, x), 1)
  BY <1>1, <1>2, <1>3 DEF Moved
<1>5. Len(Append(t, x)) = Len(q) /\ Append(t, x)[Len(q)] = x
  BY <1>1, <1>2
<1> QED
  BY <1>4, <1>5 DEF t

LEMMA TwoMoved ==
  ASSUME NEW q \in Seq(QueueOps), NEW x \in QueueOps, NEW y \in QueueOps
  PROVE  /\ Moved(q, q \o <<x, y>>, 0) /\ Len(q \o <<x, y>>) = Len(q) + 2
         /\ (q \o <<x, y>>)[Len(q) + 1] = x /\ (q \o <<x, y>>)[Len(q) + 2] = y
<1>1. /\ <<x, y>> \in Seq(QueueOps) /\ Len(<<x, y>>) = 2
      /\ <<x, y>>[1] = x /\ <<x, y>>[2] = y
  OBVIOUS
<1>2. /\ q \o <<x, y>> \in Seq(QueueOps) /\ Len(q \o <<x, y>>) = Len(q) + 2
      /\ (q \o <<x, y>>)[Len(q) + 1] = x /\ (q \o <<x, y>>)[Len(q) + 2] = y
      /\ \A k \in 1..Len(q) : (q \o <<x, y>>)[k] = q[k]
  BY <1>1
<1> QED
  BY <1>2 DEF Moved

\* Positions of q2 after the move.
LEMMA MovedPlaces ==
  ASSUME NEW q, NEW q2, NEW d, Moved(q, q2, d)
  PROVE  /\ \A k \in 1..Len(q) : k > d => k - d \in 1..Len(q2) /\ q2[k - d] = q[k]
         /\ \A k \in 1..Len(q2) : k + d <= Len(q) => k + d \in 1..Len(q) /\ q2[k] = q[k + d]
<1>1. Len(q) \in Nat /\ Len(q2) \in Nat /\ d \in 0..1 /\ Len(q) <= Len(q2) + d
  BY DEF Moved
<1>2. ASSUME NEW k \in 1..Len(q), k > d PROVE k - d \in 1..Len(q2) /\ q2[k - d] = q[k]
  BY <1>1, <1>2 DEF Moved
<1>3. ASSUME NEW k \in 1..Len(q2), k + d <= Len(q)
      PROVE  k + d \in 1..Len(q) /\ q2[k] = q[k + d]
  <2>1. k + d \in 1..Len(q) /\ k + d > d /\ (k + d) - d = k
    BY <1>1, <1>3
  <2> QED
    BY <2>1 DEF Moved
<1> QED
  BY <1>2, <1>3

\* Operations of i taken from or added to the queue are loads.
Quiet(q, q2, d, i) ==
  /\ Moved(q, q2, d)
  /\ d = 1 => ~ IsWrite(q[1], i)
  /\ \A k \in 1..Len(q2) : k + d > Len(q) => ~ IsWrite(q2[k], i)

LEMMA PutMoves ==
  ASSUME NEW q, NEW q2, NEW d, NEW i, Moved(q, q2, d), HasPut(q, i)
  PROVE  HasPut(q2, i) \/ (d = 1 /\ q[1].id = i /\ q[1].op = "put")
<1>1. PICK k \in 1..Len(q) : q[k].id = i /\ q[k].op = "put"
  BY DEF HasPut
<1>2. d \in 0..1 /\ Len(q) \in Nat
  BY DEF Moved
<1>3. CASE k > d
  BY <1>1, <1>3, MovedPlaces DEF HasPut
<1>4. CASE ~ (k > d)
  <2>1. k = 1 /\ d = 1
    BY <1>2, <1>4
  <2> QED
    BY <1>1, <2>1
<1> QED
  BY <1>3, <1>4

\* Records stay, and those on their way arrive.
LEMMA WrittenMoves ==
  ASSUME NEW q, NEW q2, NEW d, NEW r, NEW r2, NEW i, Moved(q, q2, d), Written(q, r, i),
         r # "none" => r2 # "none",
         d = 1 /\ q[1].id = i /\ q[1].op = "put" => r2 # "none"
  PROVE  Written(q2, r2, i)
BY PutMoves DEF Written

LEMMA FoundMoves ==
  ASSUME NEW q, NEW q2, NEW d, NEW r, NEW r2, NEW i, Moved(q, q2, d), Found(q, r, i),
         r # "none" => r2 # "none",
         d = 1 /\ q[1].id = i /\ q[1].op = "put" => r2 # "none",
         \A k \in 1..Len(q2) : k + d > Len(q) /\ q2[k].id = i /\ q2[k].op = "update"
                                 => d = 0 /\ Written(q, r, i)
  PROVE  Found(q2, r2, i)
<1> SUFFICES ASSUME NEW k \in 1..Len(q2), q2[k].id = i, q2[k].op = "update", r2 = "none"
             PROVE  \E j \in 1..Len(q2) : j < k /\ q2[j].id = i /\ q2[j].op = "put"
  BY DEF Found
<1>1. d \in 0..1 /\ Len(q) \in Nat /\ Len(q2) \in Nat
  BY DEF Moved
<1>2. CASE k + d <= Len(q)
  <2>1. k + d \in 1..Len(q) /\ q[k + d].id = i /\ q[k + d].op = "update"
    BY <1>2, MovedPlaces
  <2>2. PICK j \in 1..Len(q) : j < k + d /\ q[j].id = i /\ q[j].op = "put"
    BY <2>1 DEF Found
  <2>3. j > d
    BY <1>1, <2>2
  <2>4. j - d \in 1..Len(q2) /\ q2[j - d] = q[j] /\ j - d < k
    BY <1>1, <2>2, <2>3, MovedPlaces
  <2> QED
    BY <2>2, <2>4
<1>3. CASE ~ (k + d <= Len(q))
  <2>1. d = 0 /\ Written(q, r, i) /\ k > Len(q)
    BY <1>1, <1>3
  <2>2. PICK j \in 1..Len(q) : q[j].id = i /\ q[j].op = "put"
    BY <2>1 DEF Written, HasPut
  <2>3. j - d \in 1..Len(q2) /\ q2[j - d] = q[j] /\ j - d < k
    BY <1>1, <2>1, <2>2, MovedPlaces
  <2> QED
    BY <2>2, <2>3
<1> QED
  BY <1>2, <1>3

LEMMA QuietSettles ==
  ASSUME NEW q, NEW q2, NEW d, NEW r, NEW i, Quiet(q, q2, d, i), Settling(q, r, i)
  PROVE  Settling(q2, r, i)
<1>1. Moved(q, q2, d) /\ d \in 0..1 /\ Len(q) \in Nat /\ Len(q2) \in Nat
  BY DEF Quiet, Moved
<1>2. \A k \in 1..Len(q) : IsWrite(q[k], i) =>
        k > d /\ k - d \in 1..Len(q2) /\ q2[k - d] = q[k]
  <2> SUFFICES ASSUME NEW k \in 1..Len(q), IsWrite(q[k], i)
               PROVE  k > d /\ k - d \in 1..Len(q2) /\ q2[k - d] = q[k]
    OBVIOUS
  <2>1. d = 1 => k # 1
    BY DEF Quiet
  <2>2. k > d
    BY <1>1, <2>1
  <2>3. \A m \in 1..Len(q) : m > d => m - d \in 1..Len(q2) /\ q2[m - d] = q[m]
    BY <1>1, MovedPlaces
  <2> QED
    BY <2>2, <2>3
<1>3. \A j \in 1..Len(q2) : IsWrite(q2[j], i) => j + d \in 1..Len(q) /\ q2[j] = q[j + d]
  <2> SUFFICES ASSUME NEW j \in 1..Len(q2), IsWrite(q2[j], i)
               PROVE  j + d \in 1..Len(q) /\ q2[j] = q[j + d]
    OBVIOUS
  <2>1. j + d <= Len(q)
    BY <1>1 DEF Quiet
  <2> QED
    BY <1>1, <2>1, MovedPlaces
<1>4. CASE UpdateLeft(q, i)
  <2>1. PICK k \in 1..Len(q) :
          /\ q[k].id = i /\ q[k].op = "update" /\ q[k].status = "sent"
          /\ \A j \in 1..Len(q) : j > k /\ IsWrite(q[j], i) => q[j].op = "put"
    BY <1>4 DEF UpdateLeft
  <2>2. IsWrite(q[k], i)
    BY <2>1 DEF IsWrite
  <2>3. k > d /\ k - d \in 1..Len(q2) /\ q2[k - d] = q[k]
    BY <1>2, <2>2
  <2>4. ASSUME NEW j \in 1..Len(q2), j > k - d, IsWrite(q2[j], i) PROVE q2[j].op = "put"
    <3>1. j + d \in 1..Len(q) /\ q2[j] = q[j + d] /\ j + d > k
      BY <1>1, <1>3, <2>4
    <3> QED
      BY <2>1, <2>4, <3>1
  <2>5. UpdateLeft(q2, i)
    BY <2>1, <2>3, <2>4 DEF UpdateLeft
  <2> QED
    BY <2>5 DEF Settling
<1>5. CASE PutLeft(q, i)
  <2>1. PICK k \in 1..Len(q) :
          /\ q[k].id = i /\ q[k].op = "put" /\ q[k].status = "sent"
          /\ \A j \in 1..Len(q) : IsWrite(q[j], i) => j <= k /\ q[j].op = "put"
    BY <1>5 DEF PutLeft
  <2>2. IsWrite(q[k], i)
    BY <2>1 DEF IsWrite
  <2>3. k > d /\ k - d \in 1..Len(q2) /\ q2[k - d] = q[k]
    BY <1>2, <2>2
  <2>4. ASSUME NEW j \in 1..Len(q2), IsWrite(q2[j], i) PROVE j <= k - d /\ q2[j].op = "put"
    <3>1. j + d \in 1..Len(q) /\ q2[j] = q[j + d]
      BY <1>3, <2>4
    <3>2. j + d <= k /\ q[j + d].op = "put"
      BY <2>1, <2>4, <3>1
    <3> QED
      BY <1>1, <3>1, <3>2
  <2>5. PutLeft(q2, i)
    BY <2>1, <2>3, <2>4 DEF PutLeft
  <2> QED
    BY <2>5 DEF Settling
<1>6. CASE NothingLeft(q, i) /\ r = "sent"
  BY <1>3, <1>6 DEF NothingLeft, Settling
<1> QED
  BY <1>4, <1>5, <1>6 DEF Settling

LEMMA QuietStands ==
  ASSUME NEW q, NEW q2, NEW d, NEW r, NEW w, NEW i, Quiet(q, q2, d, i), Stands(q, r, w, i)
  PROVE  Stands(q2, r, w, i)
<1>1. Moved(q, q2, d) /\ ~ (d = 1 /\ q[1].id = i /\ q[1].op = "put")
  BY DEF Quiet, IsWrite
<1>2. w # "none" => Written(q2, r, i)
  BY <1>1, WrittenMoves DEF Stands
<1>3. \A k \in 1..Len(q2) : ~ (k + d > Len(q) /\ q2[k].id = i /\ q2[k].op = "update")
  BY DEF Quiet, IsWrite
<1>4. Found(q2, r, i)
  BY <1>1, <1>3, FoundMoves DEF Stands
<1> QED
  BY <1>2, <1>4, QuietSettles DEF Stands

\* Where the writes of i are once the first operation of the queue is taken.
LEMMA FirstTaken ==
  ASSUME NEW q, NEW q2, Moved(q, q2, 1), 1 \in 1..Len(q)
  PROVE  /\ Len(q) \in Nat /\ Len(q2) \in Nat
         /\ \A k \in 1..Len(q) : k # 1 => k - 1 \in 1..Len(q2) /\ q2[k - 1] = q[k]
         /\ \A k \in 1..Len(q2) :
              (k + 1 \in 1..Len(q) /\ q2[k] = q[k + 1]) \/ k + 1 > Len(q)
<1>1. Len(q) \in Nat /\ Len(q2) \in Nat
  BY DEF Moved
<1>2. \A k \in 1..Len(q) : k > 1 => k - 1 \in 1..Len(q2) /\ q2[k - 1] = q[k]
  BY MovedPlaces
<1>3. \A k \in 1..Len(q2) : k + 1 <= Len(q) => k + 1 \in 1..Len(q) /\ q2[k] = q[k + 1]
  BY MovedPlaces
<1>4. \A k \in 1..Len(q) : k # 1 => k > 1
  BY <1>1
<1>5. \A k \in 1..Len(q2) : k + 1 <= Len(q) \/ k + 1 > Len(q)
  BY <1>1
<1> QED
  BY <1>1, <1>2, <1>3, <1>4, <1>5

\* A write of i is done.
LEMMA PutStands ==
  ASSUME NEW q, NEW q2, NEW r, NEW r2, NEW w, NEW i, Moved(q, q2, 1), 1 \in 1..Len(q),
         q[1].id = i, q[1].op = "put", r2 = q[1].status, r2 # "none",
         \A k \in 1..Len(q2) : k + 1 > Len(q) => ~ IsWrite(q2[k], i),
         Stands(q, r, w, i)
  PROVE  Stands(q2, r2, w, i)
<1>1. Written(q2, r2, i) /\ Found(q2, r2, i)
  BY DEF Written, Found
<1>2. /\ Len(q) \in Nat /\ Len(q2) \in Nat
      /\ \A k \in 1..Len(q) : k # 1 => k - 1 \in 1..Len(q2) /\ q2[k - 1] = q[k]
      /\ \A j \in 1..Len(q2) : IsWrite(q2[j], i) => j + 1 \in 1..Len(q) /\ q2[j] = q[j + 1]
  BY FirstTaken
<1>3. ASSUME w = "sent" PROVE Settling(q2, r2, i)
  <2>1. Settling(q, r, i) /\ IsWrite(q[1], i)
    BY <1>3 DEF Stands, IsWrite
  <2>2. CASE UpdateLeft(q, i)
    <3>1. PICK k \in 1..Len(q) :
            /\ q[k].id = i /\ q[k].op = "update" /\ q[k].status = "sent"
            /\ \A j \in 1..Len(q) : j > k /\ IsWrite(q[j], i) => q[j].op = "put"
      BY <2>2 DEF UpdateLeft
    <3>2. k # 1 /\ k - 1 \in 1..Len(q2) /\ q2[k - 1] = q[k]
      BY <1>2, <3>1
    <3>3. ASSUME NEW j \in 1..Len(q2), j > k - 1, IsWrite(q2[j], i) PROVE q2[j].op = "put"
      <4>1. j + 1 \in 1..Len(q) /\ q2[j] = q[j + 1]
        BY <1>2, <3>3
      <4>2. j + 1 > k
        BY <1>2, <3>3
      <4> QED
        BY <3>1, <3>3, <4>1, <4>2
    <3>4. UpdateLeft(q2, i)
      BY <3>1, <3>2, <3>3 DEF UpdateLeft
    <3> QED
      BY <3>4 DEF Settling
  <2>3. CASE PutLeft(q, i)
    <3>1. PICK k \in 1..Len(q) :
            /\ q[k].id = i /\ q[k].op = "put" /\ q[k].status = "sent"
            /\ \A j \in 1..Len(q) : IsWrite(q[j], i) => j <= k /\ q[j].op = "put"
      BY <2>3 DEF PutLeft
    <3>2. \A j \in 1..Len(q2) : IsWrite(q2[j], i) => j + 1 <= k /\ q2[j].op = "put"
      BY <1>2, <3>1
    <3>3. CASE k = 1
      <4>1. \A j \in 1..Len(q2) : ~ (j + 1 <= 1)
        BY <1>2
      <4>2. NothingLeft(q2, i) /\ r2 = "sent"
        BY <3>1, <3>2, <3>3, <4>1 DEF NothingLeft
      <4> QED
        BY <4>2 DEF Settling
    <3>4. CASE k # 1
      <4>1. k - 1 \in 1..Len(q2) /\ q2[k - 1] = q[k]
        BY <1>2, <3>4
      <4>2. \A j \in 1..Len(q2) : j + 1 <= k => j <= k - 1
        BY <1>2
      <4>3. PutLeft(q2, i)
        BY <3>1, <3>2, <4>1, <4>2 DEF PutLeft
      <4> QED
        BY <4>3 DEF Settling
    <3> QED
      BY <3>3, <3>4
  <2>4. CASE NothingLeft(q, i)
    BY <2>1, <2>4 DEF NothingLeft
  <2> QED
    BY <2>1, <2>2, <2>3, <2>4 DEF Settling
<1> QED
  BY <1>1, <1>3 DEF Stands

\* An update of i has found its record, and writes it at the end of the queue.
LEMMA UpdateStands ==
  ASSUME NEW q, NEW q2, NEW r, NEW w, NEW i, Moved(q, q2, 1), 1 \in 1..Len(q),
         q[1].id = i, q[1].op = "update", r # "none", Len(q2) = Len(q),
         q2[Len(q)].id = i, q2[Len(q)].op = "put", q2[Len(q)].status = q[1].status,
         Stands(q, r, w, i)
  PROVE  Stands(q2, r, w, i)
<1>1. Written(q2, r, i) /\ Found(q2, r, i)
  BY DEF Written, Found
<1>2. /\ Len(q) \in Nat /\ Len(q) \in 1..Len(q2)
      /\ \A k \in 1..Len(q) : k # 1 => k - 1 \in 1..Len(q2) /\ q2[k - 1] = q[k]
      /\ \A j \in 1..Len(q2) : (j + 1 \in 1..Len(q) /\ q2[j] = q[j + 1]) \/ j = Len(q)
  <2>1. /\ Len(q) \in Nat
        /\ \A k \in 1..Len(q) : k # 1 => k - 1 \in 1..Len(q2) /\ q2[k - 1] = q[k]
        /\ \A j \in 1..Len(q2) :
             (j + 1 \in 1..Len(q) /\ q2[j] = q[j + 1]) \/ j + 1 > Len(q)
    BY FirstTaken
  <2>2. \A j \in 1..Len(q2) : j + 1 > Len(q) => j = Len(q)
    BY <2>1
  <2> QED
    BY <2>1, <2>2
<1>3. ASSUME w = "sent" PROVE Settling(q2, r, i)
  <2>1. Settling(q, r, i) /\ IsWrite(q[1], i) /\ q[1].op # "put"
    BY <1>3 DEF Stands, IsWrite
  <2>2. PICK k \in 1..Len(q) :
          /\ q[k].id = i /\ q[k].op = "update" /\ q[k].status = "sent"
          /\ \A j \in 1..Len(q) : j > k /\ IsWrite(q[j], i) => q[j].op = "put"
    BY <2>1 DEF Settling, UpdateLeft, PutLeft, NothingLeft
  <2>3. CASE k = 1
    <3>1. ASSUME NEW j \in 1..Len(q2), IsWrite(q2[j], i) PROVE j <= Len(q) /\ q2[j].op = "put"
      <4>1. CASE j + 1 \in 1..Len(q) /\ q2[j] = q[j + 1]
        <5>1. j + 1 > 1
          BY <1>2
        <5> QED
          BY <1>2, <2>2, <2>3, <3>1, <4>1, <5>1
      <4> QED
        BY <1>2, <4>1
    <3>2. PutLeft(q2, i)
      BY <1>2, <2>2, <2>3, <3>1 DEF PutLeft
    <3> QED
      BY <3>2 DEF Settling
  <2>4. CASE k # 1
    <3>1. k - 1 \in 1..Len(q2) /\ q2[k - 1] = q[k]
      BY <1>2, <2>4
    <3>2. ASSUME NEW j \in 1..Len(q2), j > k - 1, IsWrite(q2[j], i) PROVE q2[j].op = "put"
      <4>1. CASE j + 1 \in 1..Len(q) /\ q2[j] = q[j + 1]
        <5>1. j + 1 > k
          BY <1>2, <3>2
        <5> QED
          BY <2>2, <3>2, <4>1, <5>1
      <4> QED
        BY <1>2, <4>1
    <3>3. UpdateLeft(q2, i)
      BY <2>2, <3>1, <3>2 DEF UpdateLeft
    <3> QED
      BY <3>3 DEF Settling
  <2> QED
    BY <2>3, <2>4
<1> QED
  BY <1>1, <1>3 DEF Stands

LEMMA OpTyped ==
  ASSUME NEW op \in {"put", "update", "load"}, NEW i \in History!Ids,
         NEW s \in History!Statuses \ {"none"}
  PROVE  /\ History!Op(op, i, s) \in QueueOps /\ History!Op(op, i, s).op = op
         /\ History!Op(op, i, s).id = i /\ History!Op(op, i, s).status = s
<1>1. History!Op(op, i, s) = [op |-> op, id |-> i, status |-> s]
  BY DEF History!Op
<1> QED
  BY <1>1, SMT DEF QueueOps

\* Ids of payments sent.
LEMMA PayerIds ==
  /\ \A i \in Payers : i \in History!Ids /\ i \notin Inbound
  /\ \A i \in History!Ids : i \notin Inbound => i \in Payers
BY DEF Payers, History!Ids

\* LDK accepts a payment, and its record is on its way.
LEMMA BeginsKeep ==
  ASSUME HistInv, NEW id \in History!Ids, History!Begin(id) PROVE HistInv'
<1> DEFINE o == History!Op("put", id, "pending")
<1>1. /\ id \in Outbound /\ hist_pay[id] = "idle" /\ hist_begun < MaxBegun
      /\ hist_begun' = hist_begun + 1
      /\ hist_pay' = [hist_pay EXCEPT ![id] = "inflight"]
      /\ hist_known' = [hist_known EXCEPT ![id] = "pending"]
      /\ hist_idb' = Append(hist_idb, o)
      /\ UNCHANGED <<hist_events, hist_rows, hist_shown, hist_failures, hist_excused>>
  BY DEF History!Begin, History!Began
<1>2. HistTypes /\ EventsMatch /\ BegunKnown /\ SentOver /\ RecordsStand
  BY DEF HistInv
<1>3. o \in QueueOps /\ o.op = "put" /\ o.id = id /\ o.status = "pending"
  <2>1. PICK op \in {"put", "update", "load"} : op = "put"
    OBVIOUS
  <2>2. PICK s \in History!Statuses \ {"none"} : s = "pending"
    BY DEF History!Statuses
  <2> QED
    BY <2>1, <2>2, OpTyped
<1> HIDE DEF o
<1>4. hist_idb \in Seq(QueueOps)
  BY <1>2 DEF HistTypes
<1>5. /\ Moved(hist_idb, hist_idb', 0) /\ Len(hist_idb') = Len(hist_idb) + 1
      /\ hist_idb'[Len(hist_idb) + 1] = o
  BY <1>1, <1>3, <1>4, AppendMoved
<1>6. HistTypes'
  <2>1. hist_idb' \in Seq(QueueOps)
    BY <1>5 DEF Moved
  <2>2. hist_begun' \in 0..MaxBegun
    BY <1>1, <1>2, PaymentBounds DEF HistTypes
  <2>3. "pending" \in History!Statuses
    BY DEF History!Statuses
  <2>4. /\ hist_pay' \in [History!Ids -> {"idle", "inflight", "settled"}]
        /\ hist_known' \in [History!Ids -> History!Statuses]
    BY <1>1, <1>2, <2>3 DEF HistTypes
  <2> QED
    BY <1>1, <1>2, <2>1, <2>2, <2>4 DEF HistTypes
<1>7. \A i \in History!Ids : /\ hist_pay'[i] = IF i = id THEN "inflight" ELSE hist_pay[i]
                             /\ hist_known'[i] = IF i = id THEN "pending" ELSE hist_known[i]
  BY <1>1, <1>2 DEF HistTypes
<1>8. EventsMatch'
  <2> SUFFICES ASSUME NEW k \in 1..Len(hist_events)
               PROVE  /\ hist_events[k][2] = "sent" =>
                           /\ hist_events[k][1] \notin Inbound
                           /\ hist_pay'[hist_events[k][1]] = "settled"
                           /\ \A j \in 1..Len(hist_events) :
                                j > k => hist_events[j][1] # hist_events[k][1]
                      /\ hist_events[k][1] \notin Inbound
                           => hist_known'[hist_events[k][1]] # "none"
    BY <1>1 DEF EventsMatch
  <2>1. hist_events[k] \in History!Ids \X History!Outcomes
    BY <1>2 DEF HistTypes
  <2>2. hist_events[k][1] \in History!Ids
    BY <2>1
  <2> QED
    BY <1>1, <1>2, <1>7, <2>2 DEF EventsMatch
<1>9. BegunKnown'
  BY <1>2, <1>7, PayerIds DEF BegunKnown
<1>10. SentOver'
  BY <1>1, <1>2, <1>7 DEF SentOver
<1>11. RecordsStand'
  <2> SUFFICES ASSUME NEW i \in Payers \ hist_excused
               PROVE  Stands(hist_idb', hist_rows[i], hist_known'[i], i)
    BY <1>1 DEF RecordsStand
  <2>1. Stands(hist_idb, hist_rows[i], hist_known[i], i) /\ i \in History!Ids
    BY <1>2, PayerIds DEF RecordsStand
  <2>2. \A k \in 1..Len(hist_idb') : k + 0 > Len(hist_idb) => hist_idb'[k] = o
    BY <1>4, <1>5
  <2>3. CASE i # id
    <3>1. Quiet(hist_idb, hist_idb', 0, i)
      BY <1>3, <1>5, <2>2, <2>3 DEF Quiet, IsWrite
    <3> QED
      BY <1>7, <2>1, <2>3, <3>1, QuietStands
  <2>4. CASE i = id
    <3>1. Len(hist_idb) + 1 \in 1..Len(hist_idb')
      BY <1>4, <1>5
    <3>2. Written(hist_idb', hist_rows[i], i)
      BY <1>3, <1>5, <2>4, <3>1 DEF Written, HasPut
    <3>3. \A k \in 1..Len(hist_idb') :
            ~ (k + 0 > Len(hist_idb) /\ hist_idb'[k].id = i /\ hist_idb'[k].op = "update")
      BY <1>3, <2>2
    <3>4. Found(hist_idb', hist_rows[i], i)
      BY <1>5, <2>1, <3>3, FoundMoves DEF Stands
    <3>5. hist_known'[i] = "pending"
      BY <1>7, <2>1, <2>4
    <3> QED
      BY <3>2, <3>4, <3>5 DEF Stands
  <2> QED
    BY <2>3, <2>4
<1> QED
  BY <1>6, <1>8, <1>9, <1>10, <1>11 DEF HistInv

LEMMA ClaimableKeeps ==
  ASSUME HistInv, NEW id \in History!Ids, History!Claimable(id) PROVE HistInv'
<1>1. /\ id \in Inbound /\ hist_pay' = [hist_pay EXCEPT ![id] = "inflight"]
      /\ UNCHANGED <<hist_begun, hist_events, hist_known, hist_rows, hist_shown, hist_idb,
                     hist_failures, hist_excused>>
  BY DEF History!Claimable
<1>2. HistTypes /\ EventsMatch /\ BegunKnown /\ SentOver /\ RecordsStand
  BY DEF HistInv
<1>3. HistTypes'
  BY <1>1, <1>2 DEF HistTypes
<1>4. \A i \in History!Ids : i \notin Inbound => hist_pay'[i] = hist_pay[i]
  BY <1>1, <1>2 DEF HistTypes
<1>5. EventsMatch'
  <2>1. \A k \in 1..Len(hist_events) : hist_events[k][1] \in History!Ids
    <3>1. \A k \in 1..Len(hist_events) : hist_events[k] \in History!Ids \X History!Outcomes
      BY <1>2 DEF HistTypes
    <3> QED
      BY <3>1
  <2> QED
    BY <1>1, <1>2, <1>4, <2>1 DEF EventsMatch
<1>6. BegunKnown' /\ SentOver'
  BY <1>1, <1>2, <1>4, PayerIds DEF BegunKnown, SentOver
<1>7. RecordsStand'
  BY <1>1, <1>2 DEF RecordsStand
<1> QED
  BY <1>3, <1>5, <1>6, <1>7 DEF HistInv

LEMMA EventTyped ==
  ASSUME NEW q \in Seq(History!Ids \X History!Outcomes)
  PROVE  /\ Len(q) \in Nat
         /\ \A k \in 1..Len(q) : q[k][1] \in History!Ids /\ q[k][2] \in History!Outcomes
<1>1. \A k \in 1..Len(q) : q[k] \in History!Ids \X History!Outcomes
  OBVIOUS
<1> QED
  BY <1>1

\* LDK has the outcome of a payment.
LEMMA SettlesKeep ==
  ASSUME HistInv, NEW id \in History!Ids, NEW out \in History!Outcomes,
         History!Settles(id, out)
  PROVE  HistInv'
<1> DEFINE e == <<id, out>>
<1>1. /\ hist_pay[id] = "inflight" /\ (out = "claimed") = (id \in Inbound)
      /\ hist_pay' = [hist_pay EXCEPT ![id] = IF out = "failed" THEN "idle" ELSE "settled"]
      /\ hist_events' = Append(hist_events, e)
      /\ UNCHANGED <<hist_begun, hist_known, hist_rows, hist_shown, hist_idb, hist_failures,
                     hist_excused>>
  BY DEF History!Settles
<1>2. HistTypes /\ EventsMatch /\ BegunKnown /\ SentOver /\ RecordsStand
  BY DEF HistInv
<1>3. e \in History!Ids \X History!Outcomes /\ e[1] = id /\ e[2] = out
  OBVIOUS
<1> HIDE DEF e
<1>4. hist_events \in Seq(History!Ids \X History!Outcomes)
  BY <1>2 DEF HistTypes
<1>5. /\ hist_events' \in Seq(History!Ids \X History!Outcomes)
      /\ Len(hist_events) \in Nat /\ Len(hist_events') = Len(hist_events) + 1
      /\ \A k \in 1..Len(hist_events) : hist_events'[k] = hist_events[k]
      /\ hist_events'[Len(hist_events) + 1] = e
  BY <1>1, <1>3, <1>4
<1>6. \A k \in 1..Len(hist_events') : k \in 1..Len(hist_events) \/ k = Len(hist_events) + 1
  BY <1>5
<1>7. HistTypes'
  BY <1>1, <1>2, <1>5 DEF HistTypes
<1>8. \A i \in History!Ids : hist_pay'[i] = IF i # id THEN hist_pay[i]
                                ELSE IF out = "failed" THEN "idle" ELSE "settled"
  BY <1>1, <1>2 DEF HistTypes
<1>9. id \notin Inbound => hist_known[id] # "none"
  BY <1>1, <1>2, PayerIds DEF BegunKnown
<1>10. EventsMatch'
  <2> SUFFICES ASSUME NEW k \in 1..Len(hist_events')
               PROVE  /\ hist_events'[k][2] = "sent" =>
                           /\ hist_events'[k][1] \notin Inbound
                           /\ hist_pay'[hist_events'[k][1]] = "settled"
                           /\ \A j \in 1..Len(hist_events') :
                                j > k => hist_events'[j][1] # hist_events'[k][1]
                      /\ hist_events'[k][1] \notin Inbound
                           => hist_known'[hist_events'[k][1]] # "none"
    BY DEF EventsMatch
  <2>1. CASE k \in 1..Len(hist_events)
    <3> DEFINE i == hist_events[k][1]
    <3>1. hist_events'[k] = hist_events[k] /\ i \in History!Ids
      BY <1>4, <1>5, <2>1, EventTyped
    <3>2. i \notin Inbound => hist_known[i] # "none"
      BY <1>2, <2>1 DEF EventsMatch
    <3>3. ASSUME hist_events[k][2] = "sent"
          PROVE  /\ i \notin Inbound /\ hist_pay'[i] = "settled"
                 /\ \A j \in 1..Len(hist_events') : j > k => hist_events'[j][1] # i
      <4>1. /\ i \notin Inbound /\ hist_pay[i] = "settled"
            /\ \A j \in 1..Len(hist_events) : j > k => hist_events[j][1] # i
        BY <1>2, <2>1, <3>3 DEF EventsMatch
      <4>2. i # id
        BY <1>1, <4>1
      <4>3. hist_pay'[i] = "settled"
        BY <1>8, <3>1, <4>1, <4>2
      <4>4. \A j \in 1..Len(hist_events') : j > k => hist_events'[j][1] # i
        BY <1>3, <1>5, <1>6, <4>1, <4>2
      <4> QED
        BY <4>1, <4>3, <4>4
    <3> QED
      BY <1>1, <3>1, <3>2, <3>3
  <2>2. CASE k = Len(hist_events) + 1
    <3>1. hist_events'[k] = e
      BY <1>5, <2>2
    <3>2. \A j \in 1..Len(hist_events') : ~ (j > k)
      BY <1>5, <2>2
    <3>3. out = "sent" => id \notin Inbound /\ hist_pay'[id] = "settled"
      BY <1>1, <1>8
    <3> QED
      BY <1>1, <1>3, <1>9, <3>1, <3>2, <3>3
  <2> QED
    BY <1>6, <2>1, <2>2
<1>11. BegunKnown'
  BY <1>1, <1>2, <1>8, <1>9, PayerIds DEF BegunKnown
<1>12. SentOver'
  <2> SUFFICES ASSUME NEW i \in History!Ids, hist_known[i] = "sent"
               PROVE  /\ i \notin Inbound /\ hist_pay'[i] = "settled"
                      /\ \A k \in 1..Len(hist_events') : hist_events'[k][1] # i
    BY <1>1 DEF SentOver
  <2>1. /\ i \notin Inbound /\ hist_pay[i] = "settled"
        /\ \A k \in 1..Len(hist_events) : hist_events[k][1] # i
    BY <1>2 DEF SentOver
  <2>2. i # id /\ hist_pay'[i] = "settled"
    BY <1>1, <1>8, <2>1
  <2>3. \A k \in 1..Len(hist_events') : hist_events'[k][1] # i
    BY <1>3, <1>5, <1>6, <2>1, <2>2
  <2> QED
    BY <2>1, <2>2, <2>3
<1>13. RecordsStand'
  BY <1>1, <1>2 DEF RecordsStand
<1> QED
  BY <1>7, <1>10, <1>11, <1>12, <1>13 DEF HistInv

\* The callback takes an event, and asks for the write of its outcome.
LEMMA OutcomesKeep ==
  ASSUME HistInv, History!HandleEvent PROVE HistInv'
<1> DEFINE id == Head(hist_events)[1]  out == Head(hist_events)[2]
           x == History!Op(IF id \in Inbound THEN "put" ELSE "update", id, out)
           y == History!Op("load", id, out)
<1>1. /\ hist_events # <<>> /\ hist_events' = Tail(hist_events)
      /\ hist_known' = [hist_known EXCEPT ![id] = out]
      /\ hist_idb' = hist_idb \o <<x, y>>
      /\ UNCHANGED <<hist_begun, hist_pay, hist_rows, hist_shown, hist_failures, hist_excused>>
  BY DEF History!HandleEvent
<1>2. HistTypes /\ EventsMatch /\ BegunKnown /\ SentOver /\ RecordsStand
  BY DEF HistInv
<1>3. hist_events \in Seq(History!Ids \X History!Outcomes) /\ hist_idb \in Seq(QueueOps)
  BY <1>2 DEF HistTypes
<1>4. /\ Head(hist_events) = hist_events[1] /\ 1 \in 1..Len(hist_events)
      /\ Tail(hist_events) \in Seq(History!Ids \X History!Outcomes)
      /\ Len(hist_events) \in Nat /\ Len(Tail(hist_events)) = Len(hist_events) - 1
      /\ \A k \in 1..Len(Tail(hist_events)) : Tail(hist_events)[k] = hist_events[k + 1]
  BY <1>1, <1>3
<1>5. id = hist_events[1][1] /\ out = hist_events[1][2]
      /\ id \in History!Ids /\ out \in History!Outcomes
  BY <1>3, <1>4, EventTyped
<1>6. out \in History!Statuses \ {"none"}
  BY <1>5 DEF History!Outcomes, History!Statuses
<1>7. \A k \in 1..Len(hist_events') : k + 1 \in 1..Len(hist_events)
                                      /\ k + 1 > 1 /\ hist_events'[k] = hist_events[k + 1]
  BY <1>1, <1>4
<1>8. /\ x \in QueueOps /\ x.op = (IF id \in Inbound THEN "put" ELSE "update")
      /\ x.id = id /\ x.status = out
  <2>1. PICK op \in {"put", "update", "load"} :
          op = IF id \in Inbound THEN "put" ELSE "update"
    OBVIOUS
  <2> HIDE DEF id, out
  <2> QED
    BY <1>5, <1>6, <2>1, OpTyped
<1>9. y \in QueueOps /\ y.op = "load" /\ y.id = id /\ y.status = out
  <2>1. PICK op \in {"put", "update", "load"} : op = "load"
    OBVIOUS
  <2> HIDE DEF id, out
  <2> QED
    BY <1>5, <1>6, <2>1, OpTyped
<1> HIDE DEF id, out, x, y
<1>10. /\ Moved(hist_idb, hist_idb', 0) /\ Len(hist_idb') = Len(hist_idb) + 2
       /\ hist_idb'[Len(hist_idb) + 1] = x /\ hist_idb'[Len(hist_idb) + 2] = y
       /\ Len(hist_idb) \in Nat
  BY <1>1, <1>3, <1>8, <1>9, TwoMoved
<1>11. \A i \in History!Ids : hist_known'[i] = IF i = id THEN out ELSE hist_known[i]
  BY <1>1, <1>2 DEF HistTypes
<1>12. HistTypes'
  <2>1. hist_idb' \in Seq(QueueOps)
    BY <1>10 DEF Moved
  <2>2. hist_known' \in [History!Ids -> History!Statuses]
    BY <1>1, <1>2, <1>6 DEF HistTypes
  <2> QED
    BY <1>1, <1>2, <1>4, <2>1, <2>2 DEF HistTypes
<1>13. EventsMatch'
  <2> SUFFICES ASSUME NEW k \in 1..Len(hist_events')
               PROVE  /\ hist_events'[k][2] = "sent" =>
                           /\ hist_events'[k][1] \notin Inbound
                           /\ hist_pay'[hist_events'[k][1]] = "settled"
                           /\ \A j \in 1..Len(hist_events') :
                                j > k => hist_events'[j][1] # hist_events'[k][1]
                      /\ hist_events'[k][1] \notin Inbound
                           => hist_known'[hist_events'[k][1]] # "none"
    BY DEF EventsMatch
  <2> DEFINE i == hist_events[k + 1][1]
  <2>1. /\ k + 1 \in 1..Len(hist_events) /\ hist_events'[k] = hist_events[k + 1]
        /\ i \in History!Ids
    BY <1>3, <1>7, EventTyped
  <2>2. i \notin Inbound => hist_known[i] # "none"
    BY <1>2, <2>1 DEF EventsMatch
  <2>3. i \notin Inbound => hist_known'[i] # "none"
    BY <1>6, <1>11, <2>1, <2>2
  <2>4. ASSUME hist_events[k + 1][2] = "sent"
        PROVE  /\ i \notin Inbound /\ hist_pay[i] = "settled"
               /\ \A j \in 1..Len(hist_events') : j > k => hist_events'[j][1] # i
    <3>1. /\ i \notin Inbound /\ hist_pay[i] = "settled"
          /\ \A j \in 1..Len(hist_events) : j > k + 1 => hist_events[j][1] # i
      BY <1>2, <2>1, <2>4 DEF EventsMatch
    <3>2. ASSUME NEW j \in 1..Len(hist_events'), j > k PROVE hist_events'[j][1] # i
      <4>1. j + 1 \in 1..Len(hist_events) /\ hist_events'[j] = hist_events[j + 1]
        BY <1>7
      <4>2. j + 1 > k + 1
        BY <1>1, <1>4, <3>2
      <4> QED
        BY <3>1, <4>1, <4>2
    <3> QED
      BY <3>1, <3>2
  <2> QED
    BY <1>1, <2>1, <2>3, <2>4
<1>14. BegunKnown'
  BY <1>1, <1>2, <1>6, <1>11, PayerIds DEF BegunKnown
<1>15. SentOver'
  <2> SUFFICES ASSUME NEW i \in History!Ids, hist_known'[i] = "sent"
               PROVE  /\ i \notin Inbound /\ hist_pay[i] = "settled"
                      /\ \A k \in 1..Len(hist_events') : hist_events'[k][1] # i
    BY <1>1 DEF SentOver
  <2>1. CASE i = id
    <3>1. hist_events[1][2] = "sent" /\ i = hist_events[1][1]
      BY <1>5, <1>11, <2>1
    <3> QED
      BY <1>2, <1>4, <1>7, <3>1 DEF EventsMatch
  <2>2. CASE i # id
    <3>1. hist_known[i] = "sent"
      BY <1>11, <2>2
    <3> QED
      BY <1>2, <1>7, <3>1 DEF SentOver
  <2> QED
    BY <2>1, <2>2
<1>16. RecordsStand'
  <2> SUFFICES ASSUME NEW i \in Payers \ hist_excused
               PROVE  Stands(hist_idb', hist_rows[i], hist_known'[i], i)
    BY <1>1 DEF RecordsStand
  <2>1. Stands(hist_idb, hist_rows[i], hist_known[i], i) /\ i \in History!Ids /\ i \notin Inbound
    BY <1>2, PayerIds DEF RecordsStand
  <2>2. \A k \in 1..Len(hist_idb') :
          k + 0 > Len(hist_idb) => k = Len(hist_idb) + 1 \/ k = Len(hist_idb) + 2
    BY <1>10
  <2>3. CASE i # id
    <3>1. Quiet(hist_idb, hist_idb', 0, i)
      BY <1>8, <1>9, <1>10, <2>2, <2>3 DEF Quiet, IsWrite
    <3>2. hist_known'[i] = hist_known[i]
      BY <1>11, <2>1, <2>3
    <3> QED
      BY <2>1, <3>1, <3>2, QuietStands
  <2>4. CASE i = id
    <3> DEFINE q == hist_idb  q2 == hist_idb'  r == hist_rows[i]
    <3>1. hist_known[i] # "none"
      BY <1>2, <1>4, <1>5, <2>1, <2>4 DEF EventsMatch
    <3>2. Written(q, r, i)
      BY <2>1, <3>1 DEF Stands
    <3>3. Written(q2, r, i)
      BY <1>10, <3>2, WrittenMoves
    <3>4. Found(q2, r, i)
      BY <1>10, <2>1, <3>2, FoundMoves DEF Stands
    <3>5. ASSUME out = "sent" PROVE Settling(q2, r, i)
      <4>1. Len(q) + 1 \in 1..Len(q2)
        BY <1>10
      <4>2. x.op = "update" /\ x.id = i /\ x.status = "sent"
        BY <1>8, <2>1, <2>4, <3>5
      <4>3. ASSUME NEW j \in 1..Len(q2), j > Len(q) + 1, IsWrite(q2[j], i)
            PROVE  q2[j].op = "put"
        <5>1. j = Len(q) + 2
          BY <1>10, <4>3
        <5> QED
          BY <1>9, <1>10, <4>3, <5>1 DEF IsWrite
      <4>4. UpdateLeft(q2, i)
        BY <1>10, <4>1, <4>2, <4>3 DEF UpdateLeft
      <4> QED
        BY <4>4 DEF Settling
    <3>6. hist_known'[i] = out
      BY <1>11, <2>1, <2>4
    <3> QED
      BY <3>3, <3>4, <3>5, <3>6 DEF Stands
  <2> QED
    BY <2>3, <2>4
<1> QED
  BY <1>12, <1>13, <1>14, <1>15, <1>16 DEF HistInv

\* What an operation of the store has to keep.
LEMMA StoreKeeps ==
  ASSUME HistInv, UNCHANGED <<hist_begun, hist_pay, hist_events, hist_known>>,
         hist_rows' \in [History!Ids -> History!Statuses],
         hist_shown' \in [History!Ids -> History!Statuses],
         hist_idb' \in Seq(QueueOps), hist_failures' \in 0..MaxFailures,
         hist_excused' \in SUBSET History!Ids, hist_excused \subseteq hist_excused',
         \A i \in Payers \ hist_excused' :
           Stands(hist_idb, hist_rows[i], hist_known[i], i)
             => Stands(hist_idb', hist_rows'[i], hist_known[i], i)
  PROVE  HistInv'
<1>1. HistTypes' /\ EventsMatch' /\ BegunKnown' /\ SentOver'
  BY DEF HistInv, HistTypes, EventsMatch, BegunKnown, SentOver
<1>2. RecordsStand'
  BY DEF HistInv, RecordsStand
<1> QED
  BY <1>1, <1>2 DEF HistInv

LEMMA LoadKeeps ==
  ASSUME HistInv, History!RunLoad PROVE HistInv'
<1>1. /\ hist_idb # <<>> /\ Head(hist_idb).op = "load"
      /\ hist_shown' = hist_rows /\ hist_idb' = Tail(hist_idb)
      /\ UNCHANGED <<hist_begun, hist_pay, hist_events, hist_known, hist_rows, hist_failures,
                     hist_excused>>
  BY DEF History!RunLoad
<1>2. HistTypes
  BY DEF HistInv
<1>3. /\ Head(hist_idb) = hist_idb[1] /\ Moved(hist_idb, hist_idb', 1)
      /\ Len(hist_idb') + 1 = Len(hist_idb) /\ Len(hist_idb) \in Nat
  BY <1>1, <1>2, TailMoved DEF HistTypes
<1>4. hist_idb' \in Seq(QueueOps)
  BY <1>3 DEF Moved
<1>5. ASSUME NEW i \in Payers \ hist_excused',
             Stands(hist_idb, hist_rows[i], hist_known[i], i)
      PROVE  Stands(hist_idb', hist_rows'[i], hist_known[i], i)
  <2>1. \A k \in 1..Len(hist_idb') : ~ (k + 1 > Len(hist_idb))
    BY <1>3
  <2>2. Quiet(hist_idb, hist_idb', 1, i)
    BY <1>1, <1>3, <2>1 DEF Quiet, IsWrite
  <2> QED
    BY <1>1, <1>5, <2>2, QuietStands
<1> QED
  BY <1>1, <1>2, <1>4, <1>5, StoreKeeps DEF HistTypes

LEMMA PutFailsKeeps ==
  ASSUME HistInv, History!PutFails PROVE HistInv'
<1>1. /\ hist_idb # <<>> /\ hist_failures < MaxFailures
      /\ hist_failures' = hist_failures + 1
      /\ hist_excused' = hist_excused \cup {Head(hist_idb).id}
      /\ hist_idb' = Tail(hist_idb)
      /\ UNCHANGED <<hist_begun, hist_pay, hist_events, hist_known, hist_rows, hist_shown>>
  BY DEF History!PutFails
<1>2. HistTypes
  BY DEF HistInv
<1>3. /\ Head(hist_idb) = hist_idb[1] /\ hist_idb[1] \in QueueOps
      /\ Moved(hist_idb, hist_idb', 1)
      /\ Len(hist_idb') + 1 = Len(hist_idb) /\ Len(hist_idb) \in Nat
  BY <1>1, <1>2, TailMoved DEF HistTypes
<1>4. hist_idb' \in Seq(QueueOps) /\ hist_idb[1].id \in History!Ids
  <2>1. hist_idb[1].id \in History!Ids
    BY <1>3, SMT DEF QueueOps
  <2> QED
    BY <1>3, <2>1 DEF Moved
<1>5. ASSUME NEW i \in Payers \ hist_excused',
             Stands(hist_idb, hist_rows[i], hist_known[i], i)
      PROVE  Stands(hist_idb', hist_rows'[i], hist_known[i], i)
  <2>1. \A k \in 1..Len(hist_idb') : ~ (k + 1 > Len(hist_idb))
    BY <1>3
  <2>2. Quiet(hist_idb, hist_idb', 1, i)
    BY <1>1, <1>3, <2>1 DEF Quiet, IsWrite
  <2> QED
    BY <1>1, <1>5, <2>2, QuietStands
<1>6. hist_failures' \in 0..MaxFailures
  BY <1>1, <1>2, PaymentBounds DEF HistTypes
<1>7. hist_excused' \in SUBSET History!Ids /\ hist_excused \subseteq hist_excused'
  BY <1>1, <1>2, <1>3, <1>4 DEF HistTypes
<1> QED
  BY <1>1, <1>2, <1>4, <1>5, <1>6, <1>7, StoreKeeps DEF HistTypes

LEMMA RunPutKeeps ==
  ASSUME HistInv, History!RunPut PROVE HistInv'
<1> DEFINE o == Head(hist_idb)
<1>1. /\ hist_idb # <<>> /\ o.op = "put"
      /\ hist_rows' = [hist_rows EXCEPT ![o.id] = o.status]
      /\ hist_idb' = IF o.status = "pending" THEN Append(Tail(hist_idb), [o EXCEPT !.op = "load"])
                     ELSE Tail(hist_idb)
      /\ UNCHANGED <<hist_begun, hist_pay, hist_events, hist_known, hist_shown, hist_failures,
                     hist_excused>>
  BY DEF History!RunPut
<1>2. HistTypes
  BY DEF HistInv
<1>3. /\ o = hist_idb[1] /\ o \in QueueOps /\ hist_idb \in Seq(QueueOps)
      /\ Len(hist_idb) \in Nat /\ 1 \in 1..Len(hist_idb)
  BY <1>1, <1>2, TailMoved DEF HistTypes
<1> HIDE DEF o
<1>4. o.id \in History!Ids /\ o.status \in History!Statuses \ {"none"}
  BY <1>3, SMT DEF QueueOps
<1>5. /\ Moved(hist_idb, hist_idb', 1)
      /\ \A k \in 1..Len(hist_idb') : k + 1 > Len(hist_idb) => hist_idb'[k].op = "load"
  <2>1. CASE o.status = "pending"
    <3> DEFINE x == [o EXCEPT !.op = "load"]
    <3>1. x \in QueueOps /\ x.op = "load"
      BY <1>3, SMT DEF QueueOps
    <3> HIDE DEF x
    <3>2. hist_idb' = Append(Tail(hist_idb), x)
      BY <1>1, <2>1 DEF x
    <3>3. /\ Moved(hist_idb, hist_idb', 1) /\ Len(hist_idb') = Len(hist_idb)
          /\ hist_idb'[Len(hist_idb)] = x
      BY <1>1, <1>3, <3>1, <3>2, TurnMoved
    <3>4. \A k \in 1..Len(hist_idb') : k + 1 > Len(hist_idb) => k = Len(hist_idb)
      BY <1>3, <3>3
    <3> QED
      BY <3>1, <3>3, <3>4
  <2>2. CASE o.status # "pending"
    <3>1. Moved(hist_idb, hist_idb', 1) /\ Len(hist_idb') + 1 = Len(hist_idb)
      BY <1>1, <1>3, <2>2, TailMoved
    <3>2. \A k \in 1..Len(hist_idb') : ~ (k + 1 > Len(hist_idb))
      BY <1>3, <3>1
    <3> QED
      BY <3>1, <3>2
  <2> QED
    BY <2>1, <2>2
<1>6. hist_idb' \in Seq(QueueOps)
  BY <1>5 DEF Moved
<1>7. hist_rows' \in [History!Ids -> History!Statuses]
      /\ \A i \in History!Ids : hist_rows'[i] = IF i = o.id THEN o.status ELSE hist_rows[i]
  BY <1>1, <1>2, <1>4 DEF HistTypes
<1>8. ASSUME NEW i \in Payers \ hist_excused',
             Stands(hist_idb, hist_rows[i], hist_known[i], i)
      PROVE  Stands(hist_idb', hist_rows'[i], hist_known[i], i)
  <2>1. i \in History!Ids
    BY PayerIds
  <2>2. \A k \in 1..Len(hist_idb') : k + 1 > Len(hist_idb) => ~ IsWrite(hist_idb'[k], i)
    BY <1>5 DEF IsWrite
  <2>3. CASE i = o.id
    <3>1. hist_rows'[i] = o.status /\ o.status # "none"
      BY <1>4, <1>7, <2>1, <2>3
    <3>2. hist_idb[1].id = i /\ hist_idb[1].op = "put" /\ hist_idb[1].status = o.status
      BY <1>1, <1>3, <2>3
    <3>3. Stands(hist_idb', o.status, hist_known[i], i)
      BY <1>3, <1>5, <1>8, <2>2, <3>1, <3>2, PutStands
    <3> QED
      BY <3>1, <3>3
  <2>4. CASE i # o.id
    <3>1. Quiet(hist_idb, hist_idb', 1, i)
      BY <1>3, <1>5, <2>2, <2>4 DEF Quiet, IsWrite
    <3>2. hist_rows'[i] = hist_rows[i]
      BY <1>7, <2>1, <2>4
    <3> QED
      BY <1>8, <3>1, <3>2, QuietStands
  <2> QED
    BY <2>3, <2>4
<1> QED
  BY <1>1, <1>2, <1>6, <1>7, <1>8, StoreKeeps DEF HistTypes

LEMMA RunUpdateKeeps ==
  ASSUME HistInv, History!RunUpdate PROVE HistInv'
<1> DEFINE o == Head(hist_idb)  x == [o EXCEPT !.op = "put"]
<1>1. /\ hist_idb # <<>> /\ o.op \in {"update", "upsert"}
      /\ hist_idb' = IF hist_rows[o.id] = "none" /\ o.op = "update" THEN Tail(hist_idb)
                     ELSE Append(Tail(hist_idb), x)
      /\ UNCHANGED <<hist_begun, hist_pay, hist_events, hist_known, hist_rows, hist_shown,
                     hist_failures, hist_excused>>
  BY DEF History!RunUpdate
<1>2. HistTypes
  BY DEF HistInv
<1>3. /\ o = hist_idb[1] /\ o \in QueueOps /\ hist_idb \in Seq(QueueOps)
      /\ Len(hist_idb) \in Nat /\ 1 \in 1..Len(hist_idb)
  BY <1>1, <1>2, TailMoved DEF HistTypes
<1>4. /\ x \in QueueOps /\ x.op = "put" /\ x.id = o.id /\ x.status = o.status
      /\ o.id \in History!Ids
  <2> HIDE DEF o
  <2> QED
    BY <1>3, SMT DEF QueueOps
<1>5. o.op = "update"
  <2> HIDE DEF o
  <2>1. o.op \in {"put", "update", "load"}
    BY <1>3, SMT DEF QueueOps
  <2> QED
    BY <1>1, <2>1
<1> HIDE DEF o, x
<1>6. CASE hist_rows[o.id] # "none"
  <2>1. hist_idb' = Append(Tail(hist_idb), x)
    BY <1>1, <1>6
  <2>2. /\ Moved(hist_idb, hist_idb', 1) /\ Len(hist_idb') = Len(hist_idb)
        /\ hist_idb'[Len(hist_idb)] = x
    BY <1>1, <1>3, <1>4, <2>1, TurnMoved
  <2>3. ASSUME NEW i \in Payers \ hist_excused',
               Stands(hist_idb, hist_rows[i], hist_known[i], i)
        PROVE  Stands(hist_idb', hist_rows'[i], hist_known[i], i)
    <3>1. CASE i = o.id
      BY <1>1, <1>3, <1>4, <1>5, <1>6, <2>2, <2>3, <3>1, UpdateStands
    <3>2. CASE i # o.id
      <4>1. \A k \in 1..Len(hist_idb') : k + 1 > Len(hist_idb) => k = Len(hist_idb)
        BY <1>3, <2>2
      <4>2. Quiet(hist_idb, hist_idb', 1, i)
        BY <1>3, <1>4, <2>2, <3>2, <4>1 DEF Quiet, IsWrite
      <4> QED
        BY <1>1, <2>3, <4>2, QuietStands
    <3> QED
      BY <3>1, <3>2
  <2>4. hist_idb' \in Seq(QueueOps)
    BY <2>2 DEF Moved
  <2> QED
    BY <1>1, <1>2, <2>3, <2>4, StoreKeeps DEF HistTypes
<1>7. CASE hist_rows[o.id] = "none"
  <2>1. hist_idb' = Tail(hist_idb)
    BY <1>1, <1>5, <1>7
  <2>2. Moved(hist_idb, hist_idb', 1) /\ Len(hist_idb') + 1 = Len(hist_idb)
    BY <1>1, <1>3, <2>1, TailMoved
  <2>3. ASSUME NEW i \in Payers \ hist_excused',
               Stands(hist_idb, hist_rows[i], hist_known[i], i)
        PROVE  Stands(hist_idb', hist_rows'[i], hist_known[i], i)
    <3>1. i # o.id
      <4>1. SUFFICES ASSUME i = o.id PROVE FALSE
        OBVIOUS
      <4>2. \E j \in 1..Len(hist_idb) : j < 1
        BY <1>3, <1>5, <1>7, <2>3, <4>1 DEF Stands, Found
      <4> QED
        BY <1>3, <4>2
    <3>2. \A k \in 1..Len(hist_idb') : ~ (k + 1 > Len(hist_idb))
      BY <1>3, <2>2
    <3>3. Quiet(hist_idb, hist_idb', 1, i)
      BY <1>3, <2>2, <3>1, <3>2 DEF Quiet, IsWrite
    <3> QED
      BY <1>1, <2>3, <3>3, QuietStands
  <2>4. hist_idb' \in Seq(QueueOps)
    BY <2>2 DEF Moved
  <2> QED
    BY <1>1, <1>2, <2>3, <2>4, StoreKeeps DEF HistTypes
<1> QED
  BY <1>6, <1>7

LEMMA HistoryMoves ==
  ASSUME [SessionNext]_sessionVars PROVE [History!Next]_(History!vars)
<1>1. CASE UNCHANGED sessionVars
  BY <1>1 DEF sessionVars, histVars, History!vars
<1>2. CASE SessionNext
  <2>1. part # "history" => UNCHANGED histVars
    BY <1>2 DEF SessionNext, Rest
  <2>2. part = "history" => History!Next
    BY <1>2 DEF SessionNext
  <2> QED
    BY <2>1, <2>2 DEF histVars, History!vars
<1> QED
  BY <1>1, <1>2

LEMMA HistoryHolds ==
  /\ SessionInit => HistInv
  /\ HistInv /\ [SessionNext]_sessionVars => HistInv'
<1>1. SessionInit => HistInv
  <2> SUFFICES ASSUME History!Init PROVE HistInv
    BY DEF SessionInit
  <2>1. hist_idb = <<>> /\ hist_events = <<>> /\ Len(hist_idb) = 0 /\ Len(hist_events) = 0
    BY DEF History!Init
  <2>2. "none" \in History!Statuses
    BY DEF History!Statuses
  <2>3. HistTypes
    <3>1. hist_begun \in 0..MaxBegun /\ hist_failures \in 0..MaxFailures
      BY PaymentBounds DEF History!Init
    <3>2. /\ hist_known \in [History!Ids -> History!Statuses]
          /\ hist_rows \in [History!Ids -> History!Statuses]
          /\ hist_shown \in [History!Ids -> History!Statuses]
      BY <2>2 DEF History!Init, History!Nowhere
    <3>3. hist_pay \in [History!Ids -> {"idle", "inflight", "settled"}]
          /\ hist_excused \in SUBSET History!Ids
      BY DEF History!Init
    <3>4. hist_idb \in Seq(QueueOps) /\ hist_events \in Seq(History!Ids \X History!Outcomes)
      BY <2>1
    <3> QED
      BY <3>1, <3>2, <3>3, <3>4 DEF HistTypes
  <2>4. \A i \in History!Ids : hist_known[i] = "none" /\ hist_pay[i] = "idle"
    BY DEF History!Init, History!Nowhere
  <2>5. EventsMatch /\ BegunKnown /\ SentOver
    BY <2>1, <2>4, PayerIds DEF EventsMatch, BegunKnown, SentOver
  <2>6. RecordsStand
    BY <2>1, <2>4, PayerIds DEF RecordsStand, Stands, Found
  <2> QED
    BY <2>3, <2>5, <2>6 DEF HistInv
<1>2. HistInv /\ [SessionNext]_sessionVars => HistInv'
  <2> SUFFICES ASSUME HistInv, [History!Next]_(History!vars) PROVE HistInv'
    BY HistoryMoves
  <2>1. CASE \E id \in History!Ids :
               \/ History!Begin(id) \/ History!Claimable(id)
               \/ \E out \in History!Outcomes : History!Settles(id, out)
    BY <2>1, BeginsKeep, ClaimableKeeps, SettlesKeep
  <2>2. CASE History!HandleEvent
    BY <2>2, OutcomesKeep
  <2>3. CASE History!RunPut \/ History!PutFails \/ History!RunUpdate \/ History!RunLoad
    BY <2>3, RunPutKeeps, PutFailsKeeps, RunUpdateKeeps, LoadKeeps
  <2>4. CASE UNCHANGED History!vars
    BY <2>4 DEF History!vars, HistInv, HistTypes, EventsMatch, BegunKnown, SentOver,
       RecordsStand
  <2> QED
    BY <2>1, <2>2, <2>3, <2>4 DEF History!Next
<1> QED
  BY <1>1, <1>2

\* The record of a sent payment says so once its writes are done, whatever earlier
\* failures of the same invoice still write (payment-history.ts), for any payments.
THEOREM SentRecorded == SessionSpec => []SentIsRecorded
<1>1. HistInv => SentIsRecorded
  <2> SUFFICES ASSUME HistInv, NEW id \in Outbound, hist_known[id] = "sent",
                      id \notin hist_excused,
                      \A k \in DOMAIN hist_idb : hist_idb[k].id # id \/ hist_idb[k].op = "load"
               PROVE  hist_rows[id] = "sent"
    BY DEF SentIsRecorded, History!SentIsRecorded
  <2>1. HistTypes /\ SentOver /\ RecordsStand
    BY DEF HistInv
  <2>2. id \in Payers
    BY <2>1 DEF SentOver, Payers, History!Ids
  <2>3. Settling(hist_idb, hist_rows[id], id)
    BY <2>1, <2>2 DEF RecordsStand, Stands
  <2>4. DOMAIN hist_idb = 1..Len(hist_idb)
    BY <2>1 DEF HistTypes
  <2> QED
    BY <2>3, <2>4 DEF Settling, UpdateLeft, PutLeft
<1> QED
  BY <1>1, HistoryHolds, PTL DEF SessionSpec

LEMMA HistoryTyped == HistInv => History!TypeOK
<1> SUFFICES ASSUME HistInv PROVE History!TypeOK
  OBVIOUS
<1>1. HistTypes
  BY DEF HistInv
<1>2. QueueOps \subseteq History!Ops
  BY SMT DEF QueueOps, History!Ops
<1>3. hist_idb \in Seq(History!Ops)
  <2>1. /\ hist_idb \in Seq(QueueOps) /\ Len(hist_idb) \in Nat
        /\ DOMAIN hist_idb = 1..Len(hist_idb)
    BY <1>1 DEF HistTypes
  <2>2. \A k \in 1..Len(hist_idb) : hist_idb[k] \in History!Ops
    BY <1>2, <2>1
  <2>3. hist_idb = [k \in 1..Len(hist_idb) |-> hist_idb[k]]
    BY <2>1
  <2> QED
    BY <2>1, <2>2, <2>3
<1> QED
  BY <1>1, <1>3 DEF HistTypes, History!TypeOK
=============================================================================
