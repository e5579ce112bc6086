---------------------------- MODULE Transactions ----------------------------
(***************************************************************************)
(* How transactions reach the network and what is recorded of them until   *)
(* they have: the broadcaster (src/ldk/traits/broadcaster.ts) with its     *)
(* in-flight set and retries, LDK's own broadcasts with their records in   *)
(* IndexedDB and the drain of these records at a start, the sweep of       *)
(* spendable outputs (src/ldk/sweep.ts), and the events that hand over     *)
(* outputs and funding transactions (src/ldk/traits/event-handler.ts).     *)
(*                                                                         *)
(* A transaction is the set of coins it spends and the rank of its fee.    *)
(* The network keeps one of several that spend the same coin, and replaces *)
(* it only by one with a higher fee.                                       *)
(***************************************************************************)
EXTENDS Naturals, FiniteSets

CONSTANTS
  Coins,         \* coins of channels, spent by commitments and claims
  LdkTxs,        \* transactions LDK broadcasts itself
  Outputs,       \* outputs LDK announces as spendable: what one event hands over
  Channels,      \* channels this wallet funds, by their temporary ids
  Fees,          \* ranks of the fee rates of a sweep
  MaxPrimary,    \* MAX_BROADCAST_RETRIES, 5 in the code
  MaxFallback,   \* FALLBACK_RETRIES, 3 in the code
  MaxLdk,        \* bound: calls of broadcast_transactions, one transaction each
  Scopes         \* bound: what a behaviour has of each kind of event; `troubles'
                 \* are crashes and failed operations of IndexedDB, `unreadable'
                 \* events whose stored descriptors are empty or do not parse

Tx == [spends : SUBSET (Coins \union Outputs \union Channels), fee : Nat]
NoTx == [spends |-> {}, fee |-> 0]
FundingTx(ch) == [spends |-> {ch}, fee |-> 1]
SweepTx(outs, fee) == [spends |-> outs, fee |-> fee]

\* Callers of broadcastWithRetry.
LdkCallers == {"ldk"} \X (1..MaxLdk)
DrainCallers == {"drain"} \X LdkTxs
FundCallers == {"fund"} \X Channels
Sweeper == <<"sweep", 0>>
Callers == LdkCallers \union DrainCallers \union FundCallers \union {Sweeper}

ASSUME TransactionsAssumption ==
  /\ LdkTxs \subseteq [spends : SUBSET Coins, fee : Nat]
  /\ Coins \intersect Outputs = {} /\ Coins \intersect Channels = {}
  /\ Outputs \intersect Channels = {}
  /\ Fees \subseteq Nat
  /\ MaxPrimary \in Nat \ {0} /\ MaxFallback \in Nat /\ MaxLdk \in Nat
  /\ Scopes \subseteq [ldk : 0..MaxLdk, outputs : SUBSET Outputs,
                       channels : SUBSET Channels, unreadable : SUBSET Outputs,
                       troubles : Nat]

VARIABLES
  pool,       \* the transactions the network has, in its mempool or a block
  inflight,   \* inflightTxs
  call,       \* the calls of broadcastWithRetry and what follows them
  records,    \* ldk_pending_broadcasts
  putting,    \* LDK's calls whose record is not written yet
  toDrain,    \* records drainPendingBroadcasts has read and not broadcast
  drain,      \* where it stands: "wait", "read" or "done"
  stored,     \* ldk_spendable_outputs
  arriving,   \* outputs handed over whose write has not ended
  sweep,      \* where sweepSpendableOutputs stands; "idle": ~ sweepInProgress
  entries,    \* the entries it has read, then idbKeys: those it sweeps
  fundRec,    \* ldk_funding_txs
  idMap,      \* ldk_channel_id_map
  fund,       \* what LDK knows of the funding of each channel
  running,    \* the tab is open
  scope,      \* what this behaviour has, of Scopes
  announced,  \* history: outputs LDK has announced
  removed,    \* history: outputs a sweep has deleted
  reached,    \* history: transactions the network took, or refused for a rival
  troubles    \* crashes and failures so far

net == <<pool, reached, inflight, call>>
ldkVars == <<records, putting, toDrain, drain>>
sweepVars == <<stored, arriving, sweep, entries, announced, removed>>
fundVars == <<fundRec, idMap, fund>>
env == <<running, scope, troubles>>
vars == <<net, ldkVars, sweepVars, fundVars, env>>

NoCall == [pc |-> "none", tx |-> NoTx, left |-> 0]

Init ==
  /\ pool = {} /\ reached = {} /\ inflight = {} /\ call = [by \in Callers |-> NoCall]
  /\ records = {} /\ putting = {} /\ toDrain = {} /\ drain = "wait"
  /\ stored = {} /\ arriving = {} /\ sweep = "idle" /\ entries = {}
  /\ announced = {} /\ removed = {}
  /\ fundRec = {} /\ idMap = {} /\ fund = [ch \in Channels |-> "none"]
  /\ running = TRUE /\ scope \in Scopes /\ troubles = 0

Trouble == troubles < scope.troubles /\ troubles' = troubles + 1

-----------------------------------------------------------------------------
(* broadcastWithRetry.                                                     *)

\* The fallback server is not given for funding transactions.
Attempts(by) == IF by \in FundCallers THEN MaxPrimary ELSE MaxPrimary + MaxFallback

\* The call returns at once if the same transaction is being broadcast.
Started(by, t) ==
  IF t \in inflight THEN [pc |-> "skipped", tx |-> t, left |-> 0]
                    ELSE [pc |-> "post", tx |-> t, left |-> Attempts(by)]

\* The transactions in calls, a function of callers, are broadcast.
Broadcast(calls) ==
  /\ call' = [by \in Callers |-> IF by \in DOMAIN calls THEN Started(by, calls[by])
                                                        ELSE call[by]]
  /\ inflight' = inflight \union {calls[by] : by \in DOMAIN calls}

Rivals(t) == {u \in pool \ {t} : u.spends \intersect t.spends # {}}

\* What a server may make of a posted transaction.  `Known' covers the refusal
\* of a replacement for too low a fee; a request or its answer may be lost.
Replies(t) ==
  LET taken == {r \in {"ok", "error"} \X {(pool \ Rivals(t)) \union {t}} :
                  \A u \in Rivals(t) : u.fee < t.fee}
      known == {r \in {"known"} \X {pool} :
                  t \in pool \/ \E u \in Rivals(t) : u.fee >= t.fee}
  IN taken \union known \union {<<"error", pool>>}

Arrives(by, r) ==
  reached' = IF r[1] = "known" \/ call[by].tx \in r[2]
             THEN reached \union {call[by].tx} ELSE reached

\* Faulty variant: one attempt too many.
PostOneMore(by) ==
  /\ call[by].pc = "post"
  /\ \E r \in Replies(call[by].tx) :
       /\ pool' = r[2] /\ Arrives(by, r)
       /\ IF r[1] = "error" /\ call[by].left > 0
          THEN /\ call' = [call EXCEPT ![by].left = @ - 1]
               /\ UNCHANGED inflight
          ELSE /\ call' = [call EXCEPT ![by].pc = IF r[1] = "error" THEN "failed"
                                                                  ELSE "sent"]
               /\ inflight' = inflight \ {call[by].tx}
  /\ UNCHANGED <<ldkVars, sweepVars, fundVars, env>>

\* Faulty variant: exhausted attempts return like successful ones.
PostForgives(by) ==
  /\ call[by].pc = "post"
  /\ \E r \in Replies(call[by].tx) :
       /\ pool' = r[2] /\ Arrives(by, r)
       /\ IF r[1] = "error" /\ call[by].left > 1
          THEN /\ call' = [call EXCEPT ![by].left = @ - 1]
               /\ UNCHANGED inflight
          ELSE /\ call' = [call EXCEPT ![by].pc = "sent"]
               /\ inflight' = inflight \ {call[by].tx}
  /\ UNCHANGED <<ldkVars, sweepVars, fundVars, env>>

\* Faulty variant: the in-flight entry is only deleted after a success.
PostKeepsEntry(by) ==
  /\ call[by].pc = "post"
  /\ \E r \in Replies(call[by].tx) :
       /\ pool' = r[2] /\ Arrives(by, r)
       /\ IF r[1] = "error" /\ call[by].left > 1
          THEN /\ call' = [call EXCEPT ![by].left = @ - 1]
               /\ UNCHANGED inflight
          ELSE /\ call' = [call EXCEPT ![by].pc = IF r[1] = "error" THEN "failed"
                                                                  ELSE "sent"]
               /\ inflight' = IF r[1] = "error" THEN inflight
                                                ELSE inflight \ {call[by].tx}
  /\ UNCHANGED <<ldkVars, sweepVars, fundVars, env>>

\* One attempt: the last one that fails, or one that succeeds, ends the call.
Post(by) ==
  /\ call[by].pc = "post"
  /\ \E r \in Replies(call[by].tx) :
       /\ pool' = r[2] /\ Arrives(by, r)
       /\ IF r[1] = "error" /\ call[by].left > 1
          THEN /\ call' = [call EXCEPT ![by].left = @ - 1]
               /\ UNCHANGED inflight
          ELSE /\ call' = [call EXCEPT ![by].pc = IF r[1] = "error" THEN "failed"
                                                                  ELSE "sent"]
               /\ inflight' = inflight \ {call[by].tx}
  /\ UNCHANGED <<ldkVars, sweepVars, fundVars, env>>

Resolved(by) == call[by].pc \in {"sent", "skipped"}
CallEnds(by) ==
  call' = [call EXCEPT ![by].pc = "end"] /\ UNCHANGED <<pool, reached, inflight>>

-----------------------------------------------------------------------------
(* LDK's broadcasts and their records.                                     *)

\* broadcast_transactions: the record is written while the call runs.
LdkBroadcasts(k, t) ==
  /\ running /\ k <= scope.ldk /\ call[<<"ldk", k>>].pc = "none"
  /\ \A j \in 1..(k - 1) : call[<<"ldk", j>>].pc # "none"
  /\ Broadcast([by \in {<<"ldk", k>>} |-> t])
  /\ putting' = putting \union {<<"ldk", k>>}
  /\ UNCHANGED <<pool, reached, records, toDrain, drain, sweepVars, fundVars, env>>

\* A failed write is logged; the call goes on.
PutRecord(by) ==
  /\ by \in putting
  /\ putting' = putting \ {by}
  /\ \/ records' = records \union {call[by].tx} /\ UNCHANGED troubles
     \/ Trouble /\ UNCHANGED records
  /\ UNCHANGED <<net, toDrain, drain, sweepVars, fundVars, running, scope>>

\* Faulty variant: the record is deleted as soon as the broadcast has ended.
DeleteRecordEarly(by) ==
  /\ by \in LdkCallers \union DrainCallers /\ Resolved(by)
  /\ \/ records' = records \ {call[by].tx} /\ CallEnds(by) /\ UNCHANGED troubles
     \/ Trouble /\ call' = [call EXCEPT ![by].pc = "failed"]
        /\ UNCHANGED <<pool, reached, inflight, records>>
  /\ UNCHANGED <<putting, toDrain, drain, sweepVars, fundVars, running, scope>>

\* The record goes when both its write and the broadcast have ended.
DeleteRecord(by) ==
  /\ by \in LdkCallers \union DrainCallers /\ Resolved(by) /\ by \notin putting
  /\ \/ records' = records \ {call[by].tx} /\ CallEnds(by) /\ UNCHANGED troubles
     \/ Trouble /\ call' = [call EXCEPT ![by].pc = "failed"]
        /\ UNCHANGED <<pool, reached, inflight, records>>
  /\ UNCHANGED <<putting, toDrain, drain, sweepVars, fundVars, running, scope>>

\* drainPendingBroadcasts, which init awaits: LDK may be broadcasting already.
DrainRead ==
  /\ running /\ drain = "wait"
  /\ toDrain' = records /\ drain' = "read"
  /\ UNCHANGED <<net, records, putting, sweepVars, fundVars, env>>

\* Those older than PENDING_BROADCAST_TTL_MS are kept back.
DrainBroadcast ==
  /\ running /\ drain = "read"
  /\ \E old \in SUBSET toDrain :
       /\ Broadcast([by \in {d \in DrainCallers : d[2] \in toDrain \ old} |-> by[2]])
       /\ toDrain' = old
  /\ drain' = "done"
  /\ UNCHANGED <<pool, reached, records, putting, sweepVars, fundVars, env>>

\* The records kept back are deleted; nobody waits for that, nor tries it again.
ExpireRecord(t) ==
  /\ running /\ drain = "done" /\ t \in toDrain
  /\ records' = records \ {t} /\ toDrain' = toDrain \ {t}
  /\ UNCHANGED <<net, putting, drain, sweepVars, fundVars, env>>

-----------------------------------------------------------------------------
(* Spendable outputs and their sweep.                                      *)

\* Event_SpendableOutputs: LDK is told at once that it is handled.
SpendableOutputs(o) ==
  /\ running /\ o \in scope.outputs \ announced
  /\ announced' = announced \union {o}
  /\ arriving' = arriving \union {o}
  /\ UNCHANGED <<net, ldkVars, stored, sweep, entries, removed, fundVars, env>>

\* The write ends and a sweep is tried, unless one is running.
StoreOutput(o) ==
  /\ o \in arriving
  /\ arriving' = arriving \ {o}
  /\ \/ stored' = stored \union {o} /\ UNCHANGED troubles
        /\ sweep' = IF sweep = "idle" THEN "read" ELSE sweep
     \/ Trouble /\ UNCHANGED <<stored, sweep>>
  /\ UNCHANGED <<net, ldkVars, entries, announced, removed, fundVars, running, scope>>

\* The sweep of a start or of the recovery timer.
SweepStart ==
  /\ running /\ sweep = "idle"
  /\ sweep' = "read"
  /\ UNCHANGED <<net, ldkVars, stored, arriving, entries, announced, removed, fundVars,
                 env>>

\* A failed read ends the sweep.
SweepRead ==
  /\ sweep = "read"
  /\ \/ /\ entries' = stored /\ UNCHANGED troubles
        /\ sweep' = IF stored = {} THEN "idle" ELSE "build"
     \/ Trouble /\ sweep' = "idle" /\ UNCHANGED entries
  /\ UNCHANGED <<net, ldkVars, stored, arriving, announced, removed, fundVars, running,
                 scope>>

Readable == entries \ scope.unreadable

\* Faulty variant: an early return leaves sweepInProgress set.
SweepBuildKeepsFlag ==
  /\ sweep = "build"
  /\ sweep' = "send"
  /\ \/ /\ Readable # {} /\ entries' = Readable
        /\ \E fee \in Fees : Broadcast([by \in {Sweeper} |-> SweepTx(Readable, fee)])
     \/ entries' = {} /\ UNCHANGED <<inflight, call>>
  /\ UNCHANGED <<pool, reached, ldkVars, stored, arriving, announced, removed,
                 fundVars, env>>

\* Faulty variant: idbKeys takes the keys of the skipped entries too.
SweepBuildTakesAllKeys ==
  /\ sweep = "build"
  /\ \/ /\ Readable # {} /\ UNCHANGED entries
        /\ \E fee \in Fees : Broadcast([by \in {Sweeper} |-> SweepTx(Readable, fee)])
        /\ sweep' = "send"
     \/ sweep' = "idle" /\ entries' = {} /\ UNCHANGED <<inflight, call>>
  /\ UNCHANGED <<pool, reached, ldkVars, stored, arriving, announced, removed,
                 fundVars, env>>

\* Entries that cannot be read are skipped one by one.  The others are swept
\* together; without any, without a fee rate, or if LDK cannot spend them (dust,
\* a time lock), all stay for a later sweep.
SweepBuild ==
  /\ sweep = "build"
  /\ \/ /\ Readable # {} /\ entries' = Readable
        /\ \E fee \in Fees : Broadcast([by \in {Sweeper} |-> SweepTx(Readable, fee)])
        /\ sweep' = "send"
     \/ sweep' = "idle" /\ entries' = {} /\ UNCHANGED <<inflight, call>>
  /\ UNCHANGED <<pool, reached, ldkVars, stored, arriving, announced, removed,
                 fundVars, env>>

SweepFails ==
  /\ sweep = "send" /\ call[Sweeper].pc = "failed"
  /\ sweep' = "idle" /\ entries' = {}
  /\ call' = [call EXCEPT ![Sweeper] = NoCall]
  /\ UNCHANGED <<pool, reached, inflight, ldkVars, stored, arriving, announced, removed,
                 fundVars, env>>

\* idbDeleteBatch of the entries that were swept.
SweepDelete ==
  /\ sweep = "send" /\ Resolved(Sweeper)
  /\ sweep' = "idle" /\ entries' = {}
  /\ call' = [call EXCEPT ![Sweeper] = NoCall]
  /\ \/ /\ stored' = stored \ entries /\ removed' = removed \union entries
        /\ UNCHANGED troubles
     \/ Trouble /\ UNCHANGED <<stored, removed>>
  /\ UNCHANGED <<pool, reached, inflight, ldkVars, arriving, announced, fundVars,
                 running, scope>>

-----------------------------------------------------------------------------
(* Funding transactions.  What LDK emits when is not in the repository:     *)
(* FundingTxBroadcastSafe once the channel is generated, ChannelClosed      *)
(* before DiscardFunding, and after a start once more what it had not       *)
(* recorded as handled.                                                     *)

FundingGenerationReady(ch) ==
  /\ running /\ ch \in scope.channels /\ fund[ch] = "none"
  /\ fund' = [fund EXCEPT ![ch] = "put"]
  /\ UNCHANGED <<net, ldkVars, sweepVars, fundRec, idMap, env>>

\* Faulty variant: LDK is told whether or not the transaction was written.
StoreFundingUnchecked(ch) ==
  /\ fund[ch] = "put"
  /\ fund' = [fund EXCEPT ![ch] = "generated"]
  /\ \/ fundRec' = fundRec \union {ch} /\ UNCHANGED troubles
     \/ Trouble /\ UNCHANGED fundRec
  /\ UNCHANGED <<net, ldkVars, sweepVars, idMap, running, scope>>

\* LDK is given the transaction when it is stored; LDK may refuse it, and a
\* failed write aborts the channel.
StoreFunding(ch) ==
  /\ fund[ch] = "put"
  /\ \/ /\ fundRec' = fundRec \union {ch}
        /\ \E how \in {"generated", "aborted"} : fund' = [fund EXCEPT ![ch] = how]
        /\ UNCHANGED troubles
     \/ Trouble /\ fund' = [fund EXCEPT ![ch] = "aborted"] /\ UNCHANGED fundRec
  /\ UNCHANGED <<net, ldkVars, sweepVars, idMap, running, scope>>

ChannelPending(ch) ==
  /\ running /\ fund[ch] \in {"generated", "safe"}
  /\ ch \notin idMap
  /\ idMap' = idMap \union {ch}
  /\ UNCHANGED <<net, ldkVars, sweepVars, fundRec, fund, env>>

\* broadcastPersistedFundingTx reads the transaction and broadcasts it.
FundingTxBroadcastSafe(ch) ==
  /\ running /\ fund[ch] = "generated"
  /\ fund' = [fund EXCEPT ![ch] = "safe"]
  /\ IF ch \in fundRec
     THEN Broadcast([by \in {<<"fund", ch>>} |-> FundingTx(ch)])
     ELSE UNCHANGED <<inflight, call>>
  /\ UNCHANGED <<pool, reached, ldkVars, sweepVars, fundRec, idMap, env>>

DeleteFunding(ch) ==
  /\ Resolved(<<"fund", ch>>)
  /\ \/ fundRec' = fundRec \ {ch} /\ UNCHANGED troubles
     \/ Trouble /\ UNCHANGED fundRec
  /\ CallEnds(<<"fund", ch>>)
  /\ UNCHANGED <<ldkVars, sweepVars, idMap, fund, running, scope>>

ChannelClosed(ch) ==
  /\ running /\ fund[ch] \in {"generated", "safe"}
  /\ fund' = [fund EXCEPT ![ch] = IF @ = "generated" THEN "unused" ELSE "closed"]
  /\ \/ idMap' = idMap \ {ch} /\ UNCHANGED troubles
     \/ Trouble /\ UNCHANGED idMap
  /\ UNCHANGED <<net, ldkVars, sweepVars, fundRec, running, scope>>

\* The transaction is found by the mapping to the temporary id only.
DiscardFunding(ch) ==
  /\ running /\ fund[ch] = "unused"
  /\ fund' = [fund EXCEPT ![ch] = "closed"]
  /\ \/ fundRec' = fundRec \ (idMap \intersect {ch}) /\ idMap' = idMap \ {ch}
        /\ UNCHANGED troubles
     \/ Trouble /\ fundRec' \in {fundRec, fundRec \ (idMap \intersect {ch})}
        /\ UNCHANGED idMap
  /\ UNCHANGED <<net, ldkVars, sweepVars, running, scope>>

-----------------------------------------------------------------------------
(* The tab dies; memory and requests that were not answered are lost.       *)

Crash ==
  /\ running /\ Trouble
  /\ running' = FALSE
  /\ inflight' = {} /\ call' = [by \in Callers |-> NoCall]
  /\ putting' = {} /\ toDrain' = {} /\ drain' = "wait"
  /\ arriving' = {} /\ sweep' = "idle" /\ entries' = {}
  /\ \E again \in SUBSET {ch \in Channels : fund[ch] = "safe"} :
       fund' = [ch \in Channels |-> CASE fund[ch] = "put" -> "aborted"
                                       [] ch \in again -> "generated"
                                       [] OTHER -> fund[ch]]
  /\ UNCHANGED <<pool, reached, records, stored, announced, removed, fundRec, idMap,
                 scope>>

Start ==
  /\ ~ running
  /\ running' = TRUE
  /\ UNCHANGED <<net, ldkVars, sweepVars, fundVars, scope, troubles>>

SweepStep == SweepRead \/ SweepBuild \/ Post(Sweeper) \/ SweepFails \/ SweepDelete

Next ==
  \/ \E by \in Callers : Post(by) \/ DeleteRecord(by) \/ PutRecord(by)
  \/ \E k \in 1..MaxLdk, t \in LdkTxs : LdkBroadcasts(k, t)
  \/ DrainRead \/ DrainBroadcast \/ \E t \in LdkTxs : ExpireRecord(t)
  \/ \E o \in Outputs : SpendableOutputs(o) \/ StoreOutput(o)
  \/ SweepStart \/ SweepRead \/ SweepBuild \/ SweepFails \/ SweepDelete
  \/ \E ch \in Channels :
       \/ FundingGenerationReady(ch) \/ StoreFunding(ch) \/ ChannelPending(ch)
       \/ FundingTxBroadcastSafe(ch) \/ DeleteFunding(ch)
       \/ ChannelClosed(ch) \/ DiscardFunding(ch)
  \/ Crash \/ Start

Spec == Init /\ [][Next]_vars

\* Requests are answered or fail, promises and timers run.
FairSpec == Spec /\ WF_vars(SweepStep)

-----------------------------------------------------------------------------
(* Properties.                                                             *)

Call == [pc : {"none", "post", "sent", "skipped", "failed", "end"}, tx : Tx,
         left : Nat]

TypeOK ==
  /\ pool \subseteq Tx /\ reached \subseteq Tx /\ inflight \subseteq Tx
  /\ call \in [Callers -> Call]
  /\ \A by \in Callers : call[by].pc = "post" => call[by].left \in 1..Attempts(by)
  /\ records \subseteq LdkTxs /\ putting \subseteq LdkCallers /\ toDrain \subseteq LdkTxs
  /\ drain \in {"wait", "read", "done"}
  /\ stored \subseteq Outputs /\ arriving \subseteq Outputs /\ entries \subseteq Outputs
  /\ announced \subseteq Outputs /\ removed \subseteq Outputs
  /\ sweep \in {"idle", "read", "build", "send"}
  /\ fundRec \subseteq Channels /\ idMap \subseteq Channels
  /\ fund \in [Channels -> {"none", "put", "generated", "aborted", "safe", "unused",
                            "closed"}]
  /\ running \in BOOLEAN /\ scope \in Scopes /\ troubles \in Nat

\* A transaction is in the in-flight set exactly while a call posts it, and one
\* call only: no entry is left behind that would have every later broadcast
\* skipped, no two retry chains overlap (broadcaster.ts 41-61).
Posting == {by \in Callers : call[by].pc = "post"}
InflightExact ==
  /\ inflight = {call[by].tx : by \in Posting}
  /\ \A b, c \in Posting : call[b].tx = call[c].tx => b = c

\* A record that is there has somebody to delete it or to try it again: the drain
\* of this start, or a call whose broadcast goes on, has failed or whose delete
\* has (broadcaster.ts 100-103: no orphaned entries).
NoOrphanRecord ==
  running => \A t \in records :
    drain = "wait" \/ t \in toDrain
      \/ \E by \in LdkCallers \union DrainCallers :
           call[by].tx = t /\ call[by].pc \notin {"none", "end"}

\* A record is deleted when the network took the transaction or refused it for a
\* rival, when it is too old, or by a call that was told that another is posting
\* the transaction.
RecordKept ==
  [][\A t \in records \ records' :
       \/ t \in reached
       \/ drain = "done" /\ t \in toDrain
       \/ \E by \in Callers : call[by].tx = t /\ call[by].pc = "skipped"]_vars

\* A sweep deletes the entries its transaction spends: neither those it skipped as
\* unreadable, whose funds nothing else would ever claim, nor those stored while it
\* ran (sweep.ts 54-79, 134).
OnlySweptDeleted ==
  [][stored \ stored' \subseteq call[Sweeper].tx.spends \ scope.unreadable]_vars

\* LDK is told of a funding transaction only when it is stored: whenever LDK asks
\* for its broadcast, before or after a crash, it is found or was broadcast
\* (event-handler.ts 445-447).
FundingFindsTx ==
  \A ch \in Channels :
    fund[ch] = "generated" => ch \in fundRec \/ FundingTx(ch) \in pool

\* Every sweep ends: sweepInProgress does not shut out all later ones.
SweepEnds == sweep # "idle" ~> sweep = "idle"

\* Descriptors are cleaned up "after successful broadcast" (sweep.ts 133): an
\* output whose descriptor a sweep has deleted is spent.
SweptIsSpent == \A o \in removed : \E t \in pool : o \in t.spends
=============================================================================
