------------------------------ MODULE ChainSync ------------------------------
(***************************************************************************)
(* What LDK is told of the chain: syncOnce (src/ldk/sync/chain-sync.ts),   *)
(* called by the sync loop's tick, and the transactions and outputs LDK    *)
(* has asked to watch (src/ldk/traits/filter.ts).                          *)
(*                                                                         *)
(* One channel: transaction 1 funds it, each next transaction spends the   *)
(* output of the one before (2 a commitment, 3 a claim).  Output t is the  *)
(* output of transaction t.  Of the chain only blocks with one of these    *)
(* transactions have a number; any other block just moves the tip.  The    *)
(* hash of a tip is abstracted to whether it is still the tip: a chain     *)
(* that has moved on does not come back to an earlier tip.                 *)
(***************************************************************************)
EXTENDS Naturals, FiniteSets

CONSTANTS
  Depth,         \* transactions of the channel
  MaxBlocks,     \* bound: blocks with one of them, reorganised ones included
  MaxTroubles    \* bound: reorganisations, failed requests, timeouts, reloads

ASSUME ChainSyncAssumption ==
  /\ Depth \in Nat \ {0} /\ MaxBlocks \in Nat /\ MaxTroubles \in Nat

Txs == 1..Depth
Outputs == 1..(Depth - 1)
Spender(o) == o + 1
Block == 0..MaxBlocks          \* 0: in no block

VARIABLES
  where,           \* the best chain: the block of each transaction
  mined,           \* blocks with a transaction so far
  known,           \* LDK: the block it was told for each transaction
  opened,          \* LDK has the channel
  watchedTxids,
  watchedOutputs,
  lastIsTip,       \* lastTipHash is the tip
  pc,              \* where the tick stands
  tipIsTip,        \* tipHash of the running syncOnce is still the tip
  todo,            \* relevant transactions still to check for a reorganisation
  checks,          \* parallel checks that are not settled
  aborted,         \* the timeout has fired
  stopped,
  troubles

ldk == <<known, opened>>
filter == <<watchedTxids, watchedOutputs>>
chain == <<where, mined>>
vars == <<where, mined, known, opened, watchedTxids, watchedOutputs, lastIsTip,
          pc, tipIsTip, todo, checks, aborted, stopped, troubles>>

InSync == {"tip", "reorg", "best", "txs", "outs"}
Check == [kind : {"tx", "out"}, tx : Txs, at : {"outspend", "status", "proof"}, block : Block]
TxCheck(t) == [kind |-> "tx", tx |-> t, at |-> "status", block |-> 0]
OutCheck(o) == [kind |-> "out", tx |-> Spender(o), at |-> "outspend", block |-> 0]

TypeOK ==
  /\ where \in [Txs -> Block] /\ known \in [Txs -> Block] /\ mined \in Block
  /\ opened \in BOOLEAN /\ lastIsTip \in BOOLEAN /\ tipIsTip \in BOOLEAN
  /\ watchedTxids \subseteq {1} /\ watchedOutputs \subseteq Outputs
  /\ pc \in InSync \union {"wait", "tail"}
  /\ todo \subseteq Txs /\ checks \subseteq Check
  /\ aborted \in BOOLEAN /\ stopped \in BOOLEAN /\ troubles \in 0..MaxTroubles

Init ==
  /\ where = [t \in Txs |-> 0] /\ mined = 0
  /\ known = [t \in Txs |-> 0] /\ opened = FALSE
  /\ watchedTxids = {} /\ watchedOutputs = {}
  /\ lastIsTip = FALSE /\ pc = "wait" /\ tipIsTip = FALSE
  /\ todo = {} /\ checks = {} /\ aborted = FALSE /\ stopped = FALSE
  /\ troubles = 0

InBestChain(b) == \E t \in Txs : b # 0 /\ where[t] = b
Trouble == troubles < MaxTroubles /\ troubles' = troubles + 1

-----------------------------------------------------------------------------
(* The chain. *)

TipMoves == lastIsTip' = FALSE /\ tipIsTip' = FALSE

\* A block with the transactions S, each after the one it spends.
Mine(S) ==
  /\ opened /\ S # {} /\ mined < MaxBlocks
  /\ \A t \in S : /\ where[t] = 0
                  /\ \A u \in Txs : u + 1 = t => where[u] # 0 \/ u \in S
  /\ mined' = mined + 1
  /\ where' = [t \in Txs |-> IF t \in S THEN mined + 1 ELSE where[t]]
  /\ TipMoves
  /\ UNCHANGED <<ldk, filter, pc, todo, checks, aborted, stopped, troubles>>

OtherBlock ==
  /\ lastIsTip \/ tipIsTip
  /\ TipMoves
  /\ UNCHANGED <<chain, ldk, filter, pc, todo, checks, aborted, stopped, troubles>>

\* A longer chain without the blocks from b on.
Reorganise(b) ==
  /\ InBestChain(b) /\ Trouble
  /\ where' = [t \in Txs |-> IF where[t] >= b THEN 0 ELSE where[t]]
  /\ TipMoves
  /\ UNCHANGED <<mined, ldk, filter, pc, todo, checks, aborted, stopped>>

-----------------------------------------------------------------------------
(* LDK and its filter. *)

\* A new channel's monitor registers its funding transaction and output.
WatchChannel ==
  /\ ~ opened /\ opened' = TRUE
  /\ watchedTxids' = watchedTxids \union {1}
  /\ watchedOutputs' = watchedOutputs \union ({1} \intersect Outputs)
  /\ UNCHANGED <<chain, known, lastIsTip, pc, tipIsTip, todo, checks, aborted, stopped, troubles>>

\* get_relevant_txids: only transactions LDK has been told are confirmed.
RelevantTxids == {t \in Txs : known[t] # 0}

-----------------------------------------------------------------------------
(* syncOnce.  One action per reply. *)

Tick ==
  /\ pc = "wait" /\ ~ stopped
  /\ pc' = "tip" /\ aborted' = FALSE
  /\ UNCHANGED <<chain, ldk, filter, lastIsTip, tipIsTip, todo, checks, stopped, troubles>>

TipReply ==
  /\ pc = "tip" /\ ~ aborted
  /\ IF lastIsTip THEN pc' = "tail" /\ UNCHANGED <<tipIsTip, todo>>
     ELSE pc' = "reorg" /\ tipIsTip' = TRUE /\ todo' = RelevantTxids
  /\ UNCHANGED <<chain, ldk, filter, lastIsTip, checks, aborted, stopped, troubles>>

\* Faulty variant: the loop ends at the first block that is still there.
BlockStatusStops(t) ==
  /\ pc = "reorg" /\ ~ aborted /\ t \in todo
  /\ todo' = IF InBestChain(known[t]) THEN {} ELSE todo \ {t}
  /\ known' = IF InBestChain(known[t]) THEN known ELSE [known EXCEPT ![t] = 0]
  /\ UNCHANGED <<chain, opened, filter, lastIsTip, pc, tipIsTip, checks, aborted, stopped, troubles>>

\* The block of a relevant transaction has left the best chain, or has not.
BlockStatusReply(t) ==
  /\ pc = "reorg" /\ ~ aborted /\ t \in todo
  /\ todo' = todo \ {t}
  /\ known' = IF InBestChain(known[t]) THEN known ELSE [known EXCEPT ![t] = 0]
  /\ UNCHANGED <<chain, opened, filter, lastIsTip, pc, tipIsTip, checks, aborted, stopped, troubles>>

\* Height and header of the tip; best_block_updated.  The watched transactions
\* are read, and a request for each is sent.
BestBlock ==
  /\ \/ pc = "reorg" /\ todo = {} /\ pc' = "best" /\ UNCHANGED checks
     \/ pc = "best" /\ ~ aborted /\ pc' = "txs" /\ checks' = {TxCheck(t) : t \in watchedTxids}
  /\ UNCHANGED <<chain, ldk, filter, lastIsTip, tipIsTip, todo, aborted, stopped, troubles>>

\* A request before the parallel checks fails: syncOnce throws.
RequestFails ==
  /\ pc \in {"tip", "reorg", "best"}
  /\ \/ aborted /\ UNCHANGED troubles
     \/ Trouble
  /\ pc' = "wait" /\ todo' = {}
  /\ lastIsTip' = (lastIsTip /\ ~ aborted)
  /\ UNCHANGED <<chain, ldk, filter, tipIsTip, checks, aborted, stopped>>

\* The next request of a check, c its state after it.
Proceed(c, d) == checks' = (checks \ {c}) \union {d}
Settle(c) == checks' = checks \ {c}

\* getOutspend: also a spend that is not in a block is named.
OutspendReply(c) ==
  /\ c \in checks /\ c.at = "outspend" /\ ~ aborted
  /\ \/ Proceed(c, [c EXCEPT !.at = "status"])
     \/ where[c.tx] = 0 /\ Settle(c)
  /\ UNCHANGED <<chain, ldk, filter, lastIsTip, pc, tipIsTip, todo, aborted, stopped, troubles>>

StatusReply(c) ==
  /\ c \in checks /\ c.at = "status" /\ ~ aborted
  /\ IF where[c.tx] = 0 THEN Settle(c)
     ELSE Proceed(c, [c EXCEPT !.at = "proof", !.block = where[c.tx]])
  /\ UNCHANGED <<chain, ldk, filter, lastIsTip, pc, tipIsTip, todo, aborted, stopped, troubles>>

\* Header, transaction and proof; transactions_confirmed, in which the monitor
\* registers the output of the transaction it now sees.
ProofReply(c) ==
  /\ c \in checks /\ c.at = "proof" /\ ~ aborted
  /\ known' = [known EXCEPT ![c.tx] = c.block]
  /\ watchedOutputs' = watchedOutputs \union ({c.tx} \intersect Outputs)
  /\ Settle(c)
  /\ UNCHANGED <<chain, opened, watchedTxids, lastIsTip, pc, tipIsTip, todo, aborted, stopped, troubles>>

\* A rejected check is only logged.  One for a block that has left the chain may
\* be answered or refused.
CheckFails(c) ==
  /\ c \in checks
  /\ \/ (aborted \/ (c.at = "proof" /\ ~ InBestChain(c.block))) /\ UNCHANGED troubles
     \/ Trouble
  /\ Settle(c)
  /\ UNCHANGED <<chain, ldk, filter, lastIsTip, pc, tipIsTip, todo, aborted, stopped>>

\* All checks of the transactions are settled: those of the outputs start.
TxsSettled ==
  /\ pc = "txs" /\ checks = {}
  /\ pc' = "outs" /\ checks' = {OutCheck(o) : o \in watchedOutputs}
  /\ UNCHANGED <<chain, ldk, filter, lastIsTip, tipIsTip, todo, aborted, stopped, troubles>>

\* Faulty variant: outputs are pruned like transactions.
OutsSettledPrunes ==
  /\ pc = "outs" /\ checks = {}
  /\ watchedTxids' = watchedTxids \intersect RelevantTxids
  /\ watchedOutputs' = watchedOutputs \intersect RelevantTxids
  /\ lastIsTip' = tipIsTip /\ pc' = "tail"
  /\ UNCHANGED <<chain, ldk, tipIsTip, todo, checks, aborted, stopped, troubles>>

\* Pruning, and the tip hash is returned whatever has failed.
OutsSettled ==
  /\ pc = "outs" /\ checks = {}
  /\ watchedTxids' = watchedTxids \intersect RelevantTxids
  /\ lastIsTip' = tipIsTip /\ pc' = "tail"
  /\ UNCHANGED <<chain, ldk, watchedOutputs, tipIsTip, todo, checks, aborted, stopped, troubles>>

\* The rest of the tick; then the next one is scheduled.
TickEnds ==
  /\ pc = "tail" /\ pc' = "wait"
  /\ UNCHANGED <<chain, ldk, filter, lastIsTip, tipIsTip, todo, checks, aborted, stopped, troubles>>

SyncTimeout ==
  /\ pc \in InSync /\ ~ aborted /\ Trouble
  /\ aborted' = TRUE
  /\ UNCHANGED <<chain, ldk, filter, lastIsTip, pc, tipIsTip, todo, checks, stopped>>

\* stop(): the running tick goes on to its end.
Stop ==
  /\ ~ stopped /\ stopped' = TRUE
  /\ UNCHANGED <<chain, ldk, filter, lastIsTip, pc, tipIsTip, todo, checks, aborted, troubles>>

\* The tab is reloaded: the stored monitors register what they watch, lastTipHash
\* is null.
Reload ==
  /\ Trouble
  /\ watchedTxids' = IF opened THEN {1} ELSE {}
  /\ watchedOutputs' = IF opened THEN Outputs \intersect ({1} \union RelevantTxids) ELSE {}
  /\ lastIsTip' = FALSE /\ tipIsTip' = FALSE /\ pc' = "wait"
  /\ todo' = {} /\ checks' = {} /\ aborted' = FALSE /\ stopped' = FALSE
  /\ UNCHANGED <<chain, ldk>>

-----------------------------------------------------------------------------
Reply ==
  \/ TipReply \/ BestBlock \/ TxsSettled \/ OutsSettled \/ TickEnds
  \/ \E t \in Txs : BlockStatusReply(t)
  \/ \E c \in checks : OutspendReply(c) \/ StatusReply(c) \/ ProofReply(c) \/ CheckFails(c)
  \/ aborted /\ RequestFails

Next ==
  \/ \E S \in SUBSET Txs : Mine(S)
  \/ \E b \in 1..MaxBlocks : Reorganise(b)
  \/ OtherBlock \/ WatchChannel
  \/ Tick \/ Reply \/ RequestFails \/ SyncTimeout \/ Stop \/ Reload

Spec == Init /\ [][Next]_vars
FairSpec == Spec /\ WF_vars(Tick) /\ WF_vars(Reply) /\ WF_vars(OtherBlock)

-----------------------------------------------------------------------------
\* While the tick finds nothing new, because the tip is the one it has checked,
\* LDK believes no transaction to be in a block that has left the chain: the
\* early return at chain-sync.ts:29 is safe whatever failed or moved during the
\* pass that recorded the tip.
QuietViewCurrent ==
  lastIsTip /\ pc \in {"wait", "tip", "tail"} =>
    \A t \in Txs : known[t] # 0 => known[t] = where[t]

\* A spend in a block of an output that LDK watches is reported to it in the
\* block where it is, although failed checks are only logged and not repeated
\* before the next block (chain-sync.ts:121-131).
SpendReported ==
  \A o \in Outputs :
    (o \in watchedOutputs /\ where[Spender(o)] # 0) ~>
      (known[Spender(o)] = where[Spender(o)] \/ where[Spender(o)] = 0 \/ stopped)

\* A transaction LDK has registered with the filter, once in a block, is reported.
ConfirmationReported ==
  (opened /\ where[1] # 0) ~> (known[1] = where[1] \/ where[1] = 0 \/ stopped)

\* A pass that was cut off by the timeout is made again in full.  It is not: see
\* section 7 of the README.
TimeoutRetried == [][aborted /\ pc \in InSync /\ pc' \notin InSync => ~ lastIsTip']_vars
=============================================================================
