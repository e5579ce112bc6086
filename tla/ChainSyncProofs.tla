--------------------------- MODULE ChainSyncProofs ---------------------------
(***************************************************************************)
(* A proof about ChainSync, for channels of any depth and any numbers of   *)
(* blocks and failures: while the tick finds nothing new, LDK believes no  *)
(* transaction to be in a block that has left the chain.                   *)
(*                                                                         *)
(* The chain: a block number that LDK or a check has for a transaction is  *)
(* its block, or has left the chain for good, since a reorganisation takes *)
(* whole blocks and new ones have new numbers.  The pass: as long as its   *)
(* tip is the tip, the transactions it is done with are as the chain has   *)
(* them, and so are the proofs it waits for.                               *)
(***************************************************************************)
EXTENDS ChainSync, TLAPS

ChainTypes ==
  /\ where \in [Txs -> Nat] /\ known \in [Txs -> Nat] /\ mined \in Nat
  /\ pc \in InSync \union {"wait", "tail"}
  /\ checks \subseteq Check
  /\ lastIsTip \in BOOLEAN /\ tipIsTip \in BOOLEAN

\* b is the block of t, or in no block's place any more.
Genuine(t, b) == b <= mined /\ (where[t] = b \/ ~InBestChain(b))

Numbers ==
  /\ \A t \in Txs : where[t] <= mined
  /\ \A t \in Txs : known[t] # 0 => Genuine(t, known[t])

\* Checks run only in the parallel phases; one with a proof to come has a block.
Running ==
  /\ checks # {} => pc \in {"txs", "outs"}
  /\ \A c \in checks : c.at = "proof" => c.block # 0 /\ Genuine(c.tx, c.block)
  /\ pc \in {"reorg", "best", "txs", "outs"} => ~lastIsTip

AsMined(t) == known[t] # 0 => known[t] = where[t]

Pass ==
  /\ tipIsTip /\ pc = "reorg" => \A t \in Txs \ todo : AsMined(t)
  /\ tipIsTip /\ pc \in {"best", "txs", "outs"} =>
       /\ \A t \in Txs : AsMined(t)
       /\ \A c \in checks : c.at = "proof" => c.block = where[c.tx]

IInv == ChainTypes /\ Numbers /\ Running /\ Pass /\ QuietViewCurrent

-----------------------------------------------------------------------------
\* A transaction whose block number is genuine and in the best chain is there.
LEMMA GenuineIsMined ==
  ASSUME NEW t \in Txs, NEW b, Genuine(t, b), InBestChain(b)
  PROVE  where[t] = b
BY DEF Genuine

\* A step that leaves the chain, LDK's view and the checks alone.
LEMMA Frame ==
  ASSUME IInv, UNCHANGED <<where, known, mined, checks>>,
         pc' \in InSync \union {"wait", "tail"},
         lastIsTip' \in BOOLEAN, tipIsTip' \in BOOLEAN,
         checks # {} => pc' \in {"txs", "outs"},
         pc' \in {"reorg", "best", "txs", "outs"} => ~lastIsTip',
         Pass', QuietViewCurrent'
  PROVE  IInv'
<1>1. ChainTypes'
  BY DEF IInv, ChainTypes
<1>2. Numbers'
  BY DEF IInv, Numbers, Genuine, InBestChain
<1>3. Running'
  BY DEF IInv, Running, Genuine, InBestChain
<1> QED
  BY <1>1, <1>2, <1>3 DEF IInv

\* The chain moves on: the tips are no longer the tip, numbers stay genuine.
LEMMA ChainMoves ==
  ASSUME IInv, TipMoves, UNCHANGED <<known, pc, checks>>,
         where' \in [Txs -> Nat], mined' \in Nat, mined <= mined',
         \A t \in Txs : where'[t] <= mined',
         \A t \in Txs, b \in 1..mined : Genuine(t, b) => Genuine(t, b)'
  PROVE  IInv'
<1>1. ChainTypes'
  BY DEF IInv, ChainTypes, TipMoves
<1>2. \A t \in Txs, b \in Nat : b # 0 /\ Genuine(t, b) => Genuine(t, b)'
  <2> SUFFICES ASSUME NEW t \in Txs, NEW b \in Nat, b # 0, Genuine(t, b)
               PROVE  Genuine(t, b)'
    OBVIOUS
  <2>1. b \in 1..mined
    BY SMT DEF Genuine, IInv, ChainTypes
  <2> QED
    BY <2>1
<1>3. Numbers'
  <2>1. \A t \in Txs : known[t] \in Nat
    BY DEF IInv, ChainTypes
  <2> QED
    BY <1>2, <2>1 DEF IInv, Numbers
<1>4. Running'
  <2>1. \A c \in checks : c.tx \in Txs /\ c.block \in Nat
    BY SMT, ChainSyncAssumption DEF IInv, ChainTypes, Check, Block
  <2> QED
    BY <1>2, <2>1 DEF IInv, Running, TipMoves
<1>5. Pass' /\ QuietViewCurrent'
  BY DEF TipMoves, Pass, QuietViewCurrent
<1> QED
  BY <1>1, <1>3, <1>4, <1>5 DEF IInv

LEMMA MineKeeps ==
  ASSUME IInv, NEW S \in SUBSET Txs, Mine(S)
  PROVE  IInv'
<1>1. /\ where \in [Txs -> Nat] /\ mined \in Nat /\ \A t \in Txs : where[t] <= mined
  BY DEF IInv, ChainTypes, Numbers
<1>2. /\ mined' = mined + 1 /\ \A t \in S : where[t] = 0
      /\ where' = [t \in Txs |-> IF t \in S THEN mined + 1 ELSE where[t]]
      /\ TipMoves /\ UNCHANGED <<known, pc, checks>>
  BY DEF Mine, ldk
<1>3. where' \in [Txs -> Nat] /\ mined' \in Nat /\ mined <= mined'
  BY <1>1, <1>2, SMT
<1>4. \A t \in Txs : where'[t] = IF t \in S THEN mined + 1 ELSE where[t]
  BY <1>2
<1>5. \A t \in Txs : where'[t] <= mined'
  BY <1>1, <1>2, <1>4, SMT
<1>6. \A t \in Txs, b \in 1..mined : Genuine(t, b) => Genuine(t, b)'
  <2> SUFFICES ASSUME NEW t \in Txs, NEW b \in 1..mined, Genuine(t, b)
               PROVE  b <= mined' /\ (where'[t] = b \/ ~ \E u \in Txs : b # 0 /\ where'[u] = b)
    BY DEF Genuine, InBestChain
  <2>1. b <= mined'
    BY <1>1, <1>2, SMT
  <2>2. CASE where[t] = b
    BY <1>1, <1>2, <1>4, <2>1, <2>2, SMT
  <2>3. CASE ~InBestChain(b)
    <3>1. \A u \in Txs : where'[u] # b
      BY <1>1, <1>4, <2>3, SMT DEF InBestChain
    <3> QED
      BY <2>1, <3>1
  <2> QED
    BY <2>2, <2>3 DEF Genuine
<1> QED
  BY <1>2, <1>3, <1>5, <1>6, ChainMoves

LEMMA ReorganiseKeeps ==
  ASSUME IInv, NEW n \in 1..MaxBlocks, Reorganise(n)
  PROVE  IInv'
<1>1. /\ where \in [Txs -> Nat] /\ mined \in Nat /\ \A t \in Txs : where[t] <= mined
      /\ n \in Nat \ {0}
  BY ChainSyncAssumption, SMT DEF IInv, ChainTypes, Numbers
<1>2. /\ where' = [t \in Txs |-> IF where[t] >= n THEN 0 ELSE where[t]]
      /\ mined' = mined /\ TipMoves /\ UNCHANGED <<known, pc, checks>>
  BY DEF Reorganise, ldk
<1>3. where' \in [Txs -> Nat] /\ mined' \in Nat /\ mined <= mined'
  BY <1>1, <1>2, SMT
<1>4. \A t \in Txs : where'[t] = IF where[t] >= n THEN 0 ELSE where[t]
  BY <1>2
<1>5. \A t \in Txs : where'[t] <= mined'
  BY <1>1, <1>2, <1>4, SMT
<1>6. \A t \in Txs, b \in 1..mined : Genuine(t, b) => Genuine(t, b)'
  <2> SUFFICES ASSUME NEW t \in Txs, NEW b \in 1..mined, Genuine(t, b)
               PROVE  b <= mined' /\ (where'[t] = b \/ ~ \E u \in Txs : b # 0 /\ where'[u] = b)
    BY DEF Genuine, InBestChain
  <2>1. b <= mined'
    BY <1>1, <1>2, SMT
  <2>2. CASE b >= n
    <3>1. \A u \in Txs : where'[u] # b
      BY <1>1, <1>4, <2>2, SMT
    <3> QED
      BY <2>1, <3>1
  <2>3. CASE ~(b >= n) /\ where[t] = b
    BY <1>1, <1>4, <2>1, <2>3, SMT
  <2>4. CASE ~(b >= n) /\ ~InBestChain(b)
    <3>1. \A u \in Txs : where'[u] # b
      BY <1>1, <1>4, <2>4, SMT DEF InBestChain
    <3> QED
      BY <2>1, <3>1
  <2> QED
    BY <2>2, <2>3, <2>4 DEF Genuine
<1> QED
  BY <1>2, <1>3, <1>5, <1>6, ChainMoves

LEMMA OtherBlockKeeps ==
  ASSUME IInv, OtherBlock
  PROVE  IInv'
<1>1. TipMoves /\ UNCHANGED <<where, mined, known, pc, checks>>
  BY DEF OtherBlock, chain, ldk
<1>2. \A t \in Txs, b \in 1..mined : Genuine(t, b) => Genuine(t, b)'
  BY <1>1 DEF Genuine, InBestChain
<1>3. where' \in [Txs -> Nat] /\ mined' \in Nat /\ mined <= mined' /\ \A t \in Txs : where'[t] <= mined'
  BY <1>1, SMT DEF IInv, ChainTypes, Numbers
<1> QED
  BY <1>1, <1>2, <1>3, ChainMoves

-----------------------------------------------------------------------------
(* The pass. *)

\* The tip is known: the transactions LDK has in a block are to be checked.
LEMMA TipReplyKeeps ==
  ASSUME IInv, TipReply
  PROVE  IInv'
<1>1. UNCHANGED <<where, known, mined, checks, lastIsTip>> /\ pc = "tip" /\ checks = {}
  BY DEF TipReply, chain, ldk, IInv, Running
<1>2. CASE lastIsTip
  <2>1. pc' = "tail" /\ tipIsTip' = tipIsTip
    BY <1>2 DEF TipReply
  <2>2. Pass' /\ QuietViewCurrent'
    BY <1>1, <2>1 DEF Pass, QuietViewCurrent, IInv
  <2> QED
    BY <1>1, <2>1, <2>2, Frame DEF IInv, ChainTypes
<1>3. CASE ~lastIsTip
  <2>1. pc' = "reorg" /\ tipIsTip' = TRUE /\ todo' = {t \in Txs : known[t] # 0}
    BY <1>3 DEF TipReply, RelevantTxids
  <2>2. Pass' /\ QuietViewCurrent'
    BY <1>1, <2>1 DEF Pass, QuietViewCurrent, AsMined
  <2> QED
    BY <1>1, <1>3, <2>1, <2>2, Frame DEF IInv, ChainTypes, InSync
<1> QED
  BY <1>2, <1>3

LEMMA BlockStatusKeeps ==
  ASSUME IInv, NEW t \in Txs, BlockStatusReply(t)
  PROVE  IInv'
<1>1. /\ UNCHANGED <<where, mined, lastIsTip, tipIsTip, pc, checks>>
      /\ pc = "reorg" /\ todo' = todo \ {t} /\ ~lastIsTip
      /\ known' = IF InBestChain(known[t]) THEN known ELSE [known EXCEPT ![t] = 0]
  BY DEF BlockStatusReply, chain, IInv, Running
<1>2. known \in [Txs -> Nat]
  BY DEF IInv, ChainTypes
<1>3. \A u \in Txs : known'[u] = IF u = t /\ ~InBestChain(known[t]) THEN 0 ELSE known[u]
  BY <1>1, <1>2, SMT
<1>4. ChainTypes'
  <2>1. known' \in [Txs -> Nat]
    BY <1>1, <1>2, SMT
  <2> QED
    BY <1>1, <2>1 DEF IInv, ChainTypes
<1>5. Numbers' /\ Running'
  BY <1>1, <1>3 DEF IInv, Numbers, Running, Genuine, InBestChain
<1>6. Pass'
  <2> SUFFICES ASSUME tipIsTip, NEW u \in Txs \ (todo \ {t}), known'[u] # 0
               PROVE  known'[u] = where[u]
    BY <1>1 DEF Pass, AsMined
  <2>1. CASE u = t
    <3>1. InBestChain(known[t]) /\ known'[t] = known[t] /\ known[t] # 0
      BY <1>3, <2>1
    <3> QED
      BY <2>1, <3>1, GenuineIsMined DEF IInv, Numbers
  <2>2. CASE u # t
    BY <1>1, <1>3, <2>2 DEF IInv, Pass, AsMined
  <2> QED
    BY <2>1, <2>2
<1>7. QuietViewCurrent'
  BY <1>1 DEF QuietViewCurrent
<1> QED
  BY <1>4, <1>5, <1>6, <1>7 DEF IInv

\* The parallel checks start with a request for each watched transaction.
LEMMA BestBlockKeeps ==
  ASSUME IInv, BestBlock, watchedTxids \subseteq Txs
  PROVE  IInv'
<1>1. UNCHANGED <<where, known, mined, lastIsTip, tipIsTip, todo>>
  BY DEF BestBlock, chain, ldk
<1>2. CASE pc = "reorg" /\ todo = {} /\ pc' = "best" /\ UNCHANGED checks
  <2>1. checks = {} /\ ~lastIsTip
    BY <1>2 DEF IInv, Running
  <2>2. Pass' /\ QuietViewCurrent'
    BY <1>1, <1>2, <2>1 DEF IInv, Pass, AsMined, QuietViewCurrent
  <2> QED
    BY <1>1, <1>2, <2>1, <2>2, Frame DEF IInv, ChainTypes, InSync
<1>3. CASE pc = "best" /\ pc' = "txs" /\ checks' = {TxCheck(t) : t \in watchedTxids}
  <2>1. ~lastIsTip
    BY <1>3 DEF IInv, Running
  <2>2. checks' \subseteq Check /\ \A c \in checks' : c.at # "proof"
    BY <1>3, ChainSyncAssumption, SMT DEF TxCheck, Check, Block
  <2>3. ChainTypes' /\ Numbers' /\ Running'
    BY <1>1, <1>3, <2>1, <2>2 DEF IInv, ChainTypes, Numbers, Running, Genuine, InBestChain, InSync
  <2>4. Pass' /\ QuietViewCurrent'
    BY <1>1, <1>3, <2>1, <2>2 DEF IInv, Pass, AsMined, QuietViewCurrent
  <2> QED
    BY <2>3, <2>4 DEF IInv
<1> QED
  BY <1>2, <1>3 DEF BestBlock

\* A check ends or goes on to a request that is not for a proof.
LEMMA ChecksShrink ==
  ASSUME IInv, UNCHANGED <<where, known, mined, lastIsTip, tipIsTip, pc>>, pc \in {"txs", "outs"},
         checks' \subseteq Check,
         \A c \in checks' : c \in checks \/ c.at # "proof"
  PROVE  IInv'
<1>1. ChainTypes'
  BY DEF IInv, ChainTypes
<1>2. Numbers' /\ Running'
  BY DEF IInv, Numbers, Running, Genuine, InBestChain
<1>3. Pass' /\ QuietViewCurrent'
  BY DEF IInv, Pass, AsMined, QuietViewCurrent
<1> QED
  BY <1>1, <1>2, <1>3 DEF IInv

\* A check whose transaction is in block b goes on to the proof.
LEMMA AtSet ==
  ASSUME NEW c \in Check, NEW a \in {"outspend", "status", "proof"}
  PROVE  /\ [c EXCEPT !.at = a] \in Check
         /\ [c EXCEPT !.at = a].tx = c.tx /\ [c EXCEPT !.at = a].at = a
BY SMT DEF Check

LEMMA BlockSet ==
  ASSUME NEW c \in Check, NEW b \in Block
  PROVE  /\ [c EXCEPT !.block = b] \in Check
         /\ [c EXCEPT !.block = b].tx = c.tx
         /\ [c EXCEPT !.block = b].at = c.at /\ [c EXCEPT !.block = b].block = b
BY SMT DEF Check

LEMMA ProofAwaited ==
  ASSUME NEW c \in Check, NEW b \in Block
  PROVE  LET d == [c EXCEPT !.at = "proof", !.block = b]
         IN  d \in Check /\ d.tx = c.tx /\ d.at = "proof" /\ d.block = b
<1> DEFINE e == [c EXCEPT !.at = "proof"]
<1>1. e \in Check /\ e.tx = c.tx /\ e.at = "proof"
  BY AtSet
<1>2. [c EXCEPT !.at = "proof", !.block = b] = [e EXCEPT !.block = b]
  OBVIOUS
<1> HIDE DEF e
<1> QED
  BY <1>1, <1>2, BlockSet

\* What is known of a running check.
LEMMA CheckFacts ==
  ASSUME IInv, NEW c \in checks
  PROVE  /\ pc \in {"txs", "outs"} /\ ~lastIsTip
         /\ c \in Check /\ c.tx \in Txs /\ c.block \in Block
         /\ c.block \in Nat
<1>1. c \in Check /\ pc \in {"txs", "outs"} /\ ~lastIsTip
  BY DEF IInv, ChainTypes, Running
<1> QED
  BY <1>1, ChainSyncAssumption, SMT DEF Check, Block

LEMMA OutspendKeeps ==
  ASSUME IInv, NEW c \in checks, OutspendReply(c)
  PROVE  IInv'
<1> DEFINE d == [c EXCEPT !.at = "status"]
<1>1. UNCHANGED <<where, known, mined, lastIsTip, tipIsTip, pc>>
  BY DEF OutspendReply, chain, ldk
<1>2. d \in Check /\ d.at = "status"
  BY CheckFacts, SMT DEF Check
<1>3. checks' = (checks \ {c}) \union {d} \/ checks' = checks \ {c}
  BY DEF OutspendReply, Proceed, Settle
<1> HIDE DEF d
<1>4. checks' \subseteq Check /\ \A e \in checks' : e \in checks \/ e.at # "proof"
  BY <1>2, <1>3 DEF IInv, ChainTypes
<1> QED
  BY <1>1, <1>4, CheckFacts, ChecksShrink

LEMMA CheckFailsKeeps ==
  ASSUME IInv, NEW c \in checks, CheckFails(c)
  PROVE  IInv'
<1>1. UNCHANGED <<where, known, mined, lastIsTip, tipIsTip, pc>> /\ checks' = checks \ {c}
  BY DEF CheckFails, Settle, chain, ldk
<1>2. checks' \subseteq Check /\ \A e \in checks' : e \in checks \/ e.at # "proof"
  BY <1>1 DEF IInv, ChainTypes
<1> QED
  BY <1>1, <1>2, CheckFacts, ChecksShrink

LEMMA StatusKeeps ==
  ASSUME IInv, NEW c \in checks, where[c.tx] \in Block, StatusReply(c)
  PROVE  IInv'
<1> DEFINE d == [c EXCEPT !.at = "proof", !.block = where[c.tx]]
<1>1. UNCHANGED <<where, known, mined, lastIsTip, tipIsTip, pc>>
  BY DEF StatusReply, chain, ldk
<1>2. CASE where[c.tx] = 0
  <2>1. checks' = checks \ {c}
    BY <1>2 DEF StatusReply, Settle
  <2>2. checks' \subseteq Check /\ \A e \in checks' : e \in checks \/ e.at # "proof"
    BY <2>1 DEF IInv, ChainTypes
  <2> QED
    BY <1>1, <2>2, CheckFacts, ChecksShrink
<1>3. CASE where[c.tx] # 0
  <2>1. d \in Check /\ d.tx = c.tx /\ d.block = where[c.tx] /\ d.at = "proof"
    BY CheckFacts, ProofAwaited
  <2>2. checks' = (checks \ {c}) \union {d}
    BY <1>3 DEF StatusReply, Proceed
  <2> HIDE DEF d
  <2>3. ChainTypes' /\ Numbers'
    BY <1>1, <2>1, <2>2 DEF IInv, ChainTypes, Numbers, Genuine, InBestChain
  <2>4. where[c.tx] <= mined
    BY CheckFacts DEF IInv, Numbers
  <2>5. Running'
    BY <1>1, <1>3, <2>1, <2>2, <2>4, CheckFacts DEF IInv, Running, Genuine, InBestChain
  <2>6. Pass' /\ QuietViewCurrent'
    BY <1>1, <2>1, <2>2, CheckFacts DEF IInv, Pass, AsMined, QuietViewCurrent
  <2> QED
    BY <2>3, <2>5, <2>6 DEF IInv
<1> QED
  BY <1>2, <1>3

LEMMA ProofKeeps ==
  ASSUME IInv, NEW c \in checks, ProofReply(c)
  PROVE  IInv'
<1>1. /\ UNCHANGED <<where, mined, lastIsTip, tipIsTip, pc>> /\ c.at = "proof"
      /\ known' = [known EXCEPT ![c.tx] = c.block] /\ checks' = checks \ {c}
  BY DEF ProofReply, Settle, chain
<1>2. /\ known \in [Txs -> Nat] /\ c.tx \in Txs /\ c.block \in Nat
      /\ pc \in {"txs", "outs"} /\ ~lastIsTip
  BY CheckFacts DEF IInv, ChainTypes
<1>3. \A u \in Txs : known'[u] = IF u = c.tx THEN c.block ELSE known[u]
  BY <1>1, <1>2
<1>4. ChainTypes'
  <2>1. known' \in [Txs -> Nat]
    BY <1>1, <1>2, SMT
  <2> QED
    BY <1>1, <2>1 DEF IInv, ChainTypes
<1>5. Genuine(c.tx, c.block)
  BY <1>1 DEF IInv, Running
<1>6. Numbers' /\ Running'
  BY <1>1, <1>2, <1>3, <1>5 DEF IInv, Numbers, Running, Genuine, InBestChain
<1>7. Pass' /\ QuietViewCurrent'
  BY <1>1, <1>2, <1>3 DEF IInv, Pass, AsMined, QuietViewCurrent
<1> QED
  BY <1>4, <1>6, <1>7 DEF IInv

LEMMA TxsSettledKeeps ==
  ASSUME IInv, TxsSettled, watchedOutputs \subseteq Outputs
  PROVE  IInv'
<1>1. UNCHANGED <<where, known, mined, lastIsTip, tipIsTip>> /\ pc = "txs" /\ pc' = "outs"
      /\ checks' = {OutCheck(o) : o \in watchedOutputs} /\ ~lastIsTip
  BY DEF TxsSettled, chain, ldk, IInv, Running
<1>2. checks' \subseteq Check /\ \A c \in checks' : c.at # "proof"
  BY <1>1, ChainSyncAssumption, SMT DEF OutCheck, Check, Block, Outputs, Txs, Spender
<1>3. ChainTypes' /\ Numbers' /\ Running'
  BY <1>1, <1>2 DEF IInv, ChainTypes, Numbers, Running, Genuine, InBestChain, InSync
<1>4. Pass' /\ QuietViewCurrent'
  BY <1>1, <1>2 DEF IInv, Pass, AsMined, QuietViewCurrent
<1> QED
  BY <1>3, <1>4 DEF IInv

\* The tip is recorded only if it still is the tip: the pass has set all right.
LEMMA OutsSettledKeeps ==
  ASSUME IInv, OutsSettled
  PROVE  IInv'
<1>1. /\ UNCHANGED <<where, known, mined, tipIsTip, checks>> /\ pc = "outs" /\ checks = {}
      /\ lastIsTip' = tipIsTip /\ pc' = "tail"
  BY DEF OutsSettled, chain, ldk
<1>2. Pass' /\ QuietViewCurrent'
  BY <1>1 DEF IInv, Pass, AsMined, QuietViewCurrent
<1> QED
  BY <1>1, <1>2, Frame DEF IInv, ChainTypes

\* The other steps leave the view and the chain as they are.
LEMMA IdleKeeps ==
  ASSUME IInv,
         WatchChannel \/ Tick \/ RequestFails \/ TickEnds \/ SyncTimeout \/ Stop
  PROVE  IInv'
<1>1. UNCHANGED <<where, known, mined, checks, tipIsTip>>
  BY DEF WatchChannel, Tick, RequestFails, TickEnds, SyncTimeout, Stop, chain, ldk
<1>2. CASE WatchChannel \/ SyncTimeout \/ Stop
  <2>1. UNCHANGED <<pc, lastIsTip, todo>>
    BY <1>2 DEF WatchChannel, SyncTimeout, Stop
  <2>2. Pass' /\ QuietViewCurrent'
    BY <1>1, <2>1 DEF IInv, Pass, AsMined, QuietViewCurrent
  <2> QED
    BY <1>1, <2>1, <2>2, Frame DEF IInv, ChainTypes, Running
<1>3. CASE Tick \/ TickEnds
  <2>1. UNCHANGED lastIsTip /\ pc \in {"wait", "tail"} /\ pc' \in {"tip", "wait"} /\ checks = {}
    BY <1>3 DEF Tick, TickEnds, IInv, Running
  <2>2. Pass' /\ QuietViewCurrent'
    BY <1>1, <2>1 DEF IInv, Pass, AsMined, QuietViewCurrent
  <2> QED
    BY <1>1, <2>1, <2>2, Frame DEF IInv, ChainTypes, InSync
<1>4. CASE RequestFails
  <2>1. pc \in {"tip", "reorg", "best"} /\ pc' = "wait" /\ (lastIsTip' => lastIsTip)
        /\ lastIsTip' \in BOOLEAN /\ checks = {} /\ (lastIsTip => pc = "tip")
    BY <1>4 DEF RequestFails, IInv, Running, ChainTypes
  <2>2. Pass' /\ QuietViewCurrent'
    BY <1>1, <2>1 DEF IInv, Pass, AsMined, QuietViewCurrent
  <2> QED
    BY <1>1, <2>1, <2>2, Frame DEF IInv, ChainTypes
<1> QED
  BY <1>2, <1>3, <1>4

LEMMA ReloadKeeps ==
  ASSUME IInv, Reload
  PROVE  IInv'
<1>1. UNCHANGED <<where, known, mined>> /\ checks' = {} /\ pc' = "wait"
      /\ lastIsTip' = FALSE /\ tipIsTip' = FALSE
  BY DEF Reload, chain, ldk
<1>2. ChainTypes' /\ Numbers' /\ Running'
  BY <1>1 DEF IInv, ChainTypes, Numbers, Running, Genuine, InBestChain
<1>3. Pass' /\ QuietViewCurrent'
  BY <1>1 DEF Pass, QuietViewCurrent
<1> QED
  BY <1>2, <1>3 DEF IInv

-----------------------------------------------------------------------------
(* Types. *)

LEMMA ChainTypesStep ==
  ASSUME TypeOK, (\E S \in SUBSET Txs : Mine(S)) \/ (\E b \in 1..MaxBlocks : Reorganise(b)) \/ OtherBlock
  PROVE  TypeOK'
<1>1. CASE \E S \in SUBSET Txs : Mine(S)
  <2>1. PICK S \in SUBSET Txs : Mine(S)
    BY <1>1
  <2>2. mined \in Block /\ mined' = mined + 1 /\ mined < MaxBlocks
    BY <2>1 DEF Mine, TypeOK
  <2>3. mined' \in Block
    BY <2>2, ChainSyncAssumption, SMT DEF Block
  <2>4. where' \in [Txs -> Block]
    BY <2>1, <2>2, <2>3 DEF Mine, TypeOK
  <2>5. /\ lastIsTip' = FALSE /\ tipIsTip' = FALSE
        /\ UNCHANGED <<known, opened, watchedTxids, watchedOutputs, pc, todo, checks, aborted, stopped, troubles>>
    BY <2>1 DEF Mine, TipMoves, ldk, filter
  <2> QED
    BY <2>3, <2>4, <2>5 DEF TypeOK
<1>2. CASE \E b \in 1..MaxBlocks : Reorganise(b)
  <2>1. PICK b \in 1..MaxBlocks : Reorganise(b)
    BY <1>2
  <2>2. 0 \in Block
    BY ChainSyncAssumption, SMT DEF Block
  <2>3. where' \in [Txs -> Block]
    BY <2>1, <2>2 DEF Reorganise, TypeOK
  <2>4. troubles' \in 0..MaxTroubles
    BY <2>1, ChainSyncAssumption, SMT DEF Reorganise, Trouble, TypeOK
  <2>5. /\ lastIsTip' = FALSE /\ tipIsTip' = FALSE
        /\ UNCHANGED <<mined, known, opened, watchedTxids, watchedOutputs, pc, todo, checks, aborted, stopped>>
    BY <2>1 DEF Reorganise, TipMoves, ldk, filter
  <2> QED
    BY <2>3, <2>4, <2>5 DEF TypeOK
<1>3. CASE OtherBlock
  BY <1>3 DEF OtherBlock, TipMoves, chain, ldk, filter, TypeOK
<1> QED
  BY <1>1, <1>2, <1>3

LEMMA TroubleTypes ==
  ASSUME TypeOK, Trouble \/ UNCHANGED troubles
  PROVE  troubles' \in 0..MaxTroubles
BY ChainSyncAssumption, SMT DEF Trouble, TypeOK

LEMMA IdleTypes ==
  ASSUME TypeOK,
         WatchChannel \/ Tick \/ RequestFails \/ TickEnds \/ SyncTimeout \/ Stop \/ Reload
  PROVE  TypeOK'
<1>1. 1 \in Txs
  BY ChainSyncAssumption, SMT DEF Txs
<1>2. troubles' \in 0..MaxTroubles
  BY TroubleTypes
     DEF WatchChannel, Tick, RequestFails, TickEnds, SyncTimeout, Stop, Reload
<1>3. CASE WatchChannel
  BY <1>2, <1>3 DEF WatchChannel, chain, TypeOK
<1>4. CASE Tick
  BY <1>2, <1>4 DEF Tick, chain, ldk, filter, TypeOK, InSync
<1>5. CASE RequestFails
  <2>1. /\ lastIsTip' \in BOOLEAN /\ pc' = "wait" /\ todo' = {}
        /\ UNCHANGED <<where, mined, known, opened, watchedTxids, watchedOutputs, tipIsTip, checks, aborted, stopped>>
    BY <1>5 DEF RequestFails, chain, ldk, filter, TypeOK
  <2> QED
    BY <1>2, <2>1 DEF TypeOK
<1>6. CASE TickEnds
  BY <1>2, <1>6 DEF TickEnds, chain, ldk, filter, TypeOK
<1>7. CASE SyncTimeout
  BY <1>2, <1>7 DEF SyncTimeout, chain, ldk, filter, TypeOK
<1>8. CASE Stop
  BY <1>2, <1>8 DEF Stop, chain, ldk, filter, TypeOK
<1>9. CASE Reload
  BY <1>2, <1>9 DEF Reload, chain, ldk, TypeOK
<1> QED
  BY <1>3, <1>4, <1>5, <1>6, <1>7, <1>8, <1>9

LEMMA PassTypes ==
  ASSUME TypeOK, TipReply \/ BestBlock \/ TxsSettled \/ OutsSettled
                 \/ \E t \in Txs : BlockStatusReply(t)
  PROVE  TypeOK'
<1>1. CASE TipReply
  BY <1>1 DEF TipReply, RelevantTxids, chain, ldk, filter, TypeOK, InSync
<1>2. CASE BestBlock
  <2>1. \A t \in watchedTxids : TxCheck(t) \in Check
    BY ChainSyncAssumption, SMT DEF TypeOK, TxCheck, Check, Block, Txs
  <2>2. checks' \subseteq Check /\ pc' \in InSync
    BY <1>2, <2>1 DEF BestBlock, TypeOK, InSync
  <2> QED
    BY <1>2, <2>2 DEF BestBlock, chain, ldk, filter, TypeOK
<1>3. CASE TxsSettled
  <2>1. \A o \in Outputs : OutCheck(o) \in Check
    BY ChainSyncAssumption, SMT DEF OutCheck, Check, Block, Txs, Outputs, Spender
  <2>2. checks' \subseteq Check /\ pc' \in InSync
    BY <1>3, <2>1 DEF TxsSettled, TypeOK, InSync
  <2> QED
    BY <1>3, <2>2 DEF TxsSettled, chain, ldk, filter, TypeOK
<1>4. CASE OutsSettled
  BY <1>4 DEF OutsSettled, chain, ldk, filter, TypeOK
<1>5. CASE \E t \in Txs : BlockStatusReply(t)
  <2>1. PICK t \in Txs : BlockStatusReply(t)
    BY <1>5
  <2>2. 0 \in Block
    BY ChainSyncAssumption, SMT DEF Block
  <2>3. known' \in [Txs -> Block] /\ todo' \subseteq Txs
    BY <2>1, <2>2 DEF BlockStatusReply, TypeOK
  <2> QED
    BY <2>1, <2>3 DEF BlockStatusReply, chain, filter, TypeOK
<1> QED
  BY <1>1, <1>2, <1>3, <1>4, <1>5

LEMMA CheckTypes ==
  ASSUME TypeOK, NEW c \in checks,
         OutspendReply(c) \/ StatusReply(c) \/ ProofReply(c) \/ CheckFails(c)
  PROVE  TypeOK'
<1>1. c \in Check /\ c.tx \in Txs /\ c.block \in Block
  BY DEF TypeOK, Check
<1>2. [c EXCEPT !.at = "status"] \in Check
  BY <1>1, SMT DEF Check
<1>3. where[c.tx] \in Block /\ [c EXCEPT !.at = "proof", !.block = where[c.tx]] \in Check
  <2>1. where[c.tx] \in Block
    BY <1>1 DEF TypeOK
  <2> QED
    BY <1>1, <2>1, ProofAwaited
<1>4. checks' \subseteq Check
  BY <1>2, <1>3 DEF OutspendReply, StatusReply, ProofReply, CheckFails, Proceed, Settle, TypeOK
<1>5. known' \in [Txs -> Block] /\ watchedOutputs' \subseteq Outputs
  BY <1>1 DEF OutspendReply, StatusReply, ProofReply, CheckFails, ldk, filter, TypeOK
<1>6. troubles' \in 0..MaxTroubles
  BY TroubleTypes DEF OutspendReply, StatusReply, ProofReply, CheckFails
<1>7. UNCHANGED <<where, mined, opened, watchedTxids, lastIsTip, pc, tipIsTip, todo, aborted, stopped>>
  BY DEF OutspendReply, StatusReply, ProofReply, CheckFails, chain, ldk, filter
<1> QED
  BY <1>4, <1>5, <1>6, <1>7 DEF TypeOK

LEMMA TypeStep ==
  ASSUME TypeOK, [Next]_vars
  PROVE  TypeOK'
<1>1. CASE UNCHANGED vars
  BY <1>1 DEF vars, TypeOK
<1>2. CASE Next
  BY <1>2, ChainTypesStep, IdleTypes, PassTypes, CheckTypes DEF Next, Reply
<1> QED
  BY <1>1, <1>2

LEMMA TypeInit == Init => TypeOK
<1>1. 0 \in Block /\ 0 \in 0..MaxTroubles
  BY ChainSyncAssumption, SMT DEF Block
<1>2. Init => [t \in Txs |-> 0] \in [Txs -> Block]
  BY <1>1
<1> QED
  BY <1>1, <1>2 DEF Init, TypeOK

\* Every variable keeps its type: in particular a check names a transaction of
\* the channel and a block that has been mined.
THEOREM TypeCorrect == Spec => []TypeOK
<1>1. TypeOK /\ [Next]_vars => TypeOK'
  BY TypeStep
<1> QED
  BY <1>1, TypeInit, PTL DEF Spec

-----------------------------------------------------------------------------
LEMMA InvStep ==
  ASSUME TypeOK, IInv, [Next]_vars
  PROVE  IInv'
<1>1. /\ watchedTxids \subseteq Txs /\ watchedOutputs \subseteq Outputs
      /\ \A c \in checks : where[c.tx] \in Block
  <2>1. 1 \in Txs
    BY ChainSyncAssumption, SMT DEF Txs
  <2> QED
    BY <2>1 DEF TypeOK, Check
<1>2. CASE UNCHANGED vars
  <2>1. UNCHANGED <<where, known, mined, checks, lastIsTip, tipIsTip, pc, todo>>
    BY <1>2 DEF vars
  <2>2. Pass' /\ QuietViewCurrent'
    BY <2>1 DEF IInv, Pass, AsMined, QuietViewCurrent
  <2> QED
    BY <2>1, <2>2, Frame DEF IInv, ChainTypes, Running
<1>3. CASE \E S \in SUBSET Txs : Mine(S)
  BY <1>3, MineKeeps
<1>4. CASE \E b \in 1..MaxBlocks : Reorganise(b)
  BY <1>4, ReorganiseKeeps
<1>5. CASE OtherBlock
  BY <1>5, OtherBlockKeeps
<1>6. CASE WatchChannel \/ Tick \/ RequestFails \/ TickEnds \/ SyncTimeout \/ Stop
  BY <1>6, IdleKeeps
<1>7. CASE Reload
  BY <1>7, ReloadKeeps
<1>8. CASE TipReply \/ BestBlock \/ TxsSettled \/ OutsSettled
  BY <1>1, <1>8, TipReplyKeeps, BestBlockKeeps, TxsSettledKeeps, OutsSettledKeeps
<1>9. CASE \E t \in Txs : BlockStatusReply(t)
  BY <1>9, BlockStatusKeeps
<1>10. CASE \E c \in checks : OutspendReply(c) \/ StatusReply(c) \/ ProofReply(c) \/ CheckFails(c)
  BY <1>1, <1>10, OutspendKeeps, StatusKeeps, ProofKeeps, CheckFailsKeeps
<1> QED
  BY <1>2, <1>3, <1>4, <1>5, <1>6, <1>7, <1>8, <1>9, <1>10 DEF Next, Reply

\* The early return of syncOnce (chain-sync.ts:29) is safe: while lastTipHash is
\* the tip and no pass is at work, each block LDK has for a transaction is the
\* one it is in, whatever requests failed, timed out or raced with a reorganisation.
THEOREM QuietViewHolds == Spec => []QuietViewCurrent
<1>1. Init => IInv
  <2> SUFFICES ASSUME Init PROVE IInv
    OBVIOUS
  <2>1. \A t \in Txs : where[t] = 0 /\ known[t] = 0
    BY DEF Init
  <2>2. ChainTypes
    BY DEF Init, ChainTypes
  <2>3. Numbers
    BY <2>1, SMT DEF Init, Numbers
  <2>4. Running /\ Pass /\ QuietViewCurrent
    BY DEF Init, Running, Pass, QuietViewCurrent
  <2> QED
    BY <2>2, <2>3, <2>4 DEF IInv
<1>2. TypeOK /\ IInv /\ [Next]_vars => IInv'
  BY InvStep
<1>3. IInv => QuietViewCurrent
  BY DEF IInv
<1> QED
  BY <1>1, <1>2, <1>3, TypeCorrect, PTL DEF Spec
=============================================================================
