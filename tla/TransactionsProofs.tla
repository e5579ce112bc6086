------------------------- MODULE TransactionsProofs -------------------------
(***************************************************************************)
(* Proofs about Transactions, for any sets of coins, outputs, channels and *)
(* LDK transactions, any number of attempts, crashes and failures.         *)
(***************************************************************************)
EXTENDS Transactions, TLAPS

\* Where a process has not started a call, its caller is free.
PhaseInv ==
  /\ ~ running => drain = "wait"
  /\ drain # "done" => \A by \in DrainCallers : call[by].pc = "none"
  /\ sweep # "send" => call[Sweeper].pc = "none"
  /\ \A c \in Channels :
       fund[c] \in {"none", "put", "generated"} => call[<<"fund", c>>].pc = "none"

\* Which transactions each caller broadcasts.
KindInv ==
  /\ \A by \in LdkCallers \union DrainCallers :
       call[by].pc # "none" => call[by].tx \in LdkTxs
  /\ call[Sweeper].pc # "none" => call[Sweeper].tx.spends \subseteq Outputs
  /\ \A c \in Channels :
       call[<<"fund", c>>].pc # "none" => call[<<"fund", c>>].tx = FundingTx(c)

\* A call that succeeded reached the network; one whose record is being written
\* has not ended.
SentInv == \A by \in Callers : call[by].pc = "sent" => call[by].tx \in reached
PuttingInv == \A by \in putting : call[by].pc \notin {"none", "end"}

\* While a sweep is broadcast the keys to delete are those of the outputs its
\* transaction spends, all of them readable.
Swept ==
  /\ call[Sweeper].pc # "none" /\ entries = call[Sweeper].tx.spends
  /\ entries \intersect scope.unreadable = {}
SweepInv == sweep = "send" => Swept

\* Nothing but its funding transaction spends the output of a channel.
OnlyFunding == \A u \in pool : \A c \in Channels : c \in u.spends => u = FundingTx(c)

\* The transaction of a channel that is not closed is stored or at the network.
FundingSafe ==
  \A c \in Channels :
    /\ fund[c] \in {"generated", "safe"} => c \in fundRec \/ FundingTx(c) \in pool
    /\ call[<<"fund", c>>].pc # "skipped"
    /\ call[<<"fund", c>>].pc \in {"sent", "end"} => FundingTx(c) \in pool

CallInv == TypeOK /\ InflightExact /\ PhaseInv /\ KindInv /\ PuttingInv
FundingInv == OnlyFunding /\ FundingSafe

-----------------------------------------------------------------------------
(* Types, in parts.                                                        *)

NetType ==
  /\ pool \subseteq Tx /\ reached \subseteq Tx /\ inflight \subseteq Tx
  /\ call \in [Callers -> Call]
  /\ \A by \in Callers : call[by].pc = "post" => call[by].left \in 1..Attempts(by)
LdkType ==
  /\ records \subseteq LdkTxs /\ putting \subseteq LdkCallers /\ toDrain \subseteq LdkTxs
  /\ drain \in {"wait", "read", "done"}
SweepType ==
  /\ stored \subseteq Outputs /\ arriving \subseteq Outputs /\ entries \subseteq Outputs
  /\ announced \subseteq Outputs /\ removed \subseteq Outputs
  /\ sweep \in {"idle", "read", "build", "send"}
FundType ==
  /\ fundRec \subseteq Channels /\ idMap \subseteq Channels
  /\ fund \in [Channels -> {"none", "put", "generated", "aborted", "safe", "unused",
                            "closed"}]
EnvType == running \in BOOLEAN /\ scope \in Scopes /\ troubles \in Nat

NetInv == NetType /\ InflightExact

-----------------------------------------------------------------------------
(* Callers and their transactions.                                         *)

LEMMA CallersDiffer ==
  /\ Sweeper \in Callers /\ LdkCallers \union DrainCallers \subseteq Callers
  /\ Sweeper \notin LdkCallers \union DrainCallers
  /\ LdkCallers \intersect DrainCallers = {}
  /\ \A c \in Channels :
       /\ <<"fund", c>> \in Callers /\ <<"fund", c>> # Sweeper
       /\ <<"fund", c>> \notin LdkCallers \union DrainCallers
       /\ \A d \in Channels : <<"fund", c>> = <<"fund", d>> => c = d
  /\ \A by \in Callers :
       \/ by \in LdkCallers \union DrainCallers
       \/ by = Sweeper
       \/ \E c \in Channels : by = <<"fund", c>>
  BY DEF Callers, LdkCallers, DrainCallers, FundCallers, Sweeper

LEMMA TxTypes ==
  /\ LdkTxs \subseteq Tx /\ NoTx \in Tx /\ NoCall \in Call
  /\ \A c \in Channels : FundingTx(c) \in Tx
  /\ \A outs \in SUBSET Outputs, f \in Fees : SweepTx(outs, f) \in Tx
<1>. USE TransactionsAssumption DEF TransactionsAssumption
<1>1. LdkTxs \subseteq Tx
  BY DEF Tx
<1>2. NoTx \in Tx
  BY DEF Tx, NoTx
<1>3. NoCall \in Call
  BY <1>2 DEF Call, NoCall
<1>4. \A c \in Channels : FundingTx(c) \in Tx
  BY DEF Tx, FundingTx
<1>5. \A outs \in SUBSET Outputs, f \in Fees : SweepTx(outs, f) \in Tx
  BY DEF Tx, SweepTx
<1>. QED BY <1>1, <1>2, <1>3, <1>4, <1>5

LEMMA AttemptsPositive == \A by : Attempts(by) \in Nat \ {0}
  BY TransactionsAssumption DEF TransactionsAssumption, Attempts

-----------------------------------------------------------------------------
(* The in-flight set: calls that start, go on, and end.                    *)

\* Calls of free callers, of different transactions, keep it exact.
LEMMA BroadcastEffect ==
  ASSUME NetInv, NEW calls,
         DOMAIN calls \subseteq Callers,
         \A by \in DOMAIN calls : calls[by] \in Tx /\ call[by].pc = "none",
         \A b, c \in DOMAIN calls : calls[b] = calls[c] => b = c,
         Broadcast(calls), UNCHANGED <<pool, reached>>
  PROVE  /\ NetInv'
         /\ \A by \in DOMAIN calls :
              /\ call'[by].tx = calls[by]
              /\ call'[by].pc \in {"post", "skipped"}
              /\ call'[by].pc = "skipped" =>
                   \E b \in Callers : call[b].pc = "post" /\ call[b].tx = calls[by]
         /\ \A by \in Callers \ DOMAIN calls : call'[by] = call[by]
<1>1. /\ call \in [Callers -> Call] /\ inflight = {call[b].tx : b \in Posting}
      /\ \A b, c \in Posting : call[b].tx = call[c].tx => b = c
  BY DEF NetInv, NetType, InflightExact
<1>2. \A by \in DOMAIN calls :
        /\ call'[by] = Started(by, calls[by]) /\ call'[by] \in Call
        /\ call'[by].tx = calls[by]
        /\ call'[by].pc = IF calls[by] \in inflight THEN "skipped" ELSE "post"
        /\ call'[by].pc = "post" => call'[by].left \in 1..Attempts(by)
  BY AttemptsPositive DEF Broadcast, Started, Call
<1>3. \A by \in Callers \ DOMAIN calls : call'[by] = call[by]
  BY DEF Broadcast
<1>4. call' \in [Callers -> Call]
  <2>1. call' = [by \in Callers |-> call'[by]]
    BY DEF Broadcast
  <2>2. \A by \in Callers : call'[by] \in Call
    BY <1>1, <1>2, <1>3
  <2>. QED BY <2>1, <2>2
<1>5. inflight' = inflight \union {calls[by] : by \in DOMAIN calls}
  BY DEF Broadcast
<1>6. Posting' = Posting \union {by \in DOMAIN calls : calls[by] \notin inflight}
  BY <1>2, <1>3 DEF Posting
<1>7. \A by \in Posting : by \notin DOMAIN calls /\ call'[by] = call[by]
  BY <1>3 DEF Posting
<1>8. InflightExact'
  <2>1. \A t \in inflight' : \E b \in Posting' : call'[b].tx = t
    <3>. TAKE t \in inflight'
    <3>1. CASE t \in inflight
      <4>. PICK b \in Posting : call[b].tx = t
        BY <3>1, <1>1
      <4>. QED BY <1>6, <1>7
    <3>2. CASE t \notin inflight
      <4>. PICK by \in DOMAIN calls : calls[by] = t
        BY <3>2, <1>5
      <4>. QED BY <3>2, <1>2, <1>6
    <3>. QED BY <3>1, <3>2
  <2>2. \A b \in Posting' : call'[b].tx \in inflight'
    BY <1>1, <1>2, <1>5, <1>6, <1>7
  <2>3. ASSUME NEW b \in Posting', NEW c \in Posting', call'[b].tx = call'[c].tx
        PROVE  b = c
    <3>1. CASE b \in Posting /\ c \in Posting
      BY <3>1, <2>3, <1>1, <1>7
    <3>2. CASE b \in Posting /\ c \notin Posting
      BY <3>2, <2>3, <1>1, <1>2, <1>6, <1>7
    <3>3. CASE b \notin Posting /\ c \in Posting
      BY <3>3, <2>3, <1>1, <1>2, <1>6, <1>7
    <3>4. CASE b \notin Posting /\ c \notin Posting
      BY <3>4, <2>3, <1>2, <1>6
    <3>. QED BY <3>1, <3>2, <3>3, <3>4
  <2>4. inflight' = {call'[b].tx : b \in Posting'}
    BY <2>1, <2>2
  <2>. QED BY <2>3, <2>4 DEF InflightExact
<1>9. NetType'
  <2>1. pool' \subseteq Tx /\ reached' \subseteq Tx /\ inflight' \subseteq Tx
    BY <1>5 DEF NetInv, NetType
  <2>2. \A by \in Callers : call'[by].pc = "post" => call'[by].left \in 1..Attempts(by)
    BY <1>2, <1>3 DEF NetInv, NetType
  <2>. QED BY <2>1, <2>2, <1>4 DEF NetType, Attempts
<1>10. ASSUME NEW by \in DOMAIN calls, call'[by].pc = "skipped"
       PROVE  \E b \in Callers : call[b].pc = "post" /\ call[b].tx = calls[by]
  BY <1>10, <1>1, <1>2 DEF Posting
<1>. QED BY <1>2, <1>3, <1>8, <1>9, <1>10 DEF NetInv

\* A server's answer leaves transactions, the accepted one among them.
LEMMA RepliesType ==
  ASSUME NEW t \in Tx, pool \subseteq Tx, NEW r \in Replies(t)
  PROVE  /\ r[1] \in {"ok", "error", "known"}
         /\ r[2] \subseteq Tx /\ r[2] \subseteq pool \union {t}
         /\ pool \ Rivals(t) \subseteq r[2]
         /\ r[1] = "ok" => t \in r[2]
         /\ r[1] = "known" => t \in r[2] \/ Rivals(t) # {}
<1>1. CASE r \in {"ok", "error"} \X {(pool \ Rivals(t)) \union {t}}
  BY <1>1
<1>2. CASE r \in {"known"} \X {pool} /\ (t \in pool \/ \E u \in Rivals(t) : u.fee >= t.fee)
  BY <1>2
<1>3. CASE r = <<"error", pool>>
  BY <1>3
<1>. QED BY <1>1, <1>2, <1>3 DEF Replies

LEMMA PostEffect ==
  ASSUME NetInv, NEW by \in Callers, Post(by)
  PROVE  /\ NetInv'
         /\ call[by].pc = "post" /\ call'[by].tx = call[by].tx
         /\ call'[by].pc \in {"post", "failed", "sent"}
         /\ call'[by].pc = "sent" => call[by].tx \in reached'
         /\ reached \subseteq reached'
         /\ \A b \in Callers \ {by} : call'[b] = call[b]
<1>. PICK r \in Replies(call[by].tx) :
       /\ pool' = r[2] /\ Arrives(by, r)
       /\ IF r[1] = "error" /\ call[by].left > 1
          THEN /\ call' = [call EXCEPT ![by].left = @ - 1]
               /\ UNCHANGED inflight
          ELSE /\ call' = [call EXCEPT ![by].pc = IF r[1] = "error" THEN "failed"
                                                                  ELSE "sent"]
               /\ inflight' = inflight \ {call[by].tx}
  BY DEF Post
<1>1. /\ call \in [Callers -> Call] /\ inflight = {call[b].tx : b \in Posting}
      /\ \A b, c \in Posting : call[b].tx = call[c].tx => b = c
      /\ pool \subseteq Tx /\ reached \subseteq Tx /\ inflight \subseteq Tx
      /\ call[by] \in Call /\ call[by].tx \in Tx
      /\ by \in Posting /\ call[by].pc = "post"
      /\ call[by].left \in 1..Attempts(by)
  BY DEF NetInv, NetType, InflightExact, Post, Posting, Call
<1>2. /\ r[1] \in {"ok", "error", "known"} /\ r[2] \subseteq Tx
      /\ r[1] = "ok" => call[by].tx \in r[2]
  BY <1>1, RepliesType
<1>3. /\ pool' \subseteq Tx /\ reached' \subseteq Tx /\ reached \subseteq reached'
      /\ r[1] # "error" => call[by].tx \in reached'
  BY <1>1, <1>2 DEF Arrives
<1>4. \A b \in Callers \ {by} : call'[b] = call[b]
  BY <1>1
<1>5. CASE r[1] = "error" /\ call[by].left > 1
  <2>1. call' = [call EXCEPT ![by].left = @ - 1] /\ inflight' = inflight
    BY <1>5
  <2>2. /\ call'[by] \in Call /\ call'[by].tx = call[by].tx /\ call'[by].pc = "post"
        /\ call'[by].left \in 1..Attempts(by)
    BY <2>1, <1>1, <1>5, AttemptsPositive DEF Call
  <2>3. call' \in [Callers -> Call]
    BY <2>1, <2>2, <1>1, <1>4
  <2>4. Posting' = Posting /\ \A b \in Callers : call'[b].tx = call[b].tx
    BY <2>2, <1>1, <1>4 DEF Posting
  <2>5. InflightExact'
    BY <2>1, <2>4, <1>1 DEF InflightExact, Posting
  <2>6. NetType'
    BY <2>1, <2>2, <2>3, <1>1, <1>3, <1>4 DEF NetInv, NetType, Attempts
  <2>. QED BY <2>2, <2>5, <2>6, <1>1, <1>3, <1>4 DEF NetInv
<1>6. CASE ~ (r[1] = "error" /\ call[by].left > 1)
  <2>. DEFINE new == IF r[1] = "error" THEN "failed" ELSE "sent"
  <2>1. call' = [call EXCEPT ![by].pc = new] /\ inflight' = inflight \ {call[by].tx}
    BY <1>6
  <2>2. /\ call'[by] \in Call /\ call'[by].tx = call[by].tx
        /\ call'[by].pc = new
    BY <2>1, <1>1 DEF Call
  <2>3. call' \in [Callers -> Call]
    BY <2>1, <2>2, <1>1, <1>4
  <2>4. Posting' = Posting \ {by}
    BY <2>2, <1>1, <1>4 DEF Posting
  <2>5. inflight' = {call'[b].tx : b \in Posting'}
    <3>1. \A b \in Posting \ {by} : call'[b].tx = call[b].tx /\ call[b].tx # call[by].tx
      BY <1>1, <1>4 DEF Posting
    <3>2. \A t \in inflight' : \E b \in Posting \ {by} : call'[b].tx = t
      BY <2>1, <3>1, <1>1
    <3>3. \A b \in Posting \ {by} : call'[b].tx \in inflight'
      BY <2>1, <3>1, <1>1
    <3>. QED BY <3>2, <3>3, <2>4
  <2>6. \A b, c \in Posting' : call'[b].tx = call'[c].tx => b = c
    BY <2>4, <1>1, <1>4 DEF Posting
  <2>7. NetType'
    BY <2>1, <2>2, <2>3, <1>1, <1>3, <1>4 DEF NetInv, NetType, Attempts
  <2>. QED BY <2>2, <2>5, <2>6, <2>7, <1>1, <1>2, <1>3, <1>4 DEF NetInv, InflightExact
<1>. QED BY <1>5, <1>6

\* A call that posts nothing may end or be reset.
LEMMA EndEffect ==
  ASSUME NetInv, NEW by \in Callers, call[by].pc # "post", NEW new \in Call, new.pc # "post",
         call' = [call EXCEPT ![by] = new], UNCHANGED <<pool, reached, inflight>>
  PROVE  NetInv' /\ call'[by] = new /\ \A b \in Callers \ {by} : call'[b] = call[b]
<1>1. call \in [Callers -> Call] /\ call' \in [Callers -> Call]
  BY DEF NetInv, NetType
<1>2. call'[by] = new /\ \A b \in Callers \ {by} : call'[b] = call[b]
  BY <1>1
<1>3. Posting' = Posting /\ \A b \in Posting : call'[b] = call[b]
  BY <1>2 DEF Posting
<1>4. InflightExact'
  BY <1>3 DEF NetInv, InflightExact, Posting
<1>5. NetType'
  BY <1>1, <1>2 DEF NetInv, NetType, Attempts
<1>. QED BY <1>2, <1>4, <1>5 DEF NetInv

-----------------------------------------------------------------------------
(* The invariant of the calls: types, in-flight set, phases and kinds.     *)

CallInvSplit ==
  /\ NetInv /\ LdkType /\ SweepType /\ FundType /\ EnvType
  /\ PhaseInv /\ KindInv /\ PuttingInv

LEMMA CallInvParts == (CallInv <=> CallInvSplit) /\ (CallInv' <=> CallInvSplit')
  BY DEF CallInv, CallInvSplit, NetInv, TypeOK, NetType, LdkType, SweepType, FundType,
         EnvType, Attempts

LEMMA CallInvInit == Init => CallInv
<1>. SUFFICES ASSUME Init PROVE CallInv
  OBVIOUS
<1>1. \A by \in Callers : call[by] = NoCall /\ call[by].pc = "none"
  BY DEF Init, NoCall
<1>2. NetType
  BY <1>1, TxTypes DEF Init, NetType
<1>3. InflightExact
  BY <1>1 DEF Init, InflightExact, Posting
<1>4. LdkType /\ SweepType /\ FundType /\ EnvType
  BY DEF Init, LdkType, SweepType, FundType, EnvType
<1>5. PhaseInv /\ KindInv /\ PuttingInv
  BY <1>1, CallersDiffer DEF Init, PhaseInv, KindInv, PuttingInv
<1>. QED BY <1>2, <1>3, <1>4, <1>5, CallInvParts DEF CallInvSplit, NetInv

\* What a step that leaves the calls alone must show.
LEMMA NetSame == CallInv /\ UNCHANGED net => NetInv' /\ KindInv'
<1>. SUFFICES ASSUME CallInv, UNCHANGED net PROVE NetInv' /\ KindInv'
  OBVIOUS
<1>1. NetType' /\ InflightExact'
  BY CallInvParts
     DEF CallInvSplit, net, NetInv, NetType, InflightExact, Posting, Attempts
<1>2. KindInv'
  BY CallInvParts DEF CallInvSplit, net, KindInv
<1>. QED BY <1>1, <1>2 DEF NetInv

LEMMA CallInvPost == ASSUME CallInv, NEW by \in Callers, Post(by) PROVE CallInv'
<1>1. /\ NetInv' /\ call[by].pc = "post" /\ call'[by].tx = call[by].tx
      /\ call'[by].pc \in {"post", "failed", "sent"}
      /\ \A b \in Callers \ {by} : call'[b] = call[b]
  BY CallInvParts, PostEffect DEF CallInvSplit
<1>2. UNCHANGED <<ldkVars, sweepVars, fundVars, env>>
  BY DEF Post
<1>3. LdkType' /\ SweepType' /\ FundType' /\ EnvType'
  BY <1>2, CallInvParts
     DEF CallInvSplit, LdkType, SweepType, FundType, EnvType, ldkVars, sweepVars,
         fundVars, env
<1>4. \A b \in Callers : /\ call[b].pc = "none" => call'[b].pc = "none"
                         /\ call'[b].pc \in {"none", "end"} => call'[b].pc = call[b].pc
                         /\ call'[b].tx = call[b].tx
  BY <1>1
<1>6. LdkCallers \subseteq Callers /\ putting \subseteq Callers /\ putting' = putting
  BY <1>2, CallInvParts, CallersDiffer DEF CallInvSplit, LdkType, ldkVars
<1>5. PhaseInv' /\ KindInv' /\ PuttingInv'
  BY <1>2, <1>4, <1>6, CallInvParts, CallersDiffer
     DEF CallInvSplit, PhaseInv, KindInv, PuttingInv, LdkType, ldkVars, sweepVars,
         fundVars, env
<1>. QED BY <1>1, <1>3, <1>5, CallInvParts DEF CallInvSplit

\* LDK's broadcasts.
LEMMA LdkEffect ==
  ASSUME CallInv, NEW k \in 1..MaxLdk, NEW t \in LdkTxs, LdkBroadcasts(k, t),
         NEW me, me = <<"ldk", k>>
  PROVE  /\ me \in LdkCallers /\ me \in Callers
         /\ NetInv' /\ call[me].pc = "none"
         /\ call'[me].tx = t /\ call'[me].pc \in {"post", "skipped"}
         /\ \A by \in Callers \ {me} : call'[by] = call[by]
<1>. DEFINE calls == [by \in {me} |-> t]
<1>1. me \in LdkCallers /\ me \in Callers
  BY DEF LdkCallers, Callers
<1>2. Broadcast(calls) /\ UNCHANGED <<pool, reached>> /\ call[me].pc = "none"
  BY DEF LdkBroadcasts
<1>3. DOMAIN calls = {me} /\ calls[me] = t /\ t \in Tx
  BY TxTypes
<1>. HIDE DEF calls
<1>4. \A by \in DOMAIN calls : calls[by] \in Tx /\ call[by].pc = "none"
  BY <1>2, <1>3
<1>5. \A b, c \in DOMAIN calls : calls[b] = calls[c] => b = c
  BY <1>3
<1>6. NetInv /\ DOMAIN calls \subseteq Callers
  BY <1>1, <1>3, CallInvParts DEF CallInvSplit
<1>. QED BY <1>1, <1>2, <1>3, <1>4, <1>5, <1>6, BroadcastEffect

LEMMA CallInvLdk ==
  ASSUME CallInv, NEW k \in 1..MaxLdk, NEW t \in LdkTxs, LdkBroadcasts(k, t)
  PROVE  CallInv'
<1>. DEFINE me == <<"ldk", k>>
<1>1. /\ me \in LdkCallers /\ me \in Callers /\ NetInv'
      /\ call'[me].tx = t /\ call'[me].pc \in {"post", "skipped"}
      /\ \A by \in Callers \ {me} : call'[by] = call[by]
  BY LdkEffect
<1>2. /\ UNCHANGED <<records, toDrain, drain, sweepVars, fundVars, env>>
      /\ putting' = putting \union {me}
  BY DEF LdkBroadcasts
<1>. HIDE DEF me
<1>3. LdkType' /\ SweepType' /\ FundType' /\ EnvType'
  BY <1>1, <1>2, CallInvParts
     DEF CallInvSplit, LdkType, SweepType, FundType, EnvType, sweepVars, fundVars, env
<1>4. PhaseInv' /\ PuttingInv'
  BY <1>1, <1>2, CallInvParts, CallersDiffer
     DEF CallInvSplit, PhaseInv, PuttingInv, LdkType, sweepVars, fundVars, env
<1>5. KindInv'
  BY <1>1, CallInvParts, CallersDiffer DEF CallInvSplit, KindInv
<1>. QED BY <1>1, <1>3, <1>4, <1>5, CallInvParts DEF CallInvSplit

LEMMA DeleteEffect ==
  ASSUME CallInv, NEW by \in Callers, DeleteRecord(by)
  PROVE  /\ by \in LdkCallers \union DrainCallers /\ call[by].pc \in {"sent", "skipped"}
         /\ NetInv' /\ call'[by].pc \in {"end", "failed"} /\ call'[by].tx = call[by].tx
         /\ call'[by].pc = "end" => records' = records \ {call[by].tx}
         /\ call'[by].pc = "failed" => records' = records
         /\ \A b \in Callers \ {by} : call'[b] = call[b]
         /\ UNCHANGED <<pool, reached>>
<1>. USE DEF DeleteRecord
<1>1. /\ by \in LdkCallers \union DrainCallers /\ call[by].pc \in {"sent", "skipped"}
      /\ call[by] \in Call /\ call \in [Callers -> Call]
  BY CallInvParts DEF CallInvSplit, Resolved, NetInv, NetType
<1>2. \E new \in Call :
        /\ new.pc \in {"end", "failed"} /\ new.tx = call[by].tx
        /\ call' = [call EXCEPT ![by] = new]
        /\ UNCHANGED <<pool, reached, inflight>>
        /\ records' = IF new.pc = "end" THEN records \ {call[by].tx} ELSE records
  <2>1. CASE CallEnds(by) /\ records' = records \ {call[by].tx}
    <3>. DEFINE new == [call[by] EXCEPT !.pc = "end"]
    <3>1. new \in Call /\ new.pc = "end" /\ new.tx = call[by].tx
      BY <1>1 DEF Call
    <3>2. call' = [call EXCEPT ![by] = new] /\ UNCHANGED <<pool, reached, inflight>>
      BY <2>1 DEF CallEnds
    <3>. HIDE DEF new
    <3>. QED BY <2>1, <3>1, <3>2
  <2>2. CASE call' = [call EXCEPT ![by].pc = "failed"]
               /\ UNCHANGED <<pool, reached, inflight, records>>
    <3>. DEFINE new == [call[by] EXCEPT !.pc = "failed"]
    <3>1. new \in Call /\ new.pc = "failed" /\ new.tx = call[by].tx
      BY <1>1 DEF Call
    <3>2. call' = [call EXCEPT ![by] = new]
      BY <2>2
    <3>. HIDE DEF new
    <3>. QED BY <3>1, <3>2, <2>2
  <2>. QED BY <2>1, <2>2
<1>3. PICK new \in Call :
        /\ new.pc \in {"end", "failed"} /\ new.tx = call[by].tx
        /\ call' = [call EXCEPT ![by] = new]
        /\ UNCHANGED <<pool, reached, inflight>>
        /\ records' = IF new.pc = "end" THEN records \ {call[by].tx} ELSE records
  BY <1>2
<1>4. NetInv' /\ call'[by] = new /\ \A b \in Callers \ {by} : call'[b] = call[b]
  BY <1>1, <1>3, CallInvParts, EndEffect DEF CallInvSplit
<1>. QED BY <1>1, <1>3, <1>4

LEMMA CallInvRecord ==
  ASSUME CallInv, NEW by \in Callers, PutRecord(by) \/ DeleteRecord(by)
  PROVE  CallInv'
<1>1. CASE PutRecord(by)
  <2>. USE <1>1 DEF PutRecord
  <2>1. NetInv' /\ KindInv'
    BY NetSame
  <2>2. SweepType' /\ FundType' /\ EnvType' /\ PhaseInv' /\ PuttingInv'
    BY CallInvParts
       DEF CallInvSplit, SweepType, FundType, EnvType, PhaseInv, PuttingInv, sweepVars,
           fundVars, net, Trouble
  <2>3. records' \subseteq records \union {call[by].tx} /\ call[by].tx \in LdkTxs
    BY CallInvParts DEF CallInvSplit, KindInv, LdkType, PuttingInv
  <2>4. LdkType'
    BY <2>3, CallInvParts DEF CallInvSplit, LdkType
  <2>. QED BY <2>1, <2>2, <2>4, CallInvParts DEF CallInvSplit
<1>2. CASE DeleteRecord(by)
  <2>. USE <1>2
  <2>1. /\ by \in LdkCallers \union DrainCallers /\ call[by].pc \in {"sent", "skipped"}
        /\ NetInv' /\ call'[by].pc \in {"end", "failed"} /\ call'[by].tx = call[by].tx
        /\ \A b \in Callers \ {by} : call'[b] = call[b]
    BY DeleteEffect
  <2>2. LdkType' /\ SweepType' /\ FundType' /\ EnvType'
    BY CallInvParts
       DEF CallInvSplit, LdkType, SweepType, FundType, EnvType, sweepVars, fundVars,
           Trouble, DeleteRecord
  <2>3. PhaseInv' /\ KindInv' /\ PuttingInv'
    BY <2>1, CallInvParts, CallersDiffer
       DEF CallInvSplit, PhaseInv, KindInv, PuttingInv, LdkType, sweepVars, fundVars,
           DeleteRecord
  <2>. QED BY <2>1, <2>2, <2>3, CallInvParts DEF CallInvSplit
<1>. QED BY <1>1, <1>2

LEMMA DrainEffect ==
  ASSUME CallInv, DrainBroadcast
  PROVE  /\ NetInv' /\ toDrain' \subseteq toDrain /\ UNCHANGED <<pool, reached>>
         /\ \A by \in Callers :
              \/ call'[by] = call[by]
              \/ /\ by \in DrainCallers /\ call[by].pc = "none"
                 /\ call'[by].tx \in LdkTxs /\ call'[by].pc \in {"post", "skipped"}
         /\ \A t \in toDrain \ toDrain' :
              \E by \in DrainCallers :
                call'[by].tx = t /\ call'[by].pc \in {"post", "skipped"}
<1>. PICK old \in SUBSET toDrain :
       /\ Broadcast([by \in {d \in DrainCallers : d[2] \in toDrain \ old} |-> by[2]])
       /\ toDrain' = old
  BY DEF DrainBroadcast
<1>. DEFINE calls == [by \in {d \in DrainCallers : d[2] \in toDrain \ old} |-> by[2]]
<1>1. /\ DOMAIN calls \subseteq DrainCallers
      /\ \A by \in DOMAIN calls : calls[by] \in LdkTxs
      /\ \A b, c \in DOMAIN calls : calls[b] = calls[c] => b = c
  BY DEF DrainCallers
<1>2. Broadcast(calls)
  OBVIOUS
<1>3. \A t \in toDrain \ old : \E by \in DOMAIN calls : calls[by] = t
  <2>. TAKE t \in toDrain \ old
  <2>1. <<"drain", t>> \in DrainCallers
    BY CallInvParts DEF CallInvSplit, LdkType, DrainCallers
  <2>2. <<"drain", t>> \in DOMAIN calls /\ calls[<<"drain", t>>] = t
    BY <2>1
  <2>. QED BY <2>2
<1>. HIDE DEF calls
<1>4. NetInv /\ DOMAIN calls \subseteq Callers
  BY <1>1, CallInvParts, CallersDiffer DEF CallInvSplit
<1>5. \A by \in DOMAIN calls : calls[by] \in Tx /\ call[by].pc = "none"
  BY <1>1, CallInvParts, TxTypes DEF CallInvSplit, PhaseInv, DrainBroadcast
<1>6. UNCHANGED <<pool, reached>>
  BY DEF DrainBroadcast
<1>7. /\ NetInv'
      /\ \A by \in DOMAIN calls :
           call'[by].tx = calls[by] /\ call'[by].pc \in {"post", "skipped"}
      /\ \A by \in Callers \ DOMAIN calls : call'[by] = call[by]
  BY <1>1, <1>2, <1>4, <1>5, <1>6, BroadcastEffect
<1>. QED BY <1>1, <1>3, <1>4, <1>5, <1>6, <1>7

LEMMA CallInvDrain == CallInv /\ (DrainRead \/ DrainBroadcast) => CallInv'
<1>1. ASSUME CallInv, DrainRead PROVE CallInv'
  <2>. USE <1>1 DEF DrainRead
  <2>1. NetInv' /\ KindInv'
    BY NetSame
  <2>2. LdkType' /\ SweepType' /\ FundType' /\ EnvType' /\ PhaseInv' /\ PuttingInv'
    BY CallInvParts
       DEF CallInvSplit, LdkType, SweepType, FundType, EnvType, PhaseInv, PuttingInv,
           sweepVars, fundVars, env, net
  <2>. QED BY <2>1, <2>2, CallInvParts DEF CallInvSplit
<1>2. ASSUME CallInv, DrainBroadcast PROVE CallInv'
  <2>1. /\ UNCHANGED <<pool, reached, records, putting, sweepVars, fundVars, env>>
        /\ drain = "read" /\ drain' = "done" /\ running
    BY <1>2 DEF DrainBroadcast
  <2>2. /\ NetInv' /\ toDrain' \subseteq toDrain
        /\ \A by \in Callers :
             \/ call'[by] = call[by]
             \/ /\ by \in DrainCallers /\ call[by].pc = "none"
                /\ call'[by].tx \in LdkTxs /\ call'[by].pc \in {"post", "skipped"}
    BY <1>2, DrainEffect
  <2>3. LdkType' /\ SweepType' /\ FundType' /\ EnvType'
    BY <1>2, <2>1, <2>2, CallInvParts
       DEF CallInvSplit, LdkType, SweepType, FundType, EnvType, sweepVars, fundVars, env
  <2>4. PhaseInv' /\ PuttingInv'
    BY <1>2, <2>1, <2>2, CallInvParts, CallersDiffer
       DEF CallInvSplit, PhaseInv, PuttingInv, LdkType, sweepVars, fundVars, env
  <2>5. KindInv'
    BY <1>2, <2>2, CallInvParts, CallersDiffer DEF CallInvSplit, KindInv
  <2>. QED BY <2>2, <2>3, <2>4, <2>5, CallInvParts DEF CallInvSplit
<1>. QED BY <1>1, <1>2

LEMMA CallInvExpire ==
  ASSUME CallInv, NEW t \in LdkTxs, ExpireRecord(t) PROVE CallInv'
<1>. USE DEF ExpireRecord
<1>1. NetInv' /\ KindInv'
  BY NetSame
<1>2. LdkType' /\ SweepType' /\ FundType' /\ EnvType' /\ PhaseInv' /\ PuttingInv'
  BY CallInvParts
     DEF CallInvSplit, LdkType, SweepType, FundType, EnvType, PhaseInv, PuttingInv,
         sweepVars, fundVars, env, net
<1>. QED BY <1>1, <1>2, CallInvParts DEF CallInvSplit

\* The sweep.
LEMMA CallInvStore ==
  ASSUME CallInv,
         \/ \E o \in Outputs : SpendableOutputs(o) \/ StoreOutput(o)
         \/ SweepStart \/ SweepRead
  PROVE  CallInv'
<1>. USE DEF SpendableOutputs, StoreOutput, SweepStart, SweepRead
<1>1. /\ UNCHANGED <<net, ldkVars, fundVars, running, scope>>
      /\ troubles' \in {troubles, troubles + 1}
      /\ sweep' = "send" => sweep = "send"
      /\ sweep # "send" \/ sweep' = "send"
  BY DEF env, Trouble
<1>2. NetInv' /\ KindInv'
  BY <1>1, NetSame
<1>3. SweepType'
  BY CallInvParts DEF CallInvSplit, SweepType
<1>4. LdkType' /\ FundType' /\ EnvType'
  BY <1>1, CallInvParts DEF CallInvSplit, LdkType, FundType, EnvType, ldkVars, fundVars
<1>5. PhaseInv' /\ PuttingInv'
  BY <1>1, CallInvParts DEF CallInvSplit, PhaseInv, PuttingInv, net, ldkVars, fundVars
<1>. QED BY <1>2, <1>3, <1>4, <1>5, CallInvParts DEF CallInvSplit

\* What can be read is swept, and only that is left of what was read.
LEMMA BuildEffect ==
  ASSUME CallInv, SweepBuild
  PROVE  /\ NetInv' /\ UNCHANGED <<pool, reached>>
         /\ \A by \in Callers \ {Sweeper} : call'[by] = call[by]
         /\ \/ sweep' = "idle" /\ call'[Sweeper].pc = "none"
            \/ /\ sweep' = "send" /\ entries' = Readable
               /\ call'[Sweeper].pc \in {"post", "skipped"}
               /\ call'[Sweeper].tx.spends = Readable
<1>1. NetInv /\ Readable \subseteq Outputs /\ call[Sweeper].pc = "none"
  BY CallInvParts DEF CallInvSplit, SweepType, PhaseInv, SweepBuild, Readable
<1>2. UNCHANGED <<pool, reached>>
  BY DEF SweepBuild
<1>3. ASSUME NEW fee \in Fees, sweep' = "send",
             Broadcast([by \in {Sweeper} |-> SweepTx(Readable, fee)])
      PROVE  /\ NetInv' /\ call'[Sweeper].pc \in {"post", "skipped"}
             /\ call'[Sweeper].tx.spends = Readable
             /\ \A by \in Callers \ {Sweeper} : call'[by] = call[by]
  <2>. DEFINE calls == [by \in {Sweeper} |-> SweepTx(Readable, fee)]
  <2>1. DOMAIN calls = {Sweeper} /\ calls[Sweeper] = SweepTx(Readable, fee)
    OBVIOUS
  <2>2. Broadcast(calls)
    BY <1>3
  <2>. HIDE DEF calls
  <2>3. SweepTx(Readable, fee) \in Tx /\ SweepTx(Readable, fee).spends = Readable
    BY <1>1, TxTypes DEF SweepTx
  <2>4. \A by \in DOMAIN calls : calls[by] \in Tx /\ call[by].pc = "none"
    BY <1>1, <2>1, <2>3
  <2>5. \A b, c \in DOMAIN calls : calls[b] = calls[c] => b = c
    BY <2>1
  <2>6. DOMAIN calls \subseteq Callers
    BY <2>1, CallersDiffer
  <2>. QED BY <1>1, <1>2, <2>1, <2>2, <2>3, <2>4, <2>5, <2>6, BroadcastEffect
<1>4. ASSUME sweep' = "idle", UNCHANGED <<inflight, call>> PROVE NetInv'
  BY <1>2, <1>4, NetSame DEF net
<1>. QED BY <1>1, <1>2, <1>3, <1>4 DEF SweepBuild

LEMMA SweptEffect ==
  ASSUME CallInv, SweepFails \/ SweepDelete
  PROVE  /\ NetInv' /\ UNCHANGED <<pool, reached>>
         /\ call'[Sweeper].pc = "none"
         /\ \A by \in Callers \ {Sweeper} : call'[by] = call[by]
<1>1. /\ call[Sweeper].pc # "post" /\ call' = [call EXCEPT ![Sweeper] = NoCall]
      /\ UNCHANGED <<pool, reached, inflight>>
  BY DEF SweepFails, SweepDelete, Resolved
<1>2. NoCall \in Call /\ NoCall.pc = "none"
  BY TxTypes DEF NoCall
<1>. QED BY <1>1, <1>2, CallInvParts, CallersDiffer, EndEffect DEF CallInvSplit

LEMMA CallInvSweep == CallInv /\ (SweepBuild \/ SweepFails \/ SweepDelete) => CallInv'
<1>. SUFFICES ASSUME CallInv, SweepBuild \/ SweepFails \/ SweepDelete PROVE CallInv'
  OBVIOUS
<1>1. /\ UNCHANGED <<ldkVars, fundVars, running, scope>>
      /\ troubles' \in {troubles, troubles + 1}
  BY DEF SweepBuild, SweepFails, SweepDelete, env, Trouble
<1>2. SweepType'
  BY CallInvParts
     DEF CallInvSplit, SweepType, SweepBuild, Readable, SweepFails, SweepDelete
<1>3. LdkType' /\ FundType' /\ EnvType'
  BY <1>1, CallInvParts DEF CallInvSplit, LdkType, FundType, EnvType, ldkVars, fundVars
<1>4. /\ NetInv' /\ \A by \in Callers \ {Sweeper} : call'[by] = call[by]
      /\ sweep' # "send" => call'[Sweeper].pc = "none"
      /\ call'[Sweeper].pc # "none" => call'[Sweeper].tx.spends \subseteq Outputs
  <2>1. CASE SweepBuild
    BY <2>1, BuildEffect, CallInvParts DEF CallInvSplit, SweepType, Readable
  <2>2. CASE SweepFails \/ SweepDelete
    BY <2>2, SweptEffect
  <2>. QED BY <2>1, <2>2
<1>5. PhaseInv' /\ KindInv'
  BY <1>1, <1>4, CallInvParts, CallersDiffer
     DEF CallInvSplit, PhaseInv, KindInv, ldkVars, fundVars
<1>6. PuttingInv'
  BY <1>1, <1>4, CallInvParts, CallersDiffer
     DEF CallInvSplit, PuttingInv, LdkType, ldkVars
<1>. QED BY <1>2, <1>3, <1>4, <1>5, <1>6, CallInvParts DEF CallInvSplit

\* Funding.
LEMMA CallInvFunding ==
  ASSUME CallInv, NEW c \in Channels,
         \/ FundingGenerationReady(c) \/ StoreFunding(c) \/ ChannelPending(c)
         \/ ChannelClosed(c) \/ DiscardFunding(c)
  PROVE  CallInv'
<1>. USE DEF FundingGenerationReady, StoreFunding, ChannelPending, ChannelClosed,
             DiscardFunding
<1>1. /\ UNCHANGED <<net, ldkVars, sweepVars, running, scope>>
      /\ troubles' \in {troubles, troubles + 1}
  BY DEF env, Trouble
<1>2. NetInv' /\ KindInv'
  BY <1>1, NetSame
<1>3. FundType'
  BY CallInvParts DEF CallInvSplit, FundType
<1>4. LdkType' /\ SweepType' /\ EnvType'
  BY <1>1, CallInvParts
     DEF CallInvSplit, LdkType, SweepType, EnvType, ldkVars, sweepVars
<1>5. \A d \in Channels : fund'[d] \in {"none", "put", "generated"} =>
                          fund[d] \in {"none", "put", "generated"}
  BY CallInvParts DEF CallInvSplit, FundType
<1>6. PhaseInv' /\ PuttingInv'
  BY <1>1, <1>5, CallInvParts
     DEF CallInvSplit, PhaseInv, PuttingInv, net, ldkVars, sweepVars
<1>. QED BY <1>2, <1>3, <1>4, <1>6, CallInvParts DEF CallInvSplit

LEMMA SafeEffect ==
  ASSUME CallInv, NEW c \in Channels, FundingTxBroadcastSafe(c),
         NEW me, me = <<"fund", c>>
  PROVE  /\ NetInv' /\ UNCHANGED <<pool, reached>>
         /\ call[me].pc = "none" /\ call'[me].pc \in {"none", "post", "skipped"}
         /\ call'[me].pc # "none" => call'[me].tx = FundingTx(c)
         /\ call'[me].pc = "skipped" =>
              \E b \in Callers : call[b].pc = "post" /\ call[b].tx = FundingTx(c)
         /\ \A by \in Callers \ {me} : call'[by] = call[by]
<1>1. UNCHANGED <<pool, reached>> /\ call[me].pc = "none" /\ me \in Callers
  BY CallInvParts, CallersDiffer DEF FundingTxBroadcastSafe, CallInvSplit, PhaseInv
<1>2. CASE c \in fundRec
  <2>. DEFINE calls == [by \in {me} |-> FundingTx(c)]
  <2>1. Broadcast(calls)
    BY <1>2 DEF FundingTxBroadcastSafe
  <2>2. DOMAIN calls = {me} /\ calls[me] = FundingTx(c) /\ FundingTx(c) \in Tx
    BY TxTypes
  <2>. HIDE DEF calls
  <2>3. \A by \in DOMAIN calls : calls[by] \in Tx /\ call[by].pc = "none"
    BY <1>1, <2>2
  <2>4. \A b, d \in DOMAIN calls : calls[b] = calls[d] => b = d
    BY <2>2
  <2>5. NetInv /\ DOMAIN calls \subseteq Callers
    BY <1>1, <2>2, CallInvParts DEF CallInvSplit
  <2>. QED BY <1>1, <2>1, <2>2, <2>3, <2>4, <2>5, BroadcastEffect
<1>3. CASE c \notin fundRec
  <2>1. UNCHANGED net
    BY <1>1, <1>3 DEF FundingTxBroadcastSafe, net
  <2>. QED BY <1>1, <2>1, NetSame DEF net
<1>. QED BY <1>2, <1>3

LEMMA DeleteFundingEffect ==
  ASSUME CallInv, NEW c \in Channels, DeleteFunding(c),
         NEW me, me = <<"fund", c>>
  PROVE  /\ NetInv' /\ UNCHANGED <<pool, reached>>
         /\ call[me].pc \in {"sent", "skipped"}
         /\ call'[me].pc = "end" /\ call'[me].tx = call[me].tx
         /\ \A by \in Callers \ {me} : call'[by] = call[by]
<1>. DEFINE new == [call[me] EXCEPT !.pc = "end"]
<1>1. /\ call' = [call EXCEPT ![me] = new] /\ call[me].pc \in {"sent", "skipped"}
      /\ UNCHANGED <<pool, reached, inflight>>
  BY DEF DeleteFunding, CallEnds, Resolved
<1>2. me \in Callers /\ call[me] \in Call
  BY CallInvParts, CallersDiffer DEF CallInvSplit, NetInv, NetType
<1>3. new \in Call /\ new.pc = "end" /\ new.tx = call[me].tx
  BY <1>2 DEF Call
<1>. HIDE DEF new
<1>. QED BY <1>1, <1>2, <1>3, CallInvParts, EndEffect DEF CallInvSplit

LEMMA CallInvSafe ==
  ASSUME CallInv, NEW c \in Channels, FundingTxBroadcastSafe(c) \/ DeleteFunding(c)
  PROVE  CallInv'
<1>. DEFINE me == <<"fund", c>>
<1>1. /\ UNCHANGED <<ldkVars, sweepVars, running, scope>>
      /\ troubles' \in {troubles, troubles + 1}
  BY DEF FundingTxBroadcastSafe, DeleteFunding, env, Trouble
<1>2. LdkType' /\ SweepType' /\ EnvType'
  BY <1>1, CallInvParts
     DEF CallInvSplit, LdkType, SweepType, EnvType, ldkVars, sweepVars
<1>3. FundType'
  BY CallInvParts DEF CallInvSplit, FundType, FundingTxBroadcastSafe, DeleteFunding
<1>4. /\ NetInv' /\ \A by \in Callers \ {me} : call'[by] = call[by]
      /\ call'[me].pc # "none" => call'[me].tx = FundingTx(c)
  <2>1. CASE FundingTxBroadcastSafe(c)
    BY <2>1, SafeEffect
  <2>2. CASE DeleteFunding(c)
    <3>1. call[me].pc # "none" => call[me].tx = FundingTx(c)
      BY CallInvParts DEF CallInvSplit, KindInv
    <3>. QED BY <2>2, <3>1, DeleteFundingEffect
  <2>. QED BY <2>1, <2>2
<1>5. \A d \in Channels :
        fund'[d] \in {"none", "put", "generated"} => d # c /\ fund'[d] = fund[d]
  <2>1. CASE FundingTxBroadcastSafe(c)
    BY <2>1, CallInvParts DEF CallInvSplit, FundType, FundingTxBroadcastSafe
  <2>2. CASE DeleteFunding(c)
    <3>1. call[me].pc # "none"
      BY <2>2, DeleteFundingEffect
    <3>2. fund[c] \notin {"none", "put", "generated"}
      BY <3>1, CallInvParts DEF CallInvSplit, PhaseInv
    <3>. QED BY <2>2, <3>2 DEF DeleteFunding
  <2>. QED BY <2>1, <2>2
<1>6. /\ \A by \in LdkCallers \union DrainCallers \union {Sweeper} : call'[by] = call[by]
      /\ \A d \in Channels \ {c} : call'[<<"fund", d>>] = call[<<"fund", d>>]
  <2>. HIDE DEF me
  <2>. QED BY <1>4, CallersDiffer DEF me
<1>. HIDE DEF me
<1>7. PhaseInv' /\ PuttingInv'
  BY <1>1, <1>5, <1>6, CallInvParts
     DEF CallInvSplit, PhaseInv, PuttingInv, LdkType, ldkVars, sweepVars
<1>8. KindInv'
  BY <1>4, <1>6, CallInvParts DEF CallInvSplit, KindInv, me
<1>. QED BY <1>2, <1>3, <1>4, <1>7, <1>8, CallInvParts DEF CallInvSplit

LEMMA CallInvCrash == CallInv /\ (Crash \/ Start) => CallInv'
<1>1. ASSUME CallInv, Crash PROVE CallInv'
  <2>. USE <1>1 DEF Crash
  <2>1. \A by \in Callers : call'[by] = NoCall /\ call'[by].pc = "none"
    BY DEF NoCall
  <2>2. call' \in [Callers -> Call]
    BY TxTypes
  <2>3. NetInv'
    <3>1. NetType'
      BY <2>1, <2>2, CallInvParts DEF CallInvSplit, NetInv, NetType
    <3>2. InflightExact'
      BY <2>1 DEF InflightExact, Posting
    <3>. QED BY <3>1, <3>2 DEF NetInv
  <2>4. LdkType' /\ SweepType' /\ EnvType'
    <3>1. LdkType'
      BY CallInvParts DEF CallInvSplit, LdkType
    <3>2. SweepType'
      BY CallInvParts DEF CallInvSplit, SweepType
    <3>3. EnvType'
      <4>1. running' \in BOOLEAN
        BY Zenon
      <4>2. scope' \in Scopes
        BY CallInvParts DEF CallInvSplit, EnvType
      <4>3. troubles' \in Nat
        BY CallInvParts DEF CallInvSplit, EnvType, Trouble
      <4>. QED BY <4>1, <4>2, <4>3, Zenon DEF EnvType
    <3>. QED BY <3>1, <3>2, <3>3
  <2>5. FundType'
    BY CallInvParts DEF CallInvSplit, FundType
  <2>6. PhaseInv' /\ KindInv' /\ PuttingInv'
    BY <2>1, CallersDiffer DEF PhaseInv, KindInv, PuttingInv
  <2>. QED BY <2>3, <2>4, <2>5, <2>6, CallInvParts DEF CallInvSplit
<1>2. ASSUME CallInv, Start PROVE CallInv'
  <2>. USE <1>2 DEF Start
  <2>1. NetInv' /\ KindInv'
    BY NetSame
  <2>2. LdkType' /\ SweepType' /\ FundType' /\ EnvType' /\ PhaseInv' /\ PuttingInv'
    BY CallInvParts
       DEF CallInvSplit, LdkType, SweepType, FundType, EnvType, PhaseInv, PuttingInv,
           sweepVars, fundVars, ldkVars, net
  <2>. QED BY <2>1, <2>2, CallInvParts DEF CallInvSplit
<1>. QED BY <1>1, <1>2

LEMMA CallInvStep == CallInv /\ [Next]_vars => CallInv'
<1>. SUFFICES ASSUME CallInv, [Next]_vars PROVE CallInv'
  OBVIOUS
<1>1. CASE UNCHANGED vars
  <2>1. UNCHANGED <<net, ldkVars, sweepVars, fundVars, env>>
    BY <1>1 DEF vars
  <2>2. NetInv' /\ KindInv'
    BY <2>1, NetSame
  <2>3. LdkType' /\ SweepType' /\ FundType' /\ EnvType' /\ PhaseInv' /\ PuttingInv'
    BY <2>1, CallInvParts
       DEF CallInvSplit, LdkType, SweepType, FundType, EnvType, PhaseInv, PuttingInv,
           sweepVars, fundVars, ldkVars, net, env
  <2>. QED BY <2>2, <2>3, CallInvParts DEF CallInvSplit
<1>2. CASE \E by \in Callers : Post(by) \/ DeleteRecord(by) \/ PutRecord(by)
  BY <1>2, CallInvPost, CallInvRecord
<1>3. CASE \E k \in 1..MaxLdk, t \in LdkTxs : LdkBroadcasts(k, t)
  BY <1>3, CallInvLdk
<1>4. CASE DrainRead \/ DrainBroadcast \/ \E t \in LdkTxs : ExpireRecord(t)
  BY <1>4, CallInvDrain, CallInvExpire
<1>5. CASE \E o \in Outputs : SpendableOutputs(o) \/ StoreOutput(o)
  BY <1>5, CallInvStore
<1>6. CASE SweepStart \/ SweepRead
  BY <1>6, CallInvStore
<1>7. CASE SweepBuild \/ SweepFails \/ SweepDelete
  BY <1>7, CallInvSweep
<1>8. CASE \E c \in Channels :
             \/ FundingGenerationReady(c) \/ StoreFunding(c) \/ ChannelPending(c)
             \/ FundingTxBroadcastSafe(c) \/ DeleteFunding(c)
             \/ ChannelClosed(c) \/ DiscardFunding(c)
  BY <1>8, CallInvFunding, CallInvSafe
<1>9. CASE Crash \/ Start
  BY <1>9, CallInvCrash
<1>. QED BY <1>1, <1>2, <1>3, <1>4, <1>5, <1>6, <1>7, <1>8, <1>9 DEF Next

\* Types, the exact in-flight set and the phases of the calls hold together: the
\* invariant on which everything below rests (broadcaster.ts 36-93).
THEOREM CallsHold == Spec => []CallInv
  BY CallInvInit, CallInvStep, PTL DEF Spec

\* Every value has its type; in particular no call ever makes more attempts than
\* the broadcaster allows it (broadcaster.ts 47-58).
THEOREM TxTypeCorrect == Spec => []TypeOK
<1>1. CallInv => TypeOK
  BY DEF CallInv
<1>. QED BY <1>1, CallsHold, PTL

\* The in-flight set is exactly the transactions being posted, each by one call
\* (broadcaster.ts 41-61).
THEOREM InflightIsExact == Spec => []InflightExact
<1>1. CallInv => InflightExact
  BY DEF CallInv
<1>. QED BY <1>1, CallsHold, PTL

-----------------------------------------------------------------------------
(* Records.                                                                *)

LEMMA NextCases ==
  ASSUME Next
  PROVE  \/ UNCHANGED net
         \/ \E by \in Callers : Post(by) \/ DeleteRecord(by)
         \/ \E k \in 1..MaxLdk, t \in LdkTxs : LdkBroadcasts(k, t)
         \/ DrainBroadcast
         \/ SweepBuild \/ SweepFails \/ SweepDelete
         \/ \E c \in Channels : FundingTxBroadcastSafe(c) \/ DeleteFunding(c)
         \/ Crash
  BY
     DEF Next, PutRecord, DrainRead, ExpireRecord, SpendableOutputs, StoreOutput,
         SweepStart,
         SweepRead, FundingGenerationReady, StoreFunding, ChannelPending, ChannelClosed,
         DiscardFunding, Start

LEMMA SentStep == CallInv /\ SentInv /\ [Next]_vars => SentInv'
<1>. SUFFICES ASSUME CallInv, SentInv, [Next]_vars,
                     NEW by \in Callers, call'[by].pc = "sent"
              PROVE  call'[by].tx \in reached'
  BY DEF SentInv
<1>. DEFINE Kept == call'[by] = call[by] /\ reached \subseteq reached'
<1>1. Kept => call'[by].tx \in reached'
  BY DEF SentInv
<1>2. CASE UNCHANGED vars \/ UNCHANGED net
  BY <1>1, <1>2 DEF vars, net
<1>3. ASSUME NEW b \in Callers, Post(b) PROVE call'[by].tx \in reached'
  <2>1. NetInv
    BY CallInvParts DEF CallInvSplit
  <2>2. /\ call'[b].tx = call[b].tx /\ reached \subseteq reached'
        /\ call'[b].pc = "sent" => call[b].tx \in reached'
        /\ \A d \in Callers \ {b} : call'[d] = call[d]
    BY <1>3, <2>1, PostEffect
  <2>. QED BY <1>1, <2>2
<1>4. ASSUME NEW b \in Callers, DeleteRecord(b) PROVE call'[by].tx \in reached'
  BY <1>1, <1>4, DeleteEffect
<1>5. ASSUME NEW k \in 1..MaxLdk, NEW t \in LdkTxs, LdkBroadcasts(k, t)
      PROVE  call'[by].tx \in reached'
  <2>. DEFINE me == <<"ldk", k>>
  <2>1. /\ call'[me].pc \in {"post", "skipped"}
        /\ \A b \in Callers \ {me} : call'[b] = call[b]
    BY <1>5, LdkEffect
  <2>2. reached' = reached
    BY <1>5 DEF LdkBroadcasts
  <2>. HIDE DEF me
  <2>. QED BY <1>1, <2>1, <2>2
<1>6. CASE DrainBroadcast
  BY <1>1, <1>6, DrainEffect
<1>7. CASE SweepBuild \/ SweepFails \/ SweepDelete
  BY <1>1, <1>7, BuildEffect, SweptEffect
<1>8. ASSUME NEW c \in Channels, FundingTxBroadcastSafe(c) \/ DeleteFunding(c)
      PROVE  call'[by].tx \in reached'
  <2>. DEFINE me == <<"fund", c>>
  <2>1. /\ call'[me].pc # "sent" /\ reached' = reached
        /\ \A b \in Callers \ {me} : call'[b] = call[b]
    BY <1>8, SafeEffect, DeleteFundingEffect
  <2>. HIDE DEF me
  <2>. QED BY <1>1, <2>1
<1>9. CASE Crash
  BY <1>9 DEF Crash, NoCall
<1>. QED BY <1>2, <1>3, <1>4, <1>5, <1>6, <1>7, <1>8, <1>9, NextCases

LEMMA RecordStep ==
  ASSUME CallInv, SentInv, [Next]_vars, NEW t \in records \ records'
  PROVE  \/ t \in reached
         \/ drain = "done" /\ t \in toDrain
         \/ \E by \in Callers : call[by].tx = t /\ call[by].pc = "skipped"
<1>1. CASE \E by \in Callers : DeleteRecord(by)
  <2>1. PICK by \in Callers : DeleteRecord(by)
    BY <1>1
  <2>2. /\ call[by].pc \in {"sent", "skipped"} /\ call[by].tx = t
    BY <2>1, DeleteEffect
  <2>. QED BY <2>2 DEF SentInv
<1>2. CASE \E u \in LdkTxs : ExpireRecord(u)
  BY <1>2 DEF ExpireRecord
<1>3. CASE /\ ~ \E by \in Callers : DeleteRecord(by)
           /\ ~ \E u \in LdkTxs : ExpireRecord(u)
  <2>1. records \subseteq records'
    BY <1>3 DEF Next, vars, ldkVars, Post, PutRecord, LdkBroadcasts, DrainRead,
           DrainBroadcast, SpendableOutputs, StoreOutput, SweepStart, SweepRead,
           SweepBuild, SweepFails, SweepDelete, FundingGenerationReady, StoreFunding,
           ChannelPending, FundingTxBroadcastSafe, DeleteFunding, ChannelClosed,
           DiscardFunding, Crash, Start
  <2>. QED BY <2>1
<1>. QED BY <1>1, <1>2, <1>3

\* For any transactions, attempts, crashes and failures: the record of an LDK
\* broadcast is deleted only when the network took the transaction or refused it
\* for a rival, when it has expired, or by a call told that another posts it
\* (broadcaster.ts 100-120, 146-154).
THEOREM RecordsAreKept == Spec => RecordKept
<1>1. Init => SentInv
  BY DEF Init, SentInv, NoCall
<1>2. Spec => []SentInv
  BY <1>1, SentStep, CallsHold, PTL DEF Spec
<1>3. CallInv /\ SentInv /\ [Next]_vars =>
        [\A t \in records \ records' :
           \/ t \in reached
           \/ drain = "done" /\ t \in toDrain
           \/ \E by \in Callers : call[by].tx = t /\ call[by].pc = "skipped"]_vars
  BY RecordStep
<1>. QED BY <1>2, <1>3, CallsHold, PTL DEF Spec, RecordKept

LEMMA NoOrphanStep == CallInv /\ NoOrphanRecord /\ [Next]_vars => NoOrphanRecord'
<1>. DEFINE At(by, t) == call[by].tx = t /\ call[by].pc \notin {"none", "end"}
            Active(t) == \E by \in LdkCallers \union DrainCallers : At(by, t)
            Cared(t) == drain = "wait" \/ t \in toDrain \/ Active(t)
            K == LdkCallers \union DrainCallers
<1>. SUFFICES ASSUME CallInv, NoOrphanRecord, [Next]_vars,
                     running', NEW t \in records'
              PROVE  Cared(t)'
  BY DEF NoOrphanRecord
<1>. HIDE DEF K
<1>a. running /\ t \in records => Cared(t)
  BY DEF NoOrphanRecord
<1>b. K \subseteq Callers /\ Sweeper \notin K /\ \A c \in Channels : <<"fund", c>> \notin K
  BY CallersDiffer DEF K
<1>c. Active(t) <=> \E by \in K : At(by, t)
  BY DEF K
<1>d. Active(t)' <=> \E by \in K : At(by, t)'
  BY DEF K
<1>. HIDE DEF Active
\* Enough for a step that leaves the calls for LDK's transactions alone.
<1>e. ASSUME running, t \in records, \A by \in K : call'[by] = call[by],
             drain = "wait" => drain' = "wait" \/ t \in toDrain',
             t \in toDrain => t \in toDrain'
      PROVE  Cared(t)'
  BY <1>a, <1>c, <1>d, <1>e
<1>1. CASE UNCHANGED vars
  <2>1. UNCHANGED <<net, ldkVars, env>>
    BY <1>1 DEF vars
  <2>. QED BY <1>b, <1>e, <2>1 DEF net, ldkVars, env
<1>2. ASSUME NEW by \in Callers, Post(by) PROVE Cared(t)'
  <2>1. /\ call[by].pc = "post" /\ call'[by].tx = call[by].tx
        /\ call'[by].pc \in {"post", "failed", "sent"}
        /\ \A b \in Callers \ {by} : call'[b] = call[b]
    BY <1>2, PostEffect, CallInvParts DEF CallInvSplit
  <2>2. UNCHANGED <<ldkVars, running>>
    BY <1>2 DEF Post, env
  <2>3. \A b \in K : At(b, t) => At(b, t)'
    BY <1>b, <2>1
  <2>. QED BY <1>a, <1>c, <1>d, <2>2, <2>3 DEF ldkVars
<1>3. ASSUME NEW by \in Callers, DeleteRecord(by) PROVE Cared(t)'
  <2>1. /\ call'[by].pc \in {"end", "failed"} /\ call'[by].tx = call[by].tx
        /\ call'[by].pc = "end" => records' = records \ {call[by].tx}
        /\ call'[by].pc = "failed" => records' = records
        /\ \A b \in Callers \ {by} : call'[b] = call[b]
    BY <1>3, DeleteEffect
  <2>2. UNCHANGED <<toDrain, drain, running>>
    BY <1>3 DEF DeleteRecord
  <2>3. t \in records /\ \A b \in K : At(b, t) => At(b, t)'
    BY <1>b, <2>1
  <2>. QED BY <1>a, <1>c, <1>d, <2>2, <2>3
<1>4. ASSUME NEW by \in Callers, PutRecord(by) PROVE Cared(t)'
  <2>1. UNCHANGED <<net, toDrain, drain, running>> /\ by \in putting
    BY <1>4 DEF PutRecord
  <2>2. CASE t \in records
    BY <1>b, <1>e, <2>1, <2>2 DEF net
  <2>3. CASE t \notin records
    <3>1. call[by].tx = t
      BY <1>4, <2>3 DEF PutRecord
    <3>2. by \in K /\ call[by].pc \notin {"none", "end"}
      BY <2>1, CallInvParts DEF CallInvSplit, LdkType, PuttingInv, K
    <3>. QED BY <1>d, <2>1, <3>1, <3>2 DEF net
  <2>. QED BY <2>2, <2>3
<1>5. ASSUME NEW k \in 1..MaxLdk, NEW u \in LdkTxs, LdkBroadcasts(k, u) PROVE Cared(t)'
  <2>. DEFINE me == <<"ldk", k>>
  <2>1. call[me].pc = "none" /\ \A by \in Callers \ {me} : call'[by] = call[by]
    BY <1>5, LdkEffect
  <2>2. UNCHANGED <<records, toDrain, drain, running>>
    BY <1>5 DEF LdkBroadcasts, env
  <2>. HIDE DEF me
  <2>3. \A b \in K : At(b, t) => At(b, t)'
    BY <1>b, <2>1
  <2>. QED BY <1>a, <1>c, <1>d, <2>2, <2>3
<1>6. CASE DrainRead
  BY <1>b, <1>e, <1>6 DEF DrainRead, net, env
<1>7. CASE DrainBroadcast
  <2>1. UNCHANGED <<records, running>> /\ drain = "read"
    BY <1>7 DEF DrainBroadcast, env
  <2>2. CASE t \in toDrain \ toDrain'
    <3>1. PICK by \in DrainCallers : call'[by].tx = t /\ call'[by].pc \in {"post", "skipped"}
      BY <1>7, <2>2, DrainEffect
    <3>2. by \in K
      BY DEF K
    <3>. QED BY <1>d, <3>1, <3>2
  <2>3. CASE t \in toDrain'
    BY <2>3
  <2>4. CASE t \notin toDrain
    <3>1. PICK by \in K : At(by, t)
      BY <1>a, <1>c, <2>1, <2>4
    <3>2. call'[by] = call[by]
      BY <1>7, <1>b, <3>1, DrainEffect
    <3>. QED BY <1>d, <3>1, <3>2
  <2>. QED BY <2>2, <2>3, <2>4
<1>8. ASSUME NEW u \in LdkTxs, ExpireRecord(u) PROVE Cared(t)'
  <2>1. t # u /\ UNCHANGED <<net, drain, env>> /\ toDrain' = toDrain \ {u} /\ t \in records
    BY <1>8 DEF ExpireRecord
  <2>. QED BY <1>b, <1>e, <2>1 DEF net, env
<1>9. CASE \/ \E o \in Outputs : SpendableOutputs(o) \/ StoreOutput(o)
           \/ SweepStart \/ SweepRead
           \/ \E c \in Channels :
                \/ FundingGenerationReady(c) \/ StoreFunding(c) \/ ChannelPending(c)
                \/ ChannelClosed(c) \/ DiscardFunding(c)
  <2>1. UNCHANGED <<net, ldkVars, running>>
    BY <1>9 DEF SpendableOutputs, StoreOutput, SweepStart, SweepRead,
           FundingGenerationReady, StoreFunding, ChannelPending, ChannelClosed,
           DiscardFunding, env
  <2>. QED BY <1>b, <1>e, <2>1 DEF net, ldkVars
<1>10. CASE SweepBuild \/ SweepFails \/ SweepDelete
  <2>1. UNCHANGED <<ldkVars, running>>
    BY <1>10 DEF SweepBuild, SweepFails, SweepDelete, env
  <2>2. \A by \in K : call'[by] = call[by]
    BY <1>10, <1>b, BuildEffect, SweptEffect
  <2>. QED BY <1>e, <2>1, <2>2 DEF ldkVars
<1>11. ASSUME NEW c \in Channels, FundingTxBroadcastSafe(c) \/ DeleteFunding(c)
       PROVE  Cared(t)'
  <2>1. UNCHANGED <<ldkVars, running>>
    BY <1>11 DEF FundingTxBroadcastSafe, DeleteFunding, env
  <2>2. \A by \in Callers \ {<<"fund", c>>} : call'[by] = call[by]
    BY <1>11, SafeEffect, DeleteFundingEffect
  <2>. QED BY <1>b, <1>e, <2>1, <2>2 DEF ldkVars
<1>12. CASE Crash
  BY <1>12 DEF Crash
<1>13. CASE Start
  <2>1. drain = "wait" /\ drain' = drain
    BY <1>13, CallInvParts DEF Start, ldkVars, CallInvSplit, PhaseInv
  <2>. QED BY <2>1
<1>. QED BY <1>1, <1>2, <1>3, <1>4, <1>5, <1>6, <1>7, <1>8, <1>9, <1>10, <1>11, <1>12, <1>13
         DEF Next

\* No record of a broadcast is left without a drain to come or a call that knows
\* of it (broadcaster.ts 100-103).
THEOREM NoRecordOrphaned == Spec => []NoOrphanRecord
<1>1. Init => NoOrphanRecord
  BY DEF Init, NoOrphanRecord
<1>. QED BY <1>1, NoOrphanStep, CallsHold, PTL DEF Spec

-----------------------------------------------------------------------------
(* Funding transactions.                                                   *)

\* Only the caller of a channel's funding posts a transaction that spends its output.
LEMMA WhoSpends ==
  ASSUME CallInv, NEW by \in Callers, call[by].pc # "none", NEW c \in Channels,
         c \in call[by].tx.spends
  PROVE  by = <<"fund", c>> /\ call[by].tx = FundingTx(c)
<1>. USE TransactionsAssumption DEF TransactionsAssumption
<1>1. by \notin LdkCallers \union DrainCallers
  BY CallInvParts DEF CallInvSplit, KindInv
<1>2. by # Sweeper
  BY CallInvParts DEF CallInvSplit, KindInv
<1>3. PICK d \in Channels : by = <<"fund", d>>
  BY <1>1, <1>2, CallersDiffer
<1>4. call[by].tx = FundingTx(d) /\ FundingTx(d).spends = {d}
  BY <1>3, CallInvParts DEF CallInvSplit, KindInv, FundingTx
<1>. QED BY <1>3, <1>4

LEMMA FundingSpends == \A c \in Channels : FundingTx(c).spends = {c}
  BY DEF FundingTx

LEMMA PostPool ==
  ASSUME CallInv, OnlyFunding, NEW by \in Callers, Post(by)
  PROVE  /\ OnlyFunding'
         /\ \A c \in Channels : FundingTx(c) \in pool => FundingTx(c) \in pool'
         /\ \A c \in Channels :
              by = <<"fund", c>> /\ call'[by].pc = "sent" => FundingTx(c) \in pool'
<1>. PICK r \in Replies(call[by].tx) :
       /\ pool' = r[2]
       /\ IF r[1] = "error" /\ call[by].left > 1
          THEN call' = [call EXCEPT ![by].left = @ - 1]
          ELSE call' = [call EXCEPT ![by].pc = IF r[1] = "error" THEN "failed" ELSE "sent"]
  BY DEF Post
<1>1. /\ call \in [Callers -> Call] /\ call[by].tx \in Tx /\ pool \subseteq Tx
      /\ call[by].pc = "post" /\ call[by] \in Call
  BY CallInvParts DEF CallInvSplit, NetInv, NetType, Call, Post
<1>2. /\ pool' \subseteq pool \union {call[by].tx}
      /\ pool \ Rivals(call[by].tx) \subseteq pool'
      /\ r[1] = "ok" => call[by].tx \in pool'
      /\ r[1] = "known" => call[by].tx \in pool' \/ Rivals(call[by].tx) # {}
      /\ r[1] \in {"ok", "error", "known"}
  BY <1>1, RepliesType
<1>3. OnlyFunding'
  <2>. SUFFICES ASSUME NEW u \in pool', NEW c \in Channels, c \in u.spends
                PROVE  u = FundingTx(c)
    BY DEF OnlyFunding
  <2>1. CASE u \in pool
    BY <2>1 DEF OnlyFunding
  <2>2. CASE u = call[by].tx
    BY <2>2, <1>1, WhoSpends
  <2>. QED BY <1>2, <2>1, <2>2
<1>4. ASSUME NEW c \in Channels, FundingTx(c) \in pool PROVE FundingTx(c) \in pool'
  <2>1. CASE FundingTx(c) \in Rivals(call[by].tx)
    <3>1. c \in call[by].tx.spends /\ FundingTx(c) # call[by].tx
      BY <2>1, FundingSpends DEF Rivals
    <3>. QED BY <3>1, <1>1, WhoSpends
  <2>. QED BY <2>1, <1>2, <1>4
<1>5. ASSUME NEW c \in Channels, by = <<"fund", c>>, call'[by].pc = "sent"
      PROVE  FundingTx(c) \in pool'
  <2>1. call[by].tx = FundingTx(c)
    BY <1>1, <1>5, CallInvParts DEF CallInvSplit, KindInv
  <2>2. Rivals(call[by].tx) = {}
    <3>. SUFFICES ASSUME NEW u \in pool, u # FundingTx(c), c \in u.spends PROVE FALSE
      BY <2>1, FundingSpends DEF Rivals
    <3>. QED BY DEF OnlyFunding
  <2>3. r[1] # "error"
    <3>. SUFFICES ASSUME r[1] = "error" PROVE FALSE
      OBVIOUS
    <3>1. \/ call' = [call EXCEPT ![by].left = @ - 1]
          \/ call' = [call EXCEPT ![by].pc = "failed"]
      OBVIOUS
    <3>2. call'[by].pc \in {"post", "failed"}
      BY <3>1, <1>1 DEF Call
    <3>. QED BY <3>2, <1>5
  <2>. QED BY <1>2, <2>1, <2>2, <2>3
<1>. QED BY <1>3, <1>4, <1>5

FundingParts(c) ==
  /\ fund[c] \in {"generated", "safe"} => c \in fundRec \/ FundingTx(c) \in pool
  /\ call[<<"fund", c>>].pc # "skipped"
  /\ call[<<"fund", c>>].pc \in {"sent", "end"} => FundingTx(c) \in pool

LEMMA FundingStep == CallInv /\ FundingInv /\ [Next]_vars => FundingInv'
<1>. SUFFICES ASSUME CallInv, OnlyFunding, FundingSafe, [Next]_vars
              PROVE  OnlyFunding' /\ \A c \in Channels : FundingParts(c)'
  BY DEF FundingInv, FundingSafe, FundingParts
<1>a. \A c \in Channels : FundingParts(c)
  BY DEF FundingSafe, FundingParts
\* Enough for a step that leaves the pool and the calls of funding alone.
<1>b. ASSUME UNCHANGED pool,
             \A c \in Channels :
               /\ call'[<<"fund", c>>] = call[<<"fund", c>>]
               /\ fund'[c] \in {"generated", "safe"} =>
                    \/ c \in fundRec'
                    \/ fund[c] \in {"generated", "safe"} /\ (c \in fundRec => c \in fundRec')
      PROVE  OnlyFunding' /\ \A c \in Channels : FundingParts(c)'
  BY <1>a, <1>b DEF OnlyFunding, FundingParts
<1>c. \A c \in Channels : <<"fund", c>> \in Callers /\ <<"fund", c>> # Sweeper
                         /\ <<"fund", c>> \notin LdkCallers \union DrainCallers
  BY CallersDiffer
<1>1. CASE UNCHANGED vars
  <2>1. UNCHANGED <<net, fundVars>>
    BY <1>1 DEF vars
  <2>. QED BY <1>b, <2>1 DEF net, fundVars
<1>2. ASSUME NEW by \in Callers, Post(by)
      PROVE  OnlyFunding' /\ \A c \in Channels : FundingParts(c)'
  <2>1. /\ call[by].pc = "post" /\ call'[by].pc \in {"post", "failed", "sent"}
        /\ \A b \in Callers \ {by} : call'[b] = call[b]
    BY <1>2, PostEffect, CallInvParts DEF CallInvSplit
  <2>2. /\ OnlyFunding'
        /\ \A c \in Channels : FundingTx(c) \in pool => FundingTx(c) \in pool'
        /\ \A c \in Channels :
             by = <<"fund", c>> /\ call'[by].pc = "sent" => FundingTx(c) \in pool'
    BY <1>2, PostPool
  <2>3. UNCHANGED fundVars
    BY <1>2 DEF Post
  <2>4. ASSUME NEW c \in Channels PROVE FundingParts(c)'
    <3>1. CASE by = <<"fund", c>>
      BY <3>1, <1>a, <2>1, <2>2, <2>3 DEF FundingParts, fundVars
    <3>2. CASE by # <<"fund", c>>
      BY <3>2, <1>a, <1>c, <2>1, <2>2, <2>3 DEF FundingParts, fundVars
    <3>. QED BY <3>1, <3>2
  <2>. QED BY <2>2, <2>4
<1>3. CASE \/ \E by \in Callers : DeleteRecord(by) \/ PutRecord(by)
           \/ \E k \in 1..MaxLdk, t \in LdkTxs : LdkBroadcasts(k, t)
           \/ DrainRead \/ DrainBroadcast \/ \E t \in LdkTxs : ExpireRecord(t)
           \/ \E o \in Outputs : SpendableOutputs(o) \/ StoreOutput(o)
           \/ SweepStart \/ SweepRead \/ SweepBuild \/ SweepFails \/ SweepDelete
           \/ Start
  <2>1. UNCHANGED <<pool, fundVars>>
    BY <1>3
       DEF DeleteRecord, CallEnds, PutRecord, LdkBroadcasts, DrainRead, DrainBroadcast,
           ExpireRecord, SpendableOutputs, StoreOutput, SweepStart, SweepRead, SweepBuild,
           SweepFails, SweepDelete, Start, net
  <2>2. ASSUME NEW c \in Channels PROVE call'[<<"fund", c>>] = call[<<"fund", c>>]
    <3>1. ASSUME NEW by \in Callers, DeleteRecord(by)
          PROVE  call'[<<"fund", c>>] = call[<<"fund", c>>]
      BY <3>1, <1>c, DeleteEffect
    <3>2. ASSUME NEW k \in 1..MaxLdk, NEW t \in LdkTxs, LdkBroadcasts(k, t)
          PROVE  call'[<<"fund", c>>] = call[<<"fund", c>>]
      <4>. DEFINE me == <<"ldk", k>>
      <4>1. me \in LdkCallers /\ \A b \in Callers \ {me} : call'[b] = call[b]
        BY <3>2, LdkEffect
      <4>. HIDE DEF me
      <4>. QED BY <4>1, <1>c
    <3>3. CASE DrainBroadcast
      BY <3>3, <1>c, DrainEffect
    <3>4. CASE SweepBuild \/ SweepFails \/ SweepDelete
      BY <3>4, <1>c, BuildEffect, SweptEffect
    <3>5. CASE \/ \E by \in Callers : PutRecord(by)
               \/ DrainRead \/ \E t \in LdkTxs : ExpireRecord(t)
               \/ \E o \in Outputs : SpendableOutputs(o) \/ StoreOutput(o)
               \/ SweepStart \/ SweepRead \/ Start
      BY <3>5 DEF PutRecord, DrainRead, ExpireRecord, SpendableOutputs, StoreOutput,
             SweepStart, SweepRead, Start, net
    <3>. QED BY <1>3, <3>1, <3>2, <3>3, <3>4, <3>5
  <2>. QED BY <1>b, <2>1, <2>2 DEF fundVars
<1>4. ASSUME NEW d \in Channels,
             \/ FundingGenerationReady(d) \/ StoreFunding(d) \/ ChannelPending(d)
             \/ ChannelClosed(d) \/ DiscardFunding(d)
      PROVE  OnlyFunding' /\ \A c \in Channels : FundingParts(c)'
  <2>1. UNCHANGED net
    BY <1>4 DEF FundingGenerationReady, StoreFunding, ChannelPending, ChannelClosed,
           DiscardFunding
  <2>2. fund \in [Channels -> {"none", "put", "generated", "aborted", "safe", "unused",
                              "closed"}] /\ fundRec \subseteq Channels
    BY CallInvParts DEF CallInvSplit, FundType
  <2>3. ASSUME NEW c \in Channels, fund'[c] \in {"generated", "safe"}
        PROVE  \/ c \in fundRec'
               \/ fund[c] \in {"generated", "safe"} /\ (c \in fundRec => c \in fundRec')
    <3>1. CASE FundingGenerationReady(d) \/ ChannelPending(d)
      BY <3>1, <2>2, <2>3 DEF FundingGenerationReady, ChannelPending
    <3>2. CASE StoreFunding(d)
      BY <3>2, <2>2, <2>3 DEF StoreFunding
    <3>3. CASE ChannelClosed(d)
      BY <3>3, <2>2, <2>3 DEF ChannelClosed
    <3>4. CASE DiscardFunding(d)
      BY <3>4, <2>2, <2>3 DEF DiscardFunding
    <3>. QED BY <1>4, <3>1, <3>2, <3>3, <3>4
  <2>. QED BY <1>b, <2>1, <2>3 DEF net
<1>5. ASSUME NEW d \in Channels, FundingTxBroadcastSafe(d)
      PROVE  OnlyFunding' /\ \A c \in Channels : FundingParts(c)'
  <2>. DEFINE me == <<"fund", d>>
  <2>1. /\ UNCHANGED pool /\ call'[me].pc \in {"none", "post", "skipped"}
        /\ call'[me].pc = "skipped" =>
             \E b \in Callers : call[b].pc = "post" /\ call[b].tx = FundingTx(d)
        /\ \A b \in Callers \ {me} : call'[b] = call[b]
        /\ call[me].pc = "none"
    BY <1>5, SafeEffect
  <2>2. call'[me].pc # "skipped"
    <3>. SUFFICES ASSUME NEW b \in Callers, call[b].pc = "post", call[b].tx = FundingTx(d)
                  PROVE  FALSE
      BY <2>1
    <3>1. d \in call[b].tx.spends
      BY FundingSpends
    <3>2. b = me
      BY <3>1, WhoSpends
    <3>. QED BY <3>2, <2>1
  <2>3. /\ fund' = [fund EXCEPT ![d] = "safe"] /\ fund[d] = "generated"
        /\ UNCHANGED fundRec
    BY <1>5 DEF FundingTxBroadcastSafe
  <2>4. OnlyFunding'
    BY <2>1 DEF OnlyFunding
  <2>5. ASSUME NEW c \in Channels PROVE FundingParts(c)'
    <3>1. fund'[c] \in {"generated", "safe"} => fund[c] \in {"generated", "safe"}
      BY <2>3, CallInvParts DEF CallInvSplit, FundType
    <3>2. CASE c = d
      BY <3>1, <3>2, <1>a, <2>1, <2>2, <2>3 DEF FundingParts
    <3>3. CASE c # d
      <4>1. call'[<<"fund", c>>] = call[<<"fund", c>>]
        BY <3>3, <1>c, <2>1, CallersDiffer
      <4>. QED BY <3>1, <4>1, <1>a, <2>1, <2>3 DEF FundingParts
    <3>. QED BY <3>2, <3>3
  <2>. QED BY <2>4, <2>5
<1>6. ASSUME NEW d \in Channels, DeleteFunding(d)
      PROVE  OnlyFunding' /\ \A c \in Channels : FundingParts(c)'
  <2>. DEFINE me == <<"fund", d>>
  <2>1. /\ UNCHANGED pool /\ call[me].pc \in {"sent", "skipped"} /\ call'[me].pc = "end"
        /\ \A b \in Callers \ {me} : call'[b] = call[b]
    BY <1>6, DeleteFundingEffect
  <2>2. UNCHANGED fund /\ fundRec' \in {fundRec, fundRec \ {d}}
    BY <1>6 DEF DeleteFunding
  <2>3. FundingTx(d) \in pool
    BY <1>a, <2>1 DEF FundingParts
  <2>4. OnlyFunding'
    BY <2>1 DEF OnlyFunding
  <2>5. ASSUME NEW c \in Channels PROVE FundingParts(c)'
    <3>1. CASE c = d
      BY <3>1, <1>a, <2>1, <2>2, <2>3 DEF FundingParts
    <3>2. CASE c # d
      <4>1. call'[<<"fund", c>>] = call[<<"fund", c>>]
        BY <3>2, <1>c, <2>1, CallersDiffer
      <4>. QED BY <3>2, <4>1, <1>a, <2>1, <2>2 DEF FundingParts
    <3>. QED BY <3>1, <3>2
  <2>. QED BY <2>4, <2>5
<1>7. CASE Crash
  <2>1. UNCHANGED <<pool, fundRec>> /\ \A by \in Callers : call'[by].pc = "none"
    BY <1>7 DEF Crash, NoCall
  <2>2. ASSUME NEW c \in Channels, fund'[c] \in {"generated", "safe"}
        PROVE  fund[c] \in {"generated", "safe"}
    BY <1>7, <2>2 DEF Crash
  <2>3. OnlyFunding'
    BY <2>1 DEF OnlyFunding
  <2>. QED BY <1>a, <1>c, <2>1, <2>2, <2>3 DEF FundingParts
<1>. QED BY <1>1, <1>2, <1>3, <1>4, <1>5, <1>6, <1>7 DEF Next

\* For any number of channels, crashes and failures: when LDK asks for the broadcast
\* of a funding transaction, it is stored or the network has it
\* (event-handler.ts 445-461, 664-676).
THEOREM FundingIsFound == Spec => []FundingFindsTx
<1>1. Init => FundingInv
  BY CallersDiffer DEF Init, FundingInv, OnlyFunding, FundingSafe, NoCall
<1>2. FundingInv => FundingFindsTx
  BY DEF FundingInv, FundingSafe, FundingFindsTx
<1>. QED BY <1>1, <1>2, FundingStep, CallsHold, PTL DEF Spec

-----------------------------------------------------------------------------
(* The sweep.                                                              *)

LEMMA SweepInvStep == CallInv /\ SweepInv /\ [Next]_vars => SweepInv'
<1>. SUFFICES ASSUME CallInv, SweepInv, [Next]_vars, sweep' = "send"
              PROVE  Swept'
  BY DEF SweepInv
\* Enough for a step that leaves sweep, entries and the sweeper's call alone.
<1>0. scope' = scope
  BY DEF Next, Post, DeleteRecord, PutRecord, LdkBroadcasts, DrainRead, DrainBroadcast,
         ExpireRecord, SpendableOutputs, StoreOutput, SweepStart, SweepRead, SweepBuild,
         SweepFails, SweepDelete, FundingGenerationReady, StoreFunding, ChannelPending,
         FundingTxBroadcastSafe, DeleteFunding, ChannelClosed, DiscardFunding, Crash,
         Start, env, vars
<1>a. ASSUME sweep = "send", entries' = entries,
             call'[Sweeper] = call[Sweeper]
      PROVE  Swept'
  BY <1>0, <1>a DEF SweepInv, Swept
<1>b. /\ Sweeper \in Callers /\ Sweeper \notin LdkCallers \union DrainCallers
      /\ \A c \in Channels : Sweeper # <<"fund", c>>
  BY CallersDiffer
<1>1. CASE UNCHANGED vars
  BY <1>1, <1>a DEF vars, net, sweepVars
<1>2. ASSUME NEW by \in Callers, Post(by)
      PROVE  Swept'
  <2>1. /\ call'[by].tx = call[by].tx /\ call'[by].pc # "none"
        /\ \A b \in Callers \ {by} : call'[b] = call[b]
    BY <1>2, PostEffect, CallInvParts DEF CallInvSplit
  <2>2. UNCHANGED <<sweep, entries>>
    BY <1>2 DEF Post, sweepVars
  <2>. QED BY <1>0, <1>b, <2>1, <2>2 DEF SweepInv, Swept
<1>3. CASE SweepBuild
  BY <1>0, <1>3, BuildEffect DEF Swept, Readable
<1>4. CASE SweepRead \/ SweepFails \/ SweepDelete \/ SweepStart \/ Crash
  BY <1>4 DEF SweepRead, SweepFails, SweepDelete, SweepStart, Crash
<1>5. CASE \/ \E by \in Callers : DeleteRecord(by) \/ PutRecord(by)
           \/ \E k \in 1..MaxLdk, t \in LdkTxs : LdkBroadcasts(k, t)
           \/ DrainRead \/ DrainBroadcast \/ \E t \in LdkTxs : ExpireRecord(t)
           \/ \E o \in Outputs : SpendableOutputs(o) \/ StoreOutput(o)
           \/ \E c \in Channels :
                \/ FundingGenerationReady(c) \/ StoreFunding(c) \/ ChannelPending(c)
                \/ FundingTxBroadcastSafe(c) \/ DeleteFunding(c)
                \/ ChannelClosed(c) \/ DiscardFunding(c)
           \/ Start
  <2>1. sweep = "send" /\ UNCHANGED entries
    BY <1>5 DEF DeleteRecord, PutRecord, LdkBroadcasts, DrainRead, DrainBroadcast,
           ExpireRecord, SpendableOutputs, StoreOutput, FundingGenerationReady,
           StoreFunding, ChannelPending, FundingTxBroadcastSafe, DeleteFunding,
           ChannelClosed, DiscardFunding, Start, sweepVars
  <2>2. call'[Sweeper] = call[Sweeper]
    <3>1. ASSUME NEW by \in Callers, DeleteRecord(by)
          PROVE  call'[Sweeper] = call[Sweeper]
      BY <3>1, <1>b, DeleteEffect
    <3>2. ASSUME NEW k \in 1..MaxLdk, NEW t \in LdkTxs, LdkBroadcasts(k, t)
          PROVE  call'[Sweeper] = call[Sweeper]
      <4>. DEFINE me == <<"ldk", k>>
      <4>1. me \in LdkCallers /\ \A b \in Callers \ {me} : call'[b] = call[b]
        BY <3>2, LdkEffect
      <4>. HIDE DEF me
      <4>. QED BY <4>1, <1>b
    <3>3. CASE DrainBroadcast
      BY <3>3, <1>b, DrainEffect
    <3>4. ASSUME NEW c \in Channels, FundingTxBroadcastSafe(c) \/ DeleteFunding(c)
          PROVE  call'[Sweeper] = call[Sweeper]
      <4>. DEFINE me == <<"fund", c>>
      <4>1. me # Sweeper /\ \A b \in Callers \ {me} : call'[b] = call[b]
        BY <3>4, <1>b, SafeEffect, DeleteFundingEffect
      <4>. HIDE DEF me
      <4>. QED BY <4>1, <1>b
    <3>5. CASE UNCHANGED net
      BY <3>5 DEF net
    <3>. QED BY <1>5, <3>1, <3>2, <3>3, <3>4, <3>5
         DEF PutRecord, DrainRead, ExpireRecord, SpendableOutputs, StoreOutput,
             FundingGenerationReady, StoreFunding, ChannelPending, ChannelClosed,
             DiscardFunding, Start
  <2>. QED BY <1>a, <2>1, <2>2
<1>. QED BY <1>1, <1>2, <1>3, <1>4, <1>5 DEF Next

\* A sweep deletes only descriptors of outputs its transaction spends, whatever else
\* it read and had to skip and whatever was announced and stored meanwhile (sweep.ts
\* 47-79, 134).
THEOREM OnlySweptAreDeleted == Spec => OnlySweptDeleted
<1>1. Init => SweepInv
  BY DEF Init, SweepInv
<1>2. SweepInv /\ [Next]_vars =>
        [stored \ stored' \subseteq call[Sweeper].tx.spends \ scope.unreadable]_vars
  <2>. SUFFICES ASSUME SweepInv, Next
                PROVE  stored \ stored' \subseteq
                         call[Sweeper].tx.spends \ scope.unreadable
    OBVIOUS
  <2>1. CASE SweepDelete
    BY <2>1 DEF SweepDelete, SweepInv, Swept
  <2>2. CASE ~ SweepDelete
    <3>1. stored \subseteq stored'
      BY <2>2 DEF Next, Post, DeleteRecord, PutRecord, LdkBroadcasts, DrainRead,
             DrainBroadcast, ExpireRecord, SpendableOutputs, StoreOutput, SweepStart,
             SweepRead, SweepBuild, SweepFails, FundingGenerationReady, StoreFunding,
             ChannelPending, FundingTxBroadcastSafe, DeleteFunding, ChannelClosed,
             DiscardFunding, Crash, Start, sweepVars
    <3>. QED BY <3>1
  <2>. QED BY <2>1, <2>2
<1>. QED BY <1>1, <1>2, SweepInvStep, CallsHold, PTL DEF Spec, OnlySweptDeleted
=============================================================================
