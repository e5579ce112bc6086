------------------------ MODULE MonitorPersistProofs ------------------------
(***************************************************************************)
(* Proofs about MonitorPersist for any set of channels and any bounds:     *)
(* type correctness, the inductive invariant NoRollback, the durability of *)
(* what was acknowledged, and the refinement of DurableStore.              *)
(***************************************************************************)
EXTENDS MonitorPersist, SequenceTheorems, TLAPS

-----------------------------------------------------------------------------
(* Types.  That Head(queue[c]) is a snapshot needs that a worker which is  *)
(* not idle has a write to do, so the two are proved together.             *)

WorkerBusy == \A c \in Channels : pc[c] = "idle" <=> queue[c] = <<>>

TypeInv == TypeOK /\ WorkerBusy

LEMMA TypeInit == Init => TypeInv
<1>. SUFFICES ASSUME Init PROVE TypeInv
  OBVIOUS
<1>. USE ConstantsAssumption DEF ConstantsAssumption, Init
<1>1. queue \in [Channels -> Seq(Nat)]
  OBVIOUS
<1>2. got \in [Channels -> Object] /\ vss \in [Channels -> Object]
  BY DEF Object, Absent
<1>3. pc \in [Channels -> Phases]
  BY DEF Phases
<1>4. late \in [Channels -> SUBSET Object]
  OBVIOUS
<1>5. ASSUME NEW c \in Channels
      PROVE  retries[c] <= MaxConflictRetries /\ waits[c] <= DegradedAfter
  <2>1. retries[c] = 0 /\ waits[c] = 0
    OBVIOUS
  <2>. QED BY <2>1
<1>6. TypeOK
  BY <1>1, <1>2, <1>3, <1>4, <1>5 DEF TypeOK
<1>7. WorkerBusy
  BY DEF WorkerBusy
<1>. QED BY <1>6, <1>7 DEF TypeInv

\* A busy worker's snapshot is a number, and its request an object.
LEMMA CurrentType ==
  ASSUME TypeInv, NEW c \in Channels, pc[c] # "idle"
  PROVE  /\ queue[c] # <<>>
         /\ Current(c) \in Nat
         /\ Current(c) = queue[c][1]
         /\ Len(queue[c]) \in Nat \ {0}
         /\ Tail(queue[c]) \in Seq(Nat)
         /\ Request(c) \in Object
<1>1. queue[c] \in Seq(Nat) /\ queue[c] # <<>>
  BY DEF TypeInv, TypeOK, WorkerBusy
<1>2. Current(c) \in Nat /\ Current(c) = queue[c][1]
  BY <1>1 DEF Current
<1>3. Len(queue[c]) \in Nat \ {0} /\ Tail(queue[c]) \in Seq(Nat)
  BY <1>1
<1>4. Request(c) \in Object
  BY <1>2 DEF Request, Object, TypeInv, TypeOK
<1>. QED BY <1>1, <1>2, <1>3, <1>4

LEMMA AppliedType ==
  ASSUME NEW obj \in Object, NEW r \in Object
  PROVE  Applied(obj, r) \in Object
  BY DEF Applied, CanApply, Object

LEMMA TypeStep == TypeInv /\ [Next]_vars => TypeInv'
<1>. SUFFICES ASSUME TypeInv, [Next]_vars PROVE TypeInv'
  OBVIOUS
<1>. USE ConstantsAssumption DEF ConstantsAssumption, TypeInv, TypeOK, WorkerBusy, Phases, stores, screen
<1>1. ASSUME NEW c \in Channels, Persist(c) PROVE TypeInv'
  <2>. USE <1>1 DEF Persist
  <2>1. latest' \in [Channels -> Nat] /\ queue' \in [Channels -> Seq(Nat)]
    OBVIOUS
  <2>2. pc' \in [Channels -> Phases]
    OBVIOUS
  <2>3. WorkerBusy'
    OBVIOUS
  <2>. QED BY <2>1, <2>2, <2>3
<1>2. ASSUME NEW c \in Channels, SendPut(c) PROVE TypeInv'
  BY <1>2 DEF SendPut
<1>3. ASSUME NEW c \in Channels, ServerPut(c) PROVE TypeInv'
  BY <1>3, CurrentType, AppliedType DEF ServerPut
<1>4. ASSUME NEW c \in Channels, PutReply(c) PROVE TypeInv'
  BY <1>4 DEF PutReply
<1>5. ASSUME NEW c \in Channels, PutFails(c) PROVE TypeInv'
  <2>1. late' \in [Channels -> SUBSET Object]
    BY <1>5, CurrentType DEF PutFails
  <2>2. pc' \in [Channels -> Phases]
    BY <1>5 DEF PutFails
  <2>3. WorkerBusy'
    BY <1>5 DEF PutFails
  <2>4. /\ UNCHANGED <<latest, queue, retries, waits, cache, got, vss, idb, acked,
                      ready, vssStatus, reloads>>
        /\ faults' \in Nat
    BY <1>5 DEF PutFails
  <2>. QED BY <2>1, <2>2, <2>3, <2>4
<1>6. ASSUME NEW c \in Channels, LateLands(c) PROVE TypeInv'
  BY <1>6, AppliedType DEF LateLands
<1>7. ASSUME NEW c \in Channels, ConflictReply(c) PROVE TypeInv'
  <2>1. CASE retries[c] < MaxConflictRetries
    <3>1. /\ retries' = [retries EXCEPT ![c] = @ + 1]
          /\ pc' = [pc EXCEPT ![c] = "get"]
      BY <1>7, <2>1 DEF ConflictReply
    <3>. QED BY <1>7, <2>1, <3>1 DEF ConflictReply
  <2>2. CASE ~(retries[c] < MaxConflictRetries)
    BY <1>7, <2>2 DEF ConflictReply
  <2>. QED BY <2>1, <2>2
<1>8. ASSUME NEW c \in Channels, ServerGet(c) PROVE TypeInv'
  BY <1>8 DEF ServerGet
<1>9. ASSUME NEW c \in Channels, GetReply(c) PROVE TypeInv'
  BY <1>9 DEF GetReply, Object
<1>10. ASSUME NEW c \in Channels, GetFails(c) PROVE TypeInv'
  BY <1>10 DEF GetFails
<1>11. ASSUME NEW c \in Channels, IdbCommit(c) PROVE TypeInv'
  BY <1>11, CurrentType DEF IdbCommit
<1>12. ASSUME NEW c \in Channels, IdbFails(c) PROVE TypeInv'
  BY <1>12 DEF IdbFails
<1>13. ASSUME NEW c \in Channels, Ack(c) PROVE TypeInv'
  <2>. USE <1>13 DEF Ack
  <2>1. acked' \in [Channels -> Nat]
    BY CurrentType
  <2>2. queue' \in [Channels -> Seq(Nat)]
    BY CurrentType
  <2>3. pc' \in [Channels -> Phases]
    BY CurrentType
  <2>4. WorkerBusy'
    BY CurrentType
  <2>5. retries' \in [Channels -> Nat] /\ waits' \in [Channels -> Nat]
    OBVIOUS
  <2>6. (\A d \in Channels :
         retries[d] <= MaxConflictRetries /\ waits[d] <= DegradedAfter)'
    OBVIOUS
  <2>. QED BY <2>1, <2>2, <2>3, <2>4, <2>5, <2>6
<1>14. ASSUME NEW c \in Channels, Wake(c) PROVE TypeInv'
  BY <1>14 DEF Wake, Notified
<1>15. CASE BecomeReady
  BY <1>15 DEF BecomeReady
<1>16. CASE Reload
  <2>1. late' \in [Channels -> SUBSET Object]
    BY <1>16, CurrentType DEF Reload
  <2>2. queue' \in [Channels -> Seq(Nat)]
    BY <1>16 DEF Reload
  <2>3. pc' \in [Channels -> Phases]
    BY <1>16 DEF Reload
  <2>4. WorkerBusy'
    BY <1>16 DEF Reload
  <2>5. cache' \in [Channels -> Nat]
    BY <1>16 DEF Reload, Object
  <2>6. got' \in [Channels -> Object]
    BY <1>16 DEF Reload, Object, Absent
  <2>7. retries' \in [Channels -> Nat] /\ waits' \in [Channels -> Nat]
    BY <1>16 DEF Reload
  <2>8. (\A d \in Channels :
         retries[d] <= MaxConflictRetries /\ waits[d] <= DegradedAfter)'
    BY <1>16 DEF Reload
  <2>9. /\ UNCHANGED <<latest, vss, idb, acked, faults>>
        /\ ready' = FALSE /\ vssStatus' = "ok" /\ reloads' \in Nat
    BY <1>16 DEF Reload
  <2>. QED BY <2>1, <2>2, <2>3, <2>4, <2>5, <2>6, <2>7, <2>8, <2>9
<1>17. CASE UNCHANGED vars
  BY <1>17 DEF vars
<1>. QED
  BY <1>1, <1>2, <1>3, <1>4, <1>5, <1>6, <1>7, <1>8, <1>9, <1>10, <1>11, <1>12,
     <1>13, <1>14, <1>15, <1>16, <1>17 DEF Next, Progress, Disturb

\* Every variable has its type in every reachable state.
THEOREM TypeCorrect == Spec => []TypeOK
<1>1. TypeInv => TypeOK
  BY DEF TypeInv
<1>. QED BY <1>1, TypeInit, TypeStep, PTL DEF Spec

-----------------------------------------------------------------------------
(* The inductive invariant.  Each action touches one channel (Reload does  *)
(* the same to each), so the step is proved for that channel and framed    *)
(* for the others.                                                         *)

ChannelInv(c) == QueueInv(c) /\ KnownInv(c) /\ SafeInv(c)

\* What ChannelInv(c) reads is unchanged.
SameChannel(c) ==
  /\ latest'[c] = latest[c] /\ queue'[c] = queue[c] /\ pc'[c] = pc[c]
  /\ cache'[c] = cache[c]   /\ got'[c] = got[c]     /\ vss'[c] = vss[c]
  /\ late'[c] = late[c]     /\ idb'[c] = idb[c]     /\ acked'[c] = acked[c]

LEMMA Frame ==
  ASSUME NEW c \in Channels, ChannelInv(c), SameChannel(c)
  PROVE  ChannelInv(c)'
  BY DEF ChannelInv, SameChannel, QueueInv, KnownInv, SafeInv, SafeFrom, Current

\* The types of what belongs to one channel.
LEMMA ChannelType ==
  ASSUME TypeInv, NEW c \in Channels
  PROVE  /\ latest[c] \in Nat /\ cache[c] \in Nat /\ idb[c] \in Nat
         /\ acked[c] \in Nat
         /\ vss[c] \in Object /\ vss[c].ver \in Nat /\ vss[c].data \in Nat
         /\ got[c] \in Object /\ got[c].ver \in Nat /\ got[c].data \in Nat
         /\ late[c] \subseteq Object
         /\ \A r \in late[c] : r.ver \in Nat /\ r.data \in Nat
         /\ queue[c] \in Seq(Nat)
         /\ Len(queue[c]) \in Nat
         /\ \A i \in 1..Len(queue[c]) : queue[c][i] \in Nat
<1>1. vss[c] \in Object /\ got[c] \in Object /\ late[c] \subseteq Object
      /\ queue[c] \in Seq(Nat)
  BY DEF TypeInv, TypeOK
<1>2. \A o \in Object : o.ver \in Nat /\ o.data \in Nat
  BY DEF Object
<1>3. latest[c] \in Nat /\ cache[c] \in Nat /\ idb[c] \in Nat /\ acked[c] \in Nat
  BY DEF TypeInv, TypeOK
<1>4. \A i \in 1..Len(queue[c]) : queue[c][i] \in Nat
  BY <1>1
<1>5. Len(queue[c]) \in Nat
  BY <1>1
<1>. QED BY <1>1, <1>2, <1>3, <1>4, <1>5

\* The conjuncts of QueueInv, one by one.
LEMMA QueueFacts ==
  ASSUME NEW c \in Channels, ChannelInv(c)
  PROVE  /\ queue[c] = <<>> <=> pc[c] = "idle"
         /\ \A i \in 1..Len(queue[c]) : idb[c] <= queue[c][i]
         /\ \A i \in 1..Len(queue[c]) : queue[c][i] <= latest[c]
         /\ \A i, j \in 1..Len(queue[c]) : i < j => queue[c][i] < queue[c][j]
         /\ \A i \in 1..Len(queue[c]) : i > 1 => vss[c].data < queue[c][i]
         /\ \A i \in 1..Len(queue[c]) :
              i > 1 => \A r \in late[c] : r.data < queue[c][i]
  BY DEF ChannelInv, QueueInv

\* LDK's new snapshot is newer than anything, so it goes behind every write.
LEMMA PersistStep ==
  ASSUME TypeInv, NEW c \in Channels, ChannelInv(c), Persist(c)
  PROVE  ChannelInv(c)'
<1>. DEFINE q == queue[c]
            n == latest[c] + 1
<1>1. /\ latest'[c] = n
      /\ queue'[c] = Append(q, n)
      /\ pc'[c] = IF q = <<>> THEN "ready" ELSE pc[c]
      /\ cache'[c] = cache[c] /\ got'[c] = got[c] /\ vss'[c] = vss[c]
      /\ late'[c] = late[c] /\ idb'[c] = idb[c] /\ acked'[c] = acked[c]
  BY DEF Persist, TypeInv, TypeOK, stores
<1>2. /\ q \in Seq(Nat) /\ n \in Nat /\ latest[c] \in Nat /\ Len(q) \in Nat
      /\ idb[c] \in Nat /\ vss[c].data \in Nat
      /\ \A r \in late[c] : r.data \in Nat
      /\ \A i \in 1..Len(q) : q[i] \in Nat
  BY ChannelType
<1>3. /\ Len(queue'[c]) = Len(q) + 1
      /\ queue'[c][Len(q) + 1] = n
      /\ \A i \in 1..Len(q) : queue'[c][i] = q[i]
      /\ queue'[c] # <<>>
  BY <1>1, <1>2
<1>4. QueueInv(c)'
  <2>1. pc'[c] # "idle"
    BY <1>1, QueueFacts
  <2>2. ASSUME NEW i \in 1..Len(q), NEW j \in 1..(Len(q) + 1), i < j
        PROVE  queue'[c][i] < queue'[c][j]
    <3>1. q[i] \in Nat /\ queue'[c][i] = q[i] /\ q[i] <= latest[c]
      BY <1>2, <1>3, QueueFacts
    <3>2. CASE j = Len(q) + 1
      BY <1>2, <1>3, <3>1, <3>2
    <3>3. CASE j \in 1..Len(q)
      BY <1>3, <2>2, <3>3, QueueFacts
    <3>4. j = Len(q) + 1 \/ j \in 1..Len(q)
      BY <1>2, <2>2
    <3>. QED BY <3>2, <3>3, <3>4
  <2>3. ASSUME NEW i \in 1..(Len(q) + 1)
        PROVE  /\ idb[c] <= queue'[c][i]
               /\ queue'[c][i] <= n
               /\ i > 1 => vss[c].data < queue'[c][i]
               /\ i > 1 => \A r \in late[c] : r.data < queue'[c][i]
    <3>1. CASE i = Len(q) + 1
      BY <1>2, <1>3, <3>1 DEF ChannelInv, KnownInv
    <3>2. CASE i \in 1..Len(q)
      <4>1. q[i] \in Nat /\ queue'[c][i] = q[i] /\ q[i] <= latest[c]
        BY <1>2, <1>3, <3>2, QueueFacts
      <4>. QED BY <1>2, <3>2, <4>1, QueueFacts
    <3>3. i = Len(q) + 1 \/ i \in 1..Len(q)
      BY <1>2
    <3>. QED BY <3>1, <3>2, <3>3
  <2>4. \A i, j \in 1..(Len(q) + 1) : i < j => i \in 1..Len(q)
    BY <1>2
  <2>. QED BY <1>1, <1>3, <2>1, <2>2, <2>3, <2>4 DEF QueueInv
<1>5. KnownInv(c)'
  <2>1. pc'[c] = "accepted" => pc[c] = "accepted"
    BY <1>1
  <2>. QED BY <1>1, <1>2, <2>1 DEF ChannelInv, KnownInv
<1>6. SafeInv(c)'
  <2>1. CASE q = <<>>
    <3>1. pc'[c] = "ready" /\ Current(c)' = n /\ vss[c].data # n
      BY <1>1, <1>2, <1>3, <2>1 DEF Current, ChannelInv, KnownInv
    <3>. QED BY <1>1, <3>1 DEF ChannelInv, SafeInv, SafeFrom
  <2>2. CASE q # <<>>
    <3>1. pc'[c] = pc[c] /\ Current(c)' = Current(c)
      BY <1>1, <1>2, <1>3, <2>2 DEF Current
    <3>. QED BY <1>1, <3>1 DEF ChannelInv, SafeInv, SafeFrom
  <2>. QED BY <2>1, <2>2
<1>. QED BY <1>4, <1>5, <1>6 DEF ChannelInv

\* A step that only moves the worker to a phase about which nothing is claimed.
LEMMA QuietStep ==
  ASSUME TypeInv, NEW c \in Channels, ChannelInv(c), pc[c] # "idle",
         pc'[c] \in {"ready", "put", "conflict", "get", "backoff"},
         latest'[c] = latest[c], queue'[c] = queue[c], cache'[c] = cache[c],
         got'[c] = got[c], vss'[c] = vss[c], late'[c] = late[c],
         idb'[c] = idb[c], acked'[c] = acked[c]
  PROVE  ChannelInv(c)'
<1>1. QueueInv(c)'
  BY DEF ChannelInv, QueueInv
<1>2. KnownInv(c)'
  BY DEF ChannelInv, KnownInv
<1>3. SafeInv(c)'
  BY DEF ChannelInv, SafeInv, SafeFrom, Current
<1>. QED BY <1>1, <1>2, <1>3 DEF ChannelInv

\* The running write is behind nothing IndexedDB holds and ahead of nothing
\* queued after it.
LEMMA CurrentFacts ==
  ASSUME TypeInv, NEW c \in Channels, ChannelInv(c), pc[c] # "idle"
  PROVE  /\ Current(c) \in Nat
         /\ Current(c) <= latest[c]
         /\ idb[c] <= Current(c)
         /\ \A i \in 1..Len(queue[c]) : i > 1 => Current(c) < queue[c][i]
<1>1. /\ Current(c) \in Nat /\ Current(c) = queue[c][1]
      /\ Len(queue[c]) \in Nat \ {0}
  BY CurrentType
<1>2. 1 \in 1..Len(queue[c])
  BY <1>1
<1>3. \A i \in 1..Len(queue[c]) : i > 1 => Current(c) < queue[c][i]
  BY <1>1, <1>2, QueueFacts
<1>. QED BY <1>1, <1>2, <1>3, QueueFacts

\* A put, awaited or late, reaches the server: every request still travelling
\* is then stale, or the server's object is the one it had.
LEMMA ApplyStep ==
  ASSUME TypeInv, NEW c \in Channels, ChannelInv(c), NEW r \in Object,
         r.ver <= vss[c].ver,
         late'[c] \subseteq late[c],
         vss'[c] = Applied(vss[c], r)
  PROVE  /\ r.ver # vss[c].ver => vss'[c] = vss[c]
         /\ r.ver = vss[c].ver => /\ vss'[c].data = r.data
                                  /\ vss'[c].ver = vss[c].ver + 1
                                  /\ SafeFrom(c, r.data)'
         /\ vss[c].ver <= vss'[c].ver
         /\ \A n \in Nat : SafeFrom(c, n) /\ (r.ver = vss[c].ver => n <= r.data)
                           => SafeFrom(c, n)'
<1>1. /\ vss[c].ver \in Nat /\ vss[c].data \in Nat /\ r.ver \in Nat /\ r.data \in Nat
      /\ \A l \in late[c] : l.ver \in Nat /\ l.data \in Nat /\ l.ver <= vss[c].ver
  BY ChannelType DEF Object, ChannelInv, KnownInv
<1>2. CASE r.ver # vss[c].ver
  <2>1. vss'[c] = vss[c]
    BY <1>2 DEF Applied, CanApply
  <2>. QED BY <1>1, <1>2, <2>1 DEF SafeFrom
<1>3. CASE r.ver = vss[c].ver
  <2>1. vss'[c].ver = vss[c].ver + 1 /\ vss'[c].data = r.data
    BY <1>3 DEF Applied, CanApply
  <2>2. \A l \in late'[c] : l.ver < vss'[c].ver
    BY <1>1, <2>1
  <2>3. \A n \in Nat : n <= r.data => SafeFrom(c, n)'
    BY <2>1, <2>2 DEF SafeFrom
  <2>. QED BY <1>1, <1>3, <2>1, <2>3
<1>. QED BY <1>2, <1>3

LEMMA ServerPutStep ==
  ASSUME TypeInv, NEW c \in Channels, ChannelInv(c), ServerPut(c)
  PROVE  ChannelInv(c)'
<1>. DEFINE r == Request(c)
<1>1. /\ latest'[c] = latest[c] /\ queue'[c] = queue[c] /\ cache'[c] = cache[c]
      /\ got'[c] = got[c] /\ idb'[c] = idb[c] /\ acked'[c] = acked[c]
      /\ late'[c] = late[c] /\ vss'[c] = Applied(vss[c], r)
      /\ pc[c] = "put"
      /\ pc'[c] = IF r.ver = vss[c].ver THEN "accepted" ELSE "conflict"
  BY DEF ServerPut, TypeInv, TypeOK, CanApply
<1>2. /\ r \in Object /\ r.data = Current(c) /\ r.ver = cache[c]
      /\ cache[c] \in Nat /\ Current(c) \in Nat /\ idb[c] \in Nat
      /\ vss[c].ver \in Nat /\ vss[c].data \in Nat
  BY <1>1, ChannelType, CurrentType DEF Request
<1>3. cache[c] <= vss[c].ver /\ idb[c] <= Current(c) /\ Current(c) <= latest[c]
  BY <1>1, CurrentFacts DEF ChannelInv, KnownInv
<1>4. CASE r.ver # vss[c].ver
  <2>1. vss'[c] = vss[c] /\ pc'[c] = "conflict"
    BY <1>1, <1>2, <1>3, <1>4, ApplyStep
  <2>. QED BY <1>1, <2>1, QuietStep
<1>5. CASE r.ver = vss[c].ver
  <2>1. /\ vss'[c].data = Current(c)
        /\ vss'[c].ver = vss[c].ver + 1
        /\ SafeFrom(c, Current(c))'
        /\ pc'[c] = "accepted"
        /\ Current(c)' = Current(c)
    BY <1>1, <1>2, <1>3, <1>5, ApplyStep DEF Current
  <2>2. SafeFrom(c, idb[c])'
    BY <1>1, <1>2, <1>3, <1>5, ApplyStep DEF ChannelInv, SafeInv
  <2>3. QueueInv(c)'
    BY <1>1, <2>1, CurrentFacts, QueueFacts DEF QueueInv
  <2>4. KnownInv(c)'
    BY <1>1, <1>2, <1>3, <2>1, ChannelType DEF ChannelInv, KnownInv
  <2>5. SafeInv(c)'
    BY <1>1, <2>1, <2>2 DEF SafeInv
  <2>. QED BY <2>3, <2>4, <2>5 DEF ChannelInv
<1>. QED BY <1>4, <1>5

LEMMA LateLandsStep ==
  ASSUME TypeInv, NEW c \in Channels, ChannelInv(c), LateLands(c)
  PROVE  ChannelInv(c)'
<1>1. PICK r \in late[c] :
        /\ late' = [late EXCEPT ![c] = @ \ {r}]
        /\ vss' = [vss EXCEPT ![c] = Applied(@, r)]
        /\ UNCHANGED <<latest, queue, pc, retries, waits, cache, got, idb, acked>>
  BY DEF LateLands
<1>2. /\ latest'[c] = latest[c] /\ queue'[c] = queue[c] /\ cache'[c] = cache[c]
      /\ got'[c] = got[c] /\ idb'[c] = idb[c] /\ acked'[c] = acked[c]
      /\ late'[c] = late[c] \ {r} /\ vss'[c] = Applied(vss[c], r)
      /\ pc'[c] = pc[c] /\ Current(c)' = Current(c)
  BY <1>1 DEF TypeInv, TypeOK, Current
<1>3. /\ r \in Object /\ r.ver \in Nat /\ r.data \in Nat /\ r.ver <= vss[c].ver
      /\ r.data <= latest[c]
  BY <1>1, ChannelType DEF ChannelInv, KnownInv
<1>4. \A n \in Nat : SafeFrom(c, n) => SafeFrom(c, n)'
  <2>1. \A n \in Nat : SafeFrom(c, n) /\ r.ver = vss[c].ver => n <= r.data
    BY <1>1, <1>3, ChannelType DEF SafeFrom
  <2>. QED BY <1>2, <1>3, <2>1, ApplyStep
<1>5. /\ vss'[c].data = vss[c].data \/ (vss'[c].data = r.data /\ SafeFrom(c, r.data)')
      /\ vss[c].ver <= vss'[c].ver
      /\ vss'[c].ver \in Nat
  BY <1>2, <1>3, ApplyStep, ChannelType
<1>6. QueueInv(c)'
  <2>1. \A i \in 1..Len(queue[c]) : i > 1 => vss'[c].data < queue[c][i]
    BY <1>1, <1>5, QueueFacts
  <2>. QED BY <1>2, <2>1, QueueFacts DEF QueueInv
<1>7. KnownInv(c)'
  BY <1>2, <1>3, <1>5, ChannelType DEF ChannelInv, KnownInv
<1>8. SafeInv(c)'
  <2>1. pc[c] # "idle" => Current(c) \in Nat
    BY CurrentType
  <2>2. idb[c] \in Nat
    BY ChannelType
  <2>3. pc[c] # "idle" /\ vss'[c].data = Current(c) => SafeFrom(c, Current(c))'
    BY <1>2, <1>4, <1>5, <2>1 DEF ChannelInv, SafeInv
  <2>. QED BY <1>2, <1>4, <2>1, <2>2, <2>3 DEF ChannelInv, SafeInv
<1>. QED BY <1>6, <1>7, <1>8 DEF ChannelInv

LEMMA PutReplyStep ==
  ASSUME TypeInv, NEW c \in Channels, ChannelInv(c), PutReply(c)
  PROVE  ChannelInv(c)'
<1>1. /\ latest'[c] = latest[c] /\ queue'[c] = queue[c] /\ cache'[c] = cache[c] + 1
      /\ got'[c] = got[c] /\ idb'[c] = idb[c] /\ acked'[c] = acked[c]
      /\ late'[c] = late[c] /\ vss'[c] = vss[c]
      /\ pc[c] = "accepted" /\ pc'[c] = "idb"
      /\ Current(c)' = Current(c)
  BY DEF PutReply, TypeInv, TypeOK, stores, Current
<1>2. QueueInv(c)'
  BY <1>1, QueueFacts DEF QueueInv
<1>3. KnownInv(c)'
  BY <1>1, ChannelType DEF ChannelInv, KnownInv
<1>4. SafeInv(c)'
  BY <1>1 DEF ChannelInv, SafeInv, SafeFrom
<1>. QED BY <1>2, <1>3, <1>4 DEF ChannelInv

\* The request that is abandoned is for the running write, with a version the
\* server has given out: it cannot undo anything older than itself.
LEMMA AbandonedPut ==
  ASSUME TypeInv, NEW c \in Channels, ChannelInv(c), pc[c] = "put",
         late'[c] = late[c] \cup {Request(c)}, vss'[c] = vss[c]
  PROVE  /\ \A n \in Nat : n <= Current(c) /\ SafeFrom(c, n) => SafeFrom(c, n)'
         /\ \A r \in late'[c] : r.ver <= vss[c].ver /\ r.data <= latest[c]
         /\ \A i \in 1..Len(queue[c]) :
              i > 1 => \A r \in late'[c] : r.data < queue[c][i]
<1>1. /\ Request(c).data = Current(c) /\ Request(c).ver = cache[c]
      /\ Current(c) \in Nat /\ Current(c) <= latest[c] /\ cache[c] <= vss[c].ver
      /\ \A i \in 1..Len(queue[c]) : i > 1 => Current(c) < queue[c][i]
  BY CurrentFacts DEF Request, ChannelInv, KnownInv
<1>2. ASSUME NEW n \in Nat, n <= Current(c), SafeFrom(c, n)
      PROVE  SafeFrom(c, n)'
  BY <1>1, <1>2 DEF SafeFrom
<1>3. \A r \in late'[c] : r.ver <= vss[c].ver /\ r.data <= latest[c]
  BY <1>1 DEF ChannelInv, KnownInv
<1>4. \A i \in 1..Len(queue[c]) :
         i > 1 => \A r \in late'[c] : r.data < queue[c][i]
  BY <1>1, QueueFacts
<1>. QED BY <1>2, <1>3, <1>4

LEMMA PutFailsStep ==
  ASSUME TypeInv, NEW c \in Channels, ChannelInv(c), PutFails(c)
  PROVE  ChannelInv(c)'
<1>1. /\ latest'[c] = latest[c] /\ queue'[c] = queue[c] /\ cache'[c] = cache[c]
      /\ got'[c] = got[c] /\ idb'[c] = idb[c] /\ acked'[c] = acked[c]
      /\ vss'[c] = vss[c] /\ pc[c] # "idle" /\ pc'[c] = "backoff"
      /\ Current(c)' = Current(c)
  BY DEF PutFails, TypeInv, TypeOK, Current
<1>2. CASE pc[c] # "put"
  <2>1. late'[c] = late[c]
    BY <1>2 DEF PutFails
  <2>. QED BY <1>1, <2>1, QuietStep
<1>3. CASE pc[c] = "put"
  <2>1. late'[c] = late[c] \cup {Request(c)}
    BY <1>3 DEF PutFails, TypeInv, TypeOK
  <2>2. QueueInv(c)'
    BY <1>1, <1>3, <2>1, AbandonedPut, QueueFacts DEF QueueInv
  <2>3. KnownInv(c)'
    BY <1>1, <1>3, <2>1, AbandonedPut DEF ChannelInv, KnownInv
  <2>4. SafeInv(c)'
    <3>1. Current(c) \in Nat /\ idb[c] \in Nat /\ idb[c] <= Current(c)
      BY <1>1, CurrentFacts, ChannelType
    <3>2. SafeFrom(c, idb[c])'
      BY <1>1, <1>3, <2>1, <3>1, AbandonedPut DEF ChannelInv, SafeInv
    <3>3. vss[c].data = Current(c) => SafeFrom(c, Current(c))'
      BY <1>1, <1>3, <2>1, <3>1, AbandonedPut DEF ChannelInv, SafeInv
    <3>. QED BY <1>1, <3>2, <3>3 DEF SafeInv
  <2>. QED BY <2>2, <2>3, <2>4 DEF ChannelInv
<1>. QED BY <1>2, <1>3

LEMMA ServerGetStep ==
  ASSUME TypeInv, NEW c \in Channels, ChannelInv(c), ServerGet(c)
  PROVE  ChannelInv(c)'
<1>1. /\ latest'[c] = latest[c] /\ queue'[c] = queue[c] /\ cache'[c] = cache[c]
      /\ got'[c] = vss[c] /\ idb'[c] = idb[c] /\ acked'[c] = acked[c]
      /\ late'[c] = late[c] /\ vss'[c] = vss[c]
      /\ pc[c] = "get" /\ pc'[c] = "gotten"
      /\ Current(c)' = Current(c)
  BY DEF ServerGet, TypeInv, TypeOK, stores, Current
<1>2. QueueInv(c)'
  BY <1>1, QueueFacts DEF QueueInv
<1>3. KnownInv(c)'
  BY <1>1, ChannelType DEF ChannelInv, KnownInv
<1>4. SafeInv(c)'
  BY <1>1 DEF ChannelInv, SafeInv, SafeFrom
<1>. QED BY <1>2, <1>3, <1>4 DEF ChannelInv

LEMMA GetReplyStep ==
  ASSUME TypeInv, NEW c \in Channels, ChannelInv(c), GetReply(c)
  PROVE  ChannelInv(c)'
<1>1. /\ latest'[c] = latest[c] /\ queue'[c] = queue[c] /\ cache'[c] = got[c].ver
      /\ got'[c] = got[c] /\ idb'[c] = idb[c] /\ acked'[c] = acked[c]
      /\ late'[c] = late[c] /\ vss'[c] = vss[c]
      /\ pc[c] = "gotten"
      /\ pc'[c] = IF got[c].data = Current(c) THEN "idbSame" ELSE "ready"
      /\ Current(c)' = Current(c)
  BY DEF GetReply, TypeInv, TypeOK, stores, Current
<1>2. QueueInv(c)'
  BY <1>1, QueueFacts DEF QueueInv
<1>3. KnownInv(c)'
  BY <1>1, ChannelType DEF ChannelInv, KnownInv
<1>4. SafeInv(c)'
  BY <1>1 DEF ChannelInv, SafeInv, SafeFrom
<1>. QED BY <1>2, <1>3, <1>4 DEF ChannelInv

LEMMA IdbCommitStep ==
  ASSUME TypeInv, NEW c \in Channels, ChannelInv(c), IdbCommit(c)
  PROVE  ChannelInv(c)'
<1>1. /\ latest'[c] = latest[c] /\ queue'[c] = queue[c] /\ cache'[c] = cache[c]
      /\ got'[c] = got[c] /\ idb'[c] = Current(c) /\ acked'[c] = acked[c]
      /\ late'[c] = late[c] /\ vss'[c] = vss[c]
      /\ pc[c] \in {"idb", "idbSame"} /\ pc'[c] = "stored"
      /\ Current(c)' = Current(c)
  BY DEF IdbCommit, TypeInv, TypeOK, stores, Current
<1>2. /\ Current(c) \in Nat /\ Current(c) <= latest[c] /\ idb[c] <= Current(c)
      /\ acked[c] <= idb[c] /\ acked[c] \in Nat /\ idb[c] \in Nat
      /\ SafeFrom(c, Current(c))
  BY <1>1, CurrentFacts, ChannelType DEF ChannelInv, KnownInv, SafeInv
<1>3. QueueInv(c)'
  <2>1. \A i \in 1..Len(queue[c]) : Current(c) <= queue[c][i]
    <3>1. Current(c) = queue[c][1] /\ Len(queue[c]) \in Nat
      BY <1>1, CurrentType
    <3>2. \A i \in 1..Len(queue[c]) : i = 1 \/ i > 1
      BY <3>1
    <3>3. \A i \in 1..Len(queue[c]) : queue[c][i] \in Nat
      BY ChannelType
    <3>4. \A i \in 1..Len(queue[c]) : i > 1 => Current(c) < queue[c][i]
      BY <1>1, CurrentFacts
    <3>. QED BY <1>2, <3>1, <3>2, <3>3, <3>4
  <2>. QED BY <1>1, <2>1, QueueFacts DEF QueueInv
<1>4. KnownInv(c)'
  BY <1>1, <1>2 DEF ChannelInv, KnownInv
<1>5. SafeInv(c)'
  BY <1>1, <1>2 DEF SafeInv, SafeFrom
<1>. QED BY <1>3, <1>4, <1>5 DEF ChannelInv

\* The acknowledged snapshot is the one IndexedDB holds, and the next write is
\* newer than what the server has.
LEMMA AckStep ==
  ASSUME TypeInv, NEW c \in Channels, ChannelInv(c), Ack(c)
  PROVE  ChannelInv(c)'
<1>. DEFINE q == queue[c]
<1>1. /\ latest'[c] = latest[c] /\ queue'[c] = Tail(q) /\ cache'[c] = cache[c]
      /\ got'[c] = got[c] /\ idb'[c] = idb[c] /\ acked'[c] = Current(c)
      /\ late'[c] = late[c] /\ vss'[c] = vss[c]
      /\ pc[c] = "stored"
      /\ pc'[c] = IF Tail(q) = <<>> THEN "idle" ELSE "ready"
  BY DEF Ack, TypeInv, TypeOK, stores
<1>2. /\ idb[c] = Current(c) /\ Current(c) \in Nat
      /\ q \in Seq(Nat) /\ q # <<>> /\ Len(q) \in Nat \ {0}
      /\ vss[c].data \in Nat
  BY <1>1, CurrentType, ChannelType DEF ChannelInv, SafeInv
<1>3. /\ Len(Tail(q)) = Len(q) - 1
      /\ \A i \in 1..Len(Tail(q)) : Tail(q)[i] = q[i + 1]
      /\ \A i \in 1..Len(Tail(q)) : i + 1 \in 1..Len(q) /\ i + 1 > 1
  BY <1>2
<1>4. QueueInv(c)'
  <2>1. pc'[c] = "idle" <=> Tail(q) = <<>>
    BY <1>1
  <2>2. ASSUME NEW i \in 1..Len(Tail(q))
        PROVE  /\ idb[c] <= Tail(q)[i]
               /\ Tail(q)[i] <= latest[c]
               /\ vss[c].data < Tail(q)[i]
               /\ \A r \in late[c] : r.data < Tail(q)[i]
    BY <1>3, QueueFacts
  <2>3. ASSUME NEW i \in 1..Len(Tail(q)), NEW j \in 1..Len(Tail(q)), i < j
        PROVE  Tail(q)[i] < Tail(q)[j]
    <3>1. i + 1 < j + 1
      BY <1>2, <1>3, <2>3
    <3>. QED BY <1>3, <3>1, QueueFacts
  <2>. QED BY <1>1, <2>1, <2>2, <2>3 DEF QueueInv
<1>5. KnownInv(c)'
  BY <1>1, <1>2 DEF ChannelInv, KnownInv
<1>6. SafeInv(c)'
  <2>1. pc'[c] # "idle" => vss[c].data < Current(c)' /\ Current(c)' \in Nat
    <3>. SUFFICES ASSUME Tail(q) # <<>>
                  PROVE  vss[c].data < Head(Tail(q)) /\ Head(Tail(q)) \in Nat
      BY <1>1 DEF Current
    <3>0. Tail(q) \in Seq(Nat)
      BY <1>2
    <3>1. Len(Tail(q)) \in Nat \ {0}
      BY <3>0, EmptySeq
    <3>2. 1 \in 1..Len(Tail(q)) /\ Head(Tail(q)) = Tail(q)[1]
      BY <3>0, <3>1
    <3>3. Tail(q)[1] = q[2] /\ 2 \in 1..Len(q) /\ 2 > 1
      BY <1>3, <3>2
    <3>4. q[2] \in Nat /\ vss[c].data < q[2]
      BY <3>3, QueueFacts, ChannelType
    <3>. QED BY <3>2, <3>3, <3>4
  <2>2. SafeFrom(c, idb[c])'
    BY <1>1 DEF ChannelInv, SafeInv, SafeFrom
  <2>3. pc'[c] # "idle" => vss'[c].data # Current(c)'
    BY <1>1, <1>2, <2>1
  <2>. QED BY <1>1, <2>2, <2>3 DEF SafeInv
<1>. QED BY <1>4, <1>5, <1>6 DEF ChannelInv

\* After a reload the only write is the snapshot IndexedDB holds, and whatever
\* request was cut off is for a snapshot no older than that one.
LEMMA ReloadStep ==
  ASSUME TypeInv, NEW c \in Channels, ChannelInv(c), Reload
  PROVE  ChannelInv(c)'
<1>1. /\ latest'[c] = latest[c] /\ got'[c] = Absent /\ vss'[c] = vss[c]
      /\ idb'[c] = idb[c] /\ acked'[c] = acked[c]
      /\ queue'[c] = IF idb[c] > 0 THEN <<idb[c]>> ELSE <<>>
      /\ pc'[c] = IF idb[c] > 0 THEN "ready" ELSE "idle"
  BY DEF Reload
<1>2. cache'[c] = vss[c].ver \/ cache'[c] = 0
  BY DEF Reload
<1>3. late'[c] = IF pc[c] = "put" THEN late[c] \cup {Request(c)} ELSE late[c]
  BY DEF Reload
<1>4. /\ idb[c] \in Nat /\ vss[c].ver \in Nat /\ vss[c].data \in Nat
      /\ latest[c] \in Nat
  BY ChannelType
<1>5. /\ SafeFrom(c, idb[c])'
      /\ \A r \in late'[c] : r.ver <= vss[c].ver /\ r.data <= latest[c]
  <2>1. CASE pc[c] = "put"
    <3>1. idb[c] <= Current(c) /\ SafeFrom(c, idb[c])
      BY <2>1, CurrentFacts DEF ChannelInv, SafeInv
    <3>2. late'[c] = late[c] \cup {Request(c)}
      BY <1>3, <2>1
    <3>3. SafeFrom(c, idb[c]) => (\A n \in Nat : n = idb[c] => SafeFrom(c, n)')
      BY <1>1, <2>1, <3>1, <3>2, AbandonedPut
    <3>. QED BY <1>1, <1>4, <2>1, <3>1, <3>2, <3>3, AbandonedPut DEF SafeFrom
  <2>2. CASE pc[c] # "put"
    <3>1. late'[c] = late[c]
      BY <1>3, <2>2
    <3>. QED BY <1>1, <3>1 DEF ChannelInv, KnownInv, SafeInv, SafeFrom
  <2>. QED BY <2>1, <2>2
<1>6. QueueInv(c)'
  <2>1. queue'[c] = <<>> <=> pc'[c] = "idle"
    BY <1>1
  <2>2. idb[c] <= latest[c]
    BY DEF ChannelInv, KnownInv
  <2>3. CASE idb[c] > 0
    <3>1. Len(queue'[c]) = 1 /\ queue'[c][1] = idb[c]
      BY <1>1, <2>3
    <3>2. \A i \in 1..1 : i = 1
      OBVIOUS
    <3>. QED BY <1>1, <1>4, <2>1, <2>2, <3>1, <3>2 DEF QueueInv
  <2>4. CASE ~(idb[c] > 0)
    <3>1. Len(queue'[c]) = 0 /\ 1..0 = {}
      BY <1>1, <2>4
    <3>. QED BY <2>1, <3>1 DEF QueueInv
  <2>. QED BY <2>3, <2>4
<1>7. KnownInv(c)'
  BY <1>1, <1>2, <1>4, <1>5 DEF ChannelInv, KnownInv, Absent
<1>8. SafeInv(c)'
  <2>1. pc'[c] # "idle" => Current(c)' = idb[c]
    BY <1>1 DEF Current
  <2>. QED BY <1>1, <1>5, <2>1 DEF SafeInv
<1>. QED BY <1>6, <1>7, <1>8 DEF ChannelInv

-----------------------------------------------------------------------------

ChannelsInv == \A c \in Channels : ChannelInv(c)

LEMMA NoRollbackInit == Init => ChannelsInv
<1>. SUFFICES ASSUME Init, NEW c \in Channels PROVE ChannelInv(c)
  BY DEF ChannelsInv
<1>1. /\ latest[c] = 0 /\ queue[c] = <<>> /\ pc[c] = "idle" /\ cache[c] = 0
      /\ got[c] = Absent /\ vss[c] = Absent /\ late[c] = {} /\ idb[c] = 0
      /\ acked[c] = 0
  BY DEF Init
<1>2. Len(queue[c]) = 0 /\ 1..0 = {}
  BY <1>1
<1>3. QueueInv(c)
  BY <1>1, <1>2 DEF QueueInv
<1>4. KnownInv(c)
  BY <1>1 DEF KnownInv, Absent
<1>5. SafeInv(c)
  BY <1>1 DEF SafeInv, SafeFrom, Absent
<1>. QED BY <1>3, <1>4, <1>5 DEF ChannelInv

LEMMA NoRollbackStep == TypeInv /\ ChannelsInv /\ [Next]_vars => ChannelsInv'
<1>. SUFFICES ASSUME TypeInv, ChannelsInv, [Next]_vars, NEW d \in Channels
              PROVE  ChannelInv(d)'
  BY DEF ChannelsInv
<1>0. ChannelInv(d)
  BY DEF ChannelsInv
<1>1. ASSUME NEW c \in Channels, Persist(c) PROVE ChannelInv(d)'
  <2>1. c # d => SameChannel(d)
    BY <1>1 DEF Persist, SameChannel, stores, TypeInv, TypeOK
  <2>. QED BY <1>0, <1>1, <2>1, Frame, PersistStep
<1>2. ASSUME NEW c \in Channels, SendPut(c) PROVE ChannelInv(d)'
  <2>1. c # d => SameChannel(d)
    BY <1>2 DEF SendPut, SameChannel, stores, TypeInv, TypeOK
  <2>2. c = d => ChannelInv(d)'
    BY <1>0, <1>2, QuietStep DEF SendPut, stores, TypeInv, TypeOK
  <2>. QED BY <1>0, <2>1, <2>2, Frame
<1>3. ASSUME NEW c \in Channels, ServerPut(c) PROVE ChannelInv(d)'
  <2>1. c # d => SameChannel(d)
    BY <1>3 DEF ServerPut, SameChannel, TypeInv, TypeOK
  <2>. QED BY <1>0, <1>3, <2>1, Frame, ServerPutStep
<1>4. ASSUME NEW c \in Channels, PutReply(c) PROVE ChannelInv(d)'
  <2>1. c # d => SameChannel(d)
    BY <1>4 DEF PutReply, SameChannel, stores, TypeInv, TypeOK
  <2>. QED BY <1>0, <1>4, <2>1, Frame, PutReplyStep
<1>5. ASSUME NEW c \in Channels, PutFails(c) PROVE ChannelInv(d)'
  <2>1. c # d => SameChannel(d)
    BY <1>5 DEF PutFails, SameChannel, TypeInv, TypeOK
  <2>. QED BY <1>0, <1>5, <2>1, Frame, PutFailsStep
<1>6. ASSUME NEW c \in Channels, LateLands(c) PROVE ChannelInv(d)'
  <2>1. c # d => SameChannel(d)
    BY <1>6 DEF LateLands, SameChannel, TypeInv, TypeOK
  <2>. QED BY <1>0, <1>6, <2>1, Frame, LateLandsStep
<1>7. ASSUME NEW c \in Channels, ConflictReply(c) PROVE ChannelInv(d)'
  <2>1. c # d => SameChannel(d)
    BY <1>7 DEF ConflictReply, SameChannel, stores, TypeInv, TypeOK
  <2>2. c = d => ChannelInv(d)'
    <3>1. pc'[c] \in {"get", "backoff"} /\ pc[c] = "conflict"
      BY <1>7 DEF ConflictReply, TypeInv, TypeOK
    <3>. QED BY <1>0, <1>7, <3>1, QuietStep DEF ConflictReply, stores
  <2>. QED BY <1>0, <2>1, <2>2, Frame
<1>8. ASSUME NEW c \in Channels, ServerGet(c) PROVE ChannelInv(d)'
  <2>1. c # d => SameChannel(d)
    BY <1>8 DEF ServerGet, SameChannel, stores, TypeInv, TypeOK
  <2>. QED BY <1>0, <1>8, <2>1, Frame, ServerGetStep
<1>9. ASSUME NEW c \in Channels, GetReply(c) PROVE ChannelInv(d)'
  <2>1. c # d => SameChannel(d)
    BY <1>9 DEF GetReply, SameChannel, stores, TypeInv, TypeOK
  <2>. QED BY <1>0, <1>9, <2>1, Frame, GetReplyStep
<1>10. ASSUME NEW c \in Channels, GetFails(c) PROVE ChannelInv(d)'
  <2>1. c # d => SameChannel(d)
    BY <1>10 DEF GetFails, SameChannel, stores, TypeInv, TypeOK
  <2>2. c = d => ChannelInv(d)'
    BY <1>0, <1>10, QuietStep DEF GetFails, stores, TypeInv, TypeOK
  <2>. QED BY <1>0, <2>1, <2>2, Frame
<1>11. ASSUME NEW c \in Channels, IdbCommit(c) PROVE ChannelInv(d)'
  <2>1. c # d => SameChannel(d)
    BY <1>11 DEF IdbCommit, SameChannel, stores, TypeInv, TypeOK
  <2>. QED BY <1>0, <1>11, <2>1, Frame, IdbCommitStep
<1>12. ASSUME NEW c \in Channels, IdbFails(c) PROVE ChannelInv(d)'
  <2>1. c # d => SameChannel(d)
    BY <1>12 DEF IdbFails, SameChannel, stores, TypeInv, TypeOK
  <2>2. c = d => ChannelInv(d)'
    <3>1. pc'[c] \in {"ready", "backoff"} /\ pc[c] # "idle"
      BY <1>12 DEF IdbFails, TypeInv, TypeOK
    <3>. QED BY <1>0, <1>12, <3>1, QuietStep DEF IdbFails, stores
  <2>. QED BY <1>0, <2>1, <2>2, Frame
<1>13. ASSUME NEW c \in Channels, Ack(c) PROVE ChannelInv(d)'
  <2>1. c # d => SameChannel(d)
    BY <1>13 DEF Ack, SameChannel, stores, TypeInv, TypeOK
  <2>. QED BY <1>0, <1>13, <2>1, Frame, AckStep
<1>14. ASSUME NEW c \in Channels, Wake(c) PROVE ChannelInv(d)'
  <2>1. c # d => SameChannel(d)
    BY <1>14 DEF Wake, SameChannel, stores, TypeInv, TypeOK
  <2>2. c = d => ChannelInv(d)'
    BY <1>0, <1>14, QuietStep DEF Wake, stores, TypeInv, TypeOK
  <2>. QED BY <1>0, <2>1, <2>2, Frame
<1>15. CASE BecomeReady
  BY <1>0, <1>15, Frame DEF BecomeReady, SameChannel, stores
<1>16. CASE Reload
  BY <1>0, <1>16, ReloadStep
<1>17. CASE UNCHANGED vars
  BY <1>0, <1>17, Frame DEF vars, SameChannel
<1>. QED
  BY <1>1, <1>2, <1>3, <1>4, <1>5, <1>6, <1>7, <1>8, <1>9, <1>10, <1>11, <1>12,
     <1>13, <1>14, <1>15, <1>16, <1>17 DEF Next, Progress, Disturb

\* No late or repeated put can undo a snapshot the wallet relies on.
THEOREM NoRollbackHolds == Spec => []NoRollback
<1>1. ChannelsInv => NoRollback
  BY DEF ChannelsInv, ChannelInv, NoRollback
<1>. QED BY <1>1, TypeInit, TypeStep, NoRollbackInit, NoRollbackStep, PTL DEF Spec

LEMMA DurableStates ==
  ASSUME TypeInv, ChannelsInv, NEW c \in Channels
  PROVE  /\ acked[c] \in Nat /\ idb[c] \in Nat /\ vss[c].data \in Nat
         /\ latest[c] \in Nat
         /\ acked[c] <= idb[c] /\ idb[c] <= vss[c].data /\ idb[c] <= latest[c]
<1>1. ChannelInv(c)
  BY DEF ChannelsInv
<1>2. acked[c] <= idb[c] /\ idb[c] <= vss[c].data /\ idb[c] <= latest[c]
  BY <1>1 DEF ChannelInv, KnownInv, SafeInv, SafeFrom
<1>. QED BY <1>2, ChannelType

\* Both stores hold, at any time, at least what LDK was last told is persisted.
THEOREM Durability == Spec => []AckedDurable
<1>1. TypeInv /\ ChannelsInv => AckedDurable
  <2>. SUFFICES ASSUME TypeInv, ChannelsInv, NEW c \in Channels
                PROVE  acked[c] <= idb[c] /\ acked[c] <= vss[c].data
    BY DEF AckedDurable
  <2>. QED BY DurableStates
<1>. QED BY <1>1, TypeInit, TypeStep, NoRollbackInit, NoRollbackStep, PTL DEF Spec

\* The local store is never ahead of the remote one.
THEOREM LocalBehindRemote == Spec => []VssFirst
<1>1. TypeInv /\ ChannelsInv => VssFirst
  BY DurableStates DEF VssFirst
<1>. QED BY <1>1, TypeInit, TypeStep, NoRollbackInit, NoRollbackStep, PTL DEF Spec

-----------------------------------------------------------------------------
(* The refinement of DurableStore.                                         *)

\* The mapped `safe' is what IndexedDB holds: the local store lags the remote.
LEMMA SurvivingIsLocal ==
  ASSUME TypeInv, ChannelsInv
  PROVE  [c \in Channels |-> IF idb[c] <= vss[c].data
                             THEN idb[c] ELSE vss[c].data] = idb
<1>1. \A c \in Channels : idb[c] <= vss[c].data
  BY DurableStates
<1>. QED BY <1>1 DEF TypeInv, TypeOK

\* Every step of the persister is a step of the store, or invisible to it.
LEMMA StoreStep ==
  ASSUME TypeInv, ChannelsInv, TypeInv', ChannelsInv', [Next]_vars
  PROVE  [Store!Next]_(Store!vars)
<1>. DEFINE S == [c \in Channels |-> IF idb[c] <= vss[c].data
                                     THEN idb[c] ELSE vss[c].data]
<1>1. S = idb
  BY SurvivingIsLocal
<1>2. S' = idb'
  <2>1. \A c \in Channels : idb'[c] <= vss'[c].data
    BY DEF ChannelsInv, ChannelInv, SafeInv, SafeFrom
  <2>. QED BY <2>1 DEF TypeInv, TypeOK
<1>3. UNCHANGED <<latest, idb, acked>> => UNCHANGED Store!vars
  BY <1>1, <1>2 DEF Store!vars
<1>4. ASSUME NEW c \in Channels, Persist(c) PROVE Store!Next
  <2>1. Store!Make(c)
    BY <1>1, <1>2, <1>4 DEF Persist, Store!Make
  <2>. QED BY <2>1 DEF Store!Next
<1>5. ASSUME NEW c \in Channels, IdbCommit(c)
      PROVE  Store!Next \/ UNCHANGED <<latest, idb, acked>>
  <2>1. /\ idb' = [idb EXCEPT ![c] = Current(c)]
        /\ latest' = latest /\ acked' = acked
        /\ pc[c] # "idle"
    BY <1>5 DEF IdbCommit
  <2>2. /\ Current(c) \in Nat /\ idb[c] \in Nat /\ latest[c] \in Nat
        /\ idb[c] <= Current(c) /\ Current(c) <= latest[c]
    BY <2>1, ChannelType, CurrentFacts DEF ChannelsInv
  <2>3. CASE idb[c] = Current(c)
    BY <2>1, <2>3 DEF TypeInv, TypeOK
  <2>4. CASE idb[c] < Current(c)
    <3>1. Current(c) \in (S[c] + 1)..latest[c]
      BY <1>1, <2>2, <2>4
    <3>2. S' = [S EXCEPT ![c] = Current(c)]
      BY <1>1, <1>2, <2>1
    <3>3. Store!Secure(c)
      BY <2>1, <3>1, <3>2 DEF Store!Secure
    <3>. QED BY <3>3 DEF Store!Next
  <2>. QED BY <2>2, <2>3, <2>4
<1>6. ASSUME NEW c \in Channels, Ack(c)
      PROVE  Store!Next \/ UNCHANGED <<latest, idb, acked>>
  <2>1. /\ acked' = [acked EXCEPT ![c] = Current(c)]
        /\ latest' = latest /\ idb' = idb
        /\ pc[c] = "stored"
    BY <1>6 DEF Ack
  <2>2. /\ acked[c] \in Nat /\ idb[c] \in Nat
        /\ acked[c] <= idb[c] /\ idb[c] = Current(c)
    BY <2>1, DurableStates DEF ChannelsInv, ChannelInv, SafeInv
  <2>3. CASE acked[c] = Current(c)
    BY <2>1, <2>3 DEF TypeInv, TypeOK
  <2>4. CASE acked[c] < Current(c)
    <3>1. Current(c) \in (acked[c] + 1)..S[c]
      BY <1>1, <2>2, <2>4
    <3>2. S' = S
      BY <1>1, <1>2, <2>1
    <3>3. Store!Tell(c)
      BY <2>1, <3>1, <3>2 DEF Store!Tell
    <3>. QED BY <3>3 DEF Store!Next
  <2>. QED BY <2>2, <2>3, <2>4
<1>7. ASSUME NEW c \in Channels,
             \/ SendPut(c) \/ ServerPut(c) \/ PutReply(c) \/ ConflictReply(c)
             \/ ServerGet(c) \/ GetReply(c) \/ Wake(c) \/ Disturb(c)
      PROVE  UNCHANGED <<latest, idb, acked>>
  BY <1>7 DEF SendPut, ServerPut, PutReply, ConflictReply, ServerGet, GetReply,
     Wake, Disturb, PutFails, GetFails, IdbFails, LateLands
<1>8. BecomeReady \/ Reload \/ UNCHANGED vars => UNCHANGED <<latest, idb, acked>>
  BY DEF BecomeReady, Reload, vars
<1>. QED BY <1>3, <1>4, <1>5, <1>6, <1>7, <1>8 DEF Next, Progress

LEMMA StoreInit == Init => Store!Init
<1>. SUFFICES ASSUME Init PROVE Store!Init
  OBVIOUS
<1>1. [c \in Channels |-> IF idb[c] <= vss[c].data THEN idb[c] ELSE vss[c].data]
        = [c \in Channels |-> 0]
  BY DEF Init, Absent
<1>. QED BY <1>1 DEF Init, Store!Init

\* The persister implements DurableStore: what survives the loss of one copy and
\* what LDK was told move forward only, and the latter never passes the former.
THEOREM Refinement == Spec => ImplementsStore
<1>1. TypeInv /\ ChannelsInv /\ TypeInv' /\ ChannelsInv' /\ [Next]_vars
        => [Store!Next]_(Store!vars)
  BY StoreStep
<1>. QED BY <1>1, StoreInit, TypeInit, TypeStep, NoRollbackInit, NoRollbackStep,
     PTL DEF Spec, ImplementsStore, Store!Spec
-----------------------------------------------------------------------------
(* What the user is shown.                                                 *)

StatusInv == vssStatus = "degraded" => ready /\ \E c \in Channels : Notified(c)

LEMMA StatusStep == TypeInv /\ StatusInv /\ [Next]_vars => StatusInv'
<1>. SUFFICES ASSUME TypeInv, StatusInv, [Next]_vars, vssStatus' = "degraded"
              PROVE  ready' /\ \E d \in Channels : Notified(d)'
  BY DEF StatusInv
<1>1. ASSUME UNCHANGED <<vssStatus, ready, waits>>
      PROVE  ready' /\ \E d \in Channels : Notified(d)'
  BY <1>1 DEF StatusInv, Notified
<1>2. ASSUME NEW c \in Channels, Ack(c)
      PROVE  ready' /\ \E d \in Channels : Notified(d)'
  <2>1. /\ waits' = [waits EXCEPT ![c] = 0] /\ ready' = ready
        /\ vssStatus' = IF Notified(c) /\ ready THEN "ok" ELSE vssStatus
    BY <1>2 DEF Ack
  <2>2. vssStatus = "degraded" /\ ~(Notified(c) /\ ready)
    BY <2>1
  <2>3. PICK d \in Channels : Notified(d)
    BY <2>2 DEF StatusInv
  <2>4. ready /\ d # c
    BY <2>2, <2>3 DEF StatusInv
  <2>5. waits'[d] = waits[d]
    BY <2>1, <2>4 DEF TypeInv, TypeOK
  <2>. QED BY <2>1, <2>3, <2>4, <2>5 DEF Notified
<1>3. ASSUME NEW c \in Channels, Wake(c)
      PROVE  ready' /\ \E d \in Channels : Notified(d)'
  <2>1. /\ ready' = ready
        /\ waits' = [waits EXCEPT ![c] = IF Notified(c) THEN @ ELSE @ + 1]
        /\ vssStatus' = IF ready /\ ~Notified(c) /\ waits[c] + 1 = DegradedAfter
                        THEN "degraded" ELSE vssStatus
    BY <1>3 DEF Wake
  <2>2. CASE ready /\ ~Notified(c) /\ waits[c] + 1 = DegradedAfter
    <3>1. waits'[c] = DegradedAfter
      BY <2>1, <2>2 DEF TypeInv, TypeOK
    <3>. QED BY <2>1, <2>2, <3>1 DEF Notified
  <2>3. CASE vssStatus = "degraded"
    <3>1. PICK d \in Channels : Notified(d)
      BY <2>3 DEF StatusInv
    <3>2. waits'[d] = waits[d]
      BY <2>1, <3>1 DEF TypeInv, TypeOK
    <3>. QED BY <2>1, <2>3, <3>1, <3>2 DEF Notified, StatusInv
  <2>. QED BY <2>1, <2>2, <2>3
<1>4. ASSUME NEW c \in Channels,
             \/ Persist(c) \/ SendPut(c) \/ ServerPut(c) \/ PutReply(c)
             \/ ConflictReply(c) \/ ServerGet(c) \/ GetReply(c) \/ IdbCommit(c)
             \/ Disturb(c)
      PROVE  UNCHANGED <<vssStatus, ready, waits>>
  BY <1>4 DEF Persist, SendPut, ServerPut, PutReply, ConflictReply, ServerGet,
     GetReply, IdbCommit, Disturb, PutFails, GetFails, IdbFails, LateLands, screen
<1>5. CASE BecomeReady \/ Reload
  BY <1>5 DEF BecomeReady, Reload
<1>6. CASE UNCHANGED vars
  BY <1>1, <1>6 DEF vars
<1>. QED BY <1>1, <1>2, <1>3, <1>4, <1>5, <1>6 DEF Next, Progress

\* 'degraded' is shown only while some write that waited past the threshold is
\* still pending.
THEOREM DegradedIsReal == Spec => []DegradedMeansFailing
<1>1. Init => StatusInv
  BY DEF Init, StatusInv
<1>2. StatusInv => DegradedMeansFailing
  BY DEF StatusInv, DegradedMeansFailing
<1>. QED BY <1>1, <1>2, TypeInit, TypeStep, StatusStep, PTL DEF Spec
=============================================================================
