---------------------------- MODULE SessionProofs ----------------------------
(***************************************************************************)
(* Proofs about a session: what it fetches (the requests of the Esplora    *)
(* client and the fee rates), the types of its sync loop, and from the     *)
(* proofs about the other parts, the types of all.                         *)
(***************************************************************************)
EXTENDS ConnectionProofs, PaymentProofs, ChainSyncProofs, FunctionTheorems

(***************************************************************************)
(* Fee rates.                                                              *)
(***************************************************************************)

LEMMA FeeBounds ==
  /\ Rates \subseteq Nat /\ Default \in Nat \ {0}
  /\ Floor \in Fees!LdkMinimum..Fees!MaxSatKw
  /\ Fees!LdkMinimum \in Nat /\ Fees!MaxSatKw \in Nat /\ Fees!LdkMinimum <= Fees!MaxSatKw
<1>1. Fees!LdkMinimum \in Nat /\ Fees!MaxSatKw \in Nat /\ Fees!LdkMinimum <= Fees!MaxSatKw
  BY SMT DEF Fees!LdkMinimum, Fees!MaxSatKw
<1> QED
  BY <1>1, SessionAssumption

\* A backoff follows a failure, excludes a fetch, and those who wait without a
\* fetch have had its answer or its failure.
FetchInv ==
  /\ fee_pending => ~ fee_backoff
  /\ fee_backoff => fee_failed
  /\ fee_waiting # {} /\ ~ fee_pending => fee_cache = "fresh" \/ fee_failed

FeeInv == Fees!TypeOK /\ FetchInv

LEMMA FetchInvStep ==
  ASSUME fee_pending \in BOOLEAN, fee_backoff \in BOOLEAN, fee_failed \in BOOLEAN, FetchInv,
         [Fees!Next]_(Fees!vars)
  PROVE  FetchInv'
<1>1. CASE Fees!Estimate
  BY <1>1, SMT DEF FetchInv, Fees!Estimate, Fees!Refreshed
<1>2. CASE \E c \in Callers : Fees!Ask(c)
  <2> PICK c \in Callers : Fees!Ask(c)
    BY <1>2
  <2>1. CASE fee_cache # "fresh" /\ Fees!Refreshed
    <3>1. fee_pending' /\ UNCHANGED <<fee_cache, fee_backoff, fee_failed>>
      BY <2>1 DEF Fees!Ask
    <3> QED
      BY <2>1, <3>1 DEF FetchInv, Fees!Refreshed
  <2>2. CASE ~(fee_cache # "fresh" /\ Fees!Refreshed)
    BY <2>2, SMT DEF FetchInv, Fees!Ask, Fees!Refreshed
  <2> QED
    BY <2>1, <2>2
<1>3. CASE \E r \in Rates : Fees!FetchReply(r)
  BY <1>3, SMT DEF FetchInv, Fees!FetchReply
<1>4. CASE Fees!FetchFails
  BY <1>4, SMT DEF FetchInv, Fees!FetchFails
<1>5. CASE \E c \in Callers : Fees!Answer(c)
  BY <1>5, SMT DEF FetchInv, Fees!Answer
<1>6. CASE Fees!Ages
  BY <1>6, SMT DEF FetchInv, Fees!Ages
<1>7. CASE UNCHANGED Fees!vars
  BY <1>7, SMT DEF FetchInv, Fees!vars
<1> QED
  BY <1>1, <1>2, <1>3, <1>4, <1>5, <1>6, <1>7 DEF Fees!Next

\* What LDK is told is at least its minimum and at most the cap, whatever the
\* server answers (fee-estimator.ts 45-55).
LEMMA ClampedRate ==
  ASSUME NEW r \in Nat
  PROVE  Fees!SatPerKw(r) \in Fees!LdkMinimum..Fees!MaxSatKw
<1> DEFINE least == IF Floor > Fees!LdkMinimum THEN Floor ELSE Fees!LdkMinimum
           kw == IF 250 * r < Fees!MaxSatKw THEN 250 * r ELSE Fees!MaxSatKw
<1>1. least \in Fees!LdkMinimum..Fees!MaxSatKw
  BY FeeBounds, SMT
<1>2. kw \in 0..Fees!MaxSatKw
  BY FeeBounds, SMT
<1>3. Fees!SatPerKw(r) = IF kw > least THEN kw ELSE least
  BY DEF Fees!SatPerKw
<1> HIDE DEF least, kw
<1> QED
  BY <1>1, <1>2, <1>3, FeeBounds, SMT

LEMMA CachedRate ==
  ASSUME fee_rate \in Rates \union {0}
  PROVE  Fees!Cached \in Nat \ {0}
BY FeeBounds, SMT DEF Fees!Cached

LEMMA FeeTypesStep ==
  ASSUME Fees!TypeOK, [Fees!Next]_(Fees!vars)
  PROVE  Fees!TypeOK'
<1>0. Fees!Cached \in Nat \ {0} /\ Fees!Cached \in Nat
  BY CachedRate DEF Fees!TypeOK
<1>1. CASE Fees!Estimate
  <2>1. fee_told' \in Fees!LdkMinimum..Fees!MaxSatKw
    BY <1>0, <1>1, ClampedRate DEF Fees!Estimate
  <2> QED
    BY <1>1, <2>1 DEF Fees!TypeOK, Fees!Estimate, Fees!Refreshed
<1>2. CASE \E c \in Callers : Fees!Ask(c)
  <2> PICK c \in Callers : Fees!Ask(c)
    BY <1>2
  <2>1. CASE fee_cache # "fresh" /\ Fees!Refreshed
    BY <2>1 DEF Fees!TypeOK, Fees!Ask, Fees!Refreshed
  <2>2. CASE ~(fee_cache # "fresh" /\ Fees!Refreshed)
    BY <1>0, <2>2 DEF Fees!TypeOK, Fees!Ask, Fees!Refreshed
  <2> QED
    BY <2>1, <2>2
<1>3. CASE \E r \in Rates : Fees!FetchReply(r)
  BY <1>3 DEF Fees!TypeOK, Fees!FetchReply
<1>4. CASE Fees!FetchFails
  BY <1>4 DEF Fees!TypeOK, Fees!FetchFails
<1>5. CASE \E c \in Callers : Fees!Answer(c)
  BY <1>0, <1>5 DEF Fees!TypeOK, Fees!Answer
<1>6. CASE Fees!Ages
  BY <1>6 DEF Fees!TypeOK, Fees!Ages
<1>7. CASE UNCHANGED Fees!vars
  BY <1>7 DEF Fees!TypeOK, Fees!vars
<1> QED
  BY <1>1, <1>2, <1>3, <1>4, <1>5, <1>6, <1>7 DEF Fees!Next

LEMMA FeesMove ==
  ASSUME [SessionNext]_sessionVars PROVE [Fees!Next]_(Fees!vars)
<1>1. CASE UNCHANGED sessionVars
  BY <1>1 DEF sessionVars, feeVars, Fees!vars
<1>2. CASE SessionNext
  <2>1. part # "fees" => UNCHANGED feeVars
    BY <1>2 DEF SessionNext, Rest
  <2>2. part = "fees" => Fees!Next
    BY <1>2 DEF SessionNext
  <2> QED
    BY <2>1, <2>2 DEF feeVars, Fees!vars
<1> QED
  BY <1>1, <1>2

LEMMA FeesHold ==
  /\ SessionInit => FeeInv
  /\ FeeInv /\ [SessionNext]_sessionVars => FeeInv'
<1>1. SessionInit => FeeInv
  <2>1. Fees!LdkMinimum \in Fees!LdkMinimum..Fees!MaxSatKw
    BY FeeBounds, SMT
  <2> QED
    BY <2>1, FeeBounds DEF SessionInit, Fees!Init, FeeInv, FetchInv, Fees!TypeOK
<1>2. FeeInv /\ [SessionNext]_sessionVars => FeeInv'
  <2> SUFFICES ASSUME FeeInv, [Fees!Next]_(Fees!vars) PROVE FeeInv'
    BY FeesMove
  <2>1. /\ Fees!TypeOK /\ FetchInv /\ fee_pending \in BOOLEAN /\ fee_backoff \in BOOLEAN
        /\ fee_failed \in BOOLEAN
    BY DEF FeeInv, Fees!TypeOK
  <2> QED
    BY <2>1, FeeTypesStep, FetchInvStep DEF FeeInv
<1> QED
  BY <1>1, <1>2

\* A caller that can wait is given an old rate, or a default for want of one,
\* only after a failed fetch, however many callers share the fetches
\* (refreshFeeCache, getFeeRate).
THEOREM StaleAfterFailure == SessionSpec => StaleOnlyAfterFailure
<1>1. FeeInv => [\A c \in Callers :
                   ((Fees!Ask(c) /\ c \notin fee_waiting') \/ Fees!Answer(c))
                     => fee_cache = "fresh" \/ fee_failed]_(Fees!vars)
  <2> SUFFICES ASSUME FeeInv, NEW c \in Callers,
                      (Fees!Ask(c) /\ c \notin fee_waiting') \/ Fees!Answer(c)
               PROVE  fee_cache = "fresh" \/ fee_failed
    OBVIOUS
  <2>1. FetchInv
    BY DEF FeeInv
  <2>2. CASE Fees!Ask(c) /\ c \notin fee_waiting'
    <3>1. ~(fee_cache # "fresh" /\ Fees!Refreshed)
      BY <2>2, SMT DEF Fees!Ask
    <3> QED
      BY <2>1, <3>1 DEF Fees!Refreshed, FetchInv
  <2>3. CASE Fees!Answer(c)
    BY <2>1, <2>3, SMT DEF Fees!Answer, FetchInv
  <2> QED
    BY <2>2, <2>3
<1> QED
  BY <1>1, FeesHold, PTL DEF SessionSpec, StaleOnlyAfterFailure, Fees!StaleOnlyAfterFailure

(***************************************************************************)
(* The requests of the Esplora client.                                     *)
(***************************************************************************)

LEMMA PoolBounds == MaxConcurrent \in Nat \ {0} /\ IsFiniteSet(Urls)
BY SessionAssumption

LEMMA PoolCardinality ==
  ASSUME NEW s PROVE Pool!Cardinality(s) = Cardinality(s)
BY DEF Pool!Cardinality, Cardinality

\* The URLs of fetches that run, and of those that wait.
UrlsOf(s) == {f[1] : f \in s}
QueuedIn(q) == {q[k] : k \in 1..Len(q)}

PoolTypes ==
  /\ req_count \in 0..MaxConcurrent /\ req_queue \in Seq(Urls)
  /\ req_fetching \in SUBSET (Urls \X Pool!Signals) /\ IsFiniteSet(req_fetching)
  /\ req_inflight \in SUBSET Urls
  /\ req_asks \in [Users -> Urls \cup {Pool!NoUrl}] /\ req_signal \in Pool!Signals

\* A URL is fetched or waits for a slot, once.
FetchedOnce ==
  /\ \A f, g \in req_fetching : f[1] = g[1] => f = g
  /\ \A j, k \in 1..Len(req_queue) : req_queue[j] = req_queue[k] => j = k
  /\ \A k \in 1..Len(req_queue) : req_queue[k] \notin UrlsOf(req_fetching)

SlotsHeld ==
  /\ req_count + Cardinality(req_fetching) = MaxConcurrent
  /\ req_queue # <<>> => req_count = 0
  /\ req_inflight = UrlsOf(req_fetching) \cup QueuedIn(req_queue)
  /\ Cardinality(req_inflight) = Cardinality(req_fetching) + Len(req_queue)

PoolInv == PoolTypes /\ FetchedOnce /\ SlotsHeld

\* One more fetch, of a URL that is not fetched.
LEMMA FetchBegins ==
  ASSUME NEW s \in SUBSET (Urls \X Pool!Signals), IsFiniteSet(s),
         NEW url \in Urls, NEW sig \in Pool!Signals, url \notin UrlsOf(s),
         \A f, g \in s : f[1] = g[1] => f = g
  PROVE  LET t == s \cup {<<url, sig>>} IN
         /\ t \in SUBSET (Urls \X Pool!Signals) /\ IsFiniteSet(t)
         /\ Cardinality(t) = Cardinality(s) + 1 /\ UrlsOf(t) = UrlsOf(s) \cup {url}
         /\ \A f, g \in t : f[1] = g[1] => f = g
<1> DEFINE e == <<url, sig>>
<1>1. e \in Urls \X Pool!Signals /\ e[1] = url
  OBVIOUS
<1> HIDE DEF e
<1>2. e \notin s
  BY <1>1 DEF UrlsOf
<1>3. IsFiniteSet(s \cup {e}) /\ Cardinality(s \cup {e}) = Cardinality(s) + 1
  BY <1>2, FS_AddElement
<1>4. UrlsOf(s \cup {e}) = UrlsOf(s) \cup {url}
  BY <1>1 DEF UrlsOf
<1>5. \A f, g \in s \cup {e} : f[1] = g[1] => f = g
  BY <1>1 DEF UrlsOf
<1> QED
  BY <1>1, <1>3, <1>4, <1>5 DEF e

\* One fetch less.
LEMMA FetchOver ==
  ASSUME NEW s \in SUBSET (Urls \X Pool!Signals), IsFiniteSet(s), NEW f \in s,
         \A g, h \in s : g[1] = h[1] => g = h
  PROVE  LET t == s \ {f} IN
         /\ t \in SUBSET (Urls \X Pool!Signals) /\ IsFiniteSet(t)
         /\ Cardinality(s) \in Nat \ {0} /\ Cardinality(t) = Cardinality(s) - 1
         /\ f[1] \in UrlsOf(s) /\ f[1] \in Urls /\ UrlsOf(t) = UrlsOf(s) \ {f[1]}
         /\ \A g, h \in t : g[1] = h[1] => g = h
<1>1. IsFiniteSet(s \ {f}) /\ Cardinality(s \ {f}) = Cardinality(s) - 1
  BY FS_RemoveElement
<1>2. Cardinality(s) \in Nat \ {0}
  BY FS_CardinalityType, FS_EmptySet
<1>3. UrlsOf(s \ {f}) = UrlsOf(s) \ {f[1]} /\ f[1] \in UrlsOf(s)
  BY DEF UrlsOf
<1>4. f \in Urls \X Pool!Signals
  OBVIOUS
<1>5. f[1] \in Urls
  BY <1>4
<1> QED
  BY <1>1, <1>2, <1>3, <1>5

LEMMA WaitingMoves ==
  ASSUME NEW q \in Seq(Urls)
  PROVE  /\ Len(q) \in Nat
         /\ \A u \in Urls :
              /\ Append(q, u) \in Seq(Urls) /\ Len(Append(q, u)) = Len(q) + 1
              /\ QueuedIn(Append(q, u)) = QueuedIn(q) \cup {u}
              /\ \A k \in 1..Len(q) : Append(q, u)[k] = q[k]
              /\ Append(q, u)[Len(q) + 1] = u
         /\ q # <<>> =>
              /\ Head(q) = q[1] /\ q[1] \in Urls /\ 1 \in 1..Len(q)
              /\ Tail(q) \in Seq(Urls) /\ Len(Tail(q)) = Len(q) - 1
              /\ \A k \in 1..Len(Tail(q)) : k + 1 \in 1..Len(q) /\ Tail(q)[k] = q[k + 1]
              /\ QueuedIn(q) = QueuedIn(Tail(q)) \cup {q[1]}
<1>1. Len(q) \in Nat
  OBVIOUS
<1>2. ASSUME NEW u \in Urls
      PROVE  /\ Append(q, u) \in Seq(Urls) /\ Len(Append(q, u)) = Len(q) + 1
             /\ QueuedIn(Append(q, u)) = QueuedIn(q) \cup {u}
             /\ \A k \in 1..Len(q) : Append(q, u)[k] = q[k]
             /\ Append(q, u)[Len(q) + 1] = u
  <2> DEFINE p == Append(q, u)
  <2>1. /\ p \in Seq(Urls) /\ Len(p) = Len(q) + 1 /\ p[Len(q) + 1] = u
        /\ \A k \in 1..Len(q) : p[k] = q[k]
    OBVIOUS
  <2> HIDE DEF p
  <2>2. 1..Len(p) = 1..Len(q) \cup {Len(q) + 1}
    BY <1>1, <2>1
  <2>3. QueuedIn(p) = QueuedIn(q) \cup {u}
    BY <2>1, <2>2 DEF QueuedIn
  <2> QED
    BY <2>1, <2>3 DEF p
<1>3. ASSUME q # <<>>
      PROVE  /\ Head(q) = q[1] /\ q[1] \in Urls /\ 1 \in 1..Len(q)
             /\ Tail(q) \in Seq(Urls) /\ Len(Tail(q)) = Len(q) - 1
             /\ \A k \in 1..Len(Tail(q)) : k + 1 \in 1..Len(q) /\ Tail(q)[k] = q[k + 1]
             /\ QueuedIn(q) = QueuedIn(Tail(q)) \cup {q[1]}
  <2> DEFINE p == Tail(q)
  <2>1. /\ Head(q) = q[1] /\ q[1] \in Urls /\ 1 \in 1..Len(q)
        /\ p \in Seq(Urls) /\ Len(p) = Len(q) - 1
        /\ \A k \in 1..Len(p) : p[k] = q[k + 1]
    BY <1>3
  <2> HIDE DEF p
  <2>2. \A k \in 1..Len(p) : k + 1 \in 1..Len(q)
    BY <1>1, <2>1
  <2>3. \A k \in 1..Len(q) : k # 1 => k - 1 \in 1..Len(p) /\ (k - 1) + 1 = k
    BY <1>1, <2>1
  <2>4. \A k \in 1..Len(q) : k # 1 => q[k] = p[k - 1]
    BY <2>1, <2>3
  <2>5. QueuedIn(q) = QueuedIn(p) \cup {q[1]}
    BY <2>1, <2>2, <2>3, <2>4 DEF QueuedIn
  <2> QED
    BY <2>1, <2>2, <2>5 DEF p
<1> QED
  BY <1>1, <1>2, <1>3

LEMMA InflightFinite ==
  ASSUME PoolTypes PROVE IsFiniteSet(req_inflight) /\ Cardinality(req_inflight) \in Nat
                         /\ Cardinality(req_inflight) <= Cardinality(Urls)
                         /\ Cardinality(req_fetching) \in Nat
BY PoolBounds, FS_Subset, FS_CardinalityType DEF PoolTypes

\* A getter joins a fetch, or starts one, or queues it.
LEMMA GetKeeps ==
  ASSUME PoolInv, NEW u \in Users, NEW url \in Urls, Pool!Get(u, url)
  PROVE  PoolInv'
<1>1. PoolTypes /\ FetchedOnce /\ SlotsHeld
  BY DEF PoolInv
<1>2. /\ req_asks' = [req_asks EXCEPT ![u] = url] /\ req_signal' = req_signal
      /\ req_asks' \in [Users -> Urls \cup {Pool!NoUrl}] /\ req_signal' \in Pool!Signals
  BY <1>1 DEF Pool!Get, PoolTypes
<1>3. CASE UNCHANGED <<req_count, req_queue, req_fetching, req_inflight>>
  BY <1>1, <1>2, <1>3 DEF PoolInv, PoolTypes, FetchedOnce, SlotsHeld
<1>4. CASE url \notin req_inflight /\ Pool!Acquire(url) /\ req_inflight' = req_inflight \cup {url}
  <2> DEFINE n == Cardinality(req_fetching)  i == Cardinality(req_inflight)
  <2>1. /\ url \notin UrlsOf(req_fetching) /\ url \notin QueuedIn(req_queue)
        /\ req_count \in Nat /\ req_count <= MaxConcurrent /\ n \in Nat /\ i \in Nat
        /\ Len(req_queue) \in Nat /\ MaxConcurrent \in Nat
        /\ req_count + n = MaxConcurrent /\ i = n + Len(req_queue)
    BY <1>1, <1>4, PoolBounds, InflightFinite DEF SlotsHeld, PoolTypes
  <2>2. /\ req_inflight' \in SUBSET Urls /\ Cardinality(req_inflight') = i + 1
    BY <1>1, <1>4, InflightFinite, FS_AddElement DEF PoolTypes
  <2> HIDE DEF n, i
  <2>3. CASE req_count > 0
    <3>1. /\ req_count' = req_count - 1 /\ req_queue' = req_queue
          /\ req_fetching' = req_fetching \cup {<<url, req_signal>>}
      BY <1>4, <2>3 DEF Pool!Acquire
    <3>2. req_queue = <<>> /\ Len(req_queue) = 0
      BY <1>1, <2>3 DEF SlotsHeld
    <3>3. /\ req_fetching' \in SUBSET (Urls \X Pool!Signals) /\ IsFiniteSet(req_fetching')
          /\ Cardinality(req_fetching') = n + 1
          /\ UrlsOf(req_fetching') = UrlsOf(req_fetching) \cup {url}
          /\ \A f, g \in req_fetching' : f[1] = g[1] => f = g
      BY <1>1, <2>1, <3>1, FetchBegins DEF PoolTypes, FetchedOnce, n
    <3>4. PoolTypes'
      BY <1>1, <1>2, <2>1, <2>2, <2>3, <3>1, <3>3 DEF PoolTypes
    <3>5. FetchedOnce'
      BY <3>1, <3>2, <3>3 DEF FetchedOnce
    <3>6. /\ req_count' + Cardinality(req_fetching') = MaxConcurrent
          /\ Cardinality(req_inflight') = Cardinality(req_fetching') + Len(req_queue')
      BY <2>1, <2>2, <3>1, <3>2, <3>3
    <3>7. req_inflight' = UrlsOf(req_fetching') \cup QueuedIn(req_queue')
      BY <1>1, <1>4, <3>1, <3>3 DEF SlotsHeld
    <3>8. SlotsHeld'
      BY <3>1, <3>2, <3>6, <3>7 DEF SlotsHeld
    <3> QED
      BY <3>4, <3>5, <3>8 DEF PoolInv
  <2>4. CASE ~ (req_count > 0)
    <3>1. /\ req_count = 0 /\ req_count' = req_count /\ req_fetching' = req_fetching
          /\ req_queue' = Append(req_queue, url)
      BY <1>4, <2>1, <2>4 DEF Pool!Acquire
    <3>2. req_queue \in Seq(Urls)
      BY <1>1 DEF PoolTypes
    <3>3. /\ req_queue' \in Seq(Urls) /\ Len(req_queue') = Len(req_queue) + 1
          /\ QueuedIn(req_queue') = QueuedIn(req_queue) \cup {url}
          /\ \A k \in 1..Len(req_queue) : req_queue'[k] = req_queue[k]
          /\ req_queue'[Len(req_queue) + 1] = url
      BY <3>1, <3>2, WaitingMoves
    <3>4. PoolTypes'
      BY <1>1, <1>2, <2>2, <3>1, <3>3 DEF PoolTypes
    <3>5. \A k \in 1..Len(req_queue') : k \in 1..Len(req_queue) \/ k = Len(req_queue) + 1
      BY <2>1, <3>3
    <3>6. \A k \in 1..Len(req_queue) : req_queue[k] # url
      BY <2>1 DEF QueuedIn
    <3>7. \A j, k \in 1..Len(req_queue') : req_queue'[j] = req_queue'[k] => j = k
      BY <1>1, <3>3, <3>5, <3>6 DEF FetchedOnce
    <3>8. \A k \in 1..Len(req_queue') : req_queue'[k] \notin UrlsOf(req_fetching')
      BY <1>1, <2>1, <3>1, <3>3, <3>5 DEF FetchedOnce
    <3>9. FetchedOnce'
      BY <1>1, <3>1, <3>7, <3>8 DEF FetchedOnce
    <3>10. Cardinality(req_inflight') = Cardinality(req_fetching') + Len(req_queue')
      BY <2>1, <2>2, <3>1, <3>3 DEF n
    <3>11. req_inflight' = UrlsOf(req_fetching') \cup QueuedIn(req_queue')
      BY <1>1, <1>4, <3>1, <3>3 DEF SlotsHeld
    <3>12. SlotsHeld'
      BY <1>1, <3>1, <3>10, <3>11 DEF SlotsHeld
    <3> QED
      BY <3>4, <3>9, <3>12 DEF PoolInv
  <2> QED
    BY <2>3, <2>4
<1> QED
  BY <1>3, <1>4 DEF Pool!Get

\* A fetch ends, and the first that waits has its slot.
LEMMA EndKeeps ==
  ASSUME PoolInv, NEW f \in req_fetching, Pool!FetchEnds(f)
  PROVE  PoolInv'
<1> DEFINE n == Cardinality(req_fetching)  i == Cardinality(req_inflight)
           t == req_fetching \ {f}
<1>1. PoolTypes /\ FetchedOnce /\ SlotsHeld
  BY DEF PoolInv
<1>2. /\ Pool!Release(f) /\ req_inflight' = req_inflight \ {f[1]}
      /\ req_asks' = [u \in Users |-> IF req_asks[u] = f[1] THEN Pool!NoUrl ELSE req_asks[u]]
      /\ req_signal' = req_signal
  BY DEF Pool!FetchEnds
<1>3. req_asks' \in [Users -> Urls \cup {Pool!NoUrl}] /\ req_signal' \in Pool!Signals
  BY <1>1, <1>2 DEF PoolTypes
<1>4. /\ t \in SUBSET (Urls \X Pool!Signals) /\ IsFiniteSet(t)
      /\ n \in Nat \ {0} /\ Cardinality(t) = n - 1
      /\ f[1] \in UrlsOf(req_fetching) /\ f[1] \in Urls
      /\ UrlsOf(t) = UrlsOf(req_fetching) \ {f[1]}
      /\ \A g, h \in t : g[1] = h[1] => g = h
  BY <1>1, FetchOver DEF PoolTypes, FetchedOnce
<1>5. /\ req_count \in Nat /\ req_count <= MaxConcurrent /\ i \in Nat
      /\ Len(req_queue) \in Nat /\ MaxConcurrent \in Nat
      /\ req_count + n = MaxConcurrent /\ i = n + Len(req_queue)
      /\ IsFiniteSet(req_inflight) /\ req_queue \in Seq(Urls)
      /\ req_inflight = UrlsOf(req_fetching) \cup QueuedIn(req_queue)
  BY <1>1, PoolBounds, InflightFinite DEF SlotsHeld, PoolTypes
<1>6. /\ req_inflight' \in SUBSET Urls /\ Cardinality(req_inflight') = i - 1
  BY <1>1, <1>2, <1>4, <1>5, FS_RemoveElement DEF PoolTypes
<1>7. f[1] \notin QueuedIn(req_queue) /\ QueuedIn(req_queue) \cap UrlsOf(req_fetching) = {}
  BY <1>1, <1>4 DEF FetchedOnce, QueuedIn
<1> HIDE DEF n, i, t
<1>8. CASE req_queue = <<>>
  <2>1. /\ req_fetching' = t /\ req_count' = req_count + 1 /\ req_queue' = req_queue
    BY <1>2, <1>8 DEF Pool!Release, t
  <2>2. QueuedIn(req_queue) = {} /\ Len(req_queue) = 0
    BY <1>8 DEF QueuedIn
  <2>3. PoolTypes'
    BY <1>1, <1>3, <1>4, <1>5, <1>6, <2>1 DEF PoolTypes
  <2>4. FetchedOnce'
    BY <1>4, <2>1, <2>2 DEF FetchedOnce
  <2>5. SlotsHeld'
    BY <1>2, <1>4, <1>5, <1>6, <1>8, <2>1, <2>2 DEF SlotsHeld
  <2> QED
    BY <2>3, <2>4, <2>5 DEF PoolInv
<1>9. CASE req_queue # <<>>
  <2> DEFINE url == req_queue[1]  q2 == Tail(req_queue)
  <2>1. /\ Head(req_queue) = url /\ url \in Urls /\ 1 \in 1..Len(req_queue)
        /\ q2 \in Seq(Urls) /\ Len(q2) = Len(req_queue) - 1
        /\ \A k \in 1..Len(q2) : k + 1 \in 1..Len(req_queue) /\ q2[k] = req_queue[k + 1]
        /\ QueuedIn(req_queue) = QueuedIn(q2) \cup {url}
    BY <1>5, <1>9, WaitingMoves
  <2> HIDE DEF url, q2
  <2>2. /\ req_fetching' = t \cup {<<url, req_signal>>} /\ req_count' = req_count
        /\ req_queue' = q2
    BY <1>2, <1>9, <2>1 DEF Pool!Release, t, q2
  <2>3. url \notin UrlsOf(t) /\ url # f[1]
    BY <1>4, <1>7, <2>1
  <2>4. /\ req_fetching' \in SUBSET (Urls \X Pool!Signals) /\ IsFiniteSet(req_fetching')
        /\ Cardinality(req_fetching') = Cardinality(t) + 1
        /\ UrlsOf(req_fetching') = UrlsOf(t) \cup {url}
        /\ \A g, h \in req_fetching' : g[1] = h[1] => g = h
    <3>1. req_signal \in Pool!Signals
      BY <1>1 DEF PoolTypes
    <3>2. /\ t \in SUBSET (Urls \X Pool!Signals) /\ IsFiniteSet(t) /\ url \in Urls
          /\ url \notin UrlsOf(t) /\ \A g, h \in t : g[1] = h[1] => g = h
      BY <1>4, <2>1, <2>3
    <3>3. LET r == t \cup {<<url, req_signal>>} IN
          /\ r \in SUBSET (Urls \X Pool!Signals) /\ IsFiniteSet(r)
          /\ Cardinality(r) = Cardinality(t) + 1 /\ UrlsOf(r) = UrlsOf(t) \cup {url}
          /\ \A g, h \in r : g[1] = h[1] => g = h
      BY <3>1, <3>2, FetchBegins
    <3> QED
      BY <2>2, <3>3
  <2>5. PoolTypes'
    BY <1>1, <1>3, <1>6, <2>1, <2>2, <2>4 DEF PoolTypes
  <2>6. \A j, k \in 1..Len(q2) : q2[j] = q2[k] => j = k
    <3>1. ASSUME NEW j \in 1..Len(q2), NEW k \in 1..Len(q2), q2[j] = q2[k] PROVE j = k
      <4>1. j + 1 = k + 1
        BY <1>1, <2>1, <3>1 DEF FetchedOnce
      <4> QED
        BY <4>1
    <3> QED
      BY <3>1
  <2>7. url \notin QueuedIn(q2)
    <3>1. \A k \in 1..Len(q2) : k + 1 # 1
      BY <1>5, <2>1
    <3>2. \A k \in 1..Len(q2) : q2[k] # url
      BY <1>1, <2>1, <3>1 DEF FetchedOnce, url
    <3> QED
      BY <3>2 DEF QueuedIn
  <2>8. \A k \in 1..Len(q2) : q2[k] \notin UrlsOf(req_fetching')
    <3>1. \A k \in 1..Len(q2) : q2[k] \in QueuedIn(q2)
      BY DEF QueuedIn
    <3> QED
      BY <1>4, <1>7, <2>1, <2>4, <2>7, <3>1
  <2>9. FetchedOnce'
    BY <2>2, <2>4, <2>6, <2>8 DEF FetchedOnce
  <2>10. req_inflight' = UrlsOf(req_fetching') \cup QueuedIn(q2)
    BY <1>2, <1>4, <1>5, <1>7, <2>1, <2>3, <2>4
  <2>11. /\ req_count' + Cardinality(req_fetching') = MaxConcurrent
         /\ Cardinality(req_inflight') = Cardinality(req_fetching') + Len(q2)
    BY <1>4, <1>5, <1>6, <2>1, <2>2, <2>4
  <2>12. SlotsHeld'
    BY <1>1, <1>9, <2>2, <2>10, <2>11 DEF SlotsHeld
  <2> QED
    BY <2>5, <2>9, <2>12 DEF PoolInv
<1> QED
  BY <1>8, <1>9

LEMMA SignalKeeps ==
  ASSUME PoolInv, NEW s \in {"none", "live"}, Pool!SetSignal(s)
  PROVE  PoolInv'
BY DEF Pool!SetSignal, Pool!Signals, PoolInv, PoolTypes, FetchedOnce, SlotsHeld

\* The sync's timeout aborts fetches, and moves none.
LEMMA AbortKeeps ==
  ASSUME PoolInv, Pool!Abort
  PROVE  PoolInv'
<1> DEFINE S == req_fetching  T == req_fetching'
           A(f) == <<f[1], IF f[2] = "live" THEN "aborted" ELSE f[2]>>
           F == [f \in S |-> A(f)]
<1>1. PoolTypes /\ FetchedOnce /\ SlotsHeld
  BY DEF PoolInv
<1>2. /\ T = {A(f) : f \in S} /\ req_signal' = "aborted" /\ req_signal' \in Pool!Signals
      /\ UNCHANGED <<req_count, req_queue, req_inflight, req_asks>>
  BY DEF Pool!Abort, Pool!Signals
<1>3. S \in SUBSET (Urls \X Pool!Signals) /\ IsFiniteSet(S)
  BY <1>1 DEF PoolTypes
<1>4. \A f \in S : f[1] \in Urls /\ f[2] \in Pool!Signals
  BY <1>3
<1>5. \A f \in S : A(f) \in Urls \X Pool!Signals /\ A(f)[1] = f[1]
  BY <1>4 DEF Pool!Signals
<1>6. \A f, g \in S : A(f) = A(g) => f = g
  <2>1. \A f, g \in S : f[1] = g[1] => f = g
    BY <1>1 DEF FetchedOnce
  <2> QED
    BY <1>5, <2>1
<1> HIDE DEF A
<1>7. T \in SUBSET (Urls \X Pool!Signals)
  BY <1>2, <1>5
<1>8. F \in Bijection(S, T)
  <2>1. F \in [S -> T]
    BY <1>2
  <2>2. \A f, g \in S : F[f] = F[g] => f = g
    BY <1>6
  <2>3. \A y \in T : \E f \in S : F[f] = y
    BY <1>2
  <2> QED
    BY <2>1, <2>2, <2>3, Fun_IsBij
<1>9. IsFiniteSet(T) /\ Cardinality(T) = Cardinality(S)
  BY <1>3, <1>8, FS_Bijection DEF ExistsBijection
<1>10. UrlsOf(T) = UrlsOf(S)
  BY <1>2, <1>5 DEF UrlsOf
<1>11. \A f, g \in T : f[1] = g[1] => f = g
  BY <1>1, <1>2, <1>5 DEF FetchedOnce
<1> HIDE DEF S, T, F
<1>12. PoolTypes'
  BY <1>1, <1>2, <1>7, <1>9 DEF PoolTypes, T
<1>13. FetchedOnce'
  BY <1>1, <1>2, <1>10, <1>11 DEF FetchedOnce, S, T
<1>14. SlotsHeld'
  BY <1>1, <1>2, <1>9, <1>10 DEF SlotsHeld, S, T
<1> QED
  BY <1>12, <1>13, <1>14 DEF PoolInv

LEMMA PoolMoves ==
  ASSUME [SessionNext]_sessionVars PROVE [Pool!Next]_(Pool!vars)
<1>1. CASE UNCHANGED sessionVars
  BY <1>1 DEF sessionVars, reqVars, Pool!vars
<1>2. CASE SessionNext
  <2>1. part # "requests" => UNCHANGED reqVars
    BY <1>2 DEF SessionNext, Rest
  <2>2. part = "requests" => Pool!Next
    BY <1>2 DEF SessionNext
  <2> QED
    BY <2>1, <2>2 DEF reqVars, Pool!vars
<1> QED
  BY <1>1, <1>2

LEMMA PoolHolds ==
  /\ SessionInit => PoolInv
  /\ PoolInv /\ [SessionNext]_sessionVars => PoolInv'
<1>1. ASSUME SessionInit PROVE PoolInv
  <2>1. /\ req_count = MaxConcurrent /\ req_queue = <<>> /\ req_fetching = {}
        /\ req_inflight = {} /\ req_asks = [u \in Users |-> Pool!NoUrl]
        /\ req_signal = "none"
    BY <1>1 DEF SessionInit, Pool!Init
  <2>2. IsFiniteSet({}) /\ Cardinality({}) = 0 /\ Len(<<>>) = 0 /\ MaxConcurrent \in Nat
    BY FS_EmptySet, PoolBounds
  <2>3. UrlsOf({}) = {} /\ QueuedIn(<<>>) = {}
    BY DEF UrlsOf, QueuedIn
  <2>4. PoolTypes
    BY <2>1, <2>2 DEF PoolTypes, Pool!Signals
  <2>5. FetchedOnce
    BY <2>1, <2>2 DEF FetchedOnce
  <2>6. SlotsHeld
    BY <2>1, <2>2, <2>3 DEF SlotsHeld
  <2> QED
    BY <2>4, <2>5, <2>6 DEF PoolInv
<1>2. ASSUME PoolInv, [SessionNext]_sessionVars PROVE PoolInv'
  <2>1. [Pool!Next]_(Pool!vars)
    BY <1>2, PoolMoves
  <2>2. CASE UNCHANGED Pool!vars
    BY <1>2, <2>2 DEF Pool!vars, PoolInv, PoolTypes, FetchedOnce, SlotsHeld
  <2>3. CASE \E u \in Users, url \in Urls : Pool!Get(u, url)
    BY <1>2, <2>3, GetKeeps
  <2>4. CASE \E f \in req_fetching : Pool!FetchEnds(f)
    BY <1>2, <2>4, EndKeeps
  <2>5. CASE \E s \in {"none", "live"} : Pool!SetSignal(s)
    BY <1>2, <2>5, SignalKeeps
  <2>6. CASE Pool!Abort
    BY <1>2, <2>6, AbortKeeps
  <2> QED
    BY <2>1, <2>2, <2>3, <2>4, <2>5, <2>6 DEF Pool!Next
<1> QED
  BY <1>1, <1>2

LEMMA PoolTyped == PoolInv => Pool!TypeOK
<1> SUFFICES ASSUME PoolInv PROVE Pool!TypeOK
  OBVIOUS
<1>1. PoolTypes /\ SlotsHeld
  BY DEF PoolInv
<1>2. Len(req_queue) <= Cardinality(Urls)
  <2> DEFINE n == Cardinality(req_fetching)  i == Cardinality(req_inflight)
             m == Cardinality(Urls)
  <2>1. n \in Nat /\ i \in Nat /\ i <= m /\ i = n + Len(req_queue) /\ Len(req_queue) \in Nat
    BY <1>1, InflightFinite DEF PoolTypes, SlotsHeld
  <2>2. m \in Nat
    BY PoolBounds, FS_CardinalityType
  <2> HIDE DEF n, i, m
  <2>3. Len(req_queue) <= m
    BY <2>1, <2>2
  <2> QED
    BY <2>3 DEF m
<1>3. Pool!Cardinality(Urls) = Cardinality(Urls)
  BY PoolCardinality
<1> QED
  BY <1>1, <1>2, <1>3 DEF Pool!TypeOK, PoolTypes

\* Slots are neither lost nor made, a URL waits only while none is free, and a
\* shared promise has one fetch that runs or waits, for every number of users,
\* URLs and slots (Semaphore, dedupFetch).
THEOREM SlotsKept == SessionSpec => []SlotsConserved
<1>1. PoolInv => SlotsConserved
  <2> SUFFICES ASSUME PoolInv PROVE SlotsConserved
    OBVIOUS
  <2>1. SlotsHeld
    BY DEF PoolInv
  <2>2. /\ Pool!Cardinality(req_fetching) = Cardinality(req_fetching)
        /\ Pool!Cardinality(req_inflight) = Cardinality(req_inflight)
    BY PoolCardinality
  <2>3. Pool!ToSet(req_queue) = QueuedIn(req_queue)
    <3>1. req_queue \in Seq(Urls)
      BY DEF PoolInv, PoolTypes
    <3>2. DOMAIN req_queue = 1..Len(req_queue)
      BY <3>1
    <3> QED
      BY <3>2 DEF Pool!ToSet, QueuedIn
  <2>4. {f[1] : f \in req_fetching} = UrlsOf(req_fetching)
    BY DEF UrlsOf
  <2> QED
    BY <2>1, <2>2, <2>3, <2>4 DEF SlotsConserved, Pool!SlotsConserved, SlotsHeld
<1> QED
  BY <1>1, PoolHolds, PTL DEF SessionSpec

(***************************************************************************)
(* The sync loop: its counters, and the gossip it knows of.                *)
(***************************************************************************)

LEMMA LoopBounds ==
  /\ GraphEvery * RgsEvery \in Nat \ {0} /\ StaleThreshold \in Nat \ {0}
  /\ MaxBackoff \in Nat \ {0} /\ LoopTroubles \in Nat /\ MaxGossip \in Nat
<1>1. \A a, b \in Nat \ {0} : a * b \in Nat \ {0}
  OBVIOUS
<1> QED
  BY <1>1, SessionAssumption

LEMMA Remainder ==
  ASSUME NEW n \in Nat \ {0}, NEW k \in Nat
  PROVE  (k + 1) % n \in 0..(n - 1)
OBVIOUS

LEMMA LowerBounds ==
  ASSUME NEW m \in Nat
  PROVE  /\ \A a \in Nat : Loop!Lower(a, m) \in 0..m
         /\ \A a \in Nat \ {0} : m # 0 => Loop!Lower(a, m) \in 1..m
BY DEF Loop!Lower

\* The tick and its writes.
LoopTypes ==
  /\ loop_pc \in {"wait", "sync", "cm", "graph", "rgs", "rgsgraph", "ok"}
  /\ loop_stopped \in BOOLEAN /\ loop_tickCount \in 0..(GraphEvery * RgsEvery - 1)
  /\ loop_errors \in 0..StaleThreshold /\ loop_backoff \in 1..MaxBackoff
  /\ loop_status \in {"syncing", "synced", "stale"}
  /\ loop_dirty \in BOOLEAN /\ loop_cmNeedsPersist \in BOOLEAN /\ loop_owed \in BOOLEAN
  /\ loop_troubles \in 0..LoopTroubles

\* What is known of the gossip is what the server has or had.
GossipTypes ==
  /\ loop_server \in Loop!Time
  /\ loop_graph \in SUBSET (1..loop_server) /\ loop_storedGraph \in SUBSET (1..loop_server)
  /\ loop_storedTimestamp \in 0..loop_server
  /\ loop_rgs \in Loop!Rgs /\ loop_rgs.ts <= loop_server /\ loop_rgs.upto <= loop_server

LoopInv == LoopTypes /\ GossipTypes

LEMMA LoopRests ==
  ASSUME LoopTypes,
         UNCHANGED <<loop_stopped, loop_tickCount, loop_errors, loop_backoff, loop_status,
                     loop_dirty, loop_cmNeedsPersist, loop_owed>>,
         loop_pc' \in {loop_pc, "ok"}, loop_troubles' \in 0..LoopTroubles
  PROVE  LoopTypes'
BY DEF LoopTypes

LEMMA TroubleCounted ==
  ASSUME LoopTypes, Loop!Trouble PROVE loop_troubles' \in 0..LoopTroubles
BY LoopBounds DEF LoopTypes, Loop!Trouble

LEMMA ThrowsTyped ==
  ASSUME LoopTypes, Loop!Throws
  PROVE  /\ loop_pc' = "wait" /\ loop_errors' \in 0..StaleThreshold
         /\ loop_backoff' \in 1..MaxBackoff /\ loop_status' \in {"syncing", "synced", "stale"}
<1>1. loop_errors + 1 \in Nat /\ 2 * loop_backoff \in Nat \ {0}
  BY LoopBounds DEF LoopTypes
<1> QED
  BY <1>1, LoopBounds, LowerBounds DEF LoopTypes, Loop!Throws

LEMMA GossipRests ==
  ASSUME GossipTypes, UNCHANGED <<loop_server, loop_graph, loop_rgs, loop_storedTimestamp>>,
         loop_storedGraph' \in {loop_storedGraph, loop_graph}
  PROVE  GossipTypes'
BY DEF GossipTypes

LEMMA TickTyped ==
  ASSUME LoopInv, Loop!Tick PROVE LoopInv'
<1>1. LoopTypes /\ GossipTypes
  BY DEF LoopInv
<1>2. LoopTypes'
  BY <1>1 DEF Loop!Tick, Loop!loop, Loop!cm, LoopTypes
<1>3. GossipTypes'
  <2>1. loop_rgs' \in {loop_rgs, [loop_rgs EXCEPT !.at = "read"]}
        /\ UNCHANGED <<loop_server, loop_graph, loop_storedGraph, loop_storedTimestamp>>
    BY DEF Loop!Tick
  <2> QED
    BY <1>1, <2>1, SMT DEF GossipTypes, Loop!Rgs
<1> QED
  BY <1>2, <1>3 DEF LoopInv

LEMMA TickStepTyped ==
  ASSUME LoopInv, Loop!TickStep PROVE LoopInv'
<1>1. LoopTypes /\ GossipTypes
  BY DEF LoopInv
<1>2. CASE Loop!Synced
  <2>1. LoopTypes'
    <3>1. /\ loop_pc' \in {"cm", "graph"} /\ UNCHANGED <<Loop!loop, loop_troubles>>
          /\ \/ UNCHANGED Loop!cm
             \/ loop_cmNeedsPersist' = FALSE /\ loop_owed' = TRUE
                /\ loop_dirty' = (loop_dirty /\ loop_cmNeedsPersist)
      BY <1>2 DEF Loop!Synced
    <3>2. /\ loop_dirty' \in BOOLEAN /\ loop_cmNeedsPersist' \in BOOLEAN
          /\ loop_owed' \in BOOLEAN
      BY <1>1, <3>1 DEF LoopTypes, Loop!cm
    <3> QED
      BY <1>1, <3>1, <3>2 DEF LoopTypes, Loop!loop
  <2>2. GossipTypes'
    BY <1>1, <1>2 DEF Loop!Synced, Loop!gossip, GossipTypes
  <2> QED
    BY <2>1, <2>2 DEF LoopInv
<1>3. CASE Loop!CmPersisted
  BY <1>1, <1>3 DEF Loop!CmPersisted, Loop!loop, Loop!gossip, LoopTypes, GossipTypes, LoopInv
<1>4. CASE Loop!GraphPut
  <2>1. LoopTypes'
    BY <1>1, <1>4 DEF Loop!GraphPut, Loop!loop, Loop!cm, LoopTypes
  <2>2. GossipTypes'
    BY <1>1, <1>4, GossipRests DEF Loop!GraphPut
  <2> QED
    BY <2>1, <2>2 DEF LoopInv
<1>5. CASE Loop!PeriodicRgs
  <2>1. loop_pc' \in {"rgsgraph", "ok"}
        /\ loop_rgs' \in {loop_rgs, [loop_rgs EXCEPT !.at = "fetch"]}
    BY <1>5, SMT DEF Loop!PeriodicRgs
  <2>2. LoopTypes'
    BY <1>1, <1>5, <2>1 DEF Loop!PeriodicRgs, Loop!loop, Loop!cm, LoopTypes
  <2>3. GossipTypes'
    BY <1>1, <1>5, <2>1, SMT DEF Loop!PeriodicRgs, GossipTypes, Loop!Rgs
  <2> QED
    BY <2>2, <2>3 DEF LoopInv
<1>6. CASE Loop!RgsGraphPut
  <2>1. LoopTypes'
    BY <1>1, <1>6 DEF Loop!RgsGraphPut, Loop!loop, Loop!cm, LoopTypes
  <2>2. GossipTypes'
    BY <1>1, <1>6, GossipRests DEF Loop!RgsGraphPut
  <2> QED
    BY <2>1, <2>2 DEF LoopInv
<1>7. CASE Loop!TickOk
  <2>1. loop_tickCount' \in 0..(GraphEvery * RgsEvery - 1)
    <3>1. loop_tickCount \in Nat /\ GraphEvery * RgsEvery \in Nat \ {0}
      BY <1>1, LoopBounds DEF LoopTypes
    <3> QED
      BY <1>7, <3>1, Remainder DEF Loop!TickOk
  <2>2. 0 \in 0..StaleThreshold /\ 1 \in 1..MaxBackoff
    BY LoopBounds
  <2>3. LoopTypes'
    BY <1>1, <1>7, <2>1, <2>2 DEF Loop!TickOk, Loop!cm, LoopTypes
  <2>4. GossipTypes'
    BY <1>1, <1>7 DEF Loop!TickOk, Loop!gossip, GossipTypes
  <2> QED
    BY <2>3, <2>4 DEF LoopInv
<1> QED
  BY <1>2, <1>3, <1>4, <1>5, <1>6, <1>7 DEF Loop!TickStep

LEMMA TickFailsTyped ==
  ASSUME LoopInv, Loop!SyncFails \/ Loop!CmFails \/ Loop!GraphFails \/ Loop!RgsGraphFails
  PROVE  LoopInv'
<1>1. LoopTypes /\ GossipTypes
  BY DEF LoopInv
<1>2. CASE Loop!SyncFails
  BY <1>1, <1>2, ThrowsTyped, TroubleCounted
  DEF Loop!SyncFails, Loop!cm, Loop!gossip, LoopTypes, GossipTypes, LoopInv
<1>3. CASE Loop!CmFails
  BY <1>1, <1>3, ThrowsTyped, TroubleCounted
  DEF Loop!CmFails, Loop!gossip, LoopTypes, GossipTypes, LoopInv
<1>4. CASE Loop!GraphFails
  <2>1. LoopTypes'
    BY <1>1, <1>4, ThrowsTyped, TroubleCounted DEF Loop!GraphFails, Loop!cm, LoopTypes
  <2>2. GossipTypes'
    BY <1>1, <1>4, GossipRests DEF Loop!GraphFails
  <2> QED
    BY <2>1, <2>2 DEF LoopInv
<1>5. CASE Loop!RgsGraphFails
  BY <1>1, <1>5, TroubleCounted
  DEF Loop!RgsGraphFails, Loop!loop, Loop!cm, Loop!gossip, LoopTypes, GossipTypes, LoopInv
<1> QED
  BY <1>2, <1>3, <1>4, <1>5

LEMMA RgsAt ==
  ASSUME NEW r \in Loop!Rgs, NEW a \in {"idle", "read", "fetch", "put"}
  PROVE  /\ [r EXCEPT !.at = a] \in Loop!Rgs
         /\ [r EXCEPT !.at = a].ts = r.ts /\ [r EXCEPT !.at = a].upto = r.upto
BY SMT DEF Loop!Rgs

LEMMA RgsTimes ==
  ASSUME NEW r \in Loop!Rgs, NEW k \in Loop!Time
  PROVE  /\ [r EXCEPT !.ts = k] \in Loop!Rgs
         /\ [r EXCEPT !.ts = k].ts = k /\ [r EXCEPT !.ts = k].upto = r.upto
         /\ [r EXCEPT !.upto = k] \in Loop!Rgs
         /\ [r EXCEPT !.upto = k].ts = r.ts /\ [r EXCEPT !.upto = k].upto = k
BY SMT DEF Loop!Rgs

LEMMA RgsFields ==
  ASSUME NEW r \in Loop!Rgs, NEW a \in {"idle", "read", "fetch", "put"}, NEW k \in Loop!Time,
         NEW n, n = [r EXCEPT !.at = a, !.ts = k] \/ n = [r EXCEPT !.at = a, !.upto = k]
  PROVE  n \in Loop!Rgs /\ n.ts \in {r.ts, k} /\ n.upto \in {r.upto, k}
<1> DEFINE e == [r EXCEPT !.at = a]
<1>1. e \in Loop!Rgs /\ e.ts = r.ts /\ e.upto = r.upto
  BY RgsAt
<1>2. /\ [r EXCEPT !.at = a, !.ts = k] = [e EXCEPT !.ts = k]
      /\ [r EXCEPT !.at = a, !.upto = k] = [e EXCEPT !.upto = k]
  OBVIOUS
<1> HIDE DEF e
<1>3. n = [e EXCEPT !.ts = k] \/ n = [e EXCEPT !.upto = k]
  BY <1>2
<1>4. CASE n = [e EXCEPT !.ts = k]
  <2>1. n \in Loop!Rgs /\ n.ts = k /\ n.upto = e.upto
    BY <1>1, <1>4, RgsTimes
  <2> QED
    BY <1>1, <2>1
<1>5. CASE n = [e EXCEPT !.upto = k]
  <2>1. n \in Loop!Rgs /\ n.ts = e.ts /\ n.upto = k
    BY <1>1, <1>5, RgsTimes
  <2> QED
    BY <1>1, <2>1
<1> QED
  BY <1>3, <1>4, <1>5

LEMMA RgsTyped ==
  ASSUME LoopInv, Loop!RgsStep \/ Loop!RgsFails
  PROVE  LoopInv'
<1>1. LoopTypes /\ GossipTypes
  BY DEF LoopInv
<1>2. /\ loop_server \in Nat /\ loop_server <= MaxGossip /\ MaxGossip \in Nat
      /\ loop_rgs.ts \in 0..loop_server /\ loop_rgs.upto \in 0..loop_server
      /\ loop_storedTimestamp \in 0..loop_server
  BY <1>1, LoopBounds, SMT DEF GossipTypes, Loop!Time, Loop!Rgs
<1>3. CASE Loop!RgsRead
  <2>1. LoopTypes'
    <3>1. UNCHANGED <<loop_pc, Loop!loop, Loop!cm, loop_troubles>>
      BY <1>3 DEF Loop!RgsRead
    <3> QED
      BY <1>1, <3>1 DEF Loop!loop, Loop!cm, LoopTypes
  <2>2. loop_rgs' \in Loop!Rgs /\ loop_rgs'.ts <= loop_server /\ loop_rgs'.upto <= loop_server
    <3>1. loop_storedTimestamp \in Loop!Time /\ loop_rgs \in Loop!Rgs
      BY <1>1, <1>2 DEF GossipTypes, Loop!Time
    <3>2. PICK a \in {"idle", "read", "fetch", "put"} : a = "fetch"
      OBVIOUS
    <3>3. loop_rgs' = [loop_rgs EXCEPT !.at = a, !.ts = loop_storedTimestamp]
      BY <1>3, <3>2 DEF Loop!RgsRead
    <3>4. /\ loop_rgs' \in Loop!Rgs /\ loop_rgs'.ts \in {loop_rgs.ts, loop_storedTimestamp}
          /\ loop_rgs'.upto \in {loop_rgs.upto, loop_storedTimestamp}
      BY <3>1, <3>3, RgsFields
    <3> QED
      BY <1>2, <3>4
  <2>3. GossipTypes'
    BY <1>1, <1>3, <2>2 DEF Loop!RgsRead, GossipTypes
  <2> QED
    BY <2>1, <2>3 DEF LoopInv
<1>4. CASE Loop!RgsReply
  <2>1. LoopTypes'
    <3>1. UNCHANGED <<loop_pc, Loop!loop, Loop!cm, loop_troubles>>
      BY <1>4 DEF Loop!RgsReply
    <3> QED
      BY <1>1, <3>1 DEF Loop!loop, Loop!cm, LoopTypes
  <2>2. loop_rgs' \in Loop!Rgs /\ loop_rgs'.ts <= loop_server /\ loop_rgs'.upto <= loop_server
    <3>1. loop_server \in Loop!Time /\ loop_rgs \in Loop!Rgs
      BY <1>1 DEF GossipTypes
    <3>2. PICK a \in {"idle", "read", "fetch", "put"} : a = "put"
      OBVIOUS
    <3>3. loop_rgs' = [loop_rgs EXCEPT !.at = a, !.upto = loop_server]
      BY <1>4, <3>2 DEF Loop!RgsReply
    <3>4. /\ loop_rgs' \in Loop!Rgs /\ loop_rgs'.ts \in {loop_rgs.ts, loop_server}
          /\ loop_rgs'.upto \in {loop_rgs.upto, loop_server}
      BY <3>1, <3>3, RgsFields
    <3> QED
      BY <1>2, <3>4
  <2>3. loop_graph' \in SUBSET (1..loop_server)
    <3>1. (loop_rgs.ts + 1)..loop_server \subseteq 1..loop_server
      BY <1>2
    <3> QED
      BY <1>1, <1>4, <3>1 DEF Loop!RgsReply, GossipTypes
  <2>4. GossipTypes'
    BY <1>1, <1>4, <2>2, <2>3 DEF Loop!RgsReply, GossipTypes
  <2> QED
    BY <2>1, <2>4 DEF LoopInv
<1>5. CASE Loop!RgsPut
  <2>1. LoopTypes'
    BY <1>1, <1>5 DEF Loop!RgsPut, Loop!loop, Loop!cm, LoopTypes
  <2>2. loop_rgs' \in Loop!Rgs /\ loop_rgs'.ts <= loop_server /\ loop_rgs'.upto <= loop_server
    BY <1>1, <1>2, <1>5, SMT DEF Loop!RgsPut, Loop!Rgs, Loop!Time
  <2>3. GossipTypes'
    BY <1>1, <1>2, <1>5, <2>2 DEF Loop!RgsPut, GossipTypes
  <2> QED
    BY <2>1, <2>3 DEF LoopInv
<1>6. CASE Loop!RgsFails
  <2>1. LoopTypes'
    <3>1. /\ UNCHANGED <<Loop!loop, Loop!cm>> /\ loop_pc' \in {loop_pc, "ok"}
          /\ Loop!Trouble
      BY <1>6, SMT DEF Loop!RgsFails
    <3> QED
      BY <1>1, <3>1, TroubleCounted, LoopRests DEF Loop!loop, Loop!cm
  <2>2. loop_rgs' \in Loop!Rgs /\ loop_rgs'.ts <= loop_server /\ loop_rgs'.upto <= loop_server
    <3>1. 0 \in Loop!Time /\ loop_rgs \in Loop!Rgs
      BY <1>1, <1>2 DEF GossipTypes, Loop!Time
    <3>2. PICK a \in {"idle", "read", "fetch", "put"} : a = "idle"
      OBVIOUS
    <3>3. loop_rgs' = [loop_rgs EXCEPT !.at = a, !.upto = 0]
      BY <1>6, <3>2 DEF Loop!RgsFails
    <3>4. /\ loop_rgs' \in Loop!Rgs /\ loop_rgs'.ts \in {loop_rgs.ts, 0}
          /\ loop_rgs'.upto \in {loop_rgs.upto, 0}
      BY <3>1, <3>3, RgsFields
    <3> QED
      BY <1>2, <3>4
  <2>3. GossipTypes'
    BY <1>1, <1>6, <2>2 DEF Loop!RgsFails, GossipTypes
  <2> QED
    BY <2>1, <2>3 DEF LoopInv
<1> QED
  BY <1>3, <1>4, <1>5, <1>6 DEF Loop!RgsStep

LEMMA AroundTyped ==
  ASSUME LoopInv, Loop!Stop \/ Loop!LdkChanges \/ Loop!Gossip \/ Loop!Hidden \/ Loop!Restart
  PROVE  LoopInv'
<1>1. LoopTypes /\ GossipTypes
  BY DEF LoopInv
<1>2. CASE Loop!Stop
  BY <1>1, <1>2 DEF Loop!Stop, Loop!cm, Loop!gossip, LoopTypes, GossipTypes, LoopInv
<1>3. CASE Loop!LdkChanges
  BY <1>1, <1>3 DEF Loop!LdkChanges, Loop!loop, Loop!gossip, LoopTypes, GossipTypes, LoopInv
<1>4. CASE Loop!Gossip
  <2>1. LoopTypes'
    BY <1>1, <1>4 DEF Loop!Gossip, Loop!loop, Loop!cm, LoopTypes
  <2>2. /\ loop_server \in Nat /\ loop_server' = loop_server + 1
        /\ loop_server' \in Loop!Time
        /\ loop_rgs.ts \in Nat /\ loop_rgs.upto \in Nat
    BY <1>1, <1>4, LoopBounds, SMT DEF Loop!Gossip, GossipTypes, Loop!Time, Loop!Rgs
  <2>3. /\ 1..loop_server \subseteq 1..loop_server' /\ 0..loop_server \subseteq 0..loop_server'
        /\ loop_rgs.ts <= loop_server' /\ loop_rgs.upto <= loop_server'
    BY <1>1, <2>2 DEF GossipTypes
  <2>4. GossipTypes'
    BY <1>1, <1>4, <2>2, <2>3 DEF Loop!Gossip, GossipTypes
  <2> QED
    BY <2>1, <2>4 DEF LoopInv
<1>5. CASE Loop!Hidden
  <2>1. LoopTypes'
    BY <1>1, <1>5 DEF Loop!Hidden, Loop!loop, Loop!cm, LoopTypes
  <2>2. GossipTypes'
    BY <1>1, <1>5, GossipRests DEF Loop!Hidden
  <2> QED
    BY <2>1, <2>2 DEF LoopInv
<1>6. CASE Loop!Restart
  <2>1. /\ 0 \in 0..(GraphEvery * RgsEvery - 1) /\ 0 \in 0..StaleThreshold /\ 1 \in 1..MaxBackoff
        /\ 0 \in Loop!Time /\ loop_server \in Nat
    BY <1>1, LoopBounds DEF Loop!Time, GossipTypes
  <2>2. LoopTypes'
    BY <1>1, <1>6, <2>1, TroubleCounted DEF Loop!Restart, LoopTypes
  <2>3. Loop!NoRgs \in Loop!Rgs /\ Loop!NoRgs.ts = 0 /\ Loop!NoRgs.upto = 0
    BY <2>1, SMT DEF Loop!NoRgs, Loop!Rgs
  <2>4. GossipTypes'
    BY <1>1, <1>6, <2>1, <2>3 DEF Loop!Restart, GossipTypes
  <2> QED
    BY <2>2, <2>4 DEF LoopInv
<1> QED
  BY <1>2, <1>3, <1>4, <1>5, <1>6

LEMMA LoopMoves ==
  ASSUME [SessionNext]_sessionVars PROVE [Loop!Next]_(Loop!vars)
<1>1. CASE UNCHANGED sessionVars
  BY <1>1 DEF sessionVars, loopVars, Loop!vars
<1>2. CASE SessionNext
  <2>1. part # "loop" => UNCHANGED loopVars
    BY <1>2 DEF SessionNext, Rest
  <2>2. part = "loop" => Loop!Next
    BY <1>2 DEF SessionNext
  <2> QED
    BY <2>1, <2>2 DEF loopVars, Loop!vars
<1> QED
  BY <1>1, <1>2

LEMMA LoopHolds ==
  /\ SessionInit => LoopInv
  /\ LoopInv /\ [SessionNext]_sessionVars => LoopInv'
<1>1. ASSUME SessionInit PROVE LoopInv
  <2>1. Loop!Init
    BY <1>1 DEF SessionInit
  <2>2. /\ 0 \in 0..(GraphEvery * RgsEvery - 1) /\ 0 \in 0..StaleThreshold /\ 1 \in 1..MaxBackoff
        /\ 0 \in Loop!Time /\ 0 \in 0..LoopTroubles /\ 0 \in 0..0 /\ 0 <= 0
    BY LoopBounds DEF Loop!Time
  <2>3. Loop!NoRgs \in Loop!Rgs /\ Loop!NoRgs.ts = 0 /\ Loop!NoRgs.upto = 0
    BY <2>2, SMT DEF Loop!NoRgs, Loop!Rgs
  <2> QED
    BY <2>1, <2>2, <2>3 DEF Loop!Init, LoopInv, LoopTypes, GossipTypes
<1>2. ASSUME LoopInv, [SessionNext]_sessionVars PROVE LoopInv'
  <2>1. [Loop!Next]_(Loop!vars)
    BY <1>2, LoopMoves
  <2>2. CASE UNCHANGED Loop!vars
    BY <1>2, <2>2 DEF Loop!vars, LoopInv, LoopTypes, GossipTypes
  <2> QED
    BY <1>2, <2>1, <2>2, TickTyped, TickStepTyped, TickFailsTyped, RgsTyped, AroundTyped
    DEF Loop!Next
<1> QED
  BY <1>1, <1>2

LEMMA LoopTyped == LoopInv => Loop!TypeOK
BY DEF LoopInv, LoopTypes, GossipTypes, Loop!TypeOK

(***************************************************************************)
(* The types of all parts.                                                 *)
(***************************************************************************)

LEMMA ChainHolds ==
  /\ SessionInit => TypeOK
  /\ TypeOK /\ [SessionNext]_sessionVars => TypeOK'
<1>1. SessionInit => TypeOK
  BY TypeInit DEF SessionInit
<1>2. ASSUME TypeOK, [SessionNext]_sessionVars PROVE TypeOK'
  <2>1. [Next]_vars
    BY <1>2 DEF SessionNext, Rest, sessionVars
  <2> QED
    BY <1>2, <2>1, TypeStep
<1> QED
  BY <1>1, <1>2

\* Whatever part runs, its state keeps its types and bounds, for every value of
\* the constants: no counter of an attempt, a version or a slot leaves its range.
THEOREM AllTypesOK == SessionSpec => []TypesOK
<1> DEFINE AllInv == /\ TypeOK /\ LoopInv /\ PoolInv /\ FeeInv /\ WalletInv /\ PageInv
                     /\ HistInv /\ ConnInv /\ KnownInv /\ VersionsBounded /\ RecInv
<1>1. SessionInit => AllInv
  BY ChainHolds, LoopHolds, PoolHolds, FeesHold, WalletHolds, PageHolds, HistoryHolds,
     ConnKept, KnownHolds, KnownBounded, RecoveryHolds
<1>2. AllInv /\ [SessionNext]_sessionVars => AllInv'
  BY ChainHolds, LoopHolds, PoolHolds, FeesHold, WalletHolds, PageHolds, HistoryHolds,
     ConnKept, KnownHolds, KnownBounded, RecoveryHolds
<1>3. AllInv => TypesOK
  <2>1. FeeInv => Fees!TypeOK
    BY DEF FeeInv
  <2>2. ConnInv => Conn!TypeOK
    BY DEF ConnInv, ConnTypes
  <2> QED
    BY <2>1, <2>2, LoopTyped, PoolTyped, WalletTyped, PageTyped, HistoryTyped, KnownBounded,
       RecoveryTypes DEF TypesOK
<1> HIDE DEF AllInv
<1> QED
  BY <1>1, <1>2, <1>3, PTL DEF SessionSpec
=============================================================================
