----------------------------- MODULE RequestPool -----------------------------
(***************************************************************************)
(* The Esplora client (src/ldk/sync/esplora-client.ts): getters that share *)
(* a fetch of the same URL, a semaphore that lets few fetches run, a       *)
(* timeout for each fetch and an abort signal for those of one sync.       *)
(*                                                                         *)
(* `users' call getters, one at a time each: the parallel checks of        *)
(* syncOnce, the steps before them, and requests an ended sync has left.   *)
(***************************************************************************)
EXTENDS Naturals, Sequences, FiniteSets, SequencesExt

CONSTANTS Users, Urls, MaxConcurrent

NoUrl == "none"

VARIABLES
  count,      \* Semaphore.count
  queue,      \* Semaphore.queue: URLs whose fetch waits for a slot
  fetching,   \* URLs being fetched, each with the signal it was started with
  inflight,   \* URLs with an entry in the map
  asks,       \* the URL each user waits for
  signal      \* externalSignal

vars == <<count, queue, fetching, inflight, asks, signal>>

Signals == {"none", "live", "aborted"}

TypeOK ==
  /\ count \in 0..MaxConcurrent
  /\ queue \in Seq(Urls) /\ Len(queue) <= Cardinality(Urls)
  /\ fetching \subseteq Urls \X Signals
  /\ inflight \subseteq Urls
  /\ asks \in [Users -> Urls \union {NoUrl}]
  /\ signal \in Signals

Init ==
  /\ count = MaxConcurrent /\ queue = <<>> /\ fetching = {} /\ inflight = {}
  /\ asks = [u \in Users |-> NoUrl] /\ signal = "none"

\* acquire: a fetch starts at once, with the signal of now, or waits for a slot.
Acquire(url) ==
  IF count > 0
  THEN count' = count - 1 /\ fetching' = fetching \union {<<url, signal>>} /\ UNCHANGED queue
  ELSE queue' = Append(queue, url) /\ UNCHANGED <<count, fetching>>

\* dedupFetch: join the fetch of the same URL, or start one.
Get(u, url) ==
  /\ asks[u] = NoUrl
  /\ asks' = [asks EXCEPT ![u] = url]
  /\ IF url \in inflight THEN UNCHANGED <<count, queue, fetching, inflight>>
     ELSE Acquire(url) /\ inflight' = inflight \union {url}
  /\ UNCHANGED signal

\* Faulty variant: the count is raised and the first waiter started as well.
ReleaseTwice(f) ==
  /\ fetching' = (fetching \ {f}) \union
       (IF queue # <<>> THEN {<<Head(queue), signal>>} ELSE {})
  /\ queue' = IF queue # <<>> THEN Tail(queue) ELSE queue
  /\ count' = count + 1

\* release: the slot goes to the first that waits, which starts with the signal
\* of now, or back to the count.
Release(f) ==
  IF queue # <<>>
  THEN /\ fetching' = (fetching \ {f}) \union {<<Head(queue), signal>>}
       /\ queue' = Tail(queue) /\ UNCHANGED count
  ELSE fetching' = fetching \ {f} /\ count' = count + 1 /\ UNCHANGED queue

\* Faulty variant: a fetch that is aborted leaves without the finally block.
FetchEndsKeeping(f) ==
  /\ f \in fetching
  /\ IF f[2] = "aborted" THEN fetching' = fetching \ {f} /\ UNCHANGED <<count, queue>> ELSE Release(f)
  /\ inflight' = inflight \ {f[1]}
  /\ asks' = [u \in Users |-> IF asks[u] = f[1] THEN NoUrl ELSE asks[u]]
  /\ UNCHANGED signal

\* A fetch ends with an answer, an error, its timeout, or at once when its
\* signal is aborted; all who share it go on, to an answer or an error that
\* the getter makes of a bad status or body.
FetchEnds(f) ==
  /\ f \in fetching
  /\ Release(f)
  /\ inflight' = inflight \ {f[1]}
  /\ asks' = [u \in Users |-> IF asks[u] = f[1] THEN NoUrl ELSE asks[u]]
  /\ UNCHANGED signal

\* setSignal by syncOnce, at its start and in its finally block.
SetSignal(s) ==
  /\ signal # s /\ signal' = s
  /\ UNCHANGED <<count, queue, fetching, inflight, asks>>

\* The sync's timeout: every fetch with its signal is aborted.
Abort ==
  /\ signal = "live" /\ signal' = "aborted"
  /\ fetching' = {<<f[1], IF f[2] = "live" THEN "aborted" ELSE f[2]>> : f \in fetching}
  /\ UNCHANGED <<count, queue, inflight, asks>>

Next ==
  \/ \E u \in Users, url \in Urls : Get(u, url)
  \/ \E f \in fetching : FetchEnds(f)
  \/ \E s \in {"none", "live"} : SetSignal(s)
  \/ Abort

Spec == Init /\ [][Next]_vars

-----------------------------------------------------------------------------
\* Slots are neither lost nor made: each is free or held by one running fetch,
\* a URL waits only when none is free, and each shared promise has exactly one
\* fetch, running or waiting (esplora-client.ts:27-39, 106-117).
SlotsConserved ==
  /\ count + Cardinality(fetching) = MaxConcurrent
  /\ queue # <<>> => count = 0
  /\ inflight = {f[1] : f \in fetching} \union ToSet(queue)
  /\ Cardinality(inflight) = Cardinality(fetching) + Len(queue)
=============================================================================
