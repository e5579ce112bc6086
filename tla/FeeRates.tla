------------------------------ MODULE FeeRates ------------------------------
(***************************************************************************)
(* Fee rates: the cache with its one shared fetch                          *)
(* (src/shared/fee-cache.ts), read by LDK's synchronous fee estimator      *)
(* (src/ldk/traits/fee-estimator.ts) and by callers that wait for a rate   *)
(* (sends, sweeps, channel opens).                                         *)
(*                                                                         *)
(* The age of the cache is fresh or stale, that of the last failure within *)
(* the backoff or not; rates are in sat/vB.                                *)
(***************************************************************************)
EXTENDS Naturals

CONSTANTS
  Callers,      \* callers of getFeeRate
  Rates,        \* rates the server may give; 0: none for the target
  Default,      \* defaultRate of the target
  Floor         \* DEFAULT_FEE_RATES of the target, in sat/kW

LdkMinimum == 253
MaxSatKw == 500000

VARIABLES
  cache,     \* "none", "fresh" or "stale"
  rate,      \* the cached rate of the target, 0 for none
  pending,   \* pendingFetch
  backoff,   \* the last fetch failed less than FAILURE_BACKOFF_MS ago
  waiting,   \* callers that wait for the fetch
  answer,    \* the rate last given to a caller that may wait
  told,      \* what LDK was last told, in sat/kW
  failed     \* history: a fetch has failed since the cache was fresh

vars == <<cache, rate, pending, backoff, waiting, answer, told, failed>>

TypeOK ==
  /\ cache \in {"none", "fresh", "stale"} /\ rate \in Rates \union {0}
  /\ pending \in BOOLEAN /\ backoff \in BOOLEAN /\ failed \in BOOLEAN
  /\ waiting \subseteq Callers /\ answer \in Nat \ {0}
  /\ told \in LdkMinimum..MaxSatKw

\* initFeeCache starts the first fetch.
Init ==
  /\ cache = "none" /\ rate = 0 /\ pending = TRUE /\ backoff = FALSE
  /\ waiting = {} /\ answer = Default /\ told = LdkMinimum /\ failed = FALSE

Cached == IF rate = 0 THEN Default ELSE rate

\* refreshFeeCache when the cache is stale: one fetch at a time, none in the backoff.
Refreshed == pending \/ (cache # "fresh" /\ ~ backoff)

\* get_est_sat_per_1000_weight of a rate in sat/vB.
SatPerKw(r) ==
  LET least == IF Floor > LdkMinimum THEN Floor ELSE LdkMinimum
      kw == IF 250 * r < MaxSatKw THEN 250 * r ELSE MaxSatKw
  IN IF kw > least THEN kw ELSE least

\* getCachedFeeRate: the answer of now, and a refresh for later.
Estimate ==
  /\ told' = SatPerKw(Cached) /\ pending' = Refreshed
  /\ UNCHANGED <<cache, rate, backoff, waiting, answer, failed>>

\* Faulty variant: only the caller that starts the fetch waits for it.
AskFirst(c) ==
  /\ c \notin waiting /\ pending' = Refreshed
  /\ IF cache # "fresh" /\ Refreshed /\ ~ pending
     THEN waiting' = waiting \union {c} /\ UNCHANGED answer
     ELSE answer' = Cached /\ UNCHANGED waiting
  /\ UNCHANGED <<cache, rate, backoff, told, failed>>

\* getFeeRate: at once if the cache is fresh or no fetch may be made.
Ask(c) ==
  /\ c \notin waiting /\ pending' = Refreshed
  /\ IF cache # "fresh" /\ Refreshed THEN waiting' = waiting \union {c} /\ UNCHANGED answer
     ELSE answer' = Cached /\ UNCHANGED waiting
  /\ UNCHANGED <<cache, rate, backoff, told, failed>>

FetchReply(r) ==
  /\ pending /\ pending' = FALSE
  /\ cache' = "fresh" /\ rate' = r /\ failed' = FALSE
  /\ UNCHANGED <<backoff, waiting, answer, told>>

FetchFails ==
  /\ pending /\ pending' = FALSE
  /\ backoff' = TRUE /\ failed' = TRUE
  /\ UNCHANGED <<cache, rate, waiting, answer, told>>

\* A caller that waited goes on when the fetch it waited for has ended.
Answer(c) ==
  /\ c \in waiting /\ ~ pending
  /\ waiting' = waiting \ {c} /\ answer' = Cached
  /\ UNCHANGED <<cache, rate, pending, backoff, told, failed>>

\* Time passes; not before those who waited have been answered.
Ages ==
  /\ waiting = {} \/ pending
  /\ \/ cache = "fresh" /\ cache' = "stale" /\ UNCHANGED backoff
     \/ backoff /\ backoff' = FALSE /\ UNCHANGED cache
  /\ UNCHANGED <<rate, pending, waiting, answer, told, failed>>

Next ==
  \/ Estimate \/ FetchFails \/ Ages
  \/ \E r \in Rates : FetchReply(r)
  \/ \E c \in Callers : Ask(c) \/ Answer(c)

Spec == Init /\ [][Next]_vars

-----------------------------------------------------------------------------
\* A caller that can wait is given a rate older than the cache allows, or a
\* default for want of one, only if a fetch has failed since; also when many
\* callers share one fetch (fee-cache.ts:39-72, 102-108).
StaleOnlyAfterFailure ==
  [][\A c \in Callers :
       ((Ask(c) /\ c \notin waiting') \/ Answer(c)) => cache = "fresh" \/ failed]_vars
=============================================================================
