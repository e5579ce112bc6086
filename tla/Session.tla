------------------------------- MODULE Session -------------------------------
(***************************************************************************)
(* The parts of one session that share no state at their level of detail:  *)
(* what LDK is told of the chain (ChainSync), the sync loop, the Esplora   *)
(* client, fee rates, the on-chain wallet, the Send page, the payment      *)
(* history, connections, known peers, the recovery record, and the monitor *)
(* persister with bounds that suit its liveness.                           *)
(*                                                                         *)
(* A behaviour is one of the part it begins with; the others stay in their *)
(* initial states.  The constants are those of the parts.                  *)
(***************************************************************************)
EXTENDS ChainSync

CONSTANTS
  GraphEvery, RgsEvery, StaleThreshold, MaxBackoff, MaxGossip,  \* SyncLoop
  LoopTroubles,                                                 \* its MaxTroubles
  Users, Urls, MaxConcurrent,                                   \* RequestPool
  Callers, Rates, Default, Floor,                               \* FeeRates
  Sends, SyncNowRetries, MaxChanges,                            \* OnchainWallet
  MaxAsks, MaxOffers, MaxPayments,                              \* SendPage
  Outbound, Inbound, MaxBegun, MaxFailures,                     \* PaymentHistory
  Peers, MaxSockets, MaxChannels,                               \* PeerConnections
  MaxSyncs,                                                     \* KnownPeers
  Channels, MaxJobs, MaxRestarts                                \* Recovery

VARIABLES
  part,  \* the part that runs
  mon_latest, mon_queue, mon_pc, mon_retries, mon_waits, mon_cache, mon_got,
  mon_vss, mon_late, mon_idb, mon_acked, mon_ready, mon_vssStatus, mon_faults,
  mon_reloads,
  loop_pc, loop_stopped, loop_tickCount, loop_errors, loop_backoff,
  loop_status, loop_dirty, loop_cmNeedsPersist, loop_server, loop_graph,
  loop_rgs, loop_storedGraph, loop_storedTimestamp, loop_troubles, loop_owed,
  req_count, req_queue, req_fetching, req_inflight, req_asks, req_signal,
  fee_cache, fee_rate, fee_pending, fee_backoff, fee_waiting, fee_answer,
  fee_told, fee_failed,
  bdk_tick, bdk_timers, bdk_paused, bdk_stopped, bdk_retries, bdk_send,
  bdk_funding, bdk_made, bdk_staged, bdk_puts, bdk_stored, bdk_troubles,
  bdk_excused,
  page_step, page_amountData, page_asks, page_ctl, page_res, page_resolving,
  page_estimate, page_sending, page_tasks, page_polls, page_timer, page_pay,
  page_events, page_result,
  hist_begun, hist_pay, hist_events, hist_known, hist_rows, hist_shown,
  hist_idb, hist_failures, hist_excused,
  peer_made, peer_peer, peer_by, peer_state, peer_linked, peer_tracked,
  peer_channel, peer_opened, peer_opening, peer_reconnect, peer_missing,
  peer_torn,
  known_local, known_server, known_version, known_begun, known_sync,
  known_troubles, known_missed,
  rec_info, rec_local, rec_server, rec_version, rec_jobs, rec_late, rec_begun,
  rec_troubles, rec_restarts, rec_alone, rec_missed

monVars ==
  <<mon_latest, mon_queue, mon_pc, mon_retries, mon_waits, mon_cache, mon_got,
    mon_vss, mon_late, mon_idb, mon_acked, mon_ready, mon_vssStatus,
    mon_faults, mon_reloads>>
loopVars ==
  <<loop_pc, loop_stopped, loop_tickCount, loop_errors, loop_backoff,
    loop_status, loop_dirty, loop_cmNeedsPersist, loop_server, loop_graph,
    loop_rgs, loop_storedGraph, loop_storedTimestamp, loop_troubles, loop_owed>>
reqVars ==
  <<req_count, req_queue, req_fetching, req_inflight, req_asks, req_signal>>
feeVars ==
  <<fee_cache, fee_rate, fee_pending, fee_backoff, fee_waiting, fee_answer,
    fee_told, fee_failed>>
bdkVars ==
  <<bdk_tick, bdk_timers, bdk_paused, bdk_stopped, bdk_retries, bdk_send,
    bdk_funding, bdk_made, bdk_staged, bdk_puts, bdk_stored, bdk_troubles,
    bdk_excused>>
pageVars ==
  <<page_step, page_amountData, page_asks, page_ctl, page_res, page_resolving,
    page_estimate, page_sending, page_tasks, page_polls, page_timer, page_pay,
    page_events, page_result>>
histVars ==
  <<hist_begun, hist_pay, hist_events, hist_known, hist_rows, hist_shown,
    hist_idb, hist_failures, hist_excused>>
peerVars ==
  <<peer_made, peer_peer, peer_by, peer_state, peer_linked, peer_tracked,
    peer_channel, peer_opened, peer_opening, peer_reconnect, peer_missing,
    peer_torn>>
knownVars ==
  <<known_local, known_server, known_version, known_begun, known_sync,
    known_troubles, known_missed>>
recVars ==
  <<rec_info, rec_local, rec_server, rec_version, rec_jobs, rec_late, rec_begun,
    rec_troubles, rec_restarts, rec_alone, rec_missed>>

Monitor == INSTANCE MonitorPersist WITH
  MaxConflictRetries <- 5, DegradedAfter <- 1,
  MaxSnapshots <- 2, MaxQueue <- 2, MaxFaults <- 3, MaxReloads <- 1,
  latest <- mon_latest, queue <- mon_queue, pc <- mon_pc,
  retries <- mon_retries, waits <- mon_waits, cache <- mon_cache,
  got <- mon_got, vss <- mon_vss, late <- mon_late, idb <- mon_idb,
  acked <- mon_acked, ready <- mon_ready, vssStatus <- mon_vssStatus,
  faults <- mon_faults, reloads <- mon_reloads

Loop == INSTANCE SyncLoop WITH
  MaxTroubles <- LoopTroubles,
  pc <- loop_pc, stopped <- loop_stopped, tickCount <- loop_tickCount,
  errors <- loop_errors, backoff <- loop_backoff, status <- loop_status,
  dirty <- loop_dirty, cmNeedsPersist <- loop_cmNeedsPersist,
  server <- loop_server, graph <- loop_graph, rgs <- loop_rgs,
  storedGraph <- loop_storedGraph, storedTimestamp <- loop_storedTimestamp,
  troubles <- loop_troubles, owed <- loop_owed

Pool == INSTANCE RequestPool WITH
  count <- req_count, queue <- req_queue, fetching <- req_fetching,
  inflight <- req_inflight, asks <- req_asks, signal <- req_signal

Fees == INSTANCE FeeRates WITH
  cache <- fee_cache, rate <- fee_rate, pending <- fee_pending,
  backoff <- fee_backoff, waiting <- fee_waiting, answer <- fee_answer,
  told <- fee_told, failed <- fee_failed

Bdk == INSTANCE OnchainWallet WITH
  tick <- bdk_tick, timers <- bdk_timers, paused <- bdk_paused,
  stopped <- bdk_stopped, retries <- bdk_retries, send <- bdk_send,
  funding <- bdk_funding, made <- bdk_made, staged <- bdk_staged,
  puts <- bdk_puts, stored <- bdk_stored, troubles <- bdk_troubles,
  excused <- bdk_excused

Page == INSTANCE SendPage WITH
  step <- page_step, amountData <- page_amountData, asks <- page_asks,
  ctl <- page_ctl, res <- page_res, resolving <- page_resolving,
  estimate <- page_estimate, sending <- page_sending, tasks <- page_tasks,
  polls <- page_polls, timer <- page_timer, pay <- page_pay,
  events <- page_events, result <- page_result

History == INSTANCE PaymentHistory WITH
  begun <- hist_begun, pay <- hist_pay, events <- hist_events,
  known <- hist_known, rows <- hist_rows, shown <- hist_shown, idb <- hist_idb,
  failures <- hist_failures, excused <- hist_excused

Conn == INSTANCE PeerConnections WITH
  made <- peer_made, peer <- peer_peer, by <- peer_by, state <- peer_state,
  linked <- peer_linked, tracked <- peer_tracked, channel <- peer_channel,
  opened <- peer_opened, opening <- peer_opening, reconnect <- peer_reconnect,
  missing <- peer_missing, torn <- peer_torn

KnownP == INSTANCE KnownPeers WITH
  local <- known_local, server <- known_server, version <- known_version,
  begun <- known_begun, sync <- known_sync, troubles <- known_troubles,
  missed <- known_missed

Recover == INSTANCE Recovery WITH
  info <- rec_info, local <- rec_local, server <- rec_server,
  version <- rec_version, jobs <- rec_jobs, late <- rec_late, begun <- rec_begun,
  troubles <- rec_troubles, restarts <- rec_restarts, alone <- rec_alone,
  missed <- rec_missed

\* The bounds are numbers, the intervals and limits of the code positive ones; the
\* fee estimator's floor lies in the range LDK takes (fee-estimator.ts 13-24).
ASSUME SessionAssumption ==
  /\ {GraphEvery, RgsEvery, StaleThreshold, MaxBackoff, MaxConcurrent} \subseteq Nat \ {0}
  /\ {LoopTroubles, MaxGossip, SyncNowRetries, MaxChanges, MaxAsks, MaxOffers,
      MaxPayments, MaxBegun, MaxFailures, MaxSockets, MaxChannels, MaxSyncs,
      MaxJobs, MaxRestarts} \subseteq Nat
  /\ IsFiniteSet(Urls)
  /\ Rates \subseteq Nat /\ Default \in Nat \ {0}
  /\ Floor \in Fees!LdkMinimum..Fees!MaxSatKw

-----------------------------------------------------------------------------
Parts == {"chain", "monitor", "loop", "requests", "fees", "onchain", "send",
          "history", "peers", "known", "recovery"}

SessionInit ==
  /\ part \in Parts
  /\ Init /\ Monitor!Init /\ Loop!Init /\ Pool!Init /\ Fees!Init /\ Bdk!Init
  /\ Page!Init /\ History!Init /\ Conn!Init /\ KnownP!Init /\ Recover!Init

\* The parts that do not run.
Rest ==
  /\ UNCHANGED part
  /\ IF part = "chain" THEN TRUE ELSE UNCHANGED vars
  /\ IF part = "monitor" THEN TRUE ELSE UNCHANGED monVars
  /\ IF part = "loop" THEN TRUE ELSE UNCHANGED loopVars
  /\ IF part = "requests" THEN TRUE ELSE UNCHANGED reqVars
  /\ IF part = "fees" THEN TRUE ELSE UNCHANGED feeVars
  /\ IF part = "onchain" THEN TRUE ELSE UNCHANGED bdkVars
  /\ IF part = "send" THEN TRUE ELSE UNCHANGED pageVars
  /\ IF part = "history" THEN TRUE ELSE UNCHANGED histVars
  /\ IF part = "peers" THEN TRUE ELSE UNCHANGED peerVars
  /\ IF part = "known" THEN TRUE ELSE UNCHANGED knownVars
  /\ IF part = "recovery" THEN TRUE ELSE UNCHANGED recVars

SessionNext ==
  /\ \/ part = "chain" /\ Next
     \/ part = "monitor" /\ Monitor!Next
     \/ part = "loop" /\ Loop!Next
     \/ part = "requests" /\ Pool!Next
     \/ part = "fees" /\ Fees!Next
     \/ part = "onchain" /\ Bdk!Next
     \/ part = "send" /\ Page!Next
     \/ part = "history" /\ History!Next
     \/ part = "peers" /\ Conn!Next
     \/ part = "known" /\ KnownP!Next
     \/ part = "recovery" /\ Recover!Next
  /\ Rest

sessionVars ==
  <<part, vars, monVars, loopVars, reqVars, feeVars, bdkVars, pageVars,
    histVars, peerVars, knownVars, recVars>>

\* The fairness of ChainSync, SyncLoop and MonitorPersist, for the one that runs.
SessionFairness ==
  /\ WF_vars(part = "chain" /\ Tick)
  /\ WF_vars(part = "chain" /\ Reply)
  /\ WF_vars(part = "chain" /\ OtherBlock)
  /\ WF_loopVars(part = "loop" /\ Loop!Tick)
  /\ WF_loopVars(part = "loop" /\ Loop!TickStep)
  /\ WF_loopVars(part = "loop" /\ Loop!RgsStep)
  /\ \A c \in Channels : WF_monVars(part = "monitor" /\ Monitor!Progress(c))

SessionSpec == SessionInit /\ [][SessionNext]_sessionVars /\ SessionFairness

-----------------------------------------------------------------------------
(* The properties of the parts, each stated in its module. *)

\* The part that runs keeps its types and bounds.
TypesOK ==
  /\ part = "chain" => TypeOK
  /\ part = "loop" => Loop!TypeOK
  /\ part = "requests" => Pool!TypeOK
  /\ part = "fees" => Fees!TypeOK
  /\ part = "onchain" => Bdk!TypeOK
  /\ part = "send" => Page!TypeOK
  /\ part = "history" => History!TypeOK
  /\ part = "peers" => Conn!TypeOK
  /\ part = "known" => KnownP!TypeOK
  /\ part = "recovery" => Recover!TypeOK

\* Every queued snapshot of a monitor is acknowledged (persist.ts).
EveryWriteAcked == Monitor!EveryWriteAcked

\* A taken needs-persistence flag leads to a write (chain-sync.ts).
WriteRetried == Loop!WriteRetried

\* The request slots are neither lost nor made (esplora-client.ts).
SlotsConserved == Pool!SlotsConserved

\* A rate older than the cache allows follows a failed fetch (fee-cache.ts).
StaleOnlyAfterFailure == Fees!StaleOnlyAfterFailure

\* The loop of the on-chain wallet neither dies nor runs twice (onchain/sync.ts).
OneTickPending == Bdk!OneTickPending

\* Each change of the on-chain wallet is accounted for (changeset.ts).
LossExplained == Bdk!LossExplained

\* The Send page makes or waits for one payment at a time (Send.tsx).
OnePaymentAtATime == Page!OnePaymentAtATime

\* The success screen is that of a fulfilled payment (Send.tsx).
SuccessShownIsSent == Page!SuccessShownIsSent

\* The record of a sent payment says so (payment-history.ts).
SentIsRecorded == History!SentIsRecorded

\* LDK's socket to a peer is the one tracked (ldk/context.tsx).
NoUntrackedPeer == Conn!NoUntrackedPeer

\* Settled syncs leave the stored peers on the server (known-peers.ts).
PeersOnServer == KnownP!PeersOnServer

\* A settled recovery record is the one on the server (recovery-state.ts).
RecordOnServer == Recover!RecordOnServer
=============================================================================
