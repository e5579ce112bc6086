# A TLA+ model of the browser wallet

The repository is a Bitcoin and Lightning wallet that runs inside one browser
tab: LDK (compiled to WebAssembly) for Lightning, BDK for on-chain funds,
IndexedDB as the local store, a versioned key-value server (VSS) as the
encrypted remote backup, an Esplora server for the chain, and a WebSocket proxy
for connections to Lightning peers. All of the wallet's own code is
TypeScript on one event loop, so a piece of code is atomic from one `await`
(or callback, or timer) to the next; everything between two such points of
one activity can be interleaved with every other activity, and the tab can die
at any of them. The models cut the code at exactly these points.

This directory holds the models, the configurations under which TLC checks
them, and proofs checked by TLAPS. `PROJECT.json` lists the runs, maps every
definition to the lines it stands for, and for each property names a plausible
bug (a "faulty variant" kept beside the definition it replaces) under which the
property fails.

Contents: [inventory](#1-inventory) · [plan](#2-plan) ·
[modules](#3-modules-and-how-they-correspond-to-the-code) ·
[runs](#4-runs) · [fairness](#5-fairness) · [proofs](#6-proofs) ·
[disagreements found](#7-where-code-and-comments-disagree) ·
[limits](#8-what-is-not-modelled)

## 1. Inventory

Each part with its state, its operations, whom it talks to, what is hard about
it and what would make it correct. *M* marks a part with a model.

### Storage of the Lightning node

| Part | State | Operations | Hard behaviour | Correct means |
|---|---|---|---|---|
| **Channel monitor persister** (`ldk/traits/persist.ts`, `ldk/storage/vss-client.ts`) *M* | `versionCache`, `channelWriteChains`, `monitorKeys`, `manifestWriteChain`; the monitors in both stores | `handlePersist` (from LDK, synchronous), `persistWithRetry`, `writeManifest`, `backfillManifest` | lost replies, puts that land after the client gave up, version conflicts with its own earlier put, retries without end, death of the tab between the two stores | LDK is told only of snapshots that both stores hold, for good; every snapshot is acknowledged in the end; the degraded status tells the truth |
| **Wallet backup, start and recovery** (`ldk/init.ts`, `ldk/storage/persist-cm.ts`, `ldk/context.tsx`, `pages/Restore.tsx`) *M* | the ChannelManager in both stores and its version, the manifest, the tab's phase | seeding of versions, recovery from VSS, loading; `persistChannelManager` from the sync loop, the event drain and the visibility handler; the Recover Wallet page | writers of one object that do not wait for each other; stores that are updated in an order but not together; a restore while calls are in flight | each stored ChannelManager can be read with the monitors stored beside it; the manifest covers it; a restore leaves what it downloaded |
| **VSS server** (external) *M* | per key a version and bytes | get, put (compare-and-swap on the version) | – | modelled from its use |
| **IndexedDB wrapper** (`storage/idb.ts`) | the object stores | one promise per transaction | failed transactions | a call is one atomic step of the models that use it |
| **Wallet lock and takeover** (`ldk/init.ts` 170–220, `ldk/context.tsx` 1012–1026) *M (sockets)* | the Web Lock | steal on start, notice on loss | the old tab's writes are not awaited by the new one | one writer at a time |

The persister and the backup part share monitors, manifest and IndexedDB;
LDK calls the persister synchronously from any Rust entry point and expects
`channel_monitor_updated` later.

### Receiving and paying

| Part | State | Operations | Hard behaviour | Correct means |
|---|---|---|---|---|
| **LSPS2 client and JIT receive** (`ldk/lsps2/*`, `pages/Receive.tsx`, `requestJitInvoice` of `ldk/context.tsx`) *M* | `pendingRequests`, `outboundQueue`; per call its local variables; `receiveState`, `requestCounterRef`, the invoice on screen | `sendRequest`, `handle_custom_message`, `peer_disconnected`, the reaper; `getOpeningFeeParams`, `buyChannel`; the screen's effect and its `.then` | answer, timeout and disconnect race; effect reruns while a request is in flight; dead sockets LDK still lists; fee arithmetic near zero and 2^64 | each promise is settled once; the code on screen asks for the amount on screen; the page stops negotiating; the registered amount is what can arrive |
| **BOLT11 encoder** (`ldk/lsps2/bolt11-encoder.ts`) | – | pure | – | equals the format; unit-tested with vectors |
| **Payments and history** (`ldk/context.tsx` 214–560, `ldk/storage/payment-history.ts`, `pages/Send.tsx`) *M* | payment rows in IndexedDB, `paymentResults`, the Send page's step, `sendingRef`, the poll | send (BOLT11, BOLT12, BIP353, LNURL, on-chain), outcome events, polling, cancel | an outcome is a read and a write beside the put of the row; lookups, confirmations, polls and the user leaving race on one page | a sent payment's row says so; one payment at a time; success is shown only for a payment that was fulfilled |
| **Payment input and address parsing** (`ldk/payment-input.ts`, `ldk/resolve-bip353.ts`, `lnurl/`, `onchain/bip321.ts`, `utils/msat.ts`) *M (lookups)* | – | pure, two lookups | lookups that fail, time out or are cancelled | – |
| **LDK event handler** (`ldk/traits/event-handler.ts`) *M (outputs and funding)* | funding-transaction and id maps in IndexedDB | one handler per LDK event | an event is taken as handled before what it stored is safe; the order of ChannelClosed and DiscardFunding | nothing an event announced is lost |

### Chain

| Part | State | Operations | Hard behaviour | Correct means |
|---|---|---|---|---|
| **Broadcast and sweep** (`ldk/traits/broadcaster.ts`, `ldk/sweep.ts`, `event-handler.ts`) *M* | in-flight set, pending-broadcast and spendable-descriptor stores | `broadcastWithRetry`, `drainPending`, `sweepSpendableOutputs` | duplicates of a broadcast in flight; deletion of the only record of a transaction | a transaction is recorded until the network has it |
| **Chain sync** (`ldk/sync/*`, `ldk/traits/filter.ts`) *M* | watched sets, last tip, tick loop; semaphore, requests in flight | `syncOnce`, prune, backoff, timeout; getters that share a fetch | the chain changes between two requests; checks that fail are only logged; a timeout aborts half a pass; LDK's persistence flag is taken before the write | LDK never keeps a block that has left the chain once a pass recorded its tip; a spend of a watched output is reported; request slots are not lost; a taken flag leads to a write |
| **On-chain wallet** (`onchain/*`, BDK traits) *M* | BDK's staged changes, the stored changeset, the loop's timer and pause flag | sync loop, `syncNow`, sends, estimates, addresses, get–merge–put | several callers do not wait for each other; a timer variable that names a timer which has fired | the loop neither dies nor runs twice; each lost delta has one of three known reasons |
| **Fee estimates** (`shared/fee-cache.ts`, `ldk/traits/fee-estimator.ts`) *M* | cache with expiry, shared fetch, backoff | `getCachedFeeRate`, `getFeeRate` | many callers on one fetch | clamped; stale only after a failure |
| **Rapid gossip sync** (`ldk/sync/rapid-gossip-sync.ts`) *M* | a timestamp, the graph | first run beside the ticks, periodic runs | timestamp and graph are stored apart | – |

### Connections and recovery

| Part | State | Operations | Hard behaviour | Correct means |
|---|---|---|---|---|
| **Peer connections** (`ldk/peers/*`, `context.tsx`, `OpenChannel.tsx`, `CloseChannel.tsx`) *M* | open sockets, `activeConnections`, the reconnection timer | `connectToPeer`, `connectAndTrack`, `disconnectPeer`, `reconnectPeers`, teardown | connections that race, die or finish after the teardown; a stale list of peers | the socket LDK uses is the one that can be closed; none survives the teardown |
| **Known peers** (`ldk/storage/known-peers.ts`) *M* | peers in IndexedDB and VSS | `putKnownPeer`, `deleteKnownPeer`, `syncPeersToVss` | two syncs with one version | settled syncs leave the same peers in both stores |
| **Force-close recovery** (`ldk/recovery/*`) *M* | the recovery record in both stores | enter, auto-recover, clear, seed | read–await–write by several writers; a cleared record that comes back | a settled record is the same in both stores |
| **Keys and mnemonic**, **User interface**, **Proxies** | – | cryptography, rendering, stateless forwarding | – | – |

The hazards of this code, each at its line and with the properties that cover it
(or why none does), are the `hazards` list of `PROJECT.json`.

## 2. Plan

In order of importance; 1 to 7 are done.

1. **Monitor persister** – `DurableStore` (abstract: what LDK relies on),
   `MonitorPersist` (detailed), refinement, proofs in `MonitorPersistProofs`.
2. **Wallet backup** – `WalletBackup`: manifest, ChannelManager, start, recovery
   and restore over the same stores, with the monitor writes of 1 abstracted to
   their two commits; proofs in `WalletBackupProofs`.
3. **JIT receive** – `LspsRequests` (the request table), `OpeningFees` (pure
   arithmetic), `JitReceive` (composes both with the page and the connection);
   proofs about both in `JitReceiveProofs`.
4. **Transactions** – `Transactions`: broadcaster, sweep and the funding
   transaction's life, records against what the network has seen; proofs in
   `TransactionsProofs`.
5. **Sync** – `ChainSync` (`syncOnce` against a chain that reorganises, and the
   filter), `SyncLoop` (the tick around it and the gossip sync), `RequestPool` (the
   Esplora client), `OnchainWallet`, `FeeRates`; proofs in `ChainSyncProofs`,
   `PaymentProofs` (the on-chain wallet) and `SessionProofs` (the rest).
6. **Payments, peers, recovery** – `SendPage`, `PaymentHistory`, `PeerConnections`,
   `KnownPeers`, `Recovery`; proofs in `PaymentProofs` and `ConnectionProofs`.
7. **One session** – `Session`: the parts of 5 and 6 and the liveness of 1, which
   share no state at their level of detail, in one instance for TLC.
8. *Left:* proofs that these small parts implement abstractions of their own (a store
   with one writer for 6, a counting semaphore for `RequestPool`); two tabs writing at
   once; the migration of wallets that predate VSS.

## 3. Modules and how they correspond to the code

| Module | Stands for | Role |
|---|---|---|
| `DurableStore` | what `persist.ts` promises LDK (header, lines 134–140) | abstract specification |
| `MonitorPersist` | `handlePersist`, `persistWithRetry`, status callbacks, versions seeded at start | detailed specification, refines `DurableStore` |
| `MonitorPersistProofs` | – | type correctness, inductive invariant, refinement |
| `WalletBackup` | `init.ts`, `persist-cm.ts`, `writeManifest`, the CM writers of `context.tsx`, `Restore.tsx` | composition around both stores |
| `WalletBackupProofs` | – | types, readable and complete stores |
| `LspsRequests` | `lsps2/message-handler.ts` | specification of the request table |
| `OpeningFees` | `lsps2/types.ts` `calculateOpeningFee`, `selectCheapestParams` | pure operators |
| `JitReceive` | `requestJitInvoice`, `lsps2/client.ts`, `Receive.tsx` | composes the two above with page, LSP and connection |
| `JitReceiveProofs` | – | lemmas about the fees, invariants, and that `JitReceive` uses the table as `LspsRequests` says |
| `Transactions` | `traits/broadcaster.ts`, `sweep.ts`, the output and funding events of `traits/event-handler.ts` | composition of the three around the in-flight set, three stores and the network |
| `TransactionsProofs` | – | types, in-flight set, records, funding, sweep |
| `ChainSync` | `syncOnce` of `sync/chain-sync.ts`, `traits/filter.ts`, the getters' meaning in `sync/esplora-client.ts` | LDK's view against a chain that moves |
| `SyncLoop` | `startSyncLoop` of `sync/chain-sync.ts`, `sync/rapid-gossip-sync.ts` | the tick around `syncOnce` |
| `RequestPool` | semaphore, shared fetches and signals of `sync/esplora-client.ts` | below both |
| `OnchainWallet` | `onchain/context.tsx`, `sync.ts`, `init.ts`, `storage/changeset.ts`, `address-utils.ts` | the BDK wallet's loop, sends and changes |
| `FeeRates` | `shared/fee-cache.ts`, `traits/fee-estimator.ts` | shared fetch |
| `SendPage` | `pages/Send.tsx`, `resolve-bip353.ts`, `lnurl/`, the results and polls of `context.tsx` | one visit to the page |
| `PaymentHistory` | `storage/payment-history.ts`, the payment events of `traits/event-handler.ts`, the sends of `context.tsx` | rows against outcomes |
| `PeerConnections` | `peers/*`, `connectAndTrack`, `disconnectPeer`, teardown of `context.tsx`, `OpenChannel.tsx`, `CloseChannel.tsx` | sockets, links, tracked connections |
| `KnownPeers` | `storage/known-peers.ts` | two stores, overlapping syncs |
| `Recovery` | `recovery/recovery-state.ts`, `use-recovery.ts`, `RecoveryBanner.tsx`, the callers in `context.tsx` and `event-handler.ts` | two stores, overlapping jobs, restart |
| `Session` | – | the ten parts above and `MonitorPersist`, side by side |
| `ChainSyncProofs` | – | types and invariant of the chain view |
| `ConnectionProofs` | – | invariants of `PeerConnections`, `KnownPeers`, `Recovery` in a session |
| `PaymentProofs` | – | invariants of `OnchainWallet`, `SendPage`, `PaymentHistory` in a session |
| `SessionProofs` | – | invariants of `FeeRates`, `RequestPool`, `SyncLoop`; the types of a whole session |
| `MC...` | – | instances for TLC |

### MonitorPersist

A snapshot is a number: the n-th monitor LDK made for a channel. `queue[c]` is
the promise chain of the channel (`channelWriteChains`), `pc[c]` where the
running `persistWithRetry` stands, one value per await. `SendPut`, `ServerPut`
and `PutReply` are the put on its way, at the server and back; `PutFails` is
every way the client learns that it did not work, including the 15 s timeout
of a request that is still travelling, which is then kept in `late` and may
land at any later time (`LateLands`). A conflict re-reads the object
(`ConflictReply`, `ServerGet`, `GetReply`, `GetFails`); equal bytes on the server
skip the put (the code compares the decrypted arrays, the model the numbers).
`IdbCommit`, `IdbFails`, `Ack` and `Wake` are the local write, the acknowledgement
and the backoff timer. `Reload` is a tab that dies and starts again on the same
stores: memory is lost, versions are read from the server for all monitors or,
if a request fails, for none, and LDK re-persists what it loads.

`vssStatus` follows the callbacks `onVssUnavailable`/`onVssRecovered`
(`context.tsx` 500–510); they act only once the context is `ready`.

### WalletBackup

Monitors are abstracted to "present or not" (their contents are the subject of
`MonitorPersist`, whose `AckedDurable` is what justifies the two commits here),
a ChannelManager to the set of channels that are established in it. LDK's part
is taken from its documented behaviour: a channel is established when its first
monitor is acknowledged; a ChannelManager that names a channel whose monitor is
missing cannot be read. The bytes of a ChannelManager are taken when
`persistChannelManager` is called, and the version it sends is `cmVersionRef` of
that time, so several callers overlap freely, each with its own stages `put`,
`get`, `retry`, `idb`. `ManifestStart` takes keys and version when a link of the
chain runs, not when it was queued. `Load` is the start's `watch_channel` for each
stored monitor: LDK has it persisted as a new one, so that its key is tracked, one
more manifest write is queued, and the monitor is written again (`init.ts` 590–594,
`persist.ts` 273–282). These writes race the backfill of `Seed`, the first channels
and each other's conflicts. A failed recovery is undone in two steps, `UndoMonitors` and
`UndoCm`, each of which may fail or be cut off by the end of the tab.

`intact` is a history variable. It becomes FALSE at those events after which the
code itself no longer promises consistent data: recovery failed although the server
had a ChannelManager, the data a restore downloaded were outdated or calls were in
flight when it cleared the stores, or the tab died while a restore was refilling
IndexedDB. `listed` is FALSE from a manifest write that failed, was refused again after
its one retry or died with the tab, until the next one succeeds or the next start has
queued them all anew. Properties guarded by them say: *without* such an event the stores
are consistent. The events themselves are all explored; what they lead to is what
`backup_drops` and `backup_restore` show. A failed recovery followed by the hidden-tab write
and a reload leads to the loss of `backup_drops`, too.

The `scope` of a behaviour bounds it for TLC: the channels it may open, and how many
failures, deaths of the tab and restores it may have. The proofs allow every scope.

### LspsRequests, OpeningFees, JitReceive

`LspsRequests` is the Map of open requests, the outbound queue, and the promise
of each request with the number of times it was settled. Time is abstracted:
the reaper may find any set of open requests old. `JitReceive` uses these
operators as the code calls them: `GetInfo`/`Buy` call `SendRequest`, LDK's
`Flush` takes the queue, `Message` is any message from any peer with any id,
`LdkNotices` is `peer_disconnected`.

The page: `RunEffect` is React's rule that the last run's cleanup comes before
the next run; only the branch that shows a standard invoice returns a cleanup
function (`armed`), and only that cleanup raises the counter beside the JIT branch.
`Finish` is the page's `.then`/`.catch`, which compares the counter. A closed page
leaves its calls running without a screen. What `list_channels` shows may differ
at every run of the effect.

A connection is `up`, `stale` (the socket died, LDK still lists the peer) or
`down`; LDK refuses a second connection to a peer it lists, so a request made
while `stale` goes nowhere and only the reaper ends it.

The fee arithmetic keeps the overflow check: `U64Max` and `Million` are constants,
with small values for TLC and any value in the proofs.

### Transactions

A transaction is what the models need of it: the set of coins it spends and the
rank of its fee. The network (`pool`, mempool or block) keeps one of several that
spend the same coin and replaces it only by one with a higher fee. `call[by]` is
one call of `broadcastWithRetry` together with the `.then` that follows it, for
each of its four callers: LDK's `broadcast_transactions`, the drain of a start, the
sweep, and `broadcastPersistedFundingTx`. `Post` is one attempt, from `fetch` to
answer; `Replies` lists what it may bring: the transaction taken or not, the answer
received or lost, or the three texts and the one refusal
("insufficient fee, rejecting replacement") that `postTxToEsplora` calls `known`. Attempts on the two servers
are counted down in one number, since the code treats both alike; funding
transactions have no second server (`event-handler.ts` 673).

The record of an LDK broadcast is written (`PutRecord`) while the call runs, and deleted
(`DeleteRecord`) when both have ended. `DrainBroadcast` picks any set of
records as too old; `ExpireRecord` is their unawaited delete. A sweep goes through `SweepRead`,
`SweepBuild` (with its early returns), the call and `SweepDelete`. An entry that cannot be
read, or whose descriptors are empty, is skipped (`Readable`): the sweep spends the outputs of the others and
deletes only their entries; which ones those are is part of `scope`. Announcements
(`SpendableOutputs`, `StoreOutput`) come at any time. `fund[ch]` is what LDK knows of
a channel's funding; its events come in LDK's order: `FundingTxBroadcastSafe` after the
channel was generated, `ChannelClosed` before `DiscardFunding`, and again after a crash
what it had not recorded as handled. `reached`, `announced` and `removed` are history variables.

The `scope` of a behaviour says what it has of each kind of event. It exists for
TLC, which explores LDK's broadcasts, sweeps and funding in turn (they share the
in-flight set only, and never a transaction); the proofs allow every scope.

### ChainSync, SyncLoop, RequestPool

The pass of `syncOnce` is cut at its awaits: `TipReply`, `BlockStatusReply`, `BestBlock`,
then the parallel checks of transactions (`TxsSettled` ends them) and of outputs
(`OutsSettled`, with the pruning). A check is a record that moves from request to
request (`OutspendReply`, `StatusReply`, `ProofReply`); any of them can fail, and a
failed check is only logged. Between any two replies the chain can grow (`Mine`,
`OtherBlock`) or lose blocks (`Reorganise`). `SyncTimeout` aborts the signal; requests
made after it fail at once, which ends the pass with an error before the parallel phase
but not in it. A tip hash is abstracted to whether it still is the tip's.

`known[t]` is the block LDK was told for t. LDK lists a transaction as relevant once it was
told of it, and its monitors register the output of each transaction they see confirmed; both
are LDK's part. A reload registers again what the stored monitors watch.

`SyncLoop` takes `syncOnce` as one step that ends or throws, and adds what the tick does
after it: the ChannelManager's write with the flag taken from LDK, graph and scorer
every so many ticks, the gossip sync, whose first run is beside the ticks and whose
periodic runs are in them, backoff and status. `RequestPool` is the layer below: a
promise per URL, a semaphore, the signal taken when a fetch *starts*.

### OnchainWallet, FeeRates

The changes of the BDK wallet are numbered; `take_staged` hands all staged ones to whoever
calls. `puts` are the running calls of `putChangeset`, each with what it has read. The loop is
`tick` with `timers`, the timeouts that can still fire: `timeoutId` names at most one
of them, so a pending timeout that is not cancelled is counted. `excused` collects the
changes lost for one of the three reasons in the code: an estimate discards what is
staged, a write failed, or a write had read before another was stored.

### SendPage, PaymentHistory

A screen is a step record; a lookup in progress is a member of `res` under a numbered abort
controller; `tasks` are the awaits of a confirmed payment (waiting for the LSP, broadcasting),
`polls` the intervals that wait for a result, `timer` the one that `pollIntervalRef` names.
`step.at = "gone"` is the unmounted page: what it awaits goes on, its timer is cleared.

`PaymentHistory` cuts the same payments at the store: `idb` is the queue of operations IndexedDB
has been asked for, in order, any of which may be rejected. `updatePaymentStatus` is a read that appends a put.

### PeerConnections, KnownPeers, Recovery

A socket is numbered, with its peer, who waits for it, and its state; `linked[p]` is the one
LDK talks over, `tracked[p]` the entry of `activeConnections`. LDK refuses a second link to a
peer, so a completed handshake needs the link to be free. `Completes` is what follows the resolved
promise: `connectAndTrack` first closes the tracked socket, the reconnection has done so before.

`KnownPeers` and `Recovery` have the same pattern: a local write, then a put with the version
of the module, one retry with a version that is read again. They differ in what the retry
sends – the current peers, or the record of the call. A put or delete of the record that the client gave
up, or that a dead tab had sent, stays in `late` and may be taken at any later time (`LateArrives`).

### Session

The ten modules from `ChainSync` to `Recovery` and `MonitorPersist`, instantiated side by side: `ChainSync` is
extended, the others are instances with a prefix to each variable. A behaviour picks the part it is of
in its initial state; `SessionNext` is the disjunction of the parts' actions, each guarded by `part`.
This is a device to check, and to state theorems about, many small models at once; nothing is claimed about their
joint behaviour. The constants are those of the parts, given their values by `Session.cfg`; the monitor's are
fixed in the instance, since it is there for its liveness only.

## 4. Runs

| Run | Question | Bounds |
|---|---|---|
| `monitor_safety` | Is what LDK was told durable, does the persister implement `DurableStore`, does a degraded status have a reason? | 1 channel, 3 snapshots, queue of 2, 3 failures, 2 reloads, 1 conflict retry |
| `monitor_stuck` | Is every queued snapshot acknowledged, with one failure more than the conflict retries absorb? **Violated.** | 1 snapshot, 6 failures |
| `monitor_shown` | Does the status say "degraded" as long as some write is failing? **Violated.** | 2 channels, threshold of 1 backoff |
| `backup_safety` | Is each stored ChannelManager readable with the monitors beside it, and covered by the manifest? | the sync loop, 1 overlapping drain, the hidden-tab write; 2 channels with 2 troubles, and 1 channel with 4 |
| `backup_drops` | Does a manifest put ever drop a channel of the stored ChannelManager? **Violated.** | 3 channels, 2 troubles |
| `backup_restore` | Does a restore leave in IndexedDB what it downloaded? **Violated.** | 2 channels, 1 trouble |
| `jit_receive` | Request table, page, amounts and the end of every negotiation | 2 calls (4 requests), cap 1, 2 edits of the amount, 1 dying connection, 2 amounts, menus of 3 and 2 entries, a foreign peer |
| `transactions` | Is the in-flight set exact, is no record orphaned or dropped early, do sweeps end and delete only what they spend, is a funding transaction there when LDK asks for it? | LDK: 2 broadcasts of a commitment and its replacement, 1 trouble; sweep: 2 outputs of which any may be unreadable, 2 fee rates, 2 troubles; funding: 1 channel, 2 troubles; 1 attempt per server |
| `sweep_lost` | Is an output whose descriptor was deleted spent? **Violated.** | 2 outputs, 1 trouble |
| `session` | The other parts of one session, one at a time: see below | chain: 3 transactions in a row, 3 blocks, 1 trouble (reorganisation, failure, timeout or reload); loop: graph every 2 ticks, gossip every 3, 2 troubles; requests: 3 users, 3 URLs, 2 slots; fees: 2 callers, 3 rates; on-chain: 1 send, 2 changes, 2 `syncNow` retries, 1 trouble; Send page: 2 lookups, 1 payment; history: 1 outbound and 1 inbound payment, 2 attempts, 1 failed write; peers: 1 peer, 3 sockets, 1 channel; known peers: 3 overlapping syncs, 1 trouble; recovery: 3 overlapping jobs, 1 restart, 1 trouble; monitor: 2 snapshots, 3 failures, 1 reload, the code's 5 retries |
| `watch_pruned` | Is a registered funding transaction, once in a block, reported? **Violated.** | 1 transaction, 1 block, 1 trouble |
| `late_socket` | Is LDK without peers after the teardown? **Violated.** | 1 peer, 1 socket |

What the properties of the passing runs say:

* `AckedDurable`, `VssFirst`, `NoRollback`: an acknowledged snapshot can be read
  from either store alone, whatever was lost, repeated or late; IndexedDB is never
  ahead of the server; no request that is still travelling can take the server
  back below what is relied upon.
* `ImplementsStore`: the persister is a `DurableStore` (what survives the loss of
  one copy, and what LDK was told, only move forward).
* `DegradedMeansFailing`: a degraded status has a failing write. `EveryWriteAcked`: every queued
  snapshot is acknowledged when failures are fewer than the five conflict retries can absorb.
* `ServerReadable`, `LocalReadable`, `ServerComplete`: for the server alone, for
  IndexedDB alone, and for manifest against ChannelManager. A manifest write that was given up
  excuses an incomplete manifest only until the next write or the next start.
* `SettledOnce`, `PendingBounded`, `AnsweredByLsp`: the promise of a request is
  settled once and leaves the map with it, the cap per peer holds, and nothing but
  an answer of the LSP on the connection in use resolves it.
* `InvoiceForAmount`, `SpinnerHasCall`, `NegotiationEnds`: the QR code is for the
  amount on screen; a spinner has a request whose result will be accepted; it ends.
* `ExpectedReceive`: a JIT invoice is backed by a registered, positive amount that
  covers the fee's exact proportional share, at the lowest usable fee of an ordered
  menu.
* `InflightExact`: a transaction is in `inflightTxs` exactly while one call posts it; an
  entry that stayed would have every later broadcast skipped.
* `RecordKept`, `NoOrphanRecord`: a record leaves the store only when the network
  took the transaction or refused it for a rival, when it expired, or – the exception the code makes –
  by a call that was told that another is posting it; and a record that is there has a
  drain to come or a call that knows of it.
* `FundingFindsTx`: LDK never asks for a funding transaction nobody has.
* `OnlySweptDeleted`, `SweepEnds`: a sweep deletes only what its transaction spends,
  whatever was stored meanwhile and whatever it skipped, and releases its flag on every exit.
* `QuietViewCurrent`: while ticks return early because the tip is known, no block LDK has
  for a transaction has left the chain. `SpendReported`: a spend of a watched output is told to LDK
  although failed checks are not repeated before the next block.
* `WriteRetried`: the loop writes the ChannelManager for every persistence flag it took.
  `SlotsConserved`: no path of a request loses or makes a slot, or leaves a shared promise without its fetch.
* `OneTickPending`, `LossExplained`: the on-chain loop is alive and single; a change that is in no
  store was dropped for a reason above.
* `StaleOnlyAfterFailure`: a caller that waits for a fee rate gets an old one only after a failure.
* `OnePaymentAtATime`, `SuccessShownIsSent`, `SentIsRecorded`: the page, its flag and its polls agree,
  it is never left refusing every confirmation, it shows success only of a fulfilled payment, and the
  row of that payment ends as "sent".
* `NoUntrackedPeer`, `PeersOnServer`, `RecordOnServer`: sockets and records agree with
  their counterparts, whatever overlapped.
* `TypesOK`: the parts keep their types and bounds (slots never exceed the semaphore's limit).

**Why the bounds are enough.** In `monitor_safety` one channel suffices because
chains of different channels share nothing but the status flag, which the two-channel
run covers; three snapshots with a queue of two give one acknowledged, one being
written and one waiting; three failures give a lost reply, a late request and a
failed local write in one behaviour, and with two reloads an older snapshot can be
persisted again after a newer one reached the server. With one conflict retry the
exhausted case is reached with these failures. (The proofs below remove all of
these bounds.) In `backup_safety` two channels distinguish a stale ChannelManager
from a new one, and two troubles cover each pair of events: a failure and a
crash, a restore and a failure. A channel alone has four: a restore cut short, the failure of the
recovery after it, that of its undoing, and a crash. In `jit_receive` two calls are enough for one to
be superseded by the other; a cap of one is full as soon as there is one request,
so that the refusal and the release both happen; the menu has an entry one amount does not pay for,
one limited by size, and two usable ones in order of cost; in a second menu the fee of one amount overflows,
which ends the request like any refusal, and a minimum is negative, which the code does not exclude.

In `transactions` two broadcasts give the same transaction twice (a duplicate in
flight) or two rivals; a crash and a drain can meet either. One attempt on each server has
both a retry and an exhausted call. Two outputs are one that is swept and one that
arrives meanwhile, or one that is skipped beside one that is swept. The proofs remove these bounds, too.

In `session` a channel of three transactions has a funding, a spend and a spend of the spend, so an
output is registered while checks run; one trouble is enough for a reorganisation between two requests or
a timeout in the parallel phase (the proofs of `QuietViewCurrent` remove the bound). Three users and URLs on two
slots give a shared fetch, a waiting one and a free slot. Three sockets to one peer are a tracked, a dying and a racing one;
three syncs are the first whose two conflicts exhaust the retry of one. Three jobs are an
entry, a sweep and a dismissal, or a seed beside two of them.

Deadlock is checked in `jit_receive` and `transactions`. It is off in the others: with bounded
snapshots, failures and reloads the wallet really comes to rest.

## 5. Fairness

* `MonitorPersist`: weak fairness of `Progress(c)` for each channel: the server
  answers, timers fire, promises run their callbacks. Failures, reloads and new
  snapshots have no fairness, and failures are finitely many – the code makes no
  promise for a server that never recovers.
* `JitReceive`: weak fairness of each call's next step (a connection attempt ends by
  its 15 s timeout, promises and microtasks run), of LDK's taking the queued
  messages, and of the reaper's interval timer for each request. None for the LSP,
  the network or the user: that negotiation ends must not depend on them.
* `Transactions`: weak fairness of the steps of a sweep (`SweepStep`): a posted
  request is answered or fails – the code sets no timeout of its own on it, the
  browser's network stack does – and promises and timers run. None for outputs, LDK's
  events or a working network: `SweepEnds` holds with every attempt failing.
* `ChainSync`: weak fairness of the timer's tick, of the replies of a pass (each request has a timeout
  of its own, and failing is one of the replies) and of `OtherBlock`: the chain goes on, without which
  a missed check is never repeated. None for reorganisations or the transactions of the channel.
* `SyncLoop`: weak fairness of the timer, of the steps of a tick and of the gossip sync's steps. A failure
  ends a tick, and the next is scheduled by its `finally`; failures are finitely many.

`Session` states the same for the part that runs. `WalletBackup` and the other parts of the session state no
liveness.

## 6. Proofs

Every invariant and every safety action property that a passing run checks is a theorem.
All theorems hold for every value of the constants allowed by the assumptions
`ConstantsAssumption`, `BackupAssumption`, `RequestsAssumption`, `FeesAssumption`, `JitAssumption`,
`TransactionsAssumption`, `ChainSyncAssumption` and `SessionAssumption`:
bounds are naturals, the LSP is a peer, the ids of a call are its two requests, a menu is
a sequence of fee entries whose proportional part is a natural number (their other fields may be any integers), coins, outputs and channels are disjoint, there is at least one attempt;
in a session the intervals and limits of the code are positive, the URLs finite, rates naturals, and the
fee floor lies in the range LDK accepts.
In particular any number of channels, snapshots, failures, reloads, requests, peers, payments and overlapping calls.

**MonitorPersist** (`MonitorPersistProofs`). `AckedDurable` is not inductive: from a
state with an old put still travelling and a server version that matches it, the
next step undoes an acknowledged write. The inductive invariant `NoRollback` says
why that state does not occur, in three parts. `QueueInv`: the queue is in the
order in which the snapshots were made, and what is queued behind the running
write is newer than anything a store or request holds. `KnownInv`: nothing holds
a snapshot that was not made, or a version the server has not given out.
`SafeInv`: from each point of the call on, the server is *safe from* the snapshot
concerned – it holds at least that snapshot, and each travelling request with an
older one carries a version the server has left behind. The server's versions only
grow, so such a request can never apply. `NoRollbackHolds` proves it step by step
(one lemma per action or group of alike ones); `Durability` (`AckedDurable`), `LocalBehindRemote`
(`VssFirst`), `Refinement` (`ImplementsStore`, every step of the persister is a step
of `DurableStore` or a stutter) follow, `DegradedIsReal` has a small invariant of its
own.

**OpeningFees** (`JitReceiveProofs`). `FeeCoversTerms`: the fee is at least the
minimum and at least the exact proportional share, i.e. the rounding is up.
`SelectedPaysOut`: a selected entry fits, does not overflow and leaves a positive
amount. `SelectedIsCheapest`: on an ordered menu no usable entry is cheaper.

**JitReceive** (`JitReceiveProofs`). `JitTypeCorrect` carries that a selected entry
exists while a purchase runs (`Bought`), which is why the expected amount is a
natural number. `PromisesSettledOnce` and `CapHolds` are proved of the request table
(`RequestsInv`) and carried to the whole by `ImplementsRequests`: every step is a step
of the table or leaves it alone. `InvoiceMatchesAmount` and `SpinnerNeverOrphaned`
need the invariant `PageInv` about the counter: the number of a call never exceeds the
counter (`Numbered`); two running calls of this page differ in their number
(`NumbersDiffer`); the call whose number *is* the counter was made for the amount on
screen (`ForAmount`); a closed page shows nothing (`ClosedIsBlank`). Together: an edit or
rerun either raises the counter, so that older results are ignored, or leaves the
amount as it was. `JitInvoicePaysOut` (`ExpectedReceive`) uses the fee theorems;
`OnlyLspAnswers` is the action property `AnsweredByLsp`.

**Transactions** (`TransactionsProofs`). `CallsHold` is the invariant of the calls.
`InflightExact` alone is not inductive: a call that started while its caller still
posted would lose the older transaction. `PhaseInv` says when each caller is free (the drain
before it is done, the sweep before it sends, the funding before it is safe),
`KindInv` which transactions each broadcasts, `PuttingInv` that a call does not end
before its record is written. Each kind of step has an effect lemma (`PostEffect`,
`BroadcastEffect`, `DeleteEffect`, ...), on which the other proofs rest.
`RecordsAreKept` adds that a call that succeeded reached the network, `NoRecordOrphaned`
is inductive on top of `CallsHold`. `FundingIsFound` needs `OnlyFunding` – nothing else ever spends the
channel's output, so no answer can be about a rival, and the call is never told
"in-flight" – and then that a funding call that ended has its transaction in the pool.
`OnlySweptAreDeleted` needs that while a sweep is broadcast, what it will delete are the readable ones among the
entries it read, and its transaction spends exactly their outputs.

**ChainSync** (`ChainSyncProofs`). `QuietViewCurrent` speaks of a tip recorded by an earlier pass, so
the invariant follows the pass. `Numbers`: a block LDK has for a transaction is *genuine* – it is the
transaction's block, or in no block's place any more; since a reorganisation takes whole blocks and new
blocks have new numbers, a genuine number that is in the chain at all is the right one
(`GenuineIsMined`), which is all `getBlockStatus` asks. `Running`: a check that waits for its proof has a genuine
block, and no pass runs while its tip is recorded. `Pass`: as long as the pass's tip still is the tip, each
transaction not left to check is as mined, and after the last one so are LDK's whole view and the proofs
under way. A step of the chain ends "still is the tip" (`ChainMoves`), so the pass owes nothing then.

**WalletBackup** (`WalletBackupProofs`). The invariant has four parts. `TInv`: the types, no manifest write before
the node's data are read, at most one ChannelManager downloaded by a restore. `OnServer`: whatever names a
channel – the ChannelManager on the server, in memory, in IndexedDB, in a writer's hands – names one whose monitor is on
the server; only the end of a channel's first persist and a restore name anything anew (`NothingNew`), and both only what is
there. `ServerReadable` follows. `Standing` says what is empty or idle at each place where the tab can stand; `LastWriteHasKeys` is the part of it on which
the manifest rests: the last write asked for is sent with all tracked keys.
`Complete` holds as long as nothing has left the data inconsistent (`intact`): what is named is in IndexedDB or still to be downloaded
(`Local`, `Whole`, except after a recovery that died before its ChannelManager, `Torn`), and in the manifest, or in the keys that a
pending write will send, or, after a lost write, in the keys of the running node (`Listed`). The write of a start that could not
read the versions has fewer keys than the manifest, but the server will refuse it (`Refusable`): its
conflict then merges the server's keys. A start sends its monitors' keys anew (`Load`), which ends the exception of a lost
write. `LocalReadable` and `ServerComplete` follow.

**PeerConnections** (`ConnectionProofs`). `ConnTypes` adds to the types that the Open channel page waits for a
socket only with a channel left to open. `NoUntrackedPeer` is inductive given the types: a link is made only where
none was, by the socket that is tracked in the same step; every other step only removes links, or removes the
tracked socket and its link together.

**KnownPeers** (`ConnectionProofs`). The property says nothing while a sync runs, so the invariant has to carry the
peers until the end. `PeersCarried`: unless a sync gave up, one is *pending* – it will read the peers (again), or puts
those of now, or will be refused – or the server has the peers and no sync will put any more. `SyncVersions` excludes the
bad case, a put of old peers with a version the server has not reached. The versions are bounded because each
sync that may still put raises the server's at most once (`VersionsBounded`).

**Recovery** (`ConnectionProofs`). `RecordOnServer` is false for a while after every call begins. `JobStage` says what a
job that runs alone knows from where it stands: before it writes, both stores agree; after its local write, the store
has its record, or none when it clears; once its put or delete is taken, the server has the same; a version it has read again is the
server's, so that its one retry is taken. `RecCarried`: unless the last write failed, overlapped another or was followed by a late one
(`missed`), a running job is alone, and with no job running the stores agree. `RecBounds` bounds versions as above, late puts
(`LateWell`) included.

**OnchainWallet** (`PaymentProofs`). `LoopRuns` ties each step of the loop to its timer and to its write: a scan, a
sync or a put has no timer beside it, an idle loop that is not stopped has one, and at most one write is the loop's. It is
what makes `OneTickPending` inductive, because a tick goes on where *its* write returns. `LossExplained` is
inductive given the types: each step is shown to keep what is accounted for and to account for what it makes
(`ChangesKept`); what is excused stays so.

**SendPage** (`PaymentProofs`). `OneWaits`: as long as the page is open, one handler runs or one poll, never both; the
poll is the one `pollTimerRef` names, and `sendingRef` says whether there is one. The equality of timer and
polls is the strengthening: a step that clears the timer ends the poll. `SentIsFulfilled` carries the fulfilment of a payment from
LDK's event through the result store to the success screen.

**PaymentHistory** (`PaymentProofs`). The record of a payment passes through the store's queue of operations. `Stands` says of
each payment, from its record and what the queue still holds: a known payment has a record or one to be put,
every update comes behind a put, and of a sent one the last write is the update to "sent", or the put such an update
became, or none is left and the record says "sent" (`Settling`). `EventsMatch` and `SentOver` give the order of events: that of a sent payment is its
last, so nothing is written behind it. A step takes operations at the head of the queue and adds some at its end (`Moved`),
and one lemma for each kind of step says what becomes of `Stands`.

**FeeRates** (`SessionProofs`). `FetchInv`: a caller waits only for a fetch that runs or has just
ended, and then the cache is fresh unless it failed. `ClampedRate` bounds what LDK's estimator returns.

**RequestPool** (`SessionProofs`). `SlotsHeld` is the property; it is inductive only with `FetchedOnce`: a URL is fetched
once or waits once, and not both. Otherwise the end of a fetch would take a shared promise from another, and an abort, which replaces the
signals of all running fetches at once, could make two of them one and so lose a slot (it is a bijection of
the fetches, `AbortKeeps`).

**All types** (`SessionProofs`). `AllTypesOK` joins the invariants of the ten parts. The types of the queue's length and of the
versions in `KnownPeers` and `Recovery` are not inductive: they need the invariants above. In `SyncLoop`, that the gossip of a stored timestamp is
known to the server needs the same of the running update (`GossipTypes`).

The proofs about a session use the parts' own steps: a lemma for each part (`PoolMoves`, `RecoveryMoves`, ...) says that a
step of the session is a step of the part or leaves it alone, so that each theorem is one about the module.

**Only model-checked**: the liveness properties (`EveryWriteAcked`, `WriteRetried`, `SpendReported`,
`NegotiationEnds`, `SweepEnds`), which are outside what the prover handles; that the properties expected to fail do. Nothing is
proved by induction over data: the only recursive definitions are functions that TLC evaluates.

## 7. Where code and comments disagree

Each is a run that TLC finds violated; `PROJECT.json` quotes both sides.

* **A write that can never succeed** (`monitor_stuck`, `persist.ts` 216). Conflict
  retries are counted over the life of the call, and re-reads that *failed* count
  too. When a put was applied but its reply lost, and five re-reads then fail, the
  cached version stays stale for ever: each later put conflicts, and the code no
  longer re-reads. The channel is halted until the tab is reloaded.
* **One flag for all channels** (`monitor_shown`, `context.tsx` 506). The first write
  to recover resets the status to "ok" while another is still failing; that other
  write has signalled once and does not signal again.
* **A manifest that loses keys** (`backup_drops`, `init.ts` 402). Keys come from
  IndexedDB, the version from the server, so a put of the smaller set does not
  conflict, and the merge that is to protect other keys is skipped.
* **A restore that is overwritten** (`backup_restore`, `Restore.tsx` 128). `shutdown`
  stops loops and timers, not calls that are waiting for the server; they write the old
  data into the restored stores.
* **A sweep that loses an output** (`sweep_lost`, `sweep.ts` 127). A refusal for too
  low a fee counts as "already known". When the deletion after a first sweep failed or was cut
  off, the next sweep takes that output and a new one, is refused in favour of the
  first, and deletes both descriptors: nothing spends the new output.

* **A watch that is pruned** (`watch_pruned`, `chain-sync.ts` 142). The pruning removes each watched
  transaction that LDK does not list as relevant, and LDK lists one only after it was told of its
  confirmation. A funding transaction that is not in a block at the first pass is never checked again in
  this session.
* **A connection that outlives the node** (`late_socket`, `context.tsx` 88). `teardown` closes the connections
  tracked at that moment; one that is being made completes later, and its peer goes on talking to the
  ChannelManager of a tab that has lost the wallet.

Five more are stated beside the properties that hold, each with a comment that it does not; TLC
finds each of them violated within the bounds of `session`, but no run is kept for them, since they cost delay, a
detour or a wrong display rather than money:

* `ChainSync!TimeoutRetried` (`chain-sync.ts` 218, "Reset lastTipHash on timeout to force full retry next tick"): it is
  reset only when `syncOnce` throws; an abort in the parallel phase makes checks fail, which are logged, and the tip is
  recorded. What was missed waits for the next block.
* `SyncLoop!NoGossipGap` (`chain-sync.ts` 245, "prevents data gap if browser crashes"): the first gossip sync
  stores its timestamp at once and its graph with the next write of the graph.
* `PaymentHistory!HistoryShown` (`context.tsx` 565): the event's callback reads the history without waiting for the
  update, whose put comes after that read; the list shows "pending" until something else reloads it.
* `SendPage!BackToSameRecipient` (`Send.tsx` 124, "so we can restore it when navigating back from review"): going back to
  the recipient and reaching a review by a way that does not set the stored data leads back to the amount of the
  earlier recipient.
* `Recovery!ConfirmedIsSwept` (`use-recovery.ts` 52): a channel that needs recovery after an earlier one was swept is added to the
  record with the old status "sweep_confirmed", which no timer sweeps.

Smaller observations of the same reading, not properties: `connectAndTrack` "Disconnects any stale entry first"
(`context.tsx` 87) but connects first, and LDK refuses a second link, so to connect to a linked peer always fails; an on-chain recipient
reached by a name is parsed again from the name at the amount screen (`Send.tsx` 546), which resolves it again;
two overlapping `enterRecovery` calls keep one of two channels; a failed delete of the recovery record on the server, or a put taken
late, brings it back at the next start.

## 8. What is not modelled

Of the modelled parts:

* persister: `archive_persisted_channel` (nothing in the repository archives
  monitors);
* backup: the migration of wallets that predate VSS (`init.ts` 736–792), a second tab or device, late ChannelManager and manifest puts (a failed put is
  applied at once or never), data that cannot be decrypted;
* transactions: evictions from the mempool, and confirmed spends as a state of their own (a posted transaction may
  always be refused with an error, which covers them); LDK repeating `SpendableOutputs` after a crash;
* JIT: the handler's `destroy()`, which is never called; size and JSON checks of
  incoming messages (malformed answers are failures); channels that vanish while the
  page is open; the on-chain address shown beside the invoice; a negative proportional fee (`types.ts` 142–148 parses the
  fields without a range check; the other fields may be negative in the model, too);

* chain sync: the cap of the filter's and the client's LRU maps, heights and headers as data, several channels
  (they share nothing but the pass); the pass's reload is the tab's, so a restart of the loop alone is not one;
* sync loop: the scorer as a state of its own;
* on-chain wallet: coin selection, the anchor reserve's amount, BDK's chain data;
* Send page: amounts, fees and their checks, the wording of errors, the camera; a second visit while awaits of the
  first go on is not joined with it;
* history: the wallet's own BOLT 12 offer (`context.tsx` 820–880);
* known peers: puts that the server takes after the client gave them up;
* recovery: amounts and the deposit address; a record that cannot be decrypted;
* session: the parts are checked beside each other, not together. What they share in the code – the LDK objects and the
  status shown – is nondeterministic in each. `EveryWriteAcked` is checked within the bounds given above; with
  more failures it is false (`monitor_stuck`).

Two tabs that run the node at once for the time of a takeover would need two copies of every writer; only the sockets of the
tab that loses are modelled. Key derivation, encryption, invoice encoding, string parsing, rendering and the stateless
proxies are left out for good: they are pure functions or forwarding, where a model would
only restate the code.
