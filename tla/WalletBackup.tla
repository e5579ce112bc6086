---------------------------- MODULE WalletBackup ----------------------------
(***************************************************************************)
(* What of the Lightning node is stored where, and what a start of the     *)
(* wallet makes of it.  Three kinds of objects are on the VSS server: one  *)
(* monitor per channel, the manifest that lists the monitors (the server   *)
(* cannot: keys are obfuscated), and the ChannelManager.  IndexedDB holds  *)
(* monitors and ChannelManager.  They are written by                       *)
(*   - the monitor persister (in detail in MonitorPersist; here: first to  *)
(*     VSS, then to IndexedDB, then LDK is told),                          *)
(*   - the manifest chain of persist.ts, fire and forget,                  *)
(*   - persistChannelManager, called by the sync loop, by the event drain  *)
(*     and, for IndexedDB only, when the tab is hidden, unsynchronised.    *)
(* A start reads IndexedDB, or downloads what the manifest lists when      *)
(* IndexedDB is empty (init.ts); the Recover Wallet page replaces the      *)
(* local data by the server's (Restore.tsx).  The tab may die at any step. *)
(*                                                                         *)
(* A ChannelManager is abstracted to the channels it has established, that *)
(* is, whose first monitor it was told is persisted: LDK drops the others  *)
(* when it reads a ChannelManager back, and refuses to read one with an    *)
(* established channel whose monitor is not given.                         *)
(***************************************************************************)
EXTENDS Naturals, FiniteSets

CONSTANTS
  Channels,    \* funding outpoints
  Drains,      \* names of the event drains' persist calls: bounds how many overlap
  Scopes       \* bounds, one of which holds of a behaviour: the channels it may
               \* open, and how many failed requests and local writes, deaths and
               \* reloads of the tab, and runs of the Recover Wallet page it may
               \* have together

ASSUME BackupAssumption ==
  /\ IsFiniteSet(Channels) /\ "sync" \notin Drains
  /\ Scopes \subseteq [channels : SUBSET Channels, troubles : Nat]

VARIABLES
  srvMon,    \* VSS: the channels whose monitor is there
  srvMan,    \* VSS: the manifest, version and keys
  srvCm,     \* VSS: the ChannelManager, version and channels
  idbMon,    \* ldk_channel_monitors
  idbCm,     \* ldk_channel_manager: {} if absent, {its channels} if present
  phase,     \* where the tab stands
  todo,      \* recovery: keys of the manifest still to download
  chans,     \* the running ChannelManager
  dirty,     \* LDK's needs_persistence flag
  retry,     \* cmNeedsPersist of the sync loop
  cmVer,     \* cmVersionRef.current
  cmWrite,   \* the persistChannelManager calls
  mon,       \* the persister's call for each channel's monitor
  opening,   \* channels LDK waits for the first monitor of
  keys,      \* monitorKeys
  manVer,    \* versionCache of the manifest, 0 if there is no entry
  manQ,      \* writeManifest calls not finished
  manPc,     \* where the first of them stands
  manReq,    \* the manifest it sends
  rest,      \* Restore.tsx: what it downloaded
  scope,     \* the bounds: channels, and the troubles that may still come
  intact,    \* history: no recovery or restore has been cut short or made of data
             \* that were incomplete (the actions that end it say so)
  listed     \* history: no manifest write was lost or given up since the node was
             \* loaded or since a later one succeeded

server == <<srvMon, srvMan, srvCm>>
local == <<idbMon, idbCm>>
node == <<chans, dirty, retry, opening>>
cmCalls == <<cmVer, cmWrite>>
manifest == <<keys, manVer, manQ, manPc, manReq>>
history == <<intact, listed>>
vars == <<server, local, phase, todo, node, cmCalls, mon, manifest, rest,
          scope, history>>

Writers == {"sync"} \cup Drains
Object == [ver : Nat, set : SUBSET Channels]
Absent == [ver |-> 0, set |-> {}]
IdleCall == [pc |-> "idle", ver |-> 0, set |-> {}]
NoCm == {}         \* no ChannelManager in IndexedDB
NothingFetched == [done |-> FALSE, cm |-> NoCm, mon |-> {}]

\* The state of a tab that has just been opened.
ResetMemory ==
  /\ todo' = {}
  /\ chans' = {} /\ dirty' = FALSE /\ retry' = FALSE /\ opening' = {}
  /\ cmVer' = 0 /\ cmWrite' = [w \in Writers |-> IdleCall]
  /\ mon' = [c \in Channels |-> "none"]
  /\ keys' = {} /\ manVer' = 0 /\ manQ' = 0 /\ manPc' = "idle"
  /\ manReq' = Absent
  /\ rest' = NothingFetched

Init ==
  /\ srvMon = {} /\ srvMan = Absent /\ srvCm = Absent
  /\ idbMon = {} /\ idbCm = NoCm
  /\ phase = "off"
  /\ todo = {}
  /\ chans = {} /\ dirty = FALSE /\ retry = FALSE /\ opening = {}
  /\ cmVer = 0 /\ cmWrite = [w \in Writers |-> IdleCall]
  /\ mon = [c \in Channels |-> "none"]
  /\ keys = {} /\ manVer = 0 /\ manQ = 0 /\ manPc = "idle" /\ manReq = Absent
  /\ rest = NothingFetched
  /\ scope \in Scopes /\ intact = TRUE /\ listed = TRUE

Trouble ==
  /\ scope.troubles > 0
  /\ scope' = [scope EXCEPT !.troubles = @ - 1]

-----------------------------------------------------------------------------
(* Start of the tab: init.ts.                                              *)

\* Nothing of the node in IndexedDB: try to recover from VSS.
Start ==
  /\ phase = "off"
  /\ phase' = IF idbMon = {} /\ idbCm = NoCm THEN "manifest" ELSE "seed"
  /\ UNCHANGED <<server, local, todo, node, cmCalls, mon, manifest, rest,
                 scope, history>>

\* No manifest on the server: a new wallet.
RecoverManifest ==
  /\ phase = "manifest"
  /\ IF srvMan.ver = 0
     THEN /\ phase' = "load"
          /\ UNCHANGED todo
     ELSE /\ phase' = "monitors"
          /\ todo' = srvMan.set
  /\ UNCHANGED <<server, local, node, cmCalls, mon, manifest, rest, scope, history>>

RecoverMonitor ==
  /\ phase = "monitors"
  /\ \E c \in todo \cap srvMon :
       /\ idbMon' = idbMon \cup {c}
       /\ todo' = todo \ {c}
  /\ UNCHANGED <<server, idbCm, phase, node, cmCalls, mon, manifest, rest,
                 scope, history>>

\* The ChannelManager comes after the monitors.
RecoverCm ==
  /\ phase = "monitors"
  /\ todo = {}
  /\ srvCm.ver > 0
  /\ idbCm' = {srvCm.set}
  /\ cmVer' = srvCm.ver
  /\ phase' = "peers"
  /\ UNCHANGED <<server, idbMon, todo, node, cmWrite, mon, manifest, rest, scope,
                 history>>

\* The known peers (not kept here) come last; then the manifest's version and keys
\* seed the persister.
RecoverPeers ==
  /\ phase = "peers"
  /\ manVer' = srvMan.ver
  /\ keys' = srvMan.set
  /\ phase' = "load"
  /\ UNCHANGED <<server, local, todo, node, cmCalls, mon, manQ, manPc, manReq, rest,
                 scope, history>>

\* A request fails, a listed monitor or the ChannelManager is missing: the local
\* writes, if there were any, are undone, and the wallet goes on as a new one.
RecoveryFails ==
  /\ phase \in {"manifest", "monitors", "peers"}
  /\ \/ Trouble
     \/ /\ phase = "monitors"
        /\ todo \ srvMon # {} \/ (todo = {} /\ srvCm.ver = 0)
        /\ UNCHANGED scope
  /\ todo' = {}
  /\ cmVer' = 0
  /\ phase' = IF idbMon = {} /\ idbCm = NoCm THEN "load" ELSE "undo"
  /\ intact' = (intact /\ srvCm.ver = 0)
  /\ UNCHANGED <<server, local, node, cmWrite, mon, manifest, rest, listed>>

\* Two deletes, one after the other; a failed one is ignored.
UndoMonitors ==
  /\ phase = "undo"
  /\ \/ idbMon' = {} /\ UNCHANGED scope
     \/ Trouble /\ UNCHANGED idbMon
  /\ phase' = IF idbCm = NoCm THEN "load" ELSE "undoCm"
  /\ UNCHANGED <<server, idbCm, todo, node, cmCalls, mon, manifest, rest, history>>

UndoCm ==
  /\ phase = "undoCm"
  /\ \/ idbCm' = NoCm /\ UNCHANGED scope
     \/ Trouble /\ UNCHANGED idbCm
  /\ phase' = "load"
  /\ UNCHANGED <<server, idbMon, todo, node, cmCalls, mon, manifest, rest, history>>

\* IndexedDB has data: read the versions from the server, all or none, and write
\* a manifest if there seems to be none (backfillManifest).
Seed ==
  /\ phase = "seed"
  /\ keys' = idbMon
  /\ \/ cmVer' = srvCm.ver /\ manVer' = srvMan.ver /\ UNCHANGED scope
     \/ Trouble /\ UNCHANGED <<cmVer, manVer>>
  /\ manQ' = IF idbMon # {} /\ manVer' = 0 THEN 1 ELSE 0
  /\ phase' = "load"
  /\ UNCHANGED <<server, local, todo, node, cmWrite, mon, manPc, manReq, rest,
                 history>>

\* LDK reads the ChannelManager with the monitors; watch_channel has each monitor
\* persisted like that of a new channel (persist_new_channel): its key is tracked,
\* and the manifest is written once more.  The blocks of the first sync change any
\* ChannelManager.
Readable(cm, monitors) == \A s \in cm : s \subseteq monitors

\* Faulty variant: restored monitors are persisted, the manifest is not.
LoadListsNothing ==
  /\ phase = "load"
  /\ IF idbCm # NoCm /\ Readable(idbCm, idbMon)
     THEN /\ phase' = "run"
          /\ chans' = UNION idbCm
          /\ mon' = [c \in Channels |-> IF c \in idbMon THEN "vss" ELSE "none"]
          /\ UNCHANGED <<keys, manQ>>
          /\ UNCHANGED idbCm
     ELSE /\ phase' = IF idbMon = {} THEN "run" ELSE "refused"
          /\ idbCm' = IF idbMon = {} THEN NoCm ELSE idbCm
          /\ UNCHANGED <<chans, mon, keys, manQ>>
  /\ dirty' = (phase' = "run")
  /\ listed' = (listed \/ phase' = "run")
  /\ UNCHANGED <<server, idbMon, todo, retry, opening, cmCalls, manVer, manPc, manReq,
                 rest, scope, intact>>

Load ==
  /\ phase = "load"
  /\ IF idbCm # NoCm /\ Readable(idbCm, idbMon)
     THEN /\ phase' = "run"
          /\ chans' = UNION idbCm
          /\ mon' = [c \in Channels |-> IF c \in idbMon THEN "vss" ELSE "none"]
          /\ keys' = keys \cup idbMon
          /\ manQ' = manQ + Cardinality(idbMon)
          /\ UNCHANGED idbCm
     ELSE /\ phase' = IF idbMon = {} THEN "run" ELSE "refused"
          /\ idbCm' = IF idbMon = {} THEN NoCm ELSE idbCm
          /\ UNCHANGED <<chans, mon, keys, manQ>>
  /\ dirty' = (phase' = "run")
  /\ listed' = (listed \/ phase' = "run")
  /\ UNCHANGED <<server, idbMon, todo, retry, opening, cmCalls, manVer, manPc, manReq,
                 rest, scope, intact>>

-----------------------------------------------------------------------------
(* Channels and their monitors.                                            *)

\* persist_new_channel: track the key, write the manifest, write the monitor.
OpenChannel(c) ==
  /\ phase = "run"
  /\ c \in scope.channels
  /\ c \notin idbMon \cup srvMon \cup opening \cup srvMan.set \cup keys
  /\ opening' = opening \cup {c}
  /\ mon' = [mon EXCEPT ![c] = "vss"]
  /\ keys' = keys \cup {c}
  /\ manQ' = manQ + 1
  /\ UNCHANGED <<server, local, phase, todo, chans, dirty, retry, cmCalls, manVer,
                 manPc, manReq, rest, scope, history>>

\* Faulty variant: LDK is told when the monitor is on VSS.
MonitorToVssTells(c) ==
  /\ mon[c] = "vss"
  /\ srvMon' = srvMon \cup {c}
  /\ mon' = [mon EXCEPT ![c] = "idb"]
  /\ IF c \in opening
     THEN chans' = chans \cup {c} /\ opening' = opening \ {c} /\ dirty' = TRUE
     ELSE UNCHANGED <<chans, opening, dirty>>
  /\ UNCHANGED <<srvMan, srvCm, local, phase, todo, retry, cmCalls, manifest,
                 rest, scope, history>>

\* Faulty variant: a failed VSS write is taken for a successful one.
MonitorToVssUnchecked(c) ==
  /\ mon[c] = "vss"
  /\ mon' = [mon EXCEPT ![c] = "idb"]
  /\ UNCHANGED <<server, local, phase, todo, node, cmCalls, manifest, rest, scope,
                 history>>

\* The VSS write, which is repeated until it succeeds.
MonitorToVss(c) ==
  /\ mon[c] = "vss"
  /\ srvMon' = srvMon \cup {c}
  /\ mon' = [mon EXCEPT ![c] = "idb"]
  /\ UNCHANGED <<srvMan, srvCm, local, phase, todo, node, cmCalls, manifest, rest,
                 scope, history>>

\* After the local write LDK is told; a channel it was waiting for is now
\* established, and the ChannelManager has changed.
MonitorToIdb(c) ==
  /\ mon[c] = "idb"
  /\ idbMon' = idbMon \cup {c}
  /\ mon' = [mon EXCEPT ![c] = "none"]
  /\ IF c \in opening
     THEN chans' = chans \cup {c} /\ opening' = opening \ {c} /\ dirty' = TRUE
     ELSE UNCHANGED <<chans, opening, dirty>>
  /\ UNCHANGED <<server, idbCm, phase, todo, retry, cmCalls, manifest, rest,
                 scope, history>>

-----------------------------------------------------------------------------
(* The manifest chain: writeManifest.                                      *)

\* The link runs when the one before it has settled: it sends the keys and the
\* version of this moment.
ManifestStart ==
  /\ manQ > 0 /\ manPc = "idle"
  /\ manPc' = "put"
  /\ manReq' = [ver |-> manVer, set |-> keys]
  /\ UNCHANGED <<server, local, phase, todo, node, cmCalls, mon, keys, manVer, manQ,
                 rest, scope, history>>

\* The link is settled, whatever came of it.
ManifestDone == manPc' = "idle" /\ manQ' = manQ - 1 /\ manReq' = Absent

\* The server answers a put.  A conflict sends the writer to read the manifest,
\* once; after the retry it only leaves a warning.
ManifestPut ==
  /\ manPc \in {"put", "retry"}
  /\ IF manReq.ver = srvMan.ver
     THEN /\ srvMan' = [ver |-> srvMan.ver + 1, set |-> manReq.set]
          /\ manVer' = srvMan.ver + 1
          /\ ManifestDone
          /\ listed' = TRUE
     ELSE /\ IF manPc = "put"
             THEN manPc' = "get" /\ UNCHANGED <<manQ, manReq>>
             ELSE ManifestDone
          /\ listed' = (listed /\ manPc = "put")
          /\ UNCHANGED <<srvMan, manVer>>
  /\ UNCHANGED <<srvMon, srvCm, local, phase, todo, node, cmCalls, mon, keys, rest,
                 scope, intact>>

\* The server's keys are merged into the tracked ones, and both are sent.
ManifestGet ==
  /\ manPc = "get"
  /\ manVer' = srvMan.ver
  /\ keys' = keys \cup srvMan.set
  /\ manReq' = [ver |-> srvMan.ver, set |-> keys \cup srvMan.set]
  /\ manPc' = "retry"
  /\ UNCHANGED <<server, local, phase, todo, node, cmCalls, mon, manQ, rest, scope,
                 history>>

\* A request fails, or its answer is lost: a warning is all that is left.
ManifestFails ==
  /\ manPc # "idle"
  /\ Trouble
  /\ \/ UNCHANGED srvMan
     \/ /\ manPc # "get" /\ manReq.ver = srvMan.ver
        /\ srvMan' = [ver |-> srvMan.ver + 1, set |-> manReq.set]
  /\ ManifestDone
  /\ listed' = FALSE
  /\ UNCHANGED <<srvMon, srvCm, local, phase, todo, node, cmCalls, mon, keys, manVer,
                 rest, intact>>

-----------------------------------------------------------------------------
(* persistChannelManager.  The bytes are written out when it is called.    *)

CallCm(w) ==
  /\ phase = "run"
  /\ cmWrite[w].pc = "idle"
  /\ cmWrite' = [cmWrite EXCEPT ![w] = [pc |-> "put", ver |-> cmVer, set |-> chans]]
  /\ UNCHANGED <<server, local, phase, todo, chans, opening, cmVer, mon, manifest,
                 rest, scope, history>>

\* tick of the sync loop: its own flag is looked at before LDK's.
SyncPersist ==
  /\ retry \/ dirty
  /\ dirty' = (dirty /\ retry)
  /\ retry' = FALSE
  /\ CallCm("sync")

\* drainEventsAndRefresh, which does not wait for an earlier call.
DrainPersist(w) ==
  /\ dirty
  /\ dirty' = FALSE
  /\ UNCHANGED retry
  /\ CallCm(w)

\* Faulty variant: the local write does not replace the entry `primary'.
HiddenPersistAdds ==
  /\ phase = "run"
  /\ idbCm' = idbCm \cup {chans}
  /\ UNCHANGED <<server, idbMon, phase, todo, node, cmCalls, mon, manifest, rest,
                 scope, history>>

\* The tab is hidden: IndexedDB only, whether or not there are changes, in one
\* transaction that is issued at once.
HiddenPersist ==
  /\ phase = "run"
  /\ idbCm' = {chans}
  /\ UNCHANGED <<server, idbMon, phase, todo, node, cmCalls, mon, manifest, rest,
                 scope, history>>

\* A call that gives up: the sync loop will try again, the others have logged it.
GiveUp(w) ==
  /\ cmWrite' = [cmWrite EXCEPT ![w] = IdleCall]
  /\ retry' = (retry \/ w = "sync")

\* The server answers a put; a conflict is resolved once.
CmPut(w) ==
  /\ cmWrite[w].pc \in {"put", "retry"}
  /\ IF cmWrite[w].ver = srvCm.ver
     THEN /\ srvCm' = [ver |-> srvCm.ver + 1, set |-> cmWrite[w].set]
          /\ cmVer' = srvCm.ver + 1
          /\ cmWrite' = [cmWrite EXCEPT ![w].pc = "idb"]
          /\ UNCHANGED retry
     ELSE /\ IF cmWrite[w].pc = "put"
             THEN cmWrite' = [cmWrite EXCEPT ![w].pc = "get"] /\ UNCHANGED retry
             ELSE GiveUp(w)
          /\ UNCHANGED <<srvCm, cmVer>>
  /\ UNCHANGED <<srvMon, srvMan, local, phase, todo, chans, dirty, opening, mon,
                 manifest, rest, scope, history>>

CmGet(w) ==
  /\ cmWrite[w].pc = "get"
  /\ cmVer' = srvCm.ver
  /\ cmWrite' = [cmWrite EXCEPT ![w].pc = "retry", ![w].ver = srvCm.ver]
  /\ UNCHANGED <<server, local, phase, todo, node, mon, manifest, rest, scope,
                 history>>

CmIdb(w) ==
  /\ cmWrite[w].pc = "idb"
  /\ idbCm' = {cmWrite[w].set}
  /\ cmWrite' = [cmWrite EXCEPT ![w] = IdleCall]
  /\ UNCHANGED <<server, idbMon, phase, todo, node, cmVer, mon, manifest, rest,
                 scope, history>>

CmFails(w) ==
  /\ cmWrite[w].pc # "idle"
  /\ Trouble
  /\ \/ UNCHANGED srvCm
     \/ /\ cmWrite[w].pc \in {"put", "retry"} /\ cmWrite[w].ver = srvCm.ver
        /\ srvCm' = [ver |-> srvCm.ver + 1, set |-> cmWrite[w].set]
  /\ GiveUp(w)
  /\ UNCHANGED <<srvMon, srvMan, local, phase, todo, chans, dirty, opening, cmVer, mon,
                 manifest, rest, history>>

-----------------------------------------------------------------------------
(* The Recover Wallet page, used with this wallet's own words.             *)

\* What the page downloads: a listed monitor that is missing is skipped.
Download ==
  [done |-> TRUE,
   cm |-> IF srvCm.ver > 0 THEN {srvCm.set} ELSE NoCm,
   mon |-> srvMan.set \cap srvMon]

\* The node, if it has started, goes on while the page downloads.
RestoreFetch ==
  /\ phase \in {"run", "refused"}
  /\ ~rest.done
  /\ srvMon # {} \/ srvMan.ver > 0 \/ srvCm.ver > 0
  /\ Trouble
  /\ rest' = Download
  /\ UNCHANGED <<server, local, phase, todo, node, cmCalls, mon, manifest, history>>

\* shutdown stops the loops and timers, one turn of the event loop lets local
\* writes that were issued finish, then every store is cleared.  A call that is
\* waiting for the server is not stopped; LDK's state is not looked at any more.
\* The local data will be complete if nothing was on its way to either store and
\* the server's data are still those that were downloaded.
RestoreClear ==
  /\ phase \in {"run", "refused"}
  /\ rest.done
  /\ idbMon' = {} /\ idbCm' = NoCm
  /\ cmWrite' = [w \in Writers |->
                   IF cmWrite[w].pc = "idb" THEN IdleCall ELSE cmWrite[w]]
  /\ mon' = [c \in Channels |-> IF mon[c] = "idb" THEN "none" ELSE mon[c]]
  /\ todo' = rest.mon
  /\ phase' = "cleared"
  /\ chans' = {} /\ dirty' = FALSE /\ retry' = FALSE /\ opening' = {}
  /\ intact' = /\ intact
               /\ listed /\ manQ = 0 /\ \A w \in Writers : cmWrite'[w].pc = "idle"
               /\ rest = Download
  /\ UNCHANGED <<server, cmVer, manifest, rest, scope, listed>>

\* ChannelManager before monitors.
RestoreCm ==
  /\ phase = "cleared"
  /\ idbCm' = IF rest.cm = NoCm THEN idbCm ELSE rest.cm
  /\ phase' = "refill"
  /\ UNCHANGED <<server, idbMon, todo, node, cmCalls, mon, manifest, rest, scope,
                 history>>

RestoreMonitor ==
  /\ phase = "refill"
  /\ IF todo = {}
     THEN phase' = "restored" /\ UNCHANGED <<idbMon, todo>>
     ELSE /\ \E c \in todo : idbMon' = idbMon \cup {c} /\ todo' = todo \ {c}
          /\ UNCHANGED phase
  /\ UNCHANGED <<server, idbCm, node, cmCalls, mon, manifest, rest, scope,
                 history>>

-----------------------------------------------------------------------------

\* The page is closed: memory is gone, requests that were not answered are lost.
CloseTab ==
  /\ phase' = "off"
  /\ ResetMemory
  /\ intact' = (intact /\ phase # "refill")
  /\ listed' = (listed /\ manQ = 0)
  /\ UNCHANGED <<server, local>>

\* The tab dies or is reloaded by the user.
Crash ==
  /\ phase # "off"
  /\ Trouble
  /\ CloseTab

\* The page reloads itself after a restore.
Restart ==
  /\ phase = "restored"
  /\ UNCHANGED scope
  /\ CloseTab

Next ==
  \/ Start \/ RecoverManifest \/ RecoverMonitor \/ RecoverCm \/ RecoverPeers
  \/ RecoveryFails \/ UndoMonitors \/ UndoCm \/ Seed \/ Load
  \/ \E c \in Channels : OpenChannel(c) \/ MonitorToVss(c) \/ MonitorToIdb(c)
  \/ ManifestStart \/ ManifestPut \/ ManifestGet \/ ManifestFails
  \/ SyncPersist \/ HiddenPersist
  \/ \E w \in Drains : DrainPersist(w)
  \/ \E w \in Writers : CmPut(w) \/ CmGet(w) \/ CmIdb(w) \/ CmFails(w)
  \/ RestoreFetch \/ RestoreClear \/ RestoreCm \/ RestoreMonitor
  \/ Crash \/ Restart

Spec == Init /\ [][Next]_vars

-----------------------------------------------------------------------------
(* Properties.                                                             *)

Phases == {"off", "manifest", "monitors", "peers", "undo", "undoCm", "seed", "load",
           "run", "refused", "cleared", "refill", "restored"}
Call == [pc : {"idle", "put", "get", "retry", "idb"}, ver : Nat,
         set : SUBSET Channels]

TypeOK ==
  /\ srvMon \subseteq Channels /\ srvMan \in Object /\ srvCm \in Object
  /\ idbMon \subseteq Channels
  /\ idbCm \subseteq SUBSET Channels
  /\ \A s, t \in idbCm : s = t
  /\ phase \in Phases
  /\ todo \subseteq Channels
  /\ chans \subseteq Channels /\ opening \subseteq Channels
  /\ dirty \in BOOLEAN /\ retry \in BOOLEAN
  /\ cmVer \in Nat /\ cmWrite \in [Writers -> Call]
  /\ mon \in [Channels -> {"none", "vss", "idb"}]
  /\ keys \subseteq Channels /\ manVer \in Nat /\ manQ \in Nat
  /\ manPc \in {"idle", "put", "get", "retry"} /\ manReq \in Object
  /\ manPc # "idle" => manQ > 0
  /\ rest.done \in BOOLEAN /\ rest.cm \subseteq SUBSET Channels /\ rest.mon \subseteq Channels
  /\ scope \in [channels : SUBSET Channels, troubles : Nat]
  /\ intact \in BOOLEAN /\ listed \in BOOLEAN

\* The ChannelManager on the server names only channels whose monitor is on the
\* server too: whichever caller wrote it, however long its bytes waited, and after
\* any crash, recovery or restore (persist.ts withholds channel_monitor_updated
\* until both copies of the monitor are written).
ServerReadable == srvCm.set \subseteq srvMon

\* Whenever the tab dies, LDK can read the stored ChannelManager with the stored
\* monitors, also after a recovery or a restore of data that were complete.
LocalReadable ==
  intact /\ phase # "refill" => Readable(idbCm, idbMon)

\* With no manifest write pending, the manifest lists every channel of the
\* ChannelManager on the server: the server alone suffices to recover.  A write that
\* was given up is an exception only until the next one; what died with a tab is
\* made good by the start after it (persist.ts 278-279).
ServerComplete ==
  intact /\ listed /\ manQ = 0 => srvCm.set \subseteq srvMan.set

\* "Merge server keys so we never drop a monitor tracked by another device"
\* (persist.ts 104): a listed channel of the ChannelManager on the server stays
\* listed.
ManifestNeverDrops == [][srvMan.set \cap srvCm.set \subseteq srvMan'.set]_vars

\* What the Recover Wallet page leaves for the next start is what it downloaded:
\* the calls of the node it stopped do not land on it (Restore.tsx 118-128).
RestoredIntact ==
  phase = "restored" => idbCm = rest.cm /\ idbMon = rest.mon
=============================================================================
