------------------------- MODULE WalletBackupProofs -------------------------
(***************************************************************************)
(* Proofs about WalletBackup: its types, that the ChannelManager on the    *)
(* server and the one in IndexedDB can always be read, and that the        *)
(* server's data are complete when no manifest write is pending.           *)
(***************************************************************************)
EXTENDS WalletBackup, FiniteSetTheorems, TLAPS

USE DEF server, local, node, cmCalls, manifest, history, vars

-----------------------------------------------------------------------------
(* Types.                                                                  *)

Booting == {"off", "manifest", "monitors", "peers", "undo", "undoCm", "seed"}

\* No manifest write is pending before the node's data are read.
BootQuiet == phase \in Booting => manQ = 0 /\ manPc = "idle"

\* A restore downloads at most one ChannelManager.
OneFetched == \A s, t \in rest.cm : s = t

LEMMA CallTyped ==
  ASSUME NEW e \in Call, NEW p \in {"idle", "put", "get", "retry", "idb"}, NEW v \in Nat
  PROVE  /\ [e EXCEPT !.pc = p] \in Call /\ [e EXCEPT !.pc = p].set = e.set
         /\ [e EXCEPT !.pc = p].pc = p /\ [e EXCEPT !.pc = p].ver = e.ver
         /\ [e EXCEPT !.ver = v] \in Call /\ [e EXCEPT !.ver = v].set = e.set
         /\ [e EXCEPT !.ver = v].pc = e.pc /\ [e EXCEPT !.ver = v].ver = v
         /\ [e EXCEPT !.pc = p, !.ver = v] \in Call
         /\ [e EXCEPT !.pc = p, !.ver = v].set = e.set
         /\ [e EXCEPT !.pc = p, !.ver = v].pc = p
  BY DEF Call

LEMMA Constants ==
  /\ IdleCall \in Call /\ IdleCall.set = {} /\ IdleCall.pc = "idle"
  /\ Absent \in Object /\ Absent.set = {} /\ Absent.ver = 0
  /\ NothingFetched.done = FALSE /\ NothingFetched.cm = {} /\ NothingFetched.mon = {}
  BY DEF IdleCall, Absent, NothingFetched, NoCm, Call, Object

\* What a step of a persistChannelManager call does to the calls.
LEMMA CallsTyped ==
  ASSUME cmWrite \in [Writers -> Call], NEW w \in Writers, NEW e \in Call
  PROVE  /\ [cmWrite EXCEPT ![w] = e] \in [Writers -> Call]
         /\ [cmWrite EXCEPT ![w] = e][w] = e
         /\ \A v \in Writers : v # w => [cmWrite EXCEPT ![w] = e][v] = cmWrite[v]
  OBVIOUS

LEMMA InitTyped == Init => TypeOK
<1> SUFFICES ASSUME Init PROVE TypeOK
  OBVIOUS
<1>1. srvMan \in Object /\ srvCm \in Object /\ manReq \in Object
  BY Constants DEF Init
<1>2. cmWrite \in [Writers -> Call]
  BY Constants DEF Init
<1>3. rest.done \in BOOLEAN /\ rest.cm \subseteq SUBSET Channels /\ rest.mon \subseteq Channels
  BY Constants DEF Init
<1>4. mon \in [Channels -> {"none", "vss", "idb"}]
  BY DEF Init
<1>5. scope \in [channels : SUBSET Channels, troubles : Nat]
  BY BackupAssumption DEF Init
<1> QED
  BY <1>1, <1>2, <1>3, <1>4, <1>5 DEF Init, TypeOK, NoCm, Phases

\* A failure costs one of the troubles that are left.
LEMMA TroubleTyped ==
  ASSUME TypeOK, Trouble
  PROVE  scope' \in [channels : SUBSET Channels, troubles : Nat]
  BY DEF TypeOK, Trouble

\* The loaded monitors are finitely many; each asks for a manifest.
LEMMA LoadedCount ==
  ASSUME TypeOK
  PROVE  Cardinality(idbMon) \in Nat /\ (Cardinality(idbMon) = 0 => idbMon = {})
<1>1. IsFiniteSet(idbMon)
  BY BackupAssumption, FS_Subset DEF TypeOK
<1> QED
  BY <1>1, FS_CardinalityType, FS_EmptySet

LEMMA LoadAsks ==
  ASSUME TypeOK, Load
  PROVE  /\ manQ' \in Nat /\ manQ' >= manQ
         /\ UNCHANGED <<manPc, manReq, manVer>>
         /\ manQ' # manQ \/ keys' = keys \/ idbMon = {}
<1> DEFINE n == Cardinality(idbMon)
<1>1. n \in Nat /\ (n = 0 => idbMon = {})
  BY LoadedCount
<1>2. UNCHANGED <<manPc, manReq, manVer>>
  BY DEF Load
<1>3. \/ manQ' = manQ + n
      \/ manQ' = manQ /\ keys' = keys
  BY DEF Load
<1> HIDE DEF n
<1> QED
  BY <1>1, <1>2, <1>3 DEF TypeOK

LEMMA StartTyped ==
  ASSUME TypeOK, BootQuiet, Start \/ RecoverManifest \/ RecoverMonitor \/ RecoverCm
                 \/ RecoverPeers \/ RecoveryFails \/ UndoMonitors \/ UndoCm \/ Seed \/ Load
  PROVE  TypeOK'
<1>1. CASE Start
  BY <1>1 DEF Start, TypeOK, Phases
<1>2. CASE RecoverManifest
  BY <1>2 DEF RecoverManifest, TypeOK, Phases, Object
<1>3. CASE RecoverMonitor
  BY <1>3 DEF RecoverMonitor, TypeOK
<1>4. CASE RecoverCm
  BY <1>4 DEF RecoverCm, TypeOK, Phases, Object
<1>5. CASE RecoverPeers
  BY <1>5 DEF RecoverPeers, TypeOK, Phases, Object
<1>6. CASE RecoveryFails
  BY <1>6, TroubleTyped DEF RecoveryFails, TypeOK, Phases
<1>7. CASE Seed
  <2>1. manPc' = "idle" /\ manQ' \in Nat /\ cmVer' \in Nat /\ manVer' \in Nat
    BY <1>7 DEF Seed, TypeOK, Object, BootQuiet, Booting
  <2> QED
    BY <1>7, <2>1, TroubleTyped DEF Seed, TypeOK, Phases
<1>8. CASE Load
  <2>1. manQ' \in Nat /\ (manPc' # "idle" => manQ' > 0)
    BY <1>8, LoadAsks DEF TypeOK, Load
  <2>2. mon' \in [Channels -> {"none", "vss", "idb"}]
    BY <1>8 DEF Load, TypeOK
  <2>3. /\ idbCm' \subseteq SUBSET Channels /\ (\A s, t \in idbCm' : s = t)
        /\ chans' \subseteq Channels /\ keys' \subseteq Channels
        /\ phase' \in Phases
    BY <1>8 DEF Load, TypeOK, Phases, NoCm
  <2>4. dirty' \in BOOLEAN /\ listed' \in BOOLEAN
    BY <1>8 DEF Load, TypeOK
  <2> QED
    BY <1>8, <2>1, <2>2, <2>3, <2>4 DEF Load, TypeOK
<1>9. CASE UndoMonitors \/ UndoCm
  BY <1>9, TroubleTyped DEF UndoMonitors, UndoCm, TypeOK, Phases, NoCm
<1> QED
  BY <1>1, <1>2, <1>3, <1>4, <1>5, <1>6, <1>7, <1>8, <1>9

LEMMA ChannelTyped ==
  ASSUME TypeOK, NEW c \in Channels, OpenChannel(c) \/ MonitorToVss(c) \/ MonitorToIdb(c)
  PROVE  TypeOK'
<1>1. CASE OpenChannel(c)
  BY <1>1 DEF OpenChannel, TypeOK
<1>2. CASE MonitorToVss(c)
  BY <1>2 DEF MonitorToVss, TypeOK
<1>3. CASE MonitorToIdb(c)
  BY <1>3 DEF MonitorToIdb, TypeOK
<1> QED
  BY <1>1, <1>2, <1>3

LEMMA ManifestTyped ==
  ASSUME TypeOK, ManifestStart \/ ManifestPut \/ ManifestGet \/ ManifestFails
  PROVE  TypeOK'
<1>1. CASE ManifestStart
  <2>1. manReq' \in Object
    BY <1>1 DEF ManifestStart, TypeOK, Object
  <2> QED
    BY <1>1, <2>1 DEF ManifestStart, TypeOK
<1>2. CASE ManifestPut
  <2>1. manReq' \in Object /\ srvMan' \in Object
    BY <1>2, Constants DEF ManifestPut, ManifestDone, TypeOK, Object
  <2>2. manVer' \in Nat /\ manQ' \in Nat
    BY <1>2 DEF ManifestPut, ManifestDone, TypeOK, Object
  <2> QED
    BY <1>2, <2>1, <2>2 DEF ManifestPut, ManifestDone, TypeOK
<1>3. CASE ManifestGet
  <2>1. manReq' \in Object
    BY <1>3 DEF ManifestGet, TypeOK, Object
  <2> QED
    BY <1>3, <2>1 DEF ManifestGet, TypeOK, Object
<1>4. CASE ManifestFails
  <2>1. manReq' \in Object /\ srvMan' \in Object
    BY <1>4, Constants DEF ManifestFails, ManifestDone, TypeOK, Object
  <2>2. manQ' \in Nat
    BY <1>4 DEF ManifestFails, ManifestDone, TypeOK
  <2>3. scope' \in [channels : SUBSET Channels, troubles : Nat]
    BY <1>4, TroubleTyped DEF ManifestFails
  <2> QED
    BY <1>4, <2>1, <2>2, <2>3 DEF ManifestFails, ManifestDone, TypeOK
<1> QED
  BY <1>1, <1>2, <1>3, <1>4

LEMMA PersistTyped ==
  ASSUME TypeOK, NEW w \in Writers, (SyncPersist /\ w = "sync") \/ DrainPersist(w)
  PROVE  TypeOK'
<1>1. CallCm(w) /\ dirty' \in BOOLEAN /\ retry' \in BOOLEAN
  BY DEF SyncPersist, DrainPersist, TypeOK
<1>2. cmWrite' \in [Writers -> Call]
  <2> DEFINE e == [pc |-> "put", ver |-> cmVer, set |-> chans]
  <2>1. e \in Call
    BY DEF TypeOK, Call
  <2>2. cmWrite' = [cmWrite EXCEPT ![w] = e]
    BY <1>1 DEF CallCm
  <2> QED
    BY <2>1, <2>2, CallsTyped DEF TypeOK
<1> QED
  BY <1>1, <1>2 DEF CallCm, TypeOK

LEMMA CallTypes ==
  ASSUME TypeOK, NEW w \in Writers, CmPut(w) \/ CmGet(w) \/ CmIdb(w) \/ CmFails(w)
  PROVE  TypeOK'
<1> DEFINE e == cmWrite[w]
<1>0. e \in Call /\ e.ver \in Nat /\ e.set \in SUBSET Channels
  BY DEF TypeOK, Call
<1>a. srvCm.ver \in Nat
  BY DEF TypeOK, Object
<1>b. [ver |-> srvCm.ver + 1, set |-> e.set] \in Object
  BY <1>0, <1>a DEF Object
<1>1. CASE CmPut(w)
  <2>1. cmWrite' \in [Writers -> Call]
    <3>1. \/ cmWrite' = [cmWrite EXCEPT ![w] = [e EXCEPT !.pc = "idb"]]
          \/ cmWrite' = [cmWrite EXCEPT ![w] = [e EXCEPT !.pc = "get"]]
          \/ cmWrite' = [cmWrite EXCEPT ![w] = IdleCall]
      BY <1>1 DEF CmPut, GiveUp
    <3>2. [e EXCEPT !.pc = "idb"] \in Call /\ [e EXCEPT !.pc = "get"] \in Call
      BY <1>0 DEF Call
    <3> HIDE DEF e
    <3>3. PICK x \in Call : cmWrite' = [cmWrite EXCEPT ![w] = x]
      BY <3>1, <3>2, Constants
    <3> QED
      BY <3>3, CallsTyped DEF TypeOK
  <2>2. srvCm' \in Object /\ cmVer' \in Nat
    BY <1>1, <1>a, <1>b DEF CmPut, TypeOK
  <2>3. retry' \in BOOLEAN
    BY <1>1 DEF CmPut, GiveUp, TypeOK
  <2> QED
    BY <1>1, <2>1, <2>2, <2>3 DEF CmPut, TypeOK
<1>2. CASE CmGet(w)
  <2>1. cmWrite' = [cmWrite EXCEPT ![w] = [e EXCEPT !.pc = "retry", !.ver = srvCm.ver]]
    BY <1>2 DEF CmGet
  <2>2. cmWrite' \in [Writers -> Call]
    BY <2>1, <1>0, <1>a, CallTyped, CallsTyped DEF TypeOK
  <2> QED
    BY <1>2, <1>a, <2>2 DEF CmGet, TypeOK
<1>3. CASE CmIdb(w)
  <2>1. cmWrite' \in [Writers -> Call]
    BY <1>3, CallsTyped, Constants DEF CmIdb, TypeOK
  <2>2. idbCm' \subseteq SUBSET Channels /\ \A s, t \in idbCm' : s = t
    BY <1>3, <1>0 DEF CmIdb
  <2> QED
    BY <1>3, <2>1, <2>2 DEF CmIdb, TypeOK
<1>4. CASE CmFails(w)
  <2>1. cmWrite' \in [Writers -> Call] /\ retry' \in BOOLEAN
    BY <1>4, CallsTyped, Constants DEF CmFails, GiveUp, TypeOK
  <2>2. srvCm' \in Object
    BY <1>4, <1>b DEF CmFails, TypeOK
  <2>3. scope' \in [channels : SUBSET Channels, troubles : Nat]
    BY <1>4, TroubleTyped DEF CmFails
  <2> QED
    BY <1>4, <2>1, <2>2, <2>3 DEF CmFails, TypeOK
<1> QED
  BY <1>1, <1>2, <1>3, <1>4

LEMMA RestoreTyped ==
  ASSUME TypeOK, OneFetched, HiddenPersist \/ RestoreFetch \/ RestoreClear \/ RestoreCm \/ RestoreMonitor
  PROVE  TypeOK'
<1>1. CASE HiddenPersist
  BY <1>1 DEF HiddenPersist, TypeOK
<1>2. CASE RestoreFetch
  <2>1. rest'.done \in BOOLEAN /\ rest'.cm \subseteq SUBSET Channels /\ rest'.mon \subseteq Channels
    BY <1>2 DEF RestoreFetch, Download, TypeOK, Object, NoCm
  <2> QED
    BY <1>2, <2>1, TroubleTyped DEF RestoreFetch, TypeOK
<1>3. CASE RestoreClear
  <2>1. cmWrite' \in [Writers -> Call]
    BY <1>3, Constants DEF RestoreClear, TypeOK
  <2>2. mon' \in [Channels -> {"none", "vss", "idb"}]
    BY <1>3 DEF RestoreClear, TypeOK
  <2>3. intact' \in BOOLEAN
    BY <1>3 DEF RestoreClear
  <2> QED
    BY <1>3, <2>1, <2>2, <2>3 DEF RestoreClear, TypeOK, Phases, NoCm
<1>4. CASE RestoreCm
  <2>1. idbCm' \subseteq SUBSET Channels /\ \A s, t \in idbCm' : s = t
    BY <1>4 DEF RestoreCm, TypeOK, OneFetched
  <2> QED
    BY <1>4, <2>1 DEF RestoreCm, TypeOK, Phases
<1>5. CASE RestoreMonitor
  BY <1>5 DEF RestoreMonitor, TypeOK, Phases
<1> QED
  BY <1>1, <1>2, <1>3, <1>4, <1>5

LEMMA CloseTyped ==
  ASSUME TypeOK, Crash \/ Restart
  PROVE  TypeOK'
<1>1. CloseTab /\ scope' \in [channels : SUBSET Channels, troubles : Nat]
  BY TroubleTyped DEF Crash, Restart, TypeOK
<1>2. cmWrite' \in [Writers -> Call] /\ manReq' \in Object
  BY <1>1, Constants DEF CloseTab, ResetMemory
<1>3. rest'.done \in BOOLEAN /\ rest'.cm \subseteq SUBSET Channels /\ rest'.mon \subseteq Channels
  BY <1>1, Constants DEF CloseTab, ResetMemory
<1>4. mon' \in [Channels -> {"none", "vss", "idb"}]
  BY <1>1 DEF CloseTab, ResetMemory
<1>5. intact' \in BOOLEAN /\ listed' \in BOOLEAN
  BY <1>1 DEF CloseTab
<1> QED
  BY <1>1, <1>2, <1>3, <1>4, <1>5 DEF CloseTab, ResetMemory, TypeOK, Phases

TInv == TypeOK /\ BootQuiet /\ OneFetched

LEMMA TypesKept == TInv /\ Next => TypeOK'
<1> SUFFICES ASSUME TypeOK, BootQuiet, OneFetched, Next
             PROVE  TypeOK'
  BY DEF TInv
<1>1. ASSUME NEW w \in Drains, DrainPersist(w)
      PROVE  TypeOK'
  <2>1. w \in Writers
    BY DEF Writers
  <2> QED
    BY <1>1, <2>1, PersistTyped
<1>2. CASE SyncPersist
  <2>1. "sync" \in Writers
    BY DEF Writers
  <2> QED
    BY <1>2, <2>1, PersistTyped
<1> QED
  BY <1>1, <1>2, StartTyped, ChannelTyped, ManifestTyped, CallTypes, RestoreTyped,
     CloseTyped DEF Next

LEMMA BootQuietKept == TypeOK /\ BootQuiet /\ Next => BootQuiet'
<1> SUFFICES ASSUME TypeOK, BootQuiet, Next, phase' \in Booting
             PROVE  manQ' = 0 /\ manPc' = "idle"
  BY DEF BootQuiet
<1>1. CASE Start \/ RecoverManifest \/ RecoverMonitor \/ RecoverCm \/ RecoverPeers
             \/ RecoveryFails \/ UndoMonitors \/ UndoCm
  BY <1>1 DEF Start, RecoverManifest, RecoverMonitor, RecoverCm, RecoverPeers,
              RecoveryFails, UndoMonitors, UndoCm, BootQuiet, Booting
<1>2. CASE Seed \/ Load
  BY <1>2 DEF Seed, Load, Booting
<1>3. CASE Crash \/ Restart
  BY <1>3 DEF Crash, Restart, CloseTab, ResetMemory
<1>4. CASE \E c \in Channels : OpenChannel(c) \/ MonitorToVss(c) \/ MonitorToIdb(c)
  BY <1>4 DEF OpenChannel, MonitorToVss, MonitorToIdb, BootQuiet, Booting
<1>5. CASE ManifestStart \/ ManifestPut \/ ManifestGet \/ ManifestFails
  BY <1>5 DEF ManifestStart, ManifestPut, ManifestGet, ManifestFails, BootQuiet
<1>6. CASE SyncPersist \/ HiddenPersist \/ \E w \in Drains : DrainPersist(w)
  BY <1>6 DEF SyncPersist, HiddenPersist, DrainPersist, CallCm, Booting
<1>7. CASE \E w \in Writers : CmPut(w) \/ CmGet(w) \/ CmIdb(w) \/ CmFails(w)
  BY <1>7 DEF CmPut, CmGet, CmIdb, CmFails, BootQuiet
<1>8. CASE RestoreFetch \/ RestoreClear \/ RestoreCm \/ RestoreMonitor
  BY <1>8 DEF RestoreFetch, RestoreClear, RestoreCm, RestoreMonitor, Booting
<1> QED
  BY <1>1, <1>2, <1>3, <1>4, <1>5, <1>6, <1>7, <1>8 DEF Next

LEMMA RestChanges == Next => UNCHANGED rest \/ rest' = Download \/ rest' = NothingFetched
  BY DEF Next, Start, RecoverManifest, RecoverMonitor, RecoverCm, RecoverPeers,
         RecoveryFails, UndoMonitors, UndoCm, Seed, Load, OpenChannel, MonitorToVss,
         MonitorToIdb, ManifestStart,
         ManifestPut, ManifestGet, ManifestFails, SyncPersist, DrainPersist, CallCm,
         HiddenPersist, CmPut, CmGet, CmIdb, CmFails, RestoreFetch, RestoreClear, RestoreCm,
         RestoreMonitor, Crash, Restart, CloseTab, ResetMemory

LEMMA OneFetchedKept == OneFetched /\ Next => OneFetched'
<1> SUFFICES ASSUME OneFetched, Next PROVE OneFetched'
  OBVIOUS
<1>1. \/ UNCHANGED rest \/ rest' = Download \/ rest' = NothingFetched
  BY RestChanges
<1>2. CASE UNCHANGED rest
  BY <1>2 DEF OneFetched
<1>3. CASE rest' = Download
  BY <1>3 DEF OneFetched, Download, NoCm
<1>4. CASE rest' = NothingFetched
  BY <1>4, Constants DEF OneFetched
<1> QED
  BY <1>1, <1>2, <1>3, <1>4

LEMMA InitTInv == Init => TInv
<1>1. Init => BootQuiet /\ OneFetched
  BY Constants DEF Init, BootQuiet, OneFetched, Booting
<1> QED
  BY <1>1, InitTyped DEF TInv

LEMMA TInvKept == TInv /\ [Next]_vars => TInv'
<1>1. CASE Next
  BY <1>1, TypesKept, BootQuietKept, OneFetchedKept DEF TInv
<1>2. CASE UNCHANGED vars
  BY <1>2 DEF TInv, TypeOK, BootQuiet, OneFetched
<1> QED
  BY <1>1, <1>2

\* The variables keep their types and bounds: among them, IndexedDB holds at most
\* one ChannelManager, and a manifest write that runs is one that was asked for.
THEOREM TypeCorrect == Spec => []TypeOK
<1>1. TInv => TypeOK
  BY DEF TInv
<1> QED
  BY <1>1, InitTInv, TInvKept, PTL DEF Spec

-----------------------------------------------------------------------------
(* The ChannelManager on the server.  Every ChannelManager there is, in    *)
(* memory, on its way or stored, names only channels whose monitor is on   *)
(* the server: monitors are never deleted there, and a channel is named    *)
(* once its monitor is on both sides.                                      *)

\* The channels named by the ChannelManager on the server, by the running one, by
\* the ones on their way and by the local one are in S.
Named(S, onServer, running, calls, onDisk) ==
  /\ onServer.set \subseteq S /\ running \subseteq S
  /\ \A w \in Writers : calls[w].set \subseteq S
  /\ \A s \in onDisk : s \subseteq S

OnServer ==
  /\ Named(srvMon, srvCm, chans, cmWrite, idbCm)
  /\ \A s \in rest.cm : s \subseteq srvMon
  /\ \A c \in Channels : mon[c] = "idb" => c \in srvMon

LEMMA NamedGrows ==
  ASSUME NEW S, NEW T, S \subseteq T, NEW a, NEW b, NEW e, NEW d, Named(S, a, b, e, d)
  PROVE  Named(T, a, b, e, d)
  BY DEF Named

\* The steps that name a channel anew: the end of a channel's first persist, and a
\* restore, which brings back what it downloaded.
NewName == (\E c \in Channels : MonitorToIdb(c)) \/ RestoreCm

\* No other step does.
LEMMA NothingNew ==
  ASSUME TypeOK, Next, ~NewName, NEW S, Named(S, srvCm, chans, cmWrite, idbCm)
  PROVE  Named(S, srvCm', chans', cmWrite', idbCm')
<1> DEFINE N == Named(S, srvCm, chans, cmWrite, idbCm)
           Goal == Named(S, srvCm', chans', cmWrite', idbCm')
<1>0. Absent.set = {} /\ IdleCall.set = {}
  BY Constants
<1>1. CASE Start \/ RecoverManifest \/ RecoverMonitor \/ RecoverPeers \/ RecoveryFails \/ Seed
  BY <1>1 DEF Start, RecoverManifest, RecoverMonitor, RecoverPeers, RecoveryFails, Seed,
              Named
<1>2. CASE RecoverCm \/ UndoMonitors \/ UndoCm \/ Load
  BY <1>2 DEF RecoverCm, UndoMonitors, UndoCm, Load, Named, NoCm
<1>3. CASE \E c \in Channels : OpenChannel(c) \/ MonitorToVss(c)
  BY <1>3 DEF OpenChannel, MonitorToVss, Named
<1>4. CASE ManifestStart \/ ManifestPut \/ ManifestGet \/ ManifestFails
  BY <1>4 DEF ManifestStart, ManifestPut, ManifestGet, ManifestFails, Named
<1>5. ASSUME NEW w \in Writers, CallCm(w)
      PROVE  Goal
  <2>1. cmWrite' = [cmWrite EXCEPT ![w] = [pc |-> "put", ver |-> cmVer, set |-> chans]]
    BY <1>5 DEF CallCm
  <2>2. \A v \in Writers : cmWrite'[v].set \subseteq S
    BY <2>1 DEF Named, TypeOK
  <2> QED
    BY <1>5, <2>2 DEF CallCm, Named
<1>6. CASE HiddenPersist
  BY <1>6 DEF HiddenPersist, Named
<1>7. ASSUME NEW w \in Writers, CmPut(w) \/ CmGet(w) \/ CmIdb(w) \/ CmFails(w)
      PROVE  Goal
  <2>1. cmWrite[w] \in Call /\ cmWrite[w].set \subseteq S
    BY DEF TypeOK, Named
  <2>2. \A v \in Writers : cmWrite'[v].set \subseteq S
    BY <1>0, <1>7, <2>1 DEF CmPut, CmGet, CmIdb, CmFails, GiveUp, Named, TypeOK, Call
  <2>3. srvCm' = srvCm \/ srvCm'.set = cmWrite[w].set
    BY <1>7 DEF CmPut, CmGet, CmIdb, CmFails
  <2>4. chans' = chans /\ (idbCm' = idbCm \/ idbCm' = {cmWrite[w].set})
    BY <1>7 DEF CmPut, CmGet, CmIdb, CmFails
  <2> QED
    BY <2>1, <2>2, <2>3, <2>4 DEF Named
<1>8. CASE RestoreFetch \/ RestoreMonitor
  BY <1>8 DEF RestoreFetch, RestoreMonitor, Named
<1>9. CASE RestoreClear
  BY <1>0, <1>9 DEF RestoreClear, Named, NoCm
<1>10. CASE Crash \/ Restart
  BY <1>0, <1>10 DEF Crash, Restart, CloseTab, ResetMemory, Named
<1>11. SyncPersist => CallCm("sync") /\ "sync" \in Writers
  BY DEF SyncPersist, Writers
<1>12. \A w \in Drains : DrainPersist(w) => CallCm(w) /\ w \in Writers
  BY DEF DrainPersist, Writers
<1> HIDE DEF N, Goal
<1>13. Goal
  BY <1>1, <1>2, <1>3, <1>4, <1>5, <1>6, <1>7, <1>8, <1>9, <1>10, <1>11, <1>12
     DEF Next, NewName, Goal
<1> QED
  BY <1>13 DEF Goal

LEMMA ServerMonitorsStay == Next => srvMon \subseteq srvMon'
  BY DEF Next, Start, RecoverManifest, RecoverMonitor, RecoverCm, RecoverPeers,
         RecoveryFails, UndoMonitors, UndoCm, Seed, Load, OpenChannel, MonitorToVss,
         MonitorToIdb, ManifestStart,
         ManifestPut, ManifestGet, ManifestFails, SyncPersist, DrainPersist, CallCm,
         HiddenPersist, CmPut, CmGet, CmIdb, CmFails, RestoreFetch, RestoreClear, RestoreCm,
         RestoreMonitor, Crash, Restart, CloseTab

\* A monitor whose local write is next is on the server.
LEMMA LocalWriteAfterServer ==
  ASSUME TypeOK, Next, \A c \in Channels : mon[c] = "idb" => c \in srvMon,
         NEW x \in Channels, mon'[x] = "idb"
  PROVE  x \in srvMon'
<1>1. ASSUME NEW c \in Channels, OpenChannel(c) \/ MonitorToVss(c) \/ MonitorToIdb(c)
      PROVE  x \in srvMon'
  BY <1>1 DEF OpenChannel, MonitorToVss, MonitorToIdb, TypeOK
<1>2. CASE Load
  BY <1>2 DEF Load
<1>3. CASE RestoreClear
  BY <1>3 DEF RestoreClear
<1>4. CASE Crash \/ Restart
  BY <1>4 DEF Crash, Restart, CloseTab, ResetMemory
<1>5. CASE UNCHANGED mon
  BY <1>5, ServerMonitorsStay
<1>6. \/ \E c \in Channels : OpenChannel(c) \/ MonitorToVss(c) \/ MonitorToIdb(c)
      \/ Load \/ RestoreClear \/ Crash \/ Restart
      \/ UNCHANGED mon
  BY DEF Next, Start, RecoverManifest, RecoverMonitor, RecoverCm, RecoverPeers,
         RecoveryFails, UndoMonitors, UndoCm, Seed, ManifestStart,
         ManifestPut, ManifestGet, ManifestFails, SyncPersist, DrainPersist, CallCm,
         HiddenPersist, CmPut, CmGet, CmIdb, CmFails, RestoreFetch, RestoreCm,
         RestoreMonitor
<1> QED
  BY <1>1, <1>2, <1>3, <1>4, <1>5, <1>6

LEMMA OnServerKept == TypeOK /\ OnServer /\ Next => OnServer'
<1> SUFFICES ASSUME TypeOK, OnServer, Next PROVE OnServer'
  OBVIOUS
<1>1. srvMon \subseteq srvMon'
  BY ServerMonitorsStay
<1>2. Named(srvMon', srvCm', chans', cmWrite', idbCm')
  <2>1. CASE ~NewName
    BY <1>1, <2>1, NothingNew, NamedGrows DEF OnServer
  <2>2. ASSUME NEW c \in Channels, MonitorToIdb(c)
        PROVE  Named(srvMon', srvCm', chans', cmWrite', idbCm')
    BY <2>2 DEF MonitorToIdb, OnServer, Named
  <2>3. CASE RestoreCm
    BY <2>3 DEF RestoreCm, OnServer, Named
  <2> QED
    BY <2>1, <2>2, <2>3 DEF NewName
<1>3. \A s \in rest'.cm : s \subseteq srvMon'
  <2>1. \/ UNCHANGED rest \/ rest' = Download \/ rest' = NothingFetched
    BY RestChanges
  <2>2. CASE rest' = Download
    BY <1>1, <2>2 DEF Download, OnServer, Named, NoCm
  <2> QED
    BY <1>1, <2>1, <2>2, Constants DEF OnServer
<1>4. \A c \in Channels : mon'[c] = "idb" => c \in srvMon'
  BY LocalWriteAfterServer DEF OnServer
<1> QED
  BY <1>2, <1>3, <1>4 DEF OnServer

LEMMA InitOnServer == Init => OnServer
<1> SUFFICES ASSUME Init PROVE OnServer
  OBVIOUS
<1>1. srvCm.set = {} /\ rest.cm = {} /\ \A w \in Writers : cmWrite[w].set = {}
  BY Constants DEF Init
<1> QED
  BY <1>1 DEF Init, OnServer, Named, NoCm

\* The ChannelManager on the server names only channels whose monitor is on the
\* server too: an established channel survives the loss of the device, whatever
\* calls of persistChannelManager overlapped and wherever the tab died.
THEOREM ServerAlwaysReadable == Spec => []ServerReadable
<1>1. TypeOK /\ OnServer /\ [Next]_vars => OnServer'
  <2>1. CASE UNCHANGED vars
    BY <2>1 DEF OnServer, Named
  <2> QED
    BY <2>1, OnServerKept
<1>2. OnServer => ServerReadable
  BY DEF OnServer, Named, ServerReadable
<1> QED
  BY <1>1, <1>2, InitOnServer, TypeCorrect, PTL DEF Spec

-----------------------------------------------------------------------------
(* The local data and the manifest.  While nothing has happened that can   *)
(* leave them incomplete (intact), what the ChannelManagers name is in     *)
(* IndexedDB and in the manifest; what each of these may lack depends on   *)
(* where the tab stands.                                                   *)

Restoring == {"cleared", "refill", "restored"}
CallsIdle == \A w \in Writers : cmWrite[w].pc = "idle"

\* No object on the server is an empty one.
ObjectsEmpty == (srvMan.ver = 0 => srvMan.set = {}) /\ (srvCm.ver = 0 => srvCm.set = {})

\* Calls of persistChannelManager are made by a running node only.
CallsEmpty == \A w \in Writers : cmWrite[w].pc = "idle" => cmWrite[w].set = {}
CallsBoot == phase \in Booting \cup {"load", "refused"} => CallsIdle
CallsRestore == intact /\ phase \in Restoring => CallsIdle /\ manQ = 0 /\ listed
MonitorsBoot ==
  phase \in Booting \cup {"load", "refused"} => \A c \in Channels : mon[c] = "none"
NodeStopped == phase # "run" => chans = {} /\ opening = {}

\* Where IndexedDB has no ChannelManager, and where it has something.
SeedHasData == phase = "seed" => idbMon # {} \/ idbCm # NoCm
RecoveryStartsEmpty ==
  /\ phase \in {"manifest", "monitors"} => idbCm = NoCm
  /\ phase = "manifest" => idbMon = {}
RecoveredCm == phase = "peers" => idbCm = {srvCm.set}
ClearedIsEmpty == intact /\ phase = "cleared" => idbCm = NoCm

\* The last manifest asked for is sent with all the keys.
LastWriteHasKeys == manPc \in {"put", "retry"} /\ manQ = 1 => manReq.set = keys

\* Before the node runs there is no other manifest write than that of the seeding.
OneBackfill == phase \in {"load", "refused"} => manQ <= 1

Standing ==
  /\ ObjectsEmpty
  /\ CallsEmpty /\ CallsBoot /\ CallsRestore /\ MonitorsBoot /\ NodeStopped
  /\ SeedHasData /\ RecoveryStartsEmpty /\ RecoveredCm /\ ClearedIsEmpty
  /\ LastWriteHasKeys /\ OneBackfill

LEMMA StandingBoot ==
  ASSUME TInv, Standing, Start \/ RecoverManifest \/ RecoverMonitor \/ RecoverCm
                 \/ RecoverPeers \/ RecoveryFails \/ UndoMonitors \/ UndoCm \/ Seed \/ Load
  PROVE  Standing'
<1> USE DEF Standing, ObjectsEmpty, CallsEmpty, CallsBoot, CallsRestore, MonitorsBoot,
            NodeStopped, SeedHasData, RecoveryStartsEmpty, RecoveredCm, ClearedIsEmpty,
            LastWriteHasKeys, OneBackfill, TInv, Booting, Restoring, CallsIdle,
            BootQuiet
<1>1. CASE Start
  BY <1>1 DEF Start
<1>2. CASE RecoverManifest
  BY <1>2 DEF RecoverManifest
<1>3. CASE RecoverMonitor
  BY <1>3 DEF RecoverMonitor
<1>4. CASE RecoverCm
  BY <1>4 DEF RecoverCm
<1>5. CASE RecoverPeers
  BY <1>5 DEF RecoverPeers
<1>6. CASE RecoveryFails
  BY <1>6 DEF RecoveryFails
<1>7. CASE Seed
  BY <1>7 DEF Seed
<1>8. CASE Load
  <2>1. UNCHANGED <<cmWrite, opening, srvMan, srvCm, intact>> /\ phase = "load"
    BY <1>8 DEF Load
  <2>2. phase' \in {"run", "refused"} /\ (phase' # "run" => UNCHANGED <<chans, mon, manQ>>)
    BY <1>8 DEF Load
  <2>3. LastWriteHasKeys'
    <3>1. manQ \in Nat /\ (manPc # "idle" => manQ > 0)
      BY DEF TypeOK
    <3>2. ASSUME manPc' \in {"put", "retry"}, manQ' = 1
          PROVE  manQ = 1 /\ keys' = keys
      <4>1. manQ = 1
        BY <1>8, <3>1, <3>2, LoadAsks
      <4>2. idbMon = {} => keys' = keys
        BY <1>8 DEF Load
      <4> QED
        BY <1>8, <3>2, <4>1, <4>2, LoadAsks
    <3> QED
      BY <1>8, <3>2, LoadAsks
  <2>4. ObjectsEmpty' /\ CallsEmpty' /\ CallsBoot'
    BY <2>1, <2>2
  <2>5. MonitorsBoot' /\ NodeStopped' /\ OneBackfill'
    BY <2>1, <2>2
  <2>6. CallsRestore' /\ SeedHasData' /\ RecoveryStartsEmpty' /\ RecoveredCm' /\ ClearedIsEmpty'
    BY <2>2
  <2> QED
    BY <2>3, <2>4, <2>5, <2>6
<1>9. CASE UndoMonitors \/ UndoCm
  BY <1>9 DEF UndoMonitors, UndoCm
<1> QED
  BY <1>1, <1>2, <1>3, <1>4, <1>5, <1>6, <1>7, <1>8, <1>9

LEMMA StandingChannel ==
  ASSUME TInv, Standing, NEW c \in Channels,
         OpenChannel(c) \/ MonitorToVss(c) \/ MonitorToIdb(c)
  PROVE  Standing'
<1> USE DEF Standing, ObjectsEmpty, CallsEmpty, CallsBoot, CallsRestore, MonitorsBoot,
            NodeStopped, SeedHasData, RecoveryStartsEmpty, RecoveredCm, ClearedIsEmpty,
            LastWriteHasKeys, OneBackfill, TInv, Booting, Restoring, CallsIdle,
            BootQuiet
<1>1. CASE OpenChannel(c)
  BY <1>1 DEF OpenChannel, TypeOK
<1>2. CASE MonitorToVss(c)
  BY <1>2 DEF MonitorToVss
<1>3. CASE MonitorToIdb(c)
  BY <1>3 DEF MonitorToIdb
<1> QED
  BY <1>1, <1>2, <1>3

LEMMA StandingManifest ==
  ASSUME TInv, Standing, ManifestStart \/ ManifestPut \/ ManifestGet \/ ManifestFails
  PROVE  Standing'
<1> USE DEF Standing, ObjectsEmpty, CallsEmpty, CallsBoot, CallsRestore, MonitorsBoot,
            NodeStopped, SeedHasData, RecoveryStartsEmpty, RecoveredCm, ClearedIsEmpty,
            LastWriteHasKeys, OneBackfill, TInv, Booting, Restoring, CallsIdle,
            BootQuiet
<1>0. srvMan.ver \in Nat /\ srvMan.ver + 1 # 0
  BY DEF TypeOK, Object
<1>1. CASE ManifestStart
  BY <1>1 DEF ManifestStart
<1>2. CASE ManifestPut
  BY <1>0, <1>2 DEF ManifestPut, ManifestDone, TypeOK
<1>3. CASE ManifestGet
  BY <1>3 DEF ManifestGet, TypeOK
<1>4. CASE ManifestFails
  BY <1>0, <1>4 DEF ManifestFails, ManifestDone, TypeOK
<1> QED
  BY <1>1, <1>2, <1>3, <1>4

\* What the steps of the ChannelManager's calls do to the calls.
LEMMA CallsAfter ==
  ASSUME TypeOK, CallsEmpty, NEW w \in Writers, CmPut(w) \/ CmGet(w) \/ CmIdb(w) \/ CmFails(w)
  PROVE  /\ CallsEmpty'
         /\ cmWrite[w].pc # "idle"
         /\ \A v \in Writers : cmWrite'[v].set \subseteq cmWrite[v].set
<1>1. cmWrite[w] \in Call
  BY DEF TypeOK
<1>2. IdleCall.set = {} /\ IdleCall.pc = "idle" /\ IdleCall \in Call
  BY Constants
<1>3. \E x \in Call :
        /\ cmWrite' = [cmWrite EXCEPT ![w] = x]
        /\ (x.set = cmWrite[w].set /\ x.pc # "idle") \/ x = IdleCall
  <2> DEFINE e == cmWrite[w]
  <2>1. CASE CmGet(w)
    <3>1. cmWrite' = [cmWrite EXCEPT ![w] = [e EXCEPT !.pc = "retry", !.ver = srvCm.ver]]
      BY <2>1 DEF CmGet
    <3>2. srvCm.ver \in Nat
      BY DEF TypeOK, Object
    <3> DEFINE x == [e EXCEPT !.pc = "retry", !.ver = srvCm.ver]
    <3>3. x \in Call /\ x.set = e.set /\ x.pc = "retry"
      BY <1>1, <3>2 DEF Call
    <3> HIDE DEF x
    <3>4. cmWrite' = [cmWrite EXCEPT ![w] = x]
      BY <3>1 DEF x
    <3> QED
      BY <3>3, <3>4
  <2>2. CASE CmPut(w)
    <3>1. \/ cmWrite' = [cmWrite EXCEPT ![w] = [e EXCEPT !.pc = "idb"]]
          \/ cmWrite' = [cmWrite EXCEPT ![w] = [e EXCEPT !.pc = "get"]]
          \/ cmWrite' = [cmWrite EXCEPT ![w] = IdleCall]
      BY <2>2 DEF CmPut, GiveUp
    <3>2. /\ [e EXCEPT !.pc = "idb"] \in Call /\ [e EXCEPT !.pc = "idb"].set = e.set
          /\ [e EXCEPT !.pc = "get"] \in Call /\ [e EXCEPT !.pc = "get"].set = e.set
          /\ [e EXCEPT !.pc = "idb"].pc = "idb" /\ [e EXCEPT !.pc = "get"].pc = "get"
      BY <1>1 DEF Call
    <3> HIDE DEF e
    <3>3. e = cmWrite[w]
      BY DEF e
    <3> QED
      BY <1>2, <3>1, <3>2, <3>3
  <2>3. CASE CmIdb(w) \/ CmFails(w)
    BY <1>2, <2>3 DEF CmIdb, CmFails, GiveUp
  <2> QED
    BY <2>1, <2>2, <2>3
<1>4. PICK x \in Call :
        /\ cmWrite' = [cmWrite EXCEPT ![w] = x]
        /\ (x.set = cmWrite[w].set /\ x.pc # "idle") \/ x = IdleCall
  BY <1>3
<1>5. cmWrite[w].pc # "idle"
  BY DEF CmPut, CmGet, CmIdb, CmFails
<1> QED
  BY <1>2, <1>4, <1>5, CallsTyped DEF CallsEmpty, TypeOK

LEMMA StandingCalls ==
  ASSUME TInv, Standing, NEW w \in Writers, CmPut(w) \/ CmGet(w) \/ CmIdb(w) \/ CmFails(w)
  PROVE  Standing'
<1>1. CallsEmpty' /\ cmWrite[w].pc # "idle"
  BY CallsAfter DEF TInv, Standing
<1>2. phase \notin Booting \cup {"load", "refused"} /\ ~(intact /\ phase \in Restoring)
  BY <1>1 DEF Standing, CallsBoot, CallsRestore, CallsIdle
<1>3. UNCHANGED <<srvMan, phase, intact, listed, mon, manPc, manQ, manReq, keys, chans, opening, idbMon>>
  BY DEF CmPut, CmGet, CmIdb, CmFails
<1>4. srvCm' = srvCm \/ srvCm'.ver # 0
  <2>1. srvCm.ver \in Nat /\ srvCm.ver + 1 # 0
    BY DEF TInv, TypeOK, Object
  <2> QED
    BY <2>1 DEF CmPut, CmGet, CmIdb, CmFails
<1> QED
  BY <1>1, <1>2, <1>3, <1>4
     DEF Standing, ObjectsEmpty, CallsBoot, CallsRestore, MonitorsBoot, NodeStopped,
         SeedHasData, RecoveryStartsEmpty, RecoveredCm, ClearedIsEmpty,
         LastWriteHasKeys, OneBackfill, Booting, Restoring

LEMMA StandingPersist ==
  ASSUME TInv, Standing, NEW w \in Writers, CallCm(w)
  PROVE  Standing'
<1>1. CallsEmpty'
  <2> DEFINE e == [pc |-> "put", ver |-> cmVer, set |-> chans]
  <2>1. cmWrite' = [cmWrite EXCEPT ![w] = e] /\ e.pc # "idle"
    BY DEF CallCm
  <2> HIDE DEF e
  <2> QED
    BY <2>1 DEF Standing, CallsEmpty, TInv, TypeOK
<1> QED
  BY <1>1 DEF CallCm, Standing, ObjectsEmpty, CallsBoot, CallsRestore, MonitorsBoot,
              NodeStopped, SeedHasData, RecoveryStartsEmpty, RecoveredCm,
              ClearedIsEmpty, LastWriteHasKeys, OneBackfill, Booting, Restoring

LEMMA StandingRestore ==
  ASSUME TInv, Standing, HiddenPersist \/ RestoreFetch \/ RestoreClear \/ RestoreCm \/ RestoreMonitor
  PROVE  Standing'
<1> USE DEF Standing, ObjectsEmpty, CallsEmpty, CallsBoot, CallsRestore, MonitorsBoot,
            NodeStopped, SeedHasData, RecoveryStartsEmpty, RecoveredCm, ClearedIsEmpty,
            LastWriteHasKeys, OneBackfill, Booting, Restoring, CallsIdle
<1>1. CASE HiddenPersist
  BY <1>1 DEF HiddenPersist
<1>2. CASE RestoreFetch
  BY <1>2 DEF RestoreFetch
<1>3. CASE RestoreClear
  BY <1>3, Constants DEF RestoreClear
<1>4. CASE RestoreCm
  BY <1>4 DEF RestoreCm
<1>5. CASE RestoreMonitor
  BY <1>5 DEF RestoreMonitor
<1> QED
  BY <1>1, <1>2, <1>3, <1>4, <1>5

LEMMA StandingClose ==
  ASSUME TInv, Standing, CloseTab
  PROVE  Standing'
  BY Constants DEF CloseTab, ResetMemory, Standing, ObjectsEmpty, CallsEmpty, CallsBoot,
                   CallsRestore, MonitorsBoot, NodeStopped, SeedHasData,
                   RecoveryStartsEmpty, RecoveredCm, ClearedIsEmpty, LastWriteHasKeys,
                   OneBackfill, Booting, Restoring, CallsIdle

\* The parts of Next.
LEMMA Steps ==
  ASSUME Next
  PROVE  \/ Start \/ RecoverManifest \/ RecoverMonitor \/ RecoverCm \/ RecoverPeers
            \/ RecoveryFails \/ UndoMonitors \/ UndoCm \/ Seed \/ Load
         \/ \E c \in Channels : OpenChannel(c) \/ MonitorToVss(c) \/ MonitorToIdb(c)
         \/ ManifestStart \/ ManifestPut \/ ManifestGet \/ ManifestFails
         \/ \E w \in Writers : CallCm(w)
         \/ \E w \in Writers : CmPut(w) \/ CmGet(w) \/ CmIdb(w) \/ CmFails(w)
         \/ HiddenPersist \/ RestoreFetch \/ RestoreClear \/ RestoreCm \/ RestoreMonitor
         \/ CloseTab
  BY DEF Next, SyncPersist, DrainPersist, Writers, Crash, Restart

LEMMA StandingKept == TInv /\ Standing /\ Next => Standing'
  BY Steps, StandingBoot, StandingChannel, StandingManifest, StandingCalls, StandingPersist,
     StandingRestore, StandingClose

-----------------------------------------------------------------------------
(* The inductive invariant of the two theorems that follow.                *)

\* All that the ChannelManagers name, or will once a first monitor is persisted.
Within(S) == Named(S, srvCm, chans, cmWrite, idbCm) /\ opening \subseteq S

\* What the ChannelManagers at hand name is in IndexedDB, or is still to be put
\* there by the restore.  A failed recovery whose writes are being undone leaves the
\* data complete only if the ChannelManager it wrote names nothing.
Local ==
  /\ \A w \in Writers : cmWrite[w].set \subseteq idbMon
  /\ phase # "refill" => Readable(idbCm, idbMon)
  /\ phase = "refill" => Readable(idbCm, todo \cup idbMon)
  /\ phase = "cleared" => Readable(rest.cm, todo \cup idbMon)
  /\ phase \in {"undo", "undoCm"} => Readable(idbCm, {})

\* A recovery or restore that died before it wrote a ChannelManager: the server's
\* data are complete.
Torn == idbCm = NoCm /\ srvCm.set \subseteq srvMan.set

\* What the ChannelManager on the server names is in IndexedDB, too, as soon as
\* there is a ChannelManager.
Whole ==
  /\ phase \in {"off", "seed", "load", "refused"} => srvCm.set \subseteq idbMon \/ Torn
  /\ phase = "load" /\ idbMon = {} => srvCm.set = {}
  /\ phase \in {"manifest", "monitors"} => srvCm.set \subseteq srvMan.set
  /\ phase = "monitors" => srvMan.set \subseteq todo \cup idbMon
  /\ phase \in {"undo", "undoCm"} => srvCm.set = {}
  /\ phase \in {"peers", "run", "restored"} => srvCm.set \subseteq idbMon
  /\ phase \in {"cleared", "refill"} => srvCm.set \subseteq todo \cup idbMon

\* A manifest write on its way that the server will refuse: it was asked for by a
\* start that could not read the versions, over a manifest that has every name.
Refusable ==
  /\ srvMan.ver # 0 /\ manVer = 0 /\ manPc # "retry"
  /\ manPc = "put" => manReq.ver = 0
  /\ Within(srvMan.set)

\* Every name is in the manifest, or in the keys that a pending write will send,
\* unless a write was lost: then the keys of a running node have them, and the next
\* start has its monitors listed again.
Listed ==
  /\ listed /\ manQ = 0 => Within(srvMan.set)
  /\ phase = "run" => Within(keys)
  /\ manQ > 0 => Within(keys) \/ Refusable
  /\ phase = "cleared" => Readable(rest.cm, srvMan.set)

Complete ==
  /\ chans \subseteq idbMon
  /\ intact => Local /\ Whole /\ Listed

LEMMA IntactBefore == TypeOK /\ Next /\ intact' => intact
  BY DEF TypeOK, Next, Start, RecoverManifest, RecoverMonitor, RecoverCm, RecoverPeers,
         RecoveryFails, UndoMonitors, UndoCm, Seed, Load, OpenChannel, MonitorToVss,
         MonitorToIdb, ManifestStart,
         ManifestPut, ManifestGet, ManifestFails, SyncPersist, DrainPersist, CallCm,
         HiddenPersist, CmPut, CmGet, CmIdb, CmFails, RestoreFetch, RestoreClear, RestoreCm,
         RestoreMonitor, Crash, Restart, CloseTab

LEMMA WithinGrows ==
  ASSUME NEW S, NEW T, S \subseteq T, Within(S)
  PROVE  Within(T)
  BY NamedGrows DEF Within

\* IndexedDB after a step of the start.
LEMMA LocalBoot ==
  ASSUME TInv, Standing, Complete, Next,
         Start \/ RecoverManifest \/ RecoverMonitor \/ RecoverCm
           \/ RecoverPeers \/ RecoveryFails \/ UndoMonitors \/ UndoCm \/ Seed \/ Load
  PROVE  chans' \subseteq idbMon' /\ (intact' => Local')
<1> USE DEF Readable, Local
<1>1. intact' => intact /\ Local /\ Whole /\ Listed
  BY IntactBefore DEF TInv, Complete
<1>2. CASE Start
  BY <1>1, <1>2 DEF Start, Complete
<1>3. CASE RecoverManifest
  BY <1>1, <1>3 DEF RecoverManifest, Complete
<1>4. CASE RecoverMonitor
  BY <1>1, <1>4 DEF RecoverMonitor, Complete
<1>5. CASE RecoverCm
  <2>1. intact' => srvCm.set \subseteq idbMon
    BY <1>1, <1>5 DEF RecoverCm, Whole
  <2> QED
    BY <1>1, <1>5, <2>1 DEF RecoverCm, Complete
<1>6. CASE RecoverPeers
  BY <1>1, <1>6 DEF RecoverPeers, Complete
<1>7. CASE RecoveryFails
  <2>1. intact' => Readable(idbCm, {})
    <3>1. idbCm = {} \/ idbCm = {srvCm.set}
      BY <1>7 DEF RecoveryFails, NoCm, Standing, RecoveryStartsEmpty, RecoveredCm
    <3>2. intact' => srvCm.set = {}
      BY <1>7 DEF RecoveryFails, Standing, ObjectsEmpty
    <3> QED
      BY <3>1, <3>2
  <2> QED
    BY <1>1, <1>7, <2>1 DEF RecoveryFails, Complete
<1>8. CASE Seed
  BY <1>1, <1>8 DEF Seed, Complete
<1>9. CASE Load
  BY <1>1, <1>9 DEF Load, Complete, NoCm
<1>10. CASE UndoMonitors \/ UndoCm
  <2>1. chans = {} /\ \A w \in Writers : cmWrite[w].set = {}
    BY <1>10 DEF UndoMonitors, UndoCm, Standing, NodeStopped, CallsBoot, CallsEmpty,
                 CallsIdle, Booting
  <2> QED
    BY <1>1, <1>10, <2>1 DEF UndoMonitors, UndoCm, NoCm
<1> QED
  BY <1>2, <1>3, <1>4, <1>5, <1>6, <1>7, <1>8, <1>9, <1>10

LEMMA LocalChannel ==
  ASSUME TInv, Complete, Next, NEW c \in Channels,
         OpenChannel(c) \/ MonitorToVss(c) \/ MonitorToIdb(c)
  PROVE  chans' \subseteq idbMon' /\ (intact' => Local')
<1>1. intact' => intact /\ Local
  BY IntactBefore DEF TInv, Complete
<1>2. UNCHANGED <<cmWrite, phase, idbCm, todo, rest>> /\ idbMon \subseteq idbMon'
  BY DEF OpenChannel, MonitorToVss, MonitorToIdb
<1>3. chans' \subseteq chans \cup idbMon'
  BY DEF OpenChannel, MonitorToVss, MonitorToIdb
<1> QED
  BY <1>1, <1>2, <1>3 DEF Local, Readable, Complete

LEMMA LocalOther ==
  ASSUME TInv, Complete, Next, ManifestStart \/ ManifestPut \/ ManifestGet \/ ManifestFails
  PROVE  chans' \subseteq idbMon' /\ (intact' => Local')
<1>1. intact' => intact /\ Local
  BY IntactBefore DEF TInv, Complete
<1>2. UNCHANGED <<cmWrite, phase, idbCm, todo, rest, idbMon, chans>>
  BY DEF ManifestStart, ManifestPut, ManifestGet, ManifestFails
<1> QED
  BY <1>1, <1>2 DEF Local, Readable, Complete

LEMMA LocalCalls ==
  ASSUME TInv, Standing, Complete, Next, NEW w \in Writers,
         CallCm(w) \/ CmPut(w) \/ CmGet(w) \/ CmIdb(w) \/ CmFails(w)
  PROVE  chans' \subseteq idbMon' /\ (intact' => Local')
<1>1. intact' => intact /\ Local
  BY IntactBefore DEF TInv, Complete
<1>2. UNCHANGED <<phase, todo, rest, idbMon, chans>>
  BY DEF CallCm, CmPut, CmGet, CmIdb, CmFails
<1>3. CASE CallCm(w)
  <2> DEFINE e == [pc |-> "put", ver |-> cmVer, set |-> chans]
  <2>1. cmWrite' = [cmWrite EXCEPT ![w] = e] /\ e.set = chans /\ UNCHANGED idbCm
    BY <1>3 DEF CallCm
  <2> HIDE DEF e
  <2>2. \A v \in Writers : cmWrite'[v].set \subseteq cmWrite[v].set \cup chans
    BY <2>1 DEF TInv, TypeOK
  <2> QED
    BY <1>1, <1>2, <2>1, <2>2 DEF Local, Readable, Complete
<1>4. CASE CmPut(w) \/ CmGet(w) \/ CmIdb(w) \/ CmFails(w)
  <2>1. \A v \in Writers : cmWrite'[v].set \subseteq cmWrite[v].set
    BY <1>4, CallsAfter DEF TInv, Standing
  <2>2. UNCHANGED idbCm \/ idbCm' = {cmWrite[w].set}
    BY <1>4 DEF CmPut, CmGet, CmIdb, CmFails
  <2>3. phase \notin {"undo", "undoCm"}
    BY <1>4, CallsAfter DEF TInv, Standing, CallsBoot, CallsIdle, Booting
  <2> QED
    BY <1>1, <1>2, <2>1, <2>2, <2>3 DEF Local, Readable, Complete
<1> QED
  BY <1>3, <1>4

LEMMA LocalRestore ==
  ASSUME TInv, OnServer, Standing, Complete, Next,
         HiddenPersist \/ RestoreFetch \/ RestoreClear \/ RestoreCm \/ RestoreMonitor
  PROVE  chans' \subseteq idbMon' /\ (intact' => Local')
<1> USE DEF Readable, Local
<1>1. intact' => intact /\ Local /\ Whole /\ Listed
  BY IntactBefore DEF TInv, Complete
<1>2. CASE HiddenPersist
  BY <1>1, <1>2 DEF HiddenPersist, Complete
<1>3. CASE RestoreFetch
  BY <1>1, <1>3 DEF RestoreFetch, Complete
<1>4. CASE RestoreClear
  <2>1. chans' = {} /\ idbMon' = {} /\ idbCm' = NoCm /\ todo' = rest.mon /\ rest' = rest
        /\ phase' = "cleared"
    BY <1>4 DEF RestoreClear
  <2>2. ASSUME intact'
        PROVE  /\ \A w \in Writers : cmWrite'[w].set = {}
               /\ Readable(rest.cm, rest.mon)
    <3>1. \A w \in Writers : cmWrite'[w].set = {}
      <4>1. Standing'
        BY <1>4, StandingRestore
      <4> QED
        BY <1>4, <2>2, <4>1 DEF RestoreClear, Standing, CallsEmpty
    <3>2. srvCm.set \subseteq srvMan.set /\ srvCm.set \subseteq srvMon
      <4>1. listed /\ manQ = 0
        BY <1>4, <2>2 DEF RestoreClear
      <4> QED
        BY <1>1, <2>2, <4>1 DEF Listed, Within, Named, OnServer
    <3>3. rest = Download
      BY <1>4, <2>2 DEF RestoreClear
    <3> QED
      BY <3>1, <3>2, <3>3 DEF Download, NoCm
  <2> QED
    BY <2>1, <2>2 DEF NoCm
<1>5. CASE RestoreCm
  BY <1>1, <1>5 DEF RestoreCm, Complete
<1>6. CASE RestoreMonitor
  BY <1>1, <1>6 DEF RestoreMonitor, Complete
<1> QED
  BY <1>2, <1>3, <1>4, <1>5, <1>6

LEMMA LocalClose ==
  ASSUME TInv, Complete, Next, CloseTab
  PROVE  chans' \subseteq idbMon' /\ (intact' => Local')
<1>1. intact' => intact /\ Local /\ phase # "refill"
  BY IntactBefore DEF CloseTab, TInv, Complete
<1> QED
  BY <1>1, Constants DEF CloseTab, ResetMemory, Local, Readable

LEMMA WholeBoot ==
  ASSUME TInv, Standing, Complete, Next,
         Start \/ RecoverManifest \/ RecoverMonitor \/ RecoverCm
           \/ RecoverPeers \/ RecoveryFails \/ UndoMonitors \/ UndoCm \/ Seed \/ Load
  PROVE  intact' => Whole'
<1> USE DEF Whole
<1>1. SUFFICES ASSUME intact, Local, Whole, Listed, intact' PROVE Whole'
  BY IntactBefore DEF TInv, Complete
<1>2. CASE Start
  BY <1>1, <1>2 DEF Start, Torn
<1>3. CASE RecoverManifest
  BY <1>1, <1>3 DEF RecoverManifest, Standing, ObjectsEmpty
<1>4. CASE RecoverMonitor
  BY <1>1, <1>4 DEF RecoverMonitor
<1>5. CASE RecoverCm
  BY <1>1, <1>5 DEF RecoverCm
<1>6. CASE RecoverPeers
  BY <1>1, <1>6 DEF RecoverPeers
<1>7. CASE RecoveryFails
  BY <1>1, <1>7 DEF RecoveryFails, Standing, ObjectsEmpty
<1>8. CASE Seed
  BY <1>1, <1>8 DEF Seed, Standing, SeedHasData, Torn
<1>9. CASE Load
  <2>1. UNCHANGED <<srvMan, srvCm, idbMon>> /\ phase = "load"
    BY <1>9 DEF Load
  <2>2. CASE phase' = "run"
    <3>1. idbMon = {} \/ idbCm # NoCm
      BY <1>9, <2>2 DEF Load
    <3> QED
      BY <1>1, <2>1, <2>2, <3>1 DEF Torn
  <2>3. CASE phase' = "refused"
    <3>1. idbCm' = idbCm
      BY <1>9, <2>3 DEF Load, TInv, TypeOK
    <3> QED
      BY <1>1, <2>1, <2>3, <3>1 DEF Torn
  <2>4. phase' \in {"run", "refused"}
    BY <1>9 DEF Load
  <2> QED
    BY <2>2, <2>3, <2>4
<1>10. CASE UndoMonitors \/ UndoCm
  BY <1>1, <1>10 DEF UndoMonitors, UndoCm
<1> QED
  BY <1>2, <1>3, <1>4, <1>5, <1>6, <1>7, <1>8, <1>9, <1>10

\* The one write that can land before the node runs lists what the server names.
LEMMA BackfillLands ==
  ASSUME TInv, Standing, Listed, phase \in {"load", "refused"},
         ManifestPut \/ ManifestFails, srvMan' # srvMan
  PROVE  srvCm.set \subseteq srvMan'.set
<1>1. /\ manPc \in {"put", "retry"} /\ manReq.ver = srvMan.ver
      /\ srvMan'.set = manReq.set
  BY DEF ManifestPut, ManifestFails, TInv, TypeOK
<1>2. manQ \in Nat /\ manQ > 0 /\ manQ <= 1
  BY <1>1 DEF TInv, TypeOK, Standing, OneBackfill
<1>3. manQ = 1
  BY <1>2
<1>4. Within(keys)
  BY <1>1, <1>2 DEF Listed, Refusable
<1>5. manReq.set = keys
  BY <1>1, <1>3 DEF Standing, LastWriteHasKeys
<1> QED
  BY <1>1, <1>4, <1>5 DEF Within, Named

LEMMA WholeRunning ==
  ASSUME TInv, Standing, Complete, Next,
         \/ \E c \in Channels : OpenChannel(c) \/ MonitorToVss(c) \/ MonitorToIdb(c)
         \/ ManifestStart \/ ManifestPut \/ ManifestGet \/ ManifestFails
         \/ \E w \in Writers : CallCm(w)
         \/ HiddenPersist \/ RestoreFetch
  PROVE  intact' => Whole'
<1>1. SUFFICES ASSUME intact, Local, Whole, Listed, intact' PROVE Whole'
  BY IntactBefore DEF TInv, Complete
<1>2. UNCHANGED <<srvCm, phase, todo>> /\ idbMon \subseteq idbMon'
  BY DEF OpenChannel, MonitorToVss, MonitorToIdb, ManifestStart, ManifestPut, ManifestGet,
         ManifestFails, CallCm, HiddenPersist, RestoreFetch
<1>3. phase = "run" \/ UNCHANGED idbCm
  BY DEF OpenChannel, MonitorToVss, MonitorToIdb, ManifestStart, ManifestPut, ManifestGet,
         ManifestFails, CallCm, HiddenPersist, RestoreFetch
<1>4. phase \in Booting => UNCHANGED srvMan
  BY DEF TInv, BootQuiet, Booting, OpenChannel, MonitorToVss, MonitorToIdb, ManifestStart,
         ManifestPut, ManifestGet, ManifestFails, CallCm, HiddenPersist, RestoreFetch
<1>5. phase \in {"load", "refused"} => UNCHANGED srvMan \/ srvCm.set \subseteq srvMan'.set
  <2>1. UNCHANGED srvMan \/ ManifestPut \/ ManifestFails
    BY DEF OpenChannel, MonitorToVss, MonitorToIdb, ManifestStart, ManifestGet,
           CallCm, HiddenPersist, RestoreFetch
  <2> QED
    BY <1>1, <2>1, BackfillLands
<1>6. phase \in {"off", "seed", "load", "refused"} /\ Torn => Torn'
  BY <1>2, <1>3, <1>4, <1>5 DEF Torn, Booting
<1>7. idbMon' = {} => idbMon = {}
  BY <1>2
<1> QED
  BY <1>1, <1>2, <1>4, <1>6, <1>7 DEF Whole, Booting

LEMMA WholeCalls ==
  ASSUME TInv, Standing, Complete, Next, NEW w \in Writers,
         CmPut(w) \/ CmGet(w) \/ CmIdb(w) \/ CmFails(w)
  PROVE  intact' => Whole'
<1>1. SUFFICES ASSUME intact, Local, Whole, intact' PROVE Whole'
  BY IntactBefore DEF TInv, Complete
<1>2. UNCHANGED <<srvMan, phase, todo, idbMon>>
  BY DEF CmPut, CmGet, CmIdb, CmFails
<1>3. cmWrite[w].pc # "idle" /\ cmWrite[w].set \subseteq idbMon
  BY <1>1, CallsAfter DEF TInv, Standing, Local
<1>4. phase = "run"
  BY <1>1, <1>3 DEF Standing, CallsBoot, CallsRestore, CallsIdle, Booting, Restoring,
                    TInv, TypeOK, Phases
<1>5. srvCm'.set = srvCm.set \/ srvCm'.set = cmWrite[w].set
  BY DEF CmPut, CmGet, CmIdb, CmFails
<1> QED
  BY <1>1, <1>2, <1>3, <1>4, <1>5 DEF Whole

LEMMA WholeRestore ==
  ASSUME TInv, OnServer, Standing, Complete, Next, RestoreClear \/ RestoreCm \/ RestoreMonitor
  PROVE  intact' => Whole'
<1> USE DEF Whole
<1>1. SUFFICES ASSUME intact, Local, Whole, Listed, intact' PROVE Whole'
  BY IntactBefore DEF TInv, Complete
<1>2. CASE RestoreClear
  <2>1. listed /\ manQ = 0 /\ rest = Download
    BY <1>1, <1>2 DEF RestoreClear
  <2>2. srvCm.set \subseteq srvMan.set /\ srvCm.set \subseteq srvMon
    BY <1>1, <2>1 DEF Listed, Within, Named, OnServer
  <2> QED
    BY <1>2, <2>1, <2>2 DEF RestoreClear, Download
<1>3. CASE RestoreCm
  BY <1>1, <1>3 DEF RestoreCm
<1>4. CASE RestoreMonitor
  BY <1>1, <1>4 DEF RestoreMonitor
<1> QED
  BY <1>2, <1>3, <1>4

LEMMA WholeClose ==
  ASSUME TInv, Standing, Complete, Next, CloseTab
  PROVE  intact' => Whole'
<1>1. SUFFICES ASSUME intact, Whole, Listed, intact' PROVE Whole'
  BY IntactBefore DEF TInv, Complete
<1>2. phase' = "off" /\ UNCHANGED <<srvMan, srvCm, idbMon, idbCm>> /\ phase # "refill"
  BY <1>1 DEF CloseTab
<1>3. UNCHANGED Torn
  BY <1>2 DEF Torn
<1>4. srvCm.set \subseteq idbMon \/ Torn
  <2>1. CASE phase = "cleared"
    <3>1. idbCm = NoCm /\ listed /\ manQ = 0
      BY <1>1, <2>1 DEF Standing, ClearedIsEmpty, CallsRestore, Restoring
    <3> QED
      BY <1>1, <3>1 DEF Listed, Within, Named, Torn
  <2>2. CASE phase \in {"manifest", "monitors"}
    BY <1>1, <2>2 DEF Whole, Torn, Standing, RecoveryStartsEmpty
  <2>3. CASE phase \in {"undo", "undoCm", "off", "seed", "load", "refused", "peers", "run",
                        "restored"}
    BY <1>1, <2>3 DEF Whole
  <2> QED
    BY <1>2, <2>1, <2>2, <2>3 DEF TInv, TypeOK, Phases
<1> QED
  BY <1>2, <1>3, <1>4 DEF Whole

\* No step but the opening of a channel and a restore adds to what is named.
LEMMA NoNewNames ==
  ASSUME TypeOK, Next, ~RestoreCm, \A c \in Channels : ~OpenChannel(c), NEW S, Within(S)
  PROVE  Named(S, srvCm', chans', cmWrite', idbCm') /\ opening' \subseteq S
<1>1. opening' \subseteq opening
  BY Constants DEF Next, Start, RecoverManifest, RecoverMonitor, RecoverCm, RecoverPeers,
         RecoveryFails, UndoMonitors, UndoCm, Seed, Load, MonitorToVss, MonitorToIdb, ManifestStart,
         ManifestPut, ManifestGet, ManifestFails, SyncPersist, DrainPersist, CallCm,
         HiddenPersist, CmPut, CmGet, CmIdb, CmFails, RestoreFetch, RestoreClear,
         RestoreMonitor, Crash, Restart, CloseTab, ResetMemory
<1>2. CASE ~NewName
  BY <1>1, <1>2, NothingNew DEF Within
<1>3. ASSUME NEW c \in Channels, MonitorToIdb(c)
      PROVE  Named(S, srvCm', chans', cmWrite', idbCm')
  BY <1>3 DEF MonitorToIdb, Within, Named
<1> QED
  BY <1>1, <1>2, <1>3 DEF Within, NewName

LEMMA ListedBoot ==
  ASSUME TInv, Standing, Complete, Next,
         Start \/ RecoverManifest \/ RecoverMonitor \/ RecoverCm
           \/ RecoverPeers \/ RecoveryFails \/ UndoMonitors \/ UndoCm \/ Seed \/ Load
  PROVE  intact' => Listed'
<1>1. SUFFICES ASSUME intact, Local, Whole, Listed, intact' PROVE Listed'
  BY IntactBefore DEF TInv, Complete
<1>2. ~RestoreCm /\ \A c \in Channels : ~OpenChannel(c)
  BY DEF RestoreCm, OpenChannel, Start, RecoverManifest, RecoverMonitor, RecoverCm,
         RecoverPeers, RecoveryFails, UndoMonitors, UndoCm, Seed, Load
<1>3. \A S : Within(S) => Named(S, srvCm', chans', cmWrite', idbCm') /\ opening' \subseteq S
  BY <1>2, NoNewNames DEF TInv
<1>4. UNCHANGED srvMan
  BY DEF Start, RecoverManifest, RecoverMonitor, RecoverCm,
         RecoverPeers, RecoveryFails, UndoMonitors, UndoCm, Seed, Load
<1>5. Within(srvMan.set) => Within(srvMan.set)'
  BY <1>3, <1>4 DEF Within
<1>6. CASE Start \/ RecoverManifest \/ RecoverMonitor \/ RecoverCm \/ RecoverPeers
             \/ RecoveryFails \/ UndoMonitors \/ UndoCm
  <2>1. manQ = 0 /\ manQ' = 0 /\ UNCHANGED listed
    BY <1>6 DEF Start, RecoverManifest, RecoverMonitor, RecoverCm, RecoverPeers,
                RecoveryFails, UndoMonitors, UndoCm, TInv, BootQuiet, Booting
  <2>2. phase' \notin {"run", "cleared"}
    BY <1>6 DEF Start, RecoverManifest, RecoverMonitor, RecoverCm, RecoverPeers,
                RecoveryFails, UndoMonitors, UndoCm
  <2> QED
    BY <1>1, <1>5, <2>1, <2>2 DEF Listed
<1>7. CASE Seed
  <2>1. /\ manQ = 0 /\ manPc = "idle" /\ manPc' = "idle" /\ phase' = "load"
        /\ keys' = idbMon /\ UNCHANGED <<idbMon, idbCm, srvCm, listed>>
    BY <1>7 DEF Seed, TInv, BootQuiet, Booting
  <2>2. listed' /\ manQ' = 0 => Within(srvMan.set)'
    BY <1>1, <1>5, <2>1 DEF Listed
  <2>3. /\ chans = {} /\ opening = {} /\ chans' = {} /\ opening' = {}
        /\ \A w \in Writers : cmWrite[w].set = {} /\ cmWrite'[w].set = {}
    BY <1>7 DEF Seed, Standing, NodeStopped, CallsBoot, CallsEmpty, CallsIdle, Booting
  <2>4. srvCm.set \subseteq idbMon => Within(keys)'
    BY <1>1, <1>7, <2>1, <2>3 DEF Within, Named, Local, Readable, Seed
  <2>5. ASSUME Torn, srvMan.ver = 0
        PROVE  Within(keys)'
    BY <2>1, <2>3, <2>5 DEF Torn, NoCm, Standing, ObjectsEmpty, Within, Named
  <2>6. ASSUME Torn, srvMan.ver # 0, manQ' > 0
        PROVE  Refusable'
    <3>1. manVer' = 0
      BY <1>7, <2>6 DEF Seed
    <3>2. Within(srvMan.set)'
      BY <1>4, <2>1, <2>3, <2>6 DEF Torn, NoCm, Within, Named
    <3> QED
      BY <1>4, <2>1, <2>6, <3>1, <3>2 DEF Refusable
  <2>7. srvCm.set \subseteq idbMon \/ Torn
    BY <1>1, <1>7 DEF Whole, Seed
  <2>8. manQ' > 0 => Within(keys)' \/ Refusable'
    BY <2>4, <2>5, <2>6, <2>7
  <2> QED
    BY <2>1, <2>2, <2>8 DEF Listed
<1>8. CASE Load
  <2>0. UNCHANGED <<srvCm, cmWrite, opening, idbMon, manVer, manPc, manReq>> /\ phase = "load"
    BY <1>8 DEF Load
  <2>1. CASE phase' = "refused"
    <3>1. UNCHANGED <<idbCm, chans, keys, manQ, listed>>
      BY <1>8, <2>1 DEF Load, TInv, TypeOK
    <3>2. Within(keys) => Within(keys)'
      BY <1>3, <3>1 DEF Within
    <3>3. Refusable => Refusable'
      BY <1>4, <1>5, <2>0 DEF Refusable
    <3> QED
      BY <1>1, <1>5, <2>1, <3>1, <3>2, <3>3 DEF Listed
  <2>2. CASE phase' = "run"
    <3>1. /\ chans = {} /\ opening' = {}
          /\ \A w \in Writers : cmWrite'[w].set = {}
      BY <2>0 DEF Standing, NodeStopped, CallsBoot, CallsEmpty, CallsIdle
    <3>2. Within(idbMon)'
      <4>1. CASE idbCm # NoCm /\ Readable(idbCm, idbMon)
        <5>1. srvCm.set \subseteq idbMon
          BY <1>1, <2>0, <4>1 DEF Whole, Torn
        <5>2. chans' = UNION idbCm /\ idbCm' = idbCm
          BY <1>8, <4>1 DEF Load
        <5> QED
          BY <2>0, <3>1, <4>1, <5>1, <5>2 DEF Within, Named, Readable
      <4>2. CASE ~(idbCm # NoCm /\ Readable(idbCm, idbMon))
        <5>1. idbMon = {} /\ idbCm' = {} /\ chans' = {}
          BY <1>8, <2>2, <3>1, <4>2 DEF Load, NoCm
        <5>2. srvCm.set = {}
          BY <1>1, <2>0, <5>1 DEF Whole
        <5> QED
          BY <2>0, <3>1, <5>1, <5>2 DEF Within, Named
      <4> QED
        BY <4>1, <4>2
    <3>3. idbMon' \subseteq keys'
      BY <1>8, <2>2 DEF Load
    <3>4. Within(keys)'
      BY <3>2, <3>3, NamedGrows DEF Within
    <3>5. ASSUME manQ' = 0
          PROVE  Within(srvMan.set)'
      <4>1. idbMon = {}
        <5> DEFINE n == Cardinality(idbMon)
        <5>1. manQ' = manQ + n \/ idbMon = {}
          BY <1>8, <2>2 DEF Load
        <5>2. n \in Nat /\ (n = 0 => idbMon = {}) /\ manQ \in Nat
          BY LoadedCount DEF TInv, TypeOK
        <5> HIDE DEF n
        <5> QED
          BY <3>5, <5>1, <5>2
      <4>2. idbMon' \subseteq srvMan'.set
        BY <2>0, <4>1
      <4> QED
        BY <3>2, <4>2, NamedGrows DEF Within
    <3> QED
      BY <2>2, <3>4, <3>5 DEF Listed
  <2>3. phase' \in {"run", "refused"}
    BY <1>8 DEF Load
  <2> QED
    BY <2>1, <2>2, <2>3
<1> QED
  BY <1>6, <1>7, <1>8

LEMMA ListedOpen ==
  ASSUME TInv, Complete, Next, NEW c \in Channels, OpenChannel(c)
  PROVE  intact' => Listed'
<1>1. SUFFICES ASSUME intact, Listed, intact' PROVE Listed'
  BY IntactBefore DEF TInv, Complete
<1>2. Within(keys) /\ phase' = "run" /\ UNCHANGED <<srvMan, srvCm, chans, cmWrite, idbCm>>
  BY <1>1 DEF OpenChannel, Listed
<1>3. Within(keys)'
  BY <1>2, NamedGrows DEF OpenChannel, Within
<1>4. manQ' # 0
  BY DEF OpenChannel, TInv, TypeOK
<1> QED
  BY <1>2, <1>3, <1>4 DEF Listed

\* A step that leaves the manifest and its writer alone.
LEMMA ListedAside ==
  ASSUME TInv, Complete, Next, ~RestoreCm, UNCHANGED <<manifest, srvMan, listed>>,
         phase' = "run" => phase = "run",
         phase' = "cleared" /\ intact' =>
           Readable(rest'.cm, srvMan'.set) \/ (phase = "cleared" /\ UNCHANGED rest)
  PROVE  intact' => Listed'
<1>1. SUFFICES ASSUME intact, Listed, intact' PROVE Listed'
  BY IntactBefore DEF TInv, Complete
<1>2. \A c \in Channels : ~OpenChannel(c)
  BY DEF OpenChannel, TInv, TypeOK
<1>3. \A S : Within(S) => Named(S, srvCm', chans', cmWrite', idbCm') /\ opening' \subseteq S
  BY <1>2, NoNewNames DEF TInv
<1>4. UNCHANGED <<keys, manVer, manQ, manPc, manReq, srvMan, listed>>
  OBVIOUS
<1>5. Within(srvMan.set) => Within(srvMan.set)'
  BY <1>3, <1>4 DEF Within
<1>6. Within(keys) => Within(keys)'
  BY <1>3, <1>4 DEF Within
<1>7. Refusable => Refusable'
  BY <1>4, <1>5 DEF Refusable
<1>8. phase' = "cleared" => Readable(rest.cm, srvMan.set)'
  BY <1>1, <1>4 DEF Listed, Readable
<1> QED
  BY <1>1, <1>4, <1>5, <1>6, <1>7, <1>8 DEF Listed

LEMMA ListedRunning ==
  ASSUME TInv, Complete, Next,
         \/ \E c \in Channels : MonitorToVss(c) \/ MonitorToIdb(c)
         \/ \E w \in Writers : CallCm(w)
         \/ \E w \in Writers : CmPut(w) \/ CmGet(w) \/ CmIdb(w) \/ CmFails(w)
         \/ HiddenPersist \/ RestoreFetch \/ RestoreMonitor
  PROVE  intact' => Listed'
<1>1. UNCHANGED <<manifest, srvMan, listed>>
  BY DEF MonitorToVss, MonitorToIdb, CallCm, CmPut, CmGet, CmIdb, CmFails, HiddenPersist,
         RestoreFetch, RestoreMonitor
<1>2. ~RestoreCm /\ (phase' = phase \/ phase' = "restored")
  BY DEF MonitorToVss, MonitorToIdb, CallCm, CmPut, CmGet, CmIdb, CmFails, HiddenPersist,
         RestoreFetch, RestoreMonitor, RestoreCm, TInv, TypeOK, Phases
<1>3. phase = "cleared" => UNCHANGED rest
  BY DEF MonitorToVss, MonitorToIdb, CallCm, CmPut, CmGet, CmIdb, CmFails, HiddenPersist,
         RestoreFetch, RestoreMonitor
<1> QED
  BY <1>1, <1>2, <1>3, ListedAside

LEMMA ListedRestore ==
  ASSUME TInv, Standing, Complete, Next, RestoreClear \/ RestoreCm
  PROVE  intact' => Listed'
<1>1. SUFFICES ASSUME intact, Listed, intact' PROVE Listed'
  BY IntactBefore DEF TInv, Complete
<1>2. CASE RestoreClear
  <2>1. listed /\ manQ = 0 /\ rest = Download /\ rest' = rest
    BY <1>1, <1>2 DEF RestoreClear
  <2>2. phase' = "cleared" /\ ~RestoreCm /\ UNCHANGED <<manifest, srvMan, listed>>
    BY <1>2 DEF RestoreClear, RestoreCm
  <2>3. srvCm.set \subseteq srvMan.set
    BY <1>1, <2>1 DEF Listed, Within, Named
  <2>4. Readable(rest'.cm, srvMan'.set)
    BY <2>1, <2>2, <2>3 DEF Readable, Download, NoCm
  <2>5. intact' => Listed'
    BY <2>2, <2>4, ListedAside
  <2> QED
    BY <1>1, <2>5
<1>3. CASE RestoreCm
  <2>1. /\ phase = "cleared" /\ phase' = "refill"
        /\ UNCHANGED <<srvMan, srvCm, chans, cmWrite, opening, manQ, listed>>
        /\ idbCm' = idbCm \/ idbCm' = rest.cm
    BY <1>3 DEF RestoreCm
  <2>2. listed /\ manQ = 0
    BY <1>1, <2>1 DEF Standing, CallsRestore, Restoring
  <2>3. Readable(rest.cm, srvMan.set) /\ Within(srvMan.set)
    BY <1>1, <2>1, <2>2 DEF Listed
  <2>4. Within(srvMan.set)'
    BY <2>1, <2>3 DEF Within, Named, Readable
  <2> QED
    BY <2>1, <2>2, <2>4 DEF Listed
<1> QED
  BY <1>2, <1>3

LEMMA ListedClose ==
  ASSUME TInv, Complete, Next, CloseTab
  PROVE  intact' => Listed'
<1>1. SUFFICES ASSUME intact, Listed, intact' PROVE Listed'
  BY IntactBefore DEF TInv, Complete
<1>2. /\ manQ' = 0 /\ phase' = "off" /\ UNCHANGED srvMan
      /\ listed' => listed /\ manQ = 0
  BY DEF CloseTab, ResetMemory
<1>3. ~RestoreCm /\ \A c \in Channels : ~OpenChannel(c)
  BY <1>2 DEF RestoreCm, OpenChannel
<1>4. \A S : Within(S) => Named(S, srvCm', chans', cmWrite', idbCm') /\ opening' \subseteq S
  BY <1>3, NoNewNames DEF TInv
<1> QED
  BY <1>1, <1>2, <1>4 DEF Listed, Within

\* The writer of the manifest: what it sends has all the names, or the server
\* refuses it and the answer adds the names it has.
LEMMA ListedManifest ==
  ASSUME TInv, Complete, Standing, Next, ManifestStart \/ ManifestPut \/ ManifestGet \/ ManifestFails
  PROVE  intact' => Listed'
<1>1. SUFFICES ASSUME intact, Listed, intact' PROVE Listed'
  BY IntactBefore DEF TInv, Complete
<1>2. UNCHANGED <<phase, rest, srvCm, chans, cmWrite, idbCm, idbMon, opening>>
  BY DEF ManifestStart, ManifestPut, ManifestGet, ManifestFails
<1>3. \A S : Within(S) <=> Named(S, srvCm', chans', cmWrite', idbCm') /\ opening' \subseteq S
  BY <1>2 DEF Within
<1>4. manQ \in Nat /\ manQ > 0
  BY DEF ManifestStart, ManifestPut, ManifestGet, ManifestFails, TInv, TypeOK
<1>5. phase' # "cleared"
  BY <1>1, <1>2, <1>4 DEF Standing, CallsRestore, Restoring
<1>6. CASE ManifestStart
  <2>1. UNCHANGED <<srvMan, keys, manQ, manVer, listed>> /\ manPc' = "put"
        /\ manReq'.ver = manVer
    BY <1>6 DEF ManifestStart
  <2>2. Refusable => Refusable'
    BY <1>3, <2>1 DEF Refusable, Within
  <2>3. Within(keys) => Within(keys)'
    BY <1>3, <2>1 DEF Within
  <2> QED
    BY <1>1, <1>2, <1>4, <1>5, <2>1, <2>2, <2>3 DEF Listed
<1>7. CASE ManifestGet
  <2>1. UNCHANGED manQ /\ keys' = keys \cup srvMan.set
    BY <1>7 DEF ManifestGet
  <2>2. Within(keys')
    BY <1>1, <1>4, <2>1, WithinGrows DEF Listed, Refusable
  <2>3. Within(keys)'
    BY <1>3, <2>2 DEF Within
  <2> QED
    BY <1>4, <1>5, <2>1, <2>3 DEF Listed
<1>8. CASE ManifestPut
  <2>1. manPc \in {"put", "retry"} /\ UNCHANGED keys
    BY <1>8 DEF ManifestPut
  <2>2. Within(keys) => Within(keys)'
    BY <1>3, <2>1 DEF Within
  <2>3. CASE manReq.ver = srvMan.ver
    <3>1. Within(keys)
      BY <1>1, <1>4, <2>1, <2>3 DEF Listed, Refusable
    <3>2. srvMan'.set = manReq.set /\ manQ' = manQ - 1
      BY <1>8, <2>3 DEF ManifestPut, ManifestDone
    <3>3. ASSUME manQ' = 0
          PROVE  Within(srvMan.set)'
      <4>1. manQ = 1
        BY <1>4, <3>2, <3>3
      <4>2. srvMan'.set = keys'
        BY <2>1, <3>2, <4>1 DEF Standing, LastWriteHasKeys
      <4> QED
        BY <2>2, <3>1, <4>2 DEF Within
    <3> QED
      BY <1>5, <2>2, <3>1, <3>3 DEF Listed
  <2>4. CASE manReq.ver # srvMan.ver /\ manPc = "put"
    <3>1. manPc' = "get" /\ UNCHANGED <<srvMan, manQ, manVer, listed>>
      BY <1>8, <2>4 DEF ManifestPut, TInv, TypeOK
    <3>2. Refusable => Refusable'
      BY <1>3, <3>1 DEF Refusable, Within
    <3> QED
      BY <1>1, <1>2, <1>4, <1>5, <2>2, <3>1, <3>2 DEF Listed
  <2>5. CASE manReq.ver # srvMan.ver /\ manPc = "retry"
    <3>1. ~listed'
      BY <1>8, <2>5 DEF ManifestPut
    <3>2. Within(keys)
      BY <1>1, <1>4, <2>5 DEF Listed, Refusable
    <3> QED
      BY <1>5, <2>2, <3>1, <3>2 DEF Listed
  <2> QED
    BY <2>1, <2>3, <2>4, <2>5
<1>9. CASE ManifestFails
  <2>1. ~listed' /\ UNCHANGED <<keys, manVer>> /\ manPc' = "idle"
    BY <1>9 DEF ManifestFails, ManifestDone
  <2>2. Within(keys) => Within(keys)'
    BY <1>3, <2>1 DEF Within
  <2>3. Refusable => Refusable'
    <3>1. Refusable => UNCHANGED srvMan
      BY <1>9 DEF ManifestFails, Refusable, TInv, TypeOK
    <3> QED
      BY <1>3, <2>1, <3>1 DEF Refusable, Within
  <2> QED
    BY <1>1, <1>2, <1>4, <1>5, <2>1, <2>2, <2>3 DEF Listed
<1> QED
  BY <1>6, <1>7, <1>8, <1>9

LEMMA CompleteKept == TInv /\ OnServer /\ Standing /\ Complete /\ Next => Complete'
<1> SUFFICES ASSUME TInv, OnServer, Standing, Complete, Next PROVE Complete'
  OBVIOUS
<1>1. CASE Start \/ RecoverManifest \/ RecoverMonitor \/ RecoverCm \/ RecoverPeers
             \/ RecoveryFails \/ UndoMonitors \/ UndoCm \/ Seed \/ Load
  BY <1>1, LocalBoot, WholeBoot, ListedBoot DEF Complete
<1>2. ASSUME NEW c \in Channels, OpenChannel(c) \/ MonitorToVss(c) \/ MonitorToIdb(c)
      PROVE  Complete'
  BY <1>2, LocalChannel, WholeRunning, ListedOpen, ListedRunning DEF Complete
<1>3. CASE ManifestStart \/ ManifestPut \/ ManifestGet \/ ManifestFails
  BY <1>3, LocalOther, WholeRunning, ListedManifest DEF Complete
<1>4. ASSUME NEW w \in Writers, CallCm(w)
      PROVE  Complete'
  BY <1>4, LocalCalls, WholeRunning, ListedRunning DEF Complete
<1>5. ASSUME NEW w \in Writers, CmPut(w) \/ CmGet(w) \/ CmIdb(w) \/ CmFails(w)
      PROVE  Complete'
  BY <1>5, LocalCalls, WholeCalls, ListedRunning DEF Complete
<1>6. CASE HiddenPersist \/ RestoreFetch
  BY <1>6, LocalRestore, WholeRunning, ListedRunning DEF Complete
<1>7. CASE RestoreMonitor
  BY <1>7, LocalRestore, WholeRestore, ListedRunning DEF Complete
<1>8. CASE RestoreClear \/ RestoreCm
  BY <1>8, LocalRestore, WholeRestore, ListedRestore DEF Complete
<1>9. CASE CloseTab
  BY <1>9, LocalClose, WholeClose, ListedClose DEF Complete
<1> QED
  BY <1>1, <1>2, <1>3, <1>4, <1>5, <1>6, <1>7, <1>8, <1>9, Steps

IInv == TInv /\ OnServer /\ Standing /\ Complete

LEMMA InitIInv == Init => IInv
<1> SUFFICES ASSUME Init PROVE IInv
  OBVIOUS
<1>1. TInv /\ OnServer
  BY InitTInv, InitOnServer
<1>2. /\ phase = "off" /\ chans = {} /\ opening = {} /\ idbCm = {} /\ srvMan.set = {}
      /\ srvCm.set = {} /\ manQ = 0 /\ manPc = "idle"
      /\ \A w \in Writers : cmWrite[w].set = {} /\ cmWrite[w].pc = "idle"
      /\ \A c \in Channels : mon[c] = "none"
  BY Constants DEF Init, NoCm
<1>3. Standing
  BY <1>2 DEF Standing, ObjectsEmpty, CallsEmpty, CallsBoot, CallsRestore, MonitorsBoot,
              NodeStopped, SeedHasData, RecoveryStartsEmpty, RecoveredCm,
              ClearedIsEmpty, LastWriteHasKeys, OneBackfill, Booting, Restoring,
              CallsIdle
<1>4. Complete
  BY <1>2 DEF Complete, Local, Whole, Listed, Within, Named, Readable, Torn, NoCm
<1> QED
  BY <1>1, <1>3, <1>4 DEF IInv

LEMMA IInvKept == IInv /\ [Next]_vars => IInv'
<1> SUFFICES ASSUME IInv, [Next]_vars PROVE IInv'
  OBVIOUS
<1>1. CASE Next
  BY <1>1, TInvKept, OnServerKept, StandingKept, CompleteKept DEF IInv, TInv
<1>2. CASE UNCHANGED vars
  <2>1. TInv' /\ OnServer'
    BY <1>2 DEF IInv, TInv, TypeOK, BootQuiet, OneFetched, OnServer, Named
  <2>2. Standing'
    BY <1>2 DEF IInv, Standing, ObjectsEmpty, CallsEmpty, CallsBoot, CallsRestore,
                MonitorsBoot, NodeStopped, SeedHasData, RecoveryStartsEmpty,
                RecoveredCm, ClearedIsEmpty, LastWriteHasKeys, OneBackfill, Booting,
                Restoring, CallsIdle
  <2>3. Complete'
    BY <1>2 DEF IInv, Complete, Local, Whole, Listed, Within, Named, Readable, Refusable,
           Torn
  <2> QED
    BY <2>1, <2>2, <2>3 DEF IInv
<1> QED
  BY <1>1, <1>2

\* Whenever the tab dies, LDK can read the ChannelManager in IndexedDB with the
\* monitors in IndexedDB, also after a recovery from the server or a restore, as
\* long as the data were complete: the local copy of a monitor is written before
\* LDK is told, the server's data before the ChannelManager that names them.
THEOREM LocalAlwaysReadable == Spec => []LocalReadable
<1>1. IInv => LocalReadable
  BY DEF IInv, Complete, Local, LocalReadable
<1> QED
  BY <1>1, InitIInv, IInvKept, PTL DEF Spec

\* With no manifest write pending, the manifest on the server lists every channel
\* of the ChannelManager on the server, so that the server alone suffices to
\* recover: through conflicts and their retries, reloads, the writes by which every
\* start lists its monitors again, those of a start that could not read the
\* versions, failed recoveries and restores.  What a lost manifest write leaves out
\* is listed again by the next write, at the latest after the next start.
THEOREM ServerAlwaysComplete == Spec => []ServerComplete
<1>1. IInv => ServerComplete
  <2> SUFFICES ASSUME IInv, intact, listed, manQ = 0 PROVE srvCm.set \subseteq srvMan.set
    BY DEF ServerComplete
  <2>1. Within(srvMan.set)
    BY DEF IInv, Complete, Listed
  <2> QED
    BY <2>1 DEF Within, Named
<1> QED
  BY <1>1, InitIInv, IInvKept, PTL DEF Spec
=============================================================================
