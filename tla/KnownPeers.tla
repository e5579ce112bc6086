----------------------------- MODULE KnownPeers -----------------------------
(***************************************************************************)
(* The known peers: the store ldk_known_peers and its copy on the VSS      *)
(* server (src/ldk/storage/known-peers.ts).  putKnownPeer and              *)
(* deleteKnownPeer each end with a syncPeersToVss of their own, and these  *)
(* may overlap.                                                            *)
(***************************************************************************)
EXTENDS Naturals

CONSTANTS
  Peers,
  MaxSyncs,    \* bound: changes, each with its sync
  MaxTroubles  \* bound: requests that fail and replies that are lost

Syncs == 1..MaxSyncs

VARIABLES
  local,    \* the store
  server,   \* the object on the server: version and value
  version,  \* vssVersion
  begun,    \* syncs so far
  sync,     \* where each sync stands
  troubles,
  missed    \* history: a sync gave up

vars == <<local, server, version, begun, sync, troubles, missed>>

Objects == [ver : 0..MaxSyncs, val : SUBSET Peers]

\* pc: reads the store, put sent, put answered, get sent, get answered, over.
Idle == [pc |-> "over", val |-> {}, ver |-> 0, retry |-> FALSE]

TypeOK ==
  /\ local \subseteq Peers /\ server \in Objects /\ version \in 0..MaxSyncs
  /\ begun \in 0..MaxSyncs /\ troubles \in 0..MaxTroubles /\ missed \in BOOLEAN
  /\ sync \in [Syncs -> [pc : {"read", "put", "done", "conflict", "get", "got", "over"},
                         val : SUBSET Peers, ver : 0..MaxSyncs, retry : BOOLEAN]]

Init ==
  /\ local = {} /\ server = [ver |-> 0, val |-> {}] /\ version = 0
  /\ begun = 0 /\ sync = [n \in Syncs |-> Idle] /\ troubles = 0 /\ missed = FALSE

\* putKnownPeer or deleteKnownPeer: the store, and a sync.
Change(new) ==
  /\ begun < MaxSyncs /\ begun' = begun + 1
  /\ local' = new
  /\ sync' = [sync EXCEPT ![begun + 1] = [Idle EXCEPT !.pc = "read"]]
  /\ UNCHANGED <<server, version, troubles, missed>>

PutPeer(p) == Change(local \union {p})
DeletePeer(p) == Change(local \ {p})

Moved(n, pc) == sync' = [sync EXCEPT ![n].pc = pc]

\* The peers are read and put with the version known at that moment.
ReadAndPut(n) ==
  /\ sync[n].pc = "read"
  /\ sync' = [sync EXCEPT ![n] = [@ EXCEPT !.pc = "put", !.val = local, !.ver = version]]
  /\ UNCHANGED <<local, server, version, begun, troubles, missed>>

\* The server takes the put if the version is its own.
PutArrives(n) ==
  /\ sync[n].pc = "put"
  /\ IF sync[n].ver = server.ver
     THEN server' = [ver |-> server.ver + 1, val |-> sync[n].val] /\ Moved(n, "done")
     ELSE Moved(n, "conflict") /\ UNCHANGED server
  /\ UNCHANGED <<local, version, begun, troubles, missed>>

PutAnswered(n) ==
  /\ sync[n].pc = "done" /\ version' = sync[n].ver + 1
  /\ sync' = [sync EXCEPT ![n] = Idle]
  /\ UNCHANGED <<local, server, begun, troubles, missed>>

\* The first conflict is retried with the server's version, the second is not.
Conflict(n) ==
  /\ sync[n].pc = "conflict"
  /\ IF sync[n].retry THEN sync' = [sync EXCEPT ![n] = Idle] /\ missed' = TRUE
     ELSE sync' = [sync EXCEPT ![n] = [@ EXCEPT !.pc = "get", !.retry = TRUE]] /\ UNCHANGED missed
  /\ UNCHANGED <<local, server, version, begun, troubles>>

GetArrives(n) ==
  /\ sync[n].pc = "get"
  /\ sync' = [sync EXCEPT ![n] = [@ EXCEPT !.pc = "got", !.ver = server.ver]]
  /\ UNCHANGED <<local, server, version, begun, troubles, missed>>

\* Faulty variant: the retry puts what was read before the conflict.
GetAnsweredNoRead(n) ==
  /\ sync[n].pc = "got" /\ version' = sync[n].ver /\ Moved(n, "put")
  /\ UNCHANGED <<local, server, begun, troubles, missed>>

\* The version is kept, and the peers are read again.
GetAnswered(n) ==
  /\ sync[n].pc = "got" /\ version' = sync[n].ver /\ Moved(n, "read")
  /\ UNCHANGED <<local, server, begun, troubles, missed>>

\* A request fails, or a reply is lost: a warning.
Fails(n) ==
  /\ sync[n].pc \in {"put", "done", "get", "got"}
  /\ troubles < MaxTroubles /\ troubles' = troubles + 1
  /\ sync' = [sync EXCEPT ![n] = Idle] /\ missed' = TRUE
  /\ UNCHANGED <<local, server, version, begun>>

Next ==
  \/ \E p \in Peers : PutPeer(p) \/ DeletePeer(p)
  \/ \E n \in Syncs : \/ ReadAndPut(n) \/ PutArrives(n) \/ PutAnswered(n) \/ Conflict(n)
                      \/ GetArrives(n) \/ GetAnswered(n) \/ Fails(n)

Spec == Init /\ [][Next]_vars

\* When no sync is under way and none gave up, the server has the peers of the
\* store, however the syncs overlapped.
PeersOnServer ==
  (\A n \in Syncs : sync[n].pc = "over") /\ ~missed => server.val = local
=============================================================================
