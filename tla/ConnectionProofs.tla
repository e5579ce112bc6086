-------------------------- MODULE ConnectionProofs --------------------------
(***************************************************************************)
(* Proofs about the parts of a session that keep the node connected and    *)
(* recoverable, for any peers, channels, sockets and overlapping calls:    *)
(* LDK talks to a peer over the socket that is tracked for it, and what    *)
(* settled calls leave on the server is what IndexedDB holds (known peers, *)
(* the recovery record).                                                   *)
(***************************************************************************)
EXTENDS Session, FiniteSetTheorems, TLAPS

LEMMA ConnectionBounds ==
  /\ MaxSockets \in Nat /\ MaxChannels \in Nat /\ MaxSyncs \in Nat
  /\ MaxJobs \in Nat /\ MaxRestarts \in Nat /\ MaxTroubles \in Nat
BY SessionAssumption, ChainSyncAssumption

\* A step of the session is one of the part, or leaves its variables alone.
LEMMA PeersMove ==
  ASSUME [SessionNext]_sessionVars PROVE [Conn!Next]_(Conn!vars)
<1>1. CASE UNCHANGED sessionVars
  BY <1>1 DEF sessionVars, peerVars, Conn!vars
<1>2. CASE SessionNext
  <2>1. part # "peers" => UNCHANGED peerVars
    BY <1>2 DEF SessionNext, Rest
  <2>2. part = "peers" => Conn!Next
    BY <1>2 DEF SessionNext
  <2> QED
    BY <2>1, <2>2 DEF peerVars, Conn!vars
<1> QED
  BY <1>1, <1>2

-----------------------------------------------------------------------------
(* Peer connections: types. *)

\* The page that waits for a socket has a channel left to open.
OpeningHasRoom == peer_opening # Conn!NoSocket => peer_opened < MaxChannels

ConnTypes == Conn!TypeOK /\ OpeningHasRoom

\* A new socket extends the sockets' functions.
LEMMA ExtendedTyped ==
  ASSUME peer_made \in Nat, NEW S, NEW f \in [1..peer_made -> S], NEW v \in S
  PROVE  /\ Conn!Extended(f, v) \in [1..(peer_made + 1) -> S]
         /\ Conn!Extended(f, v)[peer_made + 1] = v
BY SMT DEF Conn!Extended

\* Closing sockets keeps the types of states and links.
LEMMA WithoutTyped ==
  ASSUME Conn!TypeOK, NEW ss
  PROVE  /\ Conn!StateWithout(ss) \in [1..peer_made -> {"opening", "handshake", "open", "closed"}]
         /\ Conn!LinkedWithout(ss) \in [Peers -> 0..peer_made]
<1>1. peer_made \in Nat
  BY SMT DEF Conn!TypeOK
<1>2. Conn!StateWithout(ss) \in [1..peer_made -> {"opening", "handshake", "open", "closed"}]
  BY SMT DEF Conn!TypeOK, Conn!StateWithout
<1>3. Conn!LinkedWithout(ss) \in [Peers -> 0..peer_made]
  BY <1>1, SMT DEF Conn!TypeOK, Conn!LinkedWithout, Conn!NoSocket
<1> QED
  BY <1>2, <1>3

\* A larger number of sockets keeps links and the page's socket in range.
LEMMA RangeGrows ==
  ASSUME peer_made \in Nat, NEW f \in [Peers -> 0..peer_made]
  PROVE  f \in [Peers -> 0..(peer_made + 1)]
BY SMT

LEMMA ConnInitTypes ==
  ASSUME MaxSockets \in Nat, MaxChannels \in Nat, Conn!Init
  PROVE  ConnTypes
<1>1. peer_peer \in [1..peer_made -> Peers] /\ peer_by \in [1..peer_made -> {"track", "reconnect"}]
      /\ peer_state \in [1..peer_made -> {"opening", "handshake", "open", "closed"}]
  BY SMT DEF Conn!Init
<1>2. peer_linked \in [Peers -> 0..peer_made] /\ peer_tracked \in [Peers -> 0..peer_made]
  BY SMT DEF Conn!Init, Conn!NoSocket
<1>3. /\ peer_made \in 0..MaxSockets /\ peer_channel \subseteq Peers /\ peer_missing \subseteq Peers
      /\ peer_opened \in 0..MaxChannels /\ peer_opening \in 0..peer_made /\ peer_opening = Conn!NoSocket
      /\ peer_reconnect = "idle" /\ peer_torn = FALSE
  BY SMT DEF Conn!Init, Conn!NoSocket
<1> QED
  BY <1>1, <1>2, <1>3 DEF ConnTypes, Conn!TypeOK, OpeningHasRoom

\* The number of sockets and the functions over them after a new one.
LEMMA NewSocketType ==
  ASSUME MaxSockets \in Nat, Conn!TypeOK, NEW p \in Peers,
         NEW w \in {"track", "reconnect"}, Conn!NewSocket(p, w)
  PROVE  /\ peer_made' = peer_made + 1 /\ peer_made \in Nat /\ peer_made' \in 0..MaxSockets
         /\ peer_peer' \in [1..peer_made' -> Peers]
         /\ peer_by' \in [1..peer_made' -> {"track", "reconnect"}]
         /\ Conn!Extended(peer_state, "opening")
              \in [1..peer_made' -> {"opening", "handshake", "open", "closed"}]
         /\ peer_linked \in [Peers -> 0..peer_made'] /\ peer_tracked \in [Peers -> 0..peer_made']
         /\ peer_opening \in 0..peer_made'
<1>1. peer_made \in Nat /\ peer_made' = peer_made + 1 /\ peer_made' \in 0..MaxSockets
  BY SMT DEF Conn!TypeOK, Conn!NewSocket
<1>2. peer_peer \in [1..peer_made -> Peers] /\ peer_by \in [1..peer_made -> {"track", "reconnect"}]
      /\ peer_state \in [1..peer_made -> {"opening", "handshake", "open", "closed"}]
  BY DEF Conn!TypeOK
<1>3. peer_peer' \in [1..(peer_made + 1) -> Peers]
  BY <1>1, <1>2, ExtendedTyped DEF Conn!NewSocket
<1>4. peer_by' \in [1..(peer_made + 1) -> {"track", "reconnect"}]
  BY <1>1, <1>2, ExtendedTyped DEF Conn!NewSocket
<1>5. Conn!Extended(peer_state, "opening")
        \in [1..(peer_made + 1) -> {"opening", "handshake", "open", "closed"}]
  BY <1>1, <1>2, ExtendedTyped
<1>6. peer_linked \in [Peers -> 0..(peer_made + 1)] /\ peer_tracked \in [Peers -> 0..(peer_made + 1)]
  BY <1>1, RangeGrows DEF Conn!TypeOK
<1>7. peer_opening \in 0..(peer_made + 1)
  BY <1>1, SMT DEF Conn!TypeOK
<1> QED
  BY <1>1, <1>3, <1>4, <1>5, <1>6, <1>7

LEMMA ConnectTypes ==
  ASSUME MaxSockets \in Nat, ConnTypes, NEW p \in Peers, Conn!Connect(p)
  PROVE  ConnTypes'
<1>1. Conn!NewSocket(p, "track") /\ Conn!TypeOK
  BY DEF Conn!Connect, ConnTypes
<1>2. peer_state' = Conn!Extended(peer_state, "opening")
      /\ UNCHANGED <<peer_linked, peer_tracked, Conn!channels, Conn!sweep, peer_torn>>
  BY DEF Conn!Connect
<1> QED
  BY <1>1, <1>2, NewSocketType, SMT DEF ConnTypes, Conn!TypeOK, OpeningHasRoom, Conn!channels,
     Conn!sweep

LEMMA OpensTypes ==
  ASSUME ConnTypes, NEW s \in Conn!Sockets, Conn!Opens(s)
  PROVE  ConnTypes'
<1>1. peer_state' \in [1..peer_made -> {"opening", "handshake", "open", "closed"}]
  BY SMT DEF ConnTypes, Conn!TypeOK, Conn!Opens
<1> QED
  BY <1>1, SMT DEF ConnTypes, Conn!TypeOK, OpeningHasRoom, Conn!Opens, Conn!channels, Conn!sweep

\* The reconnection's variables keep their types when a socket is settled.
LEMMA SettlesTypes ==
  ASSUME Conn!TypeOK, NEW s, Conn!ReconnectSettles(s)
  PROVE  peer_reconnect' \in {"idle", "reading", "connecting"} /\ peer_missing' \subseteq Peers
BY SMT DEF Conn!TypeOK, Conn!ReconnectSettles, Conn!sweep

LEMMA CompletesTypes ==
  ASSUME ConnTypes, NEW s \in Conn!Sockets, Conn!Completes(s)
  PROVE  ConnTypes'
<1> DEFINE old == IF peer_by[s] = "track" THEN {peer_tracked[peer_peer[s]]} ELSE {}
<1>1. Conn!TypeOK /\ OpeningHasRoom
  BY DEF ConnTypes
<1>2. s \in 1..peer_made /\ peer_peer[s] \in Peers /\ peer_made \in Nat /\ s \in 0..peer_made
  BY <1>1, SMT DEF Conn!Completes, Conn!Completed, Conn!TypeOK
<1>3. /\ peer_state' = [Conn!StateWithout(old) EXCEPT ![s] = "open"]
      /\ peer_linked' = [Conn!LinkedWithout(old) EXCEPT ![peer_peer[s]] = s]
  BY DEF Conn!Completes, Conn!Completed
<1>4. peer_tracked' = [peer_tracked EXCEPT ![peer_peer[s]] = s]
  BY <1>1, <1>2, SMT DEF Conn!Completes, Conn!Completed, Conn!TypeOK
<1>5. /\ Conn!StateWithout(old) \in [1..peer_made -> {"opening", "handshake", "open", "closed"}]
      /\ Conn!LinkedWithout(old) \in [Peers -> 0..peer_made]
  BY <1>1, WithoutTyped
<1> HIDE DEF old
<1>6. peer_state' \in [1..peer_made -> {"opening", "handshake", "open", "closed"}]
  BY <1>2, <1>3, <1>5, SMT
<1>7. peer_linked' \in [Peers -> 0..peer_made]
  BY <1>2, <1>3, <1>5, SMT
<1>8. peer_tracked' \in [Peers -> 0..peer_made]
  BY <1>1, <1>2, <1>4, SMT DEF Conn!TypeOK
<1>9. peer_reconnect' \in {"idle", "reading", "connecting"} /\ peer_missing' \subseteq Peers
  BY <1>1, SettlesTypes DEF Conn!Completes, Conn!Completed
<1>10. UNCHANGED <<peer_made, peer_peer, peer_by, Conn!channels, peer_torn>>
  BY DEF Conn!Completes, Conn!Completed
<1> QED
  BY <1>1, <1>6, <1>7, <1>8, <1>9, <1>10, SMT DEF ConnTypes, Conn!TypeOK, OpeningHasRoom,
     Conn!channels

LEMMA ClosesTypes ==
  ASSUME ConnTypes, NEW s \in Conn!Sockets, Conn!Closes(s)
  PROVE  ConnTypes'
<1>1. Conn!TypeOK /\ OpeningHasRoom
  BY DEF ConnTypes
<1>2. /\ peer_state' \in [1..peer_made -> {"opening", "handshake", "open", "closed"}]
      /\ peer_linked' \in [Peers -> 0..peer_made]
  BY <1>1, WithoutTyped DEF Conn!Closes
<1>3. peer_reconnect' \in {"idle", "reading", "connecting"} /\ peer_missing' \subseteq Peers
  BY <1>1, SettlesTypes DEF Conn!Closes
<1>4. peer_opening' \in {peer_opening, Conn!NoSocket}
      /\ UNCHANGED <<peer_made, peer_peer, peer_by, peer_tracked, peer_channel, peer_opened,
                     peer_torn>>
  BY DEF Conn!Closes
<1> QED
  BY <1>1, <1>2, <1>3, <1>4, SMT DEF ConnTypes, Conn!TypeOK, OpeningHasRoom, Conn!NoSocket

LEMMA RejectedTypes ==
  ASSUME ConnTypes, NEW s \in Conn!Sockets, Conn!Rejected(s)
  PROVE  ConnTypes'
<1>1. peer_linked' \in [Peers -> 0..peer_made]
  BY WithoutTyped DEF Conn!Rejected, ConnTypes
<1>2. UNCHANGED <<peer_made, peer_peer, peer_by, peer_state, peer_tracked, peer_channel,
                  peer_opened, peer_opening, peer_reconnect, peer_missing, peer_torn>>
  BY DEF Conn!Rejected, Conn!channels, Conn!sweep
<1> QED
  BY <1>1, <1>2 DEF ConnTypes, Conn!TypeOK, OpeningHasRoom

LEMMA DisconnectTypes ==
  ASSUME ConnTypes, NEW p \in Peers, Conn!DisconnectPeer(p)
  PROVE  ConnTypes'
<1>1. /\ peer_state' \in [1..peer_made -> {"opening", "handshake", "open", "closed"}]
      /\ peer_linked' \in [Peers -> 0..peer_made]
  BY WithoutTyped DEF Conn!DisconnectPeer, ConnTypes
<1>2. peer_tracked' \in [Peers -> 0..peer_made]
  BY SMT DEF ConnTypes, Conn!TypeOK, Conn!DisconnectPeer, Conn!NoSocket
<1>3. UNCHANGED <<peer_made, peer_peer, peer_by, peer_channel, peer_opened, peer_opening,
                  peer_reconnect, peer_missing, peer_torn>>
  BY DEF Conn!DisconnectPeer, Conn!channels, Conn!sweep
<1> QED
  BY <1>1, <1>2, <1>3 DEF ConnTypes, Conn!TypeOK, OpeningHasRoom

LEMMA ReconnectTypes ==
  ASSUME MaxSockets \in Nat, ConnTypes, NEW p \in Peers, Conn!ReconnectPeer(p)
  PROVE  ConnTypes'
<1> DEFINE old == {peer_tracked[p]}
<1>1. Conn!TypeOK /\ OpeningHasRoom /\ Conn!NewSocket(p, "reconnect")
  BY DEF ConnTypes, Conn!ReconnectPeer
<1>2. peer_made \in Nat /\ peer_made' = peer_made + 1
  BY <1>1, NewSocketType
<1>3. /\ Conn!StateWithout(old) \in [1..peer_made -> {"opening", "handshake", "open", "closed"}]
      /\ Conn!LinkedWithout(old) \in [Peers -> 0..peer_made]
  BY <1>1, WithoutTyped
<1>4. peer_state' = [s \in 1..peer_made + 1 |->
                       IF s = peer_made + 1 THEN "opening" ELSE Conn!StateWithout(old)[s]]
      /\ peer_linked' = Conn!LinkedWithout(old)
  BY DEF Conn!ReconnectPeer
<1> HIDE DEF old
<1>5. peer_state' \in [1..peer_made' -> {"opening", "handshake", "open", "closed"}]
  BY <1>2, <1>3, <1>4, SMT
<1>6. peer_linked' \in [Peers -> 0..peer_made']
  BY <1>2, <1>3, <1>4, RangeGrows
<1>7. /\ peer_missing' = peer_missing \ {p} /\ peer_reconnect' = "connecting"
      /\ UNCHANGED <<peer_tracked, Conn!channels, peer_torn>>
  BY DEF Conn!ReconnectPeer
<1>8. /\ peer_made' \in 0..MaxSockets /\ peer_peer' \in [1..peer_made' -> Peers]
      /\ peer_by' \in [1..peer_made' -> {"track", "reconnect"}]
      /\ peer_tracked \in [Peers -> 0..peer_made'] /\ peer_opening \in 0..peer_made'
  BY <1>1, NewSocketType
<1>9. /\ peer_missing' \subseteq Peers /\ peer_reconnect' \in {"idle", "reading", "connecting"}
  BY <1>1, <1>7 DEF Conn!TypeOK
<1>10. UNCHANGED <<peer_tracked, peer_channel, peer_opened, peer_opening, peer_torn>>
  BY <1>7 DEF Conn!channels
<1> QED
  BY <1>1, <1>5, <1>6, <1>8, <1>9, <1>10 DEF ConnTypes, Conn!TypeOK, OpeningHasRoom

LEMMA ConfirmOpenTypes ==
  ASSUME MaxSockets \in Nat, MaxChannels \in Nat, ConnTypes, NEW p \in Peers, Conn!ConfirmOpen(p)
  PROVE  ConnTypes'
<1>1. CASE /\ peer_channel' = peer_channel \union {p} /\ peer_opened' = peer_opened + 1
           /\ UNCHANGED <<peer_made, peer_peer, peer_by, peer_state, peer_opening>>
  BY <1>1, SMT DEF ConnTypes, Conn!TypeOK, OpeningHasRoom, Conn!ConfirmOpen, Conn!NoSocket,
     Conn!sweep
<1>2. CASE /\ Conn!NewSocket(p, "track") /\ peer_state' = Conn!Extended(peer_state, "opening")
           /\ peer_opening' = peer_made + 1 /\ UNCHANGED <<peer_channel, peer_opened>>
  <2>1. UNCHANGED <<peer_linked, peer_tracked, Conn!sweep, peer_torn>> /\ peer_opened < MaxChannels
    BY DEF Conn!ConfirmOpen
  <2>2. peer_opening' \in 0..peer_made'
    BY <1>2, NewSocketType, SMT DEF ConnTypes
  <2> QED
    BY <1>2, <2>1, <2>2, NewSocketType, SMT DEF ConnTypes, Conn!TypeOK, OpeningHasRoom,
       Conn!sweep
<1> QED
  BY <1>1, <1>2 DEF Conn!ConfirmOpen

LEMMA CreateTypes ==
  ASSUME MaxChannels \in Nat, ConnTypes, Conn!CreateChannel
  PROVE  ConnTypes'
<1>1. peer_opening \in 1..peer_made /\ peer_peer[peer_opening] \in Peers /\ peer_opened < MaxChannels
  BY SMT DEF ConnTypes, Conn!TypeOK, OpeningHasRoom, Conn!CreateChannel, Conn!NoSocket
<1>2. /\ UNCHANGED <<peer_made, peer_peer, peer_by, peer_state, peer_linked, peer_tracked,
                     Conn!sweep, peer_torn>>
      /\ peer_opening' = Conn!NoSocket
  BY DEF Conn!CreateChannel
<1>3. peer_channel' \subseteq Peers /\ peer_opened' \in 0..MaxChannels
  BY <1>1, SMT DEF ConnTypes, Conn!TypeOK, Conn!CreateChannel
<1> QED
  BY <1>2, <1>3, SMT DEF ConnTypes, Conn!TypeOK, OpeningHasRoom, Conn!NoSocket, Conn!sweep

LEMMA TeardownTypes ==
  ASSUME ConnTypes, Conn!Teardown
  PROVE  ConnTypes'
<1>1. /\ peer_state' \in [1..peer_made -> {"opening", "handshake", "open", "closed"}]
      /\ peer_linked' \in [Peers -> 0..peer_made]
  BY WithoutTyped DEF Conn!Teardown, ConnTypes
<1>2. peer_tracked' \in [Peers -> 0..peer_made]
  BY SMT DEF ConnTypes, Conn!TypeOK, Conn!Teardown, Conn!NoSocket
<1>3. /\ UNCHANGED <<peer_made, peer_peer, peer_by, peer_channel, peer_opened, peer_opening,
                     peer_reconnect, peer_missing>>
      /\ peer_torn' \in BOOLEAN
  BY DEF Conn!Teardown, Conn!channels, Conn!sweep
<1> QED
  BY <1>1, <1>2, <1>3 DEF ConnTypes, Conn!TypeOK, OpeningHasRoom

LEMMA ConnStepTypes ==
  ASSUME MaxSockets \in Nat, MaxChannels \in Nat, ConnTypes, [Conn!Next]_Conn!vars
  PROVE  ConnTypes'
<1>1. CASE \E p \in Peers : Conn!Connect(p)
  BY <1>1, ConnectTypes
<1>2. CASE \E p \in Peers : Conn!DisconnectPeer(p)
  BY <1>2, DisconnectTypes
<1>3. CASE \E p \in Peers : Conn!ReconnectPeer(p)
  BY <1>3, ReconnectTypes
<1>4. CASE \E p \in Peers : Conn!ConfirmOpen(p)
  BY <1>4, ConfirmOpenTypes
<1>5. CASE \E p \in Peers : Conn!ChannelCloses(p)
  BY <1>5, SMT DEF ConnTypes, Conn!TypeOK, OpeningHasRoom, Conn!ChannelCloses, Conn!sweep
<1>6. CASE \E s \in Conn!Sockets : Conn!Opens(s)
  BY <1>6, OpensTypes
<1>7. CASE \E s \in Conn!Sockets : Conn!Completes(s)
  BY <1>7, CompletesTypes
<1>8. CASE \E s \in Conn!Sockets : Conn!Closes(s)
  BY <1>8, ClosesTypes
<1>9. CASE \E s \in Conn!Sockets : Conn!Rejected(s)
  BY <1>9, RejectedTypes
<1>10. CASE Conn!MaybeReconnect
  BY <1>10, SMT DEF ConnTypes, Conn!TypeOK, OpeningHasRoom, Conn!MaybeReconnect, Conn!channels
<1>11. CASE Conn!NoneKnown
  BY <1>11, SMT DEF ConnTypes, Conn!TypeOK, OpeningHasRoom, Conn!NoneKnown, Conn!channels
<1>12. CASE Conn!CreateChannel
  BY <1>12, CreateTypes
<1>13. CASE Conn!Teardown
  BY <1>13, TeardownTypes
<1>14. CASE UNCHANGED Conn!vars
  BY <1>14 DEF ConnTypes, Conn!TypeOK, OpeningHasRoom, Conn!vars
<1> QED
  BY <1>1, <1>2, <1>3, <1>4, <1>5, <1>6, <1>7, <1>8, <1>9, <1>10, <1>11, <1>12, <1>13,
     <1>14 DEF Conn!Next

-----------------------------------------------------------------------------
(* The tracked socket. *)

\* Closing any sockets leaves each link as it is, or cuts it.
LEMMA WithoutLinks ==
  ASSUME NEW ss, NEW p \in Peers
  PROVE  /\ Conn!LinkedWithout(ss)[p] \in {Conn!NoSocket, peer_linked[p]}
         /\ peer_linked[p] \in ss => Conn!LinkedWithout(ss)[p] = Conn!NoSocket
BY SMT DEF Conn!LinkedWithout

\* A step that tracks the same sockets and at most cuts links keeps it.
LEMMA CutsKeep ==
  ASSUME Conn!NoUntrackedPeer, peer_tracked' = peer_tracked, peer_torn' = peer_torn,
         \A p \in Peers : peer_linked'[p] \in {Conn!NoSocket, peer_linked[p]}
  PROVE  Conn!NoUntrackedPeer'
BY DEF Conn!NoUntrackedPeer

LEMMA CompletesKeeps ==
  ASSUME Conn!TypeOK, Conn!NoUntrackedPeer, NEW s \in Conn!Sockets, Conn!Completes(s)
  PROVE  Conn!NoUntrackedPeer'
<1> DEFINE old == IF peer_by[s] = "track" THEN {peer_tracked[peer_peer[s]]} ELSE {}
<1>1. s \in 1..peer_made /\ peer_peer[s] \in Peers /\ peer_torn' = peer_torn
  BY SMT DEF Conn!Completes, Conn!Completed, Conn!TypeOK
<1>2. peer_linked' = [Conn!LinkedWithout(old) EXCEPT ![peer_peer[s]] = s]
  BY DEF Conn!Completes, Conn!Completed
<1>3. peer_tracked' = [peer_tracked EXCEPT ![peer_peer[s]] = s]
  BY <1>1, SMT DEF Conn!Completes, Conn!Completed, Conn!TypeOK
<1>4. DOMAIN Conn!LinkedWithout(old) = Peers
  BY SMT DEF Conn!LinkedWithout
<1>5. \A p \in Peers : Conn!LinkedWithout(old)[p] \in {Conn!NoSocket, peer_linked[p]}
  BY WithoutLinks
<1> HIDE DEF old
<1>6. \A p \in Peers : peer_linked'[p] = IF p = peer_peer[s] THEN s ELSE Conn!LinkedWithout(old)[p]
  BY <1>2, <1>4, SMT
<1>7. \A p \in Peers : peer_tracked'[p] = IF p = peer_peer[s] THEN s ELSE peer_tracked[p]
  BY <1>3, SMT DEF Conn!TypeOK
<1> QED
  BY <1>1, <1>5, <1>6, <1>7, SMT DEF Conn!NoUntrackedPeer

LEMMA DisconnectKeeps ==
  ASSUME Conn!TypeOK, Conn!NoUntrackedPeer, NEW q \in Peers, Conn!DisconnectPeer(q)
  PROVE  Conn!NoUntrackedPeer'
<1>1. /\ peer_linked' = Conn!LinkedWithout({peer_tracked[q]}) /\ peer_torn' = peer_torn /\ ~peer_torn
      /\ peer_tracked' = [peer_tracked EXCEPT ![q] = Conn!NoSocket]
  BY DEF Conn!DisconnectPeer
<1>2. peer_linked'[q] = Conn!NoSocket
  <2>1. peer_linked[q] \in {Conn!NoSocket, peer_tracked[q]}
    BY <1>1 DEF Conn!NoUntrackedPeer
  <2> QED
    BY <1>1, <2>1, WithoutLinks
<1>3. \A p \in Peers : peer_linked'[p] \in {Conn!NoSocket, peer_linked[p]}
  BY <1>1, WithoutLinks
<1>4. \A p \in Peers : peer_tracked'[p] = IF p = q THEN Conn!NoSocket ELSE peer_tracked[p]
  BY <1>1, SMT DEF Conn!TypeOK
<1> QED
  BY <1>1, <1>2, <1>3, <1>4, SMT DEF Conn!NoUntrackedPeer

LEMMA StepKeepsTracked ==
  ASSUME Conn!TypeOK, Conn!NoUntrackedPeer, [Conn!Next]_Conn!vars
  PROVE  Conn!NoUntrackedPeer'
<1>1. CASE UNCHANGED <<peer_linked, peer_tracked, peer_torn>>
  BY <1>1 DEF Conn!NoUntrackedPeer
<1>2. CASE \E p \in Peers : Conn!Connect(p) \/ Conn!ConfirmOpen(p) \/ Conn!ChannelCloses(p)
  BY <1>1, <1>2 DEF Conn!Connect, Conn!ConfirmOpen, Conn!ChannelCloses
<1>3. CASE \E p \in Peers : Conn!DisconnectPeer(p)
  BY <1>3, DisconnectKeeps
<1>4. CASE \E p \in Peers : Conn!ReconnectPeer(p)
  BY <1>4, WithoutLinks, CutsKeep DEF Conn!ReconnectPeer
<1>5. CASE \E s \in Conn!Sockets : Conn!Completes(s)
  BY <1>5, CompletesKeeps
<1>6. CASE \E s \in Conn!Sockets : Conn!Closes(s) \/ Conn!Rejected(s)
  BY <1>6, WithoutLinks, CutsKeep DEF Conn!Closes, Conn!Rejected
<1>7. CASE \/ \E s \in Conn!Sockets : Conn!Opens(s)
           \/ Conn!MaybeReconnect \/ Conn!NoneKnown \/ Conn!CreateChannel
  BY <1>1, <1>7 DEF Conn!Opens, Conn!MaybeReconnect, Conn!NoneKnown, Conn!CreateChannel
<1>8. CASE Conn!Teardown
  BY <1>8 DEF Conn!Teardown, Conn!NoUntrackedPeer
<1>9. CASE UNCHANGED Conn!vars
  BY <1>1, <1>9 DEF Conn!vars
<1> QED
  BY <1>2, <1>3, <1>4, <1>5, <1>6, <1>7, <1>8, <1>9 DEF Conn!Next

ConnInv == ConnTypes /\ Conn!NoUntrackedPeer

LEMMA ConnKept ==
  /\ SessionInit => ConnInv
  /\ ConnInv /\ [SessionNext]_sessionVars => ConnInv'
<1>1. SessionInit => ConnInv
  <2>1. Conn!Init => ConnTypes
    BY ConnectionBounds, ConnInitTypes
  <2>2. Conn!Init => Conn!NoUntrackedPeer
    BY SMT DEF Conn!Init, Conn!NoUntrackedPeer
  <2> QED
    BY <2>1, <2>2 DEF SessionInit, ConnInv
<1>2. ConnInv /\ [SessionNext]_sessionVars => ConnInv'
  BY ConnectionBounds, PeersMove, ConnStepTypes, StepKeepsTracked DEF ConnInv, ConnTypes
<1> QED
  BY <1>1, <1>2

\* Until the teardown, LDK talks to a peer over the socket that is tracked for
\* it, for any number of peers and connections (connectAndTrack, reconnectPeers,
\* disconnectPeer).
THEOREM TrackedIsLinked == SessionSpec => []NoUntrackedPeer
<1>1. ConnInv => NoUntrackedPeer
  BY DEF ConnInv, NoUntrackedPeer
<1> QED
  BY <1>1, ConnKept, PTL DEF SessionSpec

-----------------------------------------------------------------------------
(* Known peers.                                                            *)
(*                                                                         *)
(* A sync is pending if it will read the peers (again), or will put those  *)
(* of now, or will be refused.  The argument: unless a sync gave up, there *)
(* is a pending one, or the server has the peers and no sync will put.  It *)
(* needs that no sync holds a version the server has not reached.          *)

SyncPhases == {"read", "put", "done", "conflict", "get", "got", "over"}
SyncStates == [pc : SyncPhases, val : SUBSET Peers, ver : Nat, retry : BOOLEAN]

SyncTypes ==
  /\ known_local \subseteq Peers /\ known_server \in [ver : Nat, val : SUBSET Peers]
  /\ known_version \in Nat /\ known_begun \in 0..MaxSyncs /\ known_missed \in BOOLEAN
  /\ known_sync \in [KnownP!Syncs -> SyncStates]

\* No version is ahead of the server's, and one whose put was taken is behind it.
SyncVersionOf(s) ==
  /\ s.pc \in {"put", "got"} => s.ver <= known_server.ver
  /\ s.pc = "done" => s.ver < known_server.ver
SyncVersions ==
  known_version <= known_server.ver /\ \A n \in KnownP!Syncs : SyncVersionOf(known_sync[n])

SyncPending(s) ==
  \/ s.pc \in {"read", "conflict", "get", "got"}
  \/ s.pc = "put" /\ (s.val = known_local \/ s.ver # known_server.ver)

SyncsSettled ==
  known_server.val = known_local /\ \A n \in KnownP!Syncs : known_sync[n].pc \in {"done", "over"}
PeersCarried ==
  known_missed \/ (\E n \in KnownP!Syncs : SyncPending(known_sync[n])) \/ SyncsSettled

KnownInv == SyncTypes /\ SyncVersions /\ PeersCarried

(* A state of a sync with one part changed. *)

LEMMA PcSet ==
  ASSUME NEW s \in SyncStates, NEW p \in SyncPhases
  PROVE  /\ [s EXCEPT !.pc = p] \in SyncStates
         /\ [s EXCEPT !.pc = p].pc = p /\ [s EXCEPT !.pc = p].ver = s.ver
BY SMT DEF SyncStates

LEMMA VerSet ==
  ASSUME NEW s \in SyncStates, NEW v \in Nat
  PROVE  /\ [s EXCEPT !.ver = v] \in SyncStates
         /\ [s EXCEPT !.ver = v].pc = s.pc /\ [s EXCEPT !.ver = v].ver = v
         /\ [s EXCEPT !.ver = v].val = s.val
BY SMT DEF SyncStates

LEMMA ValSet ==
  ASSUME NEW s \in SyncStates, NEW v \in SUBSET Peers
  PROVE  /\ [s EXCEPT !.val = v] \in SyncStates
         /\ [s EXCEPT !.val = v].pc = s.pc /\ [s EXCEPT !.val = v].val = v
BY SMT DEF SyncStates

LEMMA RetrySet ==
  ASSUME NEW s \in SyncStates, NEW r \in BOOLEAN
  PROVE  [s EXCEPT !.retry = r] \in SyncStates /\ [s EXCEPT !.retry = r].pc = s.pc
BY SMT DEF SyncStates

LEMMA IdleState == KnownP!Idle \in SyncStates /\ KnownP!Idle.pc = "over"
BY SMT DEF KnownP!Idle, SyncStates, SyncPhases

\* A step of one sync that leaves the peers and the server alone keeps the
\* invariant if the sync is pending after it, or gave up.
LEMMA OneMoves ==
  ASSUME MaxSyncs \in Nat, KnownInv, NEW n \in KnownP!Syncs,
         NEW new \in SyncStates,
         known_sync' = [known_sync EXCEPT ![n] = new],
         UNCHANGED <<known_local, known_server, known_begun>>,
         known_version' \in Nat, known_version' <= known_server.ver, SyncVersionOf(new),
         known_missed' \in BOOLEAN,
         \/ known_missed'
         \/ known_missed' = known_missed /\ SyncPending(new)
         \/ known_missed' = known_missed /\ known_sync[n].pc = "done" /\ new.pc = "over"
  PROVE  KnownInv'
<1>1. SyncTypes /\ SyncVersions /\ PeersCarried
  BY DEF KnownInv
<1>2. SyncTypes'
  BY <1>1, SMT DEF SyncTypes
<1>3. \A m \in KnownP!Syncs : known_sync'[m] = IF m = n THEN new ELSE known_sync[m]
  BY <1>1, SMT DEF SyncTypes
<1>4. SyncVersions'
  BY <1>1, <1>3, SMT DEF SyncVersions, SyncVersionOf
<1>6. CASE known_missed'
  BY <1>2, <1>4, <1>6 DEF KnownInv, PeersCarried
<1>7. CASE known_missed' = known_missed /\ SyncPending(new)
  <2>1. known_sync'[n] = new
    BY <1>3
  <2>2. (\E m \in KnownP!Syncs : SyncPending(known_sync[m]))'
    BY <1>7, <2>1 DEF SyncPending
  <2> QED
    BY <1>2, <1>4, <2>2 DEF KnownInv, PeersCarried
<1>8. CASE known_missed' = known_missed /\ known_sync[n].pc = "done" /\ new.pc = "over"
  <2>1. CASE known_missed
    BY <1>2, <1>4, <1>8, <2>1 DEF KnownInv, PeersCarried
  <2>2. CASE \E m \in KnownP!Syncs : SyncPending(known_sync[m])
    <3>1. PICK m \in KnownP!Syncs : SyncPending(known_sync[m])
      BY <2>2
    <3>2. m # n
      BY <1>8, <3>1 DEF SyncPending
    <3>3. known_sync'[m] = known_sync[m]
      BY <1>3, <3>2
    <3>4. (\E k \in KnownP!Syncs : SyncPending(known_sync[k]))'
      BY <3>1, <3>3 DEF SyncPending
    <3> QED
      BY <1>2, <1>4, <3>4 DEF KnownInv, PeersCarried
  <2>3. CASE SyncsSettled
    <3>1. SyncsSettled'
      BY <1>3, <1>8, <2>3 DEF SyncsSettled
    <3> QED
      BY <1>2, <1>4, <3>1 DEF KnownInv, PeersCarried
  <2> QED
    BY <1>1, <2>1, <2>2, <2>3 DEF PeersCarried
<1> QED
  BY <1>6, <1>7, <1>8

LEMMA SyncType ==
  ASSUME SyncTypes, NEW n \in KnownP!Syncs
  PROVE  /\ known_sync[n] \in SyncStates
         /\ known_server.ver \in Nat /\ known_server.val \in SUBSET Peers /\ known_local \in SUBSET Peers
BY SMT DEF SyncTypes

\* A change of the peers starts a sync that will read them.
LEMMA ChangeKeeps ==
  ASSUME MaxSyncs \in Nat, KnownInv, NEW new \in SUBSET Peers, KnownP!Change(new)
  PROVE  KnownInv'
<1> DEFINE s == [KnownP!Idle EXCEPT !.pc = "read"]
<1>1. SyncTypes /\ SyncVersions
  BY DEF KnownInv
<1>2. known_begun + 1 \in KnownP!Syncs /\ known_begun' = known_begun + 1 /\ known_local' = new
      /\ UNCHANGED <<known_server, known_version, known_missed>>
  BY <1>1, SMT DEF KnownP!Change, SyncTypes, KnownP!Syncs
<1>3. PICK k \in KnownP!Syncs : k = known_begun + 1
  BY <1>2
<1>4. s \in SyncStates /\ s.pc = "read"
  BY IdleState, PcSet DEF SyncPhases
<1>5. known_sync' = [known_sync EXCEPT ![k] = s]
  BY <1>3 DEF KnownP!Change
<1> HIDE DEF s
<1>6. \A m \in KnownP!Syncs : known_sync'[m] = IF m = k THEN s ELSE known_sync[m]
  BY <1>1, <1>5, SMT DEF SyncTypes
<1>7. SyncTypes'
  BY <1>1, <1>2, <1>4, <1>5, SMT DEF SyncTypes, KnownP!Syncs
<1>8. SyncVersions'
  BY <1>1, <1>2, <1>4, <1>6, SMT DEF SyncVersions, SyncVersionOf
<1>9. known_sync'[k].pc = "read"
  BY <1>4, <1>6
<1>10. PeersCarried'
  BY <1>9 DEF PeersCarried, SyncPending
<1> QED
  BY <1>7, <1>8, <1>10 DEF KnownInv

LEMMA ReadKeeps ==
  ASSUME MaxSyncs \in Nat, KnownInv, NEW n \in KnownP!Syncs, KnownP!ReadAndPut(n)
  PROVE  KnownInv'
<1> DEFINE new == [known_sync[n] EXCEPT !.pc = "put", !.val = known_local, !.ver = known_version]
<1>1. SyncTypes /\ SyncVersions
  BY DEF KnownInv
<1>2. new \in SyncStates
      /\ new.pc = "put" /\ new.val = known_local /\ new.ver = known_version
  <2> DEFINE a == [known_sync[n] EXCEPT !.pc = "put"]
             b == [a EXCEPT !.val = known_local]
  <2>1. known_sync[n] \in SyncStates /\ known_local \in SUBSET Peers /\ known_version \in Nat
    BY <1>1, SyncType DEF SyncTypes
  <2>2. a \in SyncStates /\ a.pc = "put"
    BY <2>1, PcSet DEF SyncPhases
  <2>3. new = [b EXCEPT !.ver = known_version]
    OBVIOUS
  <2> HIDE DEF a
  <2>4. b \in SyncStates /\ b.pc = "put" /\ b.val = known_local
    BY <2>1, <2>2, ValSet
  <2> HIDE DEF b
  <2> QED
    BY <2>1, <2>3, <2>4, VerSet
<1>3. /\ known_sync' = [known_sync EXCEPT ![n] = new]
      /\ UNCHANGED <<known_local, known_server, known_version, known_begun, known_missed>>
  BY DEF KnownP!ReadAndPut
<1> HIDE DEF new
<1>4. SyncVersionOf(new) /\ SyncPending(new) /\ known_version' \in Nat /\ known_version' <= known_server.ver
      /\ known_missed' \in BOOLEAN
  BY <1>1, <1>2, <1>3 DEF SyncVersionOf, SyncPending, SyncVersions, SyncTypes
<1> QED
  BY <1>2, <1>3, <1>4, OneMoves

\* A put that is taken, of the peers of now or of earlier ones.
LEMMA TakenKeeps ==
  ASSUME MaxSyncs \in Nat, KnownInv, NEW n \in KnownP!Syncs, KnownP!PutArrives(n),
         known_sync[n].ver = known_server.ver
  PROVE  KnownInv'
<1> DEFINE new == [known_sync[n] EXCEPT !.pc = "done"]
<1>1. SyncTypes /\ SyncVersions /\ PeersCarried
  BY DEF KnownInv
<1>2. known_sync[n].pc = "put" /\ known_server' = [ver |-> known_server.ver + 1, val |-> known_sync[n].val]
      /\ known_sync' = [known_sync EXCEPT ![n].pc = "done"]
      /\ UNCHANGED <<known_local, known_version, known_begun, known_missed>>
  BY DEF KnownP!PutArrives, KnownP!Moved
<1>3. known_sync[n] \in SyncStates /\ known_server.ver \in Nat
  BY <1>1, SyncType
<1>4. new \in SyncStates
      /\ new.pc = "done" /\ new.ver = known_sync[n].ver
  BY <1>3, PcSet DEF SyncPhases
<1>5. known_sync' = [known_sync EXCEPT ![n] = new]
  BY <1>2
<1> HIDE DEF new
<1>6. \A m \in KnownP!Syncs : known_sync'[m] = IF m = n THEN new ELSE known_sync[m]
  BY <1>1, <1>5, SMT DEF SyncTypes
<1>7. known_server'.ver = known_server.ver + 1 /\ known_server'.val = known_sync[n].val
      /\ known_server' \in [ver : Nat, val : SUBSET Peers]
  BY <1>2, <1>3, SMT DEF SyncStates
<1>8. SyncTypes'
  BY <1>1, <1>2, <1>4, <1>5, <1>7, SMT DEF SyncTypes
<1>9. \A m \in KnownP!Syncs : known_sync[m].ver \in Nat /\ known_sync[m].pc \in SyncPhases
  BY <1>1, SMT DEF SyncTypes, SyncStates
<1>10. SyncVersions'
  BY <1>1, <1>2, <1>3, <1>4, <1>6, <1>7, <1>9, SMT DEF SyncVersions, SyncVersionOf, SyncTypes
<1>11. \A m \in KnownP!Syncs : m # n /\ known_sync[m].pc \notin {"done", "over"} => SyncPending(known_sync[m])'
  <2> SUFFICES ASSUME NEW m \in KnownP!Syncs, m # n, known_sync[m].pc \notin {"done", "over"}
               PROVE  SyncPending(known_sync[m])'
    OBVIOUS
  <2>1. known_sync'[m] = known_sync[m] /\ known_sync[m].pc \in {"read", "conflict", "get", "got", "put"}
    BY <1>6, <1>9 DEF SyncPhases
  <2>2. known_sync[m].pc = "put" => known_sync[m].ver # known_server'.ver
    BY <1>1, <1>3, <1>7, <1>9, SMT DEF SyncVersions, SyncVersionOf
  <2> QED
    BY <2>1, <2>2 DEF SyncPending
<1>12. PeersCarried'
  <2>1. CASE \E m \in KnownP!Syncs : m # n /\ known_sync[m].pc \notin {"done", "over"}
    BY <1>11, <2>1 DEF PeersCarried
  <2>2. CASE \A m \in KnownP!Syncs : m = n \/ known_sync[m].pc \in {"done", "over"}
    <3>1. CASE known_sync[n].val = known_local
      <4>1. SyncsSettled'
        BY <1>2, <1>4, <1>6, <1>7, <2>2, <3>1 DEF SyncsSettled
      <4> QED
        BY <4>1 DEF PeersCarried
    <3>2. CASE known_sync[n].val # known_local
      <4>1. \A m \in KnownP!Syncs : ~SyncPending(known_sync[m])
        BY <1>2, <2>2, <3>2 DEF SyncPending
      <4>2. ~SyncsSettled
        BY <1>2 DEF SyncsSettled
      <4> QED
        BY <1>1, <1>2, <4>1, <4>2 DEF PeersCarried
    <3> QED
      BY <3>1, <3>2
  <2> QED
    BY <2>1, <2>2
<1> QED
  BY <1>8, <1>10, <1>12 DEF KnownInv

\* The steps that move one sync on.
LEMMA MovesKeep ==
  ASSUME MaxSyncs \in Nat, KnownInv, NEW n \in KnownP!Syncs,
         \/ KnownP!PutArrives(n) /\ known_sync[n].ver # known_server.ver
         \/ KnownP!PutAnswered(n) \/ KnownP!Conflict(n) \/ KnownP!GetArrives(n)
         \/ KnownP!GetAnswered(n) \/ KnownP!Fails(n)
  PROVE  KnownInv'
<1>1. SyncTypes /\ SyncVersions /\ SyncVersionOf(known_sync[n])
  BY DEF KnownInv, SyncVersions
<1>2. /\ known_sync[n] \in SyncStates
      /\ known_server.ver \in Nat /\ known_version \in Nat /\ known_version <= known_server.ver
      /\ known_missed \in BOOLEAN
  BY <1>1, SyncType DEF SyncTypes, SyncVersions
<1>3. KnownP!Idle \in SyncStates
      /\ KnownP!Idle.pc = "over" /\ SyncVersionOf(KnownP!Idle)
  BY IdleState DEF SyncVersionOf
<1>4. CASE KnownP!PutArrives(n) /\ known_sync[n].ver # known_server.ver
  <2> DEFINE new == [known_sync[n] EXCEPT !.pc = "conflict"]
  <2>1. /\ known_sync' = [known_sync EXCEPT ![n] = new]
        /\ UNCHANGED <<known_local, known_server, known_version, known_begun, known_missed>>
    BY <1>4 DEF KnownP!PutArrives, KnownP!Moved
  <2>2. new \in SyncStates /\ new.pc = "conflict"
    BY <1>2, PcSet DEF SyncPhases
  <2> HIDE DEF new
  <2>3. SyncVersionOf(new) /\ SyncPending(new)
    BY <2>2 DEF SyncVersionOf, SyncPending
  <2> QED
    BY <1>2, <2>1, <2>2, <2>3, OneMoves
<1>5. CASE KnownP!PutAnswered(n)
  <2>1. /\ known_sync' = [known_sync EXCEPT ![n] = KnownP!Idle]
        /\ UNCHANGED <<known_local, known_server, known_begun, known_missed>>
        /\ known_sync[n].pc = "done" /\ known_version' = known_sync[n].ver + 1
    BY <1>5 DEF KnownP!PutAnswered
  <2>2. known_version' \in Nat /\ known_version' <= known_server.ver
    BY <1>1, <1>2, <2>1, SMT DEF SyncVersionOf, SyncStates
  <2> QED
    BY <1>2, <1>3, <2>1, <2>2, OneMoves
<1>6. CASE KnownP!Conflict(n)
  <2>1. CASE known_sync[n].retry
    <3>1. known_sync' = [known_sync EXCEPT ![n] = KnownP!Idle] /\ known_missed' = TRUE
          /\ UNCHANGED <<known_local, known_server, known_version, known_begun>>
      BY <1>6, <2>1 DEF KnownP!Conflict
    <3> QED
      BY <1>2, <1>3, <3>1, OneMoves
  <2>2. CASE ~known_sync[n].retry
    <3> DEFINE new == [known_sync[n] EXCEPT !.pc = "get", !.retry = TRUE]
    <3>1. /\ known_sync' = [known_sync EXCEPT ![n] = new]
          /\ UNCHANGED <<known_local, known_server, known_version, known_begun, known_missed>>
      BY <1>6, <2>2 DEF KnownP!Conflict
    <3>2. new \in SyncStates /\ new.pc = "get"
      <4> DEFINE a == [known_sync[n] EXCEPT !.pc = "get"]
      <4>1. a \in SyncStates /\ a.pc = "get"
        BY <1>2, PcSet DEF SyncPhases
      <4>2. new = [a EXCEPT !.retry = TRUE]
        OBVIOUS
      <4> HIDE DEF a
      <4> QED
        BY <4>1, <4>2, RetrySet
    <3> HIDE DEF new
    <3>3. SyncVersionOf(new) /\ SyncPending(new)
      BY <3>2 DEF SyncVersionOf, SyncPending
    <3> QED
      BY <1>2, <3>1, <3>2, <3>3, OneMoves
  <2> QED
    BY <2>1, <2>2
<1>7. CASE KnownP!GetArrives(n)
  <2> DEFINE new == [known_sync[n] EXCEPT !.pc = "got", !.ver = known_server.ver]
  <2>1. /\ known_sync' = [known_sync EXCEPT ![n] = new]
        /\ UNCHANGED <<known_local, known_server, known_version, known_begun, known_missed>>
    BY <1>7 DEF KnownP!GetArrives
  <2>2. new \in SyncStates
        /\ new.pc = "got" /\ new.ver = known_server.ver
    <3> DEFINE a == [known_sync[n] EXCEPT !.pc = "got"]
    <3>1. a \in SyncStates /\ a.pc = "got"
      BY <1>2, PcSet DEF SyncPhases
    <3>2. new = [a EXCEPT !.ver = known_server.ver]
      OBVIOUS
    <3> HIDE DEF a
    <3> QED
      BY <1>2, <3>1, <3>2, VerSet
  <2> HIDE DEF new
  <2>3. SyncVersionOf(new) /\ SyncPending(new)
    BY <1>2, <2>2, SMT DEF SyncVersionOf, SyncPending
  <2> QED
    BY <1>2, <2>1, <2>2, <2>3, OneMoves
<1>8. CASE KnownP!GetAnswered(n)
  <2> DEFINE new == [known_sync[n] EXCEPT !.pc = "read"]
  <2>1. /\ known_sync' = [known_sync EXCEPT ![n] = new]
        /\ UNCHANGED <<known_local, known_server, known_begun, known_missed>>
        /\ known_version' = known_sync[n].ver /\ known_sync[n].pc = "got"
    BY <1>8 DEF KnownP!GetAnswered, KnownP!Moved
  <2>2. new \in SyncStates /\ new.pc = "read"
    BY <1>2, PcSet DEF SyncPhases
  <2> HIDE DEF new
  <2>3. SyncVersionOf(new) /\ SyncPending(new) /\ known_version' \in Nat /\ known_version' <= known_server.ver
    BY <1>1, <1>2, <2>1, <2>2, SMT DEF SyncVersionOf, SyncPending, SyncStates
  <2> QED
    BY <1>2, <2>1, <2>2, <2>3, OneMoves
<1>9. CASE KnownP!Fails(n)
  <2>1. known_sync' = [known_sync EXCEPT ![n] = KnownP!Idle] /\ known_missed' = TRUE
        /\ UNCHANGED <<known_local, known_server, known_version, known_begun>>
    BY <1>9 DEF KnownP!Fails
  <2> QED
    BY <1>2, <1>3, <2>1, OneMoves
<1> QED
  BY <1>4, <1>5, <1>6, <1>7, <1>8, <1>9

LEMMA KnownKept ==
  ASSUME MaxSyncs \in Nat, KnownInv, [KnownP!Next]_KnownP!vars
  PROVE  KnownInv'
<1>1. CASE \E p \in Peers : KnownP!PutPeer(p)
  BY <1>1, ChangeKeeps, SMT DEF KnownP!PutPeer, KnownInv, SyncTypes
<1>2. CASE \E p \in Peers : KnownP!DeletePeer(p)
  BY <1>2, ChangeKeeps, SMT DEF KnownP!DeletePeer, KnownInv, SyncTypes
<1>3. CASE \E n \in KnownP!Syncs : KnownP!ReadAndPut(n)
  BY <1>3, ReadKeeps
<1>4. CASE \E n \in KnownP!Syncs : KnownP!PutArrives(n)
  BY <1>4, TakenKeeps, MovesKeep
<1>5. CASE \E n \in KnownP!Syncs :
             \/ KnownP!PutAnswered(n) \/ KnownP!Conflict(n) \/ KnownP!GetArrives(n)
             \/ KnownP!GetAnswered(n) \/ KnownP!Fails(n)
  BY <1>5, MovesKeep
<1>6. CASE UNCHANGED KnownP!vars
  BY <1>6 DEF KnownInv, SyncTypes, SyncVersions, SyncVersionOf, PeersCarried, SyncPending,
     SyncsSettled, KnownP!vars
<1> QED
  BY <1>1, <1>2, <1>3, <1>4, <1>5, <1>6 DEF KnownP!Next

\* A step of the session is one of the known peers, or leaves them alone.
LEMMA KnownMoves ==
  ASSUME [SessionNext]_sessionVars PROVE [KnownP!Next]_(KnownP!vars)
<1>1. CASE UNCHANGED sessionVars
  BY <1>1 DEF sessionVars, knownVars, KnownP!vars
<1>2. CASE SessionNext
  <2>1. part # "known" => UNCHANGED knownVars
    BY <1>2 DEF SessionNext, Rest
  <2>2. part = "known" => KnownP!Next
    BY <1>2 DEF SessionNext
  <2> QED
    BY <2>1, <2>2 DEF knownVars, KnownP!vars
<1> QED
  BY <1>1, <1>2

LEMMA KnownHolds ==
  /\ SessionInit => KnownInv
  /\ KnownInv /\ [SessionNext]_sessionVars => KnownInv'
<1>1. SessionInit => KnownInv
  <2> SUFFICES ASSUME KnownP!Init PROVE KnownInv
    BY DEF SessionInit
  <2>1. KnownP!Idle \in SyncStates /\ KnownP!Idle.pc = "over"
        /\ known_sync \in [KnownP!Syncs -> SyncStates]
    BY IdleState, SMT DEF KnownP!Init
  <2>2. \A n \in KnownP!Syncs : known_sync[n] = KnownP!Idle
    BY DEF KnownP!Init
  <2>3. SyncTypes
    <3>1. known_server \in [ver : Nat, val : SUBSET Peers]
      BY SMT DEF KnownP!Init
    <3>2. known_begun \in 0..MaxSyncs
      BY ConnectionBounds, SMT DEF KnownP!Init
    <3>3. known_local \subseteq Peers /\ known_version \in Nat /\ known_missed \in BOOLEAN
      BY DEF KnownP!Init
    <3> QED
      BY <2>1, <3>1, <3>2, <3>3 DEF SyncTypes
  <2>4. SyncVersions
    BY <2>1, <2>2, SMT DEF KnownP!Init, SyncVersions, SyncVersionOf
  <2>5. SyncsSettled
    BY <2>1, <2>2, SMT DEF KnownP!Init, SyncsSettled
  <2> QED
    BY <2>3, <2>4, <2>5 DEF KnownInv, PeersCarried
<1>2. KnownInv /\ [SessionNext]_sessionVars => KnownInv'
  BY ConnectionBounds, KnownMoves, KnownKept
<1> QED
  BY <1>1, <1>2

\* When no sync is under way and none gave up, the server has the stored peers,
\* however many syncs overlapped and were refused (syncPeersToVss).
THEOREM ServerHasPeers == SessionSpec => []PeersOnServer
<1>1. KnownInv => PeersOnServer
  BY DEF KnownInv, PeersCarried, SyncPending, SyncsSettled, PeersOnServer, KnownP!PeersOnServer
<1> QED
  BY <1>1, KnownHolds, PTL DEF SessionSpec

\* The bound of the versions: each sync that may still put raises the server's
\* version at most once, and no version of a sync is ahead of the server's.
MayPut(f) == {n \in KnownP!Syncs : f[n].pc \in {"read", "put", "conflict", "get", "got"}}

VersionsBounded ==
  /\ known_troubles \in 0..MaxTroubles
  /\ \A n \in KnownP!Syncs : known_sync[n].ver <= known_server.ver
  /\ \A n \in KnownP!Syncs : n > known_begun => known_sync[n].pc = "over"
  /\ known_server.ver + Cardinality(MayPut(known_sync)) <= known_begun

LEMMA MayPutFinite ==
  ASSUME NEW f
  PROVE  IsFiniteSet(MayPut(f)) /\ Cardinality(MayPut(f)) \in Nat
<1>1. IsFiniteSet(KnownP!Syncs)
  BY ConnectionBounds, FS_Interval DEF KnownP!Syncs
<1>2. MayPut(f) \in SUBSET KnownP!Syncs
  BY DEF MayPut
<1> QED
  BY <1>1, <1>2, FS_Subset, FS_CardinalityType

LEMMA MayPutShrinks ==
  ASSUME NEW f, NEW g, MayPut(g) \subseteq MayPut(f)
  PROVE  Cardinality(MayPut(g)) <= Cardinality(MayPut(f))
  BY MayPutFinite, FS_Subset

\* What holds of the steps that move one sync on without a put.
LEMMA OneMovesBounded ==
  ASSUME SyncTypes, VersionsBounded, NEW n \in KnownP!Syncs, NEW new \in SyncStates,
         known_sync' = [known_sync EXCEPT ![n] = new],
         UNCHANGED <<known_server, known_begun>>, known_troubles' \in 0..MaxTroubles,
         known_sync[n].pc # "over", new.ver <= known_server.ver,
         new.pc \notin {"done", "over"} => known_sync[n].pc # "done"
  PROVE  VersionsBounded'
<1>1. \A m \in KnownP!Syncs : known_sync'[m] = IF m = n THEN new ELSE known_sync[m]
  BY SMT DEF SyncTypes
<1>2. known_sync[n].pc \in SyncPhases /\ new.pc \in SyncPhases
  BY SMT DEF SyncTypes, SyncStates
<1>3. MayPut(known_sync') \subseteq MayPut(known_sync)
  BY <1>1, <1>2 DEF MayPut, SyncPhases
<1>4. \A m \in KnownP!Syncs : (known_sync[m].ver <= known_server.ver)'
  BY <1>1 DEF VersionsBounded
<1>5. \A m \in KnownP!Syncs : (m > known_begun => known_sync[m].pc = "over")'
  BY <1>1 DEF VersionsBounded
<1>6. known_server.ver + Cardinality(MayPut(known_sync')) <= known_begun
  <2> DEFINE a == Cardinality(MayPut(known_sync))  b == Cardinality(MayPut(known_sync'))
  <2>1. a \in Nat /\ b \in Nat /\ b <= a
    BY <1>3, MayPutFinite, MayPutShrinks
  <2>2. known_server.ver + a <= known_begun /\ known_server.ver \in Nat /\ known_begun \in Nat
    BY SMT DEF VersionsBounded, SyncTypes
  <2> HIDE DEF a, b
  <2>3. known_server.ver + b <= known_begun
    BY <2>1, <2>2
  <2> QED
    BY <2>3 DEF b
<1> QED
  BY <1>4, <1>5, <1>6 DEF VersionsBounded

LEMMA ChangeBounded ==
  ASSUME SyncTypes, VersionsBounded, NEW new, KnownP!Change(new)
  PROVE  VersionsBounded'
<1> DEFINE s == [KnownP!Idle EXCEPT !.pc = "read"]
           k == known_begun + 1
           a == Cardinality(MayPut(known_sync))  b == Cardinality(MayPut(known_sync'))
<1>1. /\ known_begun < MaxSyncs /\ known_begun' = k /\ known_sync' = [known_sync EXCEPT ![k] = s]
      /\ UNCHANGED <<known_server, known_troubles>>
  BY DEF KnownP!Change
<1>2. known_begun \in Nat /\ k \in KnownP!Syncs /\ k > known_begun
  BY <1>1, ConnectionBounds DEF SyncTypes, KnownP!Syncs
<1>3. s.pc = "read" /\ s.ver = 0
  BY DEF KnownP!Idle
<1> HIDE DEF s
<1>4. \A m \in KnownP!Syncs : known_sync'[m] = IF m = k THEN s ELSE known_sync[m]
  BY <1>1, SMT DEF SyncTypes
<1>5. MayPut(known_sync') = MayPut(known_sync) \cup {k} /\ k \notin MayPut(known_sync)
  BY <1>2, <1>3, <1>4 DEF MayPut, VersionsBounded
<1>6. a \in Nat /\ b = a + 1
  BY <1>5, MayPutFinite, FS_AddElement
<1>7. known_server.ver + a <= known_begun /\ known_server.ver \in Nat
  BY SMT DEF VersionsBounded, SyncTypes
<1> HIDE DEF a, b
<1>8. known_server.ver + b <= k
  BY <1>2, <1>6, <1>7
<1>9. \A m \in KnownP!Syncs : (known_sync[m].ver <= known_server.ver)'
  BY <1>1, <1>3, <1>4, <1>7 DEF VersionsBounded
<1>10. \A m \in KnownP!Syncs : (m > known_begun => known_sync[m].pc = "over")'
  <2> SUFFICES ASSUME NEW m \in KnownP!Syncs, m > k PROVE known_sync'[m].pc = "over"
    BY <1>1
  <2>1. m # k /\ m > known_begun
    BY <1>2 DEF KnownP!Syncs
  <2> QED
    BY <1>4, <2>1 DEF VersionsBounded
<1> QED
  BY <1>1, <1>8, <1>9, <1>10 DEF VersionsBounded, b

LEMMA TakenBounded ==
  ASSUME SyncTypes, VersionsBounded, NEW n \in KnownP!Syncs,
         KnownP!PutArrives(n), known_sync[n].ver = known_server.ver
  PROVE  VersionsBounded'
<1> DEFINE new == [known_sync[n] EXCEPT !.pc = "done"]
           a == Cardinality(MayPut(known_sync))  b == Cardinality(MayPut(known_sync'))
<1>1. /\ known_sync[n].pc = "put" /\ known_sync' = [known_sync EXCEPT ![n] = new]
      /\ known_server' = [ver |-> known_server.ver + 1, val |-> known_sync[n].val]
      /\ UNCHANGED <<known_begun, known_troubles>>
  BY DEF KnownP!PutArrives, KnownP!Moved
<1>2. new.pc = "done" /\ new.ver = known_sync[n].ver
  BY SyncType, PcSet DEF SyncPhases
<1> HIDE DEF new
<1>3. \A m \in KnownP!Syncs : known_sync'[m] = IF m = n THEN new ELSE known_sync[m]
  BY <1>1, SMT DEF SyncTypes
<1>4. MayPut(known_sync') = MayPut(known_sync) \ {n} /\ n \in MayPut(known_sync)
  BY <1>1, <1>2, <1>3 DEF MayPut
<1>5. a \in Nat /\ b = a - 1
  BY <1>4, MayPutFinite, FS_RemoveElement
<1>6. known_server.ver + a <= known_begun /\ known_server.ver \in Nat /\ known_begun \in Nat
  BY SMT DEF VersionsBounded, SyncTypes
<1>7. known_server'.ver = known_server.ver + 1
  BY <1>1
<1> HIDE DEF a, b
<1>8. known_server'.ver + b <= known_begun
  BY <1>5, <1>6, <1>7
<1>9. \A m \in KnownP!Syncs : (known_sync[m].ver <= known_server.ver)'
  <2> SUFFICES ASSUME NEW m \in KnownP!Syncs PROVE known_sync'[m].ver <= known_server'.ver
    OBVIOUS
  <2>1. known_sync'[m].ver = known_sync[m].ver /\ known_sync[m].ver \in Nat
    BY <1>2, <1>3, SyncType DEF SyncStates
  <2> QED
    BY <1>6, <1>7, <2>1 DEF VersionsBounded
<1>10. \A m \in KnownP!Syncs : (m > known_begun => known_sync[m].pc = "over")'
  BY <1>1, <1>3 DEF VersionsBounded
<1> QED
  BY <1>1, <1>8, <1>9, <1>10 DEF VersionsBounded, b

LEMMA MovesBounded ==
  ASSUME SyncTypes, SyncVersions, VersionsBounded, NEW n \in KnownP!Syncs,
         \/ KnownP!ReadAndPut(n)
         \/ KnownP!PutArrives(n) /\ known_sync[n].ver # known_server.ver
         \/ KnownP!PutAnswered(n) \/ KnownP!Conflict(n) \/ KnownP!GetArrives(n)
         \/ KnownP!GetAnswered(n) \/ KnownP!Fails(n)
  PROVE  VersionsBounded'
<1> DEFINE s == known_sync[n]
<1>1. /\ s \in SyncStates /\ s.ver <= known_server.ver /\ known_server.ver \in Nat
      /\ known_local \in SUBSET Peers /\ known_version \in Nat /\ known_version <= known_server.ver
  BY SyncType DEF SyncTypes, VersionsBounded, SyncVersions
<1>2. /\ KnownP!Idle \in SyncStates /\ KnownP!Idle.pc = "over" /\ KnownP!Idle.ver = 0
  BY IdleState DEF KnownP!Idle
<1>3. UNCHANGED known_troubles => known_troubles' \in 0..MaxTroubles
  BY DEF VersionsBounded
<1>4. CASE KnownP!ReadAndPut(n)
  <2> DEFINE x == [s EXCEPT !.pc = "put"]
             y == [x EXCEPT !.val = known_local]
             new == [y EXCEPT !.ver = known_version]
  <2>1. /\ s.pc = "read" /\ UNCHANGED <<known_server, known_begun, known_troubles>>
        /\ known_sync' = [known_sync EXCEPT ![n] = new]
    BY <1>4 DEF KnownP!ReadAndPut
  <2>2. x \in SyncStates /\ x.pc = "put"
    BY <1>1, PcSet DEF SyncPhases
  <2> HIDE DEF x
  <2>3. y \in SyncStates /\ y.pc = "put"
    BY <1>1, <2>2, ValSet
  <2> HIDE DEF y
  <2>4. new \in SyncStates /\ new.pc = "put" /\ new.ver = known_version
    BY <1>1, <2>3, VerSet
  <2> HIDE DEF new
  <2> QED
    BY <1>1, <1>3, <2>1, <2>4, OneMovesBounded
<1>5. CASE KnownP!PutArrives(n) /\ known_sync[n].ver # known_server.ver
  <2> DEFINE new == [s EXCEPT !.pc = "conflict"]
  <2>1. /\ s.pc = "put" /\ UNCHANGED <<known_server, known_begun, known_troubles>>
        /\ known_sync' = [known_sync EXCEPT ![n] = new]
    BY <1>5 DEF KnownP!PutArrives, KnownP!Moved
  <2>2. new \in SyncStates /\ new.pc = "conflict" /\ new.ver = s.ver
    BY <1>1, PcSet DEF SyncPhases
  <2> HIDE DEF new
  <2> QED
    BY <1>1, <1>3, <2>1, <2>2, OneMovesBounded
<1>6. CASE KnownP!PutAnswered(n) \/ KnownP!Fails(n) \/ (KnownP!Conflict(n) /\ s.retry)
  <2>1. /\ s.pc # "over" /\ UNCHANGED <<known_server, known_begun>>
        /\ known_sync' = [known_sync EXCEPT ![n] = KnownP!Idle]
    BY <1>6 DEF KnownP!PutAnswered, KnownP!Fails, KnownP!Conflict
  <2>2. known_troubles' \in 0..MaxTroubles
    <3>1. CASE KnownP!Fails(n)
      BY <3>1, ConnectionBounds DEF KnownP!Fails, VersionsBounded
    <3>2. CASE KnownP!PutAnswered(n) \/ KnownP!Conflict(n)
      BY <1>3, <3>2 DEF KnownP!PutAnswered, KnownP!Conflict
    <3> QED
      BY <1>6, <3>1, <3>2
  <2>3. KnownP!Idle \in SyncStates /\ KnownP!Idle.ver <= known_server.ver
        /\ KnownP!Idle.pc \in {"done", "over"}
    BY <1>1, <1>2
  <2> QED
    BY <2>1, <2>2, <2>3, OneMovesBounded
<1>7. CASE KnownP!Conflict(n) /\ ~ s.retry
  <2> DEFINE x == [s EXCEPT !.pc = "get"]
             new == [x EXCEPT !.retry = TRUE]
  <2>1. /\ s.pc = "conflict" /\ UNCHANGED <<known_server, known_begun, known_troubles>>
        /\ known_sync' = [known_sync EXCEPT ![n] = new]
    BY <1>7 DEF KnownP!Conflict
  <2>2. x \in SyncStates /\ x.pc = "get" /\ x.ver = s.ver
    BY <1>1, PcSet DEF SyncPhases
  <2> HIDE DEF x
  <2>3. new \in SyncStates /\ new.pc = "get" /\ new.ver = s.ver
    BY <2>2, RetrySet DEF SyncStates
  <2> HIDE DEF new
  <2> QED
    BY <1>1, <1>3, <2>1, <2>3, OneMovesBounded
<1>8. CASE KnownP!GetArrives(n)
  <2> DEFINE x == [s EXCEPT !.pc = "got"]
             new == [x EXCEPT !.ver = known_server.ver]
  <2>1. /\ s.pc = "get" /\ UNCHANGED <<known_server, known_begun, known_troubles>>
        /\ known_sync' = [known_sync EXCEPT ![n] = new]
    BY <1>8 DEF KnownP!GetArrives
  <2>2. x \in SyncStates /\ x.pc = "got"
    BY <1>1, PcSet DEF SyncPhases
  <2> HIDE DEF x
  <2>3. new \in SyncStates /\ new.pc = "got" /\ new.ver = known_server.ver
    BY <1>1, <2>2, VerSet
  <2> HIDE DEF new
  <2>4. new.ver <= known_server.ver
    BY <1>1, <2>3
  <2> QED
    BY <1>1, <1>3, <2>1, <2>3, <2>4, OneMovesBounded
<1>9. CASE KnownP!GetAnswered(n)
  <2> DEFINE new == [s EXCEPT !.pc = "read"]
  <2>1. /\ s.pc = "got" /\ UNCHANGED <<known_server, known_begun, known_troubles>>
        /\ known_sync' = [known_sync EXCEPT ![n] = new]
    BY <1>9 DEF KnownP!GetAnswered, KnownP!Moved
  <2>2. new \in SyncStates /\ new.pc = "read" /\ new.ver = s.ver
    BY <1>1, PcSet DEF SyncPhases
  <2> HIDE DEF new
  <2> QED
    BY <1>1, <1>3, <2>1, <2>2, OneMovesBounded
<1> QED
  BY <1>4, <1>5, <1>6, <1>7, <1>8, <1>9

\* The known peers keep their types, and no version exceeds the number of syncs.
LEMMA KnownBounded ==
  /\ SessionInit => VersionsBounded
  /\ KnownInv /\ VersionsBounded /\ [SessionNext]_sessionVars => VersionsBounded'
  /\ KnownInv /\ VersionsBounded => KnownP!TypeOK
<1>1. SessionInit => VersionsBounded
  <2> SUFFICES ASSUME KnownP!Init PROVE VersionsBounded
    BY DEF SessionInit
  <2>1. \A n \in KnownP!Syncs : known_sync[n].pc = "over" /\ known_sync[n].ver = 0
    BY DEF KnownP!Init, KnownP!Idle
  <2>2. MayPut(known_sync) = {}
    BY <2>1 DEF MayPut
  <2> QED
    BY <2>1, <2>2, FS_EmptySet, ConnectionBounds DEF KnownP!Init, VersionsBounded
<1>2. KnownInv /\ VersionsBounded /\ [SessionNext]_sessionVars => VersionsBounded'
  <2> SUFFICES ASSUME SyncTypes, SyncVersions, VersionsBounded, [KnownP!Next]_(KnownP!vars)
               PROVE  VersionsBounded'
    BY KnownMoves DEF KnownInv
  <2>1. CASE \E p \in Peers : KnownP!PutPeer(p) \/ KnownP!DeletePeer(p)
    BY <2>1, ChangeBounded DEF KnownP!PutPeer, KnownP!DeletePeer
  <2>2. CASE \E n \in KnownP!Syncs : KnownP!PutArrives(n)
    BY <2>2, TakenBounded, MovesBounded
  <2>3. CASE \E n \in KnownP!Syncs :
               \/ KnownP!ReadAndPut(n) \/ KnownP!PutAnswered(n) \/ KnownP!Conflict(n)
               \/ KnownP!GetArrives(n) \/ KnownP!GetAnswered(n) \/ KnownP!Fails(n)
    BY <2>3, MovesBounded
  <2>4. CASE UNCHANGED KnownP!vars
    BY <2>4 DEF VersionsBounded, MayPut, KnownP!vars
  <2> QED
    BY <2>1, <2>2, <2>3, <2>4 DEF KnownP!Next
<1>3. KnownInv /\ VersionsBounded => KnownP!TypeOK
  <2> SUFFICES ASSUME SyncTypes, SyncVersions, VersionsBounded PROVE KnownP!TypeOK
    BY DEF KnownInv
  <2> DEFINE top == known_server.ver
  <2>1. top \in Nat /\ top <= MaxSyncs /\ known_begun \in 0..MaxSyncs
    <3> DEFINE a == Cardinality(MayPut(known_sync))
    <3>1. a \in Nat
      BY MayPutFinite
    <3>2. top + a <= known_begun /\ known_begun \in 0..MaxSyncs /\ top \in Nat
      BY SMT DEF VersionsBounded, SyncTypes
    <3> HIDE DEF a, top
    <3> QED
      BY <3>1, <3>2, ConnectionBounds
  <2>2. known_server \in [ver : 0..MaxSyncs, val : SUBSET Peers]
    BY <2>1, ConnectionBounds, SMT DEF SyncTypes
  <2>3. known_version \in 0..MaxSyncs
    BY <2>1, ConnectionBounds DEF SyncTypes, SyncVersions
  <2>4. \A n \in KnownP!Syncs : known_sync[n].ver \in 0..MaxSyncs
    <3> SUFFICES ASSUME NEW n \in KnownP!Syncs PROVE known_sync[n].ver \in 0..MaxSyncs
      OBVIOUS
    <3>1. known_sync[n].ver \in Nat /\ known_sync[n].ver <= top
      BY SyncType DEF SyncStates, VersionsBounded
    <3> QED
      BY <2>1, <3>1, ConnectionBounds
  <2>5. known_sync \in [KnownP!Syncs -> [pc : SyncPhases, val : SUBSET Peers,
                                          ver : 0..MaxSyncs, retry : BOOLEAN]]
    <3>1. \A n \in KnownP!Syncs : known_sync[n] \in [pc : SyncPhases, val : SUBSET Peers,
                                                      ver : 0..MaxSyncs, retry : BOOLEAN]
      BY <2>4, SyncType DEF SyncStates
    <3> QED
      BY <3>1 DEF SyncTypes
  <2> QED
    BY <2>2, <2>3, <2>5 DEF KnownP!TypeOK, KnownP!Objects, SyncTypes, SyncPhases,
       VersionsBounded
<1> QED
  BY <1>1, <1>2, <1>3

(***************************************************************************)
(* Recovery: while one job runs alone, what it still has to do is known    *)
(* from where it stands.                                                   *)
(***************************************************************************)

SeedPhases == {"sent", "answered", "restore"}
PutPhases == {"start", "estimate", "sweep", "put", "conflict", "get", "got"}
JobPhases == SeedPhases \cup PutPhases \cup {"done", "delete", "deleted", "refused"}
JobStates == [n : 1..MaxJobs, kind : {"seed", "enter", "auto", "clear"}, channel : Channels,
              pc : JobPhases, rec : Recover!Records, ver : Nat, retry : BOOLEAN]

\* The jobs that may still put the record.
PutsLeft(s) == {j \in s : j.pc \in PutPhases}

RecTypes ==
  /\ rec_info \in SUBSET Channels /\ rec_local \in Recover!Records
  /\ rec_server \in [ver : Nat, rec : Recover!Records] /\ rec_version \in Nat
  /\ rec_troubles \in 0..MaxTroubles /\ rec_restarts \in 0..MaxRestarts
  /\ rec_alone \in BOOLEAN /\ rec_missed \in BOOLEAN /\ rec_begun \in 0..MaxJobs

\* A job's state, when begun jobs have begun.
JobWell(j, begun) ==
  /\ j \in JobStates /\ (j.kind = "seed" <=> j.pc \in SeedPhases)
  /\ j.ver <= begun /\ (j.pc = "done" => j.ver < begun)

JobsWell == IsFiniteSet(rec_jobs) /\ \A j \in rec_jobs : JobWell(j, rec_begun)

LateWell == IsFiniteSet(rec_late) /\ \A j \in rec_late : j \in JobStates /\ j.ver <= rec_begun

\* Every put that is taken is of a job of its own.
RecBounds ==
  /\ rec_server.ver + Cardinality(PutsLeft(rec_jobs)) + Cardinality(PutsLeft(rec_late))
       <= rec_begun
  /\ rec_version <= rec_begun

\* What holds of a job that runs alone, with the store l, the server s and missed m.
JobStage(j, l, s, m) ==
  /\ ~m /\ j.pc \in SeedPhases \cup {"start", "estimate", "sweep"} => s.rec = l
  /\ j.pc \in {"answered", "restore"} => j.rec = s.rec
  /\ j.pc \in {"put", "done", "conflict", "get", "got"} => l = j.rec
  /\ j.pc = "done" => s.rec = j.rec
  /\ j.pc \in {"delete", "deleted", "refused"} => l = Recover!NoRecord
  /\ j.pc = "deleted" => s.rec = Recover!NoRecord
  /\ j.pc = "got" \/ (j.pc = "put" /\ j.retry) => j.ver = s.ver
  /\ j.pc \in {"start", "estimate", "sweep", "conflict"} => ~ j.retry

RecCarried ==
  /\ rec_alone => \A i, j \in rec_jobs : i = j
  /\ rec_jobs # {} /\ ~ rec_missed => rec_alone
  /\ rec_alone => \A j \in rec_jobs : JobStage(j, rec_local, rec_server, rec_missed)
  /\ rec_jobs = {} /\ ~ rec_missed => rec_server.rec = rec_local

RecInv == RecTypes /\ JobsWell /\ LateWell /\ RecBounds /\ RecCarried

LEMMA JobPc ==
  ASSUME NEW j \in JobStates, NEW p \in JobPhases
  PROVE  LET x == [j EXCEPT !.pc = p]
         IN  /\ x \in JobStates /\ x.pc = p /\ x.kind = j.kind /\ x.rec = j.rec
             /\ x.ver = j.ver /\ x.retry = j.retry
BY SMT DEF JobStates

LEMMA JobRec ==
  ASSUME NEW j \in JobStates, NEW r \in Recover!Records
  PROVE  LET x == [j EXCEPT !.rec = r]
         IN  /\ x \in JobStates /\ x.pc = j.pc /\ x.kind = j.kind /\ x.rec = r
             /\ x.ver = j.ver /\ x.retry = j.retry
BY SMT DEF JobStates

LEMMA JobVer ==
  ASSUME NEW j \in JobStates, NEW v \in Nat
  PROVE  LET x == [j EXCEPT !.ver = v]
         IN  /\ x \in JobStates /\ x.pc = j.pc /\ x.kind = j.kind /\ x.rec = j.rec
             /\ x.ver = v /\ x.retry = j.retry
BY SMT DEF JobStates

LEMMA JobRetry ==
  ASSUME NEW j \in JobStates, NEW b \in BOOLEAN
  PROVE  LET x == [j EXCEPT !.retry = b]
         IN  /\ x \in JobStates /\ x.pc = j.pc /\ x.kind = j.kind /\ x.rec = j.rec
             /\ x.ver = j.ver /\ x.retry = b
BY SMT DEF JobStates

LEMMA PutsLeftFinite ==
  ASSUME JobsWell
  PROVE  IsFiniteSet(PutsLeft(rec_jobs)) /\ Cardinality(PutsLeft(rec_jobs)) \in Nat
<1>1. PutsLeft(rec_jobs) \subseteq rec_jobs
  BY DEF PutsLeft
<1> QED
  BY <1>1, FS_Subset, FS_CardinalityType DEF JobsWell

LEMMA LatePutsFinite ==
  ASSUME LateWell
  PROVE  IsFiniteSet(PutsLeft(rec_late)) /\ Cardinality(PutsLeft(rec_late)) \in Nat
<1>1. PutsLeft(rec_late) \subseteq rec_late
  BY DEF PutsLeft
<1> QED
  BY <1>1, FS_Subset, FS_CardinalityType DEF LateWell

\* The puts left when a job moves on to new.
LEMMA PutsLeftMove ==
  ASSUME JobsWell, NEW j \in rec_jobs, NEW new,
         new.pc \in PutPhases => j.pc \in PutPhases
  PROVE  LET s == (rec_jobs \ {j}) \cup {new}
             a == Cardinality(PutsLeft(rec_jobs))
             b == Cardinality(PutsLeft(s))
         IN  /\ a \in Nat /\ b \in Nat /\ b <= a
             /\ j.pc \in PutPhases /\ new.pc \notin PutPhases => b = a - 1
<1> DEFINE s == (rec_jobs \ {j}) \cup {new}
           P == PutsLeft(rec_jobs)
           Q == P \ {j}
           a == Cardinality(P)
           b == Cardinality(PutsLeft(s))
           c == Cardinality(Q)
<1>1. IsFiniteSet(P) /\ a \in Nat
  BY PutsLeftFinite
<1>2. CASE j.pc \in PutPhases
  <2>1. j \in P
    BY <1>2 DEF PutsLeft
  <2>2. IsFiniteSet(Q) /\ c = a - 1
    BY <1>1, <2>1, FS_RemoveElement
  <2>3. c \in Nat
    BY <2>2, FS_CardinalityType
  <2>4. CASE new.pc \in PutPhases
    <3>1. PutsLeft(s) = Q \cup {new}
      BY <2>4 DEF PutsLeft
    <3>2. b = c \/ b = c + 1
      BY <2>2, <2>3, <3>1, FS_AddElement
    <3> HIDE DEF a, b, c
    <3>3. b \in Nat /\ b <= a
      BY <1>1, <2>2, <2>3, <3>2
    <3> QED
      BY <1>1, <2>4, <3>3 DEF a, b
  <2>5. CASE new.pc \notin PutPhases
    <3>1. PutsLeft(s) = Q
      BY <2>5 DEF PutsLeft
    <3>2. b = c
      BY <3>1
    <3> HIDE DEF a, b, c
    <3>3. b \in Nat /\ b <= a /\ b = a - 1
      BY <1>1, <2>2, <2>3, <3>2
    <3> QED
      BY <1>1, <3>3 DEF a, b
  <2> QED
    BY <2>4, <2>5
<1>3. CASE j.pc \notin PutPhases
  <2>1. PutsLeft(s) = P
    BY <1>3 DEF PutsLeft
  <2>2. b = a
    BY <2>1
  <2> HIDE DEF a, b
  <2>3. b \in Nat /\ b <= a
    BY <1>1, <2>2
  <2> QED
    BY <1>1, <1>3, <2>3 DEF a, b
<1> QED
  BY <1>2, <1>3

\* A job that moves on to new, possibly writing the store or the server.
LEMMA JobReplaces ==
  ASSUME RecInv, NEW j \in rec_jobs, NEW new,
         Recover!Becomes(j, new), JobWell(new, rec_begun),
         UNCHANGED <<rec_info, rec_late, rec_begun, rec_troubles, rec_restarts, rec_alone, rec_missed>>,
         rec_local' \in Recover!Records, rec_version' \in Nat, rec_version' <= rec_begun,
         rec_server' \in [ver : Nat, rec : Recover!Records],
         new.pc \in PutPhases => j.pc \in PutPhases,
         \/ rec_server'.ver <= rec_server.ver
         \/ /\ rec_server'.ver = rec_server.ver + 1
            /\ j.pc \in PutPhases /\ new.pc \notin PutPhases,
         rec_alone => JobStage(new, rec_local', rec_server', rec_missed)
  PROVE  RecInv'
<1>1. rec_jobs' = (rec_jobs \ {j}) \cup {new} /\ new \in rec_jobs'
  BY DEF Recover!Becomes
<1>2. RecTypes /\ JobsWell /\ LateWell /\ RecBounds /\ RecCarried
  BY DEF RecInv
<1>3. RecTypes'
  BY <1>2 DEF RecTypes
<1>4. JobsWell'
  <2>1. IsFiniteSet(rec_jobs')
    BY <1>1, <1>2, FS_RemoveElement, FS_AddElement DEF JobsWell
  <2>2. \A i \in rec_jobs' : JobWell(i, rec_begun)
    BY <1>1, <1>2 DEF JobsWell
  <2> QED
    BY <2>1, <2>2 DEF JobsWell
<1>5. RecBounds'
  <2> DEFINE a == Cardinality(PutsLeft(rec_jobs))  b == Cardinality(PutsLeft(rec_jobs'))
             v == rec_server.ver  w == rec_server'.ver  l == Cardinality(PutsLeft(rec_late))
  <2>1. /\ a \in Nat /\ b \in Nat /\ b <= a
        /\ j.pc \in PutPhases /\ new.pc \notin PutPhases => b = a - 1
    BY <1>1, <1>2, PutsLeftMove
  <2>2. v + a + l <= rec_begun /\ v \in Nat /\ w \in Nat /\ rec_begun \in Nat
    BY <1>2, SMT DEF RecBounds, RecTypes
  <2>3. l \in Nat
    BY <1>2, LatePutsFinite
  <2>4. w <= v \/ (w = v + 1 /\ b = a - 1)
    BY <2>1
  <2> HIDE DEF a, b, v, w, l
  <2>5. w + b + l <= rec_begun
    BY <2>1, <2>2, <2>4, <2>3
  <2> QED
    BY <2>5 DEF RecBounds, b, w, l
<1>6. LateWell'
  BY <1>2 DEF LateWell
<1>7. RecCarried'
  <2>1. rec_alone => rec_jobs' = {new}
    <3> SUFFICES ASSUME rec_alone PROVE rec_jobs \ {j} = {}
      BY <1>1
    <3> QED
      BY <1>2 DEF RecCarried
  <2>2. rec_jobs # {} /\ rec_jobs' # {}
    BY <1>1
  <2> QED
    BY <1>2, <2>1, <2>2 DEF RecCarried
<1> QED
  BY <1>3, <1>4, <1>5, <1>7, <1>6 DEF RecInv

\* A job that ends: its request may be travelling still.
LEMMA JobEnds ==
  ASSUME RecInv, NEW j \in rec_jobs, Recover!Ends(j),
         rec_late' = rec_late \/ rec_late' = rec_late \cup {j},
         UNCHANGED <<rec_info, rec_server, rec_begun, rec_restarts, rec_alone>>,
         rec_troubles' \in 0..MaxTroubles, rec_local' \in Recover!Records,
         rec_version' \in Nat, rec_version' <= rec_begun, rec_missed' \in BOOLEAN,
         rec_missed /\ ~ rec_alone => rec_missed',
         rec_alone /\ ~ rec_missed' => rec_server.rec = rec_local'
  PROVE  RecInv'
<1>1. rec_jobs' = rec_jobs \ {j} /\ rec_jobs # {}
  BY DEF Recover!Ends
<1>2. RecTypes /\ JobsWell /\ LateWell /\ RecBounds /\ RecCarried
  BY DEF RecInv
<1>3. RecTypes'
  BY <1>2 DEF RecTypes
<1>4. JobsWell'
  BY <1>1, <1>2, FS_RemoveElement DEF JobsWell
<1>5. LateWell'
  <2>1. JobWell(j, rec_begun)
    BY <1>2 DEF JobsWell
  <2>2. IsFiniteSet(rec_late')
    BY <1>2, FS_AddElement DEF LateWell
  <2> QED
    BY <1>2, <2>1, <2>2 DEF LateWell, JobWell
<1>6. RecBounds'
  <2> DEFINE a == Cardinality(PutsLeft(rec_jobs))  b == Cardinality(PutsLeft(rec_jobs'))
             l == Cardinality(PutsLeft(rec_late))  m == Cardinality(PutsLeft(rec_late'))
  <2>1. IsFiniteSet(PutsLeft(rec_jobs)) /\ a \in Nat
    BY <1>2, PutsLeftFinite
  <2>2. PutsLeft(rec_jobs') = PutsLeft(rec_jobs) \ {j}
    BY <1>1 DEF PutsLeft
  <2>3. b \in Nat /\ b <= a /\ (j.pc \in PutPhases => b = a - 1)
    <3>1. j.pc \in PutPhases => j \in PutsLeft(rec_jobs)
      BY DEF PutsLeft
    <3> QED
      BY <2>1, <2>2, <3>1, FS_RemoveElement, FS_Subset, FS_CardinalityType
  <2>4. rec_server.ver + a + l <= rec_begun /\ rec_server.ver \in Nat /\ rec_begun \in Nat
    BY <1>2, SMT DEF RecBounds, RecTypes
  <2>5. IsFiniteSet(PutsLeft(rec_late)) /\ l \in Nat
    BY <1>2, LatePutsFinite
  <2>6. \/ PutsLeft(rec_late') = PutsLeft(rec_late)
        \/ j.pc \in PutPhases /\ PutsLeft(rec_late') = PutsLeft(rec_late) \cup {j}
    BY DEF PutsLeft
  <2>7. m = l \/ (j.pc \in PutPhases /\ m = l + 1)
    BY <2>5, <2>6, FS_AddElement
  <2> HIDE DEF a, b, l, m
  <2>8. rec_server.ver + b + m <= rec_begun
    BY <2>1, <2>3, <2>4, <2>5, <2>7
  <2> QED
    BY <1>2, <2>8 DEF RecBounds, b, m
<1>7. RecCarried'
  <2>1. rec_alone => rec_jobs' = {}
    BY <1>1, <1>2 DEF RecCarried
  <2>2. ~ rec_alone => rec_missed'
    BY <1>1, <1>2 DEF RecCarried
  <2> QED
    BY <1>2, <2>1, <2>2 DEF RecCarried
<1> QED
  BY <1>3, <1>4, <1>6, <1>7, <1>5 DEF RecInv

\* A job that begins: alone if no other runs.
LEMMA JobBegins ==
  ASSUME RecInv, NEW new, JobWell(new, rec_begun), new.pc # "done", Recover!Begins(new),
         UNCHANGED <<rec_info, rec_server, rec_version, rec_late, rec_troubles, rec_restarts>>,
         rec_local' \in Recover!Records,
         rec_jobs = {} => JobStage(new, rec_local', rec_server, rec_missed)
  PROVE  RecInv'
<1>1. /\ rec_begun < MaxJobs /\ rec_begun' = rec_begun + 1 /\ rec_jobs' = rec_jobs \cup {new}
      /\ rec_alone' = (rec_jobs = {}) /\ rec_missed' = (rec_missed \/ rec_jobs # {})
  BY DEF Recover!Begins
<1>2. RecTypes /\ JobsWell /\ LateWell /\ RecBounds /\ RecCarried
  BY DEF RecInv
<1>3. rec_begun \in Nat /\ rec_begun' \in 0..MaxJobs
  BY <1>1, <1>2, ConnectionBounds DEF RecTypes
<1>4. rec_alone' \in BOOLEAN /\ rec_missed' \in BOOLEAN
  BY <1>1
<1>5. RecTypes'
  BY <1>2, <1>3, <1>4 DEF RecTypes
<1>6. \A i : JobWell(i, rec_begun) => JobWell(i, rec_begun')
  BY <1>1, <1>3, SMT DEF JobWell, JobStates
<1>7. JobsWell'
  <2>1. IsFiniteSet(rec_jobs')
    BY <1>1, <1>2, FS_AddElement DEF JobsWell
  <2>2. \A i \in rec_jobs' : JobWell(i, rec_begun')
    BY <1>1, <1>2, <1>6 DEF JobsWell
  <2> QED
    BY <2>1, <2>2 DEF JobsWell
<1>8. RecBounds'
  <2> DEFINE a == Cardinality(PutsLeft(rec_jobs))  b == Cardinality(PutsLeft(rec_jobs'))
             l == Cardinality(PutsLeft(rec_late))
  <2>1. l \in Nat
    BY <1>2, LatePutsFinite
  <2>2. IsFiniteSet(PutsLeft(rec_jobs)) /\ a \in Nat
    BY <1>2, PutsLeftFinite
  <2>3. PutsLeft(rec_jobs') = PutsLeft(rec_jobs) \cup {new} \/ PutsLeft(rec_jobs') = PutsLeft(rec_jobs)
    BY <1>1 DEF PutsLeft
  <2>4. b = a \/ b = a + 1
    BY <2>2, <2>3, FS_AddElement
  <2>5. /\ rec_server.ver + a + l <= rec_begun /\ rec_server.ver \in Nat
        /\ rec_version <= rec_begun /\ rec_version \in Nat
    BY <1>2, SMT DEF RecBounds, RecTypes
  <2> HIDE DEF a, b, l
  <2>6. rec_server.ver + b + l <= rec_begun' /\ rec_version <= rec_begun'
    BY <1>1, <1>3, <2>2, <2>4, <2>5, <2>1
  <2> QED
    BY <2>6 DEF RecBounds, b, l
<1>9. LateWell'
  BY <1>1, <1>2, <1>3, SMT DEF LateWell, JobStates
<1>10. RecCarried'
  <2>1. new \in rec_jobs' /\ (rec_jobs = {} => rec_jobs' = {new} /\ rec_missed' = rec_missed)
    BY <1>1, <1>2 DEF RecTypes
  <2>2. (rec_alone => \A i, j \in rec_jobs : i = j)'
    BY <1>1, <2>1
  <2>3. (rec_jobs # {} /\ ~ rec_missed => rec_alone)'
    BY <1>1
  <2>4. (rec_alone => \A j \in rec_jobs : JobStage(j, rec_local, rec_server, rec_missed))'
    BY <1>1, <2>1
  <2> QED
    BY <2>1, <2>2, <2>3, <2>4 DEF RecCarried
<1> QED
  BY <1>5, <1>7, <1>8, <1>10, <1>9 DEF RecInv

\* What the proofs of the steps know of a job.
LEMMA JobFacts ==
  ASSUME RecInv, NEW j \in rec_jobs
  PROVE  /\ j \in JobStates /\ j.pc \in JobPhases /\ j.rec \in Recover!Records /\ j.ver \in Nat
         /\ (j.kind = "seed" <=> j.pc \in SeedPhases) /\ j.ver <= rec_begun
         /\ (j.pc = "done" => j.ver < rec_begun) /\ rec_begun \in Nat
         /\ rec_version \in Nat /\ rec_version <= rec_begun
         /\ rec_local \in Recover!Records /\ rec_server.rec \in Recover!Records
         /\ rec_server \in [ver : Nat, rec : Recover!Records]
         /\ rec_server.ver \in Nat /\ rec_server.ver <= rec_begun
         /\ (j.pc \in PutPhases => rec_server.ver < rec_begun)
         /\ rec_missed \in BOOLEAN /\ rec_troubles \in 0..MaxTroubles
         /\ (~ rec_missed => rec_alone)
         /\ (rec_alone => JobStage(j, rec_local, rec_server, rec_missed))
<1>1. RecTypes /\ JobsWell /\ LateWell /\ RecBounds /\ RecCarried
  BY DEF RecInv
<1>2. JobWell(j, rec_begun)
  BY <1>1 DEF JobsWell
<1>3. j \in JobStates /\ j.pc \in JobPhases /\ j.rec \in Recover!Records /\ j.ver \in Nat
  BY <1>2, SMT DEF JobWell, JobStates
<1>4. /\ rec_server \in [ver : Nat, rec : Recover!Records] /\ rec_server.ver \in Nat
      /\ rec_server.rec \in Recover!Records /\ rec_begun \in Nat
  BY <1>1, SMT DEF RecTypes
<1>5. rec_server.ver <= rec_begun /\ (j.pc \in PutPhases => rec_server.ver < rec_begun)
  <2> DEFINE a == Cardinality(PutsLeft(rec_jobs))  l == Cardinality(PutsLeft(rec_late))
  <2>1. a \in Nat /\ l \in Nat /\ rec_server.ver + a + l <= rec_begun
    BY <1>1, PutsLeftFinite, LatePutsFinite DEF RecBounds
  <2>2. j.pc \in PutPhases => j \in PutsLeft(rec_jobs)
    BY DEF PutsLeft
  <2>3. j.pc \in PutPhases => a # 0
    BY <1>1, <2>2, PutsLeftFinite, FS_EmptySet
  <2> HIDE DEF a, l
  <2> QED
    BY <1>4, <2>1, <2>3
<1> QED
  BY <1>1, <1>2, <1>3, <1>4, <1>5 DEF JobWell, RecTypes, RecBounds, RecCarried

LEMMA NoRecordIsRecord == Recover!NoRecord \in Recover!Records
BY SMT DEF Recover!NoRecord, Recover!Records

LEMMA EnterReadsKeeps ==
  ASSUME RecInv, NEW j \in rec_jobs, Recover!EnterReads(j) PROVE RecInv'
<1>1. /\ j.kind = "enter" /\ j.pc = "start"
      /\ UNCHANGED <<rec_info, rec_local, rec_server, rec_version, rec_late, rec_begun, rec_troubles,
                     rec_restarts, rec_alone, rec_missed>>
  BY DEF Recover!EnterReads
<1>2. CASE j.channel \in rec_local.channels
  <2>1. Recover!Ends(j)
    BY <1>2 DEF Recover!EnterReads
  <2>2. rec_alone /\ ~ rec_missed' => rec_server.rec = rec_local'
    BY <1>1, JobFacts DEF JobStage
  <2> QED
    BY <1>1, <2>1, <2>2, JobFacts, JobEnds
<1>3. CASE j.channel \notin rec_local.channels
  <2> DEFINE r == [status |-> IF rec_local = Recover!NoRecord THEN "needs_recovery"
                              ELSE rec_local.status,
                   channels |-> rec_local.channels \cup {j.channel}]
             x == [j EXCEPT !.pc = "estimate"]
             new == [x EXCEPT !.rec = r]
  <2>1. Recover!Becomes(j, new)
    BY <1>3 DEF Recover!EnterReads
  <2>2. r \in Recover!Records
    BY JobFacts, SMT DEF JobStates, Recover!Records
  <2> HIDE DEF r
  <2>3. x \in JobStates /\ x.pc = "estimate" /\ x.kind = j.kind /\ x.ver = j.ver
        /\ x.retry = j.retry
    BY JobFacts, JobPc DEF JobPhases, PutPhases
  <2> HIDE DEF x
  <2>4. new \in JobStates /\ new.pc = "estimate" /\ new.kind = j.kind /\ new.ver = j.ver
        /\ new.retry = j.retry
    BY <2>2, <2>3, JobRec
  <2> HIDE DEF new
  <2>5. JobWell(new, rec_begun)
    BY <1>1, <2>4, JobFacts DEF JobWell, SeedPhases
  <2>6. rec_alone => JobStage(new, rec_local', rec_server', rec_missed)
    BY <1>1, <2>4, JobFacts DEF JobStage, SeedPhases
  <2>7. rec_server' = rec_server /\ rec_server'.ver <= rec_server.ver
    BY <1>1, JobFacts
  <2>8. new.pc \in PutPhases => j.pc \in PutPhases
    BY <1>1 DEF PutPhases
  <2> QED
    BY <1>1, <2>1, <2>5, <2>6, <2>7, <2>8, JobFacts, JobReplaces
<1> QED
  BY <1>2, <1>3

LEMMA SweepsNothingKeeps ==
  ASSUME RecInv, NEW j \in rec_jobs, Recover!SweepsNothing(j) PROVE RecInv'
<1>1. /\ j.pc = "sweep" /\ Recover!Ends(j)
      /\ UNCHANGED <<rec_info, rec_local, rec_server, rec_version, rec_late, rec_begun, rec_troubles,
                     rec_restarts, rec_alone, rec_missed>>
  BY DEF Recover!SweepsNothing
<1>2. rec_alone /\ ~ rec_missed' => rec_server.rec = rec_local'
  BY <1>1, JobFacts DEF JobStage
<1> QED
  BY <1>1, <1>2, JobFacts, JobEnds

\* The store is written: what the job carries is now the store's.
LEMMA WritesKeeps ==
  ASSUME RecInv, NEW j \in rec_jobs, Recover!Writes(j) PROVE RecInv'
<1> DEFINE x == [j EXCEPT !.pc = "put"]
           new == [x EXCEPT !.ver = rec_version]
<1>1. /\ j.pc \in {"estimate", "sweep"} /\ rec_local' = j.rec /\ Recover!Becomes(j, new)
      /\ UNCHANGED <<rec_info, rec_server, rec_version, rec_late, rec_begun, rec_troubles,
                     rec_restarts, rec_alone, rec_missed>>
  BY DEF Recover!Writes
<1>2. /\ x \in JobStates /\ x.pc = "put" /\ x.kind = j.kind /\ x.rec = j.rec
      /\ x.retry = j.retry
  BY JobFacts, JobPc DEF JobPhases, PutPhases
<1> HIDE DEF x
<1>3. /\ new \in JobStates /\ new.pc = "put" /\ new.kind = j.kind /\ new.rec = j.rec
      /\ new.retry = j.retry /\ new.ver = rec_version
  BY <1>2, JobFacts, JobVer
<1> HIDE DEF new
<1>4. JobWell(new, rec_begun)
  BY <1>1, <1>3, JobFacts DEF JobWell, SeedPhases
<1>5. rec_alone => JobStage(new, rec_local', rec_server', rec_missed)
  BY <1>1, <1>3, JobFacts DEF JobStage, SeedPhases
<1>6. rec_server' = rec_server /\ rec_server'.ver <= rec_server.ver
  BY <1>1, JobFacts
<1>7. new.pc \in PutPhases => j.pc \in PutPhases
  BY <1>1 DEF PutPhases
<1> QED
  BY <1>1, <1>4, <1>5, <1>6, <1>7, JobFacts, JobReplaces

\* The server takes the put, and its version is the next one.
LEMMA PutArrivesKeeps ==
  ASSUME RecInv, NEW j \in rec_jobs, Recover!PutArrives(j) PROVE RecInv'
<1>1. /\ j.pc = "put"
      /\ UNCHANGED <<rec_info, rec_local, rec_version, rec_late, rec_begun, rec_troubles,
                     rec_restarts, rec_alone, rec_missed>>
  BY DEF Recover!PutArrives
<1>2. CASE j.ver = rec_server.ver
  <2> DEFINE new == [j EXCEPT !.pc = "done"]
  <2>1. /\ Recover!Becomes(j, new)
        /\ rec_server' = [ver |-> rec_server.ver + 1, rec |-> j.rec]
    BY <1>2 DEF Recover!PutArrives
  <2>2. /\ new \in JobStates /\ new.pc = "done" /\ new.kind = j.kind /\ new.rec = j.rec
        /\ new.ver = j.ver
    BY JobFacts, JobPc DEF JobPhases
  <2> HIDE DEF new
  <2>3. /\ rec_server' \in [ver : Nat, rec : Recover!Records]
        /\ rec_server'.ver = rec_server.ver + 1 /\ rec_server'.rec = j.rec
    BY <2>1, JobFacts, SMT
  <2>4. new.ver < rec_begun
    BY <1>1, <1>2, <2>2, JobFacts DEF PutPhases
  <2>5. JobWell(new, rec_begun)
    BY <1>1, <2>2, <2>4, JobFacts DEF JobWell, SeedPhases
  <2>6. rec_alone => JobStage(new, rec_local', rec_server', rec_missed)
    BY <1>1, <2>2, <2>3, JobFacts DEF JobStage, SeedPhases
  <2>7. j.pc \in PutPhases /\ new.pc \notin PutPhases
    BY <1>1, <2>2 DEF PutPhases
  <2> QED
    BY <1>1, <2>1, <2>3, <2>5, <2>6, <2>7, JobFacts, JobReplaces
<1>3. CASE j.ver # rec_server.ver
  <2> DEFINE new == [j EXCEPT !.pc = "conflict"]
  <2>1. Recover!Becomes(j, new) /\ rec_server' = rec_server
    BY <1>3 DEF Recover!PutArrives
  <2>2. /\ new \in JobStates /\ new.pc = "conflict" /\ new.kind = j.kind /\ new.rec = j.rec
        /\ new.ver = j.ver /\ new.retry = j.retry
    BY JobFacts, JobPc DEF JobPhases, PutPhases
  <2> HIDE DEF new
  <2>3. JobWell(new, rec_begun)
    BY <1>1, <2>2, JobFacts DEF JobWell, SeedPhases
  <2>4. rec_alone => JobStage(new, rec_local', rec_server', rec_missed)
    BY <1>1, <1>3, <2>1, <2>2, JobFacts DEF JobStage, SeedPhases
  <2>5. rec_server'.ver <= rec_server.ver /\ j.pc \in PutPhases
    BY <1>1, <2>1, JobFacts DEF PutPhases
  <2> QED
    BY <1>1, <2>1, <2>3, <2>4, <2>5, JobFacts, JobReplaces
<1> QED
  BY <1>2, <1>3

LEMMA PutAnsweredKeeps ==
  ASSUME RecInv, NEW j \in rec_jobs, Recover!PutAnswered(j) PROVE RecInv'
<1>1. /\ j.pc = "done" /\ rec_version' = j.ver + 1 /\ Recover!Ends(j)
      /\ rec_missed' = (rec_missed /\ ~ rec_alone)
      /\ UNCHANGED <<rec_info, rec_local, rec_server, rec_late, rec_begun, rec_troubles,
                     rec_restarts, rec_alone>>
  BY DEF Recover!PutAnswered
<1>2. rec_version' \in Nat /\ rec_version' <= rec_begun
  BY <1>1, JobFacts
<1>3. rec_alone => rec_server.rec = rec_local'
  BY <1>1, JobFacts DEF JobStage
<1>4. rec_missed' \in BOOLEAN /\ (rec_missed /\ ~ rec_alone => rec_missed')
  BY <1>1
<1> QED
  BY <1>1, <1>2, <1>3, <1>4, JobFacts, JobEnds

\* A job that runs alone is not refused twice.
LEMMA ConflictKeeps ==
  ASSUME RecInv, NEW j \in rec_jobs, Recover!Conflict(j) PROVE RecInv'
<1>1. /\ j.pc = "conflict"
      /\ UNCHANGED <<rec_info, rec_local, rec_server, rec_version, rec_late, rec_begun, rec_troubles,
                     rec_restarts, rec_alone, rec_missed>>
  BY DEF Recover!Conflict
<1>2. CASE j.retry
  <2>1. Recover!Ends(j)
    BY <1>2 DEF Recover!Conflict
  <2>2. ~ rec_alone
    BY <1>1, <1>2, JobFacts DEF JobStage
  <2> QED
    BY <1>1, <2>1, <2>2, JobFacts, JobEnds
<1>3. CASE ~ j.retry
  <2> DEFINE x == [j EXCEPT !.pc = "get"]
             new == [x EXCEPT !.retry = TRUE]
  <2>1. Recover!Becomes(j, new)
    BY <1>3 DEF Recover!Conflict
  <2>2. x \in JobStates /\ x.pc = "get" /\ x.kind = j.kind /\ x.rec = j.rec /\ x.ver = j.ver
    BY JobFacts, JobPc DEF JobPhases, PutPhases
  <2> HIDE DEF x
  <2>3. /\ new \in JobStates /\ new.pc = "get" /\ new.kind = j.kind /\ new.rec = j.rec
        /\ new.ver = j.ver
    BY <2>2, JobRetry
  <2> HIDE DEF new
  <2>4. JobWell(new, rec_begun)
    BY <1>1, <2>3, JobFacts DEF JobWell, SeedPhases
  <2>5. rec_alone => JobStage(new, rec_local', rec_server', rec_missed)
    BY <1>1, <2>3, JobFacts DEF JobStage, SeedPhases
  <2>6. /\ rec_server' = rec_server /\ rec_server'.ver <= rec_server.ver
        /\ j.pc \in PutPhases
    BY <1>1, JobFacts DEF PutPhases
  <2> QED
    BY <1>1, <2>1, <2>4, <2>5, <2>6, JobFacts, JobReplaces
<1> QED
  BY <1>2, <1>3

LEMMA GetArrivesKeeps ==
  ASSUME RecInv, NEW j \in rec_jobs, Recover!GetArrives(j) PROVE RecInv'
<1> DEFINE x == [j EXCEPT !.pc = "got"]
           new == [x EXCEPT !.ver = rec_server.ver]
<1>1. /\ j.pc = "get" /\ Recover!Becomes(j, new)
      /\ UNCHANGED <<rec_info, rec_local, rec_server, rec_version, rec_late, rec_begun, rec_troubles,
                     rec_restarts, rec_alone, rec_missed>>
  BY DEF Recover!GetArrives
<1>2. x \in JobStates /\ x.pc = "got" /\ x.kind = j.kind /\ x.rec = j.rec
  BY JobFacts, JobPc DEF JobPhases, PutPhases
<1> HIDE DEF x
<1>3. /\ new \in JobStates /\ new.pc = "got" /\ new.kind = j.kind /\ new.rec = j.rec
      /\ new.ver = rec_server.ver
  BY <1>2, JobFacts, JobVer
<1> HIDE DEF new
<1>4. JobWell(new, rec_begun)
  BY <1>1, <1>3, JobFacts DEF JobWell, SeedPhases
<1>5. rec_alone => JobStage(new, rec_local', rec_server', rec_missed)
  BY <1>1, <1>3, JobFacts DEF JobStage, SeedPhases
<1>6. rec_server' = rec_server /\ rec_server'.ver <= rec_server.ver /\ j.pc \in PutPhases
  BY <1>1, JobFacts DEF PutPhases
<1> QED
  BY <1>1, <1>4, <1>5, <1>6, JobFacts, JobReplaces

LEMMA GetAnsweredKeeps ==
  ASSUME RecInv, NEW j \in rec_jobs, Recover!GetAnswered(j) PROVE RecInv'
<1> DEFINE new == [j EXCEPT !.pc = "put"]
<1>1. /\ j.pc = "got" /\ rec_version' = j.ver /\ Recover!Becomes(j, new)
      /\ UNCHANGED <<rec_info, rec_local, rec_server, rec_late, rec_begun, rec_troubles,
                     rec_restarts, rec_alone, rec_missed>>
  BY DEF Recover!GetAnswered
<1>2. /\ new \in JobStates /\ new.pc = "put" /\ new.kind = j.kind /\ new.rec = j.rec
      /\ new.ver = j.ver
  BY JobFacts, JobPc DEF JobPhases, PutPhases
<1> HIDE DEF new
<1>3. JobWell(new, rec_begun)
  BY <1>1, <1>2, JobFacts DEF JobWell, SeedPhases
<1>4. rec_alone => JobStage(new, rec_local', rec_server', rec_missed)
  BY <1>1, <1>2, JobFacts DEF JobStage, SeedPhases
<1>5. /\ rec_server' = rec_server /\ rec_server'.ver <= rec_server.ver /\ j.pc \in PutPhases
      /\ rec_version' \in Nat /\ rec_version' <= rec_begun
  BY <1>1, JobFacts DEF PutPhases
<1> QED
  BY <1>1, <1>3, <1>4, <1>5, JobFacts, JobReplaces

\* A delete leaves no record on the server, or is refused.
LEMMA DeleteArrivesKeeps ==
  ASSUME RecInv, NEW j \in rec_jobs, Recover!DeleteArrives(j) PROVE RecInv'
<1>1. /\ j.pc = "delete"
      /\ UNCHANGED <<rec_info, rec_local, rec_version, rec_late, rec_begun, rec_troubles,
                     rec_restarts, rec_alone, rec_missed>>
  BY DEF Recover!DeleteArrives
<1>2. CASE j.ver = rec_server.ver
  <2> DEFINE new == [j EXCEPT !.pc = "deleted"]
  <2>1. /\ Recover!Becomes(j, new)
        /\ rec_server' = [ver |-> 0, rec |-> Recover!NoRecord]
    BY <1>2 DEF Recover!DeleteArrives
  <2>2. new \in JobStates /\ new.pc = "deleted" /\ new.kind = j.kind /\ new.ver = j.ver
    BY JobFacts, JobPc DEF JobPhases
  <2> HIDE DEF new
  <2>3. /\ rec_server' \in [ver : Nat, rec : Recover!Records]
        /\ rec_server'.ver = 0 /\ rec_server'.rec = Recover!NoRecord
    BY <2>1, NoRecordIsRecord, SMT
  <2>4. JobWell(new, rec_begun)
    BY <1>1, <2>2, JobFacts DEF JobWell, SeedPhases
  <2>5. rec_alone => JobStage(new, rec_local', rec_server', rec_missed)
    BY <1>1, <2>2, <2>3, JobFacts DEF JobStage, SeedPhases
  <2>6. rec_server'.ver <= rec_server.ver /\ new.pc \notin PutPhases
    BY <2>2, <2>3, JobFacts DEF PutPhases
  <2> QED
    BY <1>1, <2>1, <2>3, <2>4, <2>5, <2>6, JobFacts, JobReplaces
<1>3. CASE j.ver # rec_server.ver
  <2> DEFINE new == [j EXCEPT !.pc = "refused"]
  <2>1. Recover!Becomes(j, new) /\ rec_server' = rec_server
    BY <1>3 DEF Recover!DeleteArrives
  <2>2. new \in JobStates /\ new.pc = "refused" /\ new.kind = j.kind /\ new.ver = j.ver
    BY JobFacts, JobPc DEF JobPhases
  <2> HIDE DEF new
  <2>3. JobWell(new, rec_begun)
    BY <1>1, <2>2, JobFacts DEF JobWell, SeedPhases
  <2>4. rec_alone => JobStage(new, rec_local', rec_server', rec_missed)
    BY <1>1, <2>1, <2>2, JobFacts DEF JobStage, SeedPhases
  <2>5. rec_server'.ver <= rec_server.ver /\ new.pc \notin PutPhases
    BY <2>1, <2>2, JobFacts DEF PutPhases
  <2> QED
    BY <1>1, <2>1, <2>3, <2>4, <2>5, JobFacts, JobReplaces
<1> QED
  BY <1>2, <1>3

LEMMA DeleteAnsweredKeeps ==
  ASSUME RecInv, NEW j \in rec_jobs, Recover!DeleteAnswered(j) PROVE RecInv'
<1>1. /\ j.pc \in {"deleted", "refused"} /\ Recover!Ends(j)
      /\ UNCHANGED <<rec_info, rec_local, rec_server, rec_late, rec_begun, rec_troubles,
                     rec_restarts, rec_alone>>
  BY DEF Recover!DeleteAnswered
<1>2. CASE j.pc = "deleted"
  <2>1. rec_version' = 0 /\ rec_missed' = (rec_missed /\ ~ rec_alone)
    BY <1>2 DEF Recover!DeleteAnswered
  <2>2. rec_alone => rec_server.rec = rec_local'
    BY <1>1, <1>2, JobFacts DEF JobStage
  <2>3. rec_missed' \in BOOLEAN /\ (rec_missed /\ ~ rec_alone => rec_missed')
    BY <2>1
  <2>4. rec_version' \in Nat /\ rec_version' <= rec_begun
    BY <2>1, JobFacts
  <2> QED
    BY <1>1, <2>2, <2>3, <2>4, JobFacts, JobEnds
<1>3. CASE j.pc = "refused"
  <2>1. rec_missed' = TRUE /\ rec_version' = rec_version
    BY <1>3 DEF Recover!DeleteAnswered
  <2> QED
    BY <1>1, <2>1, JobFacts, JobEnds
<1> QED
  BY <1>1, <1>2, <1>3

LEMMA FailsKeeps ==
  ASSUME RecInv, NEW j \in rec_jobs, Recover!Fails(j) PROVE RecInv'
<1>1. /\ j.pc \in {"sent", "answered", "put", "done", "get", "got", "delete", "deleted"}
      /\ rec_troubles < MaxTroubles /\ rec_troubles' = rec_troubles + 1 /\ Recover!Ends(j)
      /\ rec_late' = rec_late \cup Recover!Travelling({j})
      /\ rec_missed' = (rec_missed \/ j.kind # "seed")
      /\ UNCHANGED <<rec_info, rec_local, rec_server, rec_version, rec_begun, rec_restarts,
                     rec_alone>>
  BY DEF Recover!Fails
<1>2. rec_late' = rec_late \/ rec_late' = rec_late \cup {j}
  BY <1>1 DEF Recover!Travelling
<1>3. rec_troubles' \in 0..MaxTroubles
  BY <1>1, JobFacts, ConnectionBounds
<1>4. rec_missed' \in BOOLEAN /\ (rec_missed /\ ~ rec_alone => rec_missed')
  BY <1>1
<1>5. rec_alone /\ ~ rec_missed' => rec_server.rec = rec_local'
  BY <1>1, JobFacts DEF JobStage, SeedPhases
<1> QED
  BY <1>1, <1>3, <1>4, <1>5, <1>2, JobFacts, JobEnds

\* A late request is taken beside whatever runs, or changes nothing.
LEMMA LateArrivesKeeps ==
  ASSUME RecInv, NEW j \in rec_late, Recover!LateArrives(j) PROVE RecInv'
<1>1. /\ rec_late' = rec_late \ {j}
      /\ UNCHANGED <<rec_info, rec_local, rec_version, rec_jobs, rec_begun, rec_troubles,
                     rec_restarts>>
  BY DEF Recover!LateArrives
<1>2. RecTypes /\ JobsWell /\ LateWell /\ RecBounds /\ RecCarried
  BY DEF RecInv
<1>3. j \in JobStates /\ j.rec \in Recover!Records
  BY <1>2, SMT DEF LateWell, JobStates
<1>4. \/ UNCHANGED <<rec_server, rec_alone, rec_missed>>
      \/ /\ rec_alone' = FALSE /\ rec_missed' = TRUE
         /\ \/ j.pc = "put" /\ rec_server' = [ver |-> rec_server.ver + 1, rec |-> j.rec]
            \/ rec_server' = [ver |-> 0, rec |-> Recover!NoRecord]
  BY DEF Recover!LateArrives
<1>5. /\ rec_server' \in [ver : Nat, rec : Recover!Records]
      /\ rec_server.ver \in Nat /\ rec_server'.ver \in Nat /\ rec_begun \in Nat
      /\ \/ rec_server'.ver <= rec_server.ver
         \/ j.pc = "put" /\ rec_server'.ver = rec_server.ver + 1
  <2>1. rec_server \in [ver : Nat, rec : Recover!Records] /\ rec_begun \in Nat
    BY <1>2, SMT DEF RecTypes
  <2> QED
    BY <1>3, <1>4, <2>1, NoRecordIsRecord, SMT
<1>6. RecTypes'
  <2>1. rec_alone' \in BOOLEAN /\ rec_missed' \in BOOLEAN
    BY <1>2, <1>4 DEF RecTypes
  <2> QED
    BY <1>1, <1>2, <1>5, <2>1 DEF RecTypes
<1>7. JobsWell'
  BY <1>1, <1>2 DEF JobsWell
<1>8. LateWell'
  BY <1>1, <1>2, FS_RemoveElement DEF LateWell
<1>9. RecBounds'
  <2> DEFINE a == Cardinality(PutsLeft(rec_jobs))  l == Cardinality(PutsLeft(rec_late))
             m == Cardinality(PutsLeft(rec_late'))  v == rec_server.ver  w == rec_server'.ver
  <2>1. a \in Nat /\ v + a + l <= rec_begun
    BY <1>2, PutsLeftFinite DEF RecBounds
  <2>2. IsFiniteSet(PutsLeft(rec_late)) /\ l \in Nat
    BY <1>2, LatePutsFinite
  <2>3. PutsLeft(rec_late') = PutsLeft(rec_late) \ {j}
    BY <1>1 DEF PutsLeft
  <2>4. j.pc = "put" => j \in PutsLeft(rec_late)
    BY DEF PutsLeft, PutPhases
  <2>5. m \in Nat /\ m <= l /\ (j.pc = "put" => m = l - 1)
    BY <2>2, <2>3, <2>4, FS_RemoveElement, FS_Subset, FS_CardinalityType
  <2>6. v \in Nat /\ w \in Nat /\ rec_begun \in Nat /\ (w <= v \/ (j.pc = "put" /\ w = v + 1))
    BY <1>5
  <2> HIDE DEF a, l, m, v, w
  <2>7. w + a + m <= rec_begun
    BY <2>1, <2>2, <2>5, <2>6
  <2> QED
    BY <1>1, <1>2, <2>7 DEF RecBounds, a, m, w
<1>10. RecCarried'
  BY <1>1, <1>2, <1>4 DEF RecCarried
<1> QED
  BY <1>6, <1>7, <1>8, <1>9, <1>10 DEF RecInv

LEMMA SeedArrivesKeeps ==
  ASSUME RecInv, NEW j \in rec_jobs, Recover!SeedArrives(j) PROVE RecInv'
<1> DEFINE x == [j EXCEPT !.pc = "answered"]
           y == [x EXCEPT !.ver = rec_server.ver]
           new == [y EXCEPT !.rec = rec_server.rec]
<1>1. /\ j.pc = "sent" /\ Recover!Becomes(j, new)
      /\ UNCHANGED <<rec_info, rec_local, rec_server, rec_version, rec_late, rec_begun, rec_troubles,
                     rec_restarts, rec_alone, rec_missed>>
  BY DEF Recover!SeedArrives
<1>2. x \in JobStates /\ x.pc = "answered" /\ x.kind = j.kind
  BY JobFacts, JobPc DEF JobPhases, SeedPhases
<1> HIDE DEF x
<1>3. y \in JobStates /\ y.pc = "answered" /\ y.kind = j.kind /\ y.ver = rec_server.ver
  BY <1>2, JobFacts, JobVer
<1> HIDE DEF y
<1>4. /\ new \in JobStates /\ new.pc = "answered" /\ new.kind = j.kind
      /\ new.ver = rec_server.ver /\ new.rec = rec_server.rec
  BY <1>3, JobFacts, JobRec
<1> HIDE DEF new
<1>5. JobWell(new, rec_begun)
  BY <1>1, <1>4, JobFacts DEF JobWell, SeedPhases
<1>6. rec_alone => JobStage(new, rec_local', rec_server', rec_missed)
  BY <1>1, <1>4, JobFacts DEF JobStage, SeedPhases
<1>7. rec_server' = rec_server /\ rec_server'.ver <= rec_server.ver /\ new.pc \notin PutPhases
  BY <1>1, <1>4, JobFacts DEF PutPhases
<1> QED
  BY <1>1, <1>5, <1>6, <1>7, JobFacts, JobReplaces

LEMMA SeedAnsweredKeeps ==
  ASSUME RecInv, NEW j \in rec_jobs, Recover!SeedAnswered(j) PROVE RecInv'
<1>1. /\ j.pc = "answered" /\ rec_version' = (IF j.ver = 0 THEN rec_version ELSE j.ver)
      /\ UNCHANGED <<rec_info, rec_local, rec_server, rec_late, rec_begun, rec_troubles,
                     rec_restarts, rec_alone, rec_missed>>
  BY DEF Recover!SeedAnswered
<1>2. rec_version' \in Nat /\ rec_version' <= rec_begun
  BY <1>1, JobFacts
<1>3. CASE j.ver # 0 /\ rec_local = Recover!NoRecord
  <2> DEFINE new == [j EXCEPT !.pc = "restore"]
  <2>1. Recover!Becomes(j, new)
    BY <1>3 DEF Recover!SeedAnswered
  <2>2. /\ new \in JobStates /\ new.pc = "restore" /\ new.kind = j.kind
        /\ new.ver = j.ver /\ new.rec = j.rec
    BY JobFacts, JobPc DEF JobPhases, SeedPhases
  <2> HIDE DEF new
  <2>3. JobWell(new, rec_begun)
    BY <1>1, <2>2, JobFacts DEF JobWell, SeedPhases
  <2>4. rec_alone => JobStage(new, rec_local', rec_server', rec_missed)
    BY <1>1, <2>2, JobFacts DEF JobStage, SeedPhases
  <2>5. /\ rec_server' = rec_server /\ rec_server'.ver <= rec_server.ver
        /\ new.pc \notin PutPhases
    BY <1>1, <2>2, JobFacts DEF PutPhases
  <2> QED
    BY <1>1, <1>2, <2>1, <2>3, <2>4, <2>5, JobFacts, JobReplaces
<1>4. CASE ~ (j.ver # 0 /\ rec_local = Recover!NoRecord)
  <2>1. Recover!Ends(j)
    BY <1>4 DEF Recover!SeedAnswered
  <2>2. rec_alone /\ ~ rec_missed' => rec_server.rec = rec_local'
    BY <1>1, JobFacts DEF JobStage, SeedPhases
  <2> QED
    BY <1>1, <1>2, <2>1, <2>2, JobFacts, JobEnds
<1> QED
  BY <1>3, <1>4

LEMMA SeedRestoresKeeps ==
  ASSUME RecInv, NEW j \in rec_jobs, Recover!SeedRestores(j) PROVE RecInv'
<1>1. /\ j.pc = "restore" /\ rec_local' = j.rec /\ Recover!Ends(j)
      /\ UNCHANGED <<rec_info, rec_server, rec_version, rec_late, rec_begun, rec_troubles,
                     rec_restarts, rec_alone, rec_missed>>
  BY DEF Recover!SeedRestores
<1>2. rec_alone /\ ~ rec_missed' => rec_server.rec = rec_local'
  BY <1>1, JobFacts DEF JobStage, SeedPhases
<1> QED
  BY <1>1, <1>2, JobFacts, JobEnds

\* What the proofs of the calls that begin know.
LEMMA StoreFacts ==
  ASSUME RecInv
  PROVE  /\ rec_begun \in Nat /\ rec_version \in Nat /\ rec_version <= rec_begun
         /\ rec_local \in Recover!Records
         /\ (rec_jobs = {} /\ ~ rec_missed => rec_server.rec = rec_local)
BY DEF RecInv, RecTypes, RecBounds, RecCarried

LEMMA BumpKeeps ==
  ASSUME RecInv, NEW c \in Channels, Recover!Bump(c) PROVE RecInv'
<1> DEFINE new == Recover!Job("enter", c, "start", Recover!NoRecord)
<1>1. /\ Recover!Begins(new) /\ rec_begun < MaxJobs
      /\ UNCHANGED <<rec_info, rec_local, rec_server, rec_version, rec_late, rec_troubles,
                     rec_restarts>>
  BY DEF Recover!Bump, Recover!Begins
<1>2. /\ new \in JobStates /\ new.pc = "start" /\ new.kind = "enter" /\ new.ver = 0
      /\ new.retry = FALSE
  <2>1. "start" \in JobPhases
    BY DEF JobPhases, SeedPhases, PutPhases
  <2>2. rec_begun \in Nat /\ MaxJobs \in Nat /\ rec_begun < MaxJobs
    BY <1>1, StoreFacts, ConnectionBounds
  <2>3. rec_begun + 1 \in 1..MaxJobs
    BY <2>2
  <2> QED
    BY <2>1, <2>3, NoRecordIsRecord, SMT DEF JobStates, Recover!Job
<1> HIDE DEF new
<1>3. JobWell(new, rec_begun)
  BY <1>2, StoreFacts DEF JobWell, SeedPhases
<1>4. rec_jobs = {} => JobStage(new, rec_local', rec_server, rec_missed)
  BY <1>1, <1>2, StoreFacts DEF JobStage, SeedPhases
<1> QED
  BY <1>1, <1>2, <1>3, <1>4, StoreFacts, JobBegins

LEMMA AutoRecoverKeeps ==
  ASSUME RecInv, NEW c \in Channels, Recover!AutoRecover(c) PROVE RecInv'
<1> DEFINE r == [rec_local EXCEPT !.status = "sweep_confirmed"]
           new == Recover!Job("auto", c, "sweep", r)
<1>1. /\ Recover!Begins(new) /\ rec_begun < MaxJobs
      /\ UNCHANGED <<rec_info, rec_local, rec_server, rec_version, rec_late, rec_troubles,
                     rec_restarts>>
  BY DEF Recover!AutoRecover, Recover!Begins
<1>2. r \in Recover!Records
  BY StoreFacts, SMT DEF Recover!Records
<1> HIDE DEF r
<1>3. /\ new \in JobStates /\ new.pc = "sweep" /\ new.kind = "auto" /\ new.ver = 0
      /\ new.retry = FALSE
  <2>1. "sweep" \in JobPhases
    BY DEF JobPhases, SeedPhases, PutPhases
  <2>2. rec_begun \in Nat /\ MaxJobs \in Nat /\ rec_begun < MaxJobs
    BY <1>1, StoreFacts, ConnectionBounds
  <2>3. rec_begun + 1 \in 1..MaxJobs
    BY <2>2
  <2> QED
    BY <1>2, <2>1, <2>3, SMT DEF JobStates, Recover!Job
<1> HIDE DEF new
<1>4. JobWell(new, rec_begun)
  BY <1>3, StoreFacts DEF JobWell, SeedPhases
<1>5. rec_jobs = {} => JobStage(new, rec_local', rec_server, rec_missed)
  BY <1>1, <1>3, StoreFacts DEF JobStage, SeedPhases
<1> QED
  BY <1>1, <1>3, <1>4, <1>5, StoreFacts, JobBegins

LEMMA DismissKeeps ==
  ASSUME RecInv, NEW c \in Channels, Recover!Dismiss(c) PROVE RecInv'
<1> DEFINE x == Recover!Job("clear", c, "delete", Recover!NoRecord)
           new == [x EXCEPT !.ver = rec_version]
<1>1. /\ Recover!Begins(new) /\ rec_begun < MaxJobs /\ rec_local' = Recover!NoRecord
      /\ UNCHANGED <<rec_info, rec_server, rec_version, rec_late, rec_troubles, rec_restarts>>
  BY DEF Recover!Dismiss, Recover!Begins
<1>2. x \in JobStates /\ x.pc = "delete" /\ x.kind = "clear"
  <2>1. "delete" \in JobPhases
    BY DEF JobPhases, SeedPhases, PutPhases
  <2>2. rec_begun \in Nat /\ MaxJobs \in Nat /\ rec_begun < MaxJobs
    BY <1>1, StoreFacts, ConnectionBounds
  <2>3. rec_begun + 1 \in 1..MaxJobs
    BY <2>2
  <2> QED
    BY <2>1, <2>3, NoRecordIsRecord, SMT DEF JobStates, Recover!Job
<1> HIDE DEF x
<1>3. /\ new \in JobStates /\ new.pc = "delete" /\ new.kind = "clear"
      /\ new.ver = rec_version
  BY <1>2, StoreFacts, JobVer
<1> HIDE DEF new
<1>4. JobWell(new, rec_begun)
  BY <1>3, StoreFacts DEF JobWell, SeedPhases
<1>5. rec_jobs = {} => JobStage(new, rec_local', rec_server, rec_missed)
  BY <1>1, <1>3 DEF JobStage, SeedPhases
<1> QED
  BY <1>1, <1>3, <1>4, <1>5, NoRecordIsRecord, JobBegins

\* A restart leaves one seed, which runs alone.
LEMMA RestartKeeps ==
  ASSUME RecInv, NEW c \in Channels, Recover!Restart(c) PROVE RecInv'
<1> DEFINE new == Recover!Job("seed", c, "sent", Recover!NoRecord)
<1>1. /\ rec_restarts < MaxRestarts /\ rec_restarts' = rec_restarts + 1
      /\ rec_begun < MaxJobs /\ rec_begun' = rec_begun + 1
      /\ rec_info' = {} /\ rec_version' = 0 /\ rec_jobs' = {new}
      /\ rec_alone' = TRUE /\ rec_missed' = (rec_missed \/ rec_jobs # {})
      /\ rec_late' = rec_late \cup Recover!Travelling(rec_jobs)
      /\ UNCHANGED <<rec_local, rec_server, rec_troubles>>
  BY DEF Recover!Restart
<1>2. RecTypes /\ JobsWell /\ LateWell /\ RecBounds /\ RecCarried
  BY DEF RecInv
<1>3. /\ new \in JobStates /\ new.pc = "sent" /\ new.kind = "seed" /\ new.ver = 0
      /\ new.retry = FALSE
  <2>1. "sent" \in JobPhases
    BY DEF JobPhases, SeedPhases, PutPhases
  <2>2. rec_begun \in Nat /\ MaxJobs \in Nat /\ rec_begun < MaxJobs
    BY <1>1, StoreFacts, ConnectionBounds
  <2>3. rec_begun + 1 \in 1..MaxJobs
    BY <2>2
  <2> QED
    BY <2>1, <2>3, NoRecordIsRecord, SMT DEF JobStates, Recover!Job
<1> HIDE DEF new
<1>4. rec_begun' \in 0..MaxJobs /\ rec_restarts' \in 0..MaxRestarts /\ rec_begun \in Nat
  BY <1>1, <1>2, ConnectionBounds DEF RecTypes
<1>5. rec_missed' \in BOOLEAN
  BY <1>1
<1>6. RecTypes'
  BY <1>1, <1>2, <1>4, <1>5 DEF RecTypes
<1>7. JobsWell'
  <2>1. JobWell(new, rec_begun')
    BY <1>1, <1>3, <1>4 DEF JobWell, SeedPhases
  <2> QED
    BY <1>1, <2>1, FS_Singleton DEF JobsWell
<1>8. RecBounds'
  <2> DEFINE a == Cardinality(PutsLeft(rec_jobs))  b == Cardinality(PutsLeft(rec_jobs'))
             l == Cardinality(PutsLeft(rec_late))  m == Cardinality(PutsLeft(rec_late'))
             u == PutsLeft(rec_late) \cup PutsLeft(rec_jobs)
  <2>1. IsFiniteSet(PutsLeft(rec_late)) /\ l \in Nat /\ IsFiniteSet(PutsLeft(rec_jobs))
    BY <1>2, LatePutsFinite, PutsLeftFinite
  <2>2. PutsLeft(rec_late') \subseteq u
    BY <1>1 DEF PutsLeft, Recover!Travelling
  <2>3. IsFiniteSet(u) /\ Cardinality(u) \in Nat /\ Cardinality(u) <= l + a
    <3> DEFINE both == PutsLeft(rec_late) \cap PutsLeft(rec_jobs)
    <3>1. IsFiniteSet(u) /\ Cardinality(u) = l + a - Cardinality(both)
      BY <2>1, FS_Union
    <3>2. Cardinality(both) \in Nat /\ Cardinality(u) \in Nat /\ a \in Nat
      BY <2>1, <3>1, FS_Intersection, FS_CardinalityType
    <3> HIDE DEF both, a, l, u
    <3> QED
      BY <2>1, <3>1, <3>2
  <2>4. m \in Nat /\ m <= Cardinality(u)
    BY <2>2, <2>3, FS_Subset, FS_CardinalityType
  <2>5. PutsLeft(rec_jobs') = {}
    BY <1>1, <1>3 DEF PutsLeft, PutPhases
  <2>6. b = 0
    BY <2>5, FS_EmptySet
  <2>7. a \in Nat /\ rec_server.ver + a + l <= rec_begun /\ rec_server.ver \in Nat
    BY <1>2, PutsLeftFinite, SMT DEF RecBounds, RecTypes
  <2>8. Cardinality(u) \in Nat /\ Cardinality(u) <= l + a
    BY <2>3
  <2> HIDE DEF a, b, l, m, u
  <2>9. rec_server.ver + b + m <= rec_begun' /\ 0 <= rec_begun'
    BY <1>1, <1>4, <2>6, <2>7, <2>1, <2>4, <2>8
  <2> QED
    BY <1>1, <2>9 DEF RecBounds, b, m
<1>9. LateWell'
  <2>1. Recover!Travelling(rec_jobs) \subseteq rec_jobs
    BY DEF Recover!Travelling
  <2>2. IsFiniteSet(rec_late')
    BY <1>1, <1>2, <2>1, FS_Subset, FS_Union DEF LateWell, JobsWell
  <2>3. \A i \in rec_late' : i \in JobStates /\ i.ver <= rec_begun
    BY <1>1, <1>2, <2>1 DEF LateWell, JobsWell, JobWell
  <2>4. \A i \in rec_late' : i \in JobStates /\ i.ver <= rec_begun'
    BY <1>1, <1>4, <2>3, SMT DEF JobStates
  <2> QED
    BY <2>2, <2>4 DEF LateWell
<1>10. RecCarried'
  <2>1. JobStage(new, rec_local', rec_server', rec_missed')
    BY <1>1, <1>3, StoreFacts DEF JobStage, SeedPhases
  <2> QED
    BY <1>1, <2>1 DEF RecCarried
<1> QED
  BY <1>6, <1>7, <1>8, <1>10, <1>9 DEF RecInv

LEMMA ForceClosedKeeps ==
  ASSUME RecInv, NEW c \in Channels, Recover!ForceClosed(c) PROVE RecInv'
<1>1. /\ rec_info' = rec_info \cup {c}
      /\ UNCHANGED <<rec_local, rec_server, rec_version, rec_jobs, rec_late, rec_begun, rec_troubles,
                     rec_restarts, rec_alone, rec_missed>>
  BY DEF Recover!ForceClosed
<1>2. RecTypes'
  BY <1>1 DEF RecInv, RecTypes
<1>3. JobsWell' /\ LateWell' /\ RecBounds' /\ RecCarried'
  BY <1>1 DEF RecInv, JobsWell, LateWell, RecBounds, RecCarried
<1> QED
  BY <1>2, <1>3 DEF RecInv

LEMMA RecoveryMoves ==
  ASSUME [SessionNext]_sessionVars PROVE [Recover!Next]_(Recover!vars)
<1>1. CASE UNCHANGED sessionVars
  BY <1>1 DEF sessionVars, recVars, Recover!vars
<1>2. CASE SessionNext
  <2>1. part # "recovery" => UNCHANGED recVars
    BY <1>2 DEF SessionNext, Rest
  <2>2. part = "recovery" => Recover!Next
    BY <1>2 DEF SessionNext
  <2> QED
    BY <2>1, <2>2 DEF recVars, Recover!vars
<1> QED
  BY <1>1, <1>2

LEMMA RecoveryHolds ==
  /\ SessionInit => RecInv
  /\ RecInv /\ [SessionNext]_sessionVars => RecInv'
<1>1. SessionInit => RecInv
  <2> SUFFICES ASSUME Recover!Init PROVE RecInv
    BY DEF SessionInit
  <2>1. rec_server \in [ver : Nat, rec : Recover!Records] /\ rec_server.ver = 0
    BY NoRecordIsRecord, SMT DEF Recover!Init
  <2>2. RecTypes
    <3>1. /\ rec_troubles \in 0..MaxTroubles /\ rec_restarts \in 0..MaxRestarts
          /\ rec_begun \in 0..MaxJobs /\ rec_version \in Nat
      BY ConnectionBounds DEF Recover!Init
    <3> QED
      BY <2>1, <3>1, NoRecordIsRecord DEF Recover!Init, RecTypes
  <2>3. JobsWell
    BY FS_EmptySet DEF Recover!Init, JobsWell
  <2>4. PutsLeft(rec_jobs) = {} /\ PutsLeft(rec_late) = {}
    BY DEF Recover!Init, PutsLeft
  <2>5. LateWell
    BY FS_EmptySet DEF Recover!Init, LateWell
  <2>6. RecBounds
    BY <2>1, <2>4, FS_EmptySet DEF Recover!Init, RecBounds
  <2>7. RecCarried
    BY DEF Recover!Init, RecCarried
  <2> QED
    BY <2>2, <2>3, <2>6, <2>7, <2>5 DEF RecInv
<1>2. RecInv /\ [SessionNext]_sessionVars => RecInv'
  <2> SUFFICES ASSUME RecInv, [Recover!Next]_(Recover!vars) PROVE RecInv'
    BY RecoveryMoves
  <2>1. CASE \E c \in Channels : \/ Recover!ForceClosed(c) \/ Recover!Bump(c)
                                 \/ Recover!AutoRecover(c) \/ Recover!Dismiss(c)
                                 \/ Recover!Restart(c)
    BY <2>1, ForceClosedKeeps, BumpKeeps, AutoRecoverKeeps, DismissKeeps, RestartKeeps
  <2>2. CASE \E j \in rec_jobs : \/ Recover!EnterReads(j) \/ Recover!SweepsNothing(j)
                                 \/ Recover!Writes(j) \/ Recover!PutArrives(j)
                                 \/ Recover!PutAnswered(j) \/ Recover!Conflict(j)
                                 \/ Recover!GetArrives(j)
    BY <2>2, EnterReadsKeeps, SweepsNothingKeeps, WritesKeeps, PutArrivesKeeps,
       PutAnsweredKeeps, ConflictKeeps, GetArrivesKeeps
  <2>3. CASE \E j \in rec_jobs : \/ Recover!GetAnswered(j) \/ Recover!DeleteArrives(j)
                                 \/ Recover!DeleteAnswered(j) \/ Recover!Fails(j)
                                 \/ Recover!SeedArrives(j) \/ Recover!SeedAnswered(j)
                                 \/ Recover!SeedRestores(j)
    BY <2>3, GetAnsweredKeeps, DeleteArrivesKeeps, DeleteAnsweredKeeps, FailsKeeps,
       SeedArrivesKeeps, SeedAnsweredKeeps, SeedRestoresKeeps
  <2>4. CASE UNCHANGED Recover!vars
    BY <2>4 DEF Recover!vars, RecInv, RecTypes, JobsWell, LateWell, RecBounds, RecCarried
  <2>5. CASE \E j \in rec_late : Recover!LateArrives(j)
    BY <2>5, LateArrivesKeeps
  <2> QED
    BY <2>1, <2>2, <2>3, <2>4, <2>5 DEF Recover!Next
<1> QED
  BY <1>1, <1>2

\* A settled recovery record is the one on the server (writeRecoveryState,
\* clearRecoveryState, seedRecoveryVssVersion), restarts included.
THEOREM RecordReachesServer == SessionSpec => []RecordOnServer
<1>1. RecInv => RecordOnServer
  BY DEF RecInv, RecCarried, RecordOnServer, Recover!RecordOnServer
<1> QED
  BY <1>1, RecoveryHolds, PTL DEF SessionSpec

\* The recovery record keeps its types, and no version exceeds the number of jobs.
LEMMA RecoveryTypes == RecInv => Recover!TypeOK
<1> SUFFICES ASSUME RecInv PROVE Recover!TypeOK
  OBVIOUS
<1>1. RecTypes /\ JobsWell /\ rec_begun \in 0..MaxJobs /\ MaxJobs \in Nat
  BY ConnectionBounds DEF RecInv, RecTypes
<1>2. \A v \in Nat : v <= rec_begun => v \in 0..(2 * MaxJobs)
  BY <1>1
<1>3. rec_server.ver \in Nat /\ rec_server.ver <= rec_begun
  <2> DEFINE a == Cardinality(PutsLeft(rec_jobs))  l == Cardinality(PutsLeft(rec_late))
  <2>1. a \in Nat /\ rec_server.ver + a + l <= rec_begun /\ rec_server.ver \in Nat
    BY <1>1, PutsLeftFinite, SMT DEF RecInv, RecBounds, RecTypes
  <2>2. l \in Nat
    BY LatePutsFinite DEF RecInv
  <2> HIDE DEF a, l
  <2> QED
    BY <1>1, <2>1, <2>2
<1>4. rec_server \in [ver : 0..(2 * MaxJobs), rec : Recover!Records]
  BY <1>1, <1>2, <1>3, SMT DEF RecTypes
<1>5. rec_version \in 0..(2 * MaxJobs)
  BY <1>2, StoreFacts
<1>6. \A j \in rec_jobs : j \in Recover!Jobs
  <2> SUFFICES ASSUME NEW j \in rec_jobs PROVE j \in Recover!Jobs
    OBVIOUS
  <2>1. j \in JobStates /\ j.ver \in 0..(2 * MaxJobs)
    BY <1>1, <1>2, JobFacts
  <2> QED
    BY <2>1, SMT DEF JobStates, Recover!Jobs, JobPhases, SeedPhases, PutPhases
<1>7. \A j \in rec_late : j \in Recover!Jobs
  <2> SUFFICES ASSUME NEW j \in rec_late PROVE j \in Recover!Jobs
    OBVIOUS
  <2>1. j \in JobStates /\ j.ver \in 0..(2 * MaxJobs)
    BY <1>2, SMT DEF RecInv, LateWell, JobStates
  <2> QED
    BY <2>1, SMT DEF JobStates, Recover!Jobs, JobPhases, SeedPhases, PutPhases
<1> QED
  BY <1>1, <1>4, <1>5, <1>6, <1>7 DEF RecTypes, Recover!TypeOK
=============================================================================
