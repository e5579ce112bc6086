-------------------------- MODULE PeerConnections --------------------------
(***************************************************************************)
(* The sockets to peers: connectToPeer (src/ldk/peers/peer-connection.ts), *)
(* connectAndTrack and its callers, disconnectPeer, the periodic           *)
(* reconnection (src/ldk/peers/peer-reconnect.ts) and the teardown of      *)
(* src/ldk/context.tsx, and the opening and closing of channels            *)
(* (src/pages/OpenChannel.tsx and CloseChannel.tsx), which decide whom     *)
(* the reconnection is for.                                                *)
(*                                                                         *)
(* LDK links at most one socket to a peer and refuses a second handshake.  *)
(***************************************************************************)
EXTENDS Naturals, FiniteSets

CONSTANTS
  Peers,
  MaxSockets,  \* bound: sockets opened
  MaxChannels  \* bound: channels opened

NoSocket == 0
Sockets == 1..MaxSockets

VARIABLES
  made,        \* sockets so far
  peer,        \* the peer a socket is for
  by,          \* who waits for it: connectAndTrack or the reconnection
  state,       \* of a socket
  linked,      \* LDK's socket for a peer
  tracked,     \* activeConnections
  channel,     \* peers with a channel
  opened,      \* channels opened so far
  opening,     \* what the Open channel page waits for: a socket
  reconnect,   \* maybeReconnectPeers: idle, reading known peers, connecting
  missing,     \* the peers it found without a connection
  torn         \* teardown has run

channels == <<channel, opened, opening>>
sweep == <<reconnect, missing>>
vars == <<made, peer, by, state, linked, tracked, channel, opened, opening,
          reconnect, missing, torn>>

TypeOK ==
  /\ made \in 0..MaxSockets
  /\ peer \in [1..made -> Peers] /\ by \in [1..made -> {"track", "reconnect"}]
  /\ state \in [1..made -> {"opening", "handshake", "open", "closed"}]
  /\ linked \in [Peers -> 0..made] /\ tracked \in [Peers -> 0..made]
  /\ channel \subseteq Peers /\ opened \in 0..MaxChannels /\ opening \in 0..made
  /\ reconnect \in {"idle", "reading", "connecting"} /\ missing \subseteq Peers
  /\ torn \in BOOLEAN

Init ==
  /\ made = 0 /\ peer = <<>> /\ by = <<>> /\ state = <<>>
  /\ linked = [p \in Peers |-> NoSocket] /\ tracked = [p \in Peers |-> NoSocket]
  /\ channel = {} /\ opened = 0 /\ opening = NoSocket
  /\ reconnect = "idle" /\ missing = {} /\ torn = FALSE

-----------------------------------------------------------------------------
(* Sockets. *)

Extended(f, value) == [s \in 1..made + 1 |-> IF s \in 1..made THEN f[s] ELSE value]

\* connectToPeer: a new socket to p.
NewSocket(p, waiter) ==
  /\ made < MaxSockets /\ made' = made + 1
  /\ peer' = Extended(peer, p) /\ by' = Extended(by, waiter)

Waiting(s) == s \in 1..made /\ state[s] \in {"opening", "handshake"}
Pending(waiter) == {s \in 1..made : Waiting(s) /\ by[s] = waiter}

\* The states and links once the sockets ss are closed and LDK told of it.
StateWithout(ss) == [s \in 1..made |-> IF s \in ss THEN "closed" ELSE state[s]]
LinkedWithout(ss) == [p \in Peers |-> IF linked[p] \in ss THEN NoSocket ELSE linked[p]]

\* connectAndTrack: ConnectionNeeded, the user, a JIT invoice or the start.
Connect(p) ==
  /\ ~torn /\ NewSocket(p, "track") /\ state' = Extended(state, "opening")
  /\ UNCHANGED <<linked, tracked, channels, sweep, torn>>

\* onopen: the descriptor, and the first act of the handshake.
Opens(s) ==
  /\ s \in 1..made /\ state[s] = "opening"
  /\ state' = [state EXCEPT ![s] = "handshake"]
  /\ UNCHANGED <<made, peer, by, linked, tracked, channels, sweep, torn>>

\* The reconnection is over when its last socket is settled.
ReconnectSettles(s) ==
  IF reconnect = "connecting" /\ Pending("reconnect") \subseteq {s}
  THEN reconnect' = "idle" /\ missing' = {} ELSE UNCHANGED sweep

\* The handshake is complete and the promise resolved: connectAndTrack closes
\* the socket tracked so far and tracks this one, the reconnection only tracks.
Completed(s, kept) ==
  /\ s \in 1..made /\ state[s] = "handshake" /\ linked[peer[s]] = NoSocket
  /\ LET old == IF by[s] = "track" THEN {tracked[peer[s]]} ELSE {} IN
     /\ state' = [StateWithout(old) EXCEPT ![s] = "open"]
     /\ linked' = [LinkedWithout(old) EXCEPT ![peer[s]] = s]
  /\ tracked' = [tracked EXCEPT ![peer[s]] = IF kept THEN @ ELSE s]
  /\ ReconnectSettles(s)
  /\ UNCHANGED <<made, peer, by, channels, torn>>

\* Faulty variant: a peer that is tracked already is not tracked again.
CompletesOnce(s) == s \in 1..made /\ Completed(s, tracked[peer[s]] # NoSocket)

Completes(s) == Completed(s, FALSE)

\* Refused as a duplicate, an error, the timeout, or the end of a connection.
Closes(s) ==
  /\ s \in 1..made /\ state[s] # "closed"
  /\ state' = StateWithout({s}) /\ linked' = LinkedWithout({s})
  /\ opening' = IF opening = s THEN NoSocket ELSE opening
  /\ ReconnectSettles(s)
  /\ UNCHANGED <<made, peer, by, tracked, channel, opened, torn>>

\* read_event fails on a connection: LDK drops the peer, the socket stays open.
Rejected(s) ==
  /\ s \in 1..made /\ state[s] = "open" /\ linked[peer[s]] = s
  /\ linked' = LinkedWithout({s})
  /\ UNCHANGED <<made, peer, by, state, tracked, channels, sweep, torn>>

DisconnectPeer(p) ==
  /\ ~torn /\ tracked[p] # NoSocket
  /\ state' = StateWithout({tracked[p]}) /\ linked' = LinkedWithout({tracked[p]})
  /\ tracked' = [tracked EXCEPT ![p] = NoSocket]
  /\ UNCHANGED <<made, peer, by, channels, sweep, torn>>

-----------------------------------------------------------------------------
(* Reconnection. *)

\* Every third tick of the timer: channel peers without a connection, then
\* the known peers are read.
MaybeReconnect ==
  /\ ~torn /\ reconnect = "idle"
  /\ missing' = {p \in channel : linked[p] = NoSocket} /\ missing' # {}
  /\ reconnect' = "reading"
  /\ UNCHANGED <<made, peer, by, state, linked, tracked, channels, torn>>

\* Of the missing peers the known ones are disconnected and connected again,
\* here one at a time.
ReconnectPeer(p) ==
  /\ reconnect # "idle" /\ p \in missing
  /\ NewSocket(p, "reconnect")
  /\ LET old == {tracked[p]} IN
     /\ state' = [s \in 1..made + 1 |-> IF s = made + 1 THEN "opening" ELSE StateWithout(old)[s]]
     /\ linked' = LinkedWithout(old)
  /\ missing' = missing \ {p} /\ reconnect' = "connecting"
  /\ UNCHANGED <<tracked, channels, torn>>

\* None of the missing peers is known.
NoneKnown ==
  /\ reconnect = "reading" /\ reconnect' = "idle" /\ missing' = {}
  /\ UNCHANGED <<made, peer, by, state, linked, tracked, channels, torn>>

-----------------------------------------------------------------------------
(* Channels. *)

\* The confirmation of the Open channel page: connects if LDK has no link.
ConfirmOpen(p) ==
  /\ ~torn /\ opening = NoSocket /\ opened < MaxChannels
  /\ \/ /\ linked[p] # NoSocket /\ channel' = channel \union {p} /\ opened' = opened + 1
        /\ UNCHANGED <<made, peer, by, state, opening>>
     \/ /\ linked[p] = NoSocket
        /\ NewSocket(p, "track") /\ state' = Extended(state, "opening") /\ opening' = made + 1
        /\ UNCHANGED <<channel, opened>>
  /\ UNCHANGED <<linked, tracked, sweep, torn>>

\* createChannel once connected; LDK refuses it if the peer is gone.
CreateChannel ==
  /\ opening # NoSocket /\ ~Waiting(opening)
  /\ IF linked[peer[opening]] # NoSocket /\ ~torn
     THEN channel' = channel \union {peer[opening]} /\ opened' = opened + 1
     ELSE UNCHANGED <<channel, opened>>
  /\ opening' = NoSocket
  /\ UNCHANGED <<made, peer, by, state, linked, tracked, sweep, torn>>

\* Closed by either side.
ChannelCloses(p) ==
  /\ p \in channel /\ channel' = channel \ {p}
  /\ UNCHANGED <<made, peer, by, state, linked, tracked, opened, opening, sweep, torn>>

\* A takeover by another tab, a restore, or the effect's cleanup.
Teardown ==
  /\ ~torn /\ torn' = TRUE
  /\ LET all == {tracked[p] : p \in Peers} IN
     state' = StateWithout(all) /\ linked' = LinkedWithout(all)
  /\ tracked' = [p \in Peers |-> NoSocket]
  /\ UNCHANGED <<made, peer, by, channels, sweep>>

Next ==
  \/ \E p \in Peers : \/ Connect(p) \/ DisconnectPeer(p) \/ ReconnectPeer(p)
                      \/ ConfirmOpen(p) \/ ChannelCloses(p)
  \/ \E s \in Sockets : Opens(s) \/ Completes(s) \/ Closes(s) \/ Rejected(s)
  \/ MaybeReconnect \/ NoneKnown \/ CreateChannel \/ Teardown

Spec == Init /\ [][Next]_vars

-----------------------------------------------------------------------------
\* Until the teardown, the socket LDK talks to a peer over is the one in
\* activeConnections: disconnectPeer and the teardown can close it, whatever
\* connections raced, died or were replaced before.
NoUntrackedPeer == ~torn => \A p \in Peers : linked[p] \in {NoSocket, tracked[p]}

\* After the teardown no peer talks to this tab's node any more.
NoPeerAfterTeardown == torn => \A p \in Peers : linked[p] = NoSocket
=============================================================================
