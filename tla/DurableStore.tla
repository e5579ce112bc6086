---------------------------- MODULE DurableStore ----------------------------
(***************************************************************************)
(* What the wallet's monitor storage promises to LDK, with no stores, no   *)
(* versions and no network: per channel, LDK makes snapshots of a monitor  *)
(* (numbered in the order they are made), the storage moves the snapshot   *)
(* that would survive the loss of either copy forward, and tells LDK only  *)
(* of snapshots that are safe.  Nothing ever moves backwards: this is what *)
(* makes it sound for LDK to go on (to revoke an old commitment) once      *)
(* channel_monitor_updated was called.                                     *)
(***************************************************************************)
EXTENDS Naturals

CONSTANT Channels

VARIABLES
  made,   \* the newest snapshot LDK has handed over
  safe,   \* the snapshot that is left if one of the two copies is lost
  told    \* the newest snapshot LDK was told is persisted

vars == <<made, safe, told>>

Init ==
  /\ made = [c \in Channels |-> 0]
  /\ safe = [c \in Channels |-> 0]
  /\ told = [c \in Channels |-> 0]

\* LDK calls persist_new_channel or update_persisted_channel.
Make(c) ==
  /\ made' = [made EXCEPT ![c] = @ + 1]
  /\ UNCHANGED <<safe, told>>

\* Some snapshot handed over earlier becomes safe; snapshots may be skipped
\* (a reload drops the ones that were still queued), never revisited.
Secure(c) ==
  \E n \in (safe[c] + 1)..made[c] :
    /\ safe' = [safe EXCEPT ![c] = n]
    /\ UNCHANGED <<made, told>>

\* channel_monitor_updated, for the safe snapshot or one it supersedes.
Tell(c) ==
  \E n \in (told[c] + 1)..safe[c] :
    /\ told' = [told EXCEPT ![c] = n]
    /\ UNCHANGED <<made, safe>>

Next == \E c \in Channels : Make(c) \/ Secure(c) \/ Tell(c)

Spec == Init /\ [][Next]_vars
=============================================================================
