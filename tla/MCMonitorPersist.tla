-------------------------- MODULE MCMonitorPersist --------------------------
(* Instances of MonitorPersist for TLC. *)
EXTENDS MonitorPersist, TLC

CONSTANTS c1, c2

OneChannel == {c1}
TwoChannels == {c1, c2}
Perms == Permutations(Channels)
=============================================================================
