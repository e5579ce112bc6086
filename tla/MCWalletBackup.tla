--------------------------- MODULE MCWalletBackup ---------------------------
(* WalletBackup for TLC: behaviours with both channels have two troubles,    *)
(* those with one channel have four, enough for a restore, a crash, a failed *)
(* recovery and a failed undoing of it.                                      *)
EXTENDS WalletBackup, TLC

CONSTANTS a, b, c, drain

Two == {a, b}
Three == {a, b, c}
NoDrain == {}
OneDrain == {drain}
Perms == Permutations(Channels)
Scope(cs, n) == [channels |-> cs, troubles |-> n]
MCScopes == {Scope(Two, 2)} \cup {Scope({ch}, 4) : ch \in Two}
DropScopes == {Scope(Three, 2)}
RestoreScopes == {Scope(Two, 1)}
=============================================================================
