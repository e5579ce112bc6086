--------------------------- MODULE MCTransactions ---------------------------
(* Transactions for TLC: a commitment and its replacement, a sweep of one or *)
(* two outputs, none, one or both unreadable, one funded channel; each       *)
(* behaviour has some of these.                                              *)
EXTENDS Transactions

CONSTANTS o1, o2, ch, commitment

MCLdkTxs == {[spends |-> {commitment}, fee |-> f] : f \in {1, 2}}
Scope(n, outs, unread, chans, bad) ==
  [ldk |-> n, outputs |-> outs, unreadable |-> unread, channels |-> chans,
   troubles |-> bad]
MCScopes == {Scope(2, {}, {}, {}, 1), Scope(0, {}, {}, {ch}, 2)}
              \union {Scope(0, {o1, o2}, unread, {}, 2) : unread \in {{}, {o1}, {o1, o2}}}
SweepScopes == {Scope(0, {o1, o2}, {}, {}, 1)}
=============================================================================
