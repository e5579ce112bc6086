---------------------------- MODULE MCJitReceive ----------------------------
(* JitReceive for TLC: fee arithmetic in tenths instead of millionths, with *)
(* a small word.                                                            *)
EXTENDS JitReceive

Entry(min, prop, lo, hi) ==
  [minFee |-> min, proportional |-> prop, minSize |-> lo, maxSize |-> hi]

MCIds == (1..MaxCalls) \X {"info", "buy"}
\* In the first menu 9 is too large for the second entry and does not pay for the
\* first; 6 has the choice between the others, in order of increasing cost.  In the
\* second the fee of 9 overflows, and the minimum of 6's is below zero.
MCMenus == {<<Entry(10, 0, 7, 20), Entry(1, 3, 1, 6), Entry(3, 3, 1, 20)>>,
            <<Entry(-1, 4, 1, 20), Entry(3, 3, 1, 20)>>}
=============================================================================
