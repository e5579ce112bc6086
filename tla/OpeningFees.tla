---------------------------- MODULE OpeningFees ----------------------------
(***************************************************************************)
(* The fee arithmetic of src/ldk/lsps2/types.ts: what an LSP charges for   *)
(* opening a channel just in time, and the choice from its fee menu.  A    *)
(* product or sum beyond 64 bits throws, which ends the whole request.     *)
(***************************************************************************)
EXTENDS Integers, Sequences

CONSTANTS
  U64Max,    \* 2^64 - 1
  Million    \* 1_000_000, the unit of the proportional fee

ASSUME FeesAssumption == U64Max \in Nat /\ Million \in Nat \ {0}

\* The fields are parsed without a range check (types.ts 142-148); that the share
\* is not negative is assumed of the LSP.
FeeParams == [minFee : Int, proportional : Nat, minSize : Int, maxSize : Int]

Overflows(payment, fp) ==
  payment * fp.proportional + (Million - 1) > U64Max

\* Faulty variant: the proportional share is rounded down.
OpeningFeeRoundedDown(payment, fp) ==
  LET share == (payment * fp.proportional) \div Million
  IN IF share < fp.minFee THEN fp.minFee ELSE share

\* calculateOpeningFee, where it does not throw.
OpeningFee(payment, fp) ==
  LET share == (payment * fp.proportional + (Million - 1)) \div Million
  IN IF share < fp.minFee THEN fp.minFee ELSE share

Fits(payment, fp) == fp.minSize <= payment /\ payment <= fp.maxSize

\* Faulty variant: an entry whose fee eats up the payment is accepted.
StopsAtAnyFee(payment, fp) == Fits(payment, fp)

\* The loop of selectCheapestParams stops here: it returns the entry or throws.
Stops(payment, fp) ==
  /\ Fits(payment, fp)
  /\ Overflows(payment, fp) \/ OpeningFee(payment, fp) < payment

\* The index selectCheapestParams returns the entry of; {} for null or a throw.
Selected(menu, payment) ==
  {i \in DOMAIN menu :
    /\ Stops(payment, menu[i])
    /\ \A k \in 1..(i - 1) : ~ Stops(payment, menu[k])
    /\ ~ Overflows(payment, menu[i])}

\* What bLIP-52 says of a menu: the entries come in order of increasing cost.
\* Those the payment does not fit do not matter.
Ordered(menu, payment) ==
  \A i, k \in DOMAIN menu :
    i < k /\ Fits(payment, menu[i]) /\ Fits(payment, menu[k]) =>
      OpeningFee(payment, menu[i]) <= OpeningFee(payment, menu[k])
=============================================================================
