-------------------------------- MODULE Fees --------------------------------
(***************************************************************************)
(* The platform's fee on an amount.  Amounts are in the smallest unit of   *)
(* the currency, so that rounding to two places is rounding to a whole     *)
(* number; percentages are in units of which Whole make one hundred per    *)
(* cent.                                                                   *)
(***************************************************************************)
EXTENDS Integers

CONSTANT Whole

ASSUME WholeAssumption == Whole \in Nat \ {0}

\* amount * part / Whole, rounded half up.
Share(amount, part) == (2 * amount * part + Whole) \div (2 * Whole)

Least(a, b) == IF a <= b THEN a ELSE b
Most(a, b) == IF a >= b THEN a ELSE b

FeeTypes == {"percentage", "fixed", "combined", "zero"}
Terms == [type : FeeTypes, percent : 0..Whole, fixed : Nat]

PercentComponent(fee, amount) ==
    IF fee.type \in {"percentage", "combined"} THEN Share(amount, fee.percent) ELSE 0
FixedComponent(fee) == IF fee.type \in {"fixed", "combined"} THEN fee.fixed ELSE 0

\* The fee never exceeds the amount it is taken from.
PlatformFee(fee, amount) ==
    Least(PercentComponent(fee, amount) + FixedComponent(fee), amount)
BusinessProceeds(fee, amount) == amount - PlatformFee(fee, amount)
=============================================================================
