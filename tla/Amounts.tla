------------------------------- MODULE Amounts -------------------------------
(***************************************************************************)
(* The arithmetic of src/src/budget/mod.rs: a configured amount, which is  *)
(* a rust_decimal::Decimal, becomes a whole number of micro-USD, and token *)
(* counts become a cost.                                                   *)
(***************************************************************************)
EXTENDS Integers

CONSTANTS
    Radix,         \* 10: the value of a Decimal is mantissa / Radix^scale
    Digits,        \* 6: micro-USD per USD is Radix^Digits
    MaxMantissa,   \* 2^96 - 1
    MaxScale,      \* 28
    MaxU64,
    NoCost         \* CostError::Overflow: there is no cost to commit

Million == Radix ^ Digits     \* micro-USD in a USD, and tokens in the unit of a price
Half    == Million \div 2     \* 500_000
MaxU128 == (MaxU64 + 1) * (MaxU64 + 1) - 1

ASSUME AmountsAssumption ==
    /\ Digits \in Nat \ {0} /\ MaxScale \in Nat /\ Digits <= MaxScale
    /\ MaxMantissa \in Nat /\ MaxU64 \in Nat /\ MaxU64 <= MaxMantissa
    /\ Million % 2 = 0
    /\ NoCost \notin Nat

\* What is used of powers: true of every Radix that is positive.
ASSUME PowersAssumption ==
    /\ \A i \in 0..MaxScale : Radix ^ i \in Nat /\ Radix ^ i > 0
    /\ \A i, j \in 0..MaxScale : i + j <= MaxScale => Radix ^ (i + j) = Radix ^ i * Radix ^ j

IsAmount(amount) ==
    amount.mantissa \in 0..MaxMantissa /\ amount.scale \in 0..MaxScale /\ amount.negative \in BOOLEAN
------------------------------------------------------------------------------
(* MicroUsd::try_from.  The product with a million keeps the scale of the amount and drops only
   zeros when its mantissa is too long; with fewer than six places to drop it is not representable,
   and the multiplication panics. *)
Unscalable(amount) ==
    amount.scale < Digits /\ amount.mantissa * Radix ^ (Digits - amount.scale) > MaxMantissa

HasFraction(amount) ==
    amount.scale > Digits /\ amount.mantissa % Radix ^ (amount.scale - Digits) # 0

Scaled(amount) ==
    IF amount.scale > Digits THEN amount.mantissa \div Radix ^ (amount.scale - Digits)
                             ELSE amount.mantissa * Radix ^ (Digits - amount.scale)

Converted(micro) == [error |-> "none", micro |-> micro]
Failed(error)    == [error |-> error, micro |-> 0]

\* Plausible bug: the places after the sixth are cut off.
TryFromCutting(amount) ==
    IF amount.negative THEN Failed("Negative")
    ELSE IF Unscalable(amount) THEN Failed("panic")
    ELSE IF Scaled(amount) > MaxU64 THEN Failed("Overflow")
    ELSE Converted(Scaled(amount))

TryFrom(amount) ==
    IF amount.negative THEN Failed("Negative")
    ELSE IF Unscalable(amount) THEN Failed("panic")
    ELSE IF HasFraction(amount) THEN Failed("TooPrecise")
    ELSE IF Scaled(amount) > MaxU64 THEN Failed("Overflow")
    ELSE Converted(Scaled(amount))
------------------------------------------------------------------------------
(* Price::calculate, in u128: the sum is checked, then the division is rounded half up. *)
Total(price, usage) == usage.prompt * price.input + usage.completion * price.output

\* Plausible bug: half a million is not added.
CalculateTruncated(price, usage) ==
    LET total == Total(price, usage)
    IN  IF total > MaxU128 \/ total \div Million > MaxU64 THEN NoCost ELSE total \div Million

Calculate(price, usage) ==
    LET total == Total(price, usage) + Half
    IN  IF total > MaxU128 \/ total \div Million > MaxU64 THEN NoCost ELSE total \div Million
==============================================================================
