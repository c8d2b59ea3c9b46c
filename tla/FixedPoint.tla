----------------------------- MODULE FixedPoint -----------------------------
(***************************************************************************)
(* The arithmetic library (math/ceil_div.rs, floor_div.rs, casting.rs,     *)
(* helpers.rs), on words of any width.  The operators take the place of    *)
(* u128, i128 and U192; an operation that does not fit, a division by zero *)
(* and a cast that loses something are errors, here: not defined.          *)
(***************************************************************************)
EXTENDS Integers

CONSTANTS
    Root,       \* 2^64 - 1 in the code: the square root of a word
    Wide,       \* 2^128 - 1 in the code
    Wider,      \* 2^192 - 1 in the code
    Samples     \* the words that are tried

ASSUME FixedPointAssumption ==
    /\ Root \in Nat
    /\ Wide = (Root + 1) * (Root + 1) - 1
    /\ Wider >= Wide
    /\ Samples \subseteq 0 .. Wide

\* One triple of words; an argument may be the negation of one.
VARIABLES first, second, third
triple == <<first, second, third>>

FixedPointInit ==
    /\ first \in Samples
    /\ second \in Samples
    /\ third \in Samples

Signed == -((Wide + 1) \div 2) .. Wide \div 2
Unsigned == 0 .. Wide

Abs(x) == IF x >= 0 THEN x ELSE -x
Sign(x) == IF x > 0 THEN 1 ELSE IF x = 0 THEN 0 ELSE -1

\* checked_div and checked_rem of the machine: towards zero.
Quotient(x, y) == Sign(x) * Sign(y) * (Abs(x) \div Abs(y))
Remainder(x, y) == x - y * Quotient(x, y)

-----------------------------------------------------------------------------
(* Division *)

\* checked_ceil_div: one more when the remainder is positive
CeilDiv(x, y) == Quotient(x, y) + (IF Remainder(x, y) > 0 THEN 1 ELSE 0)

\* checked_floor_div: one less when there is any remainder
FloorDiv(x, y) == Quotient(x, y) - (IF Remainder(x, y) # 0 THEN 1 ELSE 0)

-----------------------------------------------------------------------------
(* Proportions *)

\* standardize_value_with_remainder_i128: the remainder of the magnitude,
\* with the sign of the value
StepRemainder(value, step) == (Abs(value) % step) * Sign(value)
Standardized(value, step) == value - StepRemainder(value, step)

\* The third branch of get_proportion_u128 computes the complement.
Complement(v, n, d) == n > d \div 2 /\ d > n

ProportionDefined(v, n, d) ==
    \/ n = d
    \/ /\ d # 0
       /\ IF v >= Root \/ n >= Root
          THEN v * n <= Wider /\ (v * n) \div d \in Unsigned
          ELSE Complement(v, n, d) => v * (d - n) \in Signed

\* Mutated form: the complement is rounded down.
ProportionUp(v, n, d) ==
    IF n = d THEN v
    ELSE IF (v < Root /\ n < Root) /\ Complement(v, n, d)
    THEN v - Standardized(v * (d - n), d) \div d
    ELSE (v * n) \div d

\* get_proportion_u128
Proportion(v, n, d) ==
    IF n = d THEN v
    ELSE IF (v < Root /\ n < Root) /\ Complement(v, n, d)
    THEN LET rest == v * (d - n)
         IN  v - Standardized(rest, d) \div d - Sign(StepRemainder(rest, d))
    ELSE (v * n) \div d

\* get_proportion_i128 of the negated value
NegatedProportionDefined(v, n, d) ==
    ProportionDefined(v, n, d) /\ Proportion(v, n, d) \in Signed
SignedProportion(v, n, d) == Proportion(Abs(v), n, d) * Sign(v)

-----------------------------------------------------------------------------
(* Updates on the hour *)

\* on_the_hour_update: when the next update is due after the last one; more
\* than two periods, which the code looks for last, it never is.
NextWait(last, period) ==
    LET delay == last % period IN
    IF period <= 1 \/ delay = 0 THEN period
    ELSE IF delay > period \div 3 THEN 2 * period - delay
    ELSE period - delay

TimeRemaining(at, last, period) ==
    LET left == NextWait(last, period) - (at - last)
    IN  IF left > 0 THEN left ELSE 0

-----------------------------------------------------------------------------
(* Properties *)

\* Ceiling division is that for a positive divisor.
CeilDivRoundsUp ==
    second > 0 =>
    \A x \in {first, -first} :
        LET q == CeilDiv(x, second)
        IN  x <= q * second /\ (q - 1) * second < x

\* Floor division rounds down when it is exact or the signs differ; with
\* equal signs and a remainder it is one less than that: 7 by 3 is 1.
FloorDivRoundsTwice ==
    second > 0 =>
    \A x \in {first, -first}, y \in {second, -second} :
        LET q == FloorDiv(x, y)
            down == IF y > 0 THEN x \div y ELSE (-x) \div (-y)
        IN  q = IF Sign(x) * Sign(y) > 0 /\ x % Abs(y) # 0 THEN down - 1 ELSE down

\* A value is its multiple of the step and the remainder, which is smaller
\* than a step and on the same side of zero.
StandardizedSplits ==
    second > 0 =>
    \A x \in {first, -first} :
        LET m == Standardized(x, second)
            r == StepRemainder(x, second)
        IN  /\ m + r = x
            /\ Abs(m) % second = 0
            /\ Abs(r) < second
            /\ Abs(m) <= Abs(x)

\* All four branches of get_proportion_u128 give the same: the exact
\* proportion rounded down, which for a proper fraction fits again.
ProportionIsExact ==
    ProportionDefined(first, second, third) /\ third # 0 =>
        /\ Proportion(first, second, third) = (first * second) \div third
        /\ second <= third => Proportion(first, second, third) <= first

\* A negated value gives the negated proportion, rounded towards zero.
ProportionIsOdd ==
    /\ NegatedProportionDefined(first, second, third)
    /\ third # 0
    => SignedProportion(-first, second, third)
         = -((first * second) \div third)

\* The next update falls on a multiple of the period, no sooner than two
\* thirds of it after the last one and no later than five thirds.
NextUpdateOnTheHour ==
    third > 1 =>
        LET wait == NextWait(first, third) IN
        /\ (first + wait) % third = 0
        /\ 3 * wait >= 2 * third
        /\ 3 * wait <= 5 * third
        /\ second >= first => TimeRemaining(second, first, third) \in 0 .. wait

\* Every helper rounds as a reader of its name and branches would compute.
ArithmeticCorrect ==
    /\ CeilDivRoundsUp
    /\ FloorDivRoundsTwice
    /\ StandardizedSplits
    /\ ProportionIsExact
    /\ ProportionIsOdd
    /\ NextUpdateOnTheHour
=============================================================================
