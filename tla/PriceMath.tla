----------------------------- MODULE PriceMath -----------------------------
(***************************************************************************)
(* Prices with a decimal exponent (state/oracle.rs, OraclePrice): their    *)
(* order, rescaling, normalization, quotient and product, and the amounts  *)
(* they convert.  What overflows, the powers of ten included, is an error, *)
(* here: not defined.                                                      *)
(***************************************************************************)
EXTENDS Runtime

CONSTANTS
    MaxMantissa,    \* ORACLE_MAX_PRICE, 2^28 - 1 in the code
    ScaleDigits,    \* 9 in the code: ORACLE_PRICE_SCALE is ten to it, and
                    \* ORACLE_EXPONENT_SCALE its negation
    UsdDecimals,    \* 6 in the code
    OraclePrices,   \* the prices that are tried
    Finest          \* No exponent is below its negation.

PriceRecord == [price : Words, exponent : Int]

\* The powers of ten.
Ten[n \in Nat] == IF n = 0 THEN 1 ELSE 10 * Ten[n - 1]

ASSUME PriceMathAssumption ==
    /\ MaxMantissa \in Words \ (0 .. 8)
    /\ {ScaleDigits, UsdDecimals} \subseteq Nat
    /\ MaxMantissa * Ten[ScaleDigits] <= MaxU64
    /\ OraclePrices \subseteq PriceRecord
    /\ Finest \in Nat
    /\ UsdDecimals <= Finest
    /\ \A p \in OraclePrices : -Finest <= p.exponent

VARIABLES lhs, rhs
pair == <<lhs, rhs>>

PriceMathInit == lhs \in OraclePrices /\ rhs \in OraclePrices

P(price, exponent) == [price |-> price, exponent |-> exponent]

-----------------------------------------------------------------------------
(* Scale and order *)

\* scale_to_exponent
ScaleDefined(p, e) ==
    IF e > p.exponent THEN Ten[e - p.exponent] <= MaxU64
    ELSE Ten[p.exponent - e] <= MaxU64 /\ Fits(p.price * Ten[p.exponent - e])

Scaled(p, e) ==
    IF e > p.exponent THEN P(p.price \div Ten[e - p.exponent], e)
    ELSE P(p.price * Ten[p.exponent - e], e)

Lower(x, y) == IF x <= y THEN x ELSE y

\* partial_cmp has an answer
Comparable(p, q) ==
    LET e == Lower(p.exponent, q.exponent)
    IN  ScaleDefined(p, e) /\ ScaleDefined(q, e)

\* Mutated form: the mantissas are compared.
LessMantissa(p, q) == Comparable(p, q) /\ p.price < q.price

\* p < q, which is false of prices that cannot be compared.
Less(p, q) ==
    LET e == Lower(p.exponent, q.exponent)
    IN  Comparable(p, q) /\ Scaled(p, e).price < Scaled(q, e).price

\* get_min_price
MinPriceDefined(p, q, is_stable) ==
    LET least == IF Less(p, q) THEN p ELSE q
    IN  is_stable /\ least.exponent <= 0 => Ten[-least.exponent] <= MaxU64

MinPrice(p, q, is_stable) ==
    LET least == IF Less(p, q) THEN p ELSE q
        dollar == IF least.exponent > 0 THEN P(Ten[UsdDecimals], -UsdDecimals)
                  ELSE P(Ten[-least.exponent], least.exponent)
        capped == IF least.exponent > 0 THEN least.price # 0
                  ELSE least.price > dollar.price
    IN  IF is_stable /\ capped THEN dollar ELSE least

-----------------------------------------------------------------------------
(* Normalization, quotient, product *)

\* normalize divides by ten until the mantissa is small enough.
DigitsCut(p) ==
    CHOOSE k \in 0 .. p.price :
        /\ p.price \div Ten[k] <= MaxMantissa
        /\ \A j \in 0 .. k - 1 : p.price \div Ten[j] > MaxMantissa

Normalized(p) == P(p.price \div Ten[DigitsCut(p)], p.exponent + DigitsCut(p))

\* checked_div
DivDefined(p, q) ==
    /\ Normalized(q).price # 0
    /\ Fits(Normalized(p).price * Ten[ScaleDigits])

Div(p, q) ==
    P((Normalized(p).price * Ten[ScaleDigits]) \div Normalized(q).price,
      Normalized(p).exponent - ScaleDigits - Normalized(q).exponent)

\* checked_mul
MulDefined(p, q) == Fits(p.price * q.price)
Mul(p, q) == P(p.price * q.price, p.exponent + q.exponent)

-----------------------------------------------------------------------------
(* Amounts *)

\* x times ten to e, or divided by it.
ShiftDefined(x, e) ==
    IF e >= 0 THEN Ten[e] <= MaxU64 /\ Fits(x * Ten[e]) ELSE Ten[-e] <= MaxU64
Shifted(x, e) == IF e >= 0 THEN x * Ten[e] ELSE x \div Ten[-e]

\* get_asset_amount_usd counts the token's decimals twice: in the amount
\* and in the exponent.
UsdDefined(p, amount, decimals) ==
    amount # 0 /\ p.price # 0 =>
        /\ ShiftDefined(amount, decimals)
        /\ Fits(p.price * amount * Ten[decimals])
        /\ ShiftDefined(p.price * amount * Ten[decimals],
                        p.exponent + decimals + UsdDecimals)
Usd(p, amount, decimals) ==
    IF amount = 0 \/ p.price = 0 THEN 0
    ELSE Shifted(p.price * amount * Ten[decimals], p.exponent + decimals + UsdDecimals)

\* get_token_amount
TokensDefined(p, usd, decimals) ==
    usd # 0 /\ p.price # 0 =>
        /\ ShiftDefined(usd, UsdDecimals)
        /\ ShiftDefined((usd * Ten[UsdDecimals]) \div p.price,
                        p.exponent - UsdDecimals + decimals)
Tokens(p, usd, decimals) ==
    IF usd = 0 \/ p.price = 0 THEN 0
    ELSE Shifted((usd * Ten[UsdDecimals]) \div p.price,
                 p.exponent - UsdDecimals + decimals)

-----------------------------------------------------------------------------
(* Properties *)

\* In units of the finest exponent.
Value(p) == p.price * Ten[p.exponent + Finest]

\* The order of prices is that of their values wherever they compare, and
\* no price is both less and greater than another.
OrderIsByValue ==
    /\ Comparable(lhs, rhs) => (Less(lhs, rhs) <=> Value(lhs) < Value(rhs))
    /\ ~(Less(lhs, rhs) /\ Less(rhs, lhs))

\* Where the two oracles' prices compare, which an overflow of either scale
\* prevents, the price for a stable coin is at most that of either and at
\* most a dollar, whichever of the two units the cap is written in.
MinPriceIsLowest ==
    Comparable(lhs, rhs) /\ MinPriceDefined(lhs, rhs, TRUE) =>
        LET m == MinPrice(lhs, rhs, TRUE) IN
        /\ Value(m) <= Value(lhs) /\ Value(m) <= Value(rhs)
        /\ Value(m) <= Ten[Finest]

\* Scaling to a coarser exponent loses less than one unit of it, and
\* scaling back never gains anything.
RescalingRoundsDown ==
    LET e == rhs.exponent IN
    ScaleDefined(lhs, e) =>
        LET s == Scaled(lhs, e) IN
        /\ Value(s) <= Value(lhs)
        /\ Value(lhs) < Value(s) + Ten[e + Finest]

\* Normalization cuts digits only as far as needed, and a price other than
\* 0 stays other than 0: the quotient by it is always defined.
QuotientAlwaysDefined == rhs.price # 0 => DivDefined(lhs, rhs)

\* The quotient of a product by one factor is the other factor, where
\* nothing had to be normalized.
QuotientUndoesProduct ==
    /\ MulDefined(lhs, rhs)
    /\ rhs.price # 0
    /\ {lhs.price * rhs.price, rhs.price} \subseteq 0 .. MaxMantissa
    => LET q == Div(Mul(lhs, rhs), rhs)
       IN  /\ q.price = lhs.price * Ten[ScaleDigits]
           /\ q.exponent = lhs.exponent - ScaleDigits

\* Dollars convert back into too many of the tokens they were made of, by
\* the base units of a dollar: each conversion multiplies by them.
AmountsGrow ==
    LET amount == rhs.price IN
    /\ lhs.exponent = 0 /\ lhs.price # 0
    /\ UsdDefined(lhs, amount, 0)
    /\ TokensDefined(lhs, Usd(lhs, amount, 0), 0)
    => Tokens(lhs, Usd(lhs, amount, 0), 0) = amount * Ten[UsdDecimals]

\* Prices of different exponents are compared, capped, rescaled, divided and
\* converted by their values.
PricesCorrect ==
    /\ OrderIsByValue
    /\ MinPriceIsLowest
    /\ RescalingRoundsDown
    /\ QuotientAlwaysDefined
    /\ QuotientUndoesProduct
    /\ AmountsGrow
=============================================================================
