------------------------------ MODULE Division ------------------------------
(***************************************************************************)
(* Facts about quotients and products of integers that the proofs about    *)
(* shares, days and averages need, for symbolic divisors, and the least    *)
(* number of a set.                                                        *)
(***************************************************************************)
EXTENDS Integers, WellFoundedInduction, TLAPS

\* A product grows with its factor.
LEMMA ProductGrows ==
    ASSUME NEW m \in Int, NEW n \in Int, NEW d \in Nat, m <= n
    PROVE  m * d <= n * d
  <1> DEFINE j == n - m
  <1>1. j \in Nat /\ n = m + j
    OBVIOUS
  <1>2. (m + j) * d = m * d + j * d
    BY <1>1
  <1>3. j * d >= 0
    BY <1>1
  <1> QED
    BY <1>1, <1>2, <1>3

\* A smaller product has a smaller factor.
LEMMA FactorIsLess ==
    ASSUME NEW m \in Int, NEW n \in Int, NEW d \in Nat, m * d < n * d
    PROVE  m < n
  <1> SUFFICES ASSUME n <= m PROVE FALSE
    OBVIOUS
  <1> QED
    BY ProductGrows

\* A factor other than 0 keeps the order of two numbers.
LEMMA FactorKeepsOrder ==
    ASSUME NEW x \in Nat, NEW y \in Nat, NEW t \in Nat \ {0}
    PROVE  x < y <=> x * t < y * t
  <1>1. CASE x < y
    <2>1. PICK z \in Nat : y = x + z + 1
      <3>1. y - x - 1 \in Nat /\ y = x + (y - x - 1) + 1
        BY <1>1
      <3> QED
        BY <3>1
    <2>2. y * t = x * t + z * t + t /\ z * t \in Nat /\ x * t \in Nat
      BY <2>1
    <2> QED
      BY <1>1, <2>2
  <1>2. CASE ~(x < y)
    <2>1. PICK z \in Nat : x = y + z
      <3>1. x - y \in Nat /\ x = y + (x - y)
        BY <1>2
      <3> QED
        BY <3>1
    <2>2. x * t = y * t + z * t /\ z * t \in Nat /\ y * t \in Nat
      BY <2>1
    <2> QED
      BY <1>2, <2>2
  <1> QED
    BY <1>1, <1>2

\* The quotient is the last multiple that is not beyond the dividend.
LEMMA QuotientBounds ==
    ASSUME NEW a \in Int, NEW d \in Nat \ {0}
    PROVE  /\ a \div d \in Int
           /\ (a \div d) * d <= a
           /\ a < (a \div d) * d + d
           /\ a < (a \div d + 1) * d
  <1>1. /\ a \div d \in Int
        /\ d * (a \div d) <= a
        /\ a < d * (a \div d) + d
    OBVIOUS
  <1>2. ASSUME NEW q \in Int PROVE d * q = q * d /\ (q + 1) * d = q * d + d
    OBVIOUS
  <1> QED
    BY <1>1, <1>2

LEMMA QuotientIsNat ==
    ASSUME NEW a \in Nat, NEW d \in Nat \ {0}
    PROVE  a \div d \in Nat
  <1>1. 0 * d < (a \div d + 1) * d
    BY QuotientBounds
  <1>2. 0 < a \div d + 1
    BY <1>1, FactorIsLess, QuotientBounds
  <1> QED
    BY <1>2, QuotientBounds

\* The two bounds determine the quotient.
LEMMA QuotientIs ==
    ASSUME NEW a \in Int, NEW d \in Nat \ {0}, NEW q \in Int,
           q * d <= a, a < q * d + d
    PROVE  a \div d = q
  <1>1. q * d < (a \div d + 1) * d
    BY QuotientBounds
  <1>2. q < a \div d + 1
    BY <1>1, FactorIsLess, QuotientBounds
  <1>3. (a \div d) * d < (q + 1) * d
    BY QuotientBounds
  <1>4. a \div d < q + 1
    BY <1>3, FactorIsLess, QuotientBounds
  <1> QED
    BY <1>2, <1>4, QuotientBounds

\* What reaches a multiple has a quotient that reaches the factor.
LEMMA QuotientReaches ==
    ASSUME NEW a \in Int, NEW d \in Nat \ {0}, NEW q \in Int, q * d <= a
    PROVE  q <= a \div d
  <1>1. q * d < (a \div d + 1) * d
    BY QuotientBounds
  <1> QED
    BY <1>1, FactorIsLess, QuotientBounds

\* And what stays below a multiple has one that stays below the factor.
LEMMA QuotientBelow ==
    ASSUME NEW a \in Int, NEW d \in Nat \ {0}, NEW q \in Int, a < q * d
    PROVE  a \div d < q
  <1>1. (a \div d) * d < q * d
    BY QuotientBounds
  <1> QED
    BY <1>1, FactorIsLess, QuotientBounds

\* Quotients grow with the dividend.
LEMMA QuotientGrows ==
    ASSUME NEW a \in Int, NEW b \in Int, NEW d \in Nat \ {0}, a <= b
    PROVE  a \div d <= b \div d
  BY QuotientBounds, QuotientReaches

\* They shrink as the divisor grows.
LEMMA QuotientShrinks ==
    ASSUME NEW a \in Nat, NEW c \in Nat \ {0}, NEW d \in Nat \ {0}, c <= d
    PROVE  a \div d <= a \div c
  <1> DEFINE q == a \div d
  <1>1. q \in Nat /\ q * d <= a
    BY QuotientIsNat, QuotientBounds
  <1>2. q * c <= q * d
    <2>1. c * q <= d * q
      BY <1>1, ProductGrows
    <2> QED
      BY <2>1, <1>1
  <1>3. q * c <= a
    BY <1>1, <1>2
  <1> QED
    BY <1>1, <1>3, QuotientReaches

\* The remainder is what the multiple leaves.
LEMMA RemainderIs ==
    ASSUME NEW a \in Int, NEW d \in Nat \ {0}
    PROVE  a % d \in 0 .. d - 1 /\ a = (a \div d) * d + (a % d)
  OBVIOUS

\* A multiple leaves nothing, and its quotient is the factor.
LEMMA MultipleDivides ==
    ASSUME NEW k \in Int, NEW d \in Nat \ {0}
    PROVE  (k * d) % d = 0 /\ (k * d) \div d = k
  <1> DEFINE a == k * d
  <1>1. a \in Int /\ k * d <= a /\ a < k * d + d
    OBVIOUS
  <1> HIDE DEF a
  <1>2. a \div d = k
    BY <1>1, QuotientIs
  <1>3. a % d \in Int /\ a = k * d + (a % d)
    <2>1. a % d \in 0 .. d - 1 /\ a = (a \div d) * d + (a % d)
      BY <1>1, RemainderIs
    <2>2. a % d \in Int
      BY <2>1
    <2> QED
      BY <1>2, <2>1, <2>2
  <1>4. PICK o \in Int : o = a % d
    BY <1>3
  <1>5. a = k * d + o /\ a = k * d
    BY <1>3, <1>4 DEF a
  <1>6. PICK p \in Int : p = k * d
    OBVIOUS
  <1>7. o = 0
    BY <1>5, <1>6
  <1> QED
    BY <1>2, <1>4, <1>7 DEF a

\* A set of numbers that is not empty has a least one.
LEMMA LeastNumber ==
    ASSUME NEW S \in SUBSET Nat, NEW x \in S
    PROVE  \E m \in S : \A n \in S : m <= n
  <1> DEFINE R == {ss \in Nat \X Nat : ss[1] < ss[2]}
  <1>1. IsWellFoundedOn(R, Nat)
    BY NatLessThanWellFounded DEF OpToRel
  <1>2. PICK m \in S : \A y \in S : ~(<<y, m>> \in R)
    <2> HIDE DEF R
    <2> QED
      BY <1>1, WFMin
  <1>3. ASSUME NEW n \in S PROVE m <= n
    <2>1. ~(<<n, m>> \in R) /\ n \in Nat /\ m \in Nat
      BY <1>2
    <2>2. ~(n < m)
      BY <2>1
    <2> QED
      BY <2>1, <2>2
  <1> QED
    BY <1>3
=============================================================================
