------------------------------ MODULE Numbers ------------------------------
(***************************************************************************)
(* Facts about division, for offsets in sectors, clusters and pages and    *)
(* for numbers in registers (the provers know them for numerals only), the *)
(* least and the greatest element of a set of numbers, what a proof about  *)
(* the first or the last position of a kind starts from, and induction     *)
(* over a set of numbers.                                                  *)
(***************************************************************************)
EXTENDS Integers, WellFoundedInduction, TLAPS

-----------------------------------------------------------------------------
(* Division.                                                               *)

\* Division with a remainder is unique.
LEMMA DivisionUnique ==
  ASSUME NEW m \in Nat \ {0}, NEW q \in Int, NEW r \in 0 .. m - 1
  PROVE  (q * m + r) \div m = q /\ (q * m + r) % m = r
OBVIOUS

\* ... and gives back what was divided.
LEMMA DivisionEquation ==
  ASSUME NEW a \in Int, NEW m \in Int, m > 0
  PROVE  a = (a \div m) * m + (a % m)
OBVIOUS

\* A natural number is a quotient and a remainder.
LEMMA DivisionFacts ==
  ASSUME NEW a \in Nat, NEW m \in Nat \ {0}
  PROVE  /\ a \div m \in Nat /\ a % m \in Nat /\ a % m < m
         /\ a % m \in 0 .. m - 1
         /\ a = (a \div m) * m + (a % m)
<1>1. a \div m \in Nat /\ a % m \in 0 .. m - 1
  BY DivisionEquation
<1>2. a = (a \div m) * m + (a % m)
  BY DivisionEquation
<1> DEFINE r == a % m
<1>3. r \in 0 .. m - 1
  BY <1>1
<1> HIDE DEF r
<1>4. r \in Nat /\ r < m
  BY <1>3
<1>5. QED
  BY <1>1, <1>2, <1>4 DEF r

\* What lies before n full pieces lies in one of them.
LEMMA DivisionBound ==
  ASSUME NEW a \in Nat, NEW m \in Nat \ {0}, NEW n \in Nat, a < n * m
  PROVE  a \div m < n
<1> DEFINE q == a \div m
<1>1. q \in Nat /\ q * m <= a
  BY DivisionFacts
<1>2. SUFFICES ASSUME q >= n PROVE FALSE
  BY <1>1
<1>3. q * m >= n * m
  <2>1. q - n \in Nat
    BY <1>1, <1>2
  <2> DEFINE d == q - n
  <2>2. d * m \in Nat
    BY <2>1
  <2>3. q * m = n * m + d * m
    BY <2>1, <1>1
  <2> QED
    BY <2>2, <2>3, <1>1
<1>4. QED
  BY <1>1, <1>3

\* Multiples add up to multiples.
LEMMA MultipleSum ==
  ASSUME NEW a \in Nat, NEW b \in Nat, NEW n \in Nat, NEW m \in Nat \ {0},
         a % m = 0, b % m = 0
  PROVE  (a + n * b) % m = 0
<1> DEFINE p == a \div m
           q == b \div m
<1>1. p \in Nat /\ q \in Nat /\ a = p * m /\ b = q * m
  BY DivisionFacts
<1>2. a + n * b = (p + n * q) * m + 0
  BY <1>1
<1>3. p + n * q \in Int
  BY <1>1
<1>4. 0 \in 0 .. m - 1
  OBVIOUS
<1> HIDE DEF p, q
<1>5. ((p + n * q) * m + 0) % m = 0
  BY <1>3, <1>4, DivisionUnique
<1>6. QED
  BY <1>2, <1>5

\* Dividing twice is dividing by the product.
LEMMA DivisionTwice ==
  ASSUME NEW a \in Nat, NEW m \in Nat \ {0}, NEW n \in Nat \ {0}
  PROVE  a \div (m * n) = (a \div m) \div n
<1> DEFINE q == a \div m
           r == a % m
           p == q \div n
           s == q % n
<1>1. q \in Nat /\ r \in Nat /\ r < m /\ a = q * m + r
  BY DivisionFacts
<1>2. p \in Nat /\ s \in Nat /\ s < n /\ q = p * n + s
  BY <1>1, DivisionFacts
<1> HIDE DEF q, r, p, s
<1>3. a = p * (m * n) + (s * m + r)
  BY <1>1, <1>2
<1>4. s * m + r \in Nat /\ s * m + r < m * n
  <2>1. (n - 1 - s) * m >= 0
    <3>1. n - 1 - s \in Nat
      BY <1>2
    <3>2. QED
      BY <3>1
  <2>2. s * m + m <= m * n
    BY <1>2, <2>1
  <2>3. QED
    BY <1>1, <1>2, <2>2
<1> DEFINE mn == m * n
           t == s * m + r
<1>5. mn \in Nat \ {0} /\ t \in 0 .. mn - 1
  BY <1>4
<1> HIDE DEF mn, t
<1>6. (p * mn + t) \div mn = p
  BY <1>2, <1>5, DivisionUnique
<1>7. QED
  BY <1>3, <1>6 DEF mn, t, p, q

\* Less of a thing fits where more does.
LEMMA LessSum ==
  ASSUME NEW a \in Nat, NEW b \in Nat, NEW c \in Nat, NEW m \in Nat, b < c, a + c <= m
  PROVE  a + b \in Nat /\ a + b < m
OBVIOUS

\* A multiple of a sum.
LEMMA MultipleOfSum ==
  ASSUME NEW a \in Nat, NEW b \in Nat, NEW m \in Nat
  PROVE  /\ a * m \in Nat /\ b * m \in Nat
         /\ (a + b + 1) * m = a * m + b * m + m
<1>1. a * m \in Nat /\ b * m \in Nat
  OBVIOUS
<1>2. (a + b + 1) * m = a * m + b * m + m
  OBVIOUS
<1>3. QED
  BY <1>1, <1>2

-----------------------------------------------------------------------------
(* Least and greatest elements.                                            *)

\* A set of natural numbers that is not empty has a least element.
LEMMA LeastElement ==
  ASSUME NEW T, T \subseteq Nat, T # {}
  PROVE  \E x \in T : \A y \in T : x <= y
<1> DEFINE R == OpToRel(<, Nat)
<1>1. IsWellFoundedOn(R, Nat)
  BY NatLessThanWellFounded
<1>2. \A x, y \in Nat : x < y => <<x, y>> \in R
  BY DEF OpToRel
<1> HIDE DEF R
<1>3. PICK x \in T : \A y \in T : ~ (<<y, x>> \in R)
  BY <1>1, WFMin
<1>4. ASSUME NEW y \in T PROVE x <= y
  <2>1. x \in Nat /\ y \in Nat
    OBVIOUS
  <2>2. ~ (y < x)
    BY <1>2, <1>3, <2>1
  <2>3. QED
    BY <2>1, <2>2
<1>5. QED
  BY <1>4

\* One with a bound has a greatest element, too.
LEMMA GreatestElement ==
  ASSUME NEW n \in Nat, NEW T, T \subseteq 0 .. n, T # {}
  PROVE  \E x \in T : \A y \in T : y <= x
<1> DEFINE D == {n - x : x \in T}
<1>1. D \subseteq Nat /\ D # {}
  <2>1. \A x \in T : n - x \in Nat
    OBVIOUS
  <2>2. QED
    BY <2>1
<1>2. PICK d \in D : \A e \in D : d <= e
  <2> HIDE DEF D
  <2>1. QED
    BY <1>1, LeastElement
<1>3. PICK x \in T : d = n - x
  BY <1>2
<1>4. ASSUME NEW y \in T PROVE y <= x
  <2>1. n - x <= n - y
    BY <1>2, <1>3
  <2>2. x \in 0 .. n /\ y \in 0 .. n
    OBVIOUS
  <2>3. QED
    BY <2>1, <2>2
<1>5. QED
  BY <1>4

-----------------------------------------------------------------------------
(* Induction, over a set of numbers.                                       *)

LEMMA SetInduction ==
  ASSUME NEW S, 0 \in S, \A n \in Nat : n \in S => n + 1 \in S
  PROVE  \A n \in Nat : n \in S
<1> DEFINE T == {n \in Nat : n \notin S}
<1> SUFFICES ASSUME T # {} PROVE FALSE
  OBVIOUS
<1>1. PICK x \in T : \A y \in T : x <= y
  BY LeastElement
<1>2. x # 0
  OBVIOUS
<1>3. x - 1 \in Nat /\ x - 1 \notin T
  BY <1>1, <1>2
<1>4. QED
  BY <1>3

=============================================================================
