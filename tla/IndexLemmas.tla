---------------------------- MODULE IndexLemmas -----------------------------
(***************************************************************************)
(* Arithmetic of indices, for every value of the numbers involved: what    *)
(* i % S says about i when a ring of S slots holds at most S consecutive   *)
(* indices, and the positions of nested loops, which are the digits of a   *)
(* number whose bases are the lengths of the loops.                        *)
(***************************************************************************)
EXTENDS Integers, TLAPS

\* A number is its quotient and its remainder.
LEMMA DivMod ==
  ASSUME NEW S \in Nat \ {0}, NEW i \in Nat
  PROVE  /\ i % S \in 0 .. S - 1
         /\ i = S * (i \div S) + (i % S)
         /\ i \div S \in Nat
OBVIOUS

\* Two multiples of S that differ are at least S apart.
LEMMA MultipleGap ==
  ASSUME NEW S \in Nat \ {0}, NEW p \in Int, NEW q \in Int, p < q
  PROVE  S * q >= S * p + S
<1>1. S * (q - p) >= S * 1
  OBVIOUS
<1>2. S * (q - p) = S * q - S * p
  OBVIOUS
<1> QED BY <1>1, <1>2

\* The remainder is determined by the number.
LEMMA UniqueRemainder ==
  ASSUME NEW S \in Nat \ {0}, NEW p \in Int, NEW q \in Int,
         NEW r \in 0 .. S - 1, NEW t \in 0 .. S - 1,
         S * p + r = S * q + t
  PROVE  r = t
<1>1. CASE p < q BY <1>1, MultipleGap
<1>2. CASE q < p BY <1>2, MultipleGap
<1>3. CASE p = q BY <1>3
<1> QED BY <1>1, <1>2, <1>3

\* Indices less than S apart that share a slot are the same index: this is why
\* a ring may be reused once at most S packets are outstanding.
LEMMA SameSlotSameIndex ==
  ASSUME NEW S \in Nat \ {0}, NEW i \in Nat, NEW j \in Nat,
         i - j < S, j - i < S, i % S = j % S
  PROVE  i = j
<1> DEFINE p == i \div S
           q == j \div S
           r == i % S
<1>1. i = S * p + r /\ j = S * q + r /\ p \in Int /\ q \in Int /\ r \in Int
  BY DivMod
<1> HIDE DEF p, q, r
<1>2. CASE p < q BY <1>1, <1>2, MultipleGap
<1>3. CASE q < p BY <1>1, <1>3, MultipleGap
<1>4. CASE p = q BY <1>1, <1>4
<1> QED BY <1>1, <1>2, <1>3, <1>4

\* A slot number is its own remainder.
LEMMA SlotOfSlot ==
  ASSUME NEW S \in Nat \ {0}, NEW s \in 0 .. S - 1
  PROVE  s % S = s
<1>1. s = S * (s \div S) + (s % S) /\ s \div S \in Int /\ s % S \in 0 .. S - 1
  BY DivMod
<1>2. S * 0 + s = s
  OBVIOUS
<1> QED BY <1>1, <1>2, UniqueRemainder

\* Advancing an index modulo S is advancing the index.
LEMMA SlotSuccessor ==
  ASSUME NEW S \in Nat \ {0}, NEW i \in Nat
  PROVE  ((i % S) + 1) % S = (i + 1) % S
<1> DEFINE p == i \div S
           r == i % S
           q == (r + 1) \div S
           t == (r + 1) % S
           u == (i + 1) \div S
           v == (i + 1) % S
<1>1. i = S * p + r /\ p \in Int /\ r \in Nat
  BY DivMod
<1>2. r + 1 = S * q + t /\ q \in Int /\ t \in 0 .. S - 1
  BY <1>1, DivMod
<1>3. i + 1 = S * u + v /\ u \in Int /\ v \in 0 .. S - 1
  BY DivMod
<1> HIDE DEF p, q, r, t, u, v
<1>4. S * (p + q) + t = S * u + v
  <2>1. S * (p + q) = S * p + S * q
    BY <1>1, <1>2
  <2> QED BY <1>1, <1>2, <1>3, <2>1
<1>5. t = v
  <2>1. p + q \in Int
    BY <1>1, <1>2
  <2> QED BY <1>2, <1>3, <1>4, <2>1, UniqueRemainder
<1> QED BY <1>5 DEF t, v, r
\* So is advancing it by any number.
LEMMA SlotSum ==
  ASSUME NEW S \in Nat \ {0}, NEW i \in Nat, NEW n \in Nat
  PROVE  ((i % S) + n) % S = (i + n) % S
<1> DEFINE p == i \div S
           r == i % S
           q == (r + n) \div S
           t == (r + n) % S
           u == (i + n) \div S
           v == (i + n) % S
<1>1. i = S * p + r /\ p \in Int /\ r \in Nat
  BY DivMod
<1>2. r + n = S * q + t /\ q \in Int /\ t \in 0 .. S - 1
  <2> DEFINE m == r + n
  <2>1. m \in Nat
    <3> HIDE DEF r
    <3> QED BY <1>1
  <2> HIDE DEF m
  <2>2. m % S \in 0 .. S - 1 /\ m = S * (m \div S) + (m % S) /\ m \div S \in Int
    BY <2>1, DivMod
  <2> QED BY ONLY <2>2, Zenon DEF m, q, t
<1>3. i + n = S * u + v /\ u \in Int /\ v \in 0 .. S - 1
  <2> DEFINE m == i + n
  <2>1. m \in Nat
    OBVIOUS
  <2> HIDE DEF m
  <2>2. m % S \in 0 .. S - 1 /\ m = S * (m \div S) + (m % S) /\ m \div S \in Int
    BY <2>1, DivMod
  <2> QED BY ONLY <2>2, Zenon DEF m, u, v
<1> HIDE DEF p, q, r, t, u, v
<1>4. S * (p + q) + t = S * u + v
  <2>1. S * (p + q) = S * p + S * q
    BY <1>1, <1>2
  <2> QED BY <1>1, <1>2, <1>3, <2>1
<1>5. t = v
  <2>1. p + q \in Int
    BY <1>1, <1>2
  <2> QED BY <1>2, <1>3, <1>4, <2>1, UniqueRemainder
<1> QED BY <1>5 DEF t, v, r

-----------------------------------------------------------------------------
(* Products, and positions in nested loops. *)

\* One more multiple.
LEMMA NextMultiple ==
  ASSUME NEW a \in Int, NEW b \in Int
  PROVE  (a + 1) * b = a * b + b
OBVIOUS

\* Sums of natural numbers.
LEMMA SumNat ==
  ASSUME NEW a \in Nat, NEW b \in Nat
  PROVE  a + b \in Nat /\ a + 1 \in Nat
OBVIOUS

\* Products of natural numbers.
LEMMA ProductNat ==
  ASSUME NEW a \in Nat, NEW b \in Nat
  PROVE  a * b \in Nat
OBVIOUS

\* A product grows with its first factor.
LEMMA ProductMonotone ==
  ASSUME NEW a \in Nat, NEW b \in Nat, NEW c \in Nat, a <= b
  PROVE  a * c <= b * c
<1>1. (b - a) * c >= 0
  OBVIOUS
<1>2. (b - a) * c = b * c - a * c
  OBVIOUS
<1> QED BY <1>1, <1>2

\* A row inside the region comes before the end of the region.
LEMMA RowBound ==
  ASSUME NEW l4 \in Nat, NEW l3 \in Nat, NEW l2 \in Nat,
         NEW i4 \in 0 .. l4 - 1, NEW i3 \in 0 .. l3 - 1, NEW i2 \in 0 .. l2 - 1
  PROVE  (i4 * l3 + i3) * l2 + i2 < l4 * l3 * l2
<1> DEFINE row == i4 * l3 + i3
           rows == l4 * l3
<1>1. row \in Nat /\ rows \in Nat
  BY ProductNat
<1>2. row + 1 <= rows
  <2>1. (i4 + 1) * l3 <= l4 * l3
    BY ProductMonotone
  <2>2. (i4 + 1) * l3 = i4 * l3 + l3
    BY NextMultiple
  <2>3. i4 * l3 \in Nat /\ l4 * l3 \in Nat
    BY ProductNat
  <2> QED BY <2>1, <2>2, <2>3
<1> HIDE DEF row, rows
<1>3. (row + 1) * l2 <= rows * l2
  BY <1>1, <1>2, ProductMonotone
<1>4. (row + 1) * l2 = row * l2 + l2
  BY <1>1, NextMultiple
<1>5. row * l2 \in Nat /\ rows * l2 \in Nat
  BY <1>1, ProductNat
<1>6. row * l2 + i2 < rows * l2
  BY <1>3, <1>4, <1>5
<1> QED BY <1>6 DEF row, rows

\* A position names one quotient and one remainder.
LEMMA SplitPosition ==
  ASSUME NEW n \in Nat, NEW a \in Nat, NEW b \in Nat,
         NEW r \in 0 .. n - 1, NEW t \in 0 .. n - 1,
         a * n + r = b * n + t
  PROVE  a = b /\ r = t
<1>1. n * a = a * n /\ n * b = b * n
  OBVIOUS
<1>2. CASE a < b
  <2>1. n * b >= n * a + n
    BY <1>2, MultipleGap
  <2>2. n * a \in Nat /\ n * b \in Nat
    BY ProductNat
  <2> QED BY <1>1, <2>1, <2>2
<1>3. CASE b < a
  <2>1. n * a >= n * b + n
    BY <1>3, MultipleGap
  <2>2. n * a \in Nat /\ n * b \in Nat
    BY ProductNat
  <2> QED BY <1>1, <2>1, <2>2
<1>4. CASE a = b
  <2>1. a * n \in Nat
    BY ProductNat
  <2> QED BY <1>4, <2>1
<1> QED BY <1>2, <1>3, <1>4

-----------------------------------------------------------------------------
(* Positions in nested loops, read as digits of mixed radix. *)

\* A number below b * c has a quotient by c below b.
LEMMA QuotientBound ==
  ASSUME NEW a \in Nat, NEW b \in Nat, NEW c \in Nat, a < b * c
  PROVE  c \in Nat \ {0} /\ a \div c \in 0 .. b - 1
<1>1. c # 0
  OBVIOUS
<1> DEFINE q == a \div c
           r == a % c
<1>2. q \in Nat /\ r \in 0 .. c - 1 /\ a = c * q + r
  BY <1>1, DivMod
<1> HIDE DEF q, r
<1>3. q < b
  <2> SUFFICES ASSUME b <= q PROVE FALSE
    BY <1>2
  <2>1. b * c <= q * c
    BY <1>2, ProductMonotone
  <2>2. q * c = c * q /\ q * c \in Nat /\ b * c \in Nat
    BY <1>2, ProductNat
  <2> QED BY <1>2, <2>1, <2>2
<1> QED BY <1>1, <1>2, <1>3 DEF q

\* A quotient and its remainder are determined by the number.
LEMMA UniqueQuotient ==
  ASSUME NEW c \in Nat \ {0}, NEW q \in Nat, NEW r \in 0 .. c - 1, NEW a,
         a = c * q + r
  PROVE  a \div c = q /\ a % c = r
<1>1. c * q \in Nat
  BY ProductNat
<1>2. a \in Nat
  BY <1>1
<1> DEFINE p == a \div c
           t == a % c
<1>3. p \in Nat /\ t \in 0 .. c - 1 /\ a = c * p + t
  BY <1>2, DivMod
<1> HIDE DEF p, t
<1>4. q * c + r = p * c + t
  <2>1. q * c = c * q /\ p * c = c * p
    BY <1>3
  <2> QED BY <1>3, <2>1
<1>5. q = p /\ r = t
  BY <1>3, <1>4, SplitPosition
<1> QED BY <1>5 DEF p, t

\* Dividing twice is dividing by the product.
LEMMA QuotientOfQuotient ==
  ASSUME NEW a \in Nat, NEW b \in Nat \ {0}, NEW c \in Nat \ {0}
  PROVE  (a \div b) \div c = a \div (b * c)
<1> DEFINE q == a \div b
           r == a % b
           p == q \div c
           t == q % c
<1>1. q \in Nat /\ r \in 0 .. b - 1 /\ a = b * q + r
  BY DivMod
<1>2. p \in Nat /\ t \in 0 .. c - 1 /\ q = c * p + t
  <2>1. q \in Nat
    BY <1>1
  <2> HIDE DEF q
  <2> QED BY <2>1, DivMod
<1> HIDE DEF q, r, p, t
<1>3. b * c \in Nat \ {0}
  BY ProductNat
<1>4. b * t + r \in 0 .. b * c - 1
  <2>1. b * t \in Nat /\ b * c \in Nat
    BY <1>2, ProductNat
  <2>2. b * c >= b * t + b
    BY <1>2, MultipleGap
  <2> QED BY <1>1, <2>1, <2>2
<1>5. a = (b * c) * p + (b * t + r)
  <2>1. b * q = b * (c * p) + b * t
    <3>1. c * p \in Nat
      BY <1>2, ProductNat
    <3> QED BY <1>2, <3>1
  <2>2. b * (c * p) = (b * c) * p
    BY <1>2
  <2>3. (b * c) * p \in Nat /\ b * t \in Nat
    BY <1>2, <1>3, ProductNat
  <2> DEFINE x == (b * c) * p
             y == b * t
  <2>4. b * q = x + y /\ a = b * q + r
    BY <1>1, <2>1, <2>2
  <2>5. a = x + (y + r)
    <3> HIDE DEF x, y
    <3> QED BY <1>1, <2>3, <2>4 DEF x, y
  <2> QED BY <2>5
<1>6. a \div (b * c) = p
  <2> DEFINE d == b * c
             e == b * t + r
  <2>1. d \in Nat \ {0} /\ e \in 0 .. d - 1 /\ a = d * p + e
    BY <1>3, <1>4, <1>5
  <2>2. a \div d = p
    <3> HIDE DEF d, e
    <3> QED BY <1>2, <2>1, UniqueQuotient
  <2> QED BY <2>2 DEF d
<1> QED BY <1>6 DEF p, q

\* A digit before smaller ones.
LEMMA DigitBound ==
  ASSUME NEW n \in Nat, NEW l \in Nat, NEW a \in 0 .. n - 1, NEW b \in 0 .. l - 1
  PROVE  a * l + b \in 0 .. n * l - 1
<1>1. (a + 1) * l <= n * l
  BY ProductMonotone
<1>2. (a + 1) * l = a * l + l
  BY NextMultiple
<1>3. a * l \in Nat /\ n * l \in Nat
  BY ProductNat
<1> QED BY <1>1, <1>2, <1>3

\* The four digits of a position and the number they stand for.
LEMMA Digits ==
  ASSUME NEW z1 \in Nat, NEW z2 \in Nat, NEW z3 \in Nat, NEW z4 \in Nat,
         NEW m \in Nat, m < z1 * z2 * z3 * z4
  PROVE  /\ m % z4 \in 0 .. z4 - 1
         /\ (m \div z4) % z3 \in 0 .. z3 - 1
         /\ ((m \div z4) \div z3) % z2 \in 0 .. z2 - 1
         /\ ((m \div z4) \div z3) \div z2 \in 0 .. z1 - 1
         /\ m = ((((((m \div z4) \div z3) \div z2) * z2 + (((m \div z4) \div z3) % z2)) * z3)
                  + ((m \div z4) % z3)) * z4 + (m % z4)
         /\ z1 # 0 /\ z2 # 0 /\ z3 # 0 /\ z4 # 0
<1>1. z1 * z2 \in Nat /\ z1 * z2 * z3 \in Nat
  BY ProductNat
<1> DEFINE q4 == m \div z4
           r4 == m % z4
<1>2. q4 \in 0 .. z1 * z2 * z3 - 1 /\ z4 \in Nat \ {0}
  <2> DEFINE b == z1 * z2 * z3
  <2>1. b \in Nat /\ m < b * z4
    BY <1>1
  <2>2. q4 \in 0 .. b - 1 /\ z4 \in Nat \ {0}
    <3> HIDE DEF b
    <3> QED BY <2>1, QuotientBound
  <2> QED BY <2>2
<1>3. r4 \in 0 .. z4 - 1 /\ m = q4 * z4 + r4
  <2>1. z4 * q4 = q4 * z4
    BY <1>2
  <2> QED BY <1>2, <2>1, DivMod
<1>4. q4 \in Nat /\ q4 < z1 * z2 * z3
  BY <1>1, <1>2
<1> HIDE DEF q4, r4
<1> DEFINE q3 == q4 \div z3
           r3 == q4 % z3
<1>5. q3 \in 0 .. z1 * z2 - 1 /\ z3 \in Nat \ {0}
  <2> DEFINE b == z1 * z2
  <2>1. b \in Nat /\ q4 < b * z3
    BY <1>1, <1>4
  <2>2. q3 \in 0 .. b - 1 /\ z3 \in Nat \ {0}
    <3> HIDE DEF b
    <3> QED BY <1>4, <2>1, QuotientBound
  <2> QED BY <2>2
<1>6. r3 \in 0 .. z3 - 1 /\ q4 = q3 * z3 + r3
  <2>1. z3 * q3 = q3 * z3
    BY <1>1, <1>5
  <2> QED BY <1>4, <1>5, <2>1, DivMod
<1>7. q3 \in Nat /\ q3 < z1 * z2
  BY <1>1, <1>5
<1> HIDE DEF q3, r3
<1> DEFINE q2 == q3 \div z2
           r2 == q3 % z2
<1>8. q2 \in 0 .. z1 - 1 /\ z2 \in Nat \ {0}
  BY <1>7, QuotientBound
<1>9. r2 \in 0 .. z2 - 1 /\ q3 = q2 * z2 + r2
  <2>1. z2 * q2 = q2 * z2
    BY <1>8
  <2> QED BY <1>7, <1>8, <2>1, DivMod
<1> HIDE DEF q2, r2
<1>10. m = ((q2 * z2 + r2) * z3 + r3) * z4 + r4
  BY <1>3, <1>6, <1>9, Zenon
<1>11. z1 # 0
  BY <1>8
<1>12. /\ r4 \in 0 .. z4 - 1 /\ r3 \in 0 .. z3 - 1 /\ r2 \in 0 .. z2 - 1
       /\ q2 \in 0 .. z1 - 1 /\ z1 # 0 /\ z2 # 0 /\ z3 # 0 /\ z4 # 0
  BY <1>2, <1>3, <1>5, <1>6, <1>8, <1>9, <1>11
<1>13. /\ q4 = m \div z4 /\ r4 = m % z4
       /\ q3 = (m \div z4) \div z3 /\ r3 = (m \div z4) % z3
       /\ q2 = ((m \div z4) \div z3) \div z2 /\ r2 = ((m \div z4) \div z3) % z2
  BY Zenon DEF q4, r4, q3, r3, q2, r2
<1>14. m % z4 \in 0 .. z4 - 1 /\ (m \div z4) % z3 \in 0 .. z3 - 1
  BY ONLY <1>12, <1>13
<1>15. /\ ((m \div z4) \div z3) % z2 \in 0 .. z2 - 1
       /\ ((m \div z4) \div z3) \div z2 \in 0 .. z1 - 1
  BY ONLY <1>12, <1>13
<1>16. m = ((((((m \div z4) \div z3) \div z2) * z2 + (((m \div z4) \div z3) % z2)) * z3)
                  + ((m \div z4) % z3)) * z4 + (m % z4)
  BY ONLY <1>10, <1>13
<1> QED BY <1>12, <1>14, <1>15, <1>16

\* The same digits, each from a division of its own.
sameDigits(z2, z3, z4, m) ==
  /\ m \div 1 = m
  /\ (m \div z4) \div z3 = m \div (z3 * z4)
  /\ ((m \div z4) \div z3) \div z2 = m \div (z2 * z3 * z4)
  /\ (m \div z4) \div (z3 * z2) = ((m \div z4) \div z3) \div z2

\* The outermost digit, by one division or by three.
LEMMA DigitsByWeight ==
  ASSUME NEW z2 \in Nat \ {0}, NEW z3 \in Nat \ {0}, NEW z4 \in Nat \ {0}, NEW m \in Nat
  PROVE  sameDigits(z2, z3, z4, m)
<1>1. m \div 1 = m
  BY UniqueQuotient
<1>2. z3 * z4 \in Nat \ {0} /\ m \div z4 \in Nat
  BY DivMod, ProductNat
<1>3. (m \div z4) \div z3 = m \div (z3 * z4)
  <2>1. (m \div z4) \div z3 = m \div (z4 * z3)
    BY QuotientOfQuotient
  <2>2. z4 * z3 = z3 * z4
    OBVIOUS
  <2> QED BY <2>1, <2>2
<1>4. (m \div (z3 * z4)) \div z2 = m \div (z2 * z3 * z4)
  <2> DEFINE w == z3 * z4
  <2>1. w \in Nat \ {0}
    BY <1>2
  <2>2. (m \div w) \div z2 = m \div (w * z2)
    <3> HIDE DEF w
    <3> QED BY <2>1, QuotientOfQuotient
  <2>3. w * z2 = z2 * z3 * z4
    OBVIOUS
  <2> QED BY <2>2, <2>3, Zenon DEF w
<1>5. (m \div z4) \div (z3 * z2) = ((m \div z4) \div z3) \div z2
  <2> DEFINE q == m \div z4
  <2>1. q \in Nat
    BY <1>2
  <2>2. (q \div z3) \div z2 = q \div (z3 * z2)
    <3> HIDE DEF q
    <3> QED BY <2>1, QuotientOfQuotient
  <2> QED BY <2>2, Zenon DEF q
<1> QED BY <1>1, <1>3, <1>4, <1>5, Zenon DEF sameDigits

\* Digits that are in their ranges give a position of the region.
LEMMA RegionBound ==
  ASSUME NEW h1 \in Nat, NEW h2 \in Nat, NEW h3 \in Nat, NEW h4 \in Nat,
         NEW c1 \in 0 .. h1 - 1, NEW c2 \in 0 .. h2 - 1,
         NEW c3 \in 0 .. h3 - 1, NEW c4 \in 0 .. h4 - 1
  PROVE  ((c1 * h2 + c2) * h3 + c3) * h4 + c4 \in 0 .. h1 * h2 * h3 * h4 - 1
<1> DEFINE a == c1 * h2 + c2
           n == h1 * h2
<1>1. n \in Nat /\ a \in 0 .. n - 1
  BY ProductNat, DigitBound
<1> HIDE DEF a, n
<1> DEFINE b == a * h3 + c3
           k == n * h3
<1>2. k \in Nat /\ b \in 0 .. k - 1
  BY <1>1, ProductNat, DigitBound
<1> HIDE DEF b, k
<1>3. b * h4 + c4 \in 0 .. k * h4 - 1
  BY <1>2, DigitBound
<1> QED BY <1>3, Zenon DEF a, b, k, n

\* The row at position m of the nested loops is inside them.
rowAt(l4, l3, l2, m) ==
  /\ (m % l2) \in 0 .. l2 - 1
  /\ ((m \div l2) % l3) \in 0 .. l3 - 1
  /\ (m \div (l2 * l3)) \in 0 .. l4 - 1
  /\ ((m \div (l2 * l3)) * l3 + ((m \div l2) % l3)) * l2 + (m % l2) = m

\* Every position below the number of rows is the row of three indices.
LEMMA RowAt ==
  ASSUME NEW l4 \in Nat, NEW l3 \in Nat, NEW l2 \in Nat, NEW m \in Nat, m < l4 * l3 * l2
  PROVE  rowAt(l4, l3, l2, m)
<1> DEFINE q == m \div l2
           i2 == m % l2
           n == l4 * l3
<1>1. n \in Nat /\ m < n * l2
  BY ProductNat
<1>2. q \in 0 .. n - 1 /\ l2 \in Nat \ {0}
  <2> HIDE DEF n
  <2> QED BY <1>1, QuotientBound
<1>3. i2 \in 0 .. l2 - 1 /\ m = l2 * q + i2
  BY <1>2, DivMod
<1>4. q \in Nat /\ q < n
  <2> HIDE DEF n, q
  <2> QED BY <1>1, <1>2
<1> HIDE DEF q, i2
<1> DEFINE i4 == q \div l3
           i3 == q % l3
<1>5. i4 \in 0 .. l4 - 1 /\ l3 \in Nat \ {0}
  BY <1>4, QuotientBound
<1>6. i3 \in 0 .. l3 - 1 /\ q = l3 * i4 + i3
  BY <1>4, <1>5, DivMod
<1>7. i4 = m \div (l2 * l3)
  BY <1>2, <1>5, QuotientOfQuotient DEF q
<1> HIDE DEF i4, i3
<1>8. (i4 * l3 + i3) * l2 + i2 = m
  <2>1. l3 * i4 = i4 * l3
    BY <1>5
  <2>2. q = i4 * l3 + i3
    BY <1>6, <2>1
  <2>3. l2 * q = q * l2
    BY <1>4
  <2>4. m = q * l2 + i2
    BY <1>3, <2>3
  <2> QED BY ONLY <2>2, <2>4
<1>9. i3 = ((m \div l2) % l3) /\ i2 = (m % l2)
  BY Zenon DEF i3, i2, q
<1> QED BY ONLY <1>3, <1>5, <1>6, <1>7, <1>8, <1>9 DEF rowAt

\* A position in the buffer, as a sum and as nested products.
LEMMA Horner ==
  ASSUME NEW c1 \in Int, NEW c2 \in Int, NEW c3 \in Int, NEW c4 \in Int,
         NEW h2 \in Int, NEW h3 \in Int, NEW h4 \in Int
  PROVE  c1 * (h2 * h3 * h4) + c2 * (h3 * h4) + c3 * h4 + c4 * 1
           = ((c1 * h2 + c2) * h3 + c3) * h4 + c4
OBVIOUS

\* An element of a view: the steps taken in each dimension add to the
\* offsets where it starts.
LEMMA ElementAlgebra ==
  ASSUME NEW o1 \in Int, NEW o2 \in Int, NEW o3 \in Int, NEW o4 \in Int,
         NEW e1 \in Int, NEW e2 \in Int, NEW e3 \in Int, NEW d4 \in Int,
         NEW w1 \in Int, NEW w2 \in Int, NEW w3 \in Int
  PROVE  (o1 * w1 + o2 * w2 + o3 * w3 + o4 * 1) + d4 + 1 + e3 * w3 + e2 * w2 + e1 * w1
           = 1 + ((o1 + e1) * w1 + (o2 + e2) * w2 + (o3 + e3) * w3 + (o4 + d4 * 1) * 1)
OBVIOUS

\* Products may be regrouped.
LEMMA ProductGroup ==
  ASSUME NEW a \in Int, NEW b \in Int, NEW c \in Int
  PROVE  a * (b * c) = (a * b) * c
OBVIOUS
=============================================================================
