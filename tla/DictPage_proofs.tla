---------------------------- MODULE DictPage_proofs ----------------------------
(***************************************************************************)
(* For every column, byte size, threshold and width of the u8 reader: the  *)
(* dictionary is right, the runs the encoder writes spell the indices, and *)
(* what a reader takes from the bytes of the page is the column.           *)
(***************************************************************************)
EXTENDS DictPage, SequenceTheorems, FiniteSetTheorems, WellFoundedInduction,
        NaturalsInduction, TLAPS

-----------------------------------------------------------------------------
(* Induction and recursion on the naturals.                                *)

(* Every nonempty set of naturals has a least element.                     *)
LEMMA LeastNat ==
  ASSUME NEW T \in SUBSET Nat, T # {} PROVE \E x \in T : \A y \in T : x <= y
<1> DEFINE R == OpToRel(<, Nat)
<1>1. \A x, y \in T : y < x => <<y, x>> \in R
  BY DEF OpToRel
<1>2. IsWellFoundedOn(R, Nat)
  BY NatLessThanWellFounded
<1> HIDE DEF R
<1>3. PICK x \in T : \A y \in T : ~(<<y, x>> \in R)
  BY <1>2, WFMin
<1>4. \A y \in T : ~(y < x) /\ y \in Nat /\ x \in Nat
  BY <1>1, <1>3
<1> QED BY <1>3, <1>4

(* Induction: a set of naturals that holds 0 and, up to n, the successor   *)
(* of each of its members holds every natural up to n.                     *)
LEMMA Climb ==
  ASSUME NEW n \in Nat, NEW P, 0 \in P, \A k \in 0..(n - 1) : k \in P => k + 1 \in P
  PROVE  \A k \in 0..n : k \in P
<1> SUFFICES ASSUME NEW c \in 0..n, c \notin P PROVE FALSE
  OBVIOUS
<1> DEFINE T == {k \in 0..n : k \notin P}
<1>1. T \in SUBSET Nat /\ T # {}
  OBVIOUS
<1> HIDE DEF T
<1>2. PICK x \in T : \A y \in T : x <= y
  BY <1>1, LeastNat
<1>3. x \in 0..n /\ x \notin P /\ x # 0
  BY <1>2 DEF T
<1>4. x - 1 \in 0..(n - 1) /\ x - 1 \in 0..n /\ ~(x <= x - 1) /\ x - 1 + 1 = x
  BY <1>3
<1>5. x - 1 \in P
  BY <1>2, <1>4 DEF T
<1> QED BY <1>3, <1>4, <1>5

(* A function defined from its value one below has a value.                *)
ReadsBelow(f, n, a, g) == f[0] = a /\ \A k \in 1..n : f[k] = g[k][f[k - 1]]

LEMMA Recursion ==
  ASSUME NEW n \in Nat, NEW S, NEW a \in S, NEW g \in [1..n -> [S -> S]]
  PROVE  \E f \in [0..n -> S] : ReadsBelow(f, n, a, g)
<1> DEFINE Upto(m) == \E f \in [0..m -> S] :
                        f[0] = a /\ \A k \in 1..m : f[k] = g[k][f[k - 1]]
           P == {m \in 0..n : Upto(m)}
<1>1. 0 \in P
  <2> DEFINE f == [k \in 0..0 |-> a]
  <2>1. f \in [0..0 -> S] /\ f[0] = a /\ 1..0 = {}
    OBVIOUS
  <2> HIDE DEF f
  <2>2. Upto(0)
    BY <2>1
  <2> QED BY <2>2
<1>2. ASSUME NEW m \in 0..(n - 1), m \in P PROVE m + 1 \in P
  <2>1. PICK f \in [0..m -> S] : f[0] = a /\ \A k \in 1..m : f[k] = g[k][f[k - 1]]
    BY <1>2
  <2> DEFINE h == [k \in 0..(m + 1) |-> IF k = m + 1 THEN g[m + 1][f[m]] ELSE f[k]]
  <2>2. g[m + 1][f[m]] \in S
    <3>1. m + 1 \in 1..n /\ f[m] \in S
      OBVIOUS
    <3> QED BY <3>1
  <2>3. h \in [0..(m + 1) -> S]
    BY <2>2
  <2>4. h[0] = a
    BY <2>1
  <2>5. ASSUME NEW k \in 1..(m + 1) PROVE h[k] = g[k][h[k - 1]]
    <3>1. CASE k = m + 1
      BY <3>1
    <3>2. CASE k \in 1..m
      <4>1. k \in 0..(m + 1) /\ k - 1 \in 0..(m + 1) /\ k # m + 1 /\ k - 1 # m + 1
        BY <3>2
      <4>2. h[k] = f[k] /\ h[k - 1] = f[k - 1]
        BY <4>1
      <4> QED BY <2>1, <3>2, <4>2
    <3> QED BY <3>1, <3>2
  <2> HIDE DEF h
  <2>6. Upto(m + 1) /\ m + 1 \in 0..n
    BY <2>3, <2>4, <2>5
  <2> QED BY <2>6
<1> HIDE DEF P
<1>3. \A k \in 0..n : k \in P
  BY <1>1, <1>2, Climb
<1>4. Upto(n)
  BY <1>3 DEF P
<1> QED BY <1>4 DEF ReadsBelow

LEMMA DivMod ==
  ASSUME NEW n \in Nat, NEW d \in Nat \ {0}
  PROVE  /\ n \div d \in Nat /\ n % d \in 0..(d - 1)
         /\ n = d * (n \div d) + (n % d)
  OBVIOUS

-----------------------------------------------------------------------------
(* Quotients and remainders, kept apart from the definitions they serve.   *)

LEMMA DivUnique ==
  ASSUME NEW m \in Nat \ {0}, NEW q \in Nat, NEW r \in 0..(m - 1)
  PROVE  (q * m + r) \div m = q /\ (q * m + r) % m = r
<1> DEFINE x == q * m + r
           y == x \div m
<1>1. x \in Nat /\ y \in Nat /\ x = y * m + (x % m) /\ x % m \in 0..(m - 1)
  OBVIOUS
<1>2. (y - q) * m = r - (x % m)
  BY <1>1
<1>3. y - q \in Int /\ r - (x % m) \in Int /\ r - (x % m) < m /\ 0 - m < r - (x % m)
  BY <1>1
<1>4. \A d \in Int : d * m < m /\ 0 - m < d * m => d = 0
  <2> SUFFICES ASSUME NEW d \in Int, d * m < m, 0 - m < d * m PROVE d = 0
    OBVIOUS
  <2>1. d >= 1 => d * m >= m
    OBVIOUS
  <2>2. d <= 0 - 1 => d * m <= 0 - m
    OBVIOUS
  <2> QED BY <2>1, <2>2
<1>5. y - q = 0
  BY <1>2, <1>3, <1>4
<1> QED BY <1>1, <1>5

LEMMA Divided ==
  ASSUME NEW n \in Nat, NEW d \in Nat \ {0}
  PROVE  n \div d \in Nat /\ n % d \in 0..(d - 1) /\ n = (n \div d) * d + (n % d)
<1>1. n \div d \in Nat /\ n % d \in 0..(d - 1) /\ n = d * (n \div d) + (n % d)
  BY DivMod
<1>2. \A q \in Nat : d * q = q * d
  OBVIOUS
<1> QED BY <1>1, <1>2

(* A remainder by a product, digit by digit.                               *)
LEMMA ModProduct ==
  ASSUME NEW v \in Nat, NEW a \in Nat \ {0}, NEW b \in Nat \ {0}
  PROVE  v % (a * b) = (v % a) + ((v \div a) % b) * a
<1> DEFINE q == v \div a
           r == v % a
           h == q \div b
           l == q % b
<1>1. q \in Nat /\ r \in 0..(a - 1) /\ v = q * a + r
  BY Divided
<1> HIDE DEF q, r
<1>2. h \in Nat /\ l \in 0..(b - 1) /\ q = h * b + l
  BY <1>1, Divided
<1> HIDE DEF h, l
<1>3. v = h * (a * b) + (l * a + r)
  BY <1>1, <1>2
<1>4. l * a + r \in 0..(a * b - 1) /\ a * b \in Nat \ {0}
  <2>1. l * a <= (b - 1) * a
    BY <1>2
  <2>2. (b - 1) * a = a * b - a
    OBVIOUS
  <2> DEFINE la == l * a
             ab == a * b
  <2>3. la \in Nat /\ ab \in Nat \ {0}
    BY <1>2
  <2>4. la <= ab - a
    BY <2>1, <2>2
  <2> HIDE DEF la, ab
  <2>5. la + r \in 0..(ab - 1)
    BY <1>1, <2>3, <2>4
  <2> QED BY <2>3, <2>5 DEF la, ab
<1>5. v % (a * b) = l * a + r
  BY <1>2, <1>3, <1>4, DivUnique
<1> QED BY <1>5 DEF q, r, h, l

(* What lies above a digit does not change it.                             *)
Unchanged(x, c, a, b) == ((x + c * (a * b)) \div a) % b = (x \div a) % b

LEMMA DigitBelow ==
  ASSUME NEW x \in Nat, NEW c \in Nat, NEW a \in Nat \ {0}, NEW b \in Nat \ {0}
  PROVE  Unchanged(x, c, a, b)
<1> DEFINE q == x \div a
           r == x % a
           h == q \div b
           l == q % b
<1>1. q \in Nat /\ r \in 0..(a - 1) /\ x = q * a + r
  BY Divided
<1> HIDE DEF q, r
<1>2. h \in Nat /\ l \in 0..(b - 1) /\ q = h * b + l
  BY <1>1, Divided
<1> HIDE DEF h, l
<1>3. x + c * (a * b) = (q + c * b) * a + r /\ q + c * b \in Nat
  BY <1>1
<1>4. (x + c * (a * b)) \div a = q + c * b
  BY <1>1, <1>3, DivUnique
<1>5. q + c * b = (h + c) * b + l /\ h + c \in Nat
  BY <1>2
<1>6. (q + c * b) % b = l
  BY <1>2, <1>5, DivUnique
<1> QED BY <1>4, <1>6 DEF q, l, Unchanged

-----------------------------------------------------------------------------
(* Powers of two.                                                          *)

LEMMA Pow2Value ==
  ASSUME NEW b \in Nat
  PROVE  \E f \in [0..b -> Nat] : f[b] = Pow2(b) /\ f[0] = 1 /\ \A k \in 1..b : f[k] = 2 * f[k - 1]
<1> DEFINE g == [k \in 1..b |-> [x \in Nat |-> 2 * x]]
           Rec(p) == p = [k \in 0..b |-> IF k = 0 THEN 1 ELSE 2 * p[k - 1]]
           pow == CHOOSE p : Rec(p)
<1>1. g \in [1..b -> [Nat -> Nat]]
  OBVIOUS
<1>2. PICK f \in [0..b -> Nat] : ReadsBelow(f, b, 1, g)
  <2> HIDE DEF g
  <2> QED BY <1>1, Recursion
<1>3. f[0] = 1 /\ \A k \in 1..b : f[k] = 2 * f[k - 1]
  <2>1. \A k \in 1..b : f[k - 1] \in Nat
    OBVIOUS
  <2> QED BY <1>2, <2>1 DEF ReadsBelow
<1>4. Rec(f)
  BY <1>3
<1>5. Rec(pow)
  <2> HIDE DEF Rec
  <2> QED BY <1>4
<1>6. Pow2(b) = pow[b]
  BY DEF Pow2
<1> HIDE DEF pow
<1>7. pow[0] = 1 /\ \A k \in 1..b : pow[k] = 2 * pow[k - 1]
  BY <1>5
<1> DEFINE P == {k \in 0..b : pow[k] = f[k]}
<1>8. 0 \in P
  BY <1>3, <1>7
<1>9. ASSUME NEW k \in 0..(b - 1), k \in P PROVE k + 1 \in P
  <2>1. k + 1 \in 1..b /\ (k + 1) - 1 = k
    OBVIOUS
  <2> QED BY <1>3, <1>7, <1>9, <2>1
<1> HIDE DEF P
<1>10. \A k \in 0..b : k \in P
  BY <1>8, <1>9, Climb
<1>11. pow[b] = f[b]
  BY <1>10 DEF P
<1> QED BY <1>3, <1>6, <1>11

LEMMA Pow2Type ==
  ASSUME NEW b \in Nat
  PROVE  Pow2(b) \in Nat \ {0} /\ Pow2(0) = 1 /\ Pow2(b + 1) = 2 * Pow2(b)
<1>1. PICK f \in [0..b -> Nat] :
        f[b] = Pow2(b) /\ f[0] = 1 /\ \A k \in 1..b : f[k] = 2 * f[k - 1]
  BY Pow2Value
<1>2. PICK h \in [0..(b + 1) -> Nat] :
        h[b + 1] = Pow2(b + 1) /\ h[0] = 1 /\ \A k \in 1..(b + 1) : h[k] = 2 * h[k - 1]
  <2>1. b + 1 \in Nat
    OBVIOUS
  <2> QED BY <2>1, Pow2Value
<1>3. Pow2(0) = 1
  BY Pow2Value
<1> DEFINE P == {k \in 0..b : f[k] = h[k] /\ f[k] > 0}
<1>4. 0 \in P
  BY <1>1, <1>2
<1>5. ASSUME NEW k \in 0..(b - 1), k \in P PROVE k + 1 \in P
  <2>1. k + 1 \in 1..b /\ k + 1 \in 1..(b + 1) /\ (k + 1) - 1 = k /\ f[k] \in Nat
    OBVIOUS
  <2> QED BY <1>1, <1>2, <1>5, <2>1
<1> HIDE DEF P
<1>6. \A k \in 0..b : k \in P
  BY <1>4, <1>5, Climb
<1>7. f[b] = h[b] /\ f[b] > 0
  BY <1>6 DEF P
<1>8. h[b + 1] = 2 * h[(b + 1) - 1] /\ (b + 1) - 1 = b
  BY <1>2
<1> QED BY <1>1, <1>2, <1>3, <1>7, <1>8

LEMMA Pow2Sum ==
  ASSUME NEW a \in Nat, NEW b \in Nat
  PROVE  Pow2(a + b) = Pow2(a) * Pow2(b)
<1> DEFINE P == {k \in 0..b : Pow2(a + k) = Pow2(a) * Pow2(k)}
<1>1. 0 \in P
  BY Pow2Type
<1>2. ASSUME NEW k \in 0..(b - 1), k \in P PROVE k + 1 \in P
  <2>1. k \in Nat /\ a + k \in Nat /\ a + (k + 1) = (a + k) + 1 /\ k + 1 \in 0..b
    OBVIOUS
  <2>2. Pow2(a + (k + 1)) = 2 * Pow2(a + k) /\ Pow2(k + 1) = 2 * Pow2(k)
    BY <2>1, Pow2Type
  <2>3. Pow2(a) \in Nat /\ Pow2(k) \in Nat
    BY <2>1, Pow2Type
  <2>4. Pow2(a + k) = Pow2(a) * Pow2(k)
    BY <1>2
  <2>5. 2 * (Pow2(a) * Pow2(k)) = Pow2(a) * (2 * Pow2(k))
    BY <2>3
  <2> QED BY <2>1, <2>2, <2>4, <2>5
<1> HIDE DEF P
<1>3. \A k \in 0..b : k \in P
  BY <1>1, <1>2, Climb
<1> QED BY <1>3 DEF P

LEMMA Pow2Grows ==
  ASSUME NEW a \in Nat, NEW b \in Nat
  PROVE  (a <= b => Pow2(a) <= Pow2(b)) /\ (a < b => Pow2(a) < Pow2(b))
<1>1. \A x, y \in Nat : x <= y => Pow2(x) <= Pow2(y)
  <2> SUFFICES ASSUME NEW x \in Nat, NEW y \in Nat, x <= y PROVE Pow2(x) <= Pow2(y)
    OBVIOUS
  <2>1. y - x \in Nat /\ x + (y - x) = y
    OBVIOUS
  <2>2. Pow2(y) = Pow2(x) * Pow2(y - x)
    BY <2>1, Pow2Sum
  <2>3. Pow2(x) \in Nat \ {0} /\ Pow2(y - x) \in Nat \ {0}
    BY <2>1, Pow2Type
  <2> QED BY <2>2, <2>3
<1>2. Pow2(a + 1) = 2 * Pow2(a) /\ Pow2(a) \in Nat \ {0} /\ Pow2(b) \in Nat
  BY Pow2Type
<1>3. a < b => Pow2(a + 1) <= Pow2(b)
  BY <1>1
<1> QED BY <1>1, <1>2, <1>3

LEMMA Pow2Beyond ==
  ASSUME NEW n \in Nat
  PROVE  n < Pow2(n)
<1> DEFINE P == {k \in 0..n : k < Pow2(k)}
<1>1. 0 \in P
  BY Pow2Type
<1>2. ASSUME NEW k \in 0..(n - 1), k \in P PROVE k + 1 \in P
  <2>1. k \in Nat /\ Pow2(k + 1) = 2 * Pow2(k) /\ Pow2(k) \in Nat
    BY Pow2Type
  <2> QED BY <1>2, <2>1
<1> HIDE DEF P
<1>3. \A k \in 0..n : k \in P
  BY <1>1, <1>2, Climb
<1> QED BY <1>3 DEF P

(* A number has a first power of 2^w above it.                             *)
LEMMA FirstPower ==
  ASSUME NEW v \in Nat, NEW w \in Nat \ {0}
  PROVE  \E n \in 1..(v + 1) : v < Pow2(w * n) /\ (n = 1 \/ v >= Pow2(w * (n - 1)))
<1> DEFINE T == {n \in 1..(v + 1) : v < Pow2(w * n)}
<1>1. v + 1 \in T
  <2>1. w * (v + 1) \in Nat /\ v + 1 \in Nat /\ v + 1 <= w * (v + 1)
    OBVIOUS
  <2>2. Pow2(v + 1) <= Pow2(w * (v + 1)) /\ Pow2(v + 1) \in Nat /\ Pow2(w * (v + 1)) \in Nat
    BY <2>1, Pow2Grows, Pow2Type
  <2>3. v + 1 < Pow2(v + 1)
    BY Pow2Beyond
  <2> QED BY <2>2, <2>3
<1>2. T \in SUBSET Nat
  OBVIOUS
<1>3. PICK n \in T : \A m \in T : n <= m
  <2> HIDE DEF T
  <2> QED BY <1>1, <1>2, LeastNat
<1>4. n \in 1..(v + 1) /\ v < Pow2(w * n)
  OBVIOUS
<1>5. n # 1 => v >= Pow2(w * (n - 1))
  <2> SUFFICES ASSUME n # 1 PROVE v >= Pow2(w * (n - 1))
    OBVIOUS
  <2>1. n - 1 \in 1..(v + 1) /\ ~(n <= n - 1)
    BY <1>4
  <2>2. ~(v < Pow2(w * (n - 1)))
    BY <1>3, <2>1
  <2>3. w * (n - 1) \in Nat
    BY <2>1
  <2>4. Pow2(w * (n - 1)) \in Nat
    BY <2>3, Pow2Type
  <2> QED BY <2>2, <2>4
<1> QED BY <1>4, <1>5
-----------------------------------------------------------------------------
(* Digits.                                                                 *)

LEMMA DigitType ==
  ASSUME NEW v \in Nat, NEW w \in Nat, NEW k \in Nat
  PROVE  Digit(v, w, k) \in 0..(Pow2(w) - 1)
<1>1. w * k \in Nat
  OBVIOUS
<1>2. Pow2(w * k) \in Nat \ {0} /\ Pow2(w) \in Nat \ {0}
  BY <1>1, Pow2Type
<1>3. v \div Pow2(w * k) \in Nat
  BY <1>2, Divided
<1>4. (v \div Pow2(w * k)) % Pow2(w) \in 0..(Pow2(w) - 1)
  BY <1>2, <1>3, Divided
<1> QED BY <1>4 DEF Digit

LEMMA DigitsSum ==
  ASSUME NEW n \in Nat, NEW w \in Nat, NEW d \in [1..n -> Nat]
  PROVE  \E f \in [0..n -> Nat] :
           /\ FromDigits(d, w) = f[n] /\ f[0] = 0
           /\ \A k \in 1..n : f[k] = f[k - 1] + d[k] * Pow2(w * (k - 1))
<1> DEFINE term(k) == d[k] * Pow2(w * (k - 1))
           g == [k \in 1..n |-> [x \in Nat |-> x + term(k)]]
           Rec(p) == p = [k \in 0..Len(d) |-> IF k = 0 THEN 0 ELSE p[k - 1] + term(k)]
           sum == CHOOSE p : Rec(p)
<1>1. \A k \in 1..n : term(k) \in Nat
  <2> SUFFICES ASSUME NEW k \in 1..n PROVE term(k) \in Nat
    OBVIOUS
  <2>1. d[k] \in Nat /\ w * (k - 1) \in Nat
    OBVIOUS
  <2>2. Pow2(w * (k - 1)) \in Nat
    BY <2>1, Pow2Type
  <2> QED BY <2>1, <2>2
<1>2. Len(d) = n
  OBVIOUS
<1>3. FromDigits(d, w) = sum[n]
  BY <1>2 DEF FromDigits
<1> HIDE DEF term
<1>4. g \in [1..n -> [Nat -> Nat]]
  BY <1>1
<1>5. PICK f \in [0..n -> Nat] : ReadsBelow(f, n, 0, g)
  <2> HIDE DEF g
  <2> QED BY <1>4, Recursion
<1>6. f[0] = 0 /\ \A k \in 1..n : f[k] = f[k - 1] + term(k)
  <2>1. \A k \in 1..n : f[k - 1] \in Nat
    OBVIOUS
  <2> QED BY <1>5, <2>1 DEF ReadsBelow
<1>7. Rec(f)
  BY <1>2, <1>6
<1>8. Rec(sum)
  <2> HIDE DEF Rec
  <2> QED BY <1>7
<1> HIDE DEF sum
<1>9. sum[0] = 0 /\ \A k \in 1..n : sum[k] = sum[k - 1] + term(k)
  BY <1>2, <1>8
<1> DEFINE P == {k \in 0..n : sum[k] = f[k]}
<1>10. 0 \in P
  BY <1>6, <1>9
<1>11. ASSUME NEW k \in 0..(n - 1), k \in P PROVE k + 1 \in P
  <2>1. k + 1 \in 1..n /\ (k + 1) - 1 = k
    OBVIOUS
  <2> QED BY <1>6, <1>9, <1>11, <2>1
<1> HIDE DEF P
<1>12. \A k \in 0..n : k \in P
  BY <1>10, <1>11, Climb
<1>13. FromDigits(d, w) = f[n]
  BY <1>3, <1>12 DEF P
<1> QED BY <1>6, <1>13 DEF term

(* The digits of a number make it up.                                      *)
LEMMA ValueOfDigits ==
  ASSUME NEW v \in Nat, NEW n \in Nat, NEW w \in Nat, v < Pow2(w * n),
         NEW d, d = [k \in 1..n |-> Digit(v, w, k - 1)]
  PROVE  FromDigits(d, w) = v
<1>1. d \in [1..n -> Nat]
  <2>1. \A j \in Nat : Digit(v, w, j) \in Nat
    <3>1. Pow2(w) \in Nat
      BY Pow2Type
    <3>2. \A x \in 0..(Pow2(w) - 1) : x \in Nat
      BY <3>1
    <3> QED BY <3>2, DigitType
  <2>2. \A k \in 1..n : k - 1 \in Nat
    OBVIOUS
  <2>3. \A k \in 1..n : Digit(v, w, k - 1) \in Nat
    BY <2>1, <2>2
  <2> QED BY <2>3
<1>2. PICK f \in [0..n -> Nat] :
        /\ FromDigits(d, w) = f[n] /\ f[0] = 0
        /\ \A k \in 1..n : f[k] = f[k - 1] + d[k] * Pow2(w * (k - 1))
  BY <1>1, DigitsSum
<1> DEFINE P == {k \in 0..n : f[k] = v % Pow2(w * k)}
<1>3. 0 \in P
  <2>0. w * 0 = 0 /\ v % 1 = 0
    OBVIOUS
  <2>1. Pow2(w * 0) = 1
    BY <2>0, Pow2Type
  <2> QED BY <1>2, <2>0, <2>1
<1>4. ASSUME NEW k \in 0..(n - 1), k \in P PROVE k + 1 \in P
  <2> DEFINE a == Pow2(w * k)
             b == Pow2(w)
  <2>1. k \in Nat /\ k + 1 \in 1..n /\ (k + 1) - 1 = k /\ w * k \in Nat /\ w * (k + 1) = w * k + w
    OBVIOUS
  <2>2. a \in Nat \ {0} /\ b \in Nat \ {0}
    BY <2>1, Pow2Type
  <2>3. Pow2(w * (k + 1)) = a * b
    BY <2>1, Pow2Sum
  <2>4. f[k + 1] = f[k] + d[k + 1] * a
    BY <1>2, <2>1
  <2>5. d[k + 1] = (v \div a) % b
    BY <2>1 DEF Digit
  <2>6. f[k] = v % a
    BY <1>4
  <2> HIDE DEF a, b
  <2>7. v % (a * b) = (v % a) + ((v \div a) % b) * a
    BY <2>2, ModProduct
  <2> QED BY <2>1, <2>3, <2>4, <2>5, <2>6, <2>7
<1> HIDE DEF P
<1>5. \A k \in 0..n : k \in P
  BY <1>3, <1>4, Climb
<1>6. f[n] = v % Pow2(w * n)
  BY <1>5 DEF P
<1>7. w * n \in Nat
  OBVIOUS
<1>8. Pow2(w * n) \in Nat \ {0}
  BY <1>7, Pow2Type
<1>9. v % Pow2(w * n) = v
  <2>1. \A m \in Nat \ {0} : \A x \in 0..(m - 1) : x % m = x
    OBVIOUS
  <2> DEFINE m == Pow2(w * n)
  <2>2. m \in Nat \ {0} /\ v \in 0..(m - 1)
    BY <1>8
  <2> HIDE DEF m
  <2>3. v % m = v
    BY <2>1, <2>2
  <2> QED BY <2>3 DEF m
<1> QED BY <1>2, <1>6, <1>9

(* The number that digits make up has these digits.                        *)
HasDigits(v, n, w, d) ==
  v \in 0..(Pow2(w * n) - 1) /\ \A k \in 1..n : Digit(v, w, k - 1) = d[k]

LEMMA DigitsOfValue ==
  ASSUME NEW n \in Nat, NEW w \in Nat, NEW d \in [1..n -> 0..(Pow2(w) - 1)]
  PROVE  HasDigits(FromDigits(d, w), n, w, d)
<1> DEFINE A(k) == Pow2(w * k)
           b == Pow2(w)
<1>1. b \in Nat \ {0} /\ \A k \in Nat : A(k) \in Nat \ {0} /\ A(k + 1) = A(k) * b
  <2>1. b \in Nat \ {0}
    BY Pow2Type
  <2>2. ASSUME NEW k \in Nat PROVE A(k) \in Nat \ {0} /\ A(k + 1) = A(k) * b
    <3>1. w * k \in Nat /\ w * (k + 1) = w * k + w
      OBVIOUS
    <3> QED BY <3>1, Pow2Type, Pow2Sum
  <2> QED BY <2>1, <2>2
<1>2. d \in [1..n -> Nat] /\ \A k \in 1..n : d[k] \in 0..(b - 1)
  BY <1>1
<1>3. PICK f \in [0..n -> Nat] :
        /\ FromDigits(d, w) = f[n] /\ f[0] = 0
        /\ \A k \in 1..n : f[k] = f[k - 1] + d[k] * A(k - 1)
  BY <1>2, DigitsSum
<1>4. A(0) = 1
  BY Pow2Type
<1>5. FromDigits(d, w) < A(n) => FromDigits(d, w) \in 0..(Pow2(w * n) - 1)
  BY <1>1, <1>3
<1>6. \A k \in 1..n : Digit(FromDigits(d, w), w, k - 1) = (f[n] \div A(k - 1)) % b
  BY <1>3 DEF Digit
<1> HIDE DEF A, b
<1> DEFINE P == {k \in 0..n : f[k] < A(k)}
<1>7. 0 \in P
  BY <1>3, <1>4
<1>8. ASSUME NEW k \in 0..(n - 1), k \in P PROVE k + 1 \in P
  <2>1. k \in Nat /\ k + 1 \in 1..n /\ (k + 1) - 1 = k
    OBVIOUS
  <2> DEFINE x == f[k]
             a == A(k)
             c == d[k + 1]
  <2>2. x \in Nat /\ a \in Nat \ {0} /\ c \in 0..(b - 1) /\ x < a /\ A(k + 1) = a * b
    BY <1>1, <1>2, <1>8, <2>1
  <2>3. f[k + 1] = x + c * a
    BY <1>3, <2>1
  <2> HIDE DEF x, a, c
  <2>4. x + c * a < a * b
    <3>1. c * a <= (b - 1) * a
      BY <1>1, <2>2
    <3>2. (b - 1) * a = a * b - a
      BY <1>1, <2>2
    <3> DEFINE ca == c * a
               ab == a * b
    <3>3. ca \in Nat /\ ab \in Nat /\ ca <= ab - a
      BY <1>1, <2>2, <3>1, <3>2
    <3> HIDE DEF ca, ab
    <3>4. x + ca < ab
      BY <2>2, <3>3
    <3> QED BY <3>4 DEF ca, ab
  <2> QED BY <2>1, <2>2, <2>3, <2>4
<1> HIDE DEF P
<1>9. \A k \in 0..n : f[k] < A(k)
  BY <1>7, <1>8, Climb DEF P
<1>10. ASSUME NEW k \in 1..n PROVE (f[n] \div A(k - 1)) % b = d[k]
  <2> DEFINE j == k - 1
             a == A(j)
             Q == {u \in 0..(n - k) : (f[k + u] \div a) % b = d[k]}
  <2>0. j \in Nat /\ j \in 0..n /\ k \in Nat /\ n - k \in Nat
    OBVIOUS
  <2>1. j \in Nat /\ j \in 0..n /\ a \in Nat \ {0} /\ k \in Nat /\ n - k \in Nat
    <3> HIDE DEF j
    <3> QED BY <1>1, <2>0
  <2>2. 0 \in Q
    <3>1. f[k] = d[k] * a + f[j]
      <4>1. f[j] \in Nat /\ d[k] \in Nat
        BY <1>2, <2>1
      <4>2. f[k] = f[j] + d[k] * a
        BY <1>3
      <4>3. d[k] * a \in Nat
        BY <2>1, <4>1
      <4> QED BY <4>1, <4>2, <4>3
    <3>2. f[j] \in 0..(a - 1) /\ d[k] \in Nat
      BY <1>2, <1>9, <2>1
    <3>3. f[k] \div a = d[k]
      <4> HIDE DEF a, j
      <4> QED BY <2>1, <3>1, <3>2, DivUnique
    <3>4. d[k] % b = d[k]
      <4>1. \A m \in Nat \ {0} : \A x \in 0..(m - 1) : x % m = x
        OBVIOUS
      <4> QED BY <1>1, <1>2, <4>1
    <3>5. k + 0 = k
      OBVIOUS
    <3> QED BY <2>1, <3>3, <3>4, <3>5
  <2>3. ASSUME NEW u \in 0..((n - k) - 1), u \in Q PROVE u + 1 \in Q
    <3> DEFINE m == k + u
               x == f[m]
               c == d[m + 1] * A(u)
    <3>1. m \in 0..n /\ m + 1 \in 1..n /\ (m + 1) - 1 = m /\ u \in Nat /\ k + (u + 1) = m + 1
          /\ u + 1 \in 0..(n - k)
      <4>1. n \in Nat /\ k \in 1..n /\ u \in 0..((n - k) - 1)
        OBVIOUS
      <4> QED BY ONLY <4>1
    <3>2. x \in Nat /\ A(u) \in Nat /\ d[m + 1] \in Nat
      <4> HIDE DEF m
      <4> QED BY <1>1, <1>2, <3>1
    <3>0. c \in Nat
      <4> HIDE DEF m
      <4> QED BY <3>2
    <3>3. A(m) = A(u) * (a * b)
      <4>1. A(j + 1 + u) = A(j + 1) * A(u)
        <5>1. w * (j + 1) \in Nat /\ w * u \in Nat
              /\ w * (j + 1 + u) = w * (j + 1) + w * u
          <6>1. w \in Nat /\ j \in Nat /\ u \in Nat
            BY <2>1, <3>1
          <6> HIDE DEF j
          <6> QED BY ONLY <6>1
        <5> QED BY <5>1, Pow2Sum DEF A
      <4>2. m = j + 1 + u
        BY <2>1, <3>1
      <4>3. A(j + 1) = a * b /\ A(u) \in Nat /\ a * b \in Nat
        <5> HIDE DEF j
        <5>1. A(j + 1) = a * b /\ A(u) \in Nat
          BY <1>1, <2>1, <3>2
        <5>2. a * b \in Nat
          <6> HIDE DEF a
          <6> QED BY <1>1, <2>1
        <5> QED BY <5>1, <5>2
      <4>4. A(j + 1) * A(u) = A(u) * (a * b)
        BY <4>3
      <4> QED BY <4>1, <4>2, <4>4
    <3>4. f[m + 1] = x + c * (a * b)
      <4>1. f[m + 1] = f[m] + d[m + 1] * A(m)
        BY <1>3, <3>1
      <4>2. d[m + 1] \in Nat /\ A(u) \in Nat /\ a * b \in Nat
        <5>1. a * b \in Nat
          <6> HIDE DEF a
          <6> QED BY <1>1, <2>1
        <5> QED BY <3>2, <5>1
      <4>3. d[m + 1] * (A(u) * (a * b)) = (d[m + 1] * A(u)) * (a * b)
        <5>1. \A p, q, r \in Nat : p * (q * r) = (p * q) * r
          OBVIOUS
        <5> QED BY ONLY <4>2, <5>1, Zenon
      <4> QED BY <3>3, <4>1, <4>3
    <3>5. (x \div a) % b = d[k]
      BY <2>3
    <3>9. x \in Nat /\ c \in Nat /\ a \in Nat \ {0} /\ b \in Nat \ {0}
      BY <1>1, <2>1, <3>0, <3>2
    <3> HIDE DEF x, c, a, m
    <3>8. Unchanged(x, c, a, b)
      BY <3>9, DigitBelow
    <3>6. ((x + c * (a * b)) \div a) % b = (x \div a) % b
      BY <3>8 DEF Unchanged
    <3>7. (f[m + 1] \div a) % b = d[k]
      BY <3>4, <3>5, <3>6
    <3> QED BY <3>1, <3>7
  <2> HIDE DEF Q
  <2>4. \A u \in 0..(n - k) : u \in Q
    BY <2>1, <2>2, <2>3, Climb
  <2>5. n - k \in Q
    BY <2>1, <2>4
  <2>6. k + (n - k) = n
    OBVIOUS
  <2> QED BY <2>5, <2>6 DEF Q
<1>11. FromDigits(d, w) < A(n)
  BY <1>3, <1>9
<1> QED BY <1>5, <1>6, <1>10, <1>11 DEF HasDigits
-----------------------------------------------------------------------------
(* Bit packing.                                                            *)

LEMMA BitType ==
  ASSUME NEW m \in Nat, NEW s \in [1..m -> Nat], NEW w \in Nat \ {0}, NEW p \in Nat, p < m * w
  PROVE  /\ (p \div w) + 1 \in 1..m /\ p % w \in 0..(w - 1)
         /\ Bit(s, w, p) \in 0..1
<1> DEFINE q == p \div w
           r == p % w
<1>1. q \in Nat /\ r \in 0..(w - 1) /\ p = q * w + r
  BY Divided
<1>2. q + 1 \in 1..m
  <2> HIDE DEF q, r
  <2>1. \A x \in Nat : x >= m => x * w >= m * w
    OBVIOUS
  <2> DEFINE qw == q * w
             mw == m * w
  <2>2. qw \in Nat /\ mw \in Nat /\ p = qw + r /\ p < mw
    BY <1>1
  <2> HIDE DEF qw, mw
  <2>3. qw < mw
    BY <1>1, <2>2
  <2>4. q < m
    BY <1>1, <2>1, <2>2, <2>3 DEF qw, mw
  <2> QED BY <1>1, <2>4
<1>3. Pow2(1) = 2
  <2>1. 0 + 1 = 1
    OBVIOUS
  <2> QED BY <2>1, Pow2Type
<1> HIDE DEF q, r
<1>4. s[q + 1] \in Nat /\ r \in Nat
  BY <1>1, <1>2
<1>5. Digit(s[q + 1], 1, r) \in 0..(Pow2(1) - 1)
  BY <1>4, DigitType
<1>6. Digit(s[q + 1], 1, r) \in 0..1
  BY <1>3, <1>5
<1> QED BY <1>1, <1>2, <1>6 DEF Bit, q, r

(* Regrouped numbers hold the same bits.                                   *)
SameBits(t, s, from, to, n) ==
  /\ t \in [1..n -> 0..(Pow2(to) - 1)]
  /\ \A p \in 0..(n * to - 1) : Bit(t, to, p) = Bit(s, from, p)

LEMMA RegroupBits ==
  ASSUME NEW m \in Nat, NEW s \in [1..m -> Nat], NEW from \in Nat \ {0}, NEW to \in Nat \ {0},
         NEW n \in Nat, n * to <= m * from
  PROVE  SameBits(Regroup(s, from, to, n), s, from, to, n)
<1> DEFINE t == Regroup(s, from, to, n)
           bits(j) == [b \in 1..to |-> Bit(s, from, (j - 1) * to + b - 1)]
<1>1. ASSUME NEW j \in 1..n, NEW b \in 1..to
      PROVE  (j - 1) * to + b - 1 \in 0..(n * to - 1) /\ (j - 1) * to + b - 1 \in Nat
  <2>1. (j - 1) * to = j * to - to /\ j * to <= n * to
    OBVIOUS
  <2> DEFINE jt == j * to
             nt == n * to
             it == (j - 1) * to
  <2>2. jt \in Nat /\ nt \in Nat /\ it \in Nat /\ it = jt - to /\ jt <= nt
    BY <2>1
  <2> HIDE DEF jt, nt, it
  <2>3. it + b - 1 \in 0..(nt - 1) /\ it + b - 1 \in Nat
    BY <2>2
  <2> QED BY <2>3 DEF nt, it
<1>2. \A p \in 0..(n * to - 1) : Bit(s, from, p) \in 0..1
  <2> SUFFICES ASSUME NEW p \in 0..(n * to - 1) PROVE Bit(s, from, p) \in 0..1
    OBVIOUS
  <2> DEFINE nt == n * to
             mf == m * from
  <2>1. nt \in Nat /\ mf \in Nat /\ nt <= mf /\ p \in 0..(nt - 1)
    OBVIOUS
  <2> HIDE DEF nt, mf
  <2>2. p \in Nat /\ p < mf
    BY <2>1
  <2>3. p < m * from
    BY <2>2 DEF mf
  <2> QED BY <2>2, <2>3, BitType
<1>3. Pow2(1) = 2
  <2>1. 0 + 1 = 1
    OBVIOUS
  <2> QED BY <2>1, Pow2Type
<1>4. ASSUME NEW j \in 1..n
      PROVE  /\ bits(j) \in [1..to -> 0..(Pow2(1) - 1)]
             /\ FromDigits(bits(j), 1) \in 0..(Pow2(to) - 1)
             /\ \A b \in 1..to : Digit(FromDigits(bits(j), 1), 1, b - 1) = bits(j)[b]
  <2>1. bits(j) \in [1..to -> 0..1]
    BY <1>1, <1>2
  <2> HIDE DEF bits
  <2>2. bits(j) \in [1..to -> 0..(Pow2(1) - 1)] /\ 1 * to = to /\ to \in Nat
    BY <1>3, <2>1
  <2>3. /\ FromDigits(bits(j), 1) \in 0..(Pow2(1 * to) - 1)
        /\ \A b \in 1..to : Digit(FromDigits(bits(j), 1), 1, b - 1) = bits(j)[b]
    <3>1. 1 \in Nat
      OBVIOUS
    <3>2. HasDigits(FromDigits(bits(j), 1), to, 1, bits(j))
      BY <2>2, <3>1, DigitsOfValue
    <3> QED BY <3>2 DEF HasDigits
  <2> QED BY <2>2, <2>3
<1>5. t = [j \in 1..n |-> FromDigits(bits(j), 1)]
  BY DEF Regroup
<1> HIDE DEF t
<1>6. t \in [1..n -> 0..(Pow2(to) - 1)]
  <2> HIDE DEF bits
  <2> QED BY <1>4, <1>5
<1>7. ASSUME NEW p \in 0..(n * to - 1) PROVE Bit(t, to, p) = Bit(s, from, p)
  <2> DEFINE q == p \div to
             r == p % to
  <2>1. p \in Nat /\ p < n * to
    OBVIOUS
  <2>2. q \in Nat /\ r \in 0..(to - 1) /\ p = q * to + r
    BY <2>1, Divided
  <2>3. q + 1 \in 1..n
    <3>1. [k \in 1..n |-> 0] \in [1..n -> Nat]
      OBVIOUS
    <3> QED BY <2>1, <3>1, BitType
  <2>4. Bit(t, to, p) = Digit(t[q + 1], 1, r)
    BY DEF Bit
  <2> HIDE DEF q, r
  <2>5. t[q + 1] = FromDigits(bits(q + 1), 1)
    <3> HIDE DEF bits
    <3> QED BY <1>5, <2>3
  <2>6. r + 1 \in 1..to /\ (r + 1) - 1 = r
    BY <2>2
  <2>7. Digit(FromDigits(bits(q + 1), 1), 1, r) = bits(q + 1)[r + 1]
    <3> HIDE DEF bits
    <3>1. Digit(FromDigits(bits(q + 1), 1), 1, (r + 1) - 1) = bits(q + 1)[r + 1]
      BY <1>4, <2>3, <2>6
    <3> QED BY <2>6, <3>1
  <2>8. bits(q + 1)[r + 1] = Bit(s, from, ((q + 1) - 1) * to + (r + 1) - 1)
    BY <2>6
  <2>9. ((q + 1) - 1) * to + (r + 1) - 1 = p
    <3>1. (q + 1) - 1 = q /\ q * to \in Nat
      BY <2>2
    <3> DEFINE qt == q * to
    <3>2. p = qt + r /\ qt \in Nat
      BY <2>2, <3>1
    <3> HIDE DEF qt
    <3>3. qt + (r + 1) - 1 = p
      BY <2>2, <3>2
    <3> QED BY <3>1, <3>3 DEF qt
  <2> QED BY <2>4, <2>5, <2>7, <2>8, <2>9
<1> QED BY <1>6, <1>7 DEF t, SameBits

(* Packed into bytes and unpacked, numbers of w bits are what they were.   *)
LEMMA RegroupBack ==
  ASSUME NEW m \in Nat, NEW w \in Nat \ {0}, NEW s \in [1..m -> 0..(Pow2(w) - 1)],
         NEW q \in Nat, q * Octet = m * w, NEW n \in 0..m
  PROVE  Regroup(Regroup(s, w, Octet, q), Octet, w, n) = [k \in 1..n |-> s[k]]
<1> DEFINE c == Regroup(s, w, Octet, q)
           bits(k) == [b \in 1..w |-> Bit(c, Octet, (k - 1) * w + b - 1)]
<1>0. Octet \in Nat \ {0}
  BY OctetAssumption
<1>1. s \in [1..m -> Nat]
  <2>1. Pow2(w) \in Nat
    BY Pow2Type
  <2> QED BY <2>1
<1>2. /\ c \in [1..q -> 0..(Pow2(Octet) - 1)]
      /\ \A p \in 0..(q * Octet - 1) : Bit(c, Octet, p) = Bit(s, w, p)
  <2>1. q * Octet <= m * w
    BY <1>0
  <2>2. SameBits(Regroup(s, w, Octet, q), s, w, Octet, q)
    BY <1>0, <1>1, <2>1, RegroupBits
  <2> QED BY <2>2 DEF SameBits
<1>3. Regroup(c, Octet, w, n) = [k \in 1..n |-> FromDigits(bits(k), 1)]
  BY DEF Regroup
<1> HIDE DEF c
<1>4. ASSUME NEW k \in 1..n PROVE FromDigits(bits(k), 1) = s[k]
  <2>1. ASSUME NEW b \in 1..w PROVE bits(k)[b] = Digit(s[k], 1, b - 1)
    <3> DEFINE p == (k - 1) * w + (b - 1)
    <3>1. k - 1 \in Nat /\ b - 1 \in 0..(w - 1) /\ k \in 1..m
      OBVIOUS
    <3>2. p \div w = k - 1 /\ p % w = b - 1
      BY <3>1, DivUnique
    <3>3. p \in 0..(q * Octet - 1) /\ (k - 1) * w + b - 1 = p
      <4>1. (k - 1) * w = k * w - w /\ k * w <= m * w
        BY <3>1
      <4> DEFINE kw == k * w
                 mw == m * w
                 iw == (k - 1) * w
      <4>2. kw \in Nat /\ mw \in Nat /\ iw \in Nat /\ iw = kw - w /\ kw <= mw
        BY <3>1, <4>1
      <4> HIDE DEF kw, mw, iw
      <4>3. iw + (b - 1) \in 0..(mw - 1) /\ iw + b - 1 = iw + (b - 1)
        BY <4>2
      <4> QED BY <4>3 DEF mw, iw
    <3>4. bits(k)[b] = Bit(c, Octet, p)
      BY <3>3
    <3>5. Bit(c, Octet, p) = Bit(s, w, p)
      BY <1>2, <3>3
    <3> HIDE DEF p, bits
    <3>6. (k - 1) + 1 = k
      OBVIOUS
    <3>7. Bit(s, w, p) = Digit(s[k], 1, b - 1)
      BY <3>2, <3>6 DEF Bit
    <3> QED BY <3>4, <3>5, <3>7
  <2>2. bits(k) = [b \in 1..w |-> Digit(s[k], 1, b - 1)]
    <3>1. bits(k) = [b \in 1..w |-> bits(k)[b]]
      OBVIOUS
    <3> HIDE DEF bits
    <3> QED BY <2>1, <3>1
  <2>3. s[k] \in 0..(Pow2(w) - 1) /\ s[k] \in Nat /\ 1 * w = w
    BY <1>1
  <2>4. Pow2(w) \in Nat
    BY Pow2Type
  <2>5. s[k] < Pow2(1 * w)
    BY <2>3, <2>4
  <2> HIDE DEF bits
  <2> QED BY <2>2, <2>3, <2>5, ValueOfDigits
<1> HIDE DEF bits
<1> QED BY <1>3, <1>4 DEF c
-----------------------------------------------------------------------------
(* Varints, little-endian values and the width of an index.                *)

(* The bytes of t lie in s from position at.                               *)
Holds(s, at, t) ==
  /\ at + Len(t) - 1 <= Len(s)
  /\ \A k \in 1..Len(t) : s[at + k - 1] = t[k]

UvarintOf(v, len) ==
  /\ len \in Nat \ {0}
  /\ Uvarint(v) = [k \in 1..len |-> Digit(v, PayloadBits, k - 1) + (IF k < len THEN Payload ELSE 0)]
  /\ v < Pow2(PayloadBits * len) /\ (len = 1 \/ v >= Pow2(PayloadBits * (len - 1)))

LEMMA PayloadType == PayloadBits \in Nat \ {0} /\ Payload \in Nat \ {0}
<1>1. PayloadBits \in Nat \ {0}
  BY OctetAssumption DEF PayloadBits
<1> QED BY <1>1, Pow2Type DEF Payload

LEMMA UvarintIs ==
  ASSUME NEW v \in Nat
  PROVE  \E len \in Nat : UvarintOf(v, len)
<1> DEFINE Fits(n) == v < Pow2(PayloadBits * n)
                      /\ (n = 1 \/ v >= Pow2(PayloadBits * (n - 1)))
           len == CHOOSE n \in 1..(v + 1) : Fits(n)
<1>1. \E n \in 1..(v + 1) : Fits(n)
  BY PayloadType, FirstPower
<1>2. Uvarint(v) = [k \in 1..len |-> Digit(v, PayloadBits, k - 1)
                                      + (IF k < len THEN Payload ELSE 0)]
  BY DEF Uvarint
<1>3. len \in 1..(v + 1) /\ Fits(len)
  <2> HIDE DEF Fits
  <2> QED BY <1>1
<1> HIDE DEF len
<1>4. UvarintOf(v, len)
  BY <1>2, <1>3 DEF UvarintOf
<1> QED BY <1>3, <1>4

LEMMA UvarintType ==
  ASSUME NEW v \in Nat
  PROVE  Uvarint(v) \in Seq(Nat) /\ Len(Uvarint(v)) \in Nat \ {0}
<1>1. PICK len \in Nat : UvarintOf(v, len)
  BY UvarintIs
<1>2. \A j \in Nat : Digit(v, PayloadBits, j) \in Nat
  <2>1. Pow2(PayloadBits) \in Nat
    BY PayloadType, Pow2Type
  <2>2. \A x \in 0..(Pow2(PayloadBits) - 1) : x \in Nat
    BY <2>1
  <2> QED BY <2>2, PayloadType, DigitType
<1>3. \A k \in 1..len : Digit(v, PayloadBits, k - 1) + (IF k < len THEN Payload ELSE 0) \in Nat
  <2> SUFFICES ASSUME NEW k \in 1..len
               PROVE  Digit(v, PayloadBits, k - 1) + (IF k < len THEN Payload ELSE 0) \in Nat
    OBVIOUS
  <2>1. k - 1 \in Nat
    OBVIOUS
  <2>2. Digit(v, PayloadBits, k - 1) \in Nat
    BY <1>2, <2>1
  <2> QED BY <2>2, PayloadType
<1>4. Uvarint(v) \in [1..len -> Nat]
  BY <1>1, <1>3 DEF UvarintOf
<1> QED BY <1>1, <1>4 DEF UvarintOf

(* Where a varint lies, read_uvarint finds its value and its end.          *)
LEMMA UvarintReads ==
  ASSUME NEW v \in Nat, v < Pow2(PayloadBits * VarintBytes),
         NEW s \in Seq(Nat), NEW at \in Nat \ {0}, Holds(s, at, Uvarint(v))
  PROVE  UvarintLen(s, at) = Len(Uvarint(v)) /\ UvarintAt(s, at) = v
<1>1. PICK len \in Nat : UvarintOf(v, len)
  BY UvarintIs
<1>2. Len(Uvarint(v)) = len /\ len # 0
  BY <1>1 DEF UvarintOf
<1>3. \A k \in 1..len : /\ k - 1 \in Nat
                        /\ Digit(v, PayloadBits, k - 1) \in 0..(Payload - 1)
  <2> SUFFICES ASSUME NEW k \in 1..len
               PROVE  k - 1 \in Nat /\ Digit(v, PayloadBits, k - 1) \in 0..(Payload - 1)
    OBVIOUS
  <2>1. k - 1 \in Nat
    OBVIOUS
  <2> QED BY <2>1, PayloadType, DigitType DEF Payload
<1>4. \A k \in 1..len : /\ at + k - 1 <= Len(s)
                        /\ s[at + k - 1] = Digit(v, PayloadBits, k - 1)
                                           + (IF k < len THEN Payload ELSE 0)
  <2> SUFFICES ASSUME NEW k \in 1..len
               PROVE  /\ at + k - 1 <= Len(s)
                      /\ s[at + k - 1] = Digit(v, PayloadBits, k - 1)
                                         + (IF k < len THEN Payload ELSE 0)
    OBVIOUS
  <2>1. at + k - 1 <= Len(s)
    BY <1>2 DEF Holds
  <2>2. s[at + k - 1] = Uvarint(v)[k]
    BY <1>2 DEF Holds
  <2>3. Uvarint(v)[k] = Digit(v, PayloadBits, k - 1) + (IF k < len THEN Payload ELSE 0)
    BY <1>1 DEF UvarintOf
  <2> QED BY <2>1, <2>2, <2>3
<1>5. len <= VarintBytes
  <2> SUFFICES ASSUME len > VarintBytes PROVE FALSE
    BY VarintBytesAssumption
  <2>1. len - 1 \in Nat /\ VarintBytes \in Nat /\ VarintBytes <= len - 1 /\ len # 1
    BY VarintBytesAssumption
  <2>2. v >= Pow2(PayloadBits * (len - 1))
    BY <1>1, <2>1 DEF UvarintOf
  <2>3. PayloadBits * VarintBytes \in Nat /\ PayloadBits * (len - 1) \in Nat
        /\ PayloadBits * VarintBytes <= PayloadBits * (len - 1)
    BY <2>1, PayloadType
  <2>4. Pow2(PayloadBits * VarintBytes) <= Pow2(PayloadBits * (len - 1))
        /\ Pow2(PayloadBits * VarintBytes) \in Nat /\ Pow2(PayloadBits * (len - 1)) \in Nat
    BY <2>3, Pow2Grows, Pow2Type
  <2> QED BY <2>2, <2>4
<1> DEFINE ends == {k \in 1..VarintBytes : at + k - 1 <= Len(s) /\ s[at + k - 1] < Payload}
<1>6. len \in ends
  <2>1. len \in 1..VarintBytes /\ len \in 1..len
    BY <1>2, <1>5
  <2>2. at + len - 1 <= Len(s) /\ s[at + len - 1] = Digit(v, PayloadBits, len - 1) + 0
    BY <1>4, <2>1
  <2>3. Digit(v, PayloadBits, len - 1) \in 0..(Payload - 1)
    BY <1>3, <2>1
  <2>4. s[at + len - 1] < Payload
    BY <2>2, <2>3, PayloadType
  <2> QED BY <2>1, <2>2, <2>4
<1>7. \A k \in ends : len <= k
  <2> SUFFICES ASSUME NEW k \in ends, k < len PROVE FALSE
    BY VarintBytesAssumption
  <2>1. k \in 1..len /\ s[at + k - 1] < Payload
    BY VarintBytesAssumption
  <2>2. s[at + k - 1] = Digit(v, PayloadBits, k - 1) + Payload
    BY <1>4, <2>1
  <2>3. Digit(v, PayloadBits, k - 1) \in 0..(Payload - 1)
    BY <1>3, <2>1
  <2> QED BY <2>1, <2>2, <2>3, PayloadType
<1>8. Min(ends) = len
  <2>1. Min(ends) \in ends /\ \A y \in ends : Min(ends) <= y
    <3> HIDE DEF ends
    <3>1. \E x \in ends : \A y \in ends : x <= y
      BY <1>6, <1>7
    <3> QED BY <3>1 DEF Min
  <2>2. \A x \in ends : x \in Nat
    BY VarintBytesAssumption
  <2> HIDE DEF ends
  <2> DEFINE m == Min(ends)
  <2>3. m <= len /\ len <= m /\ m \in Nat /\ len \in Nat
    BY <1>6, <1>7, <2>1, <2>2
  <2> HIDE DEF m
  <2>4. m = len
    BY <2>3
  <2> QED BY <2>4 DEF m
<1>9. UvarintLen(s, at) = len
  <2>1. ends # {}
    BY <1>6
  <2>2. UvarintLen(s, at) = IF ends = {} THEN 0 ELSE Min(ends)
    BY DEF UvarintLen
  <2> HIDE DEF ends
  <2> QED BY <1>8, <2>1, <2>2
<1>10. \A k \in 1..len : s[at + k - 1] % Payload = Digit(v, PayloadBits, k - 1)
  <2> SUFFICES ASSUME NEW k \in 1..len
               PROVE  s[at + k - 1] % Payload = Digit(v, PayloadBits, k - 1)
    OBVIOUS
  <2> DEFINE d == Digit(v, PayloadBits, k - 1)
             x == s[at + k - 1]
  <2>1. d \in 0..(Payload - 1) /\ (x = d + Payload \/ x = d + 0)
    BY <1>3, <1>4
  <2> HIDE DEF d, x
  <2>2. d \in Nat
    BY <2>1, PayloadType
  <2>3. x = 1 * Payload + d \/ x = 0 * Payload + d
    BY <2>1, <2>2, PayloadType
  <2>4. (1 * Payload + d) % Payload = d /\ (0 * Payload + d) % Payload = d
    <3>1. 0 \in Nat /\ 1 \in Nat
      OBVIOUS
    <3> QED BY ONLY <2>1, <3>1, PayloadType, DivUnique
  <2>5. x % Payload = d
    BY <2>3, <2>4
  <2> QED BY <2>5 DEF d, x
<1>11. UvarintAt(s, at) = FromDigits([k \in 1..len |-> s[at + k - 1] % Payload], PayloadBits)
  BY <1>9 DEF UvarintAt
<1>12. [k \in 1..len |-> s[at + k - 1] % Payload] = [k \in 1..len |-> Digit(v, PayloadBits, k - 1)]
  BY <1>10
<1>13. v < Pow2(PayloadBits * len)
  BY <1>1 DEF UvarintOf
<1>14. FromDigits([k \in 1..len |-> Digit(v, PayloadBits, k - 1)], PayloadBits) = v
  BY <1>13, PayloadType, ValueOfDigits
<1> QED BY <1>2, <1>9, <1>11, <1>12, <1>14

LEMMA LittleEndianType ==
  ASSUME NEW w \in Nat, NEW v \in Nat
  PROVE  /\ BytesFor(w) \in Nat /\ w <= Octet * BytesFor(w)
         /\ LittleEndian(v, w) \in Seq(Nat) /\ Len(LittleEndian(v, w)) = BytesFor(w)
<1> DEFINE n == BytesFor(w)
<1>0. Octet \in Nat \ {0}
  BY OctetAssumption
<1>1. n \in Nat /\ w <= Octet * n
  <2> DEFINE x == w + Octet - 1
  <2>1. x \in Nat
    BY <1>0
  <2>2. n = x \div Octet
    BY DEF BytesFor
  <2> HIDE DEF x, n
  <2>3. n \in Nat /\ x % Octet \in 0..(Octet - 1) /\ x = n * Octet + (x % Octet)
    BY <1>0, <2>1, <2>2, Divided
  <2>4. n * Octet = Octet * n /\ Octet * n \in Nat
    BY <1>0, <2>3
  <2> DEFINE r == x % Octet
             no == Octet * n
  <2>5. no \in Nat /\ r \in 0..(Octet - 1) /\ x = no + r
    BY <2>3, <2>4
  <2> HIDE DEF r, no
  <2>6. w <= no
    BY <1>0, <2>5 DEF x
  <2> QED BY <2>3, <2>6 DEF no
<1>2. \A j \in Nat : Digit(v, Octet, j) \in Nat
  <2>1. Pow2(Octet) \in Nat
    BY <1>0, Pow2Type
  <2>2. \A x \in 0..(Pow2(Octet) - 1) : x \in Nat
    BY <2>1
  <2> QED BY <1>0, <2>2, DigitType
<1>3. LittleEndian(v, w) = [k \in 1..n |-> Digit(v, Octet, k - 1)]
  BY DEF LittleEndian
<1> HIDE DEF n
<1>4. \A k \in 1..n : k - 1 \in Nat
  BY <1>1
<1>5. LittleEndian(v, w) \in [1..n -> Nat]
  BY <1>2, <1>3, <1>4
<1>6. LittleEndian(v, w) \in Seq(Nat) /\ Len(LittleEndian(v, w)) = n
  BY <1>1, <1>5
<1> QED BY <1>1, <1>6 DEF n

LEMMA LittleEndianBack ==
  ASSUME NEW w \in Nat, NEW v \in Nat, v < Pow2(w)
  PROVE  LittleEndianAt(LittleEndian(v, w)) = v
<1> DEFINE n == BytesFor(w)
<1>0. Octet \in Nat \ {0}
  BY OctetAssumption
<1>1. n \in Nat /\ w <= Octet * n
  BY LittleEndianType
<1>2. LittleEndianAt(LittleEndian(v, w)) = FromDigits([k \in 1..n |-> Digit(v, Octet, k - 1)], Octet)
  BY DEF LittleEndianAt, LittleEndian
<1> HIDE DEF n
<1>3. Octet * n \in Nat
  BY <1>0, <1>1
<1>4. Pow2(w) <= Pow2(Octet * n) /\ Pow2(w) \in Nat /\ Pow2(Octet * n) \in Nat
  BY <1>1, <1>3, Pow2Grows, Pow2Type
<1>5. v < Pow2(Octet * n)
  BY <1>4
<1>6. FromDigits([k \in 1..n |-> Digit(v, Octet, k - 1)], Octet) = v
  BY <1>0, <1>1, <1>5, ValueOfDigits
<1> QED BY <1>2, <1>6

(* min_bit_width_for_dict: every index fits, and no narrower width does.   *)
LEMMA WidthCovers ==
  ASSUME NEW n \in Nat
  PROVE  /\ MinBitWidth(n) \in Nat
         /\ MinBitWidth(n) = 0 <=> n <= 1
         /\ \A v \in Nat : v < n => v < Pow2(MinBitWidth(n))
         /\ \A w \in Nat : MinBitWidth(n) > w <=> n > Pow2(w)
<1>1. CASE n <= 1
  <2>1. MinBitWidth(n) = 0
    BY <1>1 DEF MinBitWidth
  <2>2. \A w \in Nat : Pow2(w) \in Nat \ {0}
    BY Pow2Type
  <2>3. \A w \in Nat : ~(0 > w) /\ ~(n > Pow2(w))
    BY <1>1, <2>2
  <2>4. Pow2(0) = 1
    BY Pow2Type
  <2> QED BY <1>1, <2>1, <2>3, <2>4
<1>2. CASE n > 1
  <2> DEFINE Bits(w) == Pow2(w - 1) <= n - 1 /\ n - 1 < Pow2(w)
             c == CHOOSE w \in 1..n : Bits(w)
  <2>1. n - 1 \in Nat /\ n - 1 >= 1 /\ 1 \in Nat \ {0}
    BY <1>2
  <2>2. PICK w \in 1..((n - 1) + 1) :
          n - 1 < Pow2(1 * w) /\ (w = 1 \/ n - 1 >= Pow2(1 * (w - 1)))
    BY <2>1, FirstPower
  <2>3. w \in 1..n /\ 1 * w = w /\ 1 * (w - 1) = w - 1 /\ w - 1 \in Nat
    BY <2>2
  <2>4. w = 1 => Pow2(w - 1) <= n - 1
    <3>1. w = 1 => w - 1 = 0
      OBVIOUS
    <3> QED BY <2>1, <3>1, Pow2Type
  <2>5. Bits(w)
    <3>1. Pow2(w - 1) \in Nat
      BY <2>3, Pow2Type
    <3> QED BY <2>1, <2>2, <2>3, <2>4, <3>1
  <2>6. c \in 1..n /\ Bits(c)
    <3> HIDE DEF Bits
    <3> QED BY <2>3, <2>5
  <2>7. MinBitWidth(n) = c
    BY <1>2 DEF MinBitWidth
  <2> HIDE DEF c
  <2>8. c - 1 \in Nat /\ c \in Nat /\ Pow2(c) \in Nat /\ Pow2(c - 1) \in Nat
    BY <2>6, Pow2Type
  <2>9. \A v \in Nat : v < n => v < Pow2(c)
    BY <2>6, <2>8
  <2>10. ASSUME NEW x \in Nat PROVE c > x <=> n > Pow2(x)
    <3>1. x <= c - 1 => Pow2(x) <= Pow2(c - 1)
      BY <2>8, Pow2Grows
    <3>2. c <= x => Pow2(c) <= Pow2(x)
      BY <2>8, Pow2Grows
    <3>3. Pow2(x) \in Nat
      BY Pow2Type
    <3> QED BY <2>6, <2>8, <3>1, <3>2, <3>3
  <2> QED BY <1>2, <2>6, <2>7, <2>8, <2>9, <2>10
<1> QED BY <1>1, <1>2
-----------------------------------------------------------------------------
(* Whole groups.                                                           *)

LEMMA MultipleDiv ==
  ASSUME NEW q \in Nat, NEW d \in Nat \ {0}
  PROVE  (d * q) \div d = q
  OBVIOUS

LEMMA Multiple ==
  ASSUME NEW q \in Nat
  PROVE  ((q * Octet) \div Octet) * Octet = q * Octet
<1>1. (Octet * q) \div Octet = q
  BY OctetAssumption, MultipleDiv
<1>2. Octet * q = q * Octet
  BY OctetAssumption
<1>3. QED
  BY <1>1, <1>2

LEMMA GroupsCover ==
  ASSUME NEW n \in Nat
  PROVE  /\ Groups(n) \in Nat
         /\ Groups(n) * Octet \in n..(n + Octet - 1)
<1> DEFINE m == n + Octet - 1
<1>1. m \in Nat /\ Octet \in Nat \ {0}
  BY OctetAssumption
<1>2. /\ m \div Octet \in Nat /\ m % Octet \in 0..(Octet - 1)
      /\ m = Octet * (m \div Octet) + (m % Octet)
  BY <1>1, DivMod
<1>3. Octet * (m \div Octet) = Groups(n) * Octet
  BY <1>1, <1>2 DEF Groups
<1>4. QED
  BY <1>1, <1>2, <1>3 DEF Groups

LEMMA NextMultiple ==
  ASSUME NEW n \in Nat, NEW q \in Nat, NEW d \in Nat \ {0}, NEW r \in 1..(d - 1),
         n = d * q + r
  PROVE  n + (d - r) = (q + 1) * d
  OBVIOUS

LEMMA BorrowAligns ==
  ASSUME pending \in Seq(Nat)
  PROVE  /\ Borrow \in 0..(Octet - 1)
         /\ \E q \in Nat : Len(pending) + Borrow = q * Octet
<1>1. Len(pending) \in Nat /\ Octet \in Nat \ {0}
  BY OctetAssumption
<1>2. PICK q \in Nat, r \in 0..(Octet - 1) :
        r = Len(pending) % Octet /\ Len(pending) = Octet * q + r
  BY <1>1, DivMod
<1>3. CASE r = 0
  <2>1. Borrow = 0
    BY <1>2, <1>3 DEF Borrow
  <2>2. Len(pending) + Borrow = q * Octet
    BY <1>1, <1>2, <1>3, <2>1
  <2>3. QED
    BY <1>1, <2>1, <2>2
<1>4. CASE r # 0
  <2>1. Borrow = Octet - r
    BY <1>2, <1>4 DEF Borrow
  <2>2. Len(pending) + Borrow = (q + 1) * Octet
    <3>1. r \in 1..(Octet - 1)
      BY <1>1, <1>4
    <3>2. Len(pending) + (Octet - r) = (q + 1) * Octet
      BY <1>1, <1>2, <3>1, NextMultiple
    <3>3. QED
      BY <2>1, <3>2
  <2>3. q + 1 \in Nat /\ Borrow \in 0..(Octet - 1)
    BY <1>1, <1>4, <2>1
  <2>4. QED
    BY <2>2, <2>3
<1>5. QED
  BY <1>3, <1>4
-----------------------------------------------------------------------------
(* Types, and what build_dict_with establishes.                            *)

USE DEF buildVars, encodeVars, readVars

LEMMA RepeatType ==
  ASSUME NEW S, NEW v \in S, NEW n \in Nat
  PROVE  /\ Repeat(v, n) \in Seq(S) /\ Len(Repeat(v, n)) = n
         /\ \A k \in 1..n : Repeat(v, n)[k] = v
  BY DEF Repeat

LEMMA BitWidthType ==
  ASSUME TypeOK
  PROVE  BitWidth \in Nat
<1>1. Len(dict) \in Nat
  BY DEF TypeOK
<1>2. QED
  BY <1>1, WidthCovers DEF BitWidth

LEMMA PadToType ==
  ASSUME NEW vals \in Seq(Nat), NEW n \in Nat
  PROVE  PadTo(vals, n) \in Seq(Nat) /\ Len(PadTo(vals, n)) = n
<1>1. \A k \in 1..n : (IF k <= Len(vals) THEN vals[k] ELSE 0) \in Nat
  OBVIOUS
<1>2. QED
  BY <1>1 DEF PadTo

(* What goes into the page is a byte string.                               *)
LEMMA RunTypes ==
  ASSUME NEW width \in Nat
  PROVE  /\ \A vals \in Seq(Nat) : PackedRun(vals, width) \in Seq(Nat)
         /\ \A v, count \in Nat : RleRun(v, count, width) \in Seq(Nat)
<1>0. Octet \in Nat \ {0}
  BY OctetAssumption
<1>1. ASSUME NEW vals \in Seq(Nat) PROVE PackedRun(vals, width) \in Seq(Nat)
  <2> DEFINE m == Len(vals)
             g == m \div Octet
             q == PackedBytes(vals, width)
  <2>1. g \in Nat /\ g * Octet <= m
    <3>1. m \in Nat
      OBVIOUS
    <3> HIDE DEF m
    <3>2. /\ m \div Octet \in Nat /\ m % Octet \in 0..(Octet - 1)
          /\ m = (m \div Octet) * Octet + (m % Octet)
      BY <1>0, <3>1, Divided
    <3> HIDE DEF g
    <3>6. g \in Nat /\ m % Octet \in Nat /\ m = g * Octet + (m % Octet)
      BY <1>0, <3>2 DEF g
    <3> DEFINE go == g * Octet
               x == m % Octet
    <3>3. go \in Nat /\ x \in Nat /\ m = go + x
      BY <1>0, <3>6
    <3> HIDE DEF go, x
    <3>4. go <= m
      BY <3>1, <3>3
    <3>5. QED
      BY <3>6, <3>4 DEF go
  <2>2. q = g * width /\ q \in Nat
    BY <2>1 DEF PackedBytes
  <2>3. PackLsbFirst(vals, width) \in [1..q -> Nat]
    <3>1. CASE width = 0
      <4>1. q = 0 /\ 1..0 = {}
        BY <2>1, <2>2, <3>1
      <4>2. PackLsbFirst(vals, width) = [j \in 1..q |-> FromDigits(
               [b \in 1..Octet |-> Bit(vals, width, (j - 1) * Octet + b - 1)], 1)]
        BY DEF PackLsbFirst, Regroup
      <4> HIDE DEF q
      <4>3. QED
        BY <4>1, <4>2
    <3>2. CASE width # 0
      <4>1. q * Octet <= m * width
        <5>1. (g * width) * Octet = (g * Octet) * width /\ m \in Nat /\ g * Octet \in Nat
          BY <1>0, <2>1
        <5>2. (g * Octet) * width <= m * width
          <6> DEFINE go == g * Octet
          <6> HIDE DEF go
          <6>1. go \in Nat /\ m \in Nat /\ go <= m
            BY <2>1, <5>1 DEF go
          <6> HIDE DEF m
          <6>2. go * width <= m * width
            BY <6>1
          <6>3. QED
            BY <6>2 DEF go
        <5>3. QED
          BY <2>2, <5>1, <5>2
      <4>2. vals \in [1..m -> Nat] /\ m \in Nat /\ width \in Nat \ {0}
        BY <3>2
      <4>3. SameBits(Regroup(vals, width, Octet, q), vals, width, Octet, q)
        <5> HIDE DEF q, m
        <5>1. QED
          BY <1>0, <2>2, <4>1, <4>2, RegroupBits
      <4>4. PackLsbFirst(vals, width) = Regroup(vals, width, Octet, q)
        BY DEF PackLsbFirst
      <4>5. Pow2(Octet) \in Nat
        BY <1>0, Pow2Type
      <4>6. \A x \in 0..(Pow2(Octet) - 1) : x \in Nat
        BY <4>5
      <4> HIDE DEF q
      <4>7. QED
        BY <4>3, <4>4, <4>6 DEF SameBits
    <3>3. QED
      BY <3>1, <3>2
  <2>4. PackLsbFirst(vals, width) \in Seq(Nat)
    <3> HIDE DEF q
    <3>1. QED
      BY <2>2, <2>3
  <2>5. 2 * g + 1 \in Nat
    BY <2>1
  <2>6. Uvarint(2 * g + 1) \in Seq(Nat)
    BY <2>5, UvarintType
  <2>7. QED
    BY <2>4, <2>6 DEF PackedRun
<1>2. ASSUME NEW v \in Nat, NEW count \in Nat PROVE RleRun(v, count, width) \in Seq(Nat)
  <2>1. Uvarint(2 * count) \in Seq(Nat)
    <3>1. 2 * count \in Nat
      OBVIOUS
    <3>2. QED
      BY <3>1, UvarintType
  <2>2. LittleEndian(v, width) \in Seq(Nat)
    BY LittleEndianType
  <2>3. QED
    BY <2>1, <2>2 DEF RleRun
<1>3. QED
  BY <1>1, <1>2

LEMMA InitTypeOK == Init => TypeOK
  BY ColumnsAssumption DEF Init, TypeOK

LEMMA AppendBelow ==
  ASSUME NEW s \in Seq(Nat), NEW x \in Nat, NEW limit \in Nat, x < limit,
         \A k \in DOMAIN s : s[k] < limit
  PROVE  /\ Append(s, x) \in Seq(Nat) /\ Len(Append(s, x)) = Len(s) + 1
         /\ \A k \in DOMAIN Append(s, x) : Append(s, x)[k] < limit
<1> DEFINE t == Append(s, x)
<1>1. t \in Seq(Nat) /\ Len(t) = Len(s) + 1 /\ Len(s) \in Nat
  OBVIOUS
<1>2. t[Len(s) + 1] = x /\ \A k \in 1..Len(s) : t[k] = s[k]
  OBVIOUS
<1>3. \A k \in DOMAIN t : k \in 1..Len(s) \/ k = Len(s) + 1
  <2> HIDE DEF t
  <2>1. QED
    BY <1>1
<1> HIDE DEF t
<1>4. \A k \in DOMAIN t : t[k] < limit
  BY <1>2, <1>3
<1>5. QED
  BY <1>1, <1>4 DEF t

LEMMA BuildTypeOK == TypeOK /\ Build => TypeOK'
<1> SUFFICES ASSUME TypeOK, Build PROVE TypeOK'
  OBVIOUS
<1>1. /\ i \in Nat /\ i < Len(values) /\ i + 1 \in 1..Len(values) /\ values[i + 1] \in Keys
      /\ dict \in Seq(Keys) /\ Len(dict) \in Nat /\ indices \in Seq(Nat) /\ Len(indices) = i
      /\ \A k \in DOMAIN indices : indices[k] < Len(dict)
  BY DEF Build, TypeOK
<1>2. /\ i' = i + 1 /\ i' \in 0..Len(values) /\ phase' = "build"
      /\ UNCHANGED <<values, phase, pending, out, reader>>
  BY <1>1 DEF Build
<1>3. CASE BuildKnown
  <2>1. PICK e \in DOMAIN dict : indices' = Append(indices, e - 1) /\ dict' = dict
    BY <1>3 DEF BuildKnown
  <2>2. e - 1 \in Nat /\ e - 1 < Len(dict)
    BY <1>1, <2>1
  <2>3. /\ indices' \in Seq(Nat) /\ Len(indices') = i + 1
        /\ \A k \in DOMAIN indices' : indices'[k] < Len(dict')
    <3> DEFINE x == e - 1
    <3> HIDE DEF x
    <3>1. x \in Nat /\ x < Len(dict) /\ indices' = Append(indices, x) /\ dict' = dict
      BY <2>1, <2>2 DEF x
    <3>2. QED
      BY <1>1, <3>1, AppendBelow
  <2>4. QED
    BY <1>2, <2>1, <2>3 DEF TypeOK
<1>4. CASE BuildNew
  <2>1. dict' = Append(dict, values[i + 1]) /\ indices' = Append(indices, Len(dict))
    BY <1>4 DEF BuildNew
  <2>2. dict' \in Seq(Keys) /\ Len(dict') = Len(dict) + 1
    BY <1>1, <2>1
  <2>3. /\ indices' \in Seq(Nat) /\ Len(indices') = i + 1
        /\ \A k \in DOMAIN indices' : indices'[k] < Len(dict')
    <3> DEFINE x == Len(dict)
               limit == Len(dict')
    <3>1. x \in Nat /\ limit \in Nat /\ x < limit /\ indices' = Append(indices, x)
      BY <1>1, <2>1, <2>2
    <3>2. \A k \in DOMAIN indices : indices[k] < limit
      <4>1. \A k \in DOMAIN indices : indices[k] \in Nat /\ indices[k] < x
        BY <1>1
      <4> HIDE DEF x, limit
      <4>2. QED
        BY <3>1, <4>1
    <3> HIDE DEF x, limit
    <3>3. /\ indices' \in Seq(Nat) /\ Len(indices') = Len(indices) + 1
          /\ \A k \in DOMAIN indices' : indices'[k] < limit
      BY <1>1, <3>1, <3>2, AppendBelow
    <3>4. QED
      BY <1>1, <3>3 DEF limit
  <2>4. QED
    BY <1>2, <2>2, <2>3 DEF TypeOK
<1>5. QED
  BY <1>3, <1>4 DEF Build

LEMMA PendingType ==
  ASSUME TypeOK, EncodeRun
  PROVE  pending' \in Seq(Nat)
<1> USE DEF TypeOK
<1>1. PICK n \in 1..(Len(indices) - i) : EmitRle(n) \/ Accumulate(n)
  BY DEF EncodeRun
<1>2. CASE EmitRle(n)
  BY <1>2 DEF EmitRle
<1>3. CASE Accumulate(n)
  <2>1. i + 1 \in DOMAIN indices /\ n \in Nat
    BY DEF EncodeRun
  <2> DEFINE v == indices[i + 1]
  <2>2. v \in Nat
    BY <2>1
  <2> HIDE DEF v
  <2>3. Repeat(v, n) \in Seq(Nat)
    BY <2>1, <2>2, RepeatType
  <2>4. pending' = pending \o Repeat(v, n)
    BY <1>3 DEF Accumulate, v
  <2>5. QED
    BY <2>3, <2>4
<1>4. QED
  BY <1>1, <1>2, <1>3

LEMMA Appended == \A s, t \in Seq(Nat) : s \o t \in Seq(Nat)
  OBVIOUS

LEMMA AppendedLen == \A s, t \in Seq(Nat) : Len(s \o t) = Len(s) + Len(t)
  OBVIOUS

LEMMA OutType ==
  ASSUME TypeOK, BeginEncode \/ EncodeRun \/ EndEncode
  PROVE  out' \in Seq(Nat)
<1>1. out \in Seq(Nat) /\ BitWidth \in Nat /\ pending \in Seq(Nat) /\ indices \in Seq(Nat)
  BY BitWidthType DEF TypeOK
<1>2. CASE BeginEncode
  <2>1. SingleRun(indices, BitWidth) \in Seq(Nat)
    <3>1. Uvarint(2 * Len(indices)) \in Seq(Nat)
      <4>1. 2 * Len(indices) \in Nat
        BY <1>1
      <4>2. QED
        BY <4>1, UvarintType
    <3> DEFINE padded == PadTo(indices, Groups(Len(indices)) * Octet)
    <3>2. PackedRun(padded, BitWidth) \in Seq(Nat)
      <4>1. Len(indices) \in Nat
        BY <1>1
      <4>2. Groups(Len(indices)) * Octet \in Nat
        BY <4>1, GroupsCover, OctetAssumption
      <4>3. padded \in Seq(Nat)
        BY <1>1, <4>2, PadToType
      <4> HIDE DEF padded
      <4>4. QED
        BY <1>1, <4>3, RunTypes
    <3>3. QED
      BY <3>1, <3>2 DEF SingleRun
  <2> DEFINE body == SingleRun(indices, BitWidth)
             w == BitWidth
  <2>2. out' = <<w>> \o body \/ out' = <<w>>
    BY <1>2 DEF BeginEncode
  <2>3. w \in Nat /\ body \in Seq(Nat)
    BY <1>1, <2>1
  <2> HIDE DEF body, w
  <2>4. <<w>> \in Seq(Nat)
    BY <2>3
  <2>5. QED
    BY <2>2, <2>3, <2>4, Appended
<1>3. CASE EncodeRun
  <2>1. PICK n \in 1..(Len(indices) - i) : EmitRle(n) \/ Accumulate(n)
    BY <1>3 DEF EncodeRun
  <2>2. CASE EmitRle(n)
    <3> DEFINE v == indices[i + 1]
               aligned == pending \o Repeat(v, Borrow)
               residual == n - Borrow
    <3>1. i + 1 \in DOMAIN indices /\ n \in Nat
      BY <1>1, <1>3 DEF EncodeRun, TypeOK
    <3>2. v \in Nat /\ Borrow \in Nat
      <4>1. Borrow \in 0..(Octet - 1)
        BY <1>1, BorrowAligns
      <4>2. QED
        BY <1>1, <3>1, <4>1, OctetAssumption
    <3>3. residual \in Nat
      BY <2>2, <3>1, <3>2, ThresholdAssumption DEF EmitRle, RleWorthy
    <3> HIDE DEF v
    <3>4. aligned \in Seq(Nat)
      <4>1. Repeat(v, Borrow) \in Seq(Nat)
        BY <3>2, RepeatType
      <4>2. QED
        BY <1>1, <4>1, Appended
    <3> HIDE DEF aligned, residual
    <3>5. PackedRun(aligned, BitWidth) \in Seq(Nat) /\ RleRun(v, residual, BitWidth) \in Seq(Nat)
      BY <1>1, <3>2, <3>3, <3>4, RunTypes
    <3>6. \/ out' = out \o RleRun(v, residual, BitWidth)
          \/ out' = (out \o PackedRun(aligned, BitWidth)) \o RleRun(v, residual, BitWidth)
      BY <2>2 DEF EmitRle, v, aligned, residual
    <3>7. (out \o PackedRun(aligned, BitWidth)) \in Seq(Nat)
      BY <1>1, <3>5, Appended
    <3>8. QED
      BY ONLY <1>1, <3>5, <3>6, <3>7, Appended, Zenon
  <2>3. CASE Accumulate(n)
    BY <1>1, <2>3 DEF Accumulate
  <2>4. QED
    BY <2>1, <2>2, <2>3
<1>4. CASE EndEncode
  <2> DEFINE padded == PadTo(pending, Groups(Len(pending)) * Octet)
  <2>1. Len(pending) \in Nat
    BY <1>1
  <2>2. Groups(Len(pending)) * Octet \in Nat
    BY <2>1, GroupsCover, OctetAssumption
  <2>3. padded \in Seq(Nat)
    BY <1>1, <2>2, PadToType
  <2>4. out' = out \/ out' = out \o PackedRun(padded, BitWidth)
    BY <1>4 DEF EndEncode, FinalFlush, FlushOf
  <2> HIDE DEF padded
  <2>5. PackedRun(padded, BitWidth) \in Seq(Nat)
    BY <1>1, <2>3, RunTypes
  <2>6. QED
    BY <1>1, <2>4, <2>5, Appended
<1>5. QED
  BY <1>2, <1>3, <1>4

LEMMA NextTypeOK == TypeOK /\ [Next]_vars => TypeOK'
<1> SUFFICES ASSUME TypeOK, [Next]_vars PROVE TypeOK'
  OBVIOUS
<1> USE DEF TypeOK
<1>1. CASE BeginEncode
  BY <1>1, OutType DEF BeginEncode
<1>2. CASE EncodeRun
  <2>1. i' \in 0..Len(values)
    BY <1>2 DEF EncodeRun
  <2>2. QED
    BY <1>2, <2>1, PendingType, OutType DEF EncodeRun
<1>3. CASE EndEncode
  BY <1>3, OutType DEF EndEncode
<1>4. ASSUME NEW r \in Readers, OpenPage(r) PROVE TypeOK'
  BY <1>4 DEF OpenPage
<1>5. CASE DecodeConstant
  BY <1>5 DEF DecodeConstant, Finish
<1>6. CASE DecodeRun
  BY <1>6 DEF DecodeRun, Finish
<1>7. CASE EndDecode
  BY <1>7 DEF EndDecode, Finish
<1>8. CASE Done \/ UNCHANGED vars
  BY <1>8 DEF Done, vars
<1>9. QED
  BY <1>1, <1>2, <1>3, <1>4, <1>5, <1>6, <1>7, <1>8, BuildTypeOK DEF Next

(* Types of the page's writer and readers; every index the writer emits    *)
(* points into the dictionary.                                             *)
THEOREM TypeCorrect == Spec => []TypeOK
<1>1. QED
  BY InitTypeOK, NextTypeOK, PTL DEF Spec

LEMMA NextDict == TypeOK /\ DictSpellsColumn /\ [Next]_vars => DictSpellsColumn'
<1> SUFFICES ASSUME TypeOK, DictSpellsColumn, [Next]_vars PROVE DictSpellsColumn'
  OBVIOUS
<1>1. CASE Build
  <2>1. i \in Nat /\ i < Len(values) /\ i + 1 \in 1..Len(values) /\ Len(indices) = i
    BY <1>1 DEF Build, TypeOK
  <2>2. CASE BuildKnown
    <3>1. PICK e \in DOMAIN dict : dict[e] = values[i + 1] /\ indices' = Append(indices, e - 1)
                                   /\ dict' = dict
      BY <2>2 DEF BuildKnown
    <3>2. e \in 1..Len(dict) /\ e - 1 \in Nat /\ indices \in Seq(Nat)
      BY <3>1 DEF TypeOK
    <3>3. \A k \in DOMAIN indices' : indices'[k] + 1 \in DOMAIN dict
                                     /\ dict[indices'[k] + 1] = values[k]
      <4> SUFFICES ASSUME NEW k \in DOMAIN indices'
                   PROVE  indices'[k] + 1 \in DOMAIN dict /\ dict[indices'[k] + 1] = values[k]
        OBVIOUS
      <4>1. CASE k = i + 1
        <5>1. indices'[k] = e - 1 /\ (e - 1) + 1 = e
          BY <2>1, <3>1, <3>2, <4>1
        <5>2. QED
          BY <3>1, <4>1, <5>1
      <4>2. CASE k # i + 1
        <5>1. k \in DOMAIN indices /\ indices'[k] = indices[k]
          BY <2>1, <3>1, <3>2, <4>2
        <5>2. QED
          BY <5>1 DEF DictSpellsColumn
      <4>3. QED
        BY <4>1, <4>2
    <3>4. ASSUME NEW d \in DOMAIN dict
          PROVE  \E p \in DOMAIN indices' :
                   indices'[p] = d - 1 /\ \A q \in 1..(p - 1) : indices'[q] < d - 1
      <4>1. PICK p \in DOMAIN indices :
              indices[p] = d - 1 /\ \A q \in 1..(p - 1) : indices[q] < d - 1
        BY DEF DictSpellsColumn
      <4>2. p \in DOMAIN indices' /\ indices'[p] = indices[p]
            /\ \A q \in 1..(p - 1) : indices'[q] = indices[q]
        BY <2>1, <3>1, <3>2, <4>1
      <4>3. QED
        BY <4>1, <4>2
    <3>5. QED
      BY <1>1, <3>1, <3>3, <3>4 DEF Build, DictSpellsColumn
  <2>3. CASE BuildNew
    <3>1. /\ dict' = Append(dict, values[i + 1]) /\ indices' = Append(indices, Len(dict))
          /\ \A k \in DOMAIN dict : dict[k] # values[i + 1]
          /\ values' = values
      BY <1>1, <2>3 DEF Build, BuildNew
    <3>2. dict \in Seq(Keys) /\ indices \in Seq(Nat) /\ Len(dict) \in Nat /\ values[i + 1] \in Keys
          /\ \A k \in DOMAIN indices : indices[k] < Len(dict)
      BY <2>1 DEF TypeOK
    <3>3. \A k \in DOMAIN indices' : indices'[k] + 1 \in DOMAIN dict'
                                     /\ dict'[indices'[k] + 1] = values[k]
      BY <2>1, <3>1, <3>2 DEF DictSpellsColumn
    <3>4. \A j, k \in DOMAIN dict' : dict'[j] = dict'[k] => j = k
      BY <3>1, <3>2 DEF DictSpellsColumn
    <3>5. ASSUME NEW d \in DOMAIN dict'
          PROVE  \E p \in DOMAIN indices' :
                   indices'[p] = d - 1 /\ \A q \in 1..(p - 1) : indices'[q] < d - 1
      <4>1. CASE d \in DOMAIN dict
        <5>1. PICK p \in DOMAIN indices :
                indices[p] = d - 1 /\ \A q \in 1..(p - 1) : indices[q] < d - 1
          BY <4>1 DEF DictSpellsColumn
        <5>2. p \in DOMAIN indices' /\ indices'[p] = indices[p]
              /\ \A q \in 1..(p - 1) : indices'[q] = indices[q]
          BY <2>1, <3>1, <3>2, <5>1
        <5>3. QED
          BY <5>1, <5>2
      <4>2. CASE d = Len(dict) + 1
        <5>1. i + 1 \in DOMAIN indices' /\ indices'[i + 1] = d - 1
          BY <2>1, <3>1, <3>2, <4>2
        <5>2. ASSUME NEW q \in 1..i
              PROVE  indices'[q] = indices[q] /\ indices[q] < Len(dict)
          <6>1. q \in DOMAIN indices /\ q \in 1..Len(indices)
            BY <2>1, <3>2
          <6>2. indices'[q] = indices[q]
            BY <3>1, <3>2, <6>1
          <6>3. QED
            BY <3>2, <6>1, <6>2
        <5>3. i + 1 \in Nat /\ (i + 1) - 1 = i /\ d - 1 = Len(dict)
          BY <2>1, <3>2, <4>2
        <5>4. QED
          BY <5>1, <5>2, <5>3
      <4>3. QED
        BY <3>1, <3>2, <4>1, <4>2
    <3>6. QED
      BY <3>1, <3>3, <3>4, <3>5 DEF DictSpellsColumn
  <2>4. QED
    BY <1>1, <2>2, <2>3 DEF Build
<1>2. CASE UNCHANGED <<values, dict, indices>>
  BY <1>2 DEF DictSpellsColumn
<1>3. Build \/ UNCHANGED <<values, dict, indices>>
  BY DEF Next, BeginEncode, EncodeRun, EndEncode, OpenPage, DecodeConstant, DecodeRun,
         EndDecode, Done, vars
<1>4. QED
  BY <1>1, <1>2, <1>3

(* build_dict_with: a dictionary without duplicates, in order of first     *)
(* occurrence, and indices that lead back to the column, for every column. *)
THEOREM DictCorrect == Spec => []DictSpellsColumn
<1>1. Init => DictSpellsColumn
  BY DEF Init, DictSpellsColumn
<1>2. QED
  BY <1>1, NextDict, TypeCorrect, PTL DEF Spec

-----------------------------------------------------------------------------
(* The runs.                                                               *)

Runs == [at : Nat, n : Nat, val : Seq(Nat), from : Nat, packed : BOOLEAN]

End(rs) == IF rs = <<>> THEN 0 ELSE rs[Len(rs)].at + rs[Len(rs)].n

(* The runs rs follow each other, end at e at the latest, and spell ixs.   *)
Chain(rs, ixs, e) ==
  /\ rs \in Seq(Runs)
  /\ e \in Nat /\ e = End(rs)
  /\ \A s \in DOMAIN rs : rs[s].at = IF s = 1 THEN 0 ELSE rs[s - 1].at + rs[s - 1].n
  /\ \A s \in DOMAIN rs : \A k \in 1..rs[s].n :
       rs[s].at + k <= Len(ixs) => rs[s].val[k] = ixs[rs[s].at + k]
  /\ \A s \in DOMAIN rs : rs[s].at + rs[s].n <= e

RunsInv == Chain(runs, indices, Emitted) /\ RunsSpellIndices

LEMMA PackedSpellingOf ==
  ASSUME NEW at \in Nat, NEW vals \in Seq(Nat), NEW q \in Nat, Len(vals) = q * Octet,
         NEW from \in Nat
  PROVE  /\ PackedSpelling(at, vals, from) \in Runs
         /\ PackedSpelling(at, vals, from)
              = [at |-> at, n |-> Len(vals), val |-> vals, from |-> from, packed |-> TRUE]
<1>1. (Len(vals) \div Octet) * Octet = Len(vals)
  BY Multiple
<1>2. [k \in 1..Len(vals) |-> vals[k]] = vals
  OBVIOUS
<1>3. PackedSpelling(at, vals, from)
        = [at |-> at, n |-> Len(vals), val |-> vals, from |-> from, packed |-> TRUE]
  BY <1>1, <1>2 DEF PackedSpelling, Spelling
<1>4. QED
  BY <1>3 DEF Runs

LEMMA AppendRun ==
  ASSUME NEW rs, NEW r \in Runs, NEW ixs \in Seq(Nat), NEW e,
         Chain(rs, ixs, e), r.at = e,
         \A k \in 1..r.n : e + k <= Len(ixs) => r.val[k] = ixs[e + k],
         NEW new, new = Append(rs, r)
  PROVE  /\ Chain(new, ixs, e + r.n)
         /\ Len(new) = Len(rs) + 1
         /\ \A s \in 1..Len(rs) : new[s].at + new[s].n <= e
<1> USE DEF Chain, End
<1>1. new \in Seq(Runs) /\ Len(new) = Len(rs) + 1 /\ new[Len(new)] = r /\ new # <<>>
  OBVIOUS
<1>2. \A s \in 1..Len(rs) : new[s] = rs[s] /\ rs[s] \in Runs
  OBVIOUS
<1>3. r.n \in Nat
  BY DEF Runs
<1>4. \A s \in DOMAIN new : new[s].at + new[s].n <= e + r.n
  <2> SUFFICES ASSUME NEW s \in DOMAIN new PROVE new[s].at + new[s].n <= e + r.n
    OBVIOUS
  <2>1. CASE s = Len(new)
    BY <1>1, <1>3, <2>1
  <2>2. CASE s \in 1..Len(rs)
    <3>1. new[s] = rs[s] /\ rs[s].at \in Nat /\ rs[s].n \in Nat
      BY <1>2, <2>2 DEF Runs
    <3>2. rs[s].at + rs[s].n <= e
      BY <2>2
    <3>3. QED
      BY <1>3, <3>1, <3>2
  <2>3. QED
    BY <1>1, <2>1, <2>2
<1>5. ASSUME NEW s \in DOMAIN new
      PROVE  new[s].at = IF s = 1 THEN 0 ELSE new[s - 1].at + new[s - 1].n
  <2>1. CASE s = Len(new)
    <3>1. CASE rs = <<>>
      BY <1>1, <2>1, <3>1
    <3>2. CASE rs # <<>>
      <4>1. Len(rs) \in 1..Len(rs) /\ s # 1 /\ s - 1 = Len(rs)
        BY <1>1, <2>1, <3>2
      <4>2. QED
        BY <1>1, <1>2, <2>1, <3>2, <4>1
    <3>3. QED
      BY <3>1, <3>2
  <2>2. CASE s \in 1..Len(rs)
    <3>1. s # 1 => s - 1 \in 1..Len(rs)
      BY <2>2
    <3>2. s \in DOMAIN rs
      BY <2>2
    <3>3. rs[s].at = IF s = 1 THEN 0 ELSE rs[s - 1].at + rs[s - 1].n
      BY <3>2
    <3>4. new[s] = rs[s] /\ (s # 1 => new[s - 1] = rs[s - 1])
      BY <1>2, <2>2, <3>1
    <3>5. QED
      BY <3>3, <3>4
  <2>3. QED
    BY <1>1, <2>1, <2>2
<1>6. ASSUME NEW s \in DOMAIN new, NEW k \in 1..new[s].n, new[s].at + k <= Len(ixs)
      PROVE  new[s].val[k] = ixs[new[s].at + k]
  <2>1. CASE s = Len(new)
    BY <1>1, <1>6, <2>1
  <2>2. CASE s \in 1..Len(rs)
    BY <1>2, <1>6, <2>2
  <2>3. QED
    BY <1>1, <2>1, <2>2
<1>7. new[Len(new)].at + new[Len(new)].n = e + r.n
  BY <1>1
<1>8. \A s \in 1..(Len(new) - 1) : new[s].at + new[s].n <= e
  BY <1>1, <1>2
<1>9. e + r.n \in Nat /\ e + r.n = End(new)
  BY <1>1, <1>3, <1>7
<1>10. QED
  BY <1>1, <1>4, <1>5, <1>6, <1>8, <1>9

LEMMA StillEncoding ==
  ASSUME Chain(runs', indices', Emitted'), phase' = "encode",
         Emitted' + Len(pending') = i',
         \A k \in DOMAIN pending' : pending'[k] = indices'[Emitted' + k]
  PROVE  RunsInv'
  BY DEF RunsInv, RunsSpellIndices, Chain

LEMMA Written ==
  ASSUME Chain(runs', indices', Emitted'), phase' = "written", pending' = <<>>,
         Emitted' \in Len(indices')..(Len(indices') + Octet - 1),
         \A r \in 1..(Len(runs') - 1) : runs'[r].at + runs'[r].n <= Len(indices')
  PROVE  RunsInv'
<1>1. \A k \in DOMAIN pending' : pending'[k] = indices'[Emitted' + k]
  OBVIOUS
<1>2. QED
  BY <1>1 DEF RunsInv, RunsSpellIndices, Chain

LEMMA InitRuns == Init => RunsInv
<1> SUFFICES ASSUME Init PROVE RunsInv
  OBVIOUS
<1>1. runs = <<>> /\ pending = <<>> /\ phase = "build" /\ Emitted = 0
  BY DEF Init, Emitted
<1>2. QED
  BY <1>1 DEF RunsInv, RunsSpellIndices, Chain, End

(* A run, or a packed run and then a run, behind what is there.            *)
LEMMA EmitRuns ==
  ASSUME TypeOK, RunsInv, phase = "encode", i < Len(indices),
         NEW n \in 1..(Len(indices) - i), IsValueRun(n), EmitRle(n),
         UNCHANGED <<indices, phase>>, i' = i + n
  PROVE  RunsInv'
<1> DEFINE v == indices[i + 1]
           b == Borrow
           aligned == pending \o Repeat(v, b)
           residual == n - b
           rle(at, from) == RleSpelling(at, v, residual, from)
           here == Len(out) + 1
           packed == PackedSpelling(Emitted, aligned, here)
           behind == Len(out \o PackedRun(aligned, BitWidth)) + 1
<1>1. /\ Emitted \in Nat /\ pending \in Seq(Nat) /\ indices \in Seq(Nat) /\ i \in Nat
      /\ Emitted + Len(pending) = i /\ Chain(runs, indices, Emitted)
      /\ \A k \in DOMAIN pending : pending[k] = indices[Emitted + k]
  BY DEF RunsInv, RunsSpellIndices, TypeOK, Chain
<1> DEFINE c == Len(pending)
<1>0. Emitted \in Nat /\ c \in Nat /\ i \in Nat /\ Emitted + c = i
  BY <1>1
<1>2. b \in 0..(Octet - 1) /\ \E q \in Nat : Len(pending) + b = q * Octet
  BY <1>1, BorrowAligns
<1>3. b \in Nat /\ n \in Nat /\ residual \in Nat /\ b + residual = n
  BY <1>2, ThresholdAssumption, OctetAssumption DEF EmitRle, RleWorthy
<1>4. v \in Nat /\ \A k \in 1..n : indices[i + k] = v
  BY <1>1 DEF IsValueRun
<1>5. /\ pending' = <<>>
      /\ aligned = <<>> => runs' = Append(runs, rle(Emitted, here))
      /\ aligned # <<>> => runs' = runs \o <<packed, rle(Emitted + packed.n, behind)>>
  BY DEF EmitRle
<1>6. /\ Repeat(v, b) \in Seq(Nat) /\ Len(Repeat(v, b)) = b
      /\ \A k \in 1..b : Repeat(v, b)[k] = v
      /\ Repeat(v, residual) \in Seq(Nat)
      /\ \A k \in 1..residual : Repeat(v, residual)[k] = v
  <2> HIDE DEF v, b, residual
  <2>1. QED
    BY <1>3, <1>4, RepeatType
<1>7. aligned \in Seq(Nat) /\ Len(aligned) = Len(pending) + b
      /\ (\A k \in 1..Len(pending) : aligned[k] = pending[k])
      /\ (\A k \in 1..b : aligned[Len(pending) + k] = v)
  <2> HIDE DEF v, b, residual
  <2> DEFINE rep == Repeat(v, b)
  <2>1. rep \in Seq(Nat) /\ Len(rep) = b /\ \A k \in 1..b : rep[k] = v
    BY <1>6
  <2> HIDE DEF rep
  <2>2. /\ pending \o rep \in Seq(Nat) /\ Len(pending \o rep) = Len(pending) + b
        /\ \A k \in 1..Len(pending) : (pending \o rep)[k] = pending[k]
    <3>1. pending \in Seq(Nat) /\ rep \in Seq(Nat) /\ Len(rep) = b
      BY <1>1, <2>1
    <3>2. QED
      BY <3>1
  <2>3. ASSUME NEW k \in 1..b PROVE (pending \o rep)[Len(pending) + k] = v
    <3>1. Len(pending) + k \in 1..(Len(pending) + Len(rep)) /\ Len(pending) + k > Len(pending)
      BY <1>1, <1>3, <2>1
    <3>2. (pending \o rep)[Len(pending) + k] = rep[k]
      BY <1>1, <2>1, <3>1
    <3>3. QED
      BY <2>1, <3>2
  <2>4. QED
    BY <2>2, <2>3 DEF rep
<1>8. \A at, from \in Nat : /\ rle(at, from) \in Runs
                            /\ rle(at, from).at = at /\ rle(at, from).n = residual
                            /\ \A k \in 1..residual : rle(at, from).val[k] = v
  <2> HIDE DEF v, b, residual
  <2>1. QED
    BY <1>3, <1>6 DEF RleSpelling, Spelling, Runs
<1>14. here \in Nat /\ behind \in Nat
  <2>1. out \in Seq(Nat) /\ aligned \in Seq(Nat)
    BY <1>7 DEF TypeOK
  <2> HIDE DEF aligned
  <2>2. PackedRun(aligned, BitWidth) \in Seq(Nat)
    BY <2>1, RunTypes, BitWidthType
  <2>3. QED
    BY <2>1, <2>2
<1>9. /\ packed \in Runs /\ packed.at = Emitted /\ packed.n = Len(pending) + b
      /\ packed.val = aligned
  <2> HIDE DEF aligned, b
  <2>1. PICK q \in Nat : Len(aligned) = q * Octet
    BY <1>2, <1>7
  <2> HIDE DEF here
  <2>2. PackedSpelling(Emitted, aligned, here)
          = [at |-> Emitted, n |-> Len(aligned), val |-> aligned, from |-> here, packed |-> TRUE]
        /\ PackedSpelling(Emitted, aligned, here) \in Runs
    BY <1>1, <1>7, <1>14, <2>1, PackedSpellingOf
  <2>3. QED
    BY <1>7, <2>2
<1> HIDE DEF v, b, aligned, residual, rle, packed, here, behind
<1>10. ASSUME Chain(runs', indices, i + n)
       PROVE  RunsInv'
  <2>1. Emitted' = End(runs') /\ Emitted' = i + n
    BY <1>10 DEF Emitted, End, Chain
  <2>2. Chain(runs', indices', Emitted')
    BY <1>10, <2>1
  <2>3. Emitted' + Len(pending') = i'
    BY <1>1, <1>3, <1>5, <2>1
  <2>4. /\ \A r \in DOMAIN runs' :
             /\ runs'[r].at = IF r = 1 THEN 0 ELSE runs'[r - 1].at + runs'[r - 1].n
             /\ \A k \in 1..runs'[r].n : runs'[r].at + k <= Len(indices') =>
                  runs'[r].val[k] = indices'[runs'[r].at + k]
        /\ \A k \in DOMAIN pending' : pending'[k] = indices'[Emitted' + k]
    <3>1. pending' = <<>>
      BY <1>5
    <3>2. \A k \in DOMAIN pending' : pending'[k] = indices'[Emitted' + k]
      BY <3>1
    <3>3. QED
      BY <2>2, <3>2 DEF Chain
  <2>5. QED
    BY <2>2, <2>3, <2>4 DEF RunsInv, RunsSpellIndices
<1>11. CASE aligned = <<>>
  <2>1. Len(pending) = 0 /\ b = 0 /\ Emitted = i /\ residual = n
    BY <1>1, <1>3, <1>7, <1>11
  <2>2. \A k \in 1..n : rle(Emitted, here).val[k] = indices[Emitted + k]
    BY <1>1, <1>4, <1>8, <1>14, <2>1
  <2>3. rle(Emitted, here) \in Runs /\ rle(Emitted, here).at = Emitted /\ rle(Emitted, here).n = n
    BY <1>1, <1>8, <1>14, <2>1
  <2>4. Chain(runs', indices, Emitted + n)
    BY <1>1, <1>5, <1>11, <2>2, <2>3, AppendRun
  <2>5. QED
    BY <1>10, <2>1, <2>4
<1>12. CASE aligned # <<>>
  <2> DEFINE mid == Append(runs, packed)
             e == Emitted + packed.n
  <2>1. ASSUME NEW k \in 1..packed.n
        PROVE  packed.val[k] = indices[Emitted + k]
    <3>1. CASE k \in 1..Len(pending)
      <4>1. aligned[k] = pending[k]
        BY <1>7, <3>1
      <4>2. k \in DOMAIN pending
        BY <1>1, <3>1
      <4>3. pending[k] = indices[Emitted + k]
        BY <1>1, <4>2
      <4>4. QED
        BY <1>9, <4>1, <4>3
    <3>2. CASE k \notin 1..Len(pending)
      <4> DEFINE j == k - Len(pending)
      <4>1. j \in 1..b /\ Emitted + k = i + j /\ k = Len(pending) + j
        <5>1. k \in 1..(c + b) /\ k \notin 1..c
          BY <1>9, <3>2
        <5> HIDE DEF c
        <5>2. k - c \in 1..b /\ Emitted + k = i + (k - c) /\ k = c + (k - c)
          BY <1>3, <1>0, <5>1
        <5>3. QED
          BY <5>2 DEF c
      <4>2. j \in 1..n
        BY <1>3, <4>1
      <4> HIDE DEF j
      <4>3. packed.val[k] = v /\ indices[Emitted + k] = v
        BY <1>4, <1>7, <1>9, <4>1, <4>2
      <4>4. QED
        BY <4>3
    <3>3. QED
      BY <3>1, <3>2
  <2>2. Chain(mid, indices, e)
    BY <1>1, <1>9, <2>1, AppendRun
  <2>3. e \in Nat /\ e = i + b /\ e + residual = i + n
    <3>1. e = Emitted + (c + b)
      BY <1>9
    <3> HIDE DEF c, e
    <3>2. QED
      BY <1>3, <1>0, <3>1
  <2>4. runs' = Append(mid, rle(e, behind))
    <3>1. runs \in Seq(Runs)
      BY <1>1 DEF Chain
    <3>2. rle(e, behind) \in Runs
      BY <1>8, <1>14, <2>3
    <3> HIDE DEF e
    <3>3. runs' = runs \o <<packed, rle(e, behind)>>
      BY <1>5, <1>12 DEF e
    <3>4. QED
      BY <1>9, <3>1, <3>2, <3>3
  <2> HIDE DEF mid, e
  <2>5. ASSUME NEW k \in 1..residual
        PROVE  rle(e, behind).val[k] = indices[e + k]
    <3>1. b + k \in 1..n /\ e + k = i + (b + k)
      BY <1>1, <1>3, <2>3
    <3>2. QED
      BY <1>4, <1>8, <1>14, <2>3, <3>1
  <2>6. rle(e, behind) \in Runs /\ rle(e, behind).at = e /\ rle(e, behind).n = residual
    BY <1>8, <1>14, <2>3
  <2>7. Chain(runs', indices, e + residual)
    BY <1>1, <2>2, <2>4, <2>5, <2>6, AppendRun
  <2>8. QED
    BY <1>10, <2>3, <2>7
<1>13. QED
  BY <1>11, <1>12

(* A run that joins the accumulator.                                       *)
LEMMA AccumulateRun ==
  ASSUME TypeOK, RunsInv, phase = "encode", i < Len(indices),
         NEW n \in 1..(Len(indices) - i), IsValueRun(n), Accumulate(n),
         UNCHANGED <<indices, phase>>, i' = i + n
  PROVE  RunsInv'
<1> DEFINE v == indices[i + 1]
           c == Len(pending)
           rep == Repeat(v, n)
<1>1. /\ pending \in Seq(Nat) /\ indices \in Seq(Nat) /\ Chain(runs, indices, Emitted)
      /\ \A k \in DOMAIN pending : pending[k] = indices[Emitted + k]
  BY DEF RunsInv, RunsSpellIndices, TypeOK
<1>2. Emitted \in Nat /\ c \in Nat /\ i \in Nat /\ n \in Nat /\ Emitted + c = i
  BY <1>1 DEF RunsInv, RunsSpellIndices, TypeOK, Chain
<1>3. v \in Nat /\ \A k \in 1..n : indices[i + k] = v
  BY <1>1, <1>2 DEF IsValueRun
<1>4. rep \in Seq(Nat) /\ Len(rep) = n /\ \A k \in 1..n : rep[k] = v
  BY <1>2, <1>3, RepeatType
<1>5. pending' = pending \o rep /\ runs' = runs
  BY DEF Accumulate
<1> HIDE DEF v, rep
<1>6. Len(pending') = c + n
  BY <1>1, <1>4, <1>5
<1>7. ASSUME NEW k \in 1..(c + n) PROVE pending'[k] = indices[Emitted + k]
  <2>1. CASE k \in 1..c
    <3>1. pending'[k] = pending[k]
      BY <1>1, <1>4, <1>5, <2>1
    <3>2. QED
      BY <1>1, <2>1, <3>1
  <2>2. CASE k \notin 1..c
    <3> DEFINE j == k - c
    <3>1. j \in 1..n /\ Emitted + k = i + j
      <4> HIDE DEF c
      <4>1. QED
        BY <1>2, <1>7, <2>2
    <3>2. pending'[k] = rep[j]
      BY <1>1, <1>4, <1>5, <2>2
    <3> HIDE DEF j
    <3>3. QED
      BY <1>3, <1>4, <3>1, <3>2
  <2>3. QED
    BY <2>1, <2>2
<1>8. Emitted' = Emitted /\ DOMAIN pending' = 1..(c + n)
  <2>1. pending' \in Seq(Nat)
    BY <1>1, <1>4, <1>5
  <2>2. QED
    BY <1>5, <1>6, <2>1 DEF Emitted
<1>9. Emitted' + Len(pending') = i'
  <2> HIDE DEF c
  <2>1. QED
    BY <1>2, <1>6, <1>8
<1>10. Chain(runs', indices', Emitted')
  BY <1>1, <1>5, <1>8
<1>11. QED
  BY <1>7, <1>8, <1>9, <1>10, StillEncoding

(* No loop: nothing to encode, or one run of zeros.                        *)
LEMMA BeginRuns == TypeOK /\ RunsInv /\ BeginEncode => RunsInv'
<1> SUFFICES ASSUME TypeOK, RunsInv, BeginEncode PROVE RunsInv'
  OBVIOUS
<1>1. /\ runs = <<>> /\ pending = <<>> /\ pending' = <<>> /\ indices' = indices /\ i' = 0
      /\ indices \in Seq(Nat)
  BY DEF RunsInv, RunsSpellIndices, BeginEncode, TypeOK
<1>2. CASE runs' = <<>> /\ (phase' = "encode" \/ (phase' = "written" /\ indices = <<>>))
  <2>1. Emitted' = 0
    BY <1>2 DEF Emitted
  <2>2. Chain(runs', indices', Emitted')
    BY <1>2, <2>1 DEF Chain, End
  <2>3. QED
    BY <1>1, <1>2, <2>1, <2>2, OctetAssumption DEF RunsInv, RunsSpellIndices
<1>3. CASE /\ phase' = "written" /\ indices # <<>> /\ BitWidth = 0
           /\ runs' = <<RleSpelling(0, 0, Len(indices), 2)>>
  <2> DEFINE n == Len(indices)
             run == RleSpelling(0, 0, n, 2)
  <2>1. n \in Nat \ {0}
    BY <1>1, <1>3
  <2>2. \A k \in DOMAIN indices : indices[k] = 0
    <3>1. Len(dict) \in Nat
      BY DEF TypeOK
    <3>2. Len(dict) <= 1
      BY <1>3, <3>1, WidthCovers DEF BitWidth
    <3>3. \A k \in DOMAIN indices : indices[k] \in Nat /\ indices[k] < Len(dict)
      BY <1>1 DEF TypeOK
    <3>4. QED
      BY <3>1, <3>2, <3>3
  <2>3. Repeat(0, n) \in Seq(Nat) /\ \A k \in 1..n : Repeat(0, n)[k] = 0
    BY <2>1, RepeatType
  <2>4. run \in Runs /\ run.at = 0 /\ run.n = n /\ \A k \in 1..n : run.val[k] = 0
    BY <2>1, <2>3 DEF RleSpelling, Spelling, Runs
  <2>5. Chain(<<>>, indices, 0)
    BY DEF Chain, End
  <2>6. runs' = Append(<<>>, run)
    BY <1>3
  <2> HIDE DEF run
  <2>7. \A k \in 1..run.n : 0 + k <= Len(indices) => run.val[k] = indices[0 + k]
    BY <1>1, <2>1, <2>2, <2>4
  <2>8. Chain(runs', indices, n) /\ Len(runs') = 1
    <3>1. Chain(runs', indices, 0 + run.n) /\ Len(runs') = Len(<<>>) + 1
      BY <1>1, <2>4, <2>5, <2>6, <2>7, AppendRun
    <3>2. 0 + run.n = n /\ Len(<<>>) + 1 = 1
      BY <2>1, <2>4
    <3>3. QED
      BY <3>1, <3>2
  <2>9. Emitted' = n /\ indices' = indices
    BY <1>1, <2>8 DEF Emitted, End, Chain
  <2>10. Emitted' \in Len(indices')..(Len(indices') + Octet - 1)
    BY <1>1, <2>1, <2>9, OctetAssumption
  <2>11. QED
    BY <1>1, <1>3, <2>8, <2>9, <2>10, Written
<1>4. QED
  BY <1>2, <1>3 DEF BeginEncode

(* The padded flush, or none.                                              *)
LEMMA EndRuns == TypeOK /\ RunsInv /\ EndEncode => RunsInv'
<1> SUFFICES ASSUME TypeOK, RunsInv, EndEncode PROVE RunsInv'
  OBVIOUS
<1> DEFINE c == Len(pending)
           m == Groups(c) * Octet
           padded == PadTo(pending, m)
           here == Len(out) + 1
           packed == PackedSpelling(Emitted, padded, here)
<1>1. /\ pending \in Seq(Nat) /\ indices \in Seq(Nat) /\ Chain(runs, indices, Emitted)
      /\ indices' = indices /\ phase' = "written" /\ pending' = <<>>
      /\ \A k \in DOMAIN pending : pending[k] = indices[Emitted + k]
  BY DEF RunsInv, RunsSpellIndices, TypeOK, EndEncode
<1>2. Emitted \in Nat /\ c \in Nat /\ Len(indices) \in Nat /\ Emitted + c = Len(indices)
  BY <1>1 DEF RunsInv, RunsSpellIndices, Chain, EndEncode
<1>3. CASE pending = <<>>
  <2>1. runs' = runs /\ Emitted = Len(indices)
    BY <1>2, <1>3 DEF EndEncode
  <2>2. Emitted' = Emitted /\ Chain(runs', indices', Emitted')
    BY <1>1, <2>1 DEF Emitted
  <2>3. Emitted' \in Len(indices')..(Len(indices') + Octet - 1)
    BY <1>1, <1>2, <2>1, <2>2, OctetAssumption
  <2>4. \A r \in 1..(Len(runs') - 1) : runs'[r].at + runs'[r].n <= Len(indices')
    <3> SUFFICES ASSUME NEW r \in 1..(Len(runs') - 1)
                 PROVE  runs'[r].at + runs'[r].n <= Len(indices')
      OBVIOUS
    <3>1. runs \in Seq(Runs) /\ r \in DOMAIN runs
      BY <1>1, <2>1 DEF Chain
    <3>2. runs[r].at + runs[r].n <= Emitted
      BY <1>1, <3>1 DEF Chain
    <3>3. QED
      BY <1>1, <2>1, <3>2
  <2>5. QED
    BY <1>1, <2>2, <2>3, <2>4, Written
<1>4. CASE pending # <<>>
  <2>1. Groups(c) \in Nat /\ m \in c..(c + Octet - 1) /\ m \in Nat
    <3>1. Groups(c) \in Nat /\ m \in c..(c + Octet - 1)
      BY <1>2, GroupsCover
    <3> HIDE DEF m, c
    <3>2. m \in Nat
      BY <1>2, <3>1, OctetAssumption
    <3>3. QED
      BY <3>1, <3>2
  <2>2. padded \in Seq(Nat) /\ Len(padded) = m /\ \A k \in 1..m : k <= c => padded[k] = pending[k]
    <3> HIDE DEF m
    <3>1. QED
      BY <1>1, <2>1 DEF PadTo
  <2>3. packed \in Runs /\ packed.at = Emitted /\ packed.n = m /\ packed.val = padded
    <3>1. Len(padded) = Groups(c) * Octet
      BY <2>2
    <3>4. here \in Nat
      BY DEF TypeOK
    <3> HIDE DEF padded, m, c, here
    <3>2. PackedSpelling(Emitted, padded, here)
            = [at |-> Emitted, n |-> Len(padded), val |-> padded, from |-> here, packed |-> TRUE]
          /\ PackedSpelling(Emitted, padded, here) \in Runs
      BY <3>4, <1>2, <2>1, <2>2, <3>1, PackedSpellingOf
    <3>3. QED
      BY <2>2, <3>2
  <2>4. runs' = Append(runs, packed)
    BY <1>4 DEF EndEncode, FinalFlush, FlushOf
  <2> HIDE DEF packed, padded, m, here
  <2>5. ASSUME NEW k \in 1..packed.n, Emitted + k <= Len(indices)
        PROVE  packed.val[k] = indices[Emitted + k]
    <3>1. k \in 1..c /\ k <= c /\ k \in 1..m
      <4> HIDE DEF c
      <4>1. QED
        BY <1>2, <2>1, <2>3, <2>5
    <3>2. QED
      BY <1>1, <2>2, <2>3, <3>1
  <2>6. Chain(runs', indices, Emitted + packed.n) /\ Len(runs') = Len(runs) + 1
        /\ \A s \in 1..Len(runs) : runs'[s].at + runs'[s].n <= Emitted
    BY <1>1, <2>3, <2>4, <2>5, AppendRun
  <2>7. Emitted' = Emitted + m
    BY <2>3, <2>6 DEF Emitted, End, Chain
  <2>8. Emitted' \in Len(indices')..(Len(indices') + Octet - 1)
    <3>1. Emitted + m \in (Emitted + c)..(Emitted + c + Octet - 1)
      <4> HIDE DEF c
      <4>1. QED
        BY <1>2, <2>1, OctetAssumption
    <3>2. QED
      BY <1>1, <1>2, <2>7, <3>1
  <2>9. ASSUME NEW r \in 1..(Len(runs') - 1)
        PROVE  runs'[r].at + runs'[r].n <= Len(indices')
    <3>1. r \in 1..Len(runs) /\ runs'[r] \in Runs
      BY <2>6, <2>9 DEF Chain
    <3>2. runs'[r].at + runs'[r].n <= Emitted /\ runs'[r].at + runs'[r].n \in Nat
      BY <2>6, <3>1 DEF Runs
    <3>3. QED
      BY <1>1, <1>2, <3>2
  <2>10. Chain(runs', indices', Emitted')
    BY <1>1, <2>3, <2>6, <2>7
  <2>11. QED
    BY <1>1, <2>8, <2>9, <2>10, Written
<1>5. QED
  BY <1>3, <1>4

LEMMA NextRuns == TypeOK /\ RunsInv /\ [Next]_vars => RunsInv'
<1> SUFFICES ASSUME TypeOK, RunsInv, [Next]_vars PROVE RunsInv'
  OBVIOUS
<1>1. CASE Build
  <2>1. runs = <<>> /\ runs' = <<>> /\ pending' = <<>> /\ phase' = "build" /\ Emitted' = 0
    BY <1>1 DEF Build, RunsInv, RunsSpellIndices, Emitted
  <2>2. QED
    BY <2>1 DEF RunsInv, RunsSpellIndices, Chain, End
<1>2. CASE EncodeRun
  <2>1. PICK n \in 1..(Len(indices) - i) :
          IsValueRun(n) /\ (EmitRle(n) \/ Accumulate(n)) /\ i' = i + n
    BY <1>2 DEF EncodeRun
  <2>2. phase = "encode" /\ i < Len(indices) /\ UNCHANGED <<indices, phase>>
    BY <1>2 DEF EncodeRun
  <2>3. QED
    BY <2>1, <2>2, EmitRuns, AccumulateRun
<1>3. CASE UNCHANGED <<indices, runs, pending, phase, i>>
  BY <1>3 DEF RunsInv, RunsSpellIndices, Chain, End, Emitted
<1>4. CASE /\ UNCHANGED <<indices, runs, pending, i>>
           /\ phase \in {"written", "decode"} /\ phase' \in {"written", "decode", "done"}
  BY <1>4 DEF RunsInv, RunsSpellIndices, Chain, End, Emitted
<1>5. Build \/ BeginEncode \/ EncodeRun \/ EndEncode
      \/ UNCHANGED <<indices, runs, pending, phase, i>>
      \/ (/\ UNCHANGED <<indices, runs, pending, i>>
          /\ phase \in {"written", "decode"} /\ phase' \in {"written", "decode", "done"})
  BY DEF Next, OpenPage, DecodeConstant, DecodeRun, EndDecode, Finish, Done, vars
<1>6. QED
  BY <1>1, <1>2, <1>3, <1>4, <1>5, BeginRuns, EndRuns

(* The runs of a page spell the column's indices without gap or overlap,   *)
(* for every column, group size and threshold.                             *)
THEOREM RunsCorrect == Spec => []RunsSpellIndices
<1>1. RunsInv => RunsSpellIndices
  BY DEF RunsInv
<1>2. QED
  BY <1>1, InitRuns, NextRuns, TypeCorrect, PTL DEF Spec
-----------------------------------------------------------------------------
(* The bytes of the page.                                                  *)

(* The header and the body of a run.                                       *)
RunBytes(e, w) == IF e.packed THEN PackedRun(e.val, w) ELSE RleRun(e.val[1], e.n, w)

(* A run that w-bit indices of a column of n values can yield.             *)
Writable(e, w, n) ==
  /\ e \in Runs /\ e.from > 0 /\ e.n > 0 /\ Len(e.val) = e.n
  /\ \A k \in 1..e.n : e.val[k] < Pow2(w)
  /\ IF e.packed THEN \E q \in 1..n : e.n = q * Octet
     ELSE e.n <= n /\ \A k \in 1..e.n : e.val[k] = e.val[1]

Behind(rs, w) ==
  IF rs = <<>> THEN 2 ELSE rs[Len(rs)].from + Len(RunBytes(rs[Len(rs)], w))

(* The runs lie in the page o one behind the other, from its second byte   *)
(* to its last.                                                            *)
Laid(rs, o, w, n) ==
  /\ \A r \in DOMAIN rs :
       /\ Writable(rs[r], w, n)
       /\ rs[r].from = IF r = 1 THEN 2 ELSE rs[r - 1].from + Len(RunBytes(rs[r - 1], w))
       /\ Holds(o, rs[r].from, RunBytes(rs[r], w))
  /\ Len(o) + 1 = Behind(rs, w)

PageInv ==
  /\ phase # "build" => out # <<>> /\ out[1] = BitWidth
  /\ phase # "build" /\ BitWidth > 0 => Laid(runs, out, BitWidth, Len(values))

(* A reader has taken a prefix of the column, and stands where the first   *)
(* run it has not taken begins.                                            *)
CursorInv ==
  /\ phase \in {"build", "encode", "written"} => got = <<>>
  /\ phase = "decode" =>
       /\ reader = "u8" => BitWidth <= NarrowWidth
       /\ got \in Seq(Keys \cup Nat) /\ Len(got) <= Len(values)
       /\ \A k \in 1..Len(got) : got[k] = IF reader = "fused" THEN values[k] ELSE indices[k]
       /\ BitWidth = 0 => got = <<>>
       /\ BitWidth > 0 /\ Len(got) < Len(values) =>
            \E r \in DOMAIN runs : pos = runs[r].from /\ runs[r].at = Len(got)

LEMMA HoldsOn ==
  ASSUME NEW o \in Seq(Nat), NEW t \in Seq(Nat), NEW u \in Seq(Nat)
  PROVE  /\ \A at \in Nat \ {0} : Holds(o, at, t) => Holds(o \o u, at, t)
         /\ Holds(o \o u, Len(o) + 1, u)
<1> DEFINE p == o \o u
<1>1. /\ Len(p) = Len(o) + Len(u) /\ Len(o) \in Nat /\ Len(u) \in Nat /\ Len(t) \in Nat
      /\ \A k \in 1..Len(o) : p[k] = o[k]
  OBVIOUS
<1>2. ASSUME NEW k \in 1..Len(u) PROVE p[Len(o) + k] = u[k]
  <2>1. Len(o) + k \in 1..(Len(o) + Len(u)) /\ Len(o) + k > Len(o) /\ (Len(o) + k) - Len(o) = k
    BY <1>1
  <2>2. QED
    BY <2>1
<1> HIDE DEF p
<1>3. ASSUME NEW at \in Nat \ {0}, Holds(o, at, t) PROVE Holds(p, at, t)
  <2>1. at + Len(t) - 1 <= Len(p)
    BY <1>1, <1>3 DEF Holds
  <2>2. ASSUME NEW k \in 1..Len(t) PROVE p[at + k - 1] = t[k]
    <3>1. at + k - 1 \in 1..Len(o)
      <4>1. at + Len(t) - 1 <= Len(o)
        BY <1>3 DEF Holds
      <4>2. \A lt, lo \in Nat : \A x \in Nat \ {0} : \A y \in 1..lt :
              x + lt - 1 <= lo => x + y - 1 \in 1..lo
        OBVIOUS
      <4>3. QED
        BY ONLY <1>1, <4>1, <4>2, at \in Nat \ {0}, k \in 1..Len(t), Zenon
    <3>2. o[at + k - 1] = t[k]
      BY <1>3 DEF Holds
    <3>3. QED
      BY <1>1, <3>1, <3>2
  <2>3. QED
    BY <2>1, <2>2 DEF Holds
<1>4. Holds(p, Len(o) + 1, u)
  <2>1. (Len(o) + 1) + Len(u) - 1 <= Len(p)
    BY <1>1
  <2>2. \A k \in 1..Len(u) : (Len(o) + 1) + k - 1 = Len(o) + k
    BY <1>1
  <2>3. QED
    BY <1>2, <2>1, <2>2 DEF Holds
<1>5. QED
  BY <1>3, <1>4 DEF p

LEMMA RunBytesType ==
  ASSUME NEW w \in Nat, NEW n \in Nat, NEW e, Writable(e, w, n)
  PROVE  RunBytes(e, w) \in Seq(Nat)
<1>1. /\ e.val \in Seq(Nat) /\ e.n \in Nat /\ e.n > 0 /\ Len(e.val) = e.n
  BY DEF Writable, Runs
<1>2. e.val[1] \in Nat
  BY <1>1
<1>3. QED
  BY <1>1, <1>2, RunTypes DEF RunBytes

(* One more run behind the last.                                           *)
LEMMA AppendLaid ==
  ASSUME NEW rs \in Seq(Runs), NEW o \in Seq(Nat), NEW w \in Nat, NEW n \in Nat,
         Laid(rs, o, w, n), NEW e, Writable(e, w, n), e.from = Len(o) + 1
  PROVE  Laid(Append(rs, e), o \o RunBytes(e, w), w, n)
<1> DEFINE new == Append(rs, e)
           b == RunBytes(e, w)
           p == o \o b
<1>1. e \in Runs /\ b \in Seq(Nat)
  BY RunBytesType DEF Writable
<1>2. /\ new \in Seq(Runs) /\ Len(new) = Len(rs) + 1 /\ new[Len(new)] = e /\ new # <<>>
      /\ Len(rs) \in Nat /\ \A r \in 1..Len(rs) : new[r] = rs[r]
  <2> HIDE DEF b, p
  <2>1. new \in Seq(Runs) /\ Len(new) = Len(rs) + 1 /\ Len(rs) \in Nat
    BY <1>1
  <2>2. new[Len(rs) + 1] = e /\ \A r \in 1..Len(rs) : new[r] = rs[r]
    BY <1>1
  <2> HIDE DEF new
  <2>3. new # <<>>
    BY <2>1
  <2>4. QED
    BY <2>1, <2>2, <2>3
<1>3. Len(p) = Len(o) + Len(b) /\ Len(o) \in Nat /\ Len(b) \in Nat
  BY <1>1
<1>4. Holds(p, Len(o) + 1, b)
  BY <1>1, HoldsOn
<1> HIDE DEF new
<1>5. Len(p) + 1 = Behind(new, w)
  <2>1. Behind(new, w) = (Len(o) + 1) + Len(b)
    BY <1>2 DEF Behind
  <2> HIDE DEF b, p
  <2>2. QED
    BY <1>3, <2>1
<1>6. ASSUME NEW r \in DOMAIN new
      PROVE  /\ Writable(new[r], w, n)
             /\ new[r].from = IF r = 1 THEN 2 ELSE new[r - 1].from + Len(RunBytes(new[r - 1], w))
             /\ Holds(p, new[r].from, RunBytes(new[r], w))
  <2>1. CASE r = Len(new)
    <3>1. new[r] = e /\ new[r].from = Len(o) + 1
      BY <1>2, <2>1
    <3>2. CASE rs = <<>>
      <4>1. r = 1 /\ Len(o) + 1 = 2
        BY <1>2, <2>1, <3>2 DEF Laid, Behind
      <4>2. QED
        BY <1>4, <3>1, <4>1
    <3>3. CASE rs # <<>>
      <4>1. r # 1 /\ r - 1 = Len(rs) /\ Len(rs) \in 1..Len(rs)
        BY <1>2, <2>1, <3>3
      <4>2. new[r - 1] = rs[Len(rs)]
        BY <1>2, <4>1
      <4>3. Len(o) + 1 = rs[Len(rs)].from + Len(RunBytes(rs[Len(rs)], w))
        BY <3>3 DEF Laid, Behind
      <4>4. QED
        BY <1>4, <3>1, <4>1, <4>2, <4>3
    <3>4. QED
      BY <3>2, <3>3
  <2>2. CASE r \in 1..Len(rs)
    <3>1. r \in DOMAIN rs /\ new[r] = rs[r] /\ (r # 1 => r - 1 \in 1..Len(rs) /\ new[r - 1] = rs[r - 1])
      BY <1>2, <2>2
    <3>2. /\ Writable(rs[r], w, n)
          /\ rs[r].from = IF r = 1 THEN 2 ELSE rs[r - 1].from + Len(RunBytes(rs[r - 1], w))
          /\ Holds(o, rs[r].from, RunBytes(rs[r], w))
      BY <3>1 DEF Laid
    <3>3. RunBytes(rs[r], w) \in Seq(Nat) /\ rs[r].from \in Nat
      BY <3>2, RunBytesType DEF Writable, Runs
    <3>5. rs[r].from \in Nat \ {0}
      BY <3>2, <3>3 DEF Writable
    <3>6. Holds(p, rs[r].from, RunBytes(rs[r], w))
      BY <1>1, <3>2, <3>3, <3>5, HoldsOn
    <3>7. QED
      BY <3>1, <3>2, <3>6
  <2>3. r \in 1..(Len(rs) + 1)
    BY <1>2
  <2>4. QED
    BY <1>2, <2>1, <2>2, <2>3
<1>7. QED
  BY <1>5, <1>6 DEF Laid, new

LEMMA NothingLaid ==
  ASSUME NEW w \in Nat, NEW n \in Nat
  PROVE  Laid(<<>>, <<w>>, w, n)
  BY DEF Laid, Behind

(* What EmitRle has in its hands.                                          *)
Emits(v, aligned, residual) ==
  /\ v \in Nat /\ v < Len(dict) /\ residual \in 1..Len(values)
  /\ aligned \in Seq(Nat) /\ Len(aligned) <= Len(values)
  /\ \A k \in 1..Len(aligned) : aligned[k] < Len(dict)
  /\ \E q \in Nat : Len(aligned) = q * Octet

LEMMA EmitParts ==
  ASSUME TypeOK, RunsInv, phase = "encode", i < Len(indices),
         NEW n \in 1..(Len(indices) - i), EmitRle(n)
  PROVE  Emits(indices[i + 1], pending \o Repeat(indices[i + 1], Borrow), n - Borrow)
<1> DEFINE v == indices[i + 1]
           b == Borrow
           rep == Repeat(v, b)
           c == Len(pending)
<1>1. /\ Emitted \in Nat /\ pending \in Seq(Nat) /\ indices \in Seq(Nat) /\ i \in Nat /\ c \in Nat
      /\ Emitted + c = i /\ Len(indices) = Len(values) /\ Len(indices) \in Nat
      /\ \A k \in DOMAIN indices : indices[k] < Len(dict)
      /\ \A k \in DOMAIN pending : pending[k] = indices[Emitted + k]
  BY DEF RunsInv, RunsSpellIndices, TypeOK, Chain
<1>2. b \in 0..(Octet - 1) /\ \E q \in Nat : c + b = q * Octet
  BY <1>1, BorrowAligns
<1>3. b \in Nat /\ n \in Nat /\ n - b \in Nat /\ n - b > 0 /\ n <= Len(values) - i
  <2>1. b \in Nat /\ n \in Nat
    BY <1>1, <1>2, OctetAssumption
  <2>2. n >= Threshold + b
    BY DEF EmitRle, RleWorthy
  <2>3. n <= Len(indices) - i
    BY <1>1
  <2> HIDE DEF b
  <2>4. n - b \in Nat /\ n - b > 0
    BY <2>1, <2>2, ThresholdAssumption
  <2>5. QED
    BY <1>1, <2>1, <2>3, <2>4
<1>4. v \in Nat /\ v < Len(dict)
  <2>1. i + 1 \in DOMAIN indices
    BY <1>1
  <2>2. QED
    BY <1>1, <2>1
<1> HIDE DEF v, b
<1>5. rep \in Seq(Nat) /\ Len(rep) = b /\ \A k \in 1..b : rep[k] = v
  BY <1>3, <1>4, RepeatType
<1> HIDE DEF rep
<1>6. pending \o rep \in Seq(Nat) /\ Len(pending \o rep) = c + b
  <2>1. pending \o rep \in Seq(Nat)
    BY <1>1, <1>5, Appended
  <2>2. Len(pending \o rep) = Len(pending) + Len(rep)
    BY <1>1, <1>5, AppendedLen
  <2>3. QED
    BY <1>5, <2>1, <2>2
<1>7. ASSUME NEW k \in 1..(c + b) PROVE (pending \o rep)[k] < Len(dict)
  <2>1. CASE k <= c
    <3>1. k \in DOMAIN pending /\ (pending \o rep)[k] = pending[k]
      BY <1>1, <1>5, <2>1
    <3>2. Emitted + k \in DOMAIN indices
      <4> DEFINE li == Len(indices)
      <4>1. Emitted + k \in 1..li
        <5>1. k \in Nat /\ k > 0
          BY <1>1, <1>3
        <5>2. li \in Nat /\ i < li
          BY <1>1
        <5> HIDE DEF li, c
        <5>3. QED
          BY <1>1, <2>1, <5>1, <5>2
      <4>2. QED
        BY <1>1, <4>1
    <3>3. QED
      BY <1>1, <3>1, <3>2
  <2>2. CASE k > c
    <3>1. k - c \in 1..b
      <4> HIDE DEF c
      <4>1. QED
        BY <1>1, <1>3, <2>2
    <3>2. (pending \o rep)[k] = rep[k - c]
      BY <1>1, <1>5, <2>2
    <3>3. rep[k - c] = v
      BY <1>5, <3>1
    <3>4. QED
      BY <1>4, <3>2, <3>3
  <2>3. k <= c \/ k > c
    <3> HIDE DEF c
    <3>1. QED
      BY <1>1, <1>3
  <2>4. QED
    BY <2>1, <2>2, <2>3
<1>8. c + b <= Len(values) /\ n - b \in 1..Len(values)
  <2> DEFINE lv == Len(values)
  <2>1. lv \in Nat /\ n <= lv - i
    BY <1>1, <1>3
  <2> HIDE DEF lv, c
  <2>2. c + b <= lv /\ n - b \in 1..lv
    BY <1>1, <1>3, <2>1
  <2>3. QED
    BY <2>2 DEF lv
<1>9. Emits(v, pending \o rep, n - b)
  BY <1>2, <1>4, <1>6, <1>7, <1>8 DEF Emits
<1>10. QED
  BY <1>9 DEF v, b, rep

(* Runs the encoder writes are fit to be read back.                        *)
Fit(e, w, n, from, bytes) == Writable(e, w, n) /\ e.from = from /\ RunBytes(e, w) = bytes

LEMMA RleWritable ==
  ASSUME NEW w \in Nat, NEW n \in Nat, NEW v \in Nat, v < Pow2(w), NEW count \in 1..n,
         NEW at \in Nat, NEW from \in Nat \ {0}
  PROVE  Fit(RleSpelling(at, v, count, from), w, n, from, RleRun(v, count, w))
<1> DEFINE e == RleSpelling(at, v, count, from)
<1>1. count \in Nat /\ count > 0 /\ count <= n
  OBVIOUS
<1>2. /\ Repeat(v, count) \in Seq(Nat) /\ Len(Repeat(v, count)) = count
      /\ \A k \in 1..count : Repeat(v, count)[k] = v
  BY <1>1, RepeatType
<1>3. e = [at |-> at, n |-> count, val |-> Repeat(v, count), from |-> from, packed |-> FALSE]
  BY DEF RleSpelling, Spelling
<1> HIDE DEF e
<1>4. e.n = count /\ e.val = Repeat(v, count) /\ e.from = from /\ ~e.packed /\ e.packed = FALSE
  BY <1>3
<1>5. e \in Runs
  BY <1>1, <1>2, <1>3 DEF Runs
<1>6. e.val[1] = v
  BY <1>1, <1>2, <1>4
<1>7. Writable(e, w, n)
  BY <1>1, <1>2, <1>4, <1>5, <1>6 DEF Writable
<1>8. Fit(e, w, n, from, RleRun(v, count, w))
  BY <1>4, <1>6, <1>7 DEF RunBytes, Fit
<1>9. QED
  BY <1>8 DEF e

LEMMA PackedWritable ==
  ASSUME NEW w \in Nat, NEW n \in Nat, NEW vals \in Seq(Nat),
         \A k \in 1..Len(vals) : vals[k] < Pow2(w),
         NEW q \in 1..n, Len(vals) = q * Octet,
         NEW at \in Nat, NEW from \in Nat \ {0}
  PROVE  Fit(PackedSpelling(at, vals, from), w, n, from, PackedRun(vals, w))
<1> DEFINE e == PackedSpelling(at, vals, from)
<1>1. q \in Nat /\ from \in Nat /\ Len(vals) \in Nat
  OBVIOUS
<1>2. e \in Runs /\ e = [at |-> at, n |-> Len(vals), val |-> vals, from |-> from, packed |-> TRUE]
  BY <1>1, PackedSpellingOf
<1> HIDE DEF e
<1>3. e.n = Len(vals) /\ e.val = vals /\ e.from = from /\ e.packed
  BY <1>2
<1>4. Len(vals) > 0
  <2>1. q >= 1 /\ q * Octet >= 1
    BY OctetAssumption
  <2>2. QED
    BY <2>1
<1>5. Writable(e, w, n)
  BY <1>1, <1>2, <1>3, <1>4 DEF Writable
<1>6. Fit(e, w, n, from, PackedRun(vals, w))
  BY <1>3, <1>5 DEF RunBytes, Fit
<1>7. QED
  BY <1>6 DEF e

PageBase == TypeOK /\ RunsInv /\ PageInv

LEMMA IndexFits ==
  ASSUME TypeOK
  PROVE  /\ BitWidth \in Nat /\ Len(values) \in Nat
         /\ \A v \in Nat : v < Len(dict) => v < Pow2(BitWidth)
<1>1. Len(dict) \in Nat /\ Len(values) \in Nat
  BY DEF TypeOK
<1>2. QED
  BY <1>1, WidthCovers DEF BitWidth

LEMMA GroupsOf ==
  ASSUME NEW g \in Nat, NEW m \in Nat, g * Octet = m, m > 0
  PROVE  g \in 1..m
<1>1. g # 0
  BY OctetAssumption
<1>2. g <= g * Octet
  BY OctetAssumption
<1>3. QED
  BY <1>1, <1>2

(* EmitRle writes the run it notes, or the packed run and then the other.  *)
LEMMA PageEmit ==
  ASSUME PageBase, phase = "encode", i < Len(indices), BitWidth > 0,
         NEW n \in 1..(Len(indices) - i), EmitRle(n)
  PROVE  Laid(runs', out', BitWidth, Len(values))
<1> DEFINE v == indices[i + 1]
           aligned == pending \o Repeat(v, Borrow)
           residual == n - Borrow
           w == BitWidth
           lv == Len(values)
           packed == PackedSpelling(Emitted, aligned, Len(out) + 1)
           flushed == out \o PackedRun(aligned, w)
           at == Emitted + packed.n
           here == RleSpelling(Emitted, v, residual, Len(out) + 1)
           behind == RleSpelling(at, v, residual, Len(flushed) + 1)
<1>1. Emits(v, aligned, residual)
  BY EmitParts DEF PageBase
<1>2. /\ Laid(runs, out, w, lv) /\ runs \in Seq(Runs) /\ out \in Seq(Nat) /\ Emitted \in Nat
      /\ w \in Nat /\ lv \in Nat
  BY IndexFits DEF PageBase, PageInv, RunsInv, Chain, TypeOK
<1>3. \/ aligned = <<>> /\ out' = out \o RleRun(v, residual, w) /\ runs' = Append(runs, here)
      \/ aligned # <<>> /\ out' = flushed \o RleRun(v, residual, w) /\ runs' = runs \o <<packed, behind>>
  BY DEF EmitRle
<1>4. \A x \in Nat : x < Len(dict) => x < Pow2(w)
  BY IndexFits DEF PageBase
<1>5. Len(out) + 1 \in Nat \ {0}
  BY <1>2
<1> HIDE DEF v, residual, w, lv
<1>6. CASE aligned = <<>>
  <2> HIDE DEF aligned, packed, flushed, at, behind
  <2>1. Writable(here, w, lv) /\ here.from = Len(out) + 1 /\ RunBytes(here, w) = RleRun(v, residual, w)
    <3>1. v \in Nat /\ v < Pow2(w) /\ residual \in 1..lv
      BY <1>1, <1>4 DEF Emits, lv
    <3>2. Fit(here, w, lv, Len(out) + 1, RleRun(v, residual, w))
      BY <1>2, <1>5, <3>1, RleWritable
    <3>3. QED
      BY <3>2 DEF Fit
  <2> HIDE DEF here
  <2>2. Laid(Append(runs, here), out \o RunBytes(here, w), w, lv)
    BY <1>2, <2>1, AppendLaid
  <2>3. out' = out \o RunBytes(here, w) /\ runs' = Append(runs, here)
    BY <1>3, <1>6, <2>1
  <2>4. QED
    BY <2>2, <2>3 DEF w, lv
<1>7. CASE aligned # <<>>
  <2> HIDE DEF aligned, here
  <2>1. aligned \in Seq(Nat) /\ \A k \in 1..Len(aligned) : aligned[k] < Pow2(w)
    <3>1. aligned \in Seq(Nat)
      BY <1>1 DEF Emits
    <3>2. \A k \in 1..Len(aligned) : aligned[k] \in Nat /\ aligned[k] < Len(dict)
      BY <1>1, <3>1 DEF Emits
    <3>3. QED
      BY <1>4, <3>1, <3>2
  <2>2. PICK q \in Nat : Len(aligned) = q * Octet
    BY <1>1 DEF Emits
  <2>3. q \in 1..lv
    <3>1. Len(aligned) \in Nat /\ Len(aligned) > 0 /\ Len(aligned) <= lv
      BY <1>1, <1>7, <2>1 DEF Emits, lv
    <3>2. q \in 1..Len(aligned)
      BY <2>2, <3>1, GroupsOf
    <3>3. QED
      BY <1>2, <3>1, <3>2
  <2>4. Writable(packed, w, lv) /\ packed.from = Len(out) + 1
        /\ RunBytes(packed, w) = PackedRun(aligned, w)
    <3> HIDE DEF flushed, at, behind
    <3>1. Fit(packed, w, lv, Len(out) + 1, PackedRun(aligned, w))
      BY <1>2, <1>5, <2>1, <2>2, <2>3, PackedWritable
    <3>2. QED
      BY <3>1 DEF Fit
  <2> HIDE DEF packed
  <2>5. Laid(Append(runs, packed), flushed, w, lv)
    BY <1>2, <2>4, AppendLaid
  <2>6. Append(runs, packed) \in Seq(Runs) /\ packed \in Runs
    BY <1>2, <2>4 DEF Writable
  <2>7. at \in Nat
    BY <1>2, <2>6 DEF Runs
  <2>8. flushed \in Seq(Nat) /\ Len(flushed) + 1 \in Nat \ {0}
    <3>1. PackedRun(aligned, w) \in Seq(Nat)
      BY <1>2, <2>1, RunTypes
    <3>2. flushed \in Seq(Nat)
      BY <1>2, <3>1, Appended
    <3> HIDE DEF flushed
    <3>3. QED
      BY <3>2
  <2> HIDE DEF flushed, at
  <2>9. Writable(behind, w, lv) /\ behind.from = Len(flushed) + 1
        /\ RunBytes(behind, w) = RleRun(v, residual, w)
    <3>1. v \in Nat /\ v < Pow2(w) /\ residual \in 1..lv
      BY <1>1, <1>4 DEF Emits, lv
    <3>2. Fit(behind, w, lv, Len(flushed) + 1, RleRun(v, residual, w))
      BY <1>2, <2>7, <2>8, <3>1, RleWritable
    <3>3. QED
      BY <3>2 DEF Fit
  <2> HIDE DEF behind
  <2>10. Laid(Append(Append(runs, packed), behind), flushed \o RunBytes(behind, w), w, lv)
    BY <1>2, <2>5, <2>6, <2>8, <2>9, AppendLaid
  <2>11. runs \o <<packed, behind>> = Append(Append(runs, packed), behind)
    <3>1. behind \in Runs
      BY <2>9 DEF Writable
    <3>2. QED
      BY <1>2, <2>6, <3>1
  <2>12. QED
    BY <1>3, <1>7, <2>9, <2>10, <2>11 DEF w, lv
<1>8. QED
  BY <1>6, <1>7

(* The padded flush writes the packed run it notes.                        *)
LEMMA PageFlush ==
  ASSUME PageBase, EndEncode, BitWidth > 0
  PROVE  Laid(runs', out', BitWidth, Len(values))
<1> DEFINE c == Len(pending)
           padded == PadTo(pending, Groups(c) * Octet)
           w == BitWidth
           lv == Len(values)
           packed == PackedSpelling(Emitted, padded, Len(out) + 1)
<1>1. /\ Laid(runs, out, w, lv) /\ runs \in Seq(Runs) /\ out \in Seq(Nat) /\ Emitted \in Nat
      /\ w \in Nat /\ lv \in Nat
  BY IndexFits DEF PageBase, PageInv, RunsInv, Chain, TypeOK, EndEncode
<1>2. /\ pending \in Seq(Nat) /\ c \in Nat /\ indices \in Seq(Nat) /\ Len(indices) = lv
      /\ \A k \in DOMAIN indices : indices[k] < Len(dict)
      /\ \A k \in DOMAIN pending : pending[k] = indices[Emitted + k]
      /\ Emitted + c = lv
  BY DEF PageBase, RunsInv, RunsSpellIndices, TypeOK, EndEncode
<1>3. \A x \in Nat : x < Len(dict) => x < Pow2(w)
  BY IndexFits DEF PageBase
<1>4. CASE pending = <<>>
  <2>1. out' = out /\ runs' = runs
    BY <1>4 DEF EndEncode
  <2>2. QED
    BY <1>1, <2>1
<1>5. CASE pending # <<>>
  <2>1. out' = out \o PackedRun(padded, w) /\ runs' = Append(runs, packed)
    BY <1>5 DEF EndEncode, FinalFlush, FlushOf
  <2>2. Groups(c) \in Nat /\ Groups(c) * Octet \in c..(c + Octet - 1) /\ Groups(c) * Octet \in Nat
    <3>1. Groups(c) \in Nat /\ Groups(c) * Octet \in c..(c + Octet - 1)
      BY <1>2, GroupsCover
    <3>2. QED
      BY <3>1, OctetAssumption
  <2>3. Groups(c) \in 1..lv
    <3> DEFINE g == Groups(c)
    <3>1. c > 0 /\ c <= lv
      <4>1. c > 0
        BY <1>2, <1>5
      <4> HIDE DEF c, lv
      <4>2. QED
        BY <1>1, <1>2, <4>1
    <3> HIDE DEF g, c
    <3>2. g # 0
      <4>1. g = 0 => g * Octet = 0
        BY OctetAssumption
      <4>2. g * Octet >= c
        BY <1>2, <2>2 DEF g
      <4>3. QED
        BY <1>2, <3>1, <4>1, <4>2
    <3>3. g <= c
      <4>1. \A x \in Nat : x > c => x * Octet >= c + Octet
        <5> SUFFICES ASSUME NEW x \in Nat, x > c PROVE x * Octet >= c + Octet
          OBVIOUS
        <5>1. x * Octet >= (c + 1) * Octet
          BY <1>2, OctetAssumption
        <5>2. (c + 1) * Octet = c * Octet + Octet /\ c * Octet >= c
          BY <1>2, OctetAssumption
        <5> DEFINE co == c * Octet
                   xo == x * Octet
        <5>3. co \in Nat /\ xo \in Nat /\ xo >= co + Octet /\ co >= c
          BY <1>2, <5>1, <5>2, OctetAssumption
        <5> HIDE DEF co, xo
        <5>4. xo >= c + Octet
          BY <1>2, <5>3, OctetAssumption
        <5>5. QED
          BY <5>4 DEF xo
      <4>2. g \in Nat /\ g * Octet \in Nat /\ ~(g * Octet >= c + Octet)
        <5>1. g \in Nat /\ g * Octet \in Nat /\ g * Octet <= c + Octet - 1
          BY <1>2, <2>2 DEF g
        <5> DEFINE go == g * Octet
        <5>2. go \in Nat /\ go <= c + Octet - 1
          BY <5>1
        <5> HIDE DEF go
        <5>3. ~(go >= c + Octet)
          BY <1>2, <5>2, OctetAssumption
        <5>4. QED
          BY <5>1, <5>3 DEF go
      <4>3. ~(g > c)
        BY <4>1, <4>2
      <4>4. QED
        BY <1>2, <4>2, <4>3
    <3>4. g \in 1..lv
      BY <1>1, <1>2, <2>2, <3>1, <3>2, <3>3 DEF g
    <3>5. QED
      BY <3>4 DEF g
  <2>4. /\ padded \in Seq(Nat) /\ Len(padded) = Groups(c) * Octet
        /\ \A k \in 1..Len(padded) : padded[k] < Pow2(w)
    <3>1. padded \in Seq(Nat) /\ Len(padded) = Groups(c) * Octet
      BY <1>2, <2>2, PadToType
    <3>2. ASSUME NEW k \in 1..Len(padded) PROVE padded[k] < Pow2(w)
      <4>1. padded[k] = IF k <= c THEN pending[k] ELSE 0
        <5>1. k \in 1..(Groups(c) * Octet)
          BY <3>1
        <5>2. QED
          BY <5>1 DEF PadTo
      <4>2. CASE k <= c
        <5>1. k \in 1..c /\ k \in DOMAIN pending
          BY <1>2, <3>1, <4>2
        <5>2. Emitted + k \in 1..lv
          <6> HIDE DEF c, lv
          <6>1. QED
            BY <1>1, <1>2, <5>1
        <5>3. Emitted + k \in DOMAIN indices
          BY <1>2, <5>2
        <5>4. indices[Emitted + k] \in Nat /\ indices[Emitted + k] < Len(dict)
          BY <1>2, <5>3
        <5>5. padded[k] = indices[Emitted + k]
          BY <1>2, <4>1, <4>2, <5>1
        <5>6. QED
          BY <1>3, <5>4, <5>5
      <4>3. CASE ~(k <= c)
        <5>1. Pow2(w) \in Nat \ {0}
          BY <1>1, Pow2Type
        <5>2. QED
          BY <4>1, <4>3, <5>1
      <4>4. QED
        BY <4>2, <4>3
    <3>3. QED
      BY <3>1, <3>2
  <2>5. Len(out) + 1 \in Nat \ {0}
    BY <1>1
  <2> HIDE DEF padded, w, lv
  <2>6. Writable(packed, w, lv) /\ packed.from = Len(out) + 1
        /\ RunBytes(packed, w) = PackedRun(padded, w)
    <3> DEFINE g == Groups(c)
    <3>1. g \in 1..lv /\ Len(padded) = g * Octet
      BY <2>3, <2>4
    <3> HIDE DEF g
    <3>2. Fit(packed, w, lv, Len(out) + 1, PackedRun(padded, w))
      BY <1>1, <2>4, <2>5, <3>1, PackedWritable
    <3>3. QED
      BY <3>2 DEF Fit
  <2> HIDE DEF packed
  <2>7. Laid(Append(runs, packed), out \o RunBytes(packed, w), w, lv)
    BY <1>1, <2>6, AppendLaid
  <2>8. QED
    BY <2>1, <2>6, <2>7 DEF w, lv
<1>6. QED
  BY <1>4, <1>5

LEMMA SingleType ==
  ASSUME TypeOK
  PROVE  SingleRun(indices, BitWidth) \in Seq(Nat)
<1>0. BitWidth \in Nat /\ indices \in Seq(Nat)
  BY BitWidthType DEF TypeOK
<1>1. Uvarint(2 * Len(indices)) \in Seq(Nat)
  <2>1. 2 * Len(indices) \in Nat
    BY <1>0
  <2>2. QED
    BY <2>1, UvarintType
<1> DEFINE padded == PadTo(indices, Groups(Len(indices)) * Octet)
<1>2. PackedRun(padded, BitWidth) \in Seq(Nat)
  <2>1. Len(indices) \in Nat
    BY <1>0
  <2>2. Groups(Len(indices)) * Octet \in Nat
    BY <2>1, GroupsCover, OctetAssumption
  <2>3. padded \in Seq(Nat)
    BY <1>0, <2>2, PadToType
  <2> HIDE DEF padded
  <2>4. QED
    BY <1>0, <2>3, RunTypes
<1>3. QED
  BY <1>1, <1>2 DEF SingleRun

LEMMA FirstStays ==
  ASSUME NEW s \in Seq(Nat), s # <<>>, NEW t \in Seq(Nat)
  PROVE  s \o t # <<>> /\ (s \o t)[1] = s[1]
<1>1. Len(s) \in Nat /\ Len(s) > 0 /\ Len(s \o t) = Len(s) + Len(t) /\ Len(t) \in Nat
  OBVIOUS
<1>2. (s \o t)[1] = s[1]
  BY <1>1
<1>3. s \o t # <<>>
  BY <1>1
<1>4. QED
  BY <1>2, <1>3

LEMMA Associated == \A s, t, u \in Seq(Nat) : (s \o t) \o u = s \o (t \o u)
  OBVIOUS

(* The encoder only appends.                                               *)
LEMMA OnlyAppends ==
  ASSUME TypeOK, EncodeRun \/ EndEncode
  PROVE  \E t \in Seq(Nat) : out' = out \o t
<1>1. out \in Seq(Nat) /\ pending \in Seq(Nat) /\ indices \in Seq(Nat) /\ BitWidth \in Nat
  BY BitWidthType DEF TypeOK
<1>2. <<>> \in Seq(Nat) /\ out = out \o <<>>
  BY <1>1
<1>3. CASE out' = out
  BY <1>2, <1>3
<1>4. CASE \E n \in 1..(Len(indices) - i) : EncodeRun /\ EmitRle(n)
  <2>1. PICK n \in 1..(Len(indices) - i) : EncodeRun /\ EmitRle(n)
    BY <1>4
  <2> DEFINE v == indices[i + 1]
             aligned == pending \o Repeat(v, Borrow)
             residual == n - Borrow
             p == PackedRun(aligned, BitWidth)
             u == RleRun(v, residual, BitWidth)
  <2>2. i + 1 \in DOMAIN indices /\ n \in Nat
    BY <1>1, <2>1 DEF EncodeRun, TypeOK
  <2>3. v \in Nat /\ Borrow \in Nat
    <3>1. Borrow \in 0..(Octet - 1)
      BY <1>1, BorrowAligns
    <3>2. QED
      BY <1>1, <2>2, <3>1, OctetAssumption
  <2>4. residual \in Nat
    <3>1. n >= Threshold + Borrow
      BY <2>1 DEF EmitRle, RleWorthy
    <3>2. QED
      BY <2>2, <2>3, <3>1, ThresholdAssumption
  <2>5. out' = out \o u \/ out' = (out \o p) \o u
    BY <2>1 DEF EmitRle
  <2> HIDE DEF v
  <2>6. aligned \in Seq(Nat)
    <3>1. Repeat(v, Borrow) \in Seq(Nat)
      BY <2>3, RepeatType
    <3>2. QED
      BY <1>1, <3>1, Appended
  <2> HIDE DEF aligned, residual
  <2>7. p \in Seq(Nat) /\ u \in Seq(Nat)
    BY <1>1, <2>3, <2>4, <2>6, RunTypes
  <2> HIDE DEF p, u
  <2>8. p \o u \in Seq(Nat) /\ (out \o p) \o u = out \o (p \o u)
    <3>1. p \o u \in Seq(Nat)
      BY <2>7, Appended
    <3>2. (out \o p) \o u = out \o (p \o u)
      BY ONLY <1>1, <2>7, Associated
    <3>3. QED
      BY <3>1, <3>2
  <2>9. QED
    BY <2>5, <2>7, <2>8
<1>5. CASE EndEncode
  <2> DEFINE padded == PadTo(pending, Groups(Len(pending)) * Octet)
  <2>1. Len(pending) \in Nat
    BY <1>1
  <2>2. Groups(Len(pending)) * Octet \in Nat
    BY <2>1, GroupsCover, OctetAssumption
  <2>3. padded \in Seq(Nat)
    BY <1>1, <2>2, PadToType
  <2>4. out' = out \/ out' = out \o PackedRun(padded, BitWidth)
    BY <1>5 DEF EndEncode, FinalFlush, FlushOf
  <2> HIDE DEF padded
  <2>5. PackedRun(padded, BitWidth) \in Seq(Nat)
    BY <1>1, <2>3, RunTypes
  <2>6. QED
    BY <1>2, <2>4, <2>5
<1>6. QED
  BY <1>3, <1>4, <1>5 DEF EncodeRun, Accumulate

LEMMA NextPage == PageBase /\ [Next]_vars => PageInv'
<1> SUFFICES ASSUME PageBase, [Next]_vars PROVE PageInv'
  OBVIOUS
<1>0. out \in Seq(Nat)
  BY DEF PageBase, TypeOK
<1>1. CASE Build
  BY <1>1 DEF Build, PageInv
<1>2. CASE BeginEncode
  <2>1. BitWidth' = BitWidth /\ values' = values
    BY <1>2 DEF BeginEncode, BitWidth
  <2>2. BitWidth \in Nat /\ Len(values) \in Nat
    BY IndexFits DEF PageBase
  <2>3. out' # <<>> /\ out'[1] = BitWidth
    <3>1. out' \in Seq(Nat)
      BY <1>2, OutType DEF PageBase
    <3>2. CASE out' = <<BitWidth>>
      BY <3>2
    <3>3. CASE out' = <<BitWidth>> \o SingleRun(indices, BitWidth)
      <4> DEFINE body == SingleRun(indices, BitWidth)
                 w == BitWidth
      <4>1. body \in Seq(Nat)
        BY <1>2, SingleType DEF PageBase
      <4>2. <<w>> \in Seq(Nat) /\ <<w>> # <<>> /\ <<w>>[1] = w
        BY <2>2
      <4> HIDE DEF body, w
      <4>3. <<w>> \o body # <<>> /\ (<<w>> \o body)[1] = w
        BY <4>1, <4>2, FirstStays
      <4>4. QED
        BY <3>3, <4>3 DEF w, body
    <3>4. QED
      BY <1>2, <3>2, <3>3 DEF BeginEncode
  <2>4. ASSUME BitWidth > 0 PROVE Laid(runs', out', BitWidth, Len(values))
    <3>1. runs' = <<>> /\ out' = <<BitWidth>>
      <4>1. BitWidth # 0
        BY <2>2, <2>4
      <4>2. CASE indices = <<>>
        <5>1. out' = <<BitWidth>> \o <<>> /\ runs' = <<>>
          BY <1>2, <4>2 DEF BeginEncode, SingleRun
        <5>2. QED
          BY <2>2, <5>1
      <4>3. CASE indices # <<>>
        BY <1>2, <4>1, <4>3 DEF BeginEncode
      <4>4. QED
        BY <4>2, <4>3
    <3>2. QED
      BY <2>2, <3>1, NothingLaid
  <2>5. QED
    BY <2>1, <2>3, <2>4 DEF PageInv
<1>3. CASE EncodeRun \/ EndEncode
  <2>1. BitWidth' = BitWidth /\ values' = values /\ phase = "encode"
    BY <1>3 DEF EncodeRun, EndEncode, BitWidth
  <2>2. out # <<>> /\ out[1] = BitWidth
    BY <2>1 DEF PageBase, PageInv
  <2>3. PICK t \in Seq(Nat) : out' = out \o t
    BY <1>3, OnlyAppends DEF PageBase
  <2>4. out' # <<>> /\ out'[1] = BitWidth
    BY <1>0, <2>2, <2>3, FirstStays
  <2>5. ASSUME BitWidth > 0 PROVE Laid(runs', out', BitWidth, Len(values))
    <3>1. CASE EncodeRun
      <4>1. PICK n \in 1..(Len(indices) - i) : EmitRle(n) \/ Accumulate(n)
        BY <3>1 DEF EncodeRun
      <4>2. i < Len(indices)
        BY <3>1 DEF EncodeRun
      <4>3. CASE EmitRle(n)
        BY <2>1, <2>5, <4>2, <4>3, PageEmit
      <4>4. CASE Accumulate(n)
        BY <2>1, <2>5, <4>4 DEF Accumulate, PageBase, PageInv
      <4>5. QED
        BY <4>1, <4>3, <4>4
    <3>2. CASE EndEncode
      BY <2>5, <3>2, PageFlush
    <3>3. QED
      BY <1>3, <3>1, <3>2
  <2>6. QED
    BY <2>1, <2>4, <2>5 DEF PageInv
<1>4. CASE UNCHANGED <<values, dict, out, runs>> /\ (phase' = "build" \/ phase # "build")
  <2>1. BitWidth' = BitWidth
    BY <1>4 DEF BitWidth
  <2>2. QED
    BY <1>4, <2>1 DEF PageBase, PageInv
<1>5. Build \/ BeginEncode \/ EncodeRun \/ EndEncode
      \/ (UNCHANGED <<values, dict, out, runs>> /\ (phase' = "build" \/ phase # "build"))
  BY DEF Next, OpenPage, DecodeConstant, DecodeRun, EndDecode, Finish, Done, vars
<1>6. QED
  BY <1>1, <1>2, <1>3, <1>4, <1>5

-----------------------------------------------------------------------------
(* Reading a run back.                                                     *)

LEMMA HoldsParts ==
  ASSUME NEW s \in Seq(Nat), NEW at \in Nat \ {0}, NEW t \in Seq(Nat), NEW u \in Seq(Nat),
         Holds(s, at, t \o u)
  PROVE  Holds(s, at, t) /\ Holds(s, at + Len(t), u)
<1> DEFINE c == t \o u
           lt == Len(t)
           lu == Len(u)
           ls == Len(s)
<1>1. lt \in Nat /\ lu \in Nat /\ ls \in Nat /\ Len(c) = lt + lu
  OBVIOUS
<1>2. /\ \A k \in 1..lt : c[k] = t[k]
      /\ \A k \in 1..lu : c[lt + k] = u[k]
  <2>1. ASSUME NEW k \in 1..lu PROVE c[lt + k] = u[k]
    <3>1. lt + k \in 1..(lt + lu) /\ lt + k > lt /\ (lt + k) - lt = k
      <4> HIDE DEF lt, lu
      <4>1. QED
        BY <1>1
    <3>2. QED
      BY <3>1
  <2>2. QED
    BY <2>1
<1>3. at + (lt + lu) - 1 <= ls /\ \A k \in 1..(lt + lu) : s[at + k - 1] = c[k]
  BY <1>1 DEF Holds
<1> HIDE DEF c, lt, lu, ls
<1>4. at + lt - 1 <= ls /\ (at + lt) + lu - 1 <= ls
  BY <1>1, <1>3
<1>5. \A k \in 1..lt : s[at + k - 1] = t[k]
  <2>1. \A k \in 1..lt : k \in 1..(lt + lu)
    BY <1>1
  <2>2. QED
    BY <1>2, <1>3, <2>1
<1>6. \A k \in 1..lu : s[(at + lt) + k - 1] = u[k]
  <2>1. \A k \in 1..lu : lt + k \in 1..(lt + lu) /\ at + (lt + k) - 1 = (at + lt) + k - 1
    BY <1>1
  <2>2. QED
    BY <1>2, <1>3, <2>1
<1>7. QED
  BY <1>4, <1>5, <1>6 DEF Holds, lt, lu, ls

LEMMA HeldBytes ==
  ASSUME NEW s \in Seq(Nat), NEW at \in Nat \ {0}, NEW t \in Seq(Nat), Holds(s, at, t)
  PROVE  SubSeq(s, at, at + Len(t) - 1) = t
<1> DEFINE lt == Len(t)
           c == SubSeq(s, at, at + lt - 1)
<1>1. lt \in Nat /\ at + lt - 1 <= Len(s) /\ \A k \in 1..lt : s[at + k - 1] = t[k]
  BY DEF Holds
<1>2. c = [k \in 1..lt |-> s[at + k - 1]]
  <2>1. (at + lt - 1) - at + 1 = lt /\ \A k \in 1..lt : k + at - 1 = at + k - 1
    <3> HIDE DEF lt
    <3>1. QED
      BY <1>1
  <2>2. c = [k \in 1..((at + lt - 1) - at + 1) |-> s[at + k - 1]]
    <3> HIDE DEF lt
    <3>1. QED
      BY <1>1
  <2>3. QED
    BY <2>1, <2>2
<1>3. t = [k \in 1..lt |-> t[k]]
  OBVIOUS
<1> HIDE DEF c, lt
<1>4. QED
  BY <1>1, <1>2, <1>3 DEF c, lt

LEMMA HeaderRead ==
  ASSUME out \in Seq(Nat), pos \in Nat \ {0},
         NEW h \in Nat, h < Pow2(PayloadBits * VarintBytes),
         NEW body \in Seq(Nat), Holds(out, pos, Uvarint(h) \o body)
  PROVE  /\ Header = h /\ UvarintLen(out, pos) = Len(Uvarint(h)) /\ UvarintLen(out, pos) > 0
         /\ BodyAt \in Nat \ {0} /\ BodyAt = pos + Len(Uvarint(h))
         /\ Holds(out, BodyAt, body)
<1>1. Uvarint(h) \in Seq(Nat) /\ Len(Uvarint(h)) \in Nat \ {0}
  BY UvarintType
<1>2. Holds(out, pos, Uvarint(h)) /\ Holds(out, pos + Len(Uvarint(h)), body)
  BY <1>1, HoldsParts
<1>3. UvarintLen(out, pos) = Len(Uvarint(h)) /\ UvarintAt(out, pos) = h
  BY <1>2, UvarintReads
<1>4. BodyAt = pos + Len(Uvarint(h))
  BY <1>3 DEF BodyAt
<1>5. QED
  BY <1>1, <1>2, <1>3, <1>4 DEF Header

LEMMA ClipType ==
  ASSUME NEW n \in Nat, Missing \in Nat
  PROVE  Clip(n) \in 0..n /\ Clip(n) <= Missing /\ Clip(n) \in {n, Missing}
<1> DEFINE S == {n, Missing}
<1>1. \E x \in S : \A y \in S : x <= y
  <2>1. n <= Missing \/ Missing <= n
    OBVIOUS
  <2>2. n <= n /\ Missing <= Missing
    OBVIOUS
  <2>3. QED
    BY <2>1, <2>2
<1>2. Clip(n) \in S /\ \A y \in S : Clip(n) <= y
  <2> HIDE DEF S
  <2>1. Min(S) \in S /\ \A y \in S : Min(S) <= y
    BY <1>1 DEF Min
  <2>2. Clip(n) = Min(S)
    BY DEF Clip, S
  <2>3. QED
    BY <2>1, <2>2
<1>3. QED
  BY <1>2

(* A reader at the first byte of the run e takes the run.                  *)
RunTaken(e) ==
  /\ RunReadable /\ NextRun = e.from + Len(RunBytes(e, BitWidth))
  /\ RunIndices = [k \in 1..Clip(e.n) |-> e.val[k]]

LEMMA BodyRead ==
  ASSUME out \in Seq(Nat), BodyAt \in Nat \ {0}, UvarintLen(out, pos) > 0,
         NEW body \in Seq(Nat), Holds(out, BodyAt, body), BodyLen = Len(body)
  PROVE  RunReadable /\ Chunk = body /\ NextRun = BodyAt + Len(body)
<1>1. SubSeq(out, BodyAt, BodyAt + Len(body) - 1) = body
  BY HeldBytes
<1>2. Chunk = body
  BY <1>1 DEF Chunk
<1>3. RunReadable
  BY DEF RunReadable, Holds
<1>4. QED
  BY <1>2, <1>3 DEF NextRun

LEMMA PackedTaken ==
  ASSUME out \in Seq(Nat), out # <<>>, out[1] = BitWidth, BitWidth \in Nat \ {0},
         Missing \in Nat, NEW n \in Nat, 2 * n + 1 < Pow2(PayloadBits * VarintBytes),
         NEW e, Writable(e, BitWidth, n), e.packed, pos = e.from,
         Holds(out, e.from, RunBytes(e, BitWidth))
  PROVE  RunTaken(e)
<1> DEFINE w == BitWidth
           val == e.val
           limit == Pow2(PayloadBits * VarintBytes)
<1>0. w \in Nat \ {0} /\ Octet \in Nat \ {0, 1} /\ Width = w
  BY OctetAssumption DEF Width
<1>1. /\ e \in Runs /\ pos \in Nat \ {0} /\ Len(val) = e.n /\ val \in Seq(Nat) /\ e.n \in Nat
      /\ \A k \in 1..e.n : val[k] < Pow2(w)
  <2>1. e \in Runs /\ e.from > 0 /\ Len(val) = e.n /\ \A k \in 1..e.n : val[k] < Pow2(w)
    BY DEF Writable
  <2>2. e.from \in Nat /\ val \in Seq(Nat) /\ e.n \in Nat
    BY <2>1 DEF Runs
  <2>3. QED
    BY <2>1, <2>2
<1>2. PICK q \in 1..n : e.n = q * Octet
  BY DEF Writable
<1>3. q \in Nat /\ q > 0 /\ q <= n
  OBVIOUS
<1> DEFINE body == PackLsbFirst(val, w)
           h == 2 * q + 1
           bytes == q * w
           m == e.n
<1>4. Len(val) \div Octet = q
  <2>1. (q * Octet + 0) \div Octet = q
    <3>1. 0 \in 0..(Octet - 1) /\ Octet \in Nat \ {0} /\ q \in Nat
      BY <1>0, <1>3
    <3>2. QED
      BY <3>1, DivUnique
  <2>2. q * Octet + 0 = q * Octet
    BY <1>0, <1>3
  <2>3. QED
    BY <1>1, <1>2, <2>1, <2>2
<1>5. body = Regroup(val, w, Octet, bytes) /\ bytes \in Nat /\ bytes * Octet = m * w
  <2>1. bytes \in Nat /\ (q * w) * Octet = (q * Octet) * w
    BY <1>0, <1>3
  <2>2. QED
    BY <1>2, <1>4, <2>1 DEF PackLsbFirst, PackedBytes
<1>6. RunBytes(e, w) = Uvarint(h) \o body
  BY <1>4 DEF RunBytes, PackedRun
<1> HIDE DEF w, val
<1>7. val \in [1..m -> 0..(Pow2(w) - 1)] /\ val \in [1..m -> Nat]
  <2>1. \A k \in 1..m : val[k] \in Nat /\ val[k] < Pow2(w)
    BY <1>1
  <2>2. Pow2(w) \in Nat \ {0}
    BY <1>0, Pow2Type
  <2>3. \A k \in 1..m : val[k] \in 0..(Pow2(w) - 1)
    BY <2>1, <2>2
  <2>4. DOMAIN val = 1..m /\ val = [k \in DOMAIN val |-> val[k]]
    BY <1>1
  <2> HIDE DEF m
  <2>5. QED
    BY <2>1, <2>3, <2>4
<1>8. body \in Seq(Nat) /\ Len(body) = bytes
  <2>1. bytes * Octet <= m * w
    <3> DEFINE mw == m * w
    <3>1. mw \in Nat
      BY <1>0, <1>1
    <3> HIDE DEF mw
    <3>2. mw <= mw
      BY <3>1
    <3>3. QED
      BY <1>5, <3>2 DEF mw
  <2> HIDE DEF body, bytes, m
  <2>2. m \in Nat
    BY <1>1 DEF m
  <2>3. SameBits(Regroup(val, w, Octet, bytes), val, w, Octet, bytes)
    BY <1>0, <1>5, <1>7, <2>1, <2>2, RegroupBits
  <2>4. body \in [1..bytes -> 0..(Pow2(Octet) - 1)]
    BY <1>5, <2>3 DEF SameBits
  <2>5. \A x \in 0..(Pow2(Octet) - 1) : x \in Nat
    <3>1. Pow2(Octet) \in Nat
      BY <1>0, Pow2Type
    <3>2. QED
      BY <3>1
  <2>6. body \in [1..bytes -> Nat]
    BY <2>4, <2>5
  <2>7. QED
    BY <1>5, <2>6
<1>9. h \in Nat /\ h < limit
  <2>1. limit \in Nat
    <3>1. PayloadBits * VarintBytes \in Nat
      BY PayloadType, VarintBytesAssumption
    <3>2. QED
      BY <3>1, Pow2Type
  <2>2. 2 * n + 1 < limit
    OBVIOUS
  <2> HIDE DEF limit
  <2>3. QED
    BY <1>3, <2>1, <2>2
<1> HIDE DEF h, body, bytes, m
<1>10. Holds(out, pos, Uvarint(h) \o body)
  BY <1>6 DEF w
<1>11. /\ Header = h /\ UvarintLen(out, pos) = Len(Uvarint(h)) /\ UvarintLen(out, pos) > 0
       /\ BodyAt \in Nat \ {0} /\ BodyAt = pos + Len(Uvarint(h)) /\ Holds(out, BodyAt, body)
  BY <1>1, <1>8, <1>9, <1>10, HeaderRead DEF limit
<1>12. IsPacked /\ Count = q
  <2>1. h = q * 2 + 1
    BY <1>3 DEF h
  <2>2. (q * 2 + 1) \div 2 = q /\ (q * 2 + 1) % 2 = 1
    <3>1. 1 \in 0..(2 - 1) /\ 2 \in Nat \ {0}
      OBVIOUS
    <3>2. QED
      BY <1>3, <3>1, DivUnique
  <2>3. QED
    BY <1>11, <2>1, <2>2 DEF IsPacked, Count
<1>13. BodyLen = bytes
  <2>1. BodyLen = (q * Octet * w + Octet - 1) \div Octet
    BY <1>0, <1>12 DEF BodyLen
  <2>2. q * Octet * w + Octet - 1 = bytes * Octet + (Octet - 1)
    <3>1. (q * Octet) * w = (q * w) * Octet /\ (q * w) * Octet \in Nat
      BY <1>0, <1>3
    <3> DEFINE x == (q * Octet) * w
               y == (q * w) * Octet
    <3>2. x = y /\ y \in Nat
      BY <3>1
    <3> HIDE DEF x, y
    <3>3. x + Octet - 1 = y + (Octet - 1)
      BY <1>0, <3>2
    <3>4. QED
      BY <3>3 DEF x, y, bytes
  <2>3. (bytes * Octet + (Octet - 1)) \div Octet = bytes
    <3>1. Octet - 1 \in 0..(Octet - 1) /\ Octet \in Nat \ {0}
      BY <1>0
    <3>2. QED
      BY ONLY <1>5, <3>1, DivUnique
  <2>4. QED
    BY <2>1, <2>2, <2>3
<1>14. RunReadable /\ Chunk = body /\ NextRun = BodyAt + Len(body)
  BY <1>8, <1>11, <1>13, BodyRead
<1>15. RunIndices = [k \in 1..Clip(m) |-> val[k]]
  <2> DEFINE c == Clip(m)
  <2>1. c \in 0..m /\ m \in Nat
    BY <1>1, ClipType DEF m
  <2>2. RunIndices = Unpack(body, c, w)
    BY <1>0, <1>2, <1>12, <1>14 DEF RunIndices, m
  <2> HIDE DEF c
  <2>3. Regroup(Regroup(val, w, Octet, bytes), Octet, w, c) = [k \in 1..c |-> val[k]]
    <3> HIDE DEF m
    <3>1. w \in Nat \ {0} /\ bytes \in Nat /\ m \in Nat
      BY <1>0, <1>5, <2>1
    <3>2. val \in [1..m -> 0..(Pow2(w) - 1)]
      BY <1>7
    <3>3. bytes * Octet = m * w
      BY <1>5
    <3>4. c \in 0..m
      BY <2>1
    <3>5. \A a, b \in Nat : \A s \in [1..b -> 0..(Pow2(w) - 1)] : \A x \in 0..b :
            a * Octet = b * w => Regroup(Regroup(s, w, Octet, a), Octet, w, x) = [k \in 1..x |-> s[k]]
      BY ONLY <3>1, RegroupBack
    <3>6. \A s \in [1..m -> 0..(Pow2(w) - 1)] : \A x \in 0..m :
            bytes * Octet = m * w => Regroup(Regroup(s, w, Octet, bytes), Octet, w, x) = [k \in 1..x |-> s[k]]
      BY ONLY <3>1, <3>5, Zenon
    <3>7. bytes * Octet = m * w => Regroup(Regroup(val, w, Octet, bytes), Octet, w, c) = [k \in 1..c |-> val[k]]
      BY ONLY <3>2, <3>4, <3>6, Zenon
    <3>8. QED
      BY ONLY <3>3, <3>7, Zenon
  <2>4. QED
    BY <1>5, <2>2, <2>3 DEF Unpack, c
<1>16. NextRun = e.from + Len(RunBytes(e, BitWidth))
  <2>1. Uvarint(h) \in Seq(Nat)
    BY <1>9, UvarintType
  <2>2. Len(Uvarint(h) \o body) = Len(Uvarint(h)) + Len(body)
    BY <1>8, <2>1, AppendedLen
  <2>3. Len(Uvarint(h)) \in Nat /\ Len(body) \in Nat
    BY <1>8, <2>1
  <2>4. QED
    BY <1>1, <1>6, <1>11, <1>14, <2>2, <2>3 DEF w
<1>17. QED
  BY <1>14, <1>15, <1>16 DEF RunTaken, m, val

LEMMA RleTaken ==
  ASSUME out \in Seq(Nat), out # <<>>, out[1] = BitWidth, BitWidth \in Nat \ {0},
         Missing \in Nat, NEW n \in Nat, 2 * n + 1 < Pow2(PayloadBits * VarintBytes),
         NEW e, Writable(e, BitWidth, n), ~e.packed, pos = e.from,
         Holds(out, e.from, RunBytes(e, BitWidth))
  PROVE  RunTaken(e)
<1> DEFINE w == BitWidth
           v == e.val[1]
           m == e.n
           limit == Pow2(PayloadBits * VarintBytes)
           h == 2 * m
           body == LittleEndian(v, w)
<1>0. w \in Nat /\ Width = w
  BY DEF Width
<1>1. /\ pos \in Nat \ {0} /\ m \in Nat /\ m > 0 /\ m <= n /\ v \in Nat /\ v < Pow2(w)
      /\ \A k \in 1..m : e.val[k] = v
  <2>1. e \in Runs /\ e.from > 0 /\ m > 0 /\ Len(e.val) = m /\ m <= n
        /\ \A k \in 1..m : e.val[k] = v
    BY DEF Writable
  <2>2. pos \in Nat \ {0} /\ m \in Nat /\ e.val \in Seq(Nat)
    BY <2>1 DEF Runs
  <2>3. 1 \in 1..m
    BY <2>1, <2>2
  <2>4. v \in Nat
    BY <2>1, <2>2, <2>3
  <2>5. v < Pow2(w)
    BY <2>3 DEF Writable
  <2>6. QED
    BY <2>1, <2>2, <2>4, <2>5
<1>2. RunBytes(e, w) = Uvarint(h) \o body
  BY DEF RunBytes, RleRun
<1> HIDE DEF w, v
<1>3. body \in Seq(Nat) /\ Len(body) = BytesFor(w) /\ LittleEndianAt(body) = v
  BY <1>0, <1>1, LittleEndianType, LittleEndianBack
<1>4. h \in Nat /\ h < limit
  <2>1. limit \in Nat
    <3>1. PayloadBits * VarintBytes \in Nat
      BY PayloadType, VarintBytesAssumption
    <3>2. QED
      BY <3>1, Pow2Type
  <2>2. 2 * n + 1 < limit
    OBVIOUS
  <2> HIDE DEF limit, m
  <2>3. QED
    BY <1>1, <2>1, <2>2
<1> HIDE DEF h, body, m
<1>5. Holds(out, pos, Uvarint(h) \o body)
  BY <1>2 DEF w
<1>6. /\ Header = h /\ UvarintLen(out, pos) = Len(Uvarint(h)) /\ UvarintLen(out, pos) > 0
      /\ BodyAt \in Nat \ {0} /\ BodyAt = pos + Len(Uvarint(h)) /\ Holds(out, BodyAt, body)
  BY <1>1, <1>3, <1>4, <1>5, HeaderRead DEF limit
<1>7. ~IsPacked /\ Count = m
  <2>1. h = m * 2 + 0
    BY <1>1 DEF h
  <2>2. (m * 2 + 0) \div 2 = m /\ (m * 2 + 0) % 2 = 0
    <3>1. 0 \in 0..(2 - 1) /\ 2 \in Nat \ {0}
      OBVIOUS
    <3>2. QED
      BY <1>1, <3>1, DivUnique
  <2>3. QED
    BY <1>6, <2>1, <2>2 DEF IsPacked, Count
<1>8. BodyLen = Len(body)
  BY <1>0, <1>3, <1>7 DEF BodyLen
<1>9. RunReadable /\ Chunk = body /\ NextRun = BodyAt + Len(body)
  BY <1>3, <1>6, <1>8, BodyRead
<1>10. RunIndices = [k \in 1..Clip(m) |-> e.val[k]]
  <2> DEFINE c == Clip(m)
  <2>1. c \in 0..m
    BY <1>1, ClipType
  <2>2. RunIndices = Repeat(v, c)
    BY <1>3, <1>7, <1>9 DEF RunIndices
  <2> HIDE DEF c
  <2>3. \A k \in 1..c : e.val[k] = v
    BY <1>1, <2>1
  <2>4. QED
    BY <2>2, <2>3 DEF Repeat, c
<1>11. NextRun = e.from + Len(RunBytes(e, BitWidth))
  <2>1. Uvarint(h) \in Seq(Nat)
    BY <1>4, UvarintType
  <2>2. Len(Uvarint(h) \o body) = Len(Uvarint(h)) + Len(body)
    BY <1>3, <2>1, AppendedLen
  <2>3. Len(Uvarint(h)) \in Nat /\ Len(body) \in Nat
    BY <1>3, <2>1
  <2>4. QED
    BY <1>1, <1>2, <1>6, <1>9, <2>2, <2>3 DEF w
<1>12. QED
  BY <1>9, <1>10, <1>11 DEF RunTaken, m

(* The reader stands at the first byte of run r.                           *)
Standing(r) ==
  /\ r \in DOMAIN runs /\ pos = runs[r].from /\ runs[r].at = Len(got)

ReadBase == PageBase /\ DictSpellsColumn /\ values \in Columns /\ CursorInv

LEMMA Decoding ==
  ASSUME ReadBase, phase = "decode"
  PROVE  /\ Missing \in Nat /\ Len(got) \in Nat /\ Len(values) \in Nat /\ Missing = Len(values) - Len(got)
         /\ Len(indices) = Len(values) /\ indices \in Seq(Nat) /\ BitWidth \in Nat
         /\ out \in Seq(Nat) /\ out # <<>> /\ out[1] = BitWidth /\ Width = BitWidth
         /\ got \in Seq(Keys \cup Nat) /\ values \in Seq(Keys)
<1>1. /\ got \in Seq(Keys \cup Nat) /\ Len(got) <= Len(values) /\ values \in Seq(Keys)
      /\ Len(indices) = Len(values) /\ indices \in Seq(Nat) /\ out \in Seq(Nat)
  BY DEF ReadBase, PageBase, CursorInv, TypeOK
<1>2. out # <<>> /\ out[1] = BitWidth
  BY DEF ReadBase, PageBase, PageInv
<1>3. BitWidth \in Nat
  BY BitWidthType DEF ReadBase, PageBase
<1>4. Len(got) \in Nat /\ Len(values) \in Nat
  BY <1>1
<1>5. QED
  BY <1>1, <1>2, <1>3, <1>4 DEF Missing, Width

LEMMA NextTaken ==
  ASSUME ReadBase, phase = "decode", BitWidth > 0, NEW r, Standing(r)
  PROVE  RunTaken(runs[r]) /\ Writable(runs[r], BitWidth, Len(values))
<1> DEFINE e == runs[r]
           n == Len(values)
<1>1. Laid(runs, out, BitWidth, n)
  BY DEF ReadBase, PageBase, PageInv
<1>2. Writable(e, BitWidth, n) /\ Holds(out, e.from, RunBytes(e, BitWidth)) /\ pos = e.from
  BY <1>1 DEF Laid, Standing
<1>3. /\ out \in Seq(Nat) /\ out # <<>> /\ out[1] = BitWidth /\ BitWidth \in Nat \ {0}
      /\ Missing \in Nat /\ n \in Nat
  BY Decoding
<1>4. 2 * n + 1 < Pow2(PayloadBits * VarintBytes)
  BY HeadersFit DEF ReadBase
<1> HIDE DEF e, n
<1>5. RunTaken(e)
  <2>1. CASE e.packed
    BY <1>2, <1>3, <1>4, <2>1, PackedTaken
  <2>2. CASE ~e.packed
    BY <1>2, <1>3, <1>4, <2>2, RleTaken
  <2>3. QED
    BY <2>1, <2>2
<1>6. QED
  BY <1>2, <1>5 DEF e, n

(* What a reader takes from the page where it stands: the next c indices   *)
(* of the column, all of them in range.                                    *)
Advance(c) ==
  /\ c \in 1..Missing
  /\ RunIndices = [k \in 1..c |-> indices[Len(got) + k]]
  /\ InRange(RunIndices)
  /\ Lookup(RunIndices) = [k \in 1..c |-> values[Len(got) + k]]

LEMMA TakenIndices ==
  ASSUME ReadBase, phase = "decode", Missing > 0, BitWidth > 0, NEW r, Standing(r)
  PROVE  Advance(Clip(runs[r].n)) /\ (Clip(runs[r].n) = runs[r].n \/ Clip(runs[r].n) = Missing)
<1> DEFINE e == runs[r]
           c == Clip(e.n)
           g == Len(got)
<1>1. /\ Missing \in Nat /\ g \in Nat /\ Missing = Len(values) - g
      /\ Len(indices) = Len(values) /\ Len(values) \in Nat
  BY Decoding
<1>2. RunIndices = [k \in 1..c |-> e.val[k]] /\ e \in Runs /\ e.n > 0
  BY NextTaken DEF RunTaken, Writable
<1>3. e.n \in Nat /\ e.n > 0 /\ e.at = g
  BY <1>2 DEF Runs, Standing
<1>4. c \in 1..Missing /\ c \in 1..e.n /\ (c = e.n \/ c = Missing)
  <2>1. c \in 0..e.n /\ c <= Missing /\ c \in {e.n, Missing}
    BY <1>1, <1>3, ClipType
  <2> HIDE DEF c
  <2>2. QED
    BY <1>1, <1>3, <2>1
<1> HIDE DEF c, g
<1>5. \A k \in 1..c : g + k \in DOMAIN indices /\ g + k \in DOMAIN values
  <2>1. \A k \in 1..c : g + k \in 1..Len(indices)
    BY <1>1, <1>4
  <2>2. indices \in Seq(Nat) /\ values \in Seq(Keys)
    BY Decoding
  <2>3. QED
    BY <1>1, <2>1, <2>2
<1>6. \A k \in 1..c : e.val[k] = indices[g + k]
  <2>1. \A k \in 1..e.n : e.at + k <= Len(indices) => e.val[k] = indices[e.at + k]
    BY DEF ReadBase, PageBase, RunsInv, RunsSpellIndices, Standing
  <2>2. \A k \in 1..c : k \in 1..e.n /\ g + k <= Len(indices)
    BY <1>1, <1>3, <1>4
  <2>3. QED
    BY <1>3, <2>1, <2>2
<1>7. RunIndices = [k \in 1..c |-> indices[g + k]]
  BY <1>2, <1>6 DEF c
<1>8. \A k \in 1..c : indices[g + k] \in Nat /\ indices[g + k] < Len(dict)
                      /\ dict[indices[g + k] + 1] = values[g + k]
  <2>1. \A k \in DOMAIN indices : /\ indices[k] \in Nat /\ indices[k] < Len(dict)
                                  /\ dict[indices[k] + 1] = values[k]
    <3>1. \A k \in DOMAIN indices : indices[k] < Len(dict) /\ indices[k] \in Nat
      BY DEF ReadBase, PageBase, TypeOK
    <3>2. \A k \in DOMAIN indices : dict[indices[k] + 1] = values[k]
      BY DEF ReadBase, DictSpellsColumn
    <3>3. QED
      BY <3>1, <3>2
  <2>2. QED
    BY <1>5, <2>1
<1>9. InRange(RunIndices)
  BY <1>7, <1>8 DEF InRange
<1>10. Lookup(RunIndices) = [k \in 1..c |-> values[g + k]]
  BY <1>7, <1>8 DEF Lookup
<1>11. QED
  BY <1>4, <1>7, <1>9, <1>10 DEF Advance, c, g

(* The run behind one that ends before the column does.                    *)
LEMMA RunBehind ==
  ASSUME ReadBase, phase = "decode", BitWidth > 0, NEW r, Standing(r),
         runs[r].at + runs[r].n < Len(values)
  PROVE  /\ r + 1 \in DOMAIN runs /\ runs[r + 1].at = runs[r].at + runs[r].n
         /\ runs[r + 1].from = NextRun
<1>1. /\ runs \in Seq(Runs) /\ r \in DOMAIN runs /\ Len(indices) = Len(values)
      /\ Emitted \in Len(indices)..(Len(indices) + Octet - 1)
      /\ \A s \in DOMAIN runs : runs[s].at = IF s = 1 THEN 0 ELSE runs[s - 1].at + runs[s - 1].n
  BY Decoding DEF ReadBase, PageBase, RunsInv, RunsSpellIndices, Chain, Standing
<1>2. r \in 1..Len(runs) /\ Len(runs) \in Nat
  BY <1>1
<1>3. r # Len(runs)
  <2> SUFFICES ASSUME r = Len(runs) PROVE FALSE
    OBVIOUS
  <2>1. runs # <<>>
    BY <1>2
  <2>2. Emitted = runs[r].at + runs[r].n
    BY <2>1 DEF Emitted
  <2>3. Len(values) \in Nat
    BY Decoding
  <2>4. QED
    BY <1>1, <2>2, <2>3, OctetAssumption
<1>4. r + 1 \in DOMAIN runs /\ r + 1 # 1 /\ (r + 1) - 1 = r
  BY <1>1, <1>2, <1>3
<1>5. runs[r + 1].from = runs[r].from + Len(RunBytes(runs[r], BitWidth))
  BY <1>4 DEF ReadBase, PageBase, PageInv, Laid
<1>6. NextRun = runs[r].from + Len(RunBytes(runs[r], BitWidth))
  BY NextTaken DEF RunTaken
<1>7. QED
  BY <1>1, <1>4, <1>5, <1>6

Shown(k) == IF reader = "fused" THEN values[k] ELSE indices[k]

(* DecodeRun takes a run.                                                  *)
LEMMA CursorDecode ==
  ASSUME ReadBase, DecodeRun
  PROVE  CursorInv' /\ phase' = "decode"
<1>1. /\ phase = "decode" /\ Missing > 0 /\ Width > 0
      /\ UNCHANGED <<values, dict, indices, out, runs, reader>>
  BY DEF DecodeRun
<1>2. /\ Missing \in Nat /\ Len(got) \in Nat /\ Len(values) \in Nat /\ Missing = Len(values) - Len(got)
      /\ Len(indices) = Len(values) /\ BitWidth > 0 /\ indices \in Seq(Nat)
      /\ got \in Seq(Keys \cup Nat) /\ values \in Seq(Keys)
  BY <1>1, Decoding
<1>3. PICK r \in DOMAIN runs : Standing(r)
  <2>1. Len(got) < Len(values)
    BY <1>1, <1>2
  <2>2. QED
    BY <1>1, <1>2, <2>1 DEF ReadBase, CursorInv, Standing
<1> DEFINE n == runs[r].n
           c == Clip(n)
           g == Len(got)
           taken == [k \in 1..c |-> Shown(g + k)]
<1>4. Advance(c) /\ (c = n \/ c = Missing)
  BY <1>1, <1>2, <1>3, TakenIndices
<1>5. RunTaken(runs[r]) /\ runs[r] \in Runs
  BY <1>1, <1>2, <1>3, NextTaken DEF Writable
<1>6. c \in 1..Missing /\ n \in Nat /\ runs[r].at = g
  BY <1>3, <1>4, <1>5 DEF Advance, Runs, Standing
<1>7. got' = got \o taken /\ pos' = NextRun /\ phase' = "decode"
  <2>1. RunReadable /\ InRange(RunIndices)
    BY <1>4, <1>5 DEF RunTaken, Advance
  <2>2. (IF reader = "fused" THEN Lookup(RunIndices) ELSE RunIndices) = taken
    BY <1>4 DEF Advance, Shown
  <2>3. /\ got' = got \o (IF reader = "fused" THEN Lookup(RunIndices) ELSE RunIndices)
        /\ pos' = NextRun /\ phase' = phase
    BY <2>1 DEF DecodeRun
  <2> HIDE DEF taken
  <2>4. QED
    BY <1>1, <2>2, <2>3
<1> HIDE DEF c, g, n
<1>8. /\ taken \in Seq(Keys \cup Nat) /\ Len(taken) = c
      /\ \A k \in 1..c : taken[k] = Shown(g + k)
  <2>1. \A k \in 1..c : g + k \in 1..Len(values)
    BY <1>2, <1>6 DEF g
  <2>2. \A j \in 1..Len(values) : Shown(j) \in Keys \cup Nat
    BY <1>2 DEF Shown
  <2>3. c \in Nat
    BY <1>2, <1>6
  <2>4. QED
    BY <2>1, <2>2, <2>3
<1> HIDE DEF taken
<1>9. /\ got' \in Seq(Keys \cup Nat) /\ Len(got') = g + c
      /\ \A k \in 1..g : got'[k] = got[k]
      /\ \A k \in 1..c : got'[g + k] = taken[k]
  <2> DEFINE S == Keys \cup Nat
             t == taken
  <2>1. got \in Seq(S) /\ t \in Seq(S) /\ got' = got \o t
    BY <1>2, <1>7, <1>8
  <2> HIDE DEF S, t
  <2>2. got' \in Seq(S) /\ Len(got') = Len(got) + Len(t)
    BY <2>1
  <2>3. \A k \in 1..Len(got) : got'[k] = got[k]
    BY <2>1
  <2>4. ASSUME NEW k \in 1..Len(t) PROVE got'[Len(got) + k] = t[k]
    <3>1. Len(got) + k > Len(got) /\ (Len(got) + k) - Len(got) = k
          /\ Len(got) + k \in 1..(Len(got) + Len(t))
      BY <2>1
    <3>2. QED
      BY <2>1, <3>1
  <2>5. QED
    BY <1>8, <2>2, <2>3, <2>4 DEF S, t, g
<1>10. Len(got') <= Len(values) /\ g \in Nat /\ c \in Nat
  BY <1>2, <1>6, <1>9 DEF g
<1>11. \A k \in 1..Len(got') : got'[k] = Shown(k)
  <2> SUFFICES ASSUME NEW k \in 1..Len(got') PROVE got'[k] = Shown(k)
    OBVIOUS
  <2>1. CASE k <= g
    <3>1. k \in 1..g
      BY <1>10, <2>1
    <3>2. got[k] = Shown(k)
      BY <1>1, <3>1 DEF ReadBase, CursorInv, Shown, g
    <3>3. QED
      BY <1>9, <3>1, <3>2
  <2>2. CASE k > g
    <3>1. k - g \in 1..c /\ g + (k - g) = k
      BY <1>9, <1>10, <2>2
    <3>2. QED
      BY <1>8, <1>9, <3>1
  <2>3. QED
    BY <1>10, <2>1, <2>2
<1>12. ASSUME Len(got') < Len(values)
       PROVE  \E s \in DOMAIN runs : pos' = runs[s].from /\ runs[s].at = Len(got')
  <2>1. c = n
    BY <1>2, <1>4, <1>9, <1>12 DEF g
  <2>2. runs[r].at + runs[r].n = Len(got')
    BY <1>6, <1>9, <2>1 DEF n
  <2>3. r + 1 \in DOMAIN runs /\ runs[r + 1].at = Len(got') /\ runs[r + 1].from = NextRun
    BY <1>1, <1>2, <1>3, <1>12, <2>2, RunBehind
  <2>4. QED
    BY <1>7, <2>3
<1>13. BitWidth' = BitWidth
  BY <1>1 DEF BitWidth
<1>14. reader = "u8" => BitWidth <= NarrowWidth
  BY <1>1 DEF ReadBase, CursorInv
<1>15. \A k \in 1..Len(got') : got'[k] = IF reader' = "fused" THEN values'[k] ELSE indices'[k]
  BY <1>1, <1>11 DEF Shown
<1>16. BitWidth' > 0 /\ Len(got') < Len(values') =>
          \E s \in DOMAIN runs' : pos' = runs'[s].from /\ runs'[s].at = Len(got')
  BY <1>1, <1>12
<1>17. QED
  BY <1>1, <1>2, <1>7, <1>9, <1>10, <1>13, <1>14, <1>15, <1>16 DEF CursorInv

(* The widths the u8 reader takes are those of the dictionaries it can     *)
(* index.                                                                  *)
LEMMA NarrowFits ==
  ASSUME TypeOK
  PROVE  BitWidth > NarrowWidth <=> Len(dict) > Pow2(NarrowWidth)
<1>1. Len(dict) \in Nat
  BY DEF TypeOK
<1>2. QED
  BY <1>1, NarrowWidthAssumption, WidthCovers DEF BitWidth

LEMMA CursorOpen ==
  ASSUME ReadBase, NEW r \in Readers, OpenPage(r)
  PROVE  CursorInv' /\ ReadBack'
<1>1. /\ phase = "written" /\ reader' = r /\ got = <<>> /\ got' = <<>>
      /\ UNCHANGED <<values, dict, indices, out, runs>>
  BY DEF OpenPage, ReadBase, CursorInv
<1>2. /\ out # <<>> /\ out[1] = BitWidth /\ Width = BitWidth /\ BitWidth \in Nat
      /\ Len(values) \in Nat /\ Len(indices) = Len(values) /\ BitWidth' = BitWidth
  BY <1>1, IndexFits DEF ReadBase, PageBase, PageInv, Width, TypeOK, BitWidth
<1>3. BitWidth > NarrowWidth <=> Len(dict) > Pow2(NarrowWidth)
  BY NarrowFits DEF ReadBase, PageBase
<1>4. CASE r = "u8" /\ Width > NarrowWidth
  <2>1. phase' = "done" /\ result' = "BitWidthOutOfRange"
    BY <1>4 DEF OpenPage
  <2>2. CursorInv'
    BY <2>1 DEF CursorInv
  <2>3. ReadBack'
    BY <1>1, <1>2, <1>3, <1>4, <2>1 DEF ReadBack
  <2>4. QED
    BY <2>2, <2>3
<1>5. CASE ~(r = "u8" /\ Width > NarrowWidth)
  <2>1. phase' = "decode" /\ pos' = 2
    BY <1>5 DEF OpenPage
  <2>2. ReadBack'
    BY <2>1 DEF ReadBack
  <2>3. ASSUME BitWidth > 0, 0 < Len(values)
        PROVE  1 \in DOMAIN runs /\ runs[1].from = 2 /\ runs[1].at = 0
    <3>1. Emitted >= Len(indices) /\ runs \in Seq(Runs)
      BY <1>1, <1>2 DEF ReadBase, PageBase, RunsInv, RunsSpellIndices, Chain
    <3>2. runs # <<>>
      BY <1>2, <2>3, <3>1 DEF Emitted
    <3>3. 1 \in DOMAIN runs
      BY <3>1, <3>2
    <3>4. runs[1].from = 2
      BY <1>1, <2>3, <3>3 DEF ReadBase, PageBase, PageInv, Laid
    <3>5. runs[1].at = 0
      BY <3>3 DEF ReadBase, PageBase, RunsInv, RunsSpellIndices
    <3>6. QED
      BY <3>3, <3>4, <3>5
  <2>4. Len(got') = 0 /\ got' \in Seq(Keys \cup Nat)
    BY <1>1
  <2>5. r = "u8" => BitWidth <= NarrowWidth
    BY <1>2, <1>5, NarrowWidthAssumption
  <2>6. \A k \in 1..Len(got') : got'[k] = IF reader' = "fused" THEN values'[k] ELSE indices'[k]
    BY <2>4
  <2>7. BitWidth' > 0 /\ Len(got') < Len(values') =>
          \E s \in DOMAIN runs' : pos' = runs'[s].from /\ runs'[s].at = Len(got')
    BY <1>1, <1>2, <2>1, <2>3, <2>4
  <2>8. CursorInv'
    BY <1>1, <1>2, <2>1, <2>4, <2>5, <2>6, <2>7 DEF CursorInv
  <2>9. QED
    BY <2>2, <2>8
<1>6. QED
  BY <1>4, <1>5

(* Indices in hand, looked up, are the column.                             *)
LEMMA AllLookedUp ==
  ASSUME ReadBase, phase = "decode"
  PROVE  /\ InRange(indices) /\ Lookup(indices) = values
         /\ Len(values) > 0 => Len(dict) > 0
<1>1. /\ indices \in Seq(Nat) /\ values \in Seq(Keys) /\ Len(indices) = Len(values)
      /\ Len(dict) \in Nat /\ \A k \in DOMAIN indices : indices[k] < Len(dict)
  BY DEF ReadBase, PageBase, TypeOK
<1>2. \A k \in DOMAIN indices : dict[indices[k] + 1] = values[k]
  BY DEF ReadBase, DictSpellsColumn
<1>3. values = [k \in DOMAIN indices |-> values[k]]
  <2>1. DOMAIN indices = DOMAIN values
    BY <1>1
  <2>2. QED
    BY <1>1, <2>1
<1>4. Lookup(indices) = values
  BY <1>2, <1>3 DEF Lookup
<1>5. Len(values) > 0 => Len(dict) > 0
  <2> SUFFICES ASSUME Len(values) > 0 PROVE Len(dict) > 0
    OBVIOUS
  <2>1. 1 \in DOMAIN indices
    BY <1>1
  <2>2. indices[1] \in Nat /\ indices[1] < Len(dict)
    BY <1>1, <2>1
  <2>3. QED
    BY <1>1, <2>2
<1>6. QED
  BY <1>1, <1>4, <1>5 DEF InRange

LEMMA CursorConstant ==
  ASSUME ReadBase, DecodeConstant
  PROVE  CursorInv' /\ ReadBack'
<1>1. /\ phase = "decode" /\ Missing > 0 /\ Width = 0
      /\ UNCHANGED <<values, dict, indices, out, runs, reader>>
  BY DEF DecodeConstant
<1>2. /\ Len(values) \in Nat /\ Missing = Len(values) - Len(got) /\ Len(indices) = Len(values)
      /\ BitWidth = 0 /\ indices \in Seq(Nat) /\ values \in Seq(Keys)
  BY <1>1, Decoding
<1>3. got = <<>>
  BY <1>1, <1>2 DEF ReadBase, CursorInv
<1>4. Missing = Len(values) /\ Len(values) > 0
  BY <1>1, <1>2, <1>3
<1>5. Len(dict) \in Nat /\ Len(dict) <= 1
  <2>1. Len(dict) \in Nat
    BY DEF ReadBase, PageBase, TypeOK
  <2>2. QED
    BY <1>2, <2>1, WidthCovers DEF BitWidth
<1>6. \A k \in DOMAIN indices : indices[k] = 0
  <2>1. \A k \in DOMAIN indices : indices[k] \in Nat /\ indices[k] < Len(dict)
    BY <1>2 DEF ReadBase, PageBase, TypeOK
  <2>2. QED
    BY <1>5, <2>1
<1>7. Repeat(0, Missing) = indices
  <2>1. indices = [k \in 1..Len(values) |-> indices[k]]
    BY <1>2
  <2>2. \A k \in 1..Len(values) : indices[k] = 0
    BY <1>2, <1>6
  <2>3. QED
    BY <1>4, <2>1, <2>2 DEF Repeat
<1>8. phase' = "done" /\ result' = "ok" /\ got' = values
  <2>1. InRange(indices) /\ Lookup(indices) = values
    BY <1>1, AllLookedUp
  <2>2. QED
    BY <1>7, <2>1 DEF DecodeConstant, Finish
<1>9. ~(Len(dict) > Pow2(NarrowWidth))
  <2>1. Pow2(NarrowWidth) \in Nat \ {0}
    BY NarrowWidthAssumption, Pow2Type
  <2>2. QED
    BY <1>5, <2>1
<1>10. QED
  BY <1>1, <1>8, <1>9 DEF CursorInv, ReadBack

LEMMA CursorEnd ==
  ASSUME ReadBase, EndDecode
  PROVE  CursorInv' /\ ReadBack'
<1>1. phase = "decode" /\ Missing = 0 /\ UNCHANGED <<values, dict, indices, out, runs, reader>>
  BY DEF EndDecode
<1>2. /\ Len(got) = Len(values) /\ Len(indices) = Len(values) /\ Len(values) \in Nat
      /\ indices \in Seq(Nat) /\ values \in Seq(Keys) /\ got \in Seq(Keys \cup Nat)
  BY <1>1, Decoding
<1>3. \A k \in 1..Len(got) : got[k] = IF reader = "fused" THEN values[k] ELSE indices[k]
  BY <1>1 DEF ReadBase, CursorInv
<1>4. InRange(indices) /\ Lookup(indices) = values
  BY <1>1, AllLookedUp
<1>5. phase' = "done" /\ result' = "ok" /\ got' = values
  <2>1. CASE reader = "fused"
    <3>1. got = values
      BY <1>2, <1>3, <2>1
    <3>2. QED
      BY <2>1, <3>1 DEF EndDecode, Finish
  <2>2. CASE reader # "fused"
    <3>1. got = indices
      BY <1>2, <1>3, <2>2
    <3>2. QED
      BY <1>4, <2>2, <3>1 DEF EndDecode, Finish
  <2>3. QED
    BY <2>1, <2>2
<1>6. ~(reader = "u8" /\ Len(dict) > Pow2(NarrowWidth))
  <2>1. reader = "u8" => BitWidth <= NarrowWidth
    BY <1>1 DEF ReadBase, CursorInv
  <2>2. BitWidth > NarrowWidth <=> Len(dict) > Pow2(NarrowWidth)
    BY NarrowFits DEF ReadBase, PageBase
  <2>3. BitWidth \in Nat
    BY BitWidthType DEF ReadBase, PageBase
  <2>4. QED
    BY <2>1, <2>2, <2>3, NarrowWidthAssumption
<1>7. QED
  BY <1>1, <1>5, <1>6 DEF CursorInv, ReadBack

LEMMA NextReadBack == ReadBase /\ ReadBack /\ [Next]_vars => CursorInv' /\ ReadBack'
<1> SUFFICES ASSUME ReadBase, ReadBack, [Next]_vars PROVE CursorInv' /\ ReadBack'
  OBVIOUS
<1>1. CASE Build \/ BeginEncode \/ EncodeRun \/ EndEncode
  <2>1. phase \in {"build", "encode"} /\ phase' \in {"build", "encode", "written"} /\ got' = got
    BY <1>1 DEF Build, BeginEncode, EncodeRun, EndEncode
  <2>2. QED
    BY <2>1 DEF ReadBase, CursorInv, ReadBack
<1>2. CASE \E r \in Readers : OpenPage(r)
  BY <1>2, CursorOpen
<1>3. CASE DecodeConstant
  BY <1>3, CursorConstant
<1>4. CASE DecodeRun
  <2>1. CursorInv' /\ phase' = "decode"
    BY <1>4, CursorDecode
  <2>2. QED
    BY <2>1 DEF ReadBack
<1>5. CASE EndDecode
  BY <1>5, CursorEnd
<1>6. CASE UNCHANGED vars
  <2>1. BitWidth' = BitWidth
    BY <1>6 DEF vars, BitWidth
  <2>2. UNCHANGED <<values, phase, dict, indices, runs, reader, pos, got, result>>
    BY <1>6 DEF vars
  <2>3. QED
    BY <2>1, <2>2 DEF ReadBase, CursorInv, ReadBack
<1>7. QED
  BY <1>1, <1>2, <1>3, <1>4, <1>5, <1>6 DEF Next, Done

(* A page reads back as the column that was written, for every column,     *)
(* byte size, threshold and run layout: each of the three readers          *)
(* (decode_rle_dictionary_into, the dict-preserved readers) that accepts   *)
(* the page's index width ends in the column, and the u8 reader refuses    *)
(* exactly the dictionaries whose indices need more than NarrowWidth bits. *)
THEOREM PageReadsBack == Spec => []ReadBack
<1> DEFINE Inv == PageInv /\ CursorInv /\ ReadBack /\ values \in Columns
<1>1. Init => Inv
  BY DEF Init, PageInv, CursorInv, ReadBack
<1>2. TypeOK /\ RunsInv /\ DictSpellsColumn /\ Inv /\ [Next]_vars => Inv'
  <2> SUFFICES ASSUME TypeOK, RunsInv, DictSpellsColumn, Inv, [Next]_vars PROVE Inv'
    OBVIOUS
  <2>1. PageInv'
    BY NextPage DEF PageBase
  <2>2. CursorInv' /\ ReadBack'
    BY NextReadBack DEF ReadBase, PageBase
  <2>3. values' = values
    BY DEF Next, Build, BeginEncode, EncodeRun, EndEncode, OpenPage, DecodeConstant, DecodeRun,
           EndDecode, Done, vars
  <2>4. QED
    BY <2>1, <2>2, <2>3
<1>3. Spec => []RunsInv
  BY InitRuns, NextRuns, TypeCorrect, PTL DEF Spec
<1>4. Inv => ReadBack
  OBVIOUS
<1> HIDE DEF Inv
<1>5. QED
  BY <1>1, <1>2, <1>3, <1>4, TypeCorrect, DictCorrect, PTL DEF Spec
=============================================================================
