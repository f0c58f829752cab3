----------------------------- MODULE NumberFacts -----------------------------
(***************************************************************************)
(* Facts that the proofs about trees of hashes need again and again:       *)
(* induction over the natural numbers, which functions defined by          *)
(* recursion exist, the powers of two, and division with a remainder.      *)
(*                                                                         *)
(* The library states induction for an operator P(_), which no prover here *)
(* can instantiate; for a set S it is a first-order statement, and         *)
(* {n \in Nat : P(n)} is such a set.                                       *)
(***************************************************************************)
EXTENDS Integers, FiniteSetTheorems, TLAPS

\* Every nonempty set of naturals has a least element.
LEMMA LeastNatural ==
  ASSUME NEW T \in SUBSET Nat, T # {}
  PROVE  \E x \in T : \A y \in T : x <= y
<1> DEFINE Less == {ss \in Nat \X Nat : ss[1] < ss[2]}
<1>1. OpToRel(<, Nat) = Less
  BY Zenon DEF OpToRel
<1>2. IsWellFoundedOn(Less, Nat)
  BY <1>1, NatLessThanWellFounded
<1>3. PICK x \in T : \A y \in T : ~(<<y, x>> \in Less)
  <2> HIDE DEF Less
  <2> QED BY <1>2, WFMin, Zenon
<1>4. ASSUME NEW y \in T PROVE x <= y
  <2>1. x \in Nat /\ y \in Nat
    OBVIOUS
  <2>2. ~(y < x)
    <3>1. ASSUME y < x PROVE <<y, x>> \in Less
      BY <2>1, <3>1
    <3> QED BY <1>3, <3>1
  <2> QED BY <2>1, <2>2
<1> QED BY <1>4

\* A set that holds 0 and with every number its successor holds all naturals.
LEMMA Induction ==
  ASSUME NEW S, 0 \in S, \A n \in Nat : n \in S => n + 1 \in S
  PROVE  \A n \in Nat : n \in S
<1>1. SUFFICES ASSUME NEW m \in Nat \ S PROVE FALSE
  OBVIOUS
<1>2. PICK x \in Nat \ S : \A y \in Nat \ S : x <= y
  BY <1>1, LeastNatural
<1>3. x # 0 /\ x - 1 \in Nat
  BY <1>2
<1>4. x - 1 \in S
  BY <1>2, <1>3
<1> QED BY <1>2, <1>3, <1>4

\* The same up to a bound.
LEMMA InductionUpTo ==
  ASSUME NEW m \in Nat, NEW S, 0 \in S, \A n \in 0 .. m - 1 : n \in S => n + 1 \in S
  PROVE  \A n \in 0 .. m : n \in S
<1> DEFINE T == {n \in Nat : n <= m => n \in S}
<1>1. 0 \in T
  OBVIOUS
<1>2. \A n \in Nat : n \in T => n + 1 \in T
  <2> TAKE n \in Nat
  <2> HAVE n \in T
  <2> SUFFICES ASSUME n + 1 <= m PROVE n + 1 \in S
    OBVIOUS
  <2> QED OBVIOUS
<1>3. \A n \in Nat : n \in T
  <2> HIDE DEF T
  <2> QED BY <1>1, <1>2, Induction
<1> QED BY <1>3

-----------------------------------------------------------------------------
(* Functions defined by recursion. *)

\* The ways to make each of m values, all in V, from the value before it; and the
\* function that starts with a given value and goes on that way.
Steps(m, V) == [1 .. m -> [V -> V]]
Follows(g, m, V, a, F) ==
  g \in [0 .. m -> V] /\ g[0] = a /\ \A n \in 1 .. m : g[n] = F[n][g[n - 1]]

\* A value and a step for each number define a function.
LEMMA Recursion ==
  ASSUME NEW m \in Nat, NEW V, NEW a \in V, NEW F \in Steps(m, V)
  PROVE  \E g : Follows(g, m, V, a, F)
<1> USE DEF Steps
<1> DEFINE Good(k, g) == g[0] = a /\ \A n \in 1 .. k : g[n] = F[n][g[n - 1]]
           S == {k \in 0 .. m : \E g \in [0 .. k -> V] : Good(k, g)}
<1>1. 0 \in S
  <2> DEFINE h == [n \in 0 .. 0 |-> a]
  <2>1. h \in [0 .. 0 -> V] /\ Good(0, h)
    OBVIOUS
  <2> HIDE DEF h, Good
  <2> QED BY <2>1
<1>2. ASSUME NEW k \in 0 .. m - 1, k \in S PROVE k + 1 \in S
  <2>1. PICK g \in [0 .. k -> V] : Good(k, g)
    BY <1>2
  <2> DEFINE h == [n \in 0 .. k + 1 |-> IF n = k + 1 THEN F[k + 1][g[k]] ELSE g[n]]
  <2>2. g[k] \in V /\ F[k + 1] \in [V -> V]
    OBVIOUS
  <2>3. F[k + 1][g[k]] \in V
    BY <2>2
  <2>4. h \in [0 .. k + 1 -> V]
    BY <2>3
  <2>5. h[0] = a
    BY <2>1
  <2>6. ASSUME NEW n \in 1 .. k + 1 PROVE h[n] = F[n][h[n - 1]]
    <3>1. CASE n = k + 1
      BY <3>1
    <3>2. CASE n # k + 1
      <4>1. n \in 1 .. k /\ n - 1 \in 0 .. k /\ n - 1 # k + 1
        BY <3>2
      <4> QED BY <2>1, <4>1, <3>2
    <3> QED BY <3>1, <3>2
  <2>7. Good(k + 1, h)
    BY <2>5, <2>6
  <2> HIDE DEF h
  <2> QED BY <2>4, <2>7
<1>3. m \in S
  <2> HIDE DEF S
  <2>1. \A k \in 0 .. m - 1 : k \in S => k + 1 \in S
    BY <1>2
  <2>2. \A k \in 0 .. m : k \in S
    BY <1>1, <2>1, InductionUpTo
  <2> QED BY <2>2
<1> QED BY <1>3 DEF Follows
-----------------------------------------------------------------------------
(* Powers of two.  The provers know 2 ^ n only as the number of subsets of a *)
(* set with n elements, which doubles when the set gets one more.            *)

\* The first power of two.
LEMMA PowerZero == 2 ^ 0 = 1
OBVIOUS

\* Powers of two are numbers.
LEMMA PowerNat == \A n \in Nat : 2 ^ n \in Nat
<1> TAKE n \in Nat
<1>1. IsFiniteSet(1 .. n) /\ Cardinality(1 .. n) = n
  BY FS_Interval
<1>2. IsFiniteSet(SUBSET (1 .. n)) /\ Cardinality(SUBSET (1 .. n)) = 2 ^ n
  BY <1>1, FS_SUBSET
<1> QED BY <1>2, FS_CardinalityType

\* Each is twice the one before.
LEMMA PowerStep == \A n \in Nat : 2 ^ (n + 1) = 2 * 2 ^ n
<1> TAKE n \in Nat
<1> DEFINE A == SUBSET (1 .. n)
           B == SUBSET (1 .. n + 1)
           f == [T \in A |-> T \cup {n + 1}]
<1>1. IsFiniteSet(A) /\ Cardinality(A) = 2 ^ n
  <2>1. IsFiniteSet(1 .. n) /\ Cardinality(1 .. n) = n
    BY FS_Interval
  <2> QED BY <2>1, FS_SUBSET
<1>2. IsFiniteSet(B) /\ Cardinality(B) = 2 ^ (n + 1)
  <2>1. IsFiniteSet(1 .. n + 1) /\ Cardinality(1 .. n + 1) = n + 1
    BY FS_Interval
  <2> QED BY <2>1, FS_SUBSET
<1>3. f \in Bijection(A, B \ A)
  <2>1. \A T \in A : n + 1 \notin T
    OBVIOUS
  <2>2. \A T \in A : T \cup {n + 1} \in B \ A
    <3> TAKE T \in A
    <3>1. \A x \in T \cup {n + 1} : x \in 1 .. n + 1
      OBVIOUS
    <3>2. n + 1 \notin 1 .. n
      OBVIOUS
    <3> QED BY <3>1, <3>2
  <2>3. f \in [A -> B \ A]
    BY <2>2
  <2>4. \A T, U \in A : f[T] = f[U] => T = U
    <3> SUFFICES ASSUME NEW T \in A, NEW U \in A, T \cup {n + 1} = U \cup {n + 1}
                 PROVE  T = U
      OBVIOUS
    <3> QED BY <2>1
  <2>5. \A U \in B \ A : \E T \in A : f[T] = U
    <3> TAKE U \in B \ A
    <3>1. \A x \in U : x \in 1 .. n \/ x = n + 1
      OBVIOUS
    <3>2. n + 1 \in U
      BY <3>1
    <3>3. U \ {n + 1} \in A
      BY <3>1
    <3>4. (U \ {n + 1}) \cup {n + 1} = U
      BY <3>2
    <3> QED BY <3>3, <3>4
  <2> HIDE DEF f, A, B
  <2> QED BY <2>3, <2>4, <2>5 DEF Bijection, Injection, Surjection, IsInjective
<1>4. IsFiniteSet(B \ A) /\ Cardinality(B \ A) = 2 ^ n
  <2> HIDE DEF f, A, B
  <2> QED BY <1>1, <1>3, FS_Bijection DEF ExistsBijection
<1>5. A \cap (B \ A) = {} /\ A \cup (B \ A) = B
  <2>1. \A x \in 1 .. n : x \in 1 .. n + 1
    OBVIOUS
  <2>2. A \subseteq B
    BY <2>1
  <2> HIDE DEF A, B
  <2> QED BY <2>2
<1>6. Cardinality(B) = 2 ^ n + 2 ^ n - 0
  <2> HIDE DEF f, A, B
  <2> QED BY <1>1, <1>4, <1>5, FS_Union, FS_EmptySet
<1> QED BY <1>2, <1>6, PowerNat

\* None is zero.
LEMMA PowerPositive == \A n \in Nat : 2 ^ n \in Nat /\ 2 ^ n >= 1
<1> DEFINE S == {n \in Nat : 2 ^ n >= 1}
<1>1. 0 \in S
  BY PowerZero
<1>2. \A n \in Nat : n \in S => n + 1 \in S
  BY PowerStep, PowerNat
<1>3. \A n \in Nat : n \in S
  <2> HIDE DEF S
  <2> QED BY <1>1, <1>2, Induction
<1> QED BY <1>3, PowerNat

\* The power of a sum.
LEMMA PowerSum == \A a, b \in Nat : 2 ^ (a + b) = 2 ^ a * 2 ^ b
<1> TAKE a \in Nat
<1> DEFINE S == {b \in Nat : 2 ^ (a + b) = 2 ^ a * 2 ^ b}
<1>1. 0 \in S
  BY PowerZero, PowerNat
<1>2. ASSUME NEW b \in Nat, b \in S PROVE b + 1 \in S
  <2>1. 2 ^ (a + b + 1) = 2 * 2 ^ (a + b)
    BY PowerStep
  <2>2. 2 ^ (b + 1) = 2 * 2 ^ b
    BY PowerStep
  <2>3. 2 ^ a \in Nat /\ 2 ^ b \in Nat /\ 2 ^ (a + b) \in Nat
    BY PowerNat
  <2>4. 2 ^ (a + (b + 1)) = 2 ^ (a + b + 1)
    OBVIOUS
  <2>5. 2 * (2 ^ a * 2 ^ b) = 2 ^ a * (2 * 2 ^ b)
    BY <2>3
  <2> QED BY <1>2, <2>1, <2>2, <2>4, <2>5
<1>3. \A b \in Nat : b \in S
  <2> HIDE DEF S
  <2>1. \A b \in Nat : b \in S => b + 1 \in S
    BY <1>2
  <2> QED BY <1>1, <2>1, Induction
<1> QED BY <1>3

\* A greater power is a multiple of a smaller one.
LEMMA PowerQuotient ==
  \A a, b \in Nat : a <= b => b - a \in Nat /\ 2 ^ b = 2 ^ a * 2 ^ (b - a)
<1> TAKE a, b \in Nat
<1> HAVE a <= b
<1>1. b - a \in Nat /\ a + (b - a) = b
  OBVIOUS
<1> QED BY <1>1, PowerSum

\* A greater exponent, a greater power: twice at least.
LEMMA PowerMonotone ==
  \A a, b \in Nat : a <= b => 2 ^ a <= 2 ^ b /\ (a < b => 2 * 2 ^ a <= 2 ^ b)
<1> TAKE a, b \in Nat
<1> HAVE a <= b
<1> DEFINE x == 2 ^ a
           y == 2 ^ (b - a)
<1>1. b - a \in Nat /\ 2 ^ b = x * y
  BY PowerQuotient
<1>2. x \in Nat /\ y \in Nat /\ x >= 1 /\ y >= 1
  BY <1>1, PowerPositive
<1>3. x * y >= x /\ (y >= 2 => x * y >= 2 * x)
  <2> HIDE DEF x, y
  <2> QED BY <1>2
<1>4. a < b => y >= 2
  <2> HAVE a < b
  <2>1. b - a - 1 \in Nat /\ (b - a - 1) + 1 = b - a
    OBVIOUS
  <2> QED BY <2>1, PowerStep, PowerPositive
<1> QED BY <1>1, <1>3, <1>4

\* Powers of two are told apart by their exponents.
LEMMA PowerInjective == \A a, b \in Nat : 2 ^ a = 2 ^ b => a = b
<1> TAKE a, b \in Nat
<1> HAVE 2 ^ a = 2 ^ b
<1>1. 2 ^ a >= 1 /\ 2 ^ a \in Nat
  BY PowerPositive
<1>2. ASSUME a < b PROVE FALSE
  <2>1. 2 * 2 ^ a <= 2 ^ b
    BY <1>2, PowerMonotone
  <2> QED BY <1>1, <2>1
<1>3. ASSUME b < a PROVE FALSE
  <2>1. 2 * 2 ^ b <= 2 ^ a
    BY <1>3, PowerMonotone
  <2> QED BY <1>1, <2>1
<1> QED BY <1>2, <1>3

-----------------------------------------------------------------------------
(* Division with a remainder. *)

\* Quotient and remainder.
LEMMA DivMod ==
  ASSUME NEW n \in Int, NEW d \in Nat, d > 0
  PROVE  /\ n \div d \in Int
         /\ n % d \in 0 .. d - 1
         /\ n = d * (n \div d) + (n % d)
         /\ n \in Nat => n \div d \in Nat
OBVIOUS

\* Quotient and remainder are the only numbers that do.
LEMMA DivModUnique ==
  ASSUME NEW n \in Int, NEW d \in Nat, d > 0, NEW k \in Int, NEW r \in 0 .. d - 1, n = d * k + r
  PROVE  n \div d = k /\ n % d = r
<1> DEFINE q == n \div d
           s == n % d
<1>1. q \in Int /\ s \in 0 .. d - 1 /\ n = d * q + s
  BY DivMod
<1> HIDE DEF q, s
<1>2. d * (q - k) = r - s
  BY <1>1
<1>3. ~(q - k >= 1)
  <2> SUFFICES ASSUME q - k >= 1 PROVE FALSE
    OBVIOUS
  <2>1. d * (q - k) >= d
    BY <1>1
  <2> QED BY <1>1, <1>2, <2>1
<1>4. ~(q - k <= -1)
  <2> SUFFICES ASSUME k - q >= 1 PROVE FALSE
    BY <1>1
  <2>1. d * (k - q) >= d
    BY <1>1
  <2>2. d * (k - q) = s - r
    BY <1>1
  <2> QED BY <1>1, <2>2, <2>1
<1>5. q = k
  BY <1>1, <1>3, <1>4
<1>6. s = r
  BY <1>1, <1>5
<1> QED BY <1>5, <1>6 DEF q, s

\* A multiple of the divisor leaves the remainder alone.
LEMMA DivModAddMultiple ==
  ASSUME NEW n \in Int, NEW d \in Nat, d > 0, NEW k \in Int
  PROVE  (n + d * k) \div d = n \div d + k /\ (n + d * k) % d = n % d
<1>1. n + d * k = d * (n \div d + k) + (n % d)
  BY DivMod
<1>2. n + d * k \in Int /\ n \div d + k \in Int /\ n % d \in 0 .. d - 1
  BY DivMod
<1> QED BY <1>1, <1>2, DivModUnique

\* Counting on by one.
LEMMA DivModNext ==
  ASSUME NEW n \in Int, NEW d \in Nat, d > 0
  PROVE  /\ (n + 1) % d = 0 => (n + 1) \div d = n \div d + 1 /\ n % d = d - 1
         /\ (n + 1) % d # 0 => (n + 1) \div d = n \div d /\ (n + 1) % d = (n % d) + 1
<1> DEFINE q == n \div d
           r == n % d
<1>1. q \in Int /\ r \in 0 .. d - 1 /\ n = d * q + r
  BY DivMod
<1>2. CASE r = d - 1
  <2>1. n + 1 = d * (q + 1) + 0 /\ 0 \in 0 .. d - 1 /\ q + 1 \in Int
    <3> HIDE DEF q, r
    <3> QED BY <1>1, <1>2
  <2>2. (n + 1) \div d = q + 1 /\ (n + 1) % d = 0
    <3> HIDE DEF q, r
    <3>1. n + 1 \in Int
      OBVIOUS
    <3> QED BY <2>1, <3>1, DivModUnique
  <2> QED BY <2>2, <1>2
<1>3. CASE r # d - 1
  <2>1. n + 1 = d * q + (r + 1) /\ r + 1 \in 0 .. d - 1
    <3> HIDE DEF q, r
    <3> QED BY <1>1, <1>3
  <2>2. (n + 1) \div d = q /\ (n + 1) % d = r + 1
    <3> HIDE DEF q, r
    <3> QED BY <1>1, <2>1, DivModUnique
  <2> QED BY <2>2, <1>1
<1> QED BY <1>2, <1>3

\* Dividing twice.
LEMMA DivModTwice ==
  ASSUME NEW n \in Int, NEW a \in Nat, a > 0, NEW b \in Nat, b > 0
  PROVE  /\ n \div (a * b) = (n \div a) \div b
         /\ n % (a * b) = a * ((n \div a) % b) + (n % a)
         /\ (n % (a * b)) \div a = (n \div a) % b
         /\ (n % (a * b)) % a = n % a
<1> DEFINE q == n \div a
           r == n % a
           qq == q \div b
           rr == q % b
<1>1. q \in Int /\ r \in 0 .. a - 1 /\ n = a * q + r
  BY DivMod
<1>2. qq \in Int /\ rr \in 0 .. b - 1 /\ q = b * qq + rr
  <2> HIDE DEF q
  <2> QED BY DivMod, <1>1
<1>3. a * b \in Nat /\ a * b > 0
  OBVIOUS
<1>4. n = (a * b) * qq + (a * rr + r)
  <2> HIDE DEF q, r, qq, rr
  <2>1. n = a * (b * qq + rr) + r
    BY <1>1, <1>2
  <2>2. a * (b * qq + rr) = (a * b) * qq + a * rr
    BY <1>2
  <2> QED BY <1>1, <1>2, <2>1, <2>2
<1>5. a * rr + r \in 0 .. a * b - 1
  <2> HIDE DEF q, r, qq, rr
  <2>1. a * rr >= 0 /\ a * rr <= a * (b - 1)
    BY <1>2
  <2>2. a * (b - 1) = a * b - a
    OBVIOUS
  <2> QED BY <1>1, <1>2, <2>1, <2>2
<1>6. n \div (a * b) = qq /\ n % (a * b) = a * rr + r
  <2> HIDE DEF q, r, qq, rr
  <2> QED BY <1>2, <1>3, <1>4, <1>5, DivModUnique
<1>7. (a * rr + r) \div a = rr /\ (a * rr + r) % a = r
  <2> HIDE DEF q, r, qq, rr
  <2>1. a * rr + r \in Int
    BY <1>1, <1>2
  <2> QED BY <1>1, <1>2, <2>1, DivModUnique
<1> QED BY <1>6, <1>7

=============================================================================
