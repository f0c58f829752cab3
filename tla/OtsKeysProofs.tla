----------------------------- MODULE OtsKeysProofs -----------------------------
(***************************************************************************)
(* Proofs about OtsKeys: whatever a derivation object was used for before, *)
(* the secrets it gives are determined by the leaf and the number of the   *)
(* chain, and differ; a signature leads to the key of its leaf, and does   *)
(* not sign any other message.                                             *)
(***************************************************************************)
EXTENDS OtsKeys, NumberFacts, SequenceTheorems

-----------------------------------------------------------------------------
(* Numbers and sequences. *)

\* The smallest number of a set.
LEMMA MinIsLeast ==
  ASSUME NEW T \in SUBSET Nat, T # {}
  PROVE  Min(T) \in T /\ \A y \in T : Min(T) <= y
<1>1. PICK x \in T : \A y \in T : x <= y
  BY LeastNatural
<1>2. Min(T) = CHOOSE m \in T : \A y \in T : m <= y
  BY Zenon DEF Min
<1> QED BY <1>1, <1>2

\* The largest number of a bounded set.
LEMMA MaxIsGreatest ==
  ASSUME NEW m \in Nat, NEW T \in SUBSET (0 .. m), T # {}
  PROVE  Max(T) \in T /\ \A y \in T : y <= Max(T)
<1> DEFINE R == {m - y : y \in T}
<1>1. R \in SUBSET Nat /\ R # {}
  <2>1. \A y \in T : m - y \in Nat
    OBVIOUS
  <2> QED BY <2>1
<1>2. PICK x \in R : \A y \in R : x <= y
  BY <1>1, LeastNatural
<1>3. PICK z \in T : x = m - z
  BY <1>2
<1>4. \A y \in T : y <= z
  BY <1>2, <1>3
<1>5. Max(T) = CHOOSE y \in T : \A v \in T : y >= v
  BY Zenon DEF Max
<1> QED BY <1>4, <1>5

\* The greater one of zero and a number.
LEMMA MaxWithZero == \A x \in Int : Max({0, x}) = IF x <= 0 THEN 0 ELSE x
<1> TAKE x \in Int
<1>1. Max({0, x}) = CHOOSE y \in {0, x} : \A v \in {0, x} : y >= v
  BY Zenon DEF Max
<1>2. CASE x <= 0
  BY <1>1, <1>2
<1>3. CASE ~(x <= 0)
  BY <1>1, <1>3
<1> QED BY <1>2, <1>3

\* A function on 1 .. m is a sequence.
LEMMA FunctionIsSequence ==
  ASSUME NEW m \in Nat, NEW S, NEW f \in [1 .. m -> S]
  PROVE  f \in Seq(S) /\ Len(f) = m
OBVIOUS

\* A shift that two numbers have in common, any longer one they have in common too.
LEMMA LongerShift ==
  ASSUME NEW x \in Nat, NEW y \in Nat, NEW s \in Nat, NEW t \in Nat, s <= t,
         x \div 2 ^ s = y \div 2 ^ s
  PROVE  x \div 2 ^ t = y \div 2 ^ t
<1> DEFINE a == 2 ^ s
           b == 2 ^ (t - s)
<1>1. t - s \in Nat /\ 2 ^ t = a * b
  BY PowerQuotient
<1>2. a \in Nat /\ a > 0 /\ b \in Nat /\ b > 0
  BY <1>1, PowerPositive
<1>3. x \div a = y \div a
  OBVIOUS
<1> HIDE DEF a, b
<1>4. x \div (a * b) = (x \div a) \div b /\ y \div (a * b) = (y \div a) \div b
  BY <1>2, DivModTwice
<1> QED BY <1>1, <1>3, <1>4

\* A number below a power of two has no more bits.
LEMMA NoHighBits ==
  ASSUME NEW x \in Nat, NEW s \in Nat, x < 2 ^ s
  PROVE  x \div 2 ^ s = 0
<1>1. 2 ^ s \in Nat /\ 2 ^ s > 0
  BY PowerPositive
<1>2. x = 2 ^ s * 0 + x /\ x \in 0 .. 2 ^ s - 1
  BY <1>1
<1> QED BY <1>1, <1>2, DivModUnique

\* Powers that the parameter sets need.
LEMMA SmallPowers ==
  /\ 2 ^ 1 = 2 /\ 2 ^ 2 = 4 /\ 2 ^ 3 = 8 /\ 2 ^ 4 = 16 /\ 2 ^ 5 = 32 /\ 2 ^ 6 = 64
  /\ 2 ^ 7 = 128 /\ 2 ^ 8 = 256 /\ 2 ^ 9 = 512 /\ 2 ^ 10 = 1024
  /\ 2 ^ 16 = 65536 /\ 2 ^ 30 = 1073741824
<1>1. 2 ^ 1 = 2 * 2 ^ 0 /\ 2 ^ 2 = 2 * 2 ^ 1 /\ 2 ^ 3 = 2 * 2 ^ 2 /\ 2 ^ 4 = 2 * 2 ^ 3 /\ 2 ^ 5 = 2 * 2 ^ 4
  <2>1. 2 ^ (0 + 1) = 2 * 2 ^ 0 /\ 2 ^ (1 + 1) = 2 * 2 ^ 1 /\ 2 ^ (2 + 1) = 2 * 2 ^ 2
    BY PowerStep
  <2>2. 2 ^ (3 + 1) = 2 * 2 ^ 3 /\ 2 ^ (4 + 1) = 2 * 2 ^ 4
    BY PowerStep
  <2> QED BY <2>1, <2>2
<1>2. 2 ^ 1 = 2 /\ 2 ^ 2 = 4 /\ 2 ^ 3 = 8 /\ 2 ^ 4 = 16 /\ 2 ^ 5 = 32
  BY <1>1, PowerZero
<1>3. 2 ^ (1 + 5) = 2 ^ 1 * 2 ^ 5 /\ 2 ^ (2 + 5) = 2 ^ 2 * 2 ^ 5 /\ 2 ^ (3 + 5) = 2 ^ 3 * 2 ^ 5
      /\ 2 ^ (4 + 5) = 2 ^ 4 * 2 ^ 5 /\ 2 ^ (5 + 5) = 2 ^ 5 * 2 ^ 5
  BY PowerSum
<1>4. 2 ^ 6 = 64 /\ 2 ^ 7 = 128 /\ 2 ^ 8 = 256 /\ 2 ^ 9 = 512 /\ 2 ^ 10 = 1024
  BY <1>2, <1>3
<1>5. 2 ^ (8 + 8) = 2 ^ 8 * 2 ^ 8 /\ 2 ^ (10 + 10) = 2 ^ 10 * 2 ^ 10
  BY PowerSum
<1>6. 2 ^ 16 = 65536 /\ 2 ^ 20 = 1048576
  BY <1>4, <1>5
<1>7. 2 ^ (20 + 10) = 2 ^ 20 * 2 ^ 10
  BY PowerSum
<1>8. 2 ^ 30 = 1073741824
  BY <1>4, <1>6, <1>7
<1> QED BY <1>2, <1>4, <1>6, <1>8

-----------------------------------------------------------------------------
(* Parameters. *)

P(b) == lm_ots_look_up_parameter_set(b.w).p

JHeight(b) == my_log2(P(b) + NUM_ARTIFICIAL_SEEDS)

JLen(b) == Levels(b, JHeight(b))
QLen(b) == Levels(b, b.height)

\* The logarithm that my_log2 finds.
LEMMA Log2Facts ==
  ASSUME NEW x \in Nat, x < 2 ^ 30
  PROVE  /\ my_log2(x) \in 0 .. 30 /\ x < 2 ^ my_log2(x)
         /\ \A lg \in 0 .. 30 : x < 2 ^ lg => my_log2(x) <= lg
<1> DEFINE T == {lg \in 0 .. 30 : x < 2 ^ lg}
<1>1. T \in SUBSET Nat /\ T # {}
  <2>1. 30 \in T
    OBVIOUS
  <2>2. \A lg \in T : lg \in 0 .. 30
    OBVIOUS
  <2> HIDE DEF T
  <2> QED BY <2>1, <2>2
<1>2. my_log2(x) = Min(T)
  BY DEF my_log2
<1>3. Min(T) \in T /\ \A y \in T : Min(T) <= y
  BY <1>1, MinIsLeast
<1> QED BY <1>2, <1>3

\* The number of low bits in which two numbers may differ.
LEMMA BitsChangedFacts ==
  ASSUME NEW x \in Nat, x < 2 ^ 30, NEW y \in Nat, y < 2 ^ 30
  PROVE  /\ BitsChanged(x, y) \in 0 .. 30
         /\ x \div 2 ^ BitsChanged(x, y) = y \div 2 ^ BitsChanged(x, y)
<1> DEFINE T == {lg \in 0 .. 30 : x \div 2 ^ lg = y \div 2 ^ lg}
<1>1. x \div 2 ^ 30 = 0 /\ y \div 2 ^ 30 = 0
  BY NoHighBits
<1>2. T \in SUBSET Nat /\ T # {}
  <2>1. 30 \in T
    BY <1>1
  <2>2. \A lg \in T : lg \in 0 .. 30
    OBVIOUS
  <2> HIDE DEF T
  <2> QED BY <2>1, <2>2
<1>3. BitsChanged(x, y) = Min(T)
  BY DEF BitsChanged
<1>4. Min(T) \in T
  BY <1>2, MinIsLeast
<1> QED BY <1>3, <1>4

\* The levels of a tree are enough for its leaves, and one less is not.
LEMMA LevelsFacts ==
  ASSUME NEW b \in Builds, NEW bits \in Nat
  PROVE  /\ Levels(b, bits) \in Nat /\ bits <= Levels(b, bits) * b.secret_max
         /\ bits > 0 => Levels(b, bits) >= 1 /\ (Levels(b, bits) - 1) * b.secret_max < bits
<1> DEFINE s == b.secret_max
           l == (bits + s - 1) \div s
           r == (bits + s - 1) % s
<1>1. s \in 1 .. 31
  BY BuildsAreBuilds
<1> HIDE DEF s
<1>2. l \in Int /\ r \in 0 .. s - 1 /\ bits + s - 1 = s * l + r
  BY <1>1, DivMod
<1>3. l = Levels(b, bits)
  BY DEF Levels, s
<1> HIDE DEF l, r
<1>4. l >= 0
  <2>1. s * l >= 0
    BY <1>1, <1>2
  <2>2. ASSUME l <= -1 PROVE FALSE
    <3>1. s * l <= s * (-1) /\ s * (-1) = -s
      BY <1>1, <1>2, <2>2
    <3>2. s * l \in Int
      BY <1>1, <1>2
    <3> QED BY <1>1, <2>1, <3>1, <3>2
  <2> QED BY <1>2, <2>2
<1>5. bits <= l * s /\ (l - 1) * s < bits
  <2>1. l * s = s * l /\ (l - 1) * s = s * l - s
    BY <1>1, <1>2
  <2> QED BY <1>1, <1>2, <2>1
<1>6. bits > 0 => l >= 1
  <2>1. ASSUME l = 0 PROVE bits <= 0
    BY <1>1, <1>5, <2>1
  <2> QED BY <1>2, <1>4, <2>1
<1> QED BY <1>2, <1>3, <1>4, <1>5, <1>6 DEF s

\* The parameter sets of lm_ots_common.c.
LEMMA ParameterSets ==
  ASSUME NEW b \in Builds
  PROVE  /\ b.w \in {1, 2, 4, 8}
         /\ lm_ots_look_up_parameter_set(b.w) = [w |-> b.w, p |-> P(b), ls |-> lm_ots_look_up_parameter_set(b.w).ls]
         /\ P(b) \in 34 .. 265
<1>1. b.w \in {1, 2, 4, 8}
  BY BuildsAreBuilds
<1> QED BY <1>1 DEF lm_ots_look_up_parameter_set, P

\* The j-tree has room for all chains and the three other secrets, and j for its values.
LEMMA JHeightFacts ==
  ASSUME NEW b \in Builds
  PROVE  JHeight(b) \in 1 .. 9 /\ P(b) + 3 < 2 ^ JHeight(b)
<1> DEFINE x == P(b) + 3
<1>1. x \in 37 .. 268
  <2>1. P(b) \in 34 .. 265
    BY ParameterSets
  <2> QED BY <2>1
<1>2. x < 2 ^ 30 /\ x < 2 ^ 9 /\ ~(x < 2 ^ 0)
  BY <1>1, SmallPowers, PowerZero
<1>3. my_log2(x) \in 0 .. 30 /\ x < 2 ^ my_log2(x) /\ my_log2(x) <= 9
  BY <1>1, <1>2, Log2Facts
<1>4. JHeight(b) = my_log2(x)
  BY DEF JHeight, NUM_ARTIFICIAL_SEEDS
<1>5. my_log2(x) # 0
  BY <1>2, <1>3
<1> HIDE DEF x
<1> QED BY <1>3, <1>4, <1>5 DEF x

\* The paths of a build.
LEMMA PathLengths ==
  ASSUME NEW b \in Builds
  PROVE  /\ QLen(b) \in Nat \ {0} /\ (QLen(b) - 1) * b.secret_max < b.height
         /\ b.height <= QLen(b) * b.secret_max
         /\ JLen(b) \in Nat \ {0} /\ (JLen(b) - 1) * b.secret_max < JHeight(b)
         /\ JHeight(b) <= JLen(b) * b.secret_max
<1>1. b.height \in 1 .. 25 /\ JHeight(b) \in 1 .. 9
  BY BuildsAreBuilds, JHeightFacts
<1>2. /\ QLen(b) \in Nat /\ b.height <= QLen(b) * b.secret_max
      /\ b.height > 0 => QLen(b) >= 1 /\ (QLen(b) - 1) * b.secret_max < b.height
  <2>1. b.height \in Nat
    BY <1>1
  <2> QED BY <2>1, LevelsFacts DEF QLen
<1>3. /\ JLen(b) \in Nat /\ JHeight(b) <= JLen(b) * b.secret_max
      /\ JHeight(b) > 0 => JLen(b) >= 1 /\ (JLen(b) - 1) * b.secret_max < JHeight(b)
  <2>1. JHeight(b) \in Nat
    BY <1>1
  <2> QED BY <2>1, LevelsFacts DEF JLen
<1> QED BY <1>1, <1>2, <1>3

-----------------------------------------------------------------------------
(* Paths of secrets. *)

\* A secret tells what was hashed.
LEMMA DerivedFacts ==
  /\ \A path : Derived(path)[2] = path /\ Derived(path)[1] = "secret"
  /\ \A p1, p2 : Derived(p1) = Derived(p2) => p1 = p2
BY DEF Derived

\* Hashing on from somewhere on a path leads where the whole path leads.
LEMMA HashedOn ==
  ASSUME NEW S, NEW t \in Seq(S), NEW inputs \in Seq(S),
         NEW k \in 0 .. Len(inputs), NEW i \in k .. Len(inputs)
  PROVE  (t \o SubSeq(inputs, 1, k)) \o SubSeq(inputs, k + 1, i) = t \o SubSeq(inputs, 1, i)
<1>1. Len(inputs) \in Nat /\ \A l \in 1 .. Len(inputs) : inputs[l] \in S
  BY LenProperties, ElementOfSeq
<1> DEFINE u == SubSeq(inputs, 1, k)
           v == SubSeq(inputs, k + 1, i)
<1>2. u \in Seq(S)
  <2>1. \A l \in 1 .. k : inputs[l] \in S
    BY <1>1
  <2> QED BY <1>1, <2>1, SubSeqProperties
<1>3. v \in Seq(S)
  <2>1. \A l \in k + 1 .. i : inputs[l] \in S
    BY <1>1
  <2>2. k + 1 \in Int /\ i \in Int
    BY <1>1
  <2> QED BY <2>1, <2>2, SubSeqProperties
<1>4. u \o v = SubSeq(inputs, 1, i)
  <2>1. 1 \in 1 .. Len(inputs) + 1 /\ k \in 1 - 1 .. Len(inputs)
    BY <1>1
  <2> QED BY <2>1, ConcatAdjacentSubSeq
<1>5. (t \o u) \o v = t \o (u \o v)
  <2> HIDE DEF u, v
  <2> QED BY <1>2, <1>3, ConcatAssociative
<1> QED BY <1>4, <1>5

\* Wherever the path is kept as it should be, the new one is as it should be everywhere.
LEMMA PathIsHashed ==
  ASSUME NEW S, NEW t \in Seq(S), NEW inputs \in Seq(S), NEW kept \in 0 .. Len(inputs), NEW secrets,
         \A i \in 1 .. kept : secrets[i] = Derived(t \o SubSeq(inputs, 1, i))
  PROVE  PathSecrets(Derived(t), secrets, kept, inputs)
           = [i \in 1 .. Len(inputs) |-> Derived(t \o SubSeq(inputs, 1, i))]
<1> DEFINE from == IF kept = 0 THEN Derived(t) ELSE secrets[kept]
<1>1. PathSecrets(Derived(t), secrets, kept, inputs)
        = [i \in 1 .. Len(inputs) |->
             IF i <= kept THEN secrets[i] ELSE Hashed(from, SubSeq(inputs, kept + 1, i))]
  BY DEF PathSecrets
<1>2. Len(inputs) \in Nat
  BY LenProperties
<1>3. ASSUME NEW i \in 1 .. Len(inputs), ~(i <= kept)
      PROVE  Hashed(from, SubSeq(inputs, kept + 1, i)) = Derived(t \o SubSeq(inputs, 1, i))
  <2>1. CASE kept = 0
    <3>1. from[1] = "secret" /\ from[2] = t
      BY <2>1, DerivedFacts
    <3> HIDE DEF from
    <3> QED BY <2>1, <3>1 DEF Hashed, Derived
  <2>2. CASE kept # 0
    <3>1. kept \in 1 .. kept /\ i \in kept .. Len(inputs)
      BY <1>2, <1>3, <2>2
    <3>2. from[1] = "secret" /\ from[2] = t \o SubSeq(inputs, 1, kept)
      <4>1. from = Derived(t \o SubSeq(inputs, 1, kept))
        BY <2>2, <3>1
      <4> HIDE DEF from
      <4> QED BY <4>1, DerivedFacts
    <3>3. from[2] \o SubSeq(inputs, kept + 1, i) = t \o SubSeq(inputs, 1, i)
      <4> HIDE DEF from
      <4> QED BY <3>1, <3>2, HashedOn
    <3> HIDE DEF from
    <3> QED BY <3>2, <3>3 DEF Hashed, Derived
  <2> QED BY <2>1, <2>2
<1>4. ASSUME NEW i \in 1 .. Len(inputs), i <= kept
      PROVE  secrets[i] = Derived(t \o SubSeq(inputs, 1, i))
  <2>1. i \in 1 .. kept
    BY <1>2, <1>4
  <2> QED BY <2>1
<1> HIDE DEF from
<1> QED BY <1>1, <1>3, <1>4

\* What is hashed on the way to the secrets of a leaf, and of a j with its mark.
QIn(b, q) == [i \in 1 .. QLen(b) |-> QTree("I", Above(b, q + 2 ^ b.height, QLen(b), i))]
JVal(b, m) == [i \in 1 .. JLen(b) |-> Above(b, m, JLen(b), i)]
JIn(b, q, m) == [i \in 1 .. JLen(b) |-> Prg("I", q, Above(b, m, JLen(b), i))]

Marked(b, x) == (x % 2 ^ JHeight(b)) + 2 ^ JHeight(b)

Inputs == {QTree("I", r) : r \in Nat} \cup {Prg("I", q, j) : q \in Nat, j \in Int}

QSecrets(b, q) == [i \in 1 .. QLen(b) |-> Derived(<<>> \o SubSeq(QIn(b, q), 1, i))]
JSecrets(b, q, m) ==
  [i \in 1 .. JLen(b) |-> Derived(QIn(b, q) \o SubSeq(JIn(b, q, m), 1, i))]

SecretOf(b, q, x) ==
  Derived(IF b.method = "hash" THEN <<Prg("I", q, x)>> ELSE QIn(b, q) \o JIn(b, q, Marked(b, x)))

Fresh(b) == 2 ^ b.height
LeavesOf(b) == 0 .. 2 ^ b.height - 1

\* Marked values of j are numbers.
LEMMA MarkedFacts ==
  ASSUME NEW b \in Builds, NEW x \in Int
  PROVE  /\ 2 ^ JHeight(b) \in Nat /\ 2 ^ JHeight(b) > 0
         /\ x % 2 ^ JHeight(b) \in 0 .. 2 ^ JHeight(b) - 1
         /\ Marked(b, x) \in 2 ^ JHeight(b) .. 2 * 2 ^ JHeight(b) - 1
<1> DEFINE d == 2 ^ JHeight(b)
<1>1. JHeight(b) \in Nat
  BY JHeightFacts
<1>2. d \in Nat /\ d > 0
  BY <1>1, PowerPositive
<1> HIDE DEF d
<1>3. x % d \in 0 .. d - 1
  BY <1>2, DivMod
<1>4. Marked(b, x) = (x % d) + d
  BY DEF Marked, d
<1>5. (x % d) + d \in d .. 2 * d - 1
  BY <1>2, <1>3
<1> QED BY <1>2, <1>3, <1>4, <1>5 DEF d

\* What a level of a path sees is a number.
LEMMA AboveNat ==
  ASSUME NEW b \in Builds, NEW x \in Nat, NEW len \in Nat, NEW i \in 1 .. len
  PROVE  /\ (len - i) * b.secret_max \in Nat /\ 2 ^ ((len - i) * b.secret_max) \in Nat
         /\ 2 ^ ((len - i) * b.secret_max) > 0
         /\ Above(b, x, len, i) \in Nat
<1>1. b.secret_max \in Nat /\ len - i \in Nat
  BY BuildsAreBuilds
<1> DEFINE s == (len - i) * b.secret_max
           d == 2 ^ s
<1>2. s \in Nat
  BY <1>1
<1>3. d \in Nat /\ d > 0
  <2> HIDE DEF s
  <2> QED BY <1>2, PowerPositive
<1>4. x \div d \in Nat
  <2> HIDE DEF d
  <2> QED BY <1>3, DivMod
<1> QED BY <1>2, <1>3, <1>4 DEF Above

\* The trees of a build have leaves.
LEMMA LeafFacts ==
  ASSUME NEW b \in Builds
  PROVE  /\ Fresh(b) \in Nat /\ Fresh(b) > 0 /\ 2 * Fresh(b) <= 2 ^ 30
         /\ \A q \in LeavesOf(b) : q \in Nat /\ q < Fresh(b)
<1>1. b.height \in Nat /\ b.height < 30
  BY BuildsAreBuilds
<1>2. 2 ^ b.height \in Nat /\ 2 ^ b.height >= 1
  BY <1>1, PowerPositive
<1>3. 2 * 2 ^ b.height <= 2 ^ 30
  <2>1. 30 \in Nat /\ b.height <= 30
    BY <1>1
  <2> QED BY <1>1, <2>1, PowerMonotone
<1> QED BY <1>2, <1>3 DEF Fresh, LeavesOf

\* The inputs of a path.
LEMMA PathInputs ==
  ASSUME NEW b \in Builds, NEW q \in LeavesOf(b), NEW m \in Nat
  PROVE  /\ QIn(b, q) \in Seq(Inputs) /\ Len(QIn(b, q)) = QLen(b)
         /\ JIn(b, q, m) \in Seq(Inputs) /\ Len(JIn(b, q, m)) = JLen(b)
<1>1. QLen(b) \in Nat /\ JLen(b) \in Nat /\ q \in Nat /\ q + 2 ^ b.height \in Nat
  BY PathLengths, LeafFacts DEF Fresh
<1>2. \A i \in 1 .. QLen(b) : Above(b, q + 2 ^ b.height, QLen(b), i) \in Nat
  BY <1>1, AboveNat
<1>3. \A i \in 1 .. JLen(b) : Above(b, m, JLen(b), i) \in Nat
  BY <1>1, AboveNat
<1>4. QIn(b, q) \in [1 .. QLen(b) -> Inputs]
  BY <1>2 DEF QIn, Inputs
<1>5. JIn(b, q, m) \in [1 .. JLen(b) -> Inputs]
  BY <1>1, <1>3 DEF JIn, Inputs
<1> QED BY <1>1, <1>4, <1>5, FunctionIsSequence

-----------------------------------------------------------------------------
(* The path that is kept. *)

\* The levels that set_q keeps on the way from leaf r to leaf q see the same part of both;
\* it keeps none of a fresh object.
LEMMA KeptFacts ==
  ASSUME NEW b \in Builds, NEW q \in LeavesOf(b), NEW r \in 0 .. Fresh(b)
  PROVE  LET k == Max({0, QLen(b) - Levels(b, BitsChanged(q, r))})
         IN  /\ k \in 0 .. QLen(b)
             /\ r = Fresh(b) => k = 0
             /\ r # Fresh(b) => \A i \in 1 .. k : Above(b, q + 2 ^ b.height, QLen(b), i)
                                                    = Above(b, r + 2 ^ b.height, QLen(b), i)
<1> DEFINE bc == BitsChanged(q, r)
           l == Levels(b, bc)
           s == b.secret_max
           k == Max({0, QLen(b) - l})
<1>1. q \in Nat /\ r \in Nat /\ q < Fresh(b) /\ q < 2 ^ 30 /\ r < 2 ^ 30
  BY LeafFacts
<1>2. bc \in 0 .. 30 /\ q \div 2 ^ bc = r \div 2 ^ bc
  BY <1>1, BitsChangedFacts
<1>3. s \in Nat /\ s > 0 /\ b.height \in Nat
  BY BuildsAreBuilds
<1>4. QLen(b) \in Nat /\ QLen(b) > 0 /\ (QLen(b) - 1) * s < b.height
  BY PathLengths
<1>5. l \in Nat /\ bc <= l * s
  <2>1. bc \in Nat
    BY <1>2
  <2> HIDE DEF bc
  <2> QED BY <2>1, LevelsFacts
<1>6. k = IF QLen(b) <= l THEN 0 ELSE QLen(b) - l
  <2>1. QLen(b) - l \in Int
    BY <1>4, <1>5
  <2> HIDE DEF l
  <2>2. k = IF QLen(b) - l <= 0 THEN 0 ELSE QLen(b) - l
    BY <2>1, MaxWithZero
  <2> HIDE DEF k
  <2> QED BY <1>4, <1>5, <2>2
<1> HIDE DEF l, bc, s, k
<1>7. k \in 0 .. QLen(b)
  BY <1>4, <1>5, <1>6
<1>8. ASSUME r = Fresh(b) PROVE k = 0
  <2>1. bc > b.height
    <3>1. SUFFICES ASSUME bc <= b.height PROVE FALSE
      BY <1>2, <1>3
    <3>2. q \div 2 ^ b.height = r \div 2 ^ b.height
      <4>1. bc \in Nat
        BY <1>2
      <4> QED BY <1>1, <1>2, <1>3, <3>1, <4>1, LongerShift
    <3>3. q \div 2 ^ b.height = 0
      BY <1>1, <1>3, NoHighBits DEF Fresh
    <3> DEFINE d == 2 ^ b.height
    <3>4. d \in Nat /\ d > 0 /\ r = d
      BY <1>3, <1>8, PowerPositive DEF Fresh
    <3>5. r \div d = 1
      <4> HIDE DEF d
      <4>1. r = d * 1 + 0 /\ 0 \in 0 .. d - 1
        BY <3>4
      <4> QED BY <1>1, <3>4, <4>1, DivModUnique
    <3> QED BY <3>2, <3>3, <3>5
  <2>2. l >= QLen(b)
    <3>1. SUFFICES ASSUME l <= QLen(b) - 1 PROVE FALSE
      BY <1>4, <1>5
    <3>2. l * s <= (QLen(b) - 1) * s
      BY <1>3, <1>4, <1>5, <3>1
    <3>3. l * s \in Int /\ (QLen(b) - 1) * s \in Int /\ bc \in Int
      BY <1>2, <1>3, <1>4, <1>5
    <3> QED BY <1>3, <1>4, <1>5, <2>1, <3>2, <3>3
  <2> QED BY <1>4, <1>5, <1>6, <2>2
<1>9. ASSUME r # Fresh(b), NEW i \in 1 .. k
      PROVE  Above(b, q + 2 ^ b.height, QLen(b), i) = Above(b, r + 2 ^ b.height, QLen(b), i)
  <2> DEFINE t == (QLen(b) - i) * s
             d == 2 ^ t
             c == 2 ^ (b.height - t)
  <2>1. i \in 1 .. QLen(b) /\ QLen(b) - i >= l /\ QLen(b) - i <= QLen(b) - 1 /\ QLen(b) - i \in Nat
    BY <1>4, <1>5, <1>6, <1>9
  <2>2. t >= l * s /\ t <= (QLen(b) - 1) * s /\ t \in Nat
    <3> DEFINE e == QLen(b) - i
    <3>1. e \in Nat /\ e >= l /\ e <= QLen(b) - 1
      BY <2>1
    <3> HIDE DEF e
    <3>2. e * s >= l * s /\ e * s <= (QLen(b) - 1) * s /\ e * s \in Nat
      BY <1>3, <1>4, <1>5, <3>1
    <3> QED BY <3>2 DEF e
  <2>3. t >= bc /\ t <= b.height
    <3> HIDE DEF t
    <3>1. l * s \in Int /\ (QLen(b) - 1) * s \in Int /\ bc \in Int
      BY <1>2, <1>3, <1>4, <1>5
    <3> QED BY <1>3, <1>4, <1>5, <2>2, <3>1
  <2>4. q \div d = r \div d
    <3>1. bc \in Nat
      BY <1>2
    <3> HIDE DEF t
    <3> QED BY <1>1, <1>2, <2>2, <2>3, <3>1, LongerShift
  <2>5. 2 ^ b.height = d * c /\ d \in Nat /\ d > 0 /\ c \in Nat
    <3> HIDE DEF t
    <3>1. b.height - t \in Nat /\ 2 ^ b.height = 2 ^ t * 2 ^ (b.height - t)
      BY <1>3, <2>2, <2>3, PowerQuotient
    <3> QED BY <2>2, <3>1, PowerPositive
  <2>6. (q + 2 ^ b.height) \div d = (r + 2 ^ b.height) \div d
    <3> HIDE DEF d, c
    <3>1. (q + d * c) \div d = q \div d + c
      BY <1>1, <2>5, DivModAddMultiple
    <3>2. (r + d * c) \div d = r \div d + c
      BY <1>1, <2>5, DivModAddMultiple
    <3> QED BY <2>4, <2>5, <3>1, <3>2
  <2> QED BY <2>6 DEF Above, s
<1>10. Max({0, QLen(b) - Levels(b, BitsChanged(q, r))}) = k
  BY DEF k, l, bc
<1> QED BY <1>7, <1>8, <1>9, <1>10

-----------------------------------------------------------------------------
(* Objects. *)

ObjectAt(b, q, qs, j, jv, js) ==
  [build |-> b, I |-> "I", master_seed |-> MasterSeed, q |-> q, j |-> j,
   r_mask |-> 2 ^ b.height, j_mask |-> 2 ^ JHeight(b),
   q_seed |-> qs, j_seed |-> js, j_value |-> jv]

NoQ(b) == [i \in 1 .. QLen(b) |-> NotSet]
NoJ(b) == [i \in 1 .. JLen(b) |-> NotSet]
NoValue(b) == [i \in 1 .. JLen(b) |-> 0]

JValues(b) == {NoValue(b)} \cup {JVal(b, m) : m \in Nat}

\* What an object is at a leaf, whatever the other leaves that it was used for ...
AtLeaf(d, b, q) ==
  IF b.method = "hash"
  THEN \E x : d = ObjectAt(b, q, NoQ(b), x, NoValue(b), NoJ(b))
  ELSE \E jv, js : /\ jv \in JValues(b) /\ DOMAIN js = 1 .. JLen(b)
                   /\ d = ObjectAt(b, q, QSecrets(b, q), 0, jv, js)

\* ... and with j set.
JObject(b, q, x) ==
  IF b.method = "hash" THEN ObjectAt(b, q, NoQ(b), x, NoValue(b), NoJ(b))
  ELSE ObjectAt(b, q, QSecrets(b, q), 0, JVal(b, Marked(b, x)), JSecrets(b, q, Marked(b, x)))

\* The fields of an object.
LEMMA ObjectFields ==
  ASSUME NEW b, NEW q, NEW qs, NEW j, NEW jv, NEW js, NEW d, d = ObjectAt(b, q, qs, j, jv, js)
  PROVE  /\ d.build = b /\ d.I = "I" /\ d.master_seed = MasterSeed /\ d.q = q /\ d.j = j
         /\ d.r_mask = 2 ^ b.height /\ d.j_mask = 2 ^ JHeight(b)
         /\ d.q_seed = qs /\ d.j_seed = js /\ d.j_value = jv
BY DEF ObjectAt

\* Assignments to fields of an object.
WithQ(d, q2) == [d EXCEPT !.q = q2]
WithJ(d, j2) == [d EXCEPT !.j = j2]
WithQPath(d, q2, qs2) == [d EXCEPT !.q = q2, !.q_seed = qs2]
WithJPath(d, jv2, js2) == [d EXCEPT !.j_value = jv2, !.j_seed = js2]

\* An object with some of its fields assigned is an object with these fields.
LEMMA Changes ==
  ASSUME NEW b, NEW q, NEW qs, NEW j, NEW jv, NEW js
  PROVE  /\ \A q2 : WithQ(ObjectAt(b, q, qs, j, jv, js), q2) = ObjectAt(b, q2, qs, j, jv, js)
         /\ \A j2 : WithJ(ObjectAt(b, q, qs, j, jv, js), j2) = ObjectAt(b, q, qs, j2, jv, js)
         /\ \A q2, qs2 : WithQPath(ObjectAt(b, q, qs, j, jv, js), q2, qs2)
                            = ObjectAt(b, q2, qs2, j, jv, js)
         /\ \A jv2, js2 : WithJPath(ObjectAt(b, q, qs, j, jv, js), jv2, js2)
                             = ObjectAt(b, q, qs, j, jv2, js2)
<1> DEFINE d == ObjectAt(b, q, qs, j, jv, js)
<1>1. ASSUME NEW q2, NEW qs2
      PROVE  /\ [d EXCEPT !.q = q2] = ObjectAt(b, q2, qs, j, jv, js)
             /\ [ObjectAt(b, q2, qs, j, jv, js) EXCEPT !.q_seed = qs2] = ObjectAt(b, q2, qs2, j, jv, js)
  BY DEF ObjectAt
<1>2. ASSUME NEW jv2, NEW js2
      PROVE  /\ [d EXCEPT !.j_value = jv2] = ObjectAt(b, q, qs, j, jv2, js)
             /\ [ObjectAt(b, q, qs, j, jv2, js) EXCEPT !.j_seed = js2] = ObjectAt(b, q, qs, j, jv2, js2)
  BY DEF ObjectAt
<1>3. ASSUME NEW j2 PROVE [d EXCEPT !.j = j2] = ObjectAt(b, q, qs, j2, jv, js)
  BY DEF ObjectAt
<1>4. ASSUME NEW q2, NEW qs2
      PROVE  [d EXCEPT !.q = q2, !.q_seed = qs2] = [[d EXCEPT !.q = q2] EXCEPT !.q_seed = qs2]
  OBVIOUS
<1>5. ASSUME NEW jv2, NEW js2
      PROVE  [d EXCEPT !.j_value = jv2, !.j_seed = js2] = [[d EXCEPT !.j_value = jv2] EXCEPT !.j_seed = js2]
  OBVIOUS
<1> HIDE DEF d
<1>6. \A q2 : WithQ(d, q2) = ObjectAt(b, q2, qs, j, jv, js)
  BY <1>1 DEF WithQ
<1>7. \A j2 : WithJ(d, j2) = ObjectAt(b, q, qs, j2, jv, js)
  BY <1>3 DEF WithJ
<1>8. \A q2, qs2 : WithQPath(d, q2, qs2) = ObjectAt(b, q2, qs2, j, jv, js)
  BY <1>1, <1>4 DEF WithQPath
<1>9. \A jv2, js2 : WithJPath(d, jv2, js2) = ObjectAt(b, q, qs, j, jv2, js2)
  BY <1>2, <1>5 DEF WithJPath
<1> QED BY <1>6, <1>7, <1>8, <1>9 DEF d

\* What hss_seed_derive_init makes.
LEMMA NewObjectFacts ==
  ASSUME NEW b \in Builds
  PROVE  NewObject(b) = ObjectAt(b, Fresh(b), NoQ(b), 0, NoValue(b), NoJ(b))
BY DEF NewObject, hss_seed_derive_init, ObjectAt, Fresh, NoQ, NoValue, NoJ, JHeight, JLen, QLen, P

\* The path of j values is a sequence of numbers, one for each level.
LEMMA JValuesFacts ==
  ASSUME NEW b \in Builds, NEW jv \in JValues(b)
  PROVE  jv \in Seq(Nat) /\ Len(jv) = JLen(b) /\ DOMAIN jv = 1 .. JLen(b)
<1>1. JLen(b) \in Nat
  BY PathLengths
<1>2. NoValue(b) \in [1 .. JLen(b) -> Nat]
  BY DEF NoValue
<1>3. \A m \in Nat : JVal(b, m) \in [1 .. JLen(b) -> Nat]
  BY <1>1, AboveNat DEF JVal
<1>4. jv \in [1 .. JLen(b) -> Nat]
  BY <1>2, <1>3 DEF JValues
<1> QED BY <1>1, <1>4, FunctionIsSequence

\* set_q forgets everything about another leaf that was not the same for this one.
LEMMA SetQ ==
  ASSUME NEW b \in Builds, NEW q \in LeavesOf(b), NEW d,
         d = NewObject(b) \/ \E r \in LeavesOf(b) : AtLeaf(d, b, r)
  PROVE  AtLeaf(hss_seed_derive_set_q(d, q), b, q)
<1>1. CASE b.method = "hash"
  <2>1. PICK r, x : d = ObjectAt(b, r, NoQ(b), x, NoValue(b), NoJ(b))
    BY <1>1, NewObjectFacts DEF AtLeaf
  <2>2. d.build = b
    BY <2>1, ObjectFields
  <2>3. WithQ(d, q) = ObjectAt(b, q, NoQ(b), x, NoValue(b), NoJ(b))
    BY <2>1, Changes
  <2>4. hss_seed_derive_set_q(d, q) = WithQ(d, q)
    BY <1>1, <2>2 DEF hss_seed_derive_set_q, WithQ
  <2> QED BY <1>1, <2>3, <2>4 DEF AtLeaf
<1>2. CASE b.method # "hash"
  <2>1. PICK r, qs, jv, js :
          /\ r \in 0 .. Fresh(b) /\ jv \in JValues(b)
          /\ d = ObjectAt(b, r, qs, 0, jv, js)
          /\ DOMAIN js = 1 .. JLen(b)
          /\ Len(qs) = QLen(b)
          /\ r # Fresh(b) => r \in LeavesOf(b) /\ qs = QSecrets(b, r)
    <3>1. CASE d = NewObject(b)
      <4>1. d = ObjectAt(b, Fresh(b), NoQ(b), 0, NoValue(b), NoJ(b))
        BY <3>1, NewObjectFacts
      <4>2. Fresh(b) \in 0 .. Fresh(b) /\ NoValue(b) \in JValues(b)
        BY LeafFacts DEF JValues
      <4>3. Len(NoQ(b)) = QLen(b) /\ DOMAIN NoJ(b) = 1 .. JLen(b)
        <5>1. QLen(b) \in Nat
          BY PathLengths
        <5>2. NoQ(b) \in [1 .. QLen(b) -> {NotSet}]
          BY DEF NoQ
        <5> QED BY <5>1, <5>2, FunctionIsSequence DEF NoJ
      <4> QED BY <4>1, <4>2, <4>3
    <3>2. CASE \E r \in LeavesOf(b) : AtLeaf(d, b, r)
      <4>1. PICK r, jv, js :
              /\ r \in LeavesOf(b) /\ jv \in JValues(b)
              /\ DOMAIN js = 1 .. JLen(b) /\ d = ObjectAt(b, r, QSecrets(b, r), 0, jv, js)
        BY <1>2, <3>2 DEF AtLeaf
      <4>2. r \in 0 .. Fresh(b)
        BY <4>1, LeafFacts DEF LeavesOf, Fresh
      <4>3. Len(QSecrets(b, r)) = QLen(b)
        <5>1. QLen(b) \in Nat
          BY PathLengths
        <5> DEFINE S == {QSecrets(b, r)[i] : i \in 1 .. QLen(b)}
        <5>2. QSecrets(b, r) \in [1 .. QLen(b) -> S]
          BY DEF QSecrets
        <5> HIDE DEF S
        <5> QED BY <5>1, <5>2, FunctionIsSequence
      <4> QED BY <4>1, <4>2, <4>3
    <3> QED BY <3>1, <3>2
  <2> DEFINE k == Max({0, QLen(b) - Levels(b, BitsChanged(q, r))})
             inputs == QIn(b, q)
             S == Inputs
  <2>2. /\ d.build = b /\ d.q = r /\ d.I = "I" /\ d.r_mask = 2 ^ b.height /\ d.q_seed = qs
        /\ d.master_seed = MasterSeed
    BY <2>1, ObjectFields
  <2>3. Kept(d, q) = k
    BY <2>1, <2>2 DEF Kept
  <2>4. /\ k \in 0 .. QLen(b)
        /\ r = Fresh(b) => k = 0
        /\ r # Fresh(b) => \A i \in 1 .. k : Above(b, q + 2 ^ b.height, QLen(b), i)
                                               = Above(b, r + 2 ^ b.height, QLen(b), i)
    BY <2>1, KeptFacts
  <2>5. hss_seed_derive_set_q(d, q)
          = WithQPath(d, q, PathSecrets(MasterSeed, qs, k, inputs))
    BY <1>2, <2>1, <2>2, <2>3 DEF hss_seed_derive_set_q, QPath, QIn, WithQPath
  <2>6. PathSecrets(MasterSeed, qs, k, inputs) = QSecrets(b, q)
    <3>1. inputs \in Seq(Inputs) /\ Len(inputs) = QLen(b) /\ QLen(b) \in Nat
      BY PathInputs, PathLengths
    <3>2. \A i \in 1 .. k : qs[i] = Derived(<<>> \o SubSeq(inputs, 1, i))
      <4> SUFFICES ASSUME NEW i \in 1 .. k
                   PROVE  qs[i] = Derived(<<>> \o SubSeq(inputs, 1, i))
        OBVIOUS
      <4> HIDE DEF k
      <4>1. i \in 1 .. QLen(b) /\ r # Fresh(b) /\ r \in LeavesOf(b)
        BY <2>1, <2>4, <3>1
      <4>2. qs[i] = Derived(<<>> \o SubSeq(QIn(b, r), 1, i))
        BY <2>1, <4>1 DEF QSecrets
      <4>3. SubSeq(QIn(b, r), 1, i) = SubSeq(QIn(b, q), 1, i)
        <5>1. \A l \in 1 .. i : l \in 1 .. k /\ l \in 1 .. QLen(b)
          BY <2>4, <3>1, <4>1
        <5>2. \A l \in 1 .. i : QIn(b, r)[l] = QIn(b, q)[l]
          BY <2>4, <4>1, <5>1 DEF QIn
        <5>3. QIn(b, r) \in Seq(Inputs) /\ Len(QIn(b, r)) = QLen(b)
          BY <4>1, PathInputs
        <5> HIDE DEF inputs
        <5> QED BY <3>1, <4>1, <5>2, <5>3 DEF inputs
      <4> QED BY <4>2, <4>3
    <3>3. <<>> \in Seq(Inputs)
      OBVIOUS
    <3> DEFINE t == <<>>
    <3> HIDE DEF k, inputs
    <3>5. k \in 0 .. Len(inputs)
      BY <2>4, <3>1
    <3>4. PathSecrets(Derived(t), qs, k, inputs)
            = [i \in 1 .. Len(inputs) |-> Derived(t \o SubSeq(inputs, 1, i))]
      <4>1. t \in Seq(Inputs)
        BY <3>3
      <4>2. \A i \in 1 .. k : qs[i] = Derived(t \o SubSeq(inputs, 1, i))
        BY <3>2
      <4> HIDE DEF t
      <4> QED BY <3>1, <3>5, <4>1, <4>2, PathIsHashed
    <3> QED BY <3>1, <3>4 DEF MasterSeed, QSecrets, inputs
  <2>7. hss_seed_derive_set_q(d, q) = ObjectAt(b, q, QSecrets(b, q), 0, jv, js)
    <3>1. WithQPath(d, q, QSecrets(b, q)) = ObjectAt(b, q, QSecrets(b, q), 0, jv, js)
      BY <2>1, Changes
    <3> HIDE DEF k, inputs
    <3> QED BY <2>5, <2>6, <3>1
  <2> QED BY <1>2, <2>1, <2>7 DEF AtLeaf
<1> QED BY <1>1, <1>2

-----------------------------------------------------------------------------
(* j, and the next j. *)

\* The path to q ends with all that is hashed on the way to it.
LEMMA LastOfQ ==
  ASSUME NEW b \in Builds, NEW q \in LeavesOf(b)
  PROVE  QSecrets(b, q)[Len(QSecrets(b, q))] = Derived(QIn(b, q))
<1>1. QLen(b) \in Nat /\ QLen(b) > 0
  BY PathLengths
<1>2. QIn(b, q) \in Seq(Inputs) /\ Len(QIn(b, q)) = QLen(b)
  BY PathInputs
<1> DEFINE S == {QSecrets(b, q)[i] : i \in 1 .. QLen(b)}
<1>3. Len(QSecrets(b, q)) = QLen(b)
  <2>1. QSecrets(b, q) \in [1 .. QLen(b) -> S]
    BY DEF QSecrets
  <2> HIDE DEF S
  <2> QED BY <1>1, <2>1, FunctionIsSequence
<1>4. QSecrets(b, q)[QLen(b)] = Derived(<<>> \o SubSeq(QIn(b, q), 1, QLen(b)))
  BY <1>1 DEF QSecrets
<1>5. SubSeq(QIn(b, q), 1, QLen(b)) = QIn(b, q)
  BY <1>2, SubSeqFull
<1>6. <<>> \o QIn(b, q) = QIn(b, q)
  BY <1>2, ConcatEmptySeq
<1> QED BY <1>3, <1>4, <1>5, <1>6

\* A path to a j whose first secrets are there is completed.
LEMMA JPath ==
  ASSUME NEW b \in Builds, NEW q \in LeavesOf(b), NEW m \in Nat, NEW kept \in 0 .. JLen(b),
         NEW jv, NEW js,
         \A i \in 1 .. kept : js[i] = JSecrets(b, q, m)[i]
  PROVE  set_j_seed(ObjectAt(b, q, QSecrets(b, q), 0, jv, js), JVal(b, m), kept)
           = ObjectAt(b, q, QSecrets(b, q), 0, JVal(b, m), JSecrets(b, q, m))
<1> DEFINE d == ObjectAt(b, q, QSecrets(b, q), 0, jv, js)
           t == QIn(b, q)
           inputs == JIn(b, q, m)
<1>1. d.I = "I" /\ d.q = q /\ d.q_seed = QSecrets(b, q) /\ d.j_seed = js
  BY ObjectFields
<1>2. JLen(b) \in Nat
  BY PathLengths
<1>3. JVal(b, m) \in JValues(b)
  BY DEF JValues
<1>4. Len(JVal(b, m)) = JLen(b)
  BY <1>3, JValuesFacts
<1>5. t \in Seq(Inputs) /\ inputs \in Seq(Inputs) /\ Len(inputs) = JLen(b)
  BY PathInputs
<1>6. inputs = [i \in 1 .. JLen(b) |-> Prg("I", q, JVal(b, m)[i])]
  BY DEF JIn, JVal
<1>7. d.q_seed[Len(d.q_seed)] = Derived(t)
  BY <1>1, LastOfQ
<1> HIDE DEF d
<1>8. set_j_seed(d, JVal(b, m), kept)
        = WithJPath(d, JVal(b, m), PathSecrets(Derived(t), js, kept, inputs))
  BY <1>1, <1>4, <1>6, <1>7 DEF set_j_seed, WithJPath
<1>9. PathSecrets(Derived(t), js, kept, inputs) = JSecrets(b, q, m)
  <2>1. kept \in 0 .. Len(inputs)
    BY <1>5
  <2>2. \A i \in 1 .. kept : js[i] = Derived(t \o SubSeq(inputs, 1, i))
    <3>1. \A i \in 1 .. kept : i \in 1 .. JLen(b)
      BY <1>2
    <3> QED BY <3>1 DEF JSecrets
  <2> HIDE DEF t, inputs
  <2>3. PathSecrets(Derived(t), js, kept, inputs)
          = [i \in 1 .. Len(inputs) |-> Derived(t \o SubSeq(inputs, 1, i))]
    BY <1>5, <2>1, <2>2, PathIsHashed
  <2> QED BY <1>5, <2>3 DEF JSecrets, t, inputs
<1>10. WithJPath(d, JVal(b, m), JSecrets(b, q, m))
         = ObjectAt(b, q, QSecrets(b, q), 0, JVal(b, m), JSecrets(b, q, m))
  BY Changes DEF d
<1> QED BY <1>8, <1>9, <1>10 DEF d

\* set_j gives an object that depends on the leaf and j only.
LEMMA SetJ ==
  ASSUME NEW b \in Builds, NEW q \in LeavesOf(b), NEW d, AtLeaf(d, b, q), NEW x \in Int
  PROVE  hss_seed_derive_set_j(d, x) = JObject(b, q, x)
<1>1. CASE b.method = "hash"
  <2>1. PICK y : d = ObjectAt(b, q, NoQ(b), y, NoValue(b), NoJ(b))
    BY <1>1 DEF AtLeaf
  <2>2. d.build = b
    BY <2>1, ObjectFields
  <2>3. hss_seed_derive_set_j(d, x) = WithJ(d, x)
    BY <1>1, <2>2 DEF hss_seed_derive_set_j, WithJ
  <2>4. WithJ(d, x) = ObjectAt(b, q, NoQ(b), x, NoValue(b), NoJ(b))
    BY <2>1, Changes
  <2> QED BY <1>1, <2>3, <2>4 DEF JObject
<1>2. CASE b.method # "hash"
  <2>1. PICK jv, js : jv \in JValues(b) /\ d = ObjectAt(b, q, QSecrets(b, q), 0, jv, js)
    BY <1>2 DEF AtLeaf
  <2>2. d.build = b /\ d.j_mask = 2 ^ JHeight(b) /\ d.j_value = jv
    BY <2>1, ObjectFields
  <2>3. Len(jv) = JLen(b)
    BY <2>1, JValuesFacts
  <2>4. Marked(b, x) \in Nat
    BY MarkedFacts
  <2>5. hss_seed_derive_set_j(d, x) = set_j_seed(d, JVal(b, Marked(b, x)), 0)
    BY <1>2, <2>2, <2>3 DEF hss_seed_derive_set_j, JVal, Marked
  <2>6. set_j_seed(d, JVal(b, Marked(b, x)), 0)
          = ObjectAt(b, q, QSecrets(b, q), 0, JVal(b, Marked(b, x)), JSecrets(b, q, Marked(b, x)))
    <3>1. 0 \in 0 .. JLen(b) /\ \A i \in 1 .. 0 : js[i] = JSecrets(b, q, Marked(b, x))[i]
      BY PathLengths
    <3> DEFINE m == Marked(b, x)
    <3> HIDE DEF m
    <3>2. set_j_seed(d, JVal(b, m), 0) = ObjectAt(b, q, QSecrets(b, q), 0, JVal(b, m), JSecrets(b, q, m))
      BY <2>1, <2>4, <3>1, JPath DEF m
    <3> QED BY <3>2 DEF m
  <2> QED BY <1>2, <2>5, <2>6 DEF JObject
<1> QED BY <1>1, <1>2

\* That object is one at its leaf.
LEMMA JObjectAtLeaf ==
  ASSUME NEW b \in Builds, NEW q \in LeavesOf(b), NEW x \in Int
  PROVE  AtLeaf(JObject(b, q, x), b, q)
<1>1. Marked(b, x) \in Nat
  BY MarkedFacts
<1>2. JVal(b, Marked(b, x)) \in JValues(b)
  BY <1>1 DEF JValues
<1>3. DOMAIN JSecrets(b, q, Marked(b, x)) = 1 .. JLen(b)
  BY DEF JSecrets
<1> QED BY <1>2, <1>3 DEF AtLeaf, JObject

\* A level sees what the next one sees without its digit.
LEMMA AboveAbove ==
  ASSUME NEW b \in Builds, NEW x \in Nat, NEW len \in Nat, NEW i \in 1 .. len - 1
  PROVE  Above(b, x, len, i) = Above(b, x, len, i + 1) \div 2 ^ b.secret_max
<1> DEFINE s == b.secret_max
           t == (len - (i + 1)) * s
           d == 2 ^ t
           e == 2 ^ s
<1>1. s \in Nat /\ len - (i + 1) \in Nat
  BY BuildsAreBuilds
<1>2. t \in Nat /\ (len - i) * s = t + s
  <2> HIDE DEF s
  <2> QED BY <1>1
<1>3. d \in Nat /\ d > 0 /\ e \in Nat /\ e > 0
  <2> HIDE DEF s, t
  <2> QED BY <1>1, <1>2, PowerPositive
<1>4. 2 ^ (t + s) = d * e
  <2> HIDE DEF s, t
  <2> QED BY <1>1, <1>2, PowerSum
<1>5. x \div (d * e) = (x \div d) \div e
  <2> HIDE DEF d, e
  <2> QED BY <1>3, DivModTwice
<1>6. Above(b, x, len, i) = x \div (d * e)
  <2>1. Above(b, x, len, i) = x \div 2 ^ ((len - i) * s)
    BY DEF Above
  <2> HIDE DEF s, t, d, e
  <2> QED BY <1>2, <1>4, <2>1
<1>7. Above(b, x, len, i + 1) = x \div d
  BY DEF Above
<1> HIDE DEF d
<1> QED BY <1>5, <1>6, <1>7

\* Adding one: the digits below the top one wrap, those above it stay.
LEMMA Carry ==
  ASSUME NEW b \in Builds, NEW m \in Nat, NEW top \in 1 .. JLen(b),
         top = 1 \/ (JVal(b, m)[top] + 1) % 2 ^ b.secret_max # 0,
         \A i \in top + 1 .. JLen(b) : (JVal(b, m)[i] + 1) % 2 ^ b.secret_max = 0
  PROVE  JVal(b, m + 1) = [i \in 1 .. JLen(b) |->
                             IF i < top THEN JVal(b, m)[i] ELSE JVal(b, m)[i] + 1]
<1> DEFINE len == JLen(b)
           e == 2 ^ b.secret_max
           At1(i) == Above(b, m, len, i)
           At2(i) == Above(b, m + 1, len, i)
           Good(i) == At2(i) = IF i < top THEN At1(i) ELSE At1(i) + 1
           S == {k \in 0 .. len - 1 : Good(len - k)}
<1>1. len \in Nat /\ len > 0 /\ b.secret_max \in Nat
  BY PathLengths, BuildsAreBuilds
<1>2. e \in Nat /\ e > 0
  BY <1>1, PowerPositive
<1>3. \A i \in 1 .. len : At1(i) \in Nat /\ At2(i) \in Nat /\ JVal(b, m)[i] = At1(i)
  <2>1. m + 1 \in Nat
    OBVIOUS
  <2>2. \A i \in 1 .. len : At1(i) \in Nat /\ At2(i) \in Nat
    BY <1>1, <2>1, AboveNat
  <2>3. \A i \in 1 .. len : JVal(b, m)[i] = At1(i)
    BY DEF JVal
  <2> QED BY <2>2, <2>3
<1>4. 0 \in S
  <2>1. (len - len) * b.secret_max = 0
    BY <1>1
  <2>2. At1(len) = m \div 2 ^ 0 /\ At2(len) = (m + 1) \div 2 ^ 0
    BY <2>1 DEF Above
  <2>3. At1(len) = m /\ At2(len) = m + 1
    BY <2>2, PowerZero
  <2>4. ~(len < top)
    BY <1>1
  <2>5. Good(len)
    BY <2>3, <2>4
  <2> HIDE DEF Good
  <2> QED BY <1>1, <2>5
<1>5. \A k \in 0 .. (len - 1) - 1 : k \in S => k + 1 \in S
  <2> SUFFICES ASSUME NEW k \in 0 .. (len - 1) - 1, k \in S PROVE k + 1 \in S
    OBVIOUS
  <2> DEFINE i == len - (k + 1)
             u == At1(i + 1)
             w == At2(i + 1)
  <2>1. i \in 1 .. len - 1 /\ i + 1 = len - k /\ i \in 1 .. len /\ i + 1 \in 1 .. len /\ k + 1 \in 0 .. len - 1
    BY <1>1
  <2>2. Good(i + 1)
    BY <2>1
  <2>3. At1(i) = u \div e /\ At2(i) = w \div e
    <3>1. At1(i) = u \div e
      BY <1>1, <2>1, AboveAbove
    <3>2. m + 1 \in Nat
      OBVIOUS
    <3>3. At2(i) = w \div e
      BY <1>1, <2>1, <3>2, AboveAbove
    <3> QED BY <3>1, <3>3
  <2>4. u \in Nat /\ w \in Nat /\ At1(i) \in Nat /\ JVal(b, m)[i + 1] = u
    BY <1>3, <2>1
  <2>5. i + 1 < top => w = u
    BY <2>2
  <2>6. ~(i + 1 < top) => w = u + 1
    BY <2>2
  <2> HIDE DEF i, u, w, At1, At2
  <2>7. /\ (u + 1) % e = 0 => (u + 1) \div e = u \div e + 1
        /\ (u + 1) % e # 0 => (u + 1) \div e = u \div e
    <3> HIDE DEF e
    <3> QED BY <1>2, <2>4, DivModNext
  <2>8. CASE i + 1 < top
    <3>1. At2(i) = At1(i) /\ i < top
      BY <2>1, <2>3, <2>5, <2>8
    <3> QED BY <2>1, <3>1 DEF i
  <2>9. CASE i + 1 = top
    <3>1. (u + 1) % e # 0
      BY <2>1, <2>4, <2>9
    <3>2. At2(i) = At1(i) /\ i < top
      BY <2>1, <2>3, <2>6, <2>7, <2>9, <3>1
    <3> QED BY <2>1, <3>2 DEF i
  <2>10. CASE i + 1 > top
    <3>1. (u + 1) % e = 0
      <4>1. i + 1 \in top + 1 .. JLen(b)
        BY <2>1, <2>10
      <4> QED BY <2>4, <4>1
    <3>2. At2(i) = At1(i) + 1 /\ ~(i < top)
      BY <2>1, <2>3, <2>6, <2>7, <2>10, <3>1
    <3> QED BY <2>1, <3>2 DEF i
  <2> QED BY <2>1, <2>8, <2>9, <2>10
<1>6. \A k \in 0 .. len - 1 : k \in S
  <2>1. len - 1 \in Nat
    BY <1>1
  <2> HIDE DEF S, len
  <2> QED BY <1>4, <1>5, <2>1, InductionUpTo
<1>7. \A i \in 1 .. len : Good(i)
  <2> SUFFICES ASSUME NEW i \in 1 .. len PROVE Good(i)
    OBVIOUS
  <2>1. len - i \in 0 .. len - 1 /\ len - (len - i) = i
    BY <1>1
  <2>2. Good(len - (len - i))
    BY <1>6, <2>1
  <2> HIDE DEF Good
  <2> QED BY <2>1, <2>2
<1>8. JVal(b, m + 1) = [i \in 1 .. len |-> At2(i)]
  BY DEF JVal
<1> HIDE DEF At1, At2
<1> QED BY <1>3, <1>7, <1>8

\* The object goes on to the next j as if that had been set.
LEMMA NextJ ==
  ASSUME NEW b \in Builds, NEW q \in LeavesOf(b), NEW x \in Int,
         (x % 2 ^ JHeight(b)) + 1 < 2 ^ JHeight(b)
  PROVE  Incremented(JObject(b, q, x)) = JObject(b, q, x + 1)
<1>1. CASE b.method = "hash"
  <2> DEFINE d == ObjectAt(b, q, NoQ(b), x, NoValue(b), NoJ(b))
  <2>1. JObject(b, q, x) = d
    BY <1>1 DEF JObject
  <2>2. d.build = b /\ d.j = x
    BY ObjectFields
  <2> HIDE DEF d
  <2>3. Incremented(d) = WithJ(d, x + 1)
    BY <1>1, <2>2 DEF Incremented, WithJ
  <2>4. WithJ(d, x + 1) = ObjectAt(b, q, NoQ(b), x + 1, NoValue(b), NoJ(b))
    BY Changes DEF d
  <2> QED BY <1>1, <2>1, <2>3, <2>4 DEF JObject
<1>2. CASE b.method # "hash"
  <2> DEFINE m == Marked(b, x)
             jv == JVal(b, m)
             js == JSecrets(b, q, m)
             d == ObjectAt(b, q, QSecrets(b, q), 0, jv, js)
             e == 2 ^ b.secret_max
             T == {i \in 1 .. JLen(b) : i = 1 \/ (jv[i] + 1) % e # 0}
             top == Max(T)
             next == [i \in 1 .. JLen(b) |-> IF i < top THEN jv[i] ELSE jv[i] + 1]
  <2>1. JObject(b, q, x) = d
    BY <1>2 DEF JObject
  <2>2. d.build = b /\ d.j_value = jv
    BY ObjectFields
  <2>3. m \in Nat
    BY MarkedFacts
  <2>4. Marked(b, x + 1) = m + 1
    <3> DEFINE c == 2 ^ JHeight(b)
    <3>1. c \in Nat /\ c > 0 /\ x % c \in 0 .. c - 1
      BY MarkedFacts
    <3>2. (x + 1) % c = (x % c) + 1
      <4>1. (x % c) + 1 < c
        OBVIOUS
      <4> HIDE DEF c
      <4>2. /\ (x + 1) % c = 0 => x % c = c - 1
            /\ (x + 1) % c # 0 => (x + 1) % c = (x % c) + 1
        BY <3>1, DivModNext
      <4> QED BY <3>1, <4>1, <4>2
    <3>3. Marked(b, x + 1) = ((x + 1) % c) + c /\ m = (x % c) + c
      BY DEF Marked
    <3> HIDE DEF c, m
    <3> QED BY <3>1, <3>2, <3>3
  <2>5. jv \in JValues(b)
    BY <2>3 DEF JValues
  <2>6. Len(jv) = JLen(b) /\ JLen(b) \in Nat /\ JLen(b) > 0
    BY <2>5, JValuesFacts, PathLengths
  <2>7. top \in 1 .. JLen(b) /\ (top = 1 \/ (jv[top] + 1) % e # 0) /\ \A y \in T : y <= top
    <3>1. T \in SUBSET (0 .. JLen(b)) /\ 1 \in T
      BY <2>6
    <3>2. Max(T) \in T /\ \A y \in T : y <= Max(T)
      <4> HIDE DEF T
      <4> QED BY <2>6, <3>1, MaxIsGreatest
    <3> QED BY <3>2
  <2>8. \A i \in top + 1 .. JLen(b) : (jv[i] + 1) % e = 0
    <3> SUFFICES ASSUME NEW i \in top + 1 .. JLen(b), (jv[i] + 1) % e # 0 PROVE FALSE
      OBVIOUS
    <3> HIDE DEF top, jv, e
    <3>1. i \in T /\ ~(i <= top)
      BY <2>6, <2>7
    <3> QED BY <2>7, <3>1
  <2>9. next = JVal(b, m + 1)
    <3> HIDE DEF top, m
    <3> QED BY <2>3, <2>7, <2>8, Carry
  <2>10. Incremented(d) = set_j_seed(d, next, top - 1)
    <3> HIDE DEF d, jv
    <3>1. top = Max({i \in 1 .. JLen(b) : i = 1 \/ ~((jv[i] + 1) % e = 0)})
      OBVIOUS
    <3> HIDE DEF top
    <3> QED BY <1>2, <2>2, <2>6, <3>1 DEF Incremented
  <2>11. \A i \in 1 .. top - 1 : js[i] = JSecrets(b, q, m + 1)[i]
    <3> SUFFICES ASSUME NEW i \in 1 .. top - 1 PROVE js[i] = JSecrets(b, q, m + 1)[i]
      OBVIOUS
    <3> HIDE DEF top
    <3>1. i \in 1 .. JLen(b) /\ \A l \in 1 .. i : l \in 1 .. JLen(b) /\ l < top
      BY <2>6, <2>7
    <3>2. \A l \in 1 .. i : JVal(b, m + 1)[l] = JVal(b, m)[l]
      BY <2>9, <3>1
    <3>3. \A l \in 1 .. i : JIn(b, q, m + 1)[l] = JIn(b, q, m)[l]
      BY <3>1, <3>2 DEF JIn, JVal
    <3>4. /\ JIn(b, q, m) \in Seq(Inputs) /\ Len(JIn(b, q, m)) = JLen(b)
          /\ JIn(b, q, m + 1) \in Seq(Inputs) /\ Len(JIn(b, q, m + 1)) = JLen(b)
      <4> HIDE DEF m
      <4>1. m + 1 \in Nat
        BY <2>3
      <4> QED BY <2>3, <4>1, PathInputs
    <3>5. SubSeq(JIn(b, q, m + 1), 1, i) = SubSeq(JIn(b, q, m), 1, i)
      <4> HIDE DEF m
      <4> QED BY <3>1, <3>3, <3>4
    <3> QED BY <3>1, <3>5 DEF JSecrets
  <2>12. set_j_seed(d, JVal(b, m + 1), top - 1)
           = ObjectAt(b, q, QSecrets(b, q), 0, JVal(b, m + 1), JSecrets(b, q, m + 1))
    <3>1. top - 1 \in 0 .. JLen(b) /\ m + 1 \in Nat
      BY <2>3, <2>6, <2>7
    <3> DEFINE k == top - 1
               m2 == m + 1
    <3>2. k \in 0 .. JLen(b) /\ m2 \in Nat /\ \A i \in 1 .. k : js[i] = JSecrets(b, q, m2)[i]
      BY <2>11, <3>1
    <3> HIDE DEF k, m2, js, jv
    <3>3. set_j_seed(ObjectAt(b, q, QSecrets(b, q), 0, jv, js), JVal(b, m2), k)
            = ObjectAt(b, q, QSecrets(b, q), 0, JVal(b, m2), JSecrets(b, q, m2))
      BY <3>2, JPath
    <3> QED BY <3>3 DEF k, m2
  <2> HIDE DEF d, next, top, m
  <2> QED BY <1>2, <2>1, <2>4, <2>9, <2>10, <2>12 DEF JObject
<1> QED BY <1>1, <1>2

\* The secret of a leaf and a j.
LEMMA SecretAtJ ==
  ASSUME NEW b \in Builds, NEW q \in LeavesOf(b), NEW x \in Int
  PROVE  Secret(JObject(b, q, x)) = SecretOf(b, q, x)
<1>1. CASE b.method = "hash"
  <2> DEFINE d == ObjectAt(b, q, NoQ(b), x, NoValue(b), NoJ(b))
  <2>1. JObject(b, q, x) = d
    BY <1>1 DEF JObject
  <2>2. d.build = b /\ d.j = x /\ d.q = q /\ d.I = "I" /\ d.master_seed = MasterSeed
    BY ObjectFields
  <2> HIDE DEF d
  <2>3. Secret(d) = Hashed(MasterSeed, <<Prg("I", q, x)>>)
    BY <1>1, <2>2 DEF Secret
  <2>4. Hashed(MasterSeed, <<Prg("I", q, x)>>) = Derived(<<>> \o <<Prg("I", q, x)>>)
    BY DerivedFacts DEF Hashed, MasterSeed, Derived
  <2>5. <<>> \o <<Prg("I", q, x)>> = <<Prg("I", q, x)>>
    OBVIOUS
  <2> QED BY <1>1, <2>1, <2>3, <2>4, <2>5 DEF SecretOf
<1>2. CASE b.method # "hash"
  <2> DEFINE m == Marked(b, x)
             d == ObjectAt(b, q, QSecrets(b, q), 0, JVal(b, m), JSecrets(b, q, m))
  <2>1. JObject(b, q, x) = d
    BY <1>2 DEF JObject
  <2>2. d.build = b /\ d.j_seed = JSecrets(b, q, m)
    BY ObjectFields
  <2>3. m \in Nat
    BY MarkedFacts
  <2>4. JLen(b) \in Nat /\ JLen(b) > 0
    BY PathLengths
  <2>5. Len(JSecrets(b, q, m)) = JLen(b)
    <3> DEFINE S == {JSecrets(b, q, m)[i] : i \in 1 .. JLen(b)}
    <3>1. JSecrets(b, q, m) \in [1 .. JLen(b) -> S]
      BY DEF JSecrets
    <3> HIDE DEF S
    <3> QED BY <2>4, <3>1, FunctionIsSequence
  <2>6. JSecrets(b, q, m)[JLen(b)] = Derived(QIn(b, q) \o JIn(b, q, m))
    <3> HIDE DEF m
    <3>1. JIn(b, q, m) \in Seq(Inputs) /\ Len(JIn(b, q, m)) = JLen(b)
      BY <2>3, PathInputs
    <3>2. SubSeq(JIn(b, q, m), 1, JLen(b)) = JIn(b, q, m)
      BY <3>1, SubSeqFull
    <3>3. JSecrets(b, q, m)[JLen(b)] = Derived(QIn(b, q) \o SubSeq(JIn(b, q, m), 1, JLen(b)))
      BY <2>4 DEF JSecrets
    <3> QED BY <3>2, <3>3
  <2> HIDE DEF d
  <2>7. Secret(d) = JSecrets(b, q, m)[JLen(b)]
    BY <1>2, <2>2, <2>5 DEF Secret
  <2> QED BY <1>2, <2>1, <2>6, <2>7 DEF SecretOf
<1> QED BY <1>1, <1>2

-----------------------------------------------------------------------------
(* What is made at a leaf. *)

\* The values of j that are used are so small that adding one is only that.
LEMMA SmallJ ==
  ASSUME NEW b \in Builds, NEW x \in Int, x \in 0 .. P(b) \/ x = SEED_CHILD_SEED
  PROVE  (x % 2 ^ JHeight(b)) + 1 < 2 ^ JHeight(b)
<1> DEFINE d == 2 ^ JHeight(b)
<1>1. d \in Nat /\ P(b) \in Nat /\ P(b) + 3 < d
  <2>1. P(b) \in 34 .. 265
    BY ParameterSets
  <2>2. JHeight(b) \in Nat
    BY JHeightFacts
  <2>3. d \in Nat
    BY <2>2, PowerNat
  <2>4. P(b) + 3 < d
    BY JHeightFacts
  <2> QED BY <2>1, <2>3, <2>4
<1> HIDE DEF d
<1>2. CASE x \in 0 .. P(b)
  <2>1. x = d * 0 + x /\ x \in 0 .. d - 1
    BY <1>1, <1>2
  <2>2. x % d = x
    BY <1>1, <2>1, DivModUnique
  <2> QED BY <1>1, <1>2, <2>2 DEF d
<1>3. CASE x = SEED_CHILD_SEED
  <2>1. x = d * (-1) + (d - 2) /\ d - 2 \in 0 .. d - 1
    BY <1>1, <1>3 DEF SEED_CHILD_SEED
  <2>2. x % d = d - 2
    BY <1>1, <2>1, DivModUnique
  <2> QED BY <1>1, <2>2 DEF d
<1> QED BY <1>2, <1>3

\* A sequence with one more element, as a function.
LEMMA AppendIs ==
  ASSUME NEW S, NEW u \in Seq(S), NEW y \in S
  PROVE  Append(u, y) = [k \in 1 .. Len(u) + 1 |-> IF k = Len(u) + 1 THEN y ELSE u[k]]
<1> DEFINE f == [k \in 1 .. Len(u) + 1 |-> IF k = Len(u) + 1 THEN y ELSE u[k]]
<1>1. Len(u) \in Nat
  OBVIOUS
<1>2. \A k \in 1 .. Len(u) : u[k] \in S
  OBVIOUS
<1>3. f \in [1 .. Len(u) + 1 -> S]
  BY <1>1, <1>2
<1>4. f \in Seq(S) /\ Len(f) = Len(u) + 1
  <2> HIDE DEF f
  <2>1. Len(u) + 1 \in Nat
    BY <1>1
  <2> QED BY <1>3, <2>1, FunctionIsSequence
<1>5. Append(u, y) \in Seq(S) /\ Len(Append(u, y)) = Len(u) + 1
  BY AppendProperties
<1>6. \A k \in 1 .. Len(u) + 1 : Append(u, y)[k] = f[k]
  BY <1>1, AppendProperties
<1> HIDE DEF f
<1>7. Append(u, y) = f
  BY <1>4, <1>5, <1>6, SeqEqual
<1> QED BY <1>7 DEF f

\* One after another, the secrets of the chains are those of their numbers.
LEMMA ChainSecretsFacts ==
  ASSUME NEW b \in Builds, NEW q \in LeavesOf(b), NEW d, AtLeaf(d, b, q)
  PROVE  ChainSecrets(d, P(b)) = [secrets |-> [i \in 1 .. P(b) |-> SecretOf(b, q, i - 1)],
                                  object |-> JObject(b, q, P(b) - 1)]
<1> DEFINE p == P(b)
           first == JObject(b, q, 0)
           Step(before) ==
             LET object == Incremented(before.object)
             IN  [secrets |-> Append(before.secrets, Secret(object)), object |-> object]
           Equation(f) ==
             f = [i \in 1 .. p |->
                    IF i = 1 THEN [secrets |-> <<Secret(first)>>, object |-> first]
                    ELSE Step(f[i - 1])]
           Up(i) == [k \in 1 .. i |-> SecretOf(b, q, k - 1)]
           g == [i \in 1 .. p |-> [secrets |-> Up(i), object |-> JObject(b, q, i - 1)]]
<1>1. p \in Nat /\ p >= 1
  <2>1. p \in 34 .. 265
    BY ParameterSets
  <2> QED BY <2>1
<1>2. hss_seed_derive_set_j(d, 0) = first
  BY SetJ
<1>3. ChainSecrets(d, p) = (CHOOSE f : Equation(f))[p]
  BY <1>2 DEF ChainSecrets, SecretsFrom
<1>4. [secrets |-> <<Secret(first)>>, object |-> first] = [secrets |-> Up(1), object |-> JObject(b, q, 0)]
  <2>1. Secret(first) = SecretOf(b, q, 0)
    BY SecretAtJ
  <2>2. Up(1) = <<SecretOf(b, q, 0)>>
    OBVIOUS
  <2> QED BY <2>1, <2>2
<1>5. ASSUME NEW i \in 2 .. p
      PROVE  Step([secrets |-> Up(i - 1), object |-> JObject(b, q, i - 2)])
               = [secrets |-> Up(i), object |-> JObject(b, q, i - 1)]
  <2> DEFINE x == i - 2
  <2>1. x \in 0 .. p /\ x \in Int /\ x + 1 = i - 1
    BY <1>1
  <2>2. Incremented(JObject(b, q, x)) = JObject(b, q, x + 1)
    <3> HIDE DEF x
    <3>1. (x % 2 ^ JHeight(b)) + 1 < 2 ^ JHeight(b)
      BY <2>1, SmallJ
    <3> QED BY <2>1, <3>1, NextJ
  <2>3. Incremented(JObject(b, q, i - 2)) = JObject(b, q, i - 1)
    BY <2>1, <2>2
  <2>4. Secret(JObject(b, q, i - 1)) = SecretOf(b, q, i - 1)
    BY SecretAtJ
  <2>5. Append(Up(i - 1), SecretOf(b, q, i - 1)) = Up(i)
    <3> DEFINE S == {SecretOf(b, q, k - 1) : k \in 1 .. p}
               u == Up(i - 1)
               y == SecretOf(b, q, i - 1)
    <3>1. i - 1 \in Nat /\ i - 1 + 1 = i /\ i \in Nat
      BY <1>1
    <3>2. u \in [1 .. i - 1 -> S] /\ y \in S
      BY <1>1
    <3>3. u \in Seq(S) /\ Len(u) = i - 1
      <4> HIDE DEF S, u
      <4> QED BY <3>1, <3>2, FunctionIsSequence
    <3>4. Append(u, y) = [k \in 1 .. i |-> IF k = i THEN y ELSE u[k]]
      <4> HIDE DEF S, u, y
      <4> QED BY <3>1, <3>2, <3>3, AppendIs
    <3>5. \A k \in 1 .. i : (IF k = i THEN y ELSE u[k]) = SecretOf(b, q, k - 1)
      BY <3>1
    <3> HIDE DEF u, y, S
    <3>6. Append(u, y) = Up(i)
      BY <3>4, <3>5
    <3> QED BY <3>6 DEF u, y
  <2> DEFINE before == [secrets |-> Up(i - 1), object |-> JObject(b, q, i - 2)]
  <2>6. before.object = JObject(b, q, i - 2) /\ before.secrets = Up(i - 1)
    OBVIOUS
  <2> HIDE DEF before, Up, x
  <2>7. Step(before) = [secrets |-> Up(i), object |-> JObject(b, q, i - 1)]
    BY <2>3, <2>4, <2>5, <2>6
  <2> QED BY <2>7 DEF before
<1>6. \A i \in 2 .. p : i - 1 \in 1 .. p /\ (i - 1) - 1 = i - 2 /\ i \in 1 .. p
  BY <1>1
<1>7. \A i \in 1 .. p : g[i] = [secrets |-> Up(i), object |-> JObject(b, q, i - 1)]
  OBVIOUS
<1>8. \A i \in 2 .. p : Step(g[i - 1]) = g[i]
  <2> SUFFICES ASSUME NEW i \in 2 .. p PROVE Step(g[i - 1]) = g[i]
    OBVIOUS
  <2>1. g[i - 1] = [secrets |-> Up(i - 1), object |-> JObject(b, q, i - 2)]
    BY <1>6, <1>7
  <2>2. g[i] = [secrets |-> Up(i), object |-> JObject(b, q, i - 1)]
    BY <1>6, <1>7
  <2> HIDE DEF g, Step
  <2> QED BY <1>5, <2>1, <2>2
<1>9. Equation(g)
  <2>1. \A i \in 1 .. p : g[i] = IF i = 1 THEN [secrets |-> <<Secret(first)>>, object |-> first]
                                 ELSE Step(g[i - 1])
    <3> SUFFICES ASSUME NEW i \in 1 .. p
                 PROVE  g[i] = IF i = 1 THEN [secrets |-> <<Secret(first)>>, object |-> first]
                               ELSE Step(g[i - 1])
      OBVIOUS
    <3>1. CASE i = 1
      BY <1>4, <1>7, <3>1
    <3>2. CASE i # 1
      <4>1. i \in 2 .. p
        BY <1>1, <3>2
      <4> HIDE DEF g, Step
      <4> QED BY <1>8, <3>2, <4>1
    <3> QED BY <3>1, <3>2
  <2>2. g = [i \in 1 .. p |-> g[i]]
    OBVIOUS
  <2> HIDE DEF g, Step
  <2> QED BY <2>1, <2>2
<1> DEFINE f == CHOOSE h : Equation(h)
<1>10. Equation(f)
  <2> HIDE DEF Equation, g
  <2> QED BY <1>9
<1>11. \A i \in 1 .. p : f[i] = g[i]
  <2> HIDE DEF f, g, Step
  <2> DEFINE T == {k \in 0 .. p - 1 : f[k + 1] = g[k + 1]}
  <2>1. f[1] = g[1]
    BY <1>1, <1>9, <1>10
  <2>2. 0 \in T
    BY <1>1, <2>1
  <2>3. ASSUME NEW k \in 0 .. (p - 1) - 1, k \in T PROVE k + 1 \in T
    <3>1. k + 2 \in 1 .. p /\ k + 2 # 1 /\ (k + 2) - 1 = k + 1 /\ (k + 1) + 1 = k + 2 /\ k + 1 \in 0 .. p - 1
      BY <1>1
    <3>2. f[k + 2] = Step(f[k + 1])
      BY <1>10, <3>1
    <3>3. g[k + 2] = Step(g[k + 1])
      BY <1>9, <3>1
    <3>4. f[k + 1] = g[k + 1]
      BY <2>3
    <3>5. f[k + 2] = g[k + 2]
      BY <3>2, <3>3, <3>4
    <3> QED BY <3>1, <3>5
  <2>4. \A k \in 0 .. p - 1 : k \in T
    <3>1. p - 1 \in Nat
      BY <1>1
    <3> HIDE DEF T
    <3>2. \A k \in 0 .. (p - 1) - 1 : k \in T => k + 1 \in T
      BY <2>3
    <3> QED BY <2>2, <3>1, <3>2, InductionUpTo
  <2> SUFFICES ASSUME NEW i \in 1 .. p PROVE f[i] = g[i]
    OBVIOUS
  <2>5. i - 1 \in 0 .. p - 1 /\ (i - 1) + 1 = i
    BY <1>1
  <2>6. i - 1 \in T
    BY <2>4, <2>5
  <2> QED BY <2>5, <2>6
<1>12. ChainSecrets(d, p) = g[p]
  <2>1. p \in 1 .. p
    BY <1>1
  <2>2. ChainSecrets(d, p) = f[p]
    BY <1>3
  <2> HIDE DEF f, g
  <2> QED BY <1>11, <2>1, <2>2
<1>13. g[p] = [secrets |-> Up(p), object |-> JObject(b, q, p - 1)]
  <2>1. p \in 1 .. p
    BY <1>1
  <2> QED BY <1>7, <2>1
<1> QED BY <1>12, <1>13

-----------------------------------------------------------------------------
(* What is made at a leaf, whatever the object was used for before. *)

RightKey(b, q) ==
  KeyOf("I", q, [i \in 1 .. P(b) |-> Walk(SecretOf(b, q, i - 1), <<"I", q>>, i, 0, max_digit(b.w))])

RightSignature(b, q, Q) ==
  [type |-> b.w, C |-> SecretOf(b, q, SEED_RANDOMIZER_INDEX),
   y |-> [i \in 1 .. P(b) |-> Walk(SecretOf(b, q, i - 1), <<"I", q>>, i, 0,
                                   Digits(Q, lm_ots_look_up_parameter_set(b.w))[i])]]

RightRandomizer(b, q) == <<SecretOf(b, q, SEED_RANDOMIZER_INDEX)>>

RightChild(b, q) == <<SecretOf(b, q, SEED_CHILD_SEED), SecretOf(b, q, SEED_CHILD_I)>>

\* The tree and the leaf of an object.
LEMMA AtLeafFields ==
  ASSUME NEW b \in Builds, NEW q, NEW d, AtLeaf(d, b, q)
  PROVE  d.I = "I" /\ d.q = q /\ d.build = b
<1>1. CASE b.method = "hash"
  <2>1. PICK x : d = ObjectAt(b, q, NoQ(b), x, NoValue(b), NoJ(b))
    BY <1>1 DEF AtLeaf
  <2> QED BY <2>1, ObjectFields
<1>2. CASE b.method # "hash"
  <2>1. PICK jv, js : d = ObjectAt(b, q, QSecrets(b, q), 0, jv, js)
    BY <1>2 DEF AtLeaf
  <2> QED BY <2>1, ObjectFields
<1> QED BY <1>1, <1>2

\* The one-time public key.
LEMMA KeyAtLeaf ==
  ASSUME NEW b \in Builds, NEW q \in LeavesOf(b), NEW d, AtLeaf(d, b, q)
  PROVE  /\ lm_ots_generate_public_key(b.w, d).key = RightKey(b, q)
         /\ lm_ots_generate_public_key(b.w, d).object = JObject(b, q, P(b) - 1)
<1> DEFINE starts == ChainSecrets(d, P(b))
           key == KeyOf(d.I, d.q, [i \in 1 .. P(b) |->
                    Walk(starts.secrets[i], <<d.I, d.q>>, i, 0, max_digit(b.w))])
<1>1. starts.secrets = [i \in 1 .. P(b) |-> SecretOf(b, q, i - 1)]
      /\ starts.object = JObject(b, q, P(b) - 1)
  <2> DEFINE all == [i \in 1 .. P(b) |-> SecretOf(b, q, i - 1)]
             object == JObject(b, q, P(b) - 1)
  <2>1. starts = [secrets |-> all, object |-> object]
    BY ChainSecretsFacts
  <2>2. starts.secrets = all /\ starts.object = object
    <3> HIDE DEF starts, all, object
    <3> QED BY <2>1
  <2> QED BY <2>2
<1>2. d.I = "I" /\ d.q = q
  BY AtLeafFields
<1>3. lm_ots_generate_public_key(b.w, d) = [object |-> starts.object, key |-> key]
  BY DEF lm_ots_generate_public_key, P
<1>4. key = RightKey(b, q)
  <2> HIDE DEF starts
  <2>1. \A i \in 1 .. P(b) : starts.secrets[i] = SecretOf(b, q, i - 1)
    BY <1>1
  <2> QED BY <1>2, <2>1 DEF RightKey
<1> HIDE DEF starts, key
<1> QED BY <1>1, <1>3, <1>4

\* The signature of a digest.
LEMMA SignatureAtLeaf ==
  ASSUME NEW b \in Builds, NEW q \in LeavesOf(b), NEW d, AtLeaf(d, b, q), NEW Q
  PROVE  LET signed == Signature(b.w, d, SecretOf(b, q, SEED_RANDOMIZER_INDEX), Q)
         IN  /\ signed.signature = RightSignature(b, q, Q)
             /\ signed.object = JObject(b, q, P(b) - 1)
<1> DEFINE starts == ChainSecrets(d, P(b))
           C == SecretOf(b, q, SEED_RANDOMIZER_INDEX)
           digits == Digits(Q, lm_ots_look_up_parameter_set(b.w))
           signature == [type |-> b.w, C |-> C, y |->
             [i \in 1 .. P(b) |-> Walk(starts.secrets[i], <<d.I, d.q>>, i, 0, digits[i])]]
<1>1. starts.secrets = [i \in 1 .. P(b) |-> SecretOf(b, q, i - 1)]
      /\ starts.object = JObject(b, q, P(b) - 1)
  <2> DEFINE all == [i \in 1 .. P(b) |-> SecretOf(b, q, i - 1)]
             object == JObject(b, q, P(b) - 1)
  <2>1. starts = [secrets |-> all, object |-> object]
    BY ChainSecretsFacts
  <2>2. starts.secrets = all /\ starts.object = object
    <3> HIDE DEF starts, all, object
    <3> QED BY <2>1
  <2> QED BY <2>2
<1>2. d.I = "I" /\ d.q = q
  BY AtLeafFields
<1>3. Signature(b.w, d, C, Q) = [object |-> starts.object, signature |-> signature]
  BY DEF Signature, P
<1>4. signature = RightSignature(b, q, Q)
  <2> HIDE DEF starts
  <2>1. \A i \in 1 .. P(b) : starts.secrets[i] = SecretOf(b, q, i - 1)
    BY <1>1
  <2> QED BY <1>2, <2>1 DEF RightSignature
<1> HIDE DEF starts, signature
<1> QED BY <1>1, <1>3, <1>4

\* The randomizer.
LEMMA RandomizerAtLeaf ==
  ASSUME NEW b \in Builds, NEW q \in LeavesOf(b), NEW d, AtLeaf(d, b, q)
  PROVE  LET drawn == lm_ots_generate_randomizer(d)
         IN  /\ drawn.secrets = RightRandomizer(b, q)
             /\ drawn.secrets[1] = SecretOf(b, q, SEED_RANDOMIZER_INDEX)
             /\ AtLeaf(drawn.object, b, q)
<1> DEFINE x == SEED_RANDOMIZER_INDEX
<1>1. x \in Int
  BY DEF SEED_RANDOMIZER_INDEX
<1>2. hss_seed_derive_set_j(d, x) = JObject(b, q, x)
  <2> HIDE DEF x
  <2> QED BY <1>1, SetJ
<1>3. Secret(JObject(b, q, x)) = SecretOf(b, q, x) /\ AtLeaf(JObject(b, q, x), b, q)
  <2> HIDE DEF x
  <2> QED BY <1>1, SecretAtJ, JObjectAtLeaf
<1>4. lm_ots_generate_randomizer(d) = [object |-> JObject(b, q, x), secrets |-> <<SecretOf(b, q, x)>>]
  BY <1>2, <1>3 DEF lm_ots_generate_randomizer
<1> QED BY <1>3, <1>4 DEF RightRandomizer

\* The seed and I of the tree below.
LEMMA ChildAtLeaf ==
  ASSUME NEW b \in Builds, NEW q \in LeavesOf(b), NEW d, AtLeaf(d, b, q)
  PROVE  LET child == hss_generate_child_seed_I_value(d)
         IN  child.secrets = RightChild(b, q) /\ AtLeaf(child.object, b, q)
<1> DEFINE x == SEED_CHILD_SEED
           y == SEED_CHILD_I
<1>1. x \in Int /\ y \in Int /\ y = x + 1
  BY DEF SEED_CHILD_SEED, SEED_CHILD_I
<1>2. hss_seed_derive_set_j(d, x) = JObject(b, q, x)
  <2> HIDE DEF x, y
  <2> QED BY <1>1, SetJ
<1>3. (x % 2 ^ JHeight(b)) + 1 < 2 ^ JHeight(b)
  BY <1>1, SmallJ
<1>4. Incremented(JObject(b, q, x)) = JObject(b, q, y)
  <2> HIDE DEF x, y
  <2> QED BY <1>1, <1>3, NextJ
<1>5. /\ Secret(JObject(b, q, x)) = SecretOf(b, q, x) /\ Secret(JObject(b, q, y)) = SecretOf(b, q, y)
      /\ AtLeaf(JObject(b, q, y), b, q)
  <2> HIDE DEF x, y
  <2> QED BY <1>1, SecretAtJ, JObjectAtLeaf
<1>6. hss_generate_child_seed_I_value(d) = [object |-> JObject(b, q, y),
                                            secrets |-> <<SecretOf(b, q, x), SecretOf(b, q, y)>>]
  BY <1>2, <1>4, <1>5 DEF hss_generate_child_seed_I_value
<1> QED BY <1>5, <1>6 DEF RightChild

-----------------------------------------------------------------------------
(* The invariant: every result is the one that belongs to its leaf. *)

KeyResult(b, q) == [kind |-> "key", q |-> q, value |-> RightKey(b, q)]

SignatureResult(b, q, message) ==
  [kind |-> "signature", q |-> q, message |-> message,
   value |-> RightSignature(b, q, Digest(q, message))]

RandomizerResult(b, q) == [kind |-> "randomizer", q |-> q, secrets |-> RightRandomizer(b, q)]

ChildResult(b, q) == [kind |-> "child", q |-> q, secrets |-> RightChild(b, q)]

Results(b) == {KeyResult(b, q) : q \in LeavesOf(b)}
              \cup {SignatureResult(b, q, message) : q \in LeavesOf(b), message \in Messages}
              \cup {RandomizerResult(b, q) : q \in LeavesOf(b)}
              \cup {ChildResult(b, q) : q \in LeavesOf(b)}

Usable(d, b) == d = NewObject(b) \/ \E q \in LeavesOf(b) : AtLeaf(d, b, q)

\* While hss_compute_internal_node is at work, the object is at a leaf that is followed by
\* those that are left, and the result of that leaf is the last one.
IInv ==
  /\ build \in Builds
  /\ made \in Seq(Results(build)) /\ Len(made) <= MaxMade
  /\ leaves_left \in Nat
  /\ Usable(derive, build)
  /\ leaves_left > 0 => /\ derive.q \in LeavesOf(build)
                        /\ derive.q + leaves_left < 2 ^ build.height
                        /\ Len(made) > 0

\* A result tells by its kind what it is.
LEMMA ResultKinds ==
  ASSUME NEW b \in Builds, NEW r \in Results(b)
  PROVE  /\ r.q \in LeavesOf(b)
         /\ \/ r.kind = "key" /\ r.value = RightKey(b, r.q)
            \/ /\ r.kind = "signature" /\ r.message \in Messages
               /\ r.value = RightSignature(b, r.q, Digest(r.q, r.message))
            \/ r.kind = "randomizer" /\ r.secrets = RightRandomizer(b, r.q)
            \/ r.kind = "child" /\ r.secrets = RightChild(b, r.q)
<1>1. CASE r \in {KeyResult(b, q) : q \in LeavesOf(b)}
  BY <1>1 DEF KeyResult
<1>2. CASE r \in {SignatureResult(b, q, message) : q \in LeavesOf(b), message \in Messages}
  BY <1>2 DEF SignatureResult
<1>3. CASE r \in {RandomizerResult(b, q) : q \in LeavesOf(b)}
  BY <1>3 DEF RandomizerResult
<1>4. CASE r \in {ChildResult(b, q) : q \in LeavesOf(b)}
  BY <1>4 DEF ChildResult
<1> QED BY <1>1, <1>2, <1>3, <1>4 DEF Results

\* A new object with q set, as the functions for one leaf make it.
LEMMA AtIsAtLeaf ==
  ASSUME build \in Builds, NEW q \in LeavesOf(build)
  PROVE  AtLeaf(At(q), build, q)
<1>1. NewObject(build) = NewObject(build) \/ \E r \in LeavesOf(build) : AtLeaf(NewObject(build), build, r)
  OBVIOUS
<1> QED BY <1>1, SetQ DEF At

\* The object after the chains are made is at its leaf.
LEMMA AfterChains ==
  ASSUME NEW b \in Builds, NEW q \in LeavesOf(b)
  PROVE  AtLeaf(JObject(b, q, P(b) - 1), b, q)
<1>1. P(b) \in 34 .. 265
  BY ParameterSets
<1>2. P(b) - 1 \in Int
  BY <1>1
<1> QED BY <1>2, JObjectAtLeaf

\* A remembered result.
LEMMA RememberRight ==
  ASSUME IInv, NEW r \in Results(build), Remember(r)
  PROVE  made' \in Seq(Results(build)) /\ Len(made') <= MaxMade /\ Len(made') > 0
<1>1. made \in Seq(Results(build)) /\ Len(made) < MaxMade /\ made' = Append(made, r)
  BY DEF IInv, Remember
<1>2. Len(made) \in Nat /\ MaxMade \in Nat
  BY <1>1, MaxMadeAssumption
<1>3. made' \in Seq(Results(build)) /\ Len(made') = Len(made) + 1
  BY <1>1, AppendProperties
<1> QED BY <1>1, <1>2, <1>3

\* A function for one leaf leaves an object there, and its result.
LEMMA ForLeafRight ==
  ASSUME IInv, NEW result, ForLeaf(result), NEW r \in Results(build), Remember(r),
         NEW q \in LeavesOf(build), AtLeaf(result.object, build, q)
  PROVE  IInv'
<1>1. build' = build /\ leaves_left' = 0 /\ derive' = result.object
  BY DEF ForLeaf
<1>2. made' \in Seq(Results(build)) /\ Len(made') <= MaxMade
  BY RememberRight
<1>3. Usable(derive', build)
  BY <1>1 DEF Usable
<1>4. build \in Builds
  BY DEF IInv
<1>5. build' \in Builds /\ made' \in Seq(Results(build')) /\ Usable(derive', build')
  BY <1>1, <1>2, <1>3, <1>4
<1> QED BY <1>1, <1>2, <1>5 DEF IInv

\* Init.
LEMMA InitRight == Init => IInv
<1> SUFFICES ASSUME Init PROVE IInv
  OBVIOUS
<1>1. build \in Builds /\ derive = NewObject(build) /\ leaves_left = 0 /\ made = <<>>
  BY DEF Init
<1>2. made \in Seq(Results(build)) /\ Len(made) = 0
  BY <1>1
<1> QED BY <1>1, <1>2, MaxMadeAssumption DEF IInv, Usable

\* The first leaf of a node.
LEMMA ComputeNodeRight ==
  ASSUME IInv, NEW q \in Leaves, NEW height \in 0 .. build.height, ComputeNode(q, height)
  PROVE  IInv'
<1> DEFINE leaf == lm_ots_generate_public_key(build.w, At(q))
<1>1. build \in Builds /\ q \in LeavesOf(build)
  BY DEF IInv, Leaves, LeavesOf
<1>2. leaf.key = RightKey(build, q) /\ leaf.object = JObject(build, q, P(build) - 1)
  BY <1>1, AtIsAtLeaf, KeyAtLeaf
<1>3. AtLeaf(leaf.object, build, q)
  BY <1>1, <1>2, AfterChains
<1>4. /\ build' = build /\ leaves_left' = 2 ^ height - 1 /\ derive' = leaf.object
      /\ q % 2 ^ height = 0 /\ Remember(KeyFrom(leaf, q))
  BY DEF ComputeNode
<1>5. KeyFrom(leaf, q) = KeyResult(build, q)
  <2> HIDE DEF leaf
  <2> QED BY <1>2 DEF KeyFrom, KeyResult
<1>6. KeyFrom(leaf, q) \in Results(build)
  BY <1>1, <1>5 DEF Results
<1>7. made' \in Seq(Results(build)) /\ Len(made') <= MaxMade /\ Len(made') > 0
  <2> HIDE DEF leaf
  <2> QED BY <1>4, <1>6, RememberRight
<1>8. derive'.q = q
  BY <1>1, <1>3, <1>4, AtLeafFields
<1>9. 2 ^ height \in Nat /\ 2 ^ height >= 1 /\ q + (2 ^ height - 1) < 2 ^ build.height
  <2> DEFINE c == 2 ^ height
             e == 2 ^ (build.height - height)
             k == q \div c
  <2>1. build.height \in Nat /\ height \in Nat /\ height <= build.height /\ build.height - height \in Nat
    BY <1>1, BuildsAreBuilds
  <2>2. c \in Nat /\ c >= 1 /\ e \in Nat /\ 2 ^ build.height = c * e
    BY <2>1, PowerPositive, PowerQuotient
  <2>3. q \in Nat /\ q < 2 ^ build.height
    BY <1>1, LeafFacts DEF Fresh
  <2> HIDE DEF c, e
  <2>4. q % c = 0
    BY <1>4 DEF c
  <2>5. k \in Nat /\ q = c * k
    BY <2>2, <2>3, <2>4, DivMod
  <2> HIDE DEF k
  <2>6. c * k < c * e
    BY <2>2, <2>3, <2>5
  <2>7. k < e
    BY <2>2, <2>5, <2>6
  <2>8. c * (k + 1) <= c * e
    BY <2>2, <2>5, <2>7
  <2>9. q + c <= c * e
    BY <2>2, <2>5, <2>8
  <2>10. q + (c - 1) < 2 ^ build.height
    BY <2>2, <2>3, <2>9
  <2> QED BY <2>2, <2>10 DEF c
<1>10. Usable(derive', build')
  BY <1>1, <1>3, <1>4 DEF Usable
<1>11. build' \in Builds /\ made' \in Seq(Results(build')) /\ derive'.q \in LeavesOf(build')
       /\ derive'.q + leaves_left' < 2 ^ build'.height /\ leaves_left' \in Nat
  BY <1>1, <1>4, <1>7, <1>8, <1>9
<1> QED BY <1>7, <1>10, <1>11 DEF IInv

\* The next leaf of a node.
LEMMA NextLeafRight == ASSUME IInv, NextLeaf PROVE IInv'
<1> DEFINE q == derive.q + 1
           leaf == lm_ots_generate_public_key(build.w, hss_seed_derive_set_q(derive, q))
<1>1. /\ build \in Builds /\ leaves_left \in Nat /\ leaves_left > 0
      /\ derive.q \in LeavesOf(build) /\ derive.q + leaves_left < 2 ^ build.height
      /\ Usable(derive, build) /\ made \in Seq(Results(build)) /\ Len(made) > 0 /\ Len(made) <= MaxMade
  BY DEF IInv, NextLeaf
<1>2. /\ leaves_left' = leaves_left - 1 /\ derive' = leaf.object /\ build' = build
      /\ made' = [made EXCEPT ![Len(made)] = KeyFrom(leaf, q)]
  BY DEF NextLeaf
<1>3. q \in LeavesOf(build) /\ q + (leaves_left - 1) < 2 ^ build.height
  <2> DEFINE count == 2 ^ build.height
             r == derive.q
  <2>1. r \in Nat /\ count \in Nat
    BY <1>1, LeafFacts DEF Fresh
  <2>2. r + leaves_left < count /\ LeavesOf(build) = 0..(count - 1)
    BY <1>1 DEF LeavesOf
  <2>3. leaves_left \in Nat /\ leaves_left > 0
    BY <1>1
  <2> HIDE DEF r, count
  <2>4. r + 1 \in 0..(count - 1) /\ (r + 1) + (leaves_left - 1) < count
    BY <2>1, <2>2, <2>3
  <2> QED BY <2>2, <2>4 DEF r, count
<1>4. AtLeaf(hss_seed_derive_set_q(derive, q), build, q)
  <2> HIDE DEF q
  <2>1. derive = NewObject(build) \/ \E r \in LeavesOf(build) : AtLeaf(derive, build, r)
    BY <1>1 DEF Usable
  <2> QED BY <1>1, <1>3, <2>1, SetQ
<1>5. leaf.key = RightKey(build, q) /\ leaf.object = JObject(build, q, P(build) - 1)
  <2> HIDE DEF q
  <2> QED BY <1>1, <1>3, <1>4, KeyAtLeaf
<1> HIDE DEF q, leaf
<1>6. AtLeaf(derive', build, q) /\ derive'.q = q
  BY <1>1, <1>2, <1>3, <1>5, AfterChains, AtLeafFields
<1>7. KeyFrom(leaf, q) \in Results(build)
  <2>1. KeyFrom(leaf, q) = KeyResult(build, q)
    BY <1>5 DEF KeyFrom, KeyResult
  <2> QED BY <1>3, <2>1 DEF Results
<1>8. made' \in Seq(Results(build)) /\ Len(made') = Len(made)
  BY <1>1, <1>2, <1>7
<1>9. Usable(derive', build')
  BY <1>2, <1>3, <1>6 DEF Usable
<1>10. /\ build' \in Builds /\ made' \in Seq(Results(build')) /\ derive'.q \in LeavesOf(build')
       /\ derive'.q + leaves_left' < 2 ^ build'.height /\ leaves_left' \in Nat
       /\ Len(made') > 0 /\ Len(made') <= MaxMade
  BY <1>1, <1>2, <1>3, <1>6, <1>8
<1> QED BY <1>9, <1>10 DEF IInv

\* Signing a whole message.
LEMMA SignWholeRight ==
  ASSUME IInv, NEW q \in Leaves, NEW message \in Messages, SignWhole(q, message)
  PROVE  IInv'
<1> DEFINE drawn == lm_ots_generate_randomizer(At(q))
           signed == Signature(build.w, drawn.object, drawn.secrets[1], Digest(q, message))
           r == [kind |-> "signature", q |-> q, message |-> message, value |-> signed.signature]
<1>1. build \in Builds /\ q \in LeavesOf(build)
  BY DEF IInv, Leaves, LeavesOf
<1>2. ForLeaf(signed) /\ Remember(r)
  BY DEF SignWhole
<1>3. AtLeaf(At(q), build, q)
  BY <1>1, AtIsAtLeaf
<1>4. drawn.secrets[1] = SecretOf(build, q, SEED_RANDOMIZER_INDEX) /\ AtLeaf(drawn.object, build, q)
  BY <1>1, <1>3, RandomizerAtLeaf
<1>5. signed.signature = RightSignature(build, q, Digest(q, message))
      /\ signed.object = JObject(build, q, P(build) - 1)
  <2> HIDE DEF drawn
  <2> QED BY <1>1, <1>4, SignatureAtLeaf
<1> HIDE DEF drawn, signed
<1>6. r = SignatureResult(build, q, message)
  BY <1>5 DEF SignatureResult
<1>7. r \in Results(build)
  BY <1>1, <1>6 DEF Results
<1>8. AtLeaf(signed.object, build, q)
  BY <1>1, <1>5, AfterChains
<1> HIDE DEF r
<1> QED BY <1>1, <1>2, <1>7, <1>8, ForLeafRight

\* The beginning of a signature for a message in pieces.
LEMMA SignInitRight ==
  ASSUME IInv, NEW q \in Leaves, SignInit(q)
  PROVE  IInv'
<1> DEFINE drawn == lm_ots_generate_randomizer(At(q))
           r == [kind |-> "randomizer", q |-> q, secrets |-> drawn.secrets]
<1>1. build \in Builds /\ q \in LeavesOf(build)
  BY DEF IInv, Leaves, LeavesOf
<1>2. ForLeaf(drawn) /\ Remember(r)
  BY DEF SignInit
<1>3. AtLeaf(At(q), build, q)
  BY <1>1, AtIsAtLeaf
<1>4. drawn.secrets = RightRandomizer(build, q) /\ AtLeaf(drawn.object, build, q)
  BY <1>1, <1>3, RandomizerAtLeaf
<1> HIDE DEF drawn
<1>5. r = RandomizerResult(build, q)
  BY <1>4 DEF RandomizerResult
<1>6. r \in Results(build)
  BY <1>1, <1>5 DEF Results
<1> HIDE DEF r
<1> QED BY <1>1, <1>2, <1>4, <1>6, ForLeafRight

\* Its end: the randomizer is the one that was drawn at the beginning.
LEMMA SignFinalizeRight ==
  ASSUME IInv, NEW k \in 1 .. Len(made), NEW message \in Messages, SignFinalize(k, message)
  PROVE  IInv'
<1> DEFINE q == made[k].q
           signed == Signature(build.w, At(q), made[k].secrets[1], Digest(q, message))
           r == [kind |-> "signature", q |-> q, message |-> message, value |-> signed.signature]
<1>1. build \in Builds /\ made[k] \in Results(build)
  BY DEF IInv
<1>2. made[k].kind = "randomizer" /\ ForLeaf(signed) /\ Remember(r)
  BY DEF SignFinalize
<1>3. q \in LeavesOf(build) /\ made[k].secrets = RightRandomizer(build, q)
  BY <1>1, <1>2, ResultKinds
<1>4. made[k].secrets[1] = SecretOf(build, q, SEED_RANDOMIZER_INDEX)
  BY <1>3 DEF RightRandomizer
<1>5. AtLeaf(At(q), build, q)
  BY <1>1, <1>3, AtIsAtLeaf
<1>6. signed.signature = RightSignature(build, q, Digest(q, message))
      /\ signed.object = JObject(build, q, P(build) - 1)
  <2> HIDE DEF q
  <2> QED BY <1>1, <1>3, <1>4, <1>5, SignatureAtLeaf
<1> HIDE DEF q, signed
<1>7. r = SignatureResult(build, q, message)
  BY <1>6 DEF SignatureResult
<1>8. r \in Results(build)
  BY <1>3, <1>7 DEF Results
<1>9. AtLeaf(signed.object, build, q)
  BY <1>1, <1>3, <1>6, AfterChains
<1> HIDE DEF r
<1> QED BY <1>1, <1>2, <1>3, <1>8, <1>9, ForLeafRight

\* The seed of a tree below.
LEMMA ChildSeedRight ==
  ASSUME IInv, NEW q \in Leaves, ChildSeed(q)
  PROVE  IInv'
<1> DEFINE child == hss_generate_child_seed_I_value(At(q))
           r == [kind |-> "child", q |-> q, secrets |-> child.secrets]
<1>1. build \in Builds /\ q \in LeavesOf(build)
  BY DEF IInv, Leaves, LeavesOf
<1>2. ForLeaf(child) /\ Remember(r)
  BY DEF ChildSeed
<1>3. AtLeaf(At(q), build, q)
  BY <1>1, AtIsAtLeaf
<1>4. child.secrets = RightChild(build, q) /\ AtLeaf(child.object, build, q)
  BY <1>1, <1>3, ChildAtLeaf
<1> HIDE DEF child
<1>5. r = ChildResult(build, q)
  BY <1>4 DEF ChildResult
<1>6. r \in Results(build)
  BY <1>1, <1>5 DEF Results
<1> HIDE DEF r
<1> QED BY <1>1, <1>2, <1>4, <1>6, ForLeafRight

\* Every step keeps the invariant.
LEMMA StepRight == IInv /\ [Next]_vars => IInv'
<1> SUFFICES ASSUME IInv, [Next]_vars PROVE IInv'
  OBVIOUS
<1>1. ASSUME NEW q \in Leaves, NEW height \in 0 .. build.height, ComputeNode(q, height) PROVE IInv'
  BY <1>1, ComputeNodeRight
<1>2. ASSUME NEW q \in Leaves, NEW message \in Messages, SignWhole(q, message) PROVE IInv'
  BY <1>2, SignWholeRight
<1>3. ASSUME NEW q \in Leaves, SignInit(q) PROVE IInv'
  BY <1>3, SignInitRight
<1>4. ASSUME NEW q \in Leaves, ChildSeed(q) PROVE IInv'
  BY <1>4, ChildSeedRight
<1>5. CASE NextLeaf
  BY <1>5, NextLeafRight
<1>6. CASE Forget
  <2>1. /\ build' = build /\ leaves_left' = leaves_left /\ made' = <<>> /\ leaves_left = 0
        /\ derive' = NewObject(build) /\ build \in Builds
    BY <1>6 DEF Forget, IInv
  <2>2. made' \in Seq(Results(build)) /\ Len(made') = 0
    BY <2>1
  <2>3. Usable(derive', build')
    BY <2>1 DEF Usable
  <2>4. made' \in Seq(Results(build')) /\ leaves_left' = 0 /\ build' \in Builds
    BY <2>1, <2>2
  <2> QED BY <2>2, <2>3, <2>4, MaxMadeAssumption DEF IInv
<1>7. ASSUME NEW k \in 1 .. Len(made), NEW message \in Messages, SignFinalize(k, message) PROVE IInv'
  BY <1>7, SignFinalizeRight
<1>8. CASE UNCHANGED vars
  BY <1>8 DEF IInv, vars
<1> QED BY <1>1, <1>2, <1>3, <1>4, <1>5, <1>6, <1>7, <1>8 DEF Next

\* Every state satisfies the invariant.
LEMMA Invariant == Spec => []IInv
BY InitRight, StepRight, PTL DEF Spec

-----------------------------------------------------------------------------
(* Types, and what is made. *)

\* The path of j values of an object is a path.
LEMMA JValuesPath ==
  ASSUME NEW b \in Builds, NEW jv \in JValues(b), NEW i \in 2 .. JLen(b)
  PROVE  jv[i - 1] = jv[i] \div 2 ^ b.secret_max
<1>1. i - 1 \in 1 .. JLen(b) - 1 /\ (i - 1) + 1 = i /\ i \in 1 .. JLen(b) /\ i - 1 \in 1 .. JLen(b)
      /\ JLen(b) \in Nat
  BY PathLengths
<1>2. CASE jv = NoValue(b)
  <2>1. jv[i - 1] = 0 /\ jv[i] = 0
    BY <1>1, <1>2 DEF NoValue
  <2>2. b.secret_max \in Nat
    BY BuildsAreBuilds
  <2>3. 2 ^ b.secret_max \in Nat /\ 2 ^ b.secret_max >= 1
    BY <2>2, PowerPositive
  <2>4. 0 \div 2 ^ b.secret_max = 0
    BY <2>3
  <2> QED BY <2>1, <2>4
<1>3. CASE jv # NoValue(b)
  <2>1. PICK m \in Nat : jv = JVal(b, m)
    BY <1>3 DEF JValues
  <2> DEFINE k == i - 1
  <2>2. jv[k] = Above(b, m, JLen(b), k) /\ jv[i] = Above(b, m, JLen(b), i)
    BY <1>1, <2>1 DEF JVal
  <2>3. k \in 1 .. JLen(b) - 1 /\ k + 1 = i
    BY <1>1
  <2> HIDE DEF k
  <2>4. Above(b, m, JLen(b), k) = Above(b, m, JLen(b), k + 1) \div 2 ^ b.secret_max
    BY <1>1, <2>3, AboveAbove
  <2>5. jv[k] = jv[i] \div 2 ^ b.secret_max
    BY <2>2, <2>3, <2>4
  <2> QED BY <2>5 DEF k
<1> QED BY <1>2, <1>3

\* The leaf and the j values of an object.
LEMMA UsableFacts ==
  ASSUME NEW b \in Builds, NEW d, Usable(d, b)
  PROVE  d.q \in 0 .. 2 ^ b.height /\ (b.method = "tree" => d.j_value \in JValues(b))
<1>1. CASE d = NewObject(b)
  <2>1. d = ObjectAt(b, Fresh(b), NoQ(b), 0, NoValue(b), NoJ(b))
    BY <1>1, NewObjectFacts
  <2>2. d.q = Fresh(b) /\ d.j_value = NoValue(b)
    BY <2>1, ObjectFields
  <2>3. Fresh(b) \in Nat
    BY LeafFacts
  <2> QED BY <2>2, <2>3 DEF Fresh, JValues
<1>2. ASSUME NEW q \in LeavesOf(b), AtLeaf(d, b, q)
      PROVE  d.q \in 0 .. 2 ^ b.height /\ (b.method = "tree" => d.j_value \in JValues(b))
  <2>1. d.q = q
    BY <1>2, AtLeafFields
  <2>2. q \in Nat /\ q < Fresh(b) /\ Fresh(b) \in Nat
    BY LeafFacts
  <2>3. ASSUME b.method = "tree" PROVE d.j_value \in JValues(b)
    <3>1. PICK jv, js : /\ jv \in JValues(b)
                        /\ d = ObjectAt(b, q, QSecrets(b, q), 0, jv, js)
      BY <1>2, <2>3 DEF AtLeaf
    <3>2. d.j_value = jv
      BY <3>1, ObjectFields
    <3> QED BY <3>1, <3>2
  <2> QED BY <2>1, <2>2, <2>3 DEF Fresh
<1> QED BY <1>1, <1>2 DEF Usable

\* The object is at a leaf or fresh, hss_compute_internal_node has no more leaves to do than
\* the tree has, and what the levels see of j goes together.
THEOREM OtsKeysTypes == Spec => []TypeOK
<1>1. IInv => TypeOK
  <2> SUFFICES ASSUME IInv PROVE TypeOK
    OBVIOUS
  <2>1. build \in Builds /\ Len(made) <= MaxMade /\ leaves_left \in Nat /\ Usable(derive, build)
    BY DEF IInv
  <2>2. derive.q \in 0 .. 2 ^ build.height
    BY <2>1, UsableFacts
  <2>3. leaves_left \in 0 .. 2 ^ build.height - 1
    <3>1. Fresh(build) \in Nat /\ Fresh(build) > 0
      BY <2>1, LeafFacts
    <3>2. CASE leaves_left = 0
      BY <3>1, <3>2 DEF Fresh
    <3>3. CASE leaves_left > 0
      <4>1. derive.q \in LeavesOf(build) /\ derive.q + leaves_left < 2 ^ build.height
        BY <3>3 DEF IInv
      <4>2. derive.q \in Nat
        BY <2>1, <4>1, LeafFacts
      <4> QED BY <2>1, <3>1, <4>1, <4>2 DEF Fresh
    <3> QED BY <2>1, <3>2, <3>3
  <2>4. ASSUME build.method = "tree", NEW i \in 2 .. Len(derive.j_value)
        PROVE  derive.j_value[i - 1] = derive.j_value[i] \div 2 ^ build.secret_max
    <3>1. derive.j_value \in JValues(build)
      BY <2>1, <2>4, UsableFacts
    <3>2. i \in 2 .. JLen(build)
      BY <2>1, <2>4, <3>1, JValuesFacts
    <3> QED BY <2>1, <3>1, <3>2, JValuesPath
  <2> QED BY <2>1, <2>2, <2>3, <2>4 DEF TypeOK
<1> QED BY <1>1, Invariant, PTL

\* Keys, signatures, randomizers and child seeds are those that a new object gives: the
\* seeds that set_q keeps, and the j that is left from before, make no difference.
THEOREM OtsKeysHistory == Spec => []HistoryForgotten
<1>1. IInv => HistoryForgotten
  <2> SUFFICES ASSUME IInv, NEW k \in 1 .. Len(made)
               PROVE  LET new == At(made[k].q) drawn == lm_ots_generate_randomizer(new)
                      IN  CASE made[k].kind = "key" ->
                                 made[k].value = lm_ots_generate_public_key(build.w, new).key
                            [] made[k].kind = "signature" ->
                                 made[k].value = Signature(build.w, drawn.object, drawn.secrets[1],
                                                   Digest(made[k].q, made[k].message)).signature
                            [] made[k].kind = "randomizer" -> made[k].secrets = drawn.secrets
                            [] made[k].kind = "child" ->
                                 made[k].secrets = hss_generate_child_seed_I_value(new).secrets
    BY DEF HistoryForgotten
  <2> DEFINE r == made[k]
             new == At(r.q)
             drawn == lm_ots_generate_randomizer(new)
             Q == Digest(r.q, r.message)
  <2>1. build \in Builds /\ r \in Results(build)
    BY DEF IInv
  <2> HIDE DEF r
  <2>2. /\ r.q \in LeavesOf(build)
        /\ \/ r.kind = "key" /\ r.value = RightKey(build, r.q)
           \/ r.kind = "signature" /\ r.value = RightSignature(build, r.q, Q)
           \/ r.kind = "randomizer" /\ r.secrets = RightRandomizer(build, r.q)
           \/ r.kind = "child" /\ r.secrets = RightChild(build, r.q)
    BY <2>1, ResultKinds
  <2>3. AtLeaf(new, build, r.q)
    BY <2>1, <2>2, AtIsAtLeaf
  <2> HIDE DEF new, Q
  <2>4. lm_ots_generate_public_key(build.w, new).key = RightKey(build, r.q)
    BY <2>1, <2>2, <2>3, KeyAtLeaf
  <2>5. /\ drawn.secrets = RightRandomizer(build, r.q)
        /\ drawn.secrets[1] = SecretOf(build, r.q, SEED_RANDOMIZER_INDEX)
        /\ AtLeaf(drawn.object, build, r.q)
    BY <2>1, <2>2, <2>3, RandomizerAtLeaf
  <2> HIDE DEF drawn
  <2>6. Signature(build.w, drawn.object, drawn.secrets[1], Q).signature = RightSignature(build, r.q, Q)
    BY <2>1, <2>2, <2>5, SignatureAtLeaf
  <2>7. hss_generate_child_seed_I_value(new).secrets = RightChild(build, r.q)
    BY <2>1, <2>2, <2>3, ChildAtLeaf
  <2>8. (CASE r.kind = "key" ->
               r.value = lm_ots_generate_public_key(build.w, new).key
          [] r.kind = "signature" ->
               r.value = Signature(build.w, drawn.object, drawn.secrets[1], Q).signature
          [] r.kind = "randomizer" -> r.secrets = drawn.secrets
          [] r.kind = "child" -> r.secrets = hss_generate_child_seed_I_value(new).secrets)
    BY <2>2, <2>4, <2>5, <2>6, <2>7
  <2> QED BY <2>8 DEF new, drawn, Q, r
<1> QED BY <1>1, Invariant, PTL

-----------------------------------------------------------------------------
(* Secrets differ. *)

Path(b, q, m) == QIn(b, q) \o JIn(b, q, m)

\* The values of j that secrets are derived for.
JsOf(b) == {SEED_RANDOMIZER_INDEX, SEED_CHILD_SEED, SEED_CHILD_I} \cup 0 .. P(b) - 1

\* An input of the hash tells the leaf and 16 bits of j, or the node of the tree.
LEMMA InputsTell ==
  /\ \A q, r, j, k : Prg("I", q, j) = Prg("I", r, k) => q = r /\ j % 2 ^ 16 = k % 2 ^ 16
  /\ \A q, r, j, k : q = r /\ j % 2 ^ 16 = k % 2 ^ 16 => Prg("I", q, j) = Prg("I", r, k)
  /\ \A r1, r2 : QTree("I", r1) = QTree("I", r2) => r1 = r2
  /\ \A q, j : Prg("I", q, j)[Len(Prg("I", q, j))] = j % 2 ^ 16
  /\ \A r : QTree("I", r)[Len(QTree("I", r))] = r
BY DEF Prg, QTree

\* All of a number is seen on the last level.
LEMMA AboveLast ==
  ASSUME NEW b \in Builds, NEW x \in Nat, NEW len \in Nat
  PROVE  Above(b, x, len, len) = x
<1>1. b.secret_max \in Nat
  BY BuildsAreBuilds
<1>2. (len - len) * b.secret_max = 0
  BY <1>1
<1>3. Above(b, x, len, len) = x \div 2 ^ 0
  BY <1>2 DEF Above
<1>4. x \div 1 = x
  OBVIOUS
<1> QED BY <1>3, <1>4, PowerZero

\* What no level sees more of than the number has.
LEMMA AboveSmall ==
  ASSUME NEW b \in Builds, NEW x \in Nat, NEW len \in Nat, NEW i \in 1 .. len
  PROVE  Above(b, x, len, i) <= x
<1> DEFINE d == 2 ^ ((len - i) * b.secret_max)
<1>1. d \in Nat /\ d > 0
  BY AboveNat
<1>2. Above(b, x, len, i) = x \div d
  BY DEF Above
<1> HIDE DEF d
<1> DEFINE u == x \div d
<1>3. u \in Nat /\ x = d * u + (x % d) /\ x % d \in 0 .. d - 1
  BY <1>1, DivMod
<1> HIDE DEF u
<1>4. u <= d * u
  BY <1>1, <1>3
<1>5. u <= x
  BY <1>1, <1>3, <1>4
<1> QED BY <1>2, <1>5 DEF u

\* The elements of a path.
LEMMA PathElements ==
  ASSUME NEW b \in Builds, NEW q \in LeavesOf(b), NEW m \in Nat
  PROVE  /\ Path(b, q, m) \in Seq(Inputs) /\ Len(Path(b, q, m)) = QLen(b) + JLen(b)
         /\ \A i \in 1 .. QLen(b) :
              Path(b, q, m)[i] = QTree("I", Above(b, q + 2 ^ b.height, QLen(b), i))
         /\ \A i \in 1 .. JLen(b) :
              Path(b, q, m)[QLen(b) + i] = Prg("I", q, Above(b, m, JLen(b), i))
<1> DEFINE u == QIn(b, q)
           v == JIn(b, q, m)
<1>1. u \in Seq(Inputs) /\ Len(u) = QLen(b) /\ v \in Seq(Inputs) /\ Len(v) = JLen(b)
  BY PathInputs
<1>2. QLen(b) \in Nat /\ JLen(b) \in Nat
  BY PathLengths
<1>3. /\ \A i \in 1 .. QLen(b) : u[i] = QTree("I", Above(b, q + 2 ^ b.height, QLen(b), i))
      /\ \A i \in 1 .. JLen(b) : v[i] = Prg("I", q, Above(b, m, JLen(b), i))
  BY DEF QIn, JIn
<1> HIDE DEF u, v
<1>4. /\ u \o v \in Seq(Inputs) /\ Len(u \o v) = QLen(b) + JLen(b)
      /\ \A i \in 1 .. QLen(b) : (u \o v)[i] = u[i]
      /\ \A i \in 1 .. JLen(b) : (u \o v)[QLen(b) + i] = v[i]
  BY <1>1, <1>2
<1>5. Path(b, q, m) = u \o v
  BY DEF Path, u, v
<1> QED BY <1>3, <1>4, <1>5

\* Values of j that are small apart, their marked values are apart.
LEMMA JsApart ==
  ASSUME NEW b \in Builds, NEW x \in JsOf(b), NEW y \in JsOf(b)
  PROVE  /\ x \in Int
         /\ x % 2 ^ JHeight(b) = y % 2 ^ JHeight(b) => x = y
         /\ x % 2 ^ 16 = y % 2 ^ 16 => x = y
<1> DEFINE d == 2 ^ JHeight(b)
           p == P(b)
<1>1. p \in 34 .. 265
  BY ParameterSets
<1>2. d \in Nat
  BY MarkedFacts
<1>3. p + 3 < d
  BY JHeightFacts
<1>4. x \in -3 .. p - 1 /\ y \in -3 .. p - 1 /\ x \in Int /\ y \in Int
  BY <1>1 DEF JsOf, SEED_RANDOMIZER_INDEX, SEED_CHILD_SEED, SEED_CHILD_I
<1>5. ASSUME NEW c \in Nat, p + 3 < c, NEW z \in -3 .. p - 1
      PROVE  z % c = IF z < 0 THEN z + c ELSE z
  <2> HIDE DEF p
  <2>1. CASE z < 0
    <3>1. z = c * (-1) + (z + c) /\ z + c \in 0 .. c - 1 /\ z \in Int
      BY <1>1, <1>5, <2>1
    <3>2. z % c = z + c
      BY <1>1, <1>5, <3>1, DivModUnique
    <3> QED BY <2>1, <3>2
  <2>2. CASE z >= 0
    <3>1. z = c * 0 + z /\ z \in 0 .. c - 1 /\ z \in Int
      BY <1>1, <1>5, <2>2
    <3>2. z % c = z
      BY <1>1, <1>5, <3>1, DivModUnique
    <3> QED BY <1>1, <2>2, <3>2
  <2>3. z \in Int
    BY <1>1, <1>5
  <2> QED BY <2>1, <2>2, <2>3
<1>6. ASSUME NEW c \in Nat, p + 3 < c, x % c = y % c PROVE x = y
  <2> HIDE DEF p
  <2>1. x % c = (IF x < 0 THEN x + c ELSE x) /\ y % c = (IF y < 0 THEN y + c ELSE y)
    BY <1>4, <1>5, <1>6
  <2> QED BY <1>1, <1>4, <1>6, <2>1
<1>7. 65536 \in Nat /\ p + 3 < 65536
  BY <1>1
<1> HIDE DEF p, d
<1>8. x % d = y % d => x = y
  BY <1>2, <1>3, <1>6
<1>9. x % 65536 = y % 65536 => x = y
  BY <1>6, <1>7
<1>10. 2 ^ 16 = 65536
  BY SmallPowers
<1> QED BY <1>4, <1>8, <1>9, <1>10 DEF d

\* Marked values have no more than 16 bits.
LEMMA MarkedSmall ==
  ASSUME NEW b \in Builds, NEW x \in Int
  PROVE  /\ Marked(b, x) \in Nat /\ Marked(b, x) < 65536
         /\ \A i \in 1 .. JLen(b) : /\ Above(b, Marked(b, x), JLen(b), i) \in Nat
                                    /\ Above(b, Marked(b, x), JLen(b), i) < 65536
<1>1. JHeight(b) \in 1 .. 9
  BY JHeightFacts
<1>2. JHeight(b) \in Nat /\ JHeight(b) <= 9 /\ 9 \in Nat
  BY <1>1
<1>3. 2 ^ JHeight(b) <= 2 ^ 9
  BY <1>2, PowerMonotone
<1>4. 2 ^ JHeight(b) <= 512
  BY <1>3, SmallPowers
<1> DEFINE m == Marked(b, x)
           d == 2 ^ JHeight(b)
<1>5. m \in d .. 2 * d - 1 /\ d \in Nat
  BY MarkedFacts
<1>6. m \in Nat /\ m < 65536
  <2> HIDE DEF m
  <2>1. d <= 512
    BY <1>4
  <2> HIDE DEF d
  <2> QED BY <1>5, <2>1
<1>7. ASSUME NEW i \in 1 .. JLen(b)
      PROVE  Above(b, m, JLen(b), i) \in Nat /\ Above(b, m, JLen(b), i) < 65536
  <2> HIDE DEF m
  <2>1. JLen(b) \in Nat
    BY PathLengths
  <2>2. Above(b, m, JLen(b), i) \in Nat /\ Above(b, m, JLen(b), i) <= m
    BY <1>6, <2>1, AboveNat, AboveSmall
  <2> QED BY <1>6, <2>2
<1> QED BY <1>6, <1>7

\* Secrets of two leaves, or for two values of j, are not the same.
LEMMA SecretsDiffer ==
  ASSUME NEW b \in Builds, NEW q \in LeavesOf(b), NEW r \in LeavesOf(b),
         NEW x \in JsOf(b), NEW y \in JsOf(b), SecretOf(b, q, x) = SecretOf(b, r, y)
  PROVE  q = r /\ x = y
<1>1. x \in Int /\ y \in Int
  BY JsApart
<1>2. CASE b.method = "hash"
  <2> DEFINE u == Prg("I", q, x)
             v == Prg("I", r, y)
  <2>1. <<u>> = <<v>>
    BY <1>2, DerivedFacts DEF SecretOf
  <2>2. u = v
    <3> HIDE DEF u, v
    <3> QED BY <2>1
  <2>3. q = r /\ x % 2 ^ 16 = y % 2 ^ 16
    BY <2>2, InputsTell
  <2> QED BY <2>3, JsApart
<1>3. CASE b.method # "hash"
  <2> DEFINE m1 == Marked(b, x)
             m2 == Marked(b, y)
             k == JLen(b)
  <2>1. Path(b, q, m1) = Path(b, r, m2)
    BY <1>3, DerivedFacts DEF SecretOf, Path
  <2>2. m1 \in Nat /\ m2 \in Nat /\ m1 < 65536 /\ m2 < 65536
    BY <1>1, MarkedSmall
  <2>3. k \in Nat /\ k \in 1 .. k
    BY PathLengths
  <2> HIDE DEF m1, m2
  <2>4. /\ Path(b, q, m1)[QLen(b) + k] = Prg("I", q, Above(b, m1, k, k))
        /\ Path(b, r, m2)[QLen(b) + k] = Prg("I", r, Above(b, m2, k, k))
    BY <2>2, <2>3, PathElements
  <2>5. Above(b, m1, k, k) = m1 /\ Above(b, m2, k, k) = m2
    BY <2>2, <2>3, AboveLast
  <2>6. Prg("I", q, m1) = Prg("I", r, m2)
    BY <2>1, <2>4, <2>5
  <2>7. q = r /\ m1 % 65536 = m2 % 65536
    BY <2>6, InputsTell, SmallPowers
  <2>8. m1 = m2
    BY <2>2, <2>7
  <2>9. x % 2 ^ JHeight(b) = y % 2 ^ JHeight(b)
    <3> DEFINE d == 2 ^ JHeight(b)
    <3>1. d \in Nat /\ x % d \in 0 .. d - 1 /\ y % d \in 0 .. d - 1
      BY <1>1, MarkedFacts
    <3>2. (x % d) + d = (y % d) + d
      BY <2>8 DEF m1, m2, Marked
    <3> HIDE DEF d
    <3>3. x % d = y % d
      BY <3>1, <3>2
    <3> QED BY <3>3 DEF d
  <2> QED BY <2>7, <2>9, JsApart
<1> QED BY <1>2, <1>3

-----------------------------------------------------------------------------
(* The secrets in the results. *)

Use(q, j, secret) == [q |-> q, j |-> j, secret |-> secret]

\* What a number of a use stands for: the chains are counted from 1, their j from 0.
JOfUse(j) == IF j >= 1 THEN j - 1 ELSE j

UsesAt(b, q) == {Use(q, j, SecretOf(b, q, JOfUse(j))) :
                   j \in {SEED_RANDOMIZER_INDEX, SEED_CHILD_SEED, SEED_CHILD_I} \cup 1 .. P(b)}

\* The start of a chain is found in any value of it.
LEMMA ChainStartFound ==
  ASSUME NEW path, NEW key, NEW i, NEW to
  PROVE  ChainStart(Walk(Derived(path), key, i, 0, to)) = Derived(path)
<1> DEFINE s == Derived(path)
<1>1. s[1] # "chain"
  BY DerivedFacts
<1> HIDE DEF s
<1>2. ASSUME to = 0 PROVE ChainStart(Walk(s, key, i, 0, to)) = s
  <2>1. Walk(s, key, i, 0, to) = s
    BY <1>2, Zenon DEF Walk
  <2> QED BY <1>1, <2>1, Zenon DEF ChainStart
<1>3. ASSUME to # 0 PROVE ChainStart(Walk(s, key, i, 0, to)) = s
  <2>1. Walk(s, key, i, 0, to) = <<"chain", s, key, i, to>>
    BY <1>3, Zenon DEF Walk
  <2> DEFINE v == <<"chain", s, key, i, to>>
  <2>2. v[1] = "chain" /\ v[2] = s
    OBVIOUS
  <2> HIDE DEF v
  <2> QED BY <2>1, <2>2, Zenon DEF ChainStart, v
<1>4. ChainStart(Walk(s, key, i, 0, to)) = s
  BY <1>2, <1>3
<1> QED BY <1>4 DEF s

\* ... of secrets in particular.
LEMMA SecretFound ==
  ASSUME NEW b, NEW q, NEW x, NEW key, NEW i, NEW to
  PROVE  ChainStart(Walk(SecretOf(b, q, x), key, i, 0, to)) = SecretOf(b, q, x)
BY ChainStartFound DEF SecretOf

\* The uses of secrets that results show.
LEMMA SecretsInFacts ==
  ASSUME IInv, NEW r \in Results(build)
  PROVE  r.q \in LeavesOf(build) /\ SecretsIn(r) \subseteq UsesAt(build, r.q)
<1> DEFINE b == build
           q == r.q
           Chains == {Use(q, i, SecretOf(b, q, i - 1)) : i \in 1 .. P(b)}
           Of(j) == Use(q, j, SecretOf(b, q, j))
<1>1. b \in Builds /\ param.p = P(b)
  BY DEF IInv, param, P
<1>2. /\ q \in LeavesOf(b)
      /\ \/ r.kind = "key" /\ r.value = RightKey(b, q)
         \/ r.kind = "signature" /\ r.value = RightSignature(b, q, Digest(q, r.message))
         \/ r.kind = "randomizer" /\ r.secrets = RightRandomizer(b, q)
         \/ r.kind = "child" /\ r.secrets = RightChild(b, q)
  BY <1>1, ResultKinds
<1>3. Chains \subseteq UsesAt(b, q)
  <2>1. ASSUME NEW i \in 1 .. P(b) PROVE Use(q, i, SecretOf(b, q, i - 1)) \in UsesAt(b, q)
    <3>1. P(b) \in 34 .. 265
      BY <1>1, ParameterSets
    <3>2. i >= 1
      BY <3>1
    <3>3. JOfUse(i) = i - 1
      BY <3>2 DEF JOfUse
    <3> QED BY <3>3 DEF UsesAt
  <2> QED BY <2>1
<1>4. Of(SEED_RANDOMIZER_INDEX) \in UsesAt(b, q) /\ Of(SEED_CHILD_SEED) \in UsesAt(b, q)
      /\ Of(SEED_CHILD_I) \in UsesAt(b, q)
  <2>1. /\ JOfUse(SEED_RANDOMIZER_INDEX) = SEED_RANDOMIZER_INDEX
        /\ JOfUse(SEED_CHILD_SEED) = SEED_CHILD_SEED /\ JOfUse(SEED_CHILD_I) = SEED_CHILD_I
    BY DEF JOfUse, SEED_RANDOMIZER_INDEX, SEED_CHILD_SEED, SEED_CHILD_I
  <2> QED BY <2>1 DEF UsesAt
<1>5. CASE r.kind = "key"
  <2> DEFINE ends == [i \in 1 .. P(b) |-> Walk(SecretOf(b, q, i - 1), <<"I", q>>, i, 0, max_digit(b.w))]
  <2>1. r.value[4] = ends
    BY <1>2, <1>5 DEF RightKey, KeyOf
  <2>2. SecretsIn(r) = {Use(q, i, ChainStart(r.value[4][i])) : i \in 1 .. P(b)}
    BY <1>1, <1>5 DEF SecretsIn, Use
  <2>3. \A i \in 1 .. P(b) : ChainStart(ends[i]) = SecretOf(b, q, i - 1)
    BY SecretFound
  <2> HIDE DEF ends
  <2>4. SecretsIn(r) = Chains
    BY <2>1, <2>2, <2>3
  <2> QED BY <1>2, <1>3, <2>4
<1>6. CASE r.kind = "signature"
  <2> DEFINE digits == Digits(Digest(q, r.message), lm_ots_look_up_parameter_set(b.w))
             y == [i \in 1 .. P(b) |-> Walk(SecretOf(b, q, i - 1), <<"I", q>>, i, 0, digits[i])]
  <2>1. r.value = [type |-> b.w, C |-> SecretOf(b, q, SEED_RANDOMIZER_INDEX), y |-> y]
    BY <1>2, <1>6 DEF RightSignature
  <2>2. SecretsIn(r) = {Use(q, i, ChainStart(r.value.y[i])) : i \in 1 .. P(b)}
                       \cup {Use(q, SEED_RANDOMIZER_INDEX, r.value.C)}
    BY <1>1, <1>6 DEF SecretsIn, Use
  <2>3. \A i \in 1 .. P(b) : ChainStart(y[i]) = SecretOf(b, q, i - 1)
    BY SecretFound
  <2> HIDE DEF y
  <2>4. r.value.y = y /\ r.value.C = SecretOf(b, q, SEED_RANDOMIZER_INDEX)
    BY <2>1
  <2>5. SecretsIn(r) = Chains \cup {Of(SEED_RANDOMIZER_INDEX)}
    BY <2>2, <2>3, <2>4
  <2> QED BY <1>2, <1>3, <1>4, <2>5
<1>7. CASE r.kind = "randomizer"
  <2>1. SecretsIn(r) = {Use(q, SEED_RANDOMIZER_INDEX, r.secrets[1])}
    BY <1>7 DEF SecretsIn, Use
  <2>2. r.secrets[1] = SecretOf(b, q, SEED_RANDOMIZER_INDEX)
    BY <1>2, <1>7 DEF RightRandomizer
  <2> QED BY <1>2, <1>4, <2>1, <2>2
<1>8. CASE r.kind = "child"
  <2>1. SecretsIn(r) = {Use(q, SEED_CHILD_SEED, r.secrets[1]), Use(q, SEED_CHILD_I, r.secrets[2])}
    BY <1>8 DEF SecretsIn, Use
  <2>2. r.secrets[1] = SecretOf(b, q, SEED_CHILD_SEED) /\ r.secrets[2] = SecretOf(b, q, SEED_CHILD_I)
    BY <1>2, <1>8 DEF RightChild
  <2> QED BY <1>2, <1>4, <2>1, <2>2
<1> QED BY <1>2, <1>5, <1>6, <1>7, <1>8

\* All secrets that were made.
LEMMA SecretsMadeFacts ==
  ASSUME IInv, NEW s \in SecretsMade
  PROVE  \E q \in LeavesOf(build) : s \in UsesAt(build, q)
<1>1. PICK k \in 1 .. Len(made) : s \in SecretsIn(made[k])
  BY DEF SecretsMade
<1>2. made[k] \in Results(build)
  BY DEF IInv
<1> QED BY <1>1, <1>2, SecretsInFacts

\* What a use is.
LEMMA UseFacts ==
  ASSUME NEW b \in Builds, NEW q, NEW s \in UsesAt(b, q)
  PROVE  /\ s = Use(q, s.j, SecretOf(b, q, JOfUse(s.j)))
         /\ s.secret = SecretOf(b, q, JOfUse(s.j))
         /\ s.q = q /\ s.j \in Int /\ (s.j < 0 \/ s.j > 0) /\ JOfUse(s.j) \in JsOf(b)
<1>1. P(b) \in 34 .. 265
  BY ParameterSets
<1>2. PICK j \in {SEED_RANDOMIZER_INDEX, SEED_CHILD_SEED, SEED_CHILD_I} \cup 1 .. P(b) :
        s = Use(q, j, SecretOf(b, q, JOfUse(j)))
  BY DEF UsesAt
<1>3. s.q = q /\ s.j = j /\ s.secret = SecretOf(b, q, JOfUse(j))
  BY <1>2 DEF Use
<1>4. CASE j \in 1 .. P(b)
  <2>1. j \in Int /\ j >= 1 /\ j - 1 \in 0 .. P(b) - 1
    BY <1>1, <1>4
  <2>2. JOfUse(j) = j - 1
    BY <2>1 DEF JOfUse
  <2> QED BY <1>2, <1>3, <2>1, <2>2 DEF JsOf
<1>5. CASE j \in {SEED_RANDOMIZER_INDEX, SEED_CHILD_SEED, SEED_CHILD_I}
  <2>1. j \in Int /\ j < 0
    BY <1>5 DEF SEED_RANDOMIZER_INDEX, SEED_CHILD_SEED, SEED_CHILD_I
  <2>2. JOfUse(j) = j
    BY <2>1 DEF JOfUse
  <2> QED BY <1>2, <1>3, <1>5, <2>1, <2>2 DEF JsOf
<1> QED BY <1>2, <1>4, <1>5

\* However many keys, signatures and trees below were made, no secret was derived for two
\* purposes: not for two chains, not for a chain and a randomizer or a seed, not for two leaves.
THEOREM OtsKeysSecretsApart == Spec => []SecretsApart
<1>1. IInv => SecretsApart
  <2> SUFFICES ASSUME IInv, NEW s \in SecretsMade, NEW t \in SecretsMade, s.secret = t.secret
               PROVE  s = t
    BY DEF SecretsApart
  <2>1. build \in Builds
    BY DEF IInv
  <2>2. PICK q \in LeavesOf(build) : s \in UsesAt(build, q)
    BY SecretsMadeFacts
  <2>3. PICK r \in LeavesOf(build) : t \in UsesAt(build, r)
    BY SecretsMadeFacts
  <2> DEFINE x == JOfUse(s.j)
             y == JOfUse(t.j)
  <2>4. /\ s = Use(q, s.j, SecretOf(build, q, x)) /\ s.secret = SecretOf(build, q, x)
        /\ s.j \in Int /\ (s.j < 0 \/ s.j > 0) /\ x \in JsOf(build)
    BY <2>1, <2>2, UseFacts
  <2>5. /\ t = Use(r, t.j, SecretOf(build, r, y)) /\ t.secret = SecretOf(build, r, y)
        /\ t.j \in Int /\ (t.j < 0 \/ t.j > 0) /\ y \in JsOf(build)
    BY <2>1, <2>3, UseFacts
  <2>6. q = r /\ x = y
    <3> HIDE DEF x, y
    <3> QED BY <2>1, <2>4, <2>5, SecretsDiffer
  <2>7. s.j = t.j
    BY <2>4, <2>5, <2>6 DEF JOfUse
  <2> QED BY <2>4, <2>5, <2>6, <2>7
<1> QED BY <1>1, Invariant, PTL

-----------------------------------------------------------------------------
(* Few inputs per secret. *)

\* On a level below the top, what the level above sees and the digit of the level make the
\* number.
LEMMA NextDigit ==
  ASSUME NEW b \in Builds, NEW len \in Nat, NEW i \in 1 .. len - 1, NEW x \in Nat, NEW y \in Nat,
         Above(b, x, len, i) = Above(b, y, len, i),
         Above(b, x, len, i + 1) % 2 ^ b.secret_max = Above(b, y, len, i + 1) % 2 ^ b.secret_max
  PROVE  Above(b, x, len, i + 1) = Above(b, y, len, i + 1)
<1> DEFINE e == 2 ^ b.secret_max
           u == Above(b, x, len, i + 1)
           v == Above(b, y, len, i + 1)
<1>1. b.secret_max \in Nat
  BY BuildsAreBuilds
<1>2. e \in Nat /\ e > 0
  BY <1>1, PowerPositive
<1>3. i + 1 \in 1 .. len
  OBVIOUS
<1>4. u \in Nat /\ v \in Nat
  <2> DEFINE k == i + 1
  <2>1. k \in 1 .. len
    BY <1>3
  <2> HIDE DEF k
  <2>2. Above(b, x, len, k) \in Nat /\ Above(b, y, len, k) \in Nat
    BY <2>1, AboveNat
  <2> QED BY <2>2 DEF k
<1>5. u \div e = v \div e
  BY AboveAbove
<1>6. u % e = v % e
  OBVIOUS
<1> HIDE DEF u, v, e
<1>7. u = e * (u \div e) + (u % e) /\ v = e * (v \div e) + (v % e)
  BY <1>2, <1>4, DivMod
<1>8. u = v
  BY <1>5, <1>6, <1>7
<1> QED BY <1>8 DEF u, v

\* The number that the top level sees is marked, so that its digit tells it.
LEMMA TopDigit ==
  ASSUME NEW b \in Builds, NEW bits \in Nat, NEW len \in Nat \ {0},
         (len - 1) * b.secret_max < bits, bits <= len * b.secret_max,
         NEW x \in 2 ^ bits .. 2 * 2 ^ bits - 1, NEW y \in 2 ^ bits .. 2 * 2 ^ bits - 1,
         Above(b, x, len, 1) % 2 ^ b.secret_max = Above(b, y, len, 1) % 2 ^ b.secret_max
  PROVE  Above(b, x, len, 1) = Above(b, y, len, 1)
<1> DEFINE s == b.secret_max
           t == (len - 1) * s
           d == 2 ^ t
           c == 2 ^ (bits - t)
           e == 2 ^ s
           f == 2 ^ bits
           u == x \div d
           v == y \div d
<1>1. s \in Nat
  BY BuildsAreBuilds
<1>2. t \in Nat /\ t < bits /\ bits - t \in Nat /\ bits - t <= s
  <2> HIDE DEF s
  <2>1. len - 1 \in Nat /\ len * s = (len - 1) * s + s
    BY <1>1
  <2>2. t \in Nat
    BY <1>1, <2>1
  <2>3. len * s = t + s /\ t < bits /\ bits <= len * s
    BY <2>1 DEF s
  <2> HIDE DEF t
  <2> QED BY <1>1, <2>2, <2>3
<1>3. Above(b, x, len, 1) = u /\ Above(b, y, len, 1) = v
  BY DEF Above
<1> HIDE DEF s, t
<1>4. d \in Nat /\ d > 0 /\ c \in Nat /\ c > 0 /\ e \in Nat /\ e > 0 /\ c <= e /\ f = d * c
  BY <1>1, <1>2, PowerPositive, PowerMonotone, PowerQuotient
<1>5. x \in f .. 2 * f - 1 /\ y \in f .. 2 * f - 1
  OBVIOUS
<1>6. u % e = v % e
  BY <1>3 DEF s
<1> HIDE DEF d, c, e, f
<1>7. ASSUME NEW z \in f .. 2 * f - 1
      PROVE  z \div d \in c .. 2 * c - 1
  <2> DEFINE w == z \div d
  <2>1. z \in Int /\ f \in Nat /\ z \in Nat /\ 2 * f = d * (2 * c)
    BY <1>4
  <2>2. w \in Nat /\ z = d * w + (z % d) /\ z % d \in 0 .. d - 1
    BY <1>4, <2>1, DivMod
  <2> HIDE DEF w
  <2>3. ASSUME w < c PROVE FALSE
    <3>1. w + 1 <= c
      BY <1>4, <2>2, <2>3
    <3>2. d * (w + 1) <= d * c
      BY <1>4, <2>2, <3>1
    <3>3. d * (w + 1) = d * w + d
      BY <1>4, <2>2
    <3> QED BY <1>4, <2>1, <2>2, <3>2, <3>3
  <2>4. ASSUME w >= 2 * c PROVE FALSE
    <3>1. d * (2 * c) <= d * w
      BY <1>4, <2>2, <2>4
    <3> QED BY <1>4, <2>1, <2>2, <3>1
  <2>5. w \in c .. 2 * c - 1
    BY <1>4, <2>2, <2>3, <2>4
  <2> QED BY <2>5 DEF w
<1>8. u \in c .. 2 * c - 1 /\ v \in c .. 2 * c - 1
  BY <1>5, <1>7
<1> HIDE DEF u, v
<1>9. u = v
  <2>1. u \in Nat /\ v \in Nat /\ -e < u - v /\ u - v < e
    BY <1>4, <1>8
  <2> DEFINE ku == u \div e
             kv == v \div e
  <2>2. ku \in Int /\ kv \in Int /\ u = e * ku + (u % e) /\ v = e * kv + (v % e)
    BY <1>4, <2>1, DivMod
  <2>3. u % e \in 0 .. e - 1
    BY <1>4, <2>1, DivMod
  <2> HIDE DEF ku, kv
  <2>4. u - v = e * (ku - kv)
    BY <1>4, <1>6, <2>2, <2>3
  <2>5. ASSUME ku - kv >= 1 PROVE FALSE
    <3>1. e * (ku - kv) >= e
      BY <1>4, <2>2, <2>5
    <3> QED BY <1>4, <2>1, <2>4, <3>1
  <2>6. ASSUME ku - kv <= -1 PROVE FALSE
    <3>1. kv - ku >= 1 /\ kv - ku \in Int
      BY <2>2, <2>6
    <3>2. e * (kv - ku) >= e
      BY <1>4, <3>1
    <3>3. e * (kv - ku) = v - u
      BY <1>4, <2>1, <2>2, <2>4
    <3> QED BY <1>4, <2>1, <3>2, <3>3
  <2>7. ku = kv
    BY <2>2, <2>5, <2>6
  <2> QED BY <1>4, <1>6, <2>2, <2>7
<1> QED BY <1>3, <1>9

\* The height of a tree is a number.
LEMMA HeightIsNatural == ASSUME NEW b \in Builds PROVE b.height \in Nat
<1>1. b.height \in 1 .. 25
  BY BuildsAreBuilds
<1> QED BY <1>1

\* Two paths that are the same up to some element, and have the same low bits in it, have the
\* same element there.
LEMMA SameElement ==
  ASSUME NEW b \in Builds, NEW q \in LeavesOf(b), NEW r \in LeavesOf(b), NEW x \in Int, NEW y \in Int,
         NEW k \in 1 .. QLen(b) + JLen(b),
         \A i \in 1 .. k - 1 : Path(b, q, Marked(b, x))[i] = Path(b, r, Marked(b, y))[i],
         LET g == Path(b, q, Marked(b, x))[k] h == Path(b, r, Marked(b, y))[k]
         IN  g[Len(g)] % 2 ^ b.secret_max = h[Len(h)] % 2 ^ b.secret_max
  PROVE  Path(b, q, Marked(b, x))[k] = Path(b, r, Marked(b, y))[k]
<1> DEFINE m1 == Marked(b, x)
           m2 == Marked(b, y)
           p1 == Path(b, q, m1)
           p2 == Path(b, r, m2)
           e == 2 ^ b.secret_max
           f == 2 ^ b.height
           ql == QLen(b)
           jl == JLen(b)
<1>1. ql \in Nat \ {0} /\ jl \in Nat \ {0}
  BY PathLengths
<1>2. m1 \in Nat /\ m2 \in Nat
  BY MarkedSmall
<1>3. q \in Nat /\ r \in Nat /\ f \in Nat /\ q < f /\ r < f
  BY LeafFacts DEF Fresh
<1>4. /\ \A i \in 1 .. ql : p1[i] = QTree("I", Above(b, q + f, ql, i))
                            /\ p2[i] = QTree("I", Above(b, r + f, ql, i))
      /\ \A i \in 1 .. jl : p1[ql + i] = Prg("I", q, Above(b, m1, jl, i))
                            /\ p2[ql + i] = Prg("I", r, Above(b, m2, jl, i))
  <2> HIDE DEF m1, m2
  <2> QED BY <1>2, PathElements
<1>5. /\ \A i \in 1 .. k - 1 : p1[i] = p2[i]
      /\ p1[k][Len(p1[k])] % e = p2[k][Len(p2[k])] % e
  OBVIOUS
<1> HIDE DEF p1, p2
<1>6. ASSUME k <= ql PROVE p1[k] = p2[k]
  <2> DEFINE u == Above(b, q + f, ql, k)
             v == Above(b, r + f, ql, k)
  <2>1. k \in 1 .. ql /\ k \in Nat
    BY <1>1, <1>6
  <2>2. p1[k] = QTree("I", u) /\ p2[k] = QTree("I", v)
    BY <1>4, <2>1
  <2>3. u % e = v % e
    <3> HIDE DEF u, v
    <3> QED BY <1>5, <2>2, InputsTell
  <2>4. q + f \in f .. 2 * f - 1 /\ r + f \in f .. 2 * f - 1 /\ q + f \in Nat /\ r + f \in Nat
    <3> HIDE DEF u, v, f, ql, jl
    <3> QED BY <1>3
  <2>5. ASSUME k = 1 PROVE u = v
    <3>1. b.height \in Nat
      BY HeightIsNatural
    <3>2. (ql - 1) * b.secret_max < b.height /\ b.height <= ql * b.secret_max
      BY PathLengths
    <3> DEFINE qf == q + f
               rf == r + f
    <3>3. qf \in 2 ^ b.height .. 2 * 2 ^ b.height - 1 /\ rf \in 2 ^ b.height .. 2 * 2 ^ b.height - 1
      BY <2>4
    <3>4. Above(b, qf, ql, 1) % 2 ^ b.secret_max = Above(b, rf, ql, 1) % 2 ^ b.secret_max
      BY <2>3, <2>5
    <3> HIDE DEF qf, rf, ql
    <3>5. Above(b, qf, ql, 1) = Above(b, rf, ql, 1)
      BY <1>1, <3>1, <3>2, <3>3, <3>4, TopDigit
    <3> QED BY <2>5, <3>5 DEF qf, rf
  <2>6. ASSUME k # 1 PROVE u = v
    <3> DEFINE i == k - 1
               qf == q + f
               rf == r + f
    <3>1. i \in 1 .. ql - 1 /\ i + 1 = k /\ i \in 1 .. ql /\ i \in 1 .. k - 1
      BY <1>1, <2>1, <2>6
    <3>2. qf \in Nat /\ rf \in Nat
      BY <2>4
    <3> HIDE DEF i
    <3>3. QTree("I", Above(b, qf, ql, i)) = QTree("I", Above(b, rf, ql, i))
      BY <1>4, <1>5, <3>1
    <3>4. Above(b, qf, ql, i) = Above(b, rf, ql, i)
      BY <3>3, InputsTell
    <3>5. Above(b, qf, ql, i + 1) % 2 ^ b.secret_max = Above(b, rf, ql, i + 1) % 2 ^ b.secret_max
      BY <2>3, <3>1
    <3> HIDE DEF qf, rf, ql
    <3>6. Above(b, qf, ql, i + 1) = Above(b, rf, ql, i + 1)
      BY <1>1, <3>1, <3>2, <3>4, <3>5, NextDigit
    <3> QED BY <3>1, <3>6 DEF qf, rf
  <2>7. u = v
    BY <2>5, <2>6
  <2> HIDE DEF u, v
  <2> QED BY <2>2, <2>7
<1>7. ASSUME k > ql PROVE p1[k] = p2[k]
  <2> DEFINE i == k - ql
             u == Above(b, m1, jl, i)
             v == Above(b, m2, jl, i)
  <2>1. i \in 1 .. jl /\ ql + i = k /\ i \in Nat /\ k \in Nat
    BY <1>1, <1>7
  <2>2. p1[k] = Prg("I", q, u) /\ p2[k] = Prg("I", r, v)
    <3> HIDE DEF i
    <3> QED BY <1>4, <2>1
  <2>3. u \in Nat /\ u < 65536 /\ v \in Nat /\ v < 65536
    <3> HIDE DEF i
    <3> QED BY <2>1, MarkedSmall
  <2>4. u % 65536 = u /\ v % 65536 = v
    <3> HIDE DEF u, v
    <3> QED BY <2>3
  <2>5. u % e = v % e
    <3> HIDE DEF u, v
    <3>1. p1[k][Len(p1[k])] = u /\ p2[k][Len(p2[k])] = v
      BY <2>2, <2>4, InputsTell, SmallPowers
    <3> QED BY <1>5, <3>1
  <2>6. ASSUME i = 1 PROVE q = r /\ u = v
    <3>1. ql \in 1 .. ql /\ ql \in 1 .. k - 1 /\ ql \in Nat
      BY <1>1, <1>7, <2>1
    <3> DEFINE qf == q + f
               rf == r + f
    <3>2. QTree("I", Above(b, qf, ql, ql)) = QTree("I", Above(b, rf, ql, ql))
      BY <1>4, <1>5, <3>1
    <3>3. Above(b, qf, ql, ql) = Above(b, rf, ql, ql)
      BY <3>2, InputsTell
    <3>4. qf \in Nat /\ rf \in Nat
      <4> HIDE DEF f
      <4> QED BY <1>3
    <3>5. qf = rf
      <4> HIDE DEF qf, rf, ql
      <4> QED BY <3>1, <3>3, <3>4, AboveLast
    <3>6. q = r
      BY <1>3, <3>5
    <3>7. JHeight(b) \in Nat
      <4>1. JHeight(b) \in 1 .. 9
        BY JHeightFacts
      <4> QED BY <4>1
    <3>8. (jl - 1) * b.secret_max < JHeight(b) /\ JHeight(b) <= jl * b.secret_max
      BY PathLengths
    <3>9. m1 \in 2 ^ JHeight(b) .. 2 * 2 ^ JHeight(b) - 1 /\ m2 \in 2 ^ JHeight(b) .. 2 * 2 ^ JHeight(b) - 1
      BY MarkedFacts
    <3>10. Above(b, m1, jl, 1) % 2 ^ b.secret_max = Above(b, m2, jl, 1) % 2 ^ b.secret_max
      BY <2>5, <2>6
    <3> HIDE DEF m1, m2, jl
    <3>11. Above(b, m1, jl, 1) = Above(b, m2, jl, 1)
      BY <1>1, <3>7, <3>8, <3>9, <3>10, TopDigit
    <3> QED BY <2>6, <3>6, <3>11
  <2>7. ASSUME i # 1 PROVE q = r /\ u = v
    <3> DEFINE h == i - 1
    <3>1. h \in 1 .. jl - 1 /\ h + 1 = i /\ h \in 1 .. jl /\ ql + h \in 1 .. k - 1
      <4> HIDE DEF ql, jl
      <4>1. k = ql + i
        BY <2>1
      <4> HIDE DEF i
      <4> QED BY <1>1, <2>1, <2>7, <4>1
    <3> HIDE DEF h
    <3>2. Prg("I", q, Above(b, m1, jl, h)) = Prg("I", r, Above(b, m2, jl, h))
      BY <1>4, <1>5, <3>1
    <3> DEFINE u0 == Above(b, m1, jl, h)
               v0 == Above(b, m2, jl, h)
    <3>3. q = r /\ u0 % 65536 = v0 % 65536
      BY <3>2, InputsTell, SmallPowers
    <3>4. u0 \in Nat /\ u0 < 65536 /\ v0 \in Nat /\ v0 < 65536
      BY <3>1, MarkedSmall
    <3>5. u0 = v0
      <4> HIDE DEF u0, v0
      <4> QED BY <3>3, <3>4
    <3>6. Above(b, m1, jl, h + 1) % 2 ^ b.secret_max = Above(b, m2, jl, h + 1) % 2 ^ b.secret_max
      BY <2>5, <3>1
    <3> HIDE DEF m1, m2, jl, i
    <3>7. Above(b, m1, jl, h + 1) = Above(b, m2, jl, h + 1)
      BY <1>1, <1>2, <3>1, <3>5, <3>6, NextDigit
    <3> QED BY <3>1, <3>3, <3>7
  <2>8. q = r /\ u = v
    BY <2>6, <2>7
  <2> HIDE DEF u, v
  <2> QED BY <2>2, <2>8
<1>8. ql \in Nat /\ k \in Nat
  BY <1>1
<1>9. p1[k] = p2[k]
  <2> HIDE DEF ql
  <2> QED BY <1>6, <1>7, <1>8
<1> QED BY <1>9 DEF p1, p2

\* A hash on the way to the secret of q and x.
HashAt(b, q, x, k) ==
  [secret |-> SubSeq(Path(b, q, Marked(b, x)), 1, k - 1), input |-> Path(b, q, Marked(b, x))[k]]

\* With the tree method all hashes are on those ways.
LEMMA HashesFacts ==
  ASSUME IInv, build.method = "tree", NEW g \in Hashes
  PROVE  \E q \in LeavesOf(build), x \in JsOf(build), k \in 1 .. QLen(build) + JLen(build) :
           g = HashAt(build, q, x, k)
<1> DEFINE b == build
<1>1. b \in Builds
  BY DEF IInv
<1>2. PICK s \in SecretsMade : \E k \in 1 .. Len(s.secret[2]) :
        g = [secret |-> SubSeq(s.secret[2], 1, k - 1), input |-> s.secret[2][k]]
  BY DEF Hashes
<1>3. PICK q \in LeavesOf(b) : s \in UsesAt(b, q)
  BY SecretsMadeFacts
<1> DEFINE x == JOfUse(s.j)
<1>4. s.secret = SecretOf(b, q, x) /\ x \in JsOf(b)
  BY <1>1, <1>3, UseFacts
<1>5. x \in Int
  BY <1>1, <1>4, JsApart
<1> HIDE DEF x
<1>6. s.secret[2] = Path(b, q, Marked(b, x))
  BY <1>4, DerivedFacts DEF SecretOf, Path
<1>7. Len(s.secret[2]) = QLen(b) + JLen(b)
  BY <1>1, <1>5, <1>6, PathElements, MarkedSmall
<1>8. \E k \in 1 .. QLen(b) + JLen(b) : g = HashAt(b, q, x, k)
  BY <1>2, <1>6, <1>7 DEF HashAt
<1> QED BY <1>4, <1>8

\* Two of them with the same secret and the same low bits are the same.
LEMMA HashesApart ==
  ASSUME NEW b \in Builds, NEW q \in LeavesOf(b), NEW r \in LeavesOf(b), NEW x \in Int, NEW y \in Int,
         NEW k \in 1 .. QLen(b) + JLen(b), NEW l \in 1 .. QLen(b) + JLen(b),
         HashAt(b, q, x, k).secret = HashAt(b, r, y, l).secret,
         LET g == HashAt(b, q, x, k).input h == HashAt(b, r, y, l).input
         IN  g[Len(g)] % 2 ^ b.secret_max = h[Len(h)] % 2 ^ b.secret_max
  PROVE  HashAt(b, q, x, k) = HashAt(b, r, y, l)
<1> DEFINE p1 == Path(b, q, Marked(b, x))
           p2 == Path(b, r, Marked(b, y))
           len == QLen(b) + JLen(b)
<1>1. QLen(b) \in Nat /\ JLen(b) \in Nat
  BY PathLengths
<1>2. len \in Nat
  BY <1>1
<1>3. p1 \in Seq(Inputs) /\ p2 \in Seq(Inputs) /\ Len(p1) = len /\ Len(p2) = len
  BY MarkedSmall, PathElements
<1>4. SubSeq(p1, 1, k - 1) = SubSeq(p2, 1, l - 1)
  BY DEF HashAt
<1> HIDE DEF p1, p2, len
<1>5. k \in 1 .. len /\ l \in 1 .. len
  BY DEF len
<1>6. /\ Len(SubSeq(p1, 1, k - 1)) = k - 1
      /\ \A i \in 1 .. k - 1 : SubSeq(p1, 1, k - 1)[i] = p1[i]
  BY <1>2, <1>3, <1>5
<1>7. /\ Len(SubSeq(p2, 1, l - 1)) = l - 1
      /\ \A i \in 1 .. l - 1 : SubSeq(p2, 1, l - 1)[i] = p2[i]
  BY <1>2, <1>3, <1>5
<1>8. k = l
  BY <1>2, <1>4, <1>5, <1>6, <1>7
<1>9. \A i \in 1 .. k - 1 : p1[i] = p2[i]
  BY <1>4, <1>6, <1>7, <1>8
<1>10. LET g == p1[k] h == p2[k]
       IN  g[Len(g)] % 2 ^ b.secret_max = h[Len(h)] % 2 ^ b.secret_max
  BY <1>8 DEF HashAt, p1, p2
<1>11. p1[k] = p2[k]
  BY <1>9, <1>10, SameElement DEF p1, p2
<1> QED BY <1>4, <1>8, <1>11 DEF HashAt, p1, p2

\* config.h: with the tree method no secret is hashed with more than 2^SECRET_MAX inputs,
\* neither in the tree of q nor in the trees of j, whose roots are its leaves.
THEOREM OtsKeysSeldomUsed == Spec => []SeldomUsed
<1>1. IInv => SeldomUsed
  <2> SUFFICES ASSUME IInv, build.method = "tree", NEW g \in Hashes, NEW h \in Hashes,
                      g.secret = h.secret, LowBits(g.input) = LowBits(h.input)
               PROVE  g = h
    BY DEF SeldomUsed
  <2>1. build \in Builds
    BY DEF IInv
  <2>2. PICK q \in LeavesOf(build), x \in JsOf(build), k \in 1 .. QLen(build) + JLen(build) :
          g = HashAt(build, q, x, k)
    BY HashesFacts
  <2>3. PICK r \in LeavesOf(build), y \in JsOf(build), l \in 1 .. QLen(build) + JLen(build) :
          h = HashAt(build, r, y, l)
    BY HashesFacts
  <2>4. x \in Int /\ y \in Int
    BY <2>1, JsApart
  <2>5. LET u == HashAt(build, q, x, k).input v == HashAt(build, r, y, l).input
        IN  u[Len(u)] % 2 ^ build.secret_max = v[Len(v)] % 2 ^ build.secret_max
    BY <2>2, <2>3 DEF LowBits
  <2>6. HashAt(build, q, x, k).secret = HashAt(build, r, y, l).secret
    BY <2>2, <2>3
  <2>7. HashAt(build, q, x, k) = HashAt(build, r, y, l)
    BY <2>1, <2>4, <2>5, <2>6, HashesApart
  <2> QED BY <2>2, <2>3, <2>7
<1> QED BY <1>1, Invariant, PTL

-----------------------------------------------------------------------------
(* Sums. *)

\* SumOf adds one number after another.
LEMMA SumFacts ==
  ASSUME NEW m \in Nat, NEW f \in [0 .. m - 1 -> Nat]
  PROVE  \E s : /\ s[0] = 0 /\ \A k \in 1 .. m : s[k] = s[k - 1] + f[k - 1]
                /\ SumOf(f, m) = s[m]
<1> DEFINE Equation(s) == s = [k \in 0 .. m |-> IF k = 0 THEN 0 ELSE s[k - 1] + f[k - 1]]
           F == [k \in 1 .. m |-> [v \in Nat |-> v + f[k - 1]]]
           s == CHOOSE t : Equation(t)
<1>1. SumOf(f, m) = s[m]
  BY DEF SumOf
<1>2. \A k \in 1 .. m : k - 1 \in 0 .. m - 1 /\ k \in 0 .. m /\ k # 0 /\ k - 1 \in 0 .. m /\ f[k - 1] \in Nat
  OBVIOUS
<1>3. F \in Steps(m, Nat)
  BY <1>2 DEF Steps
<1>4. \A k \in 1 .. m : \A v \in Nat : F[k][v] = v + f[k - 1]
  OBVIOUS
<1> HIDE DEF F
<1>5. PICK g : Follows(g, m, Nat, 0, F)
  BY <1>3, Recursion
<1>6. /\ g \in [0 .. m -> Nat] /\ g[0] = 0
      /\ \A k \in 1 .. m : g[k] = F[k][g[k - 1]]
  BY <1>5 DEF Follows
<1>7. \A k \in 0 .. m : g[k] = IF k = 0 THEN 0 ELSE g[k - 1] + f[k - 1]
  <2> SUFFICES ASSUME NEW k \in 0 .. m, k # 0 PROVE g[k] = g[k - 1] + f[k - 1]
    BY <1>6
  <2>1. k \in 1 .. m
    OBVIOUS
  <2>2. g[k - 1] \in Nat
    BY <1>2, <1>6, <2>1
  <2> QED BY <1>4, <1>6, <2>1, <2>2
<1>8. Equation(g)
  BY <1>6, <1>7
<1>9. Equation(s)
  <2> HIDE DEF Equation
  <2> QED BY <1>8
<1> HIDE DEF s
<1>10. s[0] = 0 /\ \A k \in 1 .. m : s[k] = s[k - 1] + f[k - 1]
  BY <1>2, <1>9
<1> QED BY <1>1, <1>10

\* A sum of numbers up to c.
LEMMA SumBound ==
  ASSUME NEW m \in Nat, NEW f \in [0 .. m - 1 -> Nat], NEW c \in Nat,
         \A j \in 0 .. m - 1 : f[j] <= c
  PROVE  SumOf(f, m) \in Nat /\ SumOf(f, m) <= m * c
<1>1. PICK s : /\ s[0] = 0 /\ \A k \in 1 .. m : s[k] = s[k - 1] + f[k - 1]
               /\ SumOf(f, m) = s[m]
  BY SumFacts
<1> DEFINE S == {k \in 0 .. m : s[k] \in Nat /\ s[k] <= k * c}
<1>2. 0 \in S
  BY <1>1
<1>3. ASSUME NEW k \in 0 .. m - 1, k \in S PROVE k + 1 \in S
  <2>1. k + 1 \in 1 .. m /\ k + 1 \in 0 .. m /\ (k + 1) - 1 = k /\ k \in Nat
    OBVIOUS
  <2>2. s[k + 1] = s[k] + f[k] /\ f[k] \in Nat /\ f[k] <= c
    BY <1>1, <2>1
  <2>3. s[k] \in Nat /\ s[k] <= k * c
    BY <1>3
  <2>4. (k + 1) * c = k * c + c /\ k * c \in Nat
    BY <2>1
  <2>5. s[k + 1] \in Nat /\ s[k + 1] <= (k + 1) * c
    BY <2>2, <2>3, <2>4
  <2> QED BY <2>1, <2>5
<1>4. \A k \in 0 .. m : k \in S
  <2> HIDE DEF S
  <2>1. \A k \in 0 .. m - 1 : k \in S => k + 1 \in S
    BY <1>3
  <2> QED BY <1>2, <2>1, InductionUpTo
<1>5. m \in S
  BY <1>4
<1> QED BY <1>1, <1>5

\* A sum of numbers that are no smaller, one of them greater.
LEMMA SumLess ==
  ASSUME NEW m \in Nat, NEW f \in [0 .. m - 1 -> Nat], NEW g \in [0 .. m - 1 -> Nat],
         \A j \in 0 .. m - 1 : f[j] <= g[j], NEW i \in 0 .. m - 1, f[i] < g[i]
  PROVE  SumOf(f, m) < SumOf(g, m)
<1>1. PICK s : /\ s[0] = 0 /\ \A k \in 1 .. m : s[k] = s[k - 1] + f[k - 1]
               /\ SumOf(f, m) = s[m]
  BY SumFacts
<1>2. PICK t : /\ t[0] = 0 /\ \A k \in 1 .. m : t[k] = t[k - 1] + g[k - 1]
               /\ SumOf(g, m) = t[m]
  BY SumFacts
<1> DEFINE S == {k \in 0 .. m : s[k] \in Nat /\ t[k] \in Nat /\ s[k] <= t[k] /\ (k > i => s[k] < t[k])}
<1>3. 0 \in S
  BY <1>1, <1>2
<1>4. ASSUME NEW k \in 0 .. m - 1, k \in S PROVE k + 1 \in S
  <2>1. k + 1 \in 1 .. m /\ k + 1 \in 0 .. m /\ (k + 1) - 1 = k /\ k \in Nat
    OBVIOUS
  <2>2. s[k + 1] = s[k] + f[k] /\ t[k + 1] = t[k] + g[k] /\ f[k] \in Nat /\ g[k] \in Nat /\ f[k] <= g[k]
    BY <1>1, <1>2, <2>1
  <2>3. s[k] \in Nat /\ t[k] \in Nat /\ s[k] <= t[k] /\ (k > i => s[k] < t[k])
    BY <1>4
  <2>4. k = i => f[k] < g[k]
    OBVIOUS
  <2> DEFINE sk == s[k]
             tk == t[k]
             fk == f[k]
             gk == g[k]
  <2>5. sk + fk \in Nat /\ tk + gk \in Nat /\ sk + fk <= tk + gk /\ (k + 1 > i => sk + fk < tk + gk)
    <3>1. /\ fk \in Nat /\ gk \in Nat /\ fk <= gk /\ (k = i => fk < gk)
          /\ sk \in Nat /\ tk \in Nat /\ sk <= tk /\ (k > i => sk < tk)
          /\ k \in Nat /\ i \in Nat
      BY <2>1, <2>2, <2>3, <2>4
    <3> HIDE DEF sk, tk, fk, gk, S
    <3> QED BY <3>1
  <2> QED BY <2>1, <2>2, <2>5
<1>5. \A k \in 0 .. m : k \in S
  <2> HIDE DEF S
  <2>1. \A k \in 0 .. m - 1 : k \in S => k + 1 \in S
    BY <1>4
  <2> QED BY <1>3, <2>1, InductionUpTo
<1>6. m \in S /\ m > i
  BY <1>5
<1> QED BY <1>1, <1>2, <1>6

-----------------------------------------------------------------------------
(* Digits. *)

Widths == {1, 2, 4, 8}
Hashed256 == [1 .. 32 -> 0 .. 255]
PerByte(w) == 8 \div w
Par(w) == lm_ots_look_up_parameter_set(w)

\* A digit of a byte, counted from the low end.
DigitOf(x, t, w) == (x \div 2 ^ (w * t)) % 2 ^ w

\* The number of the digit in a sequence of bytes.
Place(k, t, w) == (k - 1) * PerByte(w) + (PerByte(w) - 1 - t)

\* The parameter sets follow from w: 32 bytes of digits, then the digits of one byte and one
\* more, with a checksum that ends in zero bits.
LEMMA WidthFacts ==
  ASSUME NEW w \in Widths
  PROVE  /\ PerByte(w) \in 1 .. 8 /\ PerByte(w) * w = 8 /\ (8 * n) \div w = 32 * PerByte(w)
         /\ Par(w).p = 33 * PerByte(w) + 1 /\ Par(w).ls = 8 - w /\ Par(w).w = w
         /\ w \in Nat /\ max_digit(w) \in 1 .. 255 /\ 2 ^ w = max_digit(w) + 1
<1>1. CASE w = 1
  BY <1>1, SmallPowers DEF PerByte, Par, lm_ots_look_up_parameter_set, n, max_digit
<1>2. CASE w = 2
  BY <1>2, SmallPowers DEF PerByte, Par, lm_ots_look_up_parameter_set, n, max_digit
<1>3. CASE w = 4
  BY <1>3, SmallPowers DEF PerByte, Par, lm_ots_look_up_parameter_set, n, max_digit
<1>4. CASE w = 8
  BY <1>4, SmallPowers DEF PerByte, Par, lm_ots_look_up_parameter_set, n, max_digit
<1> QED BY <1>1, <1>2, <1>3, <1>4 DEF Widths

\* lm_ots_coef takes the digits from the high end of a byte.
LEMMA CoefAt ==
  ASSUME NEW w \in Widths, NEW k \in Nat \ {0}, NEW t \in 0 .. PerByte(w) - 1, NEW Q
  PROVE  lm_ots_coef(Q, Place(k, t, w), w) = DigitOf(Q[k], t, w)
<1> DEFINE d == PerByte(w)
           i == Place(k, t, w)
<1>1. i \in Nat /\ (i * w) \div 8 + 1 = k /\ i % d = d - 1 - t /\ d - 1 - (d - 1 - t) = t
  <2>1. CASE w = 1
    <3>1. d = 8 /\ i = (k - 1) * 8 + (7 - t) /\ i * w = i /\ t \in 0 .. 7
      BY <2>1 DEF Place, PerByte
    <3> HIDE DEF d, i
    <3> QED BY <3>1
  <2>2. CASE w = 2
    BY <2>2 DEF Place, PerByte
  <2>3. CASE w = 4
    BY <2>3 DEF Place, PerByte
  <2>4. CASE w = 8
    <3>1. d = 1 /\ t = 0 /\ i = (k - 1) * 1 + (1 - 1 - t)
      BY <2>4 DEF Place, PerByte
    <3>2. i = k - 1
      BY <3>1
    <3> HIDE DEF d, i
    <3> QED BY <2>4, <3>1, <3>2
  <2> QED BY <2>1, <2>2, <2>3, <2>4 DEF Widths
<1>2. lm_ots_coef(Q, i, w) = (Q[(i * w) \div 8 + 1] \div 2 ^ (w * (d - 1 - (i % d)))) % 2 ^ w
  BY DEF lm_ots_coef, PerByte
<1> HIDE DEF i, d
<1>3. lm_ots_coef(Q, i, w) = (Q[k] \div 2 ^ (w * t)) % 2 ^ w
  BY <1>1, <1>2
<1> QED BY <1>3 DEF i, DigitOf

\* A digit is in range.
LEMMA DigitRange ==
  ASSUME NEW w \in Widths, NEW x \in Nat, NEW t \in Nat
  PROVE  DigitOf(x, t, w) \in 0 .. max_digit(w)
<1> DEFINE d == 2 ^ (w * t)
           y == x \div d
           c == 2 ^ w
<1>1. w \in Nat /\ c = max_digit(w) + 1 /\ max_digit(w) \in 1 .. 255
  BY WidthFacts
<1>2. w * t \in Nat
  BY <1>1
<1>3. d \in Nat /\ d >= 1
  BY <1>2, PowerPositive
<1> HIDE DEF d, c
<1>4. y \in Nat
  BY <1>3, DivMod
<1> HIDE DEF y
<1>5. y % c \in 0 .. c - 1
  BY <1>1, <1>4, DivMod
<1> QED BY <1>1, <1>5 DEF DigitOf, c, y, d

\* A byte whose digits are not greater is not greater.
LEMMA BytesCompared ==
  ASSUME NEW w \in Widths, NEW x \in 0 .. 255, NEW y \in 0 .. 255,
         \A t \in 0 .. PerByte(w) - 1 : DigitOf(x, t, w) <= DigitOf(y, t, w)
  PROVE  x <= y
<1>1. CASE w = 1
  <2>1. \A t \in 0 .. 7 : DigitOf(x, t, 1) <= DigitOf(y, t, 1)
    BY <1>1 DEF PerByte
  <2>2. \A z : /\ DigitOf(z, 0, 1) = (z \div 1) % 2 /\ DigitOf(z, 1, 1) = (z \div 2) % 2
               /\ DigitOf(z, 2, 1) = (z \div 4) % 2 /\ DigitOf(z, 3, 1) = (z \div 8) % 2
               /\ DigitOf(z, 4, 1) = (z \div 16) % 2 /\ DigitOf(z, 5, 1) = (z \div 32) % 2
               /\ DigitOf(z, 6, 1) = (z \div 64) % 2 /\ DigitOf(z, 7, 1) = (z \div 128) % 2
    BY SmallPowers, PowerZero DEF DigitOf
  <2>3. /\ (x \div 1) % 2 <= (y \div 1) % 2 /\ (x \div 2) % 2 <= (y \div 2) % 2
        /\ (x \div 4) % 2 <= (y \div 4) % 2 /\ (x \div 8) % 2 <= (y \div 8) % 2
        /\ (x \div 16) % 2 <= (y \div 16) % 2 /\ (x \div 32) % 2 <= (y \div 32) % 2
        /\ (x \div 64) % 2 <= (y \div 64) % 2 /\ (x \div 128) % 2 <= (y \div 128) % 2
    BY <2>1, <2>2
  <2>4. \A z \in 0 .. 255 :
          z = 128 * ((z \div 128) % 2) + 64 * ((z \div 64) % 2) + 32 * ((z \div 32) % 2)
              + 16 * ((z \div 16) % 2) + 8 * ((z \div 8) % 2) + 4 * ((z \div 4) % 2)
              + 2 * ((z \div 2) % 2) + ((z \div 1) % 2)
    OBVIOUS
  <2> DEFINE h(z, c) == (z \div c) % 2
             sum(z) == 128 * h(z, 128) + 64 * h(z, 64) + 32 * h(z, 32) + 16 * h(z, 16)
                       + 8 * h(z, 8) + 4 * h(z, 4) + 2 * h(z, 2) + h(z, 1)
  <2>5. x = sum(x) /\ y = sum(y)
    BY <2>4
  <2>6. /\ h(x, 1) \in Int /\ h(x, 2) \in Int /\ h(x, 4) \in Int /\ h(x, 8) \in Int
        /\ h(x, 16) \in Int /\ h(x, 32) \in Int /\ h(x, 64) \in Int /\ h(x, 128) \in Int
        /\ h(y, 1) \in Int /\ h(y, 2) \in Int /\ h(y, 4) \in Int /\ h(y, 8) \in Int
        /\ h(y, 16) \in Int /\ h(y, 32) \in Int /\ h(y, 64) \in Int /\ h(y, 128) \in Int
    OBVIOUS
  <2>7. /\ h(x, 1) <= h(y, 1) /\ h(x, 2) <= h(y, 2) /\ h(x, 4) <= h(y, 4) /\ h(x, 8) <= h(y, 8)
        /\ h(x, 16) <= h(y, 16) /\ h(x, 32) <= h(y, 32) /\ h(x, 64) <= h(y, 64) /\ h(x, 128) <= h(y, 128)
    BY <2>3
  <2>8. sum(x) <= sum(y)
    <3> HIDE DEF h
    <3> QED BY <2>6, <2>7
  <2> HIDE DEF sum
  <2> QED BY <2>5, <2>8
<1>2. CASE w = 2
  <2>1. \A t \in 0 .. 3 : DigitOf(x, t, 2) <= DigitOf(y, t, 2)
    BY <1>2 DEF PerByte
  <2>2. \A z : /\ DigitOf(z, 0, 2) = (z \div 1) % 4 /\ DigitOf(z, 1, 2) = (z \div 4) % 4
               /\ DigitOf(z, 2, 2) = (z \div 16) % 4 /\ DigitOf(z, 3, 2) = (z \div 64) % 4
    BY SmallPowers, PowerZero DEF DigitOf
  <2>3. /\ (x \div 1) % 4 <= (y \div 1) % 4 /\ (x \div 4) % 4 <= (y \div 4) % 4
        /\ (x \div 16) % 4 <= (y \div 16) % 4 /\ (x \div 64) % 4 <= (y \div 64) % 4
    BY <2>1, <2>2
  <2> QED BY <2>3
<1>3. CASE w = 4
  <2>1. \A t \in 0 .. 1 : DigitOf(x, t, 4) <= DigitOf(y, t, 4)
    BY <1>3 DEF PerByte
  <2>2. \A z : DigitOf(z, 0, 4) = (z \div 1) % 16 /\ DigitOf(z, 1, 4) = (z \div 16) % 16
    BY SmallPowers, PowerZero DEF DigitOf
  <2>3. (x \div 1) % 16 <= (y \div 1) % 16 /\ (x \div 16) % 16 <= (y \div 16) % 16
    BY <2>1, <2>2
  <2> QED BY <2>3
<1>4. CASE w = 8
  <2>1. DigitOf(x, 0, 8) <= DigitOf(y, 0, 8)
    BY <1>4 DEF PerByte
  <2>2. \A z : DigitOf(z, 0, 8) = (z \div 1) % 256
    BY SmallPowers, PowerZero DEF DigitOf
  <2> QED BY <2>1, <2>2
<1> QED BY <1>1, <1>2, <1>3, <1>4 DEF Widths

\* A byte that ends in zero bits below its first digit is compared by that digit.
LEMMA FirstDigitCompared ==
  ASSUME NEW w \in Widths, NEW x \in 0 .. 255, NEW y \in 0 .. 255,
         x % 2 ^ (8 - w) = 0, y % 2 ^ (8 - w) = 0,
         DigitOf(x, PerByte(w) - 1, w) <= DigitOf(y, PerByte(w) - 1, w)
  PROVE  x <= y
<1>1. CASE w = 1
  <2>1. /\ x % 128 = 0 /\ y % 128 = 0
        /\ (x \div 128) % 2 <= (y \div 128) % 2
    BY <1>1, SmallPowers DEF PerByte, DigitOf
  <2> QED BY <2>1
<1>2. CASE w = 2
  <2>1. /\ x % 64 = 0 /\ y % 64 = 0
        /\ (x \div 64) % 4 <= (y \div 64) % 4
    BY <1>2, SmallPowers DEF PerByte, DigitOf
  <2> QED BY <2>1
<1>3. CASE w = 4
  <2>1. /\ x % 16 = 0 /\ y % 16 = 0
        /\ (x \div 16) % 16 <= (y \div 16) % 16
    BY <1>3, SmallPowers DEF PerByte, DigitOf
  <2> QED BY <2>1
<1>4. CASE w = 8
  <2>1. (x \div 1) % 256 <= (y \div 1) % 256
    BY <1>4, SmallPowers, PowerZero DEF PerByte, DigitOf
  <2> QED BY <2>1
<1> QED BY <1>1, <1>2, <1>3, <1>4 DEF Widths

Checksum(Q, w) == lm_ots_compute_checksum(Q, w, Par(w).ls)
Whole(Q, w) == Q \o <<(Checksum(Q, w) \div 256) % 256, Checksum(Q, w) % 256>>
Inverted(Q, w) == [i \in 0 .. 32 * PerByte(w) - 1 |-> max_digit(w) - lm_ots_coef(Q, i, w)]

\* Every digit has its place in a byte.
LEMMA PlaceOf ==
  ASSUME NEW w \in Widths, NEW i \in Nat, NEW m \in Nat, i < m * PerByte(w)
  PROVE  \E k \in 1 .. m, t \in 0 .. PerByte(w) - 1 : i = Place(k, t, w)
<1> DEFINE d == PerByte(w)
           q == i \div d
           r == i % d
<1>1. d \in Nat /\ d > 0
  <2>1. d \in 1 .. 8
    BY WidthFacts
  <2> QED BY <2>1
<1>2. q \in Nat /\ r \in 0 .. d - 1 /\ i = d * q + r
  <2> HIDE DEF d
  <2> QED BY <1>1, DivMod
<1> HIDE DEF q, r
<1>3. q < m
  <2> HIDE DEF d
  <2>1. i < m * d
    BY DEF d
  <2>2. ASSUME q >= m PROVE FALSE
    <3>1. d * q >= d * m /\ d * m = m * d
      BY <1>1, <1>2, <2>2
    <3> QED BY <1>1, <1>2, <2>1, <3>1
  <2> QED BY <1>2, <2>2
<1> DEFINE k == q + 1
           t == d - 1 - r
<1>4. k \in 1 .. m /\ t \in 0 .. d - 1 /\ i = (k - 1) * d + (d - 1 - t)
  <2> HIDE DEF d
  <2>1. d * q = q * d /\ k - 1 = q /\ d - 1 - t = r
    BY <1>1, <1>2
  <2> QED BY <1>1, <1>2, <1>3, <2>1
<1> HIDE DEF k, t
<1>5. i = Place(k, t, w)
  BY <1>4 DEF Place, d
<1> QED BY <1>4, <1>5

\* The digits of 32 bytes.
LEMMA CoefRange ==
  ASSUME NEW w \in Widths, NEW Q \in Hashed256, NEW i \in 0 .. 32 * PerByte(w) - 1
  PROVE  lm_ots_coef(Q, i, w) \in 0 .. max_digit(w)
<1> DEFINE d == PerByte(w)
<1>1. d \in 1 .. 8
  BY WidthFacts
<1>2. i \in Nat /\ i < 32 * d /\ 32 \in Nat
  <2> HIDE DEF d
  <2>1. i \in 0 .. 32 * d - 1
    BY DEF d
  <2> QED BY <1>1, <2>1
<1>3. PICK k \in 1 .. 32, t \in 0 .. d - 1 : i = Place(k, t, w)
  <2> HIDE DEF d
  <2>1. i < 32 * PerByte(w)
    BY <1>2 DEF d
  <2> QED BY <1>2, <2>1, PlaceOf DEF d
<1>4. k \in Nat \ {0} /\ t \in Nat /\ Q[k] \in 0 .. 255
  <2> HIDE DEF d
  <2> QED BY <1>1, <1>3 DEF Hashed256
<1>5. lm_ots_coef(Q, i, w) = DigitOf(Q[k], t, w)
  BY <1>3, <1>4, CoefAt
<1>6. Q[k] \in Nat
  BY <1>4
<1> QED BY <1>4, <1>5, <1>6, DigitRange

\* What the digits leave to the maximum.
LEMMA InvertedFacts ==
  ASSUME NEW w \in Widths, NEW Q \in Hashed256
  PROVE  /\ Inverted(Q, w) \in [0 .. 32 * PerByte(w) - 1 -> Nat]
         /\ \A i \in 0 .. 32 * PerByte(w) - 1 :
              /\ Inverted(Q, w)[i] <= max_digit(w)
              /\ Inverted(Q, w)[i] = max_digit(w) - lm_ots_coef(Q, i, w)
<1>1. max_digit(w) \in 1 .. 255
  BY WidthFacts
<1>2. ASSUME NEW i \in 0 .. 32 * PerByte(w) - 1
      PROVE  max_digit(w) - lm_ots_coef(Q, i, w) \in Nat
             /\ max_digit(w) - lm_ots_coef(Q, i, w) <= max_digit(w)
  <2>1. lm_ots_coef(Q, i, w) \in 0 .. max_digit(w)
    BY CoefRange
  <2> QED BY <1>1, <2>1
<1> QED BY <1>2 DEF Inverted

\* The checksum has 16 bits, and ends in zero bits below its digits.
LEMMA ChecksumFacts ==
  ASSUME NEW w \in Widths, NEW Q \in Hashed256
  PROVE  /\ SumOf(Inverted(Q, w), 32 * PerByte(w)) \in Nat
         /\ Checksum(Q, w) = SumOf(Inverted(Q, w), 32 * PerByte(w)) * 2 ^ (8 - w)
         /\ Checksum(Q, w) \in Nat /\ Checksum(Q, w) < 65536 /\ Checksum(Q, w) % 2 ^ (8 - w) = 0
<1> DEFINE d == PerByte(w)
           max == max_digit(w)
           sum == SumOf(Inverted(Q, w), 32 * d)
<1>1. d \in 1 .. 8 /\ (8 * n) \div w = 32 * d /\ Par(w).ls = 8 - w /\ max \in 1 .. 255
  BY WidthFacts
<1>2. Checksum(Q, w) = sum * 2 ^ (8 - w)
  BY <1>1 DEF Checksum, lm_ots_compute_checksum, Inverted
<1>3. sum \in Nat /\ sum <= (32 * d) * max
  <2>1. 32 * d \in Nat /\ max \in Nat
    <3> HIDE DEF d, max
    <3> QED BY <1>1
  <2>2. /\ Inverted(Q, w) \in [0 .. 32 * d - 1 -> Nat]
        /\ \A i \in 0 .. 32 * d - 1 : Inverted(Q, w)[i] <= max
    BY InvertedFacts
  <2> DEFINE f == Inverted(Q, w)
             m == 32 * d
  <2> HIDE DEF f, m, max
  <2>3. SumOf(f, m) \in Nat /\ SumOf(f, m) <= m * max
    BY <2>1, <2>2, SumBound DEF f, m
  <2> QED BY <2>3 DEF f, m
<1> HIDE DEF sum
<1>4. \/ w = 1 /\ d = 8 /\ max = 1 /\ 2 ^ (8 - w) = 128
      \/ w = 2 /\ d = 4 /\ max = 3 /\ 2 ^ (8 - w) = 64
      \/ w = 4 /\ d = 2 /\ max = 15 /\ 2 ^ (8 - w) = 16
      \/ w = 8 /\ d = 1 /\ max = 255 /\ 2 ^ (8 - w) = 1
  <2>1. w = 1 => d = 8 /\ max = 1 /\ 2 ^ (8 - w) = 128
    BY SmallPowers DEF PerByte, max_digit
  <2>2. w = 2 => d = 4 /\ max = 3 /\ 2 ^ (8 - w) = 64
    BY SmallPowers DEF PerByte, max_digit
  <2>3. w = 4 => d = 2 /\ max = 15 /\ 2 ^ (8 - w) = 16
    BY SmallPowers DEF PerByte, max_digit
  <2>4. w = 8 => d = 1 /\ max = 255 /\ 2 ^ (8 - w) = 1
    BY SmallPowers, PowerZero DEF PerByte, max_digit
  <2> HIDE DEF d, max
  <2> QED BY <2>1, <2>2, <2>3, <2>4 DEF Widths
<1> DEFINE c == 2 ^ (8 - w)
<1>5. sum * c \in Nat /\ sum * c < 65536 /\ (sum * c) % c = 0
  <2> HIDE DEF c, d, max
  <2>1. \/ d = 8 /\ max = 1 /\ c = 128
        \/ d = 4 /\ max = 3 /\ c = 64
        \/ d = 2 /\ max = 15 /\ c = 16
        \/ d = 1 /\ max = 255 /\ c = 1
    BY <1>4 DEF c
  <2> QED BY <1>3, <2>1
<1> QED BY <1>2, <1>3, <1>5 DEF sum

\* The bytes that are signed.
LEMMA WholeFacts ==
  ASSUME NEW w \in Widths, NEW Q \in Hashed256
  PROVE  /\ \A k \in 1 .. 32 : Whole(Q, w)[k] = Q[k]
         /\ Whole(Q, w)[33] = (Checksum(Q, w) \div 256) % 256
         /\ Whole(Q, w)[34] = Checksum(Q, w) % 256
         /\ \A k \in 1 .. 34 : Whole(Q, w)[k] \in 0 .. 255
<1> DEFINE c == Checksum(Q, w)
           x == (c \div 256) % 256
           y == c % 256
           B == 0 .. 255
<1>1. x \in B /\ y \in B
  <2>1. c \in Nat
    BY ChecksumFacts
  <2> HIDE DEF c
  <2> QED BY <2>1
<1> HIDE DEF x, y, B
<1>2. Q \in Seq(B) /\ Len(Q) = 32 /\ \A k \in 1 .. 32 : Q[k] \in B
  <2>1. Q \in [1 .. 32 -> B] /\ 32 \in Nat
    BY DEF Hashed256, B
  <2> QED BY <2>1, FunctionIsSequence
<1> DEFINE v == <<x, y>>
<1>3. v \in Seq(B) /\ Len(v) = 2 /\ v[1] = x /\ v[2] = y
  BY <1>1
<1> HIDE DEF v
<1>4. /\ \A k \in 1 .. 32 : (Q \o v)[k] = Q[k]
      /\ (Q \o v)[33] = v[1] /\ (Q \o v)[34] = v[2]
  <2>1. /\ \A k \in 1 .. Len(Q) : (Q \o v)[k] = Q[k]
        /\ \A k \in 1 .. Len(v) : (Q \o v)[Len(Q) + k] = v[k]
    <3>1. Q \in Seq(B) /\ v \in Seq(B) /\ Len(Q) \in Nat /\ Len(v) \in Nat
      BY <1>2, <1>3
    <3>2. \A k \in 1 .. Len(Q) + Len(v) : (Q \o v)[k] = IF k <= Len(Q) THEN Q[k] ELSE v[k - Len(Q)]
      BY <3>1, ConcatProperties
    <3> QED BY <3>1, <3>2
  <2>2. 1 \in 1 .. Len(v) /\ 2 \in 1 .. Len(v) /\ Len(Q) + 1 = 33 /\ Len(Q) + 2 = 34
    BY <1>2, <1>3
  <2> QED BY <1>2, <2>1, <2>2
<1>5. Whole(Q, w) = Q \o v
  BY DEF Whole, v, x, y
<1>6. \A k \in 1 .. 34 : k \in 1 .. 32 \/ k = 33 \/ k = 34
  OBVIOUS
<1>7. \A k \in 1 .. 34 : Whole(Q, w)[k] \in B
  BY <1>1, <1>2, <1>3, <1>4, <1>5, <1>6
<1> QED BY <1>3, <1>4, <1>5, <1>7 DEF x, y, B

\* The digits that are signed, each at its place.
LEMMA DigitsFacts ==
  ASSUME NEW w \in Widths, NEW Q \in Hashed256
  PROVE  /\ \A k \in 1 .. 34, t \in 0 .. PerByte(w) - 1 :
              Place(k, t, w) + 1 \in 1 .. Par(w).p =>
                Digits(Q, Par(w))[Place(k, t, w) + 1] = DigitOf(Whole(Q, w)[k], t, w)
         /\ \A i \in 1 .. Par(w).p : Digits(Q, Par(w))[i] \in 0 .. max_digit(w)
<1> DEFINE p == Par(w).p
           d == PerByte(w)
<1>1. Digits(Q, Par(w)) = [i \in 1 .. p |-> lm_ots_coef(Whole(Q, w), i - 1, w)]
  BY WidthFacts DEF Digits, Whole, Checksum
<1>2. d \in 1 .. 8 /\ p = 33 * d + 1
  BY WidthFacts
<1>3. ASSUME NEW k \in 1 .. 34, NEW t \in 0 .. d - 1, Place(k, t, w) + 1 \in 1 .. p
      PROVE  Digits(Q, Par(w))[Place(k, t, w) + 1] = DigitOf(Whole(Q, w)[k], t, w)
  <2> DEFINE i == Place(k, t, w)
  <2>1. i \in Int
    <3> HIDE DEF d
    <3>1. i = (k - 1) * d + (d - 1 - t)
      BY DEF Place, d
    <3> HIDE DEF i
    <3> QED BY <1>2, <3>1
  <2>2. i + 1 \in 1 .. p /\ (i + 1) - 1 = i
    <3>1. i + 1 \in 1 .. p
      BY <1>3
    <3> HIDE DEF i
    <3> QED BY <2>1, <3>1
  <2>3. Digits(Q, Par(w))[i + 1] = lm_ots_coef(Whole(Q, w), i, w)
    <3> HIDE DEF i, p
    <3> QED BY <1>1, <2>2
  <2>4. k \in Nat \ {0}
    OBVIOUS
  <2> QED BY <2>3, <2>4, CoefAt
<1>4. ASSUME NEW i \in 1 .. p PROVE Digits(Q, Par(w))[i] \in 0 .. max_digit(w)
  <2> DEFINE j == i - 1
  <2>1. j \in Nat /\ j < 34 * d /\ 34 \in Nat /\ j + 1 = i
    <3> HIDE DEF d, p
    <3> QED BY <1>2
  <2>2. PICK k \in 1 .. 34, t \in 0 .. d - 1 : j = Place(k, t, w)
    <3>1. j < 34 * PerByte(w)
      BY <2>1
    <3> HIDE DEF j
    <3> QED BY <2>1, <3>1, PlaceOf
  <2> HIDE DEF j
  <2>3. Digits(Q, Par(w))[i] = DigitOf(Whole(Q, w)[k], t, w)
    <3> HIDE DEF d, p
    <3> QED BY <1>3, <2>1, <2>2
  <2>4. Whole(Q, w)[k] \in 0 .. 255
    BY WholeFacts
  <2>5. Whole(Q, w)[k] \in Nat /\ t \in Nat
    <3> HIDE DEF d
    <3> QED BY <1>2, <2>2, <2>4
  <2> QED BY <2>3, <2>5, DigitRange
<1> QED BY <1>3, <1>4

\* The place of a digit is among the digits of the first m bytes.
LEMMA PlaceBounds ==
  ASSUME NEW w \in Widths, NEW m \in Nat, NEW k \in 1 .. m, NEW t \in 0 .. PerByte(w) - 1
  PROVE  Place(k, t, w) \in 0 .. m * PerByte(w) - 1
<1> DEFINE d == PerByte(w)
<1>1. d \in Nat /\ t \in 0 .. d - 1
  <2>1. d \in 1 .. 8
    BY WidthFacts
  <2> QED BY <2>1
<1>2. Place(k, t, w) = (k - 1) * d + (d - 1 - t)
  BY DEF Place
<1> HIDE DEF d
<1>3. (k - 1) * d \in Nat /\ k * d = (k - 1) * d + d /\ k * d <= m * d
  <2>1. k - 1 \in Nat /\ m - k \in Nat
    OBVIOUS
  <2>2. (k - 1) * d \in Nat /\ (m - k) * d \in Nat /\ m * d = k * d + (m - k) * d
    BY <1>1, <2>1
  <2>3. k * d = (k - 1) * d + d
    BY <1>1
  <2> QED BY <1>1, <2>2, <2>3
<1>4. m * d \in Nat
  BY <1>1
<1>5. Place(k, t, w) \in 0 .. m * d - 1
  BY <1>1, <1>2, <1>3, <1>4
<1> QED BY <1>5 DEF d

\* Digests that are not the same differ in a digit.
LEMMA BytesDiffer ==
  ASSUME NEW w \in Widths, NEW Q \in Hashed256, NEW R \in Hashed256, Q # R
  PROVE  \E i \in 0 .. 32 * PerByte(w) - 1 : lm_ots_coef(Q, i, w) # lm_ots_coef(R, i, w)
<1>1. PICK k \in 1 .. 32 : Q[k] # R[k]
  <2> DEFINE D == 1 .. 32
             B == 0 .. 255
  <2>1. Q \in [D -> B] /\ R \in [D -> B] /\ Q # R
    BY DEF Hashed256
  <2> HIDE DEF D, B
  <2>2. ASSUME \A k \in D : Q[k] = R[k] PROVE FALSE
    <3>1. Q = [k \in D |-> Q[k]] /\ R = [k \in D |-> R[k]]
      BY <2>1
    <3>2. [k \in D |-> Q[k]] = [k \in D |-> R[k]]
      BY <2>2
    <3> QED BY <2>1, <3>1, <3>2
  <2>3. \E k \in D : Q[k] # R[k]
    BY <2>2
  <2> QED BY <2>3 DEF D
<1>2. Q[k] \in 0 .. 255 /\ R[k] \in 0 .. 255
  BY DEF Hashed256
<1>3. PerByte(w) \in 1 .. 8
  BY WidthFacts
<1>4. PICK t \in 0 .. PerByte(w) - 1 : DigitOf(Q[k], t, w) # DigitOf(R[k], t, w)
  <2> SUFFICES ASSUME \A t \in 0 .. PerByte(w) - 1 : DigitOf(Q[k], t, w) = DigitOf(R[k], t, w)
               PROVE  FALSE
    OBVIOUS
  <2> DEFINE x == Q[k]
             y == R[k]
  <2>1. \A t \in 0 .. PerByte(w) - 1 : t \in Nat /\ DigitOf(x, t, w) = DigitOf(y, t, w)
    BY <1>3
  <2>2. \A t \in 0 .. PerByte(w) - 1 :
          /\ DigitOf(x, t, w) \in 0 .. max_digit(w) /\ DigitOf(y, t, w) \in 0 .. max_digit(w)
    <3>1. x \in Nat /\ y \in Nat
      BY <1>2
    <3> QED BY <2>1, <3>1, DigitRange
  <2>3. \A t \in 0 .. PerByte(w) - 1 :
          /\ DigitOf(x, t, w) <= DigitOf(y, t, w) /\ DigitOf(y, t, w) <= DigitOf(x, t, w)
    <3>1. max_digit(w) \in Nat
      <4>1. max_digit(w) \in 1 .. 255
        BY WidthFacts
      <4> QED BY <4>1
    <3> QED BY <2>1, <2>2, <3>1
  <2>4. x \in 0 .. 255 /\ y \in 0 .. 255
    BY <1>2
  <2>5. x # y
    BY <1>1
  <2> HIDE DEF x, y
  <2>6. x <= y /\ y <= x
    BY <2>3, <2>4, BytesCompared
  <2> QED BY <2>4, <2>5, <2>6
<1> DEFINE i == Place(k, t, w)
<1>5. i \in 0 .. 32 * PerByte(w) - 1
  <2>1. 32 \in Nat
    OBVIOUS
  <2> QED BY <2>1, PlaceBounds
<1>6. lm_ots_coef(Q, i, w) = DigitOf(Q[k], t, w) /\ lm_ots_coef(R, i, w) = DigitOf(R[k], t, w)
  <2>1. k \in Nat \ {0}
    OBVIOUS
  <2> QED BY <2>1, CoefAt
<1> HIDE DEF i
<1> QED BY <1>4, <1>5, <1>6

\* The first digits that are signed are those of the digest.
LEMMA FirstDigits ==
  ASSUME NEW w \in Widths, NEW Q \in Hashed256, NEW i \in 0 .. 32 * PerByte(w) - 1
  PROVE  i + 1 \in 1 .. Par(w).p /\ Digits(Q, Par(w))[i + 1] = lm_ots_coef(Q, i, w)
<1> DEFINE d == PerByte(w)
           p == Par(w).p
<1>1. d \in 1 .. 8 /\ p = 33 * d + 1
  BY WidthFacts
<1>2. i \in Nat /\ i < 32 * d /\ 32 \in Nat /\ i + 1 \in 1 .. p
  <2>1. i \in 0 .. 32 * d - 1
    OBVIOUS
  <2> HIDE DEF d, p
  <2> QED BY <1>1, <2>1
<1>3. PICK k \in 1 .. 32, t \in 0 .. d - 1 : i = Place(k, t, w)
  <2>1. i < 32 * PerByte(w)
    BY <1>2
  <2> QED BY <1>2, <2>1, PlaceOf
<1>4. k \in 1 .. 34 /\ k \in Nat \ {0}
  OBVIOUS
<1>5. Digits(Q, Par(w))[i + 1] = DigitOf(Whole(Q, w)[k], t, w)
  BY <1>2, <1>3, <1>4, DigitsFacts
<1>6. Whole(Q, w)[k] = Q[k]
  BY WholeFacts
<1>7. lm_ots_coef(Q, i, w) = DigitOf(Q[k], t, w)
  BY <1>3, <1>4, CoefAt
<1> QED BY <1>2, <1>5, <1>6, <1>7

\* If no digit is greater, the checksum is not greater: the last digits are its own.
LEMMA ChecksumCompared ==
  ASSUME NEW w \in Widths, NEW Q \in Hashed256, NEW R \in Hashed256,
         \A i \in 1 .. Par(w).p : Digits(Q, Par(w))[i] <= Digits(R, Par(w))[i]
  PROVE  Checksum(Q, w) <= Checksum(R, w)
<1> DEFINE d == PerByte(w)
           c == Checksum(Q, w)
           e == Checksum(R, w)
           z == 2 ^ (8 - w)
<1>1. d \in 1 .. 8 /\ Par(w).p = 33 * d + 1
  BY WidthFacts
<1>2. c \in Nat /\ c < 65536 /\ c % z = 0 /\ e \in Nat /\ e < 65536 /\ e % z = 0
  BY ChecksumFacts
<1>3. ASSUME NEW k \in 1 .. 34, NEW t \in 0 .. d - 1, Place(k, t, w) + 1 \in 1 .. Par(w).p
      PROVE  DigitOf(Whole(Q, w)[k], t, w) <= DigitOf(Whole(R, w)[k], t, w)
  <2>1. Digits(Q, Par(w))[Place(k, t, w) + 1] <= Digits(R, Par(w))[Place(k, t, w) + 1]
    BY <1>3
  <2>2. /\ Digits(Q, Par(w))[Place(k, t, w) + 1] = DigitOf(Whole(Q, w)[k], t, w)
        /\ Digits(R, Par(w))[Place(k, t, w) + 1] = DigitOf(Whole(R, w)[k], t, w)
    BY <1>3, DigitsFacts
  <2> QED BY <2>1, <2>2
<1> DEFINE c1 == (c \div 256) % 256
           e1 == (e \div 256) % 256
           c2 == c % 256
           e2 == e % 256
<1>4. /\ Whole(Q, w)[33] = c1 /\ Whole(R, w)[33] = e1
      /\ Whole(Q, w)[34] = c2 /\ Whole(R, w)[34] = e2
  BY WholeFacts
<1>5. /\ c1 \in 0 .. 255 /\ e1 \in 0 .. 255 /\ c2 \in 0 .. 255 /\ e2 \in 0 .. 255
      /\ c = 256 * c1 + c2 /\ e = 256 * e1 + e2
  <2> HIDE DEF c, e
  <2> QED BY <1>2
<1>6. ASSUME NEW t \in 0 .. d - 1 PROVE DigitOf(c1, t, w) <= DigitOf(e1, t, w)
  <2>1. Place(33, t, w) + 1 \in 1 .. Par(w).p
    <3>1. 33 \in Nat /\ 33 \in 1 .. 33
      OBVIOUS
    <3>2. Place(33, t, w) \in 0 .. 33 * d - 1
      BY <3>1, PlaceBounds
    <3> HIDE DEF d
    <3> QED BY <1>1, <3>2
  <2>2. 33 \in 1 .. 34
    OBVIOUS
  <2> HIDE DEF c1, e1
  <2> QED BY <1>3, <1>4, <2>1, <2>2
<1>7. c1 <= e1
  <2> HIDE DEF c1, e1
  <2>1. \A t \in 0 .. PerByte(w) - 1 : DigitOf(c1, t, w) <= DigitOf(e1, t, w)
    BY <1>6
  <2> QED BY <1>5, <2>1, BytesCompared
<1>8. DigitOf(c2, d - 1, w) <= DigitOf(e2, d - 1, w)
  <2>1. Place(34, d - 1, w) = 33 * d
    <3>1. Place(34, d - 1, w) = (34 - 1) * d + (d - 1 - (d - 1))
      BY DEF Place
    <3> HIDE DEF d
    <3> QED BY <1>1, <3>1
  <2>2. Place(34, d - 1, w) + 1 \in 1 .. Par(w).p /\ d - 1 \in 0 .. d - 1
    <3> HIDE DEF d
    <3> QED BY <1>1, <2>1
  <2>3. 34 \in 1 .. 34
    OBVIOUS
  <2> HIDE DEF c2, e2, d
  <2> QED BY <1>3, <1>4, <2>2, <2>3
<1>9. c2 % z = 0 /\ e2 % z = 0
  <2>1. z \in {128, 64, 16, 1}
    <3>1. w = 1 => z = 128
      BY SmallPowers
    <3>2. w = 2 => z = 64
      BY SmallPowers
    <3>3. w = 4 => z = 16
      BY SmallPowers
    <3>4. w = 8 => z = 1
      BY PowerZero
    <3> HIDE DEF z
    <3> QED BY <3>1, <3>2, <3>3, <3>4 DEF Widths
  <2> HIDE DEF z, c, e
  <2>2. CASE z = 128
    BY <1>2, <2>2
  <2>3. CASE z = 64
    BY <1>2, <2>3
  <2>4. CASE z = 16
    BY <1>2, <2>4
  <2>5. CASE z = 1
    BY <1>2, <2>5
  <2> QED BY <2>1, <2>2, <2>3, <2>4, <2>5
<1>10. c2 <= e2
  <2> HIDE DEF c2, e2
  <2> QED BY <1>5, <1>8, <1>9, FirstDigitCompared
<1> HIDE DEF c, e, c1, e1, c2, e2
<1>11. c <= e
  BY <1>5, <1>7, <1>10
<1> QED BY <1>11 DEF c, e

\* Of two digests that are not the same, each has a digit, of its own or of its checksum,
\* that is lower than the other's.
LEMMA SomeDigitLower ==
  ASSUME NEW w \in Widths, NEW Q \in Hashed256, NEW R \in Hashed256, Q # R
  PROVE  \E i \in 1 .. Par(w).p : Digits(R, Par(w))[i] < Digits(Q, Par(w))[i]
<1> SUFFICES ASSUME \A i \in 1 .. Par(w).p : ~(Digits(R, Par(w))[i] < Digits(Q, Par(w))[i])
             PROVE  FALSE
  OBVIOUS
<1> DEFINE max == max_digit(w)
           m == 32 * PerByte(w)
           f == Inverted(R, w)
           g == Inverted(Q, w)
           z == 2 ^ (8 - w)
<1>1. max \in Nat /\ m \in Nat
  <2>1. max_digit(w) \in 1 .. 255 /\ PerByte(w) \in 1 .. 8
    BY WidthFacts
  <2> QED BY <2>1
<1>2. \A i \in 1 .. Par(w).p : Digits(Q, Par(w))[i] <= Digits(R, Par(w))[i]
  <2>1. \A i \in 1 .. Par(w).p : Digits(Q, Par(w))[i] \in 0 .. max /\ Digits(R, Par(w))[i] \in 0 .. max
    BY DigitsFacts
  <2> HIDE DEF max
  <2> QED BY <1>1, <2>1
<1>3. Checksum(Q, w) <= Checksum(R, w)
  BY <1>2, ChecksumCompared
<1>4. ASSUME NEW i \in 0 .. m - 1
      PROVE  /\ lm_ots_coef(Q, i, w) \in 0 .. max /\ lm_ots_coef(R, i, w) \in 0 .. max
             /\ lm_ots_coef(Q, i, w) <= lm_ots_coef(R, i, w)
             /\ f[i] = max - lm_ots_coef(R, i, w) /\ g[i] = max - lm_ots_coef(Q, i, w)
  <2>1. lm_ots_coef(Q, i, w) <= lm_ots_coef(R, i, w)
    BY <1>2, FirstDigits
  <2> QED BY <2>1, CoefRange, InvertedFacts
<1>5. PICK i \in 0 .. m - 1 : lm_ots_coef(Q, i, w) # lm_ots_coef(R, i, w)
  BY BytesDiffer
<1>6. f \in [0 .. m - 1 -> Nat] /\ g \in [0 .. m - 1 -> Nat]
  BY InvertedFacts
<1>7. SumOf(f, m) \in Nat /\ SumOf(g, m) \in Nat
      /\ Checksum(R, w) = SumOf(f, m) * z /\ Checksum(Q, w) = SumOf(g, m) * z
  BY ChecksumFacts
<1> HIDE DEF f, g, m, max
<1>8. (\A j \in 0 .. m - 1 : f[j] <= g[j]) /\ f[i] < g[i]
  BY <1>1, <1>4, <1>5
<1>9. SumOf(f, m) < SumOf(g, m)
  BY <1>1, <1>6, <1>8, SumLess
<1>10. z \in Nat /\ z >= 1
  <2>1. 8 - w \in Nat
    BY DEF Widths
  <2> QED BY <2>1, PowerPositive
<1> DEFINE sf == SumOf(f, m)
           sg == SumOf(g, m)
<1> HIDE DEF z
<1>11. sf * z < sg * z
  <2>1. sf \in Nat /\ sg \in Nat /\ sf < sg
    BY <1>7, <1>9
  <2> HIDE DEF sf, sg
  <2>2. sg - sf \in Nat /\ sg - sf >= 1
    BY <2>1
  <2>3. (sg - sf) * z >= z /\ (sg - sf) * z = sg * z - sf * z
    BY <1>10, <2>1, <2>2
  <2>4. sg * z \in Int /\ sf * z \in Int
    BY <1>10, <2>1
  <2> QED BY <1>10, <2>3, <2>4
<1>12. sf * z \in Int /\ sg * z \in Int
  BY <1>7, <1>10
<1> QED BY <1>3, <1>7, <1>11, <1>12

-----------------------------------------------------------------------------
(* Signatures. *)

\* A value inside a chain.
Inside(s, key, i, to) == <<"chain", s, key, i, to>>

\* Its parts.
LEMMA InsideFacts ==
  ASSUME NEW s, NEW key, NEW i, NEW to
  PROVE  /\ Inside(s, key, i, to)[1] = "chain" /\ Inside(s, key, i, to)[2] = s
         /\ Inside(s, key, i, to)[3] = key /\ Inside(s, key, i, to)[4] = i
         /\ Inside(s, key, i, to)[5] = to
BY DEF Inside

\* What the chain function makes of the start of a chain.
LEMMA WalkFromStart ==
  ASSUME NEW s, NEW key, NEW i, NEW to
  PROVE  Walk(s, key, i, 0, to) = IF to = 0 THEN s ELSE Inside(s, key, i, to)
<1>1. CASE to = 0
  BY <1>1, Zenon DEF Walk
<1>2. CASE to # 0
  BY <1>2, Zenon DEF Walk, Inside
<1> QED BY <1>1, <1>2

\* Going on from a value that a signature shows, with the digit of a digest, leads to the end
\* of the chain only if that is the digit that was signed.
LEMMA ChainsMeet ==
  ASSUME NEW path1, NEW path2, NEW key1, NEW key2, NEW i,
         NEW max \in Nat, max > 0, NEW d1 \in 0 .. max, NEW d2 \in 0 .. max
  PROVE  LET end == Walk(Derived(path1), key1, i, 0, max)
             shown == Walk(Derived(path2), key2, i, 0, d1)
         IN  /\ Walk(shown, key1, i, d2, max) = end => d1 = d2 /\ (key1 = key2 \/ path1 = path2)
             /\ d1 = d2 /\ key1 = key2 /\ path1 = path2 => Walk(shown, key1, i, d2, max) = end
<1> DEFINE s1 == Derived(path1)
           s2 == Derived(path2)
           end == Walk(s1, key1, i, 0, max)
           shown == Walk(s2, key2, i, 0, d1)
           result == Walk(shown, key1, i, d2, max)
<1>1. s1[1] = "secret" /\ s2[1] = "secret" /\ (s1 = s2 <=> path1 = path2)
  BY DerivedFacts
<1> HIDE DEF s1, s2
<1>2. end = Inside(s1, key1, i, max)
  BY WalkFromStart
<1>3. shown = IF d1 = 0 THEN s2 ELSE Inside(s2, key2, i, d1)
  BY WalkFromStart
<1>4. /\ end[1] = "chain" /\ end[2] = s1 /\ end[3] = key1 /\ end[5] = max
  BY <1>2, InsideFacts
<1>5. /\ d1 = 0 => shown = s2 /\ shown[1] = "secret"
      /\ d1 # 0 => /\ shown[1] = "chain" /\ shown[2] = s2 /\ shown[3] = key2 /\ shown[4] = i
                   /\ shown[5] = d1
  BY <1>1, <1>3, InsideFacts
<1> HIDE DEF end, shown
<1>6. ASSUME d2 = max PROVE result = shown
  BY <1>6, Zenon DEF Walk
<1>7. ASSUME d2 # max, d2 = 0 PROVE result = Inside(shown, key1, i, max)
  <2>1. max # 0
    OBVIOUS
  <2>2. Walk(shown, key1, i, 0, max) = Inside(shown, key1, i, max)
    BY <2>1, WalkFromStart
  <2> QED BY <1>7, <2>2
<1>8. ASSUME d2 # max, d2 # 0, shown[1] = "chain", shown[3] = key1, shown[5] = d2, shown[4] = i
      PROVE  result = Inside(shown[2], key1, i, max)
  BY <1>8, Zenon DEF Walk, Inside
<1>9. ASSUME d2 # max, d2 # 0, ~(shown[1] = "chain" /\ shown[3] = key1 /\ shown[4] = i /\ shown[5] = d2)
      PROVE  result[1] = "lost"
  <2> DEFINE lost == <<"lost", shown, key1, i, d2, max>>
  <2>1. ~(shown[1] = "chain" /\ <<shown[3], shown[4], shown[5]>> = <<key1, i, d2>>)
    <3> SUFFICES ASSUME shown[1] = "chain", <<shown[3], shown[4], shown[5]>> = <<key1, i, d2>>
                 PROVE  FALSE
      OBVIOUS
    <3> DEFINE x == shown[3]
               y == shown[4]
               z == shown[5]
    <3>1. <<x, y, z>> = <<key1, i, d2>>
      OBVIOUS
    <3> HIDE DEF x, y, z
    <3>2. x = key1 /\ y = i /\ z = d2
      BY <3>1
    <3> QED BY <1>9, <3>2 DEF x, y, z
  <2>2. result = lost
    BY <1>9, <2>1, Zenon DEF Walk
  <2>3. lost[1] = "lost"
    OBVIOUS
  <2> HIDE DEF result, lost
  <2> QED BY <2>2, <2>3
<1>10. ASSUME result = end PROVE d1 = d2 /\ (key1 = key2 \/ s1 = s2)
  <2>1. CASE d2 = max
    <3>1. shown = end
      BY <1>6, <1>10, <2>1
    <3>2. d1 # 0
      BY <1>4, <1>5, <3>1
    <3> QED BY <1>4, <1>5, <2>1, <3>1, <3>2
  <2>2. CASE d2 # max /\ d2 = 0
    <3>1. Inside(shown, key1, i, max) = Inside(s1, key1, i, max)
      BY <1>2, <1>7, <1>10, <2>2
    <3>2. shown = s1
      BY <3>1, InsideFacts
    <3>3. d1 = 0
      BY <1>1, <1>5, <3>2
    <3> QED BY <1>5, <2>2, <3>2, <3>3
  <2>3. CASE d2 # max /\ d2 # 0
    <3>1. result[1] # "lost"
      BY <1>4, <1>10
    <3>2. shown[1] = "chain" /\ shown[3] = key1 /\ shown[5] = d2
      BY <1>9, <2>3, <3>1
    <3>3. d1 # 0
      BY <1>5, <3>2
    <3> QED BY <1>5, <3>2, <3>3
  <2> QED BY <2>1, <2>2, <2>3
<1>11. ASSUME d1 = d2, key1 = key2, s1 = s2 PROVE result = end
  <2>1. CASE d2 = max
    <3>1. d1 # 0
      BY <1>11, <2>1
    <3>2. shown = Inside(s1, key1, i, max)
      BY <1>3, <1>11, <2>1, <3>1
    <3> QED BY <1>2, <1>6, <2>1, <3>2
  <2>2. CASE d2 # max /\ d2 = 0
    <3>1. shown = s1
      BY <1>5, <1>11, <2>2
    <3> QED BY <1>2, <1>7, <2>2, <3>1
  <2>3. CASE d2 # max /\ d2 # 0
    <3>1. shown[1] = "chain" /\ shown[2] = s2 /\ shown[3] = key1 /\ shown[4] = i /\ shown[5] = d2
      BY <1>5, <1>11, <2>3
    <3>2. result = Inside(s2, key1, i, max)
      BY <1>8, <2>3, <3>1
    <3> QED BY <1>2, <1>11, <3>2
  <2> QED BY <2>1, <2>2, <2>3
<1>12. /\ result = end => d1 = d2 /\ (key1 = key2 \/ path1 = path2)
       /\ d1 = d2 /\ key1 = key2 /\ path1 = path2 => result = end
  <2> HIDE DEF result
  <2> QED BY <1>1, <1>10, <1>11
<1> QED BY <1>12 DEF s1, s2, end, shown

\* For the secrets of two leaves.
LEMMA SecretsMeet ==
  ASSUME NEW b \in Builds, NEW q1 \in LeavesOf(b), NEW q2 \in LeavesOf(b), NEW i \in 1 .. P(b),
         NEW d1 \in 0 .. max_digit(b.w), NEW d2 \in 0 .. max_digit(b.w)
  PROVE  LET end == Walk(SecretOf(b, q1, i - 1), <<"I", q1>>, i, 0, max_digit(b.w))
             shown == Walk(SecretOf(b, q2, i - 1), <<"I", q2>>, i, 0, d1)
         IN  Walk(shown, <<"I", q1>>, i, d2, max_digit(b.w)) = end <=> d1 = d2 /\ q1 = q2
<1> DEFINE PathOf(q) == IF b.method = "hash" THEN <<Prg("I", q, i - 1)>>
                        ELSE QIn(b, q) \o JIn(b, q, Marked(b, i - 1))
           Key(q) == <<"I", q>>
           max == max_digit(b.w)
           end == Walk(Derived(PathOf(q1)), Key(q1), i, 0, max)
           shown == Walk(Derived(PathOf(q2)), Key(q2), i, 0, d1)
<1>1. max \in Nat /\ max > 0
  <2>1. b.w \in Widths
    BY ParameterSets DEF Widths
  <2>2. max \in 1 .. 255
    BY <2>1, WidthFacts
  <2> QED BY <2>2
<1>2. \A q : SecretOf(b, q, i - 1) = Derived(PathOf(q))
  BY DEF SecretOf
<1>3. PathOf(q1) = PathOf(q2) => q1 = q2
  <2>1. i - 1 \in JsOf(b)
    <3>1. P(b) \in 34 .. 265
      BY ParameterSets
    <3>2. i - 1 \in 0 .. P(b) - 1
      BY <3>1
    <3> QED BY <3>2 DEF JsOf
  <2> HIDE DEF PathOf
  <2> QED BY <1>2, <2>1, SecretsDiffer
<1>4. Key(q1) = Key(q2) => q1 = q2
  OBVIOUS
<1>5. max_digit(b.w) = max
  OBVIOUS
<1> HIDE DEF PathOf, Key, max
<1>6. /\ Walk(shown, Key(q1), i, d2, max) = end =>
           d1 = d2 /\ (Key(q1) = Key(q2) \/ PathOf(q1) = PathOf(q2))
      /\ d1 = d2 /\ Key(q1) = Key(q2) /\ PathOf(q1) = PathOf(q2) =>
           Walk(shown, Key(q1), i, d2, max) = end
  BY <1>1, <1>5, ChainsMeet
<1>7. Walk(shown, Key(q1), i, d2, max) = end <=> d1 = d2 /\ q1 = q2
  BY <1>3, <1>4, <1>6
<1> QED BY <1>2, <1>7 DEF Key, max

\* The digests of the messages.
LEMMA DigestFacts ==
  ASSUME NEW b \in Builds, NEW q \in LeavesOf(b), NEW m1 \in Messages, NEW m2 \in Messages
  PROVE  /\ b.w \in Widths /\ Par(b.w).p = P(b) /\ P(b) >= 1
         /\ Digest(q, m1) \in Hashed256 /\ Digest(q, m2) \in Hashed256
         /\ Digest(q, m1) = Digest(q, m2) => m1 = m2
<1>1. q \in 0 .. 2 ^ b.height - 1
  BY DEF LeavesOf
<1>2. Digest(q, m1) = Digest(q, m2) => m1 = m2
  BY <1>1, DigestsDiffer
<1>3. Digest(q, m1) \in Hashed256 /\ Digest(q, m2) \in Hashed256
  BY <1>1, DigestsAreBytes DEF Hashed256, n
<1>4. P(b) \in 34 .. 265
  BY ParameterSets
<1>5. P(b) >= 1
  BY <1>4
<1> QED BY <1>2, <1>3, <1>5, ParameterSets DEF Widths, Par, P

\* A signature of one leaf and message, validated with the digest of another one.
LEMMA Validation ==
  ASSUME NEW b \in Builds, NEW q1 \in LeavesOf(b), NEW q2 \in LeavesOf(b),
         NEW m1 \in Messages, NEW m2 \in Messages
  PROVE  lm_ots_validate_signature_compute(b.w, "I", q1, Digest(q2, m2),
                                           RightSignature(b, q2, Digest(q2, m1))) = RightKey(b, q1)
           <=> q1 = q2 /\ m2 = m1
<1> DEFINE D1 == Digits(Digest(q2, m1), Par(b.w))
           D2 == Digits(Digest(q2, m2), Par(b.w))
           p == P(b)
           Shown(i) == Walk(SecretOf(b, q2, i - 1), <<"I", q2>>, i, 0, D1[i])
           Found(i) == Walk(Shown(i), <<"I", q1>>, i, D2[i], max_digit(b.w))
           End(i) == Walk(SecretOf(b, q1, i - 1), <<"I", q1>>, i, 0, max_digit(b.w))
           y == [i \in 1 .. p |-> Shown(i)]
           found == [i \in 1 .. p |-> Found(i)]
           ends == [i \in 1 .. p |-> End(i)]
<1>1. /\ b.w \in Widths /\ Par(b.w).p = p /\ p >= 1
      /\ Digest(q2, m1) \in Hashed256 /\ Digest(q2, m2) \in Hashed256
      /\ Digest(q2, m1) = Digest(q2, m2) => m1 = m2
  BY DigestFacts
<1>2. \A i \in 1 .. p : D1[i] \in 0 .. max_digit(b.w) /\ D2[i] \in 0 .. max_digit(b.w)
  BY <1>1, DigitsFacts
<1>3. RightSignature(b, q2, Digest(q2, m1)).y = y
  BY DEF RightSignature, Par
<1>4. lm_ots_validate_signature_compute(b.w, "I", q1, Digest(q2, m2),
                                        RightSignature(b, q2, Digest(q2, m1))) = KeyOf("I", q1, found)
  <2> DEFINE signature == RightSignature(b, q2, Digest(q2, m1))
             all == [i \in 1 .. p |-> Walk(signature.y[i], <<"I", q1>>, i, D2[i], max_digit(b.w))]
  <2>1. lm_ots_validate_signature_compute(b.w, "I", q1, Digest(q2, m2), signature) = KeyOf("I", q1, all)
    BY DEF lm_ots_validate_signature_compute, Par, P
  <2>2. \A i \in 1 .. p : signature.y[i] = Shown(i)
    <3> HIDE DEF signature, Shown
    <3>1. signature.y = y
      BY <1>3 DEF signature
    <3> QED BY <3>1
  <2> HIDE DEF signature, Shown, D2
  <2>3. all = found
    BY <2>2
  <2> HIDE DEF all, found
  <2> QED BY <2>1, <2>3 DEF signature
<1>5. RightKey(b, q1) = KeyOf("I", q1, ends)
  BY DEF RightKey
<1>6. \A i \in 1 .. p : Found(i) = End(i) <=> D1[i] = D2[i] /\ q1 = q2
  <2> HIDE DEF D1, D2
  <2> QED BY <1>2, SecretsMeet
<1> HIDE DEF D1, D2, Found, End
<1>7. KeyOf("I", q1, found) = KeyOf("I", q1, ends) <=> found = ends
  <2> HIDE DEF found, ends
  <2> QED BY DEF KeyOf
<1>8. found = ends <=> \A i \in 1 .. p : Found(i) = End(i)
  <2>1. ASSUME found = ends PROVE \A i \in 1 .. p : Found(i) = End(i)
    <3>1. \A i \in 1 .. p : found[i] = Found(i) /\ ends[i] = End(i)
      OBVIOUS
    <3> HIDE DEF found, ends
    <3> QED BY <2>1, <3>1
  <2> QED BY <2>1
<1>9. 1 \in 1 .. p
  <2>1. p \in 34 .. 265
    BY ParameterSets
  <2> QED BY <2>1
<1>10. (\A i \in 1 .. p : D1[i] = D2[i]) <=> m1 = m2
  <2>1. ASSUME m1 # m2 PROVE \E i \in 1 .. p : D1[i] # D2[i]
    <3>1. Digest(q2, m1) # Digest(q2, m2)
      BY <1>1, <2>1
    <3>2. PICK i \in 1 .. p : D2[i] < D1[i]
      BY <1>1, <3>1, SomeDigitLower DEF D1, D2
    <3>3. max_digit(b.w) \in Nat
      <4>1. max_digit(b.w) \in 1 .. 255
        BY <1>1, WidthFacts
      <4> QED BY <4>1
    <3>4. D1[i] \in Int /\ D2[i] \in Int
      BY <1>2, <3>3
    <3> QED BY <3>2, <3>4
  <2>2. ASSUME m1 = m2 PROVE D1 = D2
    BY <2>2 DEF D1, D2
  <2> QED BY <2>1, <2>2
<1>11. found = ends <=> q1 = q2 /\ m1 = m2
  BY <1>6, <1>8, <1>9, <1>10
<1> HIDE DEF found, ends
<1> QED BY <1>4, <1>5, <1>7, <1>11

\* A signature leads to the one-time key of its leaf, made with another object at another time,
\* and to no other key; with another message it leads nowhere.
THEOREM OtsKeysSignaturesVerify == Spec => []SignaturesVerify
<1>1. IInv => SignaturesVerify
  <2> SUFFICES ASSUME IInv, NEW k \in 1 .. Len(made), NEW s \in 1 .. Len(made),
                      made[k].kind = "key", made[s].kind = "signature", NEW message \in Messages
               PROVE  Validates(made[k], made[s], message)
                        <=> made[k].q = made[s].q /\ message = made[s].message
    BY DEF SignaturesVerify
  <2> DEFINE key == made[k]
             signature == made[s]
  <2>1. build \in Builds /\ key \in Results(build) /\ signature \in Results(build)
    BY DEF IInv
  <2>2. key.kind = "key" /\ signature.kind = "signature"
    OBVIOUS
  <2> HIDE DEF key, signature
  <2>3. key.q \in LeavesOf(build) /\ key.value = RightKey(build, key.q)
    BY <2>1, <2>2, ResultKinds
  <2>4. /\ signature.q \in LeavesOf(build) /\ signature.message \in Messages
        /\ signature.value = RightSignature(build, signature.q, Digest(signature.q, signature.message))
    BY <2>1, <2>2, ResultKinds
  <2>5. Validates(key, signature, message) <=> key.q = signature.q /\ message = signature.message
    BY <2>1, <2>3, <2>4, Validation DEF Validates
  <2> QED BY <2>5 DEF key, signature
<1> QED BY <1>1, Invariant, PTL

\* Who knows what a signature shows cannot go on to the signature of another digest: in one of
\* the chains, perhaps one of the checksum, the signature is already beyond that.
THEOREM OtsKeysOneMessage == Spec => []OneMessageOnly
<1>1. IInv => OneMessageOnly
  <2> SUFFICES ASSUME IInv, NEW s \in 1 .. Len(made), made[s].kind = "signature",
                      NEW message \in Messages \ {made[s].message}
               PROVE  LET digits == Digits(Digest(made[s].q, message), param)
                      IN  \E i \in 1 .. param.p : /\ made[s].value.y[i][1] = "chain"
                                                   /\ made[s].value.y[i][5] > digits[i]
    BY DEF OneMessageOnly
  <2> DEFINE signature == made[s]
             q == signature.q
             b == build
             Q == Digest(q, signature.message)
             R == Digest(q, message)
             D == Digits(Q, Par(b.w))
             digits == Digits(R, Par(b.w))
  <2>1. b \in Builds /\ signature \in Results(b)
    BY DEF IInv
  <2>2. signature.kind = "signature" /\ message # signature.message
    OBVIOUS
  <2> HIDE DEF signature
  <2>3. /\ q \in LeavesOf(b) /\ signature.message \in Messages
        /\ signature.value = RightSignature(b, q, Q)
    BY <2>1, <2>2, ResultKinds
  <2>4. b.w \in Widths /\ Par(b.w).p = P(b) /\ Q \in Hashed256 /\ R \in Hashed256 /\ Q # R
    BY <2>1, <2>2, <2>3, DigestFacts
  <2>5. PICK i \in 1 .. P(b) : digits[i] < D[i]
    <3> HIDE DEF Q, R
    <3> QED BY <2>4, SomeDigitLower
  <2>6. D[i] \in Nat /\ digits[i] \in Nat
    <3>1. D[i] \in 0 .. max_digit(b.w) /\ digits[i] \in 0 .. max_digit(b.w)
      BY <2>4, DigitsFacts
    <3>2. max_digit(b.w) \in 1 .. 255
      BY <2>4, WidthFacts
    <3> HIDE DEF D, digits
    <3> QED BY <3>1, <3>2
  <2> DEFINE secret == SecretOf(b, q, i - 1)
             key == <<"I", q>>
  <2>7. signature.value.y[i] = Walk(secret, key, i, 0, D[i])
    BY <2>3 DEF RightSignature, Par
  <2> HIDE DEF D, digits, secret, key
  <2>8. D[i] # 0 /\ D[i] > digits[i]
    BY <2>5, <2>6
  <2>9. signature.value.y[i] = Inside(secret, key, i, D[i])
    BY <2>7, <2>8, WalkFromStart
  <2>10. signature.value.y[i][1] = "chain" /\ signature.value.y[i][5] = D[i]
    BY <2>9, InsideFacts
  <2>11. \E h \in 1 .. P(b) : signature.value.y[h][1] = "chain" /\ signature.value.y[h][5] > digits[h]
    BY <2>8, <2>10
  <2>12. param = Par(b.w) /\ param.p = P(b)
    BY <2>4 DEF param, Par
  <2> QED BY <2>11, <2>12 DEF digits, signature
<1> QED BY <1>1, Invariant, PTL

=============================================================================
