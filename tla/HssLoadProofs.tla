---------------------------- MODULE HssLoadProofs ----------------------------
(***************************************************************************)
(* Proofs about key generation and loading: the three algorithms that      *)
(* build hash trees return the right nodes, the aux data and the public    *)
(* key are right, and so are the subtrees of a loaded key.                 *)
(***************************************************************************)
EXTENDS HssLoad, NumberFacts, SequenceTheorems, TLAPS

-----------------------------------------------------------------------------
(* Binary digits and the trailing ones of a number. *)

\* The least element of a set of numbers.
LEMMA MinFacts ==
  ASSUME NEW T \in SUBSET Nat, T # {}
  PROVE  Min(T) \in T /\ \A y \in T : Min(T) <= y
<1>1. PICK x \in T : \A y \in T : x <= y
  BY LeastNatural
<1>2. Min(T) = CHOOSE m \in T : \A y \in T : m <= y
  BY Zenon DEF Min
<1> QED BY <1>1, <1>2

Bit(m, s) == (m \div 2 ^ s) % 2

\* The next binary digit decides whether a number is all ones up to there.
LEMMA BitFacts ==
  ASSUME NEW m \in Nat, NEW s \in Nat
  PROVE  /\ Bit(m, s) \in {0, 1}
         /\ m \div 2 ^ s \in Nat
         /\ m \div 2 ^ (s + 1) = (m \div 2 ^ s) \div 2
         /\ m \div 2 ^ s = 2 * (m \div 2 ^ (s + 1)) + Bit(m, s)
         /\ m % 2 ^ (s + 1) = 2 ^ s * Bit(m, s) + (m % 2 ^ s)
<1> DEFINE a == 2 ^ s
<1>1. a \in Nat /\ a > 0
  BY PowerPositive
<1>2. 2 ^ (s + 1) = a * 2
  BY PowerStep, <1>1
<1> HIDE DEF a
<1>3. m \div a \in Nat
  BY <1>1, DivMod
<1>4. m \div (a * 2) = (m \div a) \div 2 /\ m % (a * 2) = a * ((m \div a) % 2) + (m % a)
  BY <1>1, DivModTwice
<1>5. (m \div a) % 2 \in {0, 1} /\ m \div a = 2 * ((m \div a) \div 2) + ((m \div a) % 2)
  <2> DEFINE k == m \div a
  <2>1. k \in Nat
    BY <1>3
  <2> HIDE DEF k
  <2>2. k % 2 \in {0, 1} /\ k = 2 * (k \div 2) + (k % 2)
    BY <2>1
  <2> QED BY <2>2 DEF k
<1> QED BY <1>2, <1>3, <1>4, <1>5 DEF Bit, a

\* A number below a power of two has no digit there.
LEMMA BitAbove ==
  ASSUME NEW s \in Nat, NEW m \in 0 .. 2 ^ s - 1
  PROVE  m \div 2 ^ s = 0 /\ m % 2 ^ s = m /\ Bit(m, s) = 0
<1> DEFINE a == 2 ^ s
<1>1. a \in Nat /\ a > 0 /\ m \in 0 .. a - 1
  BY PowerPositive
<1> HIDE DEF a
<1>2. m \in Int /\ m = a * 0 + m
  BY <1>1
<1>3. m \div a = 0 /\ m % a = m
  BY <1>1, <1>2, DivModUnique
<1> QED BY <1>3 DEF Bit, a

\* A multiple of a power of two has no digits below it.
LEMMA NoBitsBelow ==
  ASSUME NEW off \in Nat, NEW k \in Nat
  PROVE  \A s \in 0 .. off - 1 : Bit(2 ^ off * k, s) = 0
<1> TAKE s \in 0 .. off - 1
<1> DEFINE a == 2 ^ off
           b == 2 ^ s
           c == 2 ^ (off - (s + 1))
<1>1. a = b * (2 * c) /\ b \in Nat /\ b > 0 /\ c \in Nat
  <2>1. s + 1 \in Nat /\ s \in Nat /\ s + 1 <= off /\ off - (s + 1) \in Nat
    OBVIOUS
  <2>2. a = 2 ^ (s + 1) * c /\ 2 ^ (s + 1) = 2 * b
    BY <2>1, PowerQuotient, PowerStep
  <2>3. b \in Nat /\ b > 0 /\ c \in Nat
    BY <2>1, PowerPositive
  <2> HIDE DEF a, b, c
  <2> QED BY <2>2, <2>3
<1> DEFINE z == 2 * (c * k)
<1>2. a * k = b * z + 0 /\ z \in Int /\ 0 \in 0 .. b - 1 /\ b * z + 0 \in Int
  <2> HIDE DEF a, b, c
  <2>1. c * k \in Int /\ a * k = b * (2 * (c * k))
    BY <1>1
  <2>2. z \in Int /\ a * k = b * z
    BY <2>1
  <2> HIDE DEF z
  <2> QED BY <1>1, <2>2
<1>3. (a * k) \div b = z
  <2> HIDE DEF a, b, c, z
  <2> QED BY <1>1, <1>2, DivModUnique
<1>4. z % 2 = 0
  <2> DEFINE y == c * k
  <2>1. y \in Int
    <3> HIDE DEF a, b, c
    <3> QED BY <1>1
  <2> HIDE DEF y
  <2>2. (2 * y) % 2 = 0
    BY <2>1
  <2> QED BY <2>2 DEF y
<1>5. Bit(a * k, s) = ((a * k) \div b) % 2
  BY DEF Bit
<1> HIDE DEF a, b, z
<1>6. Bit(a * k, s) = 0
  BY <1>3, <1>4, <1>5
<1> QED BY <1>6 DEF a

\* Adding one to a number turns its trailing ones into zeroes and the zero after them
\* into a one; the digits further up stay.
Trailing(m, off) == Bit(m, off) = 0 /\ \A s \in 0 .. off - 1 : Bit(m, s) = 1

\* The digits of m + 1, if m has off trailing ones.
LEMMA Carry ==
  ASSUME NEW m \in Nat, NEW off \in Nat, Trailing(m, off)
  PROVE  /\ m % 2 ^ off = 2 ^ off - 1
         /\ (m + 1) \div 2 ^ off = m \div 2 ^ off + 1
         /\ \A s \in 0 .. off - 1 : Bit(m + 1, s) = 0
         /\ \A s \in Nat : s > off => (m + 1) \div 2 ^ s = m \div 2 ^ s
<1> DEFINE S == {s \in 0 .. off : m % 2 ^ s = 2 ^ s - 1}
<1>1. 0 \in S
  BY PowerZero
<1>2. \A s \in 0 .. off - 1 : s \in S => s + 1 \in S
  <2> TAKE s \in 0 .. off - 1
  <2> HAVE s \in S
  <2>1. Bit(m, s) = 1 /\ s \in Nat /\ s + 1 \in 0 .. off
    BY DEF Trailing
  <2>2. m % 2 ^ (s + 1) = 2 ^ s * 1 + (2 ^ s - 1)
    BY <2>1, BitFacts
  <2>3. 2 ^ (s + 1) = 2 * 2 ^ s /\ 2 ^ s \in Nat
    BY <2>1, PowerStep, PowerNat
  <2> QED BY <2>1, <2>2, <2>3
<1>3. off \in S
  <2> HIDE DEF S
  <2> QED BY <1>1, <1>2, InductionUpTo
<1> DEFINE a == 2 ^ off
           k == m \div a
<1>4. a \in Nat /\ a > 0
  BY PowerPositive
<1>5. m % a = a - 1
  BY <1>3
<1> HIDE DEF S
<1>6. k \in Nat /\ k % 2 = 0
  BY BitFacts DEF Trailing, Bit
<1>7. m + 1 = a * (k + 1) + 0
  <2> HIDE DEF a
  <2>1. m = a * (m \div a) + (m % a)
    BY <1>4, DivMod
  <2> QED BY <1>4, <1>5, <1>6, <2>1
<1>8. (m + 1) \div a = k + 1
  <2> HIDE DEF a, k
  <2>1. m + 1 \in Int /\ 0 \in 0 .. a - 1 /\ k + 1 \in Int
    BY <1>4, <1>6
  <2> QED BY <1>4, <1>7, <2>1, DivModUnique
<1>9. ASSUME NEW s \in 0 .. off - 1
      PROVE  Bit(m + 1, s) = 0
  <2>1. Bit(a * (k + 1), s) = 0
    <3>1. k + 1 \in Nat
      BY <1>6
    <3> HIDE DEF k
    <3> QED BY <3>1, NoBitsBelow
  <2>2. m + 1 = a * (k + 1)
    <3> HIDE DEF a, k
    <3> QED BY <1>4, <1>6, <1>7
  <2> QED BY <2>1, <2>2
<1>10. ASSUME NEW s \in Nat, s > off
       PROVE  (m + 1) \div 2 ^ s = m \div 2 ^ s
  <2> DEFINE c == 2 ^ (s - (off + 1))
  <2>1. 2 ^ s = (a * 2) * c /\ c \in Nat /\ c > 0
    <3>1. off + 1 \in Nat /\ off + 1 <= s /\ s - (off + 1) \in Nat
      BY <1>10
    <3>2. 2 ^ s = 2 ^ (off + 1) * c /\ 2 ^ (off + 1) = 2 * a
      BY <3>1, PowerQuotient, PowerStep
    <3>3. c \in Nat /\ c > 0
      BY <3>1, PowerPositive
    <3> HIDE DEF a, c
    <3> QED BY <3>2, <3>3, <1>4
  <2> HIDE DEF a, c, k
  <2>2. (m + 1) \div (a * 2) = (k + 1) \div 2 /\ m \div (a * 2) = k \div 2
    BY <1>4, <1>8, DivModTwice DEF k
  <2>3. (k + 1) \div 2 = k \div 2
    BY <1>6
  <2>4. a * 2 \in Nat /\ a * 2 > 0
    BY <1>4
  <2>5. (m + 1) \div ((a * 2) * c) = ((m + 1) \div (a * 2)) \div c /\ m \div ((a * 2) * c) = (m \div (a * 2)) \div c
    BY <2>1, <2>4, DivModTwice
  <2> QED BY <2>1, <2>2, <2>3, <2>5
<1> QED BY <1>5, <1>8, <1>9, <1>10 DEF k

\* Leaves are numbers.
LEMMA LeafIsNat ==
  \A level \in 0 .. 30 : level \in Nat /\ \A m \in 0 .. 2 ^ level - 1 : m \in Nat
<1> TAKE level \in 0 .. 30
<1>1. level \in Nat /\ 2 ^ level \in Nat
  BY PowerNat
<1> QED BY <1>1

\* The trailing ones that the code counts are the trailing ones.
LEMMA TrailingOnesFacts ==
  ASSUME NEW level \in 0 .. 30, NEW m \in 0 .. 2 ^ level - 1
  PROVE  TrailingOnes(m) \in 0 .. level /\ Trailing(m, TrailingOnes(m))
<1> DEFINE T == {s \in 0 .. 30 : (m \div 2 ^ s) % 2 = 0}
<1>1. level \in T
  BY BitAbove DEF Bit
<1>2. m \in Nat
  BY PowerNat
<1>3. T \in SUBSET Nat /\ T # {}
  <2>1. T \subseteq 0 .. 30
    OBVIOUS
  <2> HIDE DEF T
  <2> QED BY <1>1, <2>1
<1>4. TrailingOnes(m) = Min(T)
  BY DEF TrailingOnes
<1> HIDE DEF T
<1>5. Min(T) \in T /\ \A y \in T : Min(T) <= y
  BY <1>3, MinFacts
<1> DEFINE off == TrailingOnes(m)
<1>6. off \in 0 .. 30 /\ Bit(m, off) = 0 /\ off <= level
  BY <1>1, <1>4, <1>5 DEF T, Bit
<1>7. ASSUME NEW s \in 0 .. off - 1
      PROVE  Bit(m, s) = 1
  <2>1. s \in 0 .. 30 /\ s \notin T
    BY <1>3, <1>4, <1>5, <1>6, <1>7
  <2>2. Bit(m, s) # 0
    BY <2>1 DEF T, Bit
  <2>3. Bit(m, s) \in {0, 1}
    <3>1. s \in Nat
      BY <2>1
    <3> QED BY <1>2, <3>1, BitFacts
  <2> QED BY <2>2, <2>3
<1> HIDE DEF off
<1>8. off \in 0 .. level /\ Trailing(m, off)
  BY <1>6, <1>7 DEF Trailing
<1> QED BY <1>8 DEF off

-----------------------------------------------------------------------------
(* The stack: after m leaves under node b, which is level levels above them, *)
(* it holds for every one in m a node whose subtree is complete.             *)

\* The node s levels above leaf m.
Ancestor(b, level, m, s) == 2 ^ (level - s) * b + (m \div 2 ^ s)

Stacked(stack, t, b, level, m) ==
  \A s \in 0 .. level : Bit(m, s) = 1 => stack[s] = Node(t, Ancestor(b, level, m, s) - 1)

\* Ancestors are found by halving.
LEMMA AncestorFacts ==
  ASSUME NEW b \in Nat, NEW level \in Nat, NEW m \in Nat
  PROVE  /\ Ancestor(b, level, m, 0) = 2 ^ level * b + m
         /\ \A s \in 0 .. level :
              /\ Ancestor(b, level, m, s) \in Nat
              /\ (2 ^ level * b + m) \div 2 ^ s = Ancestor(b, level, m, s)
         /\ \A s \in 1 .. level :
              Ancestor(b, level, m, s - 1) = 2 * Ancestor(b, level, m, s) + Bit(m, s - 1)
<1>1. Ancestor(b, level, m, 0) = 2 ^ level * b + m
  <2>1. m \div 2 ^ 0 = m /\ level - 0 = level
    BY PowerZero
  <2> QED BY <2>1 DEF Ancestor
<1>2. ASSUME NEW s \in 0 .. level
      PROVE  /\ Ancestor(b, level, m, s) \in Nat
             /\ (2 ^ level * b + m) \div 2 ^ s = Ancestor(b, level, m, s)
  <2> DEFINE d == 2 ^ s
             k == 2 ^ (level - s)
  <2>1. s \in Nat /\ level - s \in Nat /\ 2 ^ level = d * k
    BY PowerQuotient
  <2>2. d \in Nat /\ d > 0 /\ k \in Nat
    BY <2>1, PowerPositive
  <2>3. Ancestor(b, level, m, s) = k * b + (m \div d)
    BY DEF Ancestor
  <2> HIDE DEF d, k
  <2>4. m \div d \in Nat
    BY <2>2, DivMod
  <2>5. k * b \in Nat /\ (d * k) * b = d * (k * b)
    BY <2>2
  <2>6. (m + d * (k * b)) \div d = (m \div d) + k * b
    BY <2>2, <2>5, DivModAddMultiple
  <2>7. d * (k * b) + m = m + d * (k * b)
    BY <2>2, <2>5
  <2>8. (2 ^ level * b + m) \div d = (m \div d) + k * b
    BY <2>1, <2>5, <2>6, <2>7
  <2> QED BY <2>3, <2>4, <2>5, <2>8 DEF d
<1>3. ASSUME NEW s \in 1 .. level
      PROVE  Ancestor(b, level, m, s - 1) = 2 * Ancestor(b, level, m, s) + Bit(m, s - 1)
  <2> DEFINE k == 2 ^ (level - s)
             q == m \div 2 ^ s
  <2>1. s - 1 \in Nat /\ (s - 1) + 1 = s /\ level - s \in Nat /\ level - (s - 1) = (level - s) + 1
    OBVIOUS
  <2>2. m \div 2 ^ (s - 1) = 2 * q + Bit(m, s - 1) /\ Bit(m, s - 1) \in {0, 1}
    <3> DEFINE u == s - 1
    <3>1. u \in Nat /\ u + 1 = s
      BY <2>1
    <3> HIDE DEF u
    <3>2. m \div 2 ^ u = 2 * (m \div 2 ^ (u + 1)) + Bit(m, u) /\ Bit(m, u) \in {0, 1}
      BY <3>1, BitFacts
    <3> QED BY <3>1, <3>2 DEF u
  <2>3. 2 ^ (level - (s - 1)) = 2 * k /\ k \in Nat
    BY <2>1, PowerStep, PowerNat
  <2>4. q \in Nat
    BY BitFacts
  <2>5. Ancestor(b, level, m, s) = k * b + q /\ Ancestor(b, level, m, s - 1) = (2 * k) * b + (2 * q + Bit(m, s - 1))
    BY <2>2, <2>3 DEF Ancestor
  <2> HIDE DEF k, q
  <2>6. (2 * k) * b = 2 * (k * b) /\ k * b \in Nat
    BY <2>3
  <2> QED BY <2>2, <2>4, <2>5, <2>6
<1> QED BY <1>1, <1>2, <1>3

Ancestors(t, b, level, m, off) == [s \in 0 .. off |-> Node(t, Ancestor(b, level, m, s))]

ClimbsRight(stack, t, b, level, m) ==
  \A r : r = 2 ^ level * b + m =>
    Climb(stack, Node(t, r), t, r, TrailingOnes(m)) = Ancestors(t, b, level, m, TrailingOnes(m))

\* Walking up from leaf m completes the nodes above it.
LEMMA ClimbRight ==
  ASSUME NEW level \in 0 .. 30, NEW m \in 0 .. 2 ^ level - 1, NEW b \in Nat, NEW t,
         NEW stack, Stacked(stack, t, b, level, m)
  PROVE  ClimbsRight(stack, t, b, level, m)
<1> SUFFICES ASSUME NEW r, r = 2 ^ level * b + m
             PROVE  Climb(stack, Node(t, r), t, r, TrailingOnes(m))
                      = Ancestors(t, b, level, m, TrailingOnes(m))
  BY DEF ClimbsRight
<1> DEFINE off == TrailingOnes(m)
           Equation(f) == f = [s \in 0 .. off |->
             IF s = 0 THEN Node(t, r) ELSE Combine(stack[s - 1], f[s - 1], t, r \div 2 ^ s)]
           g == [s \in 0 .. off |-> Node(t, Ancestor(b, level, m, s))]
           climb == Climb(stack, Node(t, r), t, r, off)
<1>1. off \in 0 .. level /\ Trailing(m, off) /\ m \in Nat /\ level \in Nat
  BY TrailingOnesFacts, LeafIsNat
<1>2. climb = CHOOSE f : Equation(f)
  BY Zenon DEF Climb
<1> HIDE DEF climb, off
<1>3. r = Ancestor(b, level, m, 0)
  BY <1>1, AncestorFacts
<1>4. ASSUME NEW s \in 1 .. off
      PROVE  Combine(stack[s - 1], Node(t, Ancestor(b, level, m, s - 1)), t, r \div 2 ^ s)
               = Node(t, Ancestor(b, level, m, s))
  <2>1. s \in 1 .. level /\ s \in 0 .. level /\ s - 1 \in 0 .. level /\ s - 1 \in 0 .. off - 1
    BY <1>1
  <2>2. Bit(m, s - 1) = 1
    BY <1>1, <2>1 DEF Trailing
  <2>3. r \div 2 ^ s = Ancestor(b, level, m, s) /\ Ancestor(b, level, m, s) \in Nat
    BY <1>1, <2>1, AncestorFacts
  <2>4. Ancestor(b, level, m, s - 1) = 2 * Ancestor(b, level, m, s) + 1
    <3>1. \A z \in 1 .. level :
            Ancestor(b, level, m, z - 1) = 2 * Ancestor(b, level, m, z) + Bit(m, z - 1)
      BY <1>1, AncestorFacts
    <3>2. Ancestor(b, level, m, s - 1) = 2 * Ancestor(b, level, m, s) + Bit(m, s - 1)
      BY <2>1, <3>1, Zenon
    <3> QED BY <2>2, <3>2
  <2>5. stack[s - 1] = Node(t, Ancestor(b, level, m, s - 1) - 1)
    BY <2>1, <2>2 DEF Stacked
  <2>6. Ancestor(b, level, m, s - 1) - 1 = 2 * Ancestor(b, level, m, s)
    BY <2>3, <2>4
  <2> QED BY <2>3, <2>4, <2>5, <2>6 DEF Combine
<1>5. Equation(g)
  <2>1. ASSUME NEW s \in 0 .. off
        PROVE  g[s] = IF s = 0 THEN Node(t, r) ELSE Combine(stack[s - 1], g[s - 1], t, r \div 2 ^ s)
    <3>1. CASE s = 0
      BY <1>3, <3>1
    <3>2. CASE s # 0
      <4>1. s \in 1 .. off /\ s - 1 \in 0 .. off
        BY <1>1, <3>2
      <4>2. g[s] = Node(t, Ancestor(b, level, m, s)) /\ g[s - 1] = Node(t, Ancestor(b, level, m, s - 1))
        BY <4>1
      <4> HIDE DEF g
      <4> QED BY <1>4, <3>2, <4>1, <4>2
    <3> QED BY <3>1, <3>2
  <2>2. g = [s \in 0 .. off |-> g[s]]
    OBVIOUS
  <2> HIDE DEF g
  <2> QED BY <2>1, <2>2, Zenon
<1>6. Equation(climb)
  <2> HIDE DEF Equation, g
  <2> QED BY <1>2, <1>5
<1> DEFINE S == {s \in 0 .. off : climb[s] = g[s]}
<1>7. 0 \in S
  BY <1>1, <1>3, <1>6
<1>8. \A s \in 0 .. off - 1 : s \in S => s + 1 \in S
  <2> TAKE s \in 0 .. off - 1
  <2> HAVE s \in S
  <2>1. s + 1 \in 1 .. off /\ s + 1 \in 0 .. off /\ (s + 1) - 1 = s /\ s + 1 # 0 /\ s \in 0 .. off
    BY <1>1
  <2>2. climb[s + 1] = Combine(stack[(s + 1) - 1], climb[(s + 1) - 1], t, r \div 2 ^ (s + 1))
    BY <1>6, <2>1, Zenon
  <2>3. climb[s] = Node(t, Ancestor(b, level, m, s))
    BY <2>1
  <2>4. g[s + 1] = Node(t, Ancestor(b, level, m, s + 1))
    BY <2>1
  <2> HIDE DEF g, Equation
  <2> QED BY <1>4, <2>1, <2>2, <2>3, <2>4
<1>9. \A s \in 0 .. off : s \in S
  <2> HIDE DEF S
  <2> QED BY <1>1, <1>7, <1>8, InductionUpTo
<1>10. climb = g
  <2>1. climb = [s \in 0 .. off |-> climb[s]]
    BY <1>6
  <2>2. \A s \in 0 .. off : climb[s] = g[s]
    BY <1>9, Zenon
  <2> QED BY <2>1, <2>2
<1> QED BY <1>10 DEF climb, off, Ancestors

\* What the stack holds when the nodes completed by leaf m are on it.
LEMMA StackedNext ==
  ASSUME NEW level \in 0 .. 30, NEW m \in 0 .. 2 ^ level - 1, NEW b \in Nat, NEW t,
         NEW stack, Stacked(stack, t, b, level, m), NEW after,
         after[TrailingOnes(m)] = Node(t, Ancestor(b, level, m, TrailingOnes(m))),
         \A s \in (0 .. level) \ {TrailingOnes(m)} : after[s] = stack[s]
  PROVE  Stacked(after, t, b, level, m + 1)
<1> DEFINE off == TrailingOnes(m)
<1>1. off \in 0 .. level /\ Trailing(m, off) /\ m \in Nat /\ off \in Nat /\ level \in Nat
  <2>1. off \in 0 .. level /\ Trailing(m, off)
    BY TrailingOnesFacts
  <2>2. level \in Nat /\ m \in Nat
    BY LeafIsNat
  <2> HIDE DEF off
  <2>3. off \in Nat
    BY <2>1, <2>2
  <2> QED BY <2>1, <2>2, <2>3
<1>2. /\ (m + 1) \div 2 ^ off = m \div 2 ^ off + 1
      /\ \A s \in 0 .. off - 1 : Bit(m + 1, s) = 0
      /\ \A s \in Nat : s > off => (m + 1) \div 2 ^ s = m \div 2 ^ s
  BY <1>1, Carry
<1> HIDE DEF off
<1>3. ASSUME NEW s \in 0 .. level, Bit(m + 1, s) = 1
      PROVE  after[s] = Node(t, Ancestor(b, level, m + 1, s) - 1)
  <2>1. s \in 0 .. off - 1 \/ s = off \/ (s \in Nat /\ s > off)
    BY <1>1
  <2>2. CASE s \in 0 .. off - 1
    BY <1>2, <1>3, <2>2
  <2>3. CASE s = off
    <3>1. Ancestor(b, level, m, s) \in Nat /\ m \div 2 ^ s \in Nat
      <4>1. Ancestor(b, level, m, s) \in Nat
        BY <1>1, AncestorFacts
      <4>2. m \div 2 ^ s \in Nat
        BY <1>1, BitFacts
      <4> QED BY <4>1, <4>2
    <3>2. 2 ^ (level - s) * b \in Nat
      <4>1. level - s \in Nat
        OBVIOUS
      <4> DEFINE k == 2 ^ (level - s)
      <4>2. k \in Nat
        BY <4>1, PowerNat
      <4> HIDE DEF k
      <4>3. k * b \in Nat
        BY <4>2
      <4> QED BY <4>3 DEF k
    <3>3. Ancestor(b, level, m + 1, s) = Ancestor(b, level, m, s) + 1
      <4> DEFINE x == 2 ^ (level - s) * b
                 y == m \div 2 ^ s
      <4>1. Ancestor(b, level, m + 1, s) = x + (y + 1) /\ Ancestor(b, level, m, s) = x + y
        BY <1>2, <2>3 DEF Ancestor
      <4>2. x \in Nat /\ y \in Nat
        BY <3>1, <3>2
      <4> HIDE DEF x, y
      <4> QED BY <4>1, <4>2
    <3>4. Ancestor(b, level, m + 1, s) - 1 = Ancestor(b, level, m, s)
      BY <3>1, <3>3
    <3> QED BY <2>3, <3>4 DEF off
  <2>4. CASE s \in Nat /\ s > off
    <3>1. (m + 1) \div 2 ^ s = m \div 2 ^ s
      BY <1>2, <2>4
    <3>2. Bit(m, s) = 1 /\ Ancestor(b, level, m + 1, s) = Ancestor(b, level, m, s)
      BY <1>3, <3>1 DEF Bit, Ancestor
    <3>3. after[s] = stack[s]
      BY <1>1, <2>4 DEF off
    <3> QED BY <3>2, <3>3 DEF Stacked
  <2> QED BY <2>1, <2>2, <2>3, <2>4
<1> QED BY <1>3 DEF Stacked

\* At the beginning there is nothing to hold; after the last leaf there is node b.
LEMMA StackedEnds ==
  ASSUME NEW level \in Nat, NEW b \in Nat, NEW t, NEW stack
  PROVE  /\ Stacked(stack, t, b, level, 0)
         /\ Stacked(stack, t, b, level, 2 ^ level) => stack[level] = Node(t, b)
<1>1. \A s \in 0 .. level : Bit(0, s) = 0
  <2> TAKE s \in 0 .. level
  <2>1. 2 ^ s \in Nat /\ 2 ^ s >= 1
    BY PowerPositive
  <2>2. 0 \in 0 .. 2 ^ s - 1
    BY <2>1
  <2> QED BY <2>2, BitAbove
<1> DEFINE a == 2 ^ level
<1>2. a \in Nat /\ a > 0
  BY PowerPositive
<1>3. a \div a = 1
  <2> HIDE DEF a
  <2>1. a = a * 1 + 0 /\ a \in Int /\ 0 \in 0 .. a - 1
    BY <1>2
  <2> QED BY <1>2, <2>1, DivModUnique
<1>4. Bit(a, level) = 1
  <2>1. Bit(a, level) = (a \div a) % 2
    BY DEF Bit
  <2> HIDE DEF a
  <2> QED BY <1>3, <2>1
<1>5. Ancestor(b, level, a, level) - 1 = b
  <2>1. level - level = 0
    OBVIOUS
  <2>2. 2 ^ (level - level) * b = b
    BY <2>1, PowerZero
  <2> QED BY <1>3, <2>2 DEF Ancestor
<1>6. level \in 0 .. level
  OBVIOUS
<1> HIDE DEF a
<1>7. Stacked(stack, t, b, level, a) => stack[level] = Node(t, b)
  BY <1>4, <1>5, <1>6 DEF Stacked
<1> QED BY <1>1, <1>7 DEF Stacked, a

\* hss_compute_internal_node returns the node it was asked for.
LEMMA ComputedRight ==
  ASSUME NEW h \in 0 .. 30, NEW l \in 0 .. h, NEW n \in 2 ^ l .. 2 * 2 ^ l - 1, NEW t
  PROVE  ComputeInternalNode(t, h, n) = Node(t, n)
<1> DEFINE d == h - l
           leaves == 2 ^ d
           first == n * 2 ^ d
<1>1. /\ d \in 0 .. 30 /\ d \in 0 .. h /\ d \in Nat /\ h \in Nat /\ l \in Nat /\ l + d = h
      /\ leaves \in Nat /\ leaves >= 1 /\ n \in Nat
  <2>1. h \in Nat /\ l \in Nat /\ d \in Nat /\ d \in 0 .. 30 /\ d \in 0 .. h /\ l + d = h
    OBVIOUS
  <2>2. leaves \in Nat /\ leaves >= 1 /\ 2 ^ l \in Nat
    BY <2>1, PowerPositive
  <2> HIDE DEF d, leaves
  <2>3. n \in Nat
    BY <2>2
  <2> QED BY <2>1, <2>2, <2>3
<1>2. 2 ^ l \in Nat /\ 2 ^ l >= 1 /\ 2 ^ h = 2 ^ l * leaves
  <2>1. 2 ^ (l + d) = 2 ^ l * 2 ^ d
    <3> HIDE DEF d
    <3> QED BY <1>1, PowerSum
  <2>2. l + d = h
    BY <1>1
  <2>3. 2 ^ l \in Nat /\ 2 ^ l >= 1
    BY <1>1, PowerPositive
  <2> QED BY <2>1, <2>2, <2>3
<1> HIDE DEF d
<1>3. Min({k \in 0 .. h : n * 2 ^ k >= 2 ^ h}) = d
  <2> DEFINE T == {k \in 0 .. h : n * 2 ^ k >= 2 ^ h}
  <2>1. d \in T
    <3>1. n * leaves >= 2 ^ l * leaves
      <4> DEFINE x == 2 ^ l
      <4>1. n >= x /\ x \in Nat
        BY <1>2
      <4> HIDE DEF x, leaves
      <4>2. n * leaves >= x * leaves
        <5>1. (n - x) * leaves >= 0
          BY <1>1, <4>1
        <5>2. n * leaves = x * leaves + (n - x) * leaves
          BY <1>1, <4>1
        <5> QED BY <1>1, <4>1, <5>1, <5>2
      <4> QED BY <4>2 DEF x
    <3> QED BY <1>1, <1>2, <3>1
  <2>2. ASSUME NEW k \in T
        PROVE  d <= k
    <3>1. k \in 0 .. h /\ k \in Nat /\ n * 2 ^ k >= 2 ^ h
      BY <1>1
    <3>2. SUFFICES ASSUME k < d PROVE FALSE
      BY <1>1, <3>1
    <3>3. 2 * 2 ^ k <= leaves /\ 2 ^ k \in Nat /\ 2 ^ k >= 1
      BY <1>1, <3>1, <3>2, PowerMonotone, PowerPositive
    <3> DEFINE x == 2 ^ l
               y == 2 ^ k
    <3>4. n <= 2 * x - 1 /\ x \in Nat /\ n * y >= x * leaves
      BY <1>2, <3>1
    <3>5. 2 * y <= leaves /\ y \in Nat /\ y >= 1
      BY <3>3
    <3> HIDE DEF x, y, leaves, T
    <3>6. n * y <= (2 * x - 1) * y
      <4>1. (2 * x - 1 - n) * y >= 0
        BY <1>1, <3>4, <3>5
      <4>2. (2 * x - 1) * y = n * y + (2 * x - 1 - n) * y
        BY <1>1, <3>4, <3>5
      <4> QED BY <1>1, <3>4, <3>5, <4>1, <4>2
    <3>7. (2 * x - 1) * y = x * (2 * y) - y
      BY <3>4, <3>5
    <3>8. x * (2 * y) <= x * leaves
      <4>1. x * (leaves - 2 * y) >= 0
        BY <1>1, <3>4, <3>5
      <4>2. x * leaves = x * (2 * y) + x * (leaves - 2 * y)
        BY <1>1, <3>4, <3>5
      <4> QED BY <1>1, <3>4, <3>5, <4>1, <4>2
    <3>9. n * y \in Int /\ x * (2 * y) \in Int /\ x * leaves \in Int
      BY <1>1, <3>4, <3>5
    <3> QED BY <3>4, <3>5, <3>6, <3>7, <3>8, <3>9
  <2>3. T \in SUBSET Nat
    <3>1. T \subseteq 0 .. h
      OBVIOUS
    <3> HIDE DEF T
    <3> QED BY <1>1, <3>1
  <2> HIDE DEF T
  <2>4. Min(T) \in T /\ \A y \in T : Min(T) <= y
    BY <2>1, <2>3, MinFacts
  <2>5. Min(T) = d
    <3>1. Min(T) <= d /\ d <= Min(T)
      BY <2>1, <2>2, <2>4
    <3>2. Min(T) \in Nat
      BY <2>3, <2>4
    <3> QED BY <1>1, <3>1, <3>2
  <2> QED BY <2>5 DEF T
<1> DEFINE top(v, i) == Climb(v, Leaf(t, h, first + i, first - 2 ^ h + i), t, first + i,
                              TrailingOnes(i))[TrailingOnes(i)]
           Vals == {Node(t, k) : k \in Nat} \cup {Junk}
           V == [0 .. h -> Vals]
           a == [s \in 0 .. h |-> Junk]
           Pushed(v, i) == [v EXCEPT ![TrailingOnes(i)] = top(v, i)]
           Equation(f) == f = [i \in 0 .. leaves |-> IF i = 0 THEN a ELSE Pushed(f[i - 1], i - 1)]
<1>4. ComputeInternalNode(t, h, n) = (CHOOSE f : Equation(f))[leaves][d]
  BY <1>3, Zenon DEF ComputeInternalNode
<1>5. first \in Nat /\ first = 2 ^ d * n
  <2> HIDE DEF leaves
  <2>1. n * leaves = leaves * n /\ n * leaves \in Nat
    BY <1>1
  <2> QED BY <2>1 DEF leaves
<1>6. ASSUME NEW i \in 0 .. leaves - 1, NEW v, Stacked(v, t, n, d, i)
      PROVE  /\ TrailingOnes(i) \in 0 .. h
             /\ top(v, i) = Node(t, Ancestor(n, d, i, TrailingOnes(i)))
             /\ top(v, i) \in Vals
  <2> DEFINE off == TrailingOnes(i)
             r == first + i
  <2>0. d \in 0 .. 30 /\ i \in 0 .. 2 ^ d - 1
    BY <1>1
  <2>1. off \in 0 .. d /\ i \in Nat
    BY <2>0, TrailingOnesFacts, LeafIsNat
  <2> HIDE DEF off
  <2>2. Leaf(t, h, r, first - 2 ^ h + i) = Node(t, r)
    <3> DEFINE x == 2 ^ h
    <3>1. x \in Nat
      BY <1>1, PowerNat
    <3> HIDE DEF first, x
    <3>2. first + i = x + (first - x + i)
      BY <1>5, <2>1, <3>1
    <3> QED BY <3>2 DEF Leaf, x
  <2>3. Climb(v, Node(t, r), t, r, off) = Ancestors(t, n, d, i, off)
    <3>1. first + i = 2 ^ d * n + i
      BY <1>5
    <3>2. n \in Nat /\ Stacked(v, t, n, d, i)
      BY <1>1, <1>6
    <3>3. ClimbsRight(v, t, n, d, i)
      BY <2>0, <3>2, ClimbRight
    <3> HIDE DEF first, leaves, top
    <3>4. Climb(v, Node(t, first + i), t, first + i, TrailingOnes(i))
            = Ancestors(t, n, d, i, TrailingOnes(i))
      BY <3>1, <3>3, Zenon DEF ClimbsRight
    <3> QED BY <3>4, Zenon DEF off, r
  <2>4. top(v, i) = Node(t, Ancestor(n, d, i, off))
    <3>1. top(v, i) = Climb(v, Node(t, r), t, r, off)[off]
      BY <2>2 DEF off
    <3>2. off \in 0 .. off
      BY <2>1
    <3> HIDE DEF top, r, first
    <3> QED BY <2>3, <3>1, <3>2 DEF Ancestors
  <2>5. Ancestor(n, d, i, off) \in Nat
    BY <1>1, <2>1, AncestorFacts
  <2>6. off \in 0 .. h
    BY <1>1, <2>1
  <2> HIDE DEF top
  <2> QED BY <2>4, <2>5, <2>6 DEF off
<1> HIDE DEF top, first
<1> DEFINE F == [i \in 1 .. leaves |->
                   [v \in V |-> IF TrailingOnes(i - 1) \in 0 .. h /\ top(v, i - 1) \in Vals
                                THEN Pushed(v, i - 1) ELSE v]]
<1>7. a \in V /\ F \in Steps(leaves, V)
  <2>1. Junk \in Vals
    OBVIOUS
  <2>2. ASSUME NEW v \in V, NEW i, TrailingOnes(i) \in 0 .. h, top(v, i) \in Vals
        PROVE  Pushed(v, i) \in V
    <3> HIDE DEF Vals
    <3> QED BY <2>2
  <2> HIDE DEF Vals, Pushed
  <2>3. a \in V
    BY <2>1
  <2> HIDE DEF V, a
  <2>4. F \in Steps(leaves, V)
    BY <2>2 DEF Steps
  <2> QED BY <2>3, <2>4
<1>8. PICK g : Follows(g, leaves, V, a, F)
  <2> HIDE DEF V, F, a, leaves
  <2> QED BY <1>1, <1>7, Recursion
<1>9. g \in [0 .. leaves -> V] /\ g[0] = a
  BY <1>8 DEF Follows
<1> HIDE DEF Vals
<1>10. ASSUME NEW i \in 0 .. leaves - 1, Stacked(g[i], t, n, d, i)
       PROVE  g[i + 1] = Pushed(g[i], i) /\ Stacked(g[i + 1], t, n, d, i + 1)
  <2>1. i \in 0 .. leaves /\ i + 1 \in 1 .. leaves /\ (i + 1) - 1 = i
    BY <1>1
  <2> HIDE DEF leaves
  <2>2. TrailingOnes(i) \in 0 .. h /\ top(g[i], i) = Node(t, Ancestor(n, d, i, TrailingOnes(i)))
        /\ top(g[i], i) \in Vals
    BY <1>6, <1>10
  <2>3. g[i] \in V
    BY <1>9, <2>1
  <2>4. g[i + 1] = F[i + 1][g[(i + 1) - 1]]
    BY <1>8, <2>1 DEF Follows
  <2>5. g[i + 1] = Pushed(g[i], i)
    <3> HIDE DEF Pushed, V
    <3> QED BY <2>1, <2>2, <2>3, <2>4
  <2>6. /\ Pushed(g[i], i)[TrailingOnes(i)] = Node(t, Ancestor(n, d, i, TrailingOnes(i)))
        /\ \A s \in (0 .. d) \ {TrailingOnes(i)} : Pushed(g[i], i)[s] = g[i][s]
    <3>1. DOMAIN g[i] = 0 .. h
      BY <2>3
    <3> QED BY <1>1, <2>2, <3>1
  <2> HIDE DEF Pushed
  <2>7. Stacked(Pushed(g[i], i), t, n, d, i + 1)
    BY <1>1, <1>10, <2>6, StackedNext DEF leaves
  <2> QED BY <2>5, <2>7
<1> DEFINE S == {i \in 0 .. leaves : Stacked(g[i], t, n, d, i)}
<1>11. \A i \in 0 .. leaves : i \in S
  <2>1. 0 \in S
    BY <1>1, StackedEnds
  <2>2. \A i \in 0 .. leaves - 1 : i \in S => i + 1 \in S
    <3> HIDE DEF Pushed, leaves
    <3> QED BY <1>1, <1>10
  <2> HIDE DEF S, leaves
  <2> QED BY <1>1, <2>1, <2>2, InductionUpTo
<1>12. \A i \in 1 .. leaves : g[i] = Pushed(g[i - 1], i - 1)
  <2> TAKE i \in 1 .. leaves
  <2>1. i - 1 \in 0 .. leaves - 1 /\ i - 1 \in 0 .. leaves /\ (i - 1) + 1 = i
    BY <1>1
  <2> HIDE DEF Pushed, leaves
  <2>2. Stacked(g[i - 1], t, n, d, i - 1)
    BY <1>11, <2>1
  <2> QED BY <1>10, <2>1, <2>2
<1>13. Equation(g)
  <2>1. g = [i \in 0 .. leaves |-> g[i]]
    BY <1>9
  <2>2. ASSUME NEW i \in 0 .. leaves
        PROVE  g[i] = IF i = 0 THEN a ELSE Pushed(g[i - 1], i - 1)
    <3>1. i # 0 => i \in 1 .. leaves
      BY <1>1
    <3> HIDE DEF Pushed, leaves, a
    <3> QED BY <1>9, <1>12, <3>1
  <2> HIDE DEF Pushed, leaves, a
  <2> QED BY <2>1, <2>2, Zenon
<1> DEFINE f == CHOOSE x : Equation(x)
<1>14. Equation(f)
  <2> HIDE DEF Equation
  <2> QED BY <1>13
<1> HIDE DEF f
<1>15. \A i \in 0 .. leaves : f[i] = g[i]
  <2> DEFINE E == {i \in 0 .. leaves : f[i] = g[i]}
  <2>1. 0 \in E
    <3> HIDE DEF Pushed, a
    <3>1. 0 \in 0 .. leaves
      BY <1>1
    <3>2. f[0] = a
      BY <1>14, <3>1, Zenon
    <3> QED BY <1>9, <3>1, <3>2
  <2>2. \A i \in 0 .. leaves - 1 : i \in E => i + 1 \in E
    <3> TAKE i \in 0 .. leaves - 1
    <3> HAVE i \in E
    <3>1. i + 1 \in 0 .. leaves /\ i + 1 \in 1 .. leaves /\ i + 1 # 0 /\ (i + 1) - 1 = i
      BY <1>1
    <3> HIDE DEF Pushed, a, leaves
    <3>2. f[i + 1] = Pushed(f[(i + 1) - 1], (i + 1) - 1)
      BY <1>14, <3>1, Zenon
    <3>3. g[i + 1] = Pushed(g[(i + 1) - 1], (i + 1) - 1)
      BY <1>12, <3>1
    <3> QED BY <3>1, <3>2, <3>3
  <2> HIDE DEF E, leaves
  <2>3. \A i \in 0 .. leaves : i \in E
    BY <1>1, <2>1, <2>2, InductionUpTo
  <2> QED BY <2>3 DEF E
<1>16. g[leaves][d] = Node(t, n)
  <2>1. leaves \in 0 .. leaves
    BY <1>1
  <2>2. Stacked(g[leaves], t, n, d, leaves)
    BY <1>11, <2>1
  <2> QED BY <1>1, <2>2, StackedEnds
<1>17. leaves \in 0 .. leaves
  BY <1>1
<1> QED BY <1>4, <1>15, <1>16, <1>17 DEF f

-----------------------------------------------------------------------------
(* The combination of nodes level by level. *)

\* hash_subtree returns the node above the nodes it was given.
LEMMA HashedRight ==
  ASSUME NEW deep \in Nat, NEW n \in Nat, NEW t, NEW hashes,
         \A k \in 0 .. 2 ^ deep - 1 : hashes[k] = Node(t, n * 2 ^ deep + k)
  PROVE  HashSubtree(hashes, deep, t, n) = Node(t, n)
<1> DEFINE Size2(s) == 2 ^ (deep - s)
           RowRight(row, s) == \A i \in 0 .. Size2(s) - 1 : row[i] = Node(t, n * Size2(s) + i)
           Above(row, s) == [i \in 0 .. Size2(s) - 1 |->
                               Combine(row[2 * i], row[2 * i + 1], t, n * Size2(s) + i)]
           Equation(f) == f = [s \in 0 .. deep |-> IF s = 0 THEN hashes ELSE Above(f[s - 1], s)]
           g == [s \in 0 .. deep |-> IF s = 0 THEN hashes
                                     ELSE [i \in 0 .. Size2(s) - 1 |-> Node(t, n * Size2(s) + i)]]
<1>1. HashSubtree(hashes, deep, t, n) = (CHOOSE f : Equation(f))[deep][0]
  BY Zenon DEF HashSubtree
<1>2. \A s \in 0 .. deep : Size2(s) \in Nat /\ Size2(s) >= 1
  <2> TAKE s \in 0 .. deep
  <2>1. deep - s \in Nat
    OBVIOUS
  <2> QED BY <2>1, PowerPositive
<1>3. \A s \in 1 .. deep : Size2(s - 1) = 2 * Size2(s)
  <2> TAKE s \in 1 .. deep
  <2>1. deep - s \in Nat /\ deep - (s - 1) = (deep - s) + 1
    OBVIOUS
  <2> QED BY <2>1, PowerStep
<1>4. Size2(0) = 2 ^ deep /\ Size2(deep) = 1
  <2>1. deep - 0 = deep /\ deep - deep = 0
    OBVIOUS
  <2> QED BY <2>1, PowerZero
<1> HIDE DEF Size2
<1>5. ASSUME NEW s \in 1 .. deep, NEW row, RowRight(row, s - 1)
      PROVE  RowRight(Above(row, s), s)
  <2>1. ASSUME NEW i \in 0 .. Size2(s) - 1
        PROVE  Combine(row[2 * i], row[2 * i + 1], t, n * Size2(s) + i) = Node(t, n * Size2(s) + i)
    <3>1. Size2(s) \in Nat /\ Size2(s - 1) = 2 * Size2(s)
      BY <1>2, <1>3
    <3>2. 2 * i \in 0 .. Size2(s - 1) - 1 /\ 2 * i + 1 \in 0 .. Size2(s - 1) - 1
      BY <3>1
    <3>3. row[2 * i] = Node(t, n * Size2(s - 1) + 2 * i)
          /\ row[2 * i + 1] = Node(t, n * Size2(s - 1) + (2 * i + 1))
      BY <1>5, <3>2
    <3> DEFINE x == n * Size2(s)
    <3>4. n * Size2(s - 1) = 2 * x /\ x \in Int
      BY <3>1
    <3> HIDE DEF x
    <3>5. n * Size2(s - 1) + 2 * i = 2 * (x + i) /\ n * Size2(s - 1) + (2 * i + 1) = 2 * (x + i) + 1
      BY <3>4
    <3>6. Combine(row[2 * i], row[2 * i + 1], t, x + i) = Node(t, x + i)
      BY <3>3, <3>5 DEF Combine
    <3> QED BY <3>6 DEF x
  <2> QED BY <2>1
<1>6. RowRight(hashes, 0)
  BY <1>4
<1> HIDE DEF RowRight
<1>7. \A s \in 0 .. deep : RowRight(g[s], s)
  <2> TAKE s \in 0 .. deep
  <2>1. CASE s = 0
    BY <1>6, <2>1
  <2>2. CASE s # 0
    <3>1. g[s] = [i \in 0 .. Size2(s) - 1 |-> Node(t, n * Size2(s) + i)]
      BY <2>2
    <3> HIDE DEF g
    <3> QED BY <3>1 DEF RowRight
  <2> QED BY <2>1, <2>2
<1>8. Equation(g)
  <2>1. ASSUME NEW s \in 0 .. deep
        PROVE  g[s] = IF s = 0 THEN hashes ELSE Above(g[s - 1], s)
    <3>1. CASE s = 0
      BY <3>1
    <3>2. CASE s # 0
      <4>1. s \in 1 .. deep /\ s - 1 \in 0 .. deep
        BY <3>2
      <4>2. RowRight(g[s - 1], s - 1)
        BY <1>7, <4>1
      <4>3. g[s] = [i \in 0 .. Size2(s) - 1 |-> Node(t, n * Size2(s) + i)]
        BY <3>2
      <4> HIDE DEF g
      <4>4. RowRight(Above(g[s - 1], s), s)
        BY <1>5, <4>1, <4>2
      <4>5. Above(g[s - 1], s) = [i \in 0 .. Size2(s) - 1 |-> Above(g[s - 1], s)[i]]
        OBVIOUS
      <4> HIDE DEF Above
      <4>6. \A i \in 0 .. Size2(s) - 1 : Above(g[s - 1], s)[i] = Node(t, n * Size2(s) + i)
        BY <4>4 DEF RowRight
      <4>7. Above(g[s - 1], s) = g[s]
        BY <4>3, <4>5, <4>6
      <4> QED BY <3>2, <4>7
    <3> QED BY <3>1, <3>2
  <2>2. g = [s \in 0 .. deep |-> g[s]]
    OBVIOUS
  <2> HIDE DEF g, Above
  <2> QED BY <2>1, <2>2, Zenon
<1> DEFINE f == CHOOSE x : Equation(x)
<1>9. Equation(f)
  <2> HIDE DEF Equation, g
  <2> QED BY <1>8
<1> HIDE DEF f, g, Above
<1> DEFINE S == {s \in 0 .. deep : RowRight(f[s], s)}
<1>10. 0 \in S
  <2>1. 0 \in 0 .. deep /\ f[0] = hashes
    BY <1>9
  <2> QED BY <1>6, <2>1
<1>11. \A s \in 0 .. deep - 1 : s \in S => s + 1 \in S
  <2> TAKE s \in 0 .. deep - 1
  <2> HAVE s \in S
  <2>1. s + 1 \in 0 .. deep /\ s + 1 \in 1 .. deep /\ s + 1 # 0 /\ (s + 1) - 1 = s
    OBVIOUS
  <2>2. f[s + 1] = Above(f[(s + 1) - 1], s + 1)
    BY <1>9, <2>1, Zenon
  <2>3. RowRight(f[(s + 1) - 1], (s + 1) - 1)
    BY <2>1
  <2>4. RowRight(Above(f[(s + 1) - 1], s + 1), s + 1)
    BY <1>5, <2>1, <2>3
  <2> QED BY <2>1, <2>2, <2>4
<1>12. RowRight(f[deep], deep)
  <2>1. deep \in 0 .. deep
    OBVIOUS
  <2> HIDE DEF S
  <2>2. deep \in S
    BY <1>10, <1>11, <2>1, InductionUpTo
  <2> QED BY <2>2 DEF S
<1>13. f[deep][0] = Node(t, n)
  <2>1. 0 \in 0 .. Size2(deep) - 1 /\ n * Size2(deep) + 0 = n
    BY <1>4
  <2>2. f[deep][0] = Node(t, n * Size2(deep) + 0)
    BY <1>12, <2>1 DEF RowRight
  <2> QED BY <2>1, <2>2
<1> QED BY <1>1, <1>13 DEF f

\* A quotient is bounded as its dividend is.
LEMMA QuotientBound ==
  ASSUME NEW d \in Nat, d > 0, NEW k \in Nat, NEW c \in 0 .. d * k
  PROVE  c \div d \in 0 .. k
<1> DEFINE q == c \div d
           r == c % d
<1>1. d * k \in Nat
  OBVIOUS
<1>2. c \in Nat
  BY <1>1
<1>3. q \in Nat /\ r \in 0 .. d - 1 /\ c = d * q + r
  BY <1>2, DivMod
<1> HIDE DEF q, r
<1>4. SUFFICES ASSUME q > k PROVE FALSE
  BY <1>3 DEF q
<1>5. d * q = d * k + d + d * (q - k - 1) /\ d * (q - k - 1) >= 0
  BY <1>3, <1>4
<1>6. d * q \in Int /\ d * (q - k - 1) \in Int
  BY <1>3
<1> QED BY <1>1, <1>3, <1>5, <1>6

\* The right nodes up to the level s above the bottom of a subtree of height h, above
\* the first count bottom nodes, of which the leftmost is node number n.
RowsRight(nodes, h, count, t, n, s) ==
  \A r \in 0 .. s : \A i \in 0 .. count \div 2 ^ r - 1 :
    nodes[RowStart(h, r) + i] = Node(t, n \div 2 ^ r + i)

\* How the rows of a subtree lie in its array.
LEMMA RowFacts ==
  ASSUME NEW h \in Nat, NEW count \in 0 .. 2 ^ h, NEW s \in 0 .. h
  PROVE  /\ RowStart(h, s) \in Nat
         /\ count \div 2 ^ s \in Nat
         /\ \A i \in 0 .. count \div 2 ^ s - 1 :
              RowStart(h, s) + i \in 0 .. 2 ^ (h + 1) - 2
         /\ \A r \in 0 .. s - 1 : \A i \in 0 .. count \div 2 ^ r - 1 :
              (RowStart(h, r) + i) - RowStart(h, s) \notin 0 .. count \div 2 ^ s - 1
<1>1. \A r \in 0 .. h : /\ h - r \in Nat /\ 2 ^ (h - r) \in Nat /\ 2 ^ (h - r) >= 1
                        /\ count \div 2 ^ r \in 0 .. 2 ^ (h - r)
  <2> TAKE r \in 0 .. h
  <2>1. r \in Nat /\ h - r \in Nat /\ 2 ^ h = 2 ^ r * 2 ^ (h - r)
    BY PowerQuotient
  <2>2. 2 ^ r \in Nat /\ 2 ^ r > 0 /\ 2 ^ (h - r) \in Nat /\ 2 ^ (h - r) >= 1
    BY <2>1, PowerPositive
  <2>3. count \in 0 .. 2 ^ r * 2 ^ (h - r)
    BY <2>1
  <2>4. count \div 2 ^ r \in 0 .. 2 ^ (h - r)
    BY <2>2, <2>3, QuotientBound
  <2> QED BY <2>1, <2>2, <2>4
<1> DEFINE A == 2 ^ (h - s)
           c == count \div 2 ^ s
<1>2. A \in Nat /\ A >= 1 /\ c \in 0 .. A /\ RowStart(h, s) = A - 1
  BY <1>1 DEF RowStart
<1> DEFINE E == 2 ^ h
<1>3. E \in Nat /\ A <= E /\ 2 ^ (h + 1) = 2 * E
  <2>1. h - s \in Nat /\ h - s <= h
    OBVIOUS
  <2> QED BY <2>1, PowerMonotone, PowerStep, PowerNat
<1>4. ASSUME NEW r \in 0 .. s - 1, NEW i \in 0 .. count \div 2 ^ r - 1
      PROVE  (RowStart(h, r) + i) - RowStart(h, s) \notin 0 .. c - 1
  <2> DEFINE B == 2 ^ (h - r)
  <2>1. h - s \in Nat /\ h - r \in Nat /\ h - s < h - r /\ r \in 0 .. h
    OBVIOUS
  <2>2. 2 * A <= B
    BY <2>1, PowerMonotone
  <2>3. B \in Nat /\ RowStart(h, r) = B - 1
    BY <2>1, PowerNat DEF RowStart
  <2>4. i \in Nat
    <3>1. count \div 2 ^ r \in Nat
      BY <1>1, <2>1
    <3> QED BY <3>1
  <2> HIDE DEF A, B, c
  <2> QED BY <1>2, <2>2, <2>3, <2>4
<1>5. \A i \in 0 .. c - 1 : RowStart(h, s) + i \in 0 .. 2 * E - 2
  <2> HIDE DEF A, E, c
  <2> QED BY <1>2, <1>3
<1> HIDE DEF A, E
<1>6. RowStart(h, s) \in Nat /\ c \in Nat
  <2> HIDE DEF c
  <2> QED BY <1>2
<1> QED BY <1>3, <1>4, <1>5, <1>6 DEF c

\* The two children of a node, counted from the left of their row.
LEMMA Pairs ==
  /\ \A c \in Nat : \A i \in 0 .. (c \div 2) - 1 : 2 * i \in 0 .. c - 1 /\ 2 * i + 1 \in 0 .. c - 1
  /\ \A p, m, i \in Nat : /\ p + (2 * i + 1) = p + 2 * i + 1
                         /\ 2 * m + 2 * i = 2 * (m + i)
                         /\ 2 * m + (2 * i + 1) = 2 * (m + i) + 1
<1>1. ASSUME NEW c \in Nat, NEW i \in 0 .. (c \div 2) - 1
      PROVE  2 * i \in 0 .. c - 1 /\ 2 * i + 1 \in 0 .. c - 1
  <2>1. c \div 2 \in Nat /\ 2 * (c \div 2) <= c
    OBVIOUS
  <2> QED BY <2>1
<1> QED BY <1>1

\* An array with a place for each node of a subtree of height h.
IsArray(nodes, h) == nodes = [x \in 0 .. 2 ^ (h + 1) - 2 |-> nodes[x]]

\* From right bottom nodes fill_subtree computes the right nodes above them.
LEMMA FilledRight ==
  ASSUME NEW h \in Nat, NEW count \in 0 .. 2 ^ h, NEW t, NEW k \in Nat, NEW n, n = 2 ^ h * k,
         NEW nodes, IsArray(nodes, h), RowsRight(nodes, h, count, t, n, 0)
  PROVE  /\ RowsRight(FillSubtree(nodes, h, count, t, n), h, count, t, n, h)
         /\ IsArray(FillSubtree(nodes, h, count, t, n), h)
<1> USE DEF IsArray
<1> DEFINE D == 0 .. 2 ^ (h + 1) - 2
           Filled(v, s) == [x \in D |->
             IF x - RowStart(h, s) \in 0 .. count \div 2 ^ s - 1
             THEN Combine(v[RowStart(h, s - 1) + 2 * (x - RowStart(h, s))],
                          v[RowStart(h, s - 1) + 2 * (x - RowStart(h, s)) + 1],
                          t, n \div 2 ^ s + (x - RowStart(h, s)))
             ELSE v[x]]
           Equation(f) == f = [s \in 0 .. h |-> IF s = 0 THEN nodes ELSE Filled(f[s - 1], s)]
<1>0. n \in Nat /\ \A s \in 0 .. h : n \div 2 ^ s \in Nat
  <2>1. 2 ^ h \in Nat
    BY PowerNat
  <2>2. n \in Nat
    BY <2>1
  <2>3. ASSUME NEW s \in 0 .. h PROVE n \div 2 ^ s \in Nat
    <3>1. s \in Nat
      OBVIOUS
    <3> QED BY <2>2, <3>1, BitFacts
  <2> QED BY <2>2, <2>3
<1>1. CASE count <= 1
  <2>1. FillSubtree(nodes, h, count, t, n) = nodes
    BY <1>1 DEF FillSubtree
  <2>2. ASSUME NEW s \in 1 .. h
        PROVE  count \div 2 ^ s = 0
    <3>1. s \in Nat /\ 2 ^ s \in Nat /\ 2 ^ s >= 2
      <4> DEFINE u == s - 1
      <4>1. u \in Nat /\ u + 1 = s
        OBVIOUS
      <4> HIDE DEF u
      <4>2. 2 ^ (u + 1) = 2 * 2 ^ u /\ 2 ^ u \in Nat /\ 2 ^ u >= 1
        BY <4>1, PowerStep, PowerPositive
      <4>3. 2 ^ (u + 1) \in Nat /\ 2 ^ (u + 1) >= 2
        BY <4>2
      <4> QED BY <4>1, <4>3
    <3>2. count \in 0 .. 2 ^ s - 1
      <4>1. 2 ^ h \in Nat
        BY PowerNat
      <4> QED BY <1>1, <3>1, <4>1
    <3> QED BY <3>1, <3>2, BitAbove
  <2>3. RowsRight(nodes, h, count, t, n, h)
    <3> SUFFICES ASSUME NEW r \in 0 .. h, NEW i \in 0 .. count \div 2 ^ r - 1
                 PROVE  nodes[RowStart(h, r) + i] = Node(t, n \div 2 ^ r + i)
      BY DEF RowsRight
    <3>1. r \in 1 .. h => count \div 2 ^ r = 0
      BY <2>2
    <3>2. r = 0
      BY <3>1
    <3>3. 0 \in 0 .. 0
      OBVIOUS
    <3>4. \A j \in 0 .. count \div 2 ^ 0 - 1 : nodes[RowStart(h, 0) + j] = Node(t, n \div 2 ^ 0 + j)
      BY <3>3, Zenon DEF RowsRight
    <3> QED BY <3>2, <3>4, Zenon
  <2> QED BY <2>1, <2>3
<1>2. CASE ~(count <= 1)
  <2>1. FillSubtree(nodes, h, count, t, n) = (CHOOSE f : Equation(f))[h]
    <3>1. DOMAIN nodes = D
      OBVIOUS
    <3> QED BY <1>2, <3>1, Zenon DEF FillSubtree
  <2> DEFINE Vals == {nodes[x] : x \in D} \cup {Node(t, m) : m \in Nat} \cup {Junk}
             V == [D -> Vals]
             F == [s \in 1 .. h |-> [v \in V |-> Filled(v, s)]]
  <2>2. \A l, r, m : m \in Nat => Combine(l, r, t, m) \in Vals
    BY DEF Combine
  <2>3. nodes \in V
    <3>1. \A x \in D : nodes[x] \in Vals
      OBVIOUS
    <3> HIDE DEF Vals
    <3> QED BY <3>1
  <2> HIDE DEF Vals
  <2>4. ASSUME NEW s \in 1 .. h, NEW v \in V
        PROVE  Filled(v, s) \in V
    <3>1. ASSUME NEW x \in D, x - RowStart(h, s) \in 0 .. count \div 2 ^ s - 1
          PROVE  n \div 2 ^ s + (x - RowStart(h, s)) \in Nat
      <4>1. n \div 2 ^ s \in Nat /\ x - RowStart(h, s) \in Nat
        BY <1>0, <3>1
      <4> QED BY <4>1
    <3>2. ASSUME NEW x \in D
          PROVE  Filled(v, s)[x] \in Vals
      BY <2>2, <3>1
    <3>3. Filled(v, s) = [x \in D |-> Filled(v, s)[x]]
      OBVIOUS
    <3> HIDE DEF Filled
    <3> QED BY <3>2, <3>3
  <2>5. F \in Steps(h, V)
    <3> HIDE DEF V, Filled
    <3> QED BY <2>4 DEF Steps
  <2>6. PICK g : Follows(g, h, V, nodes, F)
    <3> HIDE DEF V, F
    <3> QED BY <2>3, <2>5, Recursion
  <2>7. g \in [0 .. h -> V] /\ g[0] = nodes /\ \A s \in 1 .. h : g[s] = F[s][g[s - 1]]
    BY <2>6 DEF Follows
  <2>8. Equation(g)
    <3>1. ASSUME NEW s \in 0 .. h
          PROVE  g[s] = IF s = 0 THEN nodes ELSE Filled(g[s - 1], s)
      <4>1. s # 0 => s \in 1 .. h /\ s - 1 \in 0 .. h
        OBVIOUS
      <4> HIDE DEF Filled, V
      <4> QED BY <2>7, <4>1
    <3>2. g = [s \in 0 .. h |-> g[s]]
      BY <2>7
    <3> HIDE DEF Filled
    <3> QED BY <3>1, <3>2, Zenon
  <2> DEFINE f == CHOOSE x : Equation(x)
  <2>9. Equation(f)
    <3> HIDE DEF Equation
    <3> QED BY <2>8
  <2> HIDE DEF f
  <2>10. ASSUME NEW s \in 1 .. h, NEW v, RowsRight(v, h, count, t, n, s - 1)
         PROVE  RowsRight(Filled(v, s), h, count, t, n, s)
    <3> SUFFICES ASSUME NEW r \in 0 .. s, NEW i \in 0 .. count \div 2 ^ r - 1
                 PROVE  Filled(v, s)[RowStart(h, r) + i] = Node(t, n \div 2 ^ r + i)
      BY DEF RowsRight
    <3>1. s \in 0 .. h /\ r \in 0 .. h /\ s - 1 \in 0 .. h /\ s - 1 \in Nat /\ (s - 1) + 1 = s
      OBVIOUS
    <3> DEFINE x == RowStart(h, r) + i
    <3>2. RowStart(h, r) \in Nat /\ count \div 2 ^ r \in Nat /\ x \in D
      <4>1. /\ RowStart(h, r) \in Nat /\ count \div 2 ^ r \in Nat
            /\ \A z \in 0 .. count \div 2 ^ r - 1 : RowStart(h, r) + z \in D
        BY <3>1, RowFacts
      <4> QED BY <4>1
    <3>5. i \in Nat
      BY <3>2
    <3>3. CASE r = s
      <4> DEFINE c == count \div 2 ^ (s - 1)
                 p == RowStart(h, s - 1)
                 m == n \div 2 ^ s
      <4>1. x - RowStart(h, s) = i
        BY <3>2, <3>3, <3>5
      <4>2. Filled(v, s)[x] = Combine(v[p + 2 * i], v[p + 2 * i + 1], t, m + i)
        BY <3>2, <3>3, <4>1
      <4>3. c \in Nat /\ count \div 2 ^ s = c \div 2 /\ p \in Nat
        <5> DEFINE u == s - 1
        <5>1. u \in Nat /\ u + 1 = s
          OBVIOUS
        <5>2. count \in Nat
          <6>1. 2 ^ h \in Nat
            BY PowerNat
          <6> QED BY <6>1
        <5>3. p \in Nat /\ c \in Nat
          BY <3>1, RowFacts
        <5> HIDE DEF u
        <5>4. count \div 2 ^ (u + 1) = (count \div 2 ^ u) \div 2
          BY <5>1, <5>2, BitFacts
        <5> QED BY <5>1, <5>3, <5>4 DEF u
      <4>4. 2 * i \in 0 .. c - 1 /\ 2 * i + 1 \in 0 .. c - 1
        <5>1. i \in 0 .. (c \div 2) - 1
          BY <3>3, <4>3
        <5> QED BY <4>3, <5>1, Pairs, Zenon
      <4>5. n \div 2 ^ (s - 1) = 2 * m /\ m \in Nat
        <5> DEFINE u == s - 1
        <5>1. u \in 0 .. h - 1 /\ u \in Nat /\ u + 1 = s
          OBVIOUS
        <5> HIDE DEF u
        <5>2. Bit(2 ^ h * k, u) = 0
          BY <5>1, NoBitsBelow
        <5>3. n \div 2 ^ u = 2 * (n \div 2 ^ (u + 1)) + Bit(n, u) /\ n \div 2 ^ (u + 1) \in Nat
          <6>1. n \in Nat
            BY <1>0
          <6>2. n \div 2 ^ u = 2 * (n \div 2 ^ (u + 1)) + Bit(n, u)
            BY <5>1, <6>1, BitFacts
          <6>3. n \div 2 ^ (u + 1) \in Nat
            BY <1>0, <5>1
          <6> QED BY <6>2, <6>3
        <5>4. Bit(n, u) = 0
          BY <5>2
        <5>5. n \div 2 ^ u = 2 * m
          BY <5>1, <5>3, <5>4
        <5> QED BY <5>1, <5>3, <5>5 DEF u
      <4>6. v[p + 2 * i] = Node(t, 2 * m + 2 * i) /\ v[p + (2 * i + 1)] = Node(t, 2 * m + (2 * i + 1))
        <5>1. \A z \in 0 .. c - 1 : v[p + z] = Node(t, n \div 2 ^ (s - 1) + z)
          <6>1. s - 1 \in 0 .. s - 1
            BY <3>1
          <6> QED BY <2>10, <6>1, Zenon DEF RowsRight
        <5>2. \A z \in 0 .. c - 1 : v[p + z] = Node(t, 2 * m + z)
          BY <4>5, <5>1, Zenon
        <5>3. v[p + 2 * i] = Node(t, 2 * m + 2 * i)
          BY <4>4, <5>2, Zenon
        <5>4. v[p + (2 * i + 1)] = Node(t, 2 * m + (2 * i + 1))
          BY <4>4, <5>2, Zenon
        <5> QED BY <5>3, <5>4, Zenon
      <4>7. p + (2 * i + 1) = p + 2 * i + 1 /\ 2 * m + 2 * i = 2 * (m + i) /\ 2 * m + (2 * i + 1) = 2 * (m + i) + 1
        <5>1. p \in Nat
          BY <4>3, Zenon
        <5>2. m \in Nat
          BY <4>5, Zenon
        <5> HIDE DEF p, m
        <5>3. \A x1, x2, x3 \in Nat : /\ x1 + (2 * x3 + 1) = x1 + 2 * x3 + 1
                                      /\ 2 * x2 + 2 * x3 = 2 * (x2 + x3)
                                      /\ 2 * x2 + (2 * x3 + 1) = 2 * (x2 + x3) + 1
          BY Pairs, Zenon
        <5> QED BY <3>5, <5>1, <5>2, <5>3, Zenon
      <4> HIDE DEF p, m, Filled
      <4>8. Combine(v[p + 2 * i], v[p + 2 * i + 1], t, m + i) = Node(t, m + i)
        BY <4>6, <4>7 DEF Combine
      <4> QED BY <3>3, <4>2, <4>8 DEF m
    <3>4. CASE r # s
      <4>1. r \in 0 .. s - 1
        BY <3>4
      <4>2. x - RowStart(h, s) \notin 0 .. count \div 2 ^ s - 1
        BY <3>1, <4>1, RowFacts
      <4>3. Filled(v, s)[x] = v[x]
        BY <3>2, <4>2
      <4>4. v[x] = Node(t, n \div 2 ^ r + i)
        BY <2>10, <4>1 DEF RowsRight
      <4> QED BY <4>3, <4>4
    <3> QED BY <3>3, <3>4
  <2> HIDE DEF Filled
  <2> DEFINE S == {s \in 0 .. h : RowsRight(f[s], h, count, t, n, s)}
  <2>11. 0 \in S
    <3>1. 0 \in 0 .. h
      OBVIOUS
    <3>2. f[0] = nodes
      BY <2>9, <3>1
    <3> QED BY <3>1, <3>2
  <2>12. \A s \in 0 .. h - 1 : s \in S => s + 1 \in S
    <3> TAKE s \in 0 .. h - 1
    <3> HAVE s \in S
    <3>1. s + 1 \in 0 .. h /\ s + 1 \in 1 .. h /\ s + 1 # 0 /\ (s + 1) - 1 = s
      OBVIOUS
    <3>2. f[s + 1] = Filled(f[(s + 1) - 1], s + 1)
      BY <2>9, <3>1, Zenon
    <3>3. RowsRight(f[(s + 1) - 1], h, count, t, n, (s + 1) - 1)
      BY <3>1
    <3>4. RowsRight(Filled(f[(s + 1) - 1], s + 1), h, count, t, n, s + 1)
      BY <2>10, <3>1, <3>3
    <3> QED BY <3>1, <3>2, <3>4
  <2>13. RowsRight(f[h], h, count, t, n, h)
    <3>1. h \in 0 .. h
      OBVIOUS
    <3> HIDE DEF S
    <3>2. h \in S
      BY <2>11, <2>12, <3>1, InductionUpTo
    <3> QED BY <3>2 DEF S
  <2>14. f[h] = [x \in D |-> f[h][x]]
    <3>1. CASE h = 0
      <4>1. f[h] = nodes
        BY <2>9, <3>1
      <4> QED BY <4>1
    <3>2. CASE h # 0
      <4>1. h \in 0 .. h
        OBVIOUS
      <4>2. f[h] = Filled(f[h - 1], h)
        BY <2>9, <3>2, <4>1, Zenon
      <4> QED BY <4>2 DEF Filled
    <3> QED BY <3>1, <3>2
  <2> HIDE DEF D
  <2> QED BY <2>1, <2>13, <2>14 DEF f, D
<1> QED BY <1>1, <1>2

-----------------------------------------------------------------------------
(* What the parameters a private key stores say. *)

\* The levels that are kept are above the bottom of the root tree.
LEMMA AuxLevelsFacts == \A h, room : AuxLevels(h, room) \subseteq 1 .. h - 1
BY Zenon DEF AuxLevels

ParamLists(P) == P \subseteq Seq([lm : Nat, ots : Nat])

\* The bytes of a parameter set that is n levels long.
Bytes(r, n) ==
  /\ n \in 1 .. 4
  /\ \A i \in 1 .. n : /\ r[i] \in [lm : LmTypes, ots : OtsTypes]
                       /\ Compress(r)[2 * i - 2] = r[i].lm
                       /\ Compress(r)[2 * i - 1] = r[i].ots
  /\ n < 4 => Compress(r)[2 * n] = End

\* hss_compress_param_set writes them in this order and marks the end.
LEMMA StoredBytes ==
  ASSUME NEW P, ParamLists(P), NEW r \in P, CanCompress(r),
         NEW n, n = Len(r)
  PROVE  Bytes(r, n)
<1>1. r \in Seq([lm : Nat, ots : Nat])
  BY Zenon DEF ParamLists
<1>2. n \in Nat /\ DOMAIN r = 1 .. n
  BY <1>1, LenProperties
<1>3. n \in 1 .. 8 /\ 2 * n <= 8
  <2>1. Len(r) \in 1 .. MaxLevels /\ 2 * Len(r) <= FieldLen
    BY Zenon DEF CanCompress, Fits
  <2>2. n \in 1 .. MaxLevels /\ 2 * n <= FieldLen
    BY <2>1, Zenon
  <2>3. MaxLevels = 8 /\ FieldLen = 8
    BY DEF FieldLen, MaxLevels
  <2>4. n \in 1 .. 8 /\ 2 * n <= 8
    BY <2>2, <2>3, Zenon
  <2> QED BY <2>4
<1>4. n \in 1 .. 4
  BY <1>3
<1>5. \A i \in 1 .. n : r[i].lm \in LmTypes /\ r[i].ots \in OtsTypes
  BY <1>2, Zenon DEF CanCompress
<1>6. \A i \in 1 .. n : r[i] \in [lm : LmTypes, ots : OtsTypes]
  <2> TAKE i \in 1 .. n
  <2>1. r[i] \in [lm : Nat, ots : Nat]
    BY <1>1, ElementOfSeq
  <2> QED BY <1>5, <2>1
<1>7. \A x \in 0 .. 7 : Compress(r)[x] =
        IF x \div 2 >= n THEN End
        ELSE IF x % 2 = 0 THEN r[x \div 2 + 1].lm ELSE r[x \div 2 + 1].ots
  <2>1. FieldLen - 1 = 7
    BY DEF FieldLen, MaxLevels
  <2> QED BY <2>1, Zenon DEF Compress
<1>8. ASSUME NEW i \in 1 .. n
      PROVE  Compress(r)[2 * i - 2] = r[i].lm /\ Compress(r)[2 * i - 1] = r[i].ots
  <2>1. i \in 1 .. 4 /\ i <= n
    BY <1>4
  <2>2. 2 * i - 2 \in 0 .. 7 /\ (2 * i - 2) \div 2 = i - 1 /\ (2 * i - 2) % 2 = 0
    BY <2>1
  <2>3. 2 * i - 1 \in 0 .. 7 /\ (2 * i - 1) \div 2 = i - 1 /\ (2 * i - 1) % 2 = 1
    BY <2>1
  <2>4. ~(i - 1 >= n) /\ (i - 1) + 1 = i
    BY <1>4, <2>1
  <2>5. Compress(r)[2 * i - 2] = r[(i - 1) + 1].lm
    BY <1>7, <2>2, <2>4
  <2>6. Compress(r)[2 * i - 1] = r[(i - 1) + 1].ots
    BY <1>7, <2>3, <2>4
  <2> QED BY <2>4, <2>5, <2>6
<1>9. n < 4 => Compress(r)[2 * n] = End
  <2>1. n < 4 => 2 * n \in 0 .. 7 /\ (2 * n) \div 2 = n /\ n >= n
    BY <1>4
  <2> QED BY <1>7, <2>1
<1> QED BY <1>4, <1>6, <1>8, <1>9, Zenon DEF Bytes

\* Parameters are found again in the key they were written into, and in no other; none
\* looks like a key that was overwritten with zeroes.
LEMMA CompressFacts ==
  ASSUME NEW P, ParamLists(P), NEW p \in P, CanCompress(p)
  PROVE  /\ p[1].lm \in LmTypes
         /\ Compress(p) # BlankField
         /\ \A r \in P : CanCompress(r) /\ Compress(r) = Compress(p) => r = p
<1>1. p[1].lm \in LmTypes /\ Compress(p)[0] = p[1].lm
  <2> DEFINE n == Len(p)
  <2>1. n = Len(p)
    OBVIOUS
  <2> HIDE DEF n
  <2>4. Bytes(p, n)
    BY <2>1, StoredBytes, Zenon
  <2>2. 1 \in 1 .. n
    BY <2>4 DEF Bytes
  <2>3. p[1] \in [lm : LmTypes, ots : OtsTypes] /\ Compress(p)[2 * 1 - 2] = p[1].lm
    BY <2>2, <2>4, Zenon DEF Bytes
  <2> QED BY <2>3
<1>2. Compress(p) # BlankField
  BY <1>1 DEF BlankField, FieldLen, MaxLevels, LmTypes
<1>3. ASSUME NEW r \in P, CanCompress(r), NEW s \in P, CanCompress(s),
             Compress(r) = Compress(s), NEW m, m = Len(r), NEW n, n = Len(s)
      PROVE  ~(m < n)
  <2>1. SUFFICES ASSUME m < n PROVE FALSE
    OBVIOUS
  <2>6. Bytes(r, m) /\ Bytes(s, n)
    BY <1>3, StoredBytes, Zenon
  <2>2. m \in 1 .. 4 /\ (m < 4 => Compress(r)[2 * m] = End)
    BY <2>6, Zenon DEF Bytes
  <2>3. n \in 1 .. 4 /\ \A i \in 1 .. n : /\ s[i] \in [lm : LmTypes, ots : OtsTypes]
                                          /\ Compress(s)[2 * i - 2] = s[i].lm
    BY <2>6, Zenon DEF Bytes
  <2>4. m + 1 \in 1 .. n /\ 2 * (m + 1) - 2 = 2 * m /\ m < 4
    BY <2>1, <2>2, <2>3
  <2>5. Compress(s)[2 * m] \in LmTypes
    BY <2>3, <2>4
  <2> QED BY <1>3, <2>2, <2>4, <2>5 DEF LmTypes, End
<1>4. ASSUME NEW r \in P, CanCompress(r), Compress(r) = Compress(p)
      PROVE  r = p
  <2>1. r \in Seq([lm : Nat, ots : Nat]) /\ p \in Seq([lm : Nat, ots : Nat])
    BY <1>4, Zenon DEF ParamLists
  <2> DEFINE m == Len(r)
             n == Len(p)
  <2>2. m = Len(r) /\ n = Len(p)
    OBVIOUS
  <2> HIDE DEF m, n
  <2>6. Bytes(r, m) /\ Bytes(p, n)
    BY <1>4, <2>2, StoredBytes, Zenon
  <2>7. m \in 1 .. 4 /\ n \in 1 .. 4
    BY <2>6, Zenon DEF Bytes
  <2>3. ~(m < n) /\ ~(n < m) /\ m \in 1 .. 4 /\ n \in 1 .. 4
    BY <1>3, <1>4, <2>2, <2>7
  <2>4. m = n
    BY <2>3
  <2>5. ASSUME NEW i \in 1 .. n PROVE r[i] = p[i]
    <3>1. r[i] \in [lm : LmTypes, ots : OtsTypes] /\ p[i] \in [lm : LmTypes, ots : OtsTypes]
      BY <2>4, <2>6, Zenon DEF Bytes
    <3>2. /\ Compress(r)[2 * i - 2] = r[i].lm /\ Compress(r)[2 * i - 1] = r[i].ots
          /\ Compress(p)[2 * i - 2] = p[i].lm /\ Compress(p)[2 * i - 1] = p[i].ots
      BY <2>4, <2>6, Zenon DEF Bytes
    <3>3. r[i].lm = p[i].lm /\ r[i].ots = p[i].ots
      BY <1>4, <3>2, Zenon
    <3> QED BY <3>1, <3>3
  <2> QED BY <2>1, <2>2, <2>4, <2>5, SeqEqual
<1> QED BY <1>1, <1>2, <1>4

-----------------------------------------------------------------------------
(* The inductive invariant of key generation. *)

\* The defect that KeygenAux shows needs a buffer which holds level 1 and nothing else.
NeverLevelOneAlone ==
  \A p \in Params, room \in Rooms \ {NoBuffer} :
    CanCompress(p) => AuxLevels(p[1].lm, room) # {1}

AuxShape(aux) ==
  /\ aux = [levels |-> aux.levels, node |-> aux.node, mac |-> aux.mac]
  /\ aux.levels \in SUBSET (1 .. 24)
  /\ aux.node = [l \in aux.levels |-> aux.node[l]]
  /\ \A l \in aux.levels : aux.node[l] = [n \in 0 .. 2 ^ l - 1 |-> aux.node[l][n]]

\* The nodes of the root tree of key k.
RightNodes(levels, node, k) ==
  \A l \in levels : \A n \in DOMAIN node[l] : node[l][n] = Node(RootTree(k), 2 ^ l + n)
RightMac(mac) == RightNodes(mac.levels, mac.node, mac.key)

\* The nodes that are in the aux data once the first leaf nodes of the level computed
\* in parallel have been combined.
Saved(aux, t, level, leaf) ==
  \A l \in aux.levels : \A n \in 0 .. 2 ^ l - 1 :
    l = level \/ (n + 1) * 2 ^ (level - l) <= leaf => aux.node[l][n] = Node(t, 2 ^ l + n)

Stores(p) == p \in Params /\ CanCompress(p) /\ nv.field = Compress(p)

KeyInv ==
  /\ keys \in 0 .. MaxKeys
  /\ pc \in {"idle", "choose", "combine", "returned"}
  /\ nv.key \in 0 .. keys
  /\ pub.key \in 0 .. keys
  /\ nv.key = 0 => nv.field = BlankField
  /\ nv.key # 0 => \E p \in Params : Stores(p)
  /\ pub.key # 0 /\ pub.key = nv.key => Stores(pub.p)

CallInv ==
  pc \in {"choose", "combine"} =>
    /\ call.key = nv.key /\ nv.key # 0
    /\ Stores(call.p)
    /\ call.level \in 1 .. Height - 1
    /\ call.room \in Rooms
    /\ HasBuffer => /\ auxBuf.levels = AuxLevels(Height, call.room)
                    /\ \A l \in auxBuf.levels : l <= call.level

ChooseInv ==
  pc = "choose" =>
    call = [key |-> call.key, p |-> call.p, room |-> call.room, tracks |-> call.tracks,
            level |-> call.level]

CombineInv ==
  pc = "combine" =>
    /\ call = [key |-> call.key, p |-> call.p, room |-> call.room, tracks |-> call.tracks,
               level |-> call.level, row |-> call.row, leaf |-> call.leaf, stack |-> call.stack]
    /\ call.leaf \in 0 .. 2 ^ call.level
    /\ \A n \in 0 .. 2 ^ call.level - 1 : call.row[n] = Node(RootTree(call.key), 2 ^ call.level + n)
    /\ call.stack = [s \in 0 .. call.level |-> call.stack[s]]
    /\ Stacked(call.stack, RootTree(call.key), 1, call.level, call.leaf)
    /\ NeverLevelOneAlone /\ HasBuffer =>
         Saved(auxBuf, RootTree(call.key), call.level, call.leaf)

AuxInv ==
  /\ AuxShape(auxBuf) /\ AuxShape(auxFile)
  /\ NeverLevelOneAlone => RightMac(auxBuf.mac) /\ RightMac(auxFile.mac)

KeygenInv == KeyInv /\ CallInv /\ ChooseInv /\ CombineInv /\ AuxInv /\ PublicKeyIsRoot

-----------------------------------------------------------------------------
(* The inductive invariant of loading. *)

\* The bottom nodes of an order that do not come from the subtree below.
Bottom(nodes, o) ==
  \A n \in 0 .. o.count - 1 :
    ~(o.prev /\ n = o.at) => nodes[Row(o, 0) + n] = Node(Tree(o), FirstNode(o) + n)
Complete(nodes, o) ==
  RowsRight(nodes, SubHeightOf(o), o.count, Tree(o), FirstNode(o), SubHeightOf(o))

BegunInv ==
  w.status \in {"begun", "listed", "computed", "none"} =>
    /\ w.key = nv.key /\ w.key # 0
    /\ Stores(w.p)
    /\ w.q \in LoadAt /\ w.bottom \in Bottoms /\ w.plan \in Plans
    /\ AuxShape(w.aux)
    /\ NeverLevelOneAlone => RightNodes(w.aux.levels, w.aux.node, w.key)

ListedInv ==
  w.status \in {"listed", "computed", "none"} =>
    /\ w = [status |-> w.status, p |-> w.p, key |-> w.key, q |-> w.q, bottom |-> w.bottom,
            aux |-> w.aux, plan |-> w.plan, open |-> w.open, nodes |-> w.nodes]
    /\ w.open \subseteq Orders
    /\ w.nodes = [o \in Orders |-> w.nodes[o]]
    /\ w.status = "listed" => w.open = Orders /\ w.nodes = [o \in Orders |-> FromAux(o)]
    /\ w.status = "none" => w.open = {}

\* The bottom nodes of a subtree are there before it is filled, all of it afterwards.
ComputedInv ==
  w.status \in {"computed", "none"} /\ NeverLevelOneAlone =>
    \A o \in Orders :
      /\ w.nodes[o] = [x \in 0 .. 2 ^ (SubHeightOf(o) + 1) - 2 |-> w.nodes[o][x]]
      /\ o \in w.open => Bottom(w.nodes[o], o)
      /\ o \notin w.open => Complete(w.nodes[o], o)

LoadInv == BegunInv /\ ListedInv /\ ComputedInv

IInv == KeygenInv /\ LoadInv

-----------------------------------------------------------------------------
(* The aux data while the nodes above its lowest level are offered to it. *)

\* The nodes up[1], ..., up[s] above a leaf, each on its own level.
SavedUp(aux, level, leaf, up, s) ==
  [levels |-> aux.levels, mac |-> aux.mac,
   node |-> [l \in aux.levels |-> [n \in 0 .. 2 ^ l - 1 |->
     IF level - l \in 1 .. s /\ n = leaf \div 2 ^ (level - l)
     THEN up[level - l] ELSE aux.node[l][n]]]]

\* hss_save_aux_data adds one more of them.
LEMMA SavedOneMore ==
  ASSUME NEW aux, AuxShape(aux), NEW level \in Nat, NEW leaf, NEW up, NEW s \in Nat, s # 0
  PROVE  Save(SavedUp(aux, level, leaf, up, s - 1), level - s, leaf \div 2 ^ s, up[s])
           = SavedUp(aux, level, leaf, up, s)
<1> DEFINE m == level - s
           New(l, n, r) == IF level - l \in 1 .. r /\ n = leaf \div 2 ^ (level - l)
                           THEN up[level - l] ELSE aux.node[l][n]
           Nodes(r) == [l \in aux.levels |-> [n \in 0 .. 2 ^ l - 1 |-> New(l, n, r)]]
           before == SavedUp(aux, level, leaf, up, s - 1)
           after == SavedUp(aux, level, leaf, up, s)
<1>1. before = [levels |-> aux.levels, mac |-> aux.mac, node |-> Nodes(s - 1)]
      /\ after = [levels |-> aux.levels, mac |-> aux.mac, node |-> Nodes(s)]
  BY DEF SavedUp
<1>2. aux.levels \subseteq Int /\ m \in Int /\ level - m = s
  <2>1. aux.levels \in SUBSET (1 .. 24)
    BY Zenon DEF AuxShape
  <2>2. m \in Int /\ level - m = s
    OBVIOUS
  <2> HIDE DEF m
  <2> QED BY <2>1, <2>2
<1>3. \A l \in aux.levels : \A n : l # m => New(l, n, s) = New(l, n, s - 1)
  <2> TAKE l \in aux.levels
  <2> TAKE n
  <2> HAVE l # m
  <2>1. level - l \in 1 .. s <=> level - l \in 1 .. s - 1
    BY <1>2
  <2> QED BY <2>1, Zenon
<1>4. \A n : New(m, n, s) = IF n = leaf \div 2 ^ s THEN up[s] ELSE aux.node[m][n]
  <2>1. s \in 1 .. s
    OBVIOUS
  <2> QED BY <1>2, <2>1, Zenon
<1>5. \A n : New(m, n, s - 1) = aux.node[m][n]
  <2>1. s \notin 1 .. s - 1
    OBVIOUS
  <2> QED BY <1>2, <2>1, Zenon
<1> HIDE DEF New, m
<1>6. CASE m \notin aux.levels
  <2>1. Nodes(s) = Nodes(s - 1)
    BY <1>3, <1>6, Zenon
  <2>2. before.levels = aux.levels
    BY <1>1
  <2>3. Save(before, m, leaf \div 2 ^ s, up[s]) = before
    BY <1>6, <2>2, Zenon DEF Save
  <2> HIDE DEF Nodes, before, after
  <2> QED BY <1>1, <2>1, <2>3 DEF m, before, after
<1>7. CASE m \in aux.levels
  <2> DEFINE k == leaf \div 2 ^ s
  <2>1. before.levels = aux.levels /\ before.mac = aux.mac /\ before.node = Nodes(s - 1)
    <3> HIDE DEF before, after, Nodes
    <3> QED BY <1>1
  <2>2. Save(before, m, k, up[s]) = [before EXCEPT !.node[m][k] = up[s]]
    BY <1>7, <2>1, Zenon DEF Save
  <2>3. [before EXCEPT !.node[m][k] = up[s]]
          = [levels |-> aux.levels, mac |-> aux.mac, node |-> [Nodes(s - 1) EXCEPT ![m][k] = up[s]]]
    <3> HIDE DEF Nodes, k, before
    <3> QED BY <1>1
  <2>4. [Nodes(s - 1) EXCEPT ![m][k] = up[s]] = Nodes(s)
    <3> DEFINE row == [Nodes(s - 1)[m] EXCEPT ![k] = up[s]]
    <3> HIDE DEF k
    <3>1. Nodes(s - 1)[m] = [n \in 0 .. 2 ^ m - 1 |-> New(m, n, s - 1)]
      BY <1>7
    <3>2. row = [n \in 0 .. 2 ^ m - 1 |-> New(m, n, s)]
      <4>1. \A n \in 0 .. 2 ^ m - 1 : row[n] = New(m, n, s)
        BY <1>4, <1>5, <3>1 DEF k
      <4>2. row = [n \in 0 .. 2 ^ m - 1 |-> row[n]]
        BY <3>1
      <4> HIDE DEF row
      <4> QED BY <4>1, <4>2
    <3>3. \A l \in aux.levels \ {m} : Nodes(s - 1)[l] = Nodes(s)[l]
      <4> TAKE l \in aux.levels \ {m}
      <4>1. \A n : New(l, n, s) = New(l, n, s - 1)
        BY <1>3, Zenon
      <4>2. /\ Nodes(s - 1)[l] = [n \in 0 .. 2 ^ l - 1 |-> New(l, n, s - 1)]
            /\ Nodes(s)[l] = [n \in 0 .. 2 ^ l - 1 |-> New(l, n, s)]
        BY Zenon
      <4> QED BY <4>1, <4>2, Zenon
    <3>4. Nodes(s)[m] = row
      BY <1>7, <3>2
    <3>5. DOMAIN Nodes(s - 1) = aux.levels /\ DOMAIN Nodes(s) = aux.levels
          /\ Nodes(s) = [l \in aux.levels |-> Nodes(s)[l]]
      OBVIOUS
    <3> HIDE DEF Nodes
    <3>6. [Nodes(s - 1) EXCEPT ![m][k] = up[s]] = [Nodes(s - 1) EXCEPT ![m] = row]
      BY Zenon
    <3> HIDE DEF row
    <3>7. [Nodes(s - 1) EXCEPT ![m] = row]
            = [l \in aux.levels |-> IF l = m THEN row ELSE Nodes(s - 1)[l]]
      BY <3>5, Zenon
    <3>8. \A l \in aux.levels : (IF l = m THEN row ELSE Nodes(s - 1)[l]) = Nodes(s)[l]
      BY <3>3, <3>4
    <3> QED BY <3>5, <3>6, <3>7, <3>8
  <2> HIDE DEF Nodes, before, after
  <2> QED BY <1>1, <2>2, <2>3, <2>4 DEF m, k, before, after
<1> QED BY <1>6, <1>7

\* The call saves all of them.
LEMMA SavedClimb ==
  ASSUME AuxShape(auxBuf), call.level \in Nat, NEW leaf, TrailingOnes(leaf) \in Nat,
         NEW up, DOMAIN up = 0 .. TrailingOnes(leaf)
  PROVE  SaveClimb(up, leaf) = SavedUp(auxBuf, call.level, leaf, up, TrailingOnes(leaf))
<1> DEFINE off == TrailingOnes(leaf)
           Equation(f) == f = [s \in 0 .. off |->
             IF s = 0 THEN auxBuf ELSE Save(f[s - 1], call.level - s, leaf \div 2 ^ s, up[s])]
           By(s) == SavedUp(auxBuf, call.level, leaf, up, s)
           g == [s \in 0 .. off |-> By(s)]
           saved == CHOOSE f : Equation(f)
<1>1. SaveClimb(up, leaf) = saved[off]
  BY Zenon DEF SaveClimb
<1>2. off \in Nat
  OBVIOUS
<1>3. By(0) = auxBuf
  <2>1. \A l : call.level - l \notin 1 .. 0
    OBVIOUS
  <2>2. By(0) = [levels |-> auxBuf.levels, mac |-> auxBuf.mac,
                 node |-> [l \in auxBuf.levels |-> [n \in 0 .. 2 ^ l - 1 |-> auxBuf.node[l][n]]]]
    BY <2>1, Zenon DEF SavedUp
  <2>3. [l \in auxBuf.levels |-> [n \in 0 .. 2 ^ l - 1 |-> auxBuf.node[l][n]]] = auxBuf.node
    <3>1. \A l \in auxBuf.levels : [n \in 0 .. 2 ^ l - 1 |-> auxBuf.node[l][n]] = auxBuf.node[l]
      BY Zenon DEF AuxShape
    <3>2. auxBuf.node = [l \in auxBuf.levels |-> auxBuf.node[l]]
      BY Zenon DEF AuxShape
    <3> QED BY <3>1, <3>2, Zenon
  <2>4. auxBuf = [levels |-> auxBuf.levels, mac |-> auxBuf.mac, node |-> auxBuf.node]
    BY DEF AuxShape
  <2> HIDE DEF By
  <2> QED BY <2>2, <2>3, <2>4, Zenon
<1>4. \A s \in 1 .. off :
        Save(By(s - 1), call.level - s, leaf \div 2 ^ s, up[s]) = By(s)
  <2> TAKE s \in 1 .. off
  <2>1. s \in Nat /\ s # 0
    OBVIOUS
  <2> QED BY <2>1, SavedOneMore, Zenon
<1> HIDE DEF By, off
<1>5. Equation(g)
  <2>1. ASSUME NEW s \in 0 .. off
        PROVE  g[s] = IF s = 0 THEN auxBuf ELSE Save(g[s - 1], call.level - s, leaf \div 2 ^ s, up[s])
    <3>1. CASE s = 0
      BY <1>2, <1>3, <3>1
    <3>2. CASE s # 0
      <4>1. s \in 1 .. off /\ s - 1 \in 0 .. off
        BY <1>2, <3>2
      <4>2. g[s] = By(s) /\ g[s - 1] = By(s - 1)
        BY <4>1
      <4> HIDE DEF g
      <4> QED BY <1>4, <3>2, <4>1, <4>2
    <3> QED BY <3>1, <3>2
  <2>2. g = [s \in 0 .. off |-> g[s]]
    OBVIOUS
  <2> HIDE DEF g
  <2> QED BY <2>1, <2>2, Zenon
<1>6. Equation(saved)
  <2> HIDE DEF Equation, g
  <2> QED BY <1>5
<1> HIDE DEF saved
<1> DEFINE S == {s \in 0 .. off : saved[s] = By(s)}
<1>7. 0 \in S
  BY <1>2, <1>3, <1>6
<1>8. \A s \in 0 .. off - 1 : s \in S => s + 1 \in S
  <2> TAKE s \in 0 .. off - 1
  <2> HAVE s \in S
  <2>1. s + 1 \in 1 .. off /\ s + 1 \in 0 .. off /\ (s + 1) - 1 = s /\ s + 1 # 0
    BY <1>2
  <2>2. saved[s + 1] = Save(saved[(s + 1) - 1], call.level - (s + 1), leaf \div 2 ^ (s + 1), up[s + 1])
    BY <1>6, <2>1, Zenon
  <2>3. saved[(s + 1) - 1] = By((s + 1) - 1)
    BY <2>1
  <2>4. saved[s + 1] = By(s + 1)
    <3>1. Save(By((s + 1) - 1), call.level - (s + 1), leaf \div 2 ^ (s + 1), up[s + 1]) = By(s + 1)
      BY <1>4, <2>1, Zenon
    <3> QED BY <2>2, <2>3, <3>1, Zenon
  <2> QED BY <2>1, <2>4
<1>9. off \in S
  <2>1. off \in 0 .. off
    BY <1>2
  <2> HIDE DEF S
  <2> QED BY <1>2, <1>7, <1>8, <2>1, InductionUpTo
<1> QED BY <1>1, <1>9 DEF By, off

\* After that the aux data holds every node that is complete with this leaf.
LEMMA SavedProgress ==
  ASSUME NEW aux, AuxShape(aux), NEW level \in 1 .. 24, \A l \in aux.levels : l <= level,
         NEW leaf \in 0 .. 2 ^ level - 1, NEW t, NEW off, off = TrailingOnes(leaf),
         NEW up, up = Ancestors(t, 1, level, leaf, off),
         NEW after, after = SavedUp(aux, level, leaf, up, off)
  PROVE  /\ AuxShape(after) /\ after.levels = aux.levels /\ after.mac = aux.mac
         /\ Saved(aux, t, level, leaf) => Saved(after, t, level, leaf + 1)
<1> DEFINE New(l, n) == IF level - l \in 1 .. off /\ n = leaf \div 2 ^ (level - l)
                        THEN up[level - l] ELSE aux.node[l][n]
           nodes == [l \in aux.levels |-> [n \in 0 .. 2 ^ l - 1 |-> New(l, n)]]
<1>1. after = [levels |-> aux.levels, mac |-> aux.mac, node |-> nodes]
  BY DEF SavedUp
<1>2. after.levels = aux.levels /\ after.mac = aux.mac /\ after.node = nodes
      /\ after = [levels |-> after.levels, node |-> after.node, mac |-> after.mac]
  <2> HIDE DEF nodes
  <2> QED BY <1>1
<1>3. AuxShape(after)
  <2>1. aux.levels \in SUBSET (1 .. 24)
    BY Zenon DEF AuxShape
  <2>2. nodes = [l \in aux.levels |-> nodes[l]]
        /\ \A l \in aux.levels : nodes[l] = [n \in 0 .. 2 ^ l - 1 |-> nodes[l][n]]
    <3> HIDE DEF New
    <3> QED OBVIOUS
  <2> HIDE DEF nodes
  <2>3. after.node = [l \in after.levels |-> after.node[l]]
        /\ \A l \in after.levels : after.node[l] = [n \in 0 .. 2 ^ l - 1 |-> after.node[l][n]]
    <3> DEFINE L == after.levels
               N == after.node
    <3>1. L = aux.levels /\ N = nodes
      BY <1>2, Zenon
    <3> HIDE DEF L, N
    <3>2. N = [l \in L |-> N[l]] /\ \A l \in L : N[l] = [n \in 0 .. 2 ^ l - 1 |-> N[l][n]]
      BY <2>2, <3>1
    <3> QED BY <3>2 DEF L, N
  <2>4. after.levels \in SUBSET (1 .. 24)
    BY <1>2, <2>1, Zenon
  <2> QED BY <1>2, <2>3, <2>4, Zenon DEF AuxShape
<1>4. \A l \in aux.levels : \A n \in 0 .. 2 ^ l - 1 : after.node[l][n] = New(l, n)
  <2> HIDE DEF New
  <2>1. \A l \in aux.levels : \A n \in 0 .. 2 ^ l - 1 : nodes[l][n] = New(l, n)
    OBVIOUS
  <2> HIDE DEF nodes
  <2> QED BY <1>2, <2>1, Zenon
<1>5. level \in 0 .. 30 /\ level \in Nat /\ leaf \in Nat
  BY PowerNat
<1>6. off \in 0 .. level /\ Trailing(leaf, off)
  BY <1>5, TrailingOnesFacts
<1>7. \A s \in Nat : s > off => (leaf + 1) \div 2 ^ s = leaf \div 2 ^ s
  BY <1>5, <1>6, Carry
<1>8. ASSUME Saved(aux, t, level, leaf), NEW l \in aux.levels, NEW n \in 0 .. 2 ^ l - 1,
             l = level \/ (n + 1) * 2 ^ (level - l) <= leaf + 1
      PROVE  New(l, n) = Node(t, 2 ^ l + n)
  <2> DEFINE d == level - l
             c == 2 ^ d
  <2>1. l \in Nat /\ d \in Nat /\ level - d = l /\ (d = 0 <=> l = level)
    <3>1. aux.levels \in SUBSET (1 .. 24)
      BY Zenon DEF AuxShape
    <3>2. l \in 1 .. 24 /\ l <= level
      BY <3>1
    <3> QED BY <1>5, <3>2
  <2>2. n \in Nat /\ c \in Nat /\ c >= 1
    BY <2>1, PowerPositive
  <2>3. CASE l = level \/ (n + 1) * c <= leaf
    <3>1. aux.node[l][n] = Node(t, 2 ^ l + n)
      BY <1>8, <2>3, Zenon DEF Saved
    <3>2. CASE d \in 1 .. off /\ n = leaf \div c
      <4>1. up[d] = Node(t, Ancestor(1, level, leaf, d))
        <5>1. d \in 0 .. off
          BY <1>6, <3>2
        <5> QED BY <5>1, Zenon DEF Ancestors
      <4>2. Ancestor(1, level, leaf, d) = 2 ^ l + n
        <5>1. 2 ^ l \in Nat
          BY <2>1, PowerNat
        <5>2. Ancestor(1, level, leaf, d) = 2 ^ l * 1 + n
          BY <2>1, <3>2, Zenon DEF Ancestor
        <5> QED BY <5>1, <5>2
      <4> QED BY <3>2, <4>1, <4>2, Zenon
    <3>3. CASE ~(d \in 1 .. off /\ n = leaf \div c)
      BY <3>1, <3>3, Zenon
    <3> QED BY <3>2, <3>3
  <2>4. CASE ~(l = level \/ (n + 1) * c <= leaf)
    <3>1. (n + 1) * c <= leaf + 1
      BY <1>8, <2>4, Zenon
    <3> HIDE DEF c, d, New
    <3>2. (n + 1) * c = leaf + 1
      <4> DEFINE x == (n + 1) * c
      <4>1. x \in Nat
        BY <2>2
      <4> HIDE DEF x
      <4>2. x = leaf + 1
        BY <1>5, <2>4, <3>1, <4>1 DEF x
      <4> QED BY <4>2 DEF x
    <3>3. leaf = c * n + (c - 1) /\ leaf + 1 = c * (n + 1) + 0
      <4>1. (n + 1) * c = c * n + c /\ c * (n + 1) = (n + 1) * c /\ c * n \in Int
        BY <2>2
      <4> QED BY <1>5, <2>2, <3>2, <4>1
    <3>4. leaf \div c = n
      <4>1. c - 1 \in 0 .. c - 1 /\ n \in Int /\ leaf \in Int /\ c > 0
        BY <1>5, <2>2
      <4> QED BY <2>2, <3>3, <4>1, DivModUnique
    <3>5. (leaf + 1) \div c = n + 1
      <4>1. 0 \in 0 .. c - 1 /\ n + 1 \in Int /\ leaf + 1 \in Int /\ c > 0
        BY <1>5, <2>2
      <4> QED BY <2>2, <3>3, <4>1, DivModUnique
    <3>6. d \in 1 .. off
      <4>1. ~(d > off)
        <5>1. n # n + 1
          BY <2>2
        <5> QED BY <1>7, <2>1, <3>4, <3>5, <5>1 DEF c
      <4>2. d # 0
        BY <2>1, <2>4
      <4> QED BY <1>6, <2>1, <4>1, <4>2
    <3>7. New(l, n) = up[d]
      BY <3>4, <3>6, Zenon DEF New, c, d
    <3>8. up[d] = Node(t, Ancestor(1, level, leaf, d))
      <4>1. d \in 0 .. off
        BY <1>6, <3>6
      <4> QED BY <4>1, Zenon DEF Ancestors
    <3>9. Ancestor(1, level, leaf, d) = 2 ^ l + n
      <4>1. 2 ^ l \in Nat
        BY <2>1, PowerNat
      <4>2. Ancestor(1, level, leaf, d) = 2 ^ l * 1 + n
        BY <2>1, <3>4, Zenon DEF Ancestor, c
      <4> QED BY <4>1, <4>2
    <3> QED BY <3>7, <3>8, <3>9
  <2> QED BY <2>3, <2>4
<1>9. ASSUME Saved(aux, t, level, leaf) PROVE Saved(after, t, level, leaf + 1)
  <2> HIDE DEF New
  <2> SUFFICES ASSUME NEW l \in aux.levels, NEW n \in 0 .. 2 ^ l - 1,
                      l = level \/ (n + 1) * 2 ^ (level - l) <= leaf + 1
               PROVE  after.node[l][n] = Node(t, 2 ^ l + n)
    BY <1>2, Zenon DEF Saved
  <2>1. after.node[l][n] = New(l, n)
    BY <1>4, Zenon
  <2>2. New(l, n) = Node(t, 2 ^ l + n)
    BY <1>8, <1>9
  <2> QED BY <2>1, <2>2, Zenon
<1> QED BY <1>2, <1>3, <1>9

-----------------------------------------------------------------------------
(* Every step of key generation preserves its invariant. *)

\* A new marker means an empty buffer, with no MAC over it.
LEMMA MarkedFacts ==
  ASSUME NEW levels \in SUBSET (1 .. 24)
  PROVE  AuxShape(Marked(levels)) /\ Marked(levels).levels = levels /\ RightMac(Marked(levels).mac)
<1> DEFINE nodes == [l \in levels |-> [n \in 0 .. 2 ^ l - 1 |-> Junk]]
           aux == Marked(levels)
<1>1. aux = [levels |-> levels, node |-> nodes, mac |-> NoMac]
  BY DEF Marked
<1>2. nodes = [l \in levels |-> nodes[l]]
      /\ \A l \in levels : nodes[l] = [n \in 0 .. 2 ^ l - 1 |-> nodes[l][n]]
  OBVIOUS
<1> HIDE DEF nodes, aux
<1>3. aux.levels = levels /\ aux.node = nodes /\ aux.mac = NoMac
      /\ aux = [levels |-> aux.levels, node |-> aux.node, mac |-> aux.mac]
  BY <1>1
<1>4. AuxShape(aux)
  BY <1>2, <1>3 DEF AuxShape
<1>5. RightMac(NoMac)
  BY DEF RightMac, RightNodes, NoMac
<1> QED BY <1>3, <1>4, <1>5 DEF aux

\* The call has parameters that a key can store, and a level of the root tree.
LEMMA CallFacts ==
  ASSUME KeygenInv, pc \in {"choose", "combine"}
  PROVE  /\ Stores(call.p) /\ call.p \in Params /\ CanCompress(call.p)
         /\ call.key = nv.key /\ nv.key # 0 /\ call.room \in Rooms
         /\ Height \in LmTypes /\ Height \in 5 .. 25 /\ Height \in 0 .. 30
         /\ call.level \in 1 .. Height - 1 /\ call.level \in 1 .. 24 /\ call.level \in 0 .. Height
         /\ HasBuffer => /\ auxBuf.levels = AuxLevels(Height, call.room)
                         /\ \A l \in auxBuf.levels : l <= call.level
<1>1. CallInv
  BY DEF KeygenInv
<1>2. /\ call.key = nv.key /\ nv.key # 0 /\ Stores(call.p) /\ call.level \in 1 .. Height - 1
      /\ call.room \in Rooms
      /\ HasBuffer => /\ auxBuf.levels = AuxLevels(Height, call.room)
                      /\ \A l \in auxBuf.levels : l <= call.level
  BY <1>1, Zenon DEF CallInv
<1>3. call.p \in Params /\ CanCompress(call.p)
  BY <1>2 DEF Stores
<1>4. Height \in LmTypes
  BY <1>3, ParamsAssumption, CompressFacts DEF Height, ParamLists
<1>5. Height \in 5 .. 25
  BY <1>4 DEF LmTypes
<1>6. call.level \in 1 .. 24 /\ call.level \in 0 .. Height /\ Height \in 0 .. 30
  BY <1>2, <1>5
<1> QED BY <1>2, <1>3, <1>4, <1>5, <1>6

\* It holds when the program starts.
LEMMA KeygenStarts == ASSUME KeygenInit PROVE KeygenInv
<1>1. nv = [field |-> BlankField, key |-> 0] /\ keys = 0 /\ pc = "idle" /\ pub = NoPub
      /\ auxBuf = Marked({}) /\ auxFile = Marked({})
  BY DEF KeygenInit, NoAux
<1>2. AuxInv
  <2>1. {} \in SUBSET (1 .. 24)
    OBVIOUS
  <2>2. AuxShape(Marked({})) /\ RightMac(Marked({}).mac)
    BY <2>1, MarkedFacts
  <2> QED BY <1>1, <2>2, Zenon DEF AuxInv
<1>3. KeyInv
  BY <1>1, KeysAssumption DEF KeyInv, NoPub
<1>4. PublicKeyIsRoot
  BY <1>1 DEF PublicKeyIsRoot, NoPub
<1> QED BY <1>1, <1>2, <1>3, <1>4 DEF KeygenInv, CallInv, ChooseInv, CombineInv

\* A new private key is stored and nothing is computed yet; a failed write may have taken
\* effect.
LEMMA GenerateKeeps ==
  ASSUME KeygenInv, NEW p \in Params, NEW room \in Rooms, NEW tracks, NEW written,
         Generate(p, room, tracks, written)
  PROVE  KeygenInv'
<1>1. /\ pc = "idle" /\ keys < MaxKeys /\ CanCompress(p) /\ keys' = keys + 1
      /\ nv' = IF written = "failed" THEN nv ELSE [field |-> Compress(p), key |-> keys']
      /\ auxFile' = auxFile /\ pub' = pub
  BY DEF Generate
<1>2. /\ keys \in 0 .. MaxKeys /\ nv.key \in 0 .. keys /\ pub.key \in 0 .. keys
      /\ nv.key = 0 => nv.field = BlankField
      /\ nv.key # 0 => \E r \in Params : Stores(r)
      /\ pub.key # 0 /\ pub.key = nv.key => Stores(pub.p)
  BY DEF KeygenInv, KeyInv
<1>3. AuxShape(auxBuf) /\ AuxShape(auxFile)
      /\ (NeverLevelOneAlone => RightMac(auxBuf.mac) /\ RightMac(auxFile.mac))
  BY DEF KeygenInv, AuxInv
<1>4. keys' \in 0 .. MaxKeys /\ keys' # 0 /\ keys' # pub.key /\ pub'.key \in 0 .. keys'
      /\ nv.key \in 0 .. keys'
  BY <1>1, <1>2, KeysAssumption
<1>5. /\ nv'.key \in 0 .. keys'
      /\ nv'.key = 0 => nv'.field = BlankField
      /\ nv'.key # 0 => \E r \in Params : Stores(r)'
      /\ pub'.key # 0 /\ pub'.key = nv'.key => Stores(pub.p)'
  <2>1. CASE written = "failed"
    <3>1. nv' = nv
      BY <1>1, <2>1, Zenon
    <3> QED BY <1>1, <1>2, <1>4, <3>1 DEF Stores
  <2>2. CASE written # "failed"
    <3>1. nv' = [field |-> Compress(p), key |-> keys']
      BY <1>1, <2>2, Zenon
    <3>2. nv'.key = keys' /\ nv'.field = Compress(p)
      BY <3>1
    <3>3. Stores(p)'
      BY <1>1, <3>2 DEF Stores
    <3> QED BY <1>1, <1>4, <3>2, <3>3
  <2> QED BY <2>1, <2>2
<1>6. PublicKeyIsRoot'
  BY <1>1 DEF KeygenInv, PublicKeyIsRoot
<1>7. CASE written # "ok"
  <2>1. pc' = pc /\ call' = call /\ auxBuf' = auxBuf
    BY <1>7, Zenon DEF Generate
  <2>2. KeyInv'
    BY <1>1, <1>4, <1>5, <2>1 DEF KeyInv
  <2>3. AuxInv'
    BY <1>1, <1>3, <2>1 DEF AuxInv
  <2> QED BY <1>1, <1>6, <2>1, <2>2, <2>3 DEF KeygenInv, CallInv, ChooseInv, CombineInv
<1>8. CASE written = "ok"
  <2>1. /\ pc' = "choose"
        /\ call' = [key |-> keys', p |-> p, room |-> room, tracks |-> tracks,
                    level |-> p[1].lm - 1]
        /\ auxBuf' = IF room = NoBuffer THEN auxBuf ELSE StoreMarker(AuxLevels(p[1].lm, room))
    BY <1>8 DEF Generate
  <2>2. nv' = [field |-> Compress(p), key |-> keys']
    BY <1>1, <1>8
  <2>3. p[1].lm \in 5 .. 25
    BY <1>1, ParamsAssumption, CompressFacts DEF LmTypes, ParamLists
  <2>4. KeyInv'
    BY <1>1, <1>4, <1>5, <2>1 DEF KeyInv
  <2>5. AuxLevels(p[1].lm, room) \in SUBSET (1 .. p[1].lm - 1)
        /\ AuxLevels(p[1].lm, room) \in SUBSET (1 .. 24)
    <3>1. 1 .. p[1].lm - 1 \subseteq 1 .. 24
      BY <2>3
    <3> QED BY <3>1, AuxLevelsFacts
  <2>6. AuxShape(auxBuf') /\ (NeverLevelOneAlone => RightMac(auxBuf'.mac))
        /\ (room # NoBuffer => auxBuf'.levels = AuxLevels(p[1].lm, room))
    <3>1. \/ auxBuf' = auxBuf /\ (room # NoBuffer => auxBuf.levels = AuxLevels(p[1].lm, room))
          \/ auxBuf' = Marked(AuxLevels(p[1].lm, room))
      BY <2>1, Zenon DEF StoreMarker
    <3>2. CASE auxBuf' = auxBuf /\ (room # NoBuffer => auxBuf.levels = AuxLevels(p[1].lm, room))
      BY <1>3, <3>2
    <3>3. CASE auxBuf' = Marked(AuxLevels(p[1].lm, room))
      <4>1. AuxShape(Marked(AuxLevels(p[1].lm, room)))
            /\ Marked(AuxLevels(p[1].lm, room)).levels = AuxLevels(p[1].lm, room)
            /\ RightMac(Marked(AuxLevels(p[1].lm, room)).mac)
        BY <2>5, MarkedFacts
      <4> QED BY <3>3, <4>1, Zenon
    <3> QED BY <3>1, <3>2, <3>3
  <2>7. AuxInv'
    BY <1>1, <1>3, <2>6 DEF AuxInv
  <2>8. call'.key = keys' /\ call'.p = p /\ call'.room = room /\ call'.level = p[1].lm - 1
        /\ call'.tracks = tracks
    BY <2>1
  <2>9. CallInv'
    <3>1. call'.key = nv'.key /\ nv'.key # 0
      BY <1>4, <2>2, <2>8
    <3>2. Stores(call.p)'
      BY <1>1, <2>2, <2>8 DEF Stores
    <3>3. call'.level \in 1 .. Height' - 1
      BY <2>3, <2>8 DEF Height
    <3>4. HasBuffer' => /\ auxBuf'.levels = AuxLevels(Height', call'.room)
                        /\ \A l \in auxBuf'.levels : l <= call'.level
      <4>1. HasBuffer' => auxBuf'.levels = AuxLevels(p[1].lm, room)
        BY <2>6, <2>8 DEF HasBuffer
      <4>2. Height' = p[1].lm
        BY <2>8 DEF Height
      <4>3. \A l \in AuxLevels(p[1].lm, room) : l <= p[1].lm - 1
        <5> DEFINE levels == AuxLevels(p[1].lm, room)
        <5>1. levels \subseteq 1 .. p[1].lm - 1
          BY <2>5
        <5> HIDE DEF levels
        <5> QED BY <2>3, <5>1 DEF levels
      <4> QED BY <2>8, <4>1, <4>2, <4>3
    <3> QED BY <2>8, <3>1, <3>2, <3>3, <3>4 DEF CallInv
  <2>10. ChooseInv'
    BY <2>1, <2>8 DEF ChooseInv
  <2>11. CombineInv'
    BY <2>1 DEF CombineInv
  <2> QED BY <1>6, <2>4, <2>7, <2>9, <2>10, <2>11 DEF KeygenInv
<1> QED BY <1>7, <1>8

\* The next level up is still below the root, and at or below every level that is kept.
LEMMA NextLevelKeeps == ASSUME KeygenInv, NextLevel PROVE KeygenInv'
<1>1. /\ pc = "choose" /\ call.level > 1 /\ ~AtAuxLevel
      /\ call' = [call EXCEPT !.level = @ - 1]
      /\ nv' = nv /\ keys' = keys /\ pc' = pc /\ auxBuf' = auxBuf /\ auxFile' = auxFile /\ pub' = pub
  BY DEF NextLevel
<1>2. call = [key |-> call.key, p |-> call.p, room |-> call.room, tracks |-> call.tracks,
              level |-> call.level]
  BY <1>1, Zenon DEF KeygenInv, ChooseInv
<1>3. call' = [key |-> call.key, p |-> call.p, room |-> call.room, tracks |-> call.tracks,
               level |-> call.level - 1]
  BY <1>1, <1>2
<1>4. /\ call'.key = call.key /\ call'.p = call.p /\ call'.room = call.room
      /\ call'.tracks = call.tracks /\ call'.level = call.level - 1
  BY <1>3
<1>5. /\ Stores(call.p) /\ call.key = nv.key /\ nv.key # 0 /\ call.room \in Rooms
      /\ Height \in 5 .. 25 /\ call.level \in 1 .. Height - 1 /\ call.level \in 1 .. 24
      /\ HasBuffer => /\ auxBuf.levels = AuxLevels(Height, call.room)
                      /\ \A l \in auxBuf.levels : l <= call.level
  BY <1>1, CallFacts
<1>6. Height' = Height /\ HasBuffer' = HasBuffer
  BY <1>4 DEF Height, HasBuffer
<1>7. auxBuf.levels \in SUBSET (1 .. 24)
  BY Zenon DEF KeygenInv, AuxInv, AuxShape
<1>8. CallInv'
  <2>1. Stores(call.p)'
    BY <1>1, <1>4, <1>5 DEF Stores
  <2>2. call'.level \in 1 .. Height' - 1
    BY <1>1, <1>4, <1>5, <1>6
  <2>3. HasBuffer => \A l \in auxBuf.levels : l <= call.level - 1
    <3>1. HasBuffer => call.level \notin auxBuf.levels
      BY <1>1, Zenon DEF AtAuxLevel
    <3> QED BY <1>5, <1>7, <3>1
  <2> QED BY <1>1, <1>4, <1>5, <1>6, <2>1, <2>2, <2>3 DEF CallInv
<1>9. ChooseInv'
  BY <1>3, <1>4, Zenon DEF ChooseInv
<1>10. KeyInv' /\ AuxInv' /\ PublicKeyIsRoot'
  BY <1>1 DEF KeygenInv, KeyInv, Stores, AuxInv, PublicKeyIsRoot
<1>11. CombineInv'
  BY <1>1 DEF CombineInv
<1> QED BY <1>8, <1>9, <1>10, <1>11 DEF KeygenInv

\* The rows the work items compute are right, and go into the aux data when it keeps
\* their level.
LEMMA GenerateNodesKeeps ==
  ASSUME KeygenInv, NEW dest, GenerateNodes(dest)
  PROVE  KeygenInv'
<1> DEFINE row == RowOf(call.key, call.level)
           stack == [s \in 0 .. call.level |-> Junk]
<1>1. /\ pc = "choose" /\ dest \in Place /\ pc' = "combine"
      /\ auxBuf' = IF dest = "aux" THEN [auxBuf EXCEPT !.node[call.level] = row] ELSE auxBuf
      /\ call' = [key |-> call.key, p |-> call.p, room |-> call.room, tracks |-> call.tracks,
                  level |-> call.level, row |-> row, leaf |-> 0, stack |-> stack]
      /\ nv' = nv /\ keys' = keys /\ auxFile' = auxFile /\ pub' = pub
  BY DEF GenerateNodes
<1>2. /\ Stores(call.p) /\ call.key = nv.key /\ nv.key # 0 /\ call.room \in Rooms
      /\ call.p \in Params /\ CanCompress(call.p)
      /\ Height \in 0 .. 30 /\ call.level \in 0 .. Height
      /\ call.level \in 1 .. Height - 1 /\ call.level \in 1 .. 24
      /\ HasBuffer => /\ auxBuf.levels = AuxLevels(Height, call.room)
                      /\ \A l \in auxBuf.levels : l <= call.level
  BY <1>1, CallFacts
<1>3. \A n \in 0 .. 2 ^ call.level - 1 : row[n] = Node(RootTree(call.key), 2 ^ call.level + n)
  <2> TAKE n \in 0 .. 2 ^ call.level - 1
  <2>1. row[n] = ComputeInternalNode(RootTree(call.key), Height, 2 ^ call.level + n)
    BY DEF RowOf
  <2>2. 2 ^ call.level + n \in 2 ^ call.level .. 2 * 2 ^ call.level - 1
    <3> DEFINE c == 2 ^ call.level
    <3>1. call.level \in Nat
      BY <1>2
    <3>2. c \in Nat
      BY <3>1, PowerNat
    <3> HIDE DEF c
    <3>3. n \in 0 .. c - 1
      BY DEF c
    <3>4. c + n \in c .. 2 * c - 1
      BY <3>2, <3>3
    <3> QED BY <3>4 DEF c
  <2>3. ComputeInternalNode(RootTree(call.key), Height, 2 ^ call.level + n)
          = Node(RootTree(call.key), 2 ^ call.level + n)
    BY <1>2, <2>2, ComputedRight
  <2> QED BY <2>1, <2>3
<1>4. row = [n \in 0 .. 2 ^ call.level - 1 |-> row[n]]
  BY DEF RowOf
<1>5. stack = [s \in 0 .. call.level |-> stack[s]]
  OBVIOUS
<1>6. Stacked(stack, RootTree(call.key), 1, call.level, 0)
  BY <1>2, StackedEnds
<1> HIDE DEF row, stack
<1>7. /\ call'.key = call.key /\ call'.p = call.p /\ call'.room = call.room
      /\ call'.tracks = call.tracks /\ call'.level = call.level /\ call'.row = row
      /\ call'.leaf = 0 /\ call'.stack = stack
      /\ call' = [key |-> call'.key, p |-> call'.p, room |-> call'.room, tracks |-> call'.tracks,
                  level |-> call'.level, row |-> call'.row, leaf |-> call'.leaf,
                  stack |-> call'.stack]
  BY <1>1
<1>8. Height' = Height /\ HasBuffer' = HasBuffer
  BY <1>7 DEF Height, HasBuffer
<1>9. dest = "aux" => AtAuxLevel
  BY <1>1 DEF Place
<1>10. AuxShape(auxBuf)
  BY DEF KeygenInv, AuxInv
<1>11. AuxShape(auxBuf') /\ auxBuf'.levels = auxBuf.levels /\ auxBuf'.mac = auxBuf.mac
       /\ \A l \in auxBuf.levels :
            auxBuf'.node[l] = IF dest = "aux" /\ l = call.level THEN row ELSE auxBuf.node[l]
  <2>1. CASE dest # "aux"
    <3>1. auxBuf' = auxBuf
      BY <1>1, <2>1
    <3> QED BY <1>10, <2>1, <3>1
  <2>2. CASE dest = "aux"
    <3> DEFINE aux == auxBuf'
               nodes == [auxBuf.node EXCEPT ![call.level] = row]
    <3>1. auxBuf = [levels |-> auxBuf.levels, node |-> auxBuf.node, mac |-> auxBuf.mac]
          /\ auxBuf.levels \in SUBSET (1 .. 24)
          /\ auxBuf.node = [l \in auxBuf.levels |-> auxBuf.node[l]]
          /\ \A l \in auxBuf.levels : auxBuf.node[l] = [n \in 0 .. 2 ^ l - 1 |-> auxBuf.node[l][n]]
      BY <1>10, Zenon DEF AuxShape
    <3>2. call.level \in auxBuf.levels
      BY <1>9, <2>2, Zenon DEF AtAuxLevel
    <3>3. nodes = [l \in auxBuf.levels |-> IF l = call.level THEN row ELSE auxBuf.node[l]]
      BY <3>1, <3>2
    <3>4. aux = [auxBuf EXCEPT !.node = nodes]
      BY <1>1, <2>2, Zenon
    <3>5. aux = [levels |-> auxBuf.levels, node |-> nodes, mac |-> auxBuf.mac]
      <4> HIDE DEF nodes
      <4> QED BY <3>1, <3>4
    <3>6. \A l \in auxBuf.levels : nodes[l] = [n \in 0 .. 2 ^ l - 1 |-> nodes[l][n]]
      <4> TAKE l \in auxBuf.levels
      <4>1. nodes[l] = IF l = call.level THEN row ELSE auxBuf.node[l]
        BY <3>3
      <4> HIDE DEF nodes
      <4>2. CASE l = call.level
        BY <1>4, <4>1, <4>2
      <4>3. CASE l # call.level
        BY <3>1, <4>1, <4>3
      <4> QED BY <4>2, <4>3
    <3>7. nodes = [l \in auxBuf.levels |-> nodes[l]]
          /\ \A l \in auxBuf.levels : nodes[l] = IF l = call.level THEN row ELSE auxBuf.node[l]
      BY <3>3
    <3> HIDE DEF nodes, aux
    <3>8. aux.levels = auxBuf.levels /\ aux.mac = auxBuf.mac /\ aux.node = nodes
          /\ aux = [levels |-> aux.levels, node |-> aux.node, mac |-> aux.mac]
      BY <3>5
    <3>9. AuxShape(aux)
      <4> DEFINE L == aux.levels
                 N == aux.node
      <4>1. L = auxBuf.levels /\ N = nodes
        BY <3>8, Zenon
      <4> HIDE DEF L, N
      <4>2. N = [l \in L |-> N[l]] /\ (\A l \in L : N[l] = [n \in 0 .. 2 ^ l - 1 |-> N[l][n]])
            /\ L \in SUBSET (1 .. 24)
        BY <3>1, <3>6, <3>7, <4>1
      <4> QED BY <3>8, <4>2, Zenon DEF AuxShape, L, N
    <3> QED BY <2>2, <3>7, <3>8, <3>9 DEF aux
  <2> QED BY <2>1, <2>2
<1>12. NeverLevelOneAlone /\ HasBuffer => Saved(auxBuf', RootTree(call.key), call.level, 0)
  <2> SUFFICES ASSUME NeverLevelOneAlone, HasBuffer, NEW l \in auxBuf.levels,
                      NEW n \in 0 .. 2 ^ l - 1,
                      l = call.level \/ (n + 1) * 2 ^ (call.level - l) <= 0
               PROVE  auxBuf'.node[l][n] = Node(RootTree(call.key), 2 ^ l + n)
    BY <1>11 DEF Saved
  <2>1. l \in 1 .. 24 /\ l <= call.level /\ n \in Nat
    <3>1. auxBuf.levels \in SUBSET (1 .. 24)
      BY <1>10, Zenon DEF AuxShape
    <3>2. l \in 1 .. 24
      BY <3>1
    <3>3. l \in Nat
      BY <3>2
    <3>4. 2 ^ l \in Nat
      BY <3>3, PowerNat
    <3> QED BY <1>2, <3>2, <3>4
  <2>2. l = call.level
    <3> DEFINE c == 2 ^ (call.level - l)
    <3>1. call.level - l \in Nat
      BY <1>2, <2>1
    <3>2. c \in Nat /\ c >= 1
      BY <3>1, PowerPositive
    <3>3. l # call.level => (n + 1) * c <= 0
      OBVIOUS
    <3> HIDE DEF c
    <3>4. (n + 1) * c > 0
      BY <2>1, <3>2
    <3>5. (n + 1) * c \in Nat
      BY <2>1, <3>2
    <3> QED BY <3>3, <3>4, <3>5
  <2>3. call.level > 1
    <3>1. ASSUME call.level = 1 PROVE FALSE
      <4>1. \A m \in auxBuf.levels : m = 1
        <5>1. auxBuf.levels \in SUBSET (1 .. 24)
          BY <1>10, Zenon DEF AuxShape
        <5> QED BY <1>2, <3>1, <5>1
      <4>2. auxBuf.levels = {1}
        BY <2>2, <3>1, <4>1
      <4>3. call.room \in Rooms \ {NoBuffer}
        BY <1>2 DEF HasBuffer
      <4> QED BY <1>2, <4>2, <4>3, Zenon DEF NeverLevelOneAlone, Height
    <3> QED BY <1>2, <3>1
  <2>4. dest = "aux"
    <3>1. AtAuxLevel
      BY <2>2 DEF AtAuxLevel
    <3> QED BY <1>1, <2>3, <3>1 DEF Place
  <2>5. auxBuf'.node[l] = row
    BY <1>11, <2>2, <2>4, Zenon
  <2> QED BY <1>3, <2>2, <2>5, Zenon
<1>13. CombineInv'
  <2>1. call'.leaf \in 0 .. 2 ^ call'.level
    <3>1. call.level \in Nat
      BY <1>2
    <3>2. 2 ^ call.level \in Nat
      BY <3>1, PowerNat
    <3>3. 0 \in 0 .. 2 ^ call.level
      BY <3>2
    <3> QED BY <1>7, <3>3
  <2>2. \A n \in 0 .. 2 ^ call'.level - 1 :
          call'.row[n] = Node(RootTree(call'.key), 2 ^ call'.level + n)
    BY <1>3, <1>7
  <2>3. call'.stack = [s \in 0 .. call'.level |-> call'.stack[s]]
    BY <1>5, <1>7
  <2>4. Stacked(call'.stack, RootTree(call'.key), 1, call'.level, call'.leaf)
    BY <1>6, <1>7
  <2>5. NeverLevelOneAlone /\ HasBuffer' =>
          Saved(auxBuf', RootTree(call'.key), call'.level, call'.leaf)
    BY <1>7, <1>8, <1>12
  <2> QED BY <1>7, <2>1, <2>2, <2>3, <2>4, <2>5 DEF CombineInv, NeverLevelOneAlone
<1>14. CallInv'
  <2>1. Stores(call.p)'
    BY <1>1, <1>2, <1>7 DEF Stores
  <2> QED BY <1>1, <1>2, <1>7, <1>8, <1>11, <2>1 DEF CallInv
<1>15. ChooseInv'
  BY <1>1 DEF ChooseInv
<1>16. KeyInv' /\ PublicKeyIsRoot'
  BY <1>1 DEF KeygenInv, KeyInv, Stores, PublicKeyIsRoot
<1>17. AuxInv'
  BY <1>1, <1>11 DEF KeygenInv, AuxInv
<1> QED BY <1>13, <1>14, <1>15, <1>16, <1>17 DEF KeygenInv

\* After an error no key is stored, or the new one still is.
LEMMA GenerateFailedKeeps ==
  ASSUME KeygenInv, NEW written, GenerateFailed(written)
  PROVE  KeygenInv'
<1>1. /\ nv' = IF written = "failed" THEN nv ELSE [field |-> BlankField, key |-> 0]
      /\ pc' = "idle" /\ keys' = keys /\ auxBuf' = auxBuf /\ auxFile' = auxFile /\ pub' = pub
  BY DEF GenerateFailed
<1>2. CallInv' /\ ChooseInv' /\ CombineInv'
  BY <1>1 DEF CallInv, ChooseInv, CombineInv
<1>3. KeyInv'
  <2>1. CASE written = "failed"
    <3>1. nv' = nv
      BY <1>1, <2>1, Zenon
    <3> QED BY <1>1, <3>1 DEF KeygenInv, KeyInv, Stores
  <2>2. CASE written # "failed"
    <3>1. nv'.key = 0 /\ nv'.field = BlankField
      BY <1>1, <2>2
    <3>2. keys \in 0 .. MaxKeys /\ pub.key \in 0 .. keys
      BY DEF KeygenInv, KeyInv
    <3>3. 0 \in 0 .. keys
      BY <3>2, KeysAssumption
    <3> QED BY <1>1, <3>1, <3>2, <3>3 DEF KeyInv
  <2> QED BY <2>1, <2>2
<1>4. AuxInv' /\ PublicKeyIsRoot'
  BY <1>1 DEF KeygenInv, AuxInv, PublicKeyIsRoot
<1> QED BY <1>2, <1>3, <1>4 DEF KeygenInv

\* The walk up the stack completes the right nodes, and the aux data gets them.
LEMMA CombineLeafKeeps == ASSUME KeygenInv, CombineLeaf PROVE KeygenInv'
<1> DEFINE leaf == call.leaf
           level == call.level
           t == RootTree(call.key)
           off == TrailingOnes(call.leaf)
           up == Climb(call.stack, call.row[call.leaf], RootTree(call.key),
                       2 ^ call.level + call.leaf, TrailingOnes(call.leaf))
<1>1. /\ pc = "combine" /\ leaf < 2 ^ level
      /\ call' = [call EXCEPT !.leaf = @ + 1, !.stack[off] = up[off]]
      /\ auxBuf' = IF HasBuffer THEN SaveClimb(up, leaf) ELSE auxBuf
      /\ nv' = nv /\ keys' = keys /\ pc' = pc /\ auxFile' = auxFile /\ pub' = pub
  BY DEF CombineLeaf
<1>2. /\ Stores(call.p) /\ call.key = nv.key /\ nv.key # 0 /\ call.room \in Rooms
      /\ level \in 1 .. Height - 1 /\ level \in 1 .. 24
      /\ HasBuffer => /\ auxBuf.levels = AuxLevels(Height, call.room)
                      /\ \A l \in auxBuf.levels : l <= level
  BY <1>1, CallFacts
<1>3. /\ call = [key |-> call.key, p |-> call.p, room |-> call.room, tracks |-> call.tracks,
                 level |-> level, row |-> call.row, leaf |-> leaf, stack |-> call.stack]
      /\ leaf \in 0 .. 2 ^ level
      /\ \A n \in 0 .. 2 ^ level - 1 : call.row[n] = Node(t, 2 ^ level + n)
      /\ call.stack = [s \in 0 .. level |-> call.stack[s]]
      /\ Stacked(call.stack, t, 1, level, leaf)
      /\ NeverLevelOneAlone /\ HasBuffer => Saved(auxBuf, t, level, leaf)
  BY <1>1, Zenon DEF KeygenInv, CombineInv
<1>4. level \in 0 .. 30 /\ level \in Nat /\ 2 ^ level \in Nat
  <2>1. level \in 0 .. 30 /\ level \in Nat
    BY <1>2
  <2> QED BY <2>1, PowerNat
<1>5. leaf \in 0 .. 2 ^ level - 1 /\ leaf \in Nat
  <2> DEFINE c == 2 ^ level
  <2>1. c \in Nat /\ leaf \in 0 .. c /\ leaf < c
    BY <1>1, <1>3, <1>4, Zenon
  <2> HIDE DEF c, leaf, level
  <2>2. leaf \in 0 .. c - 1 /\ leaf \in Nat
    BY <2>1
  <2> QED BY <2>2 DEF c
<1>6. off \in 0 .. level /\ off \in Nat
  <2>1. off \in 0 .. level
    <3> HIDE DEF level, leaf
    <3> QED BY <1>4, <1>5, TrailingOnesFacts DEF leaf
  <2> HIDE DEF off, level
  <2> QED BY <1>4, <2>1
<1>7. up = Ancestors(t, 1, level, leaf, off)
  <2>1. ClimbsRight(call.stack, t, 1, level, leaf)
    <3>1. 1 \in Nat
      OBVIOUS
    <3> HIDE DEF t, level, leaf
    <3> QED BY <1>3, <1>4, <1>5, <3>1, ClimbRight
  <2>2. call.row[leaf] = Node(t, 2 ^ level + leaf)
    BY <1>3, <1>5, Zenon
  <2>3. 2 ^ level + leaf = 2 ^ level * 1 + leaf
    <3> DEFINE c == 2 ^ level
    <3>1. c \in Nat
      BY <1>4
    <3> HIDE DEF c
    <3>2. c + leaf = c * 1 + leaf
      BY <3>1, <1>5
    <3> QED BY <3>2 DEF c
  <2> HIDE DEF t, level, leaf
  <2>4. Climb(call.stack, Node(t, 2 ^ level + leaf), t, 2 ^ level + leaf, TrailingOnes(leaf))
          = Ancestors(t, 1, level, leaf, TrailingOnes(leaf))
    BY <2>1, <2>3, Zenon DEF ClimbsRight
  <2>5. Climb(call.stack, call.row[leaf], t, 2 ^ level + leaf, TrailingOnes(leaf))
          = Ancestors(t, 1, level, leaf, TrailingOnes(leaf))
    BY <2>2, <2>4, Zenon
  <2> QED BY <2>5 DEF t, level, leaf
<1> DEFINE stack == [call.stack EXCEPT ![off] = up[off]]
<1>21. call' = [call EXCEPT !.leaf = leaf + 1, !.stack = stack]
  BY <1>1, Zenon
<1> HIDE DEF up, off, leaf, level, t
<1>8. up[off] = Node(t, Ancestor(1, level, leaf, off)) /\ DOMAIN up = 0 .. off
  <2>1. off \in 0 .. off
    BY <1>6
  <2> QED BY <1>7, <2>1, Zenon DEF Ancestors
<1>9. call' = [key |-> call.key, p |-> call.p, room |-> call.room, tracks |-> call.tracks,
               level |-> level, row |-> call.row, leaf |-> leaf + 1, stack |-> stack]
  <2> DEFINE before == [key |-> call.key, p |-> call.p, room |-> call.room,
                        tracks |-> call.tracks, level |-> level, row |-> call.row, leaf |-> leaf,
                        stack |-> call.stack]
  <2>1. call' = [before EXCEPT !.leaf = leaf + 1, !.stack = stack]
    <3> HIDE DEF stack, before
    <3>1. call = before
      BY <1>3, Zenon DEF before
    <3> QED BY <1>21, <3>1, Zenon
  <2> HIDE DEF stack
  <2> QED BY <2>1
<1>10. stack[off] = up[off] /\ stack = [s \in 0 .. level |-> stack[s]]
       /\ \A s \in (0 .. level) \ {off} : stack[s] = call.stack[s]
  BY <1>3, <1>6
<1> HIDE DEF stack
<1>11. Stacked(stack, t, 1, level, leaf + 1)
  <2>1. 1 \in Nat
    OBVIOUS
  <2>2. stack[TrailingOnes(leaf)] = Node(t, Ancestor(1, level, leaf, TrailingOnes(leaf)))
        /\ \A s \in (0 .. level) \ {TrailingOnes(leaf)} : stack[s] = call.stack[s]
    BY <1>8, <1>10, Zenon DEF off, leaf
  <2> QED BY <1>3, <1>4, <1>5, <2>1, <2>2, StackedNext
<1>12. AuxShape(auxBuf) /\ AuxShape(auxFile)
       /\ (NeverLevelOneAlone => RightMac(auxBuf.mac) /\ RightMac(auxFile.mac))
  BY DEF KeygenInv, AuxInv
<1>13. /\ AuxShape(auxBuf') /\ auxBuf'.levels = auxBuf.levels /\ auxBuf'.mac = auxBuf.mac
       /\ NeverLevelOneAlone /\ HasBuffer => Saved(auxBuf', t, level, leaf + 1)
  <2>1. CASE ~HasBuffer
    <3>1. auxBuf' = auxBuf
      BY <1>1, <2>1, Zenon
    <3> QED BY <1>12, <2>1, <3>1
  <2>2. CASE HasBuffer
    <3>1. off = TrailingOnes(leaf) /\ call.level \in Nat
      BY <1>4 DEF off, leaf, level
    <3>2. SaveClimb(up, leaf) = SavedUp(auxBuf, level, leaf, up, off)
      <4>1. TrailingOnes(leaf) \in Nat /\ DOMAIN up = 0 .. TrailingOnes(leaf)
        BY <1>6, <1>8, <3>1, Zenon
      <4>2. SaveClimb(up, leaf) = SavedUp(auxBuf, call.level, leaf, up, TrailingOnes(leaf))
        BY <1>12, <3>1, <4>1, SavedClimb
      <4> QED BY <3>1, <4>2, Zenon DEF level
    <3>3. auxBuf' = SavedUp(auxBuf, level, leaf, up, off)
      BY <1>1, <2>2, <3>2, Zenon
    <3>4. /\ AuxShape(auxBuf') /\ auxBuf'.levels = auxBuf.levels /\ auxBuf'.mac = auxBuf.mac
          /\ Saved(auxBuf, t, level, leaf) => Saved(auxBuf', t, level, leaf + 1)
      <4>1. \A l \in auxBuf.levels : l <= level
        BY <1>2, <2>2, Zenon
      <4>2. AuxShape(auxBuf)
        BY <1>12
      <4>3. level \in 1 .. 24
        BY <1>2
      <4>4. off = TrailingOnes(leaf)
        BY <3>1
      <4>5. leaf \in 0 .. 2 ^ level - 1
        BY <1>5, Zenon
      <4> HIDE DEF leaf, level, off, up
      <4>6. \A after : after = SavedUp(auxBuf, level, leaf, up, off) =>
              /\ AuxShape(after) /\ after.levels = auxBuf.levels /\ after.mac = auxBuf.mac
              /\ Saved(auxBuf, t, level, leaf) => Saved(after, t, level, leaf + 1)
        <5> TAKE after
        <5> HAVE after = SavedUp(auxBuf, level, leaf, up, off)
        <5>1. AuxShape(after)
          BY <1>7, <4>1, <4>2, <4>3, <4>4, <4>5, SavedProgress
        <5>3. after.levels = auxBuf.levels /\ after.mac = auxBuf.mac
          BY DEF SavedUp
        <5>2. Saved(auxBuf, t, level, leaf) => Saved(after, t, level, leaf + 1)
          BY <1>7, <4>1, <4>2, <4>3, <4>4, <4>5, SavedProgress
        <5> QED BY <5>1, <5>2, <5>3
      <4> QED BY <3>3, <4>6, Zenon
    <3> QED BY <1>3, <2>2, <3>4, Zenon
  <2> QED BY <2>1, <2>2
<1>14. /\ call'.key = call.key /\ call'.p = call.p /\ call'.room = call.room
       /\ call'.tracks = call.tracks /\ call'.level = level /\ call'.row = call.row
       /\ call'.leaf = leaf + 1 /\ call'.stack = stack
       /\ call' = [key |-> call'.key, p |-> call'.p, room |-> call'.room, tracks |-> call'.tracks,
                   level |-> call'.level, row |-> call'.row, leaf |-> call'.leaf,
                   stack |-> call'.stack]
  BY <1>9
<1>15. Height' = Height /\ HasBuffer' = HasBuffer /\ RootTree(call'.key) = t
  BY <1>14 DEF Height, HasBuffer, t
<1>16. CombineInv'
  <2>1. call'.leaf \in 0 .. 2 ^ call'.level
    <3> DEFINE c == 2 ^ level
    <3>1. c \in Nat /\ leaf \in 0 .. c - 1
      BY <1>4, <1>5, Zenon
    <3> HIDE DEF c
    <3>2. leaf + 1 \in 0 .. c
      BY <3>1
    <3> QED BY <1>14, <3>2, Zenon DEF c
  <2>2. \A n \in 0 .. 2 ^ call'.level - 1 :
          call'.row[n] = Node(RootTree(call'.key), 2 ^ call'.level + n)
    BY <1>3, <1>14, <1>15, Zenon
  <2>3. call'.stack = [s \in 0 .. call'.level |-> call'.stack[s]]
    BY <1>10, <1>14
  <2>4. Stacked(call'.stack, RootTree(call'.key), 1, call'.level, call'.leaf)
    BY <1>11, <1>14, <1>15, Zenon
  <2>5. NeverLevelOneAlone /\ HasBuffer' =>
          Saved(auxBuf', RootTree(call'.key), call'.level, call'.leaf)
    BY <1>13, <1>14, <1>15, Zenon
  <2> QED BY <1>14, <2>1, <2>2, <2>3, <2>4, <2>5 DEF CombineInv, NeverLevelOneAlone
<1>17. CallInv'
  <2>1. Stores(call.p)'
    BY <1>1, <1>2, <1>14 DEF Stores
  <2> QED BY <1>1, <1>2, <1>13, <1>14, <1>15, <2>1 DEF CallInv
<1>18. ChooseInv'
  BY <1>1 DEF ChooseInv
<1>19. KeyInv' /\ PublicKeyIsRoot'
  BY <1>1 DEF KeygenInv, KeyInv, Stores, PublicKeyIsRoot
<1>20. AuxInv'
  BY <1>1, <1>12, <1>13 DEF AuxInv
<1> QED BY <1>16, <1>17, <1>18, <1>19, <1>20 DEF KeygenInv

\* When all leaves are combined the top of the stack is the root, and the MAC is taken
\* over complete levels.
LEMMA FinalizeKeeps == ASSUME KeygenInv, Finalize PROVE KeygenInv'
<1>1. /\ pc = "combine" /\ call.leaf = 2 ^ call.level
      /\ auxBuf' = IF HasBuffer THEN Finalized(auxBuf, call.key) ELSE auxBuf
      /\ pub' = [key |-> call.key, p |-> call.p, root |-> call.stack[call.level]]
      /\ pc' \in {"idle", "returned"}
      /\ nv' = nv /\ keys' = keys /\ auxFile' = auxFile
  BY DEF Finalize
<1>2. /\ Stores(call.p) /\ call.key = nv.key /\ call.level \in 1 .. 24
      /\ HasBuffer => \A l \in auxBuf.levels : l <= call.level
  BY <1>1, CallFacts
<1>3. /\ Stacked(call.stack, RootTree(call.key), 1, call.level, 2 ^ call.level)
      /\ NeverLevelOneAlone /\ HasBuffer =>
           Saved(auxBuf, RootTree(call.key), call.level, 2 ^ call.level)
  <2>1. /\ Stacked(call.stack, RootTree(call.key), 1, call.level, call.leaf)
        /\ NeverLevelOneAlone /\ HasBuffer =>
             Saved(auxBuf, RootTree(call.key), call.level, call.leaf)
    BY <1>1, Zenon DEF KeygenInv, CombineInv
  <2>2. call.leaf = 2 ^ call.level
    BY <1>1
  <2> QED BY <2>1, <2>2, Zenon
<1>4. call.stack[call.level] = Node(RootTree(call.key), 1)
  <2>1. call.level \in Nat /\ 1 \in Nat
    BY <1>2
  <2> QED BY <1>3, <2>1, StackedEnds
<1>5. pub'.key = nv.key /\ pub'.p = call.p /\ pub'.root = Node(RootTree(pub'.key), 1)
  BY <1>1, <1>2, <1>4
<1>6. CallInv' /\ ChooseInv' /\ CombineInv'
  BY <1>1 DEF CallInv, ChooseInv, CombineInv
<1>7. PublicKeyIsRoot'
  BY <1>5 DEF PublicKeyIsRoot
<1>8. KeyInv'
  <2>1. /\ keys \in 0 .. MaxKeys /\ nv.key \in 0 .. keys
        /\ nv.key = 0 => nv.field = BlankField
        /\ nv.key # 0 => \E r \in Params : Stores(r)
    BY DEF KeygenInv, KeyInv
  <2>2. Stores(pub.p)'
    BY <1>1, <1>2, <1>5 DEF Stores
  <2>3. (\E r \in Params : Stores(r))' <=> \E r \in Params : Stores(r)
    BY <1>1 DEF Stores
  <2>4. pc' \in {"idle", "choose", "combine", "returned"}
    BY <1>1
  <2> QED BY <1>1, <1>5, <2>1, <2>2, <2>3, <2>4, Zenon DEF KeyInv
<1>9. AuxShape(auxBuf) /\ AuxShape(auxFile)
      /\ (NeverLevelOneAlone => RightMac(auxBuf.mac) /\ RightMac(auxFile.mac))
  BY DEF KeygenInv, AuxInv
<1>10. AuxShape(auxBuf') /\ (NeverLevelOneAlone => RightMac(auxBuf'.mac))
  <2>1. CASE auxBuf' = auxBuf
    BY <1>9, <2>1
  <2>2. CASE auxBuf' # auxBuf
    <3> DEFINE mac == [key |-> call.key, levels |-> auxBuf.levels, node |-> auxBuf.node]
    <3>1. HasBuffer /\ auxBuf' = [auxBuf EXCEPT !.mac = mac]
      BY <1>1, <2>2, Zenon DEF Finalized
    <3>2. /\ auxBuf = [levels |-> auxBuf.levels, node |-> auxBuf.node, mac |-> auxBuf.mac]
          /\ auxBuf.levels \in SUBSET (1 .. 24)
          /\ auxBuf.node = [l \in auxBuf.levels |-> auxBuf.node[l]]
          /\ \A l \in auxBuf.levels : auxBuf.node[l] = [n \in 0 .. 2 ^ l - 1 |-> auxBuf.node[l][n]]
      BY <1>9, Zenon DEF AuxShape
    <3>3. mac.key = call.key /\ mac.levels = auxBuf.levels /\ mac.node = auxBuf.node
      OBVIOUS
    <3> HIDE DEF mac
    <3>4. auxBuf' = [levels |-> auxBuf.levels, node |-> auxBuf.node, mac |-> mac]
      <4> DEFINE aux == auxBuf'
      <4>1. aux = [auxBuf EXCEPT !.mac = mac]
        BY <3>1
      <4> HIDE DEF aux
      <4>2. aux = [levels |-> auxBuf.levels, node |-> auxBuf.node, mac |-> mac]
        BY <3>2, <4>1
      <4> QED BY <4>2 DEF aux
    <3>5. auxBuf'.levels = auxBuf.levels /\ auxBuf'.node = auxBuf.node /\ auxBuf'.mac = mac
      BY <3>4
    <3>6. AuxShape(auxBuf')
      <4> DEFINE aux == auxBuf'
      <4>1. aux.levels = auxBuf.levels /\ aux.node = auxBuf.node /\ aux.mac = mac
            /\ aux = [levels |-> aux.levels, node |-> aux.node, mac |-> aux.mac]
        BY <3>4
      <4> HIDE DEF aux
      <4> DEFINE L == aux.levels
                 N == aux.node
      <4>2. L = auxBuf.levels /\ N = auxBuf.node
        BY <4>1, Zenon
      <4> HIDE DEF L, N
      <4>3. N = [l \in L |-> N[l]] /\ (\A l \in L : N[l] = [n \in 0 .. 2 ^ l - 1 |-> N[l][n]])
            /\ L \in SUBSET (1 .. 24)
        BY <3>2, <4>2
      <4>4. AuxShape(aux)
        BY <4>1, <4>3, Zenon DEF AuxShape, L, N
      <4> QED BY <4>4 DEF aux
    <3>7. NeverLevelOneAlone => RightMac(mac)
      <4> SUFFICES ASSUME NeverLevelOneAlone, NEW l \in auxBuf.levels, NEW n \in 0 .. 2 ^ l - 1
                   PROVE  auxBuf.node[l][n] = Node(RootTree(call.key), 2 ^ l + n)
        <5>1. \A l \in auxBuf.levels : DOMAIN auxBuf.node[l] = 0 .. 2 ^ l - 1
          BY <3>2
        <5> QED BY <3>3, <5>1 DEF RightMac, RightNodes
      <4>1. Saved(auxBuf, RootTree(call.key), call.level, 2 ^ call.level)
        BY <1>3, <3>1
      <4>2. l \in Nat /\ call.level \in Nat /\ l <= call.level
        <5>1. l <= call.level
          BY <1>2, <3>1, Zenon
        <5>2. l \in 1 .. 24
          BY <3>2
        <5> QED BY <1>2, <5>1, <5>2
      <4>3. (n + 1) * 2 ^ (call.level - l) <= 2 ^ call.level
        <5> DEFINE a == 2 ^ l
                   b == 2 ^ (call.level - l)
        <5>1. 2 ^ call.level = a * b /\ call.level - l \in Nat
          BY <4>2, PowerQuotient
        <5>2. a \in Nat /\ b \in Nat
          BY <4>2, <5>1, PowerNat
        <5>3. n \in 0 .. a - 1
          OBVIOUS
        <5> HIDE DEF a, b
        <5>4. (n + 1) * b <= a * b
          BY <5>2, <5>3
        <5> QED BY <5>1, <5>4 DEF b
      <4> QED BY <4>1, <4>3, Zenon DEF Saved
    <3> QED BY <3>5, <3>6, <3>7
  <2> QED BY <2>1, <2>2
<1>11. AuxInv'
  BY <1>1, <1>9, <1>10 DEF AuxInv
<1> QED BY <1>6, <1>7, <1>8, <1>11 DEF KeygenInv

\* Saving copies the MAC together with what it was taken over.
LEMMA SaveAuxKeeps == ASSUME KeygenInv, SaveAux PROVE KeygenInv'
<1>1. pc' = "idle" /\ auxFile' = auxBuf /\ auxBuf' = auxBuf /\ nv' = nv /\ keys' = keys /\ pub' = pub
  BY DEF SaveAux
<1>2. CallInv' /\ ChooseInv' /\ CombineInv'
  BY <1>1 DEF CallInv, ChooseInv, CombineInv
<1>3. KeyInv' /\ PublicKeyIsRoot' /\ AuxInv'
  BY <1>1 DEF KeygenInv, KeyInv, Stores, PublicKeyIsRoot, AuxInv
<1> QED BY <1>2, <1>3 DEF KeygenInv

\* After a crash there is an empty buffer and the saved file.
LEMMA CrashKeeps == ASSUME KeygenInv, Crash PROVE KeygenInv'
<1>1. pc' = "idle" /\ auxFile' = auxFile /\ auxBuf' = Marked({}) /\ nv' = nv /\ keys' = keys
      /\ pub' = pub
  BY DEF Crash, NoAux
<1>2. CallInv' /\ ChooseInv' /\ CombineInv'
  BY <1>1 DEF CallInv, ChooseInv, CombineInv
<1>3. KeyInv' /\ PublicKeyIsRoot'
  BY <1>1 DEF KeygenInv, KeyInv, Stores, PublicKeyIsRoot
<1>4. AuxInv'
  <2>1. {} \in SUBSET (1 .. 24)
    OBVIOUS
  <2>2. AuxShape(Marked({})) /\ RightMac(Marked({}).mac)
    BY <2>1, MarkedFacts
  <2> QED BY <1>1, <2>2 DEF KeygenInv, AuxInv
<1> QED BY <1>2, <1>3, <1>4 DEF KeygenInv

\* Damage leaves the MAC of the aux data alone.
LEMMA DamageKeeps == ASSUME KeygenInv, Damage PROVE KeygenInv'
<1>1. pc = "idle" /\ pc' = pc /\ auxBuf' = auxBuf /\ nv' = nv /\ keys' = keys /\ pub' = pub
  BY DEF Damage
<1>2. CallInv' /\ ChooseInv' /\ CombineInv'
  BY <1>1 DEF CallInv, ChooseInv, CombineInv
<1>3. KeyInv' /\ PublicKeyIsRoot'
  BY <1>1 DEF KeygenInv, KeyInv, Stores, PublicKeyIsRoot
<1>4. AuxShape(auxFile)
  BY DEF KeygenInv, AuxInv
<1>5. /\ auxFile = [levels |-> auxFile.levels, node |-> auxFile.node, mac |-> auxFile.mac]
      /\ auxFile.levels \in SUBSET (1 .. 24)
      /\ auxFile.node = [l \in auxFile.levels |-> auxFile.node[l]]
      /\ \A l \in auxFile.levels : auxFile.node[l] = [n \in 0 .. 2 ^ l - 1 |-> auxFile.node[l][n]]
  BY <1>4, Zenon DEF AuxShape
<1> DEFINE Shaped(L, N) ==
             /\ L \in SUBSET (1 .. 24)
             /\ N = [l \in L |-> N[l]]
             /\ \A l \in L : N[l] = [n \in 0 .. 2 ^ l - 1 |-> N[l][n]]
<1>6. ASSUME NEW L, NEW N, Shaped(L, N), NEW aux, aux = [levels |-> L, node |-> N, mac |-> auxFile.mac]
      PROVE  AuxShape(aux) /\ aux.mac = auxFile.mac
  <2>1. aux.levels = L /\ aux.node = N /\ aux.mac = auxFile.mac
        /\ aux = [levels |-> aux.levels, node |-> aux.node, mac |-> aux.mac]
    BY <1>6
  <2> QED BY <1>6, <2>1, Zenon DEF AuxShape
<1>7. \E L, N : Shaped(L, N) /\ auxFile' = [levels |-> L, node |-> N, mac |-> auxFile.mac]
  <2>1. CASE \E l \in auxFile.levels : \E n \in {0, 2 ^ l - 1} :
               auxFile' = [auxFile EXCEPT !.node[l][n] = Junk]
    <3>0. PICK l \in auxFile.levels : \E n \in {0, 2 ^ l - 1} :
            auxFile' = [auxFile EXCEPT !.node[l][n] = Junk]
      BY <2>1, Zenon
    <3>1. PICK n \in {0, 2 ^ l - 1} : auxFile' = [auxFile EXCEPT !.node[l][n] = Junk]
      BY <3>0, Zenon
    <3> DEFINE row == [auxFile.node[l] EXCEPT ![n] = Junk]
               N == [auxFile.node EXCEPT ![l] = row]
               L == auxFile.levels
    <3>2. row = [m \in 0 .. 2 ^ l - 1 |-> row[m]]
      BY <1>5
    <3> HIDE DEF row
    <3>3. N = [m \in L |-> N[m]] /\ N[l] = row /\ \A m \in L \ {l} : N[m] = auxFile.node[m]
      BY <1>5
    <3>4. auxFile' = [auxFile EXCEPT !.node = N]
      BY <3>1, Zenon DEF row
    <3> HIDE DEF N
    <3>5. Shaped(L, N)
      <4>1. \A m \in L : N[m] = [k \in 0 .. 2 ^ m - 1 |-> N[m][k]]
        <5> TAKE m \in L
        <5>1. CASE m = l
          BY <3>2, <3>3, <5>1
        <5>2. CASE m # l
          BY <1>5, <3>3, <5>2
        <5> QED BY <5>1, <5>2
      <4> QED BY <1>5, <3>3, <4>1
    <3>6. auxFile' = [levels |-> L, node |-> N, mac |-> auxFile.mac]
      BY <1>5, <3>4
    <3> HIDE DEF L, Shaped
    <3> QED BY <3>5, <3>6
  <2>2. CASE \E l \in auxFile.levels :
               auxFile' = [auxFile EXCEPT !.levels = @ \ {l}, !.node = [m \in DOMAIN @ \ {l} |-> @[m]]]
    <3>1. PICK l \in auxFile.levels :
            auxFile' = [auxFile EXCEPT !.levels = @ \ {l}, !.node = [m \in DOMAIN @ \ {l} |-> @[m]]]
      BY <2>2, Zenon
    <3> DEFINE L == auxFile.levels \ {l}
               N == [m \in L |-> auxFile.node[m]]
    <3>2. DOMAIN auxFile.node = auxFile.levels
      BY <1>5
    <3>3. [m \in DOMAIN auxFile.node \ {l} |-> auxFile.node[m]] = N
      BY <3>2, Zenon
    <3>4. auxFile' = [auxFile EXCEPT !.levels = L, !.node = N]
      BY <3>1, <3>3, Zenon
    <3>5. Shaped(L, N)
      <4>1. L \in SUBSET (1 .. 24)
        BY <1>5
      <4>2. \A m \in L : N[m] = auxFile.node[m] /\ m \in auxFile.levels
        OBVIOUS
      <4>3. N = [m \in L |-> N[m]]
        BY <4>2
      <4> HIDE DEF N, L
      <4> QED BY <1>5, <4>1, <4>2, <4>3
    <3> HIDE DEF L, N
    <3>6. auxFile' = [levels |-> L, node |-> N, mac |-> auxFile.mac]
      BY <1>5, <3>4
    <3> HIDE DEF Shaped
    <3> QED BY <3>5, <3>6
  <2> QED BY <2>1, <2>2, Zenon DEF Damage
<1>8. AuxShape(auxFile') /\ auxFile'.mac = auxFile.mac
  <2>1. PICK L, N : Shaped(L, N) /\ auxFile' = [levels |-> L, node |-> N, mac |-> auxFile.mac]
    BY <1>7
  <2> HIDE DEF Shaped
  <2> QED BY <1>6, <2>1
<1>9. AuxInv'
  BY <1>1, <1>8 DEF KeygenInv, AuxInv
<1> QED BY <1>2, <1>3, <1>9 DEF KeygenInv

\* So every step of key generation preserves its invariant.
LEMMA KeygenKeeps ==
  ASSUME KeygenInv, KeygenNext
  PROVE  KeygenInv'
<1>1. CASE \E p \in Params, room \in Rooms, tracks \in Tracks,
              written \in {"ok", "failed", "failed_written"} : Generate(p, room, tracks, written)
  BY <1>1, GenerateKeeps
<1>2. CASE NextLevel
  BY <1>2, NextLevelKeeps
<1>3. CASE \E dest \in {"aux", "temp", "small"} : GenerateNodes(dest)
  BY <1>3, GenerateNodesKeeps
<1>4. CASE \E written \in {"ok", "failed"} : GenerateFailed(written)
  BY <1>4, GenerateFailedKeeps
<1>5. CASE CombineLeaf
  BY <1>5, CombineLeafKeeps
<1>6. CASE Finalize
  BY <1>6, FinalizeKeeps
<1>7. CASE SaveAux
  BY <1>7, SaveAuxKeeps
<1>8. CASE Crash
  BY <1>8, CrashKeeps
<1>9. CASE Damage
  BY <1>9, DamageKeeps
<1> QED BY <1>1, <1>2, <1>3, <1>4, <1>5, <1>6, <1>7, <1>8, <1>9 DEF KeygenNext

-----------------------------------------------------------------------------
(* What loading starts with. *)

\* A parameter set that agrees with the stored key is the one the key was made with.
LEMMA StoredFieldFacts ==
  ASSUME KeygenInv, NEW p, p \in Seq([lm : Nat, ots : Nat]), CanCompress(p), Compress(p) = nv.field
  PROVE  nv.key # 0 /\ Stores(p)
<1> DEFINE P == Params \cup {p}
<1>1. ParamLists(P)
  BY ParamsAssumption, Zenon DEF ParamLists
<1>2. p \in P /\ Params \subseteq P
  OBVIOUS
<1> HIDE DEF P
<1>3. nv.key # 0
  <2>1. Compress(p) # BlankField
    BY <1>1, <1>2, CompressFacts, Zenon
  <2>2. nv.key = 0 => nv.field = BlankField
    BY Zenon DEF KeygenInv, KeyInv
  <2> QED BY <2>1, <2>2, Zenon
<1>4. PICK r \in Params : Stores(r)
  BY <1>3, Zenon DEF KeygenInv, KeyInv
<1>5. r \in P /\ CanCompress(r) /\ Compress(r) = Compress(p)
  BY <1>2, <1>4, Zenon DEF Stores
<1>6. r = p
  BY <1>1, <1>2, <1>5, CompressFacts, Zenon
<1> QED BY <1>3, <1>4, <1>6, Zenon

\* What hss_get_parameter_set finds is a parameter set.
LEMMA ParameterSetFacts ==
  ASSUME NEW field, NEW beyond, GetParameterSet(field, beyond) # Rejected
  PROVE  GetParameterSet(field, beyond) \in Seq([lm : Nat, ots : Nat])
<1> DEFINE byte(x) == IF x < FieldLen THEN field[x] ELSE beyond[x % 2]
           T == {l \in 0 .. MaxLevels : l = MaxLevels \/ byte(2 * l) = End}
           levels == Min(T)
           p == [l \in 1 .. levels |-> [lm |-> byte(2 * l - 2), ots |-> byte(2 * l - 1)]]
<1>1. GetParameterSet(field, beyond) = p
      /\ \A l \in 0 .. levels - 1 : byte(2 * l) \in LmTypes /\ byte(2 * l + 1) \in OtsTypes
  BY Zenon DEF GetParameterSet
<1>2. levels \in Nat
  <2>1. MaxLevels = 8
    BY DEF MaxLevels
  <2>2. T \in SUBSET Nat /\ T # {}
    <3>1. 8 \in T
      BY <2>1
    <3>2. T \subseteq 0 .. 8
      BY <2>1
    <3> HIDE DEF T
    <3> QED BY <3>1, <3>2
  <2> HIDE DEF T
  <2>3. Min(T) \in T
    BY <2>2, MinFacts
  <2> QED BY <2>2, <2>3
<1> HIDE DEF levels, byte
<1>3. \A l \in 1 .. levels : [lm |-> byte(2 * l - 2), ots |-> byte(2 * l - 1)] \in [lm : Nat, ots : Nat]
  <2> TAKE l \in 1 .. levels
  <2> DEFINE k == l - 1
  <2>1. k \in 0 .. levels - 1 /\ 2 * k = 2 * l - 2 /\ 2 * k + 1 = 2 * l - 1
    BY <1>2
  <2> HIDE DEF k
  <2>2. byte(2 * k) \in LmTypes /\ byte(2 * k + 1) \in OtsTypes
    BY <1>1, <2>1, Zenon
  <2>3. LmTypes \subseteq Nat /\ OtsTypes \subseteq Nat
    BY DEF LmTypes, OtsTypes
  <2>4. byte(2 * l - 2) \in Nat /\ byte(2 * l - 1) \in Nat
    BY <2>1, <2>2, <2>3, Zenon
  <2> QED BY <2>4
<1>4. p \in [1 .. levels -> [lm : Nat, ots : Nat]]
  BY <1>3
<1>5. p \in Seq([lm : Nat, ots : Nat])
  <2> DEFINE S == [lm : Nat, ots : Nat]
  <2>1. p \in [1 .. levels -> S]
    BY <1>4
  <2> HIDE DEF p, S
  <2>2. p \in Seq(S)
    BY <1>2, <2>1
  <2> QED BY <2>2 DEF S
<1> QED BY <1>1, <1>5

\* A working key that is begun has the parameters of the stored key, and aux data only if
\* its MAC is that of the stored key.
LEMMA BeginKeeps ==
  ASSUME IInv, NEW p, p \in Seq([lm : Nat, ots : Nat]), NEW q \in LoadAt, NEW bottom \in Bottoms,
         NEW aux \in {auxFile, NoAux}, NEW plan \in Plans, Begin(p, q, bottom, aux, plan),
         UNCHANGED keygenVars
  PROVE  LoadInv'
<1> DEFINE found == IF Accepts(aux, nv.key) THEN aux ELSE NoAux
<1>1. nv' = nv /\ KeygenInv
  BY DEF keygenVars, IInv
<1>2. CASE ~(CanCompress(p) /\ Compress(p) = nv.field)
  <2>1. w' = [status |-> "incompatible", p |-> p, key |-> nv.key]
    BY <1>2, Zenon DEF Begin
  <2>2. w'.status = "incompatible"
    BY <2>1
  <2> QED BY <2>2 DEF LoadInv, BegunInv, ListedInv, ComputedInv
<1>3. CASE CanCompress(p) /\ Compress(p) = nv.field
  <2>1. w' = [status |-> "begun", p |-> p, key |-> nv.key, q |-> q, bottom |-> bottom,
              aux |-> found, plan |-> plan]
    BY <1>3, Zenon DEF Begin
  <2>2. nv.key # 0 /\ Stores(p)
    BY <1>1, <1>3, StoredFieldFacts, Zenon
  <2>3. AuxShape(auxFile) /\ (NeverLevelOneAlone => RightMac(auxFile.mac))
    BY <1>1, Zenon DEF KeygenInv, AuxInv
  <2>4. AuxShape(NoAux) /\ NoAux.levels = {}
    <3>1. {} \in SUBSET (1 .. 24)
      OBVIOUS
    <3> QED BY <3>1, MarkedFacts, Zenon DEF NoAux
  <2>5. AuxShape(found)
    BY <2>3, <2>4, Zenon
  <2>6. NeverLevelOneAlone => RightNodes(found.levels, found.node, nv.key)
    <3>1. CASE found = NoAux
      BY <2>4, <3>1, Zenon DEF RightNodes
    <3>2. CASE found # NoAux
      <4>1. found = auxFile /\ Accepts(auxFile, nv.key)
        BY <3>2, Zenon
      <4>2. auxFile.mac = [key |-> nv.key, levels |-> auxFile.levels, node |-> auxFile.node]
        BY <4>1, Zenon DEF Accepts
      <4>3. auxFile.mac.key = nv.key /\ auxFile.mac.levels = auxFile.levels
            /\ auxFile.mac.node = auxFile.node
        BY <4>2
      <4>4. NeverLevelOneAlone => RightNodes(auxFile.levels, auxFile.node, nv.key)
        BY <2>3, <4>3, Zenon DEF RightMac
      <4> QED BY <4>1, <4>4, Zenon
    <3> QED BY <3>1, <3>2
  <2> HIDE DEF found
  <2>7. /\ w'.status = "begun" /\ w'.p = p /\ w'.key = nv.key /\ w'.q = q /\ w'.bottom = bottom
        /\ w'.aux = found /\ w'.plan = plan
    BY <2>1
  <2>8. Stores(w.p)'
    BY <1>1, <2>2, <2>7 DEF Stores
  <2>9. BegunInv'
    BY <1>1, <2>2, <2>5, <2>6, <2>7, <2>8 DEF BegunInv, NeverLevelOneAlone
  <2>10. ListedInv' /\ ComputedInv'
    BY <2>7 DEF ListedInv, ComputedInv
  <2> QED BY <2>9, <2>10 DEF LoadInv
<1> QED BY <1>2, <1>3

-----------------------------------------------------------------------------
(* The geometry of the subtrees. *)

\* Rounding up a quotient.
LEMMA CeilFacts ==
  ASSUME NEW a \in Int, NEW d \in Nat, d > 0
  PROVE  /\ Ceil(a, d) \in Int
         /\ d * Ceil(a, d) >= a
         /\ d * (Ceil(a, d) - 1) < a
<1> DEFINE c == (a + d - 1) \div d
           r == (a + d - 1) % d
<1>1. a + d - 1 \in Int
  OBVIOUS
<1>2. c \in Int /\ r \in 0 .. d - 1 /\ a + d - 1 = d * c + r
  BY <1>1, DivMod
<1> HIDE DEF c, r
<1>3. d * c >= a /\ d * (c - 1) < a
  <2> DEFINE x == d * c
  <2>1. x \in Int /\ a + d - 1 = x + r /\ d * (c - 1) = x - d
    BY <1>2
  <2> HIDE DEF x
  <2>2. x >= a /\ x - d < a
    BY <1>2, <2>1
  <2> QED BY <2>1, <2>2 DEF x
<1> QED BY <1>2, <1>3 DEF c, Ceil

\* The working key has been begun: its parameters, and where it is loaded.
LoadParts ==
  w.p \in Params /\ CanCompress(w.p) /\ w.q \in LoadAt /\ w.bottom \in Bottoms /\ w.plan \in Plans

\* Each level has a height and a leaf.
LEMMA LevelFacts ==
  ASSUME LoadParts, NEW i \in 1 .. Last
  PROVE  /\ H(i) \in 5 .. 25 /\ H(i) \in Nat
         /\ SubSize(i) \in Nat /\ SubSize(i) > 0
         /\ w.q[i] \in 0 .. 2 ^ H(i) - 1
<1>1. DOMAIN w.p = 1 .. Last
  BY ParamsAssumption, LenProperties DEF LoadParts, Last
<1>2. H(i) \in 5 .. 25
  <2>1. H(i) \in LmTypes
    BY <1>1, Zenon DEF LoadParts, CanCompress, H
  <2> QED BY <2>1 DEF LmTypes
<1>3. SubSize(i) \in Nat /\ SubSize(i) > 0
  <2>1. w.bottom \in Nat \ {0}
    BY BottomsAssumption, Zenon DEF LoadParts
  <2>2. SubSize(i) \in {w.bottom, 2}
    BY Zenon DEF SubSize
  <2> QED BY <2>1, <2>2
<1>4. w.q[i] \in 0 .. 2 ^ H(i) - 1
  <2>1. i \in DOMAIN w.p
    BY <1>1
  <2> QED BY <2>1, LoadAtAssumption, Zenon DEF LoadParts, H
<1> QED BY <1>2, <1>3, <1>4

\* The subtrees of a level lie on top of one another, the lowest one ends at the leaves.
LEMMA SubtreeFacts ==
  ASSUME LoadParts, NEW i \in 1 .. Last, NEW j \in 0 .. Sublevels(i) - 1
  PROVE  /\ Sublevels(i) \in Nat
         /\ Below(i, j) \in Nat /\ SubHeight(i, j) \in Nat /\ SubHeight(i, j) >= 1
         /\ BottomLevel(i, j) \in 1 .. H(i) /\ BottomLevel(i, j) + Below(i, j) = H(i)
         /\ SubHeight(i, j) <= BottomLevel(i, j)
         /\ j < Sublevels(i) - 1 =>
              /\ j + 1 \in 0 .. Sublevels(i) - 1
              /\ Below(i, j) = SubHeight(i, j + 1) + Below(i, j + 1)
<1> DEFINE h == H(i)
           s == SubSize(i)
           m == Sublevels(i)
<1>1. h \in 5 .. 25 /\ s \in Nat /\ s > 0
  BY LevelFacts
<1>2. m = Ceil(h, s)
  BY DEF Sublevels, Ceil
<1>3. m \in Int /\ s * m >= h /\ s * (m - 1) < h
  <2> HIDE DEF h, s, m
  <2> QED BY <1>1, <1>2, CeilFacts
<1>4. m \in Nat /\ m >= 1
  <2> HIDE DEF h, s, m
  <2>1. ~(m <= 0)
    <3>1. ASSUME m <= 0 PROVE FALSE
      <4>1. s * m <= 0
        BY <1>1, <1>3, <3>1
      <4> QED BY <1>1, <1>3, <4>1
    <3> QED BY <3>1
  <2> QED BY <1>3, <2>1
<1>5. j \in 0 .. m - 1
  OBVIOUS
<1>6. /\ Below(i, j) = (m - 1 - j) * s
      /\ Below(i, 0) = (m - 1 - 0) * s
      /\ Below(i, j + 1) = (m - 1 - (j + 1)) * s
  BY DEF Below
<1>7. /\ SubHeight(i, j) = IF j = 0 THEN h - Below(i, 0) ELSE s
      /\ SubHeight(i, j + 1) = IF j + 1 = 0 THEN h - Below(i, 0) ELSE s
      /\ BottomLevel(i, j) = h - Below(i, j)
  BY DEF SubHeight, BottomLevel
<1> HIDE DEF h, s, m
<1>8. (m - 1 - j) * s \in Nat /\ (m - 1) * s = (m - 1 - j) * s + j * s /\ j * s \in Nat
      /\ (m - 1 - 0) * s = (m - 1) * s /\ (m - 1) * s < h /\ (m - 1) * s \in Nat
  <2>1. m - 1 \in Nat /\ m - 1 - j \in Nat /\ j \in Nat
    BY <1>4, <1>5
  <2>2. (m - 1) * s = s * (m - 1)
    BY <1>1, <2>1
  <2>3. (m - 1 - j) * s \in Nat /\ j * s \in Nat /\ (m - 1) * s \in Nat
    BY <1>1, <2>1
  <2>4. (m - 1) * s = (m - 1 - j) * s + j * s
    <3> DEFINE k == m - 1 - j
    <3>1. k \in Nat /\ m - 1 = k + j
      BY <2>1, <1>4
    <3> HIDE DEF k
    <3>2. (k + j) * s = k * s + j * s
      BY <1>1, <2>1, <3>1
    <3> QED BY <3>1, <3>2 DEF k
  <2>5. m - 1 - 0 = m - 1
    BY <1>4
  <2> QED BY <1>3, <2>2, <2>3, <2>4, <2>5
<1>9. j # 0 => j * s >= s
  <2>1. j \in Nat
    BY <1>5
  <2> QED BY <1>1, <2>1
<1> DEFINE b == (m - 1 - j) * s
           js == j * s
           top == (m - 1) * s
<1>10. /\ b \in Nat /\ js \in Nat /\ top \in Nat /\ top = b + js /\ top < h
       /\ (j # 0 => js >= s) /\ (j = 0 => js = 0)
       /\ Below(i, j) = b /\ Below(i, 0) = top
  <2>1. j = 0 => js = 0
    BY <1>1
  <2> QED BY <1>6, <1>8, <1>9, <2>1
<1> HIDE DEF b, js, top
<1>11. /\ Below(i, j) \in Nat /\ SubHeight(i, j) \in Nat /\ SubHeight(i, j) >= 1
       /\ BottomLevel(i, j) \in 1 .. h /\ BottomLevel(i, j) + Below(i, j) = h
       /\ SubHeight(i, j) <= BottomLevel(i, j)
  <2>1. SubHeight(i, j) = IF j = 0 THEN h - top ELSE s
    BY <1>7, <1>10, Zenon
  <2>2. BottomLevel(i, j) = h - b
    BY <1>7, <1>10, Zenon
  <2> QED BY <1>1, <1>10, <2>1, <2>2
<1>12. ASSUME j < m - 1
       PROVE  j + 1 \in 0 .. m - 1 /\ Below(i, j) = SubHeight(i, j + 1) + Below(i, j + 1)
  <2>1. j + 1 \in 0 .. m - 1 /\ j + 1 # 0
    BY <1>4, <1>5, <1>12
  <2>2. SubHeight(i, j + 1) = s
    BY <1>7, <2>1, Zenon
  <2>3. (m - 1 - j) * s = s + (m - 1 - (j + 1)) * s
    <3> DEFINE k == m - 1 - (j + 1)
    <3>1. k \in Int /\ m - 1 - j = k + 1
      BY <1>4, <1>5
    <3> HIDE DEF k
    <3>2. (k + 1) * s = s + k * s
      BY <1>1, <3>1
    <3> QED BY <3>1, <3>2 DEF k
  <2> QED BY <1>6, <2>1, <2>2, <2>3
<1> QED BY <1>4, <1>11, <1>12 DEF h, m

\* The leaves under a subtree, and the nodes on its bottom level.
LEMMA SizeFacts ==
  ASSUME LoadParts, NEW i \in 1 .. Last, NEW j \in 0 .. Sublevels(i) - 1,
         NEW b, b = 2 ^ Below(i, j), NEW s, s = 2 ^ SubHeight(i, j),
         NEW k, k = 2 ^ (BottomLevel(i, j) - SubHeight(i, j))
  PROVE  /\ b \in Nat /\ b > 0 /\ s \in Nat /\ s > 0 /\ k \in Nat /\ k > 0
         /\ Size(i, j) = b * s
         /\ 2 ^ BottomLevel(i, j) = s * k
         /\ 2 ^ H(i) = (b * s) * k
<1> DEFINE below == Below(i, j)
           height == SubHeight(i, j)
           bottom == BottomLevel(i, j)
<1>1. below \in Nat /\ height \in Nat /\ bottom \in Nat /\ bottom - height \in Nat
      /\ height <= bottom /\ bottom + below = H(i)
  <2>1. /\ below \in Nat /\ height \in Nat /\ bottom \in 1 .. H(i)
        /\ bottom + below = H(i) /\ height <= bottom
    BY SubtreeFacts
  <2>2. H(i) \in Nat
    BY LevelFacts
  <2> HIDE DEF below, height, bottom
  <2> QED BY <2>1, <2>2
<1>2. Size(i, j) = 2 ^ (height + below)
  BY DEF Size
<1>3. b = 2 ^ below /\ s = 2 ^ height /\ k = 2 ^ (bottom - height)
  OBVIOUS
<1> HIDE DEF below, height, bottom
<1>4. b \in Nat /\ b > 0 /\ s \in Nat /\ s > 0 /\ k \in Nat /\ k > 0
  BY <1>1, <1>3, PowerPositive
<1>5. Size(i, j) = b * s
  <2>1. 2 ^ (height + below) = s * b
    BY <1>1, <1>3, PowerSum
  <2> QED BY <1>2, <1>4, <2>1
<1>6. 2 ^ bottom = s * k
  BY <1>1, <1>3, PowerQuotient
<1>7. 2 ^ H(i) = (b * s) * k
  <2>1. 2 ^ (bottom + below) = 2 ^ bottom * 2 ^ below
    BY <1>1, PowerSum
  <2>2. (s * k) * b = (b * s) * k
    BY <1>4
  <2>3. 2 ^ bottom * 2 ^ below = (s * k) * b
    BY <1>3, <1>6, Zenon
  <2> QED BY <1>1, <2>1, <2>2, <2>3
<1> QED BY <1>4, <1>5, <1>6, <1>7 DEF bottom

\* Which orders there are.
IsActive(o, i, j) == o = ActiveOrder(i, j)
IsBuilding(o, i, j) == o = BuildingOrder(i, j) /\ j > 0 /\ o.left <= 2 ^ H(i) - 1
IsNext(o, i, j) == o = NextOrder(i, j) /\ i > 1 /\ o.count > 0

\* Every order is of one of the three kinds, and those of the first and the last are there.
LEMMA OrderCases ==
  /\ \A o \in Orders : \E i \in 1 .. Last : \E j \in 0 .. Sublevels(i) - 1 :
       IsActive(o, i, j) \/ IsBuilding(o, i, j) \/ IsNext(o, i, j)
  /\ \A i \in 1 .. Last : \A j \in 0 .. Sublevels(i) - 1 :
       /\ ActiveOrder(i, j) \in Orders
       /\ i > 1 /\ NextOrder(i, j).count > 0 => NextOrder(i, j) \in Orders
<1> DEFINE These(i, j) ==
      {ActiveOrder(i, j)}
      \cup {o \in {BuildingOrder(i, j)} : j > 0 /\ o.left <= 2 ^ H(i) - 1}
      \cup {o \in {NextOrder(i, j)} : i > 1 /\ o.count > 0}
<1>1. Orders = UNION {UNION {These(i, j) : j \in 0 .. Sublevels(i) - 1} : i \in 1 .. Last}
  BY Zenon DEF Orders
<1>2. \A i, j : \A o \in These(i, j) : IsActive(o, i, j) \/ IsBuilding(o, i, j) \/ IsNext(o, i, j)
  BY Zenon DEF IsActive, IsBuilding, IsNext
<1>3. \A i, j : /\ ActiveOrder(i, j) \in These(i, j)
                /\ i > 1 /\ NextOrder(i, j).count > 0 => NextOrder(i, j) \in These(i, j)
  BY Zenon
<1> HIDE DEF These
<1>4. \A o : o \in Orders <=> \E i \in 1 .. Last : \E j \in 0 .. Sublevels(i) - 1 : o \in These(i, j)
  BY <1>1
<1> QED BY <1>2, <1>3, <1>4, Zenon

\* The fields of the orders.
ActiveFields(o, i, j) ==
  /\ o.i = i /\ o.j = j /\ o.kind = "active"
  /\ o.left = LeftLeaf(i, j) /\ o.count = 2 ^ SubHeight(i, j)
  /\ o.done <=> InAux(i, j)
  /\ o.prev <=> j < Sublevels(i) - 1 /\ ~InAux(i, j)
  /\ o.at = (w.q[i] \div 2 ^ Below(i, j)) % 2 ^ SubHeight(i, j)

BuildingFields(o, i, j) ==
  /\ o.i = i /\ o.j = j /\ o.kind = "building"
  /\ o.left = LeftLeaf(i, j) + Size(i, j)
  /\ o.count = Ceil(w.q[i] - LeftLeaf(i, j) + Ahead(i), 2 ^ Below(i, j))
  /\ o.done <=> InAux(i, j)
  /\ ~o.prev
  /\ o.at = 0

NextFields(o, i, j) ==
  /\ o.i = i /\ o.j = j /\ o.kind = "next"
  /\ o.left = 0 /\ o.count = NextCount(i, j)
  /\ ~o.done
  /\ o.prev <=> j < Sublevels(i) - 1 /\ NextCount(i, j + 1) = 2 ^ SubHeight(i, j + 1)
  /\ o.at = 0

\* Each kind has its fields.
LEMMA OrderFields ==
  \A i, j : /\ ActiveFields(ActiveOrder(i, j), i, j)
            /\ BuildingFields(BuildingOrder(i, j), i, j)
            /\ NextFields(NextOrder(i, j), i, j)
<1> TAKE i, j
<1>1. ActiveFields(ActiveOrder(i, j), i, j)
  BY DEF ActiveFields, ActiveOrder
<1>2. BuildingFields(BuildingOrder(i, j), i, j)
  BY DEF BuildingFields, BuildingOrder
<1>3. NextFields(NextOrder(i, j), i, j)
  BY DEF NextFields, NextOrder
<1> QED BY <1>1, <1>2, <1>3

\* The lesser of two numbers.
LEMMA MinPair == \A a, b \in Int : Min({a, b}) = IF a <= b THEN a ELSE b
<1> TAKE a, b \in Int
<1>1. Min({a, b}) = CHOOSE m \in {a, b} : \A y \in {a, b} : m <= y
  BY Zenon DEF Min
<1>2. CASE a <= b
  BY <1>1, <1>2
<1>3. CASE ~(a <= b)
  BY <1>1, <1>3
<1> QED BY <1>2, <1>3

\* Where a leaf is among subtrees of size b * s, of which there are k.
LeafPlaced(b, s, k, q, z) ==
  /\ z \in 0 .. k - 1
  /\ q % (b * s) \in 0 .. b * s - 1
  /\ q - (q % (b * s)) = (b * s) * z
  /\ ((b * s) * z) \div b = s * z
  /\ (b * s) * z + b * s = (b * s) * (z + 1)
  /\ ((b * s) * (z + 1)) \div b = s * (z + 1)
  /\ (b * s) * (z + 1) <= (b * s) * k - 1 => z + 1 \in 0 .. k - 1
  /\ (q \div b) % s \in 0 .. s - 1
  /\ q \div b = s * z + ((q \div b) % s)

\* A leaf is in the subtree with its number divided by the size.
LEMMA LeafPlace ==
  ASSUME NEW b \in Nat, b > 0, NEW s \in Nat, s > 0, NEW k \in Nat, k > 0,
         NEW q \in 0 .. (b * s) * k - 1
  PROVE  LeafPlaced(b, s, k, q, q \div (b * s))
<1> DEFINE z == q \div (b * s)
<1> DEFINE d == b * s
<1>1. d \in Nat /\ d > 0
  OBVIOUS
<1>2. \A y \in Nat : (d * y) \div b = s * y
  <2> TAKE y \in Nat
  <2>1. s * y \in Int /\ d * y = b * (s * y) + 0 /\ 0 \in 0 .. b - 1 /\ d * y \in Int
    OBVIOUS
  <2> QED BY <2>1, DivModUnique
<1>3. (q \div b) % s \in 0 .. s - 1 /\ q \div b = s * ((q \div b) \div s) + ((q \div b) % s)
      /\ q \div d = (q \div b) \div s
  <2>1. q \in Int
    OBVIOUS
  <2>2. q \div d = (q \div b) \div s
    BY <2>1, DivModTwice
  <2>3. q \div b \in Int
    BY <2>1, DivMod
  <2> DEFINE y == q \div b
  <2> HIDE DEF y
  <2>4. y % s \in 0 .. s - 1 /\ y = s * (y \div s) + (y % s)
    BY <2>3, DivMod DEF y
  <2> QED BY <2>2, <2>4 DEF y
<1>4. q \in Nat /\ q < d * k
  <2> DEFINE y == d * k
  <2>1. y \in Int
    OBVIOUS
  <2>2. q \in 0 .. y - 1
    OBVIOUS
  <2> HIDE DEF y
  <2>3. q \in Nat /\ q < y
    BY <2>1, <2>2
  <2> QED BY <2>3 DEF y
<1>5. z = q \div d
  OBVIOUS
<1>6. q \div b = s * z + ((q \div b) % s)
  BY <1>3, <1>5, Zenon
<1> DEFINE r == q % d
<1> HIDE DEF d
<1>7. r \in 0 .. d - 1 /\ q = d * z + r /\ z \in Nat
  BY <1>1, <1>4, <1>5, DivMod
<1> HIDE DEF r
<1>8. z < k
  <2>1. ASSUME z >= k PROVE FALSE
    <3>1. d * z >= d * k
      BY <1>1, <1>7, <2>1
    <3> DEFINE x == d * z
               y == d * k
    <3>2. x \in Int /\ y \in Int /\ x >= y /\ q = x + r /\ q < y
      BY <1>1, <1>4, <1>7, <3>1
    <3> HIDE DEF x, y
    <3> QED BY <1>1, <1>4, <1>7, <3>2
  <2> QED BY <1>7, <2>1
<1>9. q - r = d * z
  <2> DEFINE x == d * z
  <2>1. x \in Int /\ q = x + r
    BY <1>1, <1>7
  <2> HIDE DEF x
  <2>2. q - r = x
    BY <1>1, <1>4, <1>7, <2>1
  <2> QED BY <2>2 DEF x
<1>10. d * z + d = d * (z + 1)
  BY <1>1, <1>7
<1>11. d * (z + 1) <= d * k - 1 => z + 1 \in 0 .. k - 1
  <2>1. ASSUME z + 1 >= k PROVE d * (z + 1) >= d * k
    BY <1>1, <1>7, <2>1
  <2> DEFINE x == d * (z + 1)
             y == d * k
  <2>2. x \in Int /\ y \in Int
    BY <1>1, <1>7
  <2>3. z + 1 >= k => x >= y
    BY <2>1
  <2> HIDE DEF x, y
  <2>4. x <= y - 1 => z + 1 \in 0 .. k - 1
    BY <1>7, <2>2, <2>3
  <2> QED BY <2>4 DEF x, y
<1>12. (d * z) \div b = s * z /\ (d * (z + 1)) \div b = s * (z + 1)
  <2>1. z \in Nat /\ z + 1 \in Nat
    BY <1>7
  <2> QED BY <1>2, <2>1, Zenon
<1> QED BY <1>3, <1>6, <1>7, <1>8, <1>9, <1>10, <1>11, <1>12 DEF d, r, LeafPlaced

\* The nodes that cover some leaves of a subtree are nodes of the subtree.
LEMMA CeilBounds ==
  ASSUME NEW b \in Nat, b > 0, NEW s \in Nat, NEW a \in 0 .. b * s
  PROVE  Ceil(a, b) \in 0 .. s
<1> DEFINE c == Ceil(a, b)
<1>1. a \in Int /\ a >= 0 /\ a <= b * s
  OBVIOUS
<1>2. c \in Int /\ b * c >= a /\ b * (c - 1) < a
  BY <1>1, CeilFacts
<1> HIDE DEF c
<1>3. ~(c < 0)
  <2>1. ASSUME c < 0 PROVE FALSE
    <3>1. b * c < 0
      BY <1>2, <2>1
    <3> QED BY <1>1, <1>2, <3>1
  <2> QED BY <2>1
<1>4. ~(c > s)
  <2>1. ASSUME c > s PROVE FALSE
    <3>1. b * (c - 1) >= b * s
      BY <1>2, <2>1
    <3> DEFINE x == b * (c - 1)
               y == b * s
    <3>2. x \in Int /\ y \in Int /\ x >= y /\ x < a /\ a <= y
      BY <1>1, <1>2, <3>1
    <3> HIDE DEF x, y
    <3> QED BY <1>1, <3>2
  <2> QED BY <2>1
<1> QED BY <1>2, <1>3, <1>4 DEF c

\* A subtree for the next tree never gets more than all its nodes.
LEMMA NextCountFacts ==
  ASSUME LoadParts, NEW i \in 1 .. Last, NEW j \in 0 .. Sublevels(i) - 1
  PROVE  NextCount(i, j) \in 0 .. 2 ^ SubHeight(i, j)
<1> DEFINE n == Ceil(w.q[i] + Ahead(i), 2 ^ Below(i, j))
           s == 2 ^ SubHeight(i, j)
           least == IF Below(i, j) > 0 THEN 1 ELSE 0
<1>1. NextCount(i, j) = IF n <= least THEN 0 ELSE Min({n, s})
  BY DEF NextCount
<1>2. s \in Nat
  <2>1. SubHeight(i, j) \in Nat
    BY SubtreeFacts
  <2> QED BY <2>1, PowerNat
<1>3. n \in Int
  <2> DEFINE b == 2 ^ Below(i, j)
             a == w.q[i] + Ahead(i)
  <2>1. Below(i, j) \in Nat
    BY SubtreeFacts
  <2>2. b \in Nat /\ b > 0
    BY <2>1, PowerPositive
  <2>3. a \in Int
    <3>1. w.q[i] \in 0 .. 2 ^ H(i) - 1
      BY LevelFacts
    <3>2. w.q[i] \in Int
      BY <3>1
    <3>3. Ahead(i) \in Int
      BY DEF Ahead
    <3> QED BY <3>2, <3>3
  <2> HIDE DEF a, b
  <2>4. Ceil(a, b) \in Int
    BY <2>2, <2>3, CeilFacts
  <2> QED BY <2>4 DEF a, b
<1>4. least \in {0, 1}
  OBVIOUS
<1> HIDE DEF n, s, least
<1>5. Min({n, s}) = IF n <= s THEN n ELSE s
  BY <1>2, <1>3, MinPair
<1>6. (IF n <= least THEN 0 ELSE Min({n, s})) \in 0 .. s
  BY <1>2, <1>3, <1>4, <1>5
<1> QED BY <1>1, <1>6 DEF s

\* Every order is for the leftmost nodes of a subtree of its level.
Placed(o) ==
  /\ o.i \in 1 .. Last /\ o.j \in 0 .. Sublevels(o.i) - 1
  /\ o.count \in 0 .. 2 ^ SubHeightOf(o)
  /\ \E k \in 0 .. 2 ^ (BottomLevel(o.i, o.j) - SubHeightOf(o)) - 1 :
       o.left \div 2 ^ BelowOf(o) = 2 ^ SubHeightOf(o) * k
  /\ o.done <=> (o.kind # "next" /\ InAux(o.i, o.j))

\* So are all the orders of a working key.
LEMMA OrdersPlaced == ASSUME LoadParts PROVE \A o \in Orders : Placed(o)
<1> SUFFICES ASSUME NEW o \in Orders PROVE Placed(o)
  OBVIOUS
<1>1. PICK i \in 1 .. Last : \E j \in 0 .. Sublevels(i) - 1 :
        IsActive(o, i, j) \/ IsBuilding(o, i, j) \/ IsNext(o, i, j)
  BY OrderCases, Zenon
<1>2. PICK j \in 0 .. Sublevels(i) - 1 : IsActive(o, i, j) \/ IsBuilding(o, i, j) \/ IsNext(o, i, j)
  BY <1>1, Zenon
<1> DEFINE b == 2 ^ Below(i, j)
           s == 2 ^ SubHeight(i, j)
           k == 2 ^ (BottomLevel(i, j) - SubHeight(i, j))
           q == w.q[i]
           z == q \div (b * s)
<1>3. b \in Nat /\ b > 0 /\ s \in Nat /\ s > 0 /\ k \in Nat /\ k > 0 /\ Size(i, j) = b * s
      /\ 2 ^ H(i) = (b * s) * k
  BY SizeFacts
<1>4. q \in 0 .. 2 ^ H(i) - 1
  BY LevelFacts
<1>5. q \in 0 .. (b * s) * k - 1
  BY <1>3, <1>4, Zenon
<1>6. LeftLeaf(i, j) = q - (q % (b * s))
  BY <1>3, Zenon DEF LeftLeaf
<1>7. Ahead(i) \in {0, 1}
  BY DEF Ahead
<1>8. SUFFICES /\ o.i = i /\ o.j = j /\ o.count \in 0 .. s
               /\ \E y \in 0 .. k - 1 : o.left \div b = s * y
               /\ o.done <=> (o.kind # "next" /\ InAux(i, j))
  BY Zenon DEF Placed, SubHeightOf, BelowOf
<1> HIDE DEF b, s, k, q
<1>13. LeafPlaced(b, s, k, q, z)
  BY <1>3, <1>5, LeafPlace
<1> HIDE DEF z
<1>9. /\ z \in 0 .. k - 1
      /\ q % (b * s) \in 0 .. b * s - 1
      /\ q - (q % (b * s)) = (b * s) * z
      /\ ((b * s) * z) \div b = s * z
      /\ (b * s) * z + b * s = (b * s) * (z + 1)
      /\ ((b * s) * (z + 1)) \div b = s * (z + 1)
      /\ (b * s) * (z + 1) <= (b * s) * k - 1 => z + 1 \in 0 .. k - 1
  BY <1>13, Zenon DEF LeafPlaced
<1>10. CASE IsActive(o, i, j)
  <2>1. o.i = i /\ o.j = j /\ o.kind = "active" /\ o.left = LeftLeaf(i, j) /\ o.count = s
        /\ (o.done <=> InAux(i, j))
    BY <1>10, OrderFields, Zenon DEF IsActive, ActiveFields, s
  <2>2. s \in 0 .. s
    BY <1>3
  <2>3. o.left = (b * s) * z
    BY <1>6, <1>9, <2>1, Zenon
  <2>4. o.left \div b = s * z
    BY <1>9, <2>3, Zenon
  <2>5. \E y \in 0 .. k - 1 : o.left \div b = s * y
    BY <1>9, <2>4, Zenon
  <2>6. o.done <=> (o.kind # "next" /\ InAux(i, j))
    BY <2>1, Zenon
  <2> QED BY <2>1, <2>2, <2>5, <2>6, Zenon
<1>11. CASE IsBuilding(o, i, j)
  <2>1. o.i = i /\ o.j = j /\ o.kind = "building" /\ o.left = LeftLeaf(i, j) + Size(i, j)
        /\ o.count = Ceil(q - LeftLeaf(i, j) + Ahead(i), b) /\ (o.done <=> InAux(i, j))
        /\ o.left <= 2 ^ H(i) - 1
    BY <1>11, OrderFields, Zenon DEF IsBuilding, BuildingFields, b, q
  <2>2. o.left = (b * s) * (z + 1)
    BY <1>3, <1>6, <1>9, <2>1, Zenon
  <2>3. z + 1 \in 0 .. k - 1
    BY <1>3, <1>9, <2>1, <2>2, Zenon
  <2>4. o.left \div b = s * (z + 1)
    BY <1>9, <2>2, Zenon
  <2>5. o.count \in 0 .. s
    <3> DEFINE r == q % (b * s)
               d == b * s
    <3>1. r \in 0 .. d - 1 /\ d \in Nat /\ LeftLeaf(i, j) = q - r
      BY <1>3, <1>6, <1>9
    <3>2. q \in Int
      BY <1>5
    <3> HIDE DEF r, d
    <3>3. q - LeftLeaf(i, j) + Ahead(i) \in 0 .. d
      BY <1>7, <3>1, <3>2
    <3>4. q - LeftLeaf(i, j) + Ahead(i) \in 0 .. b * s
      BY <3>3 DEF d
    <3>5. Ceil(q - LeftLeaf(i, j) + Ahead(i), b) \in 0 .. s
      BY <1>3, <3>4, CeilBounds
    <3> QED BY <2>1, <3>5
  <2>6. \E y \in 0 .. k - 1 : o.left \div b = s * y
    BY <2>3, <2>4, Zenon
  <2>7. o.done <=> (o.kind # "next" /\ InAux(i, j))
    BY <2>1, Zenon
  <2> QED BY <2>1, <2>5, <2>6, <2>7, Zenon
<1>12. CASE IsNext(o, i, j)
  <2>1. o.i = i /\ o.j = j /\ o.kind = "next" /\ o.left = 0 /\ o.count = NextCount(i, j)
        /\ ~o.done
    BY <1>12, OrderFields, Zenon DEF IsNext, NextFields
  <2>2. NextCount(i, j) \in 0 .. s
    BY NextCountFacts DEF s
  <2>3. 0 \in 0 .. k - 1 /\ 0 \div b = 0 /\ s * 0 = 0
    <3>1. 0 \in Int /\ 0 = b * 0 + 0 /\ 0 \in 0 .. b - 1
      BY <1>3
    <3>2. 0 \div b = 0
      BY <1>3, <3>1, DivModUnique
    <3> QED BY <1>3, <3>2
  <2> QED BY <2>1, <2>2, <2>3
<1> QED BY <1>2, <1>10, <1>11, <1>12

\* The nodes an order asks for are on the bottom level of its subtree, from a node on
\* that is below the subtree's root and leftmost there.
OrderNodes(o) ==
  /\ SubHeightOf(o) \in Nat /\ BelowOf(o) \in Nat
  /\ H(o.i) \in 0 .. 30 /\ BottomLevel(o.i, o.j) \in 0 .. H(o.i)
  /\ BottomLevel(o.i, o.j) + BelowOf(o) = H(o.i)
  /\ \E y \in Nat : FirstNode(o) = 2 ^ SubHeightOf(o) * y
  /\ FirstNode(o) \in Nat
  /\ \A n \in 0 .. o.count - 1 :
       /\ n \in Nat
       /\ o.left \div 2 ^ BelowOf(o) + n \in 0 .. 2 ^ BottomLevel(o.i, o.j) - 1
       /\ FirstNode(o) + n \in 2 ^ BottomLevel(o.i, o.j) .. 2 * 2 ^ BottomLevel(o.i, o.j) - 1
       /\ 2 ^ BottomLevel(o.i, o.j) + (o.left \div 2 ^ BelowOf(o) + n) = FirstNode(o) + n

\* This follows from the place of the order.
LEMMA OrderNodesFacts == ASSUME LoadParts, NEW o, Placed(o) PROVE OrderNodes(o)
<1> DEFINE i == o.i
           j == o.j
           b == 2 ^ Below(i, j)
           s == 2 ^ SubHeight(i, j)
           k == 2 ^ (BottomLevel(i, j) - SubHeight(i, j))
<1>1. i \in 1 .. Last /\ j \in 0 .. Sublevels(i) - 1 /\ o.count \in 0 .. s
      /\ \E y \in 0 .. k - 1 : o.left \div b = s * y
  BY Zenon DEF Placed, SubHeightOf, BelowOf
<1>2. /\ b \in Nat /\ b > 0 /\ s \in Nat /\ s > 0 /\ k \in Nat /\ k > 0
      /\ 2 ^ BottomLevel(i, j) = s * k
  BY <1>1, SizeFacts
<1>3. /\ Below(i, j) \in Nat /\ SubHeight(i, j) \in Nat
      /\ BottomLevel(i, j) \in 1 .. H(i) /\ BottomLevel(i, j) + Below(i, j) = H(i)
  BY <1>1, SubtreeFacts
<1>4. H(i) \in 5 .. 25
  BY <1>1, LevelFacts
<1>5. H(i) \in 0 .. 30 /\ BottomLevel(i, j) \in 0 .. H(i)
  BY <1>3, <1>4
<1>6. PICK y \in 0 .. k - 1 : o.left \div b = s * y
  BY <1>1, Zenon
<1>7. FirstNode(o) = s * y + s * k
  BY <1>2, <1>6, Zenon DEF FirstNode, BelowOf
<1> HIDE DEF b, s, k, i, j
<1>8. y \in Nat /\ y <= k - 1
  BY <1>2
<1>9. FirstNode(o) = s * (y + k) /\ y + k \in Nat /\ FirstNode(o) \in Nat
  BY <1>2, <1>7, <1>8
<1>10. ASSUME NEW n \in 0 .. o.count - 1
       PROVE  /\ n \in Nat
              /\ s * y + n \in 0 .. s * k - 1
              /\ FirstNode(o) + n \in s * k .. 2 * (s * k) - 1
              /\ s * k + (s * y + n) = FirstNode(o) + n
  <2>1. n \in Nat /\ n <= s - 1
    BY <1>1, <1>2
  <2>2. s * y + s <= s * k
    BY <1>2, <1>8
  <2> DEFINE u == s * y
             v == s * k
  <2>3. u \in Nat /\ v \in Nat /\ u + s <= v /\ FirstNode(o) = u + v
    BY <1>2, <1>7, <1>8, <2>2
  <2> HIDE DEF u, v
  <2>4. /\ u + n \in 0 .. v - 1
        /\ FirstNode(o) + n \in v .. 2 * v - 1
        /\ v + (u + n) = FirstNode(o) + n
    BY <1>2, <2>1, <2>3
  <2> QED BY <2>1, <2>4 DEF u, v
<1>11. \E x \in Nat : FirstNode(o) = s * x
  BY <1>9
<1>12. \A n \in 0 .. o.count - 1 :
         /\ n \in Nat
         /\ o.left \div b + n \in 0 .. 2 ^ BottomLevel(i, j) - 1
         /\ FirstNode(o) + n \in 2 ^ BottomLevel(i, j) .. 2 * 2 ^ BottomLevel(i, j) - 1
         /\ 2 ^ BottomLevel(i, j) + (o.left \div b + n) = FirstNode(o) + n
  BY <1>2, <1>6, <1>10, Zenon
<1> QED BY <1>3, <1>5, <1>9, <1>11, <1>12, Zenon DEF OrderNodes, SubHeightOf, BelowOf, b, s, i, j

\* The order below, from which an order takes one node: it is the only one for that
\* subtree, it is cheaper, it fills all of its subtree, and its root is the node.
IsSource(source, o) ==
  /\ source \in Orders
  /\ source.i = o.i /\ source.j = o.j + 1 /\ source.kind = o.kind
  /\ \A r \in Orders : r.i = o.i /\ r.j = o.j + 1 /\ r.kind = o.kind => r = source
  /\ Cost(source) \in Nat /\ Cost(o) \in Nat /\ Cost(source) < Cost(o)
  /\ source.count = 2 ^ SubHeightOf(source)
  /\ FirstNode(source) \div 2 ^ SubHeightOf(source) = FirstNode(o) + o.at
  /\ o.at \in 0 .. o.count - 1

\* There is one order of each kind for a subtree.
LEMMA OneOrder ==
  \A o, r \in Orders : o.i = r.i /\ o.j = r.j /\ o.kind = r.kind => o = r
<1>1. ASSUME NEW o \in Orders
      PROVE  \/ o.kind = "active" /\ o = ActiveOrder(o.i, o.j)
             \/ o.kind = "building" /\ o = BuildingOrder(o.i, o.j)
             \/ o.kind = "next" /\ o = NextOrder(o.i, o.j)
  <2>1. PICK i \in 1 .. Last : \E j \in 0 .. Sublevels(i) - 1 :
          IsActive(o, i, j) \/ IsBuilding(o, i, j) \/ IsNext(o, i, j)
    BY OrderCases, Zenon
  <2>2. PICK j \in 0 .. Sublevels(i) - 1 : IsActive(o, i, j) \/ IsBuilding(o, i, j) \/ IsNext(o, i, j)
    BY <2>1, Zenon
  <2>3. \/ o = ActiveOrder(i, j) \/ o = BuildingOrder(i, j) \/ o = NextOrder(i, j)
    BY <2>2, Zenon DEF IsActive, IsBuilding, IsNext
  <2>4. CASE o = ActiveOrder(i, j)
    BY <2>4, OrderFields, Zenon DEF ActiveFields
  <2>5. CASE o = BuildingOrder(i, j)
    BY <2>5, OrderFields, Zenon DEF BuildingFields
  <2>6. CASE o = NextOrder(i, j)
    BY <2>6, OrderFields, Zenon DEF NextFields
  <2> QED BY <2>3, <2>4, <2>5, <2>6
<1>2. "active" # "building" /\ "active" # "next" /\ "building" # "next"
  OBVIOUS
<1> QED BY <1>1, <1>2, Zenon

\* What an order that is not done costs grows with the leaves below.
LEMMA CostFacts ==
  ASSUME NEW source, NEW o, ~o.done, BelowOf(source) \in Nat, BelowOf(o) \in Nat,
         BelowOf(source) < BelowOf(o)
  PROVE  Cost(source) \in Nat /\ Cost(o) \in Nat /\ Cost(source) < Cost(o)
<1> DEFINE x == 2 ^ BelowOf(source)
           y == 2 ^ BelowOf(o)
<1>1. x \in Nat /\ x >= 1 /\ y \in Nat /\ 2 * x <= y
  BY PowerPositive, PowerMonotone
<1>2. Cost(o) = y
  BY Zenon DEF Cost
<1>3. Cost(source) \in {0, x}
  BY Zenon DEF Cost
<1> HIDE DEF x, y
<1> QED BY <1>1, <1>2, <1>3

\* An order that takes a node from below has such a source.
LEMMA SourceFacts ==
  ASSUME LoadParts, NEW o \in Orders, o.prev
  PROVE  \E source : IsSource(source, o)
<1>1. PICK i \in 1 .. Last : \E j \in 0 .. Sublevels(i) - 1 :
        IsActive(o, i, j) \/ IsBuilding(o, i, j) \/ IsNext(o, i, j)
  BY OrderCases, Zenon
<1>2. PICK j \in 0 .. Sublevels(i) - 1 : IsActive(o, i, j) \/ IsBuilding(o, i, j) \/ IsNext(o, i, j)
  BY <1>1, Zenon
<1>3. ~IsBuilding(o, i, j)
  BY OrderFields, Zenon DEF IsBuilding, BuildingFields
<1>4. o.i = i /\ o.j = j /\ j < Sublevels(i) - 1
  <2>1. CASE IsActive(o, i, j)
    BY <2>1, OrderFields, Zenon DEF IsActive, ActiveFields
  <2>2. CASE IsNext(o, i, j)
    BY <2>2, OrderFields, Zenon DEF IsNext, NextFields
  <2> QED BY <1>2, <1>3, <2>1, <2>2
<1> DEFINE jj == j + 1
           b == 2 ^ Below(i, j)
           s == 2 ^ SubHeight(i, j)
           k == 2 ^ (BottomLevel(i, j) - SubHeight(i, j))
           bb == 2 ^ Below(i, jj)
           ss == 2 ^ SubHeight(i, jj)
           kk == 2 ^ (BottomLevel(i, jj) - SubHeight(i, jj))
           q == w.q[i]
           z == q \div (b * s)
           zz == q \div (bb * ss)
<1>5. /\ Below(i, j) \in Nat /\ jj \in 0 .. Sublevels(i) - 1
      /\ Below(i, j) = SubHeight(i, jj) + Below(i, jj)
      /\ BottomLevel(i, j) + Below(i, j) = H(i) /\ BottomLevel(i, j) \in Nat
  <2>1. BottomLevel(i, j) \in 1 .. H(i)
    BY SubtreeFacts
  <2>2. BottomLevel(i, j) \in Nat
    BY <2>1
  <2> QED BY <1>4, <2>2, SubtreeFacts
<1>6. /\ Below(i, jj) \in Nat /\ SubHeight(i, jj) \in Nat /\ SubHeight(i, jj) >= 1
      /\ BottomLevel(i, jj) + Below(i, jj) = H(i) /\ BottomLevel(i, jj) \in Nat
  <2>1. BottomLevel(i, jj) \in 1 .. H(i)
    BY <1>5, SubtreeFacts
  <2>2. BottomLevel(i, jj) \in Nat
    BY <2>1
  <2> HIDE DEF jj
  <2> QED BY <1>5, <2>2, SubtreeFacts
<1>7. BottomLevel(i, jj) - SubHeight(i, jj) = BottomLevel(i, j) /\ Below(i, jj) < Below(i, j)
  <2>1. H(i) \in Nat
    BY LevelFacts
  <2> HIDE DEF jj
  <2> QED BY <1>5, <1>6, <2>1
<1>8. /\ b \in Nat /\ b > 0 /\ s \in Nat /\ s > 0 /\ k \in Nat /\ k > 0
      /\ Size(i, j) = b * s /\ 2 ^ BottomLevel(i, j) = s * k /\ 2 ^ H(i) = (b * s) * k
  BY SizeFacts
<1>9. /\ bb \in Nat /\ bb > 0 /\ ss \in Nat /\ ss > 0 /\ kk \in Nat /\ kk > 0
      /\ Size(i, jj) = bb * ss /\ 2 ^ BottomLevel(i, jj) = ss * kk /\ 2 ^ H(i) = (bb * ss) * kk
  <2> HIDE DEF jj
  <2> QED BY <1>5, SizeFacts
<1>10. b = bb * ss /\ kk = s * k
  <2>1. 2 ^ (SubHeight(i, jj) + Below(i, jj)) = ss * bb
    BY <1>6, PowerSum
  <2>2. ss * bb = bb * ss
    BY <1>9
  <2>3. b = bb * ss
    BY <1>5, <2>1, <2>2, Zenon
  <2>4. kk = s * k
    BY <1>7, <1>8, Zenon
  <2> QED BY <2>3, <2>4
<1>11. q \in 0 .. 2 ^ H(i) - 1
  BY LevelFacts
<1> HIDE DEF b, s, k, bb, ss, kk, q
<1>12. LeafPlaced(b, s, k, q, z) /\ LeafPlaced(bb, ss, kk, q, zz)
  <2>1. q \in 0 .. (b * s) * k - 1 /\ q \in 0 .. (bb * ss) * kk - 1
    BY <1>8, <1>9, <1>11, Zenon
  <2> QED BY <1>8, <1>9, <2>1, LeafPlace
<1>13. zz = q \div b
  BY <1>10, Zenon
<1> HIDE DEF z, zz
<1> DEFINE a == (q \div b) % s
<1>14. /\ z \in 0 .. k - 1 /\ q - (q % (b * s)) = (b * s) * z /\ ((b * s) * z) \div b = s * z
       /\ a \in 0 .. s - 1 /\ q \div b = s * z + a
       /\ q - (q % (bb * ss)) = (bb * ss) * zz /\ ((bb * ss) * zz) \div bb = ss * zz
  BY <1>12, Zenon DEF LeafPlaced
<1> HIDE DEF a
<1>15. \A y \in Int : (ss * y) \div ss = y
  <2> TAKE y \in Int
  <2>1. ss * y = ss * y + 0 /\ 0 \in 0 .. ss - 1 /\ ss * y \in Int
    BY <1>9
  <2> HIDE DEF ss
  <2> QED BY <1>9, <2>1, DivModUnique
<1>16. z \in Nat /\ zz \in Int /\ zz = s * z + a
  <2>1. z \in Nat
    BY <1>8, <1>14
  <2>2. s * z + a \in Int
    BY <1>8, <1>14, <2>1
  <2> QED BY <1>13, <1>14, <2>1, <2>2
<1>17. CASE IsActive(o, i, j)
  <2> DEFINE source == ActiveOrder(i, jj)
  <2>1. /\ o.kind = "active" /\ o.left = LeftLeaf(i, j) /\ o.count = s /\ o.at = a /\ ~o.done
    BY <1>17, OrderFields, Zenon DEF IsActive, ActiveFields, s, a, b, q
  <2>2. /\ source.i = i /\ source.j = jj /\ source.kind = "active"
        /\ source.left = LeftLeaf(i, jj) /\ source.count = ss
    BY OrderFields, Zenon DEF ActiveFields, ss
  <2>3. source \in Orders
    BY <1>5, OrderCases, Zenon
  <2> HIDE DEF source, jj
  <2>4. SubHeightOf(source) = SubHeight(i, jj) /\ BelowOf(source) = Below(i, jj)
        /\ SubHeightOf(o) = SubHeight(i, j) /\ BelowOf(o) = Below(i, j)
    BY <1>4, <2>2, Zenon DEF SubHeightOf, BelowOf
  <2>5. FirstNode(o) = s * z + s * k
    <3>1. FirstNode(o) = LeftLeaf(i, j) \div b + 2 ^ BottomLevel(i, j)
      BY <1>4, <2>1, <2>4, Zenon DEF FirstNode, b
    <3>2. LeftLeaf(i, j) = (b * s) * z
      BY <1>8, <1>14, Zenon DEF LeftLeaf, q
    <3> QED BY <1>8, <1>14, <3>1, <3>2, Zenon
  <2>6. FirstNode(source) = ss * zz + ss * kk
    <3>1. FirstNode(source) = LeftLeaf(i, jj) \div bb + 2 ^ BottomLevel(i, jj)
      BY <2>2, <2>4, Zenon DEF FirstNode, bb
    <3>2. LeftLeaf(i, jj) = (bb * ss) * zz
      BY <1>9, <1>14, Zenon DEF LeftLeaf, q
    <3> QED BY <1>9, <1>14, <3>1, <3>2, Zenon
  <2>7. FirstNode(source) \div ss = FirstNode(o) + o.at
    <3>1. FirstNode(source) = ss * (zz + kk) /\ zz + kk \in Int
      BY <1>9, <1>16, <2>6
    <3>2. FirstNode(source) \div ss = zz + kk
      BY <1>15, <3>1, Zenon
    <3>3. zz + kk = (s * z + s * k) + a
      <4> DEFINE x == s * z
                 y == s * k
      <4>1. x \in Int /\ y \in Int /\ zz = x + a /\ kk = y /\ a \in Int
        BY <1>8, <1>10, <1>14, <1>16
      <4> HIDE DEF x, y
      <4>2. zz + kk = (x + y) + a
        BY <4>1
      <4> QED BY <4>2 DEF x, y
    <3> QED BY <2>1, <2>5, <3>2, <3>3
  <2>8. \A r \in Orders : r.i = o.i /\ r.j = o.j + 1 /\ r.kind = o.kind => r = source
    BY <1>4, <2>1, <2>2, <2>3, OneOrder, Zenon DEF jj
  <2>9. Cost(source) \in Nat /\ Cost(o) \in Nat /\ Cost(source) < Cost(o)
    BY <1>5, <1>6, <1>7, <2>1, <2>4, CostFacts
  <2>10. IsSource(source, o)
    BY <1>4, <1>14, <2>1, <2>2, <2>3, <2>4, <2>7, <2>8, <2>9, Zenon DEF IsSource, ss, jj
  <2> QED BY <2>10
<1>18. CASE IsNext(o, i, j)
  <2> DEFINE source == NextOrder(i, jj)
  <2>1. /\ o.kind = "next" /\ o.left = 0 /\ o.count = NextCount(i, j) /\ o.at = 0 /\ ~o.done
        /\ i > 1 /\ o.count > 0 /\ NextCount(i, jj) = ss
    BY <1>18, OrderFields, Zenon DEF IsNext, NextFields, ss
  <2>2. /\ source.i = i /\ source.j = jj /\ source.kind = "next"
        /\ source.left = 0 /\ source.count = ss
    BY <2>1, OrderFields, Zenon DEF NextFields
  <2>3. source \in Orders
    <3>1. NextOrder(i, jj).count > 0
      BY <1>9, <2>2
    <3> QED BY <1>5, <2>1, <3>1, OrderCases, Zenon
  <2> HIDE DEF source, jj
  <2>4. SubHeightOf(source) = SubHeight(i, jj) /\ BelowOf(source) = Below(i, jj)
        /\ SubHeightOf(o) = SubHeight(i, j) /\ BelowOf(o) = Below(i, j)
    BY <1>4, <2>2, Zenon DEF SubHeightOf, BelowOf
  <2>5. \A d \in Nat : d > 0 => 0 \div d = 0
    <3> TAKE d \in Nat
    <3> HAVE d > 0
    <3>1. 0 \in Int /\ 0 = d * 0 + 0 /\ 0 \in 0 .. d - 1
      OBVIOUS
    <3> QED BY <3>1, DivModUnique
  <2>6. FirstNode(o) = s * k
    <3>1. FirstNode(o) = 0 \div b + 2 ^ BottomLevel(i, j)
      BY <1>4, <2>1, <2>4, Zenon DEF FirstNode, b
    <3>2. FirstNode(o) = 0 + s * k
      BY <1>8, <2>5, <3>1, Zenon
    <3> QED BY <1>8, <3>2
  <2>7. FirstNode(source) = ss * kk
    <3>1. FirstNode(source) = 0 \div bb + 2 ^ BottomLevel(i, jj)
      BY <2>2, <2>4, Zenon DEF FirstNode, bb
    <3>2. FirstNode(source) = 0 + ss * kk
      BY <1>9, <2>5, <3>1, Zenon
    <3> QED BY <1>9, <3>2
  <2>8. FirstNode(source) \div ss = FirstNode(o) + o.at
    <3>1. FirstNode(source) \div ss = kk
      <4>1. kk \in Int
        BY <1>9
      <4> QED BY <1>15, <2>7, <4>1, Zenon
    <3>2. s * k + 0 = s * k
      BY <1>8
    <3> QED BY <1>10, <2>1, <2>6, <3>1, <3>2, Zenon
  <2>9. \A r \in Orders : r.i = o.i /\ r.j = o.j + 1 /\ r.kind = o.kind => r = source
    BY <1>4, <2>1, <2>2, <2>3, OneOrder, Zenon DEF jj
  <2>10. Cost(source) \in Nat /\ Cost(o) \in Nat /\ Cost(source) < Cost(o)
    BY <1>5, <1>6, <1>7, <2>1, <2>4, CostFacts
  <2>11. o.at \in 0 .. o.count - 1
    <3>1. o.count \in 0 .. s
      BY <2>1, NextCountFacts DEF s
    <3> QED BY <1>8, <2>1, <3>1
  <2>12. IsSource(source, o)
    BY <1>4, <2>1, <2>2, <2>3, <2>4, <2>8, <2>9, <2>10, <2>11, Zenon DEF IsSource, ss, jj
  <2> QED BY <2>12
<1> QED BY <1>2, <1>3, <1>17, <1>18

-----------------------------------------------------------------------------
(* The nodes that work items are issued for. *)

\* The nodes of a request, and requests that have every node of a set once.
Span(r) == r[1] .. r[1] + r[2] - 1

Covers(P, T) ==
  /\ \A r \in P : \A x \in Span(r) : x \in T
  /\ \A x \in T : \E r \in P : x \in Span(r)
  /\ \A r, s \in P : \A x : x \in Span(r) /\ x \in Span(s) => r = s

\* Requests for two disjoint sets make requests for their union.
LEMMA CoversUnion ==
  ASSUME NEW P, NEW Q, NEW S, NEW T, Covers(P, S), Covers(Q, T), \A x \in S : x \notin T
  PROVE  Covers(P \cup Q, S \cup T)
<1>1. \A r \in P \cup Q : \A x \in Span(r) : x \in S \cup T
  BY Zenon DEF Covers
<1>2. \A x \in S \cup T : \E r \in P \cup Q : x \in Span(r)
  BY Zenon DEF Covers
<1>3. \A r, s \in P \cup Q : \A x : x \in Span(r) /\ x \in Span(s) => r = s
  <2> TAKE r, s \in P \cup Q
  <2> TAKE x
  <2> HAVE x \in Span(r) /\ x \in Span(s)
  <2>1. CASE x \in S
    <3>1. r \in P /\ s \in P
      BY <2>1, Zenon DEF Covers
    <3> QED BY <3>1, Zenon DEF Covers
  <2>2. CASE x \notin S
    <3>1. r \in Q /\ s \in Q
      BY <2>2, Zenon DEF Covers
    <3> QED BY <3>1, Zenon DEF Covers
  <2> QED BY <2>1, <2>2
<1> QED BY <1>1, <1>2, <1>3, Zenon DEF Covers

\* As many at a time as allowed: the pieces of a range have each number in it once.
LEMMA PiecesCover ==
  ASSUME w.plan.chunk \in Nat \ {0}, NEW n \in Nat, NEW right \in Int, right >= n - 1
  PROVE  Covers(Pieces(n, right), n .. right - 1)
<1> DEFINE chunk == w.plan.chunk
           c == Ceil(right - n, chunk)
           Piece(k) == <<n + chunk * k, Min({chunk, right - (n + chunk * k)})>>
<1>1. chunk \in Nat /\ chunk > 0
  OBVIOUS
<1>2. Pieces(n, right) = {Piece(k) : k \in 0 .. c - 1}
  BY Zenon DEF Pieces
<1> HIDE DEF chunk
<1>3. c \in Int /\ chunk * c >= right - n /\ chunk * (c - 1) < right - n
  <2>1. right - n \in Int
    OBVIOUS
  <2> QED BY <1>1, <2>1, CeilFacts
<1> HIDE DEF c
<1>4. \A k \in 0 .. c - 1 :
        /\ chunk * k \in Nat /\ chunk * k < right - n
        /\ Piece(k)[1] = n + chunk * k
        /\ Piece(k)[2] \in Nat /\ Piece(k)[2] <= chunk /\ n + chunk * k + Piece(k)[2] <= right
        /\ (Piece(k)[2] = chunk \/ n + chunk * k + Piece(k)[2] = right)
  <2> TAKE k \in 0 .. c - 1
  <2>1. k \in Nat /\ k <= c - 1
    BY <1>3
  <2>2. chunk * k \in Nat /\ chunk * k <= chunk * (c - 1)
    BY <1>1, <1>3, <2>1
  <2> DEFINE y == chunk * k
             z == chunk * (c - 1)
             rest == right - (n + y)
  <2>3. y \in Nat /\ z \in Int /\ y <= z /\ z < right - n
    BY <1>1, <1>3, <2>2
  <2>4. rest \in Nat /\ rest > 0
    <3> HIDE DEF y, z
    <3> QED BY <2>3
  <2>5. Piece(k)[1] = n + y /\ Piece(k)[2] = Min({chunk, rest})
    OBVIOUS
  <2>6. Min({chunk, rest}) = IF chunk <= rest THEN chunk ELSE rest
    <3> HIDE DEF rest
    <3> QED BY <1>1, <2>4, MinPair
  <2>7. rest = right - (n + y)
    OBVIOUS
  <2> HIDE DEF Piece, rest, y, z
  <2>8. /\ y \in Nat /\ y < right - n /\ Piece(k)[1] = n + y
        /\ Piece(k)[2] \in Nat /\ Piece(k)[2] <= chunk /\ n + y + Piece(k)[2] <= right
        /\ (Piece(k)[2] = chunk \/ n + y + Piece(k)[2] = right)
    BY <1>1, <2>3, <2>4, <2>5, <2>6, <2>7
  <2> QED BY <2>8 DEF y
<1> HIDE DEF Piece
<1>5. \A r \in Pieces(n, right) : \A x \in Span(r) : x \in n .. right - 1
  <2> SUFFICES ASSUME NEW k \in 0 .. c - 1, NEW x \in Span(Piece(k)) PROVE x \in n .. right - 1
    BY <1>2, Zenon
  <2> DEFINE y == chunk * k
             m == Piece(k)[2]
  <2>1. y \in Nat /\ m \in Nat /\ n + y + m <= right /\ Span(Piece(k)) = n + y .. n + y + m - 1
    BY <1>4 DEF Span
  <2> HIDE DEF y, m
  <2> QED BY <2>1
<1>6. \A x \in n .. right - 1 : \E r \in Pieces(n, right) : x \in Span(r)
  <2> TAKE x \in n .. right - 1
  <2> DEFINE k == (x - n) \div chunk
             e == (x - n) % chunk
  <2>1. x \in Int /\ n <= x /\ x < right
    OBVIOUS
  <2>2. k \in Int /\ e \in 0 .. chunk - 1 /\ x - n = chunk * k + e
    <3>1. x - n \in Int
      OBVIOUS
    <3> QED BY <1>1, <3>1, DivMod
  <2> HIDE DEF k, e
  <2>3. k \in 0 .. c - 1
    <3>1. ~(k < 0)
      <4>1. ASSUME k < 0 PROVE FALSE
        <5>1. chunk * k <= 0 - chunk
          BY <1>1, <2>2, <4>1
        <5> DEFINE y == chunk * k
        <5>2. y \in Int /\ y <= 0 - chunk /\ x - n = y + e
          BY <1>1, <2>2, <5>1
        <5> HIDE DEF y
        <5> QED BY <1>1, <2>1, <2>2, <5>2
      <4> QED BY <4>1
    <3>2. ~(k >= c)
      <4>1. ASSUME k >= c PROVE FALSE
        <5>1. chunk * k >= chunk * c
          BY <1>1, <1>3, <2>2, <4>1
        <5> DEFINE y == chunk * k
                   z == chunk * c
        <5>2. y \in Int /\ z \in Int /\ y >= z /\ z >= right - n /\ x - n = y + e
          BY <1>1, <1>3, <2>2, <5>1
        <5> HIDE DEF y, z
        <5> QED BY <1>1, <2>1, <2>2, <5>2
      <4> QED BY <4>1
    <3> QED BY <1>3, <2>2, <3>1, <3>2
  <2> DEFINE y == chunk * k
             m == Piece(k)[2]
  <2>4. /\ y \in Nat /\ m \in Nat /\ (m = chunk \/ n + y + m = right)
        /\ Span(Piece(k)) = n + y .. n + y + m - 1 /\ x - n = y + e
    BY <1>4, <2>2, <2>3 DEF Span
  <2> HIDE DEF y, m
  <2>5. x \in Span(Piece(k))
    BY <1>1, <2>1, <2>2, <2>4
  <2> QED BY <1>2, <2>3, <2>5, Zenon
<1>7. \A r, s \in Pieces(n, right) : \A x : x \in Span(r) /\ x \in Span(s) => r = s
  <2>1. ASSUME NEW k \in 0 .. c - 1, NEW l \in 0 .. c - 1, NEW x \in Span(Piece(k)),
               x \in Span(Piece(l)), k < l
        PROVE  FALSE
    <3> DEFINE y == chunk * k
               z == chunk * l
               m == Piece(k)[2]
               o == Piece(l)[2]
    <3>1. k \in Int /\ l \in Int
      BY <1>3
    <3>2. y + chunk <= z
      BY <1>1, <2>1, <3>1
    <3>3. /\ y \in Nat /\ z \in Nat /\ m \in Nat /\ o \in Nat /\ m <= chunk
          /\ Span(Piece(k)) = n + y .. n + y + m - 1 /\ Span(Piece(l)) = n + z .. n + z + o - 1
      BY <1>4 DEF Span
    <3> HIDE DEF y, z, m, o
    <3> QED BY <1>1, <2>1, <3>2, <3>3
  <2>2. ASSUME NEW k \in 0 .. c - 1, NEW l \in 0 .. c - 1, NEW x, x \in Span(Piece(k)),
               x \in Span(Piece(l))
        PROVE  k = l
    <3>1. k \in Int /\ l \in Int
      BY <1>3
    <3>2. ~(k < l) /\ ~(l < k)
      BY <2>1, <2>2, Zenon
    <3> QED BY <3>1, <3>2
  <2> QED BY <1>2, <2>2, Zenon
<1> QED BY <1>5, <1>6, <1>7, Zenon DEF Covers

\* Each on its own.
LEMMA SingleCover ==
  ASSUME NEW o, o.count \in Nat
  PROVE  Covers(Single(o), (0 .. o.count - 1) \ {RightSide(o)})
<1> DEFINE T == (0 .. o.count - 1) \ {RightSide(o)}
<1>1. Single(o) = {<<n, 1>> : n \in T}
  BY Zenon DEF Single
<1>2. \A n \in T : Span(<<n, 1>>) = {n}
  <2> TAKE n \in T
  <2>1. n \in Int /\ <<n, 1>>[1] = n /\ <<n, 1>>[2] = 1
    OBVIOUS
  <2>2. n .. n + 1 - 1 = {n}
    BY <2>1
  <2> QED BY <2>1, <2>2 DEF Span
<1> HIDE DEF T
<1>3. \A r \in Single(o) : \E n \in T : r = <<n, 1>> /\ Span(r) = {n}
  BY <1>1, <1>2, Zenon
<1>4. \A x \in T : <<x, 1>> \in Single(o) /\ x \in Span(<<x, 1>>)
  BY <1>1, <1>2, Zenon
<1>5. Covers(Single(o), T)
  <2>1. \A r \in Single(o) : \A x \in Span(r) : x \in T
    BY <1>3
  <2>2. \A x \in T : \E r \in Single(o) : x \in Span(r)
    BY <1>4, Zenon
  <2>3. \A r, s \in Single(o) : \A x : x \in Span(r) /\ x \in Span(s) => r = s
    <3> TAKE r, s \in Single(o)
    <3> TAKE x
    <3> HAVE x \in Span(r) /\ x \in Span(s)
    <3>1. PICK n \in T : r = <<n, 1>> /\ Span(r) = {n}
      BY <1>3, Zenon
    <3>2. PICK m \in T : s = <<m, 1>> /\ Span(s) = {m}
      BY <1>3, Zenon
    <3>3. x = n /\ x = m
      BY <3>1, <3>2
    <3> QED BY <3>1, <3>2, <3>3, Zenon
  <2> QED BY <2>1, <2>2, <2>3, Zenon DEF Covers
<1> QED BY <1>5 DEF T

\* The bottom nodes of an order that neither the aux data nor the subtree below has.
Missing(o) == {n \in 0 .. o.count - 1 : ~o.done /\ ~(o.prev /\ n = o.at)}

\* Work items are issued for these, for each one once.
LEMMA RequestsCover ==
  ASSUME LoadParts, NEW o \in Orders
  PROVE  Covers(Requests(o), Missing(o)) /\ Requested(o) = Missing(o)
<1>1. Placed(o)
  BY OrdersPlaced
<1>2. o.count \in Nat
  <2> DEFINE s == 2 ^ SubHeightOf(o)
  <2>1. o.count \in 0 .. s
    BY <1>1, Zenon DEF Placed
  <2> HIDE DEF s
  <2> QED BY <2>1
<1>3. o.prev => o.at \in 0 .. o.count - 1
  BY SourceFacts, Zenon DEF IsSource
<1>4. RightSide(o) \in 0 .. o.count
      /\ (o.prev => RightSide(o) = o.at) /\ (~o.prev => RightSide(o) = o.count)
  <2>1. CASE o.prev
    <3>1. o.at \in 0 .. o.count /\ o.count > o.at
      BY <1>2, <1>3, <2>1
    <3>2. RightSide(o) = o.at
      BY <2>1, <3>1, Zenon DEF RightSide
    <3> QED BY <2>1, <3>1, <3>2, Zenon
  <2>2. CASE ~o.prev
    <3>1. o.count \in 0 .. o.count
      BY <1>2
    <3>2. RightSide(o) = o.count
      BY <2>2, Zenon DEF RightSide
    <3> QED BY <2>2, <3>1, <3>2, Zenon
  <2> QED BY <2>1, <2>2
<1>5. ~o.done => Missing(o) = (0 .. o.count - 1) \ {RightSide(o)}
  <2>1. ASSUME ~o.done, o.prev PROVE Missing(o) = (0 .. o.count - 1) \ {RightSide(o)}
    <3>1. Missing(o) = {n \in 0 .. o.count - 1 : n # o.at}
      BY <2>1, Zenon DEF Missing
    <3> QED BY <1>4, <2>1, <3>1
  <2>2. ASSUME ~o.done, ~o.prev PROVE Missing(o) = (0 .. o.count - 1) \ {RightSide(o)}
    <3>1. Missing(o) = 0 .. o.count - 1
      BY <2>2, Zenon DEF Missing
    <3>2. RightSide(o) \notin 0 .. o.count - 1
      BY <1>2, <1>4, <2>2
    <3> QED BY <3>1, <3>2
  <2> QED BY <2>1, <2>2
<1>6. Covers(Requests(o), Missing(o))
  <2>1. CASE o.done
    <3>1. Requests(o) = {} /\ Missing(o) = {}
      BY <2>1, Zenon DEF Requests, Missing
    <3> QED BY <3>1, Zenon DEF Covers
  <2>2. CASE ~o.done /\ Deep(o) > 0
    <3>1. Requests(o) = Single(o)
      BY <2>2, Zenon DEF Requests
    <3>2. Covers(Single(o), (0 .. o.count - 1) \ {RightSide(o)})
      BY <1>2, SingleCover
    <3> QED BY <1>5, <2>2, <3>1, <3>2, Zenon
  <2>3. CASE ~o.done /\ ~(Deep(o) > 0)
    <3> DEFINE R == RightSide(o)
    <3>1. Requests(o) = Pieces(0, R) \cup Pieces(R + 1, o.count)
      BY <2>3, Zenon DEF Requests
    <3>2. w.plan.chunk \in Nat \ {0}
      BY PlansAssumption DEF LoadParts
    <3>3. R \in Int /\ R >= 0 - 1 /\ R + 1 \in Nat /\ o.count >= (R + 1) - 1 /\ R <= o.count
      BY <1>2, <1>4
    <3> HIDE DEF R
    <3>4. Covers(Pieces(0, R), 0 .. R - 1)
      BY <3>2, <3>3, PiecesCover
    <3>5. Covers(Pieces(R + 1, o.count), R + 1 .. o.count - 1)
      BY <1>2, <3>2, <3>3, PiecesCover
    <3>6. \A x \in 0 .. R - 1 : x \notin R + 1 .. o.count - 1
      BY <3>3
    <3>7. (0 .. R - 1) \cup (R + 1 .. o.count - 1) = (0 .. o.count - 1) \ {R}
      BY <1>2, <3>3
    <3>8. Covers(Requests(o), (0 .. R - 1) \cup (R + 1 .. o.count - 1))
      <4>1. Covers(Pieces(0, R) \cup Pieces(R + 1, o.count), (0 .. R - 1) \cup (R + 1 .. o.count - 1))
        BY <3>4, <3>5, <3>6, CoversUnion
      <4> QED BY <3>1, <4>1
    <3>9. Missing(o) = (0 .. o.count - 1) \ {R}
      BY <1>5, <2>3 DEF R
    <3> QED BY <3>7, <3>8, <3>9, Zenon
  <2> QED BY <2>1, <2>2, <2>3
<1>7. Requested(o) = UNION {Span(r) : r \in Requests(o)}
  BY Zenon DEF Requested, Span
<1>8. Requested(o) = Missing(o)
  <2>1. \A x : x \in Requested(o) <=> \E r \in Requests(o) : x \in Span(r)
    BY <1>7, Zenon
  <2>2. \A x : x \in Missing(o) <=> \E r \in Requests(o) : x \in Span(r)
    BY <1>6, Zenon DEF Covers
  <2>3. \A x : x \in Requested(o) <=> x \in Missing(o)
    BY <2>1, <2>2, Zenon
  <2> QED BY <2>3, Zenon
<1> QED BY <1>6, <1>8

-----------------------------------------------------------------------------
(* Where the nodes come from: the aux data, the work items. *)

\* An order that is done is for the tree that the aux data is about.
LEMMA FromAuxRight ==
  ASSUME LoadParts, AuxShape(w.aux), RightNodes(w.aux.levels, w.aux.node, w.key),
         NEW o, Placed(o), o.done
  PROVE  /\ FromAux(o) = [x \in 0 .. 2 ^ (SubHeightOf(o) + 1) - 2 |-> FromAux(o)[x]]
         /\ \A n \in 0 .. o.count - 1 :
              FromAux(o)[Row(o, 0) + n] = Node(Tree(o), FirstNode(o) + n)
<1>1. OrderNodes(o)
  BY OrderNodesFacts
<1> DEFINE b == BottomLevel(o.i, o.j)
           left == o.left \div 2 ^ BelowOf(o)
<1>2. o.i = 1 /\ o.kind # "next" /\ b \in w.aux.levels
  BY Zenon DEF Placed, InAux
<1>3. Tree(o) = RootTree(w.key)
  BY <1>2, Zenon DEF Tree, RootTree
<1>4. DOMAIN w.aux.node[b] = 0 .. 2 ^ b - 1
  <2>1. w.aux.node[b] = [n \in 0 .. 2 ^ b - 1 |-> w.aux.node[b][n]]
    BY <1>2, Zenon DEF AuxShape
  <2> HIDE DEF b
  <2> QED BY <2>1
<1>5. ASSUME NEW n \in 0 .. o.count - 1
      PROVE  FromAux(o)[Row(o, 0) + n] = Node(Tree(o), FirstNode(o) + n)
  <2> DEFINE x == Row(o, 0) + n
  <2>1. /\ n \in Nat /\ left + n \in 0 .. 2 ^ b - 1
        /\ 2 ^ b + (left + n) = FirstNode(o) + n
    BY <1>1, <1>5, Zenon DEF OrderNodes
  <2>2. Row(o, 0) \in Nat /\ x \in 0 .. 2 ^ (SubHeightOf(o) + 1) - 2
    <3> DEFINE h == SubHeightOf(o)
               c == o.count
    <3>1. h \in Nat /\ c \in 0 .. 2 ^ h
      BY <1>1, Zenon DEF OrderNodes, Placed
    <3>2. 0 \in 0 .. h
      BY <3>1
    <3>3. Row(o, 0) = RowStart(h, 0)
      BY Zenon DEF Row
    <3> HIDE DEF h
    <3>4. c \div 2 ^ 0 = c
      <4>1. c \in Nat
        <5> DEFINE y == 2 ^ h
        <5>1. c \in 0 .. y
          BY <3>1
        <5> HIDE DEF y
        <5> QED BY <5>1
      <4> HIDE DEF c
      <4>2. c \div 1 = c
        BY <4>1
      <4> QED BY <4>2, PowerZero
    <3>5. RowStart(h, 0) \in Nat
          /\ \A i \in 0 .. c \div 2 ^ 0 - 1 : RowStart(h, 0) + i \in 0 .. 2 ^ (h + 1) - 2
      BY <3>1, <3>2, RowFacts
    <3>6. n \in 0 .. c \div 2 ^ 0 - 1
      BY <1>5, <3>4
    <3> QED BY <3>3, <3>5, <3>6 DEF h
  <2>3. x - Row(o, 0) = n
    BY <2>1, <2>2
  <2>4. o.left \div 2 ^ BelowOf(o) + x - Row(o, 0) = left + n
    <3> HIDE DEF x
    <3> DEFINE r == Row(o, 0)
    <3>1. left + n \in Nat /\ r \in Nat /\ x = r + n
      BY <2>1, <2>2 DEF x
    <3>2. left \in Int
      <4>1. \E y \in 0 .. 2 ^ (BottomLevel(o.i, o.j) - SubHeightOf(o)) - 1 :
              left = 2 ^ SubHeightOf(o) * y
        BY Zenon DEF Placed
      <4>2. 2 ^ SubHeightOf(o) \in Nat
        BY <1>1, PowerNat DEF OrderNodes
      <4> HIDE DEF left
      <4> QED BY <4>1, <4>2
    <3> HIDE DEF left, r
    <3>3. left + x - r = left + n
      BY <2>1, <3>1, <3>2
    <3> QED BY <3>3 DEF left, r
  <2>5. FromAux(o)[x] = IF o.done /\ x - Row(o, 0) \in 0 .. o.count - 1
          THEN w.aux.node[b][o.left \div 2 ^ BelowOf(o) + x - Row(o, 0)] ELSE Junk
    BY <2>2, Zenon DEF FromAux
  <2>6. FromAux(o)[x] = w.aux.node[b][left + n]
    BY <1>5, <2>3, <2>4, <2>5, Zenon
  <2>7. w.aux.node[b][left + n] = Node(RootTree(w.key), 2 ^ b + (left + n))
    BY <1>2, <1>4, <2>1, Zenon DEF RightNodes
  <2> QED BY <1>3, <2>1, <2>6, <2>7, Zenon
<1>6. FromAux(o) = [x \in 0 .. 2 ^ (SubHeightOf(o) + 1) - 2 |-> FromAux(o)[x]]
  BY Zenon DEF FromAux
<1> QED BY <1>5, <1>6

\* Splitting goes no deeper than the leaves.
LEMMA DeepFacts ==
  ASSUME LoadParts, NEW o, BelowOf(o) \in Nat
  PROVE  Deep(o) \in 0 .. BelowOf(o)
<1> DEFINE g == w.plan.grain
           y == BelowOf(o)
           depth == Min({y, y - g})
<1>1. g \in Nat
  BY PlansAssumption DEF LoadParts
<1>2. depth = IF y <= y - g THEN y ELSE y - g
  <2>1. y \in Int /\ y - g \in Int
    BY <1>1
  <2> HIDE DEF g, y
  <2> QED BY <2>1, MinPair
<1>3. Deep(o) = IF o.done \/ depth <= 1 \/ o.kind \in w.plan.noMemory THEN 0 ELSE depth
  BY Zenon DEF Deep
<1>4. depth \in Int /\ depth <= y
  <2> HIDE DEF g, y, depth
  <2> QED BY <1>1, <1>2 DEF g, y
<1> HIDE DEF depth, y
<1>5. Deep(o) = 0 \/ (Deep(o) = depth /\ depth > 1)
  <2>1. ~(depth <= 1) => depth > 1
    BY <1>4
  <2> QED BY <1>3, <2>1, Zenon
<1>6. y \in Nat
  BY DEF y
<1>7. Deep(o) \in 0 .. y
  BY <1>4, <1>5, <1>6
<1> QED BY <1>7 DEF y

\* The work items of an order return the right node, split or not.
LEMMA WorkItemsRight ==
  ASSUME LoadParts, NEW o, Placed(o), NEW n \in 0 .. o.count - 1
  PROVE  ComputedNode(o, n) = Node(Tree(o), FirstNode(o) + n)
<1>1. OrderNodes(o)
  BY OrderNodesFacts
<1> DEFINE b == BottomLevel(o.i, o.j)
           h == H(o.i)
           d == Deep(o)
           m == FirstNode(o) + n
           t == Tree(o)
<1>2. h \in 0 .. 30 /\ b \in 0 .. h /\ BelowOf(o) \in Nat /\ b + BelowOf(o) = h
      /\ m \in 2 ^ b .. 2 * 2 ^ b - 1
  BY <1>1, Zenon DEF OrderNodes
<1>3. d \in 0 .. BelowOf(o)
  BY <1>2, DeepFacts
<1>4. ComputedNode(o, n) =
        IF d = 0 THEN ComputeInternalNode(t, h, m)
        ELSE HashSubtree([k \in 0 .. 2 ^ d - 1 |-> ComputeInternalNode(t, h, m * 2 ^ d + k)], d, t, m)
  BY Zenon DEF ComputedNode
<1>5. ComputeInternalNode(t, h, m) = Node(t, m)
  <2> HIDE DEF b, h, m, t
  <2> QED BY <1>2, ComputedRight
<1>6. d \in Nat /\ b + d \in 0 .. h /\ m \in Nat /\ b \in Nat
  <2> DEFINE y == BelowOf(o)
             z == 2 ^ b
  <2>1. z \in Nat
    <3>1. b \in Nat
      BY <1>2
    <3> QED BY <3>1, PowerNat
  <2>2. y \in Nat /\ b + y = h /\ d \in 0 .. y /\ h \in 0 .. 30 /\ b \in 0 .. h
        /\ m \in z .. 2 * z - 1
    BY <1>2, <1>3
  <2> HIDE DEF b, h, d, m, y, z
  <2> QED BY <2>1, <2>2
<1>7. \A k \in 0 .. 2 ^ d - 1 : m * 2 ^ d + k \in 2 ^ (b + d) .. 2 * 2 ^ (b + d) - 1
  <2> TAKE k \in 0 .. 2 ^ d - 1
  <2> DEFINE e == 2 ^ d
             z == 2 ^ b
  <2>1. e \in Nat /\ z \in Nat /\ e >= 1
    BY <1>6, PowerPositive
  <2>2. 2 ^ (b + d) = z * e
    <3> HIDE DEF b, d
    <3> QED BY <1>6, PowerSum DEF e, z
  <2>3. m \in z .. 2 * z - 1 /\ k \in 0 .. e - 1
    BY <1>2
  <2> HIDE DEF e, z, b, d, m
  <2>4. m * e >= z * e /\ (m + 1) * e <= (2 * z) * e /\ m \in Nat
    BY <2>1, <2>3
  <2> DEFINE u == m * e
             v == z * e
  <2>5. u \in Nat /\ v \in Nat /\ u >= v /\ u + e <= 2 * v
    BY <2>1, <2>4
  <2> HIDE DEF u, v
  <2>6. u + k \in v .. 2 * v - 1
    BY <2>1, <2>3, <2>5
  <2> QED BY <2>2, <2>6 DEF e, u, v
<1>8. \A k \in 0 .. 2 ^ d - 1 : ComputeInternalNode(t, h, m * 2 ^ d + k) = Node(t, m * 2 ^ d + k)
  <2> TAKE k \in 0 .. 2 ^ d - 1
  <2> DEFINE l == b + d
             r == m * 2 ^ d + k
  <2>1. h \in 0 .. 30 /\ l \in 0 .. h /\ r \in 2 ^ l .. 2 * 2 ^ l - 1
    BY <1>2, <1>6, <1>7
  <2> HIDE DEF b, h, d, m, t, l, r
  <2>2. ComputeInternalNode(t, h, r) = Node(t, r)
    BY <2>1, ComputedRight
  <2> QED BY <2>2 DEF r
<1> HIDE DEF b, h, d, m, t
<1>9. HashSubtree([k \in 0 .. 2 ^ d - 1 |-> ComputeInternalNode(t, h, m * 2 ^ d + k)], d, t, m)
        = Node(t, m)
  <2> DEFINE hashes == [k \in 0 .. 2 ^ d - 1 |-> ComputeInternalNode(t, h, m * 2 ^ d + k)]
  <2>1. \A k \in 0 .. 2 ^ d - 1 : hashes[k] = Node(t, m * 2 ^ d + k)
    BY <1>8
  <2> HIDE DEF hashes
  <2>2. HashSubtree(hashes, d, t, m) = Node(t, m)
    BY <1>6, <2>1, HashedRight
  <2> QED BY <2>2 DEF hashes
<1>10. ComputedNode(o, n) = Node(t, m)
  BY <1>4, <1>5, <1>9, Zenon
<1> QED BY <1>10 DEF t, m

-----------------------------------------------------------------------------
(* What the steps of loading leave alone. *)

\* As long as the working key is for the same place, there are the same orders.
SamePlace ==
  /\ w'.p = w.p /\ w'.key = w.key /\ w'.q = w.q /\ w'.bottom = w.bottom
  /\ w'.aux = w.aux /\ w'.plan = w.plan

\* Nothing that is computed from the place changes.
LEMMA SameGeometry ==
  ASSUME SamePlace
  PROVE  /\ Orders' = Orders
         /\ \A o : /\ SubHeightOf(o)' = SubHeightOf(o) /\ (\A s : Row(o, s)' = Row(o, s))
                   /\ Tree(o)' = Tree(o) /\ FirstNode(o)' = FirstNode(o)
                   /\ FromAux(o)' = FromAux(o)
<1>1. Last' = Last /\ (\A i : H(i)' = H(i))
  BY Zenon DEF SamePlace, Last, H
<1>2. \A i : SubSize(i)' = SubSize(i)
  BY <1>1, Zenon DEF SamePlace, SubSize
<1>3. \A i : Sublevels(i)' = Sublevels(i)
  BY <1>1, <1>2, Zenon DEF Sublevels
<1>4. \A i, j : Below(i, j)' = Below(i, j)
  BY <1>2, <1>3, Zenon DEF Below
<1>5. \A i, j : SubHeight(i, j)' = SubHeight(i, j)
  BY <1>1, <1>2, <1>4, Zenon DEF SubHeight
<1>6. \A i, j : BottomLevel(i, j)' = BottomLevel(i, j)
  BY <1>1, <1>4, Zenon DEF BottomLevel
<1>7. \A i, j : Size(i, j)' = Size(i, j)
  BY <1>4, <1>5, Zenon DEF Size
<1>8. \A i, j : LeftLeaf(i, j)' = LeftLeaf(i, j)
  BY <1>7, Zenon DEF SamePlace, LeftLeaf
<1>9. \A i : Ahead(i)' = Ahead(i)
  BY <1>1, Zenon DEF Ahead
<1>10. \A i, j : InAux(i, j)' <=> InAux(i, j)
  BY <1>6, Zenon DEF SamePlace, InAux
<1>11. \A i, j : NextCount(i, j)' = NextCount(i, j)
  BY <1>4, <1>5, <1>9, Zenon DEF SamePlace, NextCount
<1>12. \A i, j : /\ ActiveOrder(i, j)' = ActiveOrder(i, j)
                 /\ BuildingOrder(i, j)' = BuildingOrder(i, j)
                 /\ NextOrder(i, j)' = NextOrder(i, j)
  <2> TAKE i, j
  <2>1. ActiveOrder(i, j)' = ActiveOrder(i, j)
    BY <1>3, <1>4, <1>5, <1>8, <1>10 DEF SamePlace, ActiveOrder
  <2>2. BuildingOrder(i, j)' = BuildingOrder(i, j)
    BY <1>4, <1>7, <1>8, <1>9, <1>10 DEF SamePlace, BuildingOrder
  <2>3. NextOrder(i, j)' = NextOrder(i, j)
    BY <1>3, <1>5, <1>11 DEF NextOrder
  <2> QED BY <2>1, <2>2, <2>3
<1>13. Orders' = Orders
  <2> DEFINE These(i, j) ==
        {ActiveOrder(i, j)}
        \cup {o \in {BuildingOrder(i, j)} : j > 0 /\ o.left <= 2 ^ H(i) - 1}
        \cup {o \in {NextOrder(i, j)} : i > 1 /\ o.count > 0}
      Then(i, j) ==
        {ActiveOrder(i, j)'}
        \cup {o \in {BuildingOrder(i, j)'} : j > 0 /\ o.left <= 2 ^ H(i)' - 1}
        \cup {o \in {NextOrder(i, j)'} : i > 1 /\ o.count > 0}
  <2>1. Orders = UNION {UNION {These(i, j) : j \in 0 .. Sublevels(i) - 1} : i \in 1 .. Last}
    BY Zenon DEF Orders
  <2>2. Orders' = UNION {UNION {Then(i, j) : j \in 0 .. Sublevels(i)' - 1} : i \in 1 .. Last'}
    BY Zenon DEF Orders
  <2>3. \A i, j : Then(i, j) = These(i, j)
    BY <1>1, <1>12, Zenon
  <2> HIDE DEF These, Then
  <2>4. \A o : o \in Orders <=> \E i \in 1 .. Last : \E j \in 0 .. Sublevels(i) - 1 : o \in These(i, j)
    BY <2>1
  <2>5. \A o : o \in Orders' <=>
          \E i \in 1 .. Last' : \E j \in 0 .. Sublevels(i)' - 1 : o \in Then(i, j)
    BY <2>2
  <2>6. \A o : o \in Orders' <=> o \in Orders
    BY <1>1, <1>3, <2>3, <2>4, <2>5, Zenon
  <2> QED BY <2>6, Zenon
<1>14. \A o : SubHeightOf(o)' = SubHeightOf(o) /\ BelowOf(o)' = BelowOf(o)
  BY <1>4, <1>5, Zenon DEF SubHeightOf, BelowOf
<1>15. \A o, s : Row(o, s)' = Row(o, s)
  BY <1>14, Zenon DEF Row
<1>16. \A o : Tree(o)' = Tree(o)
  BY Zenon DEF SamePlace, Tree
<1>17. \A o : FirstNode(o)' = FirstNode(o)
  BY <1>6, <1>14, Zenon DEF FirstNode
<1>18. \A o : FromAux(o)' = FromAux(o)
  <2> TAKE o
  <2>1. /\ SubHeightOf(o)' = SubHeightOf(o) /\ BelowOf(o)' = BelowOf(o) /\ Row(o, 0)' = Row(o, 0)
        /\ BottomLevel(o.i, o.j)' = BottomLevel(o.i, o.j) /\ w'.aux = w.aux
    BY <1>6, <1>14, <1>15, Zenon DEF SamePlace
  <2> QED BY <2>1 DEF FromAux
<1> QED BY <1>13, <1>14, <1>15, <1>16, <1>17, <1>18, Zenon

\* Loading leaves key generation alone.
LEMMA KeygenSame ==
  ASSUME KeygenInv, UNCHANGED keygenVars
  PROVE  KeygenInv'
<1>1. /\ nv' = nv /\ keys' = keys /\ pc' = pc /\ call' = call /\ auxBuf' = auxBuf
      /\ auxFile' = auxFile /\ pub' = pub
  BY DEF keygenVars
<1>2. KeyInv'
  BY <1>1 DEF KeygenInv, KeyInv, Stores
<1>3. CallInv'
  BY <1>1 DEF KeygenInv, CallInv, Stores, HasBuffer, Height
<1>4. ChooseInv'
  BY <1>1 DEF KeygenInv, ChooseInv
<1>5. CombineInv'
  BY <1>1 DEF KeygenInv, CombineInv, HasBuffer
<1>6. AuxInv'
  BY <1>1 DEF KeygenInv, AuxInv
<1>7. PublicKeyIsRoot'
  BY <1>1 DEF KeygenInv, PublicKeyIsRoot
<1> QED BY <1>2, <1>3, <1>4, <1>5, <1>6, <1>7 DEF KeygenInv

\* A working key with none of the states in between says nothing.
LEMMA NotLoading ==
  ASSUME w'.status \notin {"begun", "listed", "computed", "none"}
  PROVE  LoadInv'
BY DEF LoadInv, BegunInv, ListedInv, ComputedInv

\* What was begun stays begun.
LEMMA BegunKeeps ==
  ASSUME IInv, UNCHANGED keygenVars, SamePlace,
         w.status \in {"begun", "listed", "computed", "none"}
  PROVE  BegunInv'
<1>1. BegunInv /\ nv' = nv
  BY DEF IInv, LoadInv, keygenVars
<1> QED BY <1>1 DEF BegunInv, SamePlace, Stores

\* What the invariants say of a working key that has been begun.
LEMMA BegunFacts ==
  ASSUME IInv, w.status \in {"begun", "listed", "computed", "none"}
  PROVE  /\ LoadParts /\ AuxShape(w.aux)
         /\ NeverLevelOneAlone => RightNodes(w.aux.levels, w.aux.node, w.key)
<1>1. BegunInv
  BY DEF IInv, LoadInv
<1> QED BY <1>1, Zenon DEF BegunInv, LoadParts, Stores

\* The bottom row of a subtree.
BottomRow(o) ==
  /\ Row(o, 0) \in Nat /\ Row(o, 0) = RowStart(SubHeightOf(o), 0)
  /\ o.count \in 0 .. 2 ^ SubHeightOf(o) /\ o.count \in Nat /\ o.count \div 2 ^ 0 = o.count
  /\ \A n \in 0 .. o.count - 1 :
       Row(o, 0) + n \in 0 .. 2 ^ (SubHeightOf(o) + 1) - 2 /\ (Row(o, 0) + n) - Row(o, 0) = n

\* The bottom nodes of an order lie within the array of its subtree.
LEMMA BottomRowFacts == ASSUME LoadParts, NEW o, Placed(o) PROVE BottomRow(o)
<1> DEFINE h == SubHeightOf(o)
           c == o.count
           y == 2 ^ h
           r == RowStart(h, 0)
<1>1. h \in Nat /\ c \in 0 .. y
  BY OrderNodesFacts, Zenon DEF OrderNodes, Placed
<1>2. c \in Nat
  <2> HIDE DEF y, c
  <2> QED BY <1>1
<1>3. c \div 2 ^ 0 = c
  <2> HIDE DEF c
  <2>1. c \div 1 = c
    BY <1>2
  <2> QED BY <2>1, PowerZero
<1>4. r \in Nat /\ \A i \in 0 .. c \div 2 ^ 0 - 1 : r + i \in 0 .. 2 ^ (h + 1) - 2
  <2>1. 0 \in 0 .. h
    BY <1>1
  <2> HIDE DEF h, c
  <2> QED BY <1>1, <2>1, RowFacts
<1>5. \A n \in 0 .. c - 1 : r + n \in 0 .. 2 ^ (h + 1) - 2
  BY <1>3, <1>4
<1>6. \A n \in 0 .. c - 1 : (r + n) - r = n
  <2> HIDE DEF r, c
  <2> QED BY <1>2, <1>4
<1>7. Row(o, 0) = r
  BY Zenon DEF Row
<1> QED BY <1>1, <1>2, <1>3, <1>4, <1>5, <1>6, <1>7, Zenon DEF BottomRow

\* Right bottom nodes are what fill_subtree starts from.
LEMMA BottomIsRow ==
  ASSUME LoadParts, NEW o, Placed(o), NEW nodes,
         \A n \in 0 .. o.count - 1 : nodes[Row(o, 0) + n] = Node(Tree(o), FirstNode(o) + n)
  PROVE  RowsRight(nodes, SubHeightOf(o), o.count, Tree(o), FirstNode(o), 0)
<1>1. BottomRow(o)
  BY BottomRowFacts
<1>2. FirstNode(o) \div 2 ^ 0 = FirstNode(o)
  <2>1. FirstNode(o) \in Nat
    BY OrderNodesFacts, Zenon DEF OrderNodes
  <2>2. FirstNode(o) \div 1 = FirstNode(o)
    BY <2>1
  <2> QED BY <2>2, PowerZero
<1>3. ASSUME NEW r \in 0 .. 0, NEW n \in 0 .. o.count \div 2 ^ r - 1
      PROVE  nodes[RowStart(SubHeightOf(o), r) + n] = Node(Tree(o), FirstNode(o) \div 2 ^ r + n)
  <2>1. r = 0
    OBVIOUS
  <2>2. n \in 0 .. o.count - 1
    BY <1>1, <2>1, Zenon DEF BottomRow
  <2> QED BY <1>1, <1>2, <2>1, <2>2, Zenon DEF BottomRow
<1> QED BY <1>3, Zenon DEF RowsRight

\* The root of a subtree that is full.
LEMMA RootRight ==
  ASSUME LoadParts, NEW o, Placed(o), o.count = 2 ^ SubHeightOf(o), NEW nodes, Complete(nodes, o)
  PROVE  nodes[RootOf(o)] = Node(Tree(o), FirstNode(o) \div 2 ^ SubHeightOf(o))
<1> DEFINE h == SubHeightOf(o)
           f == FirstNode(o) \div 2 ^ h
<1>1. h \in Nat /\ FirstNode(o) \in Nat
  BY OrderNodesFacts, Zenon DEF OrderNodes
<1>2. 2 ^ h \in Nat /\ 2 ^ h >= 1
  BY <1>1, PowerPositive
<1>3. o.count \div 2 ^ h = 1
  <2> DEFINE y == 2 ^ h
  <2>1. y \in Nat /\ y >= 1 /\ o.count = y
    BY <1>2
  <2> HIDE DEF y
  <2>2. y = y * 1 + 0 /\ 0 \in 0 .. y - 1 /\ 1 \in Int
    BY <2>1
  <2>3. y \div y = 1
    BY <2>1, <2>2, DivModUnique
  <2> QED BY <2>1, <2>3 DEF y
<1>4. h \in 0 .. h /\ 0 \in 0 .. o.count \div 2 ^ h - 1
  BY <1>1, <1>3
<1>5. nodes[RowStart(h, h) + 0] = Node(Tree(o), f + 0)
  BY <1>4, Zenon DEF Complete, RowsRight
<1>6. RowStart(h, h) + 0 = 0
  <2>1. h - h = 0
    BY <1>1
  <2>2. RowStart(h, h) = 2 ^ 0 - 1
    BY <2>1, Zenon DEF RowStart
  <2> QED BY <2>2, PowerZero
<1>7. f + 0 = f
  <2>1. f \in Int
    BY <1>1, <1>2, DivMod
  <2> HIDE DEF f
  <2> QED BY <2>1
<1> QED BY <1>5, <1>6, <1>7, Zenon DEF RootOf

-----------------------------------------------------------------------------
(* Every step of loading preserves the invariant. *)

\* Listing the orders copies what the aux data has.
LEMMA ListKeeps == ASSUME IInv, List PROVE LoadInv'
<1>1. w.status = "begun" /\ UNCHANGED keygenVars
  BY DEF List
<1>2. w' = [status |-> "listed", p |-> w.p, key |-> w.key, q |-> w.q, bottom |-> w.bottom,
            aux |-> w.aux, plan |-> w.plan,
            open |-> Orders, nodes |-> [o \in Orders |-> FromAux(o)]]
  BY Zenon DEF List
<1>3. /\ w'.status = "listed" /\ SamePlace /\ w'.open = Orders
      /\ w'.nodes = [o \in Orders |-> FromAux(o)]
      /\ w' = [status |-> w'.status, p |-> w'.p, key |-> w'.key, q |-> w'.q, bottom |-> w'.bottom,
               aux |-> w'.aux, plan |-> w'.plan, open |-> w'.open, nodes |-> w'.nodes]
  BY <1>2 DEF SamePlace
<1>4. BegunInv'
  BY <1>1, <1>3, BegunKeeps
<1>5. Orders' = Orders /\ \A o : FromAux(o)' = FromAux(o)
  BY <1>3, SameGeometry, Zenon
<1>6. ListedInv'
  <2>1. w'.open \subseteq Orders' /\ w'.open = Orders'
    BY <1>3, <1>5
  <2>2. w'.nodes = [o \in Orders' |-> FromAux(o)']
    BY <1>3, <1>5
  <2>3. w'.nodes = [o \in Orders' |-> w'.nodes[o]]
    BY <2>2
  <2>4. w'.status # "none"
    BY <1>3
  <2> QED BY <1>3, <2>1, <2>2, <2>3, <2>4, Zenon DEF ListedInv
<1>7. ComputedInv'
  BY <1>3 DEF ComputedInv
<1> QED BY <1>4, <1>6, <1>7 DEF LoadInv

\* The work items write every bottom node that is still missing.
LEMMA ComputeKeeps == ASSUME IInv, Compute PROVE LoadInv'
<1> DEFINE Computed(o) ==
      [x \in DOMAIN w.nodes[o] |-> IF x - Row(o, 0) \in Requested(o)
                                   THEN ComputedNode(o, x - Row(o, 0)) ELSE w.nodes[o][x]]
<1>1. w.status = "listed" /\ UNCHANGED keygenVars
  BY DEF Compute
<1>2. /\ w = [status |-> w.status, p |-> w.p, key |-> w.key, q |-> w.q, bottom |-> w.bottom,
              aux |-> w.aux, plan |-> w.plan, open |-> w.open, nodes |-> w.nodes]
      /\ w.nodes = [o \in Orders |-> FromAux(o)] /\ w.open = Orders
  BY <1>1 DEF IInv, LoadInv, ListedInv
<1>3. DOMAIN w.nodes = Orders /\ \A o \in Orders : w.nodes[o] = FromAux(o)
  BY <1>2
<1>4. w' = [w EXCEPT !.status = "computed", !.nodes = [o \in Orders |-> Computed(o)]]
  <2>1. w' = [w EXCEPT !.status = "computed", !.nodes = [o \in DOMAIN w.nodes |-> Computed(o)]]
    BY Zenon DEF Compute
  <2> HIDE DEF Computed
  <2> QED BY <1>3, <2>1
<1> HIDE DEF Computed
<1>5. /\ w'.status = "computed" /\ SamePlace /\ w'.open = Orders
      /\ w'.nodes = [o \in Orders |-> Computed(o)]
      /\ w' = [status |-> w'.status, p |-> w'.p, key |-> w'.key, q |-> w'.q, bottom |-> w'.bottom,
               aux |-> w'.aux, plan |-> w'.plan, open |-> w'.open, nodes |-> w'.nodes]
  BY <1>2, <1>4 DEF SamePlace
<1>6. BegunInv'
  BY <1>1, <1>5, BegunKeeps
<1>7. /\ Orders' = Orders
      /\ \A o : SubHeightOf(o)' = SubHeightOf(o) /\ Row(o, 0)' = Row(o, 0)
                /\ Tree(o)' = Tree(o) /\ FirstNode(o)' = FirstNode(o)
  BY <1>5, SameGeometry, Zenon
<1>8. ListedInv'
  <2>1. w'.open \subseteq Orders'
    BY <1>5, <1>7
  <2>2. w'.nodes = [o \in Orders' |-> w'.nodes[o]]
    BY <1>5, <1>7
  <2>3. w'.status # "none" /\ w'.status # "listed"
    BY <1>5
  <2> QED BY <1>5, <2>1, <2>2, <2>3, Zenon DEF ListedInv
<1>9. LoadParts /\ AuxShape(w.aux)
      /\ (NeverLevelOneAlone => RightNodes(w.aux.levels, w.aux.node, w.key))
  BY <1>1, BegunFacts
<1>10. ASSUME NeverLevelOneAlone, NEW o \in Orders
       PROVE  /\ Computed(o) = [x \in 0 .. 2 ^ (SubHeightOf(o) + 1) - 2 |-> Computed(o)[x]]
              /\ \A n \in 0 .. o.count - 1 : ~(o.prev /\ n = o.at) =>
                   Computed(o)[Row(o, 0) + n] = Node(Tree(o), FirstNode(o) + n)
  <2>1. Placed(o) /\ BottomRow(o)
    BY <1>9, OrdersPlaced, BottomRowFacts
  <2>2. DOMAIN w.nodes[o] = 0 .. 2 ^ (SubHeightOf(o) + 1) - 2
    BY <1>3 DEF FromAux
  <2>3. Requested(o) = Missing(o)
    BY <1>9, RequestsCover
  <2>4. Computed(o) = [x \in 0 .. 2 ^ (SubHeightOf(o) + 1) - 2 |-> Computed(o)[x]]
    BY <2>2, Zenon DEF Computed
  <2>5. ASSUME NEW n \in 0 .. o.count - 1, ~(o.prev /\ n = o.at)
        PROVE  Computed(o)[Row(o, 0) + n] = Node(Tree(o), FirstNode(o) + n)
    <3> DEFINE x == Row(o, 0) + n
    <3>1. x \in 0 .. 2 ^ (SubHeightOf(o) + 1) - 2 /\ x - Row(o, 0) = n
      BY <2>1, Zenon DEF BottomRow
    <3>2. Computed(o)[x] = IF n \in Requested(o) THEN ComputedNode(o, n) ELSE w.nodes[o][x]
      BY <2>2, <3>1, Zenon DEF Computed
    <3>3. CASE o.done
      <4>1. n \notin Requested(o)
        BY <2>3, <3>3, Zenon DEF Missing
      <4>2. FromAux(o)[x] = Node(Tree(o), FirstNode(o) + n)
        BY <1>9, <1>10, <2>1, <3>3, FromAuxRight
      <4> QED BY <1>3, <3>2, <4>1, <4>2, Zenon
    <3>4. CASE ~o.done
      <4>1. n \in Requested(o)
        BY <2>3, <2>5, <3>4, Zenon DEF Missing
      <4>2. ComputedNode(o, n) = Node(Tree(o), FirstNode(o) + n)
        BY <1>9, <2>1, WorkItemsRight
      <4> QED BY <3>2, <4>1, <4>2, Zenon
    <3> QED BY <3>3, <3>4
  <2> QED BY <2>4, <2>5
<1>11. ComputedInv'
  <2>1. ASSUME NeverLevelOneAlone, NEW o \in Orders
        PROVE  /\ w'.nodes[o] = [x \in 0 .. 2 ^ (SubHeightOf(o)' + 1) - 2 |-> w'.nodes[o][x]]
               /\ Bottom(w.nodes[o], o)'
    <3>1. w'.nodes[o] = Computed(o)
      BY <1>5
    <3>2. SubHeightOf(o)' = SubHeightOf(o) /\ Row(o, 0)' = Row(o, 0)
          /\ Tree(o)' = Tree(o) /\ FirstNode(o)' = FirstNode(o)
      BY <1>7, Zenon
    <3>3. /\ w'.nodes[o] = [x \in 0 .. 2 ^ (SubHeightOf(o)' + 1) - 2 |-> w'.nodes[o][x]]
      BY <1>10, <2>1, <3>1, <3>2, Zenon
    <3>4. \A n \in 0 .. o.count - 1 : ~(o.prev /\ n = o.at) =>
            w'.nodes[o][Row(o, 0)' + n] = Node(Tree(o)', FirstNode(o)' + n)
      BY <1>10, <2>1, <3>1, <3>2, Zenon
    <3> QED BY <3>3, <3>4, Zenon DEF Bottom
  <2>2. \A o \in Orders : o \in w'.open
    BY <1>5
  <2>3. NeverLevelOneAlone' <=> NeverLevelOneAlone
    BY Zenon DEF NeverLevelOneAlone
  <2> QED BY <1>7, <2>1, <2>2, <2>3, Zenon DEF ComputedInv
<1> QED BY <1>6, <1>8, <1>11 DEF LoadInv

\* An order that is filled has all its bottom nodes, as the order below, from which it may
\* take one, is cheaper and has been filled before.
LEMMA InheritRight ==
  ASSUME IInv, w.status = "computed", NeverLevelOneAlone, NEW o \in Cheapest
  PROVE  /\ Inherit(o) = [x \in 0 .. 2 ^ (SubHeightOf(o) + 1) - 2 |-> Inherit(o)[x]]
         /\ \A n \in 0 .. o.count - 1 : Inherit(o)[Row(o, 0) + n] = Node(Tree(o), FirstNode(o) + n)
<1> DEFINE all == 0 .. 2 ^ (SubHeightOf(o) + 1) - 2
<1>1. LoadParts
  BY BegunFacts
<1>2. w.open \subseteq Orders /\ DOMAIN w.nodes = Orders
  BY DEF IInv, LoadInv, ListedInv
<1>3. o \in w.open /\ o \in Orders /\ \A other \in w.open : Cost(o) <= Cost(other)
  BY <1>2 DEF Cheapest
<1>4. \A r \in Orders :
        /\ w.nodes[r] = [x \in 0 .. 2 ^ (SubHeightOf(r) + 1) - 2 |-> w.nodes[r][x]]
        /\ r \in w.open => Bottom(w.nodes[r], r)
        /\ r \notin w.open => Complete(w.nodes[r], r)
  BY Zenon DEF IInv, LoadInv, ComputedInv
<1>5. BottomRow(o)
  BY <1>1, <1>3, OrdersPlaced, BottomRowFacts
<1>6. w.nodes[o] = [x \in all |-> w.nodes[o][x]] /\ DOMAIN w.nodes[o] = all
  <2>1. w.nodes[o] = [x \in all |-> w.nodes[o][x]]
    BY <1>3, <1>4, Zenon
  <2> HIDE DEF all
  <2> QED BY <2>1
<1>7. \A n \in 0 .. o.count - 1 :
        ~(o.prev /\ n = o.at) => w.nodes[o][Row(o, 0) + n] = Node(Tree(o), FirstNode(o) + n)
  BY <1>3, <1>4, Zenon DEF Bottom
<1>8. CASE ~o.prev
  <2>1. Inherit(o) = w.nodes[o]
    BY <1>8, Zenon DEF Inherit
  <2> QED BY <1>6, <1>7, <1>8, <2>1, Zenon
<1>9. CASE o.prev
  <2>1. PICK source : IsSource(source, o)
    BY <1>1, <1>3, <1>9, SourceFacts, Zenon
  <2>2. /\ source \in Orders /\ source.i = o.i /\ source.j = o.j + 1 /\ source.kind = o.kind
        /\ \A r \in Orders : r.i = o.i /\ r.j = o.j + 1 /\ r.kind = o.kind => r = source
        /\ Cost(source) \in Nat /\ Cost(o) \in Nat /\ Cost(source) < Cost(o)
        /\ source.count = 2 ^ SubHeightOf(source)
        /\ FirstNode(source) \div 2 ^ SubHeightOf(source) = FirstNode(o) + o.at
        /\ o.at \in 0 .. o.count - 1
    BY <2>1, Zenon DEF IsSource
  <2>3. (CHOOSE s \in DOMAIN w.nodes : s.i = o.i /\ s.j = o.j + 1 /\ s.kind = o.kind) = source
    BY <1>2, <2>2, Zenon
  <2>4. source \notin w.open
    <3>1. ASSUME source \in w.open PROVE FALSE
      <4>1. Cost(o) <= Cost(source)
        BY <1>3, <3>1, Zenon
      <4> QED BY <2>2, <4>1
    <3> QED BY <3>1
  <2>5. w.nodes[source][RootOf(source)] = Node(Tree(o), FirstNode(o) + o.at)
    <3>1. Placed(source) /\ Complete(w.nodes[source], source)
      BY <1>1, <1>4, <2>2, <2>4, OrdersPlaced, Zenon
    <3>2. w.nodes[source][RootOf(source)]
            = Node(Tree(source), FirstNode(source) \div 2 ^ SubHeightOf(source))
      BY <1>1, <2>2, <3>1, RootRight
    <3>3. Tree(source) = Tree(o)
      BY <2>2, Zenon DEF Tree
    <3> QED BY <2>2, <3>2, <3>3, Zenon
  <2> DEFINE place == Row(o, 0) + o.at
             root == w.nodes[source][RootOf(source)]
  <2>6. Inherit(o) = [w.nodes[o] EXCEPT ![place] = root]
    BY <1>9, <2>3, Zenon DEF Inherit
  <2>7. place \in all
    BY <1>5, <2>2, Zenon DEF BottomRow
  <2> HIDE DEF place, root, all
  <2>8. Inherit(o) = [x \in all |-> IF x = place THEN root ELSE w.nodes[o][x]]
    BY <1>6, <2>6, <2>7
  <2>9. Inherit(o) = [x \in all |-> Inherit(o)[x]]
    BY <2>8, Zenon
  <2>10. ASSUME NEW n \in 0 .. o.count - 1
         PROVE  Inherit(o)[Row(o, 0) + n] = Node(Tree(o), FirstNode(o) + n)
    <3>1. Row(o, 0) + n \in all /\ (Row(o, 0) + n) - Row(o, 0) = n
          /\ (Row(o, 0) + o.at) - Row(o, 0) = o.at
      BY <1>5, <2>2, Zenon DEF BottomRow, all
    <3>2. Inherit(o)[Row(o, 0) + n]
            = IF Row(o, 0) + n = place THEN root ELSE w.nodes[o][Row(o, 0) + n]
      BY <2>8, <3>1, Zenon
    <3>3. CASE n = o.at
      BY <2>5, <3>2, <3>3, Zenon DEF place, root
    <3>4. CASE n # o.at
      <4>1. Row(o, 0) + n # place
        BY <3>1, <3>4, Zenon DEF place
      <4> QED BY <1>7, <3>2, <3>4, <4>1, Zenon
    <3> QED BY <3>3, <3>4
  <2> QED BY <2>9, <2>10 DEF all
<1> QED BY <1>8, <1>9

\* The cheapest subtrees that are left are filled.
LEMMA FillKeeps == ASSUME IInv, Fill PROVE LoadInv'
<1> DEFINE Filled(o) == FillSubtree(Inherit(o), SubHeightOf(o), o.count, Tree(o), FirstNode(o))
           After(o) == IF o \in Cheapest THEN Filled(o) ELSE w.nodes[o]
<1>1. w.status = "computed" /\ UNCHANGED keygenVars
  BY DEF Fill
<1>2. /\ w = [status |-> w.status, p |-> w.p, key |-> w.key, q |-> w.q, bottom |-> w.bottom,
              aux |-> w.aux, plan |-> w.plan, open |-> w.open, nodes |-> w.nodes]
      /\ DOMAIN w.nodes = Orders /\ w.open \subseteq Orders
  BY <1>1 DEF IInv, LoadInv, ListedInv
<1>3. w' = [w EXCEPT !.open = w.open \ Cheapest, !.nodes = [o \in Orders |-> After(o)]]
  <2>1. w' = [w EXCEPT !.open = w.open \ Cheapest, !.nodes = [o \in DOMAIN w.nodes |-> After(o)]]
    BY Zenon DEF Fill
  <2> HIDE DEF After
  <2> QED BY <1>2, <2>1
<1> HIDE DEF After
<1>4. /\ w'.status = "computed" /\ SamePlace /\ w'.open = w.open \ Cheapest
      /\ w'.nodes = [o \in Orders |-> After(o)]
      /\ w' = [status |-> w'.status, p |-> w'.p, key |-> w'.key, q |-> w'.q, bottom |-> w'.bottom,
               aux |-> w'.aux, plan |-> w'.plan, open |-> w'.open, nodes |-> w'.nodes]
  BY <1>1, <1>2, <1>3 DEF SamePlace
<1>5. BegunInv'
  BY <1>1, <1>4, BegunKeeps
<1>6. /\ Orders' = Orders
      /\ \A o : SubHeightOf(o)' = SubHeightOf(o) /\ (\A s : Row(o, s)' = Row(o, s))
                /\ Tree(o)' = Tree(o) /\ FirstNode(o)' = FirstNode(o)
  BY <1>4, SameGeometry, Zenon
<1>7. ListedInv'
  <2>1. w'.open \subseteq Orders'
    BY <1>2, <1>4, <1>6
  <2>2. w'.nodes = [o \in Orders' |-> w'.nodes[o]]
    BY <1>4, <1>6
  <2>3. w'.status # "none" /\ w'.status # "listed"
    BY <1>4
  <2> QED BY <1>4, <2>1, <2>2, <2>3, Zenon DEF ListedInv
<1>8. LoadParts
  BY <1>1, BegunFacts
<1>9. ASSUME NeverLevelOneAlone, NEW o \in Cheapest
      PROVE  /\ Filled(o) = [x \in 0 .. 2 ^ (SubHeightOf(o) + 1) - 2 |-> Filled(o)[x]]
             /\ Complete(Filled(o), o)
  <2>1. o \in Orders /\ Placed(o)
    <3>1. o \in w.open
      BY Zenon DEF Cheapest
    <3>2. o \in Orders
      BY <1>2, <3>1
    <3> QED BY <1>8, <3>2, OrdersPlaced, Zenon
  <2>2. Inherit(o) = [x \in 0 .. 2 ^ (SubHeightOf(o) + 1) - 2 |-> Inherit(o)[x]]
        /\ \A n \in 0 .. o.count - 1 : Inherit(o)[Row(o, 0) + n] = Node(Tree(o), FirstNode(o) + n)
    BY <1>1, <1>9, InheritRight, Zenon
  <2>3. RowsRight(Inherit(o), SubHeightOf(o), o.count, Tree(o), FirstNode(o), 0)
    BY <1>8, <2>1, <2>2, BottomIsRow
  <2>4. /\ SubHeightOf(o) \in Nat /\ o.count \in 0 .. 2 ^ SubHeightOf(o)
        /\ \E k \in Nat : FirstNode(o) = 2 ^ SubHeightOf(o) * k
    BY <1>8, <2>1, OrderNodesFacts, Zenon DEF OrderNodes, Placed
  <2>5. PICK k \in Nat : FirstNode(o) = 2 ^ SubHeightOf(o) * k
    BY <2>4, Zenon
  <2> DEFINE h == SubHeightOf(o)
             c == o.count
             nodes == Inherit(o)
             n == FirstNode(o)
             t == Tree(o)
  <2>6. /\ h \in Nat /\ c \in 0 .. 2 ^ h /\ n = 2 ^ h * k
        /\ IsArray(nodes, h) /\ RowsRight(nodes, h, c, t, n, 0)
    BY <2>2, <2>3, <2>4, <2>5, Zenon DEF IsArray
  <2> HIDE DEF h, c, nodes, n, t
  <2>7. /\ RowsRight(FillSubtree(nodes, h, c, t, n), h, c, t, n, h)
        /\ IsArray(FillSubtree(nodes, h, c, t, n), h)
    BY <2>6, FilledRight
  <2> QED BY <2>7, Zenon DEF h, c, nodes, n, t, Complete, IsArray
<1> HIDE DEF Filled
<1>10. ComputedInv'
  <2>1. NeverLevelOneAlone' <=> NeverLevelOneAlone
    BY Zenon DEF NeverLevelOneAlone
  <2>2. ASSUME NeverLevelOneAlone, NEW o \in Orders
        PROVE  /\ w'.nodes[o] = [x \in 0 .. 2 ^ (SubHeightOf(o)' + 1) - 2 |-> w'.nodes[o][x]]
               /\ o \in w'.open => Bottom(w.nodes[o], o)'
               /\ o \notin w'.open => Complete(w.nodes[o], o)'
    <3>1. w'.nodes[o] = After(o) /\ (o \in w'.open <=> o \in w.open /\ o \notin Cheapest)
      BY <1>4
    <3>2. SubHeightOf(o)' = SubHeightOf(o) /\ (\A s : Row(o, s)' = Row(o, s))
          /\ Tree(o)' = Tree(o) /\ FirstNode(o)' = FirstNode(o)
      BY <1>6, Zenon
    <3>3. /\ Bottom(w.nodes[o], o)' <=> Bottom(w'.nodes[o], o)
          /\ Complete(w.nodes[o], o)' <=> Complete(w'.nodes[o], o)
      BY <3>2, Zenon DEF Bottom, Complete
    <3>4. CASE o \in Cheapest
      <4>1. w'.nodes[o] = Filled(o) /\ o \notin w'.open
        BY <3>1, <3>4, Zenon DEF After
      <4> QED BY <1>9, <2>2, <3>2, <3>3, <3>4, <4>1, Zenon
    <3>5. CASE o \notin Cheapest
      <4>1. w'.nodes[o] = w.nodes[o] /\ (o \in w'.open <=> o \in w.open)
        BY <3>1, <3>5, Zenon DEF After
      <4>2. /\ w.nodes[o] = [x \in 0 .. 2 ^ (SubHeightOf(o) + 1) - 2 |-> w.nodes[o][x]]
            /\ o \in w.open => Bottom(w.nodes[o], o)
            /\ o \notin w.open => Complete(w.nodes[o], o)
        BY <1>1, <2>2, Zenon DEF IInv, LoadInv, ComputedInv
      <4> QED BY <3>2, <3>3, <4>1, <4>2, Zenon
    <3> QED BY <3>4, <3>5
  <2> QED BY <1>6, <2>1, <2>2, Zenon DEF ComputedInv
<1> QED BY <1>5, <1>7, <1>10 DEF LoadInv

\* Loading ends when no order is left.
LEMMA LoadedKeeps == ASSUME IInv, Loaded PROVE LoadInv'
<1>1. w.status = "computed" /\ w.open = {} /\ UNCHANGED keygenVars
      /\ w' = [w EXCEPT !.status = "none"]
  BY DEF Loaded
<1>2. /\ w = [status |-> w.status, p |-> w.p, key |-> w.key, q |-> w.q, bottom |-> w.bottom,
              aux |-> w.aux, plan |-> w.plan, open |-> w.open, nodes |-> w.nodes]
      /\ w.nodes = [o \in Orders |-> w.nodes[o]]
  BY <1>1, Zenon DEF IInv, LoadInv, ListedInv
<1>3. /\ w'.status = "none" /\ SamePlace /\ w'.open = {} /\ w'.nodes = w.nodes
      /\ w' = [status |-> w'.status, p |-> w'.p, key |-> w'.key, q |-> w'.q, bottom |-> w'.bottom,
               aux |-> w'.aux, plan |-> w'.plan, open |-> w'.open, nodes |-> w'.nodes]
  BY <1>1, <1>2 DEF SamePlace
<1>4. BegunInv'
  BY <1>1, <1>3, BegunKeeps
<1>5. /\ Orders' = Orders
      /\ \A o : SubHeightOf(o)' = SubHeightOf(o) /\ (\A s : Row(o, s)' = Row(o, s))
                /\ Tree(o)' = Tree(o) /\ FirstNode(o)' = FirstNode(o)
  BY <1>3, SameGeometry, Zenon
<1>6. ListedInv'
  <2>1. w'.open \subseteq Orders' /\ w'.status # "listed"
    BY <1>3
  <2>2. w'.nodes = [o \in Orders' |-> w'.nodes[o]]
    BY <1>2, <1>3, <1>5, Zenon
  <2> QED BY <1>3, <2>1, <2>2, Zenon DEF ListedInv
<1>7. ComputedInv'
  <2>1. NeverLevelOneAlone' <=> NeverLevelOneAlone
    BY Zenon DEF NeverLevelOneAlone
  <2>2. \A o : Complete(w.nodes[o], o)' <=> Complete(w.nodes[o], o)
    BY <1>3, <1>5, Zenon DEF Complete
  <2>3. NeverLevelOneAlone => \A o \in Orders :
          /\ w.nodes[o] = [x \in 0 .. 2 ^ (SubHeightOf(o) + 1) - 2 |-> w.nodes[o][x]]
          /\ Complete(w.nodes[o], o)
    <3>1. \A o : o \notin w.open
      BY <1>1
    <3> QED BY <1>1, <3>1, Zenon DEF IInv, LoadInv, ComputedInv
  <2>4. \A o : o \notin w'.open
    BY <1>3
  <2> QED BY <1>3, <1>5, <2>1, <2>2, <2>3, <2>4, Zenon DEF ComputedInv
<1> QED BY <1>4, <1>6, <1>7 DEF LoadInv

\* A caller of hss_generate_working_key brings parameters of its own.
LEMMA GenerateWorkingKeyKeeps ==
  ASSUME IInv, NEW p \in Params, GenerateWorkingKey(p)
  PROVE  LoadInv'
<1>1. PICK q \in LoadAt, bottom \in BottomsOf(p), aux \in {auxFile, NoAux}, plan \in Plans :
        Begin(p, q, bottom, aux, plan)
  BY Zenon DEF GenerateWorkingKey
<1>2. UNCHANGED keygenVars
  BY Zenon DEF GenerateWorkingKey
<1>3. bottom \in Bottoms
  BY Zenon DEF BottomsOf
<1>4. p \in Seq([lm : Nat, ots : Nat])
  BY ParamsAssumption, Zenon
<1> QED BY <1>1, <1>2, <1>3, <1>4, BeginKeeps

\* hss_load_private_key takes them from the key.
LEMMA LoadPrivateKeyKeeps ==
  ASSUME IInv, NEW beyond, LoadPrivateKey(beyond)
  PROVE  LoadInv'
<1> DEFINE p == GetParameterSet(nv.field, beyond)
<1>1. UNCHANGED keygenVars
  BY Zenon DEF LoadPrivateKey
<1>2. CASE p = Rejected
  <2>1. w' = [status |-> "rejected", key |-> nv.key]
    BY <1>2, Zenon DEF LoadPrivateKey
  <2>2. w'.status = "rejected"
    BY <2>1
  <2> QED BY <2>2, NotLoading
<1>3. CASE p # Rejected
  <2>1. \E q \in LoadAt, bottom \in BottomsOf(p), plan \in Plans : Begin(p, q, bottom, auxFile, plan)
    BY <1>3, Zenon DEF LoadPrivateKey
  <2>2. p \in Seq([lm : Nat, ots : Nat])
    BY <1>3, ParameterSetFacts
  <2> HIDE DEF p
  <2>3. PICK q \in LoadAt, bottom \in BottomsOf(p), plan \in Plans : Begin(p, q, bottom, auxFile, plan)
    BY <2>1, Zenon
  <2>4. bottom \in Bottoms /\ auxFile \in {auxFile, NoAux}
    BY Zenon DEF BottomsOf
  <2> QED BY <1>1, <2>2, <2>3, <2>4, BeginKeeps
<1> QED BY <1>2, <1>3

\* The invariant holds when the program starts, and every step preserves it.
LEMMA IInvStarts == ASSUME Init PROVE IInv
<1>1. KeygenInv
  BY KeygenStarts DEF Init
<1>2. w.status = "unallocated"
  BY DEF Init, Unloaded
<1>3. LoadInv
  BY <1>2 DEF LoadInv, BegunInv, ListedInv, ComputedInv
<1> QED BY <1>1, <1>3 DEF IInv

\* Each step preserves the part it may disturb; steps of loading leave the other part alone.
LEMMA IInvKept == ASSUME IInv, [Next]_vars PROVE IInv'
<1>1. KeygenInv /\ LoadInv
  BY DEF IInv
<1>2. CASE w = Unloaded /\ KeygenNext /\ UNCHANGED w
  <2>1. KeygenInv'
    BY <1>1, <1>2, KeygenKeeps
  <2>2. w'.status \notin {"begun", "listed", "computed", "none"}
    BY <1>2 DEF Unloaded
  <2>3. LoadInv'
    BY <2>2, NotLoading
  <2> QED BY <2>1, <2>3 DEF IInv
<1>3. ASSUME UNCHANGED keygenVars, LoadInv' PROVE IInv'
  <2>1. KeygenInv'
    BY <1>1, <1>3, KeygenSame
  <2> QED BY <1>3, <2>1 DEF IInv
<1>4. ASSUME NEW p \in Params, GenerateWorkingKey(p) PROVE IInv'
  <2>1. UNCHANGED keygenVars
    BY <1>4, Zenon DEF GenerateWorkingKey
  <2> QED BY <1>3, <1>4, <2>1, GenerateWorkingKeyKeeps
<1>5. ASSUME NEW beyond, LoadPrivateKey(beyond) PROVE IInv'
  <2>1. UNCHANGED keygenVars
    BY <1>5, Zenon DEF LoadPrivateKey
  <2> QED BY <1>3, <1>5, <2>1, LoadPrivateKeyKeeps
<1>6. CASE List
  BY <1>3, <1>6, ListKeeps DEF List
<1>7. CASE Compute
  <2>1. UNCHANGED keygenVars
    BY <1>7, Zenon DEF Compute
  <2> QED BY <1>3, <1>7, <2>1, ComputeKeeps
<1>8. CASE ComputeFailed
  <2>1. UNCHANGED keygenVars /\ w'.status \notin {"begun", "listed", "computed", "none"}
    BY <1>8 DEF ComputeFailed
  <2> QED BY <1>3, <2>1, NotLoading
<1>9. CASE Fill
  <2>1. UNCHANGED keygenVars
    BY <1>9, Zenon DEF Fill
  <2> QED BY <1>3, <1>9, <2>1, FillKeeps
<1>10. CASE Loaded
  <2>1. UNCHANGED keygenVars
    BY <1>10, Zenon DEF Loaded
  <2> QED BY <1>3, <1>10, <2>1, LoadedKeeps
<1>11. CASE Free
  <2>1. UNCHANGED keygenVars /\ w'.status \notin {"begun", "listed", "computed", "none"}
    BY <1>11 DEF Free, Unloaded
  <2> QED BY <1>3, <2>1, NotLoading
<1>12. CASE UNCHANGED vars
  <2>1. UNCHANGED keygenVars /\ w' = w
    BY <1>12 DEF vars
  <2>2. SamePlace
    BY <2>1 DEF SamePlace
  <2>3. Orders' = Orders /\ \A o : FromAux(o)' = FromAux(o)
    BY <2>2, SameGeometry, Zenon
  <2>4. \A o : SubHeightOf(o)' = SubHeightOf(o) /\ Row(o, 0)' = Row(o, 0)
               /\ Tree(o)' = Tree(o) /\ FirstNode(o)' = FirstNode(o)
    BY <2>2, SameGeometry, Zenon
  <2>5. BegunInv'
    <3>1. nv' = nv
      BY <2>1 DEF keygenVars
    <3> QED BY <1>1, <2>1, <3>1 DEF LoadInv, BegunInv, Stores
  <2>6. ListedInv'
    <3>1. [o \in Orders' |-> FromAux(o)'] = [o \in Orders |-> FromAux(o)]
      BY <2>3
    <3>2. [o \in Orders' |-> w'.nodes[o]] = [o \in Orders |-> w.nodes[o]]
      BY <2>1, <2>3
    <3> QED BY <1>1, <2>1, <2>3, <3>1, <3>2, Zenon DEF LoadInv, ListedInv
  <2>7. ComputedInv'
    <3>1. \A o : /\ Bottom(w.nodes[o], o)' <=> Bottom(w.nodes[o], o)
                 /\ Complete(w.nodes[o], o)' <=> Complete(w.nodes[o], o)
      BY <2>1, <2>4, Zenon DEF Bottom, Complete
    <3>2. NeverLevelOneAlone' <=> NeverLevelOneAlone
      BY Zenon DEF NeverLevelOneAlone
    <3> QED BY <1>1, <2>1, <2>3, <2>4, <3>1, <3>2, Zenon DEF LoadInv, ComputedInv
  <2> QED BY <1>3, <2>1, <2>5, <2>6, <2>7 DEF LoadInv
<1> QED BY <1>2, <1>4, <1>5, <1>6, <1>7, <1>8, <1>9, <1>10, <1>11, <1>12, Zenon DEF Next

-----------------------------------------------------------------------------
(* The theorems. *)

\* The inductive invariant holds, for every set of parameters, sizes of aux buffers, places
\* where keys are loaded and ways of cutting the work.
THEOREM Invariance == Spec => []IInv
<1>1. Init => IInv
  BY IInvStarts
<1>2. IInv /\ [Next]_vars => IInv'
  BY IInvKept
<1> QED BY <1>1, <1>2, PTL DEF Spec

\* The type invariant of key generation: the levels of the aux data and the level that is
\* computed in parallel lie between the root and the leaves.
THEOREM TypeInvariant == Spec => []KeygenTypeOK
<1>1. IInv => KeygenTypeOK
  <2> SUFFICES ASSUME IInv PROVE KeygenTypeOK
    OBVIOUS
  <2>1. KeyInv /\ CallInv /\ AuxInv
    BY DEF IInv, KeygenInv
  <2>2. nv.key \in 0 .. keys /\ keys \in 0 .. MaxKeys
        /\ pc \in {"idle", "choose", "combine", "returned"}
    BY <2>1, Zenon DEF KeyInv
  <2>3. auxBuf.levels \cup auxFile.levels \subseteq 1 .. 24
    BY <2>1 DEF AuxInv, AuxShape
  <2>4. pc \in {"choose", "combine"} => call.level \in 1 .. Height - 1
    BY <2>1, Zenon DEF CallInv
  <2> QED BY <2>2, <2>3, <2>4, Zenon DEF KeygenTypeOK
<1> QED BY <1>1, Invariance, PTL

\* The public key that hss_generate_private_key returns is the root of the tree of the key
\* it stored, whichever level was computed in parallel and wherever its nodes were put.
THEOREM PublicKeys == Spec => []PublicKeyIsRoot
<1>1. IInv => PublicKeyIsRoot
  BY DEF IInv, KeygenInv
<1> QED BY <1>1, Invariance, PTL

\* A working key has the parameters its private key was generated with, and a key that was
\* overwritten with zeroes never loads.
THEOREM Parameters == Spec => []ParametersAgree
<1>1. IInv => ParametersAgree
  <2> SUFFICES ASSUME IInv, w.status \in {"begun", "listed", "computed", "none"}
               PROVE  w.key # 0 /\ (w.key = pub.key => w.p = pub.p)
    BY Zenon DEF ParametersAgree
  <2>1. w.key = nv.key /\ w.key # 0 /\ Stores(w.p)
    BY Zenon DEF IInv, LoadInv, BegunInv
  <2>2. pub.key # 0 /\ pub.key = nv.key => Stores(pub.p)
    BY Zenon DEF IInv, KeygenInv, KeyInv
  <2>3. ASSUME w.key = pub.key PROVE w.p = pub.p
    <3>1. Stores(pub.p)
      BY <2>1, <2>2, <2>3
    <3>2. /\ w.p \in Params /\ CanCompress(w.p) /\ Compress(w.p) = nv.field
          /\ pub.p \in Params /\ CanCompress(pub.p) /\ Compress(pub.p) = nv.field
      BY <2>1, <3>1, Zenon DEF Stores
    <3>3. ParamLists(Params)
      BY ParamsAssumption DEF ParamLists
    <3>4. \A r \in Params : CanCompress(r) /\ Compress(r) = Compress(pub.p) => r = pub.p
      BY <3>2, <3>3, CompressFacts
    <3> QED BY <3>2, <3>4, Zenon
  <2> QED BY <2>1, <2>3
<1> QED BY <1>1, Invariance, PTL

\* No two work items write the same node, and with the aux data and the subtree below they
\* leave none out.
THEOREM WorkIsDisjoint == Spec => []EachNodeOnce
<1>1. IInv => EachNodeOnce
  <2> SUFFICES ASSUME IInv, w.status = "listed", NEW o \in w.open
               PROVE  /\ \A r, s \in Requests(o) :
                           r # s => (r[1] .. r[1] + r[2] - 1) \cap (s[1] .. s[1] + s[2] - 1) = {}
                      /\ Requested(o) = {n \in 0 .. o.count - 1 : ~o.done /\ ~(o.prev /\ n = o.at)}
    BY Zenon DEF EachNodeOnce
  <2>1. LoadParts
    BY BegunFacts
  <2>2. o \in Orders
    BY DEF IInv, LoadInv, ListedInv
  <2>3. Covers(Requests(o), Missing(o)) /\ Requested(o) = Missing(o)
    BY <2>1, <2>2, RequestsCover
  <2>4. ASSUME NEW r \in Requests(o), NEW s \in Requests(o), r # s
        PROVE  Span(r) \cap Span(s) = {}
    <3>1. \A x : ~(x \in Span(r) /\ x \in Span(s))
      BY <2>3, <2>4, Zenon DEF Covers
    <3> QED BY <3>1, Zenon
  <2>5. \A r, s \in Requests(o) :
          r # s => (r[1] .. r[1] + r[2] - 1) \cap (s[1] .. s[1] + s[2] - 1) = {}
    BY <2>4, Zenon DEF Span
  <2> QED BY <2>3, <2>5, Zenon DEF Missing
<1> QED BY <1>1, Invariance, PTL

\* As long as no buffer has room for level 1 and nothing else: aux data that loading would
\* accept holds the nodes of the root tree of the stored key, whatever failed, crashed or
\* was damaged before.
THEOREM AuxData == ASSUME NeverLevelOneAlone PROVE Spec => []AuxIsRight
<1>1. IInv => AuxIsRight
  <2> SUFFICES ASSUME IInv, Accepts(auxFile, nv.key)
               PROVE  RightNodes(auxFile.levels, auxFile.node, nv.key)
    BY Zenon DEF AuxIsRight, RightNodes
  <2>1. RightMac(auxFile.mac)
    BY Zenon DEF IInv, KeygenInv, AuxInv
  <2>2. auxFile.mac = [key |-> nv.key, levels |-> auxFile.levels, node |-> auxFile.node]
    BY Zenon DEF Accepts
  <2>3. auxFile.mac.key = nv.key /\ auxFile.mac.levels = auxFile.levels
        /\ auxFile.mac.node = auxFile.node
    BY <2>2
  <2> QED BY <2>1, <2>3, Zenon DEF RightMac
<1> QED BY <1>1, Invariance, PTL

\* Under the same condition a loaded key has the right hashes in every subtree, whether they
\* came from the aux data, from a work item, from its pieces, or from the subtree below.
THEOREM LoadedKeys == ASSUME NeverLevelOneAlone PROVE Spec => []LoadedRight
<1>1. IInv => LoadedRight
  <2> SUFFICES ASSUME IInv, w.status = "none", NEW o \in DOMAIN w.nodes
               PROVE  Complete(w.nodes[o], o)
    BY Zenon DEF LoadedRight, Complete, RowsRight, Row
  <2>1. o \in Orders /\ o \notin w.open
    BY DEF IInv, LoadInv, ListedInv
  <2> QED BY <2>1, Zenon DEF IInv, LoadInv, ComputedInv
<1> QED BY <1>1, Invariance, PTL

\* When the condition holds whatever the buffers: no level of the aux data of a tree of even
\* height (10 or 20) is odd.
THEOREM EvenHeights ==
  ASSUME \A p \in Params : CanCompress(p) => p[1].lm % 2 = 0
  PROVE  NeverLevelOneAlone
<1> SUFFICES ASSUME NEW p \in Params, CanCompress(p), NEW room \in Rooms \ {NoBuffer},
                    AuxLevels(p[1].lm, room) = {1}
             PROVE  FALSE
  BY Zenon DEF NeverLevelOneAlone
<1>1. 1 \in AuxLevels(p[1].lm, room)
  OBVIOUS
<1>2. 1 % 2 = p[1].lm % 2
  BY <1>1, Zenon DEF AuxLevels
<1>3. p[1].lm % 2 = 0
  OBVIOUS
<1>4. 1 % 2 = 1
  OBVIOUS
<1> QED BY <1>2, <1>3, <1>4
=============================================================================
