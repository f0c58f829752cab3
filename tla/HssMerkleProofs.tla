---------------------------- MODULE HssMerkleProofs ----------------------------
(***************************************************************************)
(* Proofs about HssMerkle, for trees of every shape that                   *)
(* allocate_working_key may choose: that the working key is at every       *)
(* sequence number exactly what that number determines, wherever it has    *)
(* been loaded and however far it has been built since.                    *)
(***************************************************************************)
EXTENDS HssMerkle, NumberFacts

-----------------------------------------------------------------------------
(* The sizes of trees and subtrees.  The top of a subtree of sublevel j is   *)
(* Top(i, j) levels above the bottom of the tree.                            *)

Top(i, j) == SubtreeHeight(i, j) + LevelsBelow(i, j)

\* The shape of the trees, level by level.
LEMMA ShapeFacts ==
  /\ L \in Nat /\ L >= 1
  /\ \A i \in Levels : /\ Height(i) \in 1 .. 25
                       /\ Shape[i].sub \in Nat /\ Shape[i].sub >= 2
<1> DEFINE Trees == [h : 1 .. 25, sub : Nat \ {0, 1}]
<1>1. Shape \in Seq(Trees) /\ Shape # <<>>
  BY ShapeAssumption
<1>2. \A t \in Trees : t.h \in 1 .. 25 /\ t.sub \in Nat /\ t.sub >= 2
  OBVIOUS
<1> HIDE DEF Trees
<1>3. L \in Nat /\ L >= 1
  BY <1>1 DEF L
<1>4. \A i \in Levels : Shape[i] \in Trees
  BY <1>1 DEF L, Levels
<1> QED BY <1>2, <1>3, <1>4 DEF Height

\* A tree has at least two leaves, the last of them MaxIndex.
LEMMA LeavesFacts ==
  \A i \in Levels : Leaves(i) \in Nat /\ Leaves(i) >= 2 /\ MaxIndex(i) \in Nat
                    /\ MaxIndex(i) = Leaves(i) - 1
<1> TAKE i \in Levels
<1>1. Height(i) \in Nat /\ Height(i) - 1 \in Nat /\ (Height(i) - 1) + 1 = Height(i)
  BY ShapeFacts
<1>2. 2 ^ Height(i) = 2 * 2 ^ (Height(i) - 1)
  BY <1>1, PowerStep
<1>3. 2 ^ (Height(i) - 1) >= 1 /\ 2 ^ (Height(i) - 1) \in Nat
  BY <1>1, PowerPositive
<1> QED BY <1>2, <1>3 DEF Leaves, MaxIndex

\* The sublevels reach just over the height of the tree.
LEMMA SublevelsFacts ==
  ASSUME NEW i \in Levels
  PROVE  /\ Sublevels(i) \in 1 .. 25
         /\ (Sublevels(i) - 1) * Shape[i].sub < Height(i)
         /\ Height(i) <= Sublevels(i) * Shape[i].sub
         /\ 0 \in Sub(i)
         /\ Sub(i) = 0 .. Sublevels(i) - 1
<1> DEFINE h == Height(i)
           b == Shape[i].sub
           s == Sublevels(i)
           r == (h + b - 1) % b
<1>1. h \in 1 .. 25 /\ b \in Nat /\ b >= 2
  BY ShapeFacts
<1>2. s \in Nat /\ r \in 0 .. b - 1 /\ h + b - 1 = b * s + r
  <2>1. s = (h + b - 1) \div b
    BY DEF Sublevels
  <2> HIDE DEF s, h, b
  <2> QED BY <1>1, <2>1, DivMod
<1> HIDE DEF h, b, s, r
<1>3. s >= 1
  <2> SUFFICES ASSUME s = 0 PROVE FALSE
    BY <1>2
  <2> QED BY <1>1, <1>2
<1>4. (s - 1) * b = b * s - b /\ s * b = b * s
  BY <1>1, <1>2
<1>5. (s - 1) * b < h /\ h <= s * b
  BY <1>1, <1>2, <1>4
<1>6. s - 1 <= (s - 1) * b
  BY <1>1, <1>2, <1>3
<1>7. s \in 1 .. 25
  BY <1>1, <1>2, <1>3, <1>5, <1>6
<1> QED BY <1>3, <1>5, <1>7 DEF h, b, s, Sub

\* The sublevels are numbers from 0 up.
LEMMA SubFacts ==
  \A i \in Levels :
    /\ Sublevels(i) \in Nat /\ Sublevels(i) - 1 \in Nat
    /\ Sub(i) \in SUBSET (0 .. Sublevels(i) - 1)
    /\ \A j \in Sub(i) : /\ j \in 0 .. 24 /\ j <= Sublevels(i) - 1 /\ j \in Nat
                         /\ j # Sublevels(i) - 1 => j < Sublevels(i) - 1 /\ j + 1 \in Sub(i)
<1> TAKE i \in Levels
<1> DEFINE s == Sublevels(i)
<1>1. s \in 1 .. 25
  BY SublevelsFacts
<1>2. Sub(i) = 0 .. s - 1
  BY SublevelsFacts
<1> HIDE DEF s
<1>3. ASSUME NEW j \in Sub(i)
      PROVE  /\ j \in 0 .. 24 /\ j <= s - 1 /\ j \in Nat
             /\ j # s - 1 => j < s - 1 /\ j + 1 \in Sub(i)
  <2>1. j \in 0 .. s - 1
    BY <1>2
  <2>2. j \in 0 .. 24 /\ j <= s - 1 /\ j \in Nat
    BY <1>1, <2>1
  <2>3. j # s - 1 => j < s - 1 /\ j + 1 \in 0 .. s - 1
    BY <1>1, <2>1
  <2> QED BY <1>2, <2>2, <2>3
<1>4. s \in Nat /\ s - 1 \in Nat
  BY <1>1
<1>5. Sub(i) \in SUBSET (0 .. s - 1)
  BY <1>2
<1> QED BY <1>3, <1>4, <1>5, Zenon DEF s

\* The tops of the sublevels, from the top of the tree down to its bottom.
LEMMA TopFacts ==
  ASSUME NEW i \in Levels
  PROVE  /\ Top(i, 0) = Height(i)
         /\ \A j \in Sub(i) : /\ Top(i, j) \in 1 .. Height(i)
                              /\ LevelsBelow(i, j) \in 0 .. Top(i, j) - 1
                              /\ SubtreeHeight(i, j) = Top(i, j) - LevelsBelow(i, j)
         /\ \A j \in Sub(i) \ {0} : Top(i, j) = (Sublevels(i) - j) * Shape[i].sub
         /\ \A j \in Sub(i) : j + 1 \in Sub(i) => LevelsBelow(i, j) = Top(i, j + 1)
         /\ LevelsBelow(i, Sublevels(i) - 1) = 0
         /\ \A j, k \in Sub(i) : j < k => Top(i, k) <= LevelsBelow(i, j)
<1> DEFINE h == Height(i)
           b == Shape[i].sub
           s == Sublevels(i)
<1>1. h \in 1 .. 25 /\ b \in Nat /\ b >= 2
  BY ShapeFacts
<1>2. s \in 1 .. 25 /\ (s - 1) * b < h /\ h <= s * b
  BY SublevelsFacts
<1> HIDE DEF h, b, s
<1>3. Sub(i) = 0 .. s - 1
  BY DEF s, Sub
<1>4. \A j \in 0 .. s : (s - j) * b \in Nat /\ (s - j) * b = (s - 1 - j) * b + b
  BY <1>1, <1>2
<1>5. \A j \in 0 .. s - 1 : /\ LevelsBelow(i, j) = (s - 1 - j) * b
                            /\ Top(i, j) = IF j = 0 THEN h ELSE (s - j) * b
  <2> TAKE j \in 0 .. s - 1
  <2>1. LevelsBelow(i, j) = (s - 1 - j) * b
    BY DEF LevelsBelow, s, b
  <2>2. Top(i, j) = (IF j = 0 THEN h - LevelsBelow(i, 0) ELSE b) + LevelsBelow(i, j)
    BY DEF Top, SubtreeHeight, h, b
  <2>3. b + (s - 1 - j) * b = (s - j) * b /\ (s - 1 - j) * b \in Int
    BY <1>1, <1>2, <1>4
  <2>4. LevelsBelow(i, 0) = LevelsBelow(i, j) \/ j # 0
    OBVIOUS
  <2>5. CASE j = 0
    BY <2>1, <2>2, <2>3, <2>5, <1>1
  <2>6. CASE j # 0
    BY <2>1, <2>2, <2>3, <2>6
  <2> QED BY <2>1, <2>5, <2>6
<1>6. \A j, k \in 0 .. s : j <= k => (s - k) * b <= (s - j) * b
  <2> TAKE j, k \in 0 .. s
  <2> HAVE j <= k
  <2>1. (s - j) * b = (s - k) * b + (k - j) * b
    BY <1>1, <1>2
  <2>2. (k - j) * b >= 0 /\ (s - k) * b \in Int /\ (k - j) * b \in Int
    BY <1>1, <1>2
  <2> QED BY <2>1, <2>2
<1>7. \A j \in 0 .. s - 1 : (s - 1 - j) * b <= (s - 1) * b /\ (s - 1 - j) * b \in Nat
  <2> TAKE j \in 0 .. s - 1
  <2>1. j + 1 \in 0 .. s /\ 1 \in 0 .. s /\ 1 <= j + 1 /\ s - (j + 1) = s - 1 - j
    BY <1>2
  <2> QED BY <1>4, <1>6, <2>1
<1>8. \A j \in 0 .. s - 1 : /\ Top(i, j) \in 1 .. h
                            /\ LevelsBelow(i, j) \in 0 .. Top(i, j) - 1
  <2> TAKE j \in 0 .. s - 1
  <2>1. LevelsBelow(i, j) \in Nat /\ LevelsBelow(i, j) < h
    BY <1>1, <1>2, <1>5, <1>7
  <2>2. CASE j = 0
    BY <1>1, <1>5, <2>1, <2>2
  <2>3. CASE j # 0
    <3>1. j - 1 \in 0 .. s - 1 /\ s - 1 - (j - 1) = s - j
      BY <2>3, <1>2
    <3>2. (s - j) * b <= (s - 1) * b
      BY <1>7, <3>1
    <3>3. Top(i, j) = (s - j) * b /\ LevelsBelow(i, j) = (s - 1 - j) * b
      BY <1>5, <2>3
    <3>4. (s - j) * b \in Nat /\ (s - 1 - j) * b \in Nat /\ (s - j) * b = (s - 1 - j) * b + b
      <4>1. j \in 0 .. s
        BY <1>2
      <4> QED BY <1>4, <1>7, <4>1
    <3>5. (s - 1) * b \in Int
      BY <1>1, <1>2
    <3> QED BY <1>1, <1>2, <3>2, <3>3, <3>4, <3>5
  <2> QED BY <2>2, <2>3
<1>9. \A j \in 0 .. s - 1 : j + 1 \in 0 .. s - 1 => LevelsBelow(i, j) = Top(i, j + 1)
  <2> TAKE j \in 0 .. s - 1
  <2> HAVE j + 1 \in 0 .. s - 1
  <2>1. s - 1 - j = s - (j + 1) /\ j + 1 # 0
    BY <1>2
  <2> QED BY <1>5, <2>1
<1>10. LevelsBelow(i, s - 1) = 0
  BY <1>1, <1>2, <1>5
<1>11. \A j, k \in 0 .. s - 1 : j < k => Top(i, k) <= LevelsBelow(i, j)
  <2> TAKE j, k \in 0 .. s - 1
  <2> HAVE j < k
  <2>1. j + 1 \in 0 .. s /\ k \in 0 .. s /\ j + 1 <= k /\ s - (j + 1) = s - 1 - j /\ k # 0
    BY <1>2
  <2> QED BY <1>5, <1>6, <2>1
<1>12. \A j \in 0 .. s - 1 : SubtreeHeight(i, j) = Top(i, j) - LevelsBelow(i, j)
  <2> TAKE j \in 0 .. s - 1
  <2>1. Top(i, j) = SubtreeHeight(i, j) + LevelsBelow(i, j)
    BY DEF Top
  <2>2. LevelsBelow(i, j) \in Int /\ LevelsBelow(i, 0) \in Int
    BY <1>2, <1>5, <1>7
  <2>3. SubtreeHeight(i, j) = IF j = 0 THEN h - LevelsBelow(i, 0) ELSE b
    BY DEF SubtreeHeight, h, b
  <2>4. SubtreeHeight(i, j) \in Int
    BY <1>1, <2>2, <2>3
  <2> QED BY <2>1, <2>2, <2>4
<1>13. Sub(i) = 0 .. s - 1 /\ 0 \in Sub(i)
  BY SublevelsFacts DEF s
<1>14. Top(i, 0) = h
  BY <1>5, <1>13
<1>15. \A j \in Sub(i) \ {0} : Top(i, j) = (s - j) * b
  BY <1>5, <1>13
<1> HIDE DEF h, s, b
<1>16. /\ \A j \in Sub(i) : /\ Top(i, j) \in 1 .. h
                            /\ LevelsBelow(i, j) \in 0 .. Top(i, j) - 1
                            /\ SubtreeHeight(i, j) = Top(i, j) - LevelsBelow(i, j)
       /\ \A j \in Sub(i) : j + 1 \in Sub(i) => LevelsBelow(i, j) = Top(i, j + 1)
       /\ \A j, k \in Sub(i) : j < k => Top(i, k) <= LevelsBelow(i, j)
  BY <1>8, <1>9, <1>11, <1>12, <1>13, Zenon
<1> QED BY <1>10, <1>14, <1>15, <1>16, Zenon DEF h, s, b

\* Every subtree spans a power of two of leaves.
LEMMA SizeIsPower ==
  \A i \in Levels : \A j \in Sub(i) : Size(i, j) = 2 ^ Top(i, j)
BY DEF Size, Top

\* The subtrees of a lower sublevel divide those of a higher one; sublevel 0 is the tree.
LEMMA SizeFacts ==
  ASSUME NEW i \in Levels
  PROVE  /\ Size(i, 0) = Leaves(i)
         /\ \A j \in Sub(i) : /\ Size(i, j) \in Nat /\ Size(i, j) >= 2
                              /\ Size(i, j) <= Leaves(i)
                              /\ Size(i, j) < MaxSubindex
                              /\ \E m \in Nat : m >= 1 /\ Leaves(i) = Size(i, j) * m
         /\ \A j, k \in Sub(i) : j < k => 2 * Size(i, k) <= Size(i, j)
<1>1. Height(i) \in 1 .. 25
  BY ShapeFacts
<1>2. \A j \in Sub(i) : Top(i, j) \in 1 .. Height(i)
  BY TopFacts
<1>3. Size(i, 0) = Leaves(i)
  BY SublevelsFacts, SizeIsPower, TopFacts DEF Leaves
<1>4. ASSUME NEW j \in Sub(i)
      PROVE  /\ Size(i, j) \in Nat /\ Size(i, j) >= 2
             /\ Size(i, j) <= Leaves(i)
             /\ Size(i, j) < MaxSubindex
             /\ \E m \in Nat : m >= 1 /\ Leaves(i) = Size(i, j) * m
  <2> DEFINE t == Top(i, j)
             h == Height(i)
  <2>1. t \in Nat /\ h \in Nat /\ t <= h /\ 1 <= t /\ h <= 25
    BY <1>1, <1>2
  <2>2. Size(i, j) = 2 ^ t /\ Leaves(i) = 2 ^ h
    BY SizeIsPower DEF Leaves
  <2> HIDE DEF t, h
  <2>3. 2 ^ t \in Nat /\ 2 ^ t <= 2 ^ h
    BY <2>1, PowerPositive, PowerMonotone
  <2>4. 2 ^ 1 <= 2 ^ t
    BY <2>1, PowerMonotone
  <2>5. 2 * 2 ^ h <= 2 ^ 30
    <3>1. 30 \in Nat /\ h <= 30 /\ h < 30
      BY <2>1
    <3> QED BY <2>1, <3>1, PowerMonotone, Zenon
  <2>6. h - t \in Nat /\ 2 ^ h = 2 ^ t * 2 ^ (h - t)
    BY <2>1, PowerQuotient
  <2>7. 2 ^ (h - t) \in Nat /\ 2 ^ (h - t) >= 1
    BY <2>6, PowerPositive
  <2>8. 2 ^ h \in Nat /\ 2 ^ h >= 1 /\ 2 ^ 1 = 2
    BY <2>1, PowerPositive
  <2>9. 2 ^ t < MaxSubindex
    BY <2>3, <2>5, <2>8 DEF MaxSubindex
  <2>10. \E m \in Nat : m >= 1 /\ 2 ^ h = 2 ^ t * m
    BY <2>6, <2>7
  <2> QED BY <2>2, <2>3, <2>4, <2>8, <2>9, <2>10
<1>5. ASSUME NEW j \in Sub(i), NEW k \in Sub(i), j < k
      PROVE  2 * Size(i, k) <= Size(i, j)
  <2>1. Top(i, k) < Top(i, j) /\ Top(i, k) \in Nat /\ Top(i, j) \in Nat
    <3>1. Top(i, k) <= LevelsBelow(i, j) /\ LevelsBelow(i, j) \in 0 .. Top(i, j) - 1
      BY <1>5, TopFacts
    <3> QED BY <1>2, <3>1
  <2>2. 2 * 2 ^ Top(i, k) <= 2 ^ Top(i, j)
    BY <2>1, PowerMonotone
  <2> QED BY <2>2, SizeIsPower
<1> QED BY <1>3, <1>4, <1>5

\* The leaves below one bottom node of a subtree.
Unit(i, j) == 2 ^ LevelsBelow(i, j)

\* Unit: the leaves below one bottom node of a subtree.
LEMMA UnitFacts ==
  ASSUME NEW i \in Levels, NEW j \in Sub(i)
  PROVE  /\ Unit(i, j) \in Nat /\ Unit(i, j) >= 1
         /\ 2 ^ SubtreeHeight(i, j) \in Nat /\ 2 ^ SubtreeHeight(i, j) >= 2
         /\ Size(i, j) = Unit(i, j) * 2 ^ SubtreeHeight(i, j)
         /\ j + 1 \in Sub(i) => Unit(i, j) = Size(i, j + 1) /\ LevelsBelow(i, j) > 0
         /\ j = Sublevels(i) - 1 => Unit(i, j) = 1 /\ LevelsBelow(i, j) = 0
<1> DEFINE t == Top(i, j)
           b == LevelsBelow(i, j)
<1>1. t \in Nat /\ b \in Nat /\ b < t /\ SubtreeHeight(i, j) = t - b /\ Height(i) \in Nat
  BY TopFacts, ShapeFacts
<1>2. Size(i, j) = 2 ^ t /\ Unit(i, j) = 2 ^ b
  BY SizeIsPower DEF Unit
<1>3. j + 1 \in Sub(i) => b = Top(i, j + 1) /\ Top(i, j + 1) \in 1 .. Height(i)
  BY TopFacts
<1>4. j = Sublevels(i) - 1 => b = 0
  BY TopFacts
<1>5. j + 1 \in Sub(i) => Unit(i, j) = Size(i, j + 1) /\ b > 0
  BY <1>1, <1>2, <1>3, SizeIsPower
<1> HIDE DEF t
<1>6. t - b \in Nat /\ 1 <= t - b /\ 2 ^ t = 2 ^ b * 2 ^ (t - b)
  BY <1>1, PowerQuotient
<1>7. 2 ^ (t - b) \in Nat /\ 2 ^ 1 <= 2 ^ (t - b) /\ 2 ^ b \in Nat /\ 2 ^ b >= 1
  BY <1>1, <1>6, PowerPositive, PowerMonotone
<1>8. 2 ^ 1 = 2
  OBVIOUS
<1> QED BY <1>1, <1>2, <1>4, <1>5, <1>6, <1>7, <1>8, PowerZero

\* UpdatesGenerated is the size of the topmost subtrees that come one after another.
LEMMA GeneratedFacts ==
  ASSUME NEW i \in Levels
  PROVE  /\ Sublevels(i) = 1 => UpdatesGenerated(i) = Leaves(i)
         /\ Sublevels(i) # 1 => 1 \in Sub(i) /\ UpdatesGenerated(i) = Size(i, 1)
         /\ UpdatesGenerated(i) \in Nat
         /\ UpdatesGenerated(i) <= Leaves(i)
<1>1. Sublevels(i) = 1 => UpdatesGenerated(i) = Leaves(i)
  BY DEF UpdatesGenerated
<1>2. Sublevels(i) # 1 => 1 \in Sub(i) /\ UpdatesGenerated(i) = Size(i, 1)
  <2> HAVE Sublevels(i) # 1
  <2>1. 1 \in Sub(i) \ {0}
    <3> DEFINE s == Sublevels(i)
    <3>1. s \in 1 .. 25 /\ s # 1
      BY SublevelsFacts
    <3>2. Sub(i) = 0 .. s - 1
      BY SublevelsFacts
    <3> HIDE DEF s
    <3> QED BY <3>1, <3>2
  <2>2. Top(i, 1) = (Sublevels(i) - 1) * Shape[i].sub
    BY <2>1, TopFacts
  <2> QED BY <2>1, <2>2, SizeIsPower DEF UpdatesGenerated
<1> QED BY <1>1, <1>2, SizeFacts, LeavesFacts

-----------------------------------------------------------------------------
(* The subtree that a leaf lies in. *)

\* The subtree that leaf q lies in, and where in it q is.
LEMMA AlignedFacts ==
  ASSUME NEW i \in Levels, NEW j \in Sub(i), NEW q \in 0 .. MaxIndex(i)
  PROVE  /\ Aligned(i, j, q) \in 0 .. q
         /\ q % Size(i, j) \in 0 .. Size(i, j) - 1
         /\ q = Aligned(i, j, q) + (q % Size(i, j))
         /\ Aligned(i, j, q) + Size(i, j) <= Leaves(i)
         /\ Aligned(i, j, q) + Size(i, j) < Leaves(i)
              => Aligned(i, j, q) + 2 * Size(i, j) <= Leaves(i)
<1> DEFINE n == Size(i, j)
           k == q \div n
           A == Aligned(i, j, q)
<1>1. n \in Nat /\ n >= 2 /\ Leaves(i) \in Nat /\ q \in Nat /\ q < Leaves(i)
  BY SizeFacts, LeavesFacts
<1>2. PICK m \in Nat : Leaves(i) = n * m
  BY SizeFacts
<1> HIDE DEF n
<1>3. k \in Nat /\ q % n \in 0 .. n - 1 /\ q = n * k + (q % n)
  BY <1>1, DivMod
<1>4. A = n * k
  <2>1. A = q - (q % n)
    BY DEF Aligned, n
  <2> HIDE DEF k, A
  <2> QED BY <1>1, <1>3, <2>1
<1> HIDE DEF k, A
<1>5. n * k \in Nat
  BY <1>1, <1>3
<1>6. k < m
  <2> SUFFICES ASSUME k >= m PROVE FALSE
    BY <1>2, <1>3
  <2>1. n * k >= n * m
    BY <1>1, <1>2, <1>3
  <2> QED BY <1>1, <1>2, <1>3, <2>1
<1>7. n * k + n <= n * m
  <2>1. n * (k + 1) <= n * m
    BY <1>1, <1>2, <1>3, <1>6
  <2> QED BY <1>1, <1>3, <2>1
<1>8. n * k + n < n * m => n * k + 2 * n <= n * m
  <2> SUFFICES ASSUME n * k + n < n * m PROVE n * k + 2 * n <= n * m
    OBVIOUS
  <2>1. k + 1 # m
    BY <1>1, <1>3
  <2>2. k + 2 <= m
    BY <1>2, <1>3, <1>6, <2>1
  <2>3. n * (k + 2) <= n * m
    BY <1>1, <1>2, <1>3, <2>2
  <2> QED BY <1>1, <1>3, <2>3
<1> QED BY <1>1, <1>2, <1>3, <1>4, <1>5, <1>7, <1>8 DEF n, A

\* The next leaf is in the same subtree, or it is the first one of the next.
LEMMA AlignedNext ==
  ASSUME NEW i \in Levels, NEW j \in Sub(i), NEW q \in 0 .. MaxIndex(i) - 1
  PROVE  /\ (q + 1) % Size(i, j) = 0
              => /\ q % Size(i, j) = Size(i, j) - 1
                 /\ Aligned(i, j, q + 1) = Aligned(i, j, q) + Size(i, j)
         /\ (q + 1) % Size(i, j) # 0
              => /\ (q + 1) % Size(i, j) = (q % Size(i, j)) + 1
                 /\ Aligned(i, j, q + 1) = Aligned(i, j, q)
<1> DEFINE n == Size(i, j)
<1>1. n \in Nat /\ n > 0 /\ q \in Int /\ q % n \in Int
  BY SizeFacts, LeavesFacts
<1>2. /\ (q + 1) % n = 0 => q % n = n - 1
      /\ (q + 1) % n # 0 => (q + 1) % n = (q % n) + 1
  <2> HIDE DEF n
  <2> QED BY <1>1, DivModNext
<1>3. \A p : Aligned(i, j, p) = p - (p % n)
  BY DEF Aligned
<1> HIDE DEF n
<1>4. /\ (q + 1) % n = 0 => q % n = n - 1 /\ Aligned(i, j, q + 1) = Aligned(i, j, q) + n
      /\ (q + 1) % n # 0 => (q + 1) % n = (q % n) + 1 /\ Aligned(i, j, q + 1) = Aligned(i, j, q)
  BY <1>1, <1>2, <1>3
<1> QED BY <1>4 DEF n

\* The first leaf is the first one of its subtrees, and sublevel 0 has one subtree.
LEMMA AlignedZero ==
  ASSUME NEW i \in Levels
  PROVE  /\ \A j \in Sub(i) : Aligned(i, j, 0) = 0 /\ 0 % Size(i, j) = 0
         /\ \A q \in 0 .. MaxIndex(i) : Aligned(i, 0, q) = 0 /\ q % Size(i, 0) = q
<1>1. \A j \in Sub(i) : 0 % Size(i, j) = 0
  BY SizeFacts
<1>2. ASSUME NEW q \in 0 .. MaxIndex(i) PROVE q % Size(i, 0) = q
  <2>1. q = Leaves(i) * 0 + q /\ q \in 0 .. Leaves(i) - 1 /\ q \in Int /\ Leaves(i) \in Nat
        /\ Leaves(i) > 0
    BY LeavesFacts
  <2> QED BY <2>1, DivModUnique, SizeFacts
<1> QED BY <1>1, <1>2 DEF Aligned

-----------------------------------------------------------------------------
(* Counting.  A sequence number is a number whose digits are the leaves; the *)
(* first digits alone, down to level i, are G(c, i).                         *)

\* HeightBelow exists, and adds up the heights from the bottom.
LEMMA HeightBelowFacts ==
  /\ HeightBelow \in [Levels -> Nat]
  /\ HeightBelow[L] = 0
  /\ \A i \in 2 .. L : HeightBelow[i - 1] = HeightBelow[i] + Height(i)
<1> DEFINE F == [n \in 1 .. L - 1 |-> [v \in Nat |-> v + Height(L - n + 1)]]
           Equation(f) == f = [i \in Levels |-> IF i = L THEN 0 ELSE f[i + 1] + Height(i + 1)]
<1>1. L \in Nat /\ L >= 1 /\ L - 1 \in Nat
  BY ShapeFacts
<1>2. \A i \in Levels : Height(i) \in Nat
  BY ShapeFacts
<1>3. 0 \in Nat /\ F \in Steps(L - 1, Nat)
  BY <1>1, <1>2 DEF Levels, Steps
<1>4. PICK g : Follows(g, L - 1, Nat, 0, F)
  <2> HIDE DEF F
  <2> QED BY <1>1, <1>3, Recursion
<1>5. \A n \in 1 .. L - 1 : g[n] = g[n - 1] + Height(L - n + 1)
  <2> TAKE n \in 1 .. L - 1
  <2>1. n - 1 \in 0 .. L - 1
    BY <1>1
  <2> QED BY <1>4, <2>1 DEF Follows
<1> DEFINE h == [i \in Levels |-> g[L - i]]
<1>6. \A i \in Levels : h[i] = IF i = L THEN 0 ELSE h[i + 1] + Height(i + 1)
  <2> TAKE i \in Levels
  <2>1. CASE i = L
    BY <1>1, <1>4, <2>1 DEF Levels, Follows
  <2>2. CASE i # L
    <3>1. L - i \in 1 .. L - 1 /\ L - i - 1 = L - (i + 1) /\ L - (L - i) + 1 = i + 1
          /\ i + 1 \in Levels
      BY <1>1, <2>2 DEF Levels
    <3> QED BY <1>5, <2>2, <3>1
  <2> QED BY <2>1, <2>2
<1>7. Equation(h)
  <2> DEFINE k == [i \in Levels |-> IF i = L THEN 0 ELSE h[i + 1] + Height(i + 1)]
  <2>1. \A i \in Levels : h[i] = k[i]
    <3> HIDE DEF h
    <3> QED BY <1>6
  <2> QED BY <2>1
<1>8. Equation(HeightBelow)
  <2>1. HeightBelow = CHOOSE f : Equation(f)
    BY DEF HeightBelow
  <2>2. \E f : Equation(f)
    <3> HIDE DEF h, Equation
    <3> QED BY <1>7
  <2> HIDE DEF Equation
  <2> QED BY <2>1, <2>2
<1>9. \A i \in Levels : HeightBelow[i] = IF i = L THEN 0 ELSE HeightBelow[i + 1] + Height(i + 1)
  BY <1>8
<1>10. HeightBelow \in [Levels -> Nat]
  <2> DEFINE S == {n \in 0 .. L - 1 : HeightBelow[L - n] \in Nat}
  <2>1. 0 \in S
    BY <1>1, <1>9 DEF Levels
  <2>2. \A n \in 0 .. L - 1 - 1 : n \in S => n + 1 \in S
    <3> TAKE n \in 0 .. L - 1 - 1
    <3> HAVE n \in S
    <3>1. L - (n + 1) \in Levels /\ L - (n + 1) # L /\ (L - (n + 1)) + 1 = L - n /\ L - n \in Levels
          /\ n + 1 \in 0 .. L - 1
      BY <1>1 DEF Levels
    <3>2. HeightBelow[L - (n + 1)] = HeightBelow[L - n] + Height(L - n)
      BY <1>9, <3>1
    <3> QED BY <1>2, <3>1, <3>2
  <2>3. \A n \in 0 .. L - 1 : n \in S
    <3> HIDE DEF S
    <3> QED BY <1>1, <2>1, <2>2, InductionUpTo
  <2>4. \A i \in Levels : HeightBelow[i] \in Nat
    <3> TAKE i \in Levels
    <3>1. L - i \in 0 .. L - 1 /\ L - (L - i) = i
      BY <1>1 DEF Levels
    <3> QED BY <2>3, <3>1
  <2>5. HeightBelow = [i \in Levels |-> HeightBelow[i]]
    BY <1>8
  <2> QED BY <2>4, <2>5
<1> QED BY <1>1, <1>9, <1>10 DEF Levels

\* The signatures below one leaf of a tree at level i.
Below(i) == 2 ^ HeightBelow[i]
G(c, i) == c \div Below(i)

\* Powers of two for the signatures below a leaf, and for all of them.
LEMMA BelowFacts ==
  /\ \A i \in Levels : Below(i) \in Nat /\ Below(i) >= 1
  /\ \A i \in Levels : 2 ^ (HeightBelow[i] + Height(i)) = Below(i) * Leaves(i)
  /\ Below(L) = 1
  /\ \A i \in 2 .. L : Below(i - 1) = Below(i) * Leaves(i)
  /\ MaxCount = Below(1) * Leaves(1) - 1
  /\ MaxCount \in Nat
<1>1. \A i \in Levels : HeightBelow[i] \in Nat /\ Height(i) \in Nat
  BY HeightBelowFacts, ShapeFacts
<1>2. 1 \in Levels /\ \A i \in 2 .. L : i \in Levels /\ i - 1 \in Levels
  BY ShapeFacts DEF Levels
<1>3. \A i \in Levels : Below(i) \in Nat /\ Below(i) >= 1
  BY <1>1, PowerPositive DEF Below
<1>4. \A i \in Levels : 2 ^ (HeightBelow[i] + Height(i)) = Below(i) * Leaves(i)
  BY <1>1, PowerSum DEF Below, Leaves
<1>5. \A i \in 2 .. L : Below(i - 1) = Below(i) * Leaves(i)
  <2> TAKE i \in 2 .. L
  <2>1. HeightBelow[i - 1] = HeightBelow[i] + Height(i)
    BY HeightBelowFacts
  <2>2. Below(i - 1) = 2 ^ (HeightBelow[i] + Height(i))
    BY <2>1, Zenon DEF Below
  <2> QED BY <1>2, <1>4, <2>2
<1>6. Below(L) = 1
  BY HeightBelowFacts, PowerZero DEF Below
<1>7. MaxCount = Below(1) * Leaves(1) - 1
  BY <1>2, <1>4 DEF MaxCount
<1>8. MaxCount \in Nat
  <2>1. 2 ^ (HeightBelow[1] + Height(1)) \in Nat /\ 2 ^ (HeightBelow[1] + Height(1)) >= 1
    BY <1>1, <1>2, PowerPositive
  <2> QED BY <2>1 DEF MaxCount
<1> QED BY <1>3, <1>4, <1>5, <1>6, <1>7, <1>8

\* LeafOf is a leaf of its tree.
LEMMA LeafOfType ==
  \A c \in Nat : \A i \in Levels : LeafOf(c, i) \in 0 .. MaxIndex(i) /\ G(c, i) \in Nat
                                   /\ LeafOf(c, i) = G(c, i) % Leaves(i)
<1> TAKE c \in Nat
<1> TAKE i \in Levels
<1>1. G(c, i) \in Nat
  BY BelowFacts, DivMod DEF G
<1>2. LeafOf(c, i) = G(c, i) % Leaves(i)
  BY DEF LeafOf, G, Below
<1>3. G(c, i) % Leaves(i) \in 0 .. Leaves(i) - 1
  BY <1>1, LeavesFacts, DivMod
<1> QED BY <1>1, <1>2, <1>3, LeavesFacts

\* A sequence number read in the mixed radix of the trees.
LEMMA Digits ==
  ASSUME NEW c \in 0 .. MaxCount
  PROVE  /\ G(c, L) = c
         /\ G(c, 1) = LeafOf(c, 1)
         /\ \A i \in 2 .. L : G(c, i) = G(c, i - 1) * Leaves(i) + LeafOf(c, i)
<1>1. c \in Nat /\ c <= MaxCount
  BY BelowFacts
<1>2. G(c, L) = c
  <2>1. c = 1 * c + 0 /\ 0 \in 0 .. 1 - 1 /\ 1 > 0 /\ 1 \in Nat /\ c \in Int
    BY <1>1
  <2>2. c \div 1 = c
    BY <2>1, DivModUnique
  <2> QED BY <2>2, BelowFacts DEF G
<1>3. ASSUME NEW i \in Levels
      PROVE  G(c, i) = Leaves(i) * (c \div (Below(i) * Leaves(i))) + LeafOf(c, i)
  <2> DEFINE n == Below(i)
             m == Leaves(i)
  <2>1. n \in Nat /\ n > 0 /\ m \in Nat /\ m > 0
    BY BelowFacts, LeavesFacts
  <2>2. G(c, i) = c \div n /\ LeafOf(c, i) = (c \div n) % m
    BY DEF G, LeafOf, Below
  <2> HIDE DEF n, m
  <2>3. c \div (n * m) = (c \div n) \div m /\ c \div n \in Nat
    BY <1>1, <2>1, DivModTwice, DivMod
  <2>4. c \div n = m * ((c \div n) \div m) + ((c \div n) % m)
    BY <2>1, <2>3, DivMod
  <2>5. G(c, i) = m * (c \div (n * m)) + LeafOf(c, i)
    BY <2>2, <2>3, <2>4
  <2> QED BY <2>5 DEF n, m
<1>4. G(c, 1) = LeafOf(c, 1)
  <2> DEFINE d == Below(1) * Leaves(1)
  <2>1. 1 \in Levels
    BY ShapeFacts DEF Levels
  <2>2. Below(1) \in Nat /\ Below(1) >= 1 /\ Leaves(1) \in Nat /\ Leaves(1) >= 2
    BY <2>1, BelowFacts, LeavesFacts
  <2>3. d \in Nat /\ d > 0
    BY <2>2
  <2>4. MaxCount = d - 1
    BY BelowFacts
  <2> HIDE DEF d
  <2>5. c = d * 0 + c /\ c \in 0 .. d - 1 /\ c \in Int
    BY <1>1, <2>3, <2>4
  <2>6. c \div d = 0
    BY <2>3, <2>5, DivModUnique
  <2>7. c \div (Below(1) * Leaves(1)) = 0
    BY <2>6 DEF d
  <2>8. LeafOf(c, 1) \in Nat
    BY <1>1, <2>1, LeafOfType, LeavesFacts
  <2> QED BY <1>3, <2>1, <2>2, <2>7, <2>8
<1>5. ASSUME NEW i \in 2 .. L PROVE G(c, i) = G(c, i - 1) * Leaves(i) + LeafOf(c, i)
  <2>1. i \in Levels /\ i - 1 \in Levels
    BY ShapeFacts DEF Levels
  <2>2. Below(i - 1) = Below(i) * Leaves(i)
    BY BelowFacts
  <2>3. G(c, i - 1) = c \div (Below(i) * Leaves(i))
    BY <2>2 DEF G
  <2>4. G(c, i - 1) \in Nat /\ Leaves(i) \in Nat /\ LeafOf(c, i) \in Int
    BY <1>1, <2>1, LeafOfType, LeavesFacts
  <2> QED BY <1>3, <2>1, <2>3, <2>4
<1> QED BY <1>2, <1>4, <1>5

\* The indices that a working key has at sequence number c, and back.
IndexAt(c, i) == IF i = L THEN LeafOf(c, i) ELSE LeafOf(c, i) + 1

\* current_count gives back the sequence number that the indices came from.
LEMMA CountIsInverse ==
  ASSUME NEW c \in 0 .. MaxCount, NEW index, \A i \in Levels : index[i] = IndexAt(c, i)
  PROVE  CountOf(index) = c
<1> DEFINE Step(n, v) == v * Leaves(n) + index[n] - 1
           F == [n \in 1 .. L |-> [v \in Int |-> Step(n, v)]]
           Equation(f) == f = [i \in 0 .. L |-> IF i = 0 THEN 0 ELSE f[i - 1] * Leaves(i) + index[i] - 1]
           upTo == CHOOSE f : Equation(f)
<1>1. L \in Nat /\ L >= 1 /\ Levels = 1 .. L /\ c \in Nat
  BY ShapeFacts, BelowFacts DEF Levels
<1>2. \A i \in Levels : Leaves(i) \in Nat /\ index[i] \in Int /\ LeafOf(c, i) \in Int
  <2> TAKE i \in Levels
  <2>1. LeafOf(c, i) \in 0 .. MaxIndex(i) /\ MaxIndex(i) \in Nat /\ Leaves(i) \in Nat
    BY <1>1, LeavesFacts, LeafOfType
  <2>2. index[i] = IF i = L THEN LeafOf(c, i) ELSE LeafOf(c, i) + 1
    BY DEF IndexAt
  <2> QED BY <2>1, <2>2
<1>3. 0 \in Int /\ F \in Steps(L, Int)
  BY <1>1, <1>2 DEF Steps
<1>4. PICK g : Follows(g, L, Int, 0, F)
  <2> HIDE DEF F
  <2> QED BY <1>1, <1>3, Recursion
<1>5. Equation(g)
  <2>1. g = [i \in 0 .. L |-> g[i]]
    BY <1>4 DEF Follows
  <2>2. ASSUME NEW i \in 0 .. L
        PROVE  g[i] = IF i = 0 THEN 0 ELSE g[i - 1] * Leaves(i) + index[i] - 1
    <3>1. CASE i = 0
      BY <1>4, <3>1 DEF Follows
    <3>2. CASE i # 0
      <4>1. i \in 1 .. L /\ i - 1 \in 0 .. L
        BY <1>1, <3>2
      <4>2. g[i - 1] \in Int /\ g[i] = F[i][g[i - 1]]
        BY <1>4, <4>1 DEF Follows
      <4>3. F[i][g[i - 1]] = Step(i, g[i - 1])
        BY <4>1, <4>2
      <4> QED BY <3>2, <4>2, <4>3
    <3> QED BY <3>1, <3>2
  <2> QED BY <2>1, <2>2, Zenon
<1>6. Equation(upTo)
  <2> HIDE DEF Equation
  <2> QED BY <1>5
<1>7. upTo[0] = 0 /\ \A i \in 1 .. L : upTo[i] = upTo[i - 1] * Leaves(i) + index[i] - 1
  <2> HIDE DEF upTo
  <2> QED BY <1>1, <1>6
<1>8. CountOf(index) = upTo[L] + 1
  BY DEF CountOf
<1> HIDE DEF upTo
<1>9. upTo[1] = G(c, 1) - (IF L = 1 THEN 1 ELSE 0)
  <2>1. 1 \in Levels /\ upTo[1] = 0 * Leaves(1) + index[1] - 1
    BY <1>1, <1>7
  <2>2. index[1] = IndexAt(c, 1) /\ G(c, 1) = LeafOf(c, 1)
    BY <2>1, Digits
  <2> QED BY <1>2, <2>1, <2>2 DEF IndexAt
<1> DEFINE S == {n \in 0 .. L - 1 : upTo[n + 1] = G(c, n + 1) - (IF n + 1 = L THEN 1 ELSE 0)}
<1>10. 0 \in S
  BY <1>1, <1>9
<1>11. \A n \in 0 .. L - 1 - 1 : n \in S => n + 1 \in S
  <2> TAKE n \in 0 .. L - 1 - 1
  <2> HAVE n \in S
  <2> DEFINE i == n + 2
  <2>1. i \in 2 .. L /\ i \in Levels /\ i - 1 = n + 1 /\ n + 1 # L /\ n + 1 \in 0 .. L - 1
        /\ i - 1 \in Levels
    BY <1>1
  <2>2. upTo[i - 1] = G(c, i - 1) /\ G(c, i - 1) \in Nat
    BY <1>1, <2>1, LeafOfType
  <2>3. upTo[i] = upTo[i - 1] * Leaves(i) + index[i] - 1
    BY <1>7, <2>1
  <2>4. G(c, i) = G(c, i - 1) * Leaves(i) + LeafOf(c, i)
    BY <2>1, Digits
  <2>5. index[i] = IF i = L THEN LeafOf(c, i) ELSE LeafOf(c, i) + 1
    BY <2>1 DEF IndexAt
  <2>6. G(c, i - 1) * Leaves(i) \in Int
    BY <1>2, <2>1, <2>2
  <2>7. upTo[i] = G(c, i) - (IF i = L THEN 1 ELSE 0)
    BY <1>2, <2>1, <2>2, <2>3, <2>4, <2>5, <2>6
  <2>8. (n + 1) + 1 = i
    OBVIOUS
  <2> HIDE DEF i
  <2> QED BY <2>1, <2>7, <2>8
<1>12. L - 1 \in S
  <2> HIDE DEF S
  <2>1. L - 1 \in Nat /\ L - 1 \in 0 .. L - 1
    BY <1>1
  <2>2. \A n \in 0 .. L - 1 : n \in S
    BY <1>10, <1>11, <2>1, InductionUpTo
  <2> QED BY <2>1, <2>2
<1>13. upTo[L] = G(c, L) - 1
  BY <1>1, <1>12
<1> QED BY <1>1, <1>8, <1>13, Digits

\* The leaf that level i signs with changes after sequence number c.
Advances(c, i) == (c + 1) % Below(i) = 0

\* How the leaves change from one sequence number to the next.
LEMMA Odometer ==
  ASSUME NEW c \in 0 .. MaxCount, NEW i \in Levels
  PROVE  /\ Exhausted(i, c + 1) <=> Advances(c, i) /\ LeafOf(c, i) = MaxIndex(i)
         /\ ~Advances(c, i) => LeafOf(c + 1, i) = LeafOf(c, i)
         /\ Advances(c, i) /\ ~Exhausted(i, c + 1) => LeafOf(c + 1, i) = LeafOf(c, i) + 1
         /\ Exhausted(i, c + 1) => LeafOf(c + 1, i) = 0
         /\ \A j \in Sub(i) : Advances(c, i) =>
              (LeavesSubtree(i, j, c + 1) <=> j > 0 /\ LeafOf(c + 1, i) % Size(i, j) = 0)
<1> DEFINE n == Below(i)
           m == Leaves(i)
           g == c \div n
           d == c + 1
           gg == d \div n
<1>1. n \in Nat /\ n > 0 /\ m \in Nat /\ m > 0 /\ c \in Nat /\ d \in Nat /\ MaxIndex(i) = m - 1
  BY BelowFacts, LeavesFacts
<1>2. LeafOf(c, i) = g % m /\ LeafOf(c + 1, i) = gg % m /\ (Advances(c, i) <=> d % n = 0)
  BY DEF LeafOf, Below, Advances
<1>3. Exhausted(i, c + 1) <=> d % (n * m) = 0
  BY BelowFacts DEF Exhausted
<1>4. \A j \in Sub(i) : LeavesSubtree(i, j, c + 1) <=> j > 0 /\ d % (n * Size(i, j)) = 0
  BY DEF LeavesSubtree, Below
<1> HIDE DEF n, m
<1>5. g \in Nat /\ gg \in Nat
  BY <1>1, DivMod
<1>6. /\ d % n = 0 => gg = g + 1
      /\ d % n # 0 => gg = g
  BY <1>1, DivModNext
<1>7. d % (n * m) = n * (gg % m) + (d % n)
  <2> HIDE DEF d
  <2> QED BY <1>1, DivModTwice
<1> HIDE DEF g, gg, d
<1>8. gg % m \in 0 .. m - 1 /\ d % n \in 0 .. n - 1
  BY <1>1, <1>5, DivMod
<1>9. \A x \in Nat, y \in Nat : n * x + y = 0 <=> x = 0 /\ y = 0
  <2> TAKE x, y \in Nat
  <2>1. n * x >= x
    BY <1>1
  <2> QED BY <1>1, <2>1
<1>10. d % (n * m) = 0 <=> gg % m = 0 /\ d % n = 0
  BY <1>7, <1>8, <1>9
<1>11. /\ (g + 1) % m = 0 => g % m = m - 1
       /\ (g + 1) % m # 0 => (g + 1) % m = (g % m) + 1
  BY <1>1, <1>5, DivModNext
<1>12. (g + 1) % m = 0 <=> g % m = m - 1
  <2>1. (g + 1) % m \in 0 .. m - 1
    BY <1>1, <1>5, DivMod
  <2> QED BY <1>1, <1>11, <2>1
<1>13. Exhausted(i, c + 1) <=> Advances(c, i) /\ LeafOf(c, i) = MaxIndex(i)
  BY <1>1, <1>2, <1>3, <1>6, <1>10, <1>12
<1>14. ~Advances(c, i) => LeafOf(c + 1, i) = LeafOf(c, i)
  BY <1>2, <1>6
<1>15. Advances(c, i) /\ ~Exhausted(i, c + 1) => LeafOf(c + 1, i) = LeafOf(c, i) + 1
  BY <1>2, <1>3, <1>6, <1>10, <1>11
<1>16. Exhausted(i, c + 1) => LeafOf(c + 1, i) = 0
  BY <1>2, <1>3, <1>10
<1>17. ASSUME NEW j \in Sub(i), Advances(c, i)
       PROVE  LeavesSubtree(i, j, c + 1) <=> j > 0 /\ LeafOf(c + 1, i) % Size(i, j) = 0
  <2> DEFINE z == Size(i, j)
  <2>1. z \in Nat /\ z > 0
    BY SizeFacts
  <2>2. PICK k \in Nat : k >= 1 /\ m = z * k
    BY SizeFacts DEF m
  <2>3. LeavesSubtree(i, j, c + 1) <=> j > 0 /\ d % (n * z) = 0
    BY <1>4
  <2> HIDE DEF z
  <2>4. d % (n * z) = n * (gg % z) + (d % n)
    BY <1>1, <2>1, DivModTwice DEF gg
  <2>5. gg % z \in Nat
    BY <1>5, <2>1, DivMod
  <2>6. d % (n * z) = 0 <=> gg % z = 0
    BY <1>2, <1>8, <1>9, <1>17, <2>4, <2>5
  <2>7. (gg % (z * k)) % z = gg % z
    <3>1. gg \in Int /\ k \in Nat /\ k > 0
      BY <1>5, <2>2
    <3> HIDE DEF gg
    <3> QED BY <2>1, <3>1, DivModTwice
  <2>8. LeafOf(c + 1, i) % z = gg % z
    BY <1>2, <2>2, <2>7
  <2> QED BY <2>3, <2>6, <2>8 DEF z
<1> QED BY <1>13, <1>14, <1>15, <1>16, <1>17

\* A tree is used up when the leaf above it changes.
LEMMA ExhaustedBelow ==
  ASSUME NEW c \in 0 .. MaxCount
  PROVE  /\ Advances(c, L)
         /\ \A i \in 2 .. L : Exhausted(i, c + 1) <=> Advances(c, i - 1)
         /\ \A i \in 2 .. L : Advances(c, i - 1) => Advances(c, i)
         /\ Exhausted(1, c + 1) <=> c = MaxCount
<1>1. c \in Nat /\ MaxCount \in Nat /\ L \in Nat /\ L >= 1
  BY BelowFacts, ShapeFacts
<1>2. Advances(c, L)
  BY <1>1, BelowFacts DEF Advances
<1>3. \A i \in 2 .. L : Exhausted(i, c + 1) <=> Advances(c, i - 1)
  <2> TAKE i \in 2 .. L
  <2>1. i \in Levels
    BY <1>1 DEF Levels
  <2>2. 2 ^ (HeightBelow[i] + Height(i)) = Below(i - 1)
    BY <2>1, BelowFacts
  <2> QED BY <2>2 DEF Exhausted, Advances
<1>4. \A i \in 2 .. L : Advances(c, i - 1) => Advances(c, i)
  <2> TAKE i \in 2 .. L
  <2>1. i \in Levels
    BY <1>1 DEF Levels
  <2> QED BY <1>3, <2>1, Odometer
<1>5. Exhausted(1, c + 1) <=> c = MaxCount
  <2> DEFINE d == Below(1) * Leaves(1)
  <2>1. 1 \in Levels
    BY <1>1 DEF Levels
  <2>2. Exhausted(1, c + 1) <=> (c + 1) % d = 0
    BY <2>1, BelowFacts DEF Exhausted
  <2>3. MaxCount = d - 1
    BY BelowFacts
  <2>4. d \in Nat
    BY <2>1, BelowFacts, LeavesFacts
  <2> HIDE DEF d
  <2>5. d > 0
    BY <1>1, <2>3, <2>4
  <2>6. CASE c = MaxCount
    <3>1. c + 1 = d * 1 + 0 /\ 0 \in 0 .. d - 1 /\ c + 1 \in Int
      BY <1>1, <2>3, <2>4, <2>5, <2>6
    <3>2. (c + 1) % d = 0
      BY <2>4, <2>5, <3>1, DivModUnique
    <3> QED BY <2>2, <2>6, <3>2
  <2>7. CASE c # MaxCount
    <3>1. c + 1 = d * 0 + (c + 1) /\ c + 1 \in 0 .. d - 1 /\ c + 1 \in Int /\ 0 \in Int
      BY <1>1, <2>3, <2>4, <2>5, <2>7
    <3>2. (c + 1) % d = c + 1
      BY <2>4, <2>5, <3>1, DivModUnique
    <3> QED BY <1>1, <2>2, <2>7, <3>2
  <2> QED BY <2>6, <2>7
<1> QED BY <1>2, <1>3, <1>4, <1>5

-----------------------------------------------------------------------------
(* Names.  The tree at level i that sequence number c goes through is named  *)
(* by the leaves above it.                                                   *)

TreeName(c, i) == [j \in 1 .. i - 1 |-> LeafOf(c, j)]

\* Names are sequences of leaves, and the name of a child one leaf longer.
LEMMA NameFacts ==
  ASSUME NEW c \in Nat
  PROVE  /\ TreeName(c, 1) = <<>>
         /\ \A i \in Levels : TreeName(c, i) \in Seq(Int)
         /\ \A i \in 2 .. L : TreeName(c, i) = Child(TreeName(c, i - 1), LeafOf(c, i - 1))
<1>1. L \in Nat /\ L >= 1 /\ Levels = 1 .. L
  BY ShapeFacts DEF Levels
<1>2. \A i \in Levels : LeafOf(c, i) \in Int
  BY LeafOfType, LeavesFacts
<1>3. TreeName(c, 1) = <<>>
  BY DEF TreeName
<1>4. ASSUME NEW i \in Levels
      PROVE  TreeName(c, i) \in Seq(Int) /\ Len(TreeName(c, i)) = i - 1
  <2>1. i - 1 \in Nat /\ \A j \in 1 .. i - 1 : LeafOf(c, j) \in Int
    BY <1>1, <1>2, <1>4
  <2> QED BY <2>1 DEF TreeName
<1>5. ASSUME NEW i \in 2 .. L
      PROVE  TreeName(c, i) = Child(TreeName(c, i - 1), LeafOf(c, i - 1))
  <2> DEFINE s == TreeName(c, i - 1)
             t == TreeName(c, i)
             u == Append(s, LeafOf(c, i - 1))
  <2>1. i \in Levels /\ i - 1 \in Levels /\ i - 1 \in Nat /\ i - 1 - 1 \in Nat
    BY <1>1, <1>5
  <2>2. s \in Seq(Int) /\ Len(s) = i - 1 - 1 /\ t \in Seq(Int) /\ Len(t) = i - 1
    BY <1>4, <2>1
  <2>3. \A j \in 1 .. i - 1 - 1 : s[j] = LeafOf(c, j)
    BY DEF TreeName
  <2>4. \A j \in 1 .. i - 1 : t[j] = LeafOf(c, j)
    BY DEF TreeName
  <2> HIDE DEF s, t
  <2>5. u \in Seq(Int) /\ Len(u) = i - 1
    <3>1. LeafOf(c, i - 1) \in Int
      BY <1>2, <2>1
    <3> QED BY <2>1, <2>2, <3>1
  <2>6. \A j \in 1 .. i - 1 : u[j] = t[j]
    <3> TAKE j \in 1 .. i - 1
    <3>1. j \in 1 .. i - 1 - 1 => u[j] = s[j]
      BY <2>2
    <3>2. j = i - 1 => u[j] = LeafOf(c, i - 1)
      BY <2>1, <2>2
    <3>3. j \in 1 .. i - 1 - 1 \/ j = i - 1
      BY <2>1
    <3> HIDE DEF u
    <3> QED BY <2>3, <2>4, <3>1, <3>2, <3>3
  <2>7. u = t
    <3> HIDE DEF u
    <3> QED BY <2>1, <2>2, <2>5, <2>6
  <2> QED BY <2>7 DEF s, t, Child
<1> QED BY <1>3, <1>4, <1>5

\* A function on the levels may be defined from the root down.
LEMMA RootDown ==
  ASSUME NEW V, NEW a \in V, NEW F \in Steps(L - 1, V)
  PROVE  \E f \in [Levels -> V] : f[1] = a /\ \A i \in 2 .. L : f[i] = F[i - 1][f[i - 1]]
<1>1. L - 1 \in Nat /\ Levels = 1 .. L /\ L \in Nat
  BY ShapeFacts DEF Levels
<1>2. PICK g : Follows(g, L - 1, V, a, F)
  BY <1>1, Recursion
<1> DEFINE f == [i \in Levels |-> g[i - 1]]
<1>3. f \in [Levels -> V]
  BY <1>1, <1>2 DEF Follows
<1>4. f[1] = a
  BY <1>1, <1>2 DEF Follows
<1>5. ASSUME NEW i \in 2 .. L PROVE f[i] = F[i - 1][f[i - 1]]
  <2>1. i \in Levels /\ i - 1 \in Levels /\ i - 1 \in 1 .. L - 1
    BY <1>1
  <2>2. f[i] = g[i - 1] /\ f[i - 1] = g[i - 1 - 1]
    BY <2>1
  <2>3. g[i - 1] = F[i - 1][g[i - 1 - 1]]
    BY <1>2, <2>1 DEF Follows
  <2> QED BY <2>2, <2>3
<1> HIDE DEF f
<1> QED BY <1>3, <1>4, <1>5

\* Two functions defined alike from the root down agree.
DefinedAlike(f, g) ==
  /\ f[1] = g[1]
  /\ \A i \in 2 .. L : f[i - 1] = g[i - 1] => f[i] = g[i]
\* Names that are defined alike, from the root down, are the same.
LEMMA RootDownUnique ==
  ASSUME NEW f, NEW g, DefinedAlike(f, g)
  PROVE  \A i \in Levels : f[i] = g[i]
<1>1. L - 1 \in Nat /\ Levels = 1 .. L /\ L \in Nat
  BY ShapeFacts DEF Levels
<1> DEFINE S == {n \in 0 .. L - 1 : f[n + 1] = g[n + 1]}
<1>2. 0 \in S
  BY <1>1 DEF DefinedAlike
<1>3. \A n \in 0 .. L - 1 - 1 : n \in S => n + 1 \in S
  <2> TAKE n \in 0 .. L - 1 - 1
  <2> HAVE n \in S
  <2>1. n + 2 \in 2 .. L /\ (n + 2) - 1 = n + 1 /\ (n + 1) + 1 = n + 2 /\ n + 1 \in 0 .. L - 1
    BY <1>1
  <2>2. f[n + 2] = g[n + 2]
    BY <2>1 DEF DefinedAlike
  <2> QED BY <2>1, <2>2
<1>4. \A n \in 0 .. L - 1 : n \in S
  <2> HIDE DEF S
  <2> QED BY <1>1, <1>2, <1>3, InductionUpTo
<1> TAKE i \in Levels
<1>5. i - 1 \in 0 .. L - 1 /\ (i - 1) + 1 = i
  BY <1>1
<1> QED BY <1>4, <1>5

\* hss_generate_working_key derives the names of the trees from the root.
LEMMA LoadNamesFacts ==
  ASSUME NEW c \in Nat
  PROVE  LoadNames(c) = [i \in Levels |-> TreeName(c, i)]
<1> DEFINE Equation(f) == f = [i \in Levels |-> IF i = 1 THEN <<>>
                                              ELSE Child(f[i - 1], LeafOf(c, i - 1))]
           t == [i \in Levels |-> TreeName(c, i)]
           names == CHOOSE f : Equation(f)
<1>1. L \in Nat /\ L >= 1 /\ Levels = 1 .. L
  BY ShapeFacts DEF Levels
<1>2. Equation(t)
  <2>1. ASSUME NEW i \in Levels
        PROVE  t[i] = IF i = 1 THEN <<>> ELSE Child(t[i - 1], LeafOf(c, i - 1))
    <3>1. i # 1 => i \in 2 .. L /\ i - 1 \in Levels
      BY <1>1, <2>1
    <3> QED BY <3>1, NameFacts
  <2>2. t = [i \in Levels |-> t[i]]
    OBVIOUS
  <2> HIDE DEF t
  <2> QED BY <2>1, <2>2, Zenon
<1>3. Equation(names)
  <2> HIDE DEF Equation
  <2> QED BY <1>2
<1>4. names = t
  <2> HIDE DEF t, names
  <2>1. \A i \in Levels : names[i] = IF i = 1 THEN <<>> ELSE Child(names[i - 1], LeafOf(c, i - 1))
    BY <1>3
  <2>2. \A i \in Levels : t[i] = IF i = 1 THEN <<>> ELSE Child(t[i - 1], LeafOf(c, i - 1))
    BY <1>2
  <2>3. names[1] = t[1]
    BY <1>1, <2>1, <2>2
  <2>4. \A i \in 2 .. L : names[i - 1] = t[i - 1] => names[i] = t[i]
    BY <1>1, <2>1, <2>2
  <2>5. DefinedAlike(names, t)
    BY <2>3, <2>4 DEF DefinedAlike
  <2>6. \A i \in Levels : names[i] = t[i]
    BY <2>5, RootDownUnique
  <2> QED BY <1>2, <1>3, <2>6
<1> QED BY <1>4 DEF LoadNames

\* The names of the trees to the right of those of sequence number c, as signing
\* keeps them up.
NextNames(nexts, names, c) ==
  /\ nexts \in [Levels -> Seq(Int)]
  /\ nexts[1] = NoTree
  /\ \A i \in 2 .. L :
       nexts[i] = ChildAfter(names[i - 1], nexts[i - 1], LeafOf(c, i - 1), MaxIndex(i - 1))

\* The equations of NextNames have one solution.
LEMMA NextNamesUnique ==
  ASSUME NEW c \in Nat, NEW names, NEW f, NEW g,
         NextNames(f, names, c), NextNames(g, names, c)
  PROVE  f = g
<1>1. f = [i \in Levels |-> f[i]] /\ g = [i \in Levels |-> g[i]]
  BY DEF NextNames
<1>2. f[1] = g[1]
  BY DEF NextNames
<1>3. \A i \in 2 .. L : f[i - 1] = g[i - 1] => f[i] = g[i]
  BY DEF NextNames
<1>4. \A i \in Levels : f[i] = g[i]
  BY <1>2, <1>3, RootDownUnique DEF DefinedAlike
<1> QED BY <1>1, <1>4

\* The tree after another is named by a sequence, too.
LEMMA ChildAfterType ==
  ASSUME NEW parent \in Seq(Int), NEW parentNext \in Seq(Int), NEW index \in Int, NEW last
  PROVE  ChildAfter(parent, parentNext, index, last) \in Seq(Int)
<1>1. index + 1 \in Int /\ 0 \in Int
  OBVIOUS
<1>2. Append(parentNext, 0) \in Seq(Int) /\ Append(parent, index + 1) \in Seq(Int)
  BY <1>1
<1> QED BY <1>2 DEF ChildAfter, Child

(* Where loading compares the index of the parent with the last one of the   *)
(* child, signing compares it with the parent's own last one.  The two names *)
(* agree where the comparisons do, as with trees of one height.              *)
SameNames(c) ==
  \A i \in 2 .. L : LeafOf(c, i - 1) = MaxIndex(i) <=> LeafOf(c, i - 1) = MaxIndex(i - 1)

\* The names that loading gives to the trees to the right obey the equations of signing.
LEMMA LoadNextNamesFacts ==
  ASSUME NEW c \in Nat, SameNames(c), NEW names \in [Levels -> Seq(Int)]
  PROVE  NextNames(LoadNextNames(c, names), names, c)
<1> DEFINE Step(i, v) == ChildAfter(names[i - 1], v, LeafOf(c, i - 1), MaxIndex(i))
           F == [n \in 1 .. L - 1 |-> [v \in Seq(Int) |-> Step(n + 1, v)]]
           Equation(f) == f = [i \in Levels |-> IF i = 1 THEN NoTree
                            ELSE ChildAfter(names[i - 1], f[i - 1], LeafOf(c, i - 1), MaxIndex(i))]
           nexts == CHOOSE f : Equation(f)
<1>1. L \in Nat /\ L >= 1 /\ Levels = 1 .. L
  BY ShapeFacts DEF Levels
<1>2. NoTree \in Seq(Int)
  BY DEF NoTree
<1>3. \A i \in 2 .. L : \A v \in Seq(Int) : Step(i, v) \in Seq(Int)
  <2> TAKE i \in 2 .. L
  <2> TAKE v \in Seq(Int)
  <2>1. i - 1 \in Levels
    BY <1>1
  <2>2. LeafOf(c, i - 1) \in Int /\ names[i - 1] \in Seq(Int)
    BY <2>1, LeafOfType, LeavesFacts
  <2> QED BY <2>2, ChildAfterType
<1>4. F \in Steps(L - 1, Seq(Int))
  <2>1. \A n \in 1 .. L - 1 : n + 1 \in 2 .. L
    BY <1>1
  <2> HIDE DEF Step
  <2> QED BY <1>3, <2>1 DEF Steps
<1>5. PICK f \in [Levels -> Seq(Int)] :
             f[1] = NoTree /\ \A i \in 2 .. L : f[i] = F[i - 1][f[i - 1]]
  <2> HIDE DEF F
  <2> QED BY <1>2, <1>4, RootDown
<1>6. \A i \in 2 .. L : f[i] = Step(i, f[i - 1])
  <2> TAKE i \in 2 .. L
  <2>1. i - 1 \in 1 .. L - 1 /\ i - 1 \in Levels /\ (i - 1) + 1 = i
    BY <1>1
  <2> HIDE DEF Step
  <2> QED BY <1>5, <2>1
<1>7. Equation(f)
  <2>1. ASSUME NEW i \in Levels
        PROVE  f[i] = IF i = 1 THEN NoTree
                      ELSE ChildAfter(names[i - 1], f[i - 1], LeafOf(c, i - 1), MaxIndex(i))
    <3>1. i # 1 => i \in 2 .. L
      BY <1>1, <2>1
    <3> QED BY <1>5, <1>6, <3>1
  <2>2. f = [i \in Levels |-> f[i]]
    OBVIOUS
  <2> QED BY <2>1, <2>2, Zenon
<1>8. Equation(nexts)
  <2> HIDE DEF Equation
  <2> QED BY <1>7
<1> HIDE DEF F, Step
<1>9. nexts = f
  <2> HIDE DEF nexts
  <2>1. \A i \in Levels : nexts[i] = IF i = 1 THEN NoTree
                      ELSE ChildAfter(names[i - 1], nexts[i - 1], LeafOf(c, i - 1), MaxIndex(i))
    BY <1>8, Zenon
  <2>2. \A i \in Levels : f[i] = IF i = 1 THEN NoTree
                      ELSE ChildAfter(names[i - 1], f[i - 1], LeafOf(c, i - 1), MaxIndex(i))
    BY <1>7, Zenon
  <2>3. 1 \in Levels /\ \A i \in 2 .. L : i \in Levels /\ i # 1
    BY <1>1
  <2>4. nexts[1] = f[1]
    BY <2>1, <2>2, <2>3, Zenon
  <2>5. \A i \in 2 .. L : nexts[i - 1] = f[i - 1] => nexts[i] = f[i]
    BY <2>1, <2>2, <2>3, Zenon
  <2>6. \A i \in Levels : nexts[i] = f[i]
    <3>1. DefinedAlike(nexts, f)
      BY <2>4, <2>5 DEF DefinedAlike
    <3> QED BY <3>1, RootDownUnique
  <2>7. nexts = [i \in Levels |-> IF i = 1 THEN NoTree
                      ELSE ChildAfter(names[i - 1], nexts[i - 1], LeafOf(c, i - 1), MaxIndex(i))]
    BY <1>8, Zenon
  <2> QED BY <2>6, <2>7
<1>10. ASSUME NEW i \in 2 .. L
       PROVE  nexts[i] = ChildAfter(names[i - 1], nexts[i - 1], LeafOf(c, i - 1), MaxIndex(i - 1))
  <2>1. nexts[i] = ChildAfter(names[i - 1], nexts[i - 1], LeafOf(c, i - 1), MaxIndex(i))
    BY <1>6, <1>9 DEF Step
  <2>2. LeafOf(c, i - 1) = MaxIndex(i) <=> LeafOf(c, i - 1) = MaxIndex(i - 1)
    BY DEF SameNames
  <2> HIDE DEF nexts
  <2> QED BY <2>1, <2>2 DEF ChildAfter
<1>11. LoadNextNames(c, names) = nexts
  BY DEF LoadNextNames
<1> HIDE DEF nexts
<1> QED BY <1>5, <1>9, <1>10, <1>11 DEF NextNames

-----------------------------------------------------------------------------
(* Building subtrees. *)

\* A bounded set of numbers has a greatest one.
LEMMA MaxFacts ==
  ASSUME NEW n \in Nat, NEW T \in SUBSET (0 .. n), T # {}
  PROVE  Max(T) \in T /\ \A y \in T : y <= Max(T)
<1> DEFINE R == {n - y : y \in T}
<1>1. R \in SUBSET Nat /\ R # {}
  <2>1. \A y \in T : y \in 0 .. n
    OBVIOUS
  <2>2. \A y \in T : n - y \in Nat
    BY <2>1
  <2> QED BY <2>2
<1>2. PICK x \in R : \A z \in R : x <= z
  <2> HIDE DEF R
  <2> QED BY <1>1, LeastNatural
<1>3. PICK m \in T : x = n - m
  BY <1>2
<1>4. \A y \in T : m >= y
  <2> TAKE y \in T
  <2>1. x <= n - y
    BY <1>2
  <2> QED BY <1>3, <2>1
<1>5. Max(T) = CHOOSE z \in T : \A y \in T : z >= y
  BY DEF Max
<1>6. Max(T) \in T /\ \A y \in T : Max(T) >= y
  BY <1>4, <1>5
<1>7. \A y \in T : y \in 0 .. n
  OBVIOUS
<1>8. \A y \in T : y \in Int
  BY <1>7
<1> HIDE DEF R
<1> QED BY <1>6, <1>8

Subtrees == [index : Nat, left : Nat, of : Seq(Int), from : Nat, have : Nat]

\* The nodes of subtree s are those that its index counts, all of tree id.
Filled(s, id) == s.index > 0 => s.of = id /\ s.from = s.left /\ s.have = s.index

\* subtree_add_next_node adds one leaf, and keeps the nodes those that the index counts.
LEMMA AddNextFacts ==
  ASSUME NEW s \in Subtrees, NEW size \in Nat, NEW id \in Seq(Int), s.index <= size
  PROVE  /\ AddNext(s, size, id) \in Subtrees
         /\ AddNext(s, size, id).left = s.left
         /\ AddNext(s, size, id).index = IF s.index = size THEN size ELSE s.index + 1
         /\ Filled(s, id) => Filled(AddNext(s, size, id), id)
<1> DEFINE t == AddNext(s, size, id)
           had == IF s.index = 0 THEN 1
                  ELSE IF s.of = id /\ s.from = s.left /\ s.have = s.index
                       THEN s.have + 1 ELSE 0
<1>1. /\ s.index \in Nat /\ s.left \in Nat /\ s.have \in Nat
      /\ s = [index |-> s.index, left |-> s.left, of |-> s.of, from |-> s.from, have |-> s.have]
  BY DEF Subtrees
<1>2. CASE s.index = size
  BY <1>2 DEF AddNext
<1>3. CASE s.index # size
  <2>1. t = [s EXCEPT !.index = @ + 1, !.of = id, !.from = s.left, !.have = had]
    BY <1>3 DEF AddNext
  <2>2. had \in Nat /\ s.index + 1 \in Nat
    BY <1>1
  <2>3. Filled(s, id) => had = s.index + 1
    BY <1>1 DEF Filled
  <2> HIDE DEF had, t
  <2>4. t = [index |-> s.index + 1, left |-> s.left, of |-> id, from |-> s.left, have |-> had]
    BY <1>1, <2>1
  <2>5. t \in Subtrees /\ t.left = s.left /\ t.index = s.index + 1
    BY <1>1, <2>2, <2>4 DEF Subtrees
  <2>6. Filled(s, id) => Filled(t, id)
    BY <2>3, <2>4 DEF Filled
  <2> QED BY <1>3, <2>5, <2>6 DEF t
<1> QED BY <1>2, <1>3

\* What the ACTIVE subtrees a of tree id are when leaf q is the next to sign.
ActiveOK(a, i, id, q) ==
  /\ a \in [Sub(i) -> Subtrees]
  /\ \A j \in Sub(i) : a[j].left = Aligned(i, j, q)
  /\ PathOk(a, i, id, q)

(* What a BUILDING subtree of tree id is when leaf q is the next to sign,    *)
(* and "done" says whether it has already got its leaf for it.  At the right *)
(* edge of the tree there is nothing to say.                                 *)
BuildingOK(b, i, j, id, q, done) ==
  /\ b \in Subtrees
  /\ b.index <= Size(i, j)
  /\ Aligned(i, j, q) + Size(i, j) < Leaves(i) =>
       /\ b.left = Aligned(i, j, q) + Size(i, j)
       /\ Filled(b, id)
       /\ b.index = Size(i, j) \/ b.index >= (q % Size(i, j)) + done

\* One leaf more is what the next signature asks of a BUILDING subtree.
LEMMA BuildingStep ==
  ASSUME NEW i \in Levels, NEW j \in Sub(i), NEW id \in Seq(Int), NEW q \in 0 .. MaxIndex(i),
         NEW b, BuildingOK(b, i, j, id, q, 0)
  PROVE  BuildingOK(AddNext(b, Size(i, j), id), i, j, id, q, 1)
<1> DEFINE t == AddNext(b, Size(i, j), id)
           n == Size(i, j)
           r == q % Size(i, j)
<1>1. n \in Nat /\ n >= 2 /\ r \in 0 .. n - 1
  BY SizeFacts, AlignedFacts
<1>2. b \in Subtrees /\ b.index <= n /\ b.index \in Nat
  BY DEF BuildingOK, Subtrees
<1>3. t \in Subtrees /\ t.left = b.left /\ t.index = (IF b.index = n THEN n ELSE b.index + 1)
      /\ (Filled(b, id) => Filled(t, id))
  BY <1>1, <1>2, AddNextFacts
<1>4. Aligned(i, j, q) + n < Leaves(i) =>
        b.left = Aligned(i, j, q) + n /\ Filled(b, id) /\ (b.index = n \/ b.index >= r + 0)
  BY DEF BuildingOK
<1> HIDE DEF t, n, r
<1>5. b.index = n \/ b.index >= r + 0 => t.index = n \/ t.index >= r + 1
  BY <1>1, <1>2, <1>3
<1>6. t.index <= n
  BY <1>1, <1>2, <1>3
<1> QED BY <1>3, <1>4, <1>5, <1>6 DEF BuildingOK, t, n, r

\* RoundUp gives the least multiple of unit that is not below n.
LEMMA RoundUpFacts ==
  ASSUME NEW n \in Nat, NEW unit \in Nat, unit > 0
  PROVE  \E k \in Nat : /\ RoundUp(n, unit) = unit * k
                        /\ RoundUp(n, unit) \in Nat
                        /\ RoundUp(n, unit) \div unit = k
                        /\ n <= RoundUp(n, unit)
                        /\ \A m \in Nat : n <= unit * m <=> k <= m
<1> DEFINE k == (n + unit - 1) \div unit
           r == (n + unit - 1) % unit
<1>1. n + unit - 1 \in Nat /\ n + unit - 1 \in Int
  OBVIOUS
<1>2. k \in Nat /\ r \in 0 .. unit - 1 /\ n + unit - 1 = unit * k + r
  <2> HIDE DEF k, r
  <2>1. \A x \in Int : /\ x % unit \in 0 .. unit - 1
                       /\ x = unit * (x \div unit) + (x % unit)
                       /\ x \in Nat => x \div unit \in Nat
    BY DivMod
  <2> QED BY <1>1, <2>1 DEF k, r
<1>3. RoundUp(n, unit) = unit * k
  BY DEF RoundUp
<1> HIDE DEF k, r
<1>4. unit * k \in Nat
  BY <1>2
<1>5. n <= unit * k /\ unit * k < n + unit
  BY <1>2, <1>4
<1>6. (unit * k) \div unit = k
  <2>1. unit * k = unit * k + 0 /\ 0 \in 0 .. unit - 1 /\ unit * k \in Int /\ k \in Int
    BY <1>2, <1>4
  <2> QED BY <2>1, DivModUnique
<1>7. ASSUME NEW m \in Nat PROVE n <= unit * m <=> k <= m
  <2>1. unit * m \in Nat
    OBVIOUS
  <2>2. ASSUME k <= m PROVE n <= unit * m
    <3>1. unit * k <= unit * m
      BY <1>2, <2>2
    <3> QED BY <1>4, <1>5, <2>1, <3>1
  <2>3. ASSUME n <= unit * m PROVE k <= m
    <3> SUFFICES ASSUME k >= m + 1 PROVE FALSE
      BY <1>2
    <3>1. unit * k >= unit * (m + 1)
      BY <1>2
    <3>2. unit * (m + 1) = unit * m + unit
      OBVIOUS
    <3> QED BY <1>4, <1>5, <2>1, <2>3, <3>1, <3>2
  <2> QED BY <2>2, <2>3
<1> QED BY <1>2, <1>3, <1>4, <1>5, <1>6, <1>7

\* Loading prepares the BUILDING subtrees for what signing would have done by then.
LEMMA LoadBuildingFacts ==
  ASSUME NEW i \in Levels, NEW j \in Sub(i), NEW id \in Seq(Int), NEW q \in 0 .. MaxIndex(i),
         NEW garbage \in Nat
  PROVE  BuildingOK(LoadBuilding(i, j, q, id, garbage), i, j, id, q, IF i = L THEN 0 ELSE 1)
<1> DEFINE n == Size(i, j)
           A == Aligned(i, j, q)
           r == q % Size(i, j)
           u == Unit(i, j)
           count == RoundUp(Prepared(i, q - A), u)
           b == LoadBuilding(i, j, q, id, garbage)
           done == IF i = L THEN 0 ELSE 1
<1>1. /\ A \in 0 .. q /\ r \in 0 .. n - 1 /\ q = A + r /\ n \in Nat /\ n >= 2
      /\ Leaves(i) \in Nat /\ MaxIndex(i) = Leaves(i) - 1 /\ n <= Leaves(i)
      /\ A + n < Leaves(i) => A + 2 * n <= Leaves(i)
  BY AlignedFacts, SizeFacts, LeavesFacts
<1>2. A + n < Leaves(i) => j > 0 /\ q + n <= MaxIndex(i)
  <2>1. j = 0 => n = Leaves(i)
    BY SizeFacts
  <2>2. j \in Nat
    BY SubFacts
  <2> HIDE DEF n, A, r
  <2> QED BY <1>1, <2>1, <2>2
<1>3. b = IF j > 0 /\ q + n <= MaxIndex(i) THEN Subtree(count, A + n, id, count)
          ELSE Empty(IF j > 0 THEN garbage ELSE 0)
  BY DEF LoadBuilding, Unit
<1>4. u \in Nat /\ u > 0 /\ \E m \in Nat : n = u * m
  BY UnitFacts
<1> HIDE DEF n, A, r, u, b
<1>5. Prepared(i, q - A) = r + done
  <2>1. q - A = r /\ r \in Nat
    BY <1>1
  <2> QED BY <2>1 DEF Prepared
<1>6. count \in Nat /\ count >= r + done /\ count <= n
  <2>1. r + done \in Nat /\ r + done <= n
    BY <1>1
  <2>2. PICK m \in Nat : n = u * m
    BY <1>4
  <2>3. PICK k \in Nat : /\ RoundUp(r + done, u) = u * k
                         /\ RoundUp(r + done, u) \in Nat
                         /\ r + done <= RoundUp(r + done, u)
                         /\ \A x \in Nat : r + done <= u * x <=> k <= x
    <3> HIDE DEF done
    <3> QED BY <1>4, <2>1, RoundUpFacts
  <2>4. k <= m
    BY <2>1, <2>2, <2>3
  <2>5. u * k <= u * m
    BY <1>4, <2>4
  <2> QED BY <1>5, <2>2, <2>3, <2>5
<1> HIDE DEF count, done
<1>7. CASE j > 0 /\ q + n <= MaxIndex(i)
  <2>1. b = [index |-> count, left |-> A + n, of |-> id, from |-> A + n, have |-> count]
    BY <1>3, <1>7 DEF Subtree
  <2>2. A + n \in Nat
    BY <1>1
  <2>3. b \in Subtrees /\ b.index = count /\ b.left = A + n /\ Filled(b, id)
    BY <1>6, <2>1, <2>2 DEF Subtrees, Filled
  <2> QED BY <1>6, <2>3 DEF BuildingOK, n, A, r, b, done
<1>8. CASE ~(j > 0 /\ q + n <= MaxIndex(i))
  <2>1. \E g \in Nat : b = [index |-> 0, left |-> g, of |-> <<>>, from |-> 0, have |-> 0]
    BY <1>3, <1>8 DEF Empty
  <2>2. <<>> \in Seq(Int)
    OBVIOUS
  <2>3. b \in Subtrees /\ b.index = 0
    BY <2>1, <2>2 DEF Subtrees
  <2>4. ~(A + n < Leaves(i))
    BY <1>2, <1>8
  <2> QED BY <1>1, <2>3, <2>4 DEF BuildingOK, n, A, r, b, done
<1> QED BY <1>7, <1>8

(* NEXT_TREE is built from the bottom up, one subtree of each sublevel: that *)
(* of sublevel j is begun when the one below it is complete, at leaf Start.  *)
Start(i, j) == IF j = Sublevels(i) - 1 THEN 0 ELSE Size(i, j + 1)

\* Start: where a NEXT subtree begins, with the root of the one below it.
LEMMA StartFacts ==
  ASSUME NEW i \in Levels, NEW j \in Sub(i)
  PROVE  /\ Start(i, j) \in Nat
         /\ Start(i, j) < Size(i, j)
         /\ j # Sublevels(i) - 1 => j + 1 \in Sub(i) /\ Start(i, j) = Size(i, j + 1)
                                    /\ Start(i, j) = Unit(i, j)
         /\ \A k \in Sub(i) : j < k => Size(i, k) <= Start(i, j)
         /\ j = Sublevels(i) - 1 => Start(i, j) = 0
<1>1. Sublevels(i) \in 1 .. 25 /\ Sub(i) = 0 .. Sublevels(i) - 1
  BY SublevelsFacts
<1>2. j # Sublevels(i) - 1 => j + 1 \in Sub(i) /\ Start(i, j) = Size(i, j + 1)
  BY SubFacts DEF Start
<1>3. j # Sublevels(i) - 1 => Start(i, j) = Unit(i, j)
  BY <1>2, UnitFacts
<1>4. \A k \in Sub(i) : Size(i, k) \in Nat /\ Size(i, k) >= 2
  BY SizeFacts
<1>5. \A k, l \in Sub(i) : k < l => 2 * Size(i, l) <= Size(i, k)
  BY SizeFacts
<1>6. Start(i, j) \in Nat /\ Start(i, j) < Size(i, j)
  <2>1. CASE j = Sublevels(i) - 1
    BY <1>4, <2>1 DEF Start
  <2>2. CASE j # Sublevels(i) - 1
    <3>1. 2 * Size(i, j + 1) <= Size(i, j)
      BY <1>1, <1>2, <1>5, <2>2
    <3> QED BY <1>2, <1>4, <2>2, <3>1
  <2> QED BY <2>1, <2>2
<1>7. ASSUME NEW k \in Sub(i), j < k PROVE Size(i, k) <= Start(i, j)
  <2>1. j # Sublevels(i) - 1
    BY <1>1, <1>7
  <2>2. Start(i, j) = Size(i, j + 1) /\ j + 1 \in Sub(i)
    BY <1>2, <2>1
  <2>3. k = j + 1 \/ j + 1 < k
    BY <1>1, <1>7
  <2>4. CASE k = j + 1
    BY <1>4, <2>2, <2>4
  <2>5. CASE j + 1 < k
    <3>1. 2 * Size(i, k) <= Size(i, j + 1)
      BY <1>5, <2>2, <2>5
    <3> QED BY <1>4, <2>2, <3>1
  <2> QED BY <2>3, <2>4, <2>5
<1> QED BY <1>2, <1>3, <1>6, <1>7 DEF Start

\* The NEXT subtree s of sublevel j when p leaves of tree id have gone into them.
SubtreeNextOK(s, i, j, id, p) ==
  /\ s \in Subtrees
  /\ s.left = 0
  /\ p >= Size(i, j) => s.index = MaxSubindex /\ Complete(s, i, j, id, 0)
  /\ Start(i, j) < p /\ p < Size(i, j) => s.index = p /\ Filled(s, id)
  /\ p <= Start(i, j) => s.index = 0

NextOK(x, i, id, p) ==
  /\ x \in [Sub(i) -> Subtrees]
  /\ \A j \in Sub(i) : SubtreeNextOK(x[j], i, j, id, p)

\* The subtrees that still take leaves are those of the upper sublevels.
LEMMA OpenFacts ==
  ASSUME NEW i \in Levels, NEW p \in 0 .. Leaves(i), NEW id, NEW x, NextOK(x, i, id, p)
  PROVE  \A j \in Sub(i) : x[j].index < MaxSubindex <=> p < Size(i, j)
<1> TAKE j \in Sub(i)
<1>1. SubtreeNextOK(x[j], i, j, id, p)
  BY DEF NextOK
<1>2. Size(i, j) \in Nat /\ Size(i, j) < MaxSubindex /\ p \in Nat /\ MaxSubindex \in Nat
  <2>1. MaxSubindex \in Nat
    BY PowerNat DEF MaxSubindex
  <2> QED BY <2>1, SizeFacts, LeavesFacts
<1>3. Start(i, j) \in Nat /\ Start(i, j) < Size(i, j)
  BY StartFacts
<1>4. Size(i, j) >= 2
  BY SizeFacts
<1> QED BY <1>1, <1>2, <1>3, <1>4 DEF SubtreeNextOK

\* hss_step_next_tree gives the next leaf to the subtree whose turn it is.
LEMMA StepNextFacts ==
  ASSUME NEW i \in Levels, NEW p \in 0 .. Leaves(i), nameNext[i] \in Seq(Int),
         NextOK(next[i], i, nameNext[i], p)
  PROVE  NextOK(StepNext(i), i, nameNext[i], IF p = Leaves(i) THEN p ELSE p + 1)
<1> DEFINE x == next[i]
           id == nameNext[i]
           open == {j \in Sub(i) : x[j].index < MaxSubindex}
           J == Max(open)
           below == x[J + 1]
           start == IF x[J].index = 0 /\ J < Sublevels(i) - 1
                    THEN Subtree(Size(i, J + 1), x[J].left, below.of,
                                 IF Complete(below, i, J + 1, below.of, 0) THEN below.have ELSE 0)
                    ELSE x[J]
           added == AddNext(start, Size(i, J), id)
           grown == IF added.index = Size(i, J) THEN [added EXCEPT !.index = MaxSubindex] ELSE added
<1>1. StepNext(i) = IF open = {} THEN x ELSE [x EXCEPT ![J] = grown]
  BY Zenon DEF StepNext
<1> HIDE DEF grown, added, start
<1>2. \A j \in Sub(i) : j \in open <=> p < Size(i, j)
  BY OpenFacts
<1>3. /\ Leaves(i) \in Nat /\ p \in Nat /\ p <= Leaves(i) /\ Size(i, 0) = Leaves(i)
      /\ \A j \in Sub(i) : Size(i, j) \in Nat /\ Size(i, j) >= 2 /\ Size(i, j) <= Leaves(i)
                           /\ Size(i, j) < MaxSubindex
      /\ MaxSubindex \in Nat
  BY LeavesFacts, SizeFacts, PowerNat DEF MaxSubindex
<1>4. Sublevels(i) \in 1 .. 25 /\ Sub(i) = 0 .. Sublevels(i) - 1 /\ 0 \in Sub(i)
  BY SublevelsFacts
<1>5. x \in [Sub(i) -> Subtrees] /\ \A j \in Sub(i) : SubtreeNextOK(x[j], i, j, id, p)
  BY DEF NextOK
<1>6. CASE p = Leaves(i)
  <2>1. open = {}
    <3>1. \A j \in Sub(i) : ~(p < Size(i, j))
      BY <1>3, <1>6
    <3> QED BY <1>2, <3>1
  <2> QED BY <1>1, <1>6, <2>1
<1>7. CASE p # Leaves(i)
  <2>1. 0 \in open
    BY <1>2, <1>3, <1>4, <1>7
  <2>2. J \in open /\ \A k \in open : k <= J
    <3>1. open \in SUBSET Sub(i) /\ open # {}
      BY <2>1
    <3>2. Sublevels(i) - 1 \in Nat
      BY SubFacts, Zenon
    <3>3. open \in SUBSET (0 .. Sublevels(i) - 1)
      <4>1. Sub(i) \in SUBSET (0 .. Sublevels(i) - 1)
        BY SubFacts, Zenon
      <4> QED BY <3>1, <4>1, Zenon
    <3> HIDE DEF open
    <3> QED BY <3>1, <3>2, <3>3, MaxFacts
  <2>3. J \in Sub(i) /\ J \in 0 .. Sublevels(i) - 1 /\ p < Size(i, J)
    BY <1>2, <1>4, <2>2
  <2>4. \A k \in Sub(i) : J < k => p >= Size(i, k)
    <3> TAKE k \in Sub(i)
    <3> HAVE J < k
    <3>1. k \in Int
      BY SubFacts
    <3>2. k \notin open
      BY <2>2, <2>3, <3>1
    <3> QED BY <1>2, <1>3, <3>2
  <2> HIDE DEF open, J
  <2>5. /\ Start(i, J) \in Nat /\ Start(i, J) < Size(i, J)
        /\ J # Sublevels(i) - 1 => J + 1 \in Sub(i) /\ Start(i, J) = Size(i, J + 1)
        /\ J = Sublevels(i) - 1 => Start(i, J) = 0
    BY <2>3, StartFacts
  <2>6. p >= Start(i, J)
    <3>1. J + 1 \in Sub(i) => p >= Size(i, J + 1)
      BY <2>3, <2>4
    <3> QED BY <1>3, <2>3, <2>5, <3>1
  <2>7. x[J] \in Subtrees /\ SubtreeNextOK(x[J], i, J, id, p) /\ id \in Seq(Int)
    BY <1>5, <2>3
  <2>8. start \in Subtrees /\ start.left = 0 /\ start.index = p /\ Filled(start, id)
    <3>1. CASE p = Start(i, J) /\ J # Sublevels(i) - 1
      <4>1. SubtreeNextOK(below, i, J + 1, id, p) /\ p >= Size(i, J + 1)
        BY <1>5, <2>3, <2>4, <2>5, <3>1
      <4>2. Complete(below, i, J + 1, id, 0)
        BY <4>1 DEF SubtreeNextOK
      <4>3. below.of = id /\ below.have = p
        BY <2>5, <3>1, <4>2 DEF Complete
      <4>4. x[J].index = 0 /\ x[J].left = 0
        BY <1>3, <2>7, <3>1 DEF SubtreeNextOK
      <4>5. start = Subtree(Size(i, J + 1), 0, id, p)
        <5>1. J < Sublevels(i) - 1
          BY <2>3, <3>1, SubFacts
        <5> HIDE DEF below
        <5> QED BY <4>2, <4>3, <4>4, <5>1 DEF start
      <4>6. start = [index |-> p, left |-> 0, of |-> id, from |-> 0, have |-> p]
        BY <2>5, <3>1, <4>5 DEF Subtree
      <4> HIDE DEF x, id
      <4> QED BY <1>3, <2>7, <4>6 DEF Subtrees, Filled
    <3>2. CASE p = Start(i, J) /\ J = Sublevels(i) - 1
      <4>1. x[J].index = 0 /\ x[J].left = 0 /\ p = 0
        BY <1>3, <2>5, <2>7, <3>2 DEF SubtreeNextOK
      <4>2. ~(J < Sublevels(i) - 1)
        BY <2>3, <3>2, SubFacts
      <4>3. start = x[J]
        BY <4>2 DEF start
      <4> QED BY <2>7, <4>1, <4>3 DEF Filled
    <3>3. CASE p # Start(i, J)
      <4>1. Start(i, J) < p
        BY <1>3, <2>5, <2>6, <3>3
      <4>2. x[J].index = p /\ x[J].left = 0 /\ Filled(x[J], id)
        BY <2>3, <2>7, <4>1 DEF SubtreeNextOK
      <4>3. x[J].index # 0
        BY <1>3, <2>5, <4>1, <4>2
      <4>4. start = x[J]
        BY <4>3 DEF start
      <4> QED BY <2>7, <4>2, <4>4
    <3> QED BY <3>1, <3>2, <3>3
  <2>9. added \in Subtrees /\ added.left = 0 /\ added.index = p + 1 /\ Filled(added, id)
    <3>1. start.index <= Size(i, J) /\ Size(i, J) \in Nat /\ start.index # Size(i, J)
      BY <1>3, <2>3, <2>8
    <3> HIDE DEF id
    <3> QED BY <2>7, <2>8, <3>1, AddNextFacts DEF added
  <2>10. SubtreeNextOK(grown, i, J, id, p + 1)
    <3>1. added.of = id /\ added.from = 0 /\ added.have = p + 1
      BY <1>3, <2>9 DEF Filled
    <3>2. CASE p + 1 = Size(i, J)
      <4>1. grown = [added EXCEPT !.index = MaxSubindex]
        BY <2>9, <3>2 DEF grown
      <4>2. /\ grown \in Subtrees /\ grown.index = MaxSubindex /\ grown.left = 0
            /\ grown.of = id /\ grown.from = 0 /\ grown.have = p + 1
        BY <1>3, <2>9, <3>1, <4>1 DEF Subtrees
      <4>3. Complete(grown, i, J, id, 0)
        BY <3>2, <4>2 DEF Complete
      <4> HIDE DEF id
      <4> QED BY <1>3, <2>3, <2>5, <3>2, <4>2, <4>3 DEF SubtreeNextOK
    <3>3. CASE p + 1 # Size(i, J)
      <4>1. grown = added
        BY <2>9, <3>3 DEF grown
      <4>2. Start(i, J) < p + 1 /\ p + 1 < Size(i, J)
        <5>1. Size(i, J) \in Nat /\ Start(i, J) \in Nat /\ p \in Nat
          BY <1>3, <2>3, <2>5
        <5> QED BY <2>3, <2>6, <3>3, <5>1
      <4> HIDE DEF id
      <4> QED BY <1>3, <2>3, <2>5, <2>9, <4>1, <4>2 DEF SubtreeNextOK
    <3> QED BY <3>2, <3>3
  <2>11. ASSUME NEW k \in Sub(i), k # J PROVE SubtreeNextOK(x[k], i, k, id, p + 1)
    <3>1. SubtreeNextOK(x[k], i, k, id, p) /\ k \in Int
      BY <1>5, SubFacts
    <3>2. Start(i, k) \in Nat /\ Start(i, k) < Size(i, k) /\ Size(i, k) \in Nat
      BY <1>3, StartFacts
    <3>3. CASE J < k
      <4>1. p >= Size(i, k)
        BY <2>4, <3>3
      <4> HIDE DEF x, id
      <4> QED BY <1>3, <3>1, <3>2, <4>1 DEF SubtreeNextOK
    <3>4. CASE k < J
      <4>1. Size(i, J) <= Start(i, k)
        BY <2>3, <3>4, StartFacts
      <4>2. p + 1 <= Start(i, k) /\ p <= Start(i, k)
        BY <1>3, <2>3, <3>2, <4>1
      <4> HIDE DEF x, id
      <4> QED BY <1>3, <3>1, <3>2, <4>2 DEF SubtreeNextOK
    <3> QED BY <2>3, <2>11, <3>1, <3>3, <3>4
  <2>12. StepNext(i) = [x EXCEPT ![J] = grown]
    BY <1>1, <2>1
  <2>13. grown \in Subtrees
    BY <2>10 DEF SubtreeNextOK
  <2> HIDE DEF x, id
  <2>14. NextOK([x EXCEPT ![J] = grown], i, id, p + 1)
    BY <1>5, <2>3, <2>10, <2>11, <2>13 DEF NextOK
  <2> QED BY <1>7, <2>12, <2>14 DEF id
<1> QED BY <1>6, <1>7

\* Loading prepares NEXT_TREE at least as far as signing would have by then.
LEMMA LoadNextFacts ==
  ASSUME NEW i \in Levels, i # 1, NEW id \in Seq(Int), NEW q \in 0 .. MaxIndex(i)
  PROVE  \E p \in 0 .. Leaves(i) :
            /\ p >= q + (IF i = L THEN 0 ELSE 1)
            /\ NextOK([j \in Sub(i) |-> LoadNext(i, j, q, id)], i, id, p)
<1> DEFINE P == Prepared(i, q)
           u(j) == Unit(i, j)
           n(j) == RoundUp(P, u(j)) \div u(j)
           h(j) == 2 ^ SubtreeHeight(i, j)
           x == [j \in Sub(i) |-> LoadNext(i, j, q, id)]
           open == {j \in Sub(i) : n(j) < h(j)}
           inherited(j) == IF LevelsBelow(i, j) > 0 THEN 1 ELSE 0
<1>1. /\ Leaves(i) \in Nat
      /\ P \in Nat /\ P <= Leaves(i) /\ P = q + (IF i = L THEN 0 ELSE 1)
  BY LeavesFacts DEF Prepared
<1>2. /\ \A j \in Sub(i) : /\ Size(i, j) \in Nat /\ Size(i, j) >= 2 /\ Size(i, j) <= Leaves(i)
                           /\ Size(i, j) < MaxSubindex
      /\ Size(i, 0) = Leaves(i) /\ MaxSubindex \in Nat
  BY SizeFacts, PowerNat DEF MaxSubindex
<1>3. ASSUME NEW j \in Sub(i)
      PROVE  /\ u(j) \in Nat /\ u(j) >= 1 /\ h(j) \in Nat /\ h(j) >= 2
             /\ Size(i, j) = u(j) * h(j)
             /\ n(j) \in Nat /\ P <= u(j) * n(j) /\ u(j) * n(j) \in Nat
             /\ \A m \in Nat : P <= u(j) * m <=> n(j) <= m
  <2>1. u(j) \in Nat /\ u(j) >= 1 /\ h(j) \in Nat /\ h(j) >= 2 /\ Size(i, j) = u(j) * h(j)
    BY UnitFacts
  <2> HIDE DEF u, P, h
  <2>2. PICK k \in Nat : /\ RoundUp(P, u(j)) = u(j) * k
                         /\ RoundUp(P, u(j)) \in Nat
                         /\ RoundUp(P, u(j)) \div u(j) = k
                         /\ P <= RoundUp(P, u(j))
                         /\ \A m \in Nat : P <= u(j) * m <=> k <= m
    <3>1. P \in Nat /\ u(j) \in Nat /\ u(j) > 0
      BY <1>1, <2>1
    <3> QED BY <3>1, RoundUpFacts
  <2>3. n(j) = k
    BY <2>2
  <2> HIDE DEF n
  <2> QED BY <2>1, <2>2, <2>3
<1>4. ASSUME NEW j \in Sub(i)
      PROVE  x[j] = IF n(j) <= inherited(j) THEN Empty(0)
                    ELSE IF n(j) < h(j) THEN Subtree(n(j) * u(j), 0, id, n(j) * u(j))
                    ELSE Subtree(MaxSubindex, 0, id, Size(i, j))
  BY DEF LoadNext, Unit
<1>5. ASSUME NEW j \in Sub(i)
      PROVE  /\ inherited(j) = IF j = Sublevels(i) - 1 THEN 0 ELSE 1
             /\ j # Sublevels(i) - 1 => u(j) = Start(i, j)
             /\ j = Sublevels(i) - 1 => u(j) = 1 /\ Start(i, j) = 0
             /\ Start(i, j) \in Nat /\ Start(i, j) < Size(i, j)
             /\ \A k \in Sub(i) : j < k => Size(i, k) <= Start(i, j) /\ j # Sublevels(i) - 1
  <2>1. /\ j # Sublevels(i) - 1 => j + 1 \in Sub(i) /\ Start(i, j) = Unit(i, j)
        /\ j = Sublevels(i) - 1 => Start(i, j) = 0
        /\ Start(i, j) \in Nat /\ Start(i, j) < Size(i, j)
        /\ \A k \in Sub(i) : j < k => Size(i, k) <= Start(i, j)
    BY StartFacts
  <2>2. /\ j + 1 \in Sub(i) => LevelsBelow(i, j) > 0
        /\ j = Sublevels(i) - 1 => Unit(i, j) = 1 /\ LevelsBelow(i, j) = 0
    BY UnitFacts
  <2>3. \A k \in Sub(i) : j < k => j # Sublevels(i) - 1
    <3> TAKE k \in Sub(i)
    <3>1. k <= Sublevels(i) - 1 /\ k \in Nat /\ j \in Nat /\ Sublevels(i) \in Nat
      BY SubFacts
    <3> QED BY <3>1
  <2>4. inherited(j) = IF j = Sublevels(i) - 1 THEN 0 ELSE 1
    <3>1. CASE j = Sublevels(i) - 1
      BY <2>2, <3>1
    <3>2. CASE j # Sublevels(i) - 1
      BY <2>1, <2>2, <3>2
    <3> QED BY <3>1, <3>2
  <2> QED BY <2>1, <2>2, <2>3, <2>4
<1> HIDE DEF P, u, n, h, inherited
\* A subtree with k nodes at the bottom, among p = u * k leaves.
<1>6. ASSUME NEW j \in Sub(i), NEW p \in 0 .. Leaves(i), p = u(j) * n(j), n(j) < h(j)
      PROVE  SubtreeNextOK(x[j], i, j, id, p)
  <2>1. p < Size(i, j)
    BY <1>3, <1>6
  <2>2. CASE n(j) <= inherited(j)
    <3>1. p <= Start(i, j)
      <4>1. CASE j = Sublevels(i) - 1
        BY <1>3, <1>5, <1>6, <2>2, <4>1
      <4>2. CASE j # Sublevels(i) - 1
        <5>1. u(j) * n(j) <= u(j) * 1
          BY <1>3, <1>5, <2>2, <4>2
        <5> QED BY <1>3, <1>5, <1>6, <4>2, <5>1
      <4> QED BY <4>1, <4>2
    <3>2. x[j] = Empty(0)
      BY <1>4, <2>2
    <3> HIDE DEF x
    <3>3. x[j] = [index |-> 0, left |-> 0, of |-> <<>>, from |-> 0, have |-> 0]
      BY <3>2 DEF Empty
    <3>4. x[j] \in Subtrees /\ x[j].left = 0 /\ x[j].index = 0
      <4>1. <<>> \in Seq(Int)
        OBVIOUS
      <4> QED BY <3>3, <4>1 DEF Subtrees
    <3> QED BY <1>2, <1>5, <2>1, <3>1, <3>4 DEF SubtreeNextOK
  <2>3. CASE ~(n(j) <= inherited(j))
    <3>1. Start(i, j) < p
      <4>1. CASE j = Sublevels(i) - 1
        BY <1>3, <1>5, <1>6, <2>3, <4>1
      <4>2. CASE j # Sublevels(i) - 1
        <5>1. n(j) >= 2
          BY <1>3, <1>5, <2>3, <4>2
        <5>2. u(j) * n(j) >= u(j) * 2
          <6>1. u(j) \in Nat /\ n(j) \in Nat
            BY <1>3
          <6> QED BY <5>1, <6>1
        <5> QED BY <1>3, <1>5, <1>6, <4>2, <5>2
      <4> QED BY <4>1, <4>2
    <3>2. n(j) * u(j) = p
      BY <1>3, <1>6
    <3>3. x[j] = Subtree(p, 0, id, p)
      BY <1>4, <1>6, <2>3, <3>2
    <3> HIDE DEF x
    <3>4. x[j] = [index |-> p, left |-> 0, of |-> id, from |-> 0, have |-> p]
      BY <3>3 DEF Subtree
    <3>5. x[j] \in Subtrees /\ x[j].left = 0 /\ x[j].index = p /\ Filled(x[j], id)
      BY <1>1, <3>4 DEF Subtrees, Filled
    <3> QED BY <1>2, <1>5, <2>1, <3>1, <3>5 DEF SubtreeNextOK
  <2> QED BY <2>2, <2>3
\* A complete subtree.
<1>7. ASSUME NEW j \in Sub(i), NEW p \in 0 .. Leaves(i), p >= Size(i, j), ~(n(j) < h(j))
      PROVE  SubtreeNextOK(x[j], i, j, id, p)
  <2>1. ~(n(j) <= inherited(j))
    <3>1. n(j) \in Nat /\ h(j) \in Nat /\ h(j) >= 2 /\ inherited(j) \in {0, 1}
      BY <1>3, <1>5
    <3> QED BY <1>7, <3>1
  <2>2. x[j] = Subtree(MaxSubindex, 0, id, Size(i, j))
    BY <1>4, <1>7, <2>1
  <2> HIDE DEF x
  <2>3. x[j] = [index |-> MaxSubindex, left |-> 0, of |-> id, from |-> 0, have |-> Size(i, j)]
    BY <2>2 DEF Subtree
  <2>4. x[j] \in Subtrees /\ x[j].left = 0 /\ x[j].index = MaxSubindex /\ Complete(x[j], i, j, id, 0)
    BY <1>2, <2>3 DEF Subtrees, Complete
  <2> QED BY <1>1, <1>2, <1>5, <1>7, <2>4 DEF SubtreeNextOK
\* A subtree above a lower one that is still open.
<1>8. ASSUME NEW j \in Sub(i), NEW p \in 0 .. Leaves(i), P <= p, p <= Start(i, j),
             j # Sublevels(i) - 1
      PROVE  SubtreeNextOK(x[j], i, j, id, p)
  <2>1. P <= u(j) * 1 /\ 1 \in Nat
    <3>1. u(j) = Start(i, j) /\ Start(i, j) \in Nat
      BY <1>5, <1>8
    <3> QED BY <1>1, <1>8, <3>1
  <2>2. n(j) <= 1
    BY <1>3, <2>1
  <2>3. x[j] = Empty(0)
    BY <1>4, <1>5, <1>8, <2>2
  <2> HIDE DEF x
  <2>4. x[j] = [index |-> 0, left |-> 0, of |-> <<>>, from |-> 0, have |-> 0]
    BY <2>3 DEF Empty
  <2>5. x[j] \in Subtrees /\ x[j].left = 0 /\ x[j].index = 0
    <3>1. <<>> \in Seq(Int)
      OBVIOUS
    <3> QED BY <2>4, <3>1 DEF Subtrees
  <2> QED BY <1>2, <1>5, <1>8, <2>5 DEF SubtreeNextOK
<1>9. SUFFICES \E p \in 0 .. Leaves(i) : P <= p /\ \A j \in Sub(i) : SubtreeNextOK(x[j], i, j, id, p)
  <2>1. x = [j \in Sub(i) |-> x[j]]
    OBVIOUS
  <2>2. \A p : (\A j \in Sub(i) : SubtreeNextOK(x[j], i, j, id, p)) => x \in [Sub(i) -> Subtrees]
    <3> HIDE DEF x
    <3> QED BY <2>1 DEF SubtreeNextOK
  <2> HIDE DEF x
  <2>3. PICK p \in 0 .. Leaves(i) : P <= p /\ \A j \in Sub(i) : SubtreeNextOK(x[j], i, j, id, p)
    BY <1>9
  <2>4. p >= q + (IF i = L THEN 0 ELSE 1)
    BY <1>1, <2>3
  <2>5. NextOK(x, i, id, p)
    BY <2>2, <2>3 DEF NextOK
  <2> QED BY <2>3, <2>4, <2>5 DEF x
<1>10. CASE open = {}
  <2>1. Leaves(i) \in 0 .. Leaves(i) /\ P <= Leaves(i)
    BY <1>1
  <2>2. \A j \in Sub(i) : ~(n(j) < h(j)) /\ Leaves(i) >= Size(i, j)
    BY <1>1, <1>2, <1>10
  <2>3. \A j \in Sub(i) : SubtreeNextOK(x[j], i, j, id, Leaves(i))
    <3> HIDE DEF x
    <3> QED BY <1>7, <2>1, <2>2
  <2> HIDE DEF x
  <2> QED BY <2>1, <2>3
<1>11. CASE open # {}
  <2> DEFINE J == Max(open)
             p == u(J) * n(J)
  <2>1. J \in open /\ \A k \in open : k <= J
    <3>1. open \in SUBSET Sub(i)
      OBVIOUS
    <3>2. Sublevels(i) - 1 \in Nat
      BY SubFacts
    <3>3. open \in SUBSET (0 .. Sublevels(i) - 1)
      <4>1. Sub(i) \in SUBSET (0 .. Sublevels(i) - 1)
        BY SubFacts, Zenon
      <4> QED BY <3>1, <4>1, Zenon
    <3> HIDE DEF open
    <3> QED BY <1>11, <3>2, <3>3, MaxFacts
  <2>2. J \in Sub(i) /\ n(J) < h(J)
    BY <2>1
  <2>3. \A k \in Sub(i) : J < k => ~(n(k) < h(k))
    <3> TAKE k \in Sub(i)
    <3> HAVE J < k
    <3>1. k \in Int /\ J \in Int
      BY <2>2, SubFacts
    <3>2. k \notin open
      BY <2>1, <3>1
    <3> QED BY <3>2
  <2> HIDE DEF J, open
  <2>4. p \in Nat /\ P <= p /\ p < Size(i, J)
    <3>1. u(J) * n(J) < u(J) * h(J)
      BY <1>3, <2>2
    <3> QED BY <1>3, <2>2, <3>1
  <2>5. p \in 0 .. Leaves(i)
    BY <1>1, <1>2, <2>2, <2>4
  <2>6. ASSUME NEW j \in Sub(i), J < j PROVE SubtreeNextOK(x[j], i, j, id, p)
    <3>1. n(j) >= 1
      BY <1>3, <2>3, <2>6
    <3>2. ~(P <= u(j) * 0)
      BY <1>3, <3>1
    <3>3. P >= 1
      BY <1>1, <1>3, <3>2
    <3>4. u(J) \in Nat /\ n(J) \in Nat /\ u(J) * n(J) \in Nat
      BY <1>3, <2>2
    <3>5. n(J) >= 1
      <4>1. ~(P <= u(J) * 0)
        BY <1>1, <3>3, <3>4
      <4>2. ~(n(J) <= 0)
        BY <1>3, <2>2, <4>1
      <4> QED BY <3>4, <4>2
    <3>6. u(J) * n(J) >= u(J) * 1
      BY <3>4, <3>5
    <3>7. Size(i, j) <= u(J) /\ Size(i, j) \in Nat
      BY <1>2, <1>5, <2>2, <2>6
    <3>8. p >= Size(i, j)
      BY <3>4, <3>6, <3>7
    <3> HIDE DEF p, x
    <3> QED BY <1>7, <2>3, <2>5, <2>6, <3>8
  <2>7. ASSUME NEW j \in Sub(i), j < J PROVE SubtreeNextOK(x[j], i, j, id, p)
    <3>1. Size(i, J) <= Start(i, j) /\ j # Sublevels(i) - 1
      BY <1>5, <2>2, <2>7
    <3>2. p <= Start(i, j)
      BY <1>2, <1>5, <2>2, <2>4, <3>1
    <3> HIDE DEF p, x
    <3> QED BY <1>8, <2>4, <2>5, <3>1, <3>2
  <2>8. SubtreeNextOK(x[J], i, J, id, p)
    <3> HIDE DEF x
    <3> QED BY <1>6, <2>2, <2>5
  <2>9. \A j \in Sub(i) : j < J \/ j = J \/ J < j
    BY <2>2, SubFacts
  <2> HIDE DEF p, x
  <2>10. \A j \in Sub(i) : SubtreeNextOK(x[j], i, j, id, p)
    BY <2>6, <2>7, <2>8, <2>9
  <2> QED BY <2>4, <2>5, <2>10
<1> QED BY <1>10, <1>11

(* Two things the theorems need and the code does not check.  The names that *)
(* loading and signing give to the trees to the right must be the same: they *)
(* are if all trees are of one height, and may differ if they are not.  And  *)
(* where the task that asks for the parent's update has read current_index   *)
(* before do_gen_sig incremented it, the bottom tree asks once less than     *)
(* allocate_working_key counted on.  HypothesesHold says when they are met.  *)
SameNamesOnLoad == \A c \in Loads : SameNames(c)

EnoughUpdates ==
  0 \in Races /\ L > 1 /\ Sublevels(L) > 1 => UpdatesGenerated(L) > UpdatesRequired(L - 1)

-----------------------------------------------------------------------------
(* The invariant. *)

(* What sequence number c determines: the indices, the names, the signed     *)
(* public keys and the authentication paths.                                 *)
SignedKeyAt(c, i) == [by |-> TreeName(c, i - 1), q |-> LeafOf(c, i - 1), key |-> TreeName(c, i),
                      valid |-> TRUE]

PathsOK(c, cur, names, nexts, keys, a) ==
  /\ cur = [i \in Levels |-> IndexAt(c, i)]
  /\ names = [i \in Levels |-> TreeName(c, i)]
  /\ NextNames(nexts, names, c)
  /\ keys = [i \in 2 .. L |-> SignedKeyAt(c, i)]
  /\ \A i \in Levels : ActiveOK(a[i], i, names[i], LeafOf(c, i))

\* The bottom tree begins to ask for updates at this leaf, at the latest.
Threshold ==
  IF Sublevels(L) = 1 THEN 0 ELSE Leaves(L) - Size(L, 1) + (IF 0 \in Races THEN 1 ELSE 0)

UpdateOK(u) ==
  /\ DOMAIN u = 1 .. L - 1
  /\ \A i \in 1 .. L - 1 : u[i] \in (0 .. Sublevels(i) + 1) \cup {UpdateDone}

(* How far the updates have come: a tree has been asked once for every leaf  *)
(* of the tree below whose own turn to ask it is over.  "done" is 1 when the *)
(* work for the current sequence number is done, 0 before.                   *)
Asked(i, u, c, done) ==
  \/ u[i] = UpdateDone
  \/ u[i] >= IF i = L - 1 THEN LeafOf(c, L) + done - Threshold
             ELSE LeafOf(c, i + 1) + (IF u[i + 1] >= UpdateBuilding THEN 1 ELSE 0)

\* Whether a building subtree, or NEXT_TREE, has its leaf for the current one.
BuildDone(i, j, u, done) ==
  IF i = L THEN done ELSE IF u[i] >= j + UpdateBuilding THEN 1 ELSE 0
NextDone(i, u, done) == IF i = L THEN done ELSE IF u[i] = UpdateNext THEN 0 ELSE 1

ProgressOK(c, names, nexts, u, b, x, done) ==
  /\ UpdateOK(u)
  /\ \A i \in 1 .. L - 1 : Asked(i, u, c, done)
  /\ \A i \in Levels : \A j \in Sub(i) :
       BuildingOK(b[i][j], i, j, names[i], LeafOf(c, i), BuildDone(i, j, u, done))
  /\ x[1] = [j \in Sub(1) |-> Empty(0)]
  /\ \A i \in 2 .. L : \E p \in 0 .. Leaves(i) :
       p >= LeafOf(c, i) + NextDone(i, u, done) /\ NextOK(x[i], i, nexts[i], p)

At(c) == /\ PathsOK(c, current, name, nameNext, signedPk, active)
         /\ ProgressOK(c, name, nameNext, update, building, next, 0)

IInv == TypeOK /\ (status = "none" => \E c \in 0 .. MaxCount : At(c))

-----------------------------------------------------------------------------
(* The work of one signature, before the trees and subtrees that it used up  *)
(* are switched: next1, building1 and update_count after do_update_parent.   *)

UpdateAfter(race) ==
  [i \in 1 .. L - 1 |-> IF AsksParent(race) THEN UpdateAfterWork(i) ELSE update[i]]
NextAfter(race) ==
  [i \in Levels |->
     IF L > 1 /\ (i = L \/ (AsksParent(race) /\ i = Worker /\ i > 1 /\ update[i] = UpdateNext))
     THEN StepNext(i) ELSE next[i]]
Grown(race, i) == IF i = L THEN Stepped(race) ELSE IF AsksParent(race) THEN Worked(i) ELSE {}
BuildingAfter(race) ==
  [i \in Levels |-> [j \in Sub(i) |->
     IF j \in Grown(race, i) THEN AddNext(building[i][j], Size(i, j), name[i])
     ELSE building[i][j]]]

\* The levels, and the levels that have a tree below them.
LEMMA LevelFacts ==
  /\ L \in Nat /\ L >= 1 /\ Levels = 1 .. L /\ 1 \in Levels /\ L \in Levels
  /\ \A i \in 1 .. L - 1 : i \in Levels /\ i + 1 \in Levels /\ i # L /\ i \in Nat /\ i + 1 \in 2 .. L
  /\ \A i \in 2 .. L : i \in Levels /\ i - 1 \in Levels /\ i - 1 \in 1 .. L - 1 /\ i \in Nat /\ i # 1
  /\ \A i \in Levels : i \in Nat /\ i >= 1 /\ i <= L
BY ShapeFacts DEF Levels

\* The leaves of a sequence number, by level.
LEMMA LeafFacts ==
  ASSUME NEW c \in 0 .. MaxCount
  PROVE  /\ c \in Nat
         /\ \A i \in Levels : /\ LeafOf(c, i) \in 0 .. MaxIndex(i)
                              /\ LeafOf(c, i) \in Nat /\ LeafOf(c, i) < Leaves(i)
                              /\ Leaves(i) \in Nat /\ MaxIndex(i) = Leaves(i) - 1
<1>1. c \in Nat
  BY BelowFacts
<1>2. \A i \in Levels : LeafOf(c, i) \in 0 .. MaxIndex(i)
  BY <1>1, LeafOfType
<1>3. \A i \in Levels : Leaves(i) \in Nat /\ MaxIndex(i) = Leaves(i) - 1
  BY LeavesFacts
<1> QED BY <1>1, <1>2, <1>3

\* The trees between the worker and the bottom one are all waiting for it.
LEMMA WorkerFacts ==
  ASSUME L > 1
  PROVE  /\ Worker \in 1 .. L - 1
         /\ Worker # 1 => update[Worker] # UpdateParent
         /\ \A i \in 1 .. L - 1 : i > Worker => update[i] = UpdateParent
<1> DEFINE T == {i \in 1 .. L - 1 : update[i] # UpdateParent \/ i = 1}
<1>1. 1 \in T /\ T \in SUBSET (0 .. L - 1) /\ L - 1 \in Nat
  BY LevelFacts
<1>2. Worker = Max(T)
  BY DEF Worker
<1>3. Worker \in T /\ \A y \in T : y <= Worker
  <2> HIDE DEF T
  <2> QED BY <1>1, <1>2, MaxFacts
<1>4. ASSUME NEW i \in 1 .. L - 1, i > Worker PROVE update[i] = UpdateParent
  <2>1. i \notin T
    BY <1>3, <1>4, LevelFacts
  <2> QED BY <2>1
<1> QED BY <1>3, <1>4

\* What one request for an update does to update_count.
LEMMA UpdateFacts ==
  ASSUME L > 1, UpdateOK(update), NEW i \in 1 .. L - 1
  PROVE  LET u == update[i]
             v == UpdateAfterWork(i)
         IN  /\ v \in (0 .. Sublevels(i) + 1) \cup {UpdateDone}
             /\ i > Worker => u = UpdateParent /\ v = UpdateBuilding
             /\ i < Worker => v = u
             /\ i = Worker => \/ u # UpdateDone /\ u <= Sublevels(i) /\ v = u + 1
                              \/ u = UpdateDone /\ v = UpdateDone
                              \/ u = Sublevels(i) + 1 /\ v = UpdateDone
<1> DEFINE u == update[i]
           v == UpdateAfterWork(i)
           s == Sublevels(i)
<1>1. s \in 1 .. 25
  BY SublevelsFacts, LevelFacts
<1>2. u \in (0 .. s + 1) \cup {255}
  BY DEF UpdateOK, UpdateDone
<1>3. Worker \in Nat /\ i \in Nat /\ (i > Worker => u = 1)
  BY WorkerFacts, LevelFacts DEF UpdateParent
<1>4. v = IF i > Worker THEN 2
          ELSE IF i < Worker \/ u = 255 THEN u
          ELSE IF u \in {0, 1} THEN u + 1
          ELSE IF u - 2 + 1 >= s THEN 255 ELSE u + 1
  BY DEF UpdateAfterWork, ToUpdate, UpdateNext, UpdateParent, UpdateBuilding, UpdateDone
<1> HIDE DEF u, v, s
<1>5. /\ v \in (0 .. s + 1) \cup {255}
      /\ i > Worker => u = 1 /\ v = 2
      /\ i < Worker => v = u
      /\ i = Worker => \/ u # 255 /\ u <= s /\ v = u + 1
                       \/ u = 255 /\ v = 255
                       \/ u = s + 1 /\ v = 255
  <2>1. CASE i > Worker
    BY <1>1, <1>3, <1>4, <2>1
  <2>2. CASE i < Worker
    BY <1>1, <1>2, <1>3, <1>4, <2>2
  <2>3. CASE i = Worker
    <3>1. CASE u = 255
      BY <1>1, <1>3, <1>4, <2>3, <3>1
    <3>2. CASE u # 255 /\ u <= s
      BY <1>1, <1>2, <1>3, <1>4, <2>3, <3>2
    <3>3. CASE u # 255 /\ ~(u <= s)
      BY <1>1, <1>2, <1>3, <1>4, <2>3, <3>3
    <3> QED BY <3>1, <3>2, <3>3
  <2> QED BY <1>3, <2>1, <2>2, <2>3
<1> QED BY <1>5 DEF u, v, s, UpdateParent, UpdateBuilding, UpdateDone

\* The update_counts after a request or without one.
LEMMA UpdateAfterFacts ==
  ASSUME NEW race \in Races, UpdateOK(update), NEW i \in 1 .. L - 1
  PROVE  LET u == update[i]
             v == UpdateAfter(race)[i]
         IN  /\ u \in (0 .. Sublevels(i) + 1) \cup {UpdateDone}
             /\ v \in (0 .. Sublevels(i) + 1) \cup {UpdateDone}
             /\ u \in Nat /\ v \in Nat /\ Sublevels(i) \in 1 .. 25
             /\ \/ v = u /\ ~(AsksParent(race) /\ i >= Worker /\ u # UpdateDone)
                \/ AsksParent(race) /\ i > Worker /\ u = UpdateParent /\ v = UpdateBuilding
                \/ AsksParent(race) /\ i = Worker /\ u # UpdateDone /\ v \in {u + 1, UpdateDone}
                   /\ (v = UpdateDone => u = Sublevels(i) + 1)
<1> DEFINE u == update[i]
           v == UpdateAfter(race)[i]
           s == Sublevels(i)
<1>1. s \in 1 .. 25
  BY SublevelsFacts, LevelFacts
<1>2. u \in (0 .. s + 1) \cup {255}
  BY DEF UpdateOK, UpdateDone
<1>3. L > 1
  BY LevelFacts
<1>4. v = IF AsksParent(race) THEN UpdateAfterWork(i) ELSE u
  BY DEF UpdateAfter
<1>5. /\ UpdateAfterWork(i) \in (0 .. s + 1) \cup {255}
      /\ i > Worker => u = 1 /\ UpdateAfterWork(i) = 2
      /\ i < Worker => UpdateAfterWork(i) = u
      /\ i = Worker => \/ u # 255 /\ u <= s /\ UpdateAfterWork(i) = u + 1
                       \/ u = 255 /\ UpdateAfterWork(i) = 255
                       \/ u = s + 1 /\ UpdateAfterWork(i) = 255
  BY <1>3, UpdateFacts DEF UpdateParent, UpdateBuilding, UpdateDone
<1>6. Worker \in Nat /\ i \in Nat
  BY <1>3, WorkerFacts, LevelFacts
<1> HIDE DEF u, v, s
<1>7. /\ u \in (0 .. s + 1) \cup {255}
      /\ v \in (0 .. s + 1) \cup {255}
      /\ u \in Nat /\ v \in Nat
  BY <1>1, <1>2, <1>4, <1>5
<1>8. \/ v = u /\ ~(AsksParent(race) /\ i >= Worker /\ u # 255)
      \/ AsksParent(race) /\ i > Worker /\ u = 1 /\ v = 2
      \/ AsksParent(race) /\ i = Worker /\ u # 255 /\ v \in {u + 1, 255} /\ (v = 255 => u = s + 1)
  <2>1. CASE ~AsksParent(race)
    BY <1>4, <2>1
  <2>2. CASE AsksParent(race) /\ i > Worker
    BY <1>4, <1>5, <2>2
  <2>3. CASE AsksParent(race) /\ i < Worker
    BY <1>4, <1>5, <1>6, <2>3
  <2>4. CASE AsksParent(race) /\ i = Worker
    BY <1>1, <1>2, <1>4, <1>5, <1>6, <2>4
  <2> QED BY <1>6, <2>1, <2>2, <2>3, <2>4
<1> QED BY <1>1, <1>7, <1>8 DEF u, v, s, UpdateParent, UpdateBuilding, UpdateDone

\* The bottom tree, at leaf q, asks for an update unless it is still early.
LEMMA AskFacts ==
  ASSUME NEW c \in 0 .. MaxCount, NEW race \in Races, L > 1, current[L] = LeafOf(c, L),
         ~AsksParent(race), update[L - 1] # UpdateDone
  PROVE  LeafOf(c, L) + 1 <= Threshold
<1> DEFINE q == LeafOf(c, L)
           n == Size(L, 1)
           m == Leaves(L)
<1>1. Stepped(race) = Sub(L) \ {0} /\ Sublevels(L) # 1
  BY DEF AsksParent
<1>2. 1 \in Sub(L)
  BY <1>1, GeneratedFacts, LevelFacts
<1>3. 1 \in Stepped(race)
  BY <1>1, <1>2
<1>4. MaxIndex(L) - (q + race) + 1 >= n
  BY <1>3 DEF Stepped
<1>5. q \in Nat /\ m \in Nat /\ MaxIndex(L) = m - 1 /\ n \in Nat
  BY <1>2, LeafFacts, LevelFacts, SizeFacts
<1>6. race \in {0, 1} /\ (race = 0 => 0 \in Races)
  BY RaceAssumption
<1>7. Threshold = m - n + (IF 0 \in Races THEN 1 ELSE 0)
  BY <1>1 DEF Threshold
<1> HIDE DEF q, n, m
<1>8. q + 1 <= Threshold
  <2>1. CASE race = 0
    BY <1>4, <1>5, <1>6, <1>7, <2>1
  <2>2. CASE race = 1
    BY <1>4, <1>5, <1>7, <2>2
  <2> QED BY <1>6, <2>1, <2>2
<1> QED BY <1>8 DEF q

\* Every request gets as far as the first tree that can do something about it.
LEMMA WorkUpdates ==
  ASSUME NEW c \in 0 .. MaxCount, NEW race \in Races, current[L] = IndexAt(c, L),
         UpdateOK(update), \A i \in 1 .. L - 1 : Asked(i, update, c, 0)
  PROVE  /\ UpdateOK(UpdateAfter(race))
         /\ \A i \in 1 .. L - 1 : Asked(i, UpdateAfter(race), c, 1)
<1> DEFINE v == UpdateAfter(race)
<1>1. UpdateOK(v)
  <2>1. DOMAIN v = 1 .. L - 1
    BY DEF UpdateAfter
  <2>2. \A i \in 1 .. L - 1 : v[i] \in (0 .. Sublevels(i) + 1) \cup {UpdateDone}
    <3> HIDE DEF v
    <3> QED BY UpdateAfterFacts DEF v
  <2> HIDE DEF v
  <2> QED BY <2>1, <2>2 DEF UpdateOK
<1> DEFINE Step(i) ==
      \/ v[i] = update[i] /\ ~(AsksParent(race) /\ i >= Worker /\ update[i] # 255)
      \/ AsksParent(race) /\ i > Worker /\ update[i] = 1 /\ v[i] = 2
      \/ AsksParent(race) /\ i = Worker /\ update[i] # 255 /\ v[i] \in {update[i] + 1, 255}
         /\ (v[i] = 255 => update[i] = Sublevels(i) + 1)
<1>2. \A i \in 1 .. L - 1 : update[i] \in Nat /\ v[i] \in Nat /\ Step(i) /\ Sublevels(i) \in 1 .. 25
  <2> HIDE DEF v
  <2> QED BY UpdateAfterFacts DEF v, UpdateParent, UpdateBuilding, UpdateDone
<1> HIDE DEF v
<1>3. ASSUME NEW i \in 1 .. L - 1, i # L - 1 PROVE Asked(i, v, c, 1)
  <2> DEFINE q == LeafOf(c, i + 1)
             old == update[i]
             new == v[i]
             oldBelow == update[i + 1]
             newBelow == v[i + 1]
             w == Worker
             ask == AsksParent(race)
  <2>1. i + 1 \in 1 .. L - 1 /\ i + 1 \in Levels /\ i \in Nat /\ i >= 1 /\ L > 1
    BY <1>3, LevelFacts
  <2>2. q \in Nat
    BY <2>1, LeafFacts
  <2>3. old = 255 \/ old >= q + (IF oldBelow >= 2 THEN 1 ELSE 0)
    BY <1>3 DEF Asked, UpdateDone, UpdateBuilding
  <2>4. old \in Nat /\ new \in Nat /\ oldBelow \in Nat /\ newBelow \in Nat
    BY <1>2, <2>1
  <2>5. w \in Nat /\ w >= 1
    <3>1. Worker \in 1 .. L - 1
      BY <2>1, WorkerFacts
    <3> QED BY <3>1
  <2>6. /\ \/ new = old /\ ~(ask /\ i >= w /\ old # 255)
           \/ ask /\ i > w /\ old = 1 /\ new = 2
           \/ ask /\ i = w /\ old # 255 /\ new \in {old + 1, 255}
        /\ \/ newBelow = oldBelow /\ ~(ask /\ i + 1 >= w /\ oldBelow # 255)
           \/ ask /\ i + 1 > w /\ oldBelow = 1 /\ newBelow = 2
           \/ ask /\ i + 1 = w /\ oldBelow # 255 /\ newBelow \in {oldBelow + 1, 255}
              /\ (newBelow = 255 => oldBelow = Sublevels(i + 1) + 1)
    BY <1>2, <2>1
  <2>7. /\ i + 1 = w => oldBelow # 1
        /\ i + 1 > w => oldBelow = 1
    <3>1. w # 1 => oldBelow # 1 \/ w # i + 1
      BY <2>1, WorkerFacts DEF UpdateParent
    <3>2. i + 1 > w => oldBelow = 1
      BY <2>1, WorkerFacts DEF UpdateParent
    <3> HIDE DEF w, oldBelow
    <3> QED BY <2>1, <2>5, <3>1, <3>2
  <2>8. Sublevels(i + 1) + 1 >= 2
    <3>1. Sublevels(i + 1) \in 1 .. 25
      BY <1>2, <2>1
    <3> QED BY <3>1
  <2> HIDE DEF q, old, new, oldBelow, newBelow, w, ask
  <2>9. new = 255 \/ new >= q + (IF newBelow >= 2 THEN 1 ELSE 0)
    <3>1. CASE ~ask
      BY <2>3, <2>6, <3>1
    <3>2. CASE ask /\ i + 1 < w
      BY <2>1, <2>3, <2>5, <2>6, <3>2
    <3>3. CASE ask /\ i + 1 = w
      <4>1. new = old
        BY <2>1, <2>6, <3>3
      <4>2. newBelow >= 2 <=> oldBelow >= 2
        BY <2>1, <2>4, <2>6, <2>7, <2>8, <3>3
      <4> QED BY <2>3, <4>1, <4>2
    <3>4. CASE ask /\ i + 1 > w
      <4>1. oldBelow = 1 /\ newBelow = 2
        BY <2>1, <2>5, <2>6, <2>7, <3>4
      <4>2. i > w \/ i = w
        BY <2>1, <2>5, <3>4
      <4>3. new = 255 \/ (new = old + 1 /\ old # 255)
        BY <2>1, <2>5, <2>6, <3>4, <4>2
      <4> QED BY <2>2, <2>3, <2>4, <4>1, <4>3
    <3> QED BY <2>1, <2>5, <3>1, <3>2, <3>3, <3>4
  <2> QED BY <1>3, <2>9 DEF Asked, UpdateDone, UpdateBuilding, q, new, newBelow
<1>4. ASSUME NEW i \in 1 .. L - 1, i = L - 1 PROVE Asked(i, v, c, 1)
  <2> DEFINE q == LeafOf(c, L)
             old == update[i]
             new == v[i]
  <2>1. L > 1 /\ i \in Nat /\ i >= 1
    BY LevelFacts
  <2>2. q \in Nat /\ Threshold \in Int
    <3>1. Sublevels(L) # 1 => Size(L, 1) \in Nat
      BY SizeFacts, GeneratedFacts, LevelFacts
    <3> QED BY <3>1, LeafFacts, LevelFacts DEF Threshold
  <2>3. old = 255 \/ old >= q + 0 - Threshold
    BY <1>4 DEF Asked, UpdateDone
  <2>4. old \in Nat /\ new \in Nat /\ Step(i)
    BY <1>2
  <2>5. new = 255 \/ new >= q + 1 - Threshold
    <3>1. CASE ~AsksParent(race) /\ update[L - 1] # 255
      <4>1. current[L] = q
        BY DEF IndexAt
      <4>2. q + 1 <= Threshold
        BY <2>1, <3>1, <4>1, AskFacts DEF UpdateDone
      <4> QED BY <2>2, <2>4, <4>2
    <3>2. CASE update[L - 1] = 255
      BY <1>4, <2>4, <3>2
    <3>3. CASE AsksParent(race) /\ update[L - 1] # 255
      <4>1. Worker \in Nat /\ Worker <= L - 1
        BY <2>1, WorkerFacts
      <4>2. new = 255 \/ new = old + 1
        BY <1>4, <2>1, <2>4, <3>3, <4>1
      <4> QED BY <1>4, <2>2, <2>3, <2>4, <3>3, <4>2
    <3> QED BY <3>1, <3>2, <3>3
  <2> QED BY <1>4, <2>5 DEF Asked, UpdateDone
<1> QED BY <1>1, <1>3, <1>4 DEF v

\* At the right edge of its tree a BUILDING subtree is free to be anything, and one
\* that has got its leaf has done whatever else it may have to.
LEMMA BuildingIdle ==
  ASSUME NEW i \in Levels, NEW j \in Sub(i), NEW id, NEW q \in 0 .. MaxIndex(i), NEW b,
         NEW d \in {0, 1}, NEW e \in {0, 1}, BuildingOK(b, i, j, id, q, d),
         d >= e \/ ~(Aligned(i, j, q) + Size(i, j) < Leaves(i))
  PROVE  BuildingOK(b, i, j, id, q, e)
<1>1. CASE ~(Aligned(i, j, q) + Size(i, j) < Leaves(i))
  BY <1>1 DEF BuildingOK
<1>2. CASE d >= e
  <2>1. Size(i, j) \in Nat /\ q % Size(i, j) \in Int
    BY SizeFacts, AlignedFacts
  <2>2. b.index \in Nat
    BY DEF BuildingOK, Subtrees
  <2>3. b.index >= (q % Size(i, j)) + d => b.index >= (q % Size(i, j)) + e
    BY <1>2, <2>1, <2>2
  <2> QED BY <2>3 DEF BuildingOK
<1> QED BY <1>1, <1>2

\* The root of a tree is always at its right edge.
LEMMA RootAtEdge ==
  ASSUME NEW i \in Levels, NEW q \in 0 .. MaxIndex(i)
  PROVE  ~(Aligned(i, 0, q) + Size(i, 0) < Leaves(i))
<1>1. Aligned(i, 0, q) = 0 /\ Size(i, 0) = Leaves(i) /\ Leaves(i) \in Nat
  BY AlignedZero, SizeFacts, LeavesFacts
<1> QED BY <1>1

\* Every BUILDING subtree that will still be used gets the leaf it needs.
LEMMA WorkBuilding ==
  ASSUME NEW c \in 0 .. MaxCount, NEW race \in Races, current[L] = IndexAt(c, L),
         UpdateOK(update), \A i \in Levels : name[i] \in Seq(Int),
         \A i \in Levels : \A j \in Sub(i) :
           BuildingOK(building[i][j], i, j, name[i], LeafOf(c, i), BuildDone(i, j, update, 0))
  PROVE  \A i \in Levels : \A j \in Sub(i) :
           BuildingOK(BuildingAfter(race)[i][j], i, j, name[i], LeafOf(c, i),
                      BuildDone(i, j, UpdateAfter(race), 1))
<1> TAKE i \in Levels
<1> TAKE j \in Sub(i)
<1> DEFINE q == LeafOf(c, i)
           n == Size(i, j)
           A == Aligned(i, j, q)
           m == Leaves(i)
           b == building[i][j]
           t == BuildingAfter(race)[i][j]
           d == BuildDone(i, j, update, 0)
           e == BuildDone(i, j, UpdateAfter(race), 1)
           edge == ~(A + n < m)
<1>1. q \in 0 .. MaxIndex(i) /\ q \in Nat /\ m \in Nat /\ MaxIndex(i) = m - 1
  BY LeafFacts
<1>2. BuildingOK(b, i, j, name[i], q, d) /\ name[i] \in Seq(Int)
  OBVIOUS
<1>3. t = IF j \in Grown(race, i) THEN AddNext(b, n, name[i]) ELSE b
  BY DEF BuildingAfter
<1>4. d \in {0, 1} /\ e \in {0, 1}
  BY DEF BuildDone
<1>5. /\ A \in 0 .. q /\ n \in Nat /\ n >= 2 /\ q % n \in 0 .. n - 1 /\ q = A + (q % n)
      /\ A + n < m => A + 2 * n <= m
  BY <1>1, AlignedFacts, SizeFacts
<1>6. j = 0 => edge
  BY <1>1, RootAtEdge
<1>7. j \in Nat /\ j <= Sublevels(i) - 1 /\ Sublevels(i) \in Nat
  BY SubFacts
<1>8. ASSUME j \in Grown(race, i), d = 0 PROVE BuildingOK(t, i, j, name[i], q, e)
  <2> HIDE DEF b, t, d, e, q
  <2>1. t = AddNext(b, n, name[i])
    BY <1>3, <1>8
  <2>2. BuildingOK(t, i, j, name[i], q, 1)
    BY <1>1, <1>2, <1>8, <2>1, BuildingStep
  <2>3. 1 \in {0, 1} /\ 1 >= e
    BY <1>4
  <2> QED BY <1>1, <1>4, <2>2, <2>3, BuildingIdle
<1>9. ASSUME j \notin Grown(race, i), edge \/ d >= e PROVE BuildingOK(t, i, j, name[i], q, e)
  <2>1. t = b
    BY <1>3, <1>9
  <2> HIDE DEF b, t, d, e, q
  <2> QED BY <1>1, <1>2, <1>4, <1>9, <2>1, BuildingIdle
<1>10. CASE i = L
  <2>1. d = 0 /\ e = 1
    BY <1>10 DEF BuildDone
  <2>2. Grown(race, i) = {k \in Sub(L) \ {0} : m - 1 - (q + race) + 1 >= Size(L, k)}
    BY <1>1, <1>10 DEF Grown, Stepped, IndexAt
  <2>3. race \in {0, 1}
    BY RaceAssumption
  <2>4. j \notin Grown(race, i) => edge
    <3> HAVE j \notin Grown(race, i)
    <3>1. j = 0 \/ ~(m - 1 - (q + race) + 1 >= n)
      BY <1>10, <2>2
    <3>2. CASE ~(m - 1 - (q + race) + 1 >= n)
      <4> HIDE DEF q, m, n, A
      <4>1. q < A + n
        <5> DEFINE r == q % n
        <5>1. r \in 0 .. n - 1 /\ q = A + r /\ n \in Nat /\ A \in 0 .. q /\ q \in Nat
          BY <1>1, <1>5
        <5> HIDE DEF r
        <5> QED BY <5>1
      <4>2. A + n < m => A + 2 * n <= m /\ n \in Nat /\ A \in 0 .. q
        BY <1>5
      <4> QED BY <1>1, <2>3, <3>2, <4>1, <4>2
    <3> QED BY <1>6, <3>1, <3>2
  <2> QED BY <1>8, <1>9, <2>1, <2>4
<1>11. CASE i # L
  <2> DEFINE old == update[i]
             new == UpdateAfter(race)[i]
             s == Sublevels(i)
  <2>1. i \in 1 .. L - 1 /\ L > 1
    BY <1>11, LevelFacts
  <2>2. /\ old \in (0 .. s + 1) \cup {255}
        /\ new \in (0 .. s + 1) \cup {255}
        /\ old \in Nat /\ new \in Nat /\ s \in 1 .. 25
        /\ \/ new = old /\ ~(AsksParent(race) /\ i >= Worker /\ old # 255)
           \/ AsksParent(race) /\ i > Worker /\ old = 1 /\ new = 2
           \/ AsksParent(race) /\ i = Worker /\ old # 255 /\ new \in {old + 1, 255}
              /\ (new = 255 => old = s + 1)
    BY <2>1, UpdateAfterFacts DEF UpdateDone, UpdateParent, UpdateBuilding
  <2>3. d = (IF old >= j + 2 THEN 1 ELSE 0) /\ e = (IF new >= j + 2 THEN 1 ELSE 0)
    BY <1>11 DEF BuildDone, UpdateBuilding
  <2>4. j \in Grown(race, i) <=> /\ AsksParent(race) /\ i = Worker /\ old \notin {0, 1, 255}
                                 /\ j = old - 2 + 1 /\ b.left < m
    BY <1>11 DEF Grown, Worked, ToUpdate, UpdateNext, UpdateParent, UpdateDone, UpdateBuilding
  <2>5. edge \/ b.left < m
    BY <1>2 DEF BuildingOK
  <2> HIDE DEF b, d, e, old, new, s, edge, q, t
  <2>6. CASE j \in Grown(race, i)
    <3>1. d = 0
      BY <1>7, <2>2, <2>3, <2>4, <2>6
    <3> QED BY <1>8, <2>6, <3>1 DEF t, q, e
  <2>7. CASE j \notin Grown(race, i)
    <3>1. Worker \in Nat /\ i \in Nat
      BY <2>1, WorkerFacts, LevelFacts
    <3>2. edge \/ d >= e
      <4>1. CASE new = old
        BY <2>3, <4>1
      <4>2. CASE old = 1 /\ new = 2
        <5>1. j # 0 => e = 0
          BY <1>7, <2>3, <4>2
        <5> QED BY <1>4, <1>6, <5>1
      <4>3. CASE AsksParent(race) /\ i = Worker /\ old # 255 /\ new = 255 /\ old = s + 1
        <5>1. d = 1
          BY <1>7, <2>2, <2>3, <4>3 DEF s
        <5> QED BY <1>4, <5>1
      <4>4. CASE AsksParent(race) /\ i = Worker /\ old # 255 /\ new = old + 1
        <5>1. CASE old \in {0, 1} /\ j # 0
          <6>1. e = 0
            BY <1>7, <2>3, <4>4, <5>1
          <6> QED BY <1>4, <6>1
        <5>2. CASE j = 0
          BY <1>6, <5>2
        <5>3. CASE old \notin {0, 1} /\ j # old - 2 + 1
          <6>1. d = e
            BY <1>7, <2>2, <2>3, <4>4, <5>3
          <6> QED BY <1>4, <6>1
        <5>4. CASE old \notin {0, 1} /\ j = old - 2 + 1
          BY <2>4, <2>5, <2>7, <4>4, <5>4
        <5> QED BY <5>1, <5>2, <5>3, <5>4
      <4> QED BY <2>2, <4>1, <4>2, <4>3, <4>4
    <3> QED BY <1>9, <2>7, <3>2 DEF t, q, e
  <2> QED BY <2>6, <2>7
<1> QED BY <1>10, <1>11

\* NEXT_TREE gets its leaf with every signature at the bottom, and elsewhere as the
\* first thing that an update does.
LEMMA WorkNext ==
  ASSUME NEW c \in 0 .. MaxCount, NEW race \in Races, UpdateOK(update),
         \A i \in Levels : nameNext[i] \in Seq(Int),
         next[1] = [j \in Sub(1) |-> Empty(0)],
         \A i \in 2 .. L : \E p \in 0 .. Leaves(i) :
           p >= LeafOf(c, i) + NextDone(i, update, 0) /\ NextOK(next[i], i, nameNext[i], p)
  PROVE  /\ NextAfter(race)[1] = [j \in Sub(1) |-> Empty(0)]
         /\ \A i \in 2 .. L : \E p \in 0 .. Leaves(i) :
              /\ p >= LeafOf(c, i) + NextDone(i, UpdateAfter(race), 1)
              /\ NextOK(NextAfter(race)[i], i, nameNext[i], p)
<1>1. NextAfter(race)[1] = [j \in Sub(1) |-> Empty(0)]
  <2>1. 1 \in Levels /\ ~(L > 1 /\ 1 = L)
    BY LevelFacts
  <2> QED BY <2>1 DEF NextAfter
<1>2. ASSUME NEW i \in 2 .. L
      PROVE  \E p \in 0 .. Leaves(i) :
               /\ p >= LeafOf(c, i) + NextDone(i, UpdateAfter(race), 1)
               /\ NextOK(NextAfter(race)[i], i, nameNext[i], p)
  <2> DEFINE q == LeafOf(c, i)
             m == Leaves(i)
             d == NextDone(i, update, 0)
             e == NextDone(i, UpdateAfter(race), 1)
             stepped == i = L \/ (AsksParent(race) /\ i = Worker /\ update[i] = UpdateNext)
  <2>1. i \in Levels /\ i > 1 /\ L > 1
    BY LevelFacts
  <2>2. q \in Nat /\ m \in Nat /\ q < m
    BY <2>1, LeafFacts
  <2>3. PICK p \in 0 .. m : p >= q + d /\ NextOK(next[i], i, nameNext[i], p)
    OBVIOUS
  <2>4. d \in {0, 1} /\ e \in {0, 1}
    BY DEF NextDone
  <2>5. NextAfter(race)[i] = IF stepped THEN StepNext(i) ELSE next[i]
    BY <2>1 DEF NextAfter
  <2>6. ~stepped => d >= e
    <3> HAVE ~stepped
    <3>1. i \in 1 .. L - 1 /\ i # L
      BY <2>1, LevelFacts
    <3>2. \/ UpdateAfter(race)[i] = update[i]
          \/ update[i] = UpdateParent
          \/ AsksParent(race) /\ i = Worker
      BY <3>1, UpdateAfterFacts
    <3>3. update[i] = UpdateNext => UpdateAfter(race)[i] = UpdateNext
      BY <3>2 DEF UpdateNext, UpdateParent
    <3> QED BY <3>1, <3>3 DEF NextDone
  <2> HIDE DEF q, m, d, e
  <2>7. CASE stepped
    <3> DEFINE r == IF p = m THEN p ELSE p + 1
    <3>1. NextOK(StepNext(i), i, nameNext[i], r)
      BY <2>1, <2>3, StepNextFacts DEF m
    <3>2. r \in 0 .. m /\ r >= q + e
      BY <2>2, <2>3, <2>4
    <3> QED BY <2>5, <2>7, <3>1, <3>2 DEF q, m, e
  <2>8. CASE ~stepped
    <3>1. p >= q + e
      BY <2>2, <2>3, <2>4, <2>6, <2>8
    <3> QED BY <2>3, <2>5, <2>8, <3>1 DEF q, m, e
  <2> QED BY <2>7, <2>8
<1> QED BY <1>1, <1>2

\* The work of one signature is enough for the next one.
LEMMA WorkDone ==
  ASSUME NEW c \in 0 .. MaxCount, NEW race \in Races, At(c)
  PROVE  ProgressOK(c, name, nameNext, UpdateAfter(race), BuildingAfter(race), NextAfter(race), 1)
<1>1. L \in Levels /\ c \in Nat
  BY LevelFacts, LeafFacts
<1>2. current[L] = IndexAt(c, L)
  BY <1>1 DEF At, PathsOK
<1>3. \A i \in Levels : name[i] \in Seq(Int)
  BY <1>1, NameFacts DEF At, PathsOK
<1>4. \A i \in Levels : nameNext[i] \in Seq(Int)
  BY DEF At, PathsOK, NextNames
<1>5. ProgressOK(c, name, nameNext, update, building, next, 0)
  BY DEF At
<1>6. /\ UpdateOK(UpdateAfter(race))
      /\ \A i \in 1 .. L - 1 : Asked(i, UpdateAfter(race), c, 1)
  BY <1>2, <1>5, WorkUpdates DEF ProgressOK
<1>7. \A i \in Levels : \A j \in Sub(i) :
        BuildingOK(BuildingAfter(race)[i][j], i, j, name[i], LeafOf(c, i),
                   BuildDone(i, j, UpdateAfter(race), 1))
  BY <1>2, <1>3, <1>5, WorkBuilding DEF ProgressOK
<1>8. /\ NextAfter(race)[1] = [j \in Sub(1) |-> Empty(0)]
      /\ \A i \in 2 .. L : \E p \in 0 .. Leaves(i) :
           /\ p >= LeafOf(c, i) + NextDone(i, UpdateAfter(race), 1)
           /\ NextOK(NextAfter(race)[i], i, nameNext[i], p)
  BY <1>4, <1>5, WorkNext DEF ProgressOK
<1> QED BY <1>6, <1>7, <1>8 DEF ProgressOK

-----------------------------------------------------------------------------
(* The switch of what is used up. *)

\* A tree whose leaf changes has done all that it was asked to: the tree below has
\* asked it often enough.
LEMMA Finished ==
  ASSUME EnoughUpdates, NEW c \in 0 .. MaxCount, NEW u, UpdateOK(u),
         \A i \in 1 .. L - 1 : Asked(i, u, c, 1)
  PROVE  \A i \in 1 .. L - 1 : Advances(c, i) => u[i] >= Sublevels(i) + 1 /\ u[i] \in Nat
<1> DEFINE Good(i) == Advances(c, i) => u[i] >= Sublevels(i) + 1
           T == {n \in 0 .. L - 2 : Good(L - 1 - n)}
<1>1. L \in Nat
  BY LevelFacts
<1>2. ASSUME NEW i \in 1 .. L - 1
      PROVE  u[i] \in Nat /\ Sublevels(i) \in 1 .. 25
  <2>1. Sublevels(i) \in 1 .. 25
    BY LevelFacts, SublevelsFacts
  <2>2. u[i] \in (0 .. Sublevels(i) + 1) \cup {255}
    BY DEF UpdateOK, UpdateDone
  <2> QED BY <2>1, <2>2
<1>3. ASSUME NEW i \in 1 .. L - 1, Advances(c, i)
      PROVE  /\ LeafOf(c, i + 1) + 1 = Leaves(i + 1)
             /\ Leaves(i + 1) \in Nat
             /\ UpdatesGenerated(i + 1) >= Sublevels(i) + 1
             /\ UpdatesGenerated(i + 1) \in Nat /\ UpdatesGenerated(i + 1) <= Leaves(i + 1)
             /\ i + 1 # L => Advances(c, i + 1)
  <2>1. i + 1 \in 2 .. L /\ i + 1 \in Levels /\ (i + 1) - 1 = i
    BY LevelFacts
  <2>2. Exhausted(i + 1, c + 1) /\ Advances(c, i + 1)
    BY <1>3, <2>1, ExhaustedBelow
  <2>3. LeafOf(c, i + 1) = MaxIndex(i + 1)
    BY <2>1, <2>2, Odometer
  <2>4. Leaves(i + 1) \in Nat /\ MaxIndex(i + 1) = Leaves(i + 1) - 1
    BY <2>1, LeafFacts
  <2>5. UpdatesGenerated(i + 1) >= UpdatesRequired(i)
    BY <2>1, ShapeAssumption
  <2> QED BY <2>1, <2>2, <2>3, <2>4, <2>5, GeneratedFacts DEF UpdatesRequired
<1>4. ASSUME L > 1 PROVE Good(L - 1)
  <2> DEFINE i == L - 1
             m == Leaves(L)
  <2>1. i \in 1 .. L - 1 /\ i + 1 = L /\ L \in Levels
    BY <1>1, <1>4, LevelFacts
  <2> SUFFICES ASSUME Advances(c, i) PROVE u[i] >= Sublevels(i) + 1
    OBVIOUS
  <2>2. /\ LeafOf(c, L) + 1 = m /\ m \in Nat
        /\ UpdatesGenerated(L) >= Sublevels(i) + 1 /\ UpdatesGenerated(L) \in Nat
    BY <1>3, <2>1
  <2>3. u[i] = 255 \/ u[i] >= LeafOf(c, L) + 1 - Threshold
    BY <2>1 DEF Asked, UpdateDone
  <2>4. LeafOf(c, L) \in Nat
    BY <2>1, LeafFacts
  <2>5. Sublevels(L) \in 1 .. 25
    BY <2>1, SublevelsFacts
  <2>6. m - Threshold >= Sublevels(i) + 1 /\ Threshold \in Int
    <3>1. CASE Sublevels(L) = 1
      <4>1. Threshold = 0 /\ UpdatesGenerated(L) = m
        BY <2>1, <3>1, GeneratedFacts DEF Threshold
      <4> QED BY <2>2, <4>1
    <3>2. CASE Sublevels(L) # 1
      <4>1. Threshold = m - Size(L, 1) + (IF 0 \in Races THEN 1 ELSE 0)
        BY <3>2 DEF Threshold
      <4>2. UpdatesGenerated(L) = Size(L, 1)
        BY <2>1, <3>2, GeneratedFacts
      <4>3. 0 \in Races => UpdatesGenerated(L) > Sublevels(i) + 1
        BY <1>4, <2>5, <3>2 DEF EnoughUpdates, UpdatesRequired
      <4>4. Sublevels(i) \in Nat
        BY <1>2, <2>1
      <4> QED BY <2>2, <4>1, <4>2, <4>3, <4>4
    <3> QED BY <3>1, <3>2
  <2>7. u[i] \in Nat /\ Sublevels(i) \in 1 .. 25
    BY <1>2, <2>1
  <2> HIDE DEF i, m
  <2> QED BY <2>2, <2>3, <2>4, <2>6, <2>7
<1>5. ASSUME NEW i \in 1 .. L - 1, i # L - 1, Good(i + 1) PROVE Good(i)
  <2> SUFFICES ASSUME Advances(c, i) PROVE u[i] >= Sublevels(i) + 1
    OBVIOUS
  <2>1. i + 1 \in 1 .. L - 1 /\ i + 1 # L
    BY <1>1, <1>5
  <2>2. /\ LeafOf(c, i + 1) + 1 = Leaves(i + 1) /\ Leaves(i + 1) \in Nat
        /\ UpdatesGenerated(i + 1) >= Sublevels(i) + 1
        /\ UpdatesGenerated(i + 1) \in Nat /\ UpdatesGenerated(i + 1) <= Leaves(i + 1)
        /\ Advances(c, i + 1)
    BY <1>3, <2>1
  <2>3. u[i] = 255 \/ u[i] >= LeafOf(c, i + 1) + (IF u[i + 1] >= 2 THEN 1 ELSE 0)
    BY <1>5 DEF Asked, UpdateDone, UpdateBuilding
  <2>4. u[i + 1] >= 2
    BY <1>2, <1>5, <2>1, <2>2
  <2>5. LeafOf(c, i + 1) \in Nat
    BY <2>1, LeafFacts, LevelFacts
  <2>6. u[i] \in Nat /\ Sublevels(i) \in 1 .. 25
    BY <1>2
  <2> QED BY <2>2, <2>3, <2>4, <2>5, <2>6
<1>6. ASSUME L > 1 PROVE \A n \in 0 .. L - 2 : n \in T
  <2>1. 0 \in T
    BY <1>1, <1>4, <1>6
  <2>2. \A n \in 0 .. L - 2 - 1 : n \in T => n + 1 \in T
    <3> TAKE n \in 0 .. L - 2 - 1
    <3> HAVE n \in T
    <3> DEFINE i == L - 1 - (n + 1)
    <3>1. i \in 1 .. L - 1 /\ i # L - 1 /\ i + 1 = L - 1 - n /\ n + 1 \in 0 .. L - 2
      BY <1>1
    <3>2. Good(i + 1)
      <4> HIDE DEF Good, i
      <4> QED BY <3>1
    <3>3. Good(i)
      <4> HIDE DEF Good, i
      <4> QED BY <1>5, <3>1, <3>2 DEF Good
    <3> HIDE DEF Good
    <3> QED BY <3>1, <3>3
  <2>3. L - 2 \in Nat
    BY <1>1, <1>6
  <2> HIDE DEF T
  <2> QED BY <2>1, <2>2, <2>3, InductionUpTo
<1> TAKE i \in 1 .. L - 1
<1> HAVE Advances(c, i)
<1>7. L - 1 - i \in 0 .. L - 2 /\ L - 1 - (L - 1 - i) = i /\ L > 1
  BY <1>1
<1>8. Good(i)
  <2> HIDE DEF Good
  <2> QED BY <1>6, <1>7
<1> QED BY <1>2, <1>8

\* The levels whose tree is used up, and their subtrees that the path leaves.
Switched(i, d) == i \in 2 .. L /\ Exhausted(i, d)
Moved(i, j, d) ==
  ~Exhausted(i, d) /\ (i < L => Exhausted(i + 1, d)) /\ LeavesSubtree(i, j, d)

\* From one sequence number to the next: the leaf of a tree stays, moves on by one,
\* or is the first of another tree.
LEMMA Turn ==
  ASSUME NEW c \in 0 .. MaxCount, c # MaxCount, NEW i \in Levels
  PROVE  /\ LeafOf(c + 1, i) \in 0 .. MaxIndex(i)
         /\ Switched(i, c + 1) <=> Exhausted(i, c + 1)
         /\ Exhausted(i, c + 1) =>
              Advances(c, i) /\ LeafOf(c, i) = MaxIndex(i) /\ LeafOf(c + 1, i) = 0
         /\ Advances(c, i) /\ ~Exhausted(i, c + 1) =>
              LeafOf(c + 1, i) = LeafOf(c, i) + 1 /\ LeafOf(c, i) # MaxIndex(i)
         /\ ~Advances(c, i) => LeafOf(c + 1, i) = LeafOf(c, i)
         /\ i # 1 => (Exhausted(i, c + 1) <=> Advances(c, i - 1))
         /\ i # L => (Exhausted(i + 1, c + 1) <=> Advances(c, i))
         /\ i = L => Advances(c, i)
         /\ \A j \in Sub(i) :
              Moved(i, j, c + 1) <=> /\ Advances(c, i) /\ ~Exhausted(i, c + 1) /\ j > 0
                                     /\ LeafOf(c + 1, i) % Size(i, j) = 0
<1>1. c + 1 \in Nat
  BY LeafFacts
<1>2. LeafOf(c + 1, i) \in 0 .. MaxIndex(i)
  BY <1>1, LeafOfType
<1>3. /\ Exhausted(i, c + 1) <=> Advances(c, i) /\ LeafOf(c, i) = MaxIndex(i)
      /\ ~Advances(c, i) => LeafOf(c + 1, i) = LeafOf(c, i)
      /\ Advances(c, i) /\ ~Exhausted(i, c + 1) => LeafOf(c + 1, i) = LeafOf(c, i) + 1
      /\ Exhausted(i, c + 1) => LeafOf(c + 1, i) = 0
      /\ \A j \in Sub(i) : Advances(c, i) =>
           (LeavesSubtree(i, j, c + 1) <=> j > 0 /\ LeafOf(c + 1, i) % Size(i, j) = 0)
  BY Odometer
<1>4. i # 1 => i \in 2 .. L
  BY LevelFacts
<1>5. i # 1 => (Exhausted(i, c + 1) <=> Advances(c, i - 1))
  BY <1>4, ExhaustedBelow
<1>6. i # L => (Exhausted(i + 1, c + 1) <=> Advances(c, i))
  <2> HAVE i # L
  <2>1. i + 1 \in 2 .. L /\ (i + 1) - 1 = i
    BY LevelFacts
  <2> QED BY <2>1, ExhaustedBelow
<1>7. i = L => Advances(c, i)
  BY ExhaustedBelow
<1>8. ~Exhausted(1, c + 1)
  BY ExhaustedBelow
<1>9. Switched(i, c + 1) <=> Exhausted(i, c + 1)
  BY <1>4, <1>8 DEF Switched
<1>10. (i < L => Exhausted(i + 1, c + 1)) <=> Advances(c, i)
  <2>1. i < L <=> i # L
    BY LevelFacts
  <2> QED BY <1>6, <1>7, <2>1
<1>11. \A j \in Sub(i) :
         Moved(i, j, c + 1) <=> /\ Advances(c, i) /\ ~Exhausted(i, c + 1) /\ j > 0
                                /\ LeafOf(c + 1, i) % Size(i, j) = 0
  BY <1>3, <1>10 DEF Moved
<1> QED BY <1>2, <1>3, <1>5, <1>6, <1>7, <1>9, <1>11

\* The index of a level once it has been reset.
Index(i, d) == IF Switched(i, d) THEN 0 ELSE current[i]

\* The ACTIVE and BUILDING subtrees of a level once the switches are made.
ActiveAfter(race, i, d) ==
  [j \in Sub(i) |-> IF Switched(i, d) THEN [NextAfter(race)[i][j] EXCEPT !.left = 0]
                    ELSE IF Moved(i, j, d) THEN BuildingAfter(race)[i][j] ELSE active[i][j]]
RebuildingAfter(race, i, d) ==
  [j \in Sub(i) |-> IF Switched(i, d) THEN Empty(IF j > 0 THEN Size(i, j) ELSE 0)
                    ELSE IF Moved(i, j, d) THEN Rebuilding(i, j) ELSE BuildingAfter(race)[i][j]]

\* hss_generate_signature, level by level.
LEMMA SignFacts ==
  ASSUME NEW race, NEW c, Count = c, Sign(race)
  PROVE  LET d == c + 1 IN
         /\ status = "none"
         /\ sig' = Signature
         /\ status' = IF Exhausted(1, d) THEN "expired" ELSE status
         /\ name' = [i \in Levels |-> IF Switched(i, d) THEN nameNext[i] ELSE name[i]]
         /\ active' = [i \in Levels |-> ActiveAfter(race, i, d)]
         /\ building' = [i \in Levels |-> RebuildingAfter(race, i, d)]
         /\ next' = [i \in Levels |-> IF Switched(i, d) THEN Blank[i] ELSE NextAfter(race)[i]]
         /\ signedPk' = [i \in 2 .. L |->
                           IF Switched(i, d) THEN SignedKey(active', name', i, Index(i - 1, d))
                           ELSE signedPk[i]]
         /\ current' = [i \in Levels |->
                          IF i = L THEN IF Switched(i, d) THEN 0 ELSE current[i] + 1
                          ELSE IF Switched(i + 1, d) THEN Index(i, d) + 1 ELSE current[i]]
         /\ update' = [i \in 1 .. L - 1 |->
                         IF Switched(i + 1, d) THEN UpdateNext ELSE UpdateAfter(race)[i]]
<1> DEFINE d == c + 1
           switched == {i \in 2 .. L : Exhausted(i, Count + 1)}
<1>1. \A i : i \in switched <=> Switched(i, d)
  BY DEF Switched
<1> HIDE DEF switched
<1>2. \A i, j : Moved(i, j, d) <=> ~Exhausted(i, Count + 1) /\ (i < L => Exhausted(i + 1, Count + 1))
                                   /\ LeavesSubtree(i, j, Count + 1)
  BY DEF Moved
<1>3. status = "none" /\ sig' = Signature /\ status' = IF Exhausted(1, d) THEN "expired" ELSE status
  BY DEF Sign
<1>4. name' = [i \in Levels |-> IF Switched(i, d) THEN nameNext[i] ELSE name[i]]
  <2>1. name' = [i \in Levels |-> IF i \in switched THEN nameNext[i] ELSE name[i]]
    BY Zenon DEF Sign, switched
  <2> QED BY <1>1, <2>1
<1>5. active' = [i \in Levels |-> ActiveAfter(race, i, d)]
  BY <1>1, <1>2 DEF Sign, switched, NextAfter, BuildingAfter, Grown, ActiveAfter
<1>6. building' = [i \in Levels |-> RebuildingAfter(race, i, d)]
  BY <1>1, <1>2 DEF Sign, switched, BuildingAfter, Grown, RebuildingAfter
<1>7. next' = [i \in Levels |-> IF Switched(i, d) THEN Blank[i] ELSE NextAfter(race)[i]]
  BY <1>1 DEF Sign, switched, NextAfter
<1>8. signedPk' = [i \in 2 .. L |->
                     IF Switched(i, d) THEN SignedKey(active', name', i, Index(i - 1, d))
                     ELSE signedPk[i]]
  BY <1>1 DEF Sign, switched, Index
<1>9. current' = [i \in Levels |->
                    IF i = L THEN IF Switched(i, d) THEN 0 ELSE current[i] + 1
                    ELSE IF Switched(i + 1, d) THEN Index(i, d) + 1 ELSE current[i]]
  BY <1>1 DEF Sign, switched, Index
<1>10. update' = [i \in 1 .. L - 1 |->
                    IF Switched(i + 1, d) THEN UpdateNext ELSE UpdateAfter(race)[i]]
  BY <1>1 DEF Sign, switched, UpdateAfter
<1> QED BY <1>3, <1>4, <1>5, <1>6, <1>7, <1>8, <1>9, <1>10

\* The names move on with the leaves: a used up tree takes the names that it had in
\* advance, and they are those of the next sequence number.
LEMMA SignNames ==
  ASSUME NEW c \in 0 .. MaxCount, c # MaxCount, NEW race, Count = c, Sign(race),
         PathsOK(c, current, name, nameNext, signedPk, active)
  PROVE  /\ name' = [i \in Levels |-> TreeName(c + 1, i)]
         /\ \A i \in 1 .. L - 1 : Switched(i + 1, c + 1) => Index(i, c + 1) = LeafOf(c + 1, i)
         /\ NextNames(nameNext', name', c + 1)
         /\ \A i \in 2 .. L : ~Switched(i, c + 1) =>
              /\ name'[i] = name[i] /\ name'[i - 1] = name[i - 1]
              /\ LeafOf(c + 1, i - 1) = LeafOf(c, i - 1)
              /\ nameNext'[i] = nameNext[i]
<1> DEFINE d == c + 1
           V == Seq(Int)
<1>1. d \in Nat /\ c \in Nat
  BY LeafFacts
<1>2. name' = [i \in Levels |-> IF Switched(i, d) THEN nameNext[i] ELSE name[i]]
  BY SignFacts
<1>3. \A i \in Levels : name[i] = TreeName(c, i) /\ name[i] \in V /\ nameNext[i] \in V
  BY <1>1, NameFacts DEF PathsOK, NextNames
<1>4. \A i \in 2 .. L : name[i] = Child(name[i - 1], LeafOf(c, i - 1))
  BY <1>1, <1>3, NameFacts, LevelFacts
<1>5. \A i \in 2 .. L :
        nameNext[i] = ChildAfter(name[i - 1], nameNext[i - 1], LeafOf(c, i - 1), MaxIndex(i - 1))
  BY DEF PathsOK, NextNames
<1>6. ~Switched(1, d) /\ name'[1] = name[1] /\ name[1] = <<>>
  BY <1>1, <1>2, <1>3, NameFacts, LevelFacts DEF Switched
\* The tree of level i, among those of level i - 1.
<1>7. ASSUME NEW i \in 2 .. L
      PROVE  /\ name'[i] = Child(name'[i - 1], LeafOf(d, i - 1))
             /\ ~Switched(i, d) => name'[i - 1] = name[i - 1] /\ LeafOf(d, i - 1) = LeafOf(c, i - 1)
                                   /\ ~Switched(i - 1, d)
             /\ Switched(i, d) => Index(i - 1, d) = LeafOf(d, i - 1)
  <2> DEFINE k == i - 1
  <2>1. k \in Levels /\ i \in Levels /\ i # 1 /\ k # L
    BY LevelFacts
  <2>2. /\ Switched(k, d) <=> Exhausted(k, d)
        /\ Exhausted(k, d) => Advances(c, k) /\ LeafOf(c, k) = MaxIndex(k) /\ LeafOf(d, k) = 0
        /\ Advances(c, k) /\ ~Exhausted(k, d) =>
             LeafOf(d, k) = LeafOf(c, k) + 1 /\ LeafOf(c, k) # MaxIndex(k)
        /\ ~Advances(c, k) => LeafOf(d, k) = LeafOf(c, k)
    BY <2>1, Turn
  <2>3. Switched(i, d) <=> Advances(c, k)
    BY <2>1, Turn
  <2>4. /\ name'[k] = IF Switched(k, d) THEN nameNext[k] ELSE name[k]
        /\ name'[i] = IF Switched(i, d) THEN nameNext[i] ELSE name[i]
    BY <1>2, <2>1
  <2>5. nameNext[i] = IF LeafOf(c, k) = MaxIndex(k) THEN Child(nameNext[k], 0)
                      ELSE Child(name[k], LeafOf(c, k) + 1)
    BY <1>5 DEF ChildAfter
  <2>6. name[i] = Child(name[k], LeafOf(c, k))
    BY <1>4
  <2>7. current[k] = LeafOf(c, k) + 1
    BY <2>1 DEF PathsOK, IndexAt
  <2>8. Switched(i, d) => Index(k, d) = LeafOf(d, k)
    BY <2>2, <2>3, <2>7 DEF Index
  <2> HIDE DEF k, d
  <2>9. name'[i] = Child(name'[k], LeafOf(d, k))
    BY <2>2, <2>3, <2>4, <2>5, <2>6
  <2>10. ~Switched(i, d) => name'[k] = name[k] /\ LeafOf(d, k) = LeafOf(c, k) /\ ~Switched(k, d)
    BY <2>2, <2>3, <2>4
  <2> QED BY <2>8, <2>9, <2>10 DEF k
<1>8. name' = [i \in Levels |-> TreeName(d, i)]
  <2> DEFINE t == [i \in Levels |-> TreeName(d, i)]
  <2>1. name'[1] = t[1]
    BY <1>1, <1>6, NameFacts, LevelFacts
  <2>2. \A i \in 2 .. L : name'[i - 1] = t[i - 1] => name'[i] = t[i]
    <3> TAKE i \in 2 .. L
    <3>1. t[i] = Child(t[i - 1], LeafOf(d, i - 1))
      BY <1>1, NameFacts, LevelFacts
    <3> QED BY <1>7, <3>1
  <2>3. \A i \in Levels : name'[i] = t[i]
    <3> HIDE DEF t
    <3>1. DefinedAlike(name', t)
      BY <2>1, <2>2 DEF DefinedAlike
    <3> QED BY <3>1, RootDownUnique
  <2> QED BY <1>2, <2>3
<1>9. \A i \in Levels : name'[i] \in V
  BY <1>1, <1>8, NameFacts
<1> DEFINE Step(i, v) == IF ~Switched(i, d) THEN nameNext[i]
                         ELSE ChildAfter(name'[i - 1], v, Index(i - 1, d), MaxIndex(i - 1))
           F == [n \in 1 .. L - 1 |-> [v \in V |-> Step(n + 1, v)]]
           Equation(f) == f = [i \in Levels |-> Step(i, f[i - 1])]
<1>10. nameNext' = CHOOSE f : Equation(f)
  <2>1. nameNext' = CHOOSE f : f = [i \in Levels |->
           IF i \notin {k \in 2 .. L : Exhausted(k, Count + 1)} THEN nameNext[i]
           ELSE ChildAfter(name'[i - 1], f[i - 1],
                           IF i - 1 \in {k \in 2 .. L : Exhausted(k, Count + 1)}
                           THEN 0 ELSE current[i - 1],
                           MaxIndex(i - 1))]
    BY Zenon DEF Sign
  <2>2. \A i : i \in {k \in 2 .. L : Exhausted(k, Count + 1)} <=> Switched(i, d)
    BY DEF Switched
  <2> DEFINE switched == {k \in 2 .. L : Exhausted(k, Count + 1)}
             Rule(f) == [i \in Levels |->
                        IF i \notin switched THEN nameNext[i]
                        ELSE ChildAfter(name'[i - 1], f[i - 1],
                                        IF i - 1 \in switched THEN 0 ELSE current[i - 1],
                                        MaxIndex(i - 1))]
  <2>3. ASSUME NEW f PROVE Rule(f) = [i \in Levels |-> Step(i, f[i - 1])]
    <3>1. ASSUME NEW i \in Levels
          PROVE  (IF i \notin switched THEN nameNext[i]
                  ELSE ChildAfter(name'[i - 1], f[i - 1],
                                  IF i - 1 \in switched THEN 0 ELSE current[i - 1],
                                  MaxIndex(i - 1))) = Step(i, f[i - 1])
      <4>1. Index(i - 1, d) = IF i - 1 \in switched THEN 0 ELSE current[i - 1]
        <5> HIDE DEF switched
        <5> QED BY <2>2 DEF Index, switched
      <4> HIDE DEF switched
      <4> QED BY <2>2, <4>1 DEF switched
    <3> HIDE DEF switched, Step
    <3> QED BY <3>1
  <2>4. \A f : f = Rule(f) <=> Equation(f)
    <3> HIDE DEF Rule, Step
    <3> QED BY <2>3
  <2>5. nameNext' = CHOOSE f : f = Rule(f)
    BY <2>1, Zenon
  <2> HIDE DEF Rule, Equation
  <2> QED BY <2>4, <2>5
<1>11. \A i \in 2 .. L : \A v \in V : Step(i, v) \in V
  <2> TAKE i \in 2 .. L
  <2> TAKE v \in V
  <2>1. i - 1 \in Levels /\ i \in Levels
    BY LevelFacts
  <2>2. Switched(i, d) => Index(i - 1, d) \in Int
    BY <1>1, <1>7, <2>1, LeafOfType, LeavesFacts
  <2>3. name'[i - 1] \in V /\ nameNext[i] \in V
    BY <1>3, <1>9, <2>1
  <2> QED BY <2>2, <2>3, ChildAfterType
<1>12. NoTree \in V /\ nameNext[1] = NoTree
  BY DEF NoTree, PathsOK, NextNames
<1>13. F \in Steps(L - 1, V)
  <2>1. \A n \in 1 .. L - 1 : n + 1 \in 2 .. L
    BY LevelFacts
  <2> HIDE DEF Step, V
  <2> QED BY <1>11, <2>1 DEF Steps
<1>14. PICK g \in [Levels -> V] :
         g[1] = NoTree /\ \A i \in 2 .. L : g[i] = F[i - 1][g[i - 1]]
  <2> HIDE DEF F, V
  <2> QED BY <1>12, <1>13, RootDown
<1>15. \A i \in 2 .. L : g[i] = Step(i, g[i - 1])
  <2> TAKE i \in 2 .. L
  <2>1. i - 1 \in 1 .. L - 1 /\ i - 1 \in Levels /\ (i - 1) + 1 = i
    BY LevelFacts
  <2> HIDE DEF Step, V
  <2> QED BY <1>14, <2>1
<1>16. Equation(g)
  <2>1. ASSUME NEW i \in Levels PROVE g[i] = Step(i, g[i - 1])
    <3>1. CASE i = 1
      BY <1>6, <1>12, <1>14, <3>1
    <3>2. CASE i # 1
      <4>1. i \in 2 .. L
        BY <3>2, LevelFacts
      <4> HIDE DEF Step
      <4> QED BY <1>15, <4>1
    <3> QED BY <3>1, <3>2
  <2>2. g = [i \in Levels |-> g[i]]
    OBVIOUS
  <2> HIDE DEF Step
  <2> QED BY <2>1, <2>2, Zenon
<1>17. Equation(nameNext')
  <2> HIDE DEF Equation
  <2> QED BY <1>10, <1>16
<1>18. nameNext' = g
  <2>1. \A i \in Levels : nameNext'[i] = Step(i, nameNext'[i - 1])
    <3> HIDE DEF Step
    <3> QED BY <1>17
  <2>2. \A i \in 2 .. L : i \in Levels
    BY LevelFacts
  <2>3. nameNext'[1] = g[1]
    BY <1>6, <1>12, <1>14, <2>1, LevelFacts
  <2>4. \A i \in 2 .. L : nameNext'[i - 1] = g[i - 1] => nameNext'[i] = g[i]
    <3> HIDE DEF Step
    <3> QED BY <1>15, <2>1, <2>2
  <2>5. \A i \in Levels : nameNext'[i] = g[i]
    <3>1. DefinedAlike(nameNext', g)
      BY <2>3, <2>4 DEF DefinedAlike
    <3> QED BY <3>1, RootDownUnique
  <2>6. nameNext' = [i \in Levels |-> Step(i, nameNext'[i - 1])]
    BY <1>17, Zenon
  <2> HIDE DEF Step
  <2> QED BY <2>5, <2>6
<1> HIDE DEF F
<1>19. ASSUME NEW i \in 2 .. L
       PROVE  nameNext'[i] = ChildAfter(name'[i - 1], nameNext'[i - 1], LeafOf(d, i - 1), MaxIndex(i - 1))
  <2> DEFINE k == i - 1
  <2>1. nameNext'[i] = IF ~Switched(i, d) THEN nameNext[i]
                       ELSE ChildAfter(name'[k], nameNext'[k], Index(k, d), MaxIndex(k))
    BY <1>15, <1>18
  <2>2. k \in Levels /\ (k # 1 => k \in 2 .. L) /\ (k # 1 => k \in Nat)
    BY LevelFacts
  <2>3. CASE Switched(i, d)
    BY <1>7, <2>1, <2>3
  <2>4. CASE ~Switched(i, d)
    <3>1. name'[k] = name[k] /\ LeafOf(d, k) = LeafOf(c, k) /\ ~Switched(k, d)
      BY <1>7, <2>4
    <3>2. nameNext'[k] = nameNext[k]
      <4>1. CASE k = 1
        BY <1>12, <1>14, <1>18, <4>1
      <4>2. CASE k # 1
        <5>1. nameNext'[k] = Step(k, g[k - 1])
          BY <1>15, <1>18, <2>2, <4>2, Zenon
        <5> QED BY <3>1, <5>1
      <4> QED BY <4>1, <4>2
    <3>3. nameNext[i] = ChildAfter(name[k], nameNext[k], LeafOf(c, k), MaxIndex(k))
      BY <1>5
    <3> HIDE DEF k
    <3>4. nameNext'[i] = ChildAfter(name'[k], nameNext'[k], LeafOf(d, k), MaxIndex(k))
      BY <2>1, <2>4, <3>1, <3>2, <3>3
    <3> QED BY <3>4 DEF k
  <2> QED BY <2>3, <2>4
<1>20. NextNames(nameNext', name', d)
  <2> HIDE DEF d
  <2> QED BY <1>14, <1>18, <1>19 DEF NextNames
<1>21. \A i \in 1 .. L - 1 : Switched(i + 1, d) => Index(i, d) = LeafOf(d, i)
  <2> TAKE i \in 1 .. L - 1
  <2>1. i + 1 \in 2 .. L /\ (i + 1) - 1 = i
    BY LevelFacts
  <2> HIDE DEF d
  <2> QED BY <1>7, <2>1
<1>22. ASSUME NEW i \in 2 .. L, ~Switched(i, d)
       PROVE  /\ name'[i] = name[i] /\ name'[i - 1] = name[i - 1]
              /\ LeafOf(d, i - 1) = LeafOf(c, i - 1)
              /\ nameNext'[i] = nameNext[i]
  <2>1. i \in Levels
    BY LevelFacts
  <2>2. nameNext'[i] = Step(i, g[i - 1])
    BY <1>15, <1>18, Zenon
  <2> QED BY <1>2, <1>7, <1>22, <2>1, <2>2
<1> QED BY <1>8, <1>20, <1>21, <1>22

\* Where the leaf changes, all the work for it has been done.
LEMMA AdvanceDone ==
  ASSUME EnoughUpdates, NEW c \in 0 .. MaxCount, NEW names, NEW nexts, NEW u, NEW b, NEW x,
         ProgressOK(c, names, nexts, u, b, x, 1), NEW i \in Levels, Advances(c, i)
  PROVE  /\ \A j \in Sub(i) : BuildDone(i, j, u, 1) = 1
         /\ NextDone(i, u, 1) = 1
<1>1. CASE i = L
  BY <1>1 DEF BuildDone, NextDone
<1>2. CASE i # L
  <2>1. i \in 1 .. L - 1
    BY <1>2, LevelFacts
  <2>2. u[i] >= Sublevels(i) + 1 /\ u[i] \in Nat
    BY <2>1, Finished DEF ProgressOK
  <2>3. Sublevels(i) \in 1 .. 25
    BY SublevelsFacts
  <2>4. u[i] # UpdateNext
    BY <2>2, <2>3 DEF UpdateNext
  <2>5. \A j \in Sub(i) : u[i] >= j + UpdateBuilding
    <3> TAKE j \in Sub(i)
    <3>1. j \in Nat /\ j <= Sublevels(i) - 1
      BY SubFacts
    <3> QED BY <2>2, <2>3, <3>1 DEF UpdateBuilding
  <2> QED BY <1>2, <2>4, <2>5 DEF BuildDone, NextDone
<1> QED BY <1>1, <1>2

\* A BUILDING subtree is complete when the path moves into it.
LEMMA BuildingComplete ==
  ASSUME NEW i \in Levels, NEW j \in Sub(i), NEW id, NEW q \in 0 .. MaxIndex(i), q # MaxIndex(i),
         (q + 1) % Size(i, j) = 0, NEW b, BuildingOK(b, i, j, id, q, 1)
  PROVE  /\ b \in Subtrees
         /\ b.left = Aligned(i, j, q + 1)
         /\ Complete(b, i, j, id, Aligned(i, j, q + 1))
<1> DEFINE n == Size(i, j)
           A == Aligned(i, j, q)
           B == Aligned(i, j, q + 1)
           m == Leaves(i)
           r == q % n
<1>1. m \in Nat /\ MaxIndex(i) = m - 1 /\ n \in Nat /\ n >= 2
  BY LeavesFacts, SizeFacts
<1>2. q \in 0 .. MaxIndex(i) - 1 /\ q + 1 \in 0 .. MaxIndex(i)
  BY <1>1
<1>3. B = A + n /\ r = n - 1
  BY <1>2, AlignedNext
<1>4. B <= q + 1 /\ B \in Nat
  BY <1>2, AlignedFacts
<1>5. A + n < m
  BY <1>1, <1>2, <1>3, <1>4
<1>6. b \in Subtrees /\ b.index <= n /\ b.left = A + n /\ Filled(b, id)
      /\ (b.index = n \/ b.index >= r + 1)
  BY <1>5 DEF BuildingOK
<1> HIDE DEF n, A, B, r
<1>7. b.index = n
  <2>1. b.index \in Nat
    BY <1>6 DEF Subtrees
  <2> QED BY <1>1, <1>3, <1>6, <2>1
<1>8. b.of = id /\ b.from = B /\ b.have = n
  BY <1>1, <1>3, <1>6, <1>7 DEF Filled
<1> QED BY <1>3, <1>6, <1>8 DEF Complete, n, B

\* NEXT_TREE is complete when its turn comes.
LEMMA NextComplete ==
  ASSUME NEW i \in Levels, NEW id, NEW x, NEW p \in 0 .. Leaves(i), p >= MaxIndex(i) + 1,
         NextOK(x, i, id, p), NEW j \in Sub(i)
  PROVE  /\ [x[j] EXCEPT !.left = 0] \in Subtrees
         /\ [x[j] EXCEPT !.left = 0].left = Aligned(i, j, 0)
         /\ Complete([x[j] EXCEPT !.left = 0], i, j, id, Aligned(i, j, 0))
<1>1. p >= Size(i, j)
  <2>1. MaxIndex(i) = Leaves(i) - 1 /\ Leaves(i) \in Nat /\ Size(i, j) \in Nat /\ Size(i, j) <= Leaves(i)
    BY LeavesFacts, SizeFacts
  <2> QED BY <2>1
<1>2. x[j] \in Subtrees /\ Complete(x[j], i, j, id, 0)
  BY <1>1 DEF NextOK, SubtreeNextOK
<1>3. Aligned(i, j, 0) = 0
  BY AlignedZero
<1> QED BY <1>2, <1>3 DEF Subtrees, Complete

\* The authentication paths after a signature are those of the next one.
LEMMA SignActive ==
  ASSUME EnoughUpdates, NEW c \in 0 .. MaxCount, c # MaxCount, NEW race, Count = c, Sign(race),
         PathsOK(c, current, name, nameNext, signedPk, active),
         ProgressOK(c, name, nameNext, UpdateAfter(race), BuildingAfter(race), NextAfter(race), 1)
  PROVE  \A i \in Levels : ActiveOK(active'[i], i, name'[i], LeafOf(c + 1, i))
<1> TAKE i \in Levels
<1> DEFINE d == c + 1
           q == LeafOf(c, i)
           p == LeafOf(d, i)
           a == active'[i]
           x == NextAfter(race)[i]
           b == BuildingAfter(race)[i]
<1>1. /\ q \in 0 .. MaxIndex(i) /\ q \in Nat /\ p \in 0 .. MaxIndex(i)
      /\ MaxIndex(i) \in Nat /\ MaxIndex(i) = Leaves(i) - 1 /\ Leaves(i) \in Nat
  BY LeafFacts, Turn, LeavesFacts
<1>2. /\ Switched(i, d) <=> Exhausted(i, d)
      /\ Exhausted(i, d) => Advances(c, i) /\ q = MaxIndex(i) /\ p = 0
      /\ Advances(c, i) /\ ~Exhausted(i, d) => p = q + 1 /\ q # MaxIndex(i)
      /\ ~Advances(c, i) => p = q
      /\ \A j \in Sub(i) : Moved(i, j, d) <=> /\ Advances(c, i) /\ ~Exhausted(i, d) /\ j > 0
                                              /\ p % Size(i, j) = 0
  BY Turn
<1>3. /\ a = ActiveAfter(race, i, d)
      /\ \A j \in Sub(i) : a[j] = IF Switched(i, d) THEN [x[j] EXCEPT !.left = 0]
                                  ELSE IF Moved(i, j, d) THEN b[j] ELSE active[i][j]
  <2>1. a = ActiveAfter(race, i, d)
    BY SignFacts
  <2> HIDE DEF a, d
  <2> QED BY <2>1 DEF ActiveAfter
<1>4. name'[i] = IF Switched(i, d) THEN nameNext[i] ELSE name[i]
  BY SignFacts
<1>5. ActiveOK(active[i], i, name[i], q)
  BY DEF PathsOK
<1>6. Advances(c, i) => NextDone(i, UpdateAfter(race), 1) = 1
                        /\ \A j \in Sub(i) : BuildDone(i, j, UpdateAfter(race), 1) = 1
  BY AdvanceDone
<1>7. \A j \in Sub(i) : BuildingOK(b[j], i, j, name[i], q, BuildDone(i, j, UpdateAfter(race), 1))
  BY DEF ProgressOK
<1>8. ASSUME NEW j \in Sub(i)
      PROVE  a[j] \in Subtrees /\ a[j].left = Aligned(i, j, p)
             /\ Complete(a[j], i, j, name'[i], Aligned(i, j, p))
  <2>1. CASE Switched(i, d)
    <3>1. i \in 2 .. L
      BY <2>1 DEF Switched
    <3>2. PICK k \in 0 .. Leaves(i) : k >= q + NextDone(i, UpdateAfter(race), 1)
                                      /\ NextOK(x, i, nameNext[i], k)
      BY <3>1 DEF ProgressOK
    <3>3. k >= MaxIndex(i) + 1
      BY <1>2, <1>6, <2>1, <3>2
    <3>4. a[j] = [x[j] EXCEPT !.left = 0] /\ p = 0 /\ name'[i] = nameNext[i]
      BY <1>2, <1>3, <1>4, <2>1
    <3> HIDE DEF a, x, p
    <3> QED BY <3>2, <3>3, <3>4, NextComplete
  <2>2. CASE ~Switched(i, d) /\ Moved(i, j, d)
    <3>1. Advances(c, i) /\ p = q + 1 /\ q # MaxIndex(i) /\ p % Size(i, j) = 0
      BY <1>2, <2>2
    <3>2. BuildingOK(b[j], i, j, name[i], q, 1)
      BY <1>6, <1>7, <3>1
    <3>3. a[j] = b[j] /\ name'[i] = name[i]
      BY <1>3, <1>4, <2>2
    <3> HIDE DEF a, b, p, q
    <3> QED BY <1>1, <3>1, <3>2, <3>3, BuildingComplete
  <2>3. CASE ~Switched(i, d) /\ ~Moved(i, j, d)
    <3>1. a[j] = active[i][j] /\ name'[i] = name[i]
      BY <1>3, <1>4, <2>3
    <3>2. Aligned(i, j, p) = Aligned(i, j, q)
      <4>1. CASE ~Advances(c, i)
        BY <1>2, <4>1
      <4>2. CASE j = 0
        BY <1>1, <4>2, AlignedZero
      <4>3. CASE Advances(c, i) /\ j # 0
        <5>1. p = q + 1 /\ q # MaxIndex(i) /\ j > 0
          BY <1>2, <2>3, <4>3, SubFacts
        <5>2. p % Size(i, j) # 0
          BY <1>2, <2>3, <4>3, <5>1
        <5>3. q \in 0 .. MaxIndex(i) - 1
          BY <1>1, <5>1
        <5> HIDE DEF p, q
        <5> QED BY <5>1, <5>2, <5>3, AlignedNext
      <4> QED BY <4>1, <4>2, <4>3
    <3>3. active[i][j] \in Subtrees /\ active[i][j].left = Aligned(i, j, q)
          /\ Complete(active[i][j], i, j, name[i], Aligned(i, j, q))
      BY <1>5 DEF ActiveOK, PathOk
    <3> HIDE DEF a, p, q
    <3> QED BY <3>1, <3>2, <3>3
  <2> QED BY <2>1, <2>2, <2>3
<1>9. a \in [Sub(i) -> Subtrees]
  <2>1. a = [j \in Sub(i) |-> a[j]]
    <3> HIDE DEF a, d
    <3> QED BY <1>3 DEF ActiveAfter
  <2> HIDE DEF a
  <2> QED BY <1>8, <2>1
<1> HIDE DEF a, p, d
<1> QED BY <1>8, <1>9 DEF ActiveOK, PathOk, a, p, d

\* The indices, the names and the signed public keys after a signature are those of
\* the next sequence number, too.
LEMMA SignPaths ==
  ASSUME EnoughUpdates, NEW c \in 0 .. MaxCount, c # MaxCount, NEW race, Count = c, Sign(race),
         PathsOK(c, current, name, nameNext, signedPk, active),
         ProgressOK(c, name, nameNext, UpdateAfter(race), BuildingAfter(race), NextAfter(race), 1)
  PROVE  PathsOK(c + 1, current', name', nameNext', signedPk', active')
<1> DEFINE d == c + 1
<1>1. /\ name' = [i \in Levels |-> TreeName(d, i)]
      /\ \A i \in 1 .. L - 1 : Switched(i + 1, d) => Index(i, d) = LeafOf(d, i)
      /\ NextNames(nameNext', name', d)
      /\ \A i \in 2 .. L : ~Switched(i, d) =>
           /\ name'[i] = name[i] /\ name'[i - 1] = name[i - 1]
           /\ LeafOf(d, i - 1) = LeafOf(c, i - 1)
  BY SignNames
<1>2. \A i \in Levels : ActiveOK(active'[i], i, name'[i], LeafOf(d, i))
  BY SignActive
<1>3. current' = [i \in Levels |-> IndexAt(d, i)]
  <2>1. current' = [i \in Levels |->
                      IF i = L THEN IF Switched(i, d) THEN 0 ELSE current[i] + 1
                      ELSE IF Switched(i + 1, d) THEN Index(i, d) + 1 ELSE current[i]]
    BY SignFacts
  <2>2. ASSUME NEW i \in Levels
        PROVE  (IF i = L THEN IF Switched(i, d) THEN 0 ELSE current[i] + 1
                ELSE IF Switched(i + 1, d) THEN Index(i, d) + 1 ELSE current[i]) = IndexAt(d, i)
    <3>1. current[i] = IndexAt(c, i)
      BY DEF PathsOK
    <3>2. /\ Switched(i, d) <=> Exhausted(i, d)
          /\ Exhausted(i, d) => LeafOf(d, i) = 0
          /\ Advances(c, i) /\ ~Exhausted(i, d) => LeafOf(d, i) = LeafOf(c, i) + 1
          /\ ~Advances(c, i) => LeafOf(d, i) = LeafOf(c, i)
          /\ i # L => (Exhausted(i + 1, d) <=> Advances(c, i))
          /\ i = L => Advances(c, i)
      BY Turn
    <3>3. CASE i = L
      BY <3>1, <3>2, <3>3 DEF IndexAt
    <3>4. CASE i # L
      <4>1. i \in 1 .. L - 1 /\ i + 1 \in 2 .. L
        BY <3>4, LevelFacts
      <4>2. Switched(i + 1, d) <=> Advances(c, i)
        BY <3>2, <3>4, <4>1 DEF Switched
      <4>3. Switched(i + 1, d) => Index(i, d) = LeafOf(d, i)
        BY <1>1, <4>1
      <4> HIDE DEF d
      <4> QED BY <3>1, <3>2, <3>4, <4>2, <4>3 DEF IndexAt
    <3> QED BY <3>3, <3>4
  <2> HIDE DEF d
  <2> QED BY <2>1, <2>2
<1>4. signedPk' = [i \in 2 .. L |-> SignedKeyAt(d, i)]
  <2>1. signedPk' = [i \in 2 .. L |->
                       IF Switched(i, d) THEN SignedKey(active', name', i, Index(i - 1, d))
                       ELSE signedPk[i]]
    BY SignFacts
  <2>2. ASSUME NEW i \in 2 .. L
        PROVE  (IF Switched(i, d) THEN SignedKey(active', name', i, Index(i - 1, d))
                ELSE signedPk[i]) = SignedKeyAt(d, i)
    <3> DEFINE k == i - 1
    <3>1. i \in Levels /\ k \in Levels /\ k \in 1 .. L - 1 /\ k + 1 = i
      BY LevelFacts
    <3>2. name'[i] = TreeName(d, i) /\ name'[k] = TreeName(d, k)
      BY <1>1, <3>1
    <3>3. CASE Switched(i, d)
      <4>1. Index(k, d) = LeafOf(d, k)
        BY <1>1, <3>1, <3>3
      <4>2. PathOk(active'[k], k, name'[k], LeafOf(d, k))
        BY <1>2, <3>1 DEF ActiveOK
      <4>3. Complete(active'[i][0], i, 0, name'[i], 0)
        <5>1. 0 \in Sub(i)
          BY <3>1, SublevelsFacts
        <5>2. PathOk(active'[i], i, name'[i], LeafOf(d, i)) /\ LeafOf(d, i) \in 0 .. MaxIndex(i)
          BY <1>2, <3>1, Turn DEF ActiveOK
        <5>3. Aligned(i, 0, LeafOf(d, i)) = 0
          BY <3>1, <5>2, AlignedZero
        <5> QED BY <5>1, <5>2, <5>3 DEF PathOk
      <4>4. SignedKey(active', name', i, Index(k, d))
            = [by |-> name'[k], q |-> LeafOf(d, k), key |-> name'[i], valid |-> TRUE]
        BY <4>1, <4>2, <4>3 DEF SignedKey
      <4> QED BY <3>2, <3>3, <4>4 DEF SignedKeyAt
    <3>4. CASE ~Switched(i, d)
      <4>1. signedPk[i] = SignedKeyAt(c, i)
        BY DEF PathsOK
      <4>2. TreeName(d, i) = TreeName(c, i) /\ TreeName(d, k) = TreeName(c, k)
            /\ LeafOf(d, k) = LeafOf(c, k)
        <5>1. name[i] = TreeName(c, i) /\ name[k] = TreeName(c, k)
          BY <3>1 DEF PathsOK
        <5> QED BY <1>1, <3>2, <3>4, <5>1
      <4> HIDE DEF d
      <4> QED BY <3>4, <4>1, <4>2 DEF SignedKeyAt
    <3> QED BY <3>3, <3>4
  <2> HIDE DEF d
  <2> QED BY <2>1, <2>2
<1> HIDE DEF d
<1>5. PathsOK(d, current', name', nameNext', signedPk', active')
  BY <1>1, <1>2, <1>3, <1>4 DEF PathsOK
<1> QED BY <1>5 DEF d

\* Threshold is a leaf of the bottom tree or the one after its last.
LEMMA ThresholdType ==
  Threshold \in Nat
<1>1. L \in Levels /\ Leaves(L) \in Nat
  BY LevelFacts, LeavesFacts
<1>2. Sublevels(L) # 1 => Size(L, 1) \in Nat /\ Size(L, 1) <= Leaves(L)
  BY <1>1, GeneratedFacts, SizeFacts
<1> QED BY <1>1, <1>2 DEF Threshold

\* A tree that the path moves on in, or into, begins to be asked anew.
LEMMA SignUpdates ==
  ASSUME EnoughUpdates, NEW c \in 0 .. MaxCount, c # MaxCount, NEW race, Count = c, Sign(race),
         UpdateOK(UpdateAfter(race)), \A i \in 1 .. L - 1 : Asked(i, UpdateAfter(race), c, 1)
  PROVE  /\ UpdateOK(update')
         /\ \A i \in 1 .. L - 1 : update'[i] = IF Advances(c, i) THEN UpdateNext
                                               ELSE UpdateAfter(race)[i]
         /\ \A i \in 1 .. L - 1 : Asked(i, update', c + 1, 0)
<1> DEFINE d == c + 1
           v == UpdateAfter(race)
<1>1. /\ update' = [i \in 1 .. L - 1 |-> IF Switched(i + 1, d) THEN UpdateNext ELSE v[i]]
      /\ \A i \in 1 .. L - 1 : update'[i] = IF Switched(i + 1, d) THEN UpdateNext ELSE v[i]
  <2>1. update' = [i \in 1 .. L - 1 |-> IF Switched(i + 1, d) THEN UpdateNext ELSE v[i]]
    BY SignFacts
  <2> HIDE DEF v, d
  <2> QED BY <2>1
<1>2. \A i \in 1 .. L - 1 : Switched(i + 1, d) <=> Advances(c, i)
  <2> TAKE i \in 1 .. L - 1
  <2>1. i \in Levels /\ i # L /\ i + 1 \in 2 .. L
    BY LevelFacts
  <2>2. Exhausted(i + 1, d) <=> Advances(c, i)
    BY <2>1, Turn
  <2> QED BY <2>1, <2>2 DEF Switched
<1>3. \A i \in 1 .. L - 1 : update'[i] = IF Advances(c, i) THEN UpdateNext ELSE v[i]
  BY <1>1, <1>2
<1>4. \A i \in 1 .. L - 1 : v[i] \in (0 .. Sublevels(i) + 1) \cup {UpdateDone}
                            /\ Sublevels(i) \in 1 .. 25
  BY SublevelsFacts, LevelFacts DEF UpdateOK
<1>5. UpdateOK(update')
  <2>1. DOMAIN update' = 1 .. L - 1
    BY <1>1
  <2>2. \A i \in 1 .. L - 1 : update'[i] \in (0 .. Sublevels(i) + 1) \cup {UpdateDone}
    BY <1>3, <1>4 DEF UpdateNext
  <2> QED BY <2>1, <2>2 DEF UpdateOK
<1>6. ASSUME NEW i \in 1 .. L - 1, i = L - 1 PROVE Asked(i, update', d, 0)
  <2>1. i + 1 = L /\ L \in Levels
    BY <1>6, LevelFacts
  <2>2. /\ Switched(L, d) => LeafOf(d, L) = 0
        /\ ~Switched(L, d) => LeafOf(d, L) = LeafOf(c, L) + 1
    BY <2>1, Turn
  <2>3. v[i] = UpdateDone \/ v[i] >= LeafOf(c, L) + 1 - Threshold
    BY <1>6 DEF Asked
  <2>4. update'[i] = IF Switched(L, d) THEN 0 ELSE v[i]
    BY <1>1, <2>1 DEF UpdateNext
  <2>5. update'[i] = UpdateDone \/ update'[i] >= LeafOf(d, L) + 0 - Threshold
    <3>1. LeafOf(c, L) \in Nat /\ Threshold \in Nat
      BY <2>1, LeafFacts, ThresholdType
    <3> HIDE DEF d, v
    <3> QED BY <2>2, <2>3, <2>4, <3>1
  <2> HIDE DEF d
  <2> QED BY <1>6, <2>5 DEF Asked
<1>7. ASSUME NEW i \in 1 .. L - 1, i # L - 1 PROVE Asked(i, update', d, 0)
  <2> DEFINE k == i + 1
             q == LeafOf(c, k)
             p == LeafOf(d, k)
  <2>1. k \in Levels /\ k # L /\ k \in 1 .. L - 1
    BY <1>7, LevelFacts
  <2>2. /\ Exhausted(k, d) <=> Advances(c, i)
        /\ Exhausted(k, d) => Advances(c, k) /\ p = 0
        /\ Advances(c, k) /\ ~Exhausted(k, d) => p = q + 1
        /\ ~Advances(c, k) => p = q
    <3>1. k # 1 /\ k - 1 = i
      BY <2>1, LevelFacts
    <3> QED BY <2>1, <3>1, Turn
  <2>3. v[i] = 255 \/ v[i] >= q + (IF v[k] >= 2 THEN 1 ELSE 0)
    BY <1>7 DEF Asked, UpdateDone, UpdateBuilding
  <2>4. Advances(c, k) => v[k] >= 2
    <3> HAVE Advances(c, k)
    <3>1. v[k] >= Sublevels(k) + 1 /\ v[k] \in Nat
      <4> HIDE DEF v, k
      <4> QED BY <2>1, Finished DEF v
    <3>2. Sublevels(k) \in 1 .. 25
      BY <1>4, <2>1
    <3> HIDE DEF v, k
    <3> QED BY <3>1, <3>2
  <2>5. /\ update'[i] = IF Advances(c, i) THEN 0 ELSE v[i]
        /\ update'[k] = IF Advances(c, k) THEN 0 ELSE v[k]
    BY <1>3, <2>1 DEF UpdateNext
  <2>6. q \in Nat
    BY <2>1, LeafFacts
  <2>7. update'[i] = 255 \/ update'[i] >= p + (IF update'[k] >= 2 THEN 1 ELSE 0)
    <3> HIDE DEF d, v, k, p, q
    <3>1. CASE Exhausted(k, d)
      BY <2>2, <2>5, <3>1
    <3>2. CASE ~Exhausted(k, d) /\ Advances(c, k)
      BY <2>2, <2>3, <2>4, <2>5, <2>6, <3>2
    <3>3. CASE ~Exhausted(k, d) /\ ~Advances(c, k)
      BY <2>2, <2>3, <2>5, <3>3
    <3> QED BY <3>1, <3>2, <3>3
  <2> HIDE DEF d
  <2> QED BY <1>7, <2>7 DEF Asked, UpdateDone, UpdateBuilding, p, k
<1> HIDE DEF d, v
<1> QED BY <1>3, <1>5, <1>6, <1>7 DEF d, v

\* A subtree that nobody has begun, to the right of the one that leaf q lies in.
LEMMA EmptyBuilding ==
  ASSUME NEW i \in Levels, NEW j \in Sub(i), NEW id, NEW q \in 0 .. MaxIndex(i), NEW left \in Nat,
         j > 0 => q % Size(i, j) = 0 /\ left = Aligned(i, j, q) + Size(i, j)
  PROVE  BuildingOK(Empty(left), i, j, id, q, 0)
<1> DEFINE e == Empty(left)
<1>1. e \in Subtrees /\ e.index = 0 /\ e.left = left
  <2>1. <<>> \in Seq(Int) /\ 0 \in Nat
    OBVIOUS
  <2> QED BY <2>1 DEF Empty, Subtrees
<1>2. Size(i, j) \in Nat
  BY SizeFacts
<1> HIDE DEF e
<1>3. CASE j > 0
  <2>1. 0 <= Size(i, j) /\ 0 >= 0 + 0
    BY <1>2
  <2> QED BY <1>1, <1>3, <2>1 DEF BuildingOK, Filled, e
<1>4. CASE ~(j > 0)
  <2>1. j = 0
    BY <1>4, SubFacts
  <2>2. ~(Aligned(i, j, q) + Size(i, j) < Leaves(i))
    BY <2>1, RootAtEdge
  <2> QED BY <1>1, <1>2, <2>2 DEF BuildingOK, e
<1> QED BY <1>3, <1>4

\* The BUILDING subtrees after a signature are as far as the next one needs them.
LEMMA SignBuilding ==
  ASSUME EnoughUpdates, NEW c \in 0 .. MaxCount, c # MaxCount, NEW race, Count = c, Sign(race),
         PathsOK(c, current, name, nameNext, signedPk, active),
         ProgressOK(c, name, nameNext, UpdateAfter(race), BuildingAfter(race), NextAfter(race), 1),
         NEW i \in Levels, NEW j \in Sub(i)
  PROVE  BuildingOK(building'[i][j], i, j, name'[i], LeafOf(c + 1, i), BuildDone(i, j, update', 0))
<1> DEFINE d == c + 1
           q == LeafOf(c, i)
           p == LeafOf(d, i)
           n == Size(i, j)
           b == BuildingAfter(race)[i][j]
           t == building'[i][j]
           v == UpdateAfter(race)
<1>1. /\ q \in 0 .. MaxIndex(i) /\ q \in Nat /\ p \in 0 .. MaxIndex(i)
      /\ MaxIndex(i) \in Nat /\ MaxIndex(i) = Leaves(i) - 1 /\ Leaves(i) \in Nat
      /\ n \in Nat /\ j \in Nat /\ j >= 0
  BY LeafFacts, Turn, LeavesFacts, SizeFacts, SubFacts
<1>2. /\ Switched(i, d) <=> Exhausted(i, d)
      /\ Exhausted(i, d) => Advances(c, i) /\ q = MaxIndex(i) /\ p = 0
      /\ Advances(c, i) /\ ~Exhausted(i, d) => p = q + 1 /\ q # MaxIndex(i)
      /\ ~Advances(c, i) => p = q
      /\ Moved(i, j, d) <=> /\ Advances(c, i) /\ ~Exhausted(i, d) /\ j > 0
                            /\ p % Size(i, j) = 0
      /\ i = L => Advances(c, i)
  BY Turn
<1>3. t = IF Switched(i, d) THEN Empty(IF j > 0 THEN n ELSE 0)
          ELSE IF Moved(i, j, d) THEN Rebuilding(i, j) ELSE b
  <2>1. building'[i] = RebuildingAfter(race, i, d)
    BY SignFacts
  <2> HIDE DEF d
  <2> QED BY <2>1 DEF RebuildingAfter
<1>4. ~Switched(i, d) => name'[i] = name[i]
  BY SignFacts
<1>5. BuildingOK(b, i, j, name[i], q, BuildDone(i, j, v, 1))
  BY DEF ProgressOK
<1>6. Advances(c, i) => BuildDone(i, j, v, 1) = 1 /\ BuildDone(i, j, update', 0) = 0
  <2> HAVE Advances(c, i)
  <2>1. BuildDone(i, j, v, 1) = 1
    BY AdvanceDone
  <2>2. CASE i = L
    BY <2>1, <2>2 DEF BuildDone
  <2>3. CASE i # L
    <3>1. i \in 1 .. L - 1
      BY <2>3, LevelFacts
    <3>2. update'[i] = 0
      BY <3>1, SignUpdates DEF ProgressOK, UpdateNext
    <3>3. ~(0 >= j + 2)
      BY <1>1
    <3> QED BY <2>1, <2>3, <3>2, <3>3 DEF BuildDone, UpdateBuilding
  <2> QED BY <2>2, <2>3
<1>7. ~Advances(c, i) => BuildDone(i, j, update', 0) = BuildDone(i, j, v, 1)
  <2> HAVE ~Advances(c, i)
  <2>1. i # L /\ i \in 1 .. L - 1
    BY <1>2, LevelFacts
  <2>2. update'[i] = v[i]
    BY <2>1, SignUpdates DEF ProgressOK
  <2> QED BY <2>1, <2>2 DEF BuildDone
<1> HIDE DEF d, p, q, b, t, v
<1>8. CASE Switched(i, d)
  <2>1. p = 0 /\ p % n = 0 /\ Aligned(i, j, p) = 0
    BY <1>2, <1>8, AlignedZero DEF n
  <2>2. BuildingOK(Empty(IF j > 0 THEN n ELSE 0), i, j, name'[i], p, 0)
    <3>1. (IF j > 0 THEN n ELSE 0) \in Nat
      BY <1>1
    <3>2. j > 0 => (IF j > 0 THEN n ELSE 0) = Aligned(i, j, p) + n
      BY <1>1, <2>1
    <3> HIDE DEF n
    <3> QED BY <1>1, <2>1, <3>1, <3>2, EmptyBuilding DEF n
  <2> HIDE DEF n
  <2> QED BY <1>2, <1>3, <1>6, <1>8, <2>2 DEF t, p, d
<1>9. CASE ~Switched(i, d) /\ Moved(i, j, d)
  <2>1. Advances(c, i) /\ p = q + 1 /\ q # MaxIndex(i) /\ p % n = 0
    BY <1>2, <1>9
  <2>2. q \in 0 .. MaxIndex(i) - 1
    BY <1>1, <2>1
  <2>3. Aligned(i, j, p) = Aligned(i, j, q) + n
    BY <2>1, <2>2, AlignedNext
  <2>4. active[i][j].left = Aligned(i, j, q)
    BY DEF PathsOK, ActiveOK, q
  <2>5. Aligned(i, j, q) \in Nat
    BY <1>1, AlignedFacts
  <2>6. Rebuilding(i, j) = Empty(Aligned(i, j, p) + n) /\ Aligned(i, j, p) + n \in Nat
    <3>1. Aligned(i, j, q) + 2 * n = Aligned(i, j, p) + n
      BY <1>1, <2>3, <2>5
    <3>2. Aligned(i, j, p) + n \in Nat
      BY <1>1, <2>3, <2>5
    <3> QED BY <2>4, <3>1, <3>2 DEF Rebuilding
  <2>7. BuildingOK(Rebuilding(i, j), i, j, name'[i], p, 0)
    BY <1>1, <2>1, <2>6, EmptyBuilding
  <2> QED BY <1>3, <1>6, <1>9, <2>1, <2>7 DEF t, p, d
<1>10. CASE ~Switched(i, d) /\ ~Moved(i, j, d)
  <2>1. t = b /\ name'[i] = name[i]
    BY <1>3, <1>4, <1>10
  <2>2. CASE ~Advances(c, i)
    BY <1>2, <1>5, <1>7, <2>1, <2>2 DEF t, p, d
  <2>3. CASE Advances(c, i)
    <3>1. p = q + 1 /\ q # MaxIndex(i) /\ (j > 0 => p % n # 0)
      BY <1>2, <1>10, <2>3
    <3>2. BuildingOK(b, i, j, name[i], q, 1)
      BY <1>5, <1>6, <2>3
    <3>3. BuildingOK(b, i, j, name[i], p, 0)
      <4>1. CASE j > 0
        <5>1. q \in 0 .. MaxIndex(i) - 1
          BY <1>1, <3>1
        <5>2. Aligned(i, j, p) = Aligned(i, j, q) /\ p % n = (q % n) + 1
          BY <3>1, <4>1, <5>1, AlignedNext
        <5>3. (p % n) + 0 = (q % n) + 1
          <6>1. q % n \in Nat
            BY <1>1, AlignedFacts
          <6> QED BY <5>2, <6>1
        <5> QED BY <3>2, <5>2, <5>3 DEF BuildingOK
      <4>2. CASE ~(j > 0)
        <5>1. j = 0
          BY <1>1, <4>2
        <5>2. ~(Aligned(i, j, p) + Size(i, j) < Leaves(i))
          BY <1>1, <5>1, RootAtEdge
        <5> HIDE DEF n
        <5> QED BY <3>2, <5>2 DEF BuildingOK
      <4> QED BY <4>1, <4>2
    <3> QED BY <1>6, <2>1, <2>3, <3>3 DEF t, p, d
  <2> QED BY <2>2, <2>3
<1>11. BuildingOK(t, i, j, name'[i], p, BuildDone(i, j, update', 0))
  BY <1>8, <1>9, <1>10 DEF t, p, d
<1> QED BY <1>11 DEF t, p, d

\* And so is NEXT_TREE.
LEMMA SignNext ==
  ASSUME EnoughUpdates, NEW c \in 0 .. MaxCount, c # MaxCount, NEW race, Count = c, Sign(race),
         PathsOK(c, current, name, nameNext, signedPk, active),
         ProgressOK(c, name, nameNext, UpdateAfter(race), BuildingAfter(race), NextAfter(race), 1)
  PROVE  /\ next'[1] = [j \in Sub(1) |-> Empty(0)]
         /\ \A i \in 2 .. L : \E p \in 0 .. Leaves(i) :
              /\ p >= LeafOf(c + 1, i) + NextDone(i, update', 0)
              /\ NextOK(next'[i], i, nameNext'[i], p)
<1> DEFINE d == c + 1
           x == NextAfter(race)
           v == UpdateAfter(race)
<1>1. \A i \in Levels : next'[i] = IF Switched(i, d) THEN Blank[i] ELSE x[i]
  <2>1. next' = [i \in Levels |-> IF Switched(i, d) THEN Blank[i] ELSE x[i]]
    BY SignFacts
  <2> HIDE DEF d, x
  <2> QED BY <2>1
<1>2. next'[1] = [j \in Sub(1) |-> Empty(0)]
  <2>1. ~Switched(1, d) /\ 1 \in Levels
    BY LevelFacts DEF Switched
  <2>2. x[1] = [j \in Sub(1) |-> Empty(0)]
    BY DEF ProgressOK
  <2> QED BY <1>1, <2>1, <2>2
<1>3. ASSUME NEW i \in 2 .. L
      PROVE  \E p \in 0 .. Leaves(i) : /\ p >= LeafOf(d, i) + NextDone(i, update', 0)
                                       /\ NextOK(next'[i], i, nameNext'[i], p)
  <2> DEFINE q == LeafOf(c, i)
  <2>1. i \in Levels
    BY LevelFacts
  <2>2. /\ Switched(i, d) <=> Exhausted(i, d)
        /\ Exhausted(i, d) => Advances(c, i) /\ LeafOf(d, i) = 0
        /\ Advances(c, i) /\ ~Exhausted(i, d) => LeafOf(d, i) = q + 1
        /\ ~Advances(c, i) => LeafOf(d, i) = q
        /\ i = L => Advances(c, i)
    BY <2>1, Turn
  <2>3. PICK p \in 0 .. Leaves(i) : p >= q + NextDone(i, v, 1) /\ NextOK(x[i], i, nameNext[i], p)
    BY DEF ProgressOK
  <2>4. Advances(c, i) => NextDone(i, v, 1) = 1 /\ NextDone(i, update', 0) = 0
    <3> HAVE Advances(c, i)
    <3>1. NextDone(i, v, 1) = 1
      BY <2>1, AdvanceDone
    <3>2. i # L => update'[i] = UpdateNext
      <4> HAVE i # L
      <4>1. i \in 1 .. L - 1
        BY <2>1, LevelFacts
      <4> QED BY <4>1, SignUpdates DEF ProgressOK
    <3> QED BY <3>1, <3>2 DEF NextDone
  <2>5. ~Advances(c, i) => NextDone(i, update', 0) = NextDone(i, v, 1)
    <3> HAVE ~Advances(c, i)
    <3>1. i # L /\ i \in 1 .. L - 1
      BY <2>1, <2>2, LevelFacts
    <3>2. update'[i] = v[i]
      BY <3>1, SignUpdates DEF ProgressOK
    <3> QED BY <3>1, <3>2 DEF NextDone
  <2>6. q \in Nat /\ Leaves(i) \in Nat
    BY <2>1, LeafFacts
  <2>7. CASE Switched(i, d)
    <3>1. next'[i] = [j \in Sub(i) |-> Empty(0)]
      BY <1>1, <2>1, <2>7 DEF Blank
    <3>2. NextOK(next'[i], i, nameNext'[i], 0)
      <4>1. Empty(0) \in Subtrees /\ Empty(0).left = 0 /\ Empty(0).index = 0
        <5>1. <<>> \in Seq(Int) /\ 0 \in Nat
          OBVIOUS
        <5> QED BY <5>1 DEF Empty, Subtrees
      <4>2. \A j \in Sub(i) : ~(0 >= Size(i, j)) /\ ~(Start(i, j) < 0)
        <5> TAKE j \in Sub(i)
        <5>1. Size(i, j) \in Nat /\ Size(i, j) >= 2 /\ Start(i, j) \in Nat
          BY <2>1, SizeFacts, StartFacts
        <5> QED BY <5>1
      <4>3. \A j \in Sub(i) : SubtreeNextOK(Empty(0), i, j, nameNext'[i], 0)
        BY <4>1, <4>2 DEF SubtreeNextOK
      <4> QED BY <3>1, <4>1, <4>3 DEF NextOK
    <3>3. 0 >= LeafOf(d, i) + NextDone(i, update', 0) /\ 0 \in 0 .. Leaves(i)
      BY <2>2, <2>4, <2>6, <2>7
    <3> QED BY <3>2, <3>3
  <2>8. CASE ~Switched(i, d)
    <3>1. next'[i] = x[i] /\ nameNext'[i] = nameNext[i]
      BY <1>1, <2>1, <2>8, SignNames
    <3>2. p >= LeafOf(d, i) + NextDone(i, update', 0)
      <4>1. CASE Advances(c, i)
        BY <2>2, <2>3, <2>4, <2>6, <2>8, <4>1
      <4>2. CASE ~Advances(c, i)
        BY <2>2, <2>3, <2>5, <4>2
      <4> QED BY <4>1, <4>2
    <3> QED BY <2>3, <3>1, <3>2
  <2> QED BY <2>7, <2>8
<1> QED BY <1>2, <1>3

\* A signature brings the working key to the next sequence number.
LEMMA SignStep ==
  ASSUME EnoughUpdates, NEW c \in 0 .. MaxCount, c # MaxCount, NEW race \in Races, At(c), Sign(race)
  PROVE  At(c + 1)'
<1>1. Count = c
  BY CountIsInverse DEF At, PathsOK, Count
<1>2. PathsOK(c, current, name, nameNext, signedPk, active)
  BY DEF At
<1>3. ProgressOK(c, name, nameNext, UpdateAfter(race), BuildingAfter(race), NextAfter(race), 1)
  BY WorkDone
<1>4. PathsOK(c + 1, current', name', nameNext', signedPk', active')
  BY <1>1, <1>2, <1>3, SignPaths
<1>5. UpdateOK(update') /\ \A i \in 1 .. L - 1 : Asked(i, update', c + 1, 0)
  BY <1>1, <1>3, SignUpdates DEF ProgressOK
<1>6. \A i \in Levels : \A j \in Sub(i) :
        BuildingOK(building'[i][j], i, j, name'[i], LeafOf(c + 1, i), BuildDone(i, j, update', 0))
  BY <1>1, <1>2, <1>3, SignBuilding
<1>7. /\ next'[1] = [j \in Sub(1) |-> Empty(0)]
      /\ \A i \in 2 .. L : \E p \in 0 .. Leaves(i) :
           /\ p >= LeafOf(c + 1, i) + NextDone(i, update', 0)
           /\ NextOK(next'[i], i, nameNext'[i], p)
  BY <1>1, <1>2, <1>3, SignNext
<1>8. ProgressOK(c + 1, name', nameNext', update', building', next', 0)
  BY <1>5, <1>6, <1>7 DEF ProgressOK
<1> QED BY <1>4, <1>8 DEF At

-----------------------------------------------------------------------------
(* Loading. *)

\* What loading sets up is what signing keeps up.
LEMMA LoadStep ==
  ASSUME SameNamesOnLoad, NEW c \in Loads, NEW garbage \in BOOLEAN, Load(c, garbage)
  PROVE  At(c)'
<1>1. c \in 0 .. MaxCount /\ c \in Nat /\ SameNames(c)
  BY LoadAssumption, LeafFacts DEF SameNamesOnLoad
<1>2. name' = [i \in Levels |-> TreeName(c, i)]
  <2>1. name' = LoadNames(c)
    BY DEF Load
  <2> QED BY <1>1, <2>1, LoadNamesFacts
<1>3. name' \in [Levels -> Seq(Int)] /\ \A i \in Levels : name'[i] \in Seq(Int) /\ name'[i] = TreeName(c, i)
  <2>1. \A i \in Levels : TreeName(c, i) \in Seq(Int)
    BY <1>1, NameFacts
  <2> QED BY <1>2, <2>1
<1>4. NextNames(nameNext', name', c)
  <2>1. nameNext' = LoadNextNames(c, name')
    BY DEF Load
  <2> QED BY <1>1, <1>3, <2>1, LoadNextNamesFacts
<1>5. \A i \in Levels : nameNext'[i] \in Seq(Int)
  BY <1>4 DEF NextNames
<1>6. current' = [i \in Levels |-> IndexAt(c, i)]
  BY DEF Load, IndexAt
<1>7. \A i \in Levels : LeafOf(c, i) \in 0 .. MaxIndex(i) /\ Leaves(i) \in Nat
  BY <1>1, LeafFacts
<1>8. ASSUME NEW i \in Levels PROVE ActiveOK(active'[i], i, name'[i], LeafOf(c, i))
  <2> DEFINE q == LeafOf(c, i)
             a == active'[i]
             id == name'[i]
  <2>1. a = [j \in Sub(i) |-> LoadActive(i, j, q, id)]
    BY DEF Load
  <2> HIDE DEF a, q, id
  <2>2. \A j \in Sub(i) : Aligned(i, j, q) \in Nat /\ Size(i, j) \in Nat
    BY <1>7, AlignedFacts, SizeFacts DEF q
  <2>3. \A j \in Sub(i) : a[j] = [index |-> 0, left |-> Aligned(i, j, q), of |-> id,
                                  from |-> Aligned(i, j, q), have |-> Size(i, j)]
    BY <2>1 DEF LoadActive, Subtree
  <2>4. \A j \in Sub(i) : a[j] \in Subtrees /\ a[j].left = Aligned(i, j, q)
                          /\ Complete(a[j], i, j, id, Aligned(i, j, q))
    <3> TAKE j \in Sub(i)
    <3> DEFINE A == Aligned(i, j, q)
               n == Size(i, j)
    <3>1. id \in Seq(Int) /\ A \in Nat /\ n \in Nat /\ 0 \in Nat
      BY <1>3, <2>2 DEF id
    <3>2. a[j] = [index |-> 0, left |-> A, of |-> id, from |-> A, have |-> n]
      BY <2>3
    <3> HIDE DEF A, n
    <3>3. a[j] \in Subtrees /\ a[j].left = A
      BY <3>1, <3>2 DEF Subtrees
    <3>4. a[j].of = id /\ a[j].from = A /\ a[j].have = n
      BY <3>2
    <3> QED BY <3>3, <3>4 DEF Complete, A, n
  <2>5. a \in [Sub(i) -> Subtrees]
    <3>1. a = [j \in Sub(i) |-> a[j]]
      BY <2>1
    <3> QED BY <2>4, <3>1
  <2> QED BY <2>4, <2>5 DEF ActiveOK, PathOk, a, q, id
<1>9. signedPk' = [i \in 2 .. L |-> SignedKeyAt(c, i)]
  <2>1. signedPk' = [i \in 2 .. L |-> SignedKey(active', name', i, LeafOf(c, i - 1))]
    BY DEF Load
  <2>2. ASSUME NEW i \in 2 .. L
        PROVE  SignedKey(active', name', i, LeafOf(c, i - 1)) = SignedKeyAt(c, i)
    <3> DEFINE k == i - 1
    <3>1. i \in Levels /\ k \in Levels
      BY LevelFacts
    <3>2. PathOk(active'[k], k, name'[k], LeafOf(c, k))
      BY <1>8, <3>1 DEF ActiveOK
    <3>3. Complete(active'[i][0], i, 0, name'[i], 0)
      <4>1. 0 \in Sub(i)
        BY <3>1, SublevelsFacts
      <4>2. PathOk(active'[i], i, name'[i], LeafOf(c, i))
        BY <1>8, <3>1 DEF ActiveOK
      <4>3. Aligned(i, 0, LeafOf(c, i)) = 0
        BY <1>7, <3>1, AlignedZero
      <4> QED BY <4>1, <4>2, <4>3 DEF PathOk
    <3> QED BY <1>3, <3>1, <3>2, <3>3 DEF SignedKey, SignedKeyAt
  <2> QED BY <2>1, <2>2
<1>10. PathsOK(c, current', name', nameNext', signedPk', active')
  BY <1>2, <1>4, <1>6, <1>8, <1>9 DEF PathsOK
<1>11. update' = [i \in 1 .. L - 1 |-> UpdateDone]
  BY DEF Load
<1>12. UpdateOK(update') /\ \A i \in 1 .. L - 1 : Asked(i, update', c, 0)
  BY <1>11 DEF UpdateOK, Asked
<1>13. \A i \in Levels : i = L \/ (i # L /\ update'[i] = UpdateDone)
  BY <1>11, LevelFacts
<1>14. ASSUME NEW i \in Levels, NEW j \in Sub(i)
       PROVE  BuildingOK(building'[i][j], i, j, name'[i], LeafOf(c, i), BuildDone(i, j, update', 0))
  <2> DEFINE q == LeafOf(c, i)
             v == IF garbage THEN 0 ELSE Leaves(i)
             id == name'[i]
  <2>1. building'[i] = [k \in Sub(i) |-> LoadBuilding(i, k, q, id, v)]
    BY DEF Load
  <2>2. building'[i][j] = LoadBuilding(i, j, q, id, v)
    <3> HIDE DEF q, v, id
    <3> QED BY <2>1
  <2>3. v \in Nat /\ q \in 0 .. MaxIndex(i) /\ id \in Seq(Int)
    BY <1>3, <1>7
  <2>4. BuildingOK(LoadBuilding(i, j, q, id, v), i, j, id, q, IF i = L THEN 0 ELSE 1)
    <3> HIDE DEF q, v, id
    <3> QED BY <2>3, LoadBuildingFacts
  <2>5. BuildDone(i, j, update', 0) = IF i = L THEN 0 ELSE 1
    <3>1. 255 >= j + 2
      <4>1. j \in 0 .. 24
        BY SubFacts
      <4> QED BY <4>1
    <3> QED BY <1>13, <3>1 DEF BuildDone, UpdateDone, UpdateBuilding
  <2> QED BY <2>2, <2>4, <2>5
<1>15. next'[1] = [j \in Sub(1) |-> Empty(0)]
  <2>1. next'[1] = [j \in Sub(1) |-> LoadNext(1, j, LeafOf(c, 1), nameNext'[1])]
    BY LevelFacts DEF Load
  <2>2. \A j \in Sub(1) : LoadNext(1, j, LeafOf(c, 1), nameNext'[1]) = Empty(0)
    BY DEF LoadNext
  <2> QED BY <2>1, <2>2
<1>16. ASSUME NEW i \in 2 .. L
       PROVE  \E p \in 0 .. Leaves(i) : /\ p >= LeafOf(c, i) + NextDone(i, update', 0)
                                        /\ NextOK(next'[i], i, nameNext'[i], p)
  <2> DEFINE q == LeafOf(c, i)
             id == nameNext'[i]
  <2>1. i \in Levels /\ i # 1
    BY LevelFacts
  <2>2. next'[i] = [j \in Sub(i) |-> LoadNext(i, j, q, id)]
    BY <2>1 DEF Load
  <2>3. q \in 0 .. MaxIndex(i) /\ id \in Seq(Int)
    BY <1>5, <1>7, <2>1
  <2>4. NextDone(i, update', 0) = IF i = L THEN 0 ELSE 1
    BY <1>13, <2>1 DEF NextDone, UpdateDone, UpdateNext
  <2> HIDE DEF q, id
  <2>5. \E p \in 0 .. Leaves(i) :
            /\ p >= q + (IF i = L THEN 0 ELSE 1)
            /\ NextOK([j \in Sub(i) |-> LoadNext(i, j, q, id)], i, id, p)
    BY <2>1, <2>3, LoadNextFacts
  <2> QED BY <2>2, <2>4, <2>5 DEF q, id
<1>17. ProgressOK(c, name', nameNext', update', building', next', 0)
  BY <1>12, <1>14, <1>15, <1>16 DEF ProgressOK
<1> QED BY <1>10, <1>17 DEF At

-----------------------------------------------------------------------------
(* The invariant holds, and what follows from it. *)

\* The bounds of TypeOK, wherever the subtrees have got to.
LEMMA ProgressBounds ==
  ASSUME NEW c \in 0 .. MaxCount, NEW names, NEW nexts, NEW u, NEW b, NEW x, NEW done,
         ProgressOK(c, names, nexts, u, b, x, done)
  PROVE  /\ DOMAIN u = 1 .. L - 1
         /\ \A i \in 1 .. L - 1 : u[i] \in (0 .. UpdateBuilding + Sublevels(i) - 1) \cup {UpdateDone}
         /\ \A i \in Levels : \A j \in Sub(i) :
              /\ b[i][j].index <= Size(i, j)
              /\ x[i][j].index <= Size(i, j) \/ x[i][j].index = MaxSubindex
<1>1. DOMAIN u = 1 .. L - 1
  BY DEF ProgressOK, UpdateOK
<1>2. ASSUME NEW i \in 1 .. L - 1
      PROVE  u[i] \in (0 .. UpdateBuilding + Sublevels(i) - 1) \cup {UpdateDone}
  <2>1. Sublevels(i) \in 1 .. 25
    BY SublevelsFacts, LevelFacts
  <2>2. u[i] \in (0 .. Sublevels(i) + 1) \cup {UpdateDone}
    BY DEF ProgressOK, UpdateOK
  <2>3. UpdateBuilding + Sublevels(i) - 1 = Sublevels(i) + 1
    BY <2>1 DEF UpdateBuilding
  <2> QED BY <2>2, <2>3
<1>3. ASSUME NEW i \in Levels, NEW j \in Sub(i)
      PROVE  /\ b[i][j].index <= Size(i, j)
             /\ x[i][j].index <= Size(i, j) \/ x[i][j].index = MaxSubindex
  <2>1. b[i][j].index <= Size(i, j)
    BY DEF ProgressOK, BuildingOK
  <2>2. Size(i, j) \in Nat /\ Start(i, j) \in Nat
    BY SizeFacts, StartFacts
  <2>3. CASE i = 1
    <3>1. x[i][j] = Empty(0)
      BY <2>3 DEF ProgressOK
    <3>2. x[i][j].index = 0
      BY <3>1 DEF Empty
    <3> QED BY <2>1, <2>2, <3>2
  <2>4. CASE i # 1
    <3>1. i \in 2 .. L
      BY <2>4, LevelFacts
    <3>2. PICK p \in 0 .. Leaves(i) : NextOK(x[i], i, nexts[i], p)
      BY <3>1 DEF ProgressOK
    <3>3. p \in Nat
      OBVIOUS
    <3>4. /\ p >= Size(i, j) => x[i][j].index = MaxSubindex
          /\ Start(i, j) < p /\ p < Size(i, j) => x[i][j].index = p
          /\ p <= Start(i, j) => x[i][j].index = 0
      BY <3>2 DEF NextOK, SubtreeNextOK
    <3>5. x[i][j].index <= Size(i, j) \/ x[i][j].index = MaxSubindex
      BY <2>2, <3>3, <3>4
    <3> QED BY <2>1, <3>5
  <2> QED BY <2>3, <2>4
<1> QED BY <1>1, <1>2, <1>3

\* What the sequence number determines is of the right type.
LEMMA PathsBounds ==
  ASSUME NEW c \in 0 .. MaxCount
  PROVE  \A i \in Levels : IndexAt(c, i) <= Leaves(i) /\ IndexAt(c, i) \in Nat
<1> TAKE i \in Levels
<1>1. LeafOf(c, i) \in Nat /\ LeafOf(c, i) < Leaves(i) /\ Leaves(i) \in Nat
  BY LeafFacts
<1> QED BY <1>1 DEF IndexAt

\* A signature keeps the bounds, the last one included.
LEMMA SignType ==
  ASSUME NEW c \in 0 .. MaxCount, NEW race \in Races, At(c), Sign(race)
  PROVE  TypeOK'
<1> DEFINE d == c + 1
           v == UpdateAfter(race)
           b == BuildingAfter(race)
           x == NextAfter(race)
<1>1. Count = c
  BY CountIsInverse DEF At, PathsOK, Count
<1>2. ProgressOK(c, name, nameNext, v, b, x, 1)
  BY WorkDone
<1>3. /\ DOMAIN v = 1 .. L - 1
      /\ \A i \in 1 .. L - 1 : v[i] \in (0 .. UpdateBuilding + Sublevels(i) - 1) \cup {UpdateDone}
      /\ \A i \in Levels : \A j \in Sub(i) :
           /\ b[i][j].index <= Size(i, j)
           /\ x[i][j].index <= Size(i, j) \/ x[i][j].index = MaxSubindex
  <2> HIDE DEF v, b, x
  <2> QED BY <1>2, ProgressBounds
<1> HIDE DEF v, b, x, d
<1>4. status' \in {"uninitialized", "none", "expired"}
  BY <1>1, SignFacts
<1>5. ASSUME NEW i \in Levels
      PROVE  current'[i] <= Leaves(i) + (IF i = L THEN 0 ELSE 1)
  <2>1. current' = [k \in Levels |->
                      IF k = L THEN IF Switched(k, d) THEN 0 ELSE current[k] + 1
                      ELSE IF Switched(k + 1, d) THEN Index(k, d) + 1 ELSE current[k]]
    BY <1>1, SignFacts DEF d
  <2>2. current'[i] = IF i = L THEN IF Switched(i, d) THEN 0 ELSE current[i] + 1
                      ELSE IF Switched(i + 1, d) THEN Index(i, d) + 1 ELSE current[i]
    BY <2>1
  <2>3. current[i] = IndexAt(c, i)
    BY DEF At, PathsOK
  <2>4. LeafOf(c, i) \in Nat /\ LeafOf(c, i) < Leaves(i) /\ Leaves(i) \in Nat
    BY LeafFacts
  <2> QED BY <2>2, <2>3, <2>4 DEF Index, IndexAt
<1>6. update' = [i \in 1 .. L - 1 |-> IF Switched(i + 1, d) THEN UpdateNext ELSE v[i]]
  BY <1>1, SignFacts DEF d, v
<1>7. DOMAIN update' = 1 .. L - 1
  BY <1>6
<1>8. ASSUME NEW i \in 1 .. L - 1
      PROVE  update'[i] \in (0 .. UpdateBuilding + Sublevels(i) - 1) \cup {UpdateDone}
  <2>1. Sublevels(i) \in 1 .. 25
    BY SublevelsFacts, LevelFacts
  <2>2. UpdateNext \in 0 .. UpdateBuilding + Sublevels(i) - 1
    BY <2>1 DEF UpdateNext, UpdateBuilding
  <2> QED BY <1>3, <1>6, <2>2
<1>9. ASSUME NEW i \in Levels, NEW j \in Sub(i)
      PROVE  /\ building'[i][j].index <= Size(i, j)
             /\ next'[i][j].index <= Size(i, j) \/ next'[i][j].index = MaxSubindex
  <2>1. Size(i, j) \in Nat
    BY SizeFacts
  <2>2. building'[i] = RebuildingAfter(race, i, d)
    BY <1>1, SignFacts DEF d
  <2>3. building'[i][j] = IF Switched(i, d) THEN Empty(IF j > 0 THEN Size(i, j) ELSE 0)
                          ELSE IF Moved(i, j, d) THEN Rebuilding(i, j) ELSE b[i][j]
    BY <2>2 DEF RebuildingAfter, b
  <2>4. building'[i][j].index = 0 \/ building'[i][j] = b[i][j]
    BY <2>3 DEF Rebuilding, Empty
  <2>5. next'[i] = IF Switched(i, d) THEN Blank[i] ELSE x[i]
    BY <1>1, SignFacts DEF d, x
  <2>6. next'[i][j].index = 0 \/ next'[i][j] = x[i][j]
    BY <2>5 DEF Blank, Empty
  <2> QED BY <1>3, <2>1, <2>4, <2>6
<1> QED BY <1>4, <1>5, <1>7, <1>8, <1>9 DEF TypeOK

\* So does loading.
LEMMA LoadType ==
  ASSUME SameNamesOnLoad, NEW c \in Loads, NEW garbage \in BOOLEAN, Load(c, garbage)
  PROVE  TypeOK'
<1>1. c \in 0 .. MaxCount
  BY LoadAssumption
<1>2. PathsOK(c, current', name', nameNext', signedPk', active')
      /\ ProgressOK(c, name', nameNext', update', building', next', 0)
  BY LoadStep DEF At
<1>3. status' = "none"
  BY DEF Load
<1>4. \A i \in Levels : current'[i] <= Leaves(i) + (IF i = L THEN 0 ELSE 1)
  <2> TAKE i \in Levels
  <2>1. current'[i] = IndexAt(c, i)
    BY <1>2 DEF PathsOK
  <2>2. IndexAt(c, i) <= Leaves(i) /\ IndexAt(c, i) \in Nat /\ Leaves(i) \in Nat
    BY <1>1, PathsBounds, LeavesFacts
  <2> QED BY <2>1, <2>2
<1>5. /\ DOMAIN update' = 1 .. L - 1
      /\ \A i \in 1 .. L - 1 :
           update'[i] \in (0 .. UpdateBuilding + Sublevels(i) - 1) \cup {UpdateDone}
      /\ \A i \in Levels : \A j \in Sub(i) :
           /\ building'[i][j].index <= Size(i, j)
           /\ next'[i][j].index <= Size(i, j) \/ next'[i][j].index = MaxSubindex
  BY <1>1, <1>2, ProgressBounds
<1> QED BY <1>3, <1>4, <1>5 DEF TypeOK

\* Before anything is loaded.
LEMMA InitInv ==
  Init => IInv
<1> SUFFICES ASSUME Init PROVE TypeOK /\ status # "none"
  BY DEF IInv
<1>1. \A i \in Levels : 0 <= Leaves(i) + (IF i = L THEN 0 ELSE 1)
  <2> TAKE i \in Levels
  <2>1. Leaves(i) \in Nat
    BY LeavesFacts
  <2> QED BY <2>1
<1>2. \A i \in Levels : \A j \in Sub(i) :
        /\ building[i][j].index <= Size(i, j)
        /\ next[i][j].index <= Size(i, j) \/ next[i][j].index = MaxSubindex
  <2> TAKE i \in Levels
  <2> TAKE j \in Sub(i)
  <2>1. Size(i, j) \in Nat
    BY SizeFacts
  <2>2. building[i][j].index = 0 /\ next[i][j].index = 0
    BY DEF Init, Blank, Empty
  <2> QED BY <2>1, <2>2
<1> QED BY <1>1, <1>2 DEF Init, TypeOK

\* Every step from where the invariant holds leads to where it holds.
LEMMA NextInv ==
  ASSUME SameNamesOnLoad, EnoughUpdates, IInv, [Next]_vars
  PROVE  IInv'
<1>1. CASE UNCHANGED vars
  BY <1>1 DEF vars, IInv, TypeOK, At
<1>2. CASE \E c \in Stored, garbage \in BOOLEAN : Load(c, garbage)
  <2>1. PICK c \in Stored, garbage \in BOOLEAN : Load(c, garbage)
    BY <1>2
  <2>2. c \in Loads
    BY DEF Stored
  <2>3. At(c)' /\ TypeOK' /\ c \in 0 .. MaxCount
    BY <2>1, <2>2, LoadStep, LoadType, LoadAssumption
  <2> QED BY <2>3 DEF IInv
<1>3. CASE \E race \in Races : Sign(race)
  <2>1. PICK race \in Races : Sign(race)
    BY <1>3
  <2>2. PICK c \in 0 .. MaxCount : At(c)
    BY <2>1 DEF IInv, Sign
  <2>3. TypeOK'
    BY <2>1, <2>2, SignType
  <2>4. CASE c = MaxCount
    <3>1. Count = c
      BY <2>2, CountIsInverse DEF At, PathsOK, Count
    <3>2. Exhausted(1, c + 1)
      BY <2>4, ExhaustedBelow
    <3>3. status' = "expired"
      BY <2>1, <3>1, <3>2, SignFacts
    <3> QED BY <2>3, <3>3 DEF IInv
  <2>5. CASE c # MaxCount
    <3>1. At(c + 1)'
      BY <2>1, <2>2, <2>5, SignStep
    <3>2. c + 1 \in 0 .. MaxCount
      BY <2>5, BelowFacts
    <3> QED BY <2>3, <3>1, <3>2 DEF IInv
  <2> QED BY <2>4, <2>5
<1> QED BY <1>1, <1>2, <1>3 DEF Next

-----------------------------------------------------------------------------
(* Theorems. *)

\* The invariant holds in every behaviour.
LEMMA Invariant ==
  ASSUME SameNamesOnLoad, EnoughUpdates
  PROVE  Spec => []IInv
<1>1. Init => IInv
  BY InitInv
<1>2. IInv /\ [Next]_vars => IInv'
  BY NextInv
<1> QED BY <1>1, <1>2, PTL DEF Spec

\* Indices, update counts and subtrees stay within the bounds that the code's arrays
\* and counters have (hss_internal.h): no subtree takes more leaves than it has.
THEOREM TypeCorrect ==
  ASSUME SameNamesOnLoad, EnoughUpdates
  PROVE  Spec => []TypeOK
<1>1. IInv => TypeOK
  BY DEF IInv
<1> QED BY <1>1, Invariant, PTL

\* Whenever a signature is about to be made, every subtree on the authentication
\* path of its leaf is complete, and of the right tree: the leaves that the earlier
\* signatures added, one by one, were enough (hss_internal.h:112).
THEOREM PathsPopulated ==
  ASSUME SameNamesOnLoad, EnoughUpdates
  PROVE  Spec => []ActivePopulated
<1>1. IInv => ActivePopulated
  <2> SUFFICES ASSUME IInv, status = "none", NEW i \in Levels
               PROVE  PathOk(active[i], i, name[i], LeafOf(Count, i))
    BY DEF ActivePopulated
  <2>1. PICK c \in 0 .. MaxCount : At(c)
    BY DEF IInv
  <2>2. Count = c
    BY <2>1, CountIsInverse DEF At, PathsOK, Count
  <2> QED BY <2>1, <2>2 DEF At, PathsOK, ActiveOK
<1> QED BY <1>1, Invariant, PTL

\* The tree below a leaf is the one that this leaf alone determines, after any
\* signatures and reloads: its one-time key signs no other (hss_internal.h:181).
THEOREM KeysConsistent ==
  ASSUME SameNamesOnLoad, EnoughUpdates
  PROVE  Spec => []SameKeysAfterReboot
<1>1. IInv => SameKeysAfterReboot
  <2> SUFFICES ASSUME IInv, status = "none", NEW i \in 2 .. L
               PROVE  /\ signedPk[i].key = Child(signedPk[i].by, signedPk[i].q)
                      /\ name[i] = signedPk[i].key
    BY DEF SameKeysAfterReboot
  <2>1. PICK c \in 0 .. MaxCount : At(c)
    BY DEF IInv
  <2>2. signedPk[i] = SignedKeyAt(c, i) /\ name[i] = TreeName(c, i)
    BY <2>1, LevelFacts DEF At, PathsOK
  <2>3. TreeName(c, i) = Child(TreeName(c, i - 1), LeafOf(c, i - 1))
    BY NameFacts, LeafFacts
  <2> QED BY <2>2, <2>3 DEF SignedKeyAt
<1> QED BY <1>1, Invariant, PTL

\* A key that is loaded again where it already is signs with the same indices, the
\* same trees, the same signed public keys and the same nodes as if it had not been.
THEOREM ReloadInvisible ==
  ASSUME SameNamesOnLoad, EnoughUpdates
  PROVE  Spec => ReloadIsInvisible
<1>1. IInv /\ IInv' => ReloadStep
  <2> SUFFICES ASSUME IInv, IInv', status = "none", status' = "none", Count' = Count
               PROVE  /\ UNCHANGED <<current, name, nameNext, signedPk>>
                      /\ \A i \in Levels : \A j \in Sub(i) : Nodes(active'[i][j]) = Nodes(active[i][j])
    BY DEF ReloadStep
  <2>1. PICK c \in 0 .. MaxCount : At(c)
    BY DEF IInv
  <2>2. PICK d \in 0 .. MaxCount : PathsOK(d, current', name', nameNext', signedPk', active')
    BY DEF IInv, At
  <2>3. Count = c
    BY <2>1, CountIsInverse DEF At, PathsOK, Count
  <2>4. Count' = d
    BY <2>2, CountIsInverse DEF PathsOK, Count
  <2>5. d = c
    BY <2>3, <2>4
  <2>6. PathsOK(c, current, name, nameNext, signedPk, active)
    BY <2>1 DEF At
  <2>7. current' = current /\ name' = name /\ signedPk' = signedPk
    BY <2>2, <2>5, <2>6 DEF PathsOK
  <2>8. nameNext' = nameNext
    <3>1. NextNames(nameNext, name, c) /\ NextNames(nameNext', name, c) /\ c \in Nat
      BY <2>2, <2>5, <2>6, <2>7, LeafFacts DEF PathsOK
    <3> QED BY <3>1, NextNamesUnique
  <2>9. ASSUME NEW i \in Levels, NEW j \in Sub(i)
        PROVE  Nodes(active'[i][j]) = Nodes(active[i][j])
    <3>1. /\ Complete(active[i][j], i, j, name[i], Aligned(i, j, LeafOf(c, i)))
          /\ Complete(active'[i][j], i, j, name[i], Aligned(i, j, LeafOf(c, i)))
      BY <2>2, <2>5, <2>6, <2>7 DEF PathsOK, ActiveOK, PathOk
    <3> QED BY <3>1 DEF Complete, Nodes
  <2> QED BY <2>7, <2>8, <2>9
<1> QED BY <1>1, Invariant, PTL DEF ReloadIsInvisible

-----------------------------------------------------------------------------
(* The promise of HssSignatures is kept. *)

\* The promise counts the heights of the trees in its own way.
LEMMA PromiseHeights ==
  /\ Promise!L = L
  /\ \A i \in Levels : Promise!HeightBelow[i] = HeightBelow[i]
  /\ Promise!MaxCount = MaxCount
<1> DEFINE H == [i \in Levels |-> Height(i)]
           Equation(f) == f = [i \in 0 .. Promise!L |->
                                 IF i = Promise!L THEN 0 ELSE H[i + 1] + f[i + 1]]
           g == [i \in 0 .. L |-> IF i = 0 THEN HeightBelow[1] + Height(1) ELSE HeightBelow[i]]
           f == Promise!HeightBelow
<1>1. L \in Nat /\ L >= 1 /\ Levels = 1 .. L /\ \A i \in Levels : Height(i) \in Nat
  <2>1. \A i \in Levels : Height(i) \in Nat
    <3> TAKE i \in Levels
    <3>1. Height(i) \in 1 .. 25
      BY ShapeFacts
    <3> QED BY <3>1
  <2>2. L \in Nat /\ L >= 1 /\ Levels = 1 .. L
    BY LevelFacts
  <2> QED BY <2>1, <2>2
<1>2. Promise!L = L
  <2>1. Promise!L = Len(H)
    BY DEF Promise!L
  <2>2. DOMAIN H = 1 .. L /\ H \in Seq(Nat)
    BY <1>1
  <2> HIDE DEF H
  <2> QED BY <1>1, <2>1, <2>2
<1>3. Equation(g)
  <2>1. ASSUME NEW i \in 0 .. L PROVE g[i] = IF i = L THEN 0 ELSE H[i + 1] + g[i + 1]
    <3>1. CASE i = L
      BY <1>1, <3>1, HeightBelowFacts
    <3>2. CASE i # L /\ i = 0
      <4>1. 1 \in Levels /\ H[1] = Height(1) /\ HeightBelow[1] \in Nat /\ Height(1) \in Nat
        BY <1>1, HeightBelowFacts
      <4>2. g[0] = HeightBelow[1] + Height(1) /\ g[1] = HeightBelow[1]
        BY <1>1
      <4>3. H[1] + g[1] = g[0]
        <5> HIDE DEF g, H
        <5> QED BY <4>1, <4>2
      <4> HIDE DEF g, H
      <4> QED BY <3>2, <4>3
    <3>3. CASE i # L /\ i # 0
      <4>1. i + 1 \in 2 .. L /\ i + 1 \in Levels /\ i \in Levels /\ (i + 1) - 1 = i
            /\ i + 1 \in 0 .. L /\ i + 1 # 0
        BY <1>1, <3>3
      <4>2. HeightBelow[i] = HeightBelow[i + 1] + Height(i + 1)
            /\ HeightBelow[i + 1] \in Nat /\ Height(i + 1) \in Nat
        BY <1>1, <4>1, HeightBelowFacts
      <4>3. g[i] = HeightBelow[i] /\ g[i + 1] = HeightBelow[i + 1] /\ H[i + 1] = Height(i + 1)
        BY <3>3, <4>1
      <4> HIDE DEF g, H
      <4>4. g[i] = H[i + 1] + g[i + 1]
        BY <4>2, <4>3
      <4> QED BY <3>3, <4>4
    <3> QED BY <3>1, <3>2, <3>3
  <2>2. g = [i \in 0 .. L |-> g[i]]
    OBVIOUS
  <2> HIDE DEF g, H
  <2> QED BY <1>2, <2>1, <2>2
<1>4. f = CHOOSE h : Equation(h)
  BY Zenon DEF Promise!HeightBelow
<1>5. Equation(f)
  <2> HIDE DEF Equation, g, f
  <2> QED BY <1>3, <1>4
<1>6. \A i \in 0 .. L : f[i] = IF i = L THEN 0 ELSE H[i + 1] + f[i + 1]
  <2> HIDE DEF f, H
  <2> QED BY <1>2, <1>5
<1>7. \A i \in 0 .. L : g[i] = IF i = L THEN 0 ELSE H[i + 1] + g[i + 1]
  <2> HIDE DEF g, H
  <2> QED BY <1>2, <1>3
<1>8. \A n \in 0 .. L : n \in {m \in 0 .. L : f[L - m] = g[L - m]}
  <2> DEFINE S == {m \in 0 .. L : f[L - m] = g[L - m]}
  <2> HIDE DEF f, g, H
  <2>1. 0 \in S
    <3>1. L \in 0 .. L /\ L - 0 = L
      BY <1>1
    <3> QED BY <1>1, <1>6, <1>7, <3>1
  <2>2. \A n \in 0 .. L - 1 : n \in S => n + 1 \in S
    <3> TAKE n \in 0 .. L - 1
    <3> HAVE n \in S
    <3> DEFINE i == L - (n + 1)
    <3>1. i \in 0 .. L /\ i # L /\ i + 1 = L - n /\ n + 1 \in 0 .. L
      BY <1>1
    <3>2. f[i + 1] = g[i + 1]
      BY <3>1
    <3>3. f[i] = g[i]
      <4> HIDE DEF i
      <4> QED BY <1>6, <1>7, <3>1, <3>2
    <3> QED BY <3>1, <3>3
  <2> HIDE DEF S
  <2>3. \A n \in 0 .. L : n \in S
    BY <1>1, <2>1, <2>2, InductionUpTo
  <2> QED BY <2>3 DEF S
<1>9. \A i \in 0 .. L : f[i] = g[i]
  <2> TAKE i \in 0 .. L
  <2>1. L - i \in 0 .. L /\ L - (L - i) = i
    BY <1>1
  <2> HIDE DEF f, g
  <2> QED BY <1>8, <2>1
<1>10. \A i \in Levels : f[i] = HeightBelow[i]
  <2> TAKE i \in Levels
  <2>1. i \in 0 .. L /\ i # 0
    BY <1>1
  <2>2. g[i] = HeightBelow[i]
    BY <2>1
  <2> HIDE DEF f, g
  <2> QED BY <1>9, <2>1, <2>2
<1>11. Promise!MaxCount = MaxCount
  <2>1. 0 \in 0 .. L
    BY <1>1
  <2>2. f[0] = HeightBelow[1] + Height(1)
    <3>1. g[0] = HeightBelow[1] + Height(1)
      BY <2>1
    <3> HIDE DEF f, g
    <3> QED BY <1>9, <2>1, <3>1
  <2> QED BY <2>2 DEF Promise!MaxCount, MaxCount
<1> QED BY <1>2, <1>10, <1>11

\* The promise names the leaves and the trees as the lemmas above do.
LEMMA PromiseSignature ==
  ASSUME NEW c
  PROVE  Promise!Signature(c) =
           [i \in Levels |-> [by |-> TreeName(c, i), q |-> LeafOf(c, i), valid |-> TRUE]]
<1>1. Promise!L = L /\ Levels = 1 .. L
  BY PromiseHeights, LevelFacts
<1>2. \A i \in Levels : Promise!Leaf(c, i) = LeafOf(c, i)
  <2> TAKE i \in Levels
  <2>1. Promise!HeightBelow[i] = HeightBelow[i]
    BY PromiseHeights
  <2> QED BY <2>1 DEF Promise!Leaf, LeafOf, Leaves
<1>3. \A i \in Levels : Promise!Tree(c, i) = TreeName(c, i)
  <2> TAKE i \in Levels
  <2>1. \A j \in 1 .. i - 1 : j \in Levels
    BY LevelFacts
  <2>2. \A j \in 1 .. i - 1 : Promise!Leaf(c, j) = LeafOf(c, j)
    BY <1>2, <2>1
  <2> QED BY <2>2 DEF Promise!Tree, TreeName
<1>4. Promise!Signature(c) =
        [i \in 1 .. Promise!L |-> [by |-> Promise!Tree(c, i), q |-> Promise!Leaf(c, i), valid |-> TRUE]]
  BY DEF Promise!Signature
<1> QED BY <1>1, <1>2, <1>3, <1>4

\* The signature that a working key at sequence number c makes.
LEMMA SignatureIsRight ==
  ASSUME NEW c \in 0 .. MaxCount, PathsOK(c, current, name, nameNext, signedPk, active)
  PROVE  Signature = Promise!Signature(c)
<1> DEFINE s(i) == IF i = L THEN [by |-> name[L], q |-> current[L],
                                  valid |-> PathOk(active[L], L, name[L], current[L])]
                   ELSE [by |-> signedPk[i + 1].by, q |-> signedPk[i + 1].q,
                         valid |-> signedPk[i + 1].valid /\ signedPk[i + 1].key = name[i + 1]]
           t(i) == [by |-> TreeName(c, i), q |-> LeafOf(c, i), valid |-> TRUE]
<1>1. Signature = [i \in Levels |-> s(i)]
  BY DEF Signature
<1>2. ASSUME NEW i \in Levels PROVE s(i) = t(i)
  <2>1. CASE i = L
    <3>1. name[L] = TreeName(c, L) /\ current[L] = LeafOf(c, L)
      BY LevelFacts DEF PathsOK, IndexAt
    <3>2. PathOk(active[L], L, name[L], current[L])
      BY <3>1, LevelFacts DEF PathsOK, ActiveOK
    <3> QED BY <2>1, <3>1, <3>2
  <2>2. CASE i # L
    <3>1. i + 1 \in 2 .. L /\ (i + 1) - 1 = i /\ i + 1 \in Levels
      BY <2>2, LevelFacts
    <3>2. signedPk[i + 1] = [by |-> TreeName(c, i), q |-> LeafOf(c, i), key |-> TreeName(c, i + 1),
                             valid |-> TRUE]
      BY <3>1 DEF PathsOK, SignedKeyAt
    <3>3. name[i + 1] = TreeName(c, i + 1)
      BY <3>1 DEF PathsOK
    <3>4. /\ signedPk[i + 1].by = TreeName(c, i) /\ signedPk[i + 1].q = LeafOf(c, i)
          /\ signedPk[i + 1].valid = TRUE /\ signedPk[i + 1].key = name[i + 1]
      BY <3>2, <3>3
    <3>5. (signedPk[i + 1].valid /\ signedPk[i + 1].key = name[i + 1]) = TRUE
      BY <3>4
    <3>6. s(i) = [by |-> signedPk[i + 1].by, q |-> signedPk[i + 1].q,
                  valid |-> signedPk[i + 1].valid /\ signedPk[i + 1].key = name[i + 1]]
      BY <2>2
    <3> QED BY <3>4, <3>5, <3>6
  <2> QED BY <2>1, <2>2
<1>3. Signature = [i \in Levels |-> t(i)]
  <2> HIDE DEF s, t
  <2> QED BY <1>1, <1>2
<1> QED BY <1>3, PromiseSignature

\* Where the promise has got to.
Counted(s, n) == IF s = "uninitialized" THEN 0 ELSE IF s = "expired" THEN MaxCount + 1 ELSE n

\* Every signature that the library returns is the one that its sequence number alone
\* determines, made with a complete authentication path in every tree; sequence
\* numbers go up by one, or are skipped by a reload, and are never used again.
THEOREM KeepsPromise ==
  ASSUME SameNamesOnLoad, EnoughUpdates
  PROVE  Spec => SignsAsPromised
<1>1. Init => Promise!Init
  BY DEF Init, Promise!Init
<1>2. IInv /\ IInv' /\ [Next]_vars => [Promise!Next]_(Promise!vars)
  <2> SUFFICES ASSUME IInv, IInv', [Next]_vars PROVE [Promise!Next]_(Promise!vars)
    OBVIOUS
  <2> DEFINE n == Counted(status, Count)
             m == Counted(status', Count')
  <2>1. Promise!MaxCount = MaxCount /\ MaxCount \in Nat
    BY PromiseHeights, BelowFacts
  <2>2. CASE UNCHANGED vars
    <3>1. sig' = sig /\ status' = status /\ Count' = Count
      BY <2>2 DEF vars, Count
    <3> QED BY <3>1 DEF Promise!vars
  <2>3. CASE \E c \in Stored, garbage \in BOOLEAN : Load(c, garbage)
    <3>1. PICK c \in Stored, garbage \in BOOLEAN : Load(c, garbage)
      BY <2>3
    <3>2. c \in Loads /\ c \in 0 .. MaxCount /\ sig' = <<>> /\ status' = "none"
      BY <3>1, LoadAssumption DEF Stored, Load
    <3>3. Count' = c
      <4>1. PathsOK(c, current', name', nameNext', signedPk', active')
        BY <3>1, <3>2, LoadStep DEF At
      <4> QED BY <3>2, <4>1, CountIsInverse DEF PathsOK, Count
    <3>4. m = c
      BY <3>2, <3>3 DEF Counted
    <3>5. n \in Nat /\ n <= c
      <4>1. CASE status = "uninitialized"
        BY <3>2, <4>1, <2>1 DEF Counted
      <4>2. CASE status = "none"
        <5>1. PICK k \in Skips : c = Count + k
          BY <3>1, <4>2 DEF Stored
        <5>2. PICK d \in 0 .. MaxCount : At(d)
          BY <4>2 DEF IInv
        <5>3. Count = d /\ d \in Nat /\ k \in Nat
          BY <5>2, CountIsInverse, LoadAssumption, LeafFacts DEF At, PathsOK, Count
        <5> QED BY <4>2, <5>1, <5>3 DEF Counted
      <4>3. CASE status \notin {"uninitialized", "none"}
        BY <3>1, <4>3 DEF Stored
      <4> QED BY <4>1, <4>2, <4>3
    <3>6. m \in n .. Promise!MaxCount
      <4> HIDE DEF n, m
      <4> QED BY <2>1, <3>2, <3>4, <3>5
    <3>7. Promise!Load
      BY <3>2, <3>6 DEF Promise!Load, Counted
    <3> QED BY <3>7 DEF Promise!Next
  <2>4. CASE \E race \in Races : Sign(race)
    <3>1. PICK race \in Races : Sign(race)
      BY <2>4
    <3>2. PICK c \in 0 .. MaxCount : At(c)
      BY <3>1 DEF IInv, Sign
    <3>3. Count = c /\ status = "none" /\ c \in Nat /\ c <= MaxCount
      BY <2>1, <3>1, <3>2, CountIsInverse DEF At, PathsOK, Count, Sign
    <3>4. n = c
      BY <3>3 DEF Counted
    <3>5. sig' = Promise!Signature(c)
      BY <3>1, <3>2, <3>3, SignatureIsRight, SignFacts DEF At
    <3>6. m = c + 1
      <4>1. status' = IF Exhausted(1, c + 1) THEN "expired" ELSE "none"
        BY <3>1, <3>3, SignFacts
      <4>2. Exhausted(1, c + 1) <=> c = MaxCount
        BY <3>2, ExhaustedBelow
      <4>3. CASE c = MaxCount
        BY <4>1, <4>2, <4>3 DEF Counted
      <4>4. CASE c # MaxCount
        <5>1. At(c + 1)'
          BY <3>1, <3>2, <4>4, SignStep
        <5>2. c + 1 \in 0 .. MaxCount
          BY <2>1, <3>3, <4>4
        <5>3. Count' = c + 1
          BY <5>1, <5>2, CountIsInverse DEF At, PathsOK, Count
        <5> QED BY <4>1, <4>2, <4>4, <5>3 DEF Counted
      <4> QED BY <4>3, <4>4
    <3>7. Promise!Sign
      <4>1. n <= Promise!MaxCount /\ sig' = Promise!Signature(n) /\ m = n + 1
        BY <2>1, <3>3, <3>4, <3>5, <3>6
      <4> QED BY <4>1 DEF Promise!Sign, Counted
    <3> QED BY <3>7 DEF Promise!Next
  <2> QED BY <2>2, <2>3, <2>4 DEF Next
<1>3. Spec => Promise!Init /\ [][Promise!Next]_(Promise!vars)
  BY <1>1, <1>2, Invariant, PTL DEF Spec
<1> QED BY <1>3 DEF SignsAsPromised, Promise!Spec

-----------------------------------------------------------------------------
(* Where the hypotheses hold. *)

\* The heights that lm_look_up_parameter_set knows, and hss_smallest_subtree_size.
LibraryShape ==
  \A i \in Levels : Height(i) \in {5, 10, 15, 20, 25} /\ (i # L => Shape[i].sub = 2)

\* No parameter set of the library leaves a tree just as many updates as its parent
\* needs, so that it can afford to lose one to the race; and with trees of one height
\* loading and signing name the trees to the right alike.
THEOREM HypothesesHold ==
  /\ LibraryShape => EnoughUpdates
  /\ (\A i \in Levels : Height(i) = Height(1)) => SameNamesOnLoad
<1>1. ASSUME LibraryShape, L > 1, Sublevels(L) > 1
      PROVE  UpdatesGenerated(L) > UpdatesRequired(L - 1)
  <2> DEFINE k == L - 1
             s == Sublevels(L)
             t == Shape[L].sub
             e == (s - 1) * t
  <2>1. k \in Levels /\ L \in Levels /\ L \in 2 .. L /\ k # L
    BY <1>1, LevelFacts
  <2>2. UpdatesRequired(k) \in {4, 6, 9, 11, 14}
    <3>1. Height(k) \in {5, 10, 15, 20, 25} /\ Shape[k].sub = 2
      BY <1>1, <2>1 DEF LibraryShape
    <3>2. UpdatesRequired(k) = ((Height(k) + 2 - 1) \div 2) + 1
      BY <3>1 DEF UpdatesRequired, Sublevels
    <3> HIDE DEF k
    <3> QED BY <3>1, <3>2
  <2>3. /\ s \in 1 .. 25 /\ t \in Nat /\ t >= 2
        /\ e < Height(L) /\ Height(L) <= s * t /\ Height(L) \in {5, 10, 15, 20, 25}
    BY <1>1, <2>1, SublevelsFacts, ShapeFacts DEF LibraryShape
  <2>4. UpdatesGenerated(L) = 2 ^ e
    BY <1>1, <2>3 DEF UpdatesGenerated
  <2>5. 2 ^ e >= UpdatesRequired(k)
    BY <2>1, <2>4, ShapeAssumption
  <2>6. s > 1
    BY <1>1
  <2> HIDE DEF k, s, t, e
  <2>7. e \in Nat /\ e >= 3
    <3>1. s * t = e + t /\ e \in Nat
      BY <2>3 DEF e
    <3>2. CASE s = 2
      <4>1. e = t
        BY <2>3, <3>2 DEF e
      <4> QED BY <2>3, <3>1, <4>1
    <3>3. CASE s >= 3
      <4>1. s - 1 >= 2 /\ s - 1 \in Nat
        BY <2>3, <3>3
      <4>2. (s - 1) * t >= 2 * t
        BY <2>3, <4>1
      <4> QED BY <2>3, <3>1, <4>2 DEF e
    <3> QED BY <2>3, <2>6, <3>2, <3>3
  <2>8. 2 ^ e \notin {4, 6, 9, 11, 14} /\ 2 ^ e \in Nat
    <3>1. e \in 3 .. 25
      BY <2>3, <2>7
    <3>2. CASE e = 3
      BY <3>2
    <3>3. CASE e >= 4
      <4>1. 2 ^ e >= 2 ^ 4 /\ 2 ^ e \in Nat
        BY <2>7, <3>3, PowerMonotone, PowerNat
      <4>2. 2 ^ 4 = 16
        OBVIOUS
      <4> QED BY <4>1, <4>2
    <3> QED BY <3>1, <3>2, <3>3
  <2> QED BY <2>2, <2>4, <2>5, <2>8 DEF k
<1>2. ASSUME \A i \in Levels : Height(i) = Height(1) PROVE SameNamesOnLoad
  <2>1. \A i \in 2 .. L : MaxIndex(i) = MaxIndex(i - 1)
    <3> TAKE i \in 2 .. L
    <3>1. Height(i) = Height(i - 1)
      BY <1>2, LevelFacts
    <3> QED BY <3>1 DEF MaxIndex, Leaves
  <2> QED BY <2>1 DEF SameNamesOnLoad, SameNames
<1> QED BY <1>1, <1>2 DEF EnoughUpdates
=============================================================================
