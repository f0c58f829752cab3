--------------------------- MODULE HssAllocProofs ---------------------------
(***************************************************************************)
(* What allocate_working_key plans, that nothing it allocates is lost, and *)
(* that it allocates what it planned, for any requests and sizes: the      *)
(* invariants follow its loops.                                            *)
(***************************************************************************)
EXTENDS HssAlloc, NumberFacts, TLAPS

Phases == {"idle", "signed_pk", "sizes", "search", "stack", "tree", "subtrees", "ready"}

\* The arguments and the counters of the loops.
Typed ==
  /\ pc \in Phases
  /\ pc # "idle" => request \in Requests /\ request.levels \in 1 .. MAX_HSS_LEVELS
  /\ mem_target \in Int
  /\ subtree_size \in [0 .. MAX_HSS_LEVELS - 1 -> Nat]
  /\ i \in Nat /\ j \in Nat /\ k \in 0 .. NUM_SUBTREE - 1
  /\ pc = "idle" => i = 0 /\ k = 0 /\ j = 0
  /\ pc \in {"signed_pk", "tree"} => i <= request.levels
  /\ pc \in {"sizes", "subtrees"} => i <= Bottom
  /\ pc \in {"idle", "signed_pk", "sizes"} => best.status = "nothing_yet"

\* The levels above the bottom have subtrees of the smallest size.
Settled ==
  /\ pc = "sizes" => \A l \in 0 .. i - 1 : subtree_size[l] = hss_smallest_subtree_size
  /\ pc = "search" \/ Planned =>
       \A l \in 0 .. Bottom - 1 : subtree_size[l] = hss_smallest_subtree_size
  /\ Planned => subtree_size[Bottom] \in MIN_SUBTREE .. height(Bottom)

\* Is size s no better than c, which fits or not like s, or better than s in this?
NoBetter(s, c) ==
  IF Fits(s) THEN /\ Fits(c)
                  /\ Sublevels(height(Bottom), c) <= Sublevels(height(Bottom), s)
                  /\ Sublevels(height(Bottom), c) = Sublevels(height(Bottom), s)
                       => Usage(c) <= Usage(s)
  ELSE Fits(c) \/ Usage(c) <= Usage(s)

\* The loop has found the best of the sizes below j.
BestSoFar ==
  pc = "search" =>
    /\ j \in MIN_SUBTREE .. height(Bottom) + 1
    /\ \/ /\ best.status = "nothing_yet"
          /\ \A s \in MIN_SUBTREE .. j - 1 : ~Allowed(s)
       \/ /\ best.status \in {"found_overbudget", "found_plenty_memory"}
          /\ best.j \in MIN_SUBTREE .. j - 1
          /\ Allowed(best.j)
          /\ best.mem = Usage(best.j)
          /\ best.levels = Sublevels(height(Bottom), best.j)
          /\ best.status = "found_plenty_memory" <=> Fits(best.j)
          /\ \A s \in MIN_SUBTREE .. j - 1 : Allowed(s) => NoBetter(s, best.j)

IInv == Typed /\ Settled /\ BestSoFar /\ (Planned => FastestThatFits)

\* What the loops of hss_free_working_key come by if no level but the top one may be lost.
Reachable ==
  {<<"key">>, <<"stack">>}
  \cup {<<"signed_pk", l>> : l \in 1 .. MAX_HSS_LEVELS - 2}
  \cup {<<"tree", l>> : l \in 0 .. MAX_HSS_LEVELS - 1}
  \cup {<<"subtree", l, t, x>> : l \in 0 .. MAX_HSS_LEVELS - 1, t \in 0 .. MAX_SUBLEVELS - 1,
                                 x \in 0 .. NUM_SUBTREE - 1}

HeapInv == heap \subseteq Reachable /\ (pc = "idle" => heap = {})
-----------------------------------------------------------------------------
\* No tree has more sublevels than there is room for.
LEMMA SublevelsRange ==
  ASSUME NEW h \in Heights, NEW s \in MIN_SUBTREE .. h
  PROVE  Sublevels(h, s) \in 1 .. MAX_SUBLEVELS
<1>1. h \in 5 .. 25 /\ s \in 2 .. h
  BY DEF Heights, MIN_SUBTREE
<1>2. (h + s - 1) \div s \in 1 .. 13
  BY <1>1
<1>3. MAX_SUBLEVELS = 13
  BY DEF MAX_SUBLEVELS, MAX_MERKLE_HEIGHT, MIN_SUBTREE
<1> QED BY <1>2, <1>3 DEF Sublevels

\* What the sublevels below the top one leave to it.
LEMMA TopHeight ==
  ASSUME NEW h \in Heights, NEW s \in MIN_SUBTREE .. h
  PROVE  /\ h \in Nat /\ s \in Nat /\ Sublevels(h, s) - 1 \in Nat
         /\ h - (Sublevels(h, s) - 1) * s \in Nat
<1> DEFINE q == Sublevels(h, s)
<1>1. h \in Nat /\ s \in Nat /\ s > 0
  BY DEF Heights, MIN_SUBTREE
<1>2. q \in Nat /\ q - 1 \in Nat
  <2>1. q \in 1 .. MAX_SUBLEVELS
    BY SublevelsRange
  <2> HIDE DEF q
  <2> QED BY <2>1
<1>3. s * q <= h + s - 1
  <2> DEFINE m == h + s - 1
  <2>1. m \in Int /\ q = m \div s
    BY <1>1 DEF Sublevels
  <2> HIDE DEF m, q
  <2>2. m % s \in 0 .. s - 1 /\ m = s * q + (m % s)
    BY <1>1, <2>1, DivMod
  <2>3. s * q <= m
    BY <1>1, <1>2, <2>1, <2>2
  <2> QED BY <2>3 DEF m
<1> HIDE DEF q
<1>4. s * q \in Int /\ (q - 1) * s = s * q - s
  BY <1>1, <1>2
<1>5. h - (q - 1) * s \in Nat
  BY <1>1, <1>3, <1>4
<1> QED BY <1>1, <1>2, <1>5 DEF q

\* The memory of a subtree is a number.
LEMMA SubtreeBytesNat == \A a \in Nat : SubtreeBytes(a) \in Nat
<1> TAKE a \in Nat
<1> DEFINE p == 2 ^ (a + 1)
<1>1. p \in Nat /\ p >= 1
  BY PowerPositive
<1>2. SizeofSubtree \in Nat /\ HashSize \in Nat
  BY AllocAssumption
<1>3. SubtreeBytes(a) = SizeofSubtree + HashSize * (p - 1)
  BY DEF SubtreeBytes
<1> HIDE DEF p
<1>4. p - 1 \in Nat /\ HashSize * (p - 1) \in Nat
  BY <1>1, <1>2
<1> QED BY <1>2, <1>3, <1>4

\* and that of a level.
LEMMA UsageIsInt ==
  ASSUME NEW h \in Heights, NEW s \in MIN_SUBTREE .. h, NEW l \in Nat
  PROVE  /\ compute_level_memory_usage(l, s, h) \in Int
         /\ StackTotal(l, s, h) \in Int
<1> DEFINE below == Sublevels(h, s) - 1
<1>1. below \in Nat /\ s \in Nat /\ h \in Nat
  BY SublevelsRange DEF Heights, MIN_SUBTREE
<1>2. /\ HashSize \in Nat /\ SizeofLevel \in Nat /\ SizeofSubtree \in Nat
      /\ MALLOC_OVERHEAD \in Nat
  BY AllocAssumption
<1>3. NumSubtrees(l, 0) \in Nat /\ NumSubtrees(l, 1) \in Nat
  BY DEF NumSubtrees
<1>4. SubtreeBytes(s) \in Nat /\ SubtreeBytes(h - below * s) \in Nat
  BY TopHeight, SubtreeBytesNat
<1>5. SubtreeBytes(s) \in Int /\ SubtreeBytes(h - below * s) \in Int
  BY <1>4
<1>6. (below * (below - 1)) \div 2 \in Int
  BY <1>1
<1>7. StackTotal(l, s, h) = (NumSubtrees(l, 1) - 1) * HashSize * s * ((below * (below - 1)) \div 2)
                              + (NumSubtrees(l, 0) - 1) * HashSize * s * below
  BY DEF StackTotal
<1>8. StackTotal(l, s, h) \in Int
  BY <1>1, <1>2, <1>3, <1>6, <1>7
<1>9. compute_level_memory_usage(l, s, h)
        = SizeofLevel + MALLOC_OVERHEAD
            + below * NumSubtrees(l, 1) * (SubtreeBytes(s) + MALLOC_OVERHEAD)
            + NumSubtrees(l, 0) * (SubtreeBytes(h - below * s) + MALLOC_OVERHEAD)
            + StackTotal(l, s, h)
  BY DEF compute_level_memory_usage
<1> HIDE DEF below
<1> QED BY <1>1, <1>2, <1>3, <1>5, <1>8, <1>9

\* With the smallest subtrees a tree of any height generates 16 updates.
LEMMA SmallestGenerates ==
  ASSUME NEW h \in Heights
  PROVE  compute_updates_generated(h, hss_smallest_subtree_size) >= 16
<1> USE DEF hss_smallest_subtree_size
<1>1. compute_updates_generated(5, 2) >= 16
  BY DEF compute_updates_generated, Sublevels
<1>2. compute_updates_generated(10, 2) >= 16
  BY DEF compute_updates_generated, Sublevels
<1>3. compute_updates_generated(15, 2) >= 16
  BY DEF compute_updates_generated, Sublevels
<1>4. compute_updates_generated(20, 2) >= 16
  BY DEF compute_updates_generated, Sublevels
<1>5. compute_updates_generated(25, 2) >= 16
  BY DEF compute_updates_generated, Sublevels
<1> QED BY <1>1, <1>2, <1>3, <1>4, <1>5 DEF Heights

\* That is enough for any tree above it.
LEMMA UpperIsSmallest ==
  ASSUME NEW h \in Heights, NEW g \in Heights
  PROVE  /\ compute_updates_generated(h, hss_smallest_subtree_size) \in Int
         /\ compute_updates_required(g, hss_smallest_subtree_size) \in Int
         /\ compute_updates_generated(h, hss_smallest_subtree_size)
              >= compute_updates_required(g, hss_smallest_subtree_size)
<1>1. compute_updates_required(g, 2) <= 14
  BY SublevelsRange DEF compute_updates_required, Heights, MIN_SUBTREE, MAX_SUBLEVELS,
                        MAX_MERKLE_HEIGHT
<1>2. compute_updates_generated(h, 2) >= 16
  BY SmallestGenerates DEF hss_smallest_subtree_size
<1>3. compute_updates_required(g, 2) \in Int /\ compute_updates_generated(h, 2) \in Int
  BY DEF compute_updates_required, compute_updates_generated, Sublevels, Heights
<1> QED BY <1>1, <1>2, <1>3 DEF hss_smallest_subtree_size

\* What a call of allocate_working_key has been given.
LEMMA RequestTyped ==
  ASSUME Typed, pc # "idle"
  PROVE  /\ Bottom \in 0 .. MAX_HSS_LEVELS - 1 /\ request.levels = Bottom + 1
         /\ request.memory_target \in Int
         /\ \A l \in 0 .. Bottom : height(l) \in Heights /\ request.lm_type[l].siglen \in Nat
         /\ PublicKeyLen \in Nat /\ MALLOC_OVERHEAD \in Nat
<1>1. request \in Requests /\ request.levels \in 1 .. 8
  BY DEF Typed, MAX_HSS_LEVELS
<1>2. request.lm_type \in [0 .. request.levels - 1 -> LmType] /\ request.memory_target \in Int
  BY <1>1, AllocAssumption
<1>3. PublicKeyLen \in Nat /\ MALLOC_OVERHEAD \in Nat
  BY AllocAssumption
<1> QED BY <1>1, <1>2, <1>3 DEF Bottom, height, LmType, MAX_HSS_LEVELS

\* Every level but the last gets the smallest subtrees.
LEMMA SizesOfUpperLevels ==
  ASSUME IInv, pc = "sizes", i < Bottom
  PROVE  UpperSize(i) = hss_smallest_subtree_size
<1>1. /\ i \in 0 .. Bottom /\ height(i) \in Heights
      /\ i # 0 => height(i - 1) \in Heights /\ i - 1 \in 0 .. i - 1
  BY RequestTyped DEF IInv, Typed
<1>2. i # 0 => UpdatesRequired(i) = compute_updates_required(height(i - 1), 2)
  BY <1>1 DEF IInv, Settled, UpdatesRequired, hss_smallest_subtree_size
<1>3. compute_updates_generated(height(i), 2) \in Int
      /\ compute_updates_generated(height(i), 2) >= 16
  BY <1>1, UpperIsSmallest, SmallestGenerates DEF hss_smallest_subtree_size
<1>4. CASE i = 0
  BY <1>3, <1>4 DEF UpdatesRequired, UpperSize, hss_smallest_subtree_size
<1>5. CASE i # 0
  BY <1>1, <1>2, <1>5, UpperIsSmallest DEF UpperSize, hss_smallest_subtree_size
<1> QED BY <1>4, <1>5

\* A subtree size fits or not as a difference of two numbers says.
LEMMA UsageOfBottom ==
  ASSUME Typed, pc # "idle", NEW s \in MIN_SUBTREE .. height(Bottom)
  PROVE  /\ Usage(s) \in Int
         /\ Sublevels(height(Bottom), s) \in 1 .. MAX_SUBLEVELS
         /\ Fits(s) <=> Usage(s) <= mem_target
<1>1. Bottom \in Nat /\ height(Bottom) \in Heights
  BY RequestTyped DEF MAX_HSS_LEVELS
<1> QED BY <1>1, SublevelsRange, UsageIsInt DEF Usage, Fits

-----------------------------------------------------------------------------
\* Steps.  A failure ends in the initial state, but for the error and the heap.
LEMMA FailResets ==
  ASSUME IInv, Reset
  PROVE  IInv'
<1>1. NoSizes \in [0 .. MAX_HSS_LEVELS - 1 -> Nat]
  BY DEF NoSizes
<1>2. Typed'
  BY <1>1 DEF Typed, Reset, NothingYet, Phases, NUM_SUBTREE
<1>3. Settled' /\ BestSoFar' /\ (Planned => FastestThatFits)'
  BY DEF Settled, BestSoFar, Planned, Reset
<1> QED BY <1>2, <1>3 DEF IInv

\* The terms of the search depend on the request, the budget and the level above only.
LEMMA SameMeaning ==
  ASSUME Typed, pc # "idle", UNCHANGED <<request, mem_target>>,
         Bottom # 0 => subtree_size'[Bottom - 1] = subtree_size[Bottom - 1]
  PROVE  /\ Bottom' = Bottom /\ height(Bottom)' = height(Bottom)
         /\ \A s : Allowed(s)' <=> Allowed(s)
         /\ \A s : Usage(s)' = Usage(s)
         /\ \A s : Fits(s)' <=> Fits(s)
<1>1. Bottom' = Bottom /\ \A l : height(l)' = height(l)
  BY DEF Bottom, height
<1>2. height(Bottom)' = height(Bottom)
  BY <1>1
<1>3. \A s : Usage(s)' = Usage(s)
  BY <1>1, <1>2 DEF Usage
<1>4. \A s : Fits(s)' <=> Fits(s)
  BY <1>3 DEF Fits
<1>5. UpdatesRequired(Bottom)' = UpdatesRequired(Bottom)
  BY <1>1 DEF UpdatesRequired
<1>6. \A s : Allowed(s)' <=> Allowed(s)
  BY <1>1, <1>2, <1>5 DEF Allowed
<1> QED BY <1>1, <1>2, <1>3, <1>4, <1>6

\* The types are kept.
LEMMA TypedStep ==
  ASSUME IInv, Next
  PROVE  Typed'
<1> USE DEF plan
<1>1. ASSUME NEW r \in Requests, Refused(r) \/ NoKey(r)
      PROVE  Typed'
  BY <1>1 DEF IInv, Typed, Refused, NoKey, Bottom
<1>2. ASSUME NEW r \in Requests, Begin(r)
      PROVE  Typed'
  <2>1. r.memory_target - (SizeofKey + MALLOC_OVERHEAD) \in Int /\ r.levels \in 1 .. MAX_HSS_LEVELS
    BY <1>2, AllocAssumption DEF Begin
  <2> QED BY <1>2, <2>1 DEF IInv, Typed, Begin, Phases, MAX_HSS_LEVELS
<1>3. CASE pc # "idle" /\ Reset
  BY <1>3, FailResets DEF IInv
<1> DEFINE Facts == /\ Bottom \in 0 .. MAX_HSS_LEVELS - 1 /\ request.levels = Bottom + 1
                    /\ \A l \in 0 .. Bottom : height(l) \in Heights
                    /\ \A l \in 0 .. Bottom : request.lm_type[l].siglen \in Nat
                    /\ PublicKeyLen \in Nat /\ MALLOC_OVERHEAD \in Nat
<1>4. pc # "idle" => Facts
  BY RequestTyped DEF IInv
<1> HIDE DEF Facts
<1>5. CASE TopLevel
  <2>1. pc = "signed_pk" /\ Facts
    BY <1>4, <1>5 DEF TopLevel
  <2> QED BY <1>5, <2>1 DEF Facts, IInv, Typed, TopLevel, Bottom
<1>6. CASE SignedPk /\ ~Reset
  <2>1. pc = "signed_pk" /\ Facts
    BY <1>4, <1>6 DEF SignedPk
  <2>2. request.lm_type[i - 1].siglen \in Nat
    BY <1>6, <2>1 DEF SignedPk, Facts
  <2>3. /\ mem_target' = mem_target - (request.lm_type[i - 1].siglen + PublicKeyLen + MALLOC_OVERHEAD)
        /\ i \in 1 .. Bottom /\ i' = i + 1
        /\ UNCHANGED <<pc, request, subtree_size, best, j, k>>
    BY <1>6, <2>1, <2>2 DEF SignedPk, OutOfMemory, Fail, Facts, IInv, Typed
  <2>4. mem_target' \in Int /\ i' <= request.levels
    BY <2>1, <2>2, <2>3 DEF Facts, IInv, Typed, MAX_HSS_LEVELS
  <2> QED BY <2>1, <2>3, <2>4 DEF IInv, Typed
<1>7. CASE AllSigned
  <2>1. pc = "signed_pk" /\ Facts
    BY <1>4, <1>7 DEF AllSigned
  <2> QED BY <1>7, <2>1 DEF Facts, IInv, Typed, AllSigned, Bottom, Phases
<1>8. CASE UpperLevel
  <2>1. pc = "sizes" /\ Facts
    BY <1>4, <1>8 DEF UpperLevel
  <2>2. UpperSize(i) = 2
    BY <1>8, SizesOfUpperLevels DEF UpperLevel, hss_smallest_subtree_size
  <2>3. compute_level_memory_usage(i, 2, height(i)) \in Int
    <3>1. i \in 0 .. Bottom /\ height(i) \in Heights
      BY <1>8, <2>1 DEF Facts, IInv, Typed, UpperLevel
    <3>2. 2 \in MIN_SUBTREE .. height(i)
      BY <3>1 DEF Heights, MIN_SUBTREE
    <3> QED BY <3>1, <3>2, UsageIsInt
  <2>4. mem_target' \in Int
    BY <1>8, <2>2, <2>3 DEF UpperLevel, IInv, Typed
  <2>5. subtree_size' \in [0 .. MAX_HSS_LEVELS - 1 -> Nat]
    BY <1>8, <2>1, <2>2 DEF UpperLevel, Facts, IInv, Typed, MAX_HSS_LEVELS
  <2>6. i' = i + 1 /\ UNCHANGED <<pc, request, best, j, k>>
    BY <1>8 DEF UpperLevel
  <2>7. i' <= Bottom /\ Bottom' = Bottom
    BY <1>8, <2>1, <2>6 DEF UpperLevel, Facts, IInv, Typed, MAX_HSS_LEVELS, Bottom
  <2> QED BY <2>1, <2>4, <2>5, <2>6, <2>7 DEF IInv, Typed
<1>9. CASE BottomLevel
  <2>1. pc = "sizes" /\ Facts
    BY <1>4, <1>9 DEF BottomLevel
  <2> QED BY <1>9, <2>1 DEF Facts, IInv, Typed, BottomLevel, Bottom, Phases, MIN_SUBTREE
<1>10. CASE Consider
  <2>1. pc = "search" /\ Facts
    BY <1>4, <1>10 DEF Consider
  <2>2. /\ j' = j + 1
        /\ UNCHANGED <<pc, request, mem_target, subtree_size, i, k>>
    BY <1>10 DEF Consider
  <2> QED BY <2>1, <2>2 DEF IInv, Typed
<1>11. CASE Found /\ ~Reset
  <2>1. pc = "search" /\ Facts
    BY <1>4, <1>11 DEF Found
  <2>2. best.j \in Nat
    BY <1>11, <2>1 DEF Found, Fail, IInv, BestSoFar, MIN_SUBTREE, Facts, Heights
  <2>3. subtree_size' \in [0 .. MAX_HSS_LEVELS - 1 -> Nat]
    BY <1>11, <2>1, <2>2 DEF Found, Fail, Facts, IInv, Typed
  <2>4. /\ pc' = "stack" /\ j' = 0
        /\ UNCHANGED <<request, mem_target, i, k>>
    BY <1>11 DEF Found, Fail
  <2> QED BY <2>1, <2>3, <2>4 DEF IInv, Typed, Phases
<1>12. CASE (Stack \/ Tree) /\ ~Reset
  <2>1. pc \in {"stack", "tree"} /\ Facts
    BY <1>4, <1>12 DEF Stack, Tree
  <2>2. UNCHANGED <<request, mem_target, subtree_size, best, j, k>>
    BY <1>12 DEF Stack, Tree, OutOfMemory, Fail
  <2>3. \/ pc' = "tree" /\ i' = 0
        \/ pc' = "subtrees" /\ i' = i /\ i < request.levels
    BY <1>12 DEF Stack, Tree, OutOfMemory, Fail
  <2>4. i' \in Nat /\ Bottom' = Bottom
    BY <2>2, <2>3 DEF IInv, Typed, Bottom
  <2>5. /\ pc' = "tree" => i' <= request.levels
        /\ pc' = "subtrees" => i' <= Bottom
    BY <2>1, <2>3, <2>4 DEF Facts, IInv, Typed
  <2> QED BY <2>1, <2>2, <2>3, <2>4, <2>5 DEF IInv, Typed, Phases
<1>13. CASE (Skip \/ Subtree) /\ ~Reset
  <2>1. pc = "subtrees" /\ Facts
    BY <1>4, <1>13 DEF Skip, Subtree, InSubtrees
  <2>2. NextSlot
    BY <1>13 DEF Skip, Subtree, OutOfMemory, Fail
  <2>3. j' \in Nat /\ k' \in 0 .. NUM_SUBTREE - 1
    BY <2>2 DEF NextSlot, IInv, Typed, NUM_SUBTREE
  <2>4. UNCHANGED <<pc, request, mem_target, subtree_size, best, i>>
    BY <1>13 DEF Skip, Subtree, OutOfMemory, Fail
  <2>5. Bottom' = Bottom
    BY <2>4 DEF Bottom
  <2> QED BY <2>1, <2>3, <2>4, <2>5 DEF IInv, Typed
<1>14. CASE TreeDone
  <2>1. pc = "subtrees" /\ Facts
    BY <1>4, <1>14 DEF TreeDone
  <2> QED BY <1>14, <2>1 DEF Facts, IInv, Typed, TreeDone, Bottom, Phases
<1>15. CASE SanityCheck /\ ~Reset
  BY <1>15 DEF IInv, Typed, SanityCheck, Fail, Bottom, Phases
<1>16. CASE UnknownType \/ Free
  BY <1>16, <1>3 DEF UnknownType, Free, Fail
<1> QED
  BY <1>1, <1>2, <1>3, <1>5, <1>6, <1>7, <1>8, <1>9, <1>10, <1>11, <1>12, <1>13, <1>14, <1>15, <1>16
  DEF Next, SignedPk, Found, Stack, Tree, Skip, Subtree, SanityCheck, InSubtrees

\* From the plan on nothing of it changes.
LEMMA PlanKept ==
  ASSUME IInv, Next, Planned, Planned'
  PROVE  UNCHANGED plan
BY DEF Next, Planned, Refused, NoKey, Begin, TopLevel, UnknownType, SignedPk, AllSigned, UpperLevel,
       BottomLevel, Consider, Found, Stack, Tree, Skip, Subtree, InSubtrees, TreeDone, SanityCheck,
       Free, OutOfMemory, Fail, Reset

\* The plan is made when the search ends, and the search starts at the bottom level.
LEMMA PlanMade ==
  ASSUME IInv, Next, ~Planned, Planned'
  PROVE  Found /\ pc' = "stack"
BY DEF IInv, Typed, Phases, Next, Planned, Refused, NoKey, Begin, TopLevel, UnknownType, SignedPk,
       AllSigned, UpperLevel, BottomLevel, Consider, Found, Stack, Tree, Skip, Subtree, InSubtrees,
       TreeDone, SanityCheck, Free, OutOfMemory, Fail, Reset

\* The search for the size of the last level begins where that level is reached,
LEMMA SearchStarts ==
  ASSUME IInv, Next, pc # "search", pc' = "search"
  PROVE  BottomLevel
BY DEF Next, Refused, NoKey, Begin, TopLevel, UnknownType, SignedPk, AllSigned, UpperLevel,
       Consider, Found, Stack, Tree, Skip, Subtree, InSubtrees, TreeDone, SanityCheck,
       Free, OutOfMemory, Fail, Reset

\* goes on with the next size,
LEMMA SearchGoesOn ==
  ASSUME IInv, Next, pc = "search", pc' = "search"
  PROVE  Consider
BY DEF Next, Refused, NoKey, Begin, TopLevel, UnknownType, SignedPk, AllSigned, UpperLevel,
       BottomLevel, Found, Stack, Tree, Skip, Subtree, InSubtrees, TreeDone, SanityCheck,
       Free, OutOfMemory, Fail, Reset

\* and no level is settled otherwise than one after the other.
LEMMA SizesSettled ==
  ASSUME IInv, Next, pc' = "sizes"
  PROVE  AllSigned \/ UpperLevel
BY DEF Next, Refused, NoKey, Begin, TopLevel, UnknownType, SignedPk, BottomLevel,
       Consider, Found, Stack, Tree, Skip, Subtree, InSubtrees, TreeDone, SanityCheck,
       Free, OutOfMemory, Fail, Reset

\* What the search has found when it ends.
LEMMA BestFound ==
  ASSUME IInv, Found, pc' = "stack"
  PROVE  /\ pc = "search"
         /\ best.j \in MIN_SUBTREE .. height(Bottom)
         /\ Allowed(best.j)
         /\ \A s \in MIN_SUBTREE .. height(Bottom) : Allowed(s) => NoBetter(s, best.j)
         /\ Bottom \in 0 .. MAX_HSS_LEVELS - 1
         /\ subtree_size' = [subtree_size EXCEPT ![Bottom] = best.j]
         /\ UNCHANGED <<request, mem_target>>
<1>1. pc = "search" /\ j > height(Bottom) /\ best.status # "nothing_yet"
  BY DEF Found, Fail, Reset
<1>2. Bottom \in 0 .. MAX_HSS_LEVELS - 1 /\ height(Bottom) \in Heights
  BY <1>1, RequestTyped DEF IInv, MAX_HSS_LEVELS
<1>3. j = height(Bottom) + 1
  BY <1>1, <1>2 DEF IInv, BestSoFar, Heights, MIN_SUBTREE
<1>4. MIN_SUBTREE .. j - 1 = MIN_SUBTREE .. height(Bottom)
  BY <1>2, <1>3 DEF Heights, MIN_SUBTREE
<1>5. UNCHANGED <<request, mem_target>> /\ subtree_size' = [subtree_size EXCEPT ![Bottom] = best.j]
  BY DEF Found, Fail, Reset
<1> QED BY <1>1, <1>2, <1>4, <1>5 DEF IInv, BestSoFar

\* A size that is settled stays, and is right for its level.
LEMMA SettledStep ==
  ASSUME IInv, Next
  PROVE  Settled'
<1>1. ASSUME pc' = "sizes"
      PROVE  \A l \in 0 .. i' - 1 : subtree_size'[l] = hss_smallest_subtree_size
  <2>1. CASE AllSigned
    BY <2>1 DEF AllSigned
  <2>2. CASE UpperLevel
    <3>1. /\ subtree_size' = [subtree_size EXCEPT ![i] = hss_smallest_subtree_size]
          /\ i' = i + 1 /\ pc = "sizes" /\ i < Bottom
      BY <2>2, SizesOfUpperLevels DEF UpperLevel
    <3>2. i \in 0 .. Bottom /\ Bottom \in 0 .. 7
      BY <3>1, RequestTyped DEF IInv, Typed, MAX_HSS_LEVELS
    <3>3. \A l \in 0 .. i' - 1 : l = i \/ l \in 0 .. i - 1
      BY <3>1, <3>2
    <3>4. \A l \in 0 .. i' - 1 : l \in 0 .. MAX_HSS_LEVELS - 1
      BY <3>1, <3>2 DEF MAX_HSS_LEVELS
    <3> QED BY <3>1, <3>3, <3>4 DEF IInv, Settled, Typed
  <2> QED BY <1>1, <2>1, <2>2, SizesSettled
<1>2. CASE pc # "search" /\ pc' = "search"
  BY <1>2, SearchStarts DEF BottomLevel, plan, IInv, Settled, Bottom, Planned
<1>3. CASE pc = "search" /\ pc' = "search"
  BY <1>3, SearchGoesOn DEF Consider, IInv, Settled, Bottom, Planned
<1>4. CASE Planned /\ Planned'
  BY <1>4, PlanKept DEF plan, IInv, Settled, Bottom, height, Planned
<1>5. CASE ~Planned /\ Planned'
  <2>1. Found /\ pc' = "stack"
    BY <1>5, PlanMade
  <2>2. Bottom' = Bottom /\ height(Bottom)' = height(Bottom)
    BY <2>1, BestFound DEF Bottom, height
  <2>3. subtree_size'[Bottom] = best.j
        /\ \A l \in 0 .. Bottom - 1 : subtree_size'[l] = subtree_size[l]
    BY <2>1, BestFound DEF IInv, Typed, MAX_HSS_LEVELS
  <2> QED BY <2>1, <2>2, <2>3, BestFound DEF IInv, Settled, Planned
<1> QED BY <1>1, <1>2, <1>3, <1>4, <1>5 DEF Settled, Planned

\* Replacing the best by an improvement on it, or by anything allowed if there was none.
LEMMA Improved ==
  ASSUME IInv, pc = "search", NEW s \in MIN_SUBTREE .. j - 1, Allowed(s),
         j <= height(Bottom), ~NoImprovement(j)
  PROVE  NoBetter(s, j)
<1>1. height(Bottom) \in Heights /\ j \in MIN_SUBTREE .. height(Bottom)
  BY RequestTyped DEF IInv, Typed, BestSoFar, Heights, MIN_SUBTREE, MAX_HSS_LEVELS
<1>2. s \in MIN_SUBTREE .. height(Bottom) /\ best.j \in MIN_SUBTREE .. height(Bottom)
  BY <1>1 DEF IInv, BestSoFar, Heights, MIN_SUBTREE
<1>3. /\ best.mem = Usage(best.j) /\ best.levels = Sublevels(height(Bottom), best.j)
      /\ best.status # "nothing_yet"
      /\ best.status = "found_plenty_memory" <=> Fits(best.j)
      /\ NoBetter(s, best.j)
  BY DEF IInv, BestSoFar
<1>4. \A x \in MIN_SUBTREE .. height(Bottom) :
        /\ Usage(x) \in Int /\ Sublevels(height(Bottom), x) \in Int
        /\ Fits(x) <=> Usage(x) <= mem_target
  BY UsageOfBottom DEF IInv, MAX_SUBLEVELS, MAX_MERKLE_HEIGHT, MIN_SUBTREE
<1>5. mem_target \in Int
  BY DEF IInv, Typed
<1>6. CASE Fits(j)
  BY <1>1, <1>2, <1>3, <1>4, <1>6 DEF NoImprovement, NoBetter
<1>7. CASE ~Fits(j)
  <2>1. Usage(j) <= Usage(best.j)
    BY <1>1, <1>2, <1>3, <1>4, <1>7 DEF NoImprovement
  <2>2. ~Fits(best.j)
    BY <1>1, <1>2, <1>4, <1>5, <1>7, <2>1
  <2> QED BY <1>1, <1>2, <1>3, <1>4, <2>1, <2>2 DEF NoBetter
<1> QED BY <1>6, <1>7

\* A size that is passed over is no better than the best one so far.
LEMMA NotImproved ==
  ASSUME IInv, pc = "search", j <= height(Bottom), NoImprovement(j)
  PROVE  best.status # "nothing_yet" /\ NoBetter(j, best.j)
<1>1. height(Bottom) \in Heights /\ j \in MIN_SUBTREE .. height(Bottom)
  BY RequestTyped DEF IInv, Typed, BestSoFar, Heights, MIN_SUBTREE, MAX_HSS_LEVELS
<1>2. best.status # "nothing_yet"
  BY DEF NoImprovement
<1>3. /\ best.mem = Usage(best.j) /\ best.levels = Sublevels(height(Bottom), best.j)
      /\ best.status = "found_plenty_memory" <=> Fits(best.j)
      /\ best.j \in MIN_SUBTREE .. height(Bottom)
  BY <1>1, <1>2 DEF IInv, BestSoFar, Heights, MIN_SUBTREE
<1>4. \A x \in MIN_SUBTREE .. height(Bottom) :
        Usage(x) \in Int /\ Sublevels(height(Bottom), x) \in Int
  BY UsageOfBottom DEF IInv, MAX_SUBLEVELS, MAX_MERKLE_HEIGHT, MIN_SUBTREE
<1> QED BY <1>1, <1>2, <1>3, <1>4 DEF NoImprovement, NoBetter

\* So the best one so far is better than all that were passed over,
LEMMA BestStep ==
  ASSUME IInv, Next
  PROVE  BestSoFar'
<1> SUFFICES ASSUME pc' = "search" PROVE BestSoFar'
  BY DEF BestSoFar
<1>1. CASE pc # "search"
  <2>1. BottomLevel /\ pc = "sizes"
    BY <1>1, SearchStarts DEF BottomLevel
  <2>2. best'.status = "nothing_yet" /\ j' = 2
    BY <2>1 DEF BottomLevel, plan, IInv, Typed, MIN_SUBTREE
  <2>3. height(Bottom)' = height(Bottom) /\ height(Bottom) \in Heights
    BY <2>1, RequestTyped DEF BottomLevel, plan, IInv, height, Bottom, MAX_HSS_LEVELS
  <2> QED BY <2>2, <2>3 DEF BestSoFar, MIN_SUBTREE, Heights
<1>2. CASE pc = "search"
  <2>1. /\ Consider /\ j <= height(Bottom) /\ j' = j + 1
        /\ UNCHANGED <<request, mem_target, subtree_size>>
    BY <1>2, SearchGoesOn DEF Consider
  <2>2. height(Bottom) \in Heights /\ j \in MIN_SUBTREE .. height(Bottom)
    BY <1>2, <2>1, RequestTyped DEF IInv, Typed, BestSoFar, Heights, MIN_SUBTREE, MAX_HSS_LEVELS
  <2>3. /\ height(Bottom)' = height(Bottom)
        /\ \A s : Allowed(s)' <=> Allowed(s)
        /\ \A s : Usage(s)' = Usage(s)
        /\ \A s : Fits(s)' <=> Fits(s)
    BY <1>2, <2>1, SameMeaning DEF IInv
  <2>4. \A s, c : NoBetter(s, c)' <=> NoBetter(s, c)
    BY <2>3 DEF NoBetter
  <2>5. /\ j' \in MIN_SUBTREE .. height(Bottom) + 1
        /\ \A s \in MIN_SUBTREE .. j' - 1 : s = j \/ s \in MIN_SUBTREE .. j - 1
        /\ \A s \in MIN_SUBTREE .. j - 1 : s \in MIN_SUBTREE .. j' - 1
        /\ j \in MIN_SUBTREE .. j' - 1
    BY <2>1, <2>2 DEF Heights, MIN_SUBTREE
  <2>6. CASE ~Allowed(j)
    <3>1. best' = best
      BY <2>1, <2>6 DEF Consider
    <3> QED BY <1>2, <2>3, <2>4, <2>5, <2>6, <3>1 DEF IInv, BestSoFar
  <2>7. CASE Allowed(j) /\ NoImprovement(j)
    <3>1. best' = best
      BY <2>1, <2>7 DEF Consider
    <3>2. best.status # "nothing_yet" /\ NoBetter(j, best.j)
      BY <1>2, <2>1, <2>7, NotImproved
    <3> QED BY <1>2, <2>3, <2>4, <2>5, <3>1, <3>2 DEF IInv, BestSoFar
  <2>8. CASE Allowed(j) /\ ~NoImprovement(j)
    <3>1. /\ best'.status = IF Fits(j) THEN "found_plenty_memory" ELSE "found_overbudget"
          /\ best'.j = j /\ best'.mem = Usage(j) /\ best'.levels = Sublevels(height(Bottom), j)
      BY <2>1, <2>8 DEF Consider
    <3>2. \A s \in MIN_SUBTREE .. j - 1 : Allowed(s) => NoBetter(s, j)
      BY <1>2, <2>1, <2>8, Improved
    <3>3. NoBetter(j, j)
      <4>1. Usage(j) \in Int /\ Sublevels(height(Bottom), j) \in Int
        BY <1>2, <2>2, UsageOfBottom DEF IInv, MAX_SUBLEVELS, MAX_MERKLE_HEIGHT, MIN_SUBTREE
      <4> QED BY <4>1 DEF NoBetter
    <3>4. \A s \in MIN_SUBTREE .. j' - 1 : Allowed(s) => NoBetter(s, j)
      BY <2>5, <3>2, <3>3
    <3> QED BY <2>3, <2>4, <2>5, <2>8, <3>1, <3>4 DEF BestSoFar
  <2> QED BY <2>6, <2>7, <2>8
<1> QED BY <1>1, <1>2

\* and at the end the best of all.
LEMMA FastestStep ==
  ASSUME IInv, Next, Planned'
  PROVE  FastestThatFits'
<1>1. CASE Planned
  <2>1. UNCHANGED plan /\ FastestThatFits
    BY <1>1, PlanKept DEF IInv
  <2> QED BY <2>1 DEF plan, FastestThatFits, Allowed, Usage, Fits, Bottom, height, UpdatesRequired
<1>2. CASE ~Planned
  <2>1. Found /\ pc' = "stack"
    BY <1>2, PlanMade
  <2>2. subtree_size'[Bottom] = best.j
        /\ (Bottom # 0 => subtree_size'[Bottom - 1] = subtree_size[Bottom - 1])
    BY <2>1, BestFound DEF IInv, Typed, MAX_HSS_LEVELS
  <2>3. /\ Bottom' = Bottom /\ height(Bottom)' = height(Bottom)
        /\ \A s : Allowed(s)' <=> Allowed(s)
        /\ \A s : Usage(s)' = Usage(s)
        /\ \A s : Fits(s)' <=> Fits(s)
    BY <2>1, <2>2, BestFound, SameMeaning DEF IInv
  <2>4. subtree_size[Bottom]' = best.j
    BY <2>2, <2>3
  <2> QED BY <2>1, <2>3, <2>4, BestFound DEF FastestThatFits, NoBetter
<1> QED BY <1>1, <1>2

\* It holds when the program starts,
LEMMA InvariantInit == Init => IInv
<1> SUFFICES ASSUME Init PROVE IInv
  OBVIOUS
<1>1. Typed
  BY DEF Init, Typed, NoSizes, NothingYet, Phases, NUM_SUBTREE
<1> QED BY <1>1 DEF Init, IInv, Settled, BestSoFar, Planned

\* and every step preserves it.
LEMMA InvariantNext == IInv /\ [Next]_vars => IInv'
<1> SUFFICES ASSUME IInv, [Next]_vars PROVE IInv'
  OBVIOUS
<1>1. CASE Next
  BY <1>1, TypedStep, SettledStep, BestStep, FastestStep DEF IInv
<1>2. CASE UNCHANGED vars
  <2>1. Typed' /\ Settled'
    BY <1>2 DEF vars, IInv, Typed, Settled, Planned, Bottom, height
  <2>2. BestSoFar'
    BY <1>2 DEF vars, IInv, BestSoFar, NoBetter, Allowed, Usage, Fits, Bottom, height, UpdatesRequired
  <2>3. (Planned => FastestThatFits)'
    BY <1>2 DEF vars, IInv, Planned, FastestThatFits, Allowed, Usage, Fits, Bottom, height,
                UpdatesRequired
  <2> QED BY <2>1, <2>2, <2>3 DEF IInv
<1> QED BY <1>1, <1>2

(* The invariant of the loops of allocate_working_key: sizes are settled from  *)
(* the top, and the search has the best of what it has considered.             *)
THEOREM Inductive == Spec => []IInv
BY InvariantInit, InvariantNext, PTL DEF Spec

(* Whatever the memory target, the key gets the shape that the comments before *)
(* the search describe, and every tree gets its updates from the one below it. *)
THEOREM ShapesAreRight == Spec => []WellShaped
<1>1. IInv => WellShaped
  <2> SUFFICES ASSUME IInv, Planned PROVE EnoughUpdates
    BY DEF IInv, WellShaped
  <2>1. /\ Bottom \in Nat /\ request.levels = Bottom + 1
        /\ \A l \in 0 .. Bottom : height(l) \in Heights
    BY RequestTyped DEF IInv, Planned, MAX_HSS_LEVELS
  <2>2. ASSUME NEW l \in 1 .. Bottom - 1
        PROVE  compute_updates_generated(height(l), subtree_size[l]) >= UpdatesRequired(l)
    <3>1. /\ subtree_size[l] = hss_smallest_subtree_size
          /\ subtree_size[l - 1] = hss_smallest_subtree_size
          /\ height(l) \in Heights /\ height(l - 1) \in Heights
      BY <2>1, <2>2 DEF IInv, Settled
    <3> QED BY <3>1, UpperIsSmallest DEF UpdatesRequired
  <2>3. ASSUME Bottom # 0
        PROVE  compute_updates_generated(height(Bottom), subtree_size[Bottom])
                 >= UpdatesRequired(Bottom)
    BY <2>1, <2>3 DEF IInv, FastestThatFits, Allowed
  <2>4. \A l \in 1 .. Bottom : l \in 1 .. Bottom - 1 \/ (l = Bottom /\ Bottom # 0)
    BY <2>1
  <2> QED BY <2>2, <2>3, <2>4 DEF EnoughUpdates
<1> QED BY <1>1, Inductive, PTL

\* The search ends with a size.
SearchSucceeds == pc = "search" /\ j > height(Bottom) => best.status # "nothing_yet"

LEMMA SomeSizeFound == IInv => SearchSucceeds
<1> SUFFICES ASSUME IInv, pc = "search", j > height(Bottom), best.status = "nothing_yet"
             PROVE  FALSE
  BY DEF SearchSucceeds
<1>1. /\ Bottom \in Nat /\ request.levels = Bottom + 1
      /\ \A l \in 0 .. Bottom : height(l) \in Heights
  BY RequestTyped DEF IInv, MAX_HSS_LEVELS
<1>2. 2 \in MIN_SUBTREE .. j - 1
  BY <1>1 DEF IInv, BestSoFar, Heights, MIN_SUBTREE
<1>3. ~Allowed(2)
  BY <1>2 DEF IInv, BestSoFar
<1>4. CASE request.levels = 1
  BY <1>3, <1>4 DEF Allowed, hss_smallest_subtree_size
<1>5. CASE request.levels # 1
  <2>1. Bottom # 0 /\ height(Bottom) \in Heights /\ height(Bottom - 1) \in Heights
    BY <1>1, <1>5
  <2>2. subtree_size[Bottom - 1] = hss_smallest_subtree_size
    BY <1>1, <1>5 DEF IInv, Settled
  <2> QED BY <1>3, <1>5, <2>1, <2>2, UpperIsSmallest
          DEF Allowed, UpdatesRequired, hss_smallest_subtree_size
<1> QED BY <1>4, <1>5

(* "This function will never fail beccause memory_target was too small": that  *)
(* nothing was found "can't really happen".                                    *)
THEOREM MemoryTargetIsAdvisory == Spec => []SearchSucceeds
BY SomeSizeFound, Inductive, PTL

-----------------------------------------------------------------------------
\* hss_free_working_key frees what its loops come by.
LEMMA FreedIfReachable ==
  ASSUME heap \subseteq Reachable
  PROVE  heap \ hss_free_working_key = {}
<1> SUFFICES ASSUME NEW b \in heap PROVE b \in hss_free_working_key
  OBVIOUS
<1>1. CASE b = <<"key">> \/ b = <<"stack">>
  <2>1. b[1] \in {"key", "stack"}
    BY <1>1
  <2> QED BY <2>1 DEF hss_free_working_key
<1>2. ASSUME NEW l \in 1 .. MAX_HSS_LEVELS - 2, b = <<"signed_pk", l>>
      PROVE  b \in hss_free_working_key
  <2>1. b[1] = "signed_pk" /\ b[2] < MAX_HSS_LEVELS - 1
    BY <1>2 DEF MAX_HSS_LEVELS
  <2> QED BY <2>1 DEF hss_free_working_key
<1>3. ASSUME NEW l \in 0 .. MAX_HSS_LEVELS - 1, b = <<"tree", l>>
      PROVE  b \in hss_free_working_key
  <2>1. b[1] = "tree" /\ b[2] < MAX_HSS_LEVELS
    BY <1>3 DEF MAX_HSS_LEVELS
  <2> QED BY <2>1 DEF hss_free_working_key
<1>4. ASSUME NEW l \in 0 .. MAX_HSS_LEVELS - 1, NEW t \in 0 .. MAX_SUBLEVELS - 1,
             NEW x \in 0 .. NUM_SUBTREE - 1, b = <<"subtree", l, t, x>>
      PROVE  b \in hss_free_working_key
  <2>1. b[1] = "subtree" /\ b[2] < MAX_HSS_LEVELS /\ b[3] < MAX_SUBLEVELS /\ b[4] < 3
    BY <1>4 DEF MAX_HSS_LEVELS, MAX_SUBLEVELS, MAX_MERKLE_HEIGHT, MIN_SUBTREE, NUM_SUBTREE
  <2> QED BY <2>1 DEF hss_free_working_key
<1> QED BY <1>1, <1>2, <1>3, <1>4 DEF Reachable

\* Below MAX_HSS_LEVELS levels they come by everything that was allocated.
LEMMA HeapStep ==
  ASSUME \A r \in Requests : r.levels < MAX_HSS_LEVELS,
         IInv, HeapInv, [Next]_vars
  PROVE  HeapInv'
<1>1. CASE Reset /\ heap' = heap \ hss_free_working_key
  BY <1>1, FreedIfReachable DEF HeapInv, Reset
<1>2. CASE \E block \in Reachable : pc' # "idle" /\ Malloc(block)
  BY <1>2 DEF HeapInv, Malloc
<1>3. CASE heap' = heap /\ (pc' = "idle" => pc = "idle")
  BY <1>3 DEF HeapInv
<1>4. \A r \in Requests : Refused(r) \/ NoKey(r) => heap' = heap /\ pc' = pc
  BY DEF Refused, NoKey
<1>5. \A r \in Requests : Begin(r) => pc' # "idle" /\ Malloc(<<"key">>)
  BY DEF Begin
<1>6. ASSUME SignedPk, ~Reset
      PROVE  \E block \in Reachable : pc' # "idle" /\ Malloc(block)
  <2>1. pc' = "signed_pk" /\ Malloc(<<"signed_pk", i>>) /\ i \in 1 .. Bottom
    BY <1>6 DEF SignedPk, OutOfMemory, Fail
  <2>2. request \in Requests /\ request.levels \in 1 .. MAX_HSS_LEVELS
    BY <1>6 DEF SignedPk, IInv, Typed
  <2>3. i \in 1 .. MAX_HSS_LEVELS - 2
    BY <2>1, <2>2 DEF Bottom, MAX_HSS_LEVELS
  <2> QED BY <2>1, <2>3 DEF Reachable
<1>7. ASSUME Stack, ~Reset
      PROVE  pc' # "idle" /\ (Malloc(<<"stack">>) \/ heap' = heap)
  BY <1>7 DEF Stack, OutOfMemory, Fail
<1>8. ASSUME Tree, ~Reset
      PROVE  \E block \in Reachable : pc' # "idle" /\ Malloc(block)
  <2>1. pc' # "idle" /\ Malloc(<<"tree", i>>) /\ i < request.levels /\ pc = "tree"
    BY <1>8 DEF Tree, OutOfMemory, Fail
  <2>2. i \in 0 .. MAX_HSS_LEVELS - 1
    BY <2>1 DEF IInv, Typed, MAX_HSS_LEVELS
  <2> QED BY <2>1, <2>2 DEF Reachable
<1>9. ASSUME Subtree, ~Reset
      PROVE  \E block \in Reachable : pc' # "idle" /\ Malloc(block)
  <2>1. /\ pc' # "idle" /\ Malloc(<<"subtree", i, j, k>>) /\ pc = "subtrees"
        /\ j < Sublevels(height(i), subtree_size[i])
    BY <1>9 DEF Subtree, InSubtrees, OutOfMemory, Fail
  <2>2. /\ Bottom \in 0 .. MAX_HSS_LEVELS - 1 /\ i \in 0 .. Bottom
        /\ height(i) \in Heights
    BY <2>1, RequestTyped DEF IInv, Typed, MAX_HSS_LEVELS
  <2>3. subtree_size[i] \in MIN_SUBTREE .. height(i)
    <3>1. CASE i = Bottom
      BY <2>1, <3>1 DEF IInv, Settled, Planned
    <3>2. CASE i \in 0 .. Bottom - 1
      BY <2>1, <2>2, <3>2 DEF IInv, Settled, Planned, hss_smallest_subtree_size, Heights, MIN_SUBTREE
    <3> QED BY <2>2, <3>1, <3>2 DEF MAX_HSS_LEVELS
  <2>4. Sublevels(height(i), subtree_size[i]) \in 1 .. MAX_SUBLEVELS
    BY <2>2, <2>3, SublevelsRange
  <2>5. /\ i \in 0 .. MAX_HSS_LEVELS - 1 /\ j \in 0 .. MAX_SUBLEVELS - 1
        /\ k \in 0 .. NUM_SUBTREE - 1
    BY <2>1, <2>2, <2>4 DEF IInv, Typed, MAX_HSS_LEVELS, MAX_SUBLEVELS, MAX_MERKLE_HEIGHT, MIN_SUBTREE
  <2> QED BY <2>1, <2>5 DEF Reachable
<1>10. TopLevel \/ AllSigned \/ UpperLevel \/ BottomLevel \/ Consider \/ Skip \/ TreeDone
         => heap' = heap /\ (pc' = "idle" => pc = "idle")
  BY DEF TopLevel, AllSigned, UpperLevel, BottomLevel, Consider, Skip, TreeDone
<1>11. ASSUME Found \/ SanityCheck, ~Reset
       PROVE  heap' = heap /\ pc' # "idle"
  BY <1>11 DEF Found, SanityCheck, Fail
<1>12. ASSUME Next, Reset
       PROVE  heap' = heap \ hss_free_working_key \/ (heap' = heap /\ pc = "idle")
  BY <1>12 DEF Next, Reset, Refused, NoKey, Begin, TopLevel, UnknownType, SignedPk, AllSigned,
       UpperLevel, BottomLevel, Consider, Found, Stack, Tree, Skip, Subtree, InSubtrees, TreeDone,
       SanityCheck, Free, OutOfMemory, Fail
<1>13. <<"key">> \in Reachable /\ <<"stack">> \in Reachable
  BY DEF Reachable
<1>14. CASE UNCHANGED vars
  BY <1>3, <1>14 DEF vars
<1>15. CASE Next /\ Reset
  BY <1>1, <1>3, <1>12, <1>15
<1>16. CASE Next /\ ~Reset
  <2>1. ~UnknownType /\ ~Free
    BY <1>16 DEF UnknownType, Free, Fail
  <2> QED BY <1>2, <1>3, <1>4, <1>5, <1>6, <1>7, <1>8, <1>9, <1>10, <1>11, <1>13, <1>16, <2>1 DEF Next
<1> QED BY <1>14, <1>15, <1>16

(* With fewer than MAX_HSS_LEVELS levels everything is freed: no index goes    *)
(* past the loops of hss_free_working_key, whatever the sizes of the subtrees. *)
THEOREM FewerLevelsAreFreed ==
  (\A r \in Requests : r.levels < MAX_HSS_LEVELS) => (Spec => []NothingLeaks)
<1> SUFFICES ASSUME \A r \in Requests : r.levels < MAX_HSS_LEVELS
             PROVE  Spec => []NothingLeaks
  OBVIOUS
<1>1. Init => HeapInv
  BY DEF Init, HeapInv
<1>2. IInv /\ HeapInv /\ [Next]_vars => HeapInv'
  BY HeapStep
<1>3. HeapInv => NothingLeaks
  BY DEF HeapInv, NothingLeaks
<1> QED BY <1>1, <1>2, <1>3, Inductive, PTL DEF Spec

-----------------------------------------------------------------------------
\* Sums over finite sets, which MapThenSumSet is one way to compute.

\* A measure of the subsets of U that adds up a number for each element.
Measures(g, U, F) ==
  /\ g \in [SUBSET U -> Int] /\ g[{}] = 0
  /\ \A s \in SUBSET U : \A x \in U \ s : g[s \cup {x}] = g[s] + F[x]

\* A finite set without one of its elements.
LEMMA OneLess ==
  ASSUME NEW U, IsFiniteSet(U), NEW T \in SUBSET U, NEW n \in Nat, Cardinality(T) = n + 1,
         NEW y \in T
  PROVE  T \ {y} \in SUBSET U /\ Cardinality(T \ {y}) = n /\ T = (T \ {y}) \cup {y}
<1>1. IsFiniteSet(T)
  BY FS_Subset
<1>2. Cardinality(T \ {y}) = Cardinality(T) - 1
  BY <1>1, FS_RemoveElement
<1> QED BY <1>2

\* There is one for a finite set.
LEMMA MeasureExists ==
  ASSUME NEW F, NEW U, IsFiniteSet(U), \A x \in U : F[x] \in Int
  PROVE  \E g : Measures(g, U, F)
<1> DEFINE S == {n \in Nat : \A T \in SUBSET U : Cardinality(T) = n => \E g : Measures(g, T, F)}
<1>1. 0 \in S
  <2> SUFFICES ASSUME NEW T \in SUBSET U, Cardinality(T) = 0 PROVE \E g : Measures(g, T, F)
    OBVIOUS
  <2>1. T = {}
    BY FS_Subset, FS_EmptySet
  <2> DEFINE g == [s \in SUBSET T |-> 0]
  <2>2. g \in [SUBSET T -> Int] /\ g[{}] = 0
    OBVIOUS
  <2>3. \A s \in SUBSET T : \A x \in T \ s : g[s \cup {x}] = g[s] + F[x]
    BY <2>1
  <2>4. Measures(g, T, F)
    <3> HIDE DEF g
    <3> QED BY <2>2, <2>3 DEF Measures
  <2> QED BY <2>4
<1>2. \A n \in Nat : n \in S => n + 1 \in S
  <2> SUFFICES ASSUME NEW n \in Nat, n \in S, NEW T \in SUBSET U, Cardinality(T) = n + 1
               PROVE  \E g : Measures(g, T, F)
    OBVIOUS
  <2>1. IsFiniteSet(T) /\ T # {}
    BY FS_Subset, FS_EmptySet
  <2>2. PICK y \in T : TRUE
    BY <2>1
  <2> DEFINE R == T \ {y}
  <2>3. R \in SUBSET U /\ Cardinality(R) = n /\ y \notin R /\ T = R \cup {y}
    BY <2>2, OneLess
  <2>4. PICK h : Measures(h, R, F)
    <3> HIDE DEF R
    <3> QED BY <2>3
  <2>5. F[y] \in Int
    BY <2>2
  <2> DEFINE g == [s \in SUBSET T |-> h[s \ {y}] + (IF y \in s THEN F[y] ELSE 0)]
  <2> HIDE DEF R
  <2>6. \A s \in SUBSET T : s \ {y} \in SUBSET R
    BY <2>3
  <2>7. h \in [SUBSET R -> Int] /\ h[{}] = 0
        /\ \A s \in SUBSET R : \A x \in R \ s : h[s \cup {x}] = h[s] + F[x]
    BY <2>4 DEF Measures
  <2>8. g \in [SUBSET T -> Int]
    BY <2>5, <2>6, <2>7
  <2>9. g[{}] = 0
    <3>1. {} \in SUBSET T /\ {} \ {y} = {} /\ y \notin {}
      OBVIOUS
    <3> QED BY <2>7, <3>1
  <2>10. ASSUME NEW s \in SUBSET T, NEW x \in T \ s
         PROVE  g[s \cup {x}] = g[s] + F[x]
    <3>1. s \cup {x} \in SUBSET T /\ s \ {y} \in SUBSET R /\ h[s \ {y}] \in Int /\ F[x] \in Int
      BY <2>6, <2>7
    <3>2. CASE x = y
      <4>1. (s \cup {x}) \ {y} = s \ {y} /\ y \in s \cup {x} /\ y \notin s
        BY <3>2
      <4>2. g[s \cup {x}] = h[s \ {y}] + F[x] /\ g[s] = h[s \ {y}] + 0
        BY <3>1, <3>2, <4>1
      <4> HIDE DEF g
      <4> QED BY <3>1, <4>2
    <3>3. CASE x # y
      <4>1. (s \cup {x}) \ {y} = (s \ {y}) \cup {x} /\ (y \in s \cup {x} <=> y \in s) /\ x \in R \ (s \ {y})
        BY <2>3, <3>3
      <4>2. h[(s \cup {x}) \ {y}] = h[s \ {y}] + F[x]
        <5> DEFINE t == s \ {y}
        <5>1. t \in SUBSET R /\ x \in R \ t /\ h[t \cup {x}] = h[t] + F[x]
          BY <2>7, <3>1, <4>1
        <5> QED BY <4>1, <5>1
      <4>3. g[s \cup {x}] = h[s \ {y}] + F[x] + (IF y \in s THEN F[y] ELSE 0)
        BY <3>1, <4>1, <4>2
      <4>4. g[s] = h[s \ {y}] + (IF y \in s THEN F[y] ELSE 0)
        OBVIOUS
      <4> HIDE DEF g
      <4> QED BY <2>5, <3>1, <4>3, <4>4
    <3> QED BY <3>2, <3>3
  <2>11. Measures(g, T, F)
    <3> HIDE DEF g
    <3> QED BY <2>8, <2>9, <2>10 DEF Measures
  <2> QED BY <2>11
<1>3. \A n \in Nat : n \in S
  <2> HIDE DEF S
  <2> QED BY <1>1, <1>2, Induction
<1>4. Cardinality(U) \in Nat /\ U \in SUBSET U
  BY FS_CardinalityType
<1> QED BY <1>3, <1>4

\* A fold that takes the elements in the order in which Ch chooses them.
Folds(iter, Ch, U, F) ==
  /\ \A s \in SUBSET U : s # {} => Ch[s] \in s
  /\ \A s \in SUBSET U : iter[s] = IF s = {} THEN 0 ELSE F[Ch[s]] + iter[s \ {Ch[s]}]

\* What a fold adds up, whatever elements it chooses first, is the measure.
LEMMA FoldIsMeasure ==
  ASSUME NEW F, NEW U, IsFiniteSet(U), \A x \in U : F[x] \in Int,
         NEW g, Measures(g, U, F),
         NEW iter, NEW Ch, Folds(iter, Ch, U, F)
  PROVE  iter[U] = g[U]
<1> USE DEF Folds
<1> DEFINE S == {n \in Nat : \A T \in SUBSET U : Cardinality(T) = n => iter[T] = g[T]}
<1>0. g \in [SUBSET U -> Int] /\ g[{}] = 0
      /\ \A s \in SUBSET U : \A x \in U \ s : g[s \cup {x}] = g[s] + F[x]
  BY DEF Measures
<1>1. 0 \in S
  <2> SUFFICES ASSUME NEW T \in SUBSET U, Cardinality(T) = 0 PROVE iter[T] = g[T]
    OBVIOUS
  <2>1. T = {}
    BY FS_Subset, FS_EmptySet
  <2> QED BY <1>0, <2>1
<1>2. \A n \in Nat : n \in S => n + 1 \in S
  <2> SUFFICES ASSUME NEW n \in Nat, n \in S, NEW T \in SUBSET U, Cardinality(T) = n + 1
               PROVE  iter[T] = g[T]
    OBVIOUS
  <2>1. IsFiniteSet(T) /\ T # {}
    BY FS_Subset, FS_EmptySet
  <2> DEFINE y == Ch[T]
             R == T \ {y}
  <2>2. y \in T
    <3>1. T \in SUBSET U
      OBVIOUS
    <3> QED BY <2>1, <3>1
  <2>3. R \in SUBSET U /\ Cardinality(R) = n /\ y \in U \ R /\ T = R \cup {y}
    <3>1. R \in SUBSET U /\ Cardinality(R) = n /\ T = R \cup {y}
      <4> HIDE DEF y
      <4> QED BY <2>2, OneLess
    <3> HIDE DEF y
    <3> QED BY <2>2, <3>1
  <2>4. iter[T] = F[y] + iter[R]
    BY <2>1
  <2> HIDE DEF y, R
  <2>5. iter[R] = g[R] /\ g[R] \in Int /\ F[y] \in Int
    BY <1>0, <2>3
  <2>6. g[T] = g[R] + F[y]
    BY <1>0, <2>3
  <2> QED BY <2>4, <2>5, <2>6
<1>3. \A n \in Nat : n \in S
  <2> HIDE DEF S
  <2> QED BY <1>1, <1>2, Induction
<1>4. Cardinality(U) \in Nat /\ U \in SUBSET U
  BY FS_CardinalityType
<1> QED BY <1>3, <1>4

Agree(F, G, U) == \A x \in U : F[x] \in Int /\ F[x] = G[x]

\* Measures agree where the numbers do.
LEMMA MeasureUnique ==
  ASSUME NEW F, NEW G, NEW V, IsFiniteSet(V), NEW U, U \in SUBSET V, Agree(F, G, U),
         NEW g, Measures(g, U, F), NEW h, Measures(h, V, G)
  PROVE  g[U] = h[U]
<1> USE DEF Agree
<1> DEFINE S == {n \in Nat : \A T \in SUBSET U : Cardinality(T) = n => g[T] = h[T]}
<1>0. /\ g \in [SUBSET U -> Int] /\ g[{}] = 0
      /\ \A s \in SUBSET U : \A x \in U \ s : g[s \cup {x}] = g[s] + F[x]
      /\ h \in [SUBSET V -> Int] /\ h[{}] = 0
      /\ \A s \in SUBSET V : \A x \in V \ s : h[s \cup {x}] = h[s] + G[x]
  BY DEF Measures
<1>1. IsFiniteSet(U)
  BY FS_Subset
<1>2. 0 \in S
  <2> SUFFICES ASSUME NEW T \in SUBSET U, Cardinality(T) = 0 PROVE g[T] = h[T]
    OBVIOUS
  <2>1. T = {}
    BY <1>1, FS_Subset, FS_EmptySet
  <2> QED BY <1>0, <2>1
<1>3. ASSUME NEW n \in Nat, n \in S
      PROVE  n + 1 \in S
  <2> SUFFICES ASSUME NEW T \in SUBSET U, Cardinality(T) = n + 1
               PROVE  g[T] = h[T]
    OBVIOUS
  <2>1. IsFiniteSet(T) /\ T # {}
    BY <1>1, FS_Subset, FS_EmptySet
  <2>2. PICK y \in T : TRUE
    BY <2>1
  <2> DEFINE R == T \ {y}
  <2>3. R \in SUBSET U /\ Cardinality(R) = n /\ T = R \cup {y}
    BY <1>1, <2>2, OneLess
  <2>4. y \in U \ R /\ y \in V \ R /\ R \in SUBSET V
    BY <2>2
  <2> HIDE DEF R
  <2>5. g[R] = h[R]
    BY <1>3, <2>3
  <2>6. g[R \cup {y}] = g[R] + F[y]
    BY <1>0, <2>3, <2>4
  <2>7. h[R \cup {y}] = h[R] + G[y]
    BY <1>0, <2>4
  <2>8. F[y] = G[y]
    BY <2>4
  <2> QED BY <2>3, <2>5, <2>6, <2>7, <2>8
<1>4. \A n \in Nat : n \in S
  <2> HIDE DEF S
  <2> QED BY <1>2, <1>3, Induction
<1>5. Cardinality(U) \in Nat /\ U \in SUBSET U
  BY <1>1, FS_CardinalityType
<1> QED BY <1>4, <1>5

\* The sum of the numbers of the elements of U.
SumOver(F, U) == (CHOOSE g : Measures(g, U, F))[U]

LEMMA SumIsMeasured ==
  ASSUME NEW F, NEW U, IsFiniteSet(U), \A x \in U : F[x] \in Int, NEW g, Measures(g, U, F)
  PROVE  SumOver(F, U) = g[U]
<1> DEFINE h == CHOOSE m : Measures(m, U, F)
<1>1. Measures(h, U, F)
  OBVIOUS
<1>2. SumOver(F, U) = h[U]
  BY DEF SumOver
<1>3. U \in SUBSET U
  OBVIOUS
<1> HIDE DEF h
<1>4. h[U] = g[U]
  <2>1. Agree(F, F, U)
    BY DEF Agree
  <2> QED BY <1>1, <1>3, <2>1, MeasureUnique
<1> QED BY <1>2, <1>4

\* It is a number, and zero if there are no elements.
LEMMA SumIsInt ==
  ASSUME NEW F, NEW U, IsFiniteSet(U), \A x \in U : F[x] \in Int
  PROVE  SumOver(F, U) \in Int
<1>1. PICK g : Measures(g, U, F)
  BY MeasureExists
<1>2. SumOver(F, U) = g[U]
  BY <1>1, SumIsMeasured
<1>3. g \in [SUBSET U -> Int] /\ U \in SUBSET U
  BY <1>1 DEF Measures
<1> QED BY <1>2, <1>3

LEMMA SumOfNone == \A F : SumOver(F, {}) = 0
<1> TAKE F
<1>1. IsFiniteSet({}) /\ \A x \in {} : F[x] \in Int
  BY FS_EmptySet
<1>2. PICK g : Measures(g, {}, F)
  BY <1>1, MeasureExists
<1>3. SumOver(F, {}) = g[{}]
  BY <1>1, <1>2, SumIsMeasured
<1> QED BY <1>2, <1>3 DEF Measures

\* The sum is that of the numbers of its elements only, whatever has other numbers.
LEMMA SumOfSame ==
  ASSUME NEW F, NEW G, NEW U, IsFiniteSet(U), Agree(F, G, U)
  PROVE  SumOver(F, U) = SumOver(G, U)
<1>1. (\A x \in U : F[x] \in Int) /\ (\A x \in U : G[x] \in Int) /\ U \in SUBSET U
  BY DEF Agree
<1>2. PICK g : Measures(g, U, F)
  BY <1>1, MeasureExists
<1>3. PICK h : Measures(h, U, G)
  BY <1>1, MeasureExists
<1>4. SumOver(F, U) = g[U] /\ SumOver(G, U) = h[U]
  BY <1>1, <1>2, <1>3, SumIsMeasured
<1>5. g[U] = h[U]
  BY <1>1, <1>2, <1>3, MeasureUnique
<1> QED BY <1>4, <1>5

\* One more element adds its number.
LEMMA SumOfOneMore ==
  ASSUME NEW F, NEW U, IsFiniteSet(U), NEW x, x \notin U, \A y \in U \cup {x} : F[y] \in Int
  PROVE  SumOver(F, U \cup {x}) = SumOver(F, U) + F[x]
<1> DEFINE V == U \cup {x}
<1>1. IsFiniteSet(V) /\ U \in SUBSET V /\ (\A y \in V : F[y] \in Int) /\ \A y \in U : F[y] \in Int
  BY FS_AddElement
<1>2. PICK g : Measures(g, U, F)
  BY <1>1, MeasureExists
<1>3. PICK h : Measures(h, V, F)
  <2> HIDE DEF V
  <2> QED BY <1>1, MeasureExists
<1>4. SumOver(F, U) = g[U] /\ SumOver(F, V) = h[V]
  <2> HIDE DEF V
  <2> QED BY <1>1, <1>2, <1>3, SumIsMeasured
<1>5. g[U] = h[U]
  <2>1. Agree(F, F, U)
    BY <1>1 DEF Agree
  <2> HIDE DEF V
  <2>2. IsFiniteSet(V) /\ U \in SUBSET V
    BY <1>1
  <2> QED BY <1>2, <1>3, <2>1, <2>2, MeasureUnique
<1>6. h[U \cup {x}] = h[U] + F[x]
  <2>1. U \in SUBSET V /\ x \in V \ U
    OBVIOUS
  <2> HIDE DEF V
  <2> QED BY <1>3, <2>1 DEF Measures
<1> QED BY <1>4, <1>5, <1>6

\* The sum that MapThenSumSet computes over the heap.
LEMMA SumOfHeap ==
  ASSUME NEW F, IsFiniteSet(heap), \A b \in heap : F[b] \in Int /\ F[b] = Bytes(b)
  PROVE  MapThenSumSet(Bytes, heap) = SumOver(F, heap)
<1> DEFINE Chosen(s) == CHOOSE x \in s : TRUE
           Equation(iter) ==
             iter = [s \in SUBSET heap |->
                       IF s = {} THEN 0 ELSE Bytes(Chosen(s)) + iter[s \ {Chosen(s)}]]
           sum == CHOOSE iter : Equation(iter)
<1>1. MapThenSumSet(Bytes, heap) = sum[heap]
  BY DEF MapThenSumSet, MapThenFoldSet
<1>2. PICK g : Measures(g, heap, F)
  BY MeasureExists
<1>3. \A s \in SUBSET heap : s # {} => Chosen(s) \in s
  OBVIOUS
<1>4. Equation(g)
  <2>1. g \in [SUBSET heap -> Int] /\ g[{}] = 0
        /\ \A s \in SUBSET heap : \A x \in heap \ s : g[s \cup {x}] = g[s] + F[x]
    BY <1>2 DEF Measures
  <2>2. ASSUME NEW s \in SUBSET heap, s # {}
        PROVE  g[s] = Bytes(Chosen(s)) + g[s \ {Chosen(s)}]
    <3> DEFINE x == Chosen(s)
               r == s \ {x}
    <3>1. x \in s
      BY <1>3, <2>2
    <3> HIDE DEF x
    <3>2. r \in SUBSET heap /\ x \in heap \ r /\ s = r \cup {x}
      BY <3>1
    <3>3. F[x] \in Int /\ F[x] = Bytes(x)
      BY <3>2
    <3> HIDE DEF r
    <3>4. g[r \cup {x}] = g[r] + F[x] /\ g[r] \in Int
      BY <2>1, <3>2
    <3>5. g[s] = Bytes(x) + g[r]
      BY <3>2, <3>3, <3>4
    <3> QED BY <3>5 DEF x, r
  <2>3. \A s \in SUBSET heap :
          g[s] = IF s = {} THEN 0 ELSE Bytes(Chosen(s)) + g[s \ {Chosen(s)}]
    <3> HIDE DEF Chosen
    <3> QED BY <2>1, <2>2
  <2> HIDE DEF Chosen
  <2> QED BY <2>1, <2>3
<1>5. Equation(sum)
  <2> HIDE DEF Equation
  <2> QED BY <1>4
<1>6. sum[heap] = g[heap]
  <2> DEFINE Ch == [s \in SUBSET heap |-> Chosen(s)]
  <2>1. \A s \in SUBSET heap : s # {} => Ch[s] \in s
    BY <1>3
  <2>2. ASSUME NEW s \in SUBSET heap
        PROVE  sum[s] = IF s = {} THEN 0 ELSE F[Ch[s]] + sum[s \ {Ch[s]}]
    <3>1. sum[s] = IF s = {} THEN 0 ELSE Bytes(Chosen(s)) + sum[s \ {Chosen(s)}]
      <4> HIDE DEF Chosen, sum
      <4> QED BY <1>5
    <3>2. Ch[s] = Chosen(s)
      <4> HIDE DEF Chosen
      <4> QED OBVIOUS
    <3>3. s # {} => F[Chosen(s)] = Bytes(Chosen(s))
      <4>1. s # {} => Chosen(s) \in heap
        BY <1>3
      <4> HIDE DEF Chosen
      <4> QED BY <4>1
    <3> HIDE DEF Chosen, sum, Ch
    <3> QED BY <3>1, <3>2, <3>3
  <2>3. \A x \in heap : F[x] \in Int
    OBVIOUS
  <2> HIDE DEF Chosen, sum, Ch
  <2>4. Folds(sum, Ch, heap, F)
    BY <2>1, <2>2 DEF Folds
  <2> QED BY <1>2, <2>3, <2>4, FoldIsMeasure
<1>7. SumOver(F, heap) = g[heap]
  BY <1>2, SumIsMeasured
<1> QED BY <1>1, <1>6, <1>7

-----------------------------------------------------------------------------
\* The subtrees of sublevel t of level l whose kind is below x, all and those with a stack.
Made(l, t, x) == (IF x > 0 THEN 1 ELSE 0) + (IF x > 1 /\ t > 0 THEN 1 ELSE 0)
                   + (IF x > 2 /\ l > 0 THEN 1 ELSE 0)
Stacked(l, t, x) == (IF x > 1 /\ t > 0 THEN 1 ELSE 0) + (IF x > 2 /\ l > 0 THEN 1 ELSE 0)

\* The subtrees of the top sublevel and of the other ones that come before kind x of t.
TopMade(l, t, x) == IF t = 0 THEN Made(l, 0, x) ELSE NumSubtrees(l, 0)
RestMade(l, t, x) == IF t = 0 THEN 0 ELSE (t - 1) * NumSubtrees(l, 1) + Made(l, 1, x)

\* The levels below them, of all with a stack: of m levels, counted in subtree sizes.
BelowTop(m, t) == (t - 1) * m - (t * (t - 1)) \div 2
LevelsStacked(l, m, t, x) ==
  IF t = 0 THEN Stacked(l, 0, x) * m
  ELSE (NumSubtrees(l, 0) - 1) * m + (NumSubtrees(l, 1) - 1) * BelowTop(m, t)
         + Stacked(l, 1, x) * (m - t)

Skips(l, t, x) == (t = 0 /\ x = BUILDING_TREE) \/ (x = NEXT_TREE /\ l = 0)

\* After the last kind of a sublevel comes the first one of the next.
LEMMA NextSublevel ==
  ASSUME NEW l \in Nat, NEW t \in Nat, NEW m \in Nat
  PROVE  /\ TopMade(l, t, 3) = TopMade(l, t + 1, 0)
         /\ RestMade(l, t, 3) = RestMade(l, t + 1, 0)
         /\ LevelsStacked(l, m, t, 3) = LevelsStacked(l, m, t + 1, 0)
<1>1. /\ Made(l, 0, 3) = NumSubtrees(l, 0) /\ Made(l, 1, 3) = NumSubtrees(l, 1)
      /\ Made(l, 1, 0) = 0 /\ Stacked(l, 1, 0) = 0
      /\ Stacked(l, 0, 3) = NumSubtrees(l, 0) - 1 /\ Stacked(l, 1, 3) = NumSubtrees(l, 1) - 1
      /\ NumSubtrees(l, 0) \in 1 .. 2 /\ NumSubtrees(l, 1) \in 2 .. 3
  BY DEF Made, Stacked, NumSubtrees
<1> DEFINE a == NumSubtrees(l, 0)
           b == NumSubtrees(l, 1)
<1>2. a \in Nat /\ b \in Nat
  BY <1>1
<1>3. t + 1 # 0 /\ t + 1 - 1 = t
  OBVIOUS
<1>4. TopMade(l, t, 3) = a /\ TopMade(l, t + 1, 0) = a
  BY <1>1, <1>3 DEF TopMade
<1> HIDE DEF a, b
<1>5. RestMade(l, t, 3) = RestMade(l, t + 1, 0)
  <2>1. RestMade(l, t, 3) = IF t = 0 THEN 0 ELSE (t - 1) * b + b
    BY <1>1 DEF RestMade, b
  <2>2. RestMade(l, t + 1, 0) = t * b + 0
    BY <1>1, <1>3 DEF RestMade, b
  <2>3. (t - 1) * b + b = t * b
    BY <1>2
  <2>4. t * b \in Nat /\ (t = 0 => t * b = 0)
    BY <1>2
  <2> HIDE DEF RestMade
  <2> QED BY <2>1, <2>2, <2>3, <2>4
<1>6. BelowTop(m, 1) = 0
  BY DEF BelowTop
<1>7. t # 0 => BelowTop(m, t + 1) = BelowTop(m, t) + (m - t)
  <2> DEFINE p == t * (t - 1)
             r == (t - 1) * m
  <2>1. p \in Int /\ r \in Int
    OBVIOUS
  <2>2. (t + 1) * t = p + 2 * t /\ t * m = r + m
    OBVIOUS
  <2>3. BelowTop(m, t) = r - p \div 2
    BY DEF BelowTop
  <2>4. BelowTop(m, t + 1) = t * m - ((t + 1) * t) \div 2
    BY <1>3 DEF BelowTop
  <2> HIDE DEF p, r
  <2>5. (p + 2 * t) \div 2 = p \div 2 + t /\ p \div 2 \in Int
    BY <2>1
  <2> QED BY <2>1, <2>2, <2>3, <2>4, <2>5
<1>8. \A u \in Nat \ {0} : BelowTop(m, u) \in Int
  <2> TAKE u \in Nat \ {0}
  <2>1. u * (u - 1) \in Int /\ (u - 1) * m \in Int
    OBVIOUS
  <2> QED BY <2>1 DEF BelowTop
<1>9. LevelsStacked(l, m, t, 3) = LevelsStacked(l, m, t + 1, 0)
  <2> DEFINE c == b - 1
             e == (a - 1) * m
  <2>0. c \in 1 .. 2 /\ e \in Int
    BY <1>1, <1>2 DEF b
  <2>1. LevelsStacked(l, m, t + 1, 0) = e + c * BelowTop(m, t + 1) + 0
    BY <1>1, <1>3 DEF LevelsStacked, a, b
  <2>2. t = 0 => LevelsStacked(l, m, t, 3) = e
    BY <1>1 DEF LevelsStacked, a
  <2>3. t # 0 => LevelsStacked(l, m, t, 3) = e + c * BelowTop(m, t) + c * (m - t)
    BY <1>1 DEF LevelsStacked, a, b
  <2> HIDE DEF c, e
  <2>4. CASE t = 0
    BY <1>6, <2>0, <2>1, <2>2, <2>4
  <2>5. CASE t # 0
    <3>1. BelowTop(m, t) \in Int /\ BelowTop(m, t + 1) = BelowTop(m, t) + (m - t)
      BY <1>7, <1>8, <2>5
    <3> DEFINE z == BelowTop(m, t)
    <3> HIDE DEF z
    <3>2. z \in Int /\ BelowTop(m, t + 1) = z + (m - t)
      BY <3>1 DEF z
    <3>3. c = 1 \/ c = 2
      BY <2>0
    <3> QED BY <2>0, <2>1, <2>3, <2>5, <3>2, <3>3 DEF z
  <2> QED BY <2>4, <2>5
<1> QED BY <1>4, <1>5, <1>9

\* A subtree that is made, or a kind that is skipped.
LEMMA NextKind ==
  ASSUME NEW l \in Nat, NEW t \in Nat, NEW m \in Nat, NEW x \in 0 .. NUM_SUBTREE - 1
  PROVE  /\ Skips(l, t, x) => /\ TopMade(l, t, x + 1) = TopMade(l, t, x)
                              /\ RestMade(l, t, x + 1) = RestMade(l, t, x)
                              /\ LevelsStacked(l, m, t, x + 1) = LevelsStacked(l, m, t, x)
         /\ ~Skips(l, t, x) =>
              /\ TopMade(l, t, x + 1) = TopMade(l, t, x) + (IF t = 0 THEN 1 ELSE 0)
              /\ RestMade(l, t, x + 1) = RestMade(l, t, x) + (IF t = 0 THEN 0 ELSE 1)
              /\ LevelsStacked(l, m, t, x + 1)
                   = LevelsStacked(l, m, t, x) + (IF x = ACTIVE_TREE THEN 0 ELSE m - t)
<1>1. x \in {0, 1, 2}
  BY DEF NUM_SUBTREE
<1>2. /\ Skips(l, t, x) => Made(l, t, x + 1) = Made(l, t, x) /\ Stacked(l, t, x + 1) = Stacked(l, t, x)
      /\ ~Skips(l, t, x) => /\ Made(l, t, x + 1) = Made(l, t, x) + 1
                            /\ Stacked(l, t, x + 1) = Stacked(l, t, x)
                                                        + (IF x = ACTIVE_TREE THEN 0 ELSE 1)
      /\ Made(l, t, x) \in Nat /\ Stacked(l, t, x) \in 0 .. 2
  BY <1>1 DEF Made, Stacked, Skips, BUILDING_TREE, NEXT_TREE, ACTIVE_TREE
<1>3. t # 0 => Made(l, 1, x) = Made(l, t, x) /\ Made(l, 1, x + 1) = Made(l, t, x + 1)
               /\ Stacked(l, 1, x) = Stacked(l, t, x) /\ Stacked(l, 1, x + 1) = Stacked(l, t, x + 1)
  BY DEF Made, Stacked
<1>4. NumSubtrees(l, 0) \in Nat /\ NumSubtrees(l, 1) \in Nat
  BY DEF NumSubtrees
<1> DEFINE rest == (t - 1) * NumSubtrees(l, 1)
           stacks == (NumSubtrees(l, 0) - 1) * m + (NumSubtrees(l, 1) - 1) * BelowTop(m, t)
           s == Stacked(l, t, x)
           d == m - t
<1>5. rest \in Int
  BY <1>4
<1>6. t # 0 => stacks \in Int
  <2>1. t * (t - 1) \in Int /\ (t - 1) * m \in Int
    OBVIOUS
  <2>2. BelowTop(m, t) \in Int
    BY <2>1 DEF BelowTop
  <2> QED BY <1>4, <2>2
<1>7. t = 0 => /\ LevelsStacked(l, m, t, x) = s * m
               /\ LevelsStacked(l, m, t, x + 1) = Stacked(l, t, x + 1) * m
  BY DEF LevelsStacked
<1>8. t # 0 => /\ LevelsStacked(l, m, t, x) = stacks + s * d
               /\ LevelsStacked(l, m, t, x + 1) = stacks + Stacked(l, t, x + 1) * d
  BY <1>3 DEF LevelsStacked
<1>9. /\ s \in 0 .. 2 /\ (s + 1) * m = s * m + m /\ (s + 1) * d = s * d + d
      /\ s * m \in Int /\ s * d \in Int
  <2>1. s \in 0 .. 2
    BY <1>2
  <2> HIDE DEF s
  <2> QED BY <2>1
<1>10. t = 0 => d = m
  OBVIOUS
<1>11. /\ TopMade(l, t, x) = IF t = 0 THEN Made(l, t, x) ELSE NumSubtrees(l, 0)
       /\ TopMade(l, t, x + 1) = IF t = 0 THEN Made(l, t, x + 1) ELSE NumSubtrees(l, 0)
       /\ RestMade(l, t, x) = IF t = 0 THEN 0 ELSE rest + Made(l, t, x)
       /\ RestMade(l, t, x + 1) = IF t = 0 THEN 0 ELSE rest + Made(l, t, x + 1)
  BY <1>3 DEF TopMade, RestMade
<1> HIDE DEF rest, stacks
<1>12. CASE Skips(l, t, x)
  <2>1. Stacked(l, t, x + 1) = s /\ Made(l, t, x + 1) = Made(l, t, x)
    BY <1>2, <1>12
  <2> QED BY <1>7, <1>8, <1>11, <1>12, <2>1
<1>13. CASE ~Skips(l, t, x)
  <2>1. /\ Made(l, t, x + 1) = Made(l, t, x) + 1
        /\ Stacked(l, t, x + 1) = s + (IF x = ACTIVE_TREE THEN 0 ELSE 1)
    BY <1>2, <1>13
  <2> HIDE DEF s
  <2>2. LevelsStacked(l, m, t, x + 1)
          = LevelsStacked(l, m, t, x) + (IF x = ACTIVE_TREE THEN 0 ELSE d)
    <3>1. CASE x = ACTIVE_TREE
      <4>1. Stacked(l, t, x + 1) = s
        BY <1>9, <2>1, <3>1
      <4>2. LevelsStacked(l, m, t, x + 1) = LevelsStacked(l, m, t, x)
        BY <1>7, <1>8, <4>1
      <4>3. LevelsStacked(l, m, t, x) \in Int
        BY <1>6, <1>7, <1>8, <1>9
      <4> QED BY <3>1, <4>2, <4>3
    <3>2. CASE x # ACTIVE_TREE
      <4>1. Stacked(l, t, x + 1) = s + 1
        BY <2>1, <3>2
      <4> DEFINE sm == s * m
                 sd == s * d
      <4>2. sm \in Int /\ sd \in Int /\ (s + 1) * m = sm + m /\ (s + 1) * d = sd + d /\ d \in Int
        BY <1>9
      <4>3. t = 0 => LevelsStacked(l, m, t, x) = sm /\ LevelsStacked(l, m, t, x + 1) = (s + 1) * m
        BY <1>7, <4>1
      <4>4. t # 0 => /\ LevelsStacked(l, m, t, x) = stacks + sd
                     /\ LevelsStacked(l, m, t, x + 1) = stacks + (s + 1) * d
        BY <1>8, <4>1
      <4> HIDE DEF d, sm, sd
      <4>5. t = 0 => LevelsStacked(l, m, t, x + 1) = LevelsStacked(l, m, t, x) + d
        BY <1>10, <4>2, <4>3
      <4>6. t # 0 => LevelsStacked(l, m, t, x + 1) = LevelsStacked(l, m, t, x) + d
        BY <1>6, <4>2, <4>4
      <4> QED BY <3>2, <4>5, <4>6
    <3> QED BY <3>1, <3>2
  <2>3. TopMade(l, t, x + 1) = TopMade(l, t, x) + (IF t = 0 THEN 1 ELSE 0)
    BY <1>2, <1>4, <1>11, <2>1
  <2>4. RestMade(l, t, x + 1) = RestMade(l, t, x) + (IF t = 0 THEN 0 ELSE 1)
    BY <1>2, <1>5, <1>11, <2>1
  <2> QED BY <1>13, <2>2, <2>3, <2>4
<1> QED BY <1>12, <1>13

-----------------------------------------------------------------------------
(* What was allocated takes what was computed for it.                        *)

\* The bytes of the subtrees of a level, of the top sublevel and of another one.
TopBytes(s, h) == SubtreeBytes(h - (Sublevels(h, s) - 1) * s) + MALLOC_OVERHEAD
RestBytes(s) == SubtreeBytes(s) + MALLOC_OVERHEAD

\* What is allocated of a tree before kind x of sublevel t, and its part of the stack.
TreeBytes(l, s, h, t, x) ==
  SizeofLevel + MALLOC_OVERHEAD + TopMade(l, t, x) * TopBytes(s, h) + RestMade(l, t, x) * RestBytes(s)
StackBytes(l, s, h, t, x) == HashSize * s * LevelsStacked(l, Sublevels(h, s) - 1, t, x)

WholeTree(l, s, h) == TreeBytes(l, s, h, Sublevels(h, s), 0)

Total == SumOver([b \in heap |-> Bytes(b)], heap)

\* The overhead that is accounted for a stack which is not there.
Unused == IF <<"stack">> \in heap THEN 0 ELSE MALLOC_OVERHEAD

Spent == request.memory_target - mem_target

\* The levels above the bottom, and all levels of a plan.
UpperTrees == [l \in 0 .. Bottom |-> WholeTree(l, hss_smallest_subtree_size, height(l))]
UpperStacks == [l \in 0 .. Bottom |-> StackTotal(l, hss_smallest_subtree_size, height(l))]
Trees == [l \in 0 .. Bottom |-> WholeTree(l, subtree_size[l], height(l))]
Stacks == [l \in 0 .. Bottom |-> StackTotal(l, subtree_size[l], height(l))]

\* While the plan is made, what was spent of the budget is allocated or is for a level that is
\* settled.
PlanBooks ==
  /\ pc \in {"idle", "signed_pk"} => stack_usage = 0
  /\ pc = "signed_pk" => Spent = Total
  /\ pc \in {"sizes", "search"} =>
       /\ Spent = Total + MALLOC_OVERHEAD + stack_usage + SumOver(UpperTrees, 0 .. i - 1)
       /\ stack_usage = SumOver(UpperStacks, 0 .. i - 1)
  /\ pc = "search" => /\ i = Bottom
                      /\ best.status # "nothing_yet" =>
                           best.stack = StackTotal(Bottom, best.j, height(Bottom))
  /\ pc \in {"idle", "signed_pk", "sizes", "search", "stack"} => stack_index = 0 /\ k = 0

\* When it is carried out, what was spent is allocated or is for the trees and subtrees to come.
Books ==
  /\ Planned => stack_usage = SumOver(Stacks, 0 .. Bottom)
  /\ pc = "stack" =>
       Spent + best.mem = Total + MALLOC_OVERHEAD + stack_usage + SumOver(Trees, 0 .. Bottom)
  /\ pc \in {"tree", "ready"} =>
       /\ Spent + best.mem
            = Total + Unused + SumOver(Trees, 0 .. Bottom) - SumOver(Trees, 0 .. i - 1)
       /\ stack_index = SumOver(Stacks, 0 .. i - 1)
  /\ pc = "subtrees" =>
       /\ Spent + best.mem
            = Total + Unused + SumOver(Trees, 0 .. Bottom) - SumOver(Trees, 0 .. i - 1)
                - TreeBytes(i, subtree_size[i], height(i), j, k)
       /\ stack_index = SumOver(Stacks, 0 .. i - 1) + StackBytes(i, subtree_size[i], height(i), j, k)
       /\ j <= Sublevels(height(i), subtree_size[i])
       /\ j = Sublevels(height(i), subtree_size[i]) => k = 0
  /\ pc \in {"stack", "tree"} => j = 0 /\ k = 0
  /\ pc = "ready" => i = request.levels
  /\ error # "internal"

\* A block is in the heap only if the loops have passed the place where it is allocated.
Carried == pc \in {"tree", "subtrees", "ready"}
SignedPkMade(l) == pc = "signed_pk" => l < i
TreeMade(l) == l < i \/ (pc = "subtrees" /\ l = i)
SubtreeMade(l, t, x) == l < i \/ (pc = "subtrees" /\ l = i /\ (t < j \/ (t = j /\ x < k)))

InPlace(b) ==
  \/ b = <<"key">>
  \/ \E l \in 1 .. Bottom : b = <<"signed_pk", l>> /\ SignedPkMade(l)
  \/ b = <<"stack">> /\ Carried
  \/ \E l \in 0 .. Bottom : b = <<"tree", l>> /\ Carried /\ TreeMade(l)
  \/ \E l \in 0 .. Bottom, t \in Nat, x \in Nat :
       b = <<"subtree", l, t, x>> /\ Carried /\ SubtreeMade(l, t, x)

HeapInPlace == IsFiniteSet(heap) /\ \A b \in heap : InPlace(b)

BooksInv == PlanBooks /\ Books /\ (pc # "idle" => HeapInPlace)

\* The numbers that the bytes of a level are made of.
LEMMA LevelTypes ==
  ASSUME NEW l \in Nat, NEW h \in Heights, NEW s \in MIN_SUBTREE .. h
  PROVE  /\ Sublevels(h, s) - 1 \in Nat /\ s \in Nat
         /\ TopBytes(s, h) \in Int /\ RestBytes(s) \in Int
         /\ \A t \in Nat : TopMade(l, t, 0) \in Int /\ RestMade(l, t, 0) \in Int
         /\ \A t \in Nat, x \in Nat : /\ TopMade(l, t, x) \in Int /\ RestMade(l, t, x) \in Int
                                      /\ LevelsStacked(l, Sublevels(h, s) - 1, t, x) \in Int
         /\ SizeofLevel \in Nat /\ MALLOC_OVERHEAD \in Nat /\ HashSize \in Nat
<1> DEFINE m == Sublevels(h, s) - 1
<1>1. m \in Nat /\ s \in Nat /\ h \in Nat
  BY SublevelsRange DEF Heights, MIN_SUBTREE
<1>2. /\ HashSize \in Nat /\ SizeofLevel \in Nat /\ SizeofSubtree \in Nat
      /\ MALLOC_OVERHEAD \in Nat
  BY AllocAssumption
<1>3. SubtreeBytes(s) \in Nat /\ SubtreeBytes(h - m * s) \in Nat
  BY TopHeight, SubtreeBytesNat
<1>4. TopBytes(s, h) = SubtreeBytes(h - m * s) + MALLOC_OVERHEAD
      /\ RestBytes(s) = SubtreeBytes(s) + MALLOC_OVERHEAD
  BY DEF TopBytes, RestBytes
<1>5. TopBytes(s, h) \in Int /\ RestBytes(s) \in Int
  BY <1>2, <1>3, <1>4
<1>6. /\ NumSubtrees(l, 0) \in Int /\ NumSubtrees(l, 1) \in Int
      /\ \A t \in Nat, x \in Nat : Made(l, t, x) \in Int /\ Stacked(l, t, x) \in Int
  BY DEF NumSubtrees, Made, Stacked
<1> HIDE DEF m
<1>7. \A t \in Nat : (t - 1) * NumSubtrees(l, 1) \in Int
  BY <1>6
<1>8. \A t \in Nat, x \in Nat : TopMade(l, t, x) \in Int /\ RestMade(l, t, x) \in Int
  BY <1>6, <1>7 DEF TopMade, RestMade
<1>9. \A t \in Nat : BelowTop(m, t) \in Int
  <2> TAKE t \in Nat
  <2>1. (t - 1) * m \in Int /\ t * (t - 1) \in Int
    BY <1>1
  <2> QED BY <2>1 DEF BelowTop
<1>10. ASSUME NEW t \in Nat, NEW x \in Nat
       PROVE  LevelsStacked(l, m, t, x) \in Int
  <2>1. /\ Stacked(l, 0, x) \in Int /\ Stacked(l, 1, x) \in Int /\ BelowTop(m, t) \in Int
        /\ NumSubtrees(l, 0) - 1 \in Int /\ NumSubtrees(l, 1) - 1 \in Int /\ m - t \in Int
    BY <1>1, <1>6, <1>9
  <2>2. /\ Stacked(l, 0, x) * m \in Int /\ Stacked(l, 1, x) * (m - t) \in Int
        /\ (NumSubtrees(l, 0) - 1) * m \in Int /\ (NumSubtrees(l, 1) - 1) * BelowTop(m, t) \in Int
    BY <1>1, <2>1
  <2> QED BY <2>2 DEF LevelsStacked
<1> QED BY <1>1, <1>2, <1>5, <1>8, <1>10 DEF m

\* A tree before any of its subtrees,
LEMMA TreeBegins ==
  ASSUME NEW l \in Nat, NEW h \in Heights, NEW s \in MIN_SUBTREE .. h
  PROVE  /\ TreeBytes(l, s, h, 0, 0) = SizeofLevel + MALLOC_OVERHEAD
         /\ StackBytes(l, s, h, 0, 0) = 0
<1>1. TopMade(l, 0, 0) = 0 /\ RestMade(l, 0, 0) = 0 /\ Stacked(l, 0, 0) = 0
  BY DEF TopMade, RestMade, Made, Stacked
<1> DEFINE m == Sublevels(h, s) - 1
<1>2. /\ m \in Nat /\ s \in Nat /\ TopBytes(s, h) \in Int /\ RestBytes(s) \in Int
      /\ SizeofLevel \in Nat /\ MALLOC_OVERHEAD \in Nat /\ HashSize \in Nat
  BY LevelTypes
<1> HIDE DEF m
<1>3. LevelsStacked(l, m, 0, 0) = 0
  BY <1>1, <1>2 DEF LevelsStacked
<1>4. HashSize * s \in Int /\ (HashSize * s) * 0 = 0
  BY <1>2
<1>5. StackBytes(l, s, h, 0, 0) = 0
  BY <1>3, <1>4 DEF StackBytes, m
<1>6. TreeBytes(l, s, h, 0, 0)
        = SizeofLevel + MALLOC_OVERHEAD + 0 * TopBytes(s, h) + 0 * RestBytes(s)
  BY <1>1 DEF TreeBytes
<1> QED BY <1>2, <1>5, <1>6

\* from one kind to the next one,
LEMMA TreeGoesOn ==
  ASSUME NEW l \in Nat, NEW h \in Heights, NEW s \in MIN_SUBTREE .. h,
         NEW t \in Nat, NEW x \in 0 .. NUM_SUBTREE - 1, NEW t2, NEW x2,
         IF x + 1 = NUM_SUBTREE THEN t2 = t + 1 /\ x2 = 0 ELSE t2 = t /\ x2 = x + 1
  PROVE  /\ Skips(l, t, x) => /\ TreeBytes(l, s, h, t2, x2) = TreeBytes(l, s, h, t, x)
                              /\ StackBytes(l, s, h, t2, x2) = StackBytes(l, s, h, t, x)
         /\ ~Skips(l, t, x) =>
              /\ TreeBytes(l, s, h, t2, x2)
                   = TreeBytes(l, s, h, t, x) + (IF t = 0 THEN TopBytes(s, h) ELSE RestBytes(s))
              /\ StackBytes(l, s, h, t2, x2)
                   = StackBytes(l, s, h, t, x)
                       + (IF x = ACTIVE_TREE THEN 0
                          ELSE HashSize * ((Sublevels(h, s) - 1 - t) * s))
<1> DEFINE m == Sublevels(h, s) - 1
           top == TopBytes(s, h)
           rest == RestBytes(s)
           a == TopMade(l, t, x)
           b == RestMade(l, t, x)
           c == LevelsStacked(l, m, t, x)
           u == HashSize * s
<1>1. /\ m \in Nat /\ s \in Nat /\ top \in Int /\ rest \in Int
      /\ a \in Int /\ b \in Int /\ c \in Int
      /\ SizeofLevel \in Nat /\ MALLOC_OVERHEAD \in Nat /\ HashSize \in Nat
  <2>1. x \in Nat
    OBVIOUS
  <2> QED BY <2>1, LevelTypes
<1>2. /\ TreeBytes(l, s, h, t, x) = SizeofLevel + MALLOC_OVERHEAD + a * top + b * rest
      /\ StackBytes(l, s, h, t, x) = u * c
  BY DEF TreeBytes, StackBytes
<1>3. /\ TreeBytes(l, s, h, t2, x2)
           = SizeofLevel + MALLOC_OVERHEAD + TopMade(l, t2, x2) * top + RestMade(l, t2, x2) * rest
      /\ StackBytes(l, s, h, t2, x2) = u * LevelsStacked(l, m, t2, x2)
  BY DEF TreeBytes, StackBytes
<1> HIDE DEF m
<1>4. /\ TopMade(l, t2, x2) = TopMade(l, t, x + 1)
      /\ RestMade(l, t2, x2) = RestMade(l, t, x + 1)
      /\ LevelsStacked(l, m, t2, x2) = LevelsStacked(l, m, t, x + 1)
  <2>1. CASE x = 2
    BY <1>1, <2>1, NextSublevel DEF NUM_SUBTREE
  <2>2. CASE x # 2
    BY <2>2 DEF NUM_SUBTREE
  <2> QED BY <2>1, <2>2
<1>5. CASE Skips(l, t, x)
  <2>1. TopMade(l, t2, x2) = a /\ RestMade(l, t2, x2) = b /\ LevelsStacked(l, m, t2, x2) = c
    BY <1>1, <1>4, <1>5, NextKind
  <2> QED BY <1>2, <1>3, <1>5, <2>1
<1>6. CASE ~Skips(l, t, x)
  <2> DEFINE d == IF x = ACTIVE_TREE THEN 0 ELSE m - t
  <2>1. /\ TopMade(l, t2, x2) = a + (IF t = 0 THEN 1 ELSE 0)
        /\ RestMade(l, t2, x2) = b + (IF t = 0 THEN 0 ELSE 1)
        /\ LevelsStacked(l, m, t2, x2) = c + d
    BY <1>1, <1>4, <1>6, NextKind
  <2>2. u \in Int /\ d \in Int
    BY <1>1
  <2>3. u * d = IF x = ACTIVE_TREE THEN 0 ELSE HashSize * ((m - t) * s)
    <3>1. HashSize * s * (m - t) = HashSize * ((m - t) * s)
      BY <1>1
    <3>2. u * 0 = 0
      BY <2>2
    <3> QED BY <3>1, <3>2
  <2> HIDE DEF top, rest, a, b, c, u
  <2>4. StackBytes(l, s, h, t2, x2) = u * c + u * d
    <3> HIDE DEF d
    <3>1. u * (c + d) = u * c + u * d
      BY <1>1, <2>2
    <3> QED BY <1>3, <2>1, <3>1
  <2>5. CASE t = 0
    <3>1. TopMade(l, t2, x2) = a + 1 /\ RestMade(l, t2, x2) = b
      BY <1>1, <2>1, <2>5
    <3>2. (a + 1) * top = a * top + top
      BY <1>1
    <3>3. a * top \in Int /\ b * rest \in Int
      BY <1>1
    <3>4. TreeBytes(l, s, h, t2, x2) = TreeBytes(l, s, h, t, x) + top
      BY <1>1, <1>2, <1>3, <3>1, <3>2, <3>3
    <3> QED BY <1>2, <1>6, <2>3, <2>4, <2>5, <3>4 DEF top, m
  <2>6. CASE t # 0
    <3>1. TopMade(l, t2, x2) = a /\ RestMade(l, t2, x2) = b + 1
      BY <1>1, <2>1, <2>6
    <3>2. (b + 1) * rest = b * rest + rest
      BY <1>1
    <3>3. a * top \in Int /\ b * rest \in Int
      BY <1>1
    <3>4. TreeBytes(l, s, h, t2, x2) = TreeBytes(l, s, h, t, x) + rest
      BY <1>1, <1>2, <1>3, <3>1, <3>2, <3>3
    <3> QED BY <1>2, <1>6, <2>3, <2>4, <2>6, <3>4 DEF rest, m
  <2> QED BY <2>5, <2>6
<1> QED BY <1>5, <1>6

\* Of two numbers that follow each other one is even.
LEMMA PairIsEven == \A m \in Nat : \E e \in Int : m * (m - 1) = 2 * e
<1> TAKE m \in Nat
<1> DEFINE q == m \div 2
<1>1. q \in Int /\ (m = 2 * q \/ m = 2 * q + 1)
  OBVIOUS
<1> HIDE DEF q
<1>2. CASE m = 2 * q
  <2>1. m * (m - 1) = 2 * (q * (m - 1)) /\ q * (m - 1) \in Int
    <3>1. (2 * q) * (m - 1) = 2 * (q * (m - 1))
      BY <1>1
    <3>2. q * (m - 1) \in Int
      BY <1>1
    <3> QED BY <1>2, <3>1, <3>2
  <2> QED BY <2>1
<1>3. CASE m = 2 * q + 1
  <2>1. m - 1 = 2 * q
    BY <1>1, <1>3
  <2>2. m * (2 * q) = 2 * (m * q) /\ m * q \in Int
    BY <1>1
  <2> QED BY <2>1, <2>2
<1> QED BY <1>1, <1>2, <1>3

\* and at its end: what compute_level_memory_usage has in closed form.
LEMMA TreeEnds ==
  ASSUME NEW l \in Nat, NEW h \in Heights, NEW s \in MIN_SUBTREE .. h
  PROVE  /\ compute_level_memory_usage(l, s, h) = WholeTree(l, s, h) + StackTotal(l, s, h)
         /\ StackTotal(l, s, h) = StackBytes(l, s, h, Sublevels(h, s), 0)
         /\ WholeTree(l, s, h) \in Int /\ StackTotal(l, s, h) \in Int
<1> DEFINE m == Sublevels(h, s) - 1
           a == NumSubtrees(l, 0)
           b == NumSubtrees(l, 1)
           u == HashSize * s
           top == TopBytes(s, h)
           rest == RestBytes(s)
<1>1. /\ m \in Nat /\ s \in Nat /\ top \in Int /\ rest \in Int /\ Sublevels(h, s) = m + 1
      /\ SizeofLevel \in Nat /\ MALLOC_OVERHEAD \in Nat /\ HashSize \in Nat /\ m + 1 # 0
      /\ m + 1 - 1 = m
  <2>1. /\ m \in Nat /\ s \in Nat /\ top \in Int /\ rest \in Int
        /\ SizeofLevel \in Nat /\ MALLOC_OVERHEAD \in Nat /\ HashSize \in Nat
    BY LevelTypes
  <2>2. Sublevels(h, s) \in Nat
    <3>1. Sublevels(h, s) \in 1 .. MAX_SUBLEVELS
      BY SublevelsRange
    <3> QED BY <3>1
  <2>3. Sublevels(h, s) = m + 1
    BY <2>2
  <2> HIDE DEF m
  <2> QED BY <2>1, <2>3
<1>2. a \in 1 .. 2 /\ b \in 2 .. 3 /\ u \in Int
  BY <1>1 DEF NumSubtrees
<1>3. Made(l, 1, 0) = 0 /\ Stacked(l, 1, 0) = 0
  BY DEF Made, Stacked
<1>4. compute_level_memory_usage(l, s, h)
        = SizeofLevel + MALLOC_OVERHEAD + m * b * rest + a * top + StackTotal(l, s, h)
  BY DEF compute_level_memory_usage, TopBytes, RestBytes
<1>5. StackTotal(l, s, h)
        = (b - 1) * HashSize * s * ((m * (m - 1)) \div 2) + (a - 1) * HashSize * s * m
  BY DEF StackTotal
<1>6. WholeTree(l, s, h) = SizeofLevel + MALLOC_OVERHEAD + a * top + (m * b + 0) * rest
  <2>1. TopMade(l, m + 1, 0) = a
    BY <1>1 DEF TopMade
  <2>2. RestMade(l, m + 1, 0) = m * b + 0
    <3> HIDE DEF m
    <3> QED BY <1>1, <1>3 DEF RestMade
  <2> HIDE DEF m
  <2> QED BY <1>1, <2>1, <2>2 DEF WholeTree, TreeBytes
<1>7. StackBytes(l, s, h, Sublevels(h, s), 0) = u * ((a - 1) * m + (b - 1) * BelowTop(m, m + 1) + 0 * (m - (m + 1)))
  <2> HIDE DEF m
  <2>1. LevelsStacked(l, m, m + 1, 0) = (a - 1) * m + (b - 1) * BelowTop(m, m + 1) + 0 * (m - (m + 1))
    BY <1>1, <1>3 DEF LevelsStacked
  <2> QED BY <1>1, <2>1 DEF StackBytes, m
<1> HIDE DEF m, top, rest
<1>8. BelowTop(m, m + 1) = (m * (m - 1)) \div 2 /\ (m * (m - 1)) \div 2 \in Int
  <2> DEFINE p == m * (m - 1)
  <2>1. p \in Int /\ (m + 1) * m = p + 2 * m /\ m * m = p + m
    BY <1>1
  <2>2. BelowTop(m, m + 1) = m * m - ((m + 1) * m) \div 2
    BY <1>1 DEF BelowTop
  <2> HIDE DEF p
  <2>3. (p + 2 * m) \div 2 = p \div 2 + m /\ p \div 2 \in Int
    BY <1>1, <2>1
  <2>4. BelowTop(m, m + 1) = p \div 2 /\ p \div 2 \in Int
    <3> DEFINE half == p \div 2
    <3>1. BelowTop(m, m + 1) = (p + m) - (p + 2 * m) \div 2
      BY <2>1, <2>2
    <3>2. (p + 2 * m) \div 2 = half + m /\ half \in Int
      BY <2>3
    <3> HIDE DEF half
    <3>3. BelowTop(m, m + 1) = (p + m) - (half + m)
      BY <3>1, <3>2
    <3>4. PICK e \in Int : p = 2 * e
      BY <1>1, PairIsEven DEF p
    <3>5. half = e
      BY <2>3, <3>4 DEF half
    <3>6. BelowTop(m, m + 1) = half
      BY <1>1, <2>1, <3>2, <3>3, <3>4, <3>5
    <3> QED BY <3>2, <3>6 DEF half
  <2>5. p = m * (m - 1)
    BY DEF p
  <2> QED BY <2>4, <2>5, Zenon
<1> DEFINE tri == (m * (m - 1)) \div 2
<1>9. StackTotal(l, s, h) = u * ((a - 1) * m + (b - 1) * tri)
  <2>1. tri \in Int
    BY <1>8
  <2> HIDE DEF tri
  <2>2. /\ a = 1 \/ a = 2
        /\ b = 2 \/ b = 3
    BY <1>2
  <2>3. StackTotal(l, s, h) = (b - 1) * HashSize * s * tri + (a - 1) * HashSize * s * m
    BY <1>5 DEF tri
  <2> DEFINE c == b - 1
             d == a - 1
  <2>4. (c = 1 \/ c = 2) /\ (d = 0 \/ d = 1)
    BY <2>2
  <2> HIDE DEF c, d
  <2>5. c * HashSize * s * tri = c * (u * tri) /\ d * HashSize * s * m = d * (u * m)
    <3>1. c \in Int /\ d \in Int
      BY <2>4
    <3> QED BY <1>1, <2>1, <3>1
  <2>6. u * (d * m + c * tri) = d * (u * m) + c * (u * tri)
    <3>1. c \in Int /\ d \in Int
      BY <2>4
    <3> HIDE DEF u
    <3> QED BY <1>1, <1>2, <2>1, <3>1
  <2>7. c * (u * tri) \in Int /\ d * (u * m) \in Int
    <3>1. c \in Int /\ d \in Int
      BY <2>4
    <3>2. u * tri \in Int /\ u * m \in Int
      BY <1>1, <1>2, <2>1
    <3> HIDE DEF u
    <3> QED BY <3>1, <3>2
  <2>8. StackTotal(l, s, h) = c * (u * tri) + d * (u * m)
    BY <2>3, <2>5 DEF c, d
  <2>9. StackTotal(l, s, h) = u * (d * m + c * tri)
    <3> HIDE DEF u
    <3> QED BY <2>6, <2>7, <2>8
  <2> QED BY <2>9 DEF c, d
<1>10. StackTotal(l, s, h) = StackBytes(l, s, h, Sublevels(h, s), 0)
  <2>1. tri \in Int
    BY <1>8
  <2>2. BelowTop(m, m + 1) = tri
    BY <1>8
  <2> HIDE DEF tri, a, b, u
  <2>3. (a - 1) * m \in Int /\ (b - 1) * tri \in Int /\ 0 * (m - (m + 1)) = 0
    BY <1>1, <1>2, <2>1
  <2>4. (a - 1) * m + (b - 1) * tri + 0 = (a - 1) * m + (b - 1) * tri
    BY <2>3
  <2> QED BY <1>7, <1>9, <2>2, <2>3, <2>4
<1>11. compute_level_memory_usage(l, s, h) = WholeTree(l, s, h) + StackTotal(l, s, h)
  <2>1. StackTotal(l, s, h) \in Int
    BY SublevelsRange, UsageIsInt
  <2>2. m * b \in Int
    BY <1>1, <1>2
  <2> HIDE DEF a, b
  <2>3. m * b * rest \in Int /\ a * top \in Int /\ (m * b + 0) * rest = m * b * rest
    BY <1>1, <1>2, <2>2
  <2> QED BY <1>1, <1>4, <1>6, <2>1, <2>3
<1>12. WholeTree(l, s, h) \in Int
  <2>1. m * b + 0 \in Int /\ a \in Int
    BY <1>1, <1>2
  <2> HIDE DEF a, b
  <2>2. (m * b + 0) * rest \in Int /\ a * top \in Int
    BY <1>1, <2>1
  <2> QED BY <1>1, <1>6, <2>2
<1> QED BY <1>10, <1>11, <1>12, UsageIsInt

\* Numbers of levels, and their sums from the top on.
Numbers(F, last) == \A l \in 0 .. last : F[l] \in Int

LEMMA SumsOfLevels ==
  ASSUME NEW F, NEW last \in Nat, Numbers(F, last)
  PROVE  /\ SumOver(F, 0 .. 0 - 1) = 0 /\ SumOver(F, 0 .. last) \in Int
         /\ \A l \in 0 .. last + 1 : SumOver(F, 0 .. l - 1) \in Int
         /\ \A l \in 0 .. last : SumOver(F, 0 .. l) = SumOver(F, 0 .. l - 1) + F[l]
<1>1. SumOver(F, 0 .. 0 - 1) = 0
  <2>1. 0 .. 0 - 1 = {}
    OBVIOUS
  <2> QED BY <2>1, SumOfNone
<1>2. ASSUME NEW l \in 0 .. last + 1
      PROVE  SumOver(F, 0 .. l - 1) \in Int
  <2>1. IsFiniteSet(0 .. l - 1)
    BY FS_Interval
  <2>2. \A x \in 0 .. l - 1 : F[x] \in Int
    <3> TAKE x \in 0 .. l - 1
    <3>1. x \in 0 .. last
      OBVIOUS
    <3> QED BY <3>1 DEF Numbers
  <2> QED BY <2>1, <2>2, SumIsInt
<1>3. ASSUME NEW l \in 0 .. last
      PROVE  SumOver(F, 0 .. l) = SumOver(F, 0 .. l - 1) + F[l]
  <2> DEFINE U == 0 .. l - 1
  <2>1. IsFiniteSet(U) /\ l \notin U
    BY FS_Interval
  <2>2. 0 .. l = U \cup {l}
    OBVIOUS
  <2>3. \A x \in U \cup {l} : F[x] \in Int
    <3> TAKE x \in U \cup {l}
    <3>1. x \in 0 .. last
      OBVIOUS
    <3> QED BY <3>1 DEF Numbers
  <2> HIDE DEF U
  <2>4. SumOver(F, U \cup {l}) = SumOver(F, U) + F[l]
    BY <2>1, <2>3, SumOfOneMore
  <2> QED BY <2>2, <2>4 DEF U
<1>4. SumOver(F, 0 .. last) \in Int
  <2>1. last + 1 \in 0 .. last + 1 /\ (last + 1) - 1 = last
    OBVIOUS
  <2> QED BY <1>2, <2>1
<1> QED BY <1>1, <1>2, <1>3, <1>4

\* Numbers that are the same have the same sums.
LEMMA SameSums ==
  ASSUME NEW F, NEW G, NEW last \in Nat, Numbers(F, last),
         NEW l \in 0 .. last + 1, \A x \in 0 .. l - 1 : G[x] = F[x]
  PROVE  SumOver(G, 0 .. l - 1) = SumOver(F, 0 .. l - 1)
<1>1. IsFiniteSet(0 .. l - 1)
  BY FS_Interval
<1>2. Agree(F, G, 0 .. l - 1)
  <2> SUFFICES ASSUME NEW x \in 0 .. l - 1 PROVE F[x] \in Int /\ F[x] = G[x]
    BY DEF Agree
  <2>1. x \in 0 .. last
    OBVIOUS
  <2> QED BY <2>1 DEF Numbers
<1> QED BY <1>1, <1>2, SumOfSame

-----------------------------------------------------------------------------
\* The numbers of the levels.
LEMMA UpperNumbers ==
  ASSUME IInv, pc # "idle"
  PROVE  /\ Bottom \in Nat /\ Bottom \in 0 .. MAX_HSS_LEVELS - 1 /\ request.levels = Bottom + 1
         /\ request.memory_target \in Int /\ mem_target \in Int
         /\ \A l \in 0 .. Bottom :
              /\ height(l) \in Heights /\ hss_smallest_subtree_size \in MIN_SUBTREE .. height(l)
              /\ UpperTrees[l] = WholeTree(l, hss_smallest_subtree_size, height(l))
              /\ UpperStacks[l] = StackTotal(l, hss_smallest_subtree_size, height(l))
         /\ Numbers(UpperTrees, Bottom) /\ Numbers(UpperStacks, Bottom)
<1>1. /\ Bottom \in 0 .. MAX_HSS_LEVELS - 1 /\ request.levels = Bottom + 1
      /\ request.memory_target \in Int /\ mem_target \in Int
      /\ \A l \in 0 .. Bottom : height(l) \in Heights
  BY RequestTyped DEF IInv, Typed
<1>2. ASSUME NEW l \in 0 .. Bottom
      PROVE  /\ hss_smallest_subtree_size \in MIN_SUBTREE .. height(l)
             /\ UpperTrees[l] = WholeTree(l, hss_smallest_subtree_size, height(l))
             /\ UpperStacks[l] = StackTotal(l, hss_smallest_subtree_size, height(l))
             /\ UpperTrees[l] \in Int /\ UpperStacks[l] \in Int
  <2>1. height(l) \in Heights /\ l \in Nat
    BY <1>1
  <2>2. hss_smallest_subtree_size \in MIN_SUBTREE .. height(l)
    BY <2>1 DEF hss_smallest_subtree_size, MIN_SUBTREE, Heights
  <2>3. /\ WholeTree(l, hss_smallest_subtree_size, height(l)) \in Int
        /\ StackTotal(l, hss_smallest_subtree_size, height(l)) \in Int
    BY <2>1, <2>2, TreeEnds
  <2>4. /\ UpperTrees[l] = WholeTree(l, hss_smallest_subtree_size, height(l))
        /\ UpperStacks[l] = StackTotal(l, hss_smallest_subtree_size, height(l))
    BY Zenon DEF UpperTrees, UpperStacks
  <2> QED BY <2>2, <2>3, <2>4
<1>3. Bottom \in Nat
  BY <1>1
<1> QED BY <1>1, <1>2, <1>3 DEF Numbers

LEMMA PlanNumbers ==
  ASSUME IInv, Planned
  PROVE  /\ \A l \in 0 .. Bottom :
              /\ subtree_size[l] \in MIN_SUBTREE .. height(l)
              /\ Trees[l] = WholeTree(l, subtree_size[l], height(l))
              /\ Stacks[l] = StackTotal(l, subtree_size[l], height(l))
         /\ Numbers(Trees, Bottom) /\ Numbers(Stacks, Bottom)
<1>1. pc # "idle"
  BY DEF Planned
<1>2. Bottom \in Nat /\ \A l \in 0 .. Bottom : /\ height(l) \in Heights
                                               /\ hss_smallest_subtree_size \in MIN_SUBTREE .. height(l)
  BY <1>1, UpperNumbers
<1>3. ASSUME NEW l \in 0 .. Bottom
      PROVE  /\ subtree_size[l] \in MIN_SUBTREE .. height(l)
             /\ Trees[l] = WholeTree(l, subtree_size[l], height(l))
             /\ Stacks[l] = StackTotal(l, subtree_size[l], height(l))
             /\ Trees[l] \in Int /\ Stacks[l] \in Int
  <2>1. height(l) \in Heights /\ l \in Nat
    BY <1>2
  <2>2. subtree_size[l] \in MIN_SUBTREE .. height(l)
    <3>1. CASE l = Bottom
      BY <3>1 DEF IInv, Settled
    <3>2. CASE l \in 0 .. Bottom - 1
      <4>1. subtree_size[l] = hss_smallest_subtree_size
        BY <3>2 DEF IInv, Settled
      <4> QED BY <1>2, <4>1
    <3> QED BY <1>2, <3>1, <3>2
  <2>3. /\ WholeTree(l, subtree_size[l], height(l)) \in Int
        /\ StackTotal(l, subtree_size[l], height(l)) \in Int
    BY <2>1, <2>2, TreeEnds
  <2>4. /\ Trees[l] = WholeTree(l, subtree_size[l], height(l))
        /\ Stacks[l] = StackTotal(l, subtree_size[l], height(l))
    BY Zenon DEF Trees, Stacks
  <2> QED BY <2>2, <2>3, <2>4
<1> QED BY <1>3 DEF Numbers

\* What the stack will take is a number.
LEMMA StackUsageIsInt ==
  ASSUME IInv, PlanBooks, Books
  PROVE  stack_usage \in Int
<1>1. CASE pc \in {"idle", "signed_pk"}
  BY <1>1 DEF PlanBooks
<1>2. CASE pc \in {"sizes", "search"}
  <2>1. i \in 0 .. Bottom + 1 /\ Bottom \in Nat /\ Numbers(UpperStacks, Bottom)
    <3>1. Bottom \in Nat /\ Numbers(UpperStacks, Bottom) /\ i \in Nat
      BY <1>2, UpperNumbers DEF IInv, Typed
    <3>2. i <= Bottom
      BY <1>2, <3>1 DEF IInv, Typed, PlanBooks
    <3> QED BY <3>1, <3>2
  <2>2. SumOver(UpperStacks, 0 .. i - 1) \in Int
    BY <2>1, SumsOfLevels
  <2> QED BY <1>2, <2>2 DEF PlanBooks
<1>3. CASE Planned
  <2>1. Bottom \in Nat /\ Numbers(Stacks, Bottom)
    BY <1>3, PlanNumbers, UpperNumbers DEF Planned
  <2>2. SumOver(Stacks, 0 .. Bottom) \in Int
    BY <2>1, SumsOfLevels
  <2> QED BY <1>3, <2>2 DEF Books
<1> QED BY <1>1, <1>2, <1>3 DEF IInv, Typed, Phases, Planned

-----------------------------------------------------------------------------
\* What a block takes.
LEMMA BytesOfBlocks ==
  /\ Bytes(<<"key">>) = MALLOC_OVERHEAD + SizeofKey
  /\ \A l : Bytes(<<"signed_pk", l>>)
              = MALLOC_OVERHEAD + (request.lm_type[l - 1].siglen + PublicKeyLen)
  /\ Bytes(<<"stack">>) = MALLOC_OVERHEAD + stack_usage
  /\ \A l : Bytes(<<"tree", l>>) = MALLOC_OVERHEAD + SizeofLevel
  /\ \A l, t, x : Bytes(<<"subtree", l, t, x>>)
                    = MALLOC_OVERHEAD + SubtreeBytes(SubtreeHeight(l, t))
BY DEF Bytes

LEMMA BytesOfNextBlocks ==
  /\ Bytes(<<"key">>)' = MALLOC_OVERHEAD + SizeofKey
  /\ \A l : Bytes(<<"signed_pk", l>>)'
              = MALLOC_OVERHEAD + (request'.lm_type[l - 1].siglen + PublicKeyLen)
  /\ Bytes(<<"stack">>)' = MALLOC_OVERHEAD + stack_usage'
  /\ \A l : Bytes(<<"tree", l>>)' = MALLOC_OVERHEAD + SizeofLevel
  /\ \A l, t, x : Bytes(<<"subtree", l, t, x>>)'
                    = MALLOC_OVERHEAD + SubtreeBytes(SubtreeHeight(l, t)')
BY DEF Bytes

\* A subtree takes what the plan has for one of its sublevel.
LEMMA BytesOfSubtree ==
  ASSUME IInv, Planned, NEW l \in 0 .. Bottom, NEW t \in Nat
  PROVE  /\ MALLOC_OVERHEAD + SubtreeBytes(SubtreeHeight(l, t))
              = IF t = 0 THEN TopBytes(subtree_size[l], height(l)) ELSE RestBytes(subtree_size[l])
         /\ TopBytes(subtree_size[l], height(l)) \in Int /\ RestBytes(subtree_size[l]) \in Int
<1> DEFINE h == height(l)
           s == subtree_size[l]
           m == Sublevels(h, s) - 1
<1>1. h \in Heights /\ s \in MIN_SUBTREE .. h /\ l \in Nat
  BY PlanNumbers, UpperNumbers DEF Planned
<1>2. /\ m \in Nat /\ s \in Nat /\ h \in Nat /\ TopBytes(s, h) \in Int /\ RestBytes(s) \in Int
      /\ MALLOC_OVERHEAD \in Nat /\ HashSize \in Nat /\ SizeofSubtree \in Nat
  <2>1. h \in Nat
    <3> HIDE DEF h
    <3> QED BY <1>1 DEF Heights
  <2>2. MALLOC_OVERHEAD \in Nat /\ HashSize \in Nat /\ SizeofSubtree \in Nat
    BY AllocAssumption
  <2>3. m \in Nat /\ s \in Nat /\ TopBytes(s, h) \in Int /\ RestBytes(s) \in Int
    <3> HIDE DEF h, s
    <3> QED BY <1>1, LevelTypes DEF m
  <2> HIDE DEF h, s, m
  <2> QED BY <2>1, <2>2, <2>3
<1>3. SubtreeBytes(s) \in Nat /\ SubtreeBytes(h - m * s) \in Nat /\ h - m * s \in Nat
  <2> HIDE DEF h, s
  <2> QED BY <1>1, TopHeight, SubtreeBytesNat DEF m
<1>4. SubtreeHeight(l, t) = IF t = 0 THEN h - (m - 0) * s ELSE s
  BY DEF SubtreeHeight, LevelsBelow
<1> HIDE DEF h, s, m
<1>5. CASE t = 0
  <2>1. SubtreeHeight(l, t) = h - m * s
    BY <1>2, <1>4, <1>5
  <2>2. TopBytes(s, h) = SubtreeBytes(h - m * s) + MALLOC_OVERHEAD
    BY DEF TopBytes, m
  <2>3. MALLOC_OVERHEAD + SubtreeBytes(SubtreeHeight(l, t)) = TopBytes(s, h)
    BY <1>2, <1>3, <2>1, <2>2
  <2> QED BY <1>2, <1>5, <2>3 DEF h, s
<1>6. CASE t # 0
  <2>1. SubtreeHeight(l, t) = s
    BY <1>4, <1>6
  <2>2. MALLOC_OVERHEAD + SubtreeBytes(SubtreeHeight(l, t)) = RestBytes(s)
    BY <1>2, <1>3, <2>1 DEF RestBytes
  <2> QED BY <1>2, <1>6, <2>2 DEF h, s
<1> QED BY <1>5, <1>6

\* Before the plan is made there are only the key and signed public keys.
LEMMA EarlyBlocks ==
  ASSUME HeapInPlace, ~Carried, NEW b \in heap
  PROVE  b = <<"key">> \/ \E l \in 1 .. Bottom : b = <<"signed_pk", l>>
BY DEF HeapInPlace, InPlace

LEMMA BytesAreInts ==
  ASSUME IInv, PlanBooks, Books, pc # "idle", HeapInPlace
  PROVE  \A b \in heap : Bytes(b) \in Int
<1> TAKE b \in heap
<1>1. InPlace(b)
  BY DEF HeapInPlace
<1>2. stack_usage \in Int /\ SizeofKey \in Nat /\ SizeofLevel \in Nat /\ MALLOC_OVERHEAD \in Nat
  BY StackUsageIsInt, AllocAssumption
<1>3. CASE b = <<"key">>
  BY <1>2, <1>3, BytesOfBlocks
<1>4. ASSUME NEW l \in 1 .. Bottom, b = <<"signed_pk", l>>
      PROVE  Bytes(b) \in Int
  <2>1. /\ PublicKeyLen \in Nat /\ Bottom \in Nat
        /\ \A x \in 0 .. Bottom : request.lm_type[x].siglen \in Nat
    BY RequestTyped, UpperNumbers DEF IInv
  <2>2. l - 1 \in 0 .. Bottom
    BY <2>1
  <2> QED BY <1>2, <1>4, <2>1, <2>2, BytesOfBlocks
<1>5. CASE b = <<"stack">>
  BY <1>2, <1>5, BytesOfBlocks
<1>6. ASSUME NEW l \in 0 .. Bottom, b = <<"tree", l>>
      PROVE  Bytes(b) \in Int
  BY <1>2, <1>6, BytesOfBlocks
<1>7. ASSUME NEW l \in 0 .. Bottom, NEW t \in Nat, NEW x \in Nat, b = <<"subtree", l, t, x>>, Carried
      PROVE  Bytes(b) \in Int
  <2>1. Planned
    BY <1>7 DEF Carried, Planned
  <2>2. MALLOC_OVERHEAD + SubtreeBytes(SubtreeHeight(l, t)) \in Int
    BY <2>1, BytesOfSubtree
  <2> QED BY <1>7, <2>2, BytesOfBlocks
<1> QED BY <1>1, <1>3, <1>4, <1>5, <1>6, <1>7 DEF InPlace

\* What a block takes stays as long as the plan does, and while the plan is made there is no
\* block yet that depends on it.
LEMMA BytesKept ==
  ASSUME HeapInPlace, request' = request,
         \/ UNCHANGED <<subtree_size, stack_usage>>
         \/ ~Carried
  PROVE  \A b \in heap : Bytes(b)' = Bytes(b)
<1>1. CASE UNCHANGED <<subtree_size, stack_usage>>
  BY <1>1 DEF Bytes, SubtreeHeight, LevelsBelow, height
<1>2. CASE ~Carried
  <2> TAKE b \in heap
  <2>1. b = <<"key">> \/ \E l \in 1 .. Bottom : b = <<"signed_pk", l>>
    BY <1>2, EarlyBlocks
  <2>2. CASE b = <<"key">>
    BY <2>2, BytesOfBlocks, BytesOfNextBlocks
  <2>3. ASSUME NEW l \in 1 .. Bottom, b = <<"signed_pk", l>>
        PROVE  Bytes(b)' = Bytes(b)
    <3>1. Bytes(<<"signed_pk", l>>)' = Bytes(<<"signed_pk", l>>)
      BY BytesOfBlocks, BytesOfNextBlocks
    <3> QED BY <2>3, <3>1
  <2> QED BY <2>1, <2>2, <2>3
<1> QED BY <1>1, <1>2

\* All that is allocated takes the same,
LEMMA TotalKept ==
  ASSUME IInv, PlanBooks, Books, pc # "idle", HeapInPlace, request' = request, heap' = heap,
         \/ UNCHANGED <<subtree_size, stack_usage>>
         \/ ~Carried
  PROVE  Total \in Int /\ Total' = Total
<1> DEFINE F == [b \in heap |-> Bytes(b)]
           G == [b \in heap' |-> Bytes(b)']
<1>1. IsFiniteSet(heap) /\ \A b \in heap : F[b] \in Int /\ G[b] = F[b]
  <2>1. \A b \in heap : F[b] = Bytes(b) /\ G[b] = Bytes(b)'
    OBVIOUS
  <2> QED BY <2>1, BytesAreInts, BytesKept DEF HeapInPlace
<1>2. Total = SumOver(F, heap) /\ Total' = SumOver(G, heap)
  BY DEF Total
<1> HIDE DEF F, G
<1>3. Agree(F, G, heap)
  BY <1>1 DEF Agree
<1>4. SumOver(F, heap) = SumOver(G, heap) /\ SumOver(F, heap) \in Int
  BY <1>1, <1>3, SumOfSame, SumIsInt
<1> QED BY <1>2, <1>4

\* or one more block does.
LEMMA TotalGrows ==
  ASSUME IInv, PlanBooks, Books, pc # "idle", HeapInPlace, request' = request,
         UNCHANGED <<subtree_size, stack_usage>>,
         NEW block, block \notin heap, heap' = heap \cup {block}, Bytes(block)' \in Int
  PROVE  Total \in Int /\ Total' = Total + Bytes(block)'
<1> DEFINE F == [b \in heap |-> Bytes(b)]
           G == [b \in heap' |-> Bytes(b)']
<1>1. IsFiniteSet(heap) /\ \A b \in heap : F[b] \in Int /\ G[b] = F[b]
  <2>1. \A b \in heap : F[b] = Bytes(b) /\ G[b] = Bytes(b)'
    OBVIOUS
  <2> QED BY <2>1, BytesAreInts, BytesKept DEF HeapInPlace
<1>2. Total = SumOver(F, heap) /\ Total' = SumOver(G, heap \cup {block})
  BY DEF Total
<1>3. G[block] = Bytes(block)'
  OBVIOUS
<1> HIDE DEF F, G
<1>4. Agree(F, G, heap)
  BY <1>1 DEF Agree
<1>5. SumOver(F, heap) = SumOver(G, heap) /\ SumOver(F, heap) \in Int
  BY <1>1, <1>4, SumOfSame, SumIsInt
<1>6. \A b \in heap \cup {block} : G[b] \in Int
  BY <1>1, <1>3
<1>7. SumOver(G, heap \cup {block}) = SumOver(G, heap) + G[block]
  BY <1>1, <1>6, SumOfOneMore
<1> QED BY <1>2, <1>3, <1>5, <1>7

-----------------------------------------------------------------------------
\* What has been passed stays passed, so every block stays in its place, with or without one more.
LEMMA HeapStays ==
  ASSUME HeapInPlace, request' = request,
         heap' = heap \/ \E block : heap' = heap \cup {block} /\ InPlace(block)',
         \A l \in 1 .. Bottom : SignedPkMade(l) => SignedPkMade(l)',
         Carried => Carried' /\ \A l \in 0 .. Bottom : TreeMade(l) => TreeMade(l)',
         Carried => \A l \in 0 .. Bottom, t \in Nat, x \in Nat :
                       SubtreeMade(l, t, x) => SubtreeMade(l, t, x)'
  PROVE  HeapInPlace'
<1>1. Bottom' = Bottom
  BY DEF Bottom
<1>2. ASSUME NEW b, InPlace(b)
      PROVE  InPlace(b)'
  <2>1. CASE b = <<"key">>
    BY <2>1 DEF InPlace
  <2>2. ASSUME NEW l \in 1 .. Bottom, b = <<"signed_pk", l>>, SignedPkMade(l)
        PROVE  InPlace(b)'
    <3>1. SignedPkMade(l)' /\ l \in 1 .. Bottom'
      BY <1>1, <2>2
    <3> QED BY <2>2, <3>1 DEF InPlace
  <2>3. CASE b = <<"stack">> /\ Carried
    BY <2>3 DEF InPlace
  <2>4. ASSUME NEW l \in 0 .. Bottom, b = <<"tree", l>>, Carried, TreeMade(l)
        PROVE  InPlace(b)'
    <3>1. TreeMade(l)' /\ Carried' /\ l \in 0 .. Bottom'
      BY <1>1, <2>4
    <3> QED BY <2>4, <3>1 DEF InPlace
  <2>5. ASSUME NEW l \in 0 .. Bottom, NEW t \in Nat, NEW x \in Nat,
               b = <<"subtree", l, t, x>>, Carried, SubtreeMade(l, t, x)
        PROVE  InPlace(b)'
    <3>1. SubtreeMade(l, t, x)' /\ Carried' /\ l \in 0 .. Bottom'
      BY <1>1, <2>5
    <3> QED BY <2>5, <3>1 DEF InPlace
  <2> QED BY <1>2, <2>1, <2>2, <2>3, <2>4, <2>5 DEF InPlace
<1>3. IsFiniteSet(heap')
  BY FS_AddElement DEF HeapInPlace
<1>4. \A b \in heap' : InPlace(b)'
  BY <1>2 DEF HeapInPlace
<1> QED BY <1>3, <1>4 DEF HeapInPlace

\* A request that stays has the same levels, a plan that stays the same numbers.
LEMMA SameNumbers ==
  ASSUME request' = request
  PROVE  /\ Bottom' = Bottom /\ \A l : height(l)' = height(l)
         /\ UpperTrees' = UpperTrees /\ UpperStacks' = UpperStacks
         /\ subtree_size' = subtree_size => Trees' = Trees /\ Stacks' = Stacks
<1>1. Bottom' = Bottom /\ \A l : height(l)' = height(l)
  BY DEF Bottom, height
<1>2. UpperTrees' = UpperTrees /\ UpperStacks' = UpperStacks
  BY <1>1 DEF UpperTrees, UpperStacks
<1>3. subtree_size' = subtree_size => Trees' = Trees /\ Stacks' = Stacks
  BY <1>1 DEF Trees, Stacks
<1> QED BY <1>1, <1>2, <1>3

\* Steps.  A call that ends leaves nothing to account for.
LEMMA EndOfCall ==
  ASSUME Reset, error' # "internal"
  PROVE  BooksInv'
BY DEF Reset, BooksInv, PlanBooks, Books, Planned

LEMMA NoCall ==
  ASSUME BooksInv, NEW r \in Requests, Refused(r) \/ NoKey(r)
  PROVE  BooksInv'
BY DEF Refused, NoKey, plan, BooksInv, PlanBooks, Books, Planned

LEMMA BeginBooks ==
  ASSUME IInv, HeapInv, BooksInv, NEW r \in Requests, Begin(r)
  PROVE  BooksInv'
<1>1. /\ pc = "idle" /\ pc' = "signed_pk" /\ heap' = {<<"key">>} /\ request' = r /\ error' = "none"
      /\ mem_target' = r.memory_target - (SizeofKey + MALLOC_OVERHEAD)
      /\ UNCHANGED <<stack_usage, stack_index, i, j, k>>
  BY DEF Begin, Malloc, HeapInv
<1>2. /\ r.memory_target \in Int /\ SizeofKey \in Nat /\ MALLOC_OVERHEAD \in Nat
  BY AllocAssumption
<1> DEFINE key == <<"key">>
           G == [b \in heap' |-> Bytes(b)']
<1>3. Total' = MALLOC_OVERHEAD + SizeofKey
  <2>1. G[key] = MALLOC_OVERHEAD + SizeofKey
    BY <1>1, BytesOfNextBlocks
  <2>2. Total' = SumOver(G, {} \cup {key})
    BY <1>1 DEF Total
  <2> HIDE DEF G, key
  <2>3. SumOver(G, {} \cup {key}) = SumOver(G, {}) + G[key]
    <3>1. IsFiniteSet({}) /\ key \notin {} /\ \A y \in {} \cup {key} : G[y] \in Int
      BY <1>2, <2>1, FS_EmptySet
    <3> QED BY <3>1, SumOfOneMore
  <2> QED BY <1>2, <2>1, <2>2, <2>3, SumOfNone
<1>4. Spent' = Total'
  BY <1>1, <1>2, <1>3 DEF Spent
<1>5. HeapInPlace'
  <2>1. IsFiniteSet(heap')
    BY <1>1, FS_Singleton
  <2>2. \A b \in heap' : InPlace(b)'
    BY <1>1 DEF InPlace
  <2> QED BY <2>1, <2>2 DEF HeapInPlace
<1>6. PlanBooks'
  BY <1>1, <1>4 DEF BooksInv, PlanBooks
<1>7. Books'
  BY <1>1 DEF BooksInv, Books, Planned
<1> QED BY <1>5, <1>6, <1>7 DEF BooksInv

\* The signed public keys.
LEMMA TopLevelBooks ==
  ASSUME IInv, BooksInv, TopLevel
  PROVE  BooksInv'
<1>1. /\ pc = "signed_pk" /\ pc' = "signed_pk" /\ i = 0 /\ i' = 1
      /\ UNCHANGED <<error, heap, request, mem_target, subtree_size, stack_usage, stack_index, best, j, k>>
  BY DEF TopLevel, plan
<1>2. Total' = Total
  BY <1>1, TotalKept DEF BooksInv
<1>3. HeapInPlace'
  <2>1. \A l \in 1 .. Bottom : SignedPkMade(l) => SignedPkMade(l)'
    BY <1>1 DEF SignedPkMade
  <2> QED BY <1>1, <2>1, HeapStays DEF BooksInv, Carried
<1>4. PlanBooks' /\ Books'
  BY <1>1, <1>2 DEF BooksInv, PlanBooks, Books, Planned, Spent
<1> QED BY <1>3, <1>4, <1>1 DEF BooksInv

LEMMA SignedPkBooks ==
  ASSUME IInv, BooksInv, SignedPk
  PROVE  BooksInv'
<1>1. CASE Reset
  <2>1. error' # "internal"
    BY <1>1 DEF SignedPk, OutOfMemory, Fail, Reset
  <2> QED BY <1>1, <2>1, EndOfCall
<1>2. CASE ~Reset
  <2>1. PICK l, block : l = i /\ block = <<"signed_pk", l>>
    OBVIOUS
  <2> DEFINE bytes == MALLOC_OVERHEAD + (request.lm_type[l - 1].siglen + PublicKeyLen)
  <2>2. /\ pc = "signed_pk" /\ pc' = "signed_pk" /\ l \in 1 .. Bottom /\ i' = l + 1
        /\ heap' = heap \cup {block}
        /\ mem_target' = mem_target - (request.lm_type[l - 1].siglen + PublicKeyLen + MALLOC_OVERHEAD)
        /\ UNCHANGED <<request, error, subtree_size, stack_usage, stack_index, best, j, k>>
    BY <1>2, <2>1 DEF SignedPk, Malloc, OutOfMemory, Fail
  <2>3. /\ request.lm_type[l - 1].siglen \in Nat /\ PublicKeyLen \in Nat /\ MALLOC_OVERHEAD \in Nat
        /\ mem_target \in Int /\ request.memory_target \in Int /\ Bottom \in Nat
    <3>1. l - 1 \in 0 .. Bottom /\ Bottom \in Nat
      BY <2>2, UpperNumbers
    <3> QED BY <2>2, <3>1, RequestTyped DEF IInv, Typed
  <2>4. block \notin heap
    <3>1. ~InPlace(block)
      BY <2>1, <2>2, <2>3 DEF InPlace, SignedPkMade
    <3> QED BY <2>2, <3>1 DEF BooksInv, HeapInPlace
  <2>5. Bytes(block)' = bytes
    BY <2>1, <2>2, BytesOfNextBlocks
  <2>6. Total' = Total + bytes /\ Total \in Int
    <3>1. bytes \in Int
      BY <2>3
    <3>2. Bytes(block)' \in Int
      BY <2>5, <3>1
    <3>3. Total' = Total + Bytes(block)' /\ Total \in Int
      BY <2>2, <2>4, <3>2, TotalGrows DEF BooksInv
    <3> QED BY <2>5, <3>3
  <2>7. HeapInPlace'
    <3>1. InPlace(block)'
      <4>1. Bottom' = Bottom /\ SignedPkMade(l)'
        BY <2>2, <2>3 DEF Bottom, SignedPkMade
      <4> QED BY <2>1, <2>2, <4>1 DEF InPlace
    <3>2. \A x \in 1 .. Bottom : SignedPkMade(x) => SignedPkMade(x)'
      BY <2>1, <2>2, <2>3 DEF SignedPkMade
    <3> QED BY <2>2, <3>1, <3>2, HeapStays DEF BooksInv, Carried
  <2>8. Spent' = Total'
    <3>1. Spent' = Spent + bytes
      BY <2>2, <2>3 DEF Spent
    <3> QED BY <2>2, <2>6, <3>1 DEF BooksInv, PlanBooks
  <2> HIDE DEF bytes
  <2>9. PlanBooks' /\ Books'
    BY <2>2, <2>8 DEF BooksInv, PlanBooks, Books, Planned
  <2> QED BY <2>2, <2>7, <2>9 DEF BooksInv
<1> QED BY <1>1, <1>2

\* The overhead of the stack.
LEMMA AllSignedBooks ==
  ASSUME IInv, BooksInv, AllSigned
  PROVE  BooksInv'
<1>1. /\ pc = "signed_pk" /\ pc' = "sizes" /\ i' = 0
      /\ mem_target' = mem_target - MALLOC_OVERHEAD
      /\ UNCHANGED <<request, error, heap, subtree_size, stack_usage, stack_index, best, j, k>>
  BY DEF AllSigned
<1>2. Total' = Total /\ Total \in Int
  BY <1>1, TotalKept DEF BooksInv
<1>3. HeapInPlace'
  BY <1>1, HeapStays DEF BooksInv, Carried, SignedPkMade
<1>4. /\ SumOver(UpperTrees, 0 .. 0 - 1) = 0 /\ SumOver(UpperStacks, 0 .. 0 - 1) = 0
      /\ mem_target \in Int /\ request.memory_target \in Int /\ MALLOC_OVERHEAD \in Nat
  BY <1>1, UpperNumbers, SumsOfLevels, AllocAssumption
<1>5. UpperTrees' = UpperTrees /\ UpperStacks' = UpperStacks
  BY <1>1, SameNumbers
<1>6. /\ Spent' = Total' + MALLOC_OVERHEAD + stack_usage' + SumOver(UpperTrees', 0 .. i' - 1)
      /\ stack_usage' = SumOver(UpperStacks', 0 .. i' - 1)
  BY <1>1, <1>2, <1>4, <1>5 DEF BooksInv, PlanBooks, Spent
<1>7. PlanBooks'
  BY <1>1, <1>6 DEF BooksInv, PlanBooks
<1>8. Books'
  BY <1>1 DEF BooksInv, Books, Planned
<1> QED BY <1>1, <1>3, <1>7, <1>8 DEF BooksInv

\* A level above the bottom.
LEMMA UpperLevelBooks ==
  ASSUME IInv, BooksInv, UpperLevel
  PROVE  BooksInv'
<1>1. PICK l, h : l = i /\ h = height(i)
  OBVIOUS
<1>2. /\ pc = "sizes" /\ pc' = "sizes" /\ l < Bottom /\ i' = l + 1
      /\ UNCHANGED <<request, error, heap, stack_index, best, j, k>>
  BY <1>1 DEF UpperLevel
<1> DEFINE size == hss_smallest_subtree_size
<1>3. /\ mem_target' = mem_target - compute_level_memory_usage(l, size, h)
      /\ stack_usage' = stack_usage + StackTotal(l, size, h)
  BY <1>1, SizesOfUpperLevels DEF UpperLevel
<1>4. /\ Bottom \in Nat /\ l \in 0 .. Bottom /\ l + 1 \in 0 .. Bottom + 1 /\ l \in Nat
      /\ mem_target \in Int /\ request.memory_target \in Int /\ MALLOC_OVERHEAD \in Nat
  <2>1. l \in Nat
    BY <1>1 DEF IInv, Typed
  <2> QED BY <1>2, <2>1, UpperNumbers, AllocAssumption
<1>5. h \in Heights /\ size \in MIN_SUBTREE .. h
      /\ UpperTrees[l] = WholeTree(l, size, h) /\ UpperStacks[l] = StackTotal(l, size, h)
  BY <1>1, <1>2, <1>4, UpperNumbers
<1> HIDE DEF size
<1>6. compute_level_memory_usage(l, size, h) = UpperTrees[l] + UpperStacks[l]
      /\ UpperTrees[l] \in Int /\ UpperStacks[l] \in Int
  BY <1>4, <1>5, TreeEnds
<1>7. /\ SumOver(UpperTrees, 0 .. l) = SumOver(UpperTrees, 0 .. l - 1) + UpperTrees[l]
      /\ SumOver(UpperStacks, 0 .. l) = SumOver(UpperStacks, 0 .. l - 1) + UpperStacks[l]
      /\ SumOver(UpperTrees, 0 .. l - 1) \in Int /\ SumOver(UpperStacks, 0 .. l - 1) \in Int
  <2>1. Numbers(UpperTrees, Bottom) /\ Numbers(UpperStacks, Bottom)
    BY <1>2, UpperNumbers
  <2>2. l \in 0 .. Bottom + 1
    BY <1>4
  <2> QED BY <1>4, <2>1, <2>2, SumsOfLevels
<1>8. Total' = Total /\ Total \in Int
  BY <1>2, TotalKept DEF BooksInv, Carried
<1>9. UpperTrees' = UpperTrees /\ UpperStacks' = UpperStacks
  BY <1>2, SameNumbers
<1>10. /\ Spent = Total + MALLOC_OVERHEAD + stack_usage + SumOver(UpperTrees, 0 .. l - 1)
       /\ stack_usage = SumOver(UpperStacks, 0 .. l - 1)
  BY <1>1, <1>2 DEF BooksInv, PlanBooks
<1>11. stack_usage' = SumOver(UpperStacks', 0 .. i' - 1)
  <2>1. i' - 1 = l
    BY <1>2, <1>4
  <2> QED BY <1>3, <1>5, <1>7, <1>9, <1>10, <2>1
<1>12. Spent' = Total' + MALLOC_OVERHEAD + stack_usage' + SumOver(UpperTrees', 0 .. i' - 1)
  <2>1. i' - 1 = l
    BY <1>2, <1>4
  <2>2. Spent' = Spent + (UpperTrees[l] + UpperStacks[l])
    BY <1>2, <1>3, <1>4, <1>6 DEF Spent
  <2>3. SumOver(UpperTrees', 0 .. i' - 1) = SumOver(UpperTrees, 0 .. l - 1) + UpperTrees[l]
    BY <1>7, <1>9, <2>1
  <2>4. stack_usage' = stack_usage + UpperStacks[l] /\ stack_usage \in Int
    BY <1>3, <1>5, <1>7, <1>10
  <2> DEFINE trees == SumOver(UpperTrees, 0 .. l - 1)
             tree == UpperTrees[l]
             stack == UpperStacks[l]
             rest == SumOver(UpperTrees', 0 .. i' - 1)
  <2>5. /\ trees \in Int /\ tree \in Int /\ stack \in Int /\ rest = trees + tree
        /\ Spent' = Spent + (tree + stack) /\ stack_usage' = stack_usage + stack
        /\ Spent = Total + MALLOC_OVERHEAD + stack_usage + trees
    BY <1>6, <1>7, <1>10, <2>2, <2>3, <2>4
  <2> HIDE DEF trees, tree, stack, rest
  <2>6. Spent' = Total' + MALLOC_OVERHEAD + stack_usage' + rest
    BY <1>4, <1>8, <2>4, <2>5
  <2> QED BY <2>6 DEF rest
<1>13. HeapInPlace'
  BY <1>2, HeapStays DEF BooksInv, Carried, SignedPkMade
<1>14. PlanBooks' /\ Books'
  BY <1>2, <1>11, <1>12 DEF BooksInv, PlanBooks, Books, Planned
<1> QED BY <1>2, <1>13, <1>14 DEF BooksInv

\* The search at the bottom.
LEMMA BottomLevelBooks ==
  ASSUME IInv, BooksInv, BottomLevel
  PROVE  BooksInv'
<1>1. /\ pc = "sizes" /\ pc' = "search" /\ i = Bottom /\ Bottom' = Bottom
      /\ best.status = "nothing_yet"
      /\ UNCHANGED <<request, error, heap, mem_target, subtree_size, stack_usage, stack_index, best, i, k>>
  BY DEF BottomLevel, plan, IInv, Typed, Bottom
<1>2. Total' = Total
  BY <1>1, TotalKept DEF BooksInv
<1>3. UpperTrees' = UpperTrees /\ UpperStacks' = UpperStacks
  BY <1>1, SameNumbers
<1>4. HeapInPlace'
  BY <1>1, HeapStays DEF BooksInv, Carried, SignedPkMade
<1>5. PlanBooks' /\ Books'
  BY <1>1, <1>2, <1>3 DEF BooksInv, PlanBooks, Books, Planned, Spent
<1> QED BY <1>1, <1>4, <1>5 DEF BooksInv

LEMMA ConsiderBooks ==
  ASSUME IInv, BooksInv, Consider
  PROVE  BooksInv'
<1>1. /\ pc = "search" /\ pc' = "search" /\ Bottom' = Bottom /\ height(Bottom)' = height(Bottom)
      /\ UNCHANGED <<request, error, heap, mem_target, subtree_size, stack_usage, stack_index, i, k>>
      /\ best' = best \/ best'.stack = StackTotal(Bottom, best'.j, height(Bottom))
  BY DEF Consider, Bottom, height
<1>2. Total' = Total
  BY <1>1, TotalKept DEF BooksInv
<1>3. UpperTrees' = UpperTrees /\ UpperStacks' = UpperStacks
  BY <1>1, SameNumbers
<1>4. HeapInPlace'
  BY <1>1, HeapStays DEF BooksInv, Carried, SignedPkMade
<1>5. PlanBooks' /\ Books'
  BY <1>1, <1>2, <1>3 DEF BooksInv, PlanBooks, Books, Planned, Spent
<1> QED BY <1>1, <1>4, <1>5 DEF BooksInv

LEMMA FoundBooks ==
  ASSUME IInv, BooksInv, Found
  PROVE  BooksInv'
<1>1. best.status # "nothing_yet" /\ pc = "search"
  BY SomeSizeFound DEF Found, SearchSucceeds
<1>2. /\ pc' = "stack" /\ j' = 0 /\ i = Bottom
      /\ stack_usage' = stack_usage + best.stack
      /\ best.stack = StackTotal(Bottom, best.j, height(Bottom))
      /\ UNCHANGED <<request, error, heap, mem_target, stack_index, best, i, k>>
  BY <1>1 DEF Found, BooksInv, PlanBooks
<1>3. PICK l, h, s : l = Bottom /\ h = height(Bottom) /\ s = best.j
  OBVIOUS
<1>4. /\ s \in MIN_SUBTREE .. h /\ subtree_size' = [subtree_size EXCEPT ![l] = s]
      /\ l \in 0 .. MAX_HSS_LEVELS - 1
  BY <1>2, <1>3, BestFound
<1>5. best.mem = compute_level_memory_usage(l, s, h)
  BY <1>1, <1>3 DEF IInv, BestSoFar, Usage
<1>6. /\ l \in Nat /\ l + 1 \in Nat /\ h \in Heights
      /\ mem_target \in Int /\ request.memory_target \in Int
      /\ Numbers(UpperTrees, l) /\ Numbers(UpperStacks, l)
      /\ MALLOC_OVERHEAD \in Nat
  BY <1>1, <1>3, UpperNumbers, AllocAssumption
<1>7. best.mem = WholeTree(l, s, h) + StackTotal(l, s, h)
      /\ WholeTree(l, s, h) \in Int /\ StackTotal(l, s, h) \in Int
  BY <1>4, <1>5, <1>6, TreeEnds
<1>8. Bottom' = l /\ (\A x : height(x)' = height(x)) /\ height(l) = h
  BY <1>2, <1>3, SameNumbers
<1>9. /\ \A x \in 0 .. l - 1 : Trees'[x] = UpperTrees[x] /\ Stacks'[x] = UpperStacks[x]
      /\ Trees'[l] = WholeTree(l, s, h) /\ Stacks'[l] = StackTotal(l, s, h)
      /\ Numbers(Trees', l) /\ Numbers(Stacks', l)
  <2>1. subtree_size \in [0 .. MAX_HSS_LEVELS - 1 -> Nat]
    BY DEF IInv, Typed
  <2>2. \A x \in 0 .. l : /\ Trees'[x] = WholeTree(x, subtree_size'[x], height(x))
                          /\ Stacks'[x] = StackTotal(x, subtree_size'[x], height(x))
    BY <1>8 DEF Trees, Stacks
  <2>3. l \in 0 .. l /\ subtree_size'[l] = s
    BY <1>4, <1>6, <2>1
  <2>4. Trees'[l] = WholeTree(l, s, h) /\ Stacks'[l] = StackTotal(l, s, h)
    BY <1>8, <2>2, <2>3
  <2>5. ASSUME NEW x \in 0 .. l - 1
        PROVE  Trees'[x] = UpperTrees[x] /\ Stacks'[x] = UpperStacks[x]
    <3>1. x \in 0 .. l /\ x # l /\ x \in 0 .. MAX_HSS_LEVELS - 1
      <4>1. l \in 0 .. 7
        BY <1>4 DEF MAX_HSS_LEVELS
      <4> QED BY <4>1 DEF MAX_HSS_LEVELS
    <3>2. subtree_size[x] = hss_smallest_subtree_size
      BY <1>1, <1>3 DEF IInv, Settled
    <3>3. subtree_size'[x] = hss_smallest_subtree_size
      BY <1>4, <2>1, <3>1, <3>2
    <3>4. /\ UpperTrees[x] = WholeTree(x, hss_smallest_subtree_size, height(x))
          /\ UpperStacks[x] = StackTotal(x, hss_smallest_subtree_size, height(x))
      BY <1>1, <1>3, <3>1, UpperNumbers
    <3> QED BY <2>2, <3>1, <3>3, <3>4
  <2>6. \A x \in 0 .. l : x \in 0 .. l - 1 \/ x = l
    BY <1>6
  <2>7. \A x \in 0 .. l : Trees'[x] \in Int /\ Stacks'[x] \in Int
    <3> TAKE x \in 0 .. l
    <3>1. CASE x = l
      BY <1>7, <2>4, <3>1
    <3>2. CASE x \in 0 .. l - 1
      BY <1>6, <2>5, <3>2 DEF Numbers
    <3> QED BY <2>6, <3>1, <3>2
  <2> QED BY <2>4, <2>5, <2>7 DEF Numbers
<1>10. /\ SumOver(Trees', 0 .. l) = SumOver(UpperTrees, 0 .. l - 1) + WholeTree(l, s, h)
       /\ SumOver(Stacks', 0 .. l) = SumOver(UpperStacks, 0 .. l - 1) + StackTotal(l, s, h)
       /\ SumOver(UpperTrees, 0 .. l - 1) \in Int /\ SumOver(UpperStacks, 0 .. l - 1) \in Int
  <2>1. l \in 0 .. l /\ l \in 0 .. l + 1
    BY <1>6
  <2>2. /\ SumOver(Trees', 0 .. l) = SumOver(Trees', 0 .. l - 1) + Trees'[l]
        /\ SumOver(Stacks', 0 .. l) = SumOver(Stacks', 0 .. l - 1) + Stacks'[l]
    BY <1>6, <1>9, <2>1, SumsOfLevels
  <2>3. /\ SumOver(Trees', 0 .. l - 1) = SumOver(UpperTrees, 0 .. l - 1)
        /\ SumOver(Stacks', 0 .. l - 1) = SumOver(UpperStacks, 0 .. l - 1)
    BY <1>6, <1>9, <2>1, SameSums
  <2>4. SumOver(UpperTrees, 0 .. l - 1) \in Int /\ SumOver(UpperStacks, 0 .. l - 1) \in Int
    BY <1>6, <2>1, SumsOfLevels
  <2> QED BY <1>9, <2>2, <2>3, <2>4
<1>11. Total' = Total /\ Total \in Int
  BY <1>1, <1>2, TotalKept DEF BooksInv, Carried
<1>12. /\ Spent = Total + MALLOC_OVERHEAD + stack_usage + SumOver(UpperTrees, 0 .. l - 1)
       /\ stack_usage = SumOver(UpperStacks, 0 .. l - 1)
  BY <1>1, <1>2, <1>3 DEF BooksInv, PlanBooks
<1>13. stack_usage' = SumOver(Stacks', 0 .. Bottom')
  BY <1>2, <1>3, <1>8, <1>10, <1>12
<1>14. Spent' + best'.mem
         = Total' + MALLOC_OVERHEAD + stack_usage' + SumOver(Trees', 0 .. Bottom')
  <2>1. Spent' = Spent /\ best'.mem = best.mem /\ stack_usage' = stack_usage + StackTotal(l, s, h)
    BY <1>2, <1>3 DEF Spent
  <2> QED BY <1>6, <1>7, <1>8, <1>10, <1>11, <1>12, <2>1
<1>15. HeapInPlace'
  BY <1>1, <1>2, HeapStays DEF BooksInv, Carried, SignedPkMade
<1>16. PlanBooks' /\ Books'
  BY <1>1, <1>2, <1>13, <1>14 DEF BooksInv, PlanBooks, Books, Planned
<1> QED BY <1>2, <1>15, <1>16 DEF BooksInv

\* The plan is carried out: the stack,
LEMMA StackBooks ==
  ASSUME IInv, BooksInv, Stack
  PROVE  BooksInv'
<1>1. CASE Reset
  <2>1. error' # "internal"
    BY <1>1 DEF Stack, OutOfMemory, Fail, Reset
  <2> QED BY <1>1, <2>1, EndOfCall
<1>2. CASE ~Reset
  <2>1. /\ pc = "stack" /\ pc' = "tree" /\ i' = 0 /\ j = 0 /\ k = 0 /\ stack_index = 0
        /\ heap' = IF stack_usage = 0 THEN heap ELSE heap \cup {<<"stack">>}
        /\ UNCHANGED <<error, request, mem_target, subtree_size, stack_usage, best, stack_index, j, k>>
    BY <1>2 DEF Stack, Malloc, OutOfMemory, Fail, plan, BooksInv, PlanBooks, Books
  <2>2. <<"stack">> \notin heap
    <3>1. ~InPlace(<<"stack">>)
      BY <2>1 DEF InPlace, Carried
    <3> QED BY <2>1, <3>1 DEF BooksInv, HeapInPlace
  <2>3. MALLOC_OVERHEAD \in Nat /\ stack_usage \in Int
    BY StackUsageIsInt, AllocAssumption DEF BooksInv
  <2>4. Total' + Unused' = Total + MALLOC_OVERHEAD + stack_usage /\ Total \in Int
        /\ Total' \in Int /\ Unused' \in Int
    <3>1. CASE stack_usage = 0
      <4>1. Total' = Total /\ Total \in Int
        BY <2>1, <3>1, TotalKept DEF BooksInv
      <4>2. Unused' = MALLOC_OVERHEAD
        BY <2>1, <2>2, <3>1 DEF Unused
      <4> QED BY <2>3, <3>1, <4>1, <4>2
    <3>2. CASE stack_usage # 0
      <4>1. PICK block : block = <<"stack">>
        OBVIOUS
      <4>2. Bytes(block)' = MALLOC_OVERHEAD + stack_usage
        BY <2>1, <4>1, BytesOfNextBlocks
      <4>3. Total' = Total + Bytes(block)' /\ Total \in Int
        BY <2>1, <2>2, <2>3, <3>2, <4>1, <4>2, TotalGrows DEF BooksInv
      <4>4. Unused' = 0
        BY <2>1, <3>2 DEF Unused
      <4> QED BY <2>3, <4>2, <4>3, <4>4
    <3> QED BY <3>1, <3>2
  <2>5. HeapInPlace'
    <3>1. PICK block : block = <<"stack">>
      OBVIOUS
    <3>2. InPlace(block)'
      BY <2>1, <3>1 DEF InPlace, Carried
    <3>3. heap' = heap \/ heap' = heap \cup {block}
      BY <2>1, <3>1
    <3> QED BY <2>1, <3>2, <3>3, HeapStays DEF BooksInv, Carried, SignedPkMade
  <2>6. Bottom' = Bottom /\ Trees' = Trees /\ Stacks' = Stacks
    BY <2>1, SameNumbers
  <2>7. /\ SumOver(Trees, 0 .. 0 - 1) = 0 /\ SumOver(Stacks, 0 .. 0 - 1) = 0
        /\ SumOver(Trees, 0 .. Bottom) \in Int
    <3>1. Numbers(Trees, Bottom) /\ Numbers(Stacks, Bottom) /\ Bottom \in Nat
      BY <2>1, PlanNumbers, UpperNumbers DEF Planned
    <3> QED BY <3>1, SumsOfLevels
  <2>8. Spent' + best'.mem
          = Total' + Unused' + SumOver(Trees', 0 .. Bottom') - SumOver(Trees', 0 .. i' - 1)
    <3> DEFINE trees == SumOver(Trees, 0 .. Bottom)
    <3>1. Spent' + best'.mem = Total + MALLOC_OVERHEAD + stack_usage + trees
      BY <2>1 DEF Spent, BooksInv, Books
    <3>2. SumOver(Trees', 0 .. Bottom') = trees /\ SumOver(Trees', 0 .. i' - 1) = 0
      BY <2>1, <2>6, <2>7
    <3>3. trees \in Int
      BY <2>7
    <3> HIDE DEF trees
    <3>4. Total + MALLOC_OVERHEAD + stack_usage + trees = Total' + Unused' + trees - 0
      <4> DEFINE before == Total + MALLOC_OVERHEAD + stack_usage
                 after == Total' + Unused'
      <4>1. before = after /\ after \in Int
        BY <2>4
      <4> HIDE DEF before, after
      <4>2. before + trees = after + trees - 0
        BY <3>3, <4>1
      <4> QED BY <4>2 DEF before, after
    <3> QED BY <3>1, <3>2, <3>4
  <2>9. stack_index' = SumOver(Stacks', 0 .. i' - 1)
    BY <2>1, <2>6, <2>7
  <2>10. PlanBooks' /\ Books'
    BY <2>1, <2>6, <2>8, <2>9 DEF BooksInv, PlanBooks, Books, Planned
  <2> QED BY <2>1, <2>5, <2>10 DEF BooksInv
<1> QED BY <1>1, <1>2

\* the level structures,
LEMMA TreeBooks ==
  ASSUME IInv, BooksInv, Tree
  PROVE  BooksInv'
<1>1. CASE Reset
  <2>1. error' # "internal"
    BY <1>1 DEF Tree, OutOfMemory, Fail, Reset
  <2> QED BY <1>1, <2>1, EndOfCall
<1>2. CASE ~Reset
  <2>1. PICK l, s, h, block : /\ l = i /\ s = subtree_size[i] /\ h = height(i)
                              /\ block = <<"tree", l>>
    OBVIOUS
  <2>2. /\ pc = "tree" /\ pc' = "subtrees" /\ l < request.levels /\ j = 0 /\ k = 0
        /\ heap' = heap \cup {block}
        /\ UNCHANGED <<error, request, mem_target, subtree_size, stack_usage, best, stack_index, i, j, k>>
    BY <1>2, <2>1 DEF Tree, Malloc, OutOfMemory, Fail, plan, BooksInv, PlanBooks, Books
  <2>3. /\ MALLOC_OVERHEAD \in Nat /\ SizeofLevel \in Nat /\ Bottom \in Nat /\ l \in 0 .. Bottom
        /\ l \in Nat /\ h \in Heights /\ s \in MIN_SUBTREE .. h
    <3>1. l \in 0 .. Bottom /\ l \in Nat /\ Bottom \in Nat
      BY <2>1, <2>2, UpperNumbers DEF IInv, Typed
    <3> QED BY <2>1, <2>2, <3>1, UpperNumbers, PlanNumbers, AllocAssumption DEF Planned
  <2>4. block \notin heap
    <3>1. ~InPlace(block)
      BY <2>1, <2>2, <2>3 DEF InPlace, TreeMade
    <3> QED BY <2>2, <3>1 DEF BooksInv, HeapInPlace
  <2>5. Bytes(block)' = MALLOC_OVERHEAD + SizeofLevel
    BY <2>1, BytesOfNextBlocks
  <2>6. Total' = Total + (MALLOC_OVERHEAD + SizeofLevel) /\ Total \in Int
    <3>1. Bytes(block)' \in Int
      BY <2>3, <2>5
    <3>2. Total' = Total + Bytes(block)' /\ Total \in Int
      BY <2>2, <2>4, <3>1, TotalGrows DEF BooksInv
    <3> QED BY <2>5, <3>2
  <2>7. Unused' = Unused /\ Unused \in Int
    <3>1. block # <<"stack">>
      BY <2>1
    <3> QED BY <2>2, <2>3, <3>1 DEF Unused
  <2>8. HeapInPlace'
    <3>1. Bottom' = Bottom /\ TreeMade(l)' /\ Carried'
      BY <2>1, <2>2 DEF Bottom, TreeMade, Carried
    <3>2. InPlace(block)'
      BY <2>1, <2>3, <3>1 DEF InPlace
    <3>3. \A x \in 0 .. Bottom : TreeMade(x) => TreeMade(x)'
      BY <2>2 DEF TreeMade
    <3>4. \A x \in 0 .. Bottom, y \in Nat, z \in Nat : SubtreeMade(x, y, z) => SubtreeMade(x, y, z)'
      BY <2>2 DEF SubtreeMade
    <3>5. \A x \in 1 .. Bottom : SignedPkMade(x) => SignedPkMade(x)'
      BY <2>2 DEF SignedPkMade
    <3> QED BY <2>2, <3>1, <3>2, <3>3, <3>4, <3>5, HeapStays DEF BooksInv
  <2>9. Bottom' = Bottom /\ Trees' = Trees /\ Stacks' = Stacks /\ (\A x : height(x)' = height(x))
    BY <2>2, SameNumbers
  <2>10. /\ SumOver(Trees, 0 .. Bottom) \in Int /\ SumOver(Trees, 0 .. l - 1) \in Int
         /\ SumOver(Stacks, 0 .. l - 1) \in Int
    <3>1. Numbers(Trees, Bottom) /\ Numbers(Stacks, Bottom)
      BY <2>2, PlanNumbers DEF Planned
    <3>2. SumOver(Trees, 0 .. Bottom) \in Int
      BY <2>3, <3>1, SumsOfLevels
    <3>3. l \in 0 .. Bottom + 1
      BY <2>3
    <3> QED BY <2>3, <3>1, <3>2, <3>3, SumsOfLevels
  <2>11. /\ i' = l /\ height(i)' = h /\ subtree_size'[i'] = s /\ j' = 0 /\ k' = 0
    BY <2>1, <2>2, <2>9
  <2>12. TreeBytes(l, s, h, 0, 0) = SizeofLevel + MALLOC_OVERHEAD /\ StackBytes(l, s, h, 0, 0) = 0
    BY <2>3, TreeBegins
  <2>13. Spent' + best'.mem
           = Total' + Unused' + SumOver(Trees', 0 .. Bottom') - SumOver(Trees', 0 .. i' - 1)
               - TreeBytes(i', subtree_size'[i'], height(i)', j', k')
    <3> DEFINE trees == SumOver(Trees, 0 .. Bottom)
               before == SumOver(Trees, 0 .. l - 1)
               tree == TreeBytes(l, s, h, 0, 0)
    <3>1. Spent' + best'.mem = Total + Unused + trees - before
      BY <2>1, <2>2 DEF Spent, BooksInv, Books
    <3>2. /\ SumOver(Trees', 0 .. Bottom') = trees /\ SumOver(Trees', 0 .. i' - 1) = before
          /\ TreeBytes(i', subtree_size'[i'], height(i)', j', k') = tree
      BY <2>9, <2>11
    <3>3. trees \in Int /\ before \in Int /\ tree = SizeofLevel + MALLOC_OVERHEAD
      BY <2>10, <2>12
    <3> HIDE DEF trees, before, tree
    <3>4. Total + Unused + trees - before = Total' + Unused' + trees - before - tree
      BY <2>3, <2>6, <2>7, <3>3
    <3> QED BY <3>1, <3>2, <3>4
  <2>14. stack_index' = SumOver(Stacks', 0 .. i' - 1)
                          + StackBytes(i', subtree_size'[i'], height(i)', j', k')
    <3> DEFINE before == SumOver(Stacks, 0 .. l - 1)
    <3>1. stack_index' = before
      BY <2>1, <2>2 DEF BooksInv, Books
    <3>2. SumOver(Stacks', 0 .. i' - 1) = before /\ before \in Int
          /\ StackBytes(i', subtree_size'[i'], height(i)', j', k') = 0
      BY <2>9, <2>10, <2>11, <2>12
    <3> HIDE DEF before
    <3> QED BY <3>1, <3>2
  <2>15. j' <= Sublevels(height(i)', subtree_size'[i'])
    <3>1. Sublevels(h, s) \in 1 .. MAX_SUBLEVELS
      BY <2>3, SublevelsRange
    <3>2. 0 <= Sublevels(h, s)
      BY <3>1
    <3> QED BY <2>11, <3>2
  <2>16. Books'
    <3>1. stack_usage' = SumOver(Stacks', 0 .. Bottom')
      BY <2>2, <2>9 DEF BooksInv, Books, Planned
    <3>2. error' # "internal"
      BY <2>2 DEF BooksInv, Books
    <3> QED BY <2>2, <2>11, <2>13, <2>14, <2>15, <3>1, <3>2 DEF Books
  <2>17. PlanBooks'
    BY <2>2 DEF PlanBooks
  <2> QED BY <2>2, <2>8, <2>16, <2>17 DEF BooksInv
<1> QED BY <1>1, <1>2

\* the subtrees of a level, one slot after the other,
LEMMA TreeBytesAreInts ==
  ASSUME NEW l \in Nat, NEW h \in Heights, NEW s \in MIN_SUBTREE .. h, NEW t \in Nat, NEW x \in Nat
  PROVE  TreeBytes(l, s, h, t, x) \in Int /\ StackBytes(l, s, h, t, x) \in Int
<1> DEFINE top == TopBytes(s, h)
           rest == RestBytes(s)
           a == TopMade(l, t, x)
           b == RestMade(l, t, x)
           c == LevelsStacked(l, Sublevels(h, s) - 1, t, x)
<1>1. /\ s \in Nat /\ top \in Int /\ rest \in Int /\ a \in Int /\ b \in Int /\ c \in Int
      /\ SizeofLevel \in Nat /\ MALLOC_OVERHEAD \in Nat /\ HashSize \in Nat
  BY LevelTypes
<1>2. /\ TreeBytes(l, s, h, t, x) = SizeofLevel + MALLOC_OVERHEAD + a * top + b * rest
      /\ StackBytes(l, s, h, t, x) = HashSize * s * c
  BY DEF TreeBytes, StackBytes
<1> HIDE DEF top, rest, a, b, c
<1>3. a * top \in Int /\ b * rest \in Int /\ HashSize * s * c \in Int
  BY <1>1
<1> QED BY <1>1, <1>2, <1>3

LEMMA LevelNumbers ==
  ASSUME IInv, Planned, NEW l \in 0 .. Bottom
  PROVE  /\ l \in Nat /\ height(l) \in Heights /\ subtree_size[l] \in MIN_SUBTREE .. height(l)
         /\ Sublevels(height(l), subtree_size[l]) \in Nat
         /\ Sublevels(height(l), subtree_size[l]) > 0
         /\ SumOver(Trees, 0 .. Bottom) \in Int
         /\ SumOver(Trees, 0 .. l - 1) \in Int /\ SumOver(Stacks, 0 .. l - 1) \in Int
         /\ SumOver(Trees, 0 .. l)
              = SumOver(Trees, 0 .. l - 1) + WholeTree(l, subtree_size[l], height(l))
         /\ SumOver(Stacks, 0 .. l)
              = SumOver(Stacks, 0 .. l - 1) + StackTotal(l, subtree_size[l], height(l))
         /\ WholeTree(l, subtree_size[l], height(l)) \in Int
         /\ StackTotal(l, subtree_size[l], height(l)) \in Int
<1>1. /\ Bottom \in Nat /\ height(l) \in Heights /\ subtree_size[l] \in MIN_SUBTREE .. height(l)
      /\ Numbers(Trees, Bottom) /\ Numbers(Stacks, Bottom)
      /\ Trees[l] = WholeTree(l, subtree_size[l], height(l))
      /\ Stacks[l] = StackTotal(l, subtree_size[l], height(l))
  BY PlanNumbers, UpperNumbers DEF Planned
<1>2. l \in Nat /\ l \in 0 .. Bottom + 1
  BY <1>1
<1>3. /\ SumOver(Trees, 0 .. Bottom) \in Int
      /\ SumOver(Trees, 0 .. l - 1) \in Int /\ SumOver(Stacks, 0 .. l - 1) \in Int
      /\ SumOver(Trees, 0 .. l) = SumOver(Trees, 0 .. l - 1) + Trees[l]
      /\ SumOver(Stacks, 0 .. l) = SumOver(Stacks, 0 .. l - 1) + Stacks[l]
  BY <1>1, <1>2, SumsOfLevels
<1>4. WholeTree(l, subtree_size[l], height(l)) \in Int
      /\ StackTotal(l, subtree_size[l], height(l)) \in Int
  BY <1>1, <1>2, TreeEnds
<1>5. Sublevels(height(l), subtree_size[l]) \in 1 .. MAX_SUBLEVELS
  BY <1>1, SublevelsRange
<1>6. Sublevels(height(l), subtree_size[l]) \in Nat /\ Sublevels(height(l), subtree_size[l]) > 0
  BY <1>5
<1> QED BY <1>1, <1>2, <1>3, <1>4, <1>6

\* The accounts of a slot that has been passed, where more was allocated and so much was added to
\* stack_index.
LEMMA SlotBooks ==
  ASSUME IInv, BooksInv, pc = "subtrees", pc' = "subtrees",
         UNCHANGED <<error, request, mem_target, subtree_size, stack_usage, best, i>>,
         NEW more \in Int, NEW stacked \in Int,
         Total \in Int, Total' = Total + more, Unused' = Unused,
         stack_index' = stack_index + stacked,
         HeapInPlace',
         NEW l \in 0 .. Bottom, l = i, NEW s, s = subtree_size[i], NEW h, h = height(i),
         NEW t \in Nat, NEW x \in Nat, t = j, x = k,
         NEW t2 \in Nat, NEW x2 \in Nat, t2 = j', x2 = k',
         TreeBytes(l, s, h, t2, x2) = TreeBytes(l, s, h, t, x) + more,
         StackBytes(l, s, h, t2, x2) = StackBytes(l, s, h, t, x) + stacked,
         t2 <= Sublevels(h, s), t2 = Sublevels(h, s) => x2 = 0
  PROVE  BooksInv'
<1>1. Bottom' = Bottom /\ Trees' = Trees /\ Stacks' = Stacks /\ (\A y : height(y)' = height(y))
  BY SameNumbers
<1>2. /\ i' = l /\ height(i)' = h /\ subtree_size'[i'] = s
  BY <1>1
<1>3. /\ l \in Nat /\ h \in Heights /\ s \in MIN_SUBTREE .. h
      /\ SumOver(Trees, 0 .. Bottom) \in Int
      /\ SumOver(Trees, 0 .. l - 1) \in Int /\ SumOver(Stacks, 0 .. l - 1) \in Int
  BY LevelNumbers DEF Planned
<1>4. TreeBytes(l, s, h, t, x) \in Int /\ StackBytes(l, s, h, t, x) \in Int
  BY <1>3, TreeBytesAreInts
<1>5. Unused \in Int
  BY AllocAssumption DEF Unused
<1>6. Spent' + best'.mem
        = Total' + Unused' + SumOver(Trees', 0 .. Bottom') - SumOver(Trees', 0 .. i' - 1)
            - TreeBytes(i', subtree_size'[i'], height(i)', j', k')
  <2> DEFINE trees == SumOver(Trees, 0 .. Bottom)
             before == SumOver(Trees, 0 .. l - 1)
             tree == TreeBytes(l, s, h, t, x)
             next == TreeBytes(l, s, h, t2, x2)
  <2>1. Spent' + best'.mem = Total + Unused + trees - before - tree
    BY DEF Spent, BooksInv, Books
  <2>2. /\ SumOver(Trees', 0 .. Bottom') = trees /\ SumOver(Trees', 0 .. i' - 1) = before
        /\ TreeBytes(i', subtree_size'[i'], height(i)', j', k') = next
    BY <1>1, <1>2
  <2>3. trees \in Int /\ before \in Int /\ tree \in Int /\ next = tree + more
    BY <1>3, <1>4
  <2> HIDE DEF trees, before, tree, next
  <2>4. Total + Unused + trees - before - tree = Total' + Unused' + trees - before - next
    BY <1>5, <2>3
  <2> QED BY <2>1, <2>2, <2>4
<1>7. stack_index' = SumOver(Stacks', 0 .. i' - 1)
                       + StackBytes(i', subtree_size'[i'], height(i)', j', k')
  <2> DEFINE before == SumOver(Stacks, 0 .. l - 1)
             tree == StackBytes(l, s, h, t, x)
             next == StackBytes(l, s, h, t2, x2)
  <2>1. stack_index = before + tree
    BY DEF BooksInv, Books
  <2>2. /\ SumOver(Stacks', 0 .. i' - 1) = before
        /\ StackBytes(i', subtree_size'[i'], height(i)', j', k') = next
    BY <1>1, <1>2
  <2>3. before \in Int /\ tree \in Int /\ next = tree + stacked
    BY <1>3, <1>4
  <2> HIDE DEF before, tree, next
  <2>4. stack_index' = before + next
    BY <2>1, <2>3
  <2> QED BY <2>2, <2>4
<1>8. j' <= Sublevels(height(i)', subtree_size'[i'])
      /\ (j' = Sublevels(height(i)', subtree_size'[i']) => k' = 0)
  BY <1>2
<1>9. stack_usage' = SumOver(Stacks', 0 .. Bottom') /\ error' # "internal"
  BY <1>1 DEF BooksInv, Books, Planned
<1>10. Books'
  BY <1>6, <1>7, <1>8, <1>9 DEF Books
<1>11. PlanBooks'
  BY DEF PlanBooks
<1> QED BY <1>10, <1>11 DEF BooksInv

\* What NextSlot does to the blocks' places.
LEMMA SlotPassed ==
  ASSUME IInv, BooksInv, InSubtrees, NextSlot, pc' = "subtrees",
         UNCHANGED <<request, subtree_size, i>>
  PROVE  /\ j \in Nat /\ k \in Nat /\ k \in 0 .. NUM_SUBTREE - 1 /\ j' \in Nat /\ k' \in Nat
         /\ i \in 0 .. Bottom
         /\ j' <= Sublevels(height(i), subtree_size[i])
         /\ j' = Sublevels(height(i), subtree_size[i]) => k' = 0
         /\ \A x \in 1 .. Bottom : SignedPkMade(x) => SignedPkMade(x)'
         /\ Carried /\ Carried'
         /\ \A x \in 0 .. Bottom : TreeMade(x) => TreeMade(x)'
         /\ \A x \in 0 .. Bottom, y \in Nat, z \in Nat : SubtreeMade(x, y, z) => SubtreeMade(x, y, z)'
<1>1. /\ pc = "subtrees" /\ j < Sublevels(height(i), subtree_size[i])
      /\ IF k + 1 = NUM_SUBTREE THEN j' = j + 1 /\ k' = 0 ELSE j' = j /\ k' = k + 1
  BY DEF InSubtrees, NextSlot
<1>2. j \in Nat /\ k \in 0 .. 2 /\ i \in 0 .. Bottom
  BY <1>1, UpperNumbers DEF IInv, Typed, NUM_SUBTREE
<1>3. Sublevels(height(i), subtree_size[i]) \in Nat
  BY <1>1, <1>2, LevelNumbers DEF Planned
<1>4. /\ j' \in Nat /\ k' \in Nat
      /\ j' <= Sublevels(height(i), subtree_size[i])
      /\ j' = Sublevels(height(i), subtree_size[i]) => k' = 0
      /\ j < j' \/ (j = j' /\ k < k')
  BY <1>1, <1>2, <1>3 DEF NUM_SUBTREE
<1>5. \A x \in 0 .. Bottom, y \in Nat, z \in Nat : SubtreeMade(x, y, z) => SubtreeMade(x, y, z)'
  <2> SUFFICES ASSUME NEW x \in 0 .. Bottom, NEW y \in Nat, NEW z \in Nat, SubtreeMade(x, y, z)
               PROVE  SubtreeMade(x, y, z)'
    OBVIOUS
  <2>1. y < j \/ (y = j /\ z < k) => y < j' \/ (y = j' /\ z < k')
    BY <1>2, <1>4
  <2> QED BY <1>1, <2>1 DEF SubtreeMade
<1>6. /\ \A x \in 1 .. Bottom : SignedPkMade(x) => SignedPkMade(x)'
      /\ Carried /\ Carried'
      /\ \A x \in 0 .. Bottom : TreeMade(x) => TreeMade(x)'
  BY <1>1 DEF SignedPkMade, Carried, TreeMade
<1> QED BY <1>2, <1>4, <1>5, <1>6 DEF NUM_SUBTREE

LEMMA SkipBooks ==
  ASSUME IInv, BooksInv, Skip
  PROVE  BooksInv'
<1>1. PICK l, s, h, t, x, t2, x2 :
        /\ l = i /\ s = subtree_size[i] /\ h = height(i)
        /\ t = j /\ x = k /\ t2 = j' /\ x2 = k'
  OBVIOUS
<1>2. /\ InSubtrees /\ NextSlot /\ pc = "subtrees" /\ pc' = "subtrees" /\ Skips(l, t, x)
      /\ IF x + 1 = NUM_SUBTREE THEN t2 = t + 1 /\ x2 = 0 ELSE t2 = t /\ x2 = x + 1
      /\ UNCHANGED <<error, heap, request, mem_target, subtree_size, stack_usage, best, stack_index, i>>
  BY <1>1 DEF Skip, InSubtrees, Skipped, Skips, NextSlot, plan
<1>3. /\ t \in Nat /\ x \in Nat /\ x \in 0 .. NUM_SUBTREE - 1 /\ t2 \in Nat /\ x2 \in Nat
      /\ l \in 0 .. Bottom /\ t2 <= Sublevels(h, s) /\ (t2 = Sublevels(h, s) => x2 = 0)
  BY <1>1, <1>2, SlotPassed
<1>4. l \in Nat /\ h \in Heights /\ s \in MIN_SUBTREE .. h
  BY <1>1, <1>2, <1>3, LevelNumbers DEF Planned
<1>5. Total' = Total /\ Total \in Int
  BY <1>2, TotalKept DEF BooksInv
<1>6. HeapInPlace'
  BY <1>2, SlotPassed, HeapStays DEF BooksInv
<1>7. /\ TreeBytes(l, s, h, t2, x2) = TreeBytes(l, s, h, t, x)
      /\ StackBytes(l, s, h, t2, x2) = StackBytes(l, s, h, t, x)
  BY <1>2, <1>3, <1>4, TreeGoesOn
<1>8. TreeBytes(l, s, h, t, x) \in Int /\ StackBytes(l, s, h, t, x) \in Int
  BY <1>3, <1>4, TreeBytesAreInts
<1>9. stack_index \in Int
  <2>1. stack_index = SumOver(Stacks, 0 .. l - 1) + StackBytes(l, s, h, t, x)
    BY <1>1, <1>2 DEF BooksInv, Books
  <2>2. SumOver(Stacks, 0 .. l - 1) \in Int
    BY <1>2, <1>3, LevelNumbers DEF Planned
  <2> QED BY <1>8, <2>1, <2>2
<1>10. PICK none \in Int : none = 0
  OBVIOUS
<1>11. /\ Total' = Total + none /\ stack_index' = stack_index + none /\ Unused' = Unused
       /\ TreeBytes(l, s, h, t2, x2) = TreeBytes(l, s, h, t, x) + none
       /\ StackBytes(l, s, h, t2, x2) = StackBytes(l, s, h, t, x) + none
  BY <1>2, <1>5, <1>7, <1>8, <1>9, <1>10 DEF Unused
<1> QED BY <1>1, <1>2, <1>3, <1>5, <1>6, <1>11, SlotBooks

LEMMA SubtreeBooks ==
  ASSUME IInv, BooksInv, Subtree
  PROVE  BooksInv'
<1>1. CASE Reset
  <2>1. error' # "internal"
    BY <1>1 DEF Subtree, InSubtrees, OutOfMemory, Fail, Reset
  <2> QED BY <1>1, <2>1, EndOfCall
<1>2. CASE ~Reset
  <2>1. PICK l, s, h, t, x, t2, x2, block :
          /\ l = i /\ s = subtree_size[i] /\ h = height(i)
          /\ t = j /\ x = k /\ t2 = j' /\ x2 = k' /\ block = <<"subtree", l, t, x>>
    OBVIOUS
  <2>2. /\ InSubtrees /\ NextSlot /\ pc = "subtrees" /\ pc' = "subtrees" /\ ~Skips(l, t, x)
        /\ IF x + 1 = NUM_SUBTREE THEN t2 = t + 1 /\ x2 = 0 ELSE t2 = t /\ x2 = x + 1
        /\ heap' = heap \cup {block}
        /\ stack_index' = IF x = ACTIVE_TREE THEN stack_index
                          ELSE stack_index + HashSize * LevelsBelow(l, t)
        /\ UNCHANGED <<error, request, mem_target, subtree_size, stack_usage, best, i>>
    BY <1>2, <2>1 DEF Subtree, Malloc, OutOfMemory, Fail, InSubtrees, Skipped, Skips, NextSlot, plan
  <2>3. /\ t \in Nat /\ x \in Nat /\ x \in 0 .. NUM_SUBTREE - 1 /\ t2 \in Nat /\ x2 \in Nat
        /\ l \in 0 .. Bottom /\ t2 <= Sublevels(h, s) /\ (t2 = Sublevels(h, s) => x2 = 0)
    BY <2>1, <2>2, SlotPassed
  <2>4. /\ l \in Nat /\ h \in Heights /\ s \in MIN_SUBTREE .. h
        /\ SumOver(Stacks, 0 .. l - 1) \in Int
    BY <2>1, <2>2, <2>3, LevelNumbers DEF Planned
  <2> DEFINE bytes == IF t = 0 THEN TopBytes(s, h) ELSE RestBytes(s)
             stacked == IF x = ACTIVE_TREE THEN 0 ELSE HashSize * ((Sublevels(h, s) - 1 - t) * s)
  <2>5. PICK more, added : more = bytes /\ added = stacked
    OBVIOUS
  <2>6. more \in Int /\ added \in Int
    <3>1. TopBytes(s, h) \in Int /\ RestBytes(s) \in Int /\ HashSize \in Nat /\ s \in Nat
          /\ Sublevels(h, s) - 1 \in Nat
      BY <2>4, LevelTypes
    <3>2. HashSize * ((Sublevels(h, s) - 1 - t) * s) \in Int
      <4> DEFINE m == Sublevels(h, s) - 1
      <4>1. m \in Nat
        BY <3>1
      <4> HIDE DEF m
      <4>2. HashSize * ((m - t) * s) \in Int
        BY <2>3, <3>1, <4>1
      <4> QED BY <4>2 DEF m
    <3> QED BY <2>5, <3>1, <3>2
  <2>7. SubtreeHeight(l, t)' = SubtreeHeight(l, t)
    BY <2>2 DEF SubtreeHeight, LevelsBelow, height
  <2>8. Bytes(block)' = more
    <3>1. Bytes(block)' = MALLOC_OVERHEAD + SubtreeBytes(SubtreeHeight(l, t)')
      BY <2>1, BytesOfNextBlocks
    <3>2. MALLOC_OVERHEAD + SubtreeBytes(SubtreeHeight(l, t)) = bytes
      BY <2>1, <2>2, <2>3, BytesOfSubtree DEF Planned
    <3> QED BY <2>5, <2>7, <3>1, <3>2
  <2>9. block \notin heap
    <3>1. ~InPlace(block)
      <4>1. ~SubtreeMade(l, t, x)
        BY <2>1, <2>3 DEF SubtreeMade
      <4> QED BY <2>1, <4>1 DEF InPlace
    <3> QED BY <2>2, <3>1 DEF BooksInv, HeapInPlace
  <2>10. Total' = Total + more /\ Total \in Int
    <3>1. Bytes(block)' \in Int
      BY <2>6, <2>8
    <3>2. Total' = Total + Bytes(block)' /\ Total \in Int
      BY <2>2, <2>9, <3>1, TotalGrows DEF BooksInv
    <3> QED BY <2>8, <3>2
  <2>11. Unused' = Unused
    <3>1. block # <<"stack">>
      BY <2>1
    <3> QED BY <2>2, <3>1 DEF Unused
  <2>12. HeapInPlace'
    <3>1. SubtreeMade(l, t, x)'
      <4>1. t < t2 \/ (t = t2 /\ x < x2)
        BY <2>2, <2>3 DEF NUM_SUBTREE
      <4>2. pc' = "subtrees" /\ i' = l /\ j' = t2 /\ k' = x2
        BY <2>1, <2>2
      <4> QED BY <4>1, <4>2 DEF SubtreeMade
    <3>2. InPlace(block)'
      <4>1. Bottom' = Bottom /\ Carried'
        BY <2>2 DEF Bottom, Carried
      <4> QED BY <2>1, <2>3, <3>1, <4>1 DEF InPlace
    <3>3. HeapInPlace /\ request' = request /\ heap' = heap \cup {block}
      BY <2>2 DEF BooksInv
    <3> QED BY <2>2, <3>2, <3>3, SlotPassed, HeapStays
  <2>13. stack_index' = stack_index + added
    <3>1. stack_index = SumOver(Stacks, 0 .. l - 1) + StackBytes(l, s, h, t, x)
      BY <2>1, <2>2 DEF BooksInv, Books
    <3>2. StackBytes(l, s, h, t, x) \in Int
      BY <2>3, <2>4, TreeBytesAreInts
    <3>3. stack_index \in Int
      BY <2>4, <3>1, <3>2
    <3>4. LevelsBelow(l, t) = (Sublevels(h, s) - 1 - t) * s
      BY <2>1 DEF LevelsBelow
    <3>5. CASE x = ACTIVE_TREE
      BY <2>2, <2>5, <3>3, <3>5
    <3>6. CASE x # ACTIVE_TREE
      BY <2>2, <2>5, <3>4, <3>6
    <3> QED BY <3>5, <3>6
  <2>14. /\ TreeBytes(l, s, h, t2, x2) = TreeBytes(l, s, h, t, x) + more
         /\ StackBytes(l, s, h, t2, x2) = StackBytes(l, s, h, t, x) + added
    BY <2>2, <2>3, <2>4, <2>5, TreeGoesOn
  <2> HIDE DEF bytes, stacked
  <2> QED BY <2>1, <2>2, <2>3, <2>6, <2>10, <2>11, <2>12, <2>13, <2>14, SlotBooks
<1> QED BY <1>1, <1>2

\* the end of a level,
LEMMA TreeDoneBooks ==
  ASSUME IInv, BooksInv, TreeDone
  PROVE  BooksInv'
<1>1. PICK l, s, h : l = i /\ s = subtree_size[i] /\ h = height(i)
  OBVIOUS
<1>2. /\ pc = "subtrees" /\ pc' = "tree" /\ i' = l + 1 /\ j' = 0 /\ k = 0 /\ k' = 0
      /\ j = Sublevels(h, s)
      /\ UNCHANGED <<error, heap, request, mem_target, subtree_size, stack_usage, best, stack_index>>
  BY <1>1 DEF TreeDone, plan, BooksInv, Books
<1>3. l \in 0 .. Bottom
  BY <1>1, <1>2, UpperNumbers DEF IInv, Typed
<1>4. /\ l \in Nat /\ h \in Heights /\ s \in MIN_SUBTREE .. h
      /\ SumOver(Trees, 0 .. Bottom) \in Int
      /\ SumOver(Trees, 0 .. l - 1) \in Int /\ SumOver(Stacks, 0 .. l - 1) \in Int
      /\ SumOver(Trees, 0 .. l) = SumOver(Trees, 0 .. l - 1) + WholeTree(l, s, h)
      /\ SumOver(Stacks, 0 .. l) = SumOver(Stacks, 0 .. l - 1) + StackTotal(l, s, h)
      /\ WholeTree(l, s, h) \in Int /\ StackTotal(l, s, h) \in Int
  BY <1>1, <1>2, <1>3, LevelNumbers DEF Planned
<1>5. /\ TreeBytes(l, s, h, j, k) = WholeTree(l, s, h)
      /\ StackBytes(l, s, h, j, k) = StackTotal(l, s, h)
  <2>1. StackTotal(l, s, h) = StackBytes(l, s, h, Sublevels(h, s), 0)
    BY <1>4, TreeEnds
  <2> QED BY <1>2, <2>1 DEF WholeTree
<1>6. Total' = Total /\ Total \in Int /\ Unused' = Unused /\ Unused \in Int
  <2>1. Total' = Total /\ Total \in Int
    BY <1>2, TotalKept DEF BooksInv
  <2> QED BY <1>2, <2>1, AllocAssumption DEF Unused
<1>7. Bottom' = Bottom /\ Trees' = Trees /\ Stacks' = Stacks
  BY <1>2, SameNumbers
<1>8. HeapInPlace'
  <2>1. i \in Nat /\ i' = i + 1 /\ Bottom \in Nat
    BY <1>1, <1>2, <1>4, UpperNumbers
  <2>2. \A x \in 0 .. Bottom : TreeMade(x) => TreeMade(x)'
    BY <1>2, <2>1 DEF TreeMade
  <2>3. \A x \in 0 .. Bottom, y \in Nat, z \in Nat : SubtreeMade(x, y, z) => SubtreeMade(x, y, z)'
    BY <1>2, <2>1 DEF SubtreeMade
  <2> QED BY <1>2, <2>2, <2>3, HeapStays DEF BooksInv, Carried, SignedPkMade
<1>9. i' - 1 = l
  BY <1>2, <1>4
<1>10. Spent' + best'.mem
         = Total' + Unused' + SumOver(Trees', 0 .. Bottom') - SumOver(Trees', 0 .. i' - 1)
  <2> DEFINE trees == SumOver(Trees, 0 .. Bottom)
             before == SumOver(Trees, 0 .. l - 1)
             done == SumOver(Trees, 0 .. l)
             tree == WholeTree(l, s, h)
  <2>1. Spent' + best'.mem = Total + Unused + trees - before - tree
    BY <1>1, <1>2, <1>5 DEF Spent, BooksInv, Books
  <2>2. SumOver(Trees', 0 .. Bottom') = trees /\ SumOver(Trees', 0 .. i' - 1) = done
    BY <1>7, <1>9
  <2>3. trees \in Int /\ before \in Int /\ tree \in Int /\ done = before + tree
    BY <1>4
  <2> HIDE DEF trees, before, done, tree
  <2>4. Total + Unused + trees - before - tree = Total' + Unused' + trees - done
    BY <1>6, <2>3
  <2> QED BY <2>1, <2>2, <2>4
<1>11. stack_index' = SumOver(Stacks', 0 .. i' - 1)
  BY <1>1, <1>2, <1>4, <1>5, <1>7, <1>9 DEF BooksInv, Books
<1>12. stack_usage' = SumOver(Stacks', 0 .. Bottom') /\ error' # "internal"
  BY <1>2, <1>7 DEF BooksInv, Books, Planned
<1>13. PlanBooks' /\ Books'
  BY <1>2, <1>10, <1>11, <1>12 DEF PlanBooks, Books
<1> QED BY <1>8, <1>13 DEF BooksInv

\* and the check, which finds stack_index where it should be.
LEMMA SanityCheckBooks ==
  ASSUME IInv, BooksInv, SanityCheck
  PROVE  BooksInv'
<1>1. pc = "tree" /\ i = request.levels /\ Bottom \in Nat /\ request.levels = Bottom + 1
  BY UpperNumbers DEF SanityCheck
<1>2. i - 1 = Bottom
  BY <1>1
<1>3. stack_index = stack_usage
  BY <1>1, <1>2 DEF BooksInv, Books, Planned
<1>4. pc' = "ready" /\ UNCHANGED <<error, heap, plan, stack_index, i, j, k>>
  BY <1>3 DEF SanityCheck
<1>5. Total' = Total /\ Unused' = Unused
  <2>1. Total' = Total
    BY <1>1, <1>4, TotalKept DEF BooksInv, plan
  <2> QED BY <1>4, <2>1 DEF Unused
<1>6. Bottom' = Bottom /\ Trees' = Trees /\ Stacks' = Stacks
  BY <1>4, SameNumbers DEF plan
<1>7. HeapInPlace'
  BY <1>1, <1>4, HeapStays DEF BooksInv, Carried, SignedPkMade, TreeMade, SubtreeMade, plan
<1>8. PlanBooks' /\ Books'
  BY <1>1, <1>4, <1>5, <1>6 DEF BooksInv, PlanBooks, Books, Planned, Spent, plan
<1> QED BY <1>7, <1>8 DEF BooksInv

LEMMA BooksStep ==
  ASSUME IInv, HeapInv, BooksInv, [Next]_vars
  PROVE  BooksInv'
<1>1. CASE UNCHANGED vars
  <2>1. Total' = Total
    BY <1>1 DEF vars, Total, Bytes, SubtreeHeight, LevelsBelow, height
  <2>2. Bottom' = Bottom /\ (\A x : height(x)' = height(x))
        /\ UpperTrees' = UpperTrees /\ UpperStacks' = UpperStacks
        /\ Trees' = Trees /\ Stacks' = Stacks
    BY <1>1, SameNumbers DEF vars
  <2>3. HeapInPlace => HeapInPlace'
    BY <1>1, HeapStays DEF vars, Carried, SignedPkMade, TreeMade, SubtreeMade
  <2>4. Unused' = Unused /\ Spent' = Spent /\ (Planned' <=> Planned)
    BY <1>1 DEF vars, Unused, Spent, Planned
  <2>5. PlanBooks'
    BY <1>1, <2>1, <2>2, <2>4 DEF vars, BooksInv, PlanBooks
  <2>6. Books'
    BY <1>1, <2>1, <2>2, <2>4 DEF vars, BooksInv, Books
  <2> QED BY <1>1, <2>3, <2>5, <2>6 DEF vars, BooksInv
<1>2. CASE UnknownType \/ Free
  <2>1. Reset /\ error' # "internal"
    BY <1>2 DEF UnknownType, Free, Fail, BooksInv, Books
  <2> QED BY <2>1, EndOfCall
<1> QED BY <1>1, <1>2, NoCall, BeginBooks, TopLevelBooks, SignedPkBooks, AllSignedBooks,
           UpperLevelBooks, BottomLevelBooks, ConsiderBooks, FoundBooks, StackBooks, TreeBooks,
           SkipBooks, SubtreeBooks, TreeDoneBooks, SanityCheckBooks DEF Next

(* The memory target, the sizes and the heights may be any: the closed forms   *)
(* of the plan are what the loops that allocate add up to.  With MAX_HSS_LEVELS*)
(* levels a block is left from an earlier call, see FewerLevelsAreFreed.       *)
THEOREM PlansAreExact ==
  (\A r \in Requests : r.levels < MAX_HSS_LEVELS) => (Spec => []PlanIsExact)
<1> SUFFICES ASSUME \A r \in Requests : r.levels < MAX_HSS_LEVELS
             PROVE  Spec => []PlanIsExact
  OBVIOUS
<1>1. Init => HeapInv /\ BooksInv
  BY DEF Init, HeapInv, BooksInv, PlanBooks, Books, Planned
<1>2. IInv /\ HeapInv /\ [Next]_vars => HeapInv'
  BY HeapStep
<1>3. IInv /\ HeapInv /\ BooksInv /\ [Next]_vars => BooksInv'
  BY BooksStep
<1>4. IInv /\ BooksInv => PlanIsExact
  <2> SUFFICES ASSUME IInv, BooksInv PROVE PlanIsExact
    OBVIOUS
  <2>1. error # "internal"
    BY DEF BooksInv, Books
  <2>2. ASSUME pc = "ready"
        PROVE  MapThenSumSet(Bytes, heap) + Unused = Spent + best.mem
    <3> DEFINE F == [b \in heap |-> Bytes(b)]
    <3>1. IsFiniteSet(heap) /\ \A b \in heap : F[b] \in Int /\ F[b] = Bytes(b)
      BY <2>2, BytesAreInts DEF BooksInv, HeapInPlace
    <3>2. Total = SumOver(F, heap)
      BY DEF Total
    <3> HIDE DEF F
    <3>3. MapThenSumSet(Bytes, heap) = Total /\ Total \in Int
      BY <3>1, <3>2, SumOfHeap, SumIsInt
    <3>4. i - 1 = Bottom /\ Bottom \in Nat
      BY <2>2, UpperNumbers DEF BooksInv, Books
    <3>5. SumOver(Trees, 0 .. Bottom) \in Int
      <4>1. Bottom \in 0 .. Bottom
        BY <3>4
      <4> QED BY <2>2, <4>1, LevelNumbers DEF Planned
    <3>6. Spent + best.mem
            = Total + Unused + SumOver(Trees, 0 .. Bottom) - SumOver(Trees, 0 .. Bottom)
      BY <2>2, <3>4 DEF BooksInv, Books
    <3>7. Unused \in Int
      BY AllocAssumption DEF Unused
    <3> DEFINE trees == SumOver(Trees, 0 .. Bottom)
    <3> HIDE DEF trees
    <3>8. Total + Unused + trees - trees = Total + Unused
      BY <3>3, <3>5, <3>7 DEF trees
    <3> QED BY <3>3, <3>6, <3>8 DEF trees
  <2> QED BY <2>1, <2>2 DEF PlanIsExact, Unused, Spent
<1> QED BY <1>1, <1>2, <1>3, <1>4, Inductive, PTL DEF Spec
=============================================================================
