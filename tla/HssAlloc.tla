------------------------------- MODULE HssAlloc -------------------------------
(***************************************************************************)
(* Allocating and freeing a working key (hss_alloc.c).  The loops of       *)
(* allocate_working_key are steps: one per level whose signed public key,  *)
(* subtree size, tree and subtrees are settled, one per size that is       *)
(* considered for the bottom level.  Every malloc may fail.                *)
(*                                                                         *)
(* A type is the height of its tree and the length of its signatures, which*)
(* is 0 when it is not known.  Sizes are in a unit of the instance.        *)
(* Levels, sublevels and kinds of subtrees are numbered from 0.            *)
(***************************************************************************)
EXTENDS Integers, FiniteSetsExt

CONSTANTS Requests,        \* records of the levels, their lm_type and the memory_target
          HashSize, PublicKeyLen, SizeofKey, SizeofLevel, SizeofSubtree,
          MALLOC_OVERHEAD

MAX_HSS_LEVELS == 8
MAX_MERKLE_HEIGHT == 25
Heights == {5, 10, 15, 20, 25}
MIN_SUBTREE == 2
ACTIVE_TREE == 0
BUILDING_TREE == 1
NEXT_TREE == 2
NUM_SUBTREE == 3
MAX_SUBLEVELS == (MAX_MERKLE_HEIGHT + MIN_SUBTREE - 1) \div MIN_SUBTREE

LmType == [height : Heights, siglen : Nat]

ASSUME AllocAssumption ==
  /\ {HashSize, PublicKeyLen, SizeofKey, SizeofLevel, SizeofSubtree, MALLOC_OVERHEAD} \subseteq Nat
  /\ \A r \in Requests :
       /\ r.levels \in Nat /\ r.memory_target \in Int
       /\ r.lm_type \in [0 .. r.levels - 1 -> LmType]

VARIABLES pc,            \* the loop that allocate_working_key is in, "idle" or "ready"
          request,       \* its arguments
          error,         \* what the last call reported, "none" if it returned a key
          heap,          \* the blocks that were allocated and not freed
          mem_target,    \* what is left of the budget, may be negative
          subtree_size,
          stack_usage, stack_index,
          best,          \* search_status, best_j, best_mem, best_levels, best_stack_used
          i, j, k        \* the counters of the loops

vars == <<pc, request, error, heap, mem_target, subtree_size, stack_usage, stack_index,
          best, i, j, k>>

plan == <<request, mem_target, subtree_size, stack_usage, best>>

height(l) == request.lm_type[l].height
Bottom == request.levels - 1

Sublevels(h, subtree) == (h + subtree - 1) \div subtree

compute_updates_generated(h, subtree) ==
  IF h <= subtree THEN 2 ^ h ELSE 2 ^ ((Sublevels(h, subtree) - 1) * subtree)

compute_updates_required(h, subtree) == Sublevels(h, subtree) + 1

\* Subtrees of one sublevel: no BUILDING subtree in the top one, no NEXT one in the root tree.
NumSubtrees(l, sublevel) == 1 + (IF sublevel > 0 THEN 1 ELSE 0) + (IF l > 0 THEN 1 ELSE 0)

SubtreeBytes(h) == SizeofSubtree + HashSize * (2 ^ (h + 1) - 1)

\* The stacks of a tree.  With s sublevels the one at sublevel t has s - 1 - t of them below:
\* the sum over them without the top one, and the top one.  The mutant leaves out the top one.
StackWithoutTop(l, subtree, h) ==
  LET below == Sublevels(h, subtree) - 1
  IN  (NumSubtrees(l, 1) - 1) * HashSize * subtree * ((below * (below - 1)) \div 2)

StackTotal(l, subtree, h) ==
  LET below == Sublevels(h, subtree) - 1
  IN  (NumSubtrees(l, 1) - 1) * HashSize * subtree * ((below * (below - 1)) \div 2)
        + (NumSubtrees(l, 0) - 1) * HashSize * subtree * below

compute_level_memory_usage(l, subtree, h) ==
  LET below == Sublevels(h, subtree) - 1
  IN  SizeofLevel + MALLOC_OVERHEAD
        + below * NumSubtrees(l, 1) * (SubtreeBytes(subtree) + MALLOC_OVERHEAD)
        + NumSubtrees(l, 0) * (SubtreeBytes(h - below * subtree) + MALLOC_OVERHEAD)
        + StackTotal(l, subtree, h)

hss_smallest_subtree_size == 2

-----------------------------------------------------------------------------
NothingYet == [status |-> "nothing_yet", j |-> 0, mem |-> 0, levels |-> 0, stack |-> 0]
NoSizes == [l \in 0 .. MAX_HSS_LEVELS - 1 |-> 0]
NoRequest == [levels |-> 0, lm_type |-> <<>>, memory_target |-> 0]

Init == /\ pc = "idle"
        /\ request = NoRequest
        /\ error = "none"
        /\ heap = {}
        /\ mem_target = 0
        /\ subtree_size = NoSizes
        /\ stack_usage = 0 /\ stack_index = 0
        /\ best = NothingYet
        /\ i = 0 /\ j = 0 /\ k = 0

Reset == /\ pc' = "idle"
         /\ request' = NoRequest
         /\ mem_target' = 0
         /\ subtree_size' = NoSizes
         /\ stack_usage' = 0 /\ stack_index' = 0
         /\ best' = NothingYet
         /\ i' = 0 /\ j' = 0 /\ k' = 0

\* The blocks that the loops of hss_free_working_key come by.  The mutant stops before NEXT.
freed_without_next ==
  {b \in heap : CASE b[1] \in {"key", "stack"} -> TRUE
                  [] b[1] = "tree" -> b[2] < MAX_HSS_LEVELS
                  [] b[1] = "subtree" -> b[2] < MAX_HSS_LEVELS /\ b[3] < MAX_SUBLEVELS /\ b[4] < 2
                  [] b[1] = "signed_pk" -> b[2] < MAX_HSS_LEVELS - 1}

hss_free_working_key ==
  {b \in heap : CASE b[1] \in {"key", "stack"} -> TRUE
                  [] b[1] = "tree" -> b[2] < MAX_HSS_LEVELS
                  [] b[1] = "subtree" -> b[2] < MAX_HSS_LEVELS /\ b[3] < MAX_SUBLEVELS /\ b[4] < 3
                  [] b[1] = "signed_pk" -> b[2] < MAX_HSS_LEVELS - 1}

Fail(code) == /\ heap' = heap \ hss_free_working_key
              /\ error' = code
              /\ Reset

Malloc(block) == heap' = heap \cup {block}

OutOfMemory == Fail("out_of_memory")

\* allocate_working_key is called.
Refused(r) ==
  /\ pc = "idle"
  /\ r.levels \notin 1 .. MAX_HSS_LEVELS
  /\ error' = "bad_param_set"
  /\ UNCHANGED <<pc, heap, plan, stack_index, i, j, k>>

NoKey(r) ==
  /\ pc = "idle"
  /\ r.levels \in 1 .. MAX_HSS_LEVELS
  /\ error' = "out_of_memory"
  /\ UNCHANGED <<pc, heap, plan, stack_index, i, j, k>>

Begin(r) ==
  /\ pc = "idle"
  /\ r.levels \in 1 .. MAX_HSS_LEVELS
  /\ Malloc(<<"key">>)
  /\ pc' = "signed_pk"
  /\ request' = r
  /\ error' = "none"
  /\ mem_target' = r.memory_target - (SizeofKey + MALLOC_OVERHEAD)
  /\ UNCHANGED <<subtree_size, stack_usage, stack_index, best, i, j, k>>

\* The topmost level has no signed public key.
TopLevel ==
  /\ pc = "signed_pk" /\ i = 0
  /\ request.lm_type[0].siglen # 0
  /\ i' = 1
  /\ UNCHANGED <<pc, error, heap, plan, stack_index, j, k>>

UnknownType ==
  /\ pc = "signed_pk" /\ i < request.levels
  /\ request.lm_type[i].siglen = 0
  /\ Fail("bad_param_set")

SignedPk ==
  LET signed_pk_len == request.lm_type[i - 1].siglen + PublicKeyLen
  IN  /\ pc = "signed_pk" /\ i \in 1 .. Bottom
      /\ request.lm_type[i].siglen # 0
      /\ \/ /\ Malloc(<<"signed_pk", i>>)
            /\ mem_target' = mem_target - (signed_pk_len + MALLOC_OVERHEAD)
            /\ i' = i + 1
            /\ UNCHANGED <<pc, request, error, subtree_size, stack_usage, stack_index, best, j, k>>
         \/ OutOfMemory

\* The overhead of the stack is accounted whether or not there will be one.
AllSigned ==
  /\ pc = "signed_pk" /\ i = request.levels
  /\ mem_target' = mem_target - MALLOC_OVERHEAD
  /\ pc' = "sizes"
  /\ i' = 0
  /\ UNCHANGED <<request, error, heap, subtree_size, stack_usage, stack_index, best, j, k>>

\* What the tree above level l needs.
UpdatesRequired(l) ==
  IF l = 0 THEN 0 ELSE compute_updates_required(height(l - 1), subtree_size[l - 1])

UpperSize(l) ==
  IF compute_updates_generated(height(l), hss_smallest_subtree_size) < UpdatesRequired(l)
  THEN 5 ELSE hss_smallest_subtree_size

UpperLevel ==
  LET subtree == UpperSize(i)
  IN  /\ pc = "sizes" /\ i < Bottom
      /\ subtree_size' = [subtree_size EXCEPT ![i] = subtree]
      /\ mem_target' = mem_target - compute_level_memory_usage(i, subtree, height(i))
      /\ stack_usage' = stack_usage + StackTotal(i, subtree, height(i))
      /\ i' = i + 1
      /\ UNCHANGED <<pc, request, error, heap, stack_index, best, j, k>>

BottomLevel ==
  /\ pc = "sizes" /\ i = Bottom
  /\ pc' = "search"
  /\ j' = MIN_SUBTREE
  /\ UNCHANGED <<error, heap, plan, stack_index, i, k>>

Allowed(size) ==
  IF request.levels = 1 THEN size % hss_smallest_subtree_size = 0
  ELSE compute_updates_generated(height(Bottom), size) >= UpdatesRequired(Bottom)

Usage(size) == compute_level_memory_usage(Bottom, size, height(Bottom))
Fits(size) == Usage(size) <= mem_target

\* Is size no improvement on what was found?  The mutant compares what does not fit only
\* with what did not fit either.
no_improvement_of_its_kind(size) ==
  IF Fits(size)
  THEN /\ best.status = "found_plenty_memory"
       /\ \/ Sublevels(height(Bottom), size) > best.levels
          \/ Sublevels(height(Bottom), size) = best.levels /\ Usage(size) > best.mem
  ELSE best.status = "found_overbudget" /\ Usage(size) > best.mem

NoImprovement(size) ==
  IF Fits(size)
  THEN /\ best.status = "found_plenty_memory"
       /\ \/ Sublevels(height(Bottom), size) > best.levels
          \/ Sublevels(height(Bottom), size) = best.levels /\ Usage(size) > best.mem
  ELSE best.status # "nothing_yet" /\ Usage(size) > best.mem

Consider ==
  /\ pc = "search" /\ j <= height(Bottom)
  /\ best' = IF ~Allowed(j) \/ NoImprovement(j) THEN best
             ELSE [status |-> IF Fits(j) THEN "found_plenty_memory" ELSE "found_overbudget",
                   j |-> j, mem |-> Usage(j), levels |-> Sublevels(height(Bottom), j),
                   stack |-> StackTotal(Bottom, j, height(Bottom))]
  /\ j' = j + 1
  /\ UNCHANGED <<pc, request, error, heap, mem_target, subtree_size, stack_usage, stack_index, i, k>>

\* Nothing found "can't really happen".
Found ==
  /\ pc = "search" /\ j > height(Bottom)
  /\ IF best.status = "nothing_yet" THEN Fail("internal")
     ELSE /\ subtree_size' = [subtree_size EXCEPT ![Bottom] = best.j]
          /\ stack_usage' = stack_usage + best.stack
          /\ pc' = "stack"
          /\ j' = 0
          /\ UNCHANGED <<request, error, heap, mem_target, stack_index, best, i, k>>

Stack ==
  /\ pc = "stack"
  /\ \/ /\ IF stack_usage = 0 THEN heap' = heap ELSE Malloc(<<"stack">>)
        /\ pc' = "tree"
        /\ i' = 0
        /\ UNCHANGED <<error, plan, stack_index, j, k>>
     \/ stack_usage # 0 /\ OutOfMemory

Tree ==
  /\ pc = "tree" /\ i < request.levels
  /\ \/ /\ Malloc(<<"tree", i>>)
        /\ pc' = "subtrees"
        /\ UNCHANGED <<error, plan, stack_index, i, j, k>>
     \/ OutOfMemory

\* The levels of the tree below the subtrees of sublevel t: the top ones may be shorter.
LevelsBelow(l, t) == (Sublevels(height(l), subtree_size[l]) - 1 - t) * subtree_size[l]

SubtreeHeight(l, t) == IF t = 0 THEN height(l) - LevelsBelow(l, 0) ELSE subtree_size[l]

Skipped == \/ j = 0 /\ k = BUILDING_TREE
           \/ k = NEXT_TREE /\ i = 0

NextSlot == IF k + 1 = NUM_SUBTREE THEN j' = j + 1 /\ k' = 0 ELSE j' = j /\ k' = k + 1

InSubtrees == pc = "subtrees" /\ j < Sublevels(height(i), subtree_size[i])

Skip ==
  /\ InSubtrees /\ Skipped
  /\ NextSlot
  /\ UNCHANGED <<pc, error, heap, plan, stack_index, i>>

Subtree ==
  /\ InSubtrees /\ ~Skipped
  /\ \/ /\ Malloc(<<"subtree", i, j, k>>)
        /\ stack_index' = IF k = ACTIVE_TREE THEN stack_index
                          ELSE stack_index + HashSize * LevelsBelow(i, j)
        /\ NextSlot
        /\ UNCHANGED <<pc, error, plan, i>>
     \/ OutOfMemory

TreeDone ==
  /\ pc = "subtrees" /\ j = Sublevels(height(i), subtree_size[i])
  /\ pc' = "tree"
  /\ i' = i + 1
  /\ j' = 0
  /\ UNCHANGED <<error, heap, plan, stack_index, k>>

SanityCheck ==
  /\ pc = "tree" /\ i = request.levels
  /\ IF stack_index # stack_usage THEN Fail("internal")
     ELSE /\ pc' = "ready"
          /\ UNCHANGED <<error, heap, plan, stack_index, i, j, k>>

\* The application frees the key.
Free ==
  /\ pc = "ready"
  /\ heap' = heap \ hss_free_working_key
  /\ Reset
  /\ UNCHANGED error

Next == \/ \E r \in Requests : Refused(r) \/ NoKey(r) \/ Begin(r)
        \/ TopLevel \/ UnknownType \/ SignedPk \/ AllSigned
        \/ UpperLevel \/ BottomLevel \/ Consider \/ Found
        \/ Stack \/ Tree \/ Skip \/ Subtree \/ TreeDone \/ SanityCheck \/ Free

Spec == Init /\ [][Next]_vars

-----------------------------------------------------------------------------
Planned == pc \in {"stack", "tree", "subtrees", "ready"}

\* Every tree gives the one above it the updates that it needs.
EnoughUpdates ==
  \A l \in 1 .. Bottom :
    compute_updates_generated(height(l), subtree_size[l]) >= UpdatesRequired(l)

\* The rules of preference, over all sizes at once.
FastestThatFits ==
  LET sizes == {s \in MIN_SUBTREE .. height(Bottom) : Allowed(s)}
      chosen == subtree_size[Bottom]
      levels(s) == Sublevels(height(Bottom), s)
  IN  /\ chosen \in sizes
      /\ \A s \in sizes :
           IF Fits(s) THEN /\ Fits(chosen)
                           /\ levels(chosen) <= levels(s)
                           /\ levels(chosen) = levels(s) => Usage(chosen) <= Usage(s)
           ELSE Fits(chosen) \/ Usage(chosen) <= Usage(s)

(* The shape is the fastest that fits, or else the smallest, of those in which *)
(* no tree waits for updates from the one below it.                            *)
WellShaped == Planned => EnoughUpdates /\ FastestThatFits

Bytes(b) ==
  MALLOC_OVERHEAD +
  CASE b[1] = "key" -> SizeofKey
    [] b[1] = "signed_pk" -> request.lm_type[b[2] - 1].siglen + PublicKeyLen
    [] b[1] = "stack" -> stack_usage
    [] b[1] = "tree" -> SizeofLevel
    [] b[1] = "subtree" -> SubtreeBytes(SubtreeHeight(b[2], b[3]))

(* No call ends with an internal error, whatever the memory target, and a key *)
(* that is returned takes the memory that was computed for it.                *)
PlanIsExact ==
  /\ error # "internal"
  /\ pc = "ready" =>
       MapThenSumSet(Bytes, heap) + (IF <<"stack">> \in heap THEN 0 ELSE MALLOC_OVERHEAD)
         = request.memory_target - mem_target + best.mem

(* What a call has allocated is freed when it fails, "if we hit an error in   *)
(* the middle, we can just free everything", or with the key it returned.     *)
NothingLeaks == pc = "idle" => heap = {}
=============================================================================
