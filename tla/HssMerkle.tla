------------------------------ MODULE HssMerkle ------------------------------
(***************************************************************************)
(* How a working key walks its Merkle trees.  Every tree is cut into       *)
(* subtrees; per level of subtrees there is the ACTIVE one that the        *)
(* authentication path goes through, the BUILDING one to its right, and the*)
(* NEXT one at the left of the following tree.  Each signature adds a few  *)
(* leaves to BUILDING and NEXT subtrees, which must be complete when the   *)
(* path moves into them.  hss_generate_working_key builds the same         *)
(* structure from scratch for any sequence number.                         *)
(*                                                                         *)
(* A hash is abstracted to where it belongs: a subtree remembers which tree*)
(* and which leaves the nodes it holds were computed from.  A tree (its I  *)
(* and seed) is named by the leaves above it, the root tree by <<>>.       *)
(***************************************************************************)
EXTENDS Integers, Sequences, FiniteSetsExt

CONSTANTS
  Shape,        \* per level, root first: [h |-> tree->level, sub |-> tree->subtree_size]
  Loads,        \* the sequence numbers at which the key may be loaded
  Skips,        \* how many reserved sequence numbers a reload may lose
  Races         \* which values of current_index line 538 of hss_sign.c may read:
                \* 0 before, 1 after do_gen_sig has incremented it

L == Len(Shape)
Levels == 1 .. L
Height(i) == Shape[i].h
Leaves(i) == 2 ^ Height(i)
MaxIndex(i) == Leaves(i) - 1
Sublevels(i) == (Height(i) + Shape[i].sub - 1) \div Shape[i].sub
Sub(i) == 0 .. Sublevels(i) - 1

\* The levels of the tree below subtrees of sublevel j, and the leaves below one.
LevelsBelow(i, j) == (Sublevels(i) - 1 - j) * Shape[i].sub
SubtreeHeight(i, j) == IF j = 0 THEN Height(i) - LevelsBelow(i, 0) ELSE Shape[i].sub
Size(i, j) == 2 ^ (SubtreeHeight(i, j) + LevelsBelow(i, j))

\* The total height of the trees below level i.
HeightBelow[i \in Levels] == IF i = L THEN 0 ELSE HeightBelow[i + 1] + Height(i + 1)
MaxCount == 2 ^ (HeightBelow[1] + Height(1)) - 1

\* What allocate_working_key makes sure of: a tree sends its parent at least the
\* updates that the parent needs between two of its signatures.
UpdatesGenerated(i) == IF Sublevels(i) = 1 THEN Leaves(i)
                       ELSE 2 ^ ((Sublevels(i) - 1) * Shape[i].sub)
UpdatesRequired(i) == Sublevels(i) + 1

ASSUME ShapeAssumption ==
  /\ Shape \in Seq([h : 1 .. 25, sub : Nat \ {0, 1}])
  /\ Shape # <<>>
  /\ \A i \in 2 .. L : UpdatesGenerated(i) >= UpdatesRequired(i - 1)

ASSUME LoadAssumption == Loads \subseteq 0 .. MaxCount /\ Skips \subseteq Nat
ASSUME RaceAssumption == Races \subseteq {0, 1}

UpdateNext == 0
UpdateParent == 1
UpdateBuilding == 2
UpdateDone == 255
MaxSubindex == 2 ^ 30        \* the mark of a complete NEXT subtree

VARIABLES
  status,       \* w->status
  current,      \* tree->current_index, per level
  name,         \* tree->I and seed, by name
  nameNext,     \* tree->I_next and seed_next
  update,       \* tree->update_count
  active, building, next,      \* the subtrees, per level and sublevel
  signedPk,     \* w->signed_pk, per level below the root
  sig           \* the last signature handed out

vars == <<status, current, name, nameNext, update, active, building, next, signedPk, sig>>

\* A subtree: its current_index and left_leaf; and what its nodes really are,
\* the first "have" leaves from leaf "from" on of tree "of".
Subtree(index, left, of, have) ==
  [index |-> index, left |-> left, of |-> of, from |-> left, have |-> have]
Empty(left) == [index |-> 0, left |-> left, of |-> <<>>, from |-> 0, have |-> 0]
NoTree == <<-1>>             \* an I that was never initialised
NoKey == [by |-> NoTree, q |-> 0, key |-> NoTree, valid |-> FALSE]

\* hss_generate_child_seed_I_value
Child(parent, index) == Append(parent, index)

\* The tree after the one below leaf index of its parent: in the same parent, or the
\* first one in the parent's next tree.
ChildAfterNoWrap(parent, parentNext, index, last) == Child(parent, index + 1)
ChildAfter(parent, parentNext, index, last) ==
  IF index = last THEN Child(parentNext, 0) ELSE Child(parent, index + 1)

\* current_count: nonbottom trees have already signed the tree below them.
CountOf(index) ==
  LET upTo[i \in 0 .. L] == IF i = 0 THEN 0 ELSE upTo[i - 1] * Leaves(i) + index[i] - 1
  IN  upTo[L] + 1
Count == CountOf(current)

\* The leaf of the tree at level i that sequence number c goes through.
LeafOf(c, i) == (c \div 2 ^ HeightBelow[i]) % Leaves(i)

\* The start of the subtree of sublevel j that leaf q lies in.
Aligned(i, j, q) == q - (q % Size(i, j))

Complete(s, i, j, id, left) == s.of = id /\ s.from = left /\ s.have = Size(i, j)

\* The authentication path of leaf q, read from the active subtrees a of tree id.
PathOk(a, i, id, q) == \A j \in Sub(i) : Complete(a[j], i, j, id, Aligned(i, j, q))

\* hss_create_signed_public_key: the tree below is signed by leaf q of its parent.
SignedKey(a, names, i, q) ==
  [by |-> names[i - 1], q |-> q, key |-> names[i],
   valid |-> /\ PathOk(a[i - 1], i - 1, names[i - 1], q)
             /\ Complete(a[i][0], i, 0, names[i], 0)]

TypeOK ==
  /\ status \in {"uninitialized", "none", "expired"}
  /\ \A i \in Levels : current[i] <= Leaves(i) + (IF i = L THEN 0 ELSE 1)
  /\ DOMAIN update = 1 .. L - 1
  /\ \A i \in 1 .. L - 1 :
       update[i] \in (0 .. UpdateBuilding + Sublevels(i) - 1) \cup {UpdateDone}
  /\ \A i \in Levels : \A j \in Sub(i) :
       /\ building[i][j].index <= Size(i, j)
       /\ next[i][j].index <= Size(i, j) \/ next[i][j].index = MaxSubindex

-----------------------------------------------------------------------------
(* Building subtrees a leaf at a time. *)

\* subtree_add_next_node: a leaf of tree id.  The nodes make sense only if all
\* leaves so far were of the same tree and in order.
AddNext(s, size, id) ==
  IF s.index = size THEN s
  ELSE [s EXCEPT !.index = @ + 1, !.of = id, !.from = s.left,
                 !.have = IF s.index = 0 THEN 1
                          ELSE IF s.of = id /\ s.from = s.left /\ s.have = s.index
                               THEN @ + 1 ELSE 0]

\* hss_step_next_tree: the lowest unfinished subtree gets a leaf; the first node of
\* any but the bottom one is the root of the finished subtree below it.
StepNext(i) ==
  LET open == {j \in Sub(i) : next[i][j].index < MaxSubindex}
      j == Max(open)
      below == next[i][j + 1]
      start == IF next[i][j].index = 0 /\ j < Sublevels(i) - 1
               THEN Subtree(Size(i, j + 1), next[i][j].left, below.of,
                            IF Complete(below, i, j + 1, below.of, 0) THEN below.have ELSE 0)
               ELSE next[i][j]
      added == AddNext(start, Size(i, j), nameNext[i])
  IN  IF open = {} THEN next[i]
      ELSE [next[i] EXCEPT ![j] = IF added.index = Size(i, j)
                                  THEN [added EXCEPT !.index = MaxSubindex] ELSE added]

-----------------------------------------------------------------------------
Blank == [i \in Levels |-> [j \in Sub(i) |-> Empty(0)]]

Init ==
  /\ status = "uninitialized"
  /\ current = [i \in Levels |-> 0]
  /\ name = [i \in Levels |-> NoTree]
  /\ nameNext = [i \in Levels |-> NoTree]
  /\ update = [i \in 1 .. L - 1 |-> UpdateDone]
  /\ active = Blank /\ building = Blank /\ next = Blank
  /\ signedPk = [i \in 2 .. L |-> NoKey]
  /\ sig = <<>>

(* hss_generate_working_key: everything is computed from the sequence number*)
(* c in NV storage.  A nonbottom tree is prepared for one leaf more than    *)
(* the incremental construction would have reached.                         *)

\* Leaves to be done in a subtree, or tree, of which q leaves have been used.
PreparedExactly(i, q) == q
Prepared(i, q) == IF i = L THEN q ELSE q + 1
RoundUp(n, unit) == unit * ((n + unit - 1) \div unit)

LoadActive(i, j, q, id) == Subtree(0, Aligned(i, j, q), id, Size(i, j))

\* At the right edge there is nothing to build, and left_leaf keeps what it had:
\* the outcomes differ only in whether it is beyond the tree.
LoadBuilding(i, j, q, id, garbage) ==
  LET left == Aligned(i, j, q)
      count == RoundUp(Prepared(i, q - left), 2 ^ LevelsBelow(i, j))
  IN  IF j > 0 /\ q + Size(i, j) <= MaxIndex(i)
      THEN Subtree(count, left + Size(i, j), id, count)
      ELSE Empty(IF j > 0 THEN garbage ELSE 0)

LoadNext(i, j, q, id) ==
  LET unit == 2 ^ LevelsBelow(i, j)
      nodes == RoundUp(Prepared(i, q), unit) \div unit
      inherited == IF LevelsBelow(i, j) > 0 THEN 1 ELSE 0
  IN  IF i = 1 \/ nodes <= inherited THEN Empty(0)
      ELSE IF nodes < 2 ^ SubtreeHeight(i, j) THEN Subtree(nodes * unit, 0, id, nodes * unit)
      ELSE Subtree(MaxSubindex, 0, id, Size(i, j))

\* The I and I_next of every level; the root has no I_next.  Line 345 compares the
\* parent's index with the max_index of the child.
LoadNames(c) ==
  LET names[i \in Levels] == IF i = 1 THEN <<>> ELSE Child(names[i - 1], LeafOf(c, i - 1))
  IN  names
LoadNextNames(c, names) ==
  LET nexts[i \in Levels] ==
        IF i = 1 THEN NoTree
        ELSE ChildAfter(names[i - 1], nexts[i - 1], LeafOf(c, i - 1), MaxIndex(i))
  IN  nexts

\* What NV storage may hold: the reserve count, at or beyond the current one.
Stored ==
  IF status = "uninitialized" THEN Loads
  ELSE IF status = "none" THEN {Count + n : n \in Skips} \cap Loads ELSE {}

Load(c, garbage) ==
  LET q(i) == LeafOf(c, i) IN
  /\ status' = "none"
  /\ current' = [i \in Levels |-> IF i = L THEN q(i) ELSE q(i) + 1]
  /\ name' = LoadNames(c)
  /\ nameNext' = LoadNextNames(c, name')
  /\ active' = [i \in Levels |-> [j \in Sub(i) |-> LoadActive(i, j, q(i), name'[i])]]
  /\ building' = [i \in Levels |-> [j \in Sub(i) |->
                     LoadBuilding(i, j, q(i), name'[i], IF garbage THEN 0 ELSE Leaves(i))]]
  /\ next' = [i \in Levels |-> [j \in Sub(i) |-> LoadNext(i, j, q(i), nameNext'[i])]]
  /\ signedPk' = [i \in 2 .. L |-> SignedKey(active', name', i, q(i - 1))]
  /\ update' = [i \in 1 .. L - 1 |-> UpdateDone]
  /\ sig' = <<>>

-----------------------------------------------------------------------------
(* hss_generate_signature after hss_advance_count.  Its tasks run in        *)
(* parallel but touch different subtrees, so that their order does not      *)
(* matter, except for the unsynchronized read of current_index (Races).     *)

\* do_gen_sig: the signed public keys, then the bottom tree's own signature.
Signature ==
  [i \in Levels |->
     IF i = L THEN [by |-> name[L], q |-> current[L],
                    valid |-> PathOk(active[L], L, name[L], current[L])]
     ELSE [by |-> signedPk[i + 1].by, q |-> signedPk[i + 1].q,
           valid |-> signedPk[i + 1].valid /\ signedPk[i + 1].key = name[i + 1]]]

\* Which building subtrees of the bottom tree will still be used.
SteppedTooFew(race) ==
  LET updatesBeforeEnd == MaxIndex(L) - (current[L] + race) + 1
  IN  {j \in Sub(L) \ {0} : updatesBeforeEnd >= 2 * Size(L, j)}

Stepped(race) ==
  LET updatesBeforeEnd == MaxIndex(L) - (current[L] + race) + 1
  IN  {j \in Sub(L) \ {0} : updatesBeforeEnd >= Size(L, j)}

\* A signature that leaves some of them alone lets the parent do some work.
AsksParent(race) ==
  /\ L > 1
  /\ Stepped(race) # Sub(L) \ {0} \/ Sublevels(L) = 1
  /\ update[L - 1] # UpdateDone

\* do_update_parent: trees whose turn it is to kick their parent pass the work on
\* to it; Worker is the first tree that does something itself.
Worker == Max({i \in 1 .. L - 1 : update[i] # UpdateParent \/ i = 1})
ToUpdate(i) == update[i] - UpdateBuilding + 1

UpdateAfterWorkSkipsNext(i) ==
  IF i >= Worker /\ update[i] # UpdateDone THEN UpdateBuilding ELSE update[i]

UpdateAfterWork(i) ==
  IF i > Worker THEN UpdateBuilding
  ELSE IF i < Worker \/ update[i] = UpdateDone THEN update[i]
  ELSE IF update[i] \in {UpdateNext, UpdateParent} THEN update[i] + 1
  ELSE IF ToUpdate(i) >= Sublevels(i) THEN UpdateDone ELSE update[i] + 1

\* The building subtree that the worker adds a leaf to, if it will be used.
Worked(i) ==
  IF i # Worker \/ update[i] \in {UpdateNext, UpdateParent, UpdateDone} THEN {}
  ELSE {j \in Sub(i) : j = ToUpdate(i) /\ building[i][j].left < Leaves(i)}

\* The subtree that the path has left becomes the next one to build, two further on.
RebuildingKeepsIndex(i, j) == [active[i][j] EXCEPT !.left = @ + 2 * Size(i, j)]
Rebuilding(i, j) == Empty(active[i][j].left + 2 * Size(i, j))

\* Sequence number c is the first one of another tree, or another subtree.
Exhausted(i, c) == c % 2 ^ (HeightBelow[i] + Height(i)) = 0
LeavesSubtree(i, j, c) == j > 0 /\ c % (2 ^ HeightBelow[i] * Size(i, j)) = 0

(* The whole handler: the parallel tasks, the scan for trees and subtrees    *)
(* that are used up, and the switch of the used up trees to their NEXT_TREE.*)
Sign(race) ==
  LET ask == AsksParent(race)
      c == Count + 1
      next1 == [i \in Levels |->
                  IF L > 1 /\ (i = L \/ (ask /\ i = Worker /\ i > 1 /\ update[i] = UpdateNext))
                  THEN StepNext(i) ELSE next[i]]
      grown(i) == IF i = L THEN Stepped(race) ELSE IF ask THEN Worked(i) ELSE {}
      building1 == [i \in Levels |-> [j \in Sub(i) |->
                      IF j \in grown(i) THEN AddNext(building[i][j], Size(i, j), name[i])
                      ELSE building[i][j]]]
      switched == {i \in 2 .. L : Exhausted(i, c)}
      moved(i, j) == ~Exhausted(i, c) /\ (i < L => Exhausted(i + 1, c)) /\ LeavesSubtree(i, j, c)
      index(i) == IF i \in switched THEN 0 ELSE current[i]
      newNext[i \in Levels] ==
        IF i \notin switched THEN nameNext[i]
        ELSE ChildAfter(name'[i - 1], newNext[i - 1], index(i - 1), MaxIndex(i - 1))
  IN
  /\ status = "none"
  /\ sig' = Signature
  /\ status' = IF Exhausted(1, c) THEN "expired" ELSE status
  /\ name' = [i \in Levels |-> IF i \in switched THEN nameNext[i] ELSE name[i]]
  /\ nameNext' = newNext
  /\ active' = [i \in Levels |-> [j \in Sub(i) |->
                  IF i \in switched THEN [next1[i][j] EXCEPT !.left = 0]
                  ELSE IF moved(i, j) THEN building1[i][j] ELSE active[i][j]]]
  /\ building' = [i \in Levels |-> [j \in Sub(i) |->
                  IF i \in switched THEN Empty(IF j > 0 THEN Size(i, j) ELSE 0)
                  ELSE IF moved(i, j) THEN Rebuilding(i, j)
                  ELSE building1[i][j]]]
  /\ next' = [i \in Levels |-> IF i \in switched THEN Blank[i] ELSE next1[i]]
  /\ signedPk' = [i \in 2 .. L |-> IF i \in switched THEN SignedKey(active', name', i, index(i - 1))
                                   ELSE signedPk[i]]
  /\ current' = [i \in Levels |-> IF i = L THEN (IF i \in switched THEN 0 ELSE current[i] + 1)
                                  ELSE IF i + 1 \in switched THEN index(i) + 1 ELSE current[i]]
  /\ update' = [i \in 1 .. L - 1 |-> IF i + 1 \in switched THEN UpdateNext
                                     ELSE IF ask THEN UpdateAfterWork(i) ELSE update[i]]

Next == \/ \E c \in Stored, garbage \in BOOLEAN : Load(c, garbage)
        \/ \E race \in Races : Sign(race)

Spec == Init /\ [][Next]_vars

-----------------------------------------------------------------------------
(* Properties. *)

(* Every signature handed out is the one that its sequence number alone     *)
(* determines, each tree signed on a correct authentication path: the trees *)
(* built little by little, those built on loading, and those of any mixture *)
(* of the two are the same.                                                 *)
Promise == INSTANCE HssSignatures WITH
             Heights <- [i \in Levels |-> Height(i)],
             count <- IF status = "uninitialized" THEN 0
                      ELSE IF status = "expired" THEN MaxCount + 1 ELSE Count
SignsAsPromised == Promise!Spec

(* hss_internal.h:112: the active subtrees, which the authentication path   *)
(* goes through, are always fully populated; and they belong to the tree    *)
(* and the leaf that the next signature is made with.                       *)
ActivePopulated ==
  status = "none" =>
    \A i \in Levels : PathOk(active[i], i, name[i], LeafOf(Count, i))

(* hss_internal.h:181: trees have consistent identities between reboots.    *)
(* The tree that a leaf of its parent signs is the one that this leaf       *)
(* determines, so that the leaf's one-time key never signs two trees.       *)
SameKeysAfterReboot ==
  status = "none" =>
    \A i \in 2 .. L : /\ signedPk[i].key = Child(signedPk[i].by, signedPk[i].q)
                     /\ name[i] = signedPk[i].key

(* Loading the key at the sequence number where it already is changes       *)
(* nothing that a signature depends on.                                     *)
Nodes(s) == [of |-> s.of, from |-> s.from, have |-> s.have]
ReloadStep ==
  status = "none" /\ status' = "none" /\ Count' = Count =>
    /\ UNCHANGED <<current, name, nameNext, signedPk>>
    /\ \A i \in Levels : \A j \in Sub(i) : Nodes(active'[i][j]) = Nodes(active[i][j])
ReloadIsInvisible == [][ReloadStep]_vars
=============================================================================
