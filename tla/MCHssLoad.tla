------------------------------ MODULE MCHssLoad ------------------------------
(* Instances of HssLoad: keys of one to three levels with trees of height 5. *)
EXTENDS HssLoad

Five == [lm |-> 5, ots |-> 1]
Levels(n) == [i \in 1 .. n |-> Five]

One == {Levels(1)}
Two == {Levels(2)}
UpToThree == {Levels(n) : n \in 1 .. 3}

Plan(g, c, none) == [grain |-> g, chunk |-> c, noMemory |-> none]
FewPlans == {Plan(0, 1, {"next"}), Plan(1, 3, {"active"}), Plan(1, 2, {}), Plan(5, 3, {})}

(* The start and the end of trees, the leaves before and after a boundary    *)
(* of subtrees, and places in the middle, at different levels together.      *)
SomePlaces == {<<0, 0, 0, 0>>, <<3, 12, 31, 0>>, <<31, 3, 14, 0>>, <<15, 31, 8, 7>>,
               <<7, 16, 0, 1>>, <<8, 30, 31, 1>>}

(* The buffers that hold level 1 of the root tree and nothing else: it must  *)
(* be of odd height, and the buffer too small for level 3.                   *)
ASSUME LevelOneAlone ==
  \A h \in LmTypes, room \in 0 .. 12 :
    AuxLevels(h, room) = {1} <=> h % 2 = 1 /\ room \in 2 .. 9
=============================================================================
