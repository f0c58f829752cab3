---------------------------- MODULE MCHssMerkle ----------------------------
(* Shapes of trees that HssMerkle is checked with: three levels under a root *)
(* tree with three sublevels, the top one a single level high, whose middle  *)
(* tree gives it exactly as many updates as allocate_working_key insists on; *)
(* and two levels of which the lower one is the lower tree as well.          *)
EXTENDS HssMerkle

Tree(h, sub) == [h |-> h, sub |-> sub]

ThreeLevels == <<Tree(5, 2), Tree(3, 2), Tree(3, 2)>>
TallAndLow == <<Tree(4, 2), Tree(3, 2)>>

Anywhere == 0 .. MaxCount

\* At the start, or at two places of every four bottom trees: not where the index
\* of the root tree is the last one of a tree of the next level.
NotAtTheEnd == {0} \cup {c \in Anywhere : /\ c % 32 \in {3, 14}
                                       /\ LeafOf(c, 1) \notin {MaxIndex(1), MaxIndex(2)}}
=============================================================================
