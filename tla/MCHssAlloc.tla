----------------------------- MODULE MCHssAlloc -----------------------------
(***************************************************************************)
(* The sizes of the x86-64 build in units of 8 bytes, with the parameter   *)
(* sets of the code, all with w = 8, and an unknown one.  One tree of each *)
(* height, two of all heights, and a few of more trees, with targets from  *)
(* less than nothing to more than any key needs.                           *)
(***************************************************************************)
EXTENDS HssAlloc, Sequences

Type(h) == IF h = 0 THEN [height |-> 5, siglen |-> 0] ELSE [height |-> h, siglen |-> 142 + 4 * h]

Targets == {0, 900, 3750, 9000, 60000, 1000000, 2 ^ 30}

Request(heights, target) ==
  [levels |-> Len(heights), memory_target |-> target,
   lm_type |-> [l \in 0 .. Len(heights) - 1 |-> Type(heights[l + 1])]]

Shapes == {<<h>> : h \in Heights} \cup {<<g, h>> : g, h \in Heights}
          \cup {<<0>>, <<5, 0>>, <<10, 15, 25>>, <<25, 5, 10>>, <<5, 20, 5, 5, 15, 5, 5>>}

AllRequests == {Request(s, t) : s \in Shapes, t \in Targets}
               \cup {Request(s, 0) : s \in {<<>>, [l \in 1 .. 9 |-> 5]}}

EightLevels == {Request([l \in 1 .. 8 |-> 5], 0)}
=============================================================================
