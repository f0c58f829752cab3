--------------------------- MODULE MCHssWorkingKey ---------------------------
(***************************************************************************)
(* HssWorkingKey for TLC.  Working keys and contexts are interchangeable,  *)
(* and every property of the runs is a safety property that treats them    *)
(* alike, so TLC looks at one state of each symmetric set.                 *)
(***************************************************************************)
EXTENDS HssWorkingKey, TLC

Symmetry == Permutations(Keys) \cup Permutations(Ctxs)
=============================================================================
