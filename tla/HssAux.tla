-------------------------------- MODULE HssAux --------------------------------
(***************************************************************************)
(* The auxiliary data: some levels of the root tree, kept by the           *)
(* application in a buffer of its choice to make loading faster.  The      *)
(* buffer has a marker saying which levels there are, their nodes, and a   *)
(* MAC under a key derived from the seed of the private key.               *)
(***************************************************************************)
EXTENDS HssNodes

NoMac == [key |-> 0, levels |-> {}, node |-> <<>>]

\* A buffer with the given levels, nothing written after the marker yet.
Marked(levels) ==
  [levels |-> levels, node |-> [l \in levels |-> [n \in 0 .. 2 ^ l - 1 |-> Junk]],
   mac |-> NoMac]

\* hss_optimal_aux_level: the bottoms of the root tree's subtrees (of height 2, see
\* hss_smallest_subtree_size), from the top down as long as all of a level fits.  room
\* is the number of hashes the buffer holds beside marker and MAC.
AuxLevels(h, room) ==
  LET candidates == {l \in 1 .. h - 1 : l % 2 = h % 2}
  IN  {l \in candidates : MapThenSumSet(LAMBDA m : 2 ^ m, {m \in candidates : m <= l}) <= room}

\* hss_save_aux_data
Save(aux, l, n, value) ==
  IF l \in aux.levels THEN [aux EXCEPT !.node[l][n] = value] ELSE aux

\* hss_finalize_aux_data: the MAC is taken over whatever the buffer holds.
Finalized(aux, k) ==
  IF aux.levels = {} THEN aux
  ELSE [aux EXCEPT !.mac = [key |-> k, levels |-> aux.levels, node |-> aux.node]]

\* hss_expand_aux_data, given a working key of private key k.
AcceptsUnchecked(aux, k) == aux.levels # {}
Accepts(aux, k) ==
  aux.levels # {} /\ aux.mac = [key |-> k, levels |-> aux.levels, node |-> aux.node]
=============================================================================
