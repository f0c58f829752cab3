------------------------------- MODULE HssNodes -------------------------------
(***************************************************************************)
(* The hashes of a Merkle tree and the three algorithms that build them.   *)
(* A node of tree t with node number n (the root is 1, the children of n   *)
(* are 2n and 2n+1) has one right value; anything else is Junk.            *)
(***************************************************************************)
EXTENDS Integers, FiniteSetsExt

Node(t, n) == [tree |-> t, n |-> n]
Junk == Node(<<>>, 0)

\* The leaf with index q, hashed with the node number r, of a tree of height h.
Leaf(t, h, r, q) == IF r = 2 ^ h + q THEN Node(t, r) ELSE Junk

\* hss_combine_internal_nodes
Combine(l, r, t, n) ==
  IF l = Node(t, 2 * n) /\ r = Node(t, 2 * n + 1) THEN Node(t, n) ELSE Junk

\* trailing_1_bits
TrailingOnes(n) == Min({s \in 0 .. 30 : (n \div 2 ^ s) % 2 = 0})

\* Walking up the stack from a new node numbered r, which is the last one of a
\* subtree of height off: the nodes completed on the way.
ClimbSameNumber(stack, new, t, r, off) ==
  LET up[s \in 0 .. off] ==
        IF s = 0 THEN new ELSE Combine(stack[s - 1], up[s - 1], t, r)
  IN  up
Climb(stack, new, t, r, off) ==
  LET up[s \in 0 .. off] ==
        IF s = 0 THEN new ELSE Combine(stack[s - 1], up[s - 1], t, r \div 2 ^ s)
  IN  up

\* hss_compute_internal_node: node n of a tree of height h, from its leaves.
ComputeInternalNode(t, h, n) ==
  LET toBottom == Min({k \in 0 .. h : n * 2 ^ k >= 2 ^ h})
      first == n * 2 ^ toBottom
      top(stack, i) == LET off == TrailingOnes(i) IN
        Climb(stack, Leaf(t, h, first + i, first - 2 ^ h + i), t, first + i, off)[off]
      stack[i \in 0 .. 2 ^ toBottom] ==
        IF i = 0 THEN [s \in 0 .. h |-> Junk]
        ELSE LET before == stack[i - 1] IN
             [before EXCEPT ![TrailingOnes(i - 1)] = top(before, i - 1)]
  IN  stack[2 ^ toBottom][toBottom]

\* hash_subtree: the node numbered n from its 2^deep descendants, level by level.
HashSubtree(hashes, deep, t, n) ==
  LET up[s \in 0 .. deep] ==
        IF s = 0 THEN hashes
        ELSE LET below == up[s - 1] IN
             [i \in 0 .. 2 ^ (deep - s) - 1 |->
                Combine(below[2 * i], below[2 * i + 1], t, n * 2 ^ (deep - s) + i)]
  IN  up[deep][0]

(* A subtree of height h keeps its nodes in an array, its root at 0 and the  *)
(* level s above the bottom from RowStart(h, s) on.                          *)
RowStart(h, s) == 2 ^ (h - s) - 1
Blank(h) == [x \in 0 .. 2 ^ (h + 1) - 2 |-> Junk]

\* fill_subtree: the internal nodes above the first count bottom nodes, of which
\* the leftmost is node number n of tree t.
FillSubtree(nodes, h, count, t, n) ==
  LET up[s \in 0 .. h] ==
        IF s = 0 THEN nodes
        ELSE LET filled == up[s - 1]
                 below == RowStart(h, s - 1)
             IN  [x \in DOMAIN nodes |->
                    LET i == x - RowStart(h, s) IN
                    IF i \in 0 .. count \div 2 ^ s - 1
                    THEN Combine(filled[below + 2 * i], filled[below + 2 * i + 1],
                                 t, n \div 2 ^ s + i)
                    ELSE filled[x]]
  IN  IF count <= 1 THEN nodes ELSE up[h]
=============================================================================
