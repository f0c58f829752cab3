---------------------------- MODULE HssSignatures ----------------------------
(***************************************************************************)
(* What an HSS signer promises: signature number n of a private key is made*)
(* with the chain of one-time keys that n alone determines, one per Merkle *)
(* tree from the root down, each on a correct authentication path, however *)
(* often the key has been reloaded.  HssMerkle implements it with trees    *)
(* that are built a little at a time.                                      *)
(***************************************************************************)
EXTENDS Integers, Sequences

CONSTANT Heights      \* the heights of the Merkle trees, root first

VARIABLES count,      \* the next signature to make
          sig         \* the last one made

vars == <<count, sig>>

L == Len(Heights)

\* The heights of the trees from level i + 1 down, added up.
HeightBelow[i \in 0 .. L] == IF i = L THEN 0 ELSE Heights[i + 1] + HeightBelow[i + 1]
MaxCount == 2 ^ HeightBelow[0] - 1

\* The leaf of the tree at level i that signature n goes through, and the name of
\* that tree: the leaves above it.
Leaf(n, i) == (n \div 2 ^ HeightBelow[i]) % 2 ^ Heights[i]
Tree(n, i) == [j \in 1 .. i - 1 |-> Leaf(n, j)]

Signature(n) == [i \in 1 .. L |-> [by |-> Tree(n, i), q |-> Leaf(n, i), valid |-> TRUE]]

Init == count = 0 /\ sig = <<>>

Sign == /\ count <= MaxCount
        /\ sig' = Signature(count)
        /\ count' = count + 1

\* Sequence numbers are lost, never reused, when the key is loaded again.
Load == /\ count' \in count .. MaxCount
        /\ sig' = <<>>

Next == Sign \/ Load

Spec == Init /\ [][Next]_vars
=============================================================================
