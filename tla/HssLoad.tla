-------------------------------- MODULE HssLoad --------------------------------
(***************************************************************************)
(* Loading a key: hss_load_private_key and hss_generate_working_key.  The  *)
(* parameters are found in, or compared with, the stored key; then a list  *)
(* of orders says which bottom nodes of which subtrees are needed.  Some   *)
(* are in the auxiliary data, one per subtree may be the root of the       *)
(* subtree below, the rest become work items, perhaps split into deeper    *)
(* ones.  Last the subtrees are filled, the cheapest ones first.           *)
(*                                                                         *)
(* HssMerkle says how many leaves each subtree must hold; here is how its  *)
(* nodes get there.  A node is of the tree the subtree belongs to, which   *)
(* Tree names by key, level and whether it is the next one.                *)
(***************************************************************************)
EXTENDS HssKeygen

CONSTANTS
  Bottoms,     \* subtree sizes allocate_working_key may choose for the bottom level
  LoadAt,      \* where keys are loaded: a leaf for each level, from the root down
  Plans,       \* how the work may be cut: [grain |-> log2 of est_max_per_work_item, in
               \* leaves, chunk |-> max_per_request, noMemory |-> the kinds of orders
               \* that no memory is found for]
  LoadKeys     \* bound: keys are loaded while at most so many were generated

ASSUME BottomsAssumption == Bottoms \subseteq Nat \ {0}
ASSUME LoadAtAssumption ==
  \A q \in LoadAt, p \in Params : \A i \in DOMAIN p : q[i] \in 0 .. 2 ^ p[i].lm - 1
ASSUME PlansAssumption ==
  \A plan \in Plans : plan.grain \in Nat /\ plan.chunk \in Nat \ {0}

VARIABLE w     \* the working key, with the local variables of the call

vars == <<keygenVars, w>>

Unloaded == [status |-> "unallocated"]

Last == Len(w.p)
H(i) == w.p[i].lm

\* hss_smallest_subtree_size; heights of 5 and more never need the fallback to 5.
SubSize(i) == IF i = Last THEN w.bottom ELSE 2
Sublevels(i) == (H(i) + SubSize(i) - 1) \div SubSize(i)
Below(i, j) == (Sublevels(i) - 1 - j) * SubSize(i)   \* subtree->levels_below
SubHeight(i, j) == IF j = 0 THEN H(i) - Below(i, 0) ELSE SubSize(i)
BottomLevel(i, j) == H(i) - Below(i, j)
Size(i, j) == 2 ^ (SubHeight(i, j) + Below(i, j))
LeftLeaf(i, j) == w.q[i] - (w.q[i] % Size(i, j))
Ceil(n, m) == (n + m - 1) \div m

\* Outside the bottom tree the update of the current signature may be missing.
Ahead(i) == IF i = Last THEN 0 ELSE 1

\* hss_extract_aux_data has the bottom nodes of sublevel j of the root tree.
InAux(i, j) == i = 1 /\ BottomLevel(i, j) \in w.aux.levels

-----------------------------------------------------------------------------
(* The orders: the first count bottom nodes of a subtree from leaf left on,  *)
(* node "at" of which is the root of the subtree below if "prev".            *)
ActiveOrder(i, j) ==
  [i |-> i, j |-> j, kind |-> "active", left |-> LeftLeaf(i, j),
   count |-> 2 ^ SubHeight(i, j), done |-> InAux(i, j),
   prev |-> j < Sublevels(i) - 1 /\ ~InAux(i, j),
   at |-> (w.q[i] \div 2 ^ Below(i, j)) % 2 ^ SubHeight(i, j)]

BuildingOrder(i, j) ==
  [i |-> i, j |-> j, kind |-> "building", left |-> LeftLeaf(i, j) + Size(i, j),
   count |-> Ceil(w.q[i] - LeftLeaf(i, j) + Ahead(i), 2 ^ Below(i, j)), done |-> InAux(i, j),
   prev |-> FALSE, at |-> 0]

\* Nothing is computed for a nonbottom subtree whose first node is still being built.
NextCount(i, j) ==
  LET n == Ceil(w.q[i] + Ahead(i), 2 ^ Below(i, j))
  IN  IF n <= (IF Below(i, j) > 0 THEN 1 ELSE 0) THEN 0 ELSE Min({n, 2 ^ SubHeight(i, j)})

NextOrder(i, j) ==
  [i |-> i, j |-> j, kind |-> "next", left |-> 0, count |-> NextCount(i, j), done |-> FALSE,
   prev |-> j < Sublevels(i) - 1 /\ NextCount(i, j + 1) = 2 ^ SubHeight(i, j + 1), at |-> 0]

Orders == UNION {UNION {
    {ActiveOrder(i, j)}
    \cup {o \in {BuildingOrder(i, j)} : j > 0 /\ o.left <= 2 ^ H(i) - 1}
    \cup {o \in {NextOrder(i, j)} : i > 1 /\ o.count > 0}
  : j \in 0 .. Sublevels(i) - 1} : i \in 1 .. Last}

SubHeightOf(o) == SubHeight(o.i, o.j)
BelowOf(o) == Below(o.i, o.j)
Row(o, s) == RowStart(SubHeightOf(o), s)
RootOf(o) == 0
Tree(o) == <<w.key, o.i, IF o.kind = "next" THEN 1 ELSE 0>>
FirstNode(o) == o.left \div 2 ^ BelowOf(o) + 2 ^ BottomLevel(o.i, o.j)
CostOfAnOrder(o) == IF o.done THEN 0 ELSE 1
Cost(o) == IF o.done THEN 0 ELSE 2 ^ BelowOf(o)

\* The nodes of a subtree when the orders have been listed.
FromAux(o) ==
  [x \in 0 .. 2 ^ (SubHeightOf(o) + 1) - 2 |->
     IF o.done /\ x - Row(o, 0) \in 0 .. o.count - 1
     THEN w.aux.node[BottomLevel(o.i, o.j)][o.left \div 2 ^ BelowOf(o) + x - Row(o, 0)]
     ELSE Junk]

\* How many levels deeper the work items of an order go: costly ones are split, if
\* memory for the pieces can be had.
Deep(o) ==
  LET depth == Min({BelowOf(o), BelowOf(o) - w.plan.grain})
  IN  IF o.done \/ depth <= 1 \/ o.kind \in w.plan.noMemory THEN 0 ELSE depth

\* The bottom nodes that work items are issued for, as <<first, number>>: all but the
\* one at right, each on its own in a suborder, otherwise as many at a time as allowed.
RightSide(o) == IF o.prev /\ o.count > o.at THEN o.at ELSE o.count
RequestsSkippingNone(o) == {<<n, 1>> : n \in 0 .. o.count - 1}
Single(o) == {<<n, 1>> : n \in (0 .. o.count - 1) \ {RightSide(o)}}
Pieces(n, right) ==
  LET chunk == w.plan.chunk IN
  {<<n + chunk * k, Min({chunk, right - (n + chunk * k)})>>
     : k \in 0 .. Ceil(right - n, chunk) - 1}
Requests(o) ==
  IF o.done THEN {}
  ELSE IF Deep(o) > 0 THEN Single(o)
  ELSE Pieces(0, RightSide(o)) \cup Pieces(RightSide(o) + 1, o.count)
Requested(o) == UNION {r[1] .. r[1] + r[2] - 1 : r \in Requests(o)}

-----------------------------------------------------------------------------
(* A read of the private key gives the parameters: hss_load_private_key      *)
(* takes them from the key, a caller of hss_generate_working_key has         *)
(* allocated the working key with parameters of its own.                     *)
BeginUnchecked(p, q, bottom, aux, plan) ==
  w' = [status |-> "begun", p |-> p, key |-> nv.key, q |-> q, bottom |-> bottom,
        aux |-> IF Accepts(aux, nv.key) THEN aux ELSE NoAux, plan |-> plan]
Begin(p, q, bottom, aux, plan) ==
  w' = IF CanCompress(p) /\ Compress(p) = nv.field
       THEN [status |-> "begun", p |-> p, key |-> nv.key, q |-> q, bottom |-> bottom,
             aux |-> IF Accepts(aux, nv.key) THEN aux ELSE NoAux,
             plan |-> plan]
       ELSE [status |-> "incompatible", p |-> p, key |-> nv.key]

\* The bottom tree may have larger subtrees; not to lose the auxiliary data they are a
\* multiple of the usual size if it is also the root tree.
BottomsOf(p) == {b \in Bottoms : Len(p) = 1 => b % 2 = 0}

MayLoad == pc = "idle" /\ w = Unloaded

GenerateWorkingKey(p) ==
  /\ MayLoad
  /\ keys <= LoadKeys
  /\ \E q \in LoadAt, bottom \in BottomsOf(p), aux \in {auxFile, NoAux},
        plan \in Plans :
       Begin(p, q, bottom, aux, plan)
  /\ UNCHANGED keygenVars

LoadPrivateKey(beyond) ==
  LET p == GetParameterSet(nv.field, beyond) IN
  /\ MayLoad
  /\ \/ /\ p = Rejected
        /\ w' = [status |-> "rejected", key |-> nv.key]
     \/ /\ p # Rejected
        /\ \E q \in LoadAt, bottom \in BottomsOf(p), plan \in Plans :
             Begin(p, q, bottom, auxFile, plan)
  /\ UNCHANGED keygenVars

List ==
  /\ w.status = "begun"
  /\ LET orders == Orders IN
       w' = [status |-> "listed", p |-> w.p, key |-> w.key, q |-> w.q, bottom |-> w.bottom,
             aux |-> w.aux, plan |-> w.plan,
             open |-> orders, nodes |-> [o \in orders |-> FromAux(o)]]
  /\ UNCHANGED keygenVars

\* The work items of an order write their node, or the deeper nodes that the main
\* thread recombines.
ComputedNode(o, n) ==
  IF Deep(o) = 0 THEN ComputeInternalNode(Tree(o), H(o.i), FirstNode(o) + n)
  ELSE HashSubtree([k \in 0 .. 2 ^ Deep(o) - 1 |->
                      ComputeInternalNode(Tree(o), H(o.i), (FirstNode(o) + n) * 2 ^ Deep(o) + k)],
                   Deep(o), Tree(o), FirstNode(o) + n)

Compute ==
  /\ w.status = "listed"
  /\ w' = [w EXCEPT !.status = "computed",
             !.nodes = [o \in DOMAIN @ |->
               LET row == Row(o, 0)
                   requested == Requested(o)
               IN  [x \in DOMAIN @[o] |-> IF x - row \in requested
                                          THEN ComputedNode(o, x - row) ELSE @[o][x]]]]
  /\ UNCHANGED keygenVars

\* A work item reported an error.
ComputeFailed ==
  /\ w.status = "listed"
  /\ w' = [status |-> "failed", key |-> w.key]
  /\ UNCHANGED keygenVars

\* Orders of the same cost do not depend on one another.
Cheapest == {o \in w.open : \A other \in w.open : Cost(o) <= Cost(other)}
Inherit(o) ==
  LET source == CHOOSE s \in DOMAIN w.nodes : s.i = o.i /\ s.j = o.j + 1 /\ s.kind = o.kind
  IN  IF o.prev THEN [w.nodes[o] EXCEPT ![Row(o, 0) + o.at] = w.nodes[source][RootOf(source)]]
      ELSE w.nodes[o]

Fill ==
  /\ w.status = "computed"
  /\ w.open # {}
  /\ LET cheapest == Cheapest IN
     w' = [w EXCEPT !.open = @ \ cheapest,
             !.nodes = [o \in DOMAIN @ |->
               IF o \in cheapest
               THEN FillSubtree(Inherit(o), SubHeightOf(o), o.count, Tree(o), FirstNode(o))
               ELSE @[o]]]
  /\ UNCHANGED keygenVars

Loaded ==
  /\ w.status = "computed"
  /\ w.open = {}
  /\ w' = [w EXCEPT !.status = "none"]
  /\ UNCHANGED keygenVars

\* hss_free_working_key
Free ==
  /\ w.status \in {"none", "failed", "rejected", "incompatible"}
  /\ w' = Unloaded
  /\ UNCHANGED keygenVars

Init == KeygenInit /\ w = Unloaded

Next ==
  \/ w = Unloaded /\ KeygenNext /\ UNCHANGED w
  \/ \E p \in Params : GenerateWorkingKey(p)
  \/ \E beyond \in {<<0, 0>>, <<End, End>>, <<5, 1>>} :
       LoadPrivateKey([b \in {0, 1} |-> beyond[b + 1]])
  \/ List
  \/ Compute
  \/ ComputeFailed
  \/ Fill
  \/ Loaded
  \/ Free

Spec == Init /\ [][Next]_vars

-----------------------------------------------------------------------------
\* Every bottom node that is needed comes from exactly one place: one work item, the
\* auxiliary data or the subtree below, so that work items never write the same node.
EachNodeOnce ==
  w.status = "listed" =>
    \A o \in w.open :
      /\ \A r, s \in Requests(o) :
           r # s => (r[1] .. r[1] + r[2] - 1) \cap (s[1] .. s[1] + s[2] - 1) = {}
      /\ Requested(o) = {n \in 0 .. o.count - 1 : ~o.done /\ ~(o.prev /\ n = o.at)}

\* When a key is loaded, every subtree holds the right hashes of its own tree, as far
\* as its bottom nodes reach, wherever they came from and in whatever order.
LoadedRight ==
  w.status = "none" =>
    \A o \in DOMAIN w.nodes : \A s \in 0 .. SubHeightOf(o) : \A n \in 0 .. o.count \div 2 ^ s - 1 :
      w.nodes[o][Row(o, s) + n] = Node(Tree(o), FirstNode(o) \div 2 ^ s + n)

\* A working key never has other parameters than its private key was generated with,
\* and a key that was overwritten with zeroes never loads.
ParametersAgree ==
  w.status \in {"begun", "listed", "computed", "none"} =>
    w.key # 0 /\ (w.key = pub.key => w.p = pub.p)

\* hss_load_private_key finds the parameters of every private key that
\* hss_generate_private_key stored, as hss.h and the tests expect.
StoredKeyIsRecognised == w.status = "rejected" => w.key = 0
=============================================================================
