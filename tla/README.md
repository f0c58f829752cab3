# A verification development for the HSS/LMS signer

The repository is a C implementation of the Leighton-Micali hash-based
signatures of RFC 8554 (LMS and its hierarchical form HSS), a fork of Cisco's
hash-sigs. What makes such a signer delicate is not the cryptography but the
state: **a one-time key that signs two different messages can be forged**, and
which one-time keys have been used is known only from a counter in
non-volatile storage, from an in-memory structure of half-built hash trees,
and from what an application has already been handed.

This directory holds TLA+ modules translated from that code, TLC
configurations that check them on small instances, and TLAPS proofs for all
instances. `PROJECT.json` relates every definition to its source lines, lists
the hazards of the code with the properties that cover them, and names for
each property a plausible bug that breaks it.

## 1. Inventory of the system

| Component | Files | State | Operations |
|---|---|---|---|
| Sequence numbers and reservations | `hss_reserve.c` | `w->reserve_count`, `w->max_count`, `w->autoreserve`, `w->private_key`, the private key in NV storage | `hss_advance_count`, `hss_reserve_signature`, `hss_set_autoreserve` |
| Signing | `hss_sign.c` | `current_index`, `update_count`, the ACTIVE/BUILDING/NEXT subtrees of each `merkle_level`, `signed_pk`, `w->status` | `hss_generate_signature` and its work items |
| Incremental signing | `hss_sign_inc.c` | `struct hss_sign_inc`: status and `q` | `hss_sign_init`, `_update`, `_finalize` |
| Loading | `hss_generate.c` | all of the working key | `hss_generate_working_key` |
| Allocation | `hss_alloc.c` | shape of trees and subtrees | `hss_load_private_key`, `allocate_working_key`, `hss_free_working_key` |
| Thread pool | `hss_thread_pthread.c`, `hss_thread_single.c` | `thread_collection`: lock, slots, `num_alive`, queue | `hss_thread_init`, `_issue_work`, `_done`, `_before_write`, `_after_write` |
| Key generation, aux data | `hss_keygen.c`, `hss_aux.c` | aux buffer, first private key | `hss_generate_private_key` |
| Parameter sets | `hss_param.c`, `hss.c` | the compressed field of the private key | `hss_compress_param_set`, `hss_get_parameter_set` |
| Verification | `hss_verify*.c`, `lm_verify.c` | the walk over the levels, `got_error`, `struct hss_validate_inc` | `hss_validate_signature`, `hss_validate_init/_update/_finalize` |
| LM-OTS | `lm_ots_*.c` | none | sign, verify, coefficients, checksum |
| Subtree computation | `hss_compute.c` | a stack of nodes | `hss_compute_internal_node` |
| Seeds | `hss_derive.c` | `struct seed_derive`: q, j and the seeds on the path to them | `hss_seed_derive_*`, `hss_generate_child_seed_I_value` |
| Hashes, endian conversion | `hash.c`, `sha256.c`, `endian.c`, ... | none | |

How they interact. The application (`demo.c` is one) calls `hss_load_private_key`
(allocation + loading), then signs. Every signature first *advances* the
sequence number (`hss_advance_count`, calling back into the application to
write NV storage), then issues work items to the *thread pool*: one makes the
signature, others add one leaf each to subtrees that will be needed later. When
the pool has finished, the main thread swaps the subtrees and trees that are
used up. Loading computes the same structure from the stored sequence number
alone. An incremental signature takes its sequence number in `hss_sign_init`
and uses it in `hss_sign_finalize`, with anything in between. Verification uses
the same pool, one item per level. Everything that is signed or hashed starts
from a secret that a derivation object hands out, one object for many leaves
when a tree is built, a new one for each signature.

What is hard about each part, and what makes it correct:

- *Sequence numbers*: a crash, or a write that fails or only seems to fail,
  between advancing and signing; the last number, after which there is nothing
  to store; contexts that outlive their working key; two working keys of one raw
  key. Correct: no number signs twice; a reload starts beyond all used ones.
- *Signing*: an amortised construction thousands of signatures long. Correct:
  each subtree is complete, and of the right tree, when the path moves into it.
- *Loading*: must agree with any incremental history. Correct: the same
  sequence number gives the same signature, whatever the history. The work is
  cut into pieces for the threads, some of it comes from aux data or from the
  subtree below. Correct: each node is computed or copied once, and is right.
- *Thread pool*: creation, death and reuse of slots race with enqueuing.
  Correct: every issued item runs exactly once before `hss_thread_done` returns,
  and that does return.
- *Allocation*: a search over subtree sizes with a signed budget, memory that is
  computed by one loop and handed out by another, a malloc that may fail at any
  of a hundred places. Correct: the shape is the best one in which every tree
  gets the updates it needs, the plan is exact, and nothing is lost.
- *Key generation and aux data*: the private key is stored long before the aux
  data, whose buffer the application may reuse. Correct: aux data that loading
  accepts is right; the public key is the root.
- *Parameter sets*: Correct: a stored key is recognised, and never loaded with
  other parameters.
- *Verification*: a signature that may be cut anywhere; items of all levels that
  report to one variable on the caller's stack; a signature that the caller
  presents twice. Correct: the answer is yes only for a complete chain from the
  public key to the message, and no item outlives the call.
- *LM-OTS and seeds*: an object with a history (the path kept from the last
  leaf, j where the last use left it) must give what a new one gives. Correct: a
  key or signature depends on seed, leaf and message only; no secret has two
  uses; what one signature shows makes no other.

Each danger is listed at its line under "hazards" in `PROJECT.json`.

## 2. Modules

    OneTimeKeys     <-- implemented by --  HssWorkingKey  <- MCHssWorkingKey, HssWorkingKeyProofs
    HssSignatures   <-- implemented by --  HssMerkle      <- MCHssMerkle, HssMerkleProofs
    WorkItems       <-- implemented by --  HssThread      <- HssThreadProofs
    SignatureChecks <-- implemented by --  HssVerify      <- MCHssVerify, HssVerifyProofs

    HssNodes <- HssAux   \
                          HssKeygen <- HssLoad <- MCHssLoad, HssLoadProofs
               HssParam  /

    LmVerify <- HssVerify
    HssDerive <- LmOts <- OtsKeys <- MCOtsKeys, OtsKeysProofs
    HssAlloc <- MCHssAlloc, HssAllocProofs
    NumberFacts <- HssAllocProofs, HssMerkleProofs, HssLoadProofs, HssVerifyProofs,
                   OtsKeysProofs

The four abstract modules are the promises of the library. `HssLoad` composes
key generation and loading, which meet in the stored private key and the aux
file. The rest is composed by abstraction. `HssWorkingKey` treats the trees as
a count `cur` that moves by one per signature, which is what `HssMerkle` shows
(`Count`, and `SignsAsPromised`). `HssMerkle` treats the work items of one
signature as one step: `WorkItems` promises that all have run exactly once when
`hss_thread_done` returns, and they write disjoint subtrees. It also takes from
loading how many leaves each subtree receives; that their nodes are then right
is what `HssLoad` shows (`LoadedRight`). `HssLoad` performs all work items in one
step for the same reason: `EachNodeOnce` shows that no two write the same node.
`HssVerify` relies on `WorkItems` in the other way: it lets an item run at any
moment between its issue and the end of `hss_thread_done`. The shapes of
`HssMerkle` are assumed to give each tree enough updates (`ShapeAssumption`);
`HssAlloc` establishes that of `allocate_working_key` (`EnoughUpdates` in
`WellShaped`). The injective names of seeds in `HssMerkle`, and the verdict of
`LmVerify` that an LM-OTS signature leads to its key with its own digest only,
are what `OtsKeys` shows of the derivation and of the Winternitz chains
(`SecretsApart`, `HistoryForgotten`, `SignaturesVerify`).

### OneTimeKeys and HssWorkingKey

| Model | Code |
|---|---|
| `nv` | the index field of the private key in NV storage, `AllOnes` after it was trashed |
| `wk[k].cur`, `.reserve`, `.pk`, `.auto`, `.status` | current count of the trees, `reserve_count`, the index in the working copy `w->private_key`, `autoreserve`, `status` |
| `ctx[c]` | a `struct hss_sign_inc` |
| `call` | a call of `hss_generate_signature` between `hss_advance_count` and its return |
| `raw` | whether the application passes NULL callbacks and a private key in RAM; either is an initial state |
| `uses`, `promise`, `gone` | history: signatures handed out per number; what `hss_reserve_signature` promised; one more than the last number given to a signature or a context |
| `Load`, `Free`, `SetAutoreserve`, `Reserve` | `hss_generate_working_key`, `hss_free_working_key`, `hss_set_autoreserve`, `hss_reserve_signature` |
| `SignRefused`, `SignBegin`, `SignDone`, `SignFailed` | `hss_generate_signature` (`c = NoCtx`) and `hss_sign_init`: refused; up to the return of `hss_advance_count`; success; a work item reported an error |
| `AdvanceLast`, `AdvanceReserved`, `AdvanceWrite` | the three paths of `hss_advance_count` |
| `SignFinalize` | `hss_sign_finalize` |
| `Crash` | the process ends at any point, also inside a call |

A write callback may succeed, fail without effect, or *fail with effect*:
`update_private_key` of `demo.c` reports a failing `fclose` after `fwrite`.
`raw` selects the other calling convention, a private key in RAM and NULL
callbacks, where the library compares that key with its own copy before signing.

`OneTimeKeys` promises more than `NoReuse`. It has the numbers *leave the key*,
for a signature or for an incremental context (`pending`, mapped to the live
contexts of `ctx`), and each number that leaves is greater than all that left
before. So a number is never offered again, even when its context is abandoned,
lost in a crash or fails and the number has signed nothing; and a context signs
with its own number, at most once. The mutant of this property shows the
difference: if the raw private key were compared only when it has to be written,
a working key that has fallen behind would sign from its old reservation. No
number would sign twice and `NoReuse`, `StoredAhead` and `NeverBackwards` would
hold, but numbers would leave the key out of order.

One assumption about the application is in the guard of `Load`: with callbacks,
a working key is loaded only when no other loaded key can still sign.
`read.me:483-484` declares sharing a private key between signers unsupported.
With raw keys there is no such guard, since there the comparison protects.

### HssSignatures and HssMerkle

The levels, sublevels and three kinds of subtrees are those of the code. A hash
value is abstracted to *where it comes from*: a subtree holds, besides its
`current_index` and `left_leaf`, the tree its nodes were computed from, the
first leaf, and how many leaves it really has. A tree's seed and `I` are
abstracted to a name, the sequence of leaves above it, which is what
`hss_generate_child_seed_I_value` derives them from; different names have
different values by the strength of the hash. A signature says which leaf of
which tree signs at each level and whether its authentication path was right.

| Model | Code |
|---|---|
| `current`, `name`, `nameNext`, `update` | `current_index`, `I`/`seed`, `I_next`/`seed_next`, `update_count` |
| `active`, `building`, `next` | `subtree[j][ACTIVE_TREE / BUILDING_TREE / NEXT_TREE]` |
| `AddNext`, `StepNext` | `subtree_add_next_node`, `hss_step_next_tree` |
| `Worker`, `Worked`, `UpdateAfterWork` | `do_update_parent` |
| `Stepped`, `AsksParent`, `Sign` | `hss_generate_signature`: work items, then the switching of subtrees and trees |
| `LoadActive`, `LoadBuilding`, `LoadNext`, `Load` | `hss_generate_working_key` |

Two indeterminate values of the code are choices in the model. Line 538 of
`hss_sign.c` reads `current_index` of the bottom tree in the main thread while
`do_gen_sig`, perhaps already running in a worker, increments it: `Races` is
the set of increments that may have been seen. At the right edge of a tree
`hss_generate.c:499` leaves `left_leaf` of the building subtree uninitialised,
and `do_update_parent` reads it: `garbage`.

`Shape` ranges over parameter sets. `ShapeAssumption` is the rule that
`allocate_working_key` enforces with `compute_updates_generated` and
`compute_updates_required`. `MCHssMerkle` has the shapes that the two runs use.

### WorkItems and HssThread

One main thread and `MaxThread` slots. A worker's critical section is one step,
since all it touches is accessed only under `lock`; the main thread's are
several, because `pthread_create` starts a worker in the middle of one and
because the lock is released to join. `IssueWork` may find no memory,
`CreateFailed` is a failing `pthread_create`, `ThreadInit` may fail: all three
lead to the item being performed by the main thread. `num_thread = 0` is also
`hss_thread_single.c`. Each item's function writes its result between
`hss_thread_before_write` and `hss_thread_after_write` (`writeLock`). The branch
"everything was alive???" after the search is not modelled, because
`AliveIsExact` shows it unreachable.

### HssNodes, HssParam, HssAux, HssKeygen and HssLoad

| Model | Code |
|---|---|
| `ComputeInternalNode`, `Climb`, `HashSubtree`, `FillSubtree` | the stack of `hss_compute_internal_node`, its inner loop (also that of key generation), `hash_subtree`, `fill_subtree` |
| `Compress`, `GetParameterSet` | `hss_compress_param_set`, `hss_get_parameter_set`; `beyond` stands for the uninitialised bytes after the field |
| `AuxLevels`, `Marked`, `Save`, `Finalized`, `Accepts` | `hss_optimal_aux_level`, `hss_store_aux_marker`, `hss_save_aux_data`, `hss_finalize_aux_data`, `hss_expand_aux_data` |
| `Generate`, `NextLevel`, `GenerateNodes`, `GenerateFailed`, `CombineLeaf`, `Finalize` | `hss_generate_private_key`: the stored key, the choice of a level, its nodes, an error, one turn of the combining loop, MAC and public key |
| `SaveAux`, `Crash`, `Damage` | the application saves the aux data; the process ends; the file is damaged |
| `LoadPrivateKey`, `GenerateWorkingKey` | the two ways in: parameters found in the key, or chosen by the caller |
| `List`, `Compute`, `ComputeFailed`, `Fill`, `Loaded`, `Free` | `hss_generate_working_key`: the list of orders; the work items; an error in one; filling the subtrees, cheapest first; success; `hss_free_working_key` |
| `ActiveOrder`, `BuildingOrder`, `NextOrder` | `struct init_order` for the three kinds of subtrees |

A hash is what it is computed from: `Node(t, n)` is the right value of node `n`
of tree `t`, made from its two children under its own number only, and
everything else is `Junk`. So a wrong sibling, position or node number anywhere
in the four tree algorithms shows up in the result. A MAC is the key and the
content it was taken over. Lengths in bytes are counted in hashes.

`Plans` stands for the numbers that the code gets from floating-point
thresholds (the largest work item, the largest request) and for which of the
temporary arrays `malloc` denies. `Deep` and `Requests` then follow the code.
All levels of an instance have the same Winternitz parameter, so that the cost
of an order is its number of leaves.

What the other modules have is not repeated: the range check of the index and a
failing read (`HssWorkingKey`), the signed public keys (`HssMerkle`). A call that
is refused and changes nothing is no step. `MaxKeys` and `LoadKeys` bound the
keys generated and the keys generated before a load.

### SignatureChecks, LmVerify and HssVerify

A signature is a sequence of words, so that it can be cut, extended, changed or
spliced; a hash is the term it was computed from. Lengths, types, indices and
the numbers of levels are read from the words, as in the code.

| Model | Code |
|---|---|
| `given` | public keys and signatures that the application presents; `signed`, which messages each was made for, is known to the properties only |
| `public_key`, `at` | `current.public_key`, and how far `signature` has moved |
| `issued`, `checked`, `got_error`, `failed` | the work items and those performed, the variable they report to, whether `goto failed` was taken |
| `ctx` | `struct hss_validate_inc` |
| `Validate`, `ValidateRefused`, `InitContext`, `InitRefused` | `hss_validate_signature`, `hss_validate_signature_init` up to the comparison of the levels |
| `NextLevel`, `Malformed`, `Bottom`, `ValidateReturns`, `InitReturns` | the loop over the levels and what follows it, in both functions |
| `validate_internal_sig` | the work item |
| `Update`, `Finalize`, `FinalizeRefused` | the rest of `hss_verify_inc.c` |
| `lm_validate_signature`, `Root`, `WellFormed` | `lm_verify.c`: the checks and the walk up the authentication path |

`hss_validate_signature_init` reads q and C of the last LMS signature before
anything has checked that there are so many bytes left: `Beyond` is what memory
may hold there, a choice in the model. `KeepsPromise` shows that whatever it
holds the answer in the end is right. What `hss_validate_signature_finalize`
accepts when it is given another signature than `_init` was is stated in
`SignatureChecks`: still only a message that was signed. Both are proved for
any sizes (`AnswersAsPromised`).

### HssDerive, LmOts and OtsKeys

| Model | Code |
|---|---|
| `derive`: `q`, `j`, `q_seed`, `j_seed`, `j_value` | `struct seed_derive` |
| `hss_seed_derive_set_q`, `Kept` | the levels of the path that the change of q leaves alone |
| `hss_seed_derive_set_j`, `Incremented`, `Secret` | the path to j, `hss_seed_derive` with and without `increment_j` |
| `lm_ots_coef`, `lm_ots_compute_checksum`, `Digits` | `lm_ots_common.c`, on real bytes |
| `ChainSecrets`, `Walk`, `lm_ots_generate_public_key`, `Signature`, `lm_ots_validate_signature_compute` | `lm_ots_sign.c`, `lm_ots_verify.c` |
| `Derived(path)`, `Hashed` | a secret: what was hashed on the way to it from the seed of the tree, each input together with the secret before it |
| `ComputeNode`, `NextLeaf` | an object taken through the leaves of a subtree by `hss_compute_internal_node` |
| `SignWhole`, `SignInit`, `SignFinalize`, `ChildSeed` | a new object: a whole message, the two ends of an incremental signature, the tree below a leaf |

`build` has the compile-time choices: "hash" is `SECRET_METHOD` 0 and 2 (the
configured one), "tree" is `SECRET_METHOD` 1 with `SECRET_MAX`. Hash chains are
terms, so that a chain value entered at the wrong place is *lost* and shows.

### HssAlloc

| Model | Code |
|---|---|
| `heap` | the blocks allocated and not yet freed, named by the pointer that holds them |
| `mem_target`, `subtree_size`, `stack_usage`, `stack_index` | the same |
| `best` | `search_status`, `best_j`, `best_mem`, `best_levels`, `best_stack_used` |
| `Begin`, `NoKey`, `Refused` | the entry of `allocate_working_key` |
| `TopLevel`, `SignedPk`, `UnknownType`, `AllSigned` | the loop over the signed public keys |
| `UpperLevel`, `BottomLevel` | the sizes of the upper levels |
| `Consider`, `Found` | one turn of the search, and its end |
| `Stack`, `Tree`, `Skip`, `Subtree`, `TreeDone`, `SanityCheck` | the allocations and the last check |
| `Fail`, `Free`, `hss_free_working_key` | both ways to free; the last is the set of blocks that its loops come by |

Sizes are in a unit of the instance (8 bytes of the x86-64 build in the runs).
`compute_level_memory_usage` sums over the sublevels in a loop; the model has
the sums in closed form, and `PlanIsExact` compares them with what the
allocations, one sublevel at a time, really take.
`LONG_MAX`, at which the code caps a memory target, is left out, and the
`max_count` that is computed here is a constant of `HssWorkingKey`.

## 3. What is checked

Each run takes between a few seconds and a minute and a half; each property of a passing run has a
mutant that breaks it.

| Run | Instance | Shows |
|---|---|---|
| `Key` | 2 working keys, 2 contexts, 4 numbers; with callbacks, and with a raw key and both working keys live at once; symmetric in keys and contexts | types, no reuse (neither by a reload nor by two pending contexts), reload beyond all used numbers, reservations kept, a trashed key is dead, the comparison keeps a stale raw key from signing (in the inductive invariant), the index of a raw key never goes back, implements `OneTimeKeys` |
| `KeyLast` | the same with one context | **violation**, see section 5 |
| `Merkle` | heights 5, 3, 3 with 3, 2, 2 sublevels, updates generated = required for the root; load and reload at two places of every four bottom trees, losing 0 or 5 numbers, both races | active subtrees populated, identities stable, reload invisible, every signature as `HssSignatures` says |
| `MerkleMixed` | heights 4 and 3 | **violation**, see section 5 |
| `Thread` | 4 items, pool of 3 threads, 2 (the default) or none | once each, all joined, joins valid, queue only when full, `num_alive` exact, `hss_thread_done` returns, implements `WorkItems` |
| `Load` | 1 to 3 levels of height 5, 2 keys, aux buffers for none or two levels, 6 places, 4 plans | accepted aux data is right, the public key is the root, each node once, loaded subtrees right, parameters agree |
| `Verify` | keys of 1 to 3 levels (and of 4, one too many) with trees of height 1 and 2; signatures genuine, cut at every word, extended, changed in a word, spliced from two; other keys | accepts only chains, no item outlives a call, answers as `SignatureChecks` promises |
| `Ots` | 5 builds: both methods, paths of 1 to 6 levels, trees of 2 to 8 leaves, w = 4, 8; 3 digests; any two results | results without history, secrets with one use, none hashed more often than `SECRET_MAX` says, signatures verify, and show nothing that signs another digest |
| `Alloc` | all heights for 1 and 2 trees, three shapes of more, 7 memory targets, every malloc may fail | best shape with enough updates, exact plan and no internal error, nothing leaks |
| `AllocEight` | 8 levels | **violation**, see section 5 |
| `KeygenAux` | an aux buffer with room for level 1 only | **violation**, see section 5 |
| `LoadParams` | a key of two levels | **violation**, see section 5 |

Bounds, and why they are enough:

- Keys: reuse needs two signers or one signer and a reload. Four
  numbers have room for a reservation in the middle, an autoreservation clipped
  at the end, and the last number. The proofs remove these bounds.
- Trees: height 3 with subtrees of 2 has a short top subtree, a boundary
  between subtrees and one between trees. Three levels are the least with a
  tree that is neither root nor bottom (`UPDATE_PARENT` passes work upwards).
  Height 5 has two building subtrees in one tree, so that `update_count` goes
  beyond `UPDATE_BUILDING`, and a boundary of an inner subtree that is not one
  of the tree. `Skips` has no loss and a loss across subtrees.
- The race of line 538 costs at most one update of the parent per tree. The
  middle tree of `Merkle` gives the root exactly as many updates as are required,
  the bottom tree gives the middle one more than that, which is what the code's
  parameter sets always have (`HypothesesHold`).
- Loads: not at a root leaf whose index is that of the last leaf of a tree of
  another height. That is the defect that `MerkleMixed` shows. The proofs remove
  these bounds.
- Loading: height 5 is the smallest of the code. It gives three sublevels, aux
  levels 1 and 3, and a top subtree of height 1. Of three levels the middle one
  is neither root nor bottom. The second key meets the buffer and the file of
  the first. The places are the ends of trees and both sides of boundaries of
  subtrees. The plans split no order, some, or all, into requests of one, two
  or three nodes, with memory missing for none or one kind. The proofs remove
  these bounds.
- Threads: two slots and four items give reuse of a dead slot, a queue of more
  than one, and death while an item is being issued. The third slot adds a
  search that wraps round. The proofs remove these bounds.
- Verification: three levels have a first, a middle and a last one. Heights 1
  and 2 have paths whose lengths differ, so that a wrong type shows. The cuts
  reach every place where a length is compared, and `MaxLevels = 3` puts a key
  of four levels beyond the maximum. Messages of two pieces show their order.
- One-time keys: a relation between results is one of two of them (`MaxMade`).
  With `SECRET_MAX` 1 to 4 the last level of the path to q or j is a full or a
  shorter one, and j wraps over several levels. The digests are an arbitrary
  one, the one below it in the last digit only, which the checksum has to catch,
  and the one with the highest checksum. `w = 1` and `w = 2` (265 and 133 chains,
  as many recursive steps) are left out: their path through the code is that of
  the others, and the proofs are about all four.
- Allocation: the heights of the code, all pairs, and targets from less than
  the fixed parts to more than any key. The three longer shapes have trees that
  are neither at the top nor at the bottom. The proofs remove these bounds.

Deadlock is checked for the working key, for key generation and loading, for
verification (where it says that no call hangs: each one waits for its items),
for one-time keys and for allocation. It is switched off for the pool, which
stops after `hss_thread_done`, and for the trees, where an expired key stops.

Fairness: only `HssThread` has liveness. Its `Fairness` is weak fairness of the
main thread's own steps and of each worker: the operating system runs every
thread, a mutex is eventually obtained, and work functions return (they are
finite computations). Whether the application issues another item or calls
`hss_thread_done` is not assumed; `DoneReturns` starts when it has called it.

## 4. What is proved

### The working key

`HssWorkingKeyProofs` proves, for any sets of keys and contexts, any `MaxCount`
and both calling conventions, from `KeyAssumption` alone:

| Theorem | Statement |
|---|---|
| `Inductive` | `Spec => []IInv` |
| `TypeCorrect` | `Spec => []TypeOK` |
| `OneTimeKeysSignOnce` | `Spec => []NoReuse` |
| `ReloadStartsBeyond` | `Spec => []StoredAhead` |
| `Refinement` | `Spec => OneTime`, the abstract specification: in order, and once each |
| `TrashedStaysDead` | `Spec => TrashedKeyIsDead` |
| `RawKeyMovesForward` | `Spec => NeverBackwards` |
| `ReservationsAreKept` | `Spec => PromiseKept` |

`NoReuse`, `StoredAhead` and `OneTime` are not inductive: they do not say who may
still sign what. `IInv` adds

- `WithinReservation`: a usable key stands inside its reservation, which
  storage covers, so that signing inside it needs no write;
- `CallCovered`: a call in progress has its number covered before anything is
  generated, or is making the last signature of a trashed key;
- `OwnedUnissued`, `OwnedOnce`: the numbers between a key's count and its
  reservation have not been given out and belong to no other key;
- `SingleUser`: with callbacks, where a write may take effect and still be
  reported as failed, storage can be *ahead* of the reservation, and the next
  successful write moves it *back*. This is safe because nothing beyond the
  reservation was given out and nobody else is signing;
- `HeldUnused`, `HeldOnce`: a number held by a pending context has signed
  nothing and is held by no other;
- `InOrder`: everything that left the key is below the stored index, below the
  count of every key that may still sign, and not beyond the number of the call
  in progress. A raw working key that does not match may stand lower; it cannot
  sign. When another key takes number `i`, a key that still matches ends its
  reservation at the stored index, which is beyond `i`; as it does not own `i`
  (`OwnedOnce`), it must already stand beyond it.

There is one lemma per action. Those that give no number out go through
`KeyUpdate`, a frame lemma: one working key changes, contexts are at most lost,
and it remains to show that what the key now owns is its alone.
`Refinement` maps `SignDone` to `Sign` or `Hold`, `SignFinalize` to `Finish`,
whatever spoils a context (a new `hss_sign_init`, refused or not, and a crash) to
`Lose`, and the rest to stuttering. `ReservationsAreKept` adds an invariant
`Promised` of its own: a promise is within the reservation. The property excepts
the last signature of the key, which always writes; the code never promises it.

### The thread pool

`HssThreadProofs`, for any items, any `MAX_THREAD` and default, from
`ThreadAssumption`: `Inductive`, `TypeCorrect`, `EachItemOnce`, `AllJoined`,
`JoinsValid`, `QueueServed`, `AliveCounted` (each `Spec => []` of the property of
the run) and `ImplementsWorkItems` (initial states, and every step is one of
`WorkItems` or invisible to it: the safety half of `KeepsPromise`).

`IInv` has four parts beyond types. `LockInv` says at which statements who owns
the locks. `SlotInv` pairs `state[s]` with what the POSIX thread does; they
differ only where the main thread is between two statements of a critical
section. `PositionInv` says what the main thread knows of the slot it is at.
`PlaceInv` gives each issued item one place: with the main thread, in the queue,
with one worker, or performed. `CountInv`, `num_alive` against the cardinality of
the living slots, is why the search for a slot cannot fail.

### Verification

`HssVerifyProofs`, for any number of levels, LMS heights and types, and
anything that an application presents, from `HeightAssumption` and
`VerifyAssumption`: `TypeCorrect`, `Soundness` (`AcceptsOnlyChains`) and
`NothingOutlives`. `IInv` says that the items issued so far are the beginning of
a chain from the public key to where the walk stands (`Linked`, `Tip`), and that
without `got_error` the performed ones were valid.

`Soundness` says that nothing else is accepted. `ExactVerdicts` says of the same
calls that nothing good is turned down either: `hss_validate_signature` returns
true if and only if the signature *checks out*. `ChecksOut`, with `Chains` and
`Genuine` at the end of `HssVerify`, is written without the walk: there are places
for the LMS signatures, each where the one before it and the next public key end,
and each signature is valid for what follows it. It does not say how the loop
compares lengths, when it gives up, or in which order the items run. There are no
hypotheses besides the two assumptions.

`AnswersAsPromised` is the refinement of `SignatureChecks`, step by step, for
whole messages and for incremental contexts. It has a hypothesis, `Genuine`, because
`SignatureChecks` speaks of the messages that the owner of the key signed, and no
program can tell those from what makes the hashes come out right. `Genuine` says
that the record of what was signed (`signed`) has exactly the messages for which
the signature checks out, that numbers are written in one way, and that if a last
LMS signature is valid for a digest of q, C and a message, then that message was
signed. The last part is for `hss_validate_signature_finalize`, which may be given
another signature than `_init` took q and C from. It is the strength of the hash; TLC evaluates
it for every key and signature of the run `Verify` (`GenuineAssumption` in
`MCHssVerify`), where signatures are built from trees and are cut, changed and
spliced, so the hypothesis does hold of what a signer makes, at that size.

The invariant for both, proved beside `IInv`, is `WInv`. `Items` says that each
item is a function of the words at its place, and each place a function of the one
before, so that there is one walk for given words (`OneChain`). `Outcome` says that a
walk that failed has left no message for which the signature checks out
(`MalformedItems`: where a length does not fit, no chain continues), and that with
`got_error` one of the items was invalid. `Session` says what a context remembers
of the signature that `_init` saw: the key and place of the last LMS signature,
and a `q` and `C` that were read there, or behind the end. That they are worth
nothing when the signature is too short is why `_finalize` gives the right answer
in the end: the length is compared there, and with the same signature the words
read were its own.

### Allocation

`HssAllocProofs`, for any requests, sizes of structures and memory targets, from
`AllocAssumption`: `ShapesAreRight` (`WellShaped`), `MemoryTargetIsAdvisory` (the
search always finds a size), and `FewerLevelsAreFreed`: if no request has
`MAX_HSS_LEVELS` levels, `NothingLeaks`. The assumption on the levels is needed,
see `AllocEight`. `IInv` follows the loops: sizes are settled from the top, and
`best` is the best of the sizes below `j`, by a preference that is shown to be
transitive. That the smallest size generates enough updates for any tree above
it is a lemma over the five heights. `HeapInv` says that each block is one that
the loops of `hss_free_working_key` come by.

`PlansAreExact` is `PlanIsExact`, again with fewer than `MAX_HSS_LEVELS` levels: the
block that is left behind with 8 would be counted for the next key. The code
states the memory twice, in `compute_level_memory_usage` and in the loops that
allocate, and the theorem says that both come to the same for any heights and
sizes, that the last check of `stack_index` never fails, and so that no call ends
with an internal error. `TreeBytes` and `StackBytes` are what a level has received
before slot (`j`, `k`) of the loops; `TreeGoesOn` shows that a slot adds the block
that is allocated there, or nothing if it is skipped, and `TreeEnds` that after the
last one they are the closed forms, of which one halves a product of neighbours. The
invariant `BooksInv` keeps the books: what was spent of the budget is allocated
(`Total`) or for levels that are settled (`PlanBooks`), and later for trees and
subtrees to come (`Books`). `HeapInPlace` says that a block is in the heap only if
its place was passed, so that each allocation adds a new one, and that while
`stack_usage` and the sizes change no block depends on them. The sums are taken
over finite sets by `SumOver`, which is shown to be unique, additive and what
`MapThenSumSet` computes in whatever order it chooses.

### The Merkle trees

`HssMerkleProofs`, for any number of levels, any heights and subtree sizes that
pass the check of `allocate_working_key`, any places to load at, any losses and
any outcome of the race, from `ShapeAssumption`, `LoadAssumption` and
`RaceAssumption`:

| Theorem | Statement |
|---|---|
| `TypeCorrect` | `Spec => []TypeOK` |
| `PathsPopulated` | `Spec => []ActivePopulated` |
| `KeysConsistent` | `Spec => []SameKeysAfterReboot` |
| `ReloadInvisible` | `Spec => ReloadIsInvisible` |
| `KeepsPromise` | `Spec => SignsAsPromised`, the abstract specification |
| `HypothesesHold` | when the two hypotheses of the others hold |

They have two hypotheses, each a fact that the code relies on and does not check.
`SameNamesOnLoad`: at no place where the key is loaded do line 345 of
`hss_generate.c` and line 676 of `hss_sign.c` decide differently; without it the
theorems are false, which is the finding of `MerkleMixed`. `EnoughUpdates`: if
line 538 of `hss_sign.c` may read `current_index` before it is incremented, the
bottom tree generates one update more than `allocate_working_key` insists on.
`HypothesesHold` proves the first wherever all trees are of one height, and the
second for the heights of `lm_look_up_parameter_set` with the subtree size of
`hss_smallest_subtree_size`: 4, 6, 9, 11 or 14 updates are needed, and a power of
two, at least 8, is generated.

`IInv` says that the key is *at* a sequence number `c` (`At`). `PathsOK` is what
`c` alone determines: indices, names, signed public keys, complete ACTIVE
subtrees. It is not inductive: where the path enters a subtree, BUILDING must be
complete. `ProgressOK` says how far the work has come. A BUILDING subtree, unless
it lies beyond the right edge, has a leaf for each one that the path has used up
beside it (`BuildingOK`), NEXT_TREE one for each leaf used of the tree
(`NextOK`), one more if the tree's turn has come (`BuildDone`, `NextDone`, read
off `update_count`). And `update_count` has kept up with the tree below (`Asked`):
a tree has been asked once for each leaf of the tree below whose own turn to ask
is over, from `Threshold` on, where the bottom tree begins to ask. `Finished` is
the core of the argument: when a leaf of a tree is used up the tree below is at
its last leaf, has asked as often as it generates updates, and all the work is
done; by induction from the bottom, since an upper tree asks only after it has
worked itself.

A signature is proved in two halves, as in the code: the work (`WorkUpdates`,
`WorkBuilding`, `WorkNext`), after which every level has done its part for `c`,
and the switch to `c + 1` (`SignNames`, `SignActive`, `SignPaths`,
`SignUpdates`, `SignBuilding`, `SignNext`). `LoadStep` shows the same predicate
`At(c)` of what loading builds from nothing; that both arrive there is why a
reload is invisible.

`HssMerkleProofs` begins with the lemmas about the operators: the geometry of subtrees
(sizes divide each other, `AlignedNext`), sequence numbers as mixed-radix numbers
(`Digits`, `Odometer`, `CountIsInverse`), names (`RootDown`, `NextNamesUnique`),
and what a step of a subtree keeps (`AddNextFacts`, `StepNextFacts`,
`LoadBuildingFacts`, `LoadNextFacts`). `NumberFacts` has powers of two, quotients
and induction: the least-number principle for a set of numbers, and from it
induction and the existence of recursive functions over an interval, which the
library's theorems state with operator parameters that the installed provers
cannot instantiate.

### Key generation and loading

`HssLoadProofs`, for any parameters, aux buffers, numbers of threads, places to
load at, sizes of the bottom subtrees and ways of cutting the work, from
`ParamsAssumption`, `RoomsAssumption`, `KeysAssumption`, `BottomsAssumption`,
`LoadAtAssumption` and `PlansAssumption`, which give the constants their types and
say that a leaf to load at is a leaf:

| Theorem | Statement |
|---|---|
| `Invariance` | `Spec => []IInv` |
| `TypeInvariant` | `Spec => []KeygenTypeOK` |
| `PublicKeys` | `Spec => []PublicKeyIsRoot` |
| `Parameters` | `Spec => []ParametersAgree` |
| `WorkIsDisjoint` | `Spec => []EachNodeOnce` |
| `AuxData` | if `NeverLevelOneAlone`, `Spec => []AuxIsRight` |
| `LoadedKeys` | if `NeverLevelOneAlone`, `Spec => []LoadedRight` |
| `EvenHeights` | `NeverLevelOneAlone` holds for root trees of even height |

`NeverLevelOneAlone` says that no buffer gets level 1 of the root tree and nothing
else. Without it the last two are false, which is the finding of `KeygenAux`. For
odd heights it excludes the buffers with room for two to nine hashes
(`LevelOneAlone` in `MCHssLoad`); the buffers of `Load` satisfy it.

The lemmas come first, on the algorithms as such. `ComputedRight`:
`hss_compute_internal_node` returns the node it is asked for. The argument is that
of binary counting: after `m` leaves the stack holds a node for each one in the
binary digits of `m` (`Stacked`), and the trailing ones of `m`, which the code
counts, are the nodes that the next leaf completes (`Carry`, `ClimbRight`).
`HashedRight` and `FilledRight` are about `hash_subtree` and `fill_subtree`.
Recursive functions over an interval exist by `NumberFacts`, and what they
compute follows by induction over the interval, so none of this is assumed.
`CompressFacts`: two lists of parameters that are stored alike are the same, and
none is stored as zeroes.

`IInv` has two parts. `KeygenInv` says what a call of `hss_generate_private_key`
knows: its key is the stored one, the level it is at is at or below all levels that
are kept (`CallInv`), the stack is `Stacked`, and the aux data has the level that
was computed in parallel and, of the levels above, all nodes whose leaves have been
combined (`Saved`). At the end these are all nodes, so that the MAC is taken over
right ones; `AuxInv` says of every MAC in the buffer and in the file that what it
was taken over is right (`RightMac`), whether or not it still matches what is
there. This is why damage, a reused buffer and a crash do no harm.

`LoadInv` says how far a load has come. `BegunInv`: the working key has the
parameters of the stored key. `ListedInv`: the orders are those of the place
where the key is loaded. `ComputedInv`: an order that is still open has its bottom
nodes, except the one to be taken from below (`Bottom`), and one that is filled
has all nodes (`Complete`). That the nodes of the work items, of the aux data
and of the subtree below are where an order expects them is arithmetic of subtrees
(`OrdersPlaced`, `OrderNodesFacts`). `SourceFacts` is about the order below: it is
unique, it is full, its root is the node that is missing, and it costs less. The
costs decide the order of filling, so the source is filled before (`InheritRight`).
`RequestsCover` shows that the requests, in chunks of any size on both sides of the
missing node, or one by one, have each other node once.

### One-time keys

`OtsKeysProofs`, for any builds (both methods, any `SECRET_MAX`, heights up to 25,
`w` of 1, 2, 4 or 8), any leaves, messages and order of calls, from
`BuildsAreBuilds`, `DigestsAreBytes`, `DigestsDiffer` and `MaxMadeAssumption`. The
third says that no two messages that are signed have the same hash, which is the
strength of the hash.

| Theorem | Statement |
|---|---|
| `OtsKeysTypes` | `Spec => []TypeOK` |
| `OtsKeysHistory` | `Spec => []HistoryForgotten` |
| `OtsKeysSecretsApart` | `Spec => []SecretsApart` |
| `OtsKeysSeldomUsed` | `Spec => []SeldomUsed` |
| `OtsKeysSignaturesVerify` | `Spec => []SignaturesVerify` |
| `OtsKeysOneMessage` | `Spec => []OneMessageOnly` |

`IInv` says that the derivation object is usable, that `leaves_left` more leaves
follow in the tree, and that each result is the one that leaf, message and build
determine (`Results`). *Usable* (`AtLeaf`) means that each seed on the path to q is
the hash of all inputs above it, and nothing of j: `j_seed` and `j_value` may be
left over from any earlier use. `SetQ` is the core of `OtsKeysHistory`: what `set_q` keeps
is the part of the path on which both leaves agree, by `LongerShift` (two numbers
that agree after a shift agree after any longer one) and, for a new object, since
its q is no leaf (`KeptFacts`). From such an object `set_j` gives `JObject(b, q, j)`,
which has no history (`SetJ`), and incrementing j gives the next one: the digits
that wrap are the ones below the level that is hashed first (`Carry`, `NextJ`). So
the secrets of the chains are those of their numbers (`ChainSecretsFacts`), and keys,
signatures, randomizers and child seeds have a closed form.

`OtsKeysSecretsApart` reads q and j off the last input of a path
(`SecretsDiffer`). This needs that `j` with its mark has no more than the 16 bits
that are hashed, that the mark leaves room for all chains and the three artificial
values (`JHeightFacts`), and that -1, -2 and -3 are cut to values that no chain has.
`OtsKeysSeldomUsed` is about where two paths part: the inputs before are equal, so
the two next ones have the same digits above, and are equal if the lowest digit is.
At the first level they are, since both begin with the mark.

For `OtsKeysSignaturesVerify` it is enough that walking a chain in two parts is
walking it at once, and that in a chain entered elsewhere the secret, the place or
the position is not the one of the key. Only with the same digest do all chains
meet. `OtsKeysOneMessage` is the argument for the checksum: if no digit of the
second digest were lower than that of the first, the sum of what they leave to the
maximum would not be greater, and since a digit of the checksum is not lower either,
the checksums, hence all digits, hence the digests are equal. That the checksum fits
into its digits is shown for each `w`.

### Only model-checked

Liveness: `DoneReturns`, and with it the fairness that `WorkItems` promises, of
which the safety half is proved. That what a signer builds is `Genuine` is evaluated
on the instance of the run `Verify` only: it is about the trees and hashes of
whole signatures, not about the functions that check them. Every other property of a
passing run is stated by a theorem.

## 5. Findings

**The tree after the current one (`hss_generate.c:345`).**
`hss_generate_working_key` decides whether the tree after the current one hangs
below the same parent leaf row or below the parent's next tree by
`index == tree->max_index` (`hss_generate.c:345`), where `index` is the
*parent's* leaf and `tree` the *child*; the same decision in
`hss_sign.c:676` uses `parent->max_index`. For trees of equal height the two
agree. With a root tree taller than the tree below it, a key loaded at the root
leaf whose index equals the child's last one takes the other branch, and derives
the next tree from `seed_next` and `I_next` of the root, which are never
initialised. Signing on to the end of that bottom tree, the next root leaf signs
a tree with that identity; after any reload the same leaf, a one-time key, signs
the proper one. `hss_internal.h:181-183` explains that the derivation exists "so
we have consistent values between reboots". Run `MerkleMixed` shows it. An
execution of the library with LMS heights 10 and 5, loaded at sequence number
31 * 32 + 31, gives two different values of `I` signed by root leaf 32 with and
without a reload in between.

**Aux data with level 1 only (`hss_keygen.c:317`).** Key generation computes one
level of the root tree in parallel and combines it upwards. It saves the nodes
above that level; the level itself, says the comment at lines 314-316, has been
"already placed" in the aux data. That is not so for level 1: the search stops at
`level > 1`, and level 1 is computed into a small buffer on the stack (whose
comment expects level 2). An aux buffer with room for level 1 only, which exists
for trees of odd height, and one thread lead there. The MAC then covers whatever
the buffer held, loading accepts it, and the authentication paths are wrong. Run
`KeygenAux` shows it; on the library, a key of height 5 with such a buffer and
one thread gives signatures that do not verify. `AuxData` proves that with any
other buffer accepted aux data is right.

**Keys of two to four levels (`hss_param.c:136`).** A level takes two bytes of the
private key's parameter field, but the check that unused bytes are
`PARM_SET_END` starts at byte `levels + 1`, as if it took one. From two levels
on it looks at bytes that are in use, and `hss_load_private_key` rejects a key
that `hss_generate_private_key` has just stored. `hss_generate_working_key`
compares the whole field and is not affected. Five levels and more do not fit
into the field and are refused at generation, where `hss.h:75` promises up to 8.
Run `LoadParams` shows the rejection; the library behaves so for 2, 3 and 4
levels.

**Reserving the last signature (`hss_reserve.c:165`).** `hss_reserve_signature`
compares the current count with `max_count - sigs_to_reserve`, where `max_count`
is the last number and not how many there are. So it refuses, with
`hss_error_not_that_many_sigs_left`, every reservation that includes the last
signature, although that many are left. There is a reason for it: the last
signature always writes, to trash the stored key, so a promise not to write
cannot include it. But `hss.h:269-270` names no other failure than "if there
aren't N more signatures available", and `test_reserve.c:134-136` says "We expect
success if we're all the signatures we are reserving are available" and computes
`(i + manual_res) <= 1024` for a key of 1024 signatures, which includes the last.
At the same time that test expects the last signature to write (`i < 1023` at
line 226). Run `KeyLast` shows the disagreement; on the library, a key of 32
signatures refuses to reserve `n` of them at count `32 - n`. The test passes
because its pseudo-random choices never ask for such a reservation.
`PromiseKept` and `ReservationsAreKept` are about what the code does promise.

**The eighth signed public key (`hss_alloc.c:546`).** `signed_pk` has
`MAX_HSS_LEVELS` entries, and `allocate_working_key` fills those from 1 to
`levels - 1`. The loops that set them to NULL and that free them run for
`i < MAX_HSS_LEVELS - 1`. A key of 8 levels, which `allocate_working_key` accepts,
leaves `signed_pk[7]` allocated after `hss_free_working_key` and after any
failure, where the comment at lines 185-187 says that "we can just free
everything". Run `AllocEight` shows it; on the library LeakSanitizer reports the
block with 8 levels, and nothing with 7. `FewerLevelsAreFreed` proves that
with fewer than 8 levels no block is lost.

## 6. What is not modelled, and the plan

Partly modelled:

- *Signing*: when a work item reports an internal error the code returns
  without switching subtrees. `HssWorkingKey` has the effect on the count,
  `HssMerkle` does not have the skipped switch. An internal error comes from
  parameter sets or lengths that do not fit, which loading has excluded.
- *Derivation of seeds*: the seed and `I` of the root tree (`hss.c:62-116`) are
  two hashes of the private key without control, and wiping memory has no
  meaning where a hash is a term.
- *Hash functions and encodings*: the lengths and parameter sets of
  `lm_common.c` and the reading of numbers are in `LmVerify` and `HssAlloc`. The
  bit-level functions have no state of their own, and the counters of calls in
  `hash.c` serve measurements only.
- *Demonstration program*: its callbacks are the storage of `HssWorkingKey`; the
  command line and the files of messages are I/O.

Not modelled: third-party hash code, the tests, the performance scripts. Error
codes are modelled where a property tells them apart (`HssAlloc`).

The plan, most important first (done: 1 to 10):

1. `OneTimeKeys`, `HssWorkingKey`, `HssWorkingKeyProofs`.
2. `WorkItems`, `HssThread`.
3. `HssSignatures`, `HssMerkle`.
4. `HssNodes`, `HssParam`, `HssAux`, `HssKeygen`, `HssLoad`.
5. `HssThreadProofs`.
6. `SignatureChecks`, `LmVerify`, `HssVerify`, `HssVerifyProofs`; `HssDerive`,
   `LmOts`, `OtsKeys`.
7. `HssAlloc`, `HssAllocProofs`.
8. `HssLoadProofs`: the tree algorithms, key generation and loading.
9. `NumberFacts`, `HssMerkleProofs`.
10. `OtsKeysProofs`.
11. The internal-error path of signing in `HssMerkle`.
12. That `GetParameterSet` inverts `Compress` for one level.
