------------------------------ MODULE HssDerive ------------------------------
(***************************************************************************)
(* The object that derives the secrets of a Merkle tree from its seed      *)
(* (hss_derive.c, hss_derive.h).  A hash is the term of its input.  The    *)
(* build has SECRET_METHOD and SECRET_MAX: the secrets are hashes of the   *)
(* seed ("hash", methods 0 and 2), or nodes of a tree that has no more than*)
(* 2^SECRET_MAX children per secret ("tree", method 1); the object keeps   *)
(* the path to the current secret.                                         *)
(***************************************************************************)
EXTENDS Integers, Sequences, FiniteSetsExt

\* The complements ~1, ~0 and ~2 as numbers: % takes the same bits of them.
SEED_CHILD_SEED == -2
SEED_CHILD_I == -1
SEED_RANDOMIZER_INDEX == -3
NUM_ARTIFICIAL_SEEDS == 3

my_log2(x) == Min({lg \in 0 .. 30 : x < 2 ^ lg})

\* my_log2 of the exclusive or.
BitsChanged(x, y) == Min({lg \in 0 .. 30 : x \div 2 ^ lg = y \div 2 ^ lg})

\* Levels of a tree with bits leaves.  The mutant rounds down.
LevelsDown(build, bits) == Max({1, bits \div build.secret_max})

Levels(build, bits) == (bits + build.secret_max - 1) \div build.secret_max

\* A secret is what was hashed on the way to it from the master seed, each input together
\* with the secret so far.
Derived(path) == <<"secret", path>>
Hashed(secret, inputs) == <<secret[1], secret[2] \o inputs>>
MasterSeed == Derived(<<>>)
NotSet == <<"not set", <<>>>>

Prg(I, q, j) == <<"prg", I, q, j % 2 ^ 16>>
QTree(I, r) == <<"qtree", I, r>>

\* The secrets of a path below top, of which the first are kept, and the other ones are
\* hashed one from another, with the inputs of their levels.
PathSecrets(top, secrets, kept, inputs) ==
  LET from == IF kept = 0 THEN top ELSE secrets[kept]
  IN  [i \in 1 .. Len(inputs) |->
         IF i <= kept THEN secrets[i] ELSE Hashed(from, SubSeq(inputs, kept + 1, i))]

\* The part of a number that a level of a path of len levels sees.
Above(build, x, len, i) == x \div 2 ^ ((len - i) * build.secret_max)

\* The q of a fresh tree is impossible, so that the first set_q computes the whole path.
\* (With "hash" q and j have no value until they are set, and no seeds are kept.)
hss_seed_derive_init(build, height, p, I, seed) ==
  LET j_height == my_log2(p + NUM_ARTIFICIAL_SEEDS)
      j_levels == Levels(build, j_height)
      q_levels == Levels(build, height)
  IN  [build |-> build, I |-> I, master_seed |-> seed, q |-> 2 ^ height, j |-> 0,
       r_mask |-> 2 ^ height, j_mask |-> 2 ^ j_height,
       q_seed |-> [i \in 1 .. q_levels |-> NotSet],
       j_seed |-> [i \in 1 .. j_levels |-> NotSet],
       j_value |-> [i \in 1 .. j_levels |-> 0]]

\* What the path has in common with the path to the last q is kept.
QPath(d, q, kept) ==
  LET inputs == [i \in 1 .. Len(d.q_seed) |->
                   QTree(d.I, Above(d.build, q + d.r_mask, Len(d.q_seed), i))]
  IN  [d EXCEPT !.q = q, !.q_seed = PathSecrets(d.master_seed, @, kept, inputs)]

\* The mutant rounds the levels that change down.
KeptTooMany(d, q) == Max({0, Len(d.q_seed) - (BitsChanged(q, d.q) \div d.build.secret_max)})

Kept(d, q) == Max({0, Len(d.q_seed) - Levels(d.build, BitsChanged(q, d.q))})

hss_seed_derive_set_q(d, q) ==
  IF d.build.method = "hash" THEN [d EXCEPT !.q = q] ELSE QPath(d, q, Kept(d, q))

\* The same for j: the root gets its seed from the bottom of the path to q.
set_j_seed(d, j_value, kept) ==
  LET inputs == [i \in 1 .. Len(j_value) |-> Prg(d.I, d.q, j_value[i])]
  IN  [d EXCEPT !.j_value = j_value,
                !.j_seed = PathSecrets(d.q_seed[Len(d.q_seed)], @, kept, inputs)]

hss_seed_derive_set_j(d, j) ==
  IF d.build.method = "hash" THEN [d EXCEPT !.j = j]
  ELSE LET len == Len(d.j_value)
           marked == (j % d.j_mask) + d.j_mask
       IN  set_j_seed(d, [i \in 1 .. len |-> Above(d.build, marked, len, i)], 0)

\* What hss_seed_derive returns, and the object after it has incremented j.
Secret(d) == IF d.build.method = "hash" THEN Hashed(d.master_seed, <<Prg(d.I, d.q, d.j)>>)
             ELSE d.j_seed[Len(d.j_seed)]

\* A level whose digit wraps carries to the level above.  The mutant forgets the carry.
IncrementedWithoutCarry(d) ==
  IF d.build.method = "hash" THEN [d EXCEPT !.j = @ + 1]
  ELSE LET len == Len(d.j_value)
       IN  set_j_seed(d, [d.j_value EXCEPT ![len] = @ + 1], len - 1)

Incremented(d) ==
  IF d.build.method = "hash" THEN [d EXCEPT !.j = @ + 1]
  ELSE LET len == Len(d.j_value)
           Wraps(i) == (d.j_value[i] + 1) % 2 ^ d.build.secret_max = 0
           top == Max({i \in 1 .. len : i = 1 \/ ~Wraps(i)})
       IN  set_j_seed(d, [i \in 1 .. len |-> IF i < top THEN d.j_value[i] ELSE d.j_value[i] + 1],
                      top - 1)

\* The seed and I of the tree below leaf q.
hss_generate_child_seed_I_value(d) ==
  LET first == hss_seed_derive_set_j(d, SEED_CHILD_SEED)
      second == Incremented(first)
  IN  [object |-> second, secrets |-> <<Secret(first), Secret(second)>>]

\* The randomizer of q.  The mutant does not set j.
randomizer_of_any_j(d) == [object |-> d, secrets |-> <<Secret(d)>>]

lm_ots_generate_randomizer(d) ==
  LET object == hss_seed_derive_set_j(d, SEED_RANDOMIZER_INDEX)
  IN  [object |-> object, secrets |-> <<Secret(object)>>]
=============================================================================
