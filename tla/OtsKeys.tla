------------------------------- MODULE OtsKeys -------------------------------
(***************************************************************************)
(* One-time keys and signatures that are made with derivation objects.     *)
(* hss_compute_internal_node takes one object through many leaves, signing *)
(* uses a new one: hss_generate_signature for a whole message,             *)
(* hss_sign_init and hss_sign_finalize for one that arrives in pieces.     *)
(***************************************************************************)
EXTENDS LmOts

CONSTANTS Builds,        \* records of a SECRET_METHOD, a SECRET_MAX, the height of the
                         \* tree and the w of its LM-OTS type
          Messages,
          Digest(_, _),  \* the n bytes that the hash of a message at q has
          MaxMade        \* bound: the results that are kept

\* hss_derive.h:8 and the parameter sets: the trees of the library have 5 to 25 levels.
ASSUME BuildsAreBuilds ==
  \A b \in Builds : /\ b.method \in {"hash", "tree"}
                    /\ b.secret_max \in 1 .. 31
                    /\ b.height \in 1 .. 25
                    /\ b.w \in {1, 2, 4, 8}

\* A hash has n bytes; no two messages that are signed have the same hash.
ASSUME DigestsAreBytes ==
  \A b \in Builds, message \in Messages :
    \A q \in 0 .. 2 ^ b.height - 1 : Digest(q, message) \in [1 .. n -> 0 .. 255]

ASSUME DigestsDiffer ==
  \A b \in Builds, m1, m2 \in Messages :
    \A q \in 0 .. 2 ^ b.height - 1 : Digest(q, m1) = Digest(q, m2) => m1 = m2

ASSUME MaxMadeAssumption == MaxMade \in Nat

VARIABLES build,         \* how the library was built, and the parameters of the key
          derive,        \* the derivation object
          leaves_left,   \* that hss_compute_internal_node has still to do with it
          made           \* the last results: keys, signatures, randomizers, child seeds

vars == <<build, derive, leaves_left, made>>

Leaves == 0 .. 2 ^ build.height - 1

param == lm_ots_look_up_parameter_set(build.w)

NewObject(b) == hss_seed_derive_init(b, b.height, lm_ots_look_up_parameter_set(b.w).p,
                                     "I", MasterSeed)

At(q) == hss_seed_derive_set_q(NewObject(build), q)

Init == /\ build \in Builds
        /\ derive = NewObject(build)
        /\ leaves_left = 0
        /\ made = <<>>

Remember(result) ==
  /\ Len(made) < MaxMade
  /\ made' = Append(made, result)

KeyFrom(leaf, q) == [kind |-> "key", q |-> q, value |-> leaf.key]

\* A node that is height levels above the leaves, the first of which is q.
ComputeNode(q, height) ==
  LET leaf == lm_ots_generate_public_key(build.w, At(q))
  IN  /\ leaves_left = 0
      /\ q % 2 ^ height = 0
      /\ leaves_left' = 2 ^ height - 1
      /\ derive' = leaf.object
      /\ Remember(KeyFrom(leaf, q))
      /\ UNCHANGED build

\* The key of the next leaf takes the place of the one before.
NextLeaf ==
  LET q == derive.q + 1
      leaf == lm_ots_generate_public_key(build.w, hss_seed_derive_set_q(derive, q))
  IN  /\ leaves_left > 0
      /\ leaves_left' = leaves_left - 1
      /\ derive' = leaf.object
      /\ made' = [made EXCEPT ![Len(made)] = KeyFrom(leaf, q)]
      /\ UNCHANGED build

\* A function that makes an object for one leaf only.
ForLeaf(result) ==
  /\ leaves_left = 0
  /\ derive' = result.object
  /\ UNCHANGED <<build, leaves_left>>

\* generate_merkle_signature.
SignWhole(q, message) ==
  LET drawn == lm_ots_generate_randomizer(At(q))
      signed == Signature(build.w, drawn.object, drawn.secrets[1], Digest(q, message))
  IN  /\ ForLeaf(signed)
      /\ Remember([kind |-> "signature", q |-> q, message |-> message,
                   value |-> signed.signature])

\* hss_sign_init draws C, with which the hash of the message begins.
SignInit(q) ==
  LET drawn == lm_ots_generate_randomizer(At(q))
  IN  /\ ForLeaf(drawn)
      /\ Remember([kind |-> "randomizer", q |-> q, secrets |-> drawn.secrets])

SignFinalize(k, message) ==
  LET q == made[k].q
      signed == Signature(build.w, At(q), made[k].secrets[1], Digest(q, message))
  IN  /\ made[k].kind = "randomizer"
      /\ ForLeaf(signed)
      /\ Remember([kind |-> "signature", q |-> q, message |-> message,
                   value |-> signed.signature])

ChildSeed(q) ==
  LET child == hss_generate_child_seed_I_value(At(q))
  IN  /\ ForLeaf(child)
      /\ Remember([kind |-> "child", q |-> q, secrets |-> child.secrets])

\* The results are not needed any more.
Forget ==
  /\ leaves_left = 0 /\ made # <<>>
  /\ made' = <<>>
  /\ derive' = NewObject(build)
  /\ UNCHANGED <<build, leaves_left>>

Next == \/ \E q \in Leaves : \/ \E height \in 0 .. build.height : ComputeNode(q, height)
                             \/ \E message \in Messages : SignWhole(q, message)
                             \/ SignInit(q)
                             \/ ChildSeed(q)
        \/ NextLeaf
        \/ Forget
        \/ \E k \in 1 .. Len(made), message \in Messages : SignFinalize(k, message)

Spec == Init /\ [][Next]_vars

-----------------------------------------------------------------------------
(* The object is at a leaf or fresh, and its path of j values is a path.     *)
TypeOK ==
  /\ build \in Builds
  /\ derive.q \in 0 .. 2 ^ build.height
  /\ leaves_left \in 0 .. 2 ^ build.height - 1
  /\ Len(made) <= MaxMade
  /\ build.method = "tree" =>
       \A i \in 2 .. Len(derive.j_value) :
         derive.j_value[i - 1] = derive.j_value[i] \div 2 ^ build.secret_max

(* What was made does not depend on what the object was used for before, nor *)
(* on whether the message came at once: a key that was loaded again, or a     *)
(* tree that is signed again, gives the same keys and signatures.            *)
HistoryForgotten ==
  \A k \in 1 .. Len(made) :
    LET new == At(made[k].q) drawn == lm_ots_generate_randomizer(new)
    IN  CASE made[k].kind = "key" -> made[k].value = lm_ots_generate_public_key(build.w, new).key
          [] made[k].kind = "signature" ->
               made[k].value = Signature(build.w, drawn.object, drawn.secrets[1],
                                         Digest(made[k].q, made[k].message)).signature
          [] made[k].kind = "randomizer" -> made[k].secrets = drawn.secrets
          [] made[k].kind = "child" -> made[k].secrets = hss_generate_child_seed_I_value(new).secrets

\* The secrets in a result, with what they are for.
ChainStart(value) == IF value[1] = "chain" THEN value[2] ELSE value

SecretsIn(result) ==
  LET use(j, secret) == [q |-> result.q, j |-> j, secret |-> secret]
  IN  CASE result.kind = "key" -> {use(i, ChainStart(result.value[4][i])) : i \in 1 .. param.p}
        [] result.kind = "signature" ->
             {use(i, ChainStart(result.value.y[i])) : i \in 1 .. param.p}
             \cup {use(SEED_RANDOMIZER_INDEX, result.value.C)}
        [] result.kind = "randomizer" -> {use(SEED_RANDOMIZER_INDEX, result.secrets[1])}
        [] result.kind = "child" -> {use(SEED_CHILD_SEED, result.secrets[1]),
                                     use(SEED_CHILD_I, result.secrets[2])}

SecretsMade == UNION {SecretsIn(made[k]) : k \in 1 .. Len(made)}

(* No secret serves two purposes, in one leaf or in two.                     *)
SecretsApart == \A s, t \in SecretsMade : s.secret = t.secret => s = t

\* The hashes on the way to the secrets: what is hashed together with which secret.
Hashes ==
  UNION {{[secret |-> SubSeq(s.secret[2], 1, k - 1), input |-> s.secret[2][k]] :
            k \in 1 .. Len(s.secret[2])} : s \in SecretsMade}

\* The last part of an input: r or j.
LowBits(input) == input[Len(input)] % 2 ^ build.secret_max

(* config.h: with the tree method no secret is hashed with more than         *)
(* 2^SECRET_MAX inputs: two with the same low bits are the same hash.        *)
SeldomUsed ==
  build.method = "tree" =>
    \A g, h \in Hashes : g.secret = h.secret /\ LowBits(g.input) = LowBits(h.input) => g = h

Validates(key, signature, message) ==
  lm_ots_validate_signature_compute(build.w, "I", key.q, Digest(signature.q, message),
                                    signature.value) = key.value

(* A signature leads to the one-time key of its leaf, however both were made, *)
(* and only with the message that was signed.                                 *)
SignaturesVerify ==
  \A k, s \in 1 .. Len(made) :
    made[k].kind = "key" /\ made[s].kind = "signature" =>
      \A message \in Messages :
        Validates(made[k], made[s], message) <=> made[k].q = made[s].q /\ message = made[s].message

(* The chain values that a signature shows do not reach the signature of any *)
(* other digest: one of its digits is lower.                                 *)
OneMessageOnly ==
  \A s \in 1 .. Len(made) :
    made[s].kind = "signature" =>
      \A message \in Messages \ {made[s].message} :
        LET digits == Digits(Digest(made[s].q, message), param)
        IN  \E i \in 1 .. param.p : /\ made[s].value.y[i][1] = "chain"
                                     /\ made[s].value.y[i][5] > digits[i]
=============================================================================
