------------------------------- MODULE LmVerify -------------------------------
(***************************************************************************)
(* LMS public keys and signatures and their validation (lm_verify.c,       *)
(* lm_common.c).  A key or a signature is a sequence of words; a word is a *)
(* number or a hash, and a hash is the term that it was computed from.  An *)
(* LM-OTS signature's y is one word, the module LmOts has its digits.      *)
(*   public key:  LMS type, LM-OTS type, I, root                           *)
(*   signature:   q, LM-OTS type, C, y, LMS type, authentication path      *)
(***************************************************************************)
EXTENDS Integers, Sequences

CONSTANTS LmHeight,   \* the height of the tree of every LMS type
          OtsTypes    \* the LM-OTS types

ASSUME HeightAssumption == \A lm_type \in DOMAIN LmHeight : LmHeight[lm_type] \in 0 .. 25

Num(n) == <<"num", n>>

\* get_bigendian: a hash is no small number and no type.
Value(word) == IF word[1] = "num" THEN word[2] ELSE 2 ^ 30

Digest(I, q, C, message) == <<"mesg", I, q, C, message>>
OtsSignature(I, q, digest) == <<"ots", I, q, digest>>
OtsKey(I, q) == <<"key", I, q>>
LeafHash(I, r, key) == <<"leaf", I, r, key>>
NodeHash(I, r, left, right) == <<"node", I, r, left, right>>

lm_get_public_key_len(lm_type) == IF lm_type \in DOMAIN LmHeight THEN 4 ELSE 0

lm_get_signature_len(lm_type, lm_ots_type) ==
  IF lm_type \in DOMAIN LmHeight /\ lm_ots_type \in OtsTypes THEN 5 + LmHeight[lm_type] ELSE 0

\* The chains end in the one-time public key only if they start from the signature of
\* this digest.
lm_ots_validate_signature_compute(I, q, digest, y) ==
  IF y = OtsSignature(I, q, digest) THEN OtsKey(I, q) ELSE <<"wrong key", I, q, digest, y>>

\* The root that a leaf and its authentication path lead to.
Root(I, leaf, hash, path) ==
  LET node[level \in 0 .. Len(path)] ==
        IF level = 0
        THEN [r |-> leaf, hash |-> hash]
        ELSE LET below == node[level - 1]
                 r == below.r \div 2
             IN  [r |-> r,
                  hash |-> IF below.r % 2 = 1 THEN NodeHash(I, r, path[level], below.hash)
                                              ELSE NodeHash(I, r, below.hash, path[level])]
  IN  node[Len(path)].hash

\* The digest that the LM-OTS signature inside an LMS signature should be of.
Digested(public_key, message, prehashed, signature) ==
  IF prehashed THEN message
  ELSE Digest(public_key[3], Num(Value(signature[1])), signature[3], message)

\* Types that agree, an index inside the tree, and exactly the words they call for.
WellFormed(public_key, signature) ==
  LET lm_type == Value(public_key[1]) ots_type == Value(public_key[2])
  IN  /\ lm_type \in DOMAIN LmHeight
      /\ ots_type \in OtsTypes
      /\ Len(signature) = 5 + LmHeight[lm_type]
      /\ Value(signature[2]) = ots_type
      /\ Value(signature[5]) = lm_type
      /\ Value(signature[1]) < 2 ^ LmHeight[lm_type]

lm_validate_signature(public_key, message, prehashed, signature) ==
  /\ WellFormed(public_key, signature)
  /\ LET I == public_key[3]
         q == Value(signature[1])
         height == LmHeight[Value(public_key[1])]
         key == lm_ots_validate_signature_compute(
                  I, Num(q), Digested(public_key, message, prehashed, signature), signature[4])
     IN  public_key[4] = Root(I, q + 2 ^ height, LeafHash(I, q + 2 ^ height, key),
                              SubSeq(signature, 6, 5 + height))
=============================================================================
