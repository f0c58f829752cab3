-------------------------------- MODULE LmOts --------------------------------
(***************************************************************************)
(* LM-OTS keys, signatures and their validation (lm_ots_sign.c,            *)
(* lm_ots_verify.c, lm_ots_common.c), with the parameter sets of the code, *)
(* named by w.  A digest is a sequence of n bytes; a value inside a chain  *)
(* is <<"chain", secret, key, i, steps>>, its start is the secret.         *)
(***************************************************************************)
EXTENDS HssDerive

n == 32

lm_ots_look_up_parameter_set(w) ==
  CASE w = 1 -> [w |-> 1, p |-> 265, ls |-> 7]
    [] w = 2 -> [w |-> 2, p |-> 133, ls |-> 6]
    [] w = 4 -> [w |-> 4, p |-> 67, ls |-> 4]
    [] w = 8 -> [w |-> 8, p |-> 34, ls |-> 0]

max_digit(w) == 2 ^ w - 1

\* Digits are taken from the high end of a byte.
lm_ots_coef(Q, i, w) ==
  LET digits_per_byte == 8 \div w
      shift == w * (digits_per_byte - 1 - (i % digits_per_byte))
  IN  (Q[(i * w) \div 8 + 1] \div 2 ^ shift) % 2 ^ w

\* The sum of the first numbers of a function on 0 .. m - 1.
SumOf(numbers, m) ==
  LET sum[k \in 0 .. m] == IF k = 0 THEN 0 ELSE sum[k - 1] + numbers[k - 1]
  IN  sum[m]

\* The mutant sums the digits instead of what they leave to the maximum.
checksum_of_digits(Q, w, ls) ==
  LET u == (8 * n) \div w
  IN  SumOf([i \in 0 .. u - 1 |-> lm_ots_coef(Q, i, w)], u) * 2 ^ ls

lm_ots_compute_checksum(Q, w, ls) ==
  LET u == (8 * n) \div w
  IN  SumOf([i \in 0 .. u - 1 |-> max_digit(w) - lm_ots_coef(Q, i, w)], u) * 2 ^ ls

\* The digits that are signed: those of the digest and of its checksum in 16 bits.
Digits(Q, param) ==
  LET sum == lm_ots_compute_checksum(Q, param.w, param.ls)
      whole == Q \o << (sum \div 256) % 256, sum % 256 >>
  IN  [i \in 1 .. param.p |-> lm_ots_coef(whole, i - 1, param.w)]

\* Hashing on in chain i from one step to another.  Who starts at the wrong place gets
\* something else.
Walk(value, key, i, from, to) ==
  IF from = to THEN value
  ELSE IF from = 0 THEN <<"chain", value, key, i, to>>
  ELSE IF value[1] = "chain" /\ <<value[3], value[4], value[5]>> = <<key, i, from>>
       THEN <<"chain", value[2], key, i, to>>
       ELSE <<"lost", value, key, i, from, to>>

\* The secrets of p chains, the first one the secret of first; after the last one j is not
\* incremented.
SecretsFrom(first, p) ==
  LET after[i \in 1 .. p] ==
        IF i = 1 THEN [secrets |-> <<Secret(first)>>, object |-> first]
        ELSE LET before == after[i - 1]
                 object == Incremented(before.object)
             IN  [secrets |-> Append(before.secrets, Secret(object)), object |-> object]
  IN  after[p]

\* The mutant goes on from the last j.
ChainSecretsFromHere(d, p) == SecretsFrom(d, p)

ChainSecrets(d, p) == SecretsFrom(hss_seed_derive_set_j(d, 0), p)

KeyOf(I, q, ends) == <<"key", I, q, ends>>

\* Both functions are given an object whose q is set.
lm_ots_generate_public_key(w, d) ==
  LET param == lm_ots_look_up_parameter_set(w)
      starts == ChainSecrets(d, param.p)
  IN  [object |-> starts.object,
       key |-> KeyOf(d.I, d.q, [i \in 1 .. param.p |->
                 Walk(starts.secrets[i], <<d.I, d.q>>, i, 0, max_digit(w))])]

\* With a message that is hashed already the caller has put C into the signature; else
\* the randomizer is derived first.
Signature(w, d, C, Q) ==
  LET param == lm_ots_look_up_parameter_set(w)
      starts == ChainSecrets(d, param.p)
      digits == Digits(Q, param)
  IN  [object |-> starts.object,
       signature |-> [type |-> w, C |-> C, y |->
         [i \in 1 .. param.p |-> Walk(starts.secrets[i], <<d.I, d.q>>, i, 0, digits[i])]]]

lm_ots_validate_signature_compute(w, I, q, Q, signature) ==
  LET param == lm_ots_look_up_parameter_set(w)
      digits == Digits(Q, param)
  IN  KeyOf(I, q, [i \in 1 .. param.p |->
            Walk(signature.y[i], <<I, q>>, i, digits[i], max_digit(w))])
=============================================================================
