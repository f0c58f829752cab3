------------------------------- MODULE HssParam -------------------------------
(***************************************************************************)
(* The parameter sets of the levels as a private key stores them.  A level *)
(* takes two bytes; the field has room for PARAM_SET_COMPRESS_LEN (one)    *)
(* byte for each of MAX_HSS_LEVELS levels.  An LMS type is written as the  *)
(* height of its tree, an LM-OTS type as its Winternitz width.             *)
(***************************************************************************)
EXTENDS Integers, Sequences, FiniteSetsExt

MaxLevels == 8               \* MAX_HSS_LEVELS
FieldLen == 1 * MaxLevels    \* PRIVATE_KEY_PARAM_SET_LEN
End == 255                   \* PARM_SET_END
LmTypes == {5, 10, 15, 20, 25}
OtsTypes == {1, 2, 4, 8}

Fits(p) == 2 * Len(p) <= FieldLen

\* What hss_generate_private_key and hss_compress_param_set accept.
CanCompress(p) ==
  /\ Len(p) \in 1 .. MaxLevels
  /\ Fits(p)
  /\ \A i \in DOMAIN p : p[i].lm \in LmTypes /\ p[i].ots \in OtsTypes

\* hss_compress_param_set
Compress(p) ==
  [x \in 0 .. FieldLen - 1 |->
     IF x \div 2 >= Len(p) THEN End
     ELSE IF x % 2 = 0 THEN p[x \div 2 + 1].lm ELSE p[x \div 2 + 1].ots]

BlankField == [x \in 0 .. FieldLen - 1 |-> 0]     \* a key that was zeroised

\* hss_get_parameter_set reads two bytes for each of up to MAX_HSS_LEVELS levels.  Only
\* the field is read from storage; beyond it the local buffer is uninitialised.
Rejected == <<>>
GetParameterSet(field, beyond) ==
  LET byte(x) == IF x < FieldLen THEN field[x] ELSE beyond[x % 2]
      levels == Min({l \in 0 .. MaxLevels : l = MaxLevels \/ byte(2 * l) = End})
  IN  IF /\ levels >= 1
         /\ \A l \in 0 .. levels - 1 :
              byte(2 * l) \in LmTypes /\ byte(2 * l + 1) \in OtsTypes
         /\ \A x \in levels + 1 .. MaxLevels - 1 : byte(x) = End
      THEN [l \in 1 .. levels |-> [lm |-> byte(2 * l - 2), ots |-> byte(2 * l - 1)]]
      ELSE Rejected
=============================================================================
