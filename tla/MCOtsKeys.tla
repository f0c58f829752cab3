------------------------------ MODULE MCOtsKeys ------------------------------
(***************************************************************************)
(* Trees of 2, 4 and 8 leaves in builds with both methods, with paths of   *)
(* one to six levels, and three digests: an arbitrary one, one that differs*)
(* from it in the last digit only, and the one with the highest checksum.  *)
(***************************************************************************)
EXTENDS OtsKeys

B(method, secret_max, height, w) ==
  [method |-> method, secret_max |-> secret_max, height |-> height, w |-> w]

AllBuilds == {B("hash", 4, 2, 8), B("tree", 2, 3, 8), B("tree", 1, 2, 8), B("tree", 3, 1, 4),
              B("tree", 4, 1, 4)}

Three == {"any", "less", "zeros"}

Bytes(q, message) ==
  LET any == [k \in 1 .. 32 |-> (73 * k + 29 * q + 6) % 256]
  IN  CASE message = "any" -> any
        [] message = "less" -> [k \in 1 .. 32 |-> IF k = 32 THEN any[k] - 1 ELSE any[k]]
        [] message = "zeros" -> [k \in 1 .. 32 |-> 0]
=============================================================================
