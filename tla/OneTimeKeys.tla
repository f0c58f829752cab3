----------------------------- MODULE OneTimeKeys -----------------------------
(***************************************************************************)
(* What the signer promises the outside world.  Every one-time (LM-OTS)    *)
(* key of the hierarchy is named by its sequence number.  A number is given*)
(* out once, to a signature or to an incremental context, and always beyond*)
(* every number given out before: it is never offered again, not even when *)
(* its context comes to nothing.  A context signs with its own number, at  *)
(* most once.                                                              *)
(***************************************************************************)
EXTENDS Naturals

CONSTANTS
  Indices,     \* the sequence numbers of a private key
  Ctxs         \* the incremental signing contexts

VARIABLES
  uses,        \* how many messages each one-time key has signed
  pending,     \* the number each context is going to sign with, if any
  gone         \* the numbers below it are not given out any more

vars == <<uses, pending, gone>>

Init ==
  /\ uses = [i \in Indices |-> 0]
  /\ pending = [c \in Ctxs |-> {}]
  /\ gone = 0

\* The number i leaves the key; the numbers passed over are lost.
GiveOut(i) == gone <= i /\ gone' = i + 1

Sign(i) ==
  /\ GiveOut(i)
  /\ uses' = [uses EXCEPT ![i] = @ + 1]
  /\ UNCHANGED pending

\* The context may still hold the number of an earlier signature, which is lost.
Hold(c, i) ==
  /\ GiveOut(i)
  /\ pending' = [pending EXCEPT ![c] = {i}]
  /\ UNCHANGED uses

\* The context signs or fails; either way it is spent.
Finish(c) ==
  /\ \E i \in pending[c], n \in {0, 1} : uses' = [uses EXCEPT ![i] = @ + n]
  /\ pending' = [pending EXCEPT ![c] = {}]
  /\ UNCHANGED gone

\* Contexts that are abandoned, or lost in a crash.
Lose(lost) ==
  /\ pending' = [c \in Ctxs |-> IF c \in lost THEN {} ELSE pending[c]]
  /\ UNCHANGED <<uses, gone>>

Next ==
  \/ \E i \in Indices : Sign(i) \/ \E c \in Ctxs : Hold(c, i)
  \/ \E c \in Ctxs : Finish(c)
  \/ \E lost \in SUBSET Ctxs : Lose(lost)

Spec == Init /\ [][Next]_vars
=============================================================================
