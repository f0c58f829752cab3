--------------------------- MODULE HssVerifyProofs ---------------------------
(***************************************************************************)
(* Proofs about HssVerify for every number of levels, every choice of LMS  *)
(* heights and types, and whatever is presented to the verifier.           *)
(*                                                                         *)
(* The invariant says what the work items issued so far are: the beginning *)
(* of a chain that starts at the public key of the call and has reached the*)
(* point at which the walk stands; and that got_error covers the items that*)
(* were performed.  For the refinement of SignatureChecks it is extended   *)
(* (WInv): the items are the ones that the words of the signature call for,*)
(* a failed walk leaves no signature that checks out, and a context stands *)
(* for the last signature of a chain.                                      *)
(***************************************************************************)
EXTENDS HssVerify, NumberFacts, SequenceTheorems, TLAPS

Entries(s) == {s[k] : k \in 1 .. Len(s)}

Typing ==
  /\ pc \in {"idle", "levels", "done"}
  /\ function \in {"none", "validate", "init"}
  /\ at \in Nat
  /\ issued \in Seq(Entries(issued))
  /\ checked \subseteq 1 .. Len(issued)
  /\ got_error \in BOOLEAN /\ failed \in BOOLEAN
  /\ ctx.status \in Statuses
  /\ answer.ok \in BOOLEAN
  /\ given \in Applications

\* Where the walk is.
Position ==
  /\ pc = "idle" <=> function = "none"
  /\ pc = "idle" => issued = <<>> /\ checked = {}
  /\ pc # "idle" => /\ LevelsAgree(args.x)
                    /\ Len(args.x.signature) \in Nat
                    /\ Len(issued) <= levels
  /\ pc = "levels" => ~failed /\ Len(issued) <= levels - 1
  /\ pc = "done" /\ ~failed /\ function = "validate" => Len(issued) = levels

End(d) == d.at + d.signature_len

\* Every item but the first has the key that the item before it is about.
Linked(chain) ==
  \A k \in 1 .. Len(chain) :
    /\ chain[k].signature = SubSeq(args.x.signature, chain[k].at + 1, End(chain[k]))
    /\ k = 1 => chain[k].public_key = KeyOf(args.x) /\ chain[k].at = 1
    /\ k < Len(chain) =>
         /\ chain[k + 1].public_key = chain[k].message
         /\ chain[k].message = SubSeq(args.x.signature, End(chain[k]) + 1, chain[k + 1].at)

\* The next item will be linked to the last one, and the last one of all is about the
\* message and ends the signature.
Tip ==
  /\ pc = "levels" /\ Len(issued) = 0 => public_key = KeyOf(args.x) /\ at = 1
  /\ pc = "levels" /\ Len(issued) > 0 =>
       LET last == issued[Len(issued)]
       IN  /\ public_key = last.message
           /\ last.message = SubSeq(args.x.signature, End(last) + 1, at)
  /\ pc = "done" /\ ~failed /\ function = "validate" =>
       LET last == issued[Len(issued)]
       IN  last.message = args.message /\ End(last) = Len(args.x.signature)

Reported == ~got_error => \A k \in checked : Valid(issued[k])

IInv == Typing /\ Position /\ (pc # "idle" => Linked(issued)) /\ Tip /\ Reported

-----------------------------------------------------------------------------
(* Sequences of anything.                                                  *)

\* The list that is empty.
LEMMA EmptyEntries == <<>> \in Seq(Entries(<<>>)) /\ Len(<<>>) = 0
  BY DEF Entries

\* The range of a function is where its values are.
LEMMA NarrowRange ==
  ASSUME NEW D, NEW T, NEW E, NEW f \in [D -> T], \A k \in D : f[k] \in E
  PROVE  f \in [D -> E]
  OBVIOUS

\* A function on an interval from 1 is a sequence.
LEMMA FunctionIsSequence ==
  ASSUME NEW S, NEW n \in Nat, NEW f \in [1 .. n -> S]
  PROVE  f \in Seq(S)
  BY SeqDef

\* A list with one more entry.
LEMMA AppendEntry ==
  ASSUME NEW s, s \in Seq(Entries(s)), NEW e
  PROVE  /\ Len(s) \in Nat
         /\ Len(Append(s, e)) = Len(s) + 1
         /\ Append(s, e)[Len(s) + 1] = e
         /\ \A k \in 1 .. Len(s) : Append(s, e)[k] = s[k]
         /\ Append(s, e) \in Seq(Entries(Append(s, e)))
  <1> DEFINE T == Entries(s) \cup {e}
             t == Append(s, e)
  <1>1. s \in Seq(T) /\ e \in T
    OBVIOUS
  <1>2. /\ t \in Seq(T) /\ Len(t) = Len(s) + 1 /\ Len(s) \in Nat
        /\ t[Len(s) + 1] = e /\ \A k \in 1 .. Len(s) : t[k] = s[k]
    BY <1>1
  <1>3. t \in [1 .. Len(t) -> Entries(t)]
    <2>1. t \in [1 .. Len(t) -> T]
      BY <1>2, LenProperties
    <2>2. \A k \in 1 .. Len(t) : t[k] \in Entries(t)
      BY DEF Entries
    <2> QED
      BY <2>1, <2>2, NarrowRange
  <1>4. t \in Seq(Entries(t))
    <2>1. Len(t) \in Nat
      BY <1>2
    <2> QED
      BY <1>3, <2>1, FunctionIsSequence
  <1> QED
    BY <1>2, <1>4

\* The lengths that the types stand for are numbers.
LEMMA LengthsAreNumbers ==
  ASSUME NEW lm, NEW ots
  PROVE  lm_get_signature_len(lm, ots) \in Nat /\ lm_get_public_key_len(lm) \in Nat
  BY HeightAssumption DEF lm_get_signature_len, lm_get_public_key_len

\* A signature is valid or not.
LEMMA VerdictsAreBoolean ==
  ASSUME NEW key, NEW message, NEW prehashed, NEW sig
  PROVE  lm_validate_signature(key, message, prehashed, sig) \in BOOLEAN
  BY DEF lm_validate_signature, WellFormed

-----------------------------------------------------------------------------
\* The invariant holds at the beginning.
LEMMA InitEstablishes == Init => IInv
  <1> SUFFICES ASSUME Init PROVE IInv
    OBVIOUS
  <1>1. Typing
    BY EmptyEntries DEF Init, Typing, NoAnswer, Unused, Statuses
  <1>2. Position /\ Tip /\ Reported /\ pc = "idle"
    BY DEF Init, Position, Tip, Reported
  <1> QED
    BY <1>1, <1>2 DEF IInv

\* A call starts at the public key, with no items.
LEMMA StartPreserves ==
  ASSUME IInv, NEW x \in given, NEW message, NEW f \in {"validate", "init"}, LevelsAgree(x),
         Start(f, x, message), ctx'.status \in Statuses, given' = given
  PROVE  IInv'
  <1>1. Len(x.signature) \in Nat
    BY VerifyAssumption DEF IInv, Typing
  <1>2. args'.x = x
    BY DEF Start
  <1>3. Typing'
    BY EmptyEntries DEF IInv, Typing, Start, NoAnswer
  <1>4. Value(x.signature[1]) + 1 \in 1 .. MaxLevels
    BY DEF LevelsAgree
  <1>5. Position'
    BY <1>1, <1>2, <1>4, EmptyEntries DEF Position, Start, LevelsAgree, levels
  <1>6. Linked(issued)' /\ Tip' /\ Reported'
    BY <1>2, EmptyEntries DEF Linked, Tip, Reported, Start
  <1> QED
    BY <1>3, <1>5, <1>6 DEF IInv

\* A call that returns leaves no item behind.
LEMMA ReturnPreserves ==
  ASSUME Return, given' \in Applications, ctx'.status \in Statuses, answer'.ok \in BOOLEAN
  PROVE  IInv'
  BY EmptyEntries DEF Return, IInv, Typing, Position, Tip, Reported

\* Steps that only concern the context and the answer.
LEMMA IdlePreserves ==
  ASSUME IInv, UNCHANGED <<given, pc, walk>>, ctx'.status \in Statuses, answer'.ok \in BOOLEAN
  PROVE  IInv'
  BY DEF IInv, Typing, Position, Linked, Tip, Reported, walk, levels, LevelsAgree, Valid, End, KeyOf

\* The item of an upper level leads from the public key above to the one it signs.
LEMMA NextLevelPreserves == IInv /\ NextLevel => IInv'
  <1> SUFFICES ASSUME IInv, NextLevel PROVE IInv'
    OBVIOUS
  <1> DEFINE l_pubkey == SubSeq(args.x.signature, at + l_siglen + 1, at + l_siglen + l_pubkeylen)
             d == [public_key |-> public_key, message |-> l_pubkey,
                   at |-> at, signature_len |-> l_siglen,
                   signature |-> SubSeq(args.x.signature, at + 1, at + l_siglen)]
             n == Len(issued)
  <1>1. /\ issued' = Append(issued, d)
        /\ public_key' = l_pubkey /\ at' = at + l_siglen + l_pubkeylen
        /\ UNCHANGED <<given, pc, function, args, checked, got_error, failed, ctx, answer>>
        /\ pc = "levels" /\ n < levels - 1
    BY DEF NextLevel, Issue, InLoop
  <1>d. /\ d.public_key = public_key /\ d.message = l_pubkey /\ d.at = at
        /\ End(d) = at + l_siglen
        /\ d.signature = SubSeq(args.x.signature, at + 1, at + l_siglen)
    BY DEF End
  <1>p. l_pubkey = SubSeq(args.x.signature, at + l_siglen + 1, at + l_siglen + l_pubkeylen)
    OBVIOUS
  <1>2. l_siglen \in Nat /\ l_pubkeylen \in Nat
    BY LengthsAreNumbers DEF l_siglen, l_pubkeylen
  <1> HIDE DEF d, l_pubkey
  <1>3. /\ n \in Nat /\ Len(issued') = n + 1 /\ issued'[n + 1] = d
        /\ \A k \in 1 .. n : issued'[k] = issued[k]
        /\ issued' \in Seq(Entries(issued'))
    BY <1>1, AppendEntry DEF IInv, Typing
  <1>4. Typing'
    BY <1>1, <1>2, <1>3 DEF IInv, Typing
  <1>5. levels' = levels /\ levels \in Nat
    <2>1. LevelsAgree(args.x)
      BY <1>1 DEF IInv, Position
    <2>2. args' = args
      BY <1>1
    <2>3. Value(args.x.signature[1]) + 1 \in 1 .. MaxLevels
      BY <2>1 DEF LevelsAgree
    <2>4. levels \in Nat
      BY <2>3, VerifyAssumption DEF levels
    <2> QED
      BY <2>2, <2>4 DEF levels
  <1>6. Position'
    BY <1>1, <1>3, <1>5 DEF IInv, Position, LevelsAgree
  <1>7. Linked(issued)'
    <2> SUFFICES ASSUME NEW k \in 1 .. n + 1
                 PROVE  /\ issued'[k].signature = SubSeq(args.x.signature, issued'[k].at + 1, End(issued'[k]))
                        /\ k = 1 => issued'[k].public_key = KeyOf(args.x) /\ issued'[k].at = 1
                        /\ k < n + 1 =>
                             /\ issued'[k + 1].public_key = issued'[k].message
                             /\ issued'[k].message = SubSeq(args.x.signature, End(issued'[k]) + 1, issued'[k + 1].at)
      BY <1>1, <1>3 DEF Linked, End, KeyOf
    <2>1. CASE k = n + 1
      <3>1. n = 0 => public_key = KeyOf(args.x) /\ at = 1
        BY <1>1 DEF IInv, Tip
      <3> QED
        BY <1>3, <1>d, <2>1, <3>1
    <2>2. CASE k = n
      <3>1. /\ public_key = issued[n].message
            /\ issued[n].message = SubSeq(args.x.signature, End(issued[n]) + 1, at)
        BY <1>1, <1>3, <2>2 DEF IInv, Tip
      <3>2. /\ issued[n].signature = SubSeq(args.x.signature, issued[n].at + 1, End(issued[n]))
            /\ n = 1 => issued[n].public_key = KeyOf(args.x) /\ issued[n].at = 1
        BY <1>1, <1>3, <2>2 DEF IInv, Linked
      <3>3. issued'[k] = issued[n] /\ issued'[k + 1] = d /\ ~(n + 1 < n + 1)
        BY <1>3, <2>2
      <3> QED
        BY <1>d, <2>2, <3>1, <3>2, <3>3
    <2>3. CASE k < n
      <3>1. k \in 1 .. n /\ k + 1 \in 1 .. n
        BY <1>3, <2>3
      <3>2. issued'[k] = issued[k] /\ issued'[k + 1] = issued[k + 1]
        BY <1>3, <3>1
      <3> QED
        BY <1>1, <1>3, <2>3, <3>1, <3>2 DEF IInv, Linked
    <2> QED
      BY <1>3, <2>1, <2>2, <2>3
  <1>8. Tip'
    BY <1>1, <1>3, <1>d, <1>p DEF Tip
  <1>9. Reported'
    BY <1>1, <1>3 DEF IInv, Typing, Reported, Valid
  <1> QED
    BY <1>4, <1>6, <1>7, <1>8, <1>9 DEF IInv

\* The item of the last level leads on to the message.
LEMMA BottomPreserves == IInv /\ Bottom => IInv'
  <1> SUFFICES ASSUME IInv, Bottom PROVE IInv'
    OBVIOUS
  <1> DEFINE n == Len(issued)
             d == [public_key |-> public_key, message |-> args.message,
                   at |-> at, signature_len |-> signature_len,
                   signature |-> SubSeq(args.x.signature, at + 1, at + signature_len)]
  <1>1. /\ UNCHANGED <<given, function, args, public_key, at, checked, got_error, failed, ctx, answer>>
        /\ pc = "levels" /\ n = levels - 1 /\ pc' = "done" /\ ~failed
    BY DEF Bottom, IInv, Position
  <1>2. CASE function = "init" /\ UNCHANGED issued
    <2>1. Typing' /\ Position'
      BY <1>1, <1>2 DEF IInv, Typing, Position, levels, LevelsAgree
    <2>2. Linked(issued)' /\ Tip' /\ Reported'
      BY <1>1, <1>2 DEF IInv, Linked, Tip, Reported, Valid, End, KeyOf
    <2> QED
      BY <2>1, <2>2 DEF IInv
  <1>3. CASE function = "validate" /\ issued' = Append(issued, d)
    <2>1. /\ d.public_key = public_key /\ d.message = args.message /\ d.at = at
          /\ End(d) = at + signature_len
          /\ d.signature = SubSeq(args.x.signature, at + 1, at + signature_len)
      BY DEF End
    <2>2. /\ n \in Nat /\ Len(issued') = n + 1 /\ issued'[n + 1] = d
          /\ \A k \in 1 .. n : issued'[k] = issued[k]
          /\ issued' \in Seq(Entries(issued'))
      BY <1>3, AppendEntry DEF IInv, Typing
    <2>3. at + signature_len = Len(args.x.signature)
      BY <1>1 DEF signature_len, IInv, Typing, Position
    <2> HIDE DEF d
    <2>4. Typing'
      BY <1>1, <2>2 DEF IInv, Typing
    <2>5. levels' = levels /\ n + 1 = levels
      BY <1>1, <2>2 DEF levels, IInv, Position, LevelsAgree
    <2>6. Position'
      BY <1>1, <2>2, <2>5 DEF IInv, Position, LevelsAgree
    <2>7. Linked(issued)'
      <3> SUFFICES ASSUME NEW k \in 1 .. n + 1
                   PROVE  /\ issued'[k].signature = SubSeq(args.x.signature, issued'[k].at + 1, End(issued'[k]))
                          /\ k = 1 => issued'[k].public_key = KeyOf(args.x) /\ issued'[k].at = 1
                          /\ k < n + 1 =>
                               /\ issued'[k + 1].public_key = issued'[k].message
                               /\ issued'[k].message = SubSeq(args.x.signature, End(issued'[k]) + 1, issued'[k + 1].at)
        BY <1>1, <2>2 DEF Linked, End, KeyOf
      <3>1. CASE k = n + 1
        <4>1. n = 0 => public_key = KeyOf(args.x) /\ at = 1
          BY <1>1 DEF IInv, Tip
        <4> QED
          BY <2>1, <2>2, <3>1, <4>1
      <3>2. CASE k = n
        <4>1. /\ public_key = issued[n].message
              /\ issued[n].message = SubSeq(args.x.signature, End(issued[n]) + 1, at)
          BY <1>1, <2>2, <3>2 DEF IInv, Tip
        <4>2. /\ issued[n].signature = SubSeq(args.x.signature, issued[n].at + 1, End(issued[n]))
              /\ n = 1 => issued[n].public_key = KeyOf(args.x) /\ issued[n].at = 1
          BY <1>1, <2>2, <3>2 DEF IInv, Linked
        <4>3. issued'[k] = issued[n] /\ issued'[k + 1] = d
          BY <2>2, <3>2
        <4> QED
          BY <2>1, <3>2, <4>1, <4>2, <4>3
      <3>3. CASE k < n
        <4>1. k \in 1 .. n /\ k + 1 \in 1 .. n
          BY <2>2, <3>3
        <4>2. issued'[k] = issued[k] /\ issued'[k + 1] = issued[k + 1]
          BY <2>2, <4>1
        <4> QED
          BY <1>1, <2>2, <3>3, <4>1, <4>2 DEF IInv, Linked
      <3> QED
        BY <2>2, <3>1, <3>2, <3>3
    <2>8. Tip'
      BY <1>1, <2>1, <2>2, <2>3 DEF Tip
    <2>9. Reported'
      BY <1>1, <2>2 DEF IInv, Typing, Reported, Valid
    <2> QED
      BY <2>4, <2>6, <2>7, <2>8, <2>9 DEF IInv
  <1> QED
    BY <1>2, <1>3 DEF Bottom, Issue

\* A signature that is cut, or has the wrong types, ends the walk with a failure.
LEMMA MalformedPreserves == IInv /\ Malformed => IInv'
  <1> SUFFICES ASSUME IInv, Malformed PROVE IInv'
    OBVIOUS
  <1>1. /\ UNCHANGED <<given, function, args, public_key, at, issued, checked, got_error, ctx, answer>>
        /\ pc = "levels" /\ pc' = "done" /\ failed' = TRUE
    BY DEF Malformed, InLoop
  <1>2. Typing' /\ Position'
    BY <1>1 DEF IInv, Typing, Position, levels, LevelsAgree
  <1>3. Linked(issued)' /\ Tip' /\ Reported'
    BY <1>1 DEF IInv, Linked, Tip, Reported, Valid, End, KeyOf
  <1> QED
    BY <1>2, <1>3 DEF IInv

\* An item reports an error exactly if its signature is not valid.
LEMMA WorkPreserves ==
  ASSUME IInv, NEW i, validate_internal_sig(i)
  PROVE  IInv'
  <1>1. /\ UNCHANGED <<given, pc, function, args, public_key, at, issued, failed, ctx, answer>>
        /\ i \in 1 .. Len(issued) /\ checked' = checked \cup {i}
        /\ got_error' = (got_error \/ ~Valid(issued[i]))
    BY DEF validate_internal_sig
  <1>2. pc # "idle"
    BY <1>1, EmptyEntries DEF IInv, Position
  <1>3. Typing'
    BY <1>1 DEF IInv, Typing
  <1>4. Position'
    BY <1>1, <1>2 DEF IInv, Position, levels, LevelsAgree
  <1>5. Linked(issued)' /\ Tip'
    BY <1>1, <1>2 DEF IInv, Linked, Tip, End, KeyOf
  <1>6. Reported'
    BY <1>1 DEF IInv, Reported, Valid
  <1> QED
    BY <1>3, <1>4, <1>5, <1>6 DEF IInv

\* Every step preserves the invariant.
LEMMA NextPreserves == IInv /\ [Next]_vars => IInv'
  <1> SUFFICES ASSUME IInv, [Next]_vars PROVE IInv'
    OBVIOUS
  <1>1. ASSUME NEW x \in given, NEW message, Validate(x, message) PROVE IInv'
    BY <1>1, StartPreserves DEF Validate, IInv, Typing
  <1>2. ASSUME NEW x \in given, NEW message, ValidateRefused(x, message) PROVE IInv'
    BY <1>2, IdlePreserves DEF ValidateRefused, Answer, IInv, Typing
  <1>3. ASSUME NEW x \in given, InitContext(x) PROVE IInv'
    BY <1>3, StartPreserves DEF InitContext, Unused, Statuses, IInv, Typing
  <1>4. ASSUME NEW x \in given, InitRefused(x) PROVE IInv'
    BY <1>4, IdlePreserves DEF InitRefused, Answer, Bad, Statuses
  <1>5. ASSUME NEW x \in given, Finalize(x) PROVE IInv'
    BY <1>5, IdlePreserves, VerdictsAreBoolean DEF Finalize, FinalCheck, Answer, Used, Statuses
  <1>6. CASE NextLevel
    BY <1>6, NextLevelPreserves
  <1>7. CASE Malformed
    BY <1>7, MalformedPreserves
  <1>8. CASE Bottom
    BY <1>8, BottomPreserves
  <1>9. CASE ValidateReturns
    BY <1>9, ReturnPreserves DEF ValidateReturns, Answer, IInv, Typing
  <1>10. CASE InitReturns
    <2>1. answer'.ok \in BOOLEAN /\ Return /\ given' = given
      BY <1>10 DEF InitReturns, Answer, UpperLevelsGood
    <2>2. ctx'.status \in {"none", "bad signature"}
      <3>1. CASE ctx' = Bad
        BY <3>1 DEF Bad
      <3>2. ASSUME NEW q, NEW C, ctx' = Prepared(q, C) PROVE ctx'.status = "none"
        BY <3>2 DEF Prepared
      <3> QED
        BY <1>10, <3>1, <3>2 DEF InitReturns
    <2> QED
      BY <2>1, <2>2, ReturnPreserves DEF IInv, Typing, Statuses
  <1>11. ASSUME NEW i, validate_internal_sig(i) PROVE IInv'
    BY <1>11, WorkPreserves
  <1>12. ASSUME NEW piece, Update(piece) PROVE IInv'
    <2>1. ctx' = [ctx EXCEPT !.message = Append(@, piece)] /\ ctx.status = "none"
      BY <1>12 DEF Update
    <2>2. ctx'.status = ctx.status
      BY <2>1
    <2> QED
      BY <1>12, <2>2, IdlePreserves DEF Update, NoAnswer, IInv, Typing
  <1>13. CASE FinalizeRefused
    BY <1>13, IdlePreserves DEF FinalizeRefused, Answer, IInv, Typing
  <1>14. CASE UNCHANGED vars
    BY <1>14, IdlePreserves DEF vars, IInv, Typing
  <1> QED
    BY <1>1, <1>2, <1>3, <1>4, <1>5, <1>6, <1>7, <1>8, <1>9, <1>10, <1>11, <1>12, <1>13, <1>14
    DEF Next, Walk, Work

-----------------------------------------------------------------------------
(* The invariant holds in every reachable state.                           *)
THEOREM Inductive == Spec => []IInv
  BY InitEstablishes, NextPreserves, PTL DEF Spec

(* The state has its types, and there are never more items than levels.    *)
THEOREM TypeCorrect == Spec => []TypeOK
  <1>1. IInv => TypeOK
    <2> SUFFICES ASSUME IInv PROVE TypeOK
      OBVIOUS
    <2>1. Len(issued) <= MaxLevels
      <3>1. CASE pc = "idle"
        BY <3>1, EmptyEntries, VerifyAssumption DEF IInv, Position
      <3>2. CASE pc # "idle"
        <4>1. Value(args.x.signature[1]) + 1 \in 1 .. MaxLevels
          BY <3>2 DEF IInv, Position, LevelsAgree
        <4>2. Len(issued) <= Value(args.x.signature[1]) + 1 /\ Len(issued) \in Nat
          BY <3>2 DEF IInv, Position, Typing, levels
        <4> QED
          BY <4>1, <4>2, VerifyAssumption
      <3> QED
        BY <3>1, <3>2
    <2> QED
      BY <2>1 DEF IInv, Typing, Position, TypeOK
  <1> QED
    BY <1>1, Inductive, PTL

(* A return with work left is impossible: it would write to a variable that*)
(* has gone.                                                               *)
THEOREM NothingOutlives == Spec => NothingOutlivesTheCall
  <1>1. IInv /\ IInv' /\ [Next]_vars => [pc' = "idle" => checked = 1 .. Len(issued)]_vars
    <2> SUFFICES ASSUME IInv, Next, pc' = "idle" PROVE checked = 1 .. Len(issued)
      OBVIOUS
    <2>1. CASE pc = "idle"
      BY <2>1, EmptyEntries DEF IInv, Position
    <2>2. CASE pc # "idle"
      <3>1. AllDone
        BY <2>2 DEF Next, Walk, Work, Validate, ValidateRefused, InitContext, InitRefused, Finalize,
          NextLevel, Malformed, Bottom, ValidateReturns, InitReturns, validate_internal_sig, Update,
          FinalizeRefused, InLoop, Start
      <3> QED
        BY <3>1 DEF AllDone
    <2> QED
      BY <2>1, <2>2
  <1> QED
    BY <1>1, Inductive, PTL DEF Spec, NothingOutlivesTheCall

(* A signature is accepted only as a chain of valid LMS signatures from the*)
(* public key to the message.                                              *)
THEOREM Soundness == Spec => AcceptsOnlyChains
  <1> DEFINE Accepted == pc = "done" /\ pc' = "idle" /\ function = "validate" /\ answer'.ok
             Good == IsChain(args.x, args.message, issued) /\ \A k \in 1 .. Len(issued) : Valid(issued[k])
  <1>1. IInv /\ Next /\ Accepted => Good
    <2> SUFFICES ASSUME IInv, Next, Accepted PROVE Good
      OBVIOUS
    <2>1. ValidateReturns
      BY DEF Next, Walk, Work, Validate, ValidateRefused, InitContext, InitRefused, Finalize,
        NextLevel, Malformed, Bottom, InitReturns, validate_internal_sig, Update,
        FinalizeRefused, InLoop, Start
    <2>2. checked = 1 .. Len(issued) /\ ~failed /\ ~got_error
      BY <2>1 DEF ValidateReturns, AllDone, Answer, IInv, Typing
    <2>3. \A k \in 1 .. Len(issued) : Valid(issued[k])
      BY <2>2 DEF IInv, Reported
    <2>4. Len(issued) = Value(args.x.public_key[1]) /\ Len(issued) \in Nat /\ Len(issued) >= 1
      <3>1. LevelsAgree(args.x) /\ Len(issued) = levels /\ Len(issued) \in Nat
        BY <2>2 DEF IInv, Position, Typing
      <3> QED
        BY <3>1, VerifyAssumption DEF LevelsAgree, levels
    <2>5. IsChain(args.x, args.message, issued)
      <3>1. Linked(issued) /\ Tip
        BY DEF IInv
      <3>2. issued[Len(issued)].message = args.message /\ End(issued[Len(issued)]) = Len(args.x.signature)
        BY <2>2, <3>1 DEF Tip
      <3>3. issued[1].public_key = KeyOf(args.x) /\ issued[1].at = 1
        BY <2>4, <3>1 DEF Linked
      <3>4. ASSUME NEW k \in 1 .. Len(issued)
            PROVE  /\ issued[k].signature = SubSeq(args.x.signature, issued[k].at + 1, End(issued[k]))
                   /\ k < Len(issued) =>
                        /\ issued[k + 1].public_key = issued[k].message
                        /\ issued[k].message = SubSeq(args.x.signature, End(issued[k]) + 1, issued[k + 1].at)
        BY <3>1 DEF Linked
      <3> QED
        BY <2>4, <3>2, <3>3, <3>4 DEF IsChain, End
    <2> QED
      BY <2>3, <2>5
  <1>2. IInv /\ [Next]_vars => [Accepted => Good]_vars
    BY <1>1
  <1> QED
    BY <1>2, Inductive, PTL DEF Spec, AcceptsOnlyChains

-----------------------------------------------------------------------------
(* The answers.  The items of the upper levels are those of the chain that *)
(* the words of the signature form, if they form one.                      *)

\* The details of the item of an upper level whose signature starts after word a, and of
\* the last one.
UpperItem(x, a) ==
  LET key == KeyAt(x, a) end == a + LmsLength(key)
  IN  [public_key |-> key, message |-> KeyAt(x, end + 4), at |-> a,
       signature_len |-> LmsLength(key), signature |-> SubSeq(x.signature, a + 1, end)]

LastItem(x, a, message) ==
  [public_key |-> KeyAt(x, a), message |-> message, at |-> a,
   signature_len |-> Len(x.signature) - a, signature |-> LastPart(x, a)]

NextPlace(x, a) == a + LmsLength(KeyAt(x, a)) + 4

\* Where the signatures start that the walk has come to.
Place(k) == IF k <= Len(issued) THEN issued[k].at ELSE at
Reached == IF Len(issued) < levels THEN Len(issued) + 1 ELSE levels

Items ==
  /\ public_key = KeyAt(args.x, at)
  /\ Place(1) = 1
  /\ \A k \in 1 .. Reached : Place(k) \in 1 .. Len(args.x.signature)
  /\ \A k \in 1 .. Len(issued) :
       k < levels => /\ issued[k] = UpperItem(args.x, Place(k))
                     /\ Place(k + 1) = NextPlace(args.x, Place(k))
  /\ Len(issued) = levels => issued[levels] = LastItem(args.x, at, args.message)

Outcome ==
  /\ args.x \in given
  /\ function = "validate" => args.message \in Messages
  /\ function = "init" => Len(issued) < levels
  /\ pc = "done" /\ ~failed => Len(issued) >= levels - 1
  /\ failed => \A message : ~ChecksOut(args.x, message)
  /\ got_error => \E k \in checked : ~Valid(issued[k])

\* What a context is about, from one call to the next.
Session ==
  /\ ctx = [status |-> "none", from |-> ctx.from, message |-> ctx.message,
            final_public_key |-> ctx.final_public_key, q |-> ctx.q, C |-> ctx.C,
            signature_offset |-> ctx.signature_offset, signature_len |-> ctx.signature_len]
  /\ ctx.from \in given
  /\ ctx.message \in UNION {[1 .. n -> Pieces] : n \in 0 .. MaxPieces}
  /\ \E starts \in Chains(ctx.from) : ctx.signature_offset = Final(ctx.from, starts)
  /\ ctx.final_public_key = KeyAt(ctx.from, ctx.signature_offset)
  /\ ctx.signature_len = Len(ctx.from.signature) - ctx.signature_offset
  /\ ctx.q \in Read(ctx.from.signature, ctx.signature_offset + 1)
  /\ ctx.C \in Read(ctx.from.signature, ctx.signature_offset + 3)

WInv == /\ pc # "idle" => Items /\ Outcome
        /\ ctx.status = "none" => Session

\* What is presented has a length.
LEMMA PresentedLength ==
  ASSUME IInv, NEW x \in given
  PROVE  Len(x.signature) \in Nat
  BY VerifyAssumption DEF IInv, Typing

\* Words out of a sequence of them.
LEMMA SomeWords ==
  ASSUME NEW words, NEW from \in Int, NEW to \in Int
  PROVE  /\ Len(SubSeq(words, from, to)) = IF from <= to THEN to - from + 1 ELSE 0
         /\ \A k \in 1 .. to - from + 1 : SubSeq(words, from, to)[k] = words[from + k - 1]
  <1> DEFINE S == {words[k] : k \in from .. to}
  <1>1. \A k \in from .. to : words[k] \in S
    OBVIOUS
  <1> QED BY <1>1, SubSeqProperties

\* The type of a key inside a signature.
LEMMA KeyInside ==
  ASSUME NEW x, NEW a \in Int, a # 1
  PROVE  KeyAt(x, a)[1] = x.signature[a - 3]
  <1>1. a - 3 \in Int /\ 1 \in 1 .. a - (a - 3) + 1 /\ (a - 3) + 1 - 1 = a - 3
    OBVIOUS
  <1>2. \A k \in 1 .. a - (a - 3) + 1 : SubSeq(x.signature, a - 3, a)[k] = x.signature[(a - 3) + k - 1]
    BY <1>1, SomeWords
  <1>3. KeyAt(x, a) = SubSeq(x.signature, a - 3, a)
    BY DEF KeyAt
  <1> QED BY <1>1, <1>2, <1>3

\* An LMS signature is at least empty.
LEMMA Lengths ==
  ASSUME NEW key
  PROVE  LmsLength(key) \in Nat
  BY LengthsAreNumbers DEF LmsLength

\* The number of levels is that of the public key.
LEMMA LevelNumber ==
  ASSUME NEW x, LevelsAgree(x), Len(x.signature) \in Nat
  PROVE  LET L == Value(x.public_key[1])
         IN  L \in Nat /\ L \in 1 .. MaxLevels /\ L >= 1 /\ L = Value(x.signature[1]) + 1
  BY VerifyAssumption DEF LevelsAgree

\* A chain of LMS signatures, in terms of the items for it.
LEMMA ChainOf ==
  ASSUME NEW x, Len(x.signature) \in Nat, NEW starts
  PROVE  starts \in Chains(x) <=>
           /\ LevelsAgree(x)
           /\ starts \in [1 .. Value(x.public_key[1]) -> 1 .. Len(x.signature)]
           /\ starts[1] = 1
           /\ \A k \in 1 .. Value(x.public_key[1]) - 1 :
                starts[k + 1] = NextPlace(x, starts[k]) /\ Valid(UpperItem(x, starts[k]))
  <1> DEFINE L == Value(x.public_key[1])
             Item(k, e) == lm_validate_signature(KeyAt(x, starts[k]), KeyAt(x, starts[k + 1]), FALSE,
                                                 SubSeq(x.signature, starts[k] + 1, e))
             End1(k) == starts[k] + LmsLength(KeyAt(x, starts[k]))
  <1>1. LevelsAgree(x) <=> Len(x.signature) >= 1 /\ L \in 1 .. MaxLevels /\ Value(x.signature[1]) + 1 = L
    BY DEF LevelsAgree
  <1>2. starts \in Chains(x) <=>
          /\ LevelsAgree(x)
          /\ starts \in [1 .. L -> 1 .. Len(x.signature)]
          /\ starts[1] = 1
          /\ \A k \in 1 .. L - 1 : starts[k + 1] = End1(k) + 4 /\ Item(k, End1(k))
    BY <1>1 DEF Chains
  <1>3. ASSUME NEW k, starts[k + 1] = End1(k) + 4
        PROVE  Item(k, End1(k)) <=> Valid(UpperItem(x, starts[k]))
    BY <1>3 DEF Valid, UpperItem
  <1> QED
    BY <1>2, <1>3 DEF NextPlace

\* The places of a walk that follows the lengths are those of the chain.
Follow(x, t, place) == place[1] = 1 /\ \A k \in 1 .. t - 1 : place[k + 1] = NextPlace(x, place[k])

LEMMA OneChain ==
  ASSUME NEW x, Len(x.signature) \in Nat, NEW starts \in Chains(x),
         NEW t \in 1 .. Value(x.public_key[1]), NEW place, Follow(x, t, place)
  PROVE  \A k \in 1 .. t : place[k] = starts[k]
  <1> DEFINE S == {k \in Nat : k + 1 <= t => place[k + 1] = starts[k + 1]}
  <1>1. /\ Value(x.public_key[1]) \in Nat /\ starts[1] = 1
        /\ \A k \in 1 .. Value(x.public_key[1]) - 1 : starts[k + 1] = NextPlace(x, starts[k])
    BY ChainOf, LevelNumber
  <1>f. place[1] = 1 /\ \A k \in 1 .. t - 1 : place[k + 1] = NextPlace(x, place[k])
    BY DEF Follow
  <1>2. t \in Nat
    BY <1>1
  <1>3. 0 \in S
    BY <1>1, <1>f
  <1>4. ASSUME NEW k \in Nat, k \in S PROVE k + 1 \in S
    <2> SUFFICES ASSUME k + 2 <= t PROVE place[k + 2] = starts[k + 2]
      OBVIOUS
    <2>1. k + 1 \in 1 .. t - 1 /\ k + 1 \in 1 .. Value(x.public_key[1]) - 1 /\ (k + 1) + 1 = k + 2
      BY <1>1, <1>2
    <2>2. place[k + 1] = starts[k + 1]
      BY <1>2, <1>4
    <2> QED
      BY <1>1, <1>f, <2>1, <2>2
  <1>5. \A k \in Nat : k \in S
    <2> HIDE DEF S
    <2> QED BY <1>3, <1>4, Induction
  <1>6. ASSUME NEW k \in 1 .. t PROVE place[k] = starts[k]
    <2>1. k - 1 \in Nat /\ (k - 1) + 1 = k /\ k <= t
      BY <1>2
    <2> QED BY <1>5, <2>1
  <1> QED BY <1>6

\* The numbers of a call.
LEMMA CallNumbers ==
  ASSUME IInv, pc # "idle"
  PROVE  /\ LevelsAgree(args.x) /\ levels = Value(args.x.public_key[1])
         /\ levels \in Nat /\ levels >= 1
         /\ Len(issued) \in Nat /\ Len(issued) <= levels
         /\ Len(args.x.signature) \in Nat /\ Len(args.x.signature) >= 1
         /\ issued \in Seq(Entries(issued))
  <1>1. LevelsAgree(args.x) /\ Len(args.x.signature) \in Nat /\ Len(issued) <= levels
    BY DEF IInv, Position
  <1>2. levels = Value(args.x.public_key[1]) /\ Len(args.x.signature) >= 1
    BY <1>1 DEF LevelsAgree, levels
  <1>3. levels \in Nat /\ levels >= 1
    BY <1>1, <1>2, LevelNumber
  <1>4. Len(issued) \in Nat /\ issued \in Seq(Entries(issued))
    BY DEF IInv, Typing
  <1> QED BY <1>1, <1>2, <1>3, <1>4

\* The first item will start after the number of levels.
LEMMA StartWalk ==
  ASSUME IInv, NEW x \in given, NEW message, NEW f \in {"validate", "init"}, LevelsAgree(x),
         f = "validate" => message \in Messages, Start(f, x, message), given' = given
  PROVE  (Items /\ Outcome)'
  <1>1. Len(x.signature) \in Nat /\ Len(x.signature) >= 1
    BY PresentedLength DEF LevelsAgree
  <1>2. /\ args'.x = x /\ args'.message = message /\ issued' = <<>> /\ at' = 1
        /\ function' = f /\ pc' = "levels" /\ checked' = {} /\ ~got_error' /\ ~failed'
        /\ public_key' = KeyOf(x)
    BY DEF Start
  <1>3. Len(issued') = 0
    BY <1>2, EmptyEntries
  <1>4. levels' \in Nat /\ levels' >= 1
    BY <1>1, <1>2, LevelNumber DEF levels
  <1>5. Place(1)' = 1 /\ Reached' = 1
    BY <1>2, <1>3, <1>4 DEF Place, Reached
  <1>6. public_key' = KeyAt(x, 1)
    BY <1>2 DEF KeyAt
  <1>7. Items'
    BY <1>1, <1>2, <1>3, <1>4, <1>5, <1>6 DEF Items
  <1>8. Outcome'
    BY <1>2, <1>3, <1>4 DEF Outcome
  <1> QED BY <1>7, <1>8

\* Steps that take nothing but the items and the verdict along.
LEMMA SameItems ==
  ASSUME Items, UNCHANGED <<args, public_key, at, issued>>
  PROVE  Items'
  BY DEF Items, Place, Reached, levels

\* The item for an upper level is the one that the words at this place call for.
LEMMA NextLevelItems ==
  ASSUME IInv, Items, Outcome, NextLevel
  PROVE  (Items /\ Outcome)'
  <1> PICK x, n : x = args.x /\ n = Len(issued)
    OBVIOUS
  <1> DEFINE sig == x.signature
  <1>1. /\ pc = "levels" /\ n < levels - 1
        /\ UNCHANGED <<given, pc, function, args, checked, got_error, failed, ctx, answer>>
        /\ SignatureFits /\ PublicKeyFits
        /\ at' = at + l_siglen + l_pubkeylen
    BY DEF NextLevel, InLoop
  <1>2. /\ levels = Value(x.public_key[1]) /\ levels \in Nat /\ levels >= 1
        /\ n \in Nat /\ Len(sig) \in Nat /\ issued \in Seq(Entries(issued))
    BY <1>1, CallNumbers
  <1>3. public_key = KeyAt(x, at) /\ l_siglen = LmsLength(KeyAt(x, at)) /\ l_siglen \in Nat
    BY LengthsAreNumbers DEF Items, l_siglen, LmsLength
  <1>4. l_pubkeylen = 4 /\ l_siglen + 4 <= Len(sig) - at
    BY <1>1 DEF PublicKeyFits, l_pubkeylen, lm_get_public_key_len, signature_len
  <1>5. at \in 1 .. Len(sig) /\ Place(n + 1) = at /\ Reached = n + 1
    BY <1>1, <1>2 DEF Items, Place, Reached
  <1>6. /\ at' = NextPlace(x, at)
        /\ at' \in 1 .. Len(sig) /\ at' # 1
    <2> PICK a, l, s : a = at /\ l = l_siglen /\ s = Len(sig)
      OBVIOUS
    <2>1. at' = a + l + 4
      BY <1>1, <1>4
    <2>2. a \in 1 .. s /\ s \in Nat /\ l \in Nat /\ l + 4 <= s - a
      BY <1>2, <1>3, <1>4, <1>5
    <2>3. a + l + 4 \in 1 .. s /\ a + l + 4 # 1
      BY ONLY <2>2
    <2>4. at' = NextPlace(x, at)
      BY <1>3, <2>1 DEF NextPlace
    <2> QED BY <2>1, <2>3, <2>4
  <1>7. SubSeq(sig, at + l_siglen + 1, at + l_siglen + l_pubkeylen) = KeyAt(x, at')
    <2> PICK a, l : a = at /\ l = l_siglen
      OBVIOUS
    <2>1. at' - 3 = at + l_siglen + 1 /\ at' = at + l_siglen + l_pubkeylen
      <3>1. at' = a + l + 4 /\ l_pubkeylen = 4
        BY <1>1, <1>4
      <3>2. a \in Int /\ l \in Int
        BY <1>3, <1>5
      <3>3. a + l + 4 - 3 = a + l + 1
        BY ONLY <3>2
      <3>4. at' - 3 = at + l_siglen + 1
        BY <3>1, <3>2, <3>3
      <3>5. at' = at + l_siglen + l_pubkeylen
        BY <3>1
      <3> QED BY <3>4, <3>5
    <2> QED BY <1>6, <2>1 DEF KeyAt
  <1>8. public_key' = KeyAt(x, at')
    BY <1>7 DEF NextLevel
  <1>9. issued' = Append(issued, UpperItem(x, at))
    <2>1. KeyAt(x, at') = KeyAt(x, at + LmsLength(KeyAt(x, at)) + 4)
      BY <1>1, <1>3, <1>4
    <2> QED BY <1>3, <1>7, <2>1 DEF NextLevel, Issue, UpperItem
  <1>10. /\ Len(issued') = n + 1
         /\ issued'[n + 1] = UpperItem(x, at)
         /\ \A k \in 1 .. n : issued'[k] = issued[k]
    BY <1>2, <1>9, AppendEntry
  <1>11. issued'[n + 1].at = at
    BY <1>10 DEF UpperItem
  <1>12. levels' = levels /\ Reached' = n + 2
    BY <1>1, <1>2, <1>10 DEF levels, Reached
  <1>13. /\ \A k \in 1 .. n + 1 : Place(k)' = Place(k)
         /\ Place(n + 2)' = at'
    BY <1>2, <1>5, <1>10, <1>11 DEF Place
  <1>14. \A k \in 1 .. n : k < levels => /\ issued[k] = UpperItem(x, Place(k))
                                        /\ Place(k + 1) = NextPlace(x, Place(k))
    BY DEF Items
  <1>s. args' = args
    BY <1>1
  <1>15. Items'
    <2>1. Place(1)' = 1
      BY <1>2, <1>13 DEF Items
    <2>2. \A k \in 1 .. n + 2 : Place(k)' \in 1 .. Len(sig)
      <3>1. \A k \in 1 .. n + 1 : Place(k)' \in 1 .. Len(sig)
        BY <1>5, <1>13 DEF Items
      <3> QED BY <1>2, <1>6, <1>13, <3>1
    <2>3. ASSUME NEW k \in 1 .. n + 1
          PROVE  /\ issued'[k] = UpperItem(x, Place(k)')
                 /\ Place(k + 1)' = NextPlace(x, Place(k)')
      <3>1. CASE k = n + 1
        BY <1>2, <1>5, <1>6, <1>10, <1>13, <3>1
      <3>2. CASE k # n + 1
        <4>1. k \in 1 .. n /\ k + 1 \in 1 .. n + 1 /\ k < levels
          BY <1>1, <1>2, <3>2
        <4> QED BY <1>2, <1>10, <1>13, <1>14, <4>1
      <3> QED BY <3>1, <3>2
    <2>4. Len(issued') # levels
      BY <1>1, <1>2, <1>10
    <2>5. args' = args
      BY <1>1
    <2> QED BY <1>8, <1>10, <1>12, <2>1, <2>2, <2>3, <2>4, <2>5 DEF Items
  <1>16. Outcome'
    <2>1. got_error' => \E k \in checked' : ~Valid(issued'[k])
      <3> SUFFICES ASSUME got_error PROVE \E k \in checked' : ~Valid(issued'[k])
        BY <1>1
      <3>1. PICK k \in checked : ~Valid(issued[k])
        BY DEF Outcome
      <3>2. k \in 1 .. n
        BY <3>1 DEF IInv, Typing
      <3> QED BY <1>1, <1>10, <3>1, <3>2
    <2>2. ~failed' /\ pc' = "levels"
      BY <1>1 DEF IInv, Position
    <2>3. Len(issued') < levels'
      BY <1>1, <1>2, <1>10, <1>12
    <2> QED BY <1>1, <2>1, <2>2, <2>3 DEF Outcome
  <1> QED BY <1>15, <1>16

\* The item for the last level has the rest of the signature.
LEMMA BottomItems ==
  ASSUME IInv, Items, Outcome, Bottom
  PROVE  (Items /\ Outcome)'
  <1> PICK x, n : x = args.x /\ n = Len(issued)
    OBVIOUS
  <1> DEFINE sig == x.signature
  <1>1. /\ pc = "levels" /\ pc' = "done" /\ n = levels - 1
        /\ UNCHANGED <<given, function, args, public_key, at, checked, got_error, failed, ctx, answer>>
    BY DEF Bottom
  <1>2. /\ levels \in Nat /\ levels >= 1
        /\ n \in Nat /\ Len(sig) \in Nat /\ issued \in Seq(Entries(issued))
    BY <1>1, CallNumbers
  <1>3. levels' = levels /\ ~failed
    BY <1>1 DEF levels, IInv, Position
  <1>4. CASE function = "init" /\ UNCHANGED issued
    <2>1. Items'
      BY <1>1, <1>4, SameItems
    <2>2. got_error' => \E k \in checked' : ~Valid(issued'[k])
      BY <1>1, <1>4 DEF Outcome
    <2>3. issued' = issued
      BY <1>4
    <2>4. Len(issued') < levels' /\ Len(issued') >= levels' - 1
      <3>1. Len(issued') = n
        BY <2>3
      <3>2. n < levels /\ n >= levels - 1
        BY <1>1, <1>2
      <3> QED BY <1>3, <3>1, <3>2
    <2> QED BY <1>1, <1>3, <1>4, <2>1, <2>2, <2>4 DEF Outcome
  <1>5. CASE function = "validate" /\ Issue(args.message, signature_len)
    <2>1. at \in 1 .. Len(sig) /\ public_key = KeyAt(x, at) /\ Place(n + 1) = at /\ Reached = n + 1
      <3>1. Place(n + 1) = at /\ Reached = n + 1
        BY <1>1, <1>2 DEF Place, Reached
      <3>2. n + 1 \in 1 .. Reached
        BY <1>2, <3>1
      <3> QED BY <3>1, <3>2 DEF Items
    <2>2. issued' = Append(issued, LastItem(x, at, args.message))
      <3>1. signature_len = Len(sig) - at /\ at + signature_len = Len(sig)
        BY <1>2, <2>1 DEF signature_len
      <3> QED BY <1>5, <2>1, <3>1 DEF Issue, LastItem, LastPart
    <2>3. /\ Len(issued') = n + 1
          /\ issued'[n + 1] = LastItem(x, at, args.message)
          /\ \A k \in 1 .. n : issued'[k] = issued[k]
      BY <1>2, <2>2, AppendEntry
    <2>4. issued'[n + 1].at = at
      BY <2>3 DEF LastItem
    <2>5. Reached' = n + 1
      BY <1>1, <1>2, <1>3, <2>3 DEF Reached
    <2>6. \A k \in 1 .. n + 1 : Place(k)' = Place(k)
      BY <1>1, <1>2, <2>1, <2>3, <2>4 DEF Place
    <2>7. \A k \in 1 .. n : /\ issued[k] = UpperItem(x, Place(k))
                            /\ Place(k + 1) = NextPlace(x, Place(k))
      BY <1>1, <1>2 DEF Items
    <2>8. Items'
      <3>1. Place(1)' = 1 /\ \A k \in 1 .. n + 1 : Place(k)' \in 1 .. Len(sig)
        BY <1>2, <2>1, <2>6 DEF Items
      <3>2. \A k \in 1 .. n : /\ issued'[k] = UpperItem(x, Place(k)')
                              /\ Place(k + 1)' = NextPlace(x, Place(k)')
        BY <1>2, <2>3, <2>6, <2>7
      <3>3. issued'[levels'] = LastItem(x, at', args'.message)
        BY <1>1, <1>2, <1>3, <2>3
      <3>4. public_key' = KeyAt(x, at') /\ args' = args
        BY <1>1, <2>1
      <3> QED BY <1>1, <1>2, <1>3, <2>3, <2>5, <3>1, <3>2, <3>3, <3>4 DEF Items
    <2>9. got_error' => \E k \in checked' : ~Valid(issued'[k])
      <3> SUFFICES ASSUME got_error PROVE \E k \in checked' : ~Valid(issued'[k])
        BY <1>1
      <3>1. PICK k \in checked : ~Valid(issued[k])
        BY DEF Outcome
      <3>2. k \in 1 .. n
        BY <3>1 DEF IInv, Typing
      <3> QED BY <1>1, <2>3, <3>1, <3>2
    <2>10. Outcome'
      BY <1>1, <1>2, <1>3, <1>5, <2>3, <2>9 DEF Outcome
    <2> QED BY <2>8, <2>10
  <1> QED BY <1>4, <1>5 DEF Bottom

\* If the words form a chain, the items are for its signatures, which are valid.
LEMMA ChainIsWalked ==
  ASSUME IInv, Items, pc # "idle", NEW starts \in Chains(args.x)
  PROVE  /\ \A k \in 1 .. Reached : Place(k) = starts[k]
         /\ \A k \in 1 .. Len(issued) : k < levels => Valid(issued[k])
  <1>1. /\ levels = Value(args.x.public_key[1]) /\ levels \in Nat /\ levels >= 1
        /\ Len(issued) \in Nat /\ Len(issued) <= levels /\ Len(args.x.signature) \in Nat
    BY CallNumbers
  <1>2. Reached \in 1 .. levels /\ \A k \in 1 .. Len(issued) : k < levels => k \in 1 .. Reached
    BY <1>1 DEF Reached
  <1>3. \A k \in 1 .. Reached - 1 : k \in 1 .. Len(issued) /\ k < levels
    BY <1>1, <1>2 DEF Reached
  <1> DEFINE f == [k \in 1 .. Reached |-> Place(k)]
  <1>4. f[1] = 1
    BY <1>1, <1>2 DEF Items
  <1>5. \A k \in 1 .. Reached - 1 : f[k + 1] = NextPlace(args.x, f[k])
    <2> TAKE k \in 1 .. Reached - 1
    <2>1. k \in 1 .. Reached /\ k + 1 \in 1 .. Reached
      BY <1>1, <1>2
    <2>2. Place(k + 1) = NextPlace(args.x, Place(k))
      BY <1>3 DEF Items
    <2> QED BY <2>1, <2>2
  <1>6. \A k \in 1 .. Reached : f[k] = starts[k]
    <2>1. Reached \in 1 .. Value(args.x.public_key[1])
      BY <1>1, <1>2
    <2> PICK x, t : x = args.x /\ t = Reached
      OBVIOUS
    <2>2. Len(args.x.signature) \in Nat
      BY <1>1
    <2>3. Follow(args.x, Reached, f)
      BY <1>4, <1>5 DEF Follow
    <2> HIDE DEF f
    <2> QED BY <2>1, <2>2, <2>3, OneChain
  <1>7. \A k \in 1 .. Reached : Place(k) = starts[k]
    BY <1>6
  <1>8. ASSUME NEW k \in 1 .. Len(issued), k < levels PROVE Valid(issued[k])
    <2>1. issued[k] = UpperItem(args.x, starts[k])
      BY <1>2, <1>7, <1>8 DEF Items
    <2>2. k \in 1 .. levels - 1
      BY <1>1, <1>8
    <2>3. Valid(UpperItem(args.x, starts[k]))
      BY <1>1, <2>2, ChainOf
    <2> QED BY <2>1, <2>3
  <1> QED BY <1>7, <1>8

\* The walk stands at the last signature when the items of the upper levels are issued.
LEMMA StandsAtLast ==
  ASSUME IInv, Items, pc # "idle", Len(issued) >= levels - 1
  PROVE  Reached = levels /\ Place(levels) = at
  <1>1. levels \in Nat /\ levels >= 1 /\ Len(issued) \in Nat /\ Len(issued) <= levels
    BY CallNumbers
  <1>2. CASE Len(issued) = levels
    <2>1. issued[levels].at = at
      BY <1>2 DEF Items, LastItem
    <2> QED BY <1>1, <1>2, <2>1 DEF Place, Reached
  <1>3. CASE Len(issued) = levels - 1
    BY <1>1, <1>3 DEF Place, Reached
  <1> QED BY <1>1, <1>2, <1>3

\* If the items of the upper levels are valid, the words form a chain.
LEMMA WalkIsChain ==
  ASSUME IInv, Items, pc # "idle", Len(issued) >= levels - 1,
         \A k \in 1 .. levels - 1 : Valid(issued[k])
  PROVE  \E starts \in Chains(args.x) : Final(args.x, starts) = at
  <1>1. /\ levels = Value(args.x.public_key[1]) /\ levels \in Nat /\ levels >= 1
        /\ Len(issued) \in Nat /\ Len(issued) <= levels /\ Len(args.x.signature) \in Nat
        /\ LevelsAgree(args.x)
    BY CallNumbers
  <1>2. Reached = levels /\ Place(levels) = at
    BY StandsAtLast
  <1> DEFINE starts == [k \in 1 .. levels |-> Place(k)]
  <1>3. starts \in [1 .. levels -> 1 .. Len(args.x.signature)] /\ starts[1] = 1
    BY <1>1, <1>2 DEF Items
  <1>4. ASSUME NEW k \in 1 .. levels - 1
        PROVE  starts[k + 1] = NextPlace(args.x, starts[k]) /\ Valid(UpperItem(args.x, starts[k]))
    <2>1. k \in 1 .. Len(issued) /\ k < levels /\ k \in 1 .. levels /\ k + 1 \in 1 .. levels
      BY <1>1
    <2>2. issued[k] = UpperItem(args.x, Place(k)) /\ Place(k + 1) = NextPlace(args.x, Place(k))
      BY <2>1 DEF Items
    <2> QED BY <2>1, <2>2
  <1>5. starts[levels] = at
    BY <1>1, <1>2
  <1>6. starts \in Chains(args.x)
    <2> HIDE DEF starts
    <2> QED BY <1>1, <1>3, <1>4, ChainOf
  <1> QED BY <1>1, <1>5, <1>6 DEF Final

\* A key that makes a signature valid has types that are known.
LEMMA KnownTypes ==
  ASSUME NEW key, NEW message, NEW prehashed, NEW sig, lm_validate_signature(key, message, prehashed, sig)
  PROVE  /\ Value(key[1]) \in DOMAIN LmHeight /\ Value(key[2]) \in OtsTypes
         /\ LmsLength(key) = 5 + LmHeight[Value(key[1])] /\ LmsLength(key) >= 5 /\ LmsLength(key) \in Nat
         /\ Len(sig) = LmsLength(key)
  <1>1. /\ Value(key[1]) \in DOMAIN LmHeight /\ Value(key[2]) \in OtsTypes
        /\ Len(sig) = 5 + LmHeight[Value(key[1])]
    BY DEF lm_validate_signature, WellFormed
  <1>2. LmsLength(key) = 5 + LmHeight[Value(key[1])]
    BY <1>1 DEF LmsLength, lm_get_signature_len
  <1> PICK h : h = LmHeight[Value(key[1])]
    OBVIOUS
  <1>3. h \in 0 .. 25
    BY <1>1, HeightAssumption
  <1>4. 5 + h >= 5 /\ 5 + h \in Nat
    BY ONLY <1>3
  <1> QED BY <1>1, <1>2, <1>4

\* A walk that fails has left no signature that checks out.
LEMMA MalformedItems ==
  ASSUME IInv, Items, Outcome, Malformed
  PROVE  (Items /\ Outcome)'
  <1> PICK x, n : x = args.x /\ n = Len(issued)
    OBVIOUS
  <1> DEFINE sig == x.signature
  <1>1. /\ pc = "levels" /\ pc' = "done" /\ n < levels - 1
        /\ ~(SignatureFits /\ PublicKeyFits)
        /\ UNCHANGED <<given, function, args, public_key, at, issued, checked, got_error, ctx, answer>>
    BY DEF Malformed, InLoop
  <1>2. /\ levels \in Nat /\ levels >= 1 /\ levels = Value(x.public_key[1])
        /\ n \in Nat /\ Len(sig) \in Nat
    BY <1>1, CallNumbers
  <1>4. ASSUME NEW message, ChecksOut(x, message) PROVE FALSE
    <2>1. PICK starts \in Chains(x) :
            lm_validate_signature(KeyAt(x, starts[levels]), message, FALSE, LastPart(x, starts[levels]))
      BY <1>2, <1>4 DEF ChecksOut, Final
    <2>2. /\ starts \in [1 .. levels -> 1 .. Len(sig)]
          /\ \A k \in 1 .. levels - 1 :
               starts[k + 1] = NextPlace(x, starts[k]) /\ Valid(UpperItem(x, starts[k]))
      BY <1>2, ChainOf
    <2>3. /\ n + 1 \in 1 .. levels - 1 /\ n + 2 \in 1 .. levels /\ (n + 1) + 1 = n + 2
          /\ Reached = n + 1 /\ Place(n + 1) = at
      BY <1>1, <1>2 DEF Reached, Place
    <2>4. at = starts[n + 1] /\ at \in 1 .. Len(sig)
      <3>1. n + 1 \in 1 .. Reached
        BY <1>2, <2>3
      <3>2. Place(n + 1) = starts[n + 1]
        BY <1>1, <3>1, ChainIsWalked
      <3> QED BY <2>2, <2>3, <3>2 DEF Items
    <2>5. Valid(UpperItem(x, at)) /\ public_key = KeyAt(x, at)
      BY <2>2, <2>3, <2>4 DEF Items
    <2>6. /\ l_siglen = LmsLength(KeyAt(x, at)) /\ l_siglen >= 5 /\ l_siglen \in Nat
      BY <2>5, KnownTypes DEF Valid, UpperItem, l_siglen, LmsLength
    <2> PICK e : e = starts[n + 2]
      OBVIOUS
    <2>7. e = at + l_siglen + 4 /\ e \in 1 .. Len(sig) /\ e # 1
      <3> PICK a, l, s : a = at /\ l = l_siglen /\ s = Len(sig)
        OBVIOUS
      <3>1. starts[(n + 1) + 1] = NextPlace(x, starts[n + 1])
        BY <2>2, <2>3
      <3>2. e = a + l + 4
        BY <2>3, <2>4, <2>6, <3>1 DEF NextPlace
      <3>3. e \in 1 .. s
        BY <2>2, <2>3
      <3>4. a \in 1 .. s /\ l \in Nat /\ s \in Nat
        BY <1>2, <2>4, <2>6
      <3>5. a + l + 4 # 1
        BY ONLY <3>4
      <3> QED BY <3>2, <3>3, <3>5
    <2>8. Value(KeyAt(x, e)[1]) \in DOMAIN LmHeight
      <3>1. CASE n + 2 = levels
        BY <2>1, <3>1, KnownTypes
      <3>2. CASE n + 2 # levels
        <4>1. n + 2 \in 1 .. levels - 1
          BY <1>2, <2>3, <3>2
        <4> QED BY <2>2, <4>1, KnownTypes DEF Valid, UpperItem
      <3> QED BY <3>1, <3>2
    <2>9. KeyAt(x, e)[1] = sig[at + l_siglen + 1]
      <3>1. e - 3 = at + l_siglen + 1 /\ e \in Int
        BY <1>2, <2>4, <2>6, <2>7
      <3> QED BY <2>7, <3>1, KeyInside
    <2>10. l_pubkeylen = 4
      BY <2>8, <2>9 DEF l_pubkeylen, lm_get_public_key_len
    <2>11. SignatureFits /\ PublicKeyFits
      <3> PICK a, l, s : a = at /\ l = l_siglen /\ s = Len(sig)
        OBVIOUS
      <3>1. a \in 1 .. s /\ s \in Nat /\ l \in Nat /\ l >= 5 /\ a + l + 4 \in 1 .. s
        BY <1>2, <2>4, <2>6, <2>7
      <3>2. l # 0 /\ l <= s - a /\ l < s - a /\ l + 4 <= s - a
        BY ONLY <3>1
      <3>3. signature_len = s - a
        BY DEF signature_len
      <3> QED BY <2>10, <3>2, <3>3 DEF SignatureFits, PublicKeyFits
    <2> QED BY <1>1, <2>11
  <1>5. Items'
    BY <1>1, SameItems
  <1>6. levels' = levels /\ failed'
    BY <1>1 DEF levels, Malformed
  <1>7. got_error' => \E k \in checked' : ~Valid(issued'[k])
    BY <1>1 DEF Outcome
  <1>8. Outcome'
    BY <1>1, <1>4, <1>6, <1>7 DEF Outcome
  <1> QED BY <1>5, <1>8

\* A walk that ends well has found a chain, and a valid signature of the message.
LEMMA EndsWell ==
  ASSUME IInv, Items, Outcome, AllDone, ~failed, ~got_error
  PROVE  /\ \E starts \in Chains(args.x) : Final(args.x, starts) = at
         /\ function = "validate" => ChecksOut(args.x, args.message)
  <1>1. pc = "done" /\ checked = 1 .. Len(issued)
    BY DEF AllDone
  <1>2. levels \in Nat /\ levels >= 1 /\ Len(issued) \in Nat /\ Len(issued) <= levels /\ Len(issued) >= levels - 1
    BY <1>1, CallNumbers DEF Outcome
  <1>3. \A k \in 1 .. Len(issued) : Valid(issued[k])
    BY <1>1 DEF IInv, Reported
  <1>4. \A k \in 1 .. levels - 1 : Valid(issued[k])
    BY <1>2, <1>3
  <1>5. PICK starts \in Chains(args.x) : Final(args.x, starts) = at
    BY <1>1, <1>2, <1>4, WalkIsChain
  <1>6. ASSUME function = "validate" PROVE ChecksOut(args.x, args.message)
    <2>1. Len(issued) = levels
      BY <1>1, <1>6 DEF IInv, Position
    <2>2. Valid(LastItem(args.x, at, args.message))
      BY <1>2, <1>3, <2>1 DEF Items
    <2>3. lm_validate_signature(KeyAt(args.x, at), args.message, FALSE, LastPart(args.x, at))
      BY <2>2 DEF Valid, LastItem
    <2> QED BY <1>5, <2>3 DEF ChecksOut
  <1> QED BY <1>5, <1>6

\* The place of the last signature in a chain is where the walk stands.
LEMMA ChainEndsHere ==
  ASSUME IInv, Items, pc # "idle", Len(issued) >= levels - 1, NEW message, ChecksOut(args.x, message)
  PROVE  /\ lm_validate_signature(KeyAt(args.x, at), message, FALSE, LastPart(args.x, at))
         /\ \A k \in 1 .. Len(issued) : k < levels => Valid(issued[k])
  <1>1. levels \in Nat /\ levels >= 1 /\ levels = Value(args.x.public_key[1])
    BY CallNumbers
  <1>2. PICK starts \in Chains(args.x) :
          lm_validate_signature(KeyAt(args.x, starts[levels]), message, FALSE, LastPart(args.x, starts[levels]))
    BY <1>1 DEF ChecksOut, Final
  <1>3. /\ \A k \in 1 .. Reached : Place(k) = starts[k]
        /\ \A k \in 1 .. Len(issued) : k < levels => Valid(issued[k])
    BY ChainIsWalked
  <1>4. starts[levels] = at
    BY <1>1, <1>3, StandsAtLast
  <1> QED BY <1>2, <1>3, <1>4

\* A walk that ends badly was over a signature that does not check out.
LEMMA EndsBadly ==
  ASSUME IInv, Items, Outcome, AllDone, failed \/ got_error
  PROVE  /\ function = "validate" => ~ChecksOut(args.x, args.message)
         /\ function = "init" => \A message : ~ChecksOut(args.x, message)
  <1>1. CASE failed
    BY <1>1 DEF Outcome
  <1>2. CASE ~failed
    <2>1. got_error /\ pc = "done" /\ checked = 1 .. Len(issued)
      BY <1>2 DEF AllDone
    <2>2. PICK k \in 1 .. Len(issued) : ~Valid(issued[k])
      BY <2>1 DEF Outcome
    <2>3. levels \in Nat /\ levels >= 1 /\ Len(issued) \in Nat /\ Len(issued) <= levels /\ Len(issued) >= levels - 1
      BY <1>2, <2>1, CallNumbers DEF Outcome
    <2>4. ASSUME NEW message, ChecksOut(args.x, message), function = "init" PROVE FALSE
      <3>1. k < levels
        BY <2>3, <2>4 DEF Outcome
      <3> QED BY <2>1, <2>2, <2>3, <2>4, <3>1, ChainEndsHere
    <2>5. ASSUME ChecksOut(args.x, args.message), function = "validate" PROVE FALSE
      <3>1. /\ lm_validate_signature(KeyAt(args.x, at), args.message, FALSE, LastPart(args.x, at))
            /\ k < levels => Valid(issued[k])
        BY <2>1, <2>3, <2>5, ChainEndsHere
      <3>2. k = levels /\ Len(issued) = levels
        BY <2>2, <2>3, <3>1
      <3>3. ~Valid(LastItem(args.x, at, args.message))
        BY <2>2, <3>2 DEF Items
      <3> QED BY <3>1, <3>3 DEF Valid, LastItem
    <2> QED BY <2>4, <2>5
  <1> QED BY <1>1, <1>2

\* Nor does it check out if the type of the last key is not known.
LEMMA EndsUnknown ==
  ASSUME IInv, Items, Outcome, AllDone, ~failed, Value(public_key[2]) \notin OtsTypes
  PROVE  \A message : ~ChecksOut(args.x, message)
  <1> SUFFICES ASSUME NEW message, ChecksOut(args.x, message) PROVE FALSE
    OBVIOUS
  <1>1. pc = "done" /\ Len(issued) >= levels - 1
    BY DEF AllDone, Outcome
  <1>2. lm_validate_signature(KeyAt(args.x, at), message, FALSE, LastPart(args.x, at))
    BY <1>1, ChainEndsHere
  <1> QED BY <1>2, KnownTypes DEF Items

-----------------------------------------------------------------------------
\* The invariant holds at the beginning.
LEMMA InitWalk == Init => WInv
  BY DEF Init, WInv, Unused

\* A call that returns has no items, and leaves the context alone or sets it up.
LEMMA InitReturnsSession ==
  ASSUME IInv, Items, Outcome, InitReturns, ctx'.status = "none"
  PROVE  Session'
  <1>1. /\ UpperLevelsGood /\ given' = given /\ AllDone
        /\ \E q \in Read(args.x.signature, at + 1), C \in Read(args.x.signature, at + 3) :
             ctx' = Prepared(q, C)
    <2>1. ctx' # Bad
      <3>1. Bad.status = "bad signature"
        BY DEF Bad
      <3> QED BY <3>1
    <2> QED BY <2>1 DEF InitReturns
  <1>2. PICK q \in Read(args.x.signature, at + 1), C \in Read(args.x.signature, at + 3) :
          ctx' = Prepared(q, C)
    BY <1>1
  <1> PICK x, a, key : x = args.x /\ a = at /\ key = public_key
    OBVIOUS
  <1>3. ctx' = [status |-> "none", from |-> x, message |-> <<>>, final_public_key |-> key,
                q |-> q, C |-> C, signature_offset |-> a, signature_len |-> Len(x.signature) - a]
    BY <1>2 DEF Prepared, signature_len
  <1>4. \E starts \in Chains(x) : a = Final(x, starts)
    BY <1>1, EndsWell DEF UpperLevelsGood
  <1>5. <<>> \in UNION {[1 .. n -> Pieces] : n \in 0 .. MaxPieces}
    <2>1. 0 \in 0 .. MaxPieces /\ <<>> \in [1 .. 0 -> Pieces]
      BY VerifyAssumption
    <2> QED BY <2>1
  <1>6. x \in given' /\ key = KeyAt(x, a)
    BY <1>1 DEF Outcome, Items
  <1>7. q \in Read(x.signature, a + 1) /\ C \in Read(x.signature, a + 3)
    BY <1>2
  <1>8. /\ ctx'.from = x /\ ctx'.message = <<>> /\ ctx'.final_public_key = key
        /\ ctx'.signature_offset = a /\ ctx'.signature_len = Len(x.signature) - a
        /\ ctx'.q = q /\ ctx'.C = C
    BY <1>3
  <1>9. ctx' = [status |-> "none", from |-> ctx'.from, message |-> ctx'.message,
                final_public_key |-> ctx'.final_public_key, q |-> ctx'.q, C |-> ctx'.C,
                signature_offset |-> ctx'.signature_offset, signature_len |-> ctx'.signature_len]
    BY <1>3, <1>8
  <1> QED BY <1>4, <1>5, <1>6, <1>7, <1>8, <1>9 DEF Session

\* What a context consists of.
Context(from, message, key, q, C, offset, len) ==
  [status |-> "none", from |-> from, message |-> message, final_public_key |-> key,
   q |-> q, C |-> C, signature_offset |-> offset, signature_len |-> len]

LEMMA OtherMessage ==
  ASSUME NEW from, NEW message, NEW key, NEW q, NEW C, NEW offset, NEW len, NEW new
  PROVE  [Context(from, message, key, q, C, offset, len) EXCEPT !.message = new]
           = Context(from, new, key, q, C, offset, len)
  BY DEF Context

\* A piece is added at the end of the message.
LEMMA UpdateSession ==
  ASSUME Session, NEW piece \in Pieces, Update(piece)
  PROVE  /\ Session' /\ ctx'.from = ctx.from /\ ctx'.status = "none"
         /\ ctx'.message = Append(ctx.message, piece)
  <1>1. given' = given /\ Len(ctx.message) < MaxPieces /\ ctx' = [ctx EXCEPT !.message = Append(@, piece)]
    BY DEF Update
  <1>2. PICK n \in 0 .. MaxPieces : ctx.message \in [1 .. n -> Pieces]
    BY DEF Session
  <1>3. ctx.message \in Seq(Pieces) /\ Len(ctx.message) = n
    <2>1. n \in Nat
      BY <1>2, VerifyAssumption
    <2>2. ctx.message \in Seq(Pieces)
      BY <1>2, <2>1, FunctionIsSequence
    <2> QED BY <1>2, <2>1, <2>2
  <1> PICK new : new = Append(ctx.message, piece)
    OBVIOUS
  <1>4. new \in UNION {[1 .. k -> Pieces] : k \in 0 .. MaxPieces}
    <2>1. new \in Seq(Pieces) /\ Len(new) = n + 1
      BY <1>3
    <2>2. new \in [1 .. n + 1 -> Pieces]
      BY <2>1, LenProperties
    <2>3. n + 1 \in 0 .. MaxPieces
      BY <1>1, <1>2, <1>3, VerifyAssumption
    <2> QED BY <2>2, <2>3
  <1>5. ctx' = [status |-> "none", from |-> ctx.from, message |-> new,
                final_public_key |-> ctx.final_public_key, q |-> ctx.q, C |-> ctx.C,
                signature_offset |-> ctx.signature_offset, signature_len |-> ctx.signature_len]
    <2> PICK from, message, key, q, C, offset, len :
          /\ from = ctx.from /\ message = ctx.message /\ key = ctx.final_public_key
          /\ q = ctx.q /\ C = ctx.C /\ offset = ctx.signature_offset /\ len = ctx.signature_len
      OBVIOUS
    <2>1. ctx = Context(from, message, key, q, C, offset, len)
      BY DEF Session, Context
    <2>2. ctx' = [ctx EXCEPT !.message = new]
      BY <1>1
    <2>3. ctx' = Context(from, new, key, q, C, offset, len)
      <3>1. [Context(from, message, key, q, C, offset, len) EXCEPT !.message = new] = Context(from, new, key, q, C, offset, len)
        BY ONLY OtherMessage
      <3> QED BY ONLY <2>1, <2>2, <3>1
    <2> QED BY <2>3 DEF Context
  <1>6. /\ ctx'.from = ctx.from /\ ctx'.message = new /\ ctx'.final_public_key = ctx.final_public_key
        /\ ctx'.signature_offset = ctx.signature_offset /\ ctx'.signature_len = ctx.signature_len
        /\ ctx'.q = ctx.q /\ ctx'.C = ctx.C /\ ctx'.status = "none"
    BY <1>5
  <1>7. ctx' = [status |-> "none", from |-> ctx'.from, message |-> ctx'.message,
                final_public_key |-> ctx'.final_public_key, q |-> ctx'.q, C |-> ctx'.C,
                signature_offset |-> ctx'.signature_offset, signature_len |-> ctx'.signature_len]
    BY <1>5, <1>6
  <1> QED BY <1>1, <1>4, <1>6, <1>7 DEF Session

\* Every step keeps the invariant.
LEMMA WalkStep == IInv /\ WInv /\ [Next]_vars => WInv'
  <1> SUFFICES ASSUME IInv, WInv, [Next]_vars PROVE WInv'
    OBVIOUS
  <1>i. pc # "idle" => Items /\ Outcome
    BY DEF WInv
  <1>s. UNCHANGED <<given, ctx>> => (ctx'.status = "none" => Session')
    BY DEF WInv, Session
  <1>1. ASSUME NEW x \in given, NEW message \in Messages, Validate(x, message) PROVE WInv'
    BY <1>1, <1>s, StartWalk DEF Validate, WInv
  <1>2. ASSUME NEW x \in given, InitContext(x) PROVE WInv'
    BY <1>2, StartWalk DEF InitContext, WInv, Unused
  <1>3. ASSUME NEW x \in given, NEW message, ValidateRefused(x, message) PROVE WInv'
    BY <1>3, <1>s DEF ValidateRefused, WInv
  <1>4. ASSUME NEW x \in given, InitRefused(x) \/ Finalize(x) PROVE WInv'
    <2>1. pc' = "idle" /\ ctx'.status # "none"
      <3>1. CASE InitRefused(x)
        BY <3>1 DEF InitRefused, Bad, walk
      <3>2. CASE Finalize(x)
        BY <3>2 DEF Finalize, Used, walk
      <3> QED BY <1>4, <3>1, <3>2
    <2> QED BY <2>1 DEF WInv
  <1>5. CASE FinalizeRefused
    BY <1>5, <1>s DEF FinalizeRefused, WInv
  <1>6. ASSUME NEW piece \in Pieces, Update(piece) PROVE WInv'
    BY <1>6, UpdateSession DEF Update, WInv
  <1>7. CASE NextLevel
    BY <1>7, <1>i, <1>s, NextLevelItems DEF NextLevel, InLoop, WInv
  <1>8. CASE Malformed
    BY <1>8, <1>i, <1>s, MalformedItems DEF Malformed, InLoop, WInv
  <1>9. CASE Bottom
    BY <1>9, <1>i, <1>s, BottomItems DEF Bottom, WInv
  <1>10. CASE ValidateReturns
    BY <1>10, <1>s DEF ValidateReturns, Return, WInv
  <1>11. CASE InitReturns
    BY <1>11, <1>i, InitReturnsSession DEF InitReturns, AllDone, Return, WInv
  <1>12. ASSUME NEW i \in 1 .. MaxLevels, validate_internal_sig(i) PROVE WInv'
    <2>1. /\ UNCHANGED <<given, pc, function, args, public_key, at, issued, failed, ctx, answer>>
          /\ i \in 1 .. Len(issued) /\ checked' = checked \cup {i}
          /\ got_error' = (got_error \/ ~Valid(issued[i]))
      BY <1>12 DEF validate_internal_sig
    <2>2. pc # "idle"
      BY <2>1, EmptyEntries DEF IInv, Position
    <2>3. Items'
      BY <1>i, <2>1, <2>2, SameItems
    <2>4. got_error' => \E k \in checked' : ~Valid(issued'[k])
      BY <1>i, <2>1, <2>2 DEF Outcome
    <2>5. levels' = levels
      BY <2>1 DEF levels
    <2>6. Outcome'
      BY <1>i, <2>1, <2>2, <2>4, <2>5 DEF Outcome
    <2> QED BY <1>s, <2>1, <2>3, <2>6 DEF WInv
  <1>13. CASE UNCHANGED vars
    <2>1. UNCHANGED <<given, pc, function, args, public_key, at, issued, checked, got_error, failed, ctx, answer>>
      BY <1>13 DEF vars, walk
    <2>2. pc # "idle" => Items'
      BY <1>i, <2>1, SameItems
    <2>3. pc # "idle" => Outcome'
      BY <1>i, <2>1 DEF Outcome, levels
    <2> QED BY <1>s, <2>1, <2>2, <2>3 DEF WInv
  <1> QED
    BY <1>1, <1>2, <1>3, <1>4, <1>5, <1>6, <1>7, <1>8, <1>9, <1>10, <1>11, <1>12, <1>13
    DEF Next, Walk, Work

(* The invariant that the answers follow from.                             *)
THEOREM Walks == Spec => [](IInv /\ WInv)
  BY InitEstablishes, NextPreserves, InitWalk, WalkStep, PTL DEF Spec

(* hss_validate_signature returns true exactly for the signatures that     *)
(* check out, in whatever order the work items ran: Soundness, and nothing *)
(* that is good is turned down.                                            *)
THEOREM ExactVerdicts ==
  Spec => [][pc = "done" /\ pc' = "idle" /\ function = "validate" =>
               (answer'.ok <=> ChecksOut(args.x, args.message))]_vars
  <1> DEFINE Exact == pc = "done" /\ pc' = "idle" /\ function = "validate" =>
                        (answer'.ok <=> ChecksOut(args.x, args.message))
  <1>1. IInv /\ WInv /\ Next => Exact
    <2> SUFFICES ASSUME IInv, WInv, Next, pc = "done", pc' = "idle", function = "validate"
                 PROVE  answer'.ok <=> ChecksOut(args.x, args.message)
      OBVIOUS
    <2>1. ValidateReturns
      BY DEF Next, Walk, Work, Validate, ValidateRefused, InitContext, InitRefused, Finalize,
        NextLevel, Malformed, Bottom, InitReturns, validate_internal_sig, Update,
        FinalizeRefused, InLoop, Start
    <2>2. AllDone /\ (answer'.ok <=> ~failed /\ ~got_error) /\ Items /\ Outcome
      BY <2>1 DEF ValidateReturns, Answer, WInv, IInv, Typing
    <2> QED BY <2>2, EndsWell, EndsBadly
  <1>2. IInv /\ WInv /\ [Next]_vars => [Exact]_vars
    BY <1>1
  <1> QED BY <1>2, Walks, PTL DEF Spec

-----------------------------------------------------------------------------
(* The promise.                                                            *)

\* Two chains of the same words end alike.
LEMMA ChainsEndAlike ==
  ASSUME NEW x, Len(x.signature) \in Nat, NEW starts \in Chains(x), NEW other \in Chains(x)
  PROVE  Final(x, starts) = Final(x, other)
  <1>1. /\ Value(x.public_key[1]) \in Nat /\ Value(x.public_key[1]) >= 1
        /\ Follow(x, Value(x.public_key[1]), other)
    BY ChainOf, LevelNumber DEF Follow
  <1>2. Value(x.public_key[1]) \in 1 .. Value(x.public_key[1])
    BY <1>1
  <1>3. \A k \in 1 .. Value(x.public_key[1]) : other[k] = starts[k]
    BY <1>1, <1>2, OneChain
  <1> QED BY <1>2, <1>3 DEF Final

\* What is no number is no index inside a tree.
LEMMA SmallNumbers ==
  ASSUME NEW word, NEW lm_type \in DOMAIN LmHeight, Value(word) < 2 ^ LmHeight[lm_type]
  PROVE  word[1] = "num"
  <1> SUFFICES ASSUME word[1] # "num" PROVE FALSE
    OBVIOUS
  <1> PICK h : h = LmHeight[lm_type]
    OBVIOUS
  <1>1. h \in Nat /\ h <= 30
    BY HeightAssumption
  <1>2. 2 ^ h <= 2 ^ 30 /\ 2 ^ h \in Nat /\ 2 ^ 30 \in Nat
    BY <1>1, PowerMonotone, PowerNat
  <1>3. 2 ^ 30 < 2 ^ h
    BY DEF Value
  <1> QED BY <1>2, <1>3

\* The digest of an incremental check is that of the signature, if it is long enough.
LEMMA SameDigest ==
  ASSUME NEW x, Len(x.signature) \in Nat, NEW start \in Nat, NEW key, NEW message,
         \A k \in 1 .. Len(x.signature) :
           x.signature[k][1] = "num" => x.signature[k] = Num(Value(x.signature[k])),
         NEW q \in Read(x.signature, start + 1), NEW C \in Read(x.signature, start + 3)
  PROVE  lm_validate_signature(key, Digest(key[3], q, C, message), TRUE, LastPart(x, start))
           <=> lm_validate_signature(key, message, FALSE, LastPart(x, start))
  <1> DEFINE sig == x.signature
             last == LastPart(x, start)
  <1>1. CASE ~WellFormed(key, last)
    BY <1>1 DEF lm_validate_signature
  <1>2. CASE WellFormed(key, last)
    <2>1. /\ Value(key[1]) \in DOMAIN LmHeight /\ Value(last[1]) < 2 ^ LmHeight[Value(key[1])]
          /\ Len(last) = 5 + LmHeight[Value(key[1])]
      BY <1>2 DEF WellFormed
    <2>2. Len(last) >= 5 /\ Len(last) \in Nat
      <3> PICK h, n : h = LmHeight[Value(key[1])] /\ n = Len(last)
        OBVIOUS
      <3>1. h \in 0 .. 25
        <4>1. Value(key[1]) \in DOMAIN LmHeight
          BY <2>1
        <4> QED BY <4>1, HeightAssumption
      <3>2. n = 5 + h
        BY <2>1
      <3>3. n >= 5 /\ n \in Nat
        BY ONLY <3>1, <3>2
      <3> QED BY <3>3
    <2>3. start + 1 \in Int /\ Len(sig) \in Int
      OBVIOUS
    <2>4. Len(last) = IF start + 1 <= Len(sig) THEN Len(sig) - (start + 1) + 1 ELSE 0
      BY <2>3, SomeWords DEF LastPart
    <2>5. start + 5 <= Len(sig)
      BY <2>2, <2>3, <2>4
    <2>6. \A k \in 1 .. Len(sig) - (start + 1) + 1 : last[k] = sig[(start + 1) + k - 1]
      BY <2>3, SomeWords DEF LastPart
    <2>7. last[1] = sig[start + 1] /\ last[3] = sig[start + 3]
      <3>1. 1 \in 1 .. Len(sig) - (start + 1) + 1 /\ 3 \in 1 .. Len(sig) - (start + 1) + 1
        BY <2>5
      <3>2. last[1] = sig[(start + 1) + 1 - 1] /\ last[3] = sig[(start + 1) + 3 - 1]
        BY <2>6, <3>1
      <3>3. (start + 1) + 1 - 1 = start + 1 /\ (start + 1) + 3 - 1 = start + 3
        OBVIOUS
      <3> QED BY <3>2, <3>3
    <2>8. q = last[1] /\ C = last[3]
      BY <2>5, <2>7 DEF Read
    <2>9. last[1] = Num(Value(last[1]))
      <3>1. start + 1 \in 1 .. Len(sig)
        BY <2>5
      <3>2. last[1][1] = "num"
        BY <2>1, SmallNumbers
      <3> QED BY <2>7, <3>1, <3>2
    <2>10. Digested(key, Digest(key[3], q, C, message), TRUE, last) = Digested(key, message, FALSE, last)
      BY <2>8, <2>9 DEF Digested
    <2> QED BY <2>10 DEF lm_validate_signature
  <1> QED BY <1>1, <1>2

\* What hss_validate_signature_finalize checks.
LEMMA FinalizeChecks ==
  ASSUME IInv, Session, NEW x \in given, Len(x.signature) = Len(ctx.from.signature)
  PROVE  FinalCheck(x.signature) <=>
           lm_validate_signature(ctx.final_public_key,
             Digest(ctx.final_public_key[3], ctx.q, ctx.C, ctx.message), TRUE,
             LastPart(x, ctx.signature_offset))
  <1>1. Len(x.signature) \in Nat
    BY PresentedLength
  <1>2. ctx.signature_offset \in 1 .. Len(x.signature)
    <2>1. PICK starts \in Chains(ctx.from) : ctx.signature_offset = Final(ctx.from, starts)
      BY DEF Session
    <2>2. starts \in [1 .. Value(ctx.from.public_key[1]) -> 1 .. Len(x.signature)]
          /\ LevelsAgree(ctx.from)
      BY <1>1, ChainOf
    <2>3. Value(ctx.from.public_key[1]) \in Nat /\ Value(ctx.from.public_key[1]) >= 1
      BY <1>1, <2>2, LevelNumber
    <2> QED BY <2>1, <2>2, <2>3 DEF Final
  <1>3. ctx.signature_offset + ctx.signature_len = Len(x.signature)
    BY <1>1, <1>2 DEF Session
  <1> QED BY <1>3 DEF FinalCheck, LastPart

\* What the second half of Genuine says.
LEMMA OnlySigner ==
  ASSUME NEW application, Genuine(application), NEW x \in application, NEW from \in application,
         NEW starts \in Chains(from), NEW start, start = Final(from, starts),
         NEW key, key = KeyAt(from, start), Len(x.signature) = Len(from.signature)
  PROVE  \A message \in CheckedMessages,
            q \in Read(from.signature, start + 1), C \in Read(from.signature, start + 3) :
           lm_validate_signature(key, Digest(key[3], q, C, message), TRUE, LastPart(x, start))
             => \E y \in application : message \in y.signed
  BY DEF Genuine

\* With genuine signatures, what hss_validate_signature_finalize answers for the signature
\* that the context was set up with, and for another one.
LEMMA FinalAnswers ==
  ASSUME IInv, Session, Genuine(given), NEW x \in given, Len(x.signature) = Len(ctx.from.signature)
  PROVE  /\ x = ctx.from => (FinalCheck(x.signature) <=> ctx.message \in x.signed)
         /\ FinalCheck(x.signature) => \E y \in given : ctx.message \in y.signed
  <1> PICK from, start, m : from = ctx.from /\ start = ctx.signature_offset /\ m = ctx.message
    OBVIOUS
  <1>1. from \in given /\ Len(from.signature) \in Nat /\ m \in CheckedMessages
    BY PresentedLength DEF Session, CheckedMessages
  <1>2. PICK starts \in Chains(from) : start = Final(from, starts)
    BY DEF Session
  <1>3. start \in Nat
    <2>1. starts \in [1 .. Value(from.public_key[1]) -> 1 .. Len(from.signature)] /\ LevelsAgree(from)
      BY <1>1, <1>2, ChainOf
    <2>2. Value(from.public_key[1]) \in Nat /\ Value(from.public_key[1]) >= 1
      BY <1>1, <2>1, LevelNumber
    <2>3. start \in 1 .. Len(from.signature)
      BY <1>2, <2>1, <2>2 DEF Final
    <2> QED BY <1>1, <2>3
  <1> PICK key, q, C : key = KeyAt(from, start) /\ q = ctx.q /\ C = ctx.C
    OBVIOUS
  <1>4. /\ ctx.final_public_key = key
        /\ q \in Read(from.signature, start + 1) /\ C \in Read(from.signature, start + 3)
    BY DEF Session
  <1>5. FinalCheck(x.signature) <=>
          lm_validate_signature(key, Digest(key[3], q, C, m), TRUE, LastPart(x, start))
    BY <1>4, FinalizeChecks
  <1>6. FinalCheck(x.signature) => \E y \in given : m \in y.signed
    <2>1. \A message \in CheckedMessages,
             qq \in Read(from.signature, start + 1), CC \in Read(from.signature, start + 3) :
            lm_validate_signature(key, Digest(key[3], qq, CC, message), TRUE, LastPart(x, start))
              => \E y \in given : message \in y.signed
      BY <1>1, <1>2, OnlySigner
    <2> QED BY <1>1, <1>4, <1>5, <2>1
  <1>7. ASSUME x = from PROVE FinalCheck(x.signature) <=> m \in x.signed
    <2>1. \A k \in 1 .. Len(from.signature) :
            from.signature[k][1] = "num" => from.signature[k] = Num(Value(from.signature[k]))
      BY <1>1 DEF Genuine
    <2>2. FinalCheck(x.signature) <=> lm_validate_signature(key, m, FALSE, LastPart(from, start))
      BY <1>1, <1>3, <1>4, <1>5, <1>7, <2>1, SameDigest
    <2>3. lm_validate_signature(key, m, FALSE, LastPart(from, start)) <=> ChecksOut(from, m)
      <3>1. ASSUME NEW other \in Chains(from) PROVE Final(from, other) = start
        BY <1>1, <1>2, ChainsEndAlike
      <3> QED BY <1>2, <3>1 DEF ChecksOut
    <2>4. from.signed = {message \in CheckedMessages : ChecksOut(from, message)}
      BY <1>1 DEF Genuine
    <2>5. m \in from.signed <=> ChecksOut(from, m)
      BY <1>1, <2>4
    <2> QED BY <1>7, <2>2, <2>3, <2>5
  <1> QED BY <1>6, <1>7

\* Whom the promise is given for.
LEMMA SignedMessages ==
  ASSUME Genuine(given), NEW x \in given
  PROVE  /\ \A message \in Messages : message \in x.signed <=> ChecksOut(x, message)
         /\ (\A message : ~ChecksOut(x, message)) => x.signed = {}
  <1>1. x.signed = {message \in CheckedMessages : ChecksOut(x, message)}
    BY DEF Genuine
  <1>2. ASSUME NEW message \in Messages PROVE message \in x.signed <=> ChecksOut(x, message)
    BY <1>1 DEF CheckedMessages
  <1> QED BY <1>1, <1>2

\* The levels have to agree.
LEMMA NothingChecksOut ==
  ASSUME NEW x, Len(x.signature) \in Nat, ~LevelsAgree(x)
  PROVE  \A message : ~ChecksOut(x, message)
  BY ChainOf DEF ChecksOut

\* What a context looks like to the caller.
session == IF ctx.status = "none"
           THEN [open |-> TRUE, with |-> ctx.from, message |-> ctx.message]
           ELSE [open |-> FALSE]

LEMMA LongerSession ==
  ASSUME NEW yes, NEW x, NEW words, NEW longer
  PROVE  [[open |-> yes, with |-> x, message |-> words] EXCEPT !.message = longer]
           = [open |-> yes, with |-> x, message |-> longer]
  OBVIOUS

\* Every step is one of the promise, or invisible.
LEMMA PromisedStep ==
  ASSUME IInv, WInv, [Next]_vars, Genuine(given)
  PROVE  [Promise!Next]_(Promise!vars)
  <1>v. UNCHANGED <<given, answer, ctx>> => UNCHANGED Promise!vars
    BY DEF Promise!vars
  <1>g. given' = given => (Promise!vars' = <<given, answer', session'>> /\ Promise!vars = <<given, answer, session>>)
    BY DEF Promise!vars, session
  <1>c. Promise!Closed = [open |-> FALSE] /\ Promise!NoAnswer = NoAnswer
    BY DEF Promise!Closed, Promise!NoAnswer, NoAnswer
  <1>a. \A question, x, message, ok :
          Promise!Answer(question, x, message, ok) = Answer(question, x, message, ok)
    BY DEF Promise!Answer, Answer
  <1>1. ASSUME NEW x \in given, NEW message \in Messages, Validate(x, message)
        PROVE  [Promise!Next]_(Promise!vars)
    <2>1. answer' = NoAnswer /\ UNCHANGED <<given, ctx>>
      BY <1>1 DEF Validate, Start
    <2>2. Promise!Ask
      BY <1>c, <2>1 DEF Promise!Ask
    <2> QED BY <2>1, <2>2 DEF Promise!Next
  <1>2. ASSUME NEW x \in given, InitContext(x)
        PROVE  [Promise!Next]_(Promise!vars)
    <2>1. answer' = NoAnswer /\ UNCHANGED given /\ ctx'.status # "none"
      BY <1>2 DEF InitContext, Start, Unused
    <2>2. Promise!Ask
      BY <1>c, <2>1 DEF Promise!Ask
    <2> QED BY <2>1, <2>2 DEF Promise!Next
  <1>3. ASSUME NEW x \in given, NEW message \in Messages, ValidateRefused(x, message)
        PROVE  [Promise!Next]_(Promise!vars)
    <2>1. answer' = Answer("whole", x, message, FALSE) /\ UNCHANGED <<given, ctx>> /\ ~LevelsAgree(x)
      BY <1>3 DEF ValidateRefused
    <2>2. ~(message \in x.signed)
      BY <2>1, PresentedLength, NothingChecksOut, SignedMessages
    <2>3. Promise!Check(x, message)
      <3>1. FALSE <=> message \in x.signed
        BY <2>2
      <3>2. answer' = Answer("whole", x, message, message \in x.signed)
        <4> PICK ok \in BOOLEAN : ok = FALSE
          OBVIOUS
        <4>1. answer' = Answer("whole", x, message, ok)
          BY <2>1
        <4>2. ok = (message \in x.signed)
          BY <3>1
        <4> QED BY <4>1, <4>2
      <3> QED BY <1>a, <2>1, <3>2 DEF Promise!Check
    <2> QED BY <2>1, <2>3 DEF Promise!Next
  <1>4. ASSUME NEW x \in given, InitRefused(x)
        PROVE  [Promise!Next]_(Promise!vars)
    <2>1. /\ answer' = Answer("begin", x, <<>>, FALSE) /\ UNCHANGED given
          /\ ~LevelsAgree(x) /\ ctx'.status # "none"
      BY <1>4 DEF InitRefused, Bad
    <2>2. x.signed = {}
      BY <2>1, PresentedLength, NothingChecksOut, SignedMessages
    <2>3. Promise!Refuse(x)
      BY <1>a, <1>c, <2>1, <2>2 DEF Promise!Refuse
    <2> QED BY <2>1, <2>3 DEF Promise!Next
  <1>5. ASSUME NEW x \in given, Finalize(x)
        PROVE  [Promise!Next]_(Promise!vars)
    <2>1. /\ ctx.status = "none" /\ Len(x.signature) = Len(ctx.from.signature)
          /\ answer' = Answer("end", x, ctx.message, FinalCheck(x.signature))
          /\ UNCHANGED given /\ ctx'.status # "none"
      BY <1>5 DEF Finalize, Used
    <2>2. FinalCheck(x.signature) \in BOOLEAN
      BY VerdictsAreBoolean DEF FinalCheck
    <2>3. /\ x = ctx.from => (FinalCheck(x.signature) <=> ctx.message \in x.signed)
          /\ FinalCheck(x.signature) => \E y \in given : ctx.message \in y.signed
      BY <2>1, FinalAnswers DEF WInv
    <2>4. Promise!Finish(x)
      BY <1>a, <1>c, <2>1, <2>2, <2>3 DEF Promise!Finish
    <2> QED BY <2>1, <2>4 DEF Promise!Next
  <1>6. CASE FinalizeRefused
    <2>1. /\ answer' = Answer("end", <<>>, <<>>, FALSE) /\ UNCHANGED <<given, ctx>>
          /\ ctx.status # "none"
      BY <1>6 DEF FinalizeRefused
    <2>2. Promise!FinishUnopened
      BY <1>a, <2>1 DEF Promise!FinishUnopened
    <2> QED BY <2>1, <2>2 DEF Promise!Next
  <1>7. ASSUME NEW piece \in Pieces, Update(piece)
        PROVE  [Promise!Next]_(Promise!vars)
    <2>1. /\ answer' = NoAnswer /\ UNCHANGED given /\ ctx.status = "none"
          /\ ctx'.status = "none" /\ ctx'.from = ctx.from /\ ctx'.message = Append(ctx.message, piece)
      BY <1>7, UpdateSession DEF Update, WInv
    <2> PICK from, message : from = ctx.from /\ message = ctx.message
      OBVIOUS
    <2>2. session = [open |-> TRUE, with |-> from, message |-> message]
      BY <2>1 DEF session
    <2>3. session' = [open |-> TRUE, with |-> from, message |-> Append(message, piece)]
      BY <2>1 DEF session
    <2>4. session' = [session EXCEPT !.message = Append(@, piece)] /\ session.open
      <3> PICK yes, longer : yes = TRUE /\ longer = Append(message, piece)
        OBVIOUS
      <3>1. [[open |-> yes, with |-> from, message |-> message] EXCEPT !.message = longer]
              = [open |-> yes, with |-> from, message |-> longer]
        BY ONLY LongerSession
      <3>2. session.open /\ longer = Append(session.message, piece)
        BY <2>2
      <3>3. session' = [session EXCEPT !.message = longer]
        <4>1. /\ session = [open |-> yes, with |-> from, message |-> message]
              /\ session' = [open |-> yes, with |-> from, message |-> longer]
          BY <2>2, <2>3
        <4> QED BY <3>1, <4>1
      <3> QED BY <3>2, <3>3
    <2>5. Promise!Add(piece)
      BY <1>c, <2>1, <2>4 DEF Promise!Add, session
    <2> QED BY <2>1, <2>5 DEF Promise!Next
  <1>8. CASE NextLevel \/ Malformed \/ Bottom
    BY <1>8, <1>v DEF NextLevel, Malformed, Bottom
  <1>9. CASE ValidateReturns
    <2>1. /\ AllDone /\ function = "validate" /\ UNCHANGED <<given, ctx>>
          /\ answer' = Answer("whole", args.x, args.message, ~failed /\ ~got_error)
      BY <1>9 DEF ValidateReturns
    <2>2. Items /\ Outcome
      BY <2>1 DEF AllDone, WInv
    <2>3. args.x \in given /\ args.message \in Messages
      BY <2>1, <2>2 DEF Outcome
    <2>4. (~failed /\ ~got_error) <=> (args.message \in args.x.signed)
      BY <2>1, <2>2, <2>3, EndsWell, EndsBadly, SignedMessages
    <2>5. answer' = Answer("whole", args.x, args.message, args.message \in args.x.signed)
      BY <2>1, <2>4
    <2>6. Promise!Check(args.x, args.message)
      BY <1>a, <2>1, <2>5 DEF Promise!Check
    <2> QED BY <2>1, <2>3, <2>6 DEF Promise!Next
  <1>10. CASE InitReturns
    <2>1. /\ AllDone /\ function = "init" /\ UNCHANGED given
          /\ answer' = Answer("begin", args.x, <<>>, UpperLevelsGood)
      BY <1>10 DEF InitReturns
    <2>2. Items /\ Outcome /\ args.x \in given
      BY <2>1 DEF AllDone, WInv, Outcome
    <2>3. CASE UpperLevelsGood
      <3>1. ctx'.status = "none" /\ ctx'.from = args.x /\ ctx'.message = <<>>
        BY <1>10, <2>3 DEF InitReturns, Prepared
      <3>2. Promise!Accept(args.x)
        BY <1>a, <2>1, <2>3, <3>1 DEF Promise!Accept, Promise!Open
      <3> QED BY <2>1, <2>2, <3>2 DEF Promise!Next
    <2>4. CASE ~UpperLevelsGood
      <3>1. ctx'.status # "none"
        <4>1. ctx' = Bad
          BY <1>10, <2>4 DEF InitReturns
        <4> QED BY <4>1 DEF Bad
      <3>a. answer' = Answer("begin", args.x, <<>>, FALSE)
        <4>1. UpperLevelsGood = FALSE
          BY <2>4 DEF UpperLevelsGood
        <4> QED BY <2>1, <4>1
      <3>2. \A message : ~ChecksOut(args.x, message)
        BY <2>1, <2>2, <2>4, EndsBadly, EndsUnknown DEF UpperLevelsGood
      <3>3. args.x.signed = {}
        BY <2>2, <3>2, SignedMessages
      <3>4. Promise!Refuse(args.x)
        BY <1>a, <1>c, <2>1, <3>1, <3>3, <3>a DEF Promise!Refuse
      <3> QED BY <2>1, <2>2, <3>4 DEF Promise!Next
    <2> QED BY <2>3, <2>4
  <1>11. ASSUME NEW i, validate_internal_sig(i)
         PROVE  [Promise!Next]_(Promise!vars)
    BY <1>11, <1>v DEF validate_internal_sig
  <1>12. CASE UNCHANGED vars
    BY <1>12, <1>v DEF vars
  <1> QED
    BY <1>1, <1>2, <1>3, <1>4, <1>5, <1>6, <1>7, <1>8, <1>9, <1>10, <1>11, <1>12
    DEF Next, Walk, Work

(* With genuine signatures the answers are as hss.h and hss_verify_inc.h   *)
(* promise: whole messages and messages in pieces, with every interleaving *)
(* of the work items, and whatever is read after a truncated signature.    *)
THEOREM AnswersAsPromised ==
  (\A application \in Applications : Genuine(application)) => (Spec => KeepsPromise)
  <1> SUFFICES ASSUME \A application \in Applications : Genuine(application)
               PROVE  Spec => KeepsPromise
    OBVIOUS
  <1>1. Init => Promise!Init
    BY DEF Init, Promise!Init, Promise!NoAnswer, Promise!Closed, NoAnswer, Unused
  <1>2. IInv /\ WInv /\ [Next]_vars => [Promise!Next]_(Promise!vars)
    BY PromisedStep DEF IInv, Typing
  <1> QED
    BY <1>1, <1>2, Walks, PTL DEF Spec, KeepsPromise, Promise!Spec
=============================================================================
