------------------------------ MODULE HssVerify ------------------------------
(***************************************************************************)
(* Verification of HSS signatures (hss_verify.c, hss_verify_inc.c): the    *)
(* walk over the signed public keys, whose LMS signatures are validated by *)
(* work items on the thread pool, and incremental contexts.                *)
(* An application thread makes one call after the other.  The pool performs*)
(* an item at any time between hss_thread_issue_work and the end of        *)
(* hss_thread_done (WorkItems).  An HSS signature is a sequence of words,  *)
(* as are its parts (LmVerify), and a pointer into it is the number of     *)
(* words before it.                                                        *)
(***************************************************************************)
EXTENDS LmVerify, FiniteSets

CONSTANTS MaxLevels,    \* MAX_HSS_LEVELS
          Applications, \* sets of what one application presents: public_key, signature,
                        \* and the messages it is signed for, which only the properties use
          Messages,     \* sequences of pieces that are verified in one call
          Pieces,       \* what messages are made of
          MaxPieces,    \* bound: the pieces of a message
          Beyond        \* what memory after a truncated signature may hold

ASSUME VerifyAssumption ==
  /\ MaxLevels \in Nat /\ MaxPieces \in Nat
  /\ \A x \in UNION Applications : Len(x.signature) \in Nat

VARIABLES
  given,        \* what the application presents, from now on
  pc,           \* "idle"; "levels" in the loop, "done" in hss_thread_done
  function,     \* the one that runs: "validate" or "init"
  args,         \* its arguments
  public_key,   \* the key that the next LMS signature is checked with
  at,           \* signature: the words parsed so far
  issued,       \* the details of the work items, in the order of the levels
  checked,      \* the items that were performed
  got_error,    \* the variable on the caller's stack that they report to
  failed,       \* the walk took a goto failed
  ctx,          \* struct hss_validate_inc
  answer        \* of the last call

walk == <<function, args, public_key, at, issued, checked, got_error, failed>>
vars == <<given, pc, walk, ctx, answer>>

Unused == [status |-> "uninitialized"]
Bad == [status |-> "bad signature"]
Used == [status |-> "already used"]

NoAnswer == [ok |-> FALSE]
Answer(question, x, message, ok) ==
  [question |-> question, to |-> x, message |-> message, ok |-> ok]

Init == /\ given \in Applications
        /\ pc = "idle" /\ function = "none" /\ args = <<>>
        /\ public_key = <<>> /\ at = 0
        /\ issued = <<>> /\ checked = {} /\ got_error = FALSE /\ failed = FALSE
        /\ ctx = Unused /\ answer = NoAnswer

\* The function returns, its variables are gone.
Return == /\ pc' = "idle" /\ function' = "none" /\ args' = <<>>
          /\ public_key' = <<>> /\ at' = 0
          /\ issued' = <<>> /\ checked' = {} /\ got_error' = FALSE /\ failed' = FALSE

\* The levels of the signature have to be those of the public key, 1 to MAX_HSS_LEVELS.
\* The mutants leave out one of the two.
LevelsUnbounded(x) == /\ Len(x.signature) >= 1
                      /\ Value(x.signature[1]) + 1 = Value(x.public_key[1])

LevelsUncompared(x) == /\ Len(x.signature) >= 1
                       /\ Value(x.signature[1]) + 1 \in 1 .. MaxLevels

LevelsAgree(x) == /\ Len(x.signature) >= 1
                  /\ Value(x.signature[1]) + 1 \in 1 .. MaxLevels
                  /\ Value(x.signature[1]) + 1 = Value(x.public_key[1])

levels == Value(args.x.signature[1]) + 1

KeyOf(x) == SubSeq(x.public_key, 2, Len(x.public_key))

\* Both functions begin alike, up to hss_thread_init.
Start(f, x, message) ==
  /\ pc' = "levels"
  /\ function' = f /\ args' = [x |-> x, message |-> message]
  /\ public_key' = KeyOf(x)
  /\ at' = 1
  /\ issued' = <<>> /\ checked' = {} /\ got_error' = FALSE /\ failed' = FALSE
  /\ answer' = NoAnswer

Validate(x, message) ==
  /\ pc = "idle"
  /\ LevelsAgree(x)
  /\ Start("validate", x, message)
  /\ UNCHANGED <<given, ctx>>

ValidateRefused(x, message) ==
  /\ pc = "idle"
  /\ ~LevelsAgree(x)
  /\ answer' = Answer("whole", x, message, FALSE)
  /\ UNCHANGED <<given, pc, walk, ctx>>

InitContext(x) ==
  /\ pc = "idle"
  /\ LevelsAgree(x)
  /\ Start("init", x, <<>>)
  /\ ctx' = Unused
  /\ UNCHANGED given

InitRefused(x) ==
  /\ pc = "idle"
  /\ ~LevelsAgree(x)
  /\ ctx' = Bad
  /\ answer' = Answer("begin", x, <<>>, FALSE)
  /\ UNCHANGED <<given, pc, walk>>

-----------------------------------------------------------------------------
(* The loop over the levels.                                               *)

signature_len == Len(args.x.signature) - at

l_siglen == lm_get_signature_len(Value(public_key[1]), Value(public_key[2]))
SignatureFits == l_siglen # 0 /\ l_siglen <= signature_len

\* The length of the public key that follows the signature, if it fits.
l_pubkeylen == lm_get_public_key_len(Value(args.x.signature[at + l_siglen + 1]))
PublicKeyFits == /\ l_siglen < signature_len
                 /\ l_pubkeylen # 0
                 /\ l_siglen + l_pubkeylen <= signature_len

InLoop == pc = "levels" /\ Len(issued) < levels - 1

\* hss_thread_issue_work copies the detail: the next level may reuse the structure.
Issue(message, len) ==
  issued' = Append(issued, [public_key |-> public_key, message |-> message,
                            at |-> at, signature_len |-> len,
                            signature |-> SubSeq(args.x.signature, at + 1, at + len)])

\* Signature A, and public key B that it signs and that the next level uses.
NextLevel ==
  /\ InLoop
  /\ SignatureFits /\ PublicKeyFits
  /\ LET l_pubkey == SubSeq(args.x.signature, at + l_siglen + 1, at + l_siglen + l_pubkeylen)
     IN  Issue(l_pubkey, l_siglen) /\ public_key' = l_pubkey
  /\ at' = at + l_siglen + l_pubkeylen
  /\ UNCHANGED <<given, pc, function, args, checked, got_error, failed, ctx, answer>>

\* goto failed.  The mutant returns at once.
MalformedReturns ==
  /\ InLoop
  /\ ~(SignatureFits /\ PublicKeyFits)
  /\ \/ function = "init" /\ answer' = Answer("begin", args.x, <<>>, FALSE) /\ ctx' = Bad
     \/ /\ function = "validate" /\ answer' = Answer("whole", args.x, args.message, FALSE)
        /\ UNCHANGED ctx
  /\ Return
  /\ UNCHANGED given

Malformed ==
  /\ InLoop
  /\ ~(SignatureFits /\ PublicKeyFits)
  /\ failed' = TRUE
  /\ pc' = "done"
  /\ UNCHANGED <<given, function, args, public_key, at, issued, checked, got_error, ctx, answer>>

\* After the loop only hss_validate_signature has a message to check.
Bottom ==
  /\ pc = "levels" /\ Len(issued) = levels - 1
  /\ pc' = "done"
  /\ \/ function = "validate" /\ Issue(args.message, signature_len)
     \/ function = "init" /\ UNCHANGED issued
  /\ UNCHANGED <<given, function, args, public_key, at, checked, got_error, failed, ctx, answer>>

-----------------------------------------------------------------------------
(* A worker, and the end of hss_thread_done.                               *)

Valid(detail) ==
  lm_validate_signature(detail.public_key, detail.message, FALSE, detail.signature)

\* In the mutant the last item to report wins.
validate_last_wins(i) ==
  /\ i \in 1 .. Len(issued) /\ i \notin checked
  /\ checked' = checked \cup {i}
  /\ got_error' = ~Valid(issued[i])
  /\ UNCHANGED <<given, pc, function, args, public_key, at, issued, failed, ctx, answer>>

validate_internal_sig(i) ==
  /\ i \in 1 .. Len(issued) /\ i \notin checked
  /\ checked' = checked \cup {i}
  /\ got_error' = (got_error \/ ~Valid(issued[i]))
  /\ UNCHANGED <<given, pc, function, args, public_key, at, issued, failed, ctx, answer>>

AllDone == pc = "done" /\ checked = 1 .. Len(issued)

ValidateReturns ==
  /\ AllDone /\ function = "validate"
  /\ answer' = Answer("whole", args.x, args.message, ~failed /\ ~got_error)
  /\ Return
  /\ UNCHANGED <<given, ctx>>

\* Word i of a signature that may end before it.
Read(sig, i) == IF i <= Len(sig) THEN {sig[i]} ELSE Beyond

\* The hash of the message starts with I, q and C; q and C are read before anything has
\* checked the length of the last signature.
Prepared(q, C) ==
  [status |-> "none", from |-> args.x, message |-> <<>>, final_public_key |-> public_key,
   q |-> q, C |-> C, signature_offset |-> at, signature_len |-> signature_len]

UpperLevelsGood == ~failed /\ ~got_error /\ Value(public_key[2]) \in OtsTypes

InitReturns ==
  /\ AllDone /\ function = "init"
  /\ answer' = Answer("begin", args.x, <<>>, UpperLevelsGood)
  /\ \/ /\ UpperLevelsGood
        /\ \E q \in Read(args.x.signature, at + 1), C \in Read(args.x.signature, at + 3) :
             ctx' = Prepared(q, C)
     \/ /\ ~UpperLevelsGood
        /\ ctx' = Bad
  /\ Return
  /\ UNCHANGED given

-----------------------------------------------------------------------------
(* The message arrives in pieces, and the digest covers them in order.     *)

Update(piece) ==
  /\ pc = "idle"
  /\ ctx.status = "none"
  /\ Len(ctx.message) < MaxPieces
  /\ ctx' = [ctx EXCEPT !.message = Append(@, piece)]
  /\ answer' = NoAnswer
  /\ UNCHANGED <<given, pc, walk>>

FinalCheck(sig) ==
  LET last == SubSeq(sig, ctx.signature_offset + 1, ctx.signature_offset + ctx.signature_len)
      hash == Digest(ctx.final_public_key[3], ctx.q, ctx.C, ctx.message)
  IN  lm_validate_signature(ctx.final_public_key, hash, TRUE, last)

\* The application passes the signature again, or another one that is as long.  In the
\* mutant the context can be used again.
FinalizeKeepsContext(x) ==
  /\ pc = "idle"
  /\ ctx.status = "none"
  /\ Len(x.signature) = Len(ctx.from.signature)
  /\ answer' = Answer("end", x, ctx.message, FinalCheck(x.signature))
  /\ UNCHANGED <<given, pc, walk, ctx>>

Finalize(x) ==
  /\ pc = "idle"
  /\ ctx.status = "none"
  /\ Len(x.signature) = Len(ctx.from.signature)
  /\ answer' = Answer("end", x, ctx.message, FinalCheck(x.signature))
  /\ ctx' = Used
  /\ UNCHANGED <<given, pc, walk>>

\* After an init that failed, or a finalize.
FinalizeRefused ==
  /\ pc = "idle"
  /\ ctx.status \in {"bad signature", "already used"}
  /\ answer' = Answer("end", <<>>, <<>>, FALSE)
  /\ UNCHANGED <<given, pc, walk, ctx>>

-----------------------------------------------------------------------------
Walk == NextLevel \/ Malformed \/ Bottom \/ ValidateReturns \/ InitReturns

Work == \E i \in 1 .. MaxLevels : validate_internal_sig(i)

Next ==
  \/ \E x \in given : \/ \E message \in Messages : \/ Validate(x, message)
                                                      \/ ValidateRefused(x, message)
                      \/ InitContext(x)
                      \/ InitRefused(x)
                      \/ Finalize(x)
  \/ Walk
  \/ Work
  \/ \E piece \in Pieces : Update(piece)
  \/ FinalizeRefused

Spec == Init /\ [][Next]_vars

-----------------------------------------------------------------------------
Statuses == {"uninitialized", "bad signature", "already used", "none"}

(* The shape of the state; never more work items than levels.                *)
TypeOK ==
  /\ pc \in {"idle", "levels", "done"}
  /\ function \in {"none", "validate", "init"}
  /\ pc = "idle" <=> function = "none"
  /\ at \in Nat
  /\ Len(issued) <= MaxLevels
  /\ checked \subseteq 1 .. Len(issued)
  /\ got_error \in BOOLEAN /\ failed \in BOOLEAN
  /\ ctx.status \in Statuses
  /\ answer.ok \in BOOLEAN

(* The words of x are a chain of LMS signatures: one per level, the first    *)
(* checked with the public key, every other with the key that the one before *)
(* it signed, the last one over the message, and nothing left over.          *)
IsChain(x, message, chain) ==
  /\ Len(chain) = Value(x.public_key[1])
  /\ chain[1].public_key = KeyOf(x)
  /\ chain[1].at = 1
  /\ \A k \in 1 .. Len(chain) :
       LET d == chain[k] end == d.at + d.signature_len
       IN  /\ d.signature = SubSeq(x.signature, d.at + 1, end)
           /\ k = Len(chain) => d.message = message /\ end = Len(x.signature)
           /\ k < Len(chain) =>
                LET next == chain[k + 1]
                IN  /\ next.public_key = d.message
                    /\ d.message = SubSeq(x.signature, end + 1, next.at)

(* hss_validate_signature returns true only for a signature that is a chain  *)
(* of valid LMS signatures, in whatever order the work items ran.            *)
AcceptsOnlyChains ==
  [][pc = "done" /\ pc' = "idle" /\ function = "validate" /\ answer'.ok =>
       IsChain(args.x, args.message, issued) /\ \A k \in 1 .. Len(issued) : Valid(issued[k])]_vars

(* No work item is left when a function returns, also by goto failed: they   *)
(* write to a variable on its stack.                                         *)
NothingOutlivesTheCall == [][pc' = "idle" => checked = 1 .. Len(issued)]_vars

Promise == INSTANCE SignatureChecks WITH
             presented <- given,
             session <- IF ctx.status = "none"
                        THEN [open |-> TRUE, with |-> ctx.from, message |-> ctx.message]
                        ELSE [open |-> FALSE]

(* The answers are those that the signer's record of genuine signatures      *)
(* gives, for whole messages and for messages in pieces.                     *)
KeepsPromise == Promise!Spec
-----------------------------------------------------------------------------
(* Whole signatures, apart from how the functions walk over them.           *)

\* The public key that an LMS signature which starts after word a is checked with: four words.
KeyAt(x, a) == IF a = 1 THEN KeyOf(x) ELSE SubSeq(x.signature, a - 3, a)

LmsLength(key) == lm_get_signature_len(Value(key[1]), Value(key[2]))

\* Where the LMS signatures of x start, if all but the last are valid for the key that follows.
Chains(x) ==
  LET L == Value(x.public_key[1])
  IN  IF Len(x.signature) >= 1 /\ L \in 1 .. MaxLevels /\ Value(x.signature[1]) + 1 = L
      THEN {starts \in [1 .. L -> 1 .. Len(x.signature)] :
              /\ starts[1] = 1
              /\ \A k \in 1 .. L - 1 :
                   LET key == KeyAt(x, starts[k]) end == starts[k] + LmsLength(key)
                   IN  /\ starts[k + 1] = end + 4
                       /\ lm_validate_signature(key, KeyAt(x, starts[k + 1]), FALSE,
                                                SubSeq(x.signature, starts[k] + 1, end))}
      ELSE {}

\* Where the last one starts, and what it consists of in a signature of the same length.
Final(x, starts) == starts[Value(x.public_key[1])]
LastPart(x, start) == SubSeq(x.signature, start + 1, Len(x.signature))

ChecksOut(x, message) ==
  \E starts \in Chains(x) :
    LET start == Final(x, starts)
    IN  lm_validate_signature(KeyAt(x, start), message, FALSE, LastPart(x, start))

CheckedMessages == Messages \cup UNION {[1 .. n -> Pieces] : n \in 0 .. MaxPieces}

(* The signer's record of what an application presents is complete, and only *)
(* the signer makes signatures: those messages are on record that the        *)
(* signature checks out for; and if a last LMS signature is valid, under a   *)
(* key that the words of some signature lead to, for a digest of a message   *)
(* that starts with words of that signature, then that message was signed.   *)
Genuine(application) ==
  /\ \A x \in application :
       /\ x.signed = {message \in CheckedMessages : ChecksOut(x, message)}
       /\ \A k \in 1 .. Len(x.signature) :
            x.signature[k][1] = "num" => x.signature[k] = Num(Value(x.signature[k]))
  /\ \A x, from \in application : \A starts \in Chains(from) :
       LET start == Final(from, starts) key == KeyAt(from, start)
       IN  Len(x.signature) = Len(from.signature) =>
             \A message \in CheckedMessages,
                q \in Read(from.signature, start + 1), C \in Read(from.signature, start + 3) :
               lm_validate_signature(key, Digest(key[3], q, C, message), TRUE, LastPart(x, start))
                 => \E y \in application : message \in y.signed
=============================================================================
