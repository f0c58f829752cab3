---------------------------- MODULE HssWorkingKey ----------------------------
(***************************************************************************)
(* The life of an HSS private key as the application sees it: the index in *)
(* secure (NV) storage, the working keys loaded from it, the reservation   *)
(* of sequence numbers, signing, incremental signing contexts, and crashes.*)
(* A signature consumes the sequence number that the Merkle trees of the   *)
(* working key stand at ("cur" here; HssMerkle shows how the trees count). *)
(*                                                                         *)
(* raw distinguishes the two ways every entry point can be called: with    *)
(* update_private_key/read_private_key callbacks (FALSE), or with NULL     *)
(* callbacks and context pointing to the private key in RAM (TRUE).        *)
(***************************************************************************)
EXTENDS Integers

CONSTANTS
  Keys,          \* struct hss_working_key objects of the application
  Ctxs,          \* struct hss_sign_inc objects of the application
  NoCtx,         \* stands for a signature made by hss_generate_signature
  MaxCount,      \* w->max_count: the last sequence number of the key
  AllOnes,       \* the index field of a private key overwritten with 0xFF
  Reservations   \* the counts the application reserves or autoreserves

ASSUME KeyAssumption ==
  /\ MaxCount \in Nat
  /\ AllOnes \in Nat
  /\ AllOnes > MaxCount
  /\ Reservations \subseteq Nat
  /\ NoCtx \notin Ctxs

VARIABLES
  raw,       \* the application passes update_private_key == NULL, always or never
  nv,        \* the index field of the private key in NV storage
  wk,        \* the working keys
  call,      \* the signing call in progress, if any
  ctx,       \* the incremental signing contexts
  uses,      \* history: OTS signatures handed to the application, per index
  promise,   \* history: below this count signing needs no write (hss_reserve_signature)
  gone       \* history: the numbers below it were given to a signature or a context,
             \* or passed over

vars == <<raw, nv, wk, call, ctx, uses, promise, gone>>

Indices == 0 .. MaxCount
Counts == 0 .. MaxCount + 1
Status == {"uninitialized", "none", "expired"}
WorkingKey == [status : Status, cur : Counts, reserve : Indices,
               pk : Indices \cup {AllOnes}, auto : Nat]
Context == [status : {"unusable", "none", "used"}, q : Indices]
NoCall == [busy |-> FALSE]
Calls == [busy : {TRUE}, key : Keys, ctx : Ctxs \cup {NoCtx}]

TypeOK ==
  /\ raw \in BOOLEAN
  /\ nv \in Indices \cup {AllOnes}
  /\ wk \in [Keys -> WorkingKey]
  /\ call \in {NoCall} \cup Calls
  /\ ctx \in [Ctxs -> Context]
  /\ uses \in [Indices -> Nat]
  /\ promise \in [Keys -> Nat]
  /\ gone \in Counts

-----------------------------------------------------------------------------
(* Storage.  A callback may report failure before or after it has written:  *)
(* demo.c's update_private_key reports the failure of fclose after fwrite.  *)
(* A raw private key is written with put_bigendian/memset and cannot fail.  *)
Writes == IF raw THEN {"ok"} ELSE {"ok", "failed", "failed_written"}
Stored(w, v) == IF w = "failed" THEN nv ELSE v

\* The raw private key must be the one the working key was loaded from, index
\* included (with callbacks there is nothing to compare).
KeyMatchesUnchecked(k) == TRUE
KeyMatches(k) == raw => wk[k].pk = nv

\* A freshly allocated working key.
Allocated == [status |-> "uninitialized", cur |-> 0, reserve |-> 0, pk |-> 0, auto |-> 0]

Usable(k) == wk[k].status = "none"
Loaded(k) == wk[k].status # "uninitialized"

-----------------------------------------------------------------------------
Init ==
  /\ raw \in BOOLEAN
  /\ nv = 0                      \* hss_generate_private_key stores index 0
  /\ wk = [k \in Keys |-> Allocated]
  /\ call = NoCall
  /\ ctx = [c \in Ctxs |-> [status |-> "unusable", q |-> 0]]
  /\ uses = [i \in Indices |-> 0]
  /\ promise = [k \in Keys |-> 0]
  /\ gone = 0

(* hss_generate_working_key.  With callbacks nothing ties a working key to  *)
(* the stored one, and sharing a private key between signers is unsupported:*)
(* the application loads a key only when no other loaded key can still sign.*)
Load(k, readOk) ==
  /\ call = NoCall
  /\ ~raw => \A j \in Keys \ {k} : ~Usable(j)
  /\ raw => readOk
  /\ wk' = [wk EXCEPT ![k] =
              IF readOk /\ nv <= MaxCount
              THEN [@ EXCEPT !.status = "none", !.cur = nv, !.reserve = nv, !.pk = nv]
              ELSE [@ EXCEPT !.status = "uninitialized"]]
  /\ promise' = [promise EXCEPT ![k] = 0]
  /\ UNCHANGED <<nv, call, ctx, uses, gone, raw>>

\* hss_free_working_key, and allocate_working_key for the next use of the object.
Free(k) ==
  /\ call = NoCall
  /\ wk' = [wk EXCEPT ![k] = Allocated]
  /\ promise' = [promise EXCEPT ![k] = 0]
  /\ UNCHANGED <<nv, call, ctx, uses, gone, raw>>

SetAutoreserve(k, n) ==
  /\ call = NoCall
  /\ wk' = [wk EXCEPT ![k] = [@ EXCEPT !.auto = n]]
  /\ UNCHANGED <<nv, call, ctx, uses, promise, gone, raw>>

\* The reservation ends before the last signature, which always writes (it trashes
\* the stored key): a request that includes it is refused (ReservesWhatIsLeft).
CanReserve(k, n) == n <= MaxCount /\ wk[k].cur <= MaxCount - n

(* hss_reserve_signature: a refusal changes nothing, so only the accepting  *)
(* calls are steps.                                                         *)
Reserve(k, n, w) ==
  LET new == wk[k].cur + n IN
  /\ call = NoCall
  /\ Usable(k)
  /\ KeyMatches(k)
  /\ CanReserve(k, n)
  /\ \/ /\ new <= wk[k].reserve                   \* already reserved
        /\ w = "ok"
        /\ promise' = [promise EXCEPT ![k] = IF new > @ THEN new ELSE @]
        /\ UNCHANGED <<nv, wk>>
     \/ /\ new > wk[k].reserve
        /\ nv' = Stored(w, new)
        /\ IF w = "ok"
           THEN /\ wk' = [wk EXCEPT ![k] = [@ EXCEPT !.reserve = new, !.pk = new]]
                /\ promise' = [promise EXCEPT ![k] = new]
           ELSE /\ wk' = [wk EXCEPT ![k] = [@ EXCEPT !.pk = wk[k].reserve]]
                /\ UNCHANGED promise
  /\ UNCHANGED <<call, ctx, uses, gone, raw>>

-----------------------------------------------------------------------------
(* Signing.  hss_generate_signature (c = NoCtx) and hss_sign_init (c a      *)
(* context) first advance the stored count, then generate; the process may  *)
(* crash in between.  hss_sign_init makes its context unusable until then.  *)

Unusable == [status |-> "unusable", q |-> 0]
Spoil(c) == IF c = NoCtx THEN ctx ELSE [ctx EXCEPT ![c] = Unusable]

\* Refused: the key cannot be used, it is not the caller's raw private key, or the
\* signature buffer is too short, which is up to the caller.
SignRefused(k, c, fits) ==
  /\ call = NoCall
  /\ ~Usable(k) \/ ~KeyMatches(k) \/ ~fits
  /\ ctx' = Spoil(c)
  /\ UNCHANGED <<nv, wk, call, uses, promise, gone, raw>>

\* The count that hss_advance_count writes when the reservation is used up.
NewCountUnclamped(k) == wk[k].cur + 1 + wk[k].auto
NewCount(k) ==
  IF MaxCount - (wk[k].cur + 1) > wk[k].auto THEN wk[k].cur + 1 + wk[k].auto ELSE MaxCount

\* hss_advance_count on the last sequence number: no more signatures, whatever
\* the write returns, and the stored key is overwritten.
AdvanceLastRetries(k, c, w) ==
  /\ wk[k].cur = MaxCount
  /\ nv' = Stored(w, AllOnes)
  /\ wk' = [wk EXCEPT ![k] = [@ EXCEPT !.status = IF w = "ok" THEN "expired" ELSE @]]
  /\ call' = IF w = "ok" THEN [busy |-> TRUE, key |-> k, ctx |-> c] ELSE NoCall

AdvanceLast(k, c, w) ==
  /\ wk[k].cur = MaxCount
  /\ nv' = Stored(w, AllOnes)
  /\ wk' = [wk EXCEPT ![k] = [@ EXCEPT !.status = "expired",
                                       !.pk = IF w = "ok" THEN wk[k].pk ELSE AllOnes]]
  /\ call' = IF w = "ok" THEN [busy |-> TRUE, key |-> k, ctx |-> c] ELSE NoCall

\* hss_advance_count inside the reservation: nothing to write.
AdvanceReserved(k, c, w) ==
  /\ wk[k].cur < MaxCount
  /\ wk[k].cur + 1 <= wk[k].reserve
  /\ w = "ok"
  /\ call' = [busy |-> TRUE, key |-> k, ctx |-> c]
  /\ UNCHANGED <<nv, wk>>

\* hss_advance_count beyond the reservation: write first, sign only if it worked.
AdvanceSignsOnFailure(k, c, w) ==
  /\ wk[k].cur < MaxCount
  /\ wk[k].cur + 1 > wk[k].reserve
  /\ nv' = Stored(w, NewCount(k))
  /\ wk' = [wk EXCEPT ![k] = [@ EXCEPT !.reserve = NewCount(k), !.pk = NewCount(k)]]
  /\ call' = [busy |-> TRUE, key |-> k, ctx |-> c]

AdvanceWriteEarly(k, c, w) ==
  /\ wk[k].cur < MaxCount
  /\ wk[k].cur + 1 >= wk[k].reserve
  /\ nv' = Stored(w, NewCount(k))
  /\ IF w = "ok"
     THEN /\ wk' = [wk EXCEPT ![k] = [@ EXCEPT !.reserve = NewCount(k), !.pk = NewCount(k)]]
          /\ call' = [busy |-> TRUE, key |-> k, ctx |-> c]
     ELSE /\ wk' = [wk EXCEPT ![k] = [@ EXCEPT !.pk = wk[k].reserve]]
          /\ call' = NoCall

AdvanceWrite(k, c, w) ==
  /\ wk[k].cur < MaxCount
  /\ wk[k].cur + 1 > wk[k].reserve
  /\ nv' = Stored(w, NewCount(k))
  /\ IF w = "ok"
     THEN /\ wk' = [wk EXCEPT ![k] = [@ EXCEPT !.reserve = NewCount(k), !.pk = NewCount(k)]]
          /\ call' = [busy |-> TRUE, key |-> k, ctx |-> c]
     ELSE /\ wk' = [wk EXCEPT ![k] = [@ EXCEPT !.pk = wk[k].reserve]]
          /\ call' = NoCall

SignBeginReservedUnchecked(k, c, w) ==
  /\ call = NoCall
  /\ Usable(k)
  /\ KeyMatches(k) \/ wk[k].cur < wk[k].reserve
  /\ ctx' = Spoil(c)
  /\ AdvanceLast(k, c, w) \/ AdvanceReserved(k, c, w) \/ AdvanceWrite(k, c, w)
  /\ UNCHANGED <<uses, promise, gone, raw>>

SignBegin(k, c, w) ==
  /\ call = NoCall
  /\ Usable(k)
  /\ KeyMatches(k)
  /\ ctx' = Spoil(c)
  /\ AdvanceLast(k, c, w) \/ AdvanceReserved(k, c, w) \/ AdvanceWrite(k, c, w)
  /\ UNCHANGED <<uses, promise, gone, raw>>

\* After the last signature the working copy of the private key is trashed too.
Trashed(k) == IF wk[k].status = "expired" THEN AllOnes ELSE wk[k].pk

(* The rest of hss_generate_signature succeeds: the bottom tree moves on,   *)
(* and the signature (or the context that will complete it) is handed out.  *)
SignDone ==
  /\ call # NoCall
  /\ LET k == call.key
         i == wk[k].cur
     IN /\ wk' = [wk EXCEPT ![k] = [@ EXCEPT !.cur = i + 1, !.pk = Trashed(k)]]
        /\ IF call.ctx = NoCtx
           THEN uses' = [uses EXCEPT ![i] = @ + 1] /\ UNCHANGED ctx
           ELSE ctx' = [ctx EXCEPT ![call.ctx] = [status |-> "none", q |-> i]]
                /\ UNCHANGED uses
        /\ gone' = i + 1
  /\ call' = NoCall
  /\ UNCHANGED <<nv, promise, raw>>

(* A task of the signature reports an internal error: the bottom tree may or*)
(* may not have moved on, and the signature buffer is zeroed.               *)
SignFailed ==
  /\ call # NoCall
  /\ LET k == call.key
     IN \E step \in {0, 1} :
          wk' = [wk EXCEPT ![k] = [@ EXCEPT !.cur = wk[k].cur + step, !.pk = Trashed(k)]]
  /\ call' = NoCall
  /\ UNCHANGED <<nv, ctx, uses, promise, gone, raw>>

\* hss_sign_finalize: signs with the context's index, once, success or fail.
FinalizeKeepsContext(c, k, ok) ==
  /\ call = NoCall
  /\ ctx[c].status = "none"
  /\ Loaded(k)
  /\ ctx' = [ctx EXCEPT ![c].status = IF ok THEN @ ELSE "used"]
  /\ uses' = [uses EXCEPT ![ctx[c].q] = IF ok THEN @ + 1 ELSE @]
  /\ UNCHANGED <<nv, wk, call, promise, gone, raw>>

SignFinalize(c, k, ok) ==
  /\ call = NoCall
  /\ ctx[c].status = "none"
  /\ Loaded(k)
  /\ ctx' = [ctx EXCEPT ![c] = [status |-> "used", q |-> 0]]
  /\ uses' = [uses EXCEPT ![ctx[c].q] = IF ok THEN @ + 1 ELSE @]
  /\ UNCHANGED <<nv, wk, call, promise, gone, raw>>

\* The process dies: only NV storage and what was handed out survive.
Crash ==
  /\ wk' = [k \in Keys |-> Allocated]
  /\ call' = NoCall
  /\ ctx' = [c \in Ctxs |-> Unusable]
  /\ promise' = [k \in Keys |-> 0]
  /\ UNCHANGED <<nv, uses, gone, raw>>

Next ==
  \/ \E k \in Keys :
       \/ \E readOk \in BOOLEAN : Load(k, readOk)
       \/ Free(k)
       \/ \E n \in Reservations :
            \/ SetAutoreserve(k, n)
            \/ \E w \in Writes : Reserve(k, n, w)
       \/ \E c \in Ctxs \cup {NoCtx} :
            \/ \E fits \in BOOLEAN : SignRefused(k, c, fits)
            \/ \E w \in Writes : SignBegin(k, c, w)
       \/ \E c \in Ctxs, ok \in BOOLEAN : SignFinalize(c, k, ok)
  \/ SignDone
  \/ SignFailed
  \/ Crash

Spec == Init /\ [][Next]_vars

-----------------------------------------------------------------------------
(* Properties. *)

Held(i) == \E c \in Ctxs : ctx[c].status = "none" /\ ctx[c].q = i

\* A sequence number that can no longer be given to another signature: it has
\* signed, or a live incremental context will sign with it.
Issued(i) == uses[i] > 0 \/ Held(i)

(* No one-time key signs two messages: not across crashes, reloads, failed  *)
(* writes, abandoned or finalized incremental contexts, nor between several *)
(* working keys of one raw private key.                                     *)
NoReuse == \A i \in Indices : uses[i] <= 1

(* Whatever happens next, a reload starts beyond every sequence number that *)
(* was ever given out (hss_advance_count writes before the signature leaves)*)
StoredAhead == \A i \in Indices : Issued(i) => i < nv

(* The signatures that hss_reserve_signature accepted do not touch NV       *)
(* storage, except the last one of the key: it trashes the stored key       *)
(* whatever was reserved, as test_reserve.c expects of it (i < 1023).       *)
PromiseKept ==
  [][\A k \in Keys : /\ call = NoCall
                     /\ call' # NoCall
                     /\ call'.key = k
                     /\ wk[k].cur < promise[k]
                     /\ wk[k].cur < MaxCount
                     => nv' = nv]_vars

(* What hss.h says of hss_reserve_signature ("if there aren't N more        *)
(* signatures available, this will fail") and test_reserve.c expects of it: *)
(* a reservation of signatures that are left succeeds, the last included.   *)
ReservesWhatIsLeft ==
  \A k \in Keys, n \in Reservations :
    /\ call = NoCall
    /\ Usable(k)
    /\ KeyMatches(k)
    /\ wk[k].cur + n <= MaxCount + 1
    => ENABLED Reserve(k, n, "ok")

(* Once the stored key is trashed and the last signature has left, no       *)
(* working key gives out another sequence number, not even one that it had  *)
(* reserved; pending contexts may still be finalized.                       *)
TrashedKeyIsDead ==
  [][nv = AllOnes /\ call = NoCall
       => call' = NoCall /\ \A i \in Indices : Issued(i)' => Issued(i)]_vars

(* Raw keys: the stored index only moves forward.  (With callbacks it may   *)
(* move back to an index that was never used, after a write that took       *)
(* effect but was reported as failed.)                                      *)
NeverBackwards == [][raw => nv' >= nv]_nv

-----------------------------------------------------------------------------
(* The inductive invariant behind NoReuse and StoredAhead.                  *)

\* A usable key works inside its reservation, which the stored index covers.
WithinReservation ==
  \A k \in Keys : Usable(k) => /\ wk[k].cur <= wk[k].reserve
                               /\ wk[k].reserve <= nv
                               /\ wk[k].pk = wk[k].reserve

\* A signing call has its sequence number covered before it generates anything.
CallCovered ==
  call # NoCall =>
    \/ Usable(call.key) /\ wk[call.key].cur < wk[call.key].reserve
    \/ /\ wk[call.key].status = "expired"
       /\ wk[call.key].cur = MaxCount
       /\ nv = AllOnes
       /\ ~Issued(MaxCount)

Owned(k, i) == Usable(k) /\ wk[k].cur <= i /\ i < wk[k].reserve

\* What a key may still sign has not been given out, by it or by another key.
OwnedUnissued == \A k \in Keys, i \in Indices : Owned(k, i) => ~Issued(i)
OwnedOnce == \A j, k \in Keys, i \in Indices : Owned(j, i) /\ Owned(k, i) => j = k

\* With callbacks there is one usable key, and nothing beyond its reservation was
\* given out even where a failed write has moved the stored index further.
SingleUser ==
  ~raw =>
    /\ \A j, k \in Keys : Usable(j) /\ Usable(k) => j = k
    /\ \A k \in Keys, i \in Indices : Usable(k) /\ Issued(i) => i < wk[k].reserve
    /\ nv = AllOnes => \A k \in Keys : ~Usable(k)

HeldUnused == \A c \in Ctxs : ctx[c].status = "none" => uses[ctx[c].q] = 0
HeldOnce ==
  \A c, d \in Ctxs : /\ ctx[c].status = "none"
                     /\ ctx[d].status = "none"
                     /\ ctx[c].q = ctx[d].q
                     => c = d

\* What was given out or passed over lies below the stored index, below every key
\* that may still sign and not beyond the number of the call in progress.
InOrder ==
  /\ gone <= nv
  /\ \A k \in Keys : Usable(k) /\ (raw => wk[k].pk = nv) => gone <= wk[k].cur
  /\ call # NoCall => gone <= wk[call.key].cur

(* Every clause is needed for the next step of some action to keep NoReuse  *)
(* and StoredAhead, which on their own say nothing of who may sign what.    *)
IInv ==
  /\ TypeOK
  /\ NoReuse
  /\ StoredAhead
  /\ WithinReservation
  /\ CallCovered
  /\ OwnedUnissued
  /\ OwnedOnce
  /\ SingleUser
  /\ HeldUnused
  /\ HeldOnce
  /\ InOrder

(* The working key implements OneTimeKeys: a live incremental context has   *)
(* its number pending, and numbers leave the key in increasing order and    *)
(* once each, over crashes, reloads, failed writes and failed signatures.   *)
Pending == [c \in Ctxs |-> IF ctx[c].status = "none" THEN {ctx[c].q} ELSE {}]
Abstract == INSTANCE OneTimeKeys WITH pending <- Pending
OneTime == Abstract!Spec
=============================================================================
