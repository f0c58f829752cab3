------------------------- MODULE HssWorkingKeyProofs -------------------------
(***************************************************************************)
(* Proofs about HssWorkingKey for every number of working keys, contexts   *)
(* and signatures, every reservation policy and both calling conventions.  *)
(***************************************************************************)
EXTENDS HssWorkingKey, TLAPS

USE KeyAssumption

(* What a write to NV storage can leave there (update_private_key's outcomes)*)
LEMMA StoredValue ==
  ASSUME NEW w \in Writes, NEW v
  PROVE  /\ Stored(w, v) \in {nv, v}
         /\ w = "ok" => Stored(w, v) = v
         /\ raw => w = "ok"
BY DEF Stored, Writes

(* hss_advance_count always moves the reservation past the current count and*)
(* never past the last one.                                                 *)
LEMMA NewCountBounds ==
  ASSUME TypeOK, NEW k \in Keys, wk[k].cur < MaxCount
  PROVE  /\ NewCount(k) \in Indices
         /\ wk[k].cur < NewCount(k)
<1>1. wk[k].cur \in Nat /\ wk[k].auto \in Nat
  BY DEF TypeOK, WorkingKey, Counts
<1>2. QED
  BY <1>1 DEF NewCount, Indices

(* The frame of every step that gives no sequence number out: one working    *)
(* key k becomes r, the contexts lose at most some live ones.  What is left  *)
(* to show is where k stands and that what it now owns is its alone.         *)
LEMMA KeyUpdate ==
  ASSUME IInv, NEW k \in Keys, NEW r \in WorkingKey,
         wk' = [wk EXCEPT ![k] = r],
         UNCHANGED <<uses, gone, raw>>,
         ctx' \in [Ctxs -> Context],
         \A c \in Ctxs : ctx'[c].status = "none" => ctx'[c] = ctx[c],
         promise' \in [Keys -> Nat],
         call' \in {NoCall} \cup Calls,
         nv' \in Indices \cup {AllOnes},
         \A i \in Indices : Issued(i) => i < nv',
         WithinReservation', CallCovered', SingleUser', InOrder',
         \A i \in Indices : Owned(k, i)' =>
            ~Issued(i) /\ \A j \in Keys \ {k} : ~Owned(j, i)
  PROVE  /\ IInv'
         /\ wk'[k] = r
         /\ \A j \in Keys : j # k => wk'[j] = wk[j]
         /\ \A i \in Indices : Issued(i)' => Issued(i)
<1>1. TypeOK'
  BY DEF IInv, TypeOK
<1>2. /\ wk'[k] = r
      /\ \A j \in Keys : j # k => wk'[j] = wk[j]
  BY DEF IInv, TypeOK
<1>3. \A i \in Indices : Issued(i)' => Issued(i)
  BY DEF Issued, Held
<1>4. (NoReuse /\ StoredAhead /\ HeldUnused /\ HeldOnce)'
  BY <1>3 DEF IInv, NoReuse, StoredAhead, HeldUnused, HeldOnce
<1>5. \A j \in Keys, i \in Indices : j # k => (Owned(j, i)' <=> Owned(j, i))
  BY <1>2 DEF Owned, Usable
<1>6. (OwnedUnissued /\ OwnedOnce)'
  BY <1>3, <1>5 DEF IInv, OwnedUnissued, OwnedOnce
<1>7. QED
  BY <1>1, <1>2, <1>3, <1>4, <1>6 DEF IInv

(* hss_generate_working_key: the loaded key starts at the stored index,      *)
(* beyond everything given out, and owns nothing yet.                        *)
LEMMA LoadStep ==
  ASSUME IInv, NEW k \in Keys, NEW readOk \in BOOLEAN, Load(k, readOk)
  PROVE  IInv'
<1>. DEFINE r == IF readOk /\ nv <= MaxCount
                 THEN [wk[k] EXCEPT !.status = "none", !.cur = nv, !.reserve = nv, !.pk = nv]
                 ELSE [wk[k] EXCEPT !.status = "uninitialized"]
<1>1. /\ nv \in Nat
      /\ nv <= MaxCount => nv \in Indices /\ nv \in Counts
      /\ wk[k] \in WorkingKey
  BY DEF IInv, TypeOK, Indices, Counts
<1>2. /\ wk' = [wk EXCEPT ![k] = r]
      /\ promise' = [promise EXCEPT ![k] = 0]
      /\ call = NoCall
      /\ UNCHANGED <<nv, call, ctx, uses, gone, raw>>
  BY DEF Load
<1>3. /\ r \in WorkingKey
      /\ r.status = "none" => r.cur = nv /\ r.reserve = nv /\ r.pk = nv /\ nv <= MaxCount
  <2>1. CASE readOk /\ nv <= MaxCount
    BY <2>1, <1>1 DEF WorkingKey, Status
  <2>2. CASE ~(readOk /\ nv <= MaxCount)
    BY <2>2, <1>1 DEF WorkingKey, Status
  <2>3. QED
    BY <2>1, <2>2
<1>. HIDE DEF r
<1>4. /\ wk'[k] = r
      /\ \A j \in Keys : j # k => wk'[j] = wk[j]
  BY <1>2 DEF IInv, TypeOK
<1>5. (WithinReservation /\ CallCovered)'
  BY <1>1, <1>2, <1>3, <1>4 DEF IInv, WithinReservation, CallCovered, Usable
<1>6. SingleUser'
  BY <1>1, <1>2, <1>3, <1>4
  DEF IInv, SingleUser, StoredAhead, Usable, Load, Issued, Held
<1>7. \A i \in Indices : ~Owned(k, i)'
  BY <1>1, <1>3, <1>4 DEF Owned, Usable, Indices
<1>8. InOrder'
  BY <1>2, <1>3, <1>4 DEF IInv, InOrder, Usable
<1>9. QED
  BY <1>2, <1>3, <1>5, <1>6, <1>7, <1>8, KeyUpdate DEF IInv, TypeOK, StoredAhead

(* hss_free_working_key leaves a key that owns nothing.                      *)
LEMMA FreeStep ==
  ASSUME IInv, NEW k \in Keys, Free(k)
  PROVE  IInv'
<1>1. Allocated \in WorkingKey /\ Allocated.status # "none"
  BY DEF Allocated, WorkingKey, Status, Counts, Indices
<1>2. /\ wk' = [wk EXCEPT ![k] = Allocated]
      /\ wk'[k] = Allocated
      /\ \A j \in Keys : j # k => wk'[j] = wk[j]
      /\ call = NoCall
      /\ UNCHANGED <<nv, call, ctx, uses, gone, raw>>
      /\ promise' \in [Keys -> Nat]
  BY DEF Free, IInv, TypeOK
<1>3. (WithinReservation /\ CallCovered)'
  BY <1>1, <1>2 DEF IInv, WithinReservation, CallCovered, Usable
<1>4. SingleUser'
  BY <1>1, <1>2 DEF IInv, SingleUser, Usable, Issued, Held
<1>5. \A i \in Indices : ~Owned(k, i)'
  BY <1>1, <1>2 DEF Owned, Usable
<1>6. InOrder'
  BY <1>1, <1>2 DEF IInv, InOrder, Usable
<1>7. QED
  BY <1>1, <1>2, <1>3, <1>4, <1>5, <1>6, KeyUpdate DEF IInv, TypeOK, StoredAhead

(* hss_set_autoreserve changes nothing but the autoreserve count.            *)
LEMMA AutoreserveStep ==
  ASSUME IInv, NEW k \in Keys, NEW n \in Reservations, SetAutoreserve(k, n)
  PROVE  IInv'
<1>. DEFINE r == [wk[k] EXCEPT !.auto = n]
<1>1. /\ r \in WorkingKey
      /\ r.status = wk[k].status /\ r.cur = wk[k].cur
      /\ r.reserve = wk[k].reserve /\ r.pk = wk[k].pk
  BY DEF IInv, TypeOK, WorkingKey
<1>2. /\ wk' = [wk EXCEPT ![k] = r]
      /\ call = NoCall
      /\ UNCHANGED <<nv, call, ctx, uses, promise, gone, raw>>
  BY DEF SetAutoreserve
<1>. HIDE DEF r
<1>3. /\ wk'[k] = r
      /\ \A j \in Keys : j # k => wk'[j] = wk[j]
  BY <1>2 DEF IInv, TypeOK
<1>4. (WithinReservation /\ CallCovered)'
  BY <1>1, <1>2, <1>3 DEF IInv, WithinReservation, CallCovered, Usable
<1>5. SingleUser'
  BY <1>1, <1>2, <1>3 DEF IInv, SingleUser, Usable, Issued, Held
<1>6. \A i \in Indices : Owned(k, i)' <=> Owned(k, i)
  BY <1>1, <1>3 DEF Owned, Usable
<1>7. InOrder'
  BY <1>1, <1>2, <1>3 DEF IInv, InOrder, Usable
<1>8. QED
  BY <1>1, <1>2, <1>4, <1>5, <1>6, <1>7, KeyUpdate
  DEF IInv, TypeOK, StoredAhead, OwnedUnissued, OwnedOnce

(* Nothing beyond the reservation of a key that may write has been given     *)
(* out or is owned by another key: with a raw key because the comparison     *)
(* with the stored key makes the reservation end at the stored index, with   *)
(* callbacks because no other key is in use.                                 *)
LEMMA BeyondReservation ==
  ASSUME IInv, NEW k \in Keys, Usable(k), KeyMatches(k),
         NEW i \in Indices, wk[k].reserve <= i
  PROVE  ~Issued(i) /\ \A j \in Keys \ {k} : ~Owned(j, i)
<1>1. /\ nv \in Nat
      /\ \A j \in Keys : wk[j].reserve \in Nat
  BY DEF IInv, TypeOK, WorkingKey, Indices
<1>2. CASE raw
  <2>1. nv <= i
    BY <1>2 DEF IInv, WithinReservation, KeyMatches
  <2>2. ~Issued(i)
    BY <1>1, <2>1 DEF IInv, StoredAhead, Indices
  <2>3. ASSUME NEW j \in Keys, Owned(j, i) PROVE FALSE
    <3>1. Usable(j) /\ i < wk[j].reserve
      BY <2>3 DEF Owned
    <3>2. wk[j].reserve <= nv
      BY <3>1 DEF IInv, WithinReservation
    <3>3. QED
      BY <1>1, <2>1, <3>1, <3>2 DEF Indices
  <2>4. QED
    BY <2>2, <2>3
<1>3. CASE ~raw
  BY <1>1, <1>3 DEF IInv, SingleUser, Owned, Indices
<1>4. QED
  BY <1>2, <1>3

(* What becomes of the contexts in a step that gives nothing out: live ones  *)
(* may be lost.                                                              *)
CtxLoss == /\ ctx' \in [Ctxs -> Context]
           /\ \A c \in Ctxs : ctx'[c].status = "none" => ctx'[c] = ctx[c]

\* A context that is spoilt holds no number any more.
LEMMA SpoilLoss ==
  ASSUME TypeOK, NEW c, ctx' = Spoil(c)
  PROVE  CtxLoss
<1>1. Unusable \in Context /\ Unusable.status # "none"
  BY DEF Unusable, Context, Indices
<1>2. CASE c = NoCtx
  BY <1>2 DEF TypeOK, Spoil, CtxLoss
<1>3. CASE c # NoCtx
  BY <1>1, <1>3 DEF TypeOK, Spoil, CtxLoss
<1>4. QED
  BY <1>2, <1>3

(* No working key changes: the reservation sufficed, or its write failed     *)
(* (and may nevertheless have moved the stored index, forwards or back).     *)
LEMMA ReservationKept ==
  ASSUME IInv, NEW k \in Keys, call = NoCall, wk' = wk, CtxLoss,
         UNCHANGED <<uses, gone, raw>>, promise' \in [Keys -> Nat],
         \/ nv' = nv
         \/ ~raw /\ Usable(k) /\ nv' \in Indices /\ nv' > wk[k].reserve,
         \/ call' = NoCall
         \/ /\ call' \in Calls /\ call'.key = k
            /\ Usable(k) /\ KeyMatches(k) /\ wk[k].cur < wk[k].reserve
  PROVE  IInv'
<1>1. /\ nv \in Nat
      /\ \A j \in Keys : wk[j].reserve \in Nat
  BY DEF IInv, TypeOK, WorkingKey, Indices
<1>2. wk' = [wk EXCEPT ![k] = wk[k]] /\ wk[k] \in WorkingKey
  BY DEF IInv, TypeOK
<1>3. \A i \in Indices : Issued(i)' => Issued(i)
  BY DEF Issued, Held, CtxLoss
<1>4. \A i \in Indices : Issued(i) => i < nv'
  <2>1. CASE nv' = nv
    BY <2>1 DEF IInv, StoredAhead
  <2>2. CASE ~raw /\ Usable(k) /\ nv' \in Indices /\ nv' > wk[k].reserve
    BY <1>1, <2>2 DEF IInv, SingleUser, Indices
  <2>3. QED
    BY <2>1, <2>2
<1>5. WithinReservation'
  <2>1. ASSUME NEW j \in Keys, Usable(j)'
        PROVE  /\ wk'[j].cur <= wk'[j].reserve
               /\ wk'[j].reserve <= nv'
               /\ wk'[j].pk = wk'[j].reserve
    <3>1. /\ Usable(j)
          /\ wk[j].cur <= wk[j].reserve
          /\ wk[j].reserve <= nv
          /\ wk[j].pk = wk[j].reserve
      BY <2>1 DEF IInv, WithinReservation, Usable
    <3>2. CASE nv' = nv
      BY <3>1, <3>2
    <3>3. CASE ~raw /\ Usable(k) /\ nv' \in Indices /\ nv' > wk[k].reserve
      <4>1. j = k
        BY <3>1, <3>3 DEF IInv, SingleUser
      <4>2. QED
        BY <3>1, <3>3, <4>1, <1>1 DEF Indices
    <3>4. QED
      BY <3>2, <3>3
  <2>2. QED
    BY <2>1 DEF WithinReservation
<1>6. CallCovered'
  BY DEF CallCovered, Usable
<1>7. SingleUser'
  <2>1. AllOnes \notin Indices
    BY DEF Indices
  <2>2. QED
    BY <2>1, <1>3 DEF IInv, SingleUser, Usable
<1>8. \A i \in Indices : Owned(k, i)' <=> Owned(k, i)
  BY DEF Owned, Usable
<1>9. nv' \in Indices \cup {AllOnes} /\ call' \in {NoCall} \cup Calls
  BY DEF IInv, TypeOK
<1>10. InOrder'
  <2>1. gone \in Nat /\ gone <= nv /\ \A j \in Keys : wk[j].cur \in Nat
    BY DEF IInv, TypeOK, InOrder, WorkingKey, Counts
  <2>2. \A j \in Keys : Usable(j) /\ KeyMatches(j) => gone <= wk[j].cur
    BY DEF IInv, InOrder, KeyMatches
  <2>3. call' # NoCall => gone <= wk[call'.key].cur
    BY <2>2
  <2>4. CASE nv' = nv
    BY <2>1, <2>3, <2>4 DEF IInv, InOrder, Usable
  <2>5. CASE ~raw /\ Usable(k) /\ nv' \in Indices /\ nv' > wk[k].reserve
    <3>1. gone <= wk[k].cur /\ wk[k].cur <= wk[k].reserve
      BY <2>2, <2>5 DEF KeyMatches, IInv, WithinReservation
    <3>2. gone <= nv'
      BY <1>1, <2>1, <2>5, <3>1 DEF Indices
    <3>3. QED
      BY <2>3, <2>5, <3>2 DEF IInv, InOrder, Usable
  <2>6. QED
    BY <2>4, <2>5
<1>11. QED
  BY <1>2, <1>4, <1>5, <1>6, <1>7, <1>8, <1>9, <1>10, KeyUpdate
  DEF IInv, OwnedUnissued, OwnedOnce, CtxLoss

(* The reservation of key k grows to new, in storage first.                  *)
LEMMA ReservationWritten ==
  ASSUME IInv, NEW k \in Keys, call = NoCall, Usable(k), KeyMatches(k), CtxLoss,
         UNCHANGED <<uses, gone, raw>>, promise' \in [Keys -> Nat],
         NEW new \in Indices, new > wk[k].reserve, wk[k].cur <= new,
         wk' = [wk EXCEPT ![k] = [@ EXCEPT !.reserve = new, !.pk = new]],
         nv' = new,
         \/ call' = NoCall
         \/ call' \in Calls /\ call'.key = k /\ wk[k].cur < new
  PROVE  IInv'
<1>. DEFINE r == [wk[k] EXCEPT !.reserve = new, !.pk = new]
<1>1. /\ wk[k] \in WorkingKey
      /\ nv \in Nat /\ new \in Nat
      /\ wk[k].cur \in Nat /\ wk[k].reserve \in Nat
    BY DEF IInv, TypeOK, WorkingKey, Indices, Counts
<1>2. /\ wk[k].reserve <= nv
      /\ wk[k].pk = wk[k].reserve
  BY DEF IInv, WithinReservation
<1>3. /\ r \in WorkingKey
      /\ r.status = wk[k].status /\ r.cur = wk[k].cur
      /\ r.reserve = new /\ r.pk = new
  BY <1>1 DEF WorkingKey
<1>4. /\ wk' = [wk EXCEPT ![k] = r]
      /\ wk'[k] = r
      /\ \A j \in Keys : j # k => wk'[j] = wk[j]
  BY DEF IInv, TypeOK
<1>. HIDE DEF r
<1>5. nv <= new \/ ~raw
  BY <1>1, <1>2 DEF KeyMatches
<1>6. \A i \in Indices : Issued(i) => i < new
  <2>1. ASSUME NEW i \in Indices, new <= i PROVE ~Issued(i)
    <3>1. wk[k].reserve <= i
      BY <1>1, <2>1 DEF Indices
    <3>2. QED
      BY <3>1, BeyondReservation
  <2>2. QED
    BY <2>1, <1>1 DEF Indices
<1>7. WithinReservation'
  <2>1. ASSUME NEW j \in Keys, j # k, Usable(j)'
        PROVE  /\ wk'[j].cur <= wk'[j].reserve
               /\ wk'[j].reserve <= nv'
               /\ wk'[j].pk = wk'[j].reserve
    <3>1. Usable(j) /\ raw
      BY <2>1, <1>4 DEF IInv, SingleUser, Usable
    <3>2. /\ wk[j].cur <= wk[j].reserve
          /\ wk[j].reserve <= nv
          /\ wk[j].pk = wk[j].reserve
          /\ wk[j].reserve \in Nat
      BY <3>1 DEF IInv, WithinReservation, TypeOK, WorkingKey, Indices
    <3>3. wk[j].reserve <= new
      BY <3>1, <3>2, <1>5, <1>1
    <3>4. QED
      BY <2>1, <3>2, <3>3, <1>4
  <2>2. /\ wk'[k].cur <= wk'[k].reserve
        /\ wk'[k].reserve <= nv'
        /\ wk'[k].pk = wk'[k].reserve
    BY <1>1, <1>3, <1>4
  <2>3. QED
    BY <2>1, <2>2 DEF WithinReservation
<1>8. CallCovered'
  BY <1>3, <1>4 DEF CallCovered, Usable
<1>9. SingleUser'
  <2>1. \A i \in Indices : Issued(i)' => Issued(i)
    BY DEF Issued, Held, CtxLoss
  <2>2. new # AllOnes
    BY <1>1 DEF Indices
  <2>3. ~raw => \A j \in Keys : Usable(j)' => j = k
    BY <1>3, <1>4 DEF IInv, SingleUser, Usable
  <2>4. QED
    BY <1>3, <1>4, <1>6, <2>1, <2>2, <2>3 DEF SingleUser
<1>10. \A i \in Indices : Owned(k, i)' => ~Issued(i) /\ \A j \in Keys \ {k} : ~Owned(j, i)
  <2>1. SUFFICES ASSUME NEW i \in Indices, Owned(k, i)'
                 PROVE  ~Issued(i) /\ \A j \in Keys \ {k} : ~Owned(j, i)
    OBVIOUS
  <2>2. wk[k].cur <= i
    BY <2>1, <1>3, <1>4 DEF Owned
  <2>3. CASE i < wk[k].reserve
    BY <2>2, <2>3 DEF IInv, OwnedUnissued, OwnedOnce, Owned
  <2>4. CASE wk[k].reserve <= i
    BY <2>4, BeyondReservation
  <2>5. QED
    BY <2>3, <2>4, <1>1 DEF Indices
<1>11. InOrder'
  <2>1. gone \in Nat /\ gone <= wk[k].cur
    BY DEF IInv, InOrder, TypeOK, Counts, KeyMatches
  <2>2. gone <= nv'
    BY <1>1, <2>1
  <2>3. ASSUME NEW j \in Keys, j # k, Usable(j)' PROVE ~(raw => wk'[j].pk = nv')
    <3>1. Usable(j) /\ raw
      BY <2>3, <1>4 DEF IInv, SingleUser, Usable
    <3>2. wk[j].pk = wk[j].reserve /\ wk[j].reserve <= nv /\ wk[j].reserve \in Nat
      BY <3>1 DEF IInv, WithinReservation, TypeOK, WorkingKey, Indices
    <3>3. nv < new
      BY <3>1, <1>1, <1>2 DEF KeyMatches
    <3>4. QED
      BY <2>3, <3>1, <3>2, <3>3, <1>1, <1>4
  <2>4. QED
    BY <1>3, <1>4, <2>1, <2>2, <2>3 DEF InOrder
<1>12. QED
  BY <1>3, <1>4, <1>6, <1>7, <1>8, <1>9, <1>10, <1>11, KeyUpdate DEF CtxLoss

(* hss_reserve_signature, written or not: the reservation grows into numbers *)
(* nobody else has.                                                          *)
LEMMA ReserveStep ==
  ASSUME IInv, NEW k \in Keys, NEW n \in Reservations, NEW w \in Writes, Reserve(k, n, w)
  PROVE  IInv'
<1>. DEFINE new == wk[k].cur + n
<1>1. /\ wk[k] \in WorkingKey
      /\ new \in Indices /\ new \in Nat
      /\ wk[k].cur \in Nat /\ wk[k].reserve \in Nat
      /\ wk[k].cur <= new
  BY DEF IInv, TypeOK, WorkingKey, Reserve, CanReserve, Indices, Counts
<1>2. /\ call = NoCall
      /\ Usable(k)
      /\ KeyMatches(k)
      /\ UNCHANGED <<call, ctx, uses, gone, raw>>
      /\ CtxLoss
      /\ promise' \in [Keys -> Nat]
  BY <1>1 DEF Reserve, IInv, TypeOK, CtxLoss
<1>3. wk[k].pk = wk[k].reserve
  BY <1>2 DEF IInv, WithinReservation
<1>4. CASE new <= wk[k].reserve
  <2>1. wk' = wk /\ nv' = nv
    BY <1>1, <1>4 DEF Reserve
  <2>2. QED
    BY <1>2, <2>1, ReservationKept
<1>5. CASE new > wk[k].reserve /\ w # "ok"
  <2>1. [wk[k] EXCEPT !.pk = wk[k].reserve] = wk[k]
    BY <1>1, <1>3 DEF WorkingKey
  <2>2. wk' = wk
    BY <1>1, <1>5, <2>1 DEF Reserve, IInv, TypeOK
  <2>3. nv' = nv \/ (~raw /\ nv' = new)
    BY <1>1, <1>5, StoredValue DEF Reserve
  <2>. HIDE DEF new
  <2>4. QED
    BY <1>1, <1>2, <1>5, <2>2, <2>3, ReservationKept
<1>6. CASE new > wk[k].reserve /\ w = "ok"
  <2>1. /\ wk' = [wk EXCEPT ![k] = [@ EXCEPT !.reserve = new, !.pk = new]]
        /\ nv' = new
    BY <1>1, <1>6, StoredValue DEF Reserve
  <2>. HIDE DEF new
  <2>2. QED
    BY <1>1, <1>2, <1>6, <2>1, ReservationWritten
<1>7. QED
  BY <1>1, <1>4, <1>5, <1>6

\* A refused signature takes no number.
LEMMA RefusedStep ==
  ASSUME IInv, NEW k \in Keys, NEW c \in Ctxs \cup {NoCtx}, NEW fits \in BOOLEAN, SignRefused(k, c, fits)
  PROVE  IInv'
<1>1. /\ call = NoCall /\ call' = NoCall /\ wk' = wk /\ nv' = nv
      /\ UNCHANGED <<uses, gone, raw>>
      /\ promise' \in [Keys -> Nat]
      /\ CtxLoss
  BY SpoilLoss DEF SignRefused, IInv, TypeOK
<1>2. QED
  BY <1>1, ReservationKept

(* hss_advance_count on the last sequence number: whatever the write did, no *)
(* working key is usable any more, and the number had not been given out.    *)
LEMMA LastStep ==
  ASSUME IInv, NEW k \in Keys, NEW c \in Ctxs \cup {NoCtx}, NEW w \in Writes,
         SignBegin(k, c, w), AdvanceLast(k, c, w)
  PROVE  IInv'
<1>. DEFINE r == [wk[k] EXCEPT !.status = "expired", !.pk = IF w = "ok" THEN wk[k].pk ELSE AllOnes]
<1>1. wk[k] \in WorkingKey
  BY DEF IInv, TypeOK
<1>2. /\ r \in WorkingKey
      /\ r.status = "expired" /\ r.cur = wk[k].cur
  BY <1>1 DEF WorkingKey, Status
<1>3. /\ call = NoCall /\ Usable(k) /\ KeyMatches(k)
      /\ UNCHANGED <<uses, promise, gone, raw>>
      /\ wk' = [wk EXCEPT ![k] = r]
      /\ wk[k].cur = MaxCount
      /\ nv' \in {nv, AllOnes}
      /\ w = "ok" => nv' = AllOnes
      /\ raw => w = "ok"
      /\ call' = IF w = "ok" THEN [busy |-> TRUE, key |-> k, ctx |-> c] ELSE NoCall
      /\ CtxLoss
  <2>1. CtxLoss
    BY SpoilLoss DEF SignBegin, IInv
  <2>2. wk' = [wk EXCEPT ![k] = r]
    BY DEF AdvanceLast
  <2>3. /\ nv' \in {nv, AllOnes}
        /\ w = "ok" => nv' = AllOnes
        /\ raw => w = "ok"
    BY StoredValue DEF AdvanceLast
  <2>. HIDE DEF r
  <2>4. QED
    BY <2>1, <2>2, <2>3 DEF SignBegin, AdvanceLast
<1>. HIDE DEF r
<1>4. /\ wk'[k] = r
      /\ \A j \in Keys : j # k => wk'[j] = wk[j]
  BY <1>3 DEF IInv, TypeOK
<1>5. ~Issued(MaxCount)
  <2>1. wk[k].reserve <= MaxCount /\ MaxCount \in Indices
    BY <1>1 DEF WorkingKey, Indices
  <2>2. QED
    BY <1>3, <2>1, BeyondReservation
<1>6. \A i \in Indices : Issued(i)' => Issued(i)
  BY <1>3 DEF Issued, Held, CtxLoss
<1>7. \A i \in Indices : Issued(i) => i < nv'
  BY <1>3 DEF IInv, StoredAhead, Indices
<1>8. call' \in {NoCall} \cup Calls
  BY <1>3 DEF Calls
<1>9. CallCovered'
  <2>1. ~Issued(MaxCount)'
    BY <1>5, <1>6 DEF Indices
  <2>2. CASE w = "ok"
    BY <1>2, <1>3, <1>4, <2>1, <2>2 DEF CallCovered
  <2>3. CASE w # "ok"
    BY <1>3, <2>3 DEF CallCovered
  <2>4. QED
    BY <2>2, <2>3
<1>10. \A j \in Keys : Usable(j)' => Usable(j) /\ j # k /\ wk'[j] = wk[j] /\ raw
  BY <1>2, <1>3, <1>4 DEF Usable, IInv, SingleUser
<1>11. WithinReservation'
  <2>1. ASSUME NEW j \in Keys, Usable(j)'
        PROVE  /\ wk'[j].cur <= wk'[j].reserve
               /\ wk'[j].reserve <= nv'
               /\ wk'[j].pk = wk'[j].reserve
    <3>1. /\ wk'[j] = wk[j] /\ raw
          /\ wk[j].cur <= wk[j].reserve
          /\ wk[j].pk = wk[j].reserve
          /\ wk[j].reserve \in Indices
      BY <2>1, <1>10 DEF IInv, WithinReservation, TypeOK, WorkingKey
    <3>2. wk[j].reserve <= nv'
      BY <3>1, <1>3 DEF Indices
    <3>3. QED
      BY <3>1, <3>2
  <2>2. QED
    BY <2>1 DEF WithinReservation
<1>12. SingleUser'
  BY <1>3, <1>10 DEF SingleUser
<1>13. \A i \in Indices : ~Owned(k, i)'
  BY <1>10 DEF Owned
<1>14. InOrder'
  <2>1. gone \in Nat /\ gone <= wk[k].cur /\ gone <= nv /\ nv \in Nat
    BY <1>3 DEF IInv, InOrder, TypeOK, Counts, Indices, KeyMatches
  <2>2. gone <= nv'
    BY <1>3, <2>1
  <2>3. call' # NoCall => gone <= wk'[call'.key].cur
    BY <1>2, <1>3, <1>4, <2>1
  <2>4. ASSUME NEW j \in Keys, Usable(j)', raw' => wk'[j].pk = nv'
        PROVE  gone' <= wk'[j].cur
    <3>1. Usable(j) /\ wk'[j] = wk[j] /\ raw
      BY <2>4, <1>10
    <3>2. wk[j].pk = nv' /\ wk[j].pk = wk[j].reserve /\ wk[j].reserve \in Indices
      BY <1>3, <2>4, <3>1 DEF IInv, WithinReservation, TypeOK, WorkingKey
    <3>3. nv' = nv
      BY <1>3, <3>2 DEF Indices
    <3>4. QED
      BY <1>3, <3>1, <3>2, <3>3 DEF IInv, InOrder
  <2>5. QED
    BY <1>3, <2>2, <2>3, <2>4 DEF InOrder
<1>15. QED
  BY <1>2, <1>3, <1>7, <1>8, <1>9, <1>11, <1>12, <1>13, <1>14, KeyUpdate DEF IInv, TypeOK, CtxLoss

(* hss_generate_signature and hss_sign_init up to hss_advance_count.         *)
LEMMA BeginStep ==
  ASSUME IInv, NEW k \in Keys, NEW c \in Ctxs \cup {NoCtx}, NEW w \in Writes,
         SignBegin(k, c, w)
  PROVE  IInv'
<1>1. /\ call = NoCall /\ Usable(k) /\ KeyMatches(k)
      /\ UNCHANGED <<uses, gone, raw>>
      /\ promise' \in [Keys -> Nat]
      /\ CtxLoss
  BY SpoilLoss DEF SignBegin, IInv, TypeOK
<1>2. /\ [busy |-> TRUE, key |-> k, ctx |-> c] \in Calls
      /\ [busy |-> TRUE, key |-> k, ctx |-> c].key = k
  BY DEF Calls
<1>3. /\ wk[k] \in WorkingKey
      /\ wk[k].cur \in Nat /\ wk[k].reserve \in Nat
      /\ wk[k].pk = wk[k].reserve
      /\ wk[k].cur <= wk[k].reserve
  BY <1>1 DEF IInv, TypeOK, WorkingKey, WithinReservation, Indices, Counts
<1>4. CASE AdvanceLast(k, c, w)
  BY <1>4, LastStep
<1>5. CASE AdvanceReserved(k, c, w)
  <2>1. /\ call' = [busy |-> TRUE, key |-> k, ctx |-> c]
        /\ wk' = wk /\ nv' = nv
        /\ wk[k].cur < wk[k].reserve
    BY <1>3, <1>5 DEF AdvanceReserved
  <2>2. QED
    BY <1>1, <1>2, <2>1, ReservationKept
<1>6. CASE AdvanceWrite(k, c, w)
  <2>1. /\ NewCount(k) \in Indices
        /\ wk[k].cur < NewCount(k)
    BY <1>6, NewCountBounds DEF AdvanceWrite, IInv
  <2>2. NewCount(k) > wk[k].reserve
    BY <1>3, <1>6, <2>1 DEF AdvanceWrite, Indices
  <2>3. CASE w = "ok"
    <3>1. /\ wk' = [wk EXCEPT ![k] = [@ EXCEPT !.reserve = NewCount(k), !.pk = NewCount(k)]]
          /\ nv' = NewCount(k)
          /\ call' = [busy |-> TRUE, key |-> k, ctx |-> c]
      BY <1>6, <2>3, StoredValue DEF AdvanceWrite
    <3>2. wk[k].cur <= NewCount(k)
      BY <1>3, <2>1 DEF Indices
    <3>3. QED
      BY <1>1, <1>2, <2>1, <2>2, <3>1, <3>2, ReservationWritten
  <2>4. CASE w # "ok"
    <3>1. [wk[k] EXCEPT !.pk = wk[k].reserve] = wk[k]
      BY <1>3 DEF WorkingKey
    <3>2. wk' = wk /\ call' = NoCall
      BY <1>6, <2>4, <3>1 DEF AdvanceWrite, IInv, TypeOK
    <3>3. nv' = nv \/ (~raw /\ nv' = NewCount(k))
      BY <1>6, <2>4, StoredValue DEF AdvanceWrite
    <3>4. QED
      BY <1>1, <2>1, <2>2, <3>2, <3>3, ReservationKept
  <2>5. QED
    BY <2>3, <2>4
<1>7. QED
  BY <1>4, <1>5, <1>6 DEF SignBegin

(* The sequence number a call is about to use: stored, within bounds, unused *)
(* and not owned by any other key.                                           *)
LEMMA CallIndex ==
  ASSUME IInv, call # NoCall, NEW k \in Keys, k = call.key, NEW i \in Counts, i = wk[k].cur
  PROVE  /\ i \in Indices
         /\ i < nv
         /\ ~Issued(i)
         /\ \A j \in Keys \ {k} : ~Owned(j, i)
         /\ Usable(k) => i < wk[k].reserve
<1>1. /\ nv \in Nat
      /\ i \in Nat
      /\ \A j \in Keys : wk[j].reserve \in Nat /\ wk[j].reserve <= MaxCount
  BY DEF IInv, TypeOK, WorkingKey, Indices, Counts
<1>2. CASE Usable(k) /\ wk[k].cur < wk[k].reserve
  <2>1. wk[k].reserve <= nv
    BY <1>2 DEF IInv, WithinReservation
  <2>2. i \in Indices /\ i < nv
    BY <1>1, <1>2, <2>1 DEF Indices
  <2>3. Owned(k, i)
    BY <1>1, <1>2, <2>1 DEF Owned
  <2>4. QED
    BY <1>1, <1>2, <2>2, <2>3 DEF IInv, OwnedUnissued, OwnedOnce
<1>3. CASE wk[k].status = "expired" /\ wk[k].cur = MaxCount /\ nv = AllOnes /\ ~Issued(MaxCount)
  <2>1. i \in Indices /\ i < nv /\ ~Usable(k)
    BY <1>3 DEF Indices, Usable
  <2>2. ASSUME NEW j \in Keys, Owned(j, i) PROVE FALSE
    <3>1. i < wk[j].reserve /\ wk[j].reserve \in Nat /\ wk[j].reserve <= MaxCount
      BY <1>1, <2>2 DEF Owned
    <3>2. QED
      BY <3>1, <1>3
  <2>3. QED
    BY <1>1, <1>3, <2>1, <2>2
<1>4. QED
  BY <1>2, <1>3 DEF IInv, CallCovered

(* The record of a working key whose call is over, whether it succeeded      *)
(* (d = 1) or failed (d = 0 or 1).                                           *)
LEMMA CallRecord ==
  ASSUME IInv, call # NoCall, NEW k \in Keys, k = call.key, NEW d \in {0, 1}
  PROVE  LET r == [wk[k] EXCEPT !.cur = wk[k].cur + d, !.pk = Trashed(k)]
         IN  /\ r \in WorkingKey
             /\ r.status = wk[k].status
             /\ r.cur = wk[k].cur + d
             /\ r.reserve = wk[k].reserve
             /\ Usable(k) => r.pk = wk[k].pk
<1>1. wk[k] \in WorkingKey /\ wk[k].cur \in Counts
  BY DEF IInv, TypeOK, WorkingKey
<1>2. wk[k].cur \in Indices
  BY <1>1, CallIndex
<1>3. wk[k].cur + d \in Counts
  BY <1>2 DEF Indices, Counts
<1>4. Trashed(k) \in Indices \cup {AllOnes} /\ (Usable(k) => Trashed(k) = wk[k].pk)
  BY <1>1 DEF WorkingKey, Trashed, Usable
<1>5. QED
  BY <1>1, <1>3, <1>4 DEF WorkingKey

(* A call that is over has left its key where it was or one number further,  *)
(* so no key owns more than before.                                          *)
LEMMA CallKey ==
  ASSUME IInv, call # NoCall, NEW k \in Keys, k = call.key, NEW d \in {0, 1}, nv' = nv,
         NEW i \in Counts, i = wk[k].cur,
         NEW r \in WorkingKey, r.status = wk[k].status, r.cur = i + d,
         r.reserve = wk[k].reserve, Usable(k) => r.pk = wk[k].pk,
         wk' = [wk EXCEPT ![k] = r]
  PROVE  /\ wk' \in [Keys -> WorkingKey]
         /\ \A j \in Keys : Usable(j)' <=> Usable(j)
         /\ \A j \in Keys : wk'[j].reserve = wk[j].reserve
         /\ \A j \in Keys, n \in Indices : Owned(j, n)' => Owned(j, n)
         /\ d = 1 => ~Owned(k, i)'
         /\ WithinReservation'
<1>1. /\ i \in Nat
      /\ wk[k].reserve \in Nat
      /\ Usable(k) => i < wk[k].reserve
  <2>1. Usable(k) => i < wk[k].reserve
    BY CallIndex
  <2>2. i \in Nat /\ wk[k].reserve \in Nat
    BY DEF IInv, TypeOK, WorkingKey, Indices, Counts
  <2>3. QED
    BY <2>1, <2>2
<1>2. /\ wk'[k] = r
      /\ \A j \in Keys : j # k => wk'[j] = wk[j]
      /\ wk' \in [Keys -> WorkingKey]
  BY DEF IInv, TypeOK
<1>3. /\ \A j \in Keys : Usable(j)' <=> Usable(j)
      /\ \A j \in Keys : wk'[j].reserve = wk[j].reserve
  BY <1>2 DEF Usable
<1>4. \A j \in Keys, n \in Indices : Owned(j, n)' => Owned(j, n)
  BY <1>1, <1>2, <1>3 DEF Owned, Indices
<1>5. d = 1 => ~Owned(k, i)'
  BY <1>1, <1>2 DEF Owned
<1>6. WithinReservation'
  BY <1>1, <1>2, <1>3 DEF IInv, WithinReservation
<1>7. QED
  BY <1>2, <1>3, <1>4, <1>5, <1>6

(* hss_generate_signature or hss_sign_init hands out its sequence number.    *)
LEMMA DoneStep ==
  ASSUME IInv, SignDone
  PROVE  IInv'
<1>0. PICK k \in Keys : k = call.key
  BY DEF SignDone, IInv, TypeOK, Calls
<1>00. PICK i \in Counts : i = wk[k].cur
  BY DEF IInv, TypeOK, WorkingKey
<1>. USE <1>0, <1>00
<1>1. /\ call # NoCall /\ call' = NoCall
      /\ UNCHANGED <<nv, promise, raw>>
      /\ gone' = i + 1
      /\ wk' = [wk EXCEPT ![k] = [@ EXCEPT !.cur = wk[k].cur + 1, !.pk = Trashed(k)]]
      /\ \/ call.ctx = NoCtx /\ uses' = [uses EXCEPT ![i] = @ + 1] /\ ctx' = ctx
         \/ /\ call.ctx # NoCtx /\ uses' = uses
            /\ ctx' = [ctx EXCEPT ![call.ctx] = [status |-> "none", q |-> i]]
  BY DEF SignDone
<1>2. /\ call.ctx \in Ctxs \cup {NoCtx}
      /\ i \in Indices
      /\ i < nv
      /\ ~Issued(i)
      /\ \A j \in Keys \ {k} : ~Owned(j, i)
      /\ Usable(k) => i < wk[k].reserve
  BY <1>1, CallIndex DEF IInv, TypeOK, Calls
<1>3. /\ wk' \in [Keys -> WorkingKey]
      /\ \A j \in Keys : Usable(j)' <=> Usable(j)
      /\ \A j \in Keys : wk'[j].reserve = wk[j].reserve
      /\ \A j \in Keys, n \in Indices : Owned(j, n)' => Owned(j, n)
      /\ ~Owned(k, i)'
      /\ WithinReservation'
  <2>. DEFINE r == [wk[k] EXCEPT !.cur = wk[k].cur + 1, !.pk = Trashed(k)]
  <2>1. /\ r \in WorkingKey
        /\ r.status = wk[k].status /\ r.cur = i + 1 /\ r.reserve = wk[k].reserve
        /\ Usable(k) => r.pk = wk[k].pk
    BY <1>1, CallRecord
  <2>2. wk' = [wk EXCEPT ![k] = r] /\ nv' = nv /\ call # NoCall
    BY <1>1
  <2>. HIDE DEF r
  <2>3. QED
    BY <2>1, <2>2, CallKey
<1>4. /\ uses[i] = 0
      /\ \A c \in Ctxs : ctx[c].status = "none" => ctx[c].q # i
  BY <1>2 DEF Issued, Held, IInv, TypeOK
<1>5. TypeOK'
  <2>1. [status |-> "none", q |-> i] \in Context
    BY <1>2 DEF Context
  <2>2. gone' \in Counts
    BY <1>1, <1>2 DEF Indices, Counts
  <2>3. QED
    BY <1>1, <1>2, <1>3, <2>1, <2>2 DEF IInv, TypeOK
<1>6. \A n \in Indices : Issued(n)' => Issued(n) \/ n = i
  BY <1>1, <1>2 DEF IInv, TypeOK, Issued, Held
<1>7. NoReuse'
  BY <1>1, <1>2, <1>4 DEF IInv, TypeOK, NoReuse
<1>8. StoredAhead'
  BY <1>1, <1>2, <1>6 DEF IInv, StoredAhead
<1>9. CallCovered'
  BY <1>1 DEF CallCovered
<1>10. OwnedUnissued'
  BY <1>2, <1>3, <1>6 DEF IInv, OwnedUnissued
<1>11. OwnedOnce'
  BY <1>3 DEF IInv, OwnedOnce
<1>12. SingleUser'
  <2>1. ASSUME ~raw, NEW j \in Keys, Usable(j)
        PROVE  j = k /\ i < wk[j].reserve
    <3>1. nv # AllOnes
      BY <2>1 DEF IInv, SingleUser
    <3>2. Usable(k)
      BY <1>1, <3>1 DEF IInv, CallCovered
    <3>3. QED
      BY <2>1, <3>2, <1>2 DEF IInv, SingleUser
  <2>2. QED
    BY <1>1, <1>3, <1>6, <2>1 DEF IInv, SingleUser
<1>13. HeldUnused'
  BY <1>1, <1>2, <1>4 DEF IInv, TypeOK, HeldUnused, Context
<1>14. HeldOnce'
  BY <1>1, <1>2, <1>4 DEF IInv, TypeOK, HeldOnce, Context
<1>15. InOrder'
  <2>1. i \in Nat /\ nv \in Nat
    BY <1>2 DEF Indices, IInv, TypeOK
  <2>2. ASSUME NEW j \in Keys, Usable(j)', raw => wk'[j].pk = nv
        PROVE  i + 1 <= wk'[j].cur
    <3>1. Usable(j) /\ wk[j].cur \in Nat /\ wk[j].reserve \in Nat
      BY <1>3, <2>2 DEF IInv, TypeOK, WorkingKey, Counts, Indices
    <3>2. CASE j = k
      BY <1>1, <2>1, <3>2 DEF IInv, TypeOK
    <3>3. CASE j # k
      <4>1. raw
        <5>1. SUFFICES ASSUME ~raw PROVE FALSE
          OBVIOUS
        <5>2. nv # AllOnes /\ ~Usable(k)
          BY <3>1, <3>3, <5>1 DEF IInv, SingleUser
        <5>3. QED
          BY <1>1, <5>2 DEF IInv, CallCovered
      <4>2. wk'[j] = wk[j]
        BY <1>1, <3>3 DEF IInv, TypeOK
      <4>3. wk[j].reserve = nv
        BY <2>2, <3>1, <4>1, <4>2 DEF IInv, WithinReservation
      <4>4. ~Owned(j, i)
        BY <1>2, <3>3
      <4>5. QED
        BY <1>2, <2>1, <3>1, <4>2, <4>3, <4>4 DEF Owned
    <3>4. QED
      BY <3>2, <3>3
  <2>3. QED
    BY <1>1, <1>2, <2>1, <2>2 DEF InOrder
<1>16. QED
  BY <1>3, <1>5, <1>7, <1>8, <1>9, <1>10, <1>11, <1>12, <1>13, <1>14, <1>15 DEF IInv

(* A signature that failed with an internal error gives nothing out; its     *)
(* sequence number is lost or still the key's own.                           *)
LEMMA FailedStep ==
  ASSUME IInv, SignFailed
  PROVE  IInv'
<1>1. PICK k \in Keys : k = call.key
  BY DEF SignFailed, IInv, TypeOK, Calls
<1>2. PICK i \in Counts : i = wk[k].cur
  BY <1>1 DEF IInv, TypeOK, WorkingKey
<1>3. /\ call # NoCall /\ call' = NoCall
      /\ UNCHANGED <<nv, ctx, uses, promise, gone, raw>>
  BY DEF SignFailed
<1>4. PICK d \in {0, 1} :
        wk' = [wk EXCEPT ![k] = [@ EXCEPT !.cur = wk[k].cur + d, !.pk = Trashed(k)]]
  BY <1>1 DEF SignFailed
<1>5. /\ wk' \in [Keys -> WorkingKey]
      /\ \A j \in Keys : Usable(j)' <=> Usable(j)
      /\ \A j \in Keys : wk'[j].reserve = wk[j].reserve
      /\ \A j \in Keys, n \in Indices : Owned(j, n)' => Owned(j, n)
      /\ d = 1 => ~Owned(k, i)'
      /\ WithinReservation'
  <2>. DEFINE r == [wk[k] EXCEPT !.cur = wk[k].cur + d, !.pk = Trashed(k)]
  <2>1. /\ r \in WorkingKey
        /\ r.status = wk[k].status /\ r.cur = i + d /\ r.reserve = wk[k].reserve
        /\ Usable(k) => r.pk = wk[k].pk
    BY ZenonT(60), <1>1, <1>2, <1>3, CallRecord
  <2>2. wk' = [wk EXCEPT ![k] = r] /\ nv' = nv /\ call # NoCall
    BY <1>3, <1>4
  <2>. HIDE DEF r
  <2>3. CASE d = 0
    BY <1>1, <1>2, <2>1, <2>2, <2>3, CallKey
  <2>4. CASE d = 1
    BY <1>1, <1>2, <2>1, <2>2, <2>4, CallKey
  <2>5. QED
    BY <2>3, <2>4
<1>6. TypeOK'
  BY <1>3, <1>5 DEF IInv, TypeOK
<1>7. \A n \in Indices : Issued(n)' <=> Issued(n)
  BY <1>3 DEF Issued, Held
<1>8. (NoReuse /\ StoredAhead /\ HeldUnused /\ HeldOnce)'
  BY <1>3, <1>7 DEF IInv, NoReuse, StoredAhead, HeldUnused, HeldOnce
<1>9. CallCovered'
  BY <1>3 DEF CallCovered
<1>10. (OwnedUnissued /\ OwnedOnce)'
  BY <1>5, <1>7 DEF IInv, OwnedUnissued, OwnedOnce
<1>11. SingleUser'
  BY <1>3, <1>5, <1>7 DEF IInv, SingleUser
<1>12. InOrder'
  <2>1. \A j \in Keys : /\ wk[j].cur <= wk'[j].cur
                        /\ Usable(j) => wk'[j].pk = wk[j].pk
    BY <1>1, <1>2, <1>4 DEF IInv, TypeOK, WorkingKey, Counts, Trashed, Usable
  <2>2. /\ gone \in Nat
        /\ \A j \in Keys : wk[j].cur \in Nat /\ wk'[j].cur \in Nat
    BY <1>5 DEF IInv, TypeOK, WorkingKey, Counts
  <2>3. QED
    BY <1>3, <1>5, <2>1, <2>2 DEF IInv, InOrder
<1>13. QED
  BY <1>5, <1>6, <1>8, <1>9, <1>10, <1>11, <1>12 DEF IInv

(* hss_sign_finalize: the context's sequence number signs, and the context   *)
(* can never sign again.                                                     *)
LEMMA FinalizeStep ==
  ASSUME IInv, NEW c \in Ctxs, NEW k \in Keys, NEW ok \in BOOLEAN, SignFinalize(c, k, ok)
  PROVE  IInv'
<1>1. PICK i \in Indices : i = ctx[c].q
  BY DEF IInv, TypeOK, Context
<1>2. /\ call = NoCall /\ ctx[c].status = "none"
      /\ UNCHANGED <<nv, wk, call, promise, gone, raw>>
      /\ ctx' = [ctx EXCEPT ![c] = [status |-> "used", q |-> 0]]
      /\ uses' = [uses EXCEPT ![i] = IF ok THEN @ + 1 ELSE @]
  BY <1>1 DEF SignFinalize
<1>3. /\ uses[i] = 0
      /\ \A d \in Ctxs : d # c /\ ctx[d].status = "none" => ctx[d].q # i
  BY <1>1, <1>2 DEF IInv, HeldUnused, HeldOnce
<1>4. [status |-> "used", q |-> 0] \in Context
  BY DEF Context, Indices
<1>5. /\ ctx'[c] = [status |-> "used", q |-> 0]
      /\ \A d \in Ctxs : d # c => ctx'[d] = ctx[d]
      /\ uses' \in [Indices -> Nat]
      /\ uses'[i] <= 1
      /\ \A n \in Indices : n # i => uses'[n] = uses[n]
  BY <1>2, <1>3 DEF IInv, TypeOK
<1>6. TypeOK'
  BY <1>2, <1>4, <1>5 DEF IInv, TypeOK
<1>7. \A n \in Indices : Issued(n)' => Issued(n)
  BY <1>1, <1>2, <1>5 DEF Issued, Held
<1>8. (NoReuse /\ StoredAhead)'
  BY <1>2, <1>5, <1>7 DEF IInv, NoReuse, StoredAhead
<1>9. (HeldUnused /\ HeldOnce)'
  BY <1>3, <1>5 DEF IInv, HeldUnused, HeldOnce, TypeOK, Context
<1>10. (WithinReservation /\ CallCovered)'
  BY <1>2 DEF IInv, WithinReservation, CallCovered, Usable
<1>11. \A j \in Keys, n \in Indices : Owned(j, n)' <=> Owned(j, n)
  BY <1>2 DEF Owned, Usable
<1>12. (OwnedUnissued /\ OwnedOnce)'
  BY <1>7, <1>11 DEF IInv, OwnedUnissued, OwnedOnce
<1>13. SingleUser'
  BY <1>2, <1>7 DEF IInv, SingleUser, Usable
<1>14. InOrder'
  BY <1>2 DEF IInv, InOrder, Usable
<1>15. QED
  BY <1>6, <1>8, <1>9, <1>10, <1>12, <1>13, <1>14 DEF IInv

(* A crash leaves no usable key and no live context, and NV storage as it was.*)
LEMMA CrashStep ==
  ASSUME IInv, Crash
  PROVE  IInv'
<1>1. /\ Allocated \in WorkingKey /\ Allocated.status # "none"
      /\ Unusable \in Context /\ Unusable.status # "none"
  BY DEF Allocated, WorkingKey, Status, Counts, Indices, Unusable, Context
<1>2. /\ wk' = [k \in Keys |-> Allocated]
      /\ ctx' = [c \in Ctxs |-> Unusable]
      /\ call' = NoCall
      /\ promise' \in [Keys -> Nat]
      /\ UNCHANGED <<nv, uses, gone, raw>>
  BY DEF Crash
<1>3. TypeOK'
  BY <1>1, <1>2 DEF IInv, TypeOK
<1>4. /\ \A k \in Keys : ~Usable(k)'
      /\ \A c \in Ctxs : ctx'[c].status # "none"
  BY <1>1, <1>2 DEF Usable
<1>5. \A i \in Indices : Issued(i)' => Issued(i)
  BY <1>2, <1>4 DEF Issued, Held
<1>6. (NoReuse /\ StoredAhead)'
  BY <1>2, <1>5 DEF IInv, NoReuse, StoredAhead
<1>7. QED
  BY <1>2, <1>3, <1>4, <1>6
  DEF IInv, WithinReservation, CallCovered,
     OwnedUnissued, OwnedOnce, Owned, SingleUser, HeldUnused, HeldOnce, InOrder

\* The invariant holds at the beginning,
LEMMA InitStep == Init => IInv
<1>1. SUFFICES ASSUME Init PROVE IInv
  OBVIOUS
<1>2. 0 \in Indices /\ 0 \in Counts
  BY DEF Indices, Counts
<1>3. TypeOK
  BY <1>1, <1>2 DEF Init, TypeOK, Allocated, WorkingKey, Status, Context
<1>4. /\ \A k \in Keys : ~Usable(k)
      /\ \A c \in Ctxs : ctx[c].status # "none"
  BY <1>1 DEF Init, Usable, Allocated
<1>5. NoReuse /\ StoredAhead
  BY <1>1, <1>4 DEF Init, NoReuse, StoredAhead, Issued, Held
<1>6. QED
  BY <1>1, <1>3, <1>4, <1>5
  DEF Init, IInv, WithinReservation, CallCovered,
     OwnedUnissued, OwnedOnce, Owned, SingleUser, HeldUnused, HeldOnce, InOrder

\* and every step preserves it.
LEMMA NextStep == IInv /\ [Next]_vars => IInv'
<1>. SUFFICES ASSUME IInv, [Next]_vars PROVE IInv'
  OBVIOUS
<1>1. ASSUME NEW k \in Keys, NEW readOk \in BOOLEAN, Load(k, readOk) PROVE IInv'
  BY <1>1, LoadStep
<1>2. ASSUME NEW k \in Keys, Free(k) PROVE IInv'
  BY <1>2, FreeStep
<1>3. ASSUME NEW k \in Keys, NEW n \in Reservations, SetAutoreserve(k, n) PROVE IInv'
  BY <1>3, AutoreserveStep
<1>4. ASSUME NEW k \in Keys, NEW n \in Reservations, NEW w \in Writes, Reserve(k, n, w)
      PROVE  IInv'
  BY <1>4, ReserveStep
<1>5. ASSUME NEW k \in Keys, NEW c \in Ctxs \cup {NoCtx}, NEW fits \in BOOLEAN, SignRefused(k, c, fits) PROVE IInv'
  BY <1>5, RefusedStep
<1>6. ASSUME NEW k \in Keys, NEW c \in Ctxs \cup {NoCtx}, NEW w \in Writes, SignBegin(k, c, w)
      PROVE  IInv'
  BY <1>6, BeginStep
<1>7. ASSUME NEW k \in Keys, NEW c \in Ctxs, NEW ok \in BOOLEAN, SignFinalize(c, k, ok)
      PROVE  IInv'
  BY <1>7, FinalizeStep
<1>8. CASE UNCHANGED vars
  <2>1. \A i \in Indices : Issued(i)' <=> Issued(i)
    BY <1>8 DEF vars, Issued, Held
  <2>2. \A j \in Keys, i \in Indices : Owned(j, i)' <=> Owned(j, i)
    BY <1>8 DEF vars, Owned, Usable
  <2>3. (TypeOK /\ NoReuse /\ StoredAhead /\ HeldUnused /\ HeldOnce)'
    BY <1>8, <2>1 DEF vars, IInv, TypeOK, NoReuse, StoredAhead, HeldUnused, HeldOnce
  <2>4. (WithinReservation /\ CallCovered /\ SingleUser /\ InOrder)'
    BY <1>8, <2>1 DEF vars, IInv, WithinReservation, CallCovered, SingleUser, InOrder, Usable,
                      Issued, Held
  <2>5. (OwnedUnissued /\ OwnedOnce)'
    BY <2>1, <2>2 DEF IInv, OwnedUnissued, OwnedOnce
  <2>6. QED
    BY <2>3, <2>4, <2>5 DEF IInv
<1>9. QED
  BY <1>1, <1>2, <1>3, <1>4, <1>5, <1>6, <1>7, <1>8, DoneStep, FailedStep, CrashStep DEF Next

(* The inductive invariant holds in every reachable state.                   *)
THEOREM Inductive == Spec => []IInv
BY InitStep, NextStep, PTL DEF Spec

(* Type correctness.                                                         *)
THEOREM TypeCorrect == Spec => []TypeOK
<1>1. IInv => TypeOK
  BY DEF IInv
<1>2. QED
  BY <1>1, Inductive, PTL

(* No one-time key ever signs twice, whatever crashes, write failures,       *)
(* reloads, reservations and incremental contexts come in between.           *)
THEOREM OneTimeKeysSignOnce == Spec => []NoReuse
<1>1. IInv => NoReuse
  BY DEF IInv
<1>2. QED
  BY <1>1, Inductive, PTL

(* The stored index is beyond everything given out, at every moment a crash  *)
(* may strike.                                                               *)
THEOREM ReloadStartsBeyond == Spec => []StoredAhead
<1>1. IInv => StoredAhead
  BY DEF IInv
<1>2. QED
  BY <1>1, Inductive, PTL

-----------------------------------------------------------------------------
(* Contexts change only by losing their numbers: none is given out.          *)
LEMMA LossStep ==
  ASSUME TypeOK, CtxLoss, UNCHANGED <<uses, gone>>
  PROVE  [Abstract!Next]_(Abstract!vars)
<1>. DEFINE lost == {c \in Ctxs : ctx'[c].status # "none"}
<1>1. Pending' = [c \in Ctxs |-> IF c \in lost THEN {} ELSE Pending[c]]
  BY DEF Pending, CtxLoss
<1>2. lost \in SUBSET Ctxs
  OBVIOUS
<1>. HIDE DEF lost
<1>3. Abstract!Lose(lost)
  BY <1>1 DEF Abstract!Lose
<1>4. QED
  BY <1>2, <1>3 DEF Abstract!Next

(* A finished call gives its number to a signature or a context; every       *)
(* number given out before is smaller.                                       *)
LEMMA GiveOutStep ==
  ASSUME IInv, SignDone
  PROVE  Abstract!Next
<1>1. PICK k \in Keys : k = call.key
  BY DEF SignDone, IInv, TypeOK, Calls
<1>2. PICK i \in Counts : i = wk[k].cur
  BY DEF IInv, TypeOK, WorkingKey
<1>3. i \in Indices
  BY <1>1, <1>2, CallIndex DEF SignDone
<1>4. Abstract!GiveOut(i)
  BY <1>1, <1>2 DEF SignDone, IInv, InOrder, Abstract!GiveOut
<1>5. CASE call.ctx = NoCtx
  <2>1. uses' = [uses EXCEPT ![i] = @ + 1] /\ Pending' = Pending
    BY <1>1, <1>2, <1>5 DEF SignDone, Pending
  <2>2. QED
    BY <1>3, <1>4, <2>1 DEF Abstract!Next, Abstract!Sign
<1>6. CASE call.ctx # NoCtx
  <2>1. PICK c \in Ctxs : c = call.ctx
    BY <1>6 DEF SignDone, IInv, TypeOK, Calls
  <2>2. uses' = uses /\ ctx' = [ctx EXCEPT ![c] = [status |-> "none", q |-> i]]
    BY <1>1, <1>2, <1>6, <2>1 DEF SignDone
  <2>3. /\ ctx'[c] = [status |-> "none", q |-> i]
        /\ \A d \in Ctxs : d # c => ctx'[d] = ctx[d]
    BY <2>2 DEF IInv, TypeOK
  <2>4. Pending' = [Pending EXCEPT ![c] = {i}]
    <3>1. Pending' = [d \in Ctxs |-> IF d = c THEN {i} ELSE Pending[d]]
      BY <2>3 DEF Pending
    <3>2. QED
      BY <3>1 DEF Pending
  <2>5. QED
    BY <1>3, <1>4, <2>1, <2>2, <2>4 DEF Abstract!Next, Abstract!Hold
<1>7. QED
  BY <1>5, <1>6

(* hss_sign_finalize spends the context on its own number.                   *)
LEMMA SpendStep ==
  ASSUME IInv, NEW c \in Ctxs, NEW k \in Keys, NEW ok \in BOOLEAN, SignFinalize(c, k, ok)
  PROVE  Abstract!Next
<1>1. PICK i \in Indices : i = ctx[c].q
  BY DEF IInv, TypeOK, Context
<1>2. i \in Pending[c]
  BY <1>1 DEF Pending, SignFinalize
<1>3. \E n \in {0, 1} : uses' = [uses EXCEPT ![i] = @ + n]
  <2>1. uses[i] \in Nat
    BY DEF IInv, TypeOK
  <2>2. uses' = [uses EXCEPT ![i] = IF ok THEN uses[i] + 1 ELSE uses[i]]
    BY <1>1 DEF SignFinalize
  <2>3. CASE ok
    BY <2>2, <2>3
  <2>4. CASE ~ok
    <3>1. uses[i] + 0 = uses[i]
      BY <2>1
    <3>2. uses' = [uses EXCEPT ![i] = uses[i] + 0]
      BY <2>2, <2>4, <3>1
    <3>3. QED
      BY <3>2
  <2>5. QED
    BY <2>3, <2>4
<1>4. /\ ctx'[c].status = "used"
      /\ \A d \in Ctxs : d # c => ctx'[d] = ctx[d]
  BY DEF SignFinalize, IInv, TypeOK
<1>5. Pending' = [Pending EXCEPT ![c] = {}]
  BY <1>4 DEF Pending
<1>6. Abstract!Finish(c)
  BY <1>2, <1>3, <1>5 DEF Abstract!Finish, SignFinalize
<1>7. QED
  BY <1>6 DEF Abstract!Next

\* Every step is one that OneTimeKeys allows, or changes nothing it speaks of.
LEMMA AbstractStep ==
  ASSUME IInv, [Next]_vars
  PROVE  [Abstract!Next]_(Abstract!vars)
<1>1. CASE SignDone
  BY <1>1, GiveOutStep
<1>2. ASSUME NEW c \in Ctxs, NEW k \in Keys, NEW ok \in BOOLEAN, SignFinalize(c, k, ok)
      PROVE  Abstract!Next
  BY <1>2, SpendStep
<1>3. ASSUME NEW k \in Keys, NEW c \in Ctxs \cup {NoCtx}, ctx' = Spoil(c),
             UNCHANGED <<uses, gone>>
      PROVE  [Abstract!Next]_(Abstract!vars)
  BY <1>3, SpoilLoss, LossStep DEF IInv
<1>4. CASE Crash
  <2>1. CtxLoss /\ UNCHANGED <<uses, gone>>
    BY <1>4 DEF Crash, CtxLoss, Unusable, Context, Indices
  <2>2. QED
    BY <2>1, LossStep DEF IInv
<1>5. CASE UNCHANGED <<ctx, uses, gone>>
  BY <1>5 DEF Pending, Abstract!vars
<1>6. QED
  BY ZenonT(60), <1>1, <1>2, <1>3, <1>4, <1>5
  DEF Next, vars, Load, Free, SetAutoreserve, Reserve, SignRefused, SignBegin, SignFailed

(* The working key implements OneTimeKeys: numbers are given out in          *)
(* increasing order, once each, and a context signs with its own.            *)
THEOREM Refinement == Spec => OneTime
<1>1. Init => Abstract!Init
  BY DEF Init, Abstract!Init, Pending
<1>2. IInv /\ [Next]_vars => [Abstract!Next]_(Abstract!vars)
  BY AbstractStep
<1>3. QED
  BY <1>1, <1>2, Inductive, PTL DEF Spec, OneTime, Abstract!Spec

(* No step begins a signature once the stored key is trashed: a raw key no   *)
(* longer matches, and with callbacks no working key is usable.              *)
THEOREM TrashedStaysDead == Spec => TrashedKeyIsDead
<1>1. IInv /\ [Next]_vars =>
        [nv = AllOnes /\ call = NoCall
           => call' = NoCall /\ \A i \in Indices : Issued(i)' => Issued(i)]_vars
  <2>. SUFFICES ASSUME IInv, Next, nv = AllOnes, call = NoCall
                PROVE  call' = NoCall /\ \A i \in Indices : Issued(i)' => Issued(i)
    OBVIOUS
  <2>1. \A k \in Keys : ~(Usable(k) /\ KeyMatches(k))
    <3>1. SUFFICES ASSUME NEW k \in Keys, Usable(k), KeyMatches(k) PROVE FALSE
      OBVIOUS
    <3>2. wk[k].pk = wk[k].reserve /\ wk[k].reserve \in Indices
      BY <3>1 DEF IInv, WithinReservation, TypeOK, WorkingKey
    <3>3. AllOnes \notin Indices
      BY DEF Indices
    <3>4. QED
      BY <3>1, <3>2, <3>3 DEF KeyMatches, IInv, SingleUser
  <2>2. ASSUME NEW k \in Keys, NEW c \in Ctxs \cup {NoCtx}, NEW fits \in BOOLEAN, SignRefused(k, c, fits)
        PROVE  call' = NoCall /\ \A i \in Indices : Issued(i)' => Issued(i)
    <3>1. CtxLoss
      BY <2>2, SpoilLoss DEF SignRefused, IInv
    <3>2. QED
      BY <2>2, <3>1 DEF SignRefused, CtxLoss, Issued, Held
  <2>3. ASSUME NEW c \in Ctxs, NEW k \in Keys, NEW ok \in BOOLEAN, SignFinalize(c, k, ok)
        PROVE  call' = NoCall /\ \A i \in Indices : Issued(i)' => Issued(i)
    <3>1. PICK i \in Indices : i = ctx[c].q
      BY DEF IInv, TypeOK, Context
    <3>2. Held(i)
      BY <2>3, <3>1 DEF SignFinalize, Held
    <3>3. \A n \in Indices : n # i => uses'[n] = uses[n]
      BY <2>3, <3>1 DEF SignFinalize, IInv, TypeOK
    <3>4. \A d \in Ctxs : ctx'[d].status = "none" => ctx'[d] = ctx[d]
      BY <2>3 DEF SignFinalize, IInv, TypeOK
    <3>5. QED
      BY <2>3, <3>2, <3>3, <3>4 DEF SignFinalize, Issued, Held
  <2>4. CASE Crash
    <3>1. \A c \in Ctxs : ctx'[c].status # "none"
      BY <2>4 DEF Crash, Unusable
    <3>2. QED
      BY <2>4, <3>1 DEF Crash, Issued, Held
  <2>5. CASE UNCHANGED <<call, ctx, uses>>
    BY <2>5 DEF Issued, Held
  <2>6. QED
    BY ZenonT(60), <2>1, <2>2, <2>3, <2>4, <2>5
    DEF Next, Load, Free, SetAutoreserve, Reserve, SignBegin, SignDone, SignFailed
<1>2. QED
  BY <1>1, Inductive, PTL DEF Spec, TrashedKeyIsDead

(* A raw private key is written only by a working key that matches it, and   *)
(* so only forwards.                                                         *)
THEOREM RawKeyMovesForward == Spec => NeverBackwards
<1>1. IInv /\ [Next]_vars => [raw => nv' >= nv]_nv
  <2>. SUFFICES ASSUME IInv, Next, raw PROVE nv' = nv \/ nv' >= nv
    BY DEF vars
  <2>1. nv \in Nat /\ AllOnes >= nv
    BY DEF IInv, TypeOK, Indices
  <2>2. ASSUME NEW k \in Keys, NEW n \in Reservations, NEW w \in Writes, Reserve(k, n, w)
        PROVE  nv' = nv \/ nv' >= nv
    <3>1. nv = wk[k].reserve /\ wk[k].reserve \in Nat /\ wk[k].cur \in Nat
      BY <2>2 DEF Reserve, KeyMatches, IInv, WithinReservation, TypeOK, WorkingKey, Indices, Counts
    <3>2. nv' = nv \/ (nv' = wk[k].cur + n /\ wk[k].cur + n > wk[k].reserve)
      BY <2>2, StoredValue DEF Reserve
    <3>3. QED
      BY <2>1, <3>1, <3>2
  <2>3. ASSUME NEW k \in Keys, NEW c \in Ctxs \cup {NoCtx}, NEW w \in Writes, SignBegin(k, c, w)
        PROVE  nv' = nv \/ nv' >= nv
    <3>1. nv = wk[k].reserve /\ wk[k].cur \in Nat
      BY <2>3 DEF SignBegin, KeyMatches, IInv, WithinReservation, TypeOK, WorkingKey, Counts
    <3>2. CASE AdvanceLast(k, c, w)
      BY <2>1, <3>2, StoredValue DEF AdvanceLast
    <3>3. CASE AdvanceWrite(k, c, w)
      <4>1. NewCount(k) \in Indices /\ wk[k].cur < NewCount(k)
        BY <3>3, NewCountBounds DEF AdvanceWrite, IInv
      <4>2. nv' = nv \/ nv' = NewCount(k)
        BY <3>3, StoredValue DEF AdvanceWrite
      <4>3. QED
        BY <2>1, <3>1, <3>3, <4>1, <4>2 DEF AdvanceWrite, Indices
    <3>4. CASE AdvanceReserved(k, c, w)
      BY <3>4 DEF AdvanceReserved
    <3>5. QED
      BY <2>3, <3>2, <3>3, <3>4 DEF SignBegin
  <2>4. QED
    BY <2>2, <2>3
    DEF Next, Load, Free, SetAutoreserve, SignRefused, SignDone, SignFailed, SignFinalize, Crash
<1>2. QED
  BY <1>1, Inductive, PTL DEF Spec, NeverBackwards

(* What hss_reserve_signature promised lies inside the reservation.          *)
Promised == \A k \in Keys : Usable(k) => promise[k] <= wk[k].reserve

\* Every step keeps the promised reservations.
LEMMA PromisedStep == IInv /\ Promised /\ [Next]_vars => Promised'
<1>. SUFFICES ASSUME IInv, Promised, [Next]_vars PROVE Promised'
  OBVIOUS
<1>1. /\ wk \in [Keys -> WorkingKey]
      /\ promise \in [Keys -> Nat]
      /\ \A j \in Keys : wk[j].reserve \in Nat
  BY DEF IInv, TypeOK, WorkingKey, Indices
<1>2. ASSUME NEW k \in Keys, NEW readOk \in BOOLEAN, Load(k, readOk) PROVE Promised'
  <2>1. /\ promise'[k] = 0
        /\ \A j \in Keys : j # k => promise'[j] = promise[j] /\ wk'[j] = wk[j]
    BY <1>1, <1>2 DEF Load
  <2>2. wk'[k].reserve \in Nat
    BY <1>2, LoadStep DEF IInv, TypeOK, WorkingKey, Indices
  <2>3. QED
    BY <2>1, <2>2 DEF Promised, Usable
<1>3. ASSUME NEW k \in Keys, Free(k) PROVE Promised'
  <2>1. /\ promise'[k] = 0 /\ wk'[k] = Allocated
        /\ \A j \in Keys : j # k => promise'[j] = promise[j] /\ wk'[j] = wk[j]
    BY <1>1, <1>3 DEF Free
  <2>2. QED
    BY <2>1 DEF Promised, Usable, Allocated
<1>4. ASSUME NEW k \in Keys, NEW n \in Reservations, SetAutoreserve(k, n) PROVE Promised'
  BY <1>1, <1>4 DEF SetAutoreserve, Promised, Usable, WorkingKey
<1>5. ASSUME NEW k \in Keys, NEW n \in Reservations, NEW w \in Writes, Reserve(k, n, w)
      PROVE  Promised'
  <2>1. \A j \in Keys : j # k => promise'[j] = promise[j] /\ wk'[j] = wk[j]
    BY <1>1, <1>5 DEF Reserve
  <2>2. /\ wk[k] \in WorkingKey
        /\ Usable(k)
        /\ promise[k] \in Nat /\ promise[k] <= wk[k].reserve
        /\ wk[k].cur + n \in Nat
    BY <1>1, <1>5 DEF Reserve, Promised, WorkingKey, Counts
  <2>3. promise'[k] <= wk'[k].reserve
    <3>. DEFINE new == wk[k].cur + n
    <3>1. CASE new <= wk[k].reserve
      <4>1. /\ promise' = [promise EXCEPT ![k] = IF new > promise[k] THEN new ELSE promise[k]]
            /\ wk' = wk
        BY <1>1, <1>5, <2>2, <3>1 DEF Reserve
      <4>2. (IF new > promise[k] THEN new ELSE promise[k]) <= wk[k].reserve
        BY <2>2, <3>1
      <4>3. QED
        BY <1>1, <4>1, <4>2
    <3>2. CASE new > wk[k].reserve /\ w = "ok"
      <4>1. /\ promise' = [promise EXCEPT ![k] = new]
            /\ wk' = [wk EXCEPT ![k] = [wk[k] EXCEPT !.reserve = new, !.pk = new]]
        BY <1>1, <1>5, <2>2, <3>2 DEF Reserve
      <4>2. [wk[k] EXCEPT !.reserve = new, !.pk = new].reserve = new
        BY <2>2 DEF WorkingKey
      <4>3. QED
        BY <1>1, <2>2, <4>1, <4>2
    <3>3. CASE new > wk[k].reserve /\ w # "ok"
      <4>1. /\ promise' = promise
            /\ wk' = [wk EXCEPT ![k] = [wk[k] EXCEPT !.pk = wk[k].reserve]]
        BY <1>1, <1>5, <2>2, <3>3 DEF Reserve
      <4>2. [wk[k] EXCEPT !.pk = wk[k].reserve].reserve = wk[k].reserve
        BY <2>2 DEF WorkingKey
      <4>3. QED
        BY <1>1, <2>2, <4>1, <4>2
    <3>4. QED
      BY <1>1, <2>2, <3>1, <3>2, <3>3
  <2>4. QED
    BY <2>1, <2>3 DEF Promised, Usable
<1>6. ASSUME NEW k \in Keys, NEW c \in Ctxs \cup {NoCtx}, NEW w \in Writes, SignBegin(k, c, w)
      PROVE  Promised'
  <2>1. promise' = promise
    BY <1>6 DEF SignBegin
  <2>2. \A j \in Keys : j # k => wk'[j] = wk[j]
    BY <1>1, <1>6 DEF SignBegin, AdvanceLast, AdvanceReserved, AdvanceWrite
  <2>3. Usable(k) /\ promise[k] \in Nat /\ promise[k] <= wk[k].reserve
    BY <1>1, <1>6 DEF SignBegin, Promised
  <2>4. CASE AdvanceLast(k, c, w)
    <3>1. wk'[k].status = "expired"
      BY <1>1, <2>4 DEF AdvanceLast, WorkingKey
    <3>2. QED
      BY <2>1, <2>2, <3>1 DEF Promised, Usable
  <2>5. CASE AdvanceReserved(k, c, w)
    BY <2>1, <2>5 DEF AdvanceReserved, Promised, Usable
  <2>6. CASE AdvanceWrite(k, c, w)
    <3>1. /\ NewCount(k) \in Nat /\ wk[k].cur < NewCount(k)
          /\ wk[k].cur \in Nat
      BY <1>1, <2>6, NewCountBounds DEF AdvanceWrite, IInv, Indices, WorkingKey, Counts
    <3>2. wk'[k].reserve \in Nat /\ wk'[k].reserve >= wk[k].reserve
      <4>1. CASE w = "ok"
        <5>1. wk' = [wk EXCEPT ![k] = [wk[k] EXCEPT !.reserve = NewCount(k), !.pk = NewCount(k)]]
          BY <2>6, <4>1 DEF AdvanceWrite
        <5>2. wk'[k].reserve = NewCount(k) /\ wk[k].cur + 1 > wk[k].reserve
          BY <1>1, <2>6, <5>1 DEF AdvanceWrite, WorkingKey
        <5>3. QED
          BY <1>1, <3>1, <5>2
      <4>2. CASE w # "ok"
        <5>1. wk' = [wk EXCEPT ![k] = [wk[k] EXCEPT !.pk = wk[k].reserve]]
          BY <2>6, <4>2 DEF AdvanceWrite
        <5>2. wk'[k].reserve = wk[k].reserve
          BY <1>1, <5>1 DEF WorkingKey
        <5>3. QED
          BY <1>1, <5>2
      <4>3. QED
        BY <4>1, <4>2
    <3>3. promise[k] <= wk'[k].reserve
      BY <1>1, <2>3, <3>2
    <3>4. QED
      BY <2>1, <2>2, <2>3, <3>3 DEF Promised, Usable
  <2>7. QED
    BY <1>6, <2>4, <2>5, <2>6 DEF SignBegin
<1>7. ASSUME NEW k \in Keys, NEW d, wk' = [wk EXCEPT ![k] = [@ EXCEPT !.cur = d, !.pk = Trashed(k)]],
             promise' = promise
      PROVE  Promised'
  <2>1. wk[k] \in WorkingKey
    BY <1>1
  <2>2. wk'[k] = [wk[k] EXCEPT !.cur = d, !.pk = Trashed(k)]
    BY <1>1, <1>7
  <2>3. wk'[k].status = wk[k].status /\ wk'[k].reserve = wk[k].reserve
    BY <2>1, <2>2 DEF WorkingKey
  <2>4. \A j \in Keys : j # k => wk'[j] = wk[j]
    BY <1>1, <1>7
  <2>5. QED
    BY <1>7, <2>3, <2>4 DEF Promised, Usable
<1>8. CASE SignDone
  <2>1. PICK k \in Keys : k = call.key
    BY <1>8 DEF SignDone, IInv, TypeOK, Calls
  <2>2. /\ wk' = [wk EXCEPT ![k] = [@ EXCEPT !.cur = wk[k].cur + 1, !.pk = Trashed(k)]]
        /\ promise' = promise
    BY <1>8, <2>1 DEF SignDone
  <2>3. QED
    BY <1>7, <2>2
<1>9. CASE SignFailed
  <2>1. PICK k \in Keys : k = call.key
    BY <1>9 DEF SignFailed, IInv, TypeOK, Calls
  <2>2. PICK d \in {0, 1} :
          wk' = [wk EXCEPT ![k] = [@ EXCEPT !.cur = wk[k].cur + d, !.pk = Trashed(k)]]
    BY <1>9, <2>1 DEF SignFailed
  <2>3. promise' = promise
    BY <1>9 DEF SignFailed
  <2>4. QED
    BY <1>7, <2>2, <2>3
<1>10. CASE Crash
  BY <1>10 DEF Crash, Promised, Usable, Allocated
<1>11. CASE UNCHANGED <<wk, promise>>
  BY <1>11 DEF Promised, Usable
<1>12. QED
  BY <1>2, <1>3, <1>4, <1>5, <1>6, <1>8, <1>9, <1>10, <1>11
  DEF Next, vars, SignRefused, SignFinalize

(* Signing within what hss_reserve_signature promised never writes NV        *)
(* storage; nothing that the code promises includes the last signature.      *)
THEOREM ReservationsAreKept == Spec => PromiseKept
<1>1. Init => Promised
  BY DEF Init, Promised, Usable, Allocated
<1>2. Spec => []Promised
  BY <1>1, PromisedStep, Inductive, PTL DEF Spec
<1>3. IInv /\ Promised /\ [Next]_vars =>
        [\A k \in Keys : /\ call = NoCall
                         /\ call' # NoCall
                         /\ call'.key = k
                         /\ wk[k].cur < promise[k]
                         /\ wk[k].cur < MaxCount
                         => nv' = nv]_vars
  <2>. SUFFICES ASSUME IInv, Promised, Next, NEW k \in Keys, call = NoCall, call' # NoCall,
                       call'.key = k, wk[k].cur < promise[k]
                PROVE  nv' = nv
    OBVIOUS
  <2>1. PICK j \in Keys, c \in Ctxs \cup {NoCtx}, w \in Writes : SignBegin(j, c, w)
    BY ZenonT(60) DEF Next, Load, Free, SetAutoreserve, Reserve, SignRefused, SignDone, SignFailed,
           SignFinalize, Crash
  <2>2. j = k
    BY <2>1 DEF SignBegin, AdvanceLast, AdvanceReserved, AdvanceWrite
  <2>3. wk[k].cur < wk[k].reserve /\ wk[k].cur \in Nat /\ wk[k].reserve \in Nat
        /\ wk[k].reserve <= MaxCount
    BY <2>1, <2>2 DEF SignBegin, Promised, IInv, TypeOK, WorkingKey, Indices, Counts
  <2>4. QED
    BY <2>1, <2>2, <2>3 DEF SignBegin, AdvanceLast, AdvanceReserved, AdvanceWrite
<1>4. QED
  BY <1>2, <1>3, Inductive, PTL DEF Spec, PromiseKept
=============================================================================
