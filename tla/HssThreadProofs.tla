--------------------------- MODULE HssThreadProofs ---------------------------
(***************************************************************************)
(* Proofs about HssThread for every number of work items and threads, and  *)
(* every argument of hss_thread_init.                                      *)
(*                                                                         *)
(* The invariant pairs what the collection says of a slot (state) with what*)
(* its POSIX thread is doing, which differ only while the main thread is   *)
(* between two statements of a critical section, and says where each issued*)
(* item is: in the hands of the main thread, in the queue, with one worker *)
(* or performed, and nowhere else.                                         *)
(***************************************************************************)
EXTENDS HssThread, FiniteSetTheorems, TLAPS

USE ThreadAssumption

Working == {"running", "writing"}
Busy == Working \cup {"returned"}
Locked == {"scan", "create", "created", "enqueue", "done_scan"}
Holding == {"lock", "scan", "join", "relock", "create", "enqueue", "inline", "inline_writing"}
Closing == {"done_lock", "done_scan", "done_join", "done_relock", "finished"}

\* Who owns the two locks.
LockInv ==
  /\ lock = Main <=> pc \in Locked
  /\ writeLock = Main <=> pc = "inline_writing" /\ numThread # 0
  /\ \A s \in Slots : writeLock = s <=> thread[s] = "writing"

\* What the collection says of a slot, and what its thread is doing.
SlotInv == \A s \in Slots :
  /\ state[s] = "alive" => thread[s] \in Busy
  /\ state[s] = "never_was" => \/ thread[s] = "none"
                               \/ pc = "created" /\ s = slot /\ thread[s] \in Busy
  /\ state[s] = "dead" => \/ thread[s] \in {"exiting", "exited"}
                          \/ /\ thread[s] = "none"
                             /\ \/ pc \in {"relock", "done_relock"} /\ s = slot
                                \/ pc \in Closing /\ s < slot
  /\ s \notin Used => state[s] = "never_was"

\* Where the main thread is, and which slot it is looking at.
PositionInv ==
  /\ pc \in {"scan", "join", "relock", "create", "created"} => slot \in Used
  /\ pc = "join" => state[slot] = "dead" /\ thread[slot] \in {"exiting", "exited"}
  /\ pc = "relock" => state[slot] = "dead" /\ thread[slot] = "none"
  /\ pc = "create" => state[slot] = "never_was" /\ thread[slot] = "none"
  /\ pc = "created" => state[slot] = "never_was" /\ thread[slot] \in Busy
  /\ pc = "done_join" => slot \in Used /\ thread[slot] # "none"
  /\ pc = "done_relock" => slot \in Used /\ thread[slot] = "none"
  /\ pc \in {"done_lock", "done_scan"} => slot <= numThread
  /\ pc = "finished" => slot = numThread
  /\ pc \in Closing => \A s \in Slots : s < slot => thread[s] = "none"
  /\ pc \notin {"init", "idle", "inline", "inline_writing", "finished"} => numThread # 0
  /\ pc = "init" => numThread = 0
  /\ ptr \in Used \/ ptr = 0

\* The slots that the search from slot, wrapping around, has yet to look at.
Ahead == {s \in Used : s < slot + left - numThread \/ (slot <= s /\ s < slot + left)}

Alive == {s \in Slots : state[s] = "alive"}

CountInv ==
  /\ numAlive = Cardinality(Alive)
  /\ pc = "scan" => \E s \in Ahead : state[s] # "alive"
  /\ pc = "enqueue" => \A s \in Used : state[s] = "alive"

\* Where an item can be before its function has returned.
Held(i) == pc \in Holding /\ item = i
Queued(i) == \E k \in 1 .. Len(queue) : queue[k] = i
Worked(s, i) == thread[s] \in Working /\ work[s] = i

\* One place for each issued item, and none for the others.
ItemInv(i) ==
  /\ runs[i] <= 1
  /\ i \notin issued => runs[i] = 0
  /\ i \in issued /\ runs[i] = 0 => Held(i) \/ Queued(i) \/ \E s \in Slots : Worked(s, i)
  /\ Held(i) => i \in issued /\ runs[i] = 0 /\ ~Queued(i)
  /\ Queued(i) => i \in issued /\ runs[i] = 0
  /\ \A s \in Slots : Worked(s, i) => i \in issued /\ runs[i] = 0 /\ ~Held(i) /\ ~Queued(i)
  /\ \A s, t \in Slots : Worked(s, i) /\ Worked(t, i) => s = t

PlaceInv ==
  /\ pc \in Holding => item \in Items
  /\ \A s \in Slots : thread[s] \in Working => work[s] \in Items
  /\ numThread = 0 => queue = <<>>
  /\ \A j, k \in 1 .. Len(queue) : queue[j] = queue[k] => j = k
  /\ \A i \in Items : ItemInv(i)

IInv == /\ TypeOK /\ LockInv /\ SlotInv /\ PositionInv
        /\ CountInv /\ QueueOnlyWhenFull /\ PlaceInv

-----------------------------------------------------------------------------
(* Slots and how many of them are alive. *)

(* The round robin over the slots: adding one and wrapping around.           *)
LEMMA NextSlot ==
  ASSUME NEW n \in Nat \ {0}, NEW s \in 0 .. n - 1
  PROVE  (s + 1) % n = IF s + 1 = n THEN 0 ELSE s + 1
OBVIOUS

(* num_alive against num_thread: a pool with fewer living threads has a slot *)
(* to offer, and one with as many has none.                                  *)
LEMMA AliveCount ==
  ASSUME TypeOK, SlotInv
  PROVE  /\ IsFiniteSet(Alive)
         /\ Cardinality(Alive) \in 0 .. MaxThread
         /\ Alive \subseteq Used
         /\ Cardinality(Alive) < numThread => \E s \in Used : state[s] # "alive"
         /\ Cardinality(Alive) >= numThread => \A s \in Used : state[s] = "alive"
<1>1. numThread \in Nat
  BY DEF TypeOK
<1>2. IsFiniteSet(Slots) /\ Cardinality(Slots) = MaxThread
  BY FS_Interval DEF Slots
<1>3. IsFiniteSet(Used) /\ Cardinality(Used) = numThread
  BY <1>1, FS_Interval DEF Used
<1>4. Alive \subseteq Used /\ Alive \subseteq Slots
  BY DEF Alive, SlotInv
<1>5. IsFiniteSet(Alive) /\ Cardinality(Alive) <= MaxThread /\ Cardinality(Alive) \in Nat
  BY <1>2, <1>4, FS_Subset, FS_CardinalityType
<1>6. Cardinality(Alive) >= numThread => Alive = Used
  <2>1. Cardinality(Alive) <= numThread
    BY <1>3, <1>4, FS_Subset
  <2>. QED
    BY <1>1, <1>3, <1>4, <1>5, <2>1, FS_Subset
<1>7. Cardinality(Alive) < numThread => Alive # Used
  BY <1>1, <1>3
<1>8. Cardinality(Alive) < numThread => \E s \in Used : state[s] # "alive"
  <2>1. Used \subseteq Slots
    BY DEF Used, Slots, TypeOK
  <2>. QED
    BY <1>4, <1>7, <2>1 DEF Alive
<1>9. Cardinality(Alive) >= numThread => \A s \in Used : state[s] = "alive"
  BY <1>6 DEF Alive
<1>10. Cardinality(Alive) \in 0 .. MaxThread
  BY <1>5
<1>. QED
  BY <1>4, <1>5, <1>8, <1>9, <1>10

(* Frame lemmas, for the steps that move no item and change no slot.         *)
LEMMA SamePlaces ==
  ASSUME PlaceInv, UNCHANGED <<queue, issued, runs, numThread>>,
         pc' \in Holding <=> pc \in Holding,
         pc \in Holding => item' = item,
         \A s \in Slots : /\ thread'[s] \in Working <=> thread[s] \in Working
                          /\ thread[s] \in Working => work'[s] = work[s]
  PROVE  PlaceInv'
BY DEF PlaceInv, ItemInv, Held, Queued, Worked

\* Steps that leave the slots and the queue alone keep the counts.
LEMMA SameCounts ==
  ASSUME CountInv, QueueOnlyWhenFull, UNCHANGED <<state, numAlive, numThread, queue>>,
         pc' \notin {"scan", "enqueue"}
  PROVE  (CountInv /\ QueueOnlyWhenFull)'
BY DEF CountInv, QueueOnlyWhenFull, Alive, Used

-----------------------------------------------------------------------------
(* The main thread. *)

\* The invariant holds before a pool is made.
LEMMA InitStep == Init => IInv
<1>. SUFFICES ASSUME Init PROVE IInv
  OBVIOUS
<1>1. TypeOK
  BY DEF Init, TypeOK, Slots
<1>2. LockInv /\ SlotInv /\ PositionInv
  BY DEF Init, LockInv, SlotInv, PositionInv, Slots, Used, Locked, Closing, Busy, Working
<1>3. CountInv /\ QueueOnlyWhenFull
  <2>1. Alive = {}
    BY DEF Init, Alive
  <2>. QED
    BY <2>1, FS_EmptySet DEF Init, CountInv, QueueOnlyWhenFull
<1>4. PlaceInv
  BY DEF Init, PlaceInv, ItemInv, Held, Queued, Worked, Holding, Working
<1>. QED
  BY <1>1, <1>2, <1>3, <1>4 DEF IInv

\* Every step of the main thread preserves the invariant.
LEMMA MainSteps ==
  ASSUME IInv,
         \/ \E n \in Requests, ok \in BOOLEAN : ThreadInit(n, ok)
         \/ \E i \in Items, memory \in BOOLEAN : IssueWork(i, memory)
         \/ Done
         \/ MainStep
  PROVE  IInv'
<1>. USE DEF Slots, Used, pool
<1>1. CASE \E n \in Requests, ok \in BOOLEAN : ThreadInit(n, ok)
  <2>. PICK n \in Requests, ok \in BOOLEAN : ThreadInit(n, ok)
    BY <1>1
  <2>1. numThread' \in {0} \cup 2 .. MaxThread
    BY DEF ThreadInit, PoolSize
  <2>2. TypeOK'
    BY <2>1 DEF IInv, TypeOK, ThreadInit
  <2>3. (LockInv /\ SlotInv /\ PositionInv)'
    BY <2>1 DEF IInv, TypeOK, ThreadInit, LockInv, SlotInv, PositionInv, Locked, Closing, Busy, Working
  <2>4. (CountInv /\ QueueOnlyWhenFull)'
    BY <2>1 DEF IInv, ThreadInit, CountInv, QueueOnlyWhenFull, Alive, PlaceInv, PositionInv
  <2>5. PlaceInv'
    BY <2>1 DEF IInv, ThreadInit, PlaceInv, ItemInv, Held, Queued, Worked, Holding, Working, PositionInv
  <2>. QED
    BY <2>2, <2>3, <2>4, <2>5 DEF IInv
<1>2. CASE \E i \in Items, memory \in BOOLEAN : IssueWork(i, memory)
  <2>. PICK i \in Items, memory \in BOOLEAN : IssueWork(i, memory)
    BY <1>2
  <2>1. TypeOK'
    BY DEF IInv, TypeOK, IssueWork
  <2>2. (LockInv /\ SlotInv /\ PositionInv)'
    BY DEF IInv, TypeOK, IssueWork, LockInv, SlotInv, PositionInv, Locked, Closing, Busy, Working
  <2>3. (CountInv /\ QueueOnlyWhenFull)'
    BY SameCounts DEF IInv, IssueWork
  <2>4. PlaceInv'
    <3>1. /\ runs[i] = 0 /\ ~Queued(i) /\ \A s \in Slots : ~Worked(s, i)
          /\ i \notin issued /\ issued' = issued \cup {i}
          /\ pc \notin Holding /\ pc' \in Holding /\ item' = i
          /\ UNCHANGED <<numThread, queue, thread, work, runs>>
      BY DEF IInv, TypeOK, IssueWork, PlaceInv, ItemInv, Holding
    <3>2. \A j \in Items : Held(j)' <=> j = i
      BY <3>1 DEF Held
    <3>3. ASSUME NEW j \in Items PROVE ItemInv(j)'
      <4>1. Queued(j)' <=> Queued(j)
        BY <3>1 DEF Queued
      <4>2. \A s \in Slots : Worked(s, j)' <=> Worked(s, j)
        BY <3>1 DEF Worked
      <4>3. ItemInv(j) /\ ~(pc \in Holding) /\ runs'[j] = runs[j]
        BY <3>1 DEF IInv, PlaceInv
      <4>4. CASE j = i
        BY <3>1, <3>2, <4>1, <4>2, <4>4 DEF ItemInv
      <4>5. CASE j # i
        BY <3>1, <3>2, <4>1, <4>2, <4>3, <4>5 DEF ItemInv, Held
      <4>. QED
        BY <4>4, <4>5
    <3>. QED
      BY <3>1, <3>3 DEF IInv, PlaceInv
  <2>. QED
    BY <2>1, <2>2, <2>3, <2>4 DEF IInv
<1>3. CASE Done
  <2>1. TypeOK'
    BY <1>3 DEF IInv, TypeOK, Done
  <2>2. (LockInv /\ SlotInv /\ PositionInv)'
    BY <1>3 DEF IInv, TypeOK, Done, LockInv, SlotInv, PositionInv, Locked, Closing, Busy, Working
  <2>3. (CountInv /\ QueueOnlyWhenFull)'
    BY <1>3, SameCounts DEF IInv, Done
  <2>4. PlaceInv'
    BY <1>3, SamePlaces DEF IInv, Done, Holding
  <2>. QED
    BY <2>1, <2>2, <2>3, <2>4 DEF IInv
<1>4. CASE Lock
  <2>1. TypeOK'
    BY <1>4 DEF IInv, TypeOK, Lock
  <2>2. (LockInv /\ SlotInv /\ PositionInv)'
    BY <1>4 DEF IInv, TypeOK, Lock, LockInv, SlotInv, PositionInv, Locked, Closing, Busy, Working
  <2>3. (CountInv /\ QueueOnlyWhenFull)'
    <3>1. (CountInv /\ QueueOnlyWhenFull)'
      \* the search starts with every slot ahead of it
      BY <1>4, AliveCount DEF IInv, TypeOK, Lock, CountInv, QueueOnlyWhenFull, Alive, Ahead
    <3>. QED
      BY <3>1
  <2>4. PlaceInv'
    BY <1>4, SamePlaces DEF IInv, Lock, Holding
  <2>. QED
    BY <2>1, <2>2, <2>3, <2>4 DEF IInv
<1>5. CASE ScanSlot
  <2>slot. slot \in Used /\ numThread \in Nat \ {0} /\ left > 0
    BY <1>5 DEF IInv, TypeOK, ScanSlot, PositionInv, CountInv, Ahead
  <2>next. /\ slot \in Used /\ numThread \in Nat \ {0} /\ left > 0
        /\ (slot + 1) % numThread = IF slot + 1 = numThread THEN 0 ELSE slot + 1
    BY <2>slot, NextSlot
  <2>1. TypeOK'
    BY <1>5, <2>next DEF IInv, TypeOK, ScanSlot
  <2>2. (LockInv /\ SlotInv /\ PositionInv)'
    BY <1>5, <2>next DEF IInv, TypeOK, ScanSlot, LockInv, SlotInv, PositionInv, Locked, Closing, Busy, Working
  <2>3. (CountInv /\ QueueOnlyWhenFull)'
    <3>1. CASE state[slot] = "alive"
      <4>1. PICK s \in Ahead : state[s] # "alive"
        BY <1>5 DEF IInv, CountInv, ScanSlot
      <4>2. s \in Ahead'
        <5>1. /\ s \in Used /\ s # slot /\ numThread' = numThread /\ left' = left - 1
              /\ slot' = IF slot + 1 = numThread THEN 0 ELSE slot + 1
              /\ left \in Nat
          BY <1>5, <2>next, <3>1, <4>1 DEF IInv, TypeOK, ScanSlot, Ahead
        <5>. QED
          BY <2>next, <4>1, <5>1 DEF Ahead
      <4>3. Alive' = Alive /\ UNCHANGED <<state, numAlive, numThread, queue>> /\ pc' = "scan"
        BY <1>5, <3>1 DEF ScanSlot, Alive
      <4>. QED
        BY <4>1, <4>2, <4>3 DEF IInv, CountInv, QueueOnlyWhenFull
    <3>2. CASE state[slot] # "alive"
      BY <1>5, <2>next, <3>2, SameCounts DEF IInv, ScanSlot
    <3>. QED
      BY <3>1, <3>2
  <2>4. PlaceInv'
    BY <1>5, SamePlaces DEF IInv, ScanSlot, Holding
  <2>. QED
    BY <2>1, <2>2, <2>3, <2>4 DEF IInv
<1>6. CASE Join("join", "relock")
  <2>1. TypeOK'
    BY <1>6 DEF IInv, TypeOK, Join
  <2>2. (LockInv /\ SlotInv /\ PositionInv)'
    BY <1>6 DEF IInv, TypeOK, Join, LockInv, SlotInv, PositionInv, Locked, Closing, Busy, Working
  <2>3. (CountInv /\ QueueOnlyWhenFull)'
    BY <1>6, SameCounts DEF IInv, Join
  <2>4. PlaceInv'
    BY <1>6, SamePlaces DEF IInv, TypeOK, Join, Holding, Working
  <2>. QED
    BY <2>1, <2>2, <2>3, <2>4 DEF IInv
<1>7. CASE Relock
  <2>1. TypeOK'
    BY <1>7 DEF IInv, TypeOK, Relock
  <2>2. (LockInv /\ SlotInv /\ PositionInv)'
    BY <1>7 DEF IInv, TypeOK, Relock, LockInv, SlotInv, PositionInv, Locked, Closing, Busy, Working
  <2>3. (CountInv /\ QueueOnlyWhenFull)'
    <3>1. Alive' = Alive
      BY <1>7 DEF IInv, TypeOK, Relock, Alive, PositionInv
    <3>. QED
      BY <1>7, <3>1 DEF IInv, TypeOK, Relock, CountInv, QueueOnlyWhenFull, PositionInv
  <2>4. PlaceInv'
    BY <1>7, SamePlaces DEF IInv, Relock, Holding
  <2>. QED
    BY <2>1, <2>2, <2>3, <2>4 DEF IInv
<1>8. CASE Create
  <2>1. TypeOK'
    BY <1>8 DEF IInv, TypeOK, Create
  <2>2. (LockInv /\ SlotInv /\ PositionInv)'
    BY <1>8 DEF IInv, TypeOK, Create, LockInv, SlotInv, PositionInv, Locked, Closing, Busy, Working
  <2>3. (CountInv /\ QueueOnlyWhenFull)'
    BY <1>8, SameCounts DEF IInv, Create
  <2>4. PlaceInv'
    <3>1. /\ slot \in Slots /\ item \in Items /\ Held(item) /\ pc' \notin Holding
          /\ thread[slot] = "none" /\ thread' = [thread EXCEPT ![slot] = "running"]
          /\ work' = [work EXCEPT ![slot] = item]
          /\ UNCHANGED <<numThread, queue, issued, runs>>
      BY <1>8 DEF IInv, TypeOK, Create, PositionInv, PlaceInv, Holding, Held
    <3>2. /\ thread'[slot] = "running" /\ work'[slot] = item
          /\ \A s \in Slots \ {slot} : thread'[s] = thread[s] /\ work'[s] = work[s]
      BY <3>1 DEF IInv, TypeOK
    <3>3. \A i \in Items : ~Held(i)' /\ (Held(i) => i = item)
      BY <3>1 DEF Held
    <3>4. ASSUME NEW i \in Items PROVE ItemInv(i)'
      <4>1. Queued(i)' <=> Queued(i)
        BY <3>1 DEF Queued
      <4>2. \A s \in Slots : Worked(s, i)' <=> Worked(s, i) \/ (s = slot /\ i = item)
        BY <3>1, <3>2 DEF Worked, Working
      <4>3. ItemInv(i)
        BY DEF IInv, PlaceInv
      <4>. QED
        BY <3>1, <3>3, <4>1, <4>2, <4>3 DEF ItemInv
    <3>5. \A s \in Slots : thread'[s] \in Working => work'[s] \in Items
      BY <3>1, <3>2 DEF IInv, PlaceInv
    <3>. QED
      BY <3>1, <3>4, <3>5 DEF IInv, PlaceInv
  <2>. QED
    BY <2>1, <2>2, <2>3, <2>4 DEF IInv
<1>9. CASE CreateFailed
  <2>1. TypeOK'
    BY <1>9 DEF IInv, TypeOK, CreateFailed
  <2>2. (LockInv /\ SlotInv /\ PositionInv)'
    BY <1>9 DEF IInv, TypeOK, CreateFailed, LockInv, SlotInv, PositionInv, Locked, Closing, Busy, Working
  <2>3. (CountInv /\ QueueOnlyWhenFull)'
    BY <1>9, SameCounts DEF IInv, CreateFailed
  <2>4. PlaceInv'
    BY <1>9, SamePlaces DEF IInv, CreateFailed, Holding
  <2>. QED
    BY <2>1, <2>2, <2>3, <2>4 DEF IInv
<1>10. CASE Created
  <2>slot. slot \in Used /\ slot \in Slots /\ numThread \in Nat \ {0}
    BY <1>10 DEF IInv, TypeOK, Created, PositionInv
  <2>next. /\ slot \in Used /\ slot \in Slots /\ numThread \in Nat \ {0}
        /\ (slot + 1) % numThread = IF slot + 1 = numThread THEN 0 ELSE slot + 1
    BY <2>slot, NextSlot
  <2>count. /\ Cardinality(Alive') = numAlive + 1
        /\ numAlive < numThread
    <3>1. slot \notin Alive /\ Alive' = Alive \cup {slot}
      BY <1>10, <2>next DEF IInv, TypeOK, Created, Alive, PositionInv
    <3>2. IsFiniteSet(Alive) /\ numAlive = Cardinality(Alive)
      BY AliveCount DEF IInv, CountInv
    <3>3. numAlive < numThread
      BY <1>10, <2>next, AliveCount DEF IInv, TypeOK, CountInv, Created, PositionInv
    <3>. QED
      BY <3>1, <3>2, <3>3, FS_AddElement
  <2>1. TypeOK'
    BY <1>10, <2>next, <2>count DEF IInv, TypeOK, Created
  <2>2. (LockInv /\ SlotInv /\ PositionInv)'
    BY <1>10, <2>next DEF IInv, TypeOK, Created, LockInv, SlotInv, PositionInv, Locked, Closing, Busy, Working
  <2>3. (CountInv /\ QueueOnlyWhenFull)'
    BY <1>10, <2>next, <2>count DEF IInv, TypeOK, Created, CountInv, QueueOnlyWhenFull, PositionInv
  <2>4. PlaceInv'
    BY <1>10, SamePlaces DEF IInv, Created, Holding
  <2>. QED
    BY <2>1, <2>2, <2>3, <2>4 DEF IInv
<1>11. CASE Enqueue
  <2>item. item \in Items
    BY <1>11 DEF IInv, Enqueue, PlaceInv, Holding
  <2>1. TypeOK'
    BY <1>11, <2>item DEF IInv, TypeOK, Enqueue
  <2>2. (LockInv /\ SlotInv /\ PositionInv)'
    BY <1>11 DEF IInv, TypeOK, Enqueue, LockInv, SlotInv, PositionInv, Locked, Closing, Busy, Working
  <2>3. (CountInv /\ QueueOnlyWhenFull)'
    BY <1>11 DEF IInv, Enqueue, CountInv, QueueOnlyWhenFull, Alive
  <2>4. PlaceInv'
    <3>. DEFINE n == Len(queue)
    <3>1. /\ n \in Nat
          /\ Len(queue') = n + 1 /\ queue'[n + 1] = item
          /\ \A k \in 1 .. n : queue'[k] = queue[k]
      BY <1>11, <2>item DEF IInv, TypeOK, Enqueue
    <3>2. /\ pc' \notin Holding /\ numThread' # 0 /\ Held(item)
          /\ UNCHANGED <<thread, work, issued, runs>>
      BY <1>11 DEF IInv, Enqueue, Holding, PositionInv, Held
    <3>3. \A i \in Items : Queued(i)' <=> Queued(i) \/ i = item
      BY <3>1 DEF Queued
    <3>4. \A i \in Items : ItemInv(i)'
      BY <2>item, <3>2, <3>3 DEF IInv, PlaceInv, ItemInv, Held, Worked
    <3>5. \A j, k \in 1 .. Len(queue') : queue'[j] = queue'[k] => j = k
      BY <2>item, <3>1, <3>2 DEF IInv, PlaceInv, ItemInv, Queued
    <3>. QED
      BY <3>2, <3>4, <3>5 DEF IInv, PlaceInv
  <2>. QED
    BY <2>1, <2>2, <2>3, <2>4 DEF IInv
<1>12. CASE InlineWrite
  <2>1. TypeOK'
    BY <1>12 DEF IInv, TypeOK, InlineWrite
  <2>2. (LockInv /\ SlotInv /\ PositionInv)'
    BY <1>12 DEF IInv, TypeOK, InlineWrite, LockInv, SlotInv, PositionInv, Locked, Closing, Busy, Working
  <2>3. (CountInv /\ QueueOnlyWhenFull)'
    BY <1>12, SameCounts DEF IInv, InlineWrite
  <2>4. PlaceInv'
    BY <1>12, SamePlaces DEF IInv, InlineWrite, Holding
  <2>. QED
    BY <2>1, <2>2, <2>3, <2>4 DEF IInv
<1>13. CASE InlineReturn
  <2>item. item \in Items
    BY <1>13 DEF IInv, InlineReturn, PlaceInv, Holding
  <2>1. TypeOK'
    BY <1>13, <2>item DEF IInv, TypeOK, InlineReturn
  <2>2. (LockInv /\ SlotInv /\ PositionInv)'
    BY <1>13 DEF IInv, TypeOK, InlineReturn, LockInv, SlotInv, PositionInv, Locked, Closing, Busy, Working
  <2>3. (CountInv /\ QueueOnlyWhenFull)'
    BY <1>13, SameCounts DEF IInv, InlineReturn
  <2>4. PlaceInv'
    <3>1. /\ Held(item) /\ pc' \notin Holding
          /\ runs'[item] = runs[item] + 1
          /\ \A i \in Items \ {item} : runs'[i] = runs[i]
          /\ UNCHANGED <<numThread, queue, issued, thread, work>>
      BY <1>13, <2>item DEF IInv, TypeOK, InlineReturn, Holding, Held
    <3>2. \A i \in Items : ~Held(i)' /\ (Held(i) => i = item)
      BY <3>1 DEF Held
    <3>3. ASSUME NEW i \in Items PROVE ItemInv(i)'
      <4>1. Queued(i)' <=> Queued(i)
        BY <3>1 DEF Queued
      <4>2. \A s \in Slots : Worked(s, i)' <=> Worked(s, i)
        BY <3>1 DEF Worked
      <4>3. ItemInv(i) /\ runs[i] \in Nat
        BY DEF IInv, TypeOK, PlaceInv
      <4>. QED
        BY <3>1, <3>2, <4>1, <4>2, <4>3 DEF ItemInv
    <3>. QED
      BY <3>1, <3>3 DEF IInv, PlaceInv
  <2>. QED
    BY <2>1, <2>2, <2>3, <2>4 DEF IInv
<1>14. CASE DoneLock
  <2>1. TypeOK'
    BY <1>14 DEF IInv, TypeOK, DoneLock
  <2>2. (LockInv /\ SlotInv /\ PositionInv)'
    BY <1>14 DEF IInv, TypeOK, DoneLock, LockInv, SlotInv, PositionInv, Locked, Closing, Busy, Working
  <2>3. (CountInv /\ QueueOnlyWhenFull)'
    BY <1>14, SameCounts DEF IInv, DoneLock
  <2>4. PlaceInv'
    BY <1>14, SamePlaces DEF IInv, DoneLock, Holding
  <2>. QED
    BY <2>1, <2>2, <2>3, <2>4 DEF IInv
<1>15. CASE DoneScan
  <2>1. TypeOK'
    BY <1>15 DEF IInv, TypeOK, DoneScan, PositionInv
  <2>2. (LockInv /\ SlotInv /\ PositionInv)'
    <3>1. LockInv'
      BY <1>15 DEF IInv, TypeOK, DoneScan, LockInv, Locked
    <3>2. SlotInv'
      BY <1>15 DEF IInv, TypeOK, DoneScan, SlotInv, Closing
    <3>3. PositionInv'
      <4>1. CASE slot < numThread /\ state[slot] = "never_was" /\ pc' = "done_scan"
        <5>1. thread[slot] = "none"
          BY <1>15, <4>1 DEF IInv, TypeOK, DoneScan, SlotInv
        <5>. QED
          BY <1>15, <4>1, <5>1 DEF IInv, TypeOK, DoneScan, PositionInv, Closing
      <4>2. CASE slot < numThread /\ state[slot] # "never_was" /\ pc' = "done_join"
        <5>1. thread[slot] # "none"
          <6>1. slot \in Slots /\ pc = "done_scan" /\ state[slot] \in {"alive", "dead"}
            BY <1>15, <4>2 DEF IInv, TypeOK, DoneScan
          <6>. QED
            BY <6>1 DEF IInv, SlotInv, Busy, Working
        <5>. QED
          BY <1>15, <4>2, <5>1 DEF IInv, TypeOK, DoneScan, PositionInv, Closing
      <4>3. CASE slot = numThread /\ pc' = "finished"
        BY <1>15, <4>3 DEF IInv, TypeOK, DoneScan, PositionInv, Closing
      <4>. QED
        BY <1>15, <4>1, <4>2, <4>3 DEF DoneScan
    <3>. QED
      BY <3>1, <3>2, <3>3
  <2>3. (CountInv /\ QueueOnlyWhenFull)'
    BY <1>15, SameCounts DEF IInv, DoneScan
  <2>4. PlaceInv'
    BY <1>15, SamePlaces DEF IInv, DoneScan, Holding
  <2>. QED
    BY <2>1, <2>2, <2>3, <2>4 DEF IInv
<1>16. CASE Join("done_join", "done_relock")
  <2>1. TypeOK'
    BY <1>16 DEF IInv, TypeOK, Join
  <2>2. (LockInv /\ SlotInv /\ PositionInv)'
    BY <1>16 DEF IInv, TypeOK, Join, LockInv, SlotInv, PositionInv, Locked, Closing, Busy, Working
  <2>3. (CountInv /\ QueueOnlyWhenFull)'
    BY <1>16, SameCounts DEF IInv, Join
  <2>4. PlaceInv'
    BY <1>16, SamePlaces DEF IInv, TypeOK, Join, Holding, Working
  <2>. QED
    BY <2>1, <2>2, <2>3, <2>4 DEF IInv
<1>17. CASE DoneRelock
  <2>1. TypeOK'
    BY <1>17 DEF IInv, TypeOK, DoneRelock, PositionInv
  <2>2. (LockInv /\ SlotInv /\ PositionInv)'
    BY <1>17 DEF IInv, TypeOK, DoneRelock, LockInv, SlotInv, PositionInv, Locked, Closing, Busy, Working
  <2>3. (CountInv /\ QueueOnlyWhenFull)'
    BY <1>17, SameCounts DEF IInv, DoneRelock
  <2>4. PlaceInv'
    BY <1>17, SamePlaces DEF IInv, DoneRelock, Holding
  <2>. QED
    BY <2>1, <2>2, <2>3, <2>4 DEF IInv
<1>. QED
  BY <1>1, <1>2, <1>3, <1>4, <1>5, <1>6, <1>7, <1>8, <1>9, <1>10, <1>11, <1>12, <1>13, <1>14, <1>15, <1>16, <1>17 DEF MainStep

-----------------------------------------------------------------------------
(* The workers. *)

\* Every step of a worker preserves the invariant.
LEMMA WorkerSteps ==
  ASSUME IInv, NEW s \in Slots, Worker(s)
  PROVE  IInv'
<1>. USE DEF pool, main
<1>1. CASE Write(s)
  <2>1. TypeOK'
    BY <1>1 DEF IInv, TypeOK, Write
  <2>2. (LockInv /\ SlotInv /\ PositionInv)'
    BY <1>1 DEF IInv, TypeOK, Write, LockInv, SlotInv, PositionInv, Locked, Closing, Busy, Working, Slots, Used
  <2>3. (CountInv /\ QueueOnlyWhenFull)'
    BY <1>1 DEF IInv, Write, CountInv, QueueOnlyWhenFull, Alive, Ahead, Used
  <2>4. PlaceInv'
    BY <1>1, SamePlaces DEF IInv, TypeOK, Write, Working
  <2>. QED
    BY <2>1, <2>2, <2>3, <2>4 DEF IInv
<1>2. CASE Return(s)
  <2>item. work[s] \in Items
    BY <1>2 DEF IInv, PlaceInv, Return, Working
  <2>1. TypeOK'
    BY <1>2, <2>item DEF IInv, TypeOK, Return
  <2>2. (LockInv /\ SlotInv /\ PositionInv)'
    BY <1>2 DEF IInv, TypeOK, Return, LockInv, SlotInv, PositionInv, Locked, Closing, Busy, Working, Slots, Used
  <2>3. (CountInv /\ QueueOnlyWhenFull)'
    BY <1>2 DEF IInv, Return, CountInv, QueueOnlyWhenFull, Alive, Ahead, Used
  <2>4. PlaceInv'
    <3>1. /\ Worked(s, work[s]) /\ thread'[s] = "returned"
          /\ \A t \in Slots \ {s} : thread'[t] = thread[t]
          /\ runs'[work[s]] = runs[work[s]] + 1
          /\ \A i \in Items \ {work[s]} : runs'[i] = runs[i]
          /\ UNCHANGED <<numThread, queue, issued, work, pc, item>>
      BY <1>2, <2>item DEF IInv, TypeOK, Return, Worked, Working
    <3>2. \A i \in Items : /\ Queued(i)' <=> Queued(i)
                           /\ Held(i)' <=> Held(i)
                           /\ \A t \in Slots : Worked(t, i)' <=> Worked(t, i) /\ t # s
      BY <3>1 DEF Queued, Held, Worked, Working
    <3>3. \A i \in Items : ItemInv(i)'
      BY <2>item, <3>1, <3>2 DEF IInv, TypeOK, PlaceInv, ItemInv, Worked
    <3>4. \A t \in Slots : thread'[t] \in Working => work'[t] \in Items
      BY <3>1 DEF IInv, PlaceInv, Working
    <3>. QED
      BY <3>1, <3>3, <3>4 DEF IInv, PlaceInv
  <2>. QED
    BY <2>1, <2>2, <2>3, <2>4 DEF IInv
<1>3. CASE TakeWork(s)
  <2>head. /\ Len(queue) \in Nat \ {0}
        /\ Head(queue) = queue[1] /\ queue[1] \in Items
        /\ Len(queue') = Len(queue) - 1
        /\ \A k \in 1 .. Len(queue') : queue'[k] = queue[k + 1]
    BY <1>3 DEF IInv, TypeOK, TakeWork
  <2>1. TypeOK'
    BY <1>3, <2>head DEF IInv, TypeOK, TakeWork
  <2>2. (LockInv /\ SlotInv /\ PositionInv)'
    BY <1>3 DEF IInv, TypeOK, TakeWork, LockInv, SlotInv, PositionInv, Locked, Closing, Busy, Working, Slots, Used
  <2>3. (CountInv /\ QueueOnlyWhenFull)'
    BY <1>3 DEF IInv, TakeWork, CountInv, QueueOnlyWhenFull, Alive, Ahead, Used
  <2>4. PlaceInv'
    <3>. DEFINE h == queue[1]
    <3>1. /\ h \in Items /\ Queued(h) /\ thread[s] = "returned"
          /\ thread'[s] = "running" /\ work'[s] = h
          /\ \A t \in Slots \ {s} : thread'[t] = thread[t] /\ work'[t] = work[t]
          /\ UNCHANGED <<numThread, issued, runs, pc, item>>
      BY <1>3, <2>head DEF IInv, TypeOK, TakeWork, Queued
    <3>2. \A j, k \in 1 .. Len(queue') : queue'[j] = queue'[k] => j = k
      BY <2>head DEF IInv, PlaceInv
    <3>3. \A i \in Items : Queued(i)' <=> Queued(i) /\ i # h
      <4>. SUFFICES ASSUME NEW i \in Items PROVE Queued(i)' <=> Queued(i) /\ i # h
        OBVIOUS
      <4>1. ASSUME Queued(i)' PROVE Queued(i) /\ i # h
        <5>1. PICK k \in 1 .. Len(queue') : queue'[k] = i
          BY <4>1 DEF Queued
        <5>2. k + 1 \in 1 .. Len(queue) /\ queue[k + 1] = i /\ k + 1 # 1
          BY <2>head, <5>1
        <5>3. i # queue[1]
          BY <2>head, <5>2 DEF IInv, PlaceInv
        <5>. QED
          BY <5>2, <5>3 DEF Queued
      <4>2. ASSUME Queued(i), i # h PROVE Queued(i)'
        <5>1. PICK k \in 1 .. Len(queue) : queue[k] = i
          BY <4>2 DEF Queued
        <5>2. k - 1 \in 1 .. Len(queue') /\ queue'[k - 1] = i
          BY <2>head, <4>2, <5>1
        <5>. QED
          BY <5>2 DEF Queued
      <4>. QED
        BY <4>1, <4>2
    <3>4. \A i \in Items : /\ Held(i)' <=> Held(i)
                           /\ \A t \in Slots : Worked(t, i)' <=> Worked(t, i) \/ (t = s /\ i = h)
      BY <3>1 DEF Held, Worked, Working
    <3>5. \A i \in Items : ItemInv(i)'
      BY <3>1, <3>3, <3>4 DEF IInv, PlaceInv, ItemInv
    <3>6. \A t \in Slots : thread'[t] \in Working => work'[t] \in Items
      BY <3>1 DEF IInv, PlaceInv, Working
    <3>7. numThread' = 0 => queue' = <<>>
      BY <1>3, <3>1 DEF IInv, PlaceInv, TakeWork
    <3>. QED
      BY <3>1, <3>2, <3>5, <3>6, <3>7 DEF IInv, PlaceInv
  <2>. QED
    BY <2>1, <2>2, <2>3, <2>4 DEF IInv
<1>4. CASE Obituary(s)
  <2>alive. /\ state[s] = "alive" /\ lock = Nobody
        /\ Alive' = Alive \ {s} /\ s \in Alive
    BY <1>4 DEF IInv, TypeOK, Obituary, SlotInv, LockInv, Locked, Alive, Busy, Working
  <2>count. Cardinality(Alive') = numAlive - 1 /\ numAlive > 0
    <3>1. IsFiniteSet(Alive) /\ numAlive = Cardinality(Alive) /\ numAlive \in Nat
      BY AliveCount DEF IInv, CountInv, TypeOK
    <3>2. Cardinality(Alive) # 0
      BY <2>alive, <3>1, FS_EmptySet
    <3>3. Cardinality(Alive \ {s}) = Cardinality(Alive) - 1
      BY <2>alive, <3>1, FS_RemoveElement
    <3>. QED
      BY <2>alive, <3>1, <3>2, <3>3
  <2>1. TypeOK'
    BY <1>4, <2>count DEF IInv, TypeOK, Obituary
  <2>2. (LockInv /\ SlotInv /\ PositionInv)'
    BY <1>4, <2>alive DEF IInv, TypeOK, Obituary, LockInv, SlotInv, PositionInv, Locked, Closing, Busy, Working, Slots, Used
  <2>3. (CountInv /\ QueueOnlyWhenFull)'
    BY <1>4, <2>count DEF IInv, Obituary, LockInv, Locked, CountInv, QueueOnlyWhenFull
  <2>4. PlaceInv'
    BY <1>4, SamePlaces DEF IInv, TypeOK, Obituary, Working
  <2>. QED
    BY <2>1, <2>2, <2>3, <2>4 DEF IInv
<1>5. CASE Exit(s)
  <2>1. TypeOK'
    BY <1>5 DEF IInv, TypeOK, Exit
  <2>2. (LockInv /\ SlotInv /\ PositionInv)'
    <3>1. LockInv'
      BY <1>5 DEF IInv, TypeOK, Exit, LockInv, Locked
    <3>2. SlotInv'
      BY <1>5 DEF IInv, TypeOK, Exit, SlotInv, Busy, Working, Closing, Used
    <3>3. PositionInv'
      BY <1>5 DEF IInv, TypeOK, Exit, PositionInv, Closing, Busy, Working, Used
    <3>. QED
      BY <3>1, <3>2, <3>3
  <2>3. (CountInv /\ QueueOnlyWhenFull)'
    BY <1>5 DEF IInv, Exit, CountInv, QueueOnlyWhenFull, Alive, Ahead, Used
  <2>4. PlaceInv'
    BY <1>5, SamePlaces DEF IInv, TypeOK, Exit, Working
  <2>. QED
    BY <2>1, <2>2, <2>3, <2>4 DEF IInv
<1>. QED
  BY <1>1, <1>2, <1>3, <1>4, <1>5 DEF Worker

-----------------------------------------------------------------------------
(* Theorems. *)

(* The invariant above holds in every state of every execution: whatever the *)
(* interleaving of hss_thread_issue_work, hss_thread_done and worker_thread. *)
THEOREM Inductive == Spec => []IInv
<1>1. IInv /\ [Next]_vars => IInv'
  <2>. SUFFICES ASSUME IInv, [Next]_vars PROVE IInv'
    OBVIOUS
  <2>1. CASE UNCHANGED vars
    BY <2>1 DEF vars, IInv, TypeOK, LockInv, SlotInv, PositionInv, CountInv, Ahead, Alive, Used,
                QueueOnlyWhenFull, PlaceInv, ItemInv, Held, Queued, Worked
  <2>2. CASE Next
    BY <2>2, MainSteps, WorkerSteps DEF Next
  <2>. QED
    BY <2>1, <2>2
<1>. QED
  BY InitStep, <1>1, PTL DEF Spec

(* Every field of the collection keeps its range: num_alive never exceeds    *)
(* MAX_THREAD and no slot outside threads[] is ever looked at.               *)
THEOREM TypeCorrect == Spec => []TypeOK
<1>1. IInv => TypeOK
  BY DEF IInv
<1>. QED
  BY Inductive, <1>1, PTL

(* hss_thread.h:28: each function issued is called once, and all of them     *)
(* have been when hss_thread_done returns.                                   *)
THEOREM EachItemOnce == Spec => []CompletedOnce
<1>1. IInv => CompletedOnce
  <2>. SUFFICES ASSUME IInv PROVE CompletedOnce
    OBVIOUS
  <2>1. \A i \in Items : runs[i] <= 1
    BY DEF IInv, PlaceInv, ItemInv
  <2>2. ASSUME pc = "finished", NEW i \in issued PROVE runs[i] = 1
    <3>1. \A s \in Slots : thread[s] = "none"
      BY <2>2 DEF IInv, TypeOK, PositionInv, SlotInv, Closing, Used, Slots
    <3>2. queue = <<>>
      <4>1. CASE numThread = 0
        BY <4>1 DEF IInv, PlaceInv
      <4>2. CASE numThread # 0
        <5>1. 0 \in Used /\ 0 \in Slots
          BY <4>2 DEF IInv, TypeOK, Used, Slots
        <5>. QED
          BY <3>1, <5>1 DEF IInv, QueueOnlyWhenFull, SlotInv, Busy, Working
      <4>. QED
        BY <4>1, <4>2
    <3>3. i \in Items /\ ItemInv(i) /\ runs[i] \in Nat
      BY DEF IInv, TypeOK, PlaceInv
    <3>4. ~Held(i) /\ ~Queued(i) /\ \A s \in Slots : ~Worked(s, i)
      BY <2>2, <3>1, <3>2 DEF Held, Holding, Queued, Worked, Working
    <3>. QED
      BY <3>3, <3>4 DEF ItemInv
  <2>. QED
    BY <2>1, <2>2 DEF CompletedOnce
<1>. QED
  BY Inductive, <1>1, PTL

(* hss_thread_done has joined every thread there ever was when it frees the  *)
(* collection.                                                               *)
THEOREM AllJoined == Spec => []NobodyLeftBehind
<1>1. IInv => NobodyLeftBehind
  BY DEF IInv, TypeOK, NobodyLeftBehind, PositionInv, SlotInv, Closing, Used, Slots
<1>. QED
  BY Inductive, <1>1, PTL

(* No thread is joined twice, and none that was never created.               *)
THEOREM JoinsValid == Spec => []JoinsAreValid
<1>1. IInv => JoinsAreValid
  BY DEF IInv, JoinsAreValid, PositionInv
<1>. QED
  BY Inductive, <1>1, PTL

(* An item waits only while every slot has a living thread, each of which    *)
(* will look at the queue before it dies.                                    *)
THEOREM QueueServed == Spec => []QueueOnlyWhenFull
<1>1. IInv => QueueOnlyWhenFull
  BY DEF IInv
<1>. QED
  BY Inductive, <1>1, PTL

(* num_alive is exact, and the search for a slot succeeds ("everything was   *)
(* alive???" is dead code).                                                  *)
THEOREM AliveCounted == Spec => []AliveIsExact
<1>1. IInv => AliveIsExact
  <2>. SUFFICES ASSUME IInv PROVE AliveIsExact
    OBVIOUS
  <2>1. numAlive = Cardinality({s \in Slots : state[s] = "alive"})
    BY DEF IInv, CountInv, Alive
  <2>2. pc = "scan" => left > 0
    BY DEF IInv, TypeOK, CountInv, PositionInv, Ahead, Used
  <2>. QED
    BY <2>1, <2>2 DEF AliveIsExact
<1>. QED
  BY Inductive, <1>1, PTL

(* The safety half of KeepsPromise: every step of the pool is a step of      *)
(* WorkItems, or one that its callers cannot see.                            *)
THEOREM ImplementsWorkItems ==
  Spec => Promise!Init /\ [][Promise!Next]_(Promise!vars)
<1>1. Init => Promise!Init
  BY DEF Init, Promise!Init, Status
<1>2. IInv /\ CompletedOnce' /\ [Next]_vars => [Promise!Next]_(Promise!vars)
  <2>. SUFFICES ASSUME IInv, CompletedOnce', [Next]_vars
                PROVE  [Promise!Next]_(Promise!vars)
    OBVIOUS
  <2>1. CASE \E i \in Items, memory \in BOOLEAN : IssueWork(i, memory)
    <3>. PICK i \in Items, memory \in BOOLEAN : IssueWork(i, memory)
      BY <2>1
    <3>1. /\ i \notin issued /\ runs[i] = 0 /\ runs' = runs /\ issued' = issued \cup {i}
          /\ pc # "finished" /\ pc' # "finished"
      BY DEF IInv, PlaceInv, ItemInv, IssueWork
    <3>2. Promise!Issue(i)
      <4>1. Status(i) = "new" /\ Status(i)' = "issued"
        BY <3>1 DEF Status
      <4>2. \A j \in Items \ {i} : Status(j)' = Status(j)
        BY <3>1 DEF Status
      <4>. QED
        BY <3>1, <4>1, <4>2 DEF Promise!Issue
    <3>. QED
      BY <3>2 DEF Promise!Next
  <2>2. ASSUME NEW i \in Items, i \in issued, runs[i] = 0, runs' = [runs EXCEPT ![i] = @ + 1],
               issued' = issued, pc' = "finished" <=> pc = "finished"
        PROVE  [Promise!Next]_(Promise!vars)
    <3>1. runs'[i] = 1 /\ \A j \in Items \ {i} : runs'[j] = runs[j]
      BY <2>2 DEF IInv, TypeOK
    <3>2. Promise!Perform(i)
      <4>1. Status(i) = "issued" /\ Status(i)' = "performed"
        BY <2>2, <3>1 DEF Status
      <4>2. \A j \in Items \ {i} : Status(j)' = Status(j)
        BY <2>2, <3>1 DEF Status
      <4>. QED
        BY <2>2, <4>1, <4>2 DEF Promise!Perform
    <3>. QED
      BY <3>2 DEF Promise!Next
  <2>3. ASSUME UNCHANGED <<issued, runs>>, pc # "finished", pc' = "finished"
        PROVE  [Promise!Next]_(Promise!vars)
    <3>1. \A i \in Items : Status(i)' = Status(i)
      BY <2>3 DEF Status
    <3>2. \A i \in Items : Status(i) # "issued"
      BY <2>3 DEF CompletedOnce, Status
    <3>3. Promise!Return
      BY <2>3, <3>1, <3>2 DEF Promise!Return
    <3>. QED
      BY <3>3 DEF Promise!Next
  <2>4. ASSUME UNCHANGED <<issued, runs>>, pc' = "finished" <=> pc = "finished"
        PROVE  [Promise!Next]_(Promise!vars)
    BY <2>4 DEF Promise!vars, Status
  <2>5. CASE InlineReturn
    <3>1. item \in Items /\ Held(item)
      BY <2>5 DEF IInv, PlaceInv, InlineReturn, Holding, Held
    <3>2. item \in issued /\ runs[item] = 0
      BY <3>1 DEF IInv, PlaceInv, ItemInv
    <3>. QED
      BY <2>2, <2>5, <3>1, <3>2 DEF InlineReturn
  <2>6. CASE \E s \in Slots : Worker(s)
    <3>. PICK s \in Slots : Worker(s)
      BY <2>6
    <3>1. CASE Return(s)
      <4>1. work[s] \in Items /\ Worked(s, work[s])
        BY <3>1 DEF IInv, PlaceInv, Return, Working, Worked
      <4>2. work[s] \in issued /\ runs[work[s]] = 0
        BY <4>1 DEF IInv, PlaceInv, ItemInv
      <4>3. /\ runs' = [runs EXCEPT ![work[s]] = @ + 1]
            /\ issued' = issued /\ pc' = pc
        BY <3>1 DEF Return, main
      <4>. QED
        BY <2>2, <4>1, <4>2, <4>3
    <3>2. CASE Write(s) \/ TakeWork(s) \/ Obituary(s) \/ Exit(s)
      BY <2>4, <3>2 DEF Write, TakeWork, Obituary, Exit, main
    <3>. QED
      BY <3>1, <3>2 DEF Worker
  <2>7. CASE Done \/ DoneScan
    <3>1. UNCHANGED <<issued, runs>> /\ pc # "finished"
      BY <2>7 DEF Done, DoneScan
    <3>. QED
      BY <2>3, <2>4, <3>1
  <2>8. CASE (\E n \in Requests, ok \in BOOLEAN : ThreadInit(n, ok)) \/ UNCHANGED vars
    BY <2>4, <2>8 DEF ThreadInit, vars
  <2>9. CASE MainStep /\ ~InlineReturn /\ ~DoneScan
    BY <2>4, <2>9 DEF MainStep, Lock, ScanSlot, Join, Relock, Create, CreateFailed, Created,
                      Enqueue, InlineWrite, DoneLock, DoneRelock
  <2>. QED
    BY <2>1, <2>5, <2>6, <2>7, <2>8, <2>9 DEF Next
<1>. QED
  BY Inductive, EachItemOnce, <1>1, <1>2, PTL DEF Spec
=============================================================================
