------------------------------ MODULE HssThread ------------------------------
(***************************************************************************)
(* The thread pool of hss_thread_pthread.c (and, with num_thread = 0, the  *)
(* single-threaded hss_thread_single.c): a main thread issues work items   *)
(* and then calls hss_thread_done; up to num_thread workers are created on *)
(* demand, take further items from the queue and die when it is empty.     *)
(*                                                                         *)
(* A worker's critical section is one step: everything it touches is only  *)
(* accessed under lock.  The main thread's critical sections are several   *)
(* steps, since pthread_create starts a worker in the middle of one.       *)
(***************************************************************************)
EXTENDS Integers, Sequences, FiniteSets

CONSTANTS
  Items,           \* the work items the application may issue
  MaxThread,       \* MAX_THREAD
  DefaultThread,   \* DEFAULT_THREAD
  Requests,        \* the arguments hss_thread_init is called with
  Main, Nobody,    \* owners of the locks other than workers
  NoItem

ASSUME ThreadAssumption ==
  /\ MaxThread \in Nat
  /\ MaxThread > 1
  /\ DefaultThread \in 2 .. MaxThread
  /\ Requests \subseteq Int
  /\ Main \notin Nat
  /\ Nobody \notin Nat
  /\ Main # Nobody
  /\ NoItem \notin Items

VARIABLES
  numThread,   \* col->num_thread, 0 if hss_thread_init returned NULL
  lock,        \* col->lock: the main thread, or nobody between two steps
  writeLock,   \* col->write_lock
  state,       \* col->threads[].state
  numAlive,    \* col->num_alive
  ptr,         \* col->current_ptr
  queue,       \* top_work_queue .. end_work_queue
  thread,      \* the POSIX thread last created for each slot
  work,        \* and the item it is working on
  pc,          \* where the main thread is
  item,        \* the item it is issuing
  slot,        \* the slot it is looking at (j, or i in hss_thread_done)
  left,        \* how many slots hss_thread_issue_work has left to look at
  issued,      \* history: the items issued
  runs         \* history: how often each item's function has returned

pool == <<numThread, numAlive, ptr, queue, state>>
main == <<pc, item, slot, left, issued>>
vars == <<numThread, lock, writeLock, state, numAlive, ptr, queue, thread, work,
          pc, item, slot, left, issued, runs>>

Slots == 0 .. MaxThread - 1
Used == 0 .. numThread - 1

TypeOK ==
  /\ numThread \in {0} \cup 2 .. MaxThread
  /\ lock \in {Main, Nobody}
  /\ writeLock \in {Main, Nobody} \cup Slots
  /\ state \in [Slots -> {"never_was", "alive", "dead"}]
  /\ numAlive \in 0 .. MaxThread
  /\ ptr \in Slots
  /\ queue \in Seq(Items)
  /\ thread \in [Slots -> {"none", "running", "writing", "returned", "exiting", "exited"}]
  /\ work \in [Slots -> Items \cup {NoItem}]
  /\ pc \in {"init", "idle", "lock", "scan", "join", "relock", "create", "created", "enqueue",
             "inline", "inline_writing", "done_lock", "done_scan", "done_join", "done_relock",
             "finished"}
  /\ item \in Items \cup {NoItem}
  /\ slot \in 0 .. MaxThread
  /\ left \in 0 .. MaxThread
  /\ issued \subseteq Items
  /\ runs \in [Items -> Nat]

Init ==
  /\ numThread = 0
  /\ lock = Nobody
  /\ writeLock = Nobody
  /\ state = [s \in Slots |-> "never_was"]
  /\ numAlive = 0
  /\ ptr = 0
  /\ queue = <<>>
  /\ thread = [s \in Slots |-> "none"]
  /\ work = [s \in Slots |-> NoItem]
  /\ pc = "init"
  /\ item = NoItem
  /\ slot = 0
  /\ left = 0
  /\ issued = {}
  /\ runs = [i \in Items |-> 0]

-----------------------------------------------------------------------------
(* The main thread. *)

\* The number of threads that hss_thread_init settles on, 0 to run without any.
PoolSize(n) ==
  LET asked == IF n = 0 THEN DefaultThread ELSE n
  IN  IF asked <= 1 THEN 0 ELSE IF asked > MaxThread THEN MaxThread ELSE asked

\* hss_thread_init; a failed malloc or mutex_init means single-threaded.
ThreadInit(n, ok) ==
  /\ pc = "init"
  /\ numThread' = IF ok THEN PoolSize(n) ELSE 0
  /\ pc' = "idle"
  /\ UNCHANGED <<lock, writeLock, state, numAlive, ptr, queue, thread, work,
                 item, slot, left, issued, runs>>

\* hss_thread_issue_work up to taking the lock; without a pool, or without memory
\* for the work item, the main thread performs the item itself.
IssueWork(i, memory) ==
  /\ pc = "idle"
  /\ i \notin issued
  /\ item' = i
  /\ issued' = issued \cup {i}
  /\ pc' = IF numThread # 0 /\ memory THEN "lock" ELSE "inline"
  /\ UNCHANGED <<pool, lock, writeLock, thread, work, slot, left, runs>>

\* Is there supposed to be room for another thread?
LockSpareOne ==
  /\ pc = "lock"
  /\ lock = Nobody
  /\ lock' = Main
  /\ pc' = IF numAlive + 1 < numThread THEN "scan" ELSE "enqueue"
  /\ slot' = ptr
  /\ left' = numThread
  /\ UNCHANGED <<pool, writeLock, thread, work, item, issued, runs>>

Lock ==
  /\ pc = "lock"
  /\ lock = Nobody
  /\ lock' = Main
  /\ pc' = IF numAlive < numThread THEN "scan" ELSE "enqueue"
  /\ slot' = ptr
  /\ left' = numThread
  /\ UNCHANGED <<pool, writeLock, thread, work, item, issued, runs>>

\* The round-robin search for an empty slot; a dead one has to be joined first,
\* without the lock.  (What follows the loop, "everything was alive???", cannot
\* happen: AliveIsExact says that the search never runs out of slots.)
ScanSlot ==
  /\ pc = "scan"
  /\ \/ /\ state[slot] = "alive"
        /\ slot' = (slot + 1) % numThread
        /\ left' = left - 1
        /\ UNCHANGED <<lock, pc>>
     \/ /\ state[slot] = "dead"
        /\ lock' = Nobody
        /\ pc' = "join"
        /\ UNCHANGED <<slot, left>>
     \/ /\ state[slot] = "never_was"
        /\ pc' = "create"
        /\ UNCHANGED <<lock, slot, left>>
  /\ UNCHANGED <<pool, writeLock, thread, work, item, issued, runs>>

\* pthread_join returns once the thread has exited, and releases it.
Join(from, to) ==
  /\ pc = from
  /\ thread[slot] = "exited"
  /\ thread' = [thread EXCEPT ![slot] = "none"]
  /\ pc' = to
  /\ UNCHANGED <<pool, lock, writeLock, work, item, slot, left, issued, runs>>

RelockKeepsDead ==
  /\ pc = "relock"
  /\ lock = Nobody
  /\ lock' = Main
  /\ pc' = "create"
  /\ UNCHANGED <<pool, writeLock, thread, work, item, slot, left, issued, runs>>

Relock ==
  /\ pc = "relock"
  /\ lock = Nobody
  /\ lock' = Main
  /\ state' = [state EXCEPT ![slot] = "never_was"]
  /\ pc' = "create"
  /\ UNCHANGED <<numThread, numAlive, ptr, queue, writeLock, thread, work,
                 item, slot, left, issued, runs>>

\* pthread_create: the worker runs from here on, while the lock is still held.
Create ==
  /\ pc = "create"
  /\ thread' = [thread EXCEPT ![slot] = "running"]
  /\ work' = [work EXCEPT ![slot] = item]
  /\ pc' = "created"
  /\ UNCHANGED <<pool, lock, writeLock, item, slot, left, issued, runs>>

CreateFailed ==
  /\ pc = "create"
  /\ lock' = Nobody
  /\ pc' = "inline"
  /\ UNCHANGED <<pool, writeLock, thread, work, item, slot, left, issued, runs>>

Created ==
  /\ pc = "created"
  /\ state' = [state EXCEPT ![slot] = "alive"]
  /\ numAlive' = numAlive + 1
  /\ ptr' = (slot + 1) % numThread
  /\ lock' = Nobody
  /\ pc' = "idle"
  /\ UNCHANGED <<numThread, queue, writeLock, thread, work, item, slot, left, issued, runs>>

Enqueue ==
  /\ pc = "enqueue"
  /\ queue' = Append(queue, item)
  /\ lock' = Nobody
  /\ pc' = "idle"
  /\ UNCHANGED <<numThread, numAlive, ptr, state, writeLock, thread, work,
                 item, slot, left, issued, runs>>

\* The main thread calls the function itself.  Every function of the callers writes
\* its result between hss_thread_before_write and hss_thread_after_write.
InlineWrite ==
  /\ pc = "inline"
  /\ writeLock = Nobody
  /\ writeLock' = IF numThread = 0 THEN Nobody ELSE Main
  /\ pc' = "inline_writing"
  /\ UNCHANGED <<pool, lock, thread, work, item, slot, left, issued, runs>>

InlineReturn ==
  /\ pc = "inline_writing"
  /\ writeLock' = Nobody
  /\ runs' = [runs EXCEPT ![item] = @ + 1]
  /\ pc' = "idle"
  /\ UNCHANGED <<pool, lock, thread, work, item, slot, left, issued>>

\* hss_thread_done: join every slot that ever held a thread, in order.
Done ==
  /\ pc = "idle"
  /\ pc' = IF numThread = 0 THEN "finished" ELSE "done_lock"
  /\ slot' = 0
  /\ UNCHANGED <<pool, lock, writeLock, thread, work, item, left, issued, runs>>

DoneLock ==
  /\ pc = "done_lock"
  /\ lock = Nobody
  /\ lock' = Main
  /\ pc' = "done_scan"
  /\ UNCHANGED <<pool, writeLock, thread, work, item, slot, left, issued, runs>>

\* Two plausible mistakes: not joining threads that are already dead, and
\* joining while holding the lock.
DoneScanAliveOnly ==
  /\ pc = "done_scan"
  /\ \/ /\ slot = numThread
        /\ lock' = Nobody
        /\ pc' = "finished"
        /\ UNCHANGED slot
     \/ /\ slot < numThread
        /\ state[slot] # "alive"
        /\ slot' = slot + 1
        /\ UNCHANGED <<lock, pc>>
     \/ /\ slot < numThread
        /\ state[slot] = "alive"
        /\ lock' = Nobody
        /\ pc' = "done_join"
        /\ UNCHANGED slot
  /\ UNCHANGED <<pool, writeLock, thread, work, item, left, issued, runs>>

DoneScanKeepsLock ==
  /\ pc = "done_scan"
  /\ \/ /\ slot = numThread
        /\ lock' = Nobody
        /\ pc' = "finished"
        /\ UNCHANGED slot
     \/ /\ slot < numThread
        /\ state[slot] = "never_was"
        /\ slot' = slot + 1
        /\ UNCHANGED <<lock, pc>>
     \/ /\ slot < numThread
        /\ state[slot] # "never_was"
        /\ pc' = "done_join"
        /\ UNCHANGED <<lock, slot>>
  /\ UNCHANGED <<pool, writeLock, thread, work, item, left, issued, runs>>

DoneScan ==
  /\ pc = "done_scan"
  /\ \/ /\ slot = numThread
        /\ lock' = Nobody
        /\ pc' = "finished"
        /\ UNCHANGED slot
     \/ /\ slot < numThread
        /\ state[slot] = "never_was"
        /\ slot' = slot + 1
        /\ UNCHANGED <<lock, pc>>
     \/ /\ slot < numThread
        /\ state[slot] # "never_was"
        /\ lock' = Nobody
        /\ pc' = "done_join"
        /\ UNCHANGED slot
  /\ UNCHANGED <<pool, writeLock, thread, work, item, left, issued, runs>>

DoneRelock ==
  /\ pc = "done_relock"
  /\ lock = Nobody
  /\ lock' = Main
  /\ slot' = slot + 1
  /\ pc' = "done_scan"
  /\ UNCHANGED <<pool, writeLock, thread, work, item, left, issued, runs>>

-----------------------------------------------------------------------------
(* worker_thread in slot s. *)

Write(s) ==
  /\ thread[s] = "running"
  /\ writeLock = Nobody
  /\ writeLock' = s
  /\ thread' = [thread EXCEPT ![s] = "writing"]
  /\ UNCHANGED <<pool, lock, work, main, runs>>

Return(s) ==
  /\ thread[s] = "writing"
  /\ writeLock' = Nobody
  /\ runs' = [runs EXCEPT ![work[s]] = @ + 1]
  /\ thread' = [thread EXCEPT ![s] = "returned"]
  /\ UNCHANGED <<pool, lock, work, main>>

TakeWorkTwice(s) ==
  /\ thread[s] = "returned"
  /\ lock = Nobody
  /\ queue # <<>>
  /\ work' = [work EXCEPT ![s] = Head(queue)]
  /\ queue' = IF Len(queue) = 1 THEN queue ELSE Tail(queue)
  /\ thread' = [thread EXCEPT ![s] = "running"]
  /\ UNCHANGED <<numThread, numAlive, ptr, state, lock, writeLock, main, runs>>

TakeWork(s) ==
  /\ thread[s] = "returned"
  /\ lock = Nobody
  /\ queue # <<>>
  /\ work' = [work EXCEPT ![s] = Head(queue)]
  /\ queue' = Tail(queue)
  /\ thread' = [thread EXCEPT ![s] = "running"]
  /\ UNCHANGED <<numThread, numAlive, ptr, state, lock, writeLock, main, runs>>

ObituaryWithoutLock(s) ==
  /\ thread[s] = "returned"
  /\ queue = <<>>
  /\ state' = [state EXCEPT ![s] = "dead"]
  /\ numAlive' = numAlive - 1
  /\ thread' = [thread EXCEPT ![s] = "exiting"]
  /\ work' = [work EXCEPT ![s] = NoItem]
  /\ UNCHANGED <<numThread, ptr, queue, lock, writeLock, main, runs>>

Obituary(s) ==
  /\ thread[s] = "returned"
  /\ lock = Nobody
  /\ queue = <<>>
  /\ state' = [state EXCEPT ![s] = "dead"]
  /\ numAlive' = numAlive - 1
  /\ thread' = [thread EXCEPT ![s] = "exiting"]
  /\ work' = [work EXCEPT ![s] = NoItem]
  /\ UNCHANGED <<numThread, ptr, queue, lock, writeLock, main, runs>>

Exit(s) ==
  /\ thread[s] = "exiting"
  /\ thread' = [thread EXCEPT ![s] = "exited"]
  /\ UNCHANGED <<pool, lock, writeLock, work, main, runs>>

-----------------------------------------------------------------------------
Worker(s) == Write(s) \/ Return(s) \/ TakeWork(s) \/ Obituary(s) \/ Exit(s)

\* What the main thread does without the application deciding anything.
MainStep ==
  \/ Lock \/ ScanSlot \/ Join("join", "relock") \/ Relock
  \/ Create \/ CreateFailed \/ Created \/ Enqueue
  \/ InlineWrite \/ InlineReturn
  \/ DoneLock \/ DoneScan \/ Join("done_join", "done_relock") \/ DoneRelock

Next ==
  \/ \E n \in Requests, ok \in BOOLEAN : ThreadInit(n, ok)
  \/ \E i \in Items, memory \in BOOLEAN : IssueWork(i, memory)
  \/ Done
  \/ MainStep
  \/ \E s \in Slots : Worker(s)

\* Every thread that can take a step eventually does: the operating system
\* schedules all threads, and functions return.
Fairness == WF_vars(MainStep) /\ \A s \in Slots : WF_vars(Worker(s))

Spec == Init /\ [][Next]_vars /\ Fairness

-----------------------------------------------------------------------------
(* Properties. *)

(* hss_thread.h:28: when hss_thread_done returns every issued function has  *)
(* been called, each exactly once.                                          *)
CompletedOnce ==
  /\ \A i \in Items : runs[i] <= 1
  /\ pc = "finished" => \A i \in issued : runs[i] = 1

(* hss_thread_done frees the collection only when no thread can touch it any*)
(* more: all of them have been joined, including the ones that were dead.   *)
NobodyLeftBehind ==
  pc = "finished" => \A s \in Slots : thread[s] = "none"

(* pthread_join is only ever called for a thread that exists and was not    *)
(* joined before, in hss_thread_issue_work and in hss_thread_done.          *)
JoinsAreValid ==
  pc \in {"join", "done_join"} => slot \in Used /\ thread[slot] # "none"

(* An item waits in the queue only while every slot is busy: no request     *)
(* waits, or is lost, because the threads that could take it have gone.     *)
QueueOnlyWhenFull ==
  queue # <<>> => \A s \in Used : state[s] = "alive"

(* num_alive counts the living whenever a thread can look at it, so the     *)
(* search for a slot never comes back empty-handed ("???" in the code).     *)
AliveIsExact ==
  /\ numAlive = Cardinality({s \in Slots : state[s] = "alive"})
  /\ pc = "scan" => left > 0

(* hss_thread_done returns: no thread waits for another for ever.           *)
DoneReturns == pc = "done_lock" ~> pc = "finished"

(* The pool implements WorkItems. *)
Status(i) == IF runs[i] > 1 THEN "performed again"
             ELSE IF runs[i] = 1 THEN "performed"
             ELSE IF i \in issued THEN "issued" ELSE "new"

Promise == INSTANCE WorkItems WITH
             status <- [i \in Items |-> Status(i)],
             returned <- (pc = "finished")
KeepsPromise == Promise!Spec
=============================================================================
