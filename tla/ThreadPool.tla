----------------------------- MODULE ThreadPool -----------------------------
(***************************************************************************)
(* ThreadPool and ThreadWorker of base/thread_pool/thread_pool.cc.         *)
(*                                                                         *)
(* Every task has a thread that submits it.  worker_num_ and               *)
(* available_num_ are atomic counters and work_queue_ has a lock of its    *)
(* own, so that SubmitTask and the workers interleave between any two      *)
(* accesses.  A thread that may create a worker first counts itself in     *)
(* worker_num_.                                                            *)
(***************************************************************************)
EXTENDS Integers, FiniteSets

CONSTANTS
    Tasks,        \* the tasks, each with the thread that submits it
    Workers,      \* the identities of workers
    ThreadSize,   \* thread_size_ at the start
    MaxThreads,   \* max_thread_size_
    Capacity,     \* of the work queue
    Sizes         \* what SetThreadSize may be called with, once

ASSUME PoolAssumption ==
    /\ IsFiniteSet(Tasks) /\ IsFiniteSet(Workers)
    /\ ThreadSize \in Nat /\ MaxThreads \in Nat /\ ThreadSize <= MaxThreads
    /\ Capacity \in Nat \ {0}
    /\ Sizes \subseteq 0 .. MaxThreads

VARIABLES
    threadSize,   \* thread_size_
    resized,      \* SetThreadSize was called
    worker_num,   \* worker_num_
    available,    \* available_num_
    workQueue,    \* the tasks in work_queue_
    queueShut,    \* work_queue_ was shut down
    shutting,     \* Shutdown(): "no", "queue", "wait" or "done"
    submit,       \* submit[t]: where SubmitTask is, and what it knows
    worker,       \* worker[w]: where the worker is
    held,         \* held[w]: the tasks it took and has not run, at most one
    core,         \* the workers that are core workers
    ran           \* the tasks that were run

poolVars == <<threadSize, resized, worker_num, available, workQueue, queueShut,
              shutting, submit, worker, held, core, ran>>

PoolInit ==
    /\ threadSize = ThreadSize /\ resized = FALSE
    /\ worker_num = 0 /\ available = 0
    /\ workQueue = {} /\ queueShut = FALSE /\ shutting = "no"
    /\ submit = [t \in Tasks |-> [pc |-> "new", queued |-> FALSE, core |-> FALSE]]
    /\ worker = [w \in Workers |-> "none"] /\ held = [w \in Workers |-> {}]
    /\ core = {} /\ ran = {}

(* workers_: those that ExitWorker has not removed. *)
Listed == {w \in Workers : worker[w] # "none"}

Goto(t, pc) == submit' = [submit EXCEPT ![t].pc = pc]

-----------------------------------------------------------------------------
(* SubmitTask. *)

(* AddWorker, with the count of it in worker_num_. *)
AddWorker(isCore) ==
    /\ Listed # Workers
    /\ LET w == CHOOSE u \in Workers \ Listed : TRUE
       IN  /\ worker' = [worker EXCEPT ![w] = "run"]
           /\ core' = IF isCore THEN core \cup {w} ELSE core
    /\ worker_num' = worker_num + 1

(* Mutant of Reserve: the number is read, and counted later. *)
Reserve_Late(t) ==
    /\ submit[t].pc = "new"
    /\ UNCHANGED worker_num
    /\ submit' = [submit EXCEPT
                    ![t].pc = IF worker_num < threadSize THEN "add" ELSE "push",
                    ![t].core = TRUE]
    /\ UNCHANGED <<threadSize, resized, available, workQueue, queueShut, shutting, worker,
                   held, core, ran>>

Reserve(t) ==
    /\ submit[t].pc = "new"
    /\ worker_num' = worker_num + 1
    /\ submit' = [submit EXCEPT
                    ![t].pc = IF worker_num < threadSize THEN "add" ELSE "release",
                    ![t].core = TRUE]
    /\ UNCHANGED <<threadSize, resized, available, workQueue, queueShut, shutting, worker,
                   held, core, ran>>

Add(t) ==
    /\ submit[t].pc \in {"add", "add2"}
    /\ AddWorker(submit[t].core)
    /\ Goto(t, IF submit[t].pc = "add" THEN "release" ELSE "release2")
    /\ UNCHANGED <<threadSize, resized, available, workQueue, queueShut, shutting, held, ran>>

Release(t) ==
    /\ submit[t].pc \in {"release", "release2"}
    /\ worker_num' = worker_num - 1
    /\ Goto(t, IF submit[t].pc = "release" THEN "push"
               ELSE IF submit[t].queued THEN "ok" ELSE "wait")
    /\ UNCHANGED <<threadSize, resized, available, workQueue, queueShut, shutting, worker,
                   held, core, ran>>

HasRoom == Cardinality(workQueue) < Capacity

(* Push(task, -1) does not wait. *)
Push(t) ==
    /\ submit[t].pc = "push"
    /\ LET ok == ~queueShut /\ HasRoom
       IN  /\ workQueue' = IF ok THEN workQueue \cup {t} ELSE workQueue
           /\ submit' = [submit EXCEPT ![t].pc = IF ok THEN "look" ELSE "check",
                                       ![t].queued = ok]
    /\ UNCHANGED <<threadSize, resized, worker_num, available, queueShut, shutting, worker,
                   held, core, ran>>

(* A queued task is left to the workers there are, if there may be one. *)
Look(t) ==
    /\ submit[t].pc = "look"
    /\ Goto(t, IF (HasRoom /\ threadSize > 0) \/ available > 0 THEN "ok" ELSE "check")
    /\ UNCHANGED <<threadSize, resized, worker_num, available, workQueue, queueShut,
                   shutting, worker, held, core, ran>>

Check(t) ==
    /\ submit[t].pc = "check"
    /\ Goto(t, IF queueShut THEN "failed" ELSE "reserve2")
    /\ UNCHANGED <<threadSize, resized, worker_num, available, workQueue, queueShut,
                   shutting, worker, held, core, ran>>

Reserve2(t) ==
    /\ submit[t].pc = "reserve2"
    /\ worker_num' = worker_num + 1
    /\ submit' = [submit EXCEPT
                    ![t].pc = IF worker_num < MaxThreads THEN "add2" ELSE "release2",
                    ![t].core = worker_num < threadSize]
    /\ UNCHANGED <<threadSize, resized, available, workQueue, queueShut, shutting, worker,
                   held, core, ran>>

(* Push(task, 0) waits for room. *)
PushWait(t) ==
    /\ submit[t].pc = "wait" /\ (queueShut \/ HasRoom)
    /\ workQueue' = IF queueShut THEN workQueue ELSE workQueue \cup {t}
    /\ Goto(t, IF queueShut THEN "failed" ELSE "ok")
    /\ UNCHANGED <<threadSize, resized, worker_num, available, queueShut, shutting, worker,
                   held, core, ran>>

-----------------------------------------------------------------------------
(* Workers. *)

Enter(w, pc) == worker' = [worker EXCEPT ![w] = pc]

Park(w) ==
    /\ worker[w] = "run"
    /\ available' = available + 1
    /\ Enter(w, "pop")
    /\ UNCHANGED <<threadSize, resized, worker_num, workQueue, queueShut, shutting, submit,
                   held, core, ran>>

(* The queue hands tasks out after it was shut down, too. *)
Pop(w) ==
    /\ worker[w] = "pop"
    /\ \E t \in workQueue :
         workQueue' = workQueue \ {t} /\ held' = [held EXCEPT ![w] = {t}]
    /\ Enter(w, "popped")
    /\ UNCHANGED <<threadSize, resized, worker_num, available, queueShut, shutting, submit,
                   core, ran>>

(* Pop fails: the queue was shut down, or keep_alive_ has passed for a     *)
(* worker that is not a core worker.                                       *)
PopFail(w) ==
    /\ worker[w] = "pop" /\ workQueue = {}
    /\ queueShut \/ w \notin core
    /\ Enter(w, "popped")
    /\ UNCHANGED <<threadSize, resized, worker_num, available, workQueue, queueShut,
                   shutting, submit, held, core, ran>>

Unpark(w) ==
    /\ worker[w] = "popped"
    /\ available' = available - 1
    /\ Enter(w, IF held[w] = {} THEN "exit" ELSE "task")
    /\ UNCHANGED <<threadSize, resized, worker_num, workQueue, queueShut, shutting, submit,
                   held, core, ran>>

RunTask(w) ==
    /\ worker[w] = "task"
    /\ ran' = ran \cup held[w] /\ held' = [held EXCEPT ![w] = {}]
    /\ Enter(w, "run")
    /\ UNCHANGED <<threadSize, resized, worker_num, available, workQueue, queueShut,
                   shutting, submit, core>>

(* RmvWorker counts the worker off, then removes it. *)
ExitWorker(w) ==
    /\ worker[w] = "exit"
    /\ worker_num' = worker_num - 1
    /\ Enter(w, "left")
    /\ UNCHANGED <<threadSize, resized, available, workQueue, queueShut, shutting, submit,
                   held, core, ran>>

RmvWorker(w) ==
    /\ worker[w] = "left"
    /\ Enter(w, "none")
    /\ core' = core \ {w}
    /\ UNCHANGED <<threadSize, resized, worker_num, available, workQueue, queueShut,
                   shutting, submit, held, ran>>

-----------------------------------------------------------------------------
(* The owner of the pool. *)

(* Core workers above the size, in the order of the list (any), become     *)
(* other workers; the wakeup makes them park again.                        *)
SetThreadSize(size) ==
    /\ shutting = "no" /\ ~resized /\ resized' = TRUE
    /\ threadSize' = size
    /\ \E keep \in SUBSET (core \cap Listed) :
         /\ Cardinality(keep) <= size
         /\ Cardinality(keep) < size => keep = core \cap Listed
         /\ core' = keep
    /\ UNCHANGED <<worker_num, available, workQueue, queueShut, shutting, submit, worker,
                   held, ran>>

(* Mutant of ShutdownQueue: a forced shutdown, where none was asked for. *)
ShutdownQueue_Close ==
    /\ shutting = "no" /\ shutting' = "queue"
    /\ queueShut' = TRUE
    /\ workQueue' = {}
    /\ UNCHANGED <<threadSize, resized, worker_num, available, submit, worker, held, core,
                   ran>>

(* Shutdown() without force: the queue is shut down, ... *)
ShutdownQueue ==
    /\ shutting = "no" /\ shutting' = "queue"
    /\ queueShut' = TRUE
    /\ UNCHANGED <<threadSize, resized, worker_num, available, workQueue, submit, worker,
                   held, core, ran>>

(* ... there are no core threads, ... *)
ShutdownSize ==
    /\ shutting = "queue" /\ shutting' = "wait"
    /\ threadSize' = 0
    /\ UNCHANGED <<resized, worker_num, available, workQueue, queueShut, submit, worker,
                   held, core, ran>>

(* ... and all workers have left. *)
ShutdownDone ==
    /\ shutting = "wait" /\ Listed = {} /\ shutting' = "done"
    /\ UNCHANGED <<threadSize, resized, worker_num, available, workQueue, queueShut, submit,
                   worker, held, core, ran>>

SubmitStep(t) ==
    Reserve(t) \/ Add(t) \/ Release(t) \/ Push(t) \/ Look(t) \/ Check(t) \/ Reserve2(t)
    \/ PushWait(t)

WorkerStep(w) ==
    Park(w) \/ Pop(w) \/ PopFail(w) \/ Unpark(w) \/ RunTask(w) \/ ExitWorker(w) \/ RmvWorker(w)

ShutdownStep == ShutdownSize \/ ShutdownDone

PoolNext ==
    \/ \E t \in Tasks : SubmitStep(t)
    \/ \E w \in Workers : WorkerStep(w)
    \/ \E size \in Sizes : SetThreadSize(size)
    \/ ShutdownQueue
    \/ ShutdownStep

(* The operating system runs every thread; a task, once begun, ends. *)
PoolFairness ==
    /\ \A t \in Tasks : WF_poolVars(submit[t].pc # "new" /\ SubmitStep(t))
    /\ \A w \in Workers : WF_poolVars(WorkerStep(w))
    /\ WF_poolVars(ShutdownStep)

PoolSpec == PoolInit /\ [][PoolNext]_poolVars
PoolFairSpec == PoolSpec /\ PoolFairness

-----------------------------------------------------------------------------
(* The workers that count: those that have not begun to leave. *)
Counted == {w \in Workers : worker[w] \notin {"none", "left"}}

(* There are never more workers than max_thread_size_, although            *)
(* worker_num_ is compared and incremented by threads that race.           *)
BoundedWorkers == Cardinality(Counted) <= MaxThreads

(* The tasks that SubmitTask accepted are run, if there are core threads:  *)
(* workers that leave, a full queue, SetThreadSize and Shutdown without    *)
(* force leave no task in the queue for ever.                              *)
AcceptedRuns == []<>(\A t \in Tasks : submit[t].pc = "ok" => t \in ran)
=============================================================================
