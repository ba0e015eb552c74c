--------------------------- MODULE RuntimeProofs ----------------------------
(***************************************************************************)
(* Proofs about what a process works with, four parts that share no state: *)
(* the thread pool, the slab cache and the timer of the base library, and  *)
(* the manager that monitors the processes of the applications.            *)
(***************************************************************************)
EXTENDS ThreadPool, Slab, Timer, Monitor, FiniteSetTheorems, TLAPS

-----------------------------------------------------------------------------
(***************************************************************************)
(* ThreadPool never has more workers than max_thread_size_, for every      *)
(* number of submitting threads, workers, sizes and queue capacities.      *)
(***************************************************************************)

SubmitPcs == {"new", "add", "release", "push", "look", "check", "reserve2", "add2",
              "release2", "wait", "ok", "failed"}
WorkerPcs == {"none", "run", "pop", "popped", "task", "exit", "left"}

(* The threads that count themselves in worker_num_, and those among them  *)
(* that will create a worker.                                              *)
Reserving == {t \in Tasks : submit[t].pc \in {"add", "release", "add2", "release2"}}
Adding == {t \in Tasks : submit[t].pc \in {"add", "add2"}}

PoolTypes ==
    /\ submit \in [Tasks -> [pc : SubmitPcs, queued : BOOLEAN, core : BOOLEAN]]
    /\ worker \in [Workers -> WorkerPcs]
    /\ threadSize \in Nat /\ threadSize <= MaxThreads

(* worker_num_ counts the workers and the threads that reserve one, and a  *)
(* thread that goes on to create a worker has its place.                   *)
PoolInv ==
    /\ PoolTypes
    /\ worker_num = Cardinality(Counted) + Cardinality(Reserving)
    /\ Cardinality(Counted) + Cardinality(Adding) <= MaxThreads

-----------------------------------------------------------------------------
(* The sets are finite, and a thread that adds a worker reserves it. *)
LEMMA FiniteSizes ==
    ASSUME TRUE
    PROVE  /\ IsFiniteSet(Counted) /\ IsFiniteSet(Reserving) /\ IsFiniteSet(Adding)
           /\ Cardinality(Counted) \in Nat /\ Cardinality(Reserving) \in Nat
           /\ Cardinality(Adding) \in Nat
           /\ Cardinality(Adding) <= Cardinality(Reserving)
  <1>1. Counted \subseteq Workers /\ Reserving \subseteq Tasks /\ Adding \subseteq Reserving
      BY DEF Counted, Reserving, Adding
  <1>2. IsFiniteSet(Counted) /\ IsFiniteSet(Reserving) /\ IsFiniteSet(Adding)
      BY <1>1, FS_Subset, PoolAssumption
  <1> QED
      BY <1>1, <1>2, FS_Subset, FS_CardinalityType

(* At the start there are no workers and nobody reserves one. *)
LEMMA PoolInitInv == PoolInit => PoolInv
  <1> SUFFICES ASSUME PoolInit PROVE PoolInv
      OBVIOUS
  <1>1. PoolTypes
      BY PoolAssumption DEF PoolInit, PoolTypes, SubmitPcs, WorkerPcs
  <1>2. Counted = {} /\ Reserving = {} /\ Adding = {}
      BY DEF PoolInit, Counted, Reserving, Adding
  <1>3. Cardinality({}) = 0
      BY FS_EmptySet
  <1> QED
      BY <1>1, <1>2, <1>3, PoolAssumption DEF PoolInv, PoolInit

(* SubmitTask: a thread takes its place before it creates a worker. *)
LEMMA SubmitInv ==
    ASSUME PoolInv, NEW t \in Tasks, SubmitStep(t)
    PROVE  PoolInv'
  <1> USE DEF Goto
  <1>1. UNCHANGED threadSize
      BY DEF SubmitStep, Reserve, Add, Release, Push, Look, Check, Reserve2, PushWait
  <1>2. submit[t] \in [pc : SubmitPcs, queued : BOOLEAN, core : BOOLEAN]
      BY DEF PoolInv, PoolTypes
  <1>3. MaxThreads \in Nat /\ threadSize \in Nat /\ threadSize <= MaxThreads
      BY PoolAssumption DEF PoolInv, PoolTypes
  <1>4. CASE Reserve(t) \/ Reserve2(t)
    <2>1. UNCHANGED worker /\ worker_num' = worker_num + 1
        BY <1>4 DEF Reserve, Reserve2
    <2>2. PICK pc \in {"add", "add2", "release", "release2"}, c \in BOOLEAN :
             /\ submit' = [submit EXCEPT ![t].pc = pc, ![t].core = c]
             /\ pc \in {"add", "add2"} => worker_num < MaxThreads
      <3>1. CASE Reserve(t)
        <4>1. worker_num < threadSize => worker_num < MaxThreads
            BY <1>3, FiniteSizes DEF PoolInv
        <4> QED
            BY <3>1, <4>1, Zenon DEF Reserve
      <3>2. CASE Reserve2(t)
        <4> DEFINE pc == IF worker_num < MaxThreads THEN "add2" ELSE "release2"
                   c == worker_num < threadSize
        <4>1. submit' = [submit EXCEPT ![t].pc = pc, ![t].core = c]
            BY <3>2, Zenon DEF Reserve2
        <4>2. /\ pc \in {"add", "add2", "release", "release2"} /\ c \in BOOLEAN
              /\ pc \in {"add", "add2"} => worker_num < MaxThreads
            OBVIOUS
        <4> HIDE DEF pc, c
        <4> QED
            BY <4>1, <4>2, Zenon
      <3> QED
          BY <1>4, <3>1, <3>2
    <2>3. submit[t].pc \in {"new", "reserve2"}
        BY <1>4 DEF Reserve, Reserve2
    <2>4. PoolTypes'
        BY <1>1, <1>2, <2>1, <2>2, Zenon DEF PoolInv, PoolTypes, SubmitPcs
    <2>5. Counted' = Counted /\ Reserving' = Reserving \cup {t} /\ t \notin Reserving
        BY <1>2, <2>1, <2>2, <2>3 DEF Counted, Reserving, PoolInv, PoolTypes
    <2>6. Adding' = IF pc \in {"add", "add2"} THEN Adding \cup {t} ELSE Adding
        BY <1>2, <2>2, <2>3 DEF Adding, PoolInv, PoolTypes
    <2>7. t \notin Adding
        BY <2>3 DEF Adding
    <2>8. /\ Cardinality(Reserving') = Cardinality(Reserving) + 1
          /\ Cardinality(Adding \cup {t}) = Cardinality(Adding) + 1
        BY <2>5, <2>7, FiniteSizes, FS_AddElement, Zenon
    <2> QED
        BY <1>3, <2>1, <2>2, <2>4, <2>5, <2>6, <2>8, FiniteSizes DEF PoolInv
  <1>5. CASE Add(t)
    <2>1. PICK w \in Workers : worker[w] = "none" /\ worker' = [worker EXCEPT ![w] = "run"]
        BY <1>5, Zenon DEF Add, AddWorker, Listed
    <2>2. worker_num' = worker_num + 1
        BY <1>5 DEF Add, AddWorker
    <2>3. PICK pc \in {"release", "release2"} : submit' = [submit EXCEPT ![t].pc = pc]
        BY <1>5, Zenon DEF Add
    <2>4. submit[t].pc \in {"add", "add2"}
        BY <1>5 DEF Add
    <2>5. PoolTypes'
        BY <1>1, <1>2, <2>1, <2>3 DEF PoolInv, PoolTypes, SubmitPcs, WorkerPcs
    <2>6. Counted' = Counted \cup {w} /\ w \notin Counted
        BY <2>1 DEF Counted, PoolInv, PoolTypes
    <2>7. Reserving' = Reserving
        BY <1>2, <2>3, <2>4 DEF Reserving, PoolInv, PoolTypes
    <2>8. Adding' = Adding \ {t} /\ t \in Adding
        BY <1>2, <2>3, <2>4 DEF Adding, PoolInv, PoolTypes
    <2>9. /\ Cardinality(Counted') = Cardinality(Counted) + 1
          /\ Cardinality(Adding') = Cardinality(Adding) - 1
        BY <2>6, <2>8, FiniteSizes, FS_AddElement, FS_RemoveElement, Zenon
    <2> QED
        BY <1>3, <2>2, <2>5, <2>7, <2>9, FiniteSizes DEF PoolInv
  <1>6. CASE Release(t)
    <2>1. UNCHANGED worker /\ worker_num' = worker_num - 1
        BY <1>6 DEF Release
    <2>2. PICK pc \in {"push", "ok", "wait"} : submit' = [submit EXCEPT ![t].pc = pc]
        BY <1>6, Zenon DEF Release
    <2>3. submit[t].pc \in {"release", "release2"}
        BY <1>6 DEF Release
    <2>4. PoolTypes'
        BY <1>1, <1>2, <2>1, <2>2 DEF PoolInv, PoolTypes, SubmitPcs
    <2>5. Counted' = Counted
        BY <2>1 DEF Counted
    <2>6. Reserving' = Reserving \ {t} /\ t \in Reserving
        BY <1>2, <2>2, <2>3 DEF Reserving, PoolInv, PoolTypes
    <2>7. Adding' = Adding
        BY <1>2, <2>2, <2>3 DEF Adding, PoolInv, PoolTypes
    <2>8. Cardinality(Reserving') = Cardinality(Reserving) - 1
        BY <2>6, FiniteSizes, FS_RemoveElement, Zenon
    <2> QED
        BY <1>3, <2>1, <2>4, <2>5, <2>7, <2>8, FiniteSizes DEF PoolInv
  <1>7. CASE Push(t) \/ Look(t) \/ Check(t) \/ PushWait(t)
    <2>1. UNCHANGED <<worker, worker_num>>
        BY <1>7 DEF Push, Look, Check, PushWait
    <2>2. PICK pc \in {"look", "check", "ok", "failed", "reserve2"}, q \in BOOLEAN :
             submit' = [submit EXCEPT ![t].pc = pc, ![t].queued = q]
      <3>1. CASE Push(t)
        <4> DEFINE ok == ~queueShut /\ HasRoom
        <4>1. ok \in BOOLEAN
            OBVIOUS
        <4> QED
            BY <3>1, <4>1, Zenon DEF Push
      <3>2. CASE Look(t) \/ Check(t) \/ PushWait(t)
        <4>1. PICK pc \in {"look", "check", "ok", "failed", "reserve2"} :
                 submit' = [submit EXCEPT ![t].pc = pc]
            BY <3>2 DEF Look, Check, PushWait
        <4>2. submit' = [submit EXCEPT ![t].pc = pc, ![t].queued = submit[t].queued]
            BY <1>2, <4>1, Zenon DEF PoolInv, PoolTypes
        <4> QED
            BY <1>2, <4>2, Zenon
      <3> QED
          BY <1>7, <3>1, <3>2
    <2>3. submit[t].pc \in {"push", "look", "check", "wait"}
        BY <1>7 DEF Push, Look, Check, PushWait
    <2>4. PoolTypes'
        BY <1>1, <1>2, <2>1, <2>2, Zenon DEF PoolInv, PoolTypes, SubmitPcs
    <2>5. Counted' = Counted
        BY <2>1 DEF Counted
    <2>6. Reserving' = Reserving
        BY <1>2, <2>2, <2>3 DEF Reserving, PoolInv, PoolTypes
    <2>7. Adding' = Adding
        BY <1>2, <2>2, <2>3 DEF Adding, PoolInv, PoolTypes
    <2> QED
        BY <2>1, <2>4, <2>5, <2>6, <2>7 DEF PoolInv
  <1> QED
      BY <1>4, <1>5, <1>6, <1>7 DEF SubmitStep

(* A worker counts itself off when it leaves. *)
LEMMA WorkerInv ==
    ASSUME PoolInv, NEW w \in Workers, WorkerStep(w)
    PROVE  PoolInv'
  <1> USE DEF Enter
  <1>1. UNCHANGED <<threadSize, submit>>
      BY DEF WorkerStep, Park, Pop, PopFail, Unpark, RunTask, ExitWorker, RmvWorker
  <1>2. Reserving' = Reserving /\ Adding' = Adding
      BY <1>1 DEF Reserving, Adding
  <1>3. CASE ExitWorker(w)
    <2>1. /\ worker[w] = "exit" /\ worker' = [worker EXCEPT ![w] = "left"]
          /\ worker_num' = worker_num - 1
        BY <1>3 DEF ExitWorker
    <2>2. PoolTypes'
        BY <1>1, <2>1 DEF PoolInv, PoolTypes, WorkerPcs
    <2>3. Counted' = Counted \ {w} /\ w \in Counted
        BY <2>1 DEF Counted, PoolInv, PoolTypes
    <2>4. Cardinality(Counted') = Cardinality(Counted) - 1
        BY <2>3, FiniteSizes, FS_RemoveElement, Zenon
    <2> QED
        BY <1>2, <2>1, <2>2, <2>4, FiniteSizes, PoolAssumption DEF PoolInv
  <1>4. CASE RmvWorker(w)
    <2>1. /\ worker[w] = "left" /\ worker' = [worker EXCEPT ![w] = "none"]
          /\ UNCHANGED worker_num
        BY <1>4 DEF RmvWorker
    <2>2. PoolTypes'
        BY <1>1, <2>1 DEF PoolInv, PoolTypes, WorkerPcs
    <2>3. Counted' = Counted
        BY <2>1 DEF Counted, PoolInv, PoolTypes
    <2> QED
        BY <1>2, <2>1, <2>2, <2>3 DEF PoolInv
  <1>5. CASE Park(w) \/ Pop(w) \/ PopFail(w) \/ Unpark(w) \/ RunTask(w)
    <2>1. PICK pc \in {"pop", "popped", "exit", "task", "run"} :
             worker' = [worker EXCEPT ![w] = pc]
        BY <1>5 DEF Park, Pop, PopFail, Unpark, RunTask
    <2>2. worker[w] \in {"run", "pop", "popped", "task"} /\ UNCHANGED worker_num
        BY <1>5 DEF Park, Pop, PopFail, Unpark, RunTask
    <2>3. PoolTypes'
        BY <1>1, <2>1 DEF PoolInv, PoolTypes, WorkerPcs
    <2>4. Counted' = Counted
        BY <2>1, <2>2 DEF Counted, PoolInv, PoolTypes
    <2> QED
        BY <1>2, <2>2, <2>3, <2>4 DEF PoolInv
  <1> QED
      BY <1>3, <1>4, <1>5 DEF WorkerStep

(* The number of core threads is never above max_thread_size_. *)
LEMMA OwnerInv ==
    ASSUME PoolInv,
           (\E n \in Sizes : SetThreadSize(n)) \/ ShutdownQueue \/ ShutdownStep
    PROVE  PoolInv'
  <1>1. UNCHANGED <<worker, worker_num, submit>>
      BY DEF SetThreadSize, ShutdownQueue, ShutdownStep, ShutdownSize, ShutdownDone
  <1>2. threadSize' \in Nat /\ threadSize' <= MaxThreads
      BY PoolAssumption DEF SetThreadSize, ShutdownQueue, ShutdownStep, ShutdownSize,
                            ShutdownDone, PoolInv, PoolTypes
  <1>3. Counted' = Counted /\ Reserving' = Reserving /\ Adding' = Adding
      BY <1>1 DEF Counted, Reserving, Adding
  <1> QED
      BY <1>1, <1>2, <1>3 DEF PoolInv, PoolTypes

(* ThreadPool never runs more than max_thread_size_ workers at a time,     *)
(* although SubmitTask compares and counts worker_num_ while other threads *)
(* do and while workers leave.                                             *)
THEOREM WorkersBounded == PoolSpec => []BoundedWorkers
  <1>1. PoolInv /\ [PoolNext]_poolVars => PoolInv'
    <2> SUFFICES ASSUME PoolInv, [PoolNext]_poolVars PROVE PoolInv'
        OBVIOUS
    <2>1. CASE PoolNext
        BY <2>1, SubmitInv, WorkerInv, OwnerInv DEF PoolNext
    <2>2. CASE UNCHANGED poolVars
        BY <2>2 DEF poolVars, PoolInv, PoolTypes, Counted, Reserving, Adding
    <2> QED
        BY <2>1, <2>2
  <1>2. PoolInv => BoundedWorkers
      BY FiniteSizes, PoolAssumption DEF PoolInv, BoundedWorkers
  <1> QED
      BY <1>1, <1>2, PoolInitInv, PTL DEF PoolSpec

-----------------------------------------------------------------------------
(***************************************************************************)
(* The lists and the counters of SlabCache agree, for every number of      *)
(* slabs, objects and threads, and whatever Shrink and Reclaim compute     *)
(* from counters they read without the lock.                               *)
(***************************************************************************)

(* The slabs that are in a list of the cache. *)
Kept == In("empty") \cup In("partial") \cup In("full")

SlabInv ==
    /\ list \in [Slabs -> {"none", "grow", "free", "empty", "partial", "full"}]
    /\ used \in [Slabs -> 0 .. BatchObjects]
    /\ SlabsAccounted

-----------------------------------------------------------------------------
(* The lists are finite. *)
LEMMA FiniteLists ==
    /\ IsFiniteSet(In("empty")) /\ IsFiniteSet(Kept)
    /\ Cardinality(In("empty")) \in Nat /\ Cardinality(Kept) \in Nat
  <1>1. In("empty") \subseteq Slabs /\ Kept \subseteq Slabs
      BY DEF In, Kept
  <1>2. IsFiniteSet(In("empty")) /\ IsFiniteSet(Kept)
      BY <1>1, FS_Subset, SlabAssumption
  <1> QED
      BY <1>2, FS_CardinalityType

(* A step that leaves the number of kept slabs and objects alone, and      *)
(* counts the empty ones.                                                  *)
LEMMA MovesInv ==
    ASSUME SlabInv, NEW s \in Slabs,
           NEW l \in {"none", "grow", "free", "empty", "partial", "full"},
           NEW n \in 0 .. BatchObjects,
           list' = [list EXCEPT ![s] = l], used' = [used EXCEPT ![s] = n],
           l \in {"none", "grow", "free", "empty"} <=> n = 0,
           l = "full" <=> n = BatchObjects,
           UNCHANGED objNum,
           l \in {"empty", "partial", "full"} <=> list[s] \in {"empty", "partial", "full"},
           emptyNum' = (IF l = "empty" THEN 1 ELSE 0) - (IF list[s] = "empty" THEN 1 ELSE 0)
                       + emptyNum
    PROVE  SlabInv'
  <1>1. list' \in [Slabs -> {"none", "grow", "free", "empty", "partial", "full"}]
      BY DEF SlabInv
  <1>2. used' \in [Slabs -> 0 .. BatchObjects]
      BY DEF SlabInv
  <1>3. \A t \in Slabs :
         /\ list'[t] \in {"none", "grow", "free", "empty"} <=> used'[t] = 0
         /\ list'[t] = "full" <=> used'[t] = BatchObjects
      BY DEF SlabInv, SlabsAccounted
  <1>4. Kept' = Kept
      BY DEF Kept, In, SlabInv
  <1>5. In("empty")' = IF l = "empty" THEN In("empty") \cup {s} ELSE In("empty") \ {s}
      BY DEF In, SlabInv
  <1>6. s \in In("empty") <=> list[s] = "empty"
      BY DEF In
  <1>7. /\ Cardinality(In("empty") \cup {s})
             = IF list[s] = "empty" THEN Cardinality(In("empty")) ELSE Cardinality(In("empty")) + 1
        /\ Cardinality(In("empty") \ {s})
             = IF list[s] = "empty" THEN Cardinality(In("empty")) - 1 ELSE Cardinality(In("empty"))
      BY <1>6, FiniteLists, FS_AddElement, FS_RemoveElement, Zenon
  <1>8. emptyNum = Cardinality(In("empty")) /\ Cardinality(In("empty")) \in Nat
      BY FiniteLists DEF SlabInv, SlabsAccounted
  <1>9. emptyNum' = Cardinality(In("empty")')
    <2>1. CASE l = "empty" /\ list[s] = "empty"
      <3>1. emptyNum' = emptyNum
          BY <1>8, <2>1
      <3> QED
          BY <1>5, <1>7, <1>8, <2>1, <3>1, Zenon
    <2>2. CASE l = "empty" /\ list[s] # "empty"
      <3>1. emptyNum' = emptyNum + 1
          BY <1>8, <2>2
      <3> QED
          BY <1>5, <1>7, <1>8, <2>2, <3>1
    <2>3. CASE l # "empty" /\ list[s] = "empty"
      <3>1. emptyNum' = emptyNum - 1
          BY <1>8, <2>3
      <3> QED
          BY <1>5, <1>7, <1>8, <2>3, <3>1, Zenon
    <2>4. CASE l # "empty" /\ list[s] # "empty"
      <3>1. emptyNum' = emptyNum
          BY <1>8, <2>4
      <3> QED
          BY <1>5, <1>7, <1>8, <2>4, <3>1, Zenon
    <2> QED
        BY <2>1, <2>2, <2>3, <2>4
  <1>10. objNum' = BatchObjects * Cardinality(Kept')
      BY <1>4, Zenon DEF SlabInv, SlabsAccounted, Kept
  <1> QED
      BY <1>1, <1>2, <1>3, <1>9, <1>10 DEF SlabInv, SlabsAccounted, Kept

(* AllocObject and FreeObject move the slab they take from. *)
LEMMA ObjectInv ==
    ASSUME SlabInv, (\E t \in Threads : AllocObject(t)) \/ (\E s \in Slabs : FreeObject(s))
    PROVE  SlabInv'
  <1>1. BatchObjects \in Nat \ {0}
      BY SlabAssumption
  <1>2. emptyNum \in Nat
      BY FiniteLists DEF SlabInv, SlabsAccounted
  <1>3. CASE \E t \in Threads : AllocObject(t)
    <2>1. PICK s \in Slabs :
             /\ list[s] \in {"partial", "empty"}
             /\ used' = [used EXCEPT ![s] = used[s] + 1]
             /\ list' = [list EXCEPT ![s] =
                           IF used[s] + 1 = BatchObjects THEN "full" ELSE "partial"]
             /\ emptyNum' = IF list[s] = "empty" THEN emptyNum - 1 ELSE emptyNum
             /\ objNum' = objNum
        BY <1>3, Zenon DEF AllocObject, In
    <2>2. used[s] \in 0 .. BatchObjects /\ used[s] # BatchObjects
        BY <2>1 DEF SlabInv, SlabsAccounted
    <2> DEFINE l == IF used[s] + 1 = BatchObjects THEN "full" ELSE "partial"
               n == used[s] + 1
    <2>3. n \in 0 .. BatchObjects /\ n # 0 /\ (l = "full" <=> n = BatchObjects)
        BY <1>1, <2>2
    <2>4. l \in {"partial", "full"}
        OBVIOUS
    <2>5. emptyNum' = (IF l = "empty" THEN 1 ELSE 0) - (IF list[s] = "empty" THEN 1 ELSE 0)
                      + emptyNum
        BY <1>2, <2>1
    <2>6. list' = [list EXCEPT ![s] = l] /\ used' = [used EXCEPT ![s] = n]
        BY <2>1
    <2> HIDE DEF l, n
    <2> QED
        BY <2>1, <2>3, <2>4, <2>5, <2>6, MovesInv, Zenon
  <1>4. CASE \E s \in Slabs : FreeObject(s)
    <2> PICK s \in Slabs : FreeObject(s)
        BY <1>4
    <2>1. used[s] \in 0 .. BatchObjects /\ used[s] > 0 /\ list[s] \in {"partial", "full"}
        BY DEF FreeObject, SlabInv, SlabsAccounted
    <2> DEFINE l == IF used[s] = 1 THEN "empty" ELSE "partial"
               n == used[s] - 1
    <2>2. n \in 0 .. BatchObjects /\ n # BatchObjects /\ (l = "empty" <=> n = 0)
        BY <1>1, <2>1
    <2>3. l \in {"empty", "partial"}
        OBVIOUS
    <2>4. list' = [list EXCEPT ![s] = l] /\ used' = [used EXCEPT ![s] = n]
        BY DEF FreeObject
    <2>5. emptyNum' = (IF l = "empty" THEN 1 ELSE 0) - (IF list[s] = "empty" THEN 1 ELSE 0)
                      + emptyNum
        BY <1>2, <2>1 DEF FreeObject
    <2>6. UNCHANGED objNum
        BY DEF FreeObject
    <2> HIDE DEF l, n
    <2> QED
        BY <2>1, <2>2, <2>3, <2>4, <2>5, <2>6, MovesInv, Zenon
  <1> QED
      BY <1>3, <1>4

(* GrowLocked adds the new slab and counts it in the same step. *)
LEMMA GrowInv ==
    ASSUME SlabInv, NEW t \in Threads, Grow(t) \/ Grown(t)
    PROVE  SlabInv'
  <1>1. BatchObjects \in Nat \ {0}
      BY SlabAssumption
  <1>2. CASE Grow(t)
    <2>1. UNCHANGED <<used, emptyNum, objNum>>
        BY <1>2 DEF Grow
    <2>2. CASE list' = list
        BY <2>1, <2>2 DEF SlabInv, SlabsAccounted, In
    <2>3. CASE list' # list
      <3>1. PICK s \in Slabs : list[s] = "none" /\ list' = [list EXCEPT ![s] = "grow"]
          BY <1>2, <2>3 DEF Grow, In
      <3>2. In("empty")' = In("empty") /\ Kept' = Kept
          BY <3>1 DEF In, Kept, SlabInv
      <3>3. list' \in [Slabs -> {"none", "grow", "free", "empty", "partial", "full"}]
          BY <3>1 DEF SlabInv
      <3>4. \A u \in Slabs :
              /\ list'[u] \in {"none", "grow", "free", "empty"} <=> used'[u] = 0
              /\ list'[u] = "full" <=> used'[u] = BatchObjects
          BY <2>1, <3>1 DEF SlabInv, SlabsAccounted
      <3> QED
          BY <2>1, <3>2, <3>3, <3>4, Zenon DEF SlabInv, SlabsAccounted, Kept
    <2> QED
        BY <2>2, <2>3
  <1>3. CASE Grown(t)
    <2>1. PICK s \in Slabs : list[s] = "grow" /\ list' = [list EXCEPT ![s] = "empty"]
        BY <1>3, Zenon DEF Grown, In
    <2>2. emptyNum' = emptyNum + 1 /\ objNum' = objNum + BatchObjects /\ UNCHANGED used
        BY <1>3 DEF Grown
    <2>3. /\ In("empty")' = In("empty") \cup {s} /\ s \notin In("empty")
          /\ Kept' = Kept \cup {s} /\ s \notin Kept
        BY <2>1 DEF In, Kept, SlabInv
    <2>4. /\ Cardinality(In("empty")') = Cardinality(In("empty")) + 1
          /\ Cardinality(Kept') = Cardinality(Kept) + 1
        BY <2>3, FiniteLists, FS_AddElement, Zenon
    <2>5. list' \in [Slabs -> {"none", "grow", "free", "empty", "partial", "full"}]
        BY <2>1 DEF SlabInv
    <2>6. \A u \in Slabs :
            /\ list'[u] \in {"none", "grow", "free", "empty"} <=> used'[u] = 0
            /\ list'[u] = "full" <=> used'[u] = BatchObjects
        BY <2>1, <2>2 DEF SlabInv, SlabsAccounted
    <2>7. objNum = BatchObjects * Cardinality(Kept) /\ emptyNum = Cardinality(In("empty"))
        BY DEF SlabInv, SlabsAccounted, Kept
    <2>8. objNum' = BatchObjects * Cardinality(Kept')
        BY <1>1, <2>2, <2>4, <2>7, FiniteLists
    <2> QED
        BY <2>2, <2>4, <2>5, <2>6, <2>7, <2>8 DEF SlabInv, SlabsAccounted, Kept
  <1> QED
      BY <1>2, <1>3

(* RemoveSlabs counts off what it takes from empty_, however many. *)
LEMMA RemoveInv ==
    ASSUME SlabInv, RemoveSlabs \/ (\E s \in Slabs : DeleteSlab(s))
    PROVE  SlabInv'
  <1>1. BatchObjects \in Nat \ {0}
      BY SlabAssumption
  <1>2. CASE RemoveSlabs
    <2>1. PICK S \in SUBSET In("empty") :
             /\ list' = [s \in Slabs |-> IF s \in S THEN "free" ELSE list[s]]
             /\ emptyNum' = emptyNum - Cardinality(S)
             /\ objNum' = objNum - BatchObjects * Cardinality(S)
             /\ UNCHANGED used
        BY <1>2 DEF RemoveSlabs
    <2>2. /\ In("empty")' = In("empty") \ S /\ In("empty") \cap S = S
          /\ Kept' = Kept \ S /\ Kept \cap S = S
        BY <2>1 DEF In, Kept, SlabInv
    <2>3. IsFiniteSet(S) /\ Cardinality(S) \in Nat
        BY <2>1, FiniteLists, FS_Subset, FS_CardinalityType
    <2>4. /\ Cardinality(In("empty")') = Cardinality(In("empty")) - Cardinality(S)
          /\ Cardinality(Kept') = Cardinality(Kept) - Cardinality(S)
      <3>1. Cardinality(In("empty") \ S)
              = Cardinality(In("empty")) - Cardinality(In("empty") \cap S)
          BY FiniteLists, FS_Difference, Zenon
      <3>2. Cardinality(Kept \ S) = Cardinality(Kept) - Cardinality(Kept \cap S)
          BY FiniteLists, FS_Difference, Zenon
      <3> QED
          BY <2>2, <3>1, <3>2, Zenon
    <2>5. list' \in [Slabs -> {"none", "grow", "free", "empty", "partial", "full"}]
        BY <2>1 DEF SlabInv
    <2>6. \A u \in Slabs :
            /\ list'[u] \in {"none", "grow", "free", "empty"} <=> used'[u] = 0
            /\ list'[u] = "full" <=> used'[u] = BatchObjects
        BY <2>1 DEF SlabInv, SlabsAccounted, In
    <2>7. objNum = BatchObjects * Cardinality(Kept) /\ emptyNum = Cardinality(In("empty"))
        BY DEF SlabInv, SlabsAccounted, Kept
    <2>8. objNum' = BatchObjects * Cardinality(Kept')
        BY <1>1, <2>1, <2>3, <2>4, <2>7, FiniteLists
    <2> QED
        BY <2>1, <2>4, <2>5, <2>6, <2>7, <2>8 DEF SlabInv, SlabsAccounted, Kept
  <1>3. CASE \E s \in Slabs : DeleteSlab(s)
    <2>1. PICK s \in Slabs : list[s] = "free" /\ list' = [list EXCEPT ![s] = "none"]
        BY <1>3, Zenon DEF DeleteSlab
    <2>2. UNCHANGED <<used, emptyNum, objNum>>
        BY <1>3 DEF DeleteSlab
    <2>3. In("empty")' = In("empty") /\ Kept' = Kept
        BY <2>1 DEF In, Kept, SlabInv
    <2>4. list' \in [Slabs -> {"none", "grow", "free", "empty", "partial", "full"}]
        BY <2>1 DEF SlabInv
    <2>5. \A u \in Slabs :
            /\ list'[u] \in {"none", "grow", "free", "empty"} <=> used'[u] = 0
            /\ list'[u] = "full" <=> used'[u] = BatchObjects
        BY <2>1, <2>2 DEF SlabInv, SlabsAccounted
    <2> QED
        BY <2>2, <2>3, <2>4, <2>5, Zenon DEF SlabInv, SlabsAccounted, Kept
  <1> QED
      BY <1>2, <1>3

(* slab_empty_num_ and obj_num_ are right whenever lock_ is free, and a    *)
(* slab that is removed has no object in use: no interleaving of           *)
(* AllocObject, FreeObject, Shrink and Reclaim breaks this, not even when  *)
(* the number of slabs to remove is computed from stale counters.          *)
THEOREM AlwaysAccounted == SlabSpec => []SlabsAccounted
  <1>1. SlabInit => SlabInv
    <2> SUFFICES ASSUME SlabInit PROVE SlabInv
        OBVIOUS
    <2>1. In("empty") = {} /\ Kept = {}
        BY DEF SlabInit, In, Kept
    <2>2. Cardinality({}) = 0
        BY FS_EmptySet
    <2>3. objNum = BatchObjects * Cardinality(Kept) /\ emptyNum = Cardinality(In("empty"))
        BY <2>1, <2>2, SlabAssumption DEF SlabInit
    <2> QED
        BY <2>3, SlabAssumption DEF SlabInit, SlabInv, SlabsAccounted, Kept
  <1>2. SlabInv /\ [SlabNext]_slabVars => SlabInv'
    <2> SUFFICES ASSUME SlabInv, [SlabNext]_slabVars PROVE SlabInv'
        OBVIOUS
    <2>1. CASE UNCHANGED <<list, used, emptyNum, objNum>>
        BY <2>1 DEF SlabInv, SlabsAccounted, In
    <2>2. ((\E t \in Threads : CallAlloc(t)) \/ (\E keep \in Keeps : Shrink(keep))
           \/ ShrinkCount \/ Reclaim \/ UNCHANGED slabVars)
              => UNCHANGED <<list, used, emptyNum, objNum>>
        BY DEF CallAlloc, Shrink, ShrinkCount, Reclaim, slabVars
    <2> QED
        BY <2>1, <2>2, ObjectInv, GrowInv, RemoveInv DEF SlabNext
  <1>3. SlabInv => SlabsAccounted
      BY DEF SlabInv
  <1> QED
      BY <1>1, <1>2, <1>3, PTL DEF SlabSpec

-----------------------------------------------------------------------------
(***************************************************************************)
(* No task of the Timer runs before it is due, for any tasks, delays,      *)
(* periods and stalls of its thread.  Whether a task is due is told from a *)
(* difference of ticks that wraps around, which is right only while the    *)
(* hit time of each task is within its span from now (TimerInv).           *)
(***************************************************************************)

TaskType == [hit : Nat, delay : Nat, running : BOOLEAN, ran : BOOLEAN, used : BOOLEAN]

(* A task that was scheduled hits within its span from now. *)
Within(o) ==
    /\ task[o].hit <= now + Span(o)
    /\ task[o].hit <= now + MaxTime
    /\ Period(o) <= MaxTime

TimerInv ==
    /\ now \in 0 .. MaxTime
    /\ task \in [Objects -> TaskType]
    /\ timerQueue \in SUBSET Objects
    /\ \A o \in Objects : task[o].used => Within(o)
    /\ \A o \in timerQueue : task[o].used
    /\ \A o \in arming : o \in Objects /\ ~ task[o].used
    /\ thread = "wait" => timerQueue # {}
    /\ thread \in {"call", "after"} => top \in Objects /\ task[top].used /\ task[top].hit <= now

(* Ticks that are less than the wrap around apart. *)
LEMMA TickDiff ==
    ASSUME NEW a \in Nat, NEW b \in Nat, NEW w \in Nat, a - b < w, b - a < w
    PROVE  a >= b => (a - b) % w = a - b
OBVIOUS

LEMMA LeastOf ==
    ASSUME NEW S \in SUBSET Nat, S # {}
    PROVE  \E m \in S : \A k \in S : m <= k
<1>1. PICK m \in S : \A k \in S : ~ (<<k, m>> \in OpToRel(<, Nat))
    BY NatLessThanWellFounded, WFMin, Zenon
<1>2. m \in Nat /\ \A k \in S : k \in Nat
    OBVIOUS
<1>3. \A k \in S : ~ (k < m)
    BY <1>1, <1>2, Zenon DEF OpToRel
<1> QED
    BY <1>2, <1>3

LEMMA SpanType ==
    ASSUME TimerInv, NEW o \in Objects
    PROVE  Period(o) \in {0, 1} /\ Span(o) \in Nat /\ Span(o) = Period(o) + task[o].delay
           /\ task[o].hit \in Nat /\ task[o].delay \in Nat
<1>1. task[o] \in TaskType
    BY DEF TimerInv
<1>2. Period(o) \in {0, 1}
    BY DEF Period
<1> QED
    BY <1>1, <1>2 DEF Span, TaskType

(* TimerCompare has a least task in any queue that is not empty. *)
LEMMA TopIn ==
    ASSUME TimerInv, timerQueue # {}
    PROVE  Top \in timerQueue
<1>1. \A o \in timerQueue : o \in Objects /\ task[o].hit \in Nat /\ Span(o) \in Nat
    BY SpanType DEF TimerInv
<1> DEFINE H == {task[o].hit : o \in timerQueue}
<1>2. H \in SUBSET Nat /\ H # {}
    BY <1>1, Zenon
<1>3. PICK h \in H : \A k \in H : h <= k
    BY <1>2, LeastOf, Zenon
<1> DEFINE F == {o \in timerQueue : task[o].hit = h}
           S == {Span(o) : o \in F}
<1>4. S \in SUBSET Nat /\ S # {}
    BY <1>1, <1>3, Zenon
<1>5. PICK m \in S : \A k \in S : m <= k
    BY <1>4, LeastOf, Zenon
<1>6. PICK o \in timerQueue : task[o].hit = h /\ Span(o) = m
    BY <1>5, Zenon
<1>7. ASSUME NEW p \in timerQueue PROVE ~ Before(p, o)
  <2>1. h <= task[p].hit /\ (task[p].hit = h => m <= Span(p))
      BY <1>3, <1>5, Zenon
  <2> QED
      BY <1>1, <1>6, <2>1 DEF Before
<1> QED
    BY <1>6, <1>7, Zenon DEF Top

(* Only a task whose hit time has come is late or due. *)
LEMMA HitReached ==
    ASSUME TimerInv, NEW o \in Objects, task[o].used
    PROVE  /\ ~ Ahead(o) => task[o].hit <= now
           /\ Due(o) => task[o].hit <= now
<1> DEFINE h == task[o].hit
           d == GetTickDiff(task[o].hit, now)
           p == Span(o)
<1>1. /\ h \in Nat /\ now \in Nat /\ now <= MaxTime /\ MaxTime \in Nat /\ Wrap \in Nat
      /\ Wrap > 2 * MaxTime /\ p \in Nat
    BY SpanType, TimerAssumption DEF TimerInv
<1>2. h <= now + p /\ h <= now + MaxTime
    BY DEF TimerInv, Within
<1>3. d = (h - now) % Wrap
    BY Zenon DEF GetTickDiff
<1>4. (Ahead(o) <=> d <= p) /\ (Due(o) <=> ~ (Ahead(o) /\ d # 0))
    BY Zenon DEF Ahead, Due
<1> HIDE DEF h, d, p
<1>5. h >= now => d = h - now
    BY <1>1, <1>2, <1>3, TickDiff
<1> QED
    BY <1>1, <1>2, <1>4, <1>5 DEF h

LEMMA WithinKept ==
    ASSUME TimerInv, NEW o \in Objects, task[o].used,
           task'[o].hit = task[o].hit, task'[o].delay = task[o].delay,
           now' \in Nat, now' >= now
    PROVE  Within(o)'
<1> DEFINE h == task[o].hit
           e == task[o].delay
           p == Period(o)
<1>1. /\ h \in Nat /\ e \in Nat /\ p \in {0, 1} /\ now \in Nat /\ MaxTime \in Nat
    BY SpanType, TimerAssumption DEF TimerInv
<1>2. h <= now + (p + e) /\ h <= now + MaxTime /\ p <= MaxTime
    BY Zenon DEF TimerInv, Within, Span
<1>3. Span(o)' = p + e /\ Period(o)' = p /\ task'[o].hit = h
    BY Zenon DEF Span, Period
<1> HIDE DEF h, e, p
<1>4. h <= now' + (p + e) /\ h <= now' + MaxTime
  <2> DEFINE n == now'
  <2>1. n \in Nat /\ n >= now
      OBVIOUS
  <2> HIDE DEF n
  <2>2. h <= n + (p + e) /\ h <= n + MaxTime
      BY <1>1, <1>2, <2>1
  <2> QED
      BY <2>2 DEF n
<1> QED
    BY <1>2, <1>3, <1>4, ZenonT(40) DEF Within

(* A step that moves no hit time and takes no task into the queue. *)
LEMMA QuietStep ==
    ASSUME TimerInv, now' \in 0 .. MaxTime, now' >= now, task' \in [Objects -> TaskType],
           \A o \in Objects : /\ task'[o].hit = task[o].hit /\ task'[o].delay = task[o].delay
                              /\ task'[o].used = task[o].used,
           timerQueue' \in SUBSET timerQueue,
           \A o \in arming' : ~ task[o].used /\ o \in Objects,
           thread' = "wait" => timerQueue' # {},
           thread' \in {"call", "after"} =>
               top' \in Objects /\ task[top'].used /\ task[top'].hit <= now
    PROVE  TimerInv'
<1>1. now \in Nat /\ now' \in Nat /\ MaxTime \in Nat
    BY TimerAssumption DEF TimerInv
<1>2. \A o \in Objects : task'[o].used => Within(o)'
    BY <1>1, WithinKept, Zenon DEF TimerInv
<1>3. timerQueue' \in SUBSET Objects /\ \A o \in timerQueue' : task'[o].used
    BY Zenon DEF TimerInv
<1>4. \A o \in arming' : o \in Objects /\ ~ task'[o].used
    BY Zenon
<1>5. ASSUME thread' \in {"call", "after"}
      PROVE  top' \in Objects /\ task'[top'].used /\ task'[top'].hit <= now'
  <2>1. top' \in Objects /\ task[top'].used /\ task[top'].hit <= now
      BY <1>5, Zenon
  <2>2. task[top'].hit \in Nat
      BY <2>1, SpanType, Zenon
  <2>3. task[top'].hit <= now'
      BY <1>1, <2>1, <2>2
  <2> QED
      BY <2>1, <2>3, Zenon
<1> QED
    BY <1>2, <1>3, <1>4, <1>5, Zenon DEF TimerInv

(* The steps that leave the tasks alone, but for is_running_ and ran. *)
LEMMA CallerSteps ==
    ASSUME TimerInv,
           \/ \E o \in Objects : ScheduleCheck(o) \/ StopTask(o)
           \/ Shutdown \/ TimerStop \/ TimerJoin \/ TimerTick \/ UNCHANGED timerVars
    PROVE  TimerInv'
<1>1. /\ now \in 0 .. MaxTime /\ now >= now /\ task \in [Objects -> TaskType] /\ MaxTime \in Nat
      /\ \A o \in arming : o \in Objects /\ ~ task[o].used
      /\ thread = "wait" => timerQueue # {}
      /\ thread \in {"call", "after"} => top \in Objects /\ task[top].used /\ task[top].hit <= now
    BY TimerAssumption DEF TimerInv
<1>2. ASSUME NEW o \in Objects, ScheduleCheck(o) PROVE TimerInv'
  <2>1. \A q \in arming' : ~ task[q].used /\ q \in Objects
      BY <1>1, <1>2, Zenon DEF ScheduleCheck
  <2> QED
      BY <1>1, <1>2, <2>1, QuietStep, Zenon DEF ScheduleCheck
<1>3. ASSUME NEW o \in Objects, StopTask(o) PROVE TimerInv'
  <2>1. task' = [task EXCEPT ![o].running = FALSE] /\ task[o] \in TaskType
      BY <1>1, <1>3, Zenon DEF StopTask
  <2>2. task' \in [Objects -> TaskType]
      BY <1>1, <2>1, Zenon DEF TaskType
  <2>3. \A q \in Objects : /\ task'[q].hit = task[q].hit /\ task'[q].delay = task[q].delay
                           /\ task'[q].used = task[q].used
      BY <1>1, <2>1 DEF TaskType
  <2> QED
      BY <1>1, <1>3, <2>2, <2>3, QuietStep, Zenon DEF StopTask
<1>4. ASSUME Shutdown PROVE TimerInv'
    BY <1>1, <1>4, QuietStep, Zenon DEF Shutdown
<1>5. ASSUME TimerStop PROVE TimerInv'
    BY <1>1, <1>5, QuietStep, Zenon DEF TimerStop
<1>6. ASSUME TimerJoin PROVE TimerInv'
  <2>1. task' = [o \in Objects |-> [task[o] EXCEPT !.running = @ /\ o \notin timerQueue]]
      BY <1>6, Zenon DEF TimerJoin
  <2>2. \A q \in Objects : task[q] \in TaskType
      BY <1>1, Zenon
  <2>3. ASSUME NEW q \in Objects
        PROVE  /\ task'[q] \in TaskType
               /\ task'[q].hit = task[q].hit /\ task'[q].delay = task[q].delay
               /\ task'[q].used = task[q].used
    <3>1. task'[q] = [task[q] EXCEPT !.running = task[q].running /\ q \notin timerQueue]
        BY <2>1, Zenon
    <3>2. (task[q].running /\ q \notin timerQueue) \in BOOLEAN
        BY Zenon
    <3> QED
        BY <2>2, <3>1, <3>2, Zenon DEF TaskType
  <2>4. task' \in [Objects -> TaskType]
      BY <2>1, <2>3, Zenon
  <2>5. timerQueue' \in SUBSET timerQueue /\ thread' = "end"
      BY <1>6, Zenon DEF TimerJoin
  <2>6. now' = now /\ arming' = arming
      BY <1>6, Zenon DEF TimerJoin
  <2> QED
      BY <1>1, <2>3, <2>4, <2>5, <2>6, QuietStep, Zenon
<1>7. ASSUME TimerTick PROVE TimerInv'
  <2>1. now' \in 0 .. MaxTime /\ now' >= now
      BY <1>1, <1>7 DEF TimerTick
  <2> QED
      BY <1>1, <1>7, <2>1, QuietStep, Zenon DEF TimerTick
<1>8. ASSUME UNCHANGED timerVars PROVE TimerInv'
    BY <1>1, <1>8, QuietStep, Zenon DEF timerVars
<1> QED
    BY <1>2, <1>3, <1>4, <1>5, <1>6, <1>7, <1>8, Zenon

LEMMA InsertStep ==
    ASSUME TimerInv, NEW o \in Objects, ScheduleInsert(o)
    PROVE  TimerInv'
<1>1. PICK delay \in Delays :
        /\ now + delay + Period(o) <= MaxTime
        /\ task' = [task EXCEPT ![o] = [hit |-> now + delay + Period(o), delay |-> delay,
                                        running |-> TRUE, ran |-> FALSE, used |-> TRUE]]
    BY Zenon DEF ScheduleInsert
<1>2. /\ o \in arming /\ arming' = arming \ {o} /\ now' = now /\ top' = top
      /\ timerQueue' = timerQueue \cup {o}
      /\ thread' = IF thread = "end" THEN "loop" ELSE thread
    BY Zenon DEF ScheduleInsert
<1> DEFINE h == now + delay + Period(o)
           new == [hit |-> h, delay |-> delay, running |-> TRUE, ran |-> FALSE, used |-> TRUE]
<1>3. /\ h \in Nat /\ delay \in Nat /\ now \in Nat /\ MaxTime \in Nat /\ Period(o) \in {0, 1}
      /\ h <= MaxTime
    BY <1>1, TimerAssumption, SpanType DEF TimerInv
<1>4. new \in TaskType /\ new.hit = h /\ new.delay = delay /\ new.used
    BY <1>3, Zenon DEF TaskType
<1>5. task \in [Objects -> TaskType] /\ task' = [task EXCEPT ![o] = new]
    BY <1>1, Zenon DEF TimerInv
<1> HIDE DEF new
<1>6. /\ task' \in [Objects -> TaskType] /\ task'[o] = new
      /\ \A q \in Objects : q # o => task'[q] = task[q]
    BY <1>4, <1>5, Zenon
<1>7. Within(o)'
  <2>1. Span(o)' = Period(o) + delay /\ Period(o)' = Period(o) /\ task'[o].hit = h
      BY <1>4, <1>6, Zenon DEF Span, Period
  <2>2. h <= now + (Period(o) + delay) /\ h <= now + MaxTime /\ Period(o) <= MaxTime
      BY <1>3
  <2> QED
      BY <1>2, <2>1, <2>2, Zenon DEF Within
<1>8. ASSUME NEW q \in Objects, task'[q].used PROVE Within(q)'
  <2>1. CASE q = o
      BY <1>7, <2>1, Zenon
  <2>2. CASE q # o
    <3>1. task'[q] = task[q] /\ now' = now /\ now >= now
        BY <1>2, <1>3, <1>6, <2>2
    <3> QED
        BY <1>2, <1>3, <1>8, <3>1, WithinKept, Zenon
  <2> QED
      BY <2>1, <2>2
<1>9. timerQueue' \in SUBSET Objects /\ \A q \in timerQueue' : task'[q].used
    BY <1>2, <1>4, <1>6, Zenon DEF TimerInv
<1>10. \A q \in arming' : q \in Objects /\ ~ task'[q].used
    BY <1>2, <1>6, Zenon DEF TimerInv
<1>11. thread' = "wait" => timerQueue' # {}
    BY <1>2, Zenon
<1>12. ASSUME thread' \in {"call", "after"}
       PROVE  top' \in Objects /\ task'[top'].used /\ task'[top'].hit <= now'
  <2>1. thread \in {"call", "after"}
      BY <1>2, <1>12
  <2>2. top \in Objects /\ task[top].used /\ task[top].hit <= now
      BY <2>1, Zenon DEF TimerInv
  <2>3. top # o
      BY <1>2, <2>2, Zenon DEF TimerInv
  <2> QED
      BY <1>2, <1>6, <2>2, <2>3, Zenon
<1>13. now' \in 0 .. MaxTime
    BY <1>2, Zenon DEF TimerInv
<1> QED
    BY <1>6, <1>8, <1>9, <1>10, <1>11, <1>12, <1>13, Zenon DEF TimerInv

(* LateTask moves the hit time of the task it takes to now at most. *)
LEMMA LateStep ==
    ASSUME TimerInv, LateTask
    PROVE  TimerInv' /\ Top \in timerQueue /\ task[Top].hit <= now
<1>0. PICK t : t = Top
    BY Zenon
<1>1. /\ timerQueue # {} /\ ~ Ahead(t) /\ timerQueue' = timerQueue \ {t}
      /\ thread' = "call" /\ top' = t /\ now' = now /\ arming' = arming
    BY <1>0, Zenon DEF LateTask
<1>2. t \in timerQueue /\ t \in Objects /\ task[t].used
    BY <1>0, <1>1, TopIn, Zenon DEF TimerInv
<1>3. task[t].hit <= now
    BY <1>1, <1>2, HitReached, Zenon
<1>4. task' = task \/ task' = [task EXCEPT ![t].hit = now]
    BY <1>0, Zenon DEF LateTask
<1>5. now \in 0 .. MaxTime /\ now \in Nat /\ now >= now /\ MaxTime \in Nat /\ task \in [Objects -> TaskType]
    BY TimerAssumption DEF TimerInv
<1>6. /\ task' \in [Objects -> TaskType]
      /\ \A q \in Objects : task'[q].delay = task[q].delay /\ task'[q].used = task[q].used
      /\ \A q \in Objects : q # t => task'[q] = task[q]
      /\ task'[t].hit = task[t].hit \/ task'[t].hit = now
  <2>1. CASE task' = task
      BY <1>5, <2>1, Zenon
  <2>2. CASE task' = [task EXCEPT ![t].hit = now]
    <3>1. task[t] \in TaskType
        BY <1>2, <1>5, Zenon
    <3>2. /\ [task[t] EXCEPT !.hit = now] \in TaskType
          /\ [task[t] EXCEPT !.hit = now].hit = now
          /\ [task[t] EXCEPT !.hit = now].delay = task[t].delay
          /\ [task[t] EXCEPT !.hit = now].used = task[t].used
        BY <1>5, <3>1, Zenon DEF TaskType
    <3>3. task' = [task EXCEPT ![t] = [task[t] EXCEPT !.hit = now]]
        BY <2>2, Zenon
    <3> QED
        BY <1>2, <1>5, <3>2, <3>3, Zenon
  <2> QED
      BY <1>4, <2>1, <2>2
<1>7. task'[t].hit <= now
    BY <1>3, <1>5, <1>6
<1>8. Within(t)'
  <2>1. Within(t) /\ task'[t].hit \in Nat
      BY <1>2, <1>6 DEF TimerInv, TaskType
  <2>2. Span(t)' = Span(t) /\ Period(t)' = Period(t)
      BY <1>2, <1>6, Zenon DEF Span, Period
  <2>3. Span(t) \in Nat
      BY <1>2, SpanType, Zenon
  <2>4. task'[t].hit <= now + Span(t) /\ task'[t].hit <= now + MaxTime
      BY <1>5, <1>7, <2>1, <2>3
  <2> QED
      BY <1>1, <2>1, <2>2, <2>4, Zenon DEF Within
<1>9. ASSUME NEW q \in Objects, task'[q].used PROVE Within(q)'
  <2>1. CASE q = t
      BY <1>8, <2>1, Zenon
  <2>2. CASE q # t
      BY <1>1, <1>5, <1>6, <1>9, <2>2, WithinKept, Zenon
  <2> QED
      BY <2>1, <2>2
<1>10. timerQueue' \in SUBSET Objects /\ \A q \in timerQueue' : task'[q].used
    BY <1>1, <1>6, Zenon DEF TimerInv
<1>11. \A q \in arming' : q \in Objects /\ ~ task'[q].used
    BY <1>1, <1>6, Zenon DEF TimerInv
<1>12. top' \in Objects /\ task'[top'].used /\ task'[top'].hit <= now'
    BY <1>1, <1>2, <1>6, <1>7, Zenon
<1>13. TimerInv'
    BY <1>1, <1>5, <1>6, <1>9, <1>10, <1>11, <1>12, Zenon DEF TimerInv
<1> QED
    BY <1>0, <1>2, <1>3, <1>13, Zenon

LEMMA ThreadSteps ==
    ASSUME TimerInv,
           ThreadEnd \/ NoTask \/ RemoveStopped \/ WaitTimerTask \/ GetTask \/ RunTimerTask
    PROVE  /\ TimerInv'
           /\ GetTask /\ thread' = "call" =>
                Top \in timerQueue /\ timerQueue' = timerQueue \ {Top} /\ task[Top].hit <= now
<1>1. /\ now \in 0 .. MaxTime /\ now >= now /\ task \in [Objects -> TaskType] /\ MaxTime \in Nat
      /\ \A o \in arming : o \in Objects /\ ~ task[o].used
      /\ thread = "wait" => timerQueue # {}
      /\ thread \in {"call", "after"} => top \in Objects /\ task[top].used /\ task[top].hit <= now
    BY TimerAssumption DEF TimerInv
<1>2. ASSUME NEW q \in SUBSET timerQueue, Again(q), task' = task PROVE TimerInv'
    BY <1>1, <1>2, QuietStep, Zenon DEF Again
<1>3. ASSUME ThreadEnd PROVE TimerInv' /\ thread' = "end"
    BY <1>1, <1>3, QuietStep, Zenon DEF ThreadEnd
<1>4. ASSUME NoTask PROVE TimerInv'
    BY <1>2, <1>4, Zenon DEF NoTask
<1>5. ASSUME RemoveStopped PROVE TimerInv'
    BY <1>2, <1>5, Zenon DEF RemoveStopped
<1>6. ASSUME WaitTimerTask PROVE TimerInv'
    BY <1>1, <1>6, QuietStep, Zenon DEF WaitTimerTask
<1>7. ASSUME GetTask
      PROVE  /\ TimerInv'
             /\ thread' = "call" =>
                  Top \in timerQueue /\ timerQueue' = timerQueue \ {Top} /\ task[Top].hit <= now
  <2>1. Top \in timerQueue /\ Top \in Objects /\ task[Top].used
      BY <1>1, <1>7, TopIn, Zenon DEF GetTask, TimerInv
  <2>2. CASE timerRunning /\ task[Top].running /\ Due(Top)
    <3>1. task[Top].hit <= now
        BY <2>1, <2>2, HitReached, Zenon
    <3>2. /\ timerQueue' = timerQueue \ {Top} /\ thread' = "call" /\ top' = Top
          /\ now' = now /\ arming' = arming /\ task' = task
        BY <1>7, <2>2, Zenon DEF GetTask
    <3>3. TimerInv'
        BY <1>1, <2>1, <3>1, <3>2, QuietStep, Zenon
    <3> QED
        BY <2>1, <3>1, <3>2, <3>3, Zenon
  <2>3. CASE ~ (timerRunning /\ task[Top].running /\ Due(Top))
    <3>1. PICK q \in SUBSET timerQueue : Again(q) /\ task' = task
        BY <1>7, <2>3, Zenon DEF GetTask
    <3>2. thread' = "loop"
        BY <3>1, Zenon DEF Again
    <3> QED
        BY <1>2, <3>1, <3>2, Zenon
  <2> QED
      BY <2>2, <2>3
<1>8. ASSUME RunTimerTask PROVE TimerInv'
  <2>1. /\ top \in Objects /\ task[top].used /\ task[top].hit <= now
        /\ task' = [task EXCEPT ![top].ran = TRUE]
      BY <1>1, <1>8, Zenon DEF RunTimerTask
  <2>2. task' \in [Objects -> TaskType]
      BY <1>1, <2>1, Zenon DEF TaskType
  <2>3. \A q \in Objects : /\ task'[q].hit = task[q].hit /\ task'[q].delay = task[q].delay
                           /\ task'[q].used = task[q].used
      BY <1>1, <2>1 DEF TaskType
  <2> QED
      BY <1>1, <1>8, <2>1, <2>2, <2>3, QuietStep, Zenon DEF RunTimerTask
<1> QED
    BY <1>3, <1>4, <1>5, <1>6, <1>7, <1>8, Zenon

(* A periodic task hits next one period after a hit that has come. *)
LEMMA RescheduleStep ==
    ASSUME TimerInv, Reschedule
    PROVE  TimerInv'
<1>0. PICK t : t = top
    BY Zenon
<1>1. /\ t \in Objects /\ task[t].used /\ task[t].hit <= now /\ thread' = "loop"
      /\ now' = now /\ arming' = arming
    BY <1>0, Zenon DEF Reschedule, TimerInv
<1>2. /\ now \in 0 .. MaxTime /\ now \in Nat /\ now >= now /\ MaxTime \in Nat
      /\ task \in [Objects -> TaskType] /\ task[t] \in TaskType
      /\ \A o \in arming : o \in Objects /\ ~ task[o].used
    BY <1>1, TimerAssumption DEF TimerInv
<1>3. CASE Period(t) = 0 \/ ~ task[t].running
  <2>1. task' = [task EXCEPT ![t].running = FALSE] /\ timerQueue' = timerQueue
      BY <1>0, <1>3, Zenon DEF Reschedule
  <2>2. task' \in [Objects -> TaskType]
      BY <1>2, <2>1, Zenon DEF TaskType
  <2>3. \A q \in Objects : /\ task'[q].hit = task[q].hit /\ task'[q].delay = task[q].delay
                           /\ task'[q].used = task[q].used
      BY <1>2, <2>1 DEF TaskType
  <2> QED
      BY <1>1, <1>2, <2>1, <2>2, <2>3, QuietStep, Zenon
<1>4. CASE ~ (Period(t) = 0 \/ ~ task[t].running)
  <2> DEFINE p == Period(t)
             h == task[t].hit + p
             new == [task[t] EXCEPT !.delay = 0, !.hit = h]
  <2>1. p \in {0, 1} /\ p # 0 /\ task[t].hit \in Nat /\ p <= MaxTime
      BY <1>1, <1>4, SpanType DEF TimerInv, Within
  <2>2. p = 1 /\ h \in Nat /\ h <= now + (p + 0) /\ h <= now + MaxTime
      BY <1>1, <1>2, <2>1
  <2>3. task' = [task EXCEPT ![t] = new] /\ timerQueue' = timerQueue \cup {t}
      BY <1>0, <1>1, <1>2, <1>4, Zenon DEF Reschedule, TaskType
  <2>4. new \in TaskType /\ new.hit = h /\ new.delay = 0 /\ new.used = task[t].used
    <3>1. 0 \in Nat
        OBVIOUS
    <3> QED
        BY <1>2, <2>2, <3>1, Zenon DEF TaskType
  <2> HIDE DEF new, h
  <2>5. /\ task' \in [Objects -> TaskType] /\ task'[t] = new
        /\ \A q \in Objects : q # t => task'[q] = task[q]
      BY <1>1, <1>2, <2>3, <2>4, Zenon
  <2>6. Within(t)'
    <3>1. Span(t)' = p + 0 /\ Period(t)' = p /\ task'[t].hit = h
        BY <2>4, <2>5, Zenon DEF Span, Period
    <3> QED
        BY <1>1, <2>1, <2>2, <3>1, Zenon DEF Within
  <2>7. ASSUME NEW q \in Objects, task'[q].used PROVE Within(q)'
    <3>1. CASE q = t
        BY <2>6, <3>1, Zenon
    <3>2. CASE q # t
        BY <1>1, <1>2, <2>5, <2>7, <3>2, WithinKept, Zenon
    <3> QED
        BY <3>1, <3>2
  <2>8. timerQueue' \in SUBSET Objects /\ \A q \in timerQueue' : task'[q].used
      BY <1>1, <2>3, <2>4, <2>5, Zenon DEF TimerInv
  <2>9. \A q \in arming' : q \in Objects /\ ~ task'[q].used
      BY <1>1, <1>2, <2>5, Zenon
  <2> QED
      BY <1>1, <1>2, <2>5, <2>7, <2>8, <2>9, Zenon DEF TimerInv
<1> QED
    BY <1>3, <1>4

(* The inductive invariant of the timer: the hit time of a scheduled task  *)
(* is never further ahead than the span of the task and than half the wrap *)
(* around, so that an unsigned difference tells which side of now it is.   *)
THEOREM TimerInvariant == TimerSpec => []TimerInv
<1>1. TimerInit => TimerInv
  <2> SUFFICES ASSUME TimerInit PROVE TimerInv
      OBVIOUS
  <2>1. now \in 0 .. MaxTime /\ timerQueue = {} /\ arming = {} /\ thread = "loop"
      BY TimerAssumption DEF TimerInit
  <2>2. task \in [Objects -> TaskType] /\ \A o \in Objects : task[o].used = FALSE
      BY DEF TimerInit, TaskType
  <2> QED
      BY <2>1, <2>2, Zenon DEF TimerInv
<1>2. TimerInv /\ [TimerNext]_timerVars => TimerInv'
    BY CallerSteps, InsertStep, LateStep, ThreadSteps, RescheduleStep, Zenon
       DEF TimerNext, TimerThread
<1> QED
    BY <1>1, <1>2, PTL DEF TimerSpec

(* No task is run before its hit time: GetTask and LateTask take a task    *)
(* out of the queue only when its hit time has come, whatever was          *)
(* scheduled, stopped or moved while the thread waited.                    *)
THEOREM TasksNeverEarly == TimerSpec => NeverEarly
<1> DEFINE Taken == \A o \in Objects :
             o \in timerQueue /\ o \notin timerQueue' /\ thread' = "call" => now >= task[o].hit
<1>1. TimerInv /\ [TimerNext]_timerVars => [Taken]_timerVars
  <2> SUFFICES ASSUME TimerInv, TimerNext, NEW o \in Objects,
                      o \in timerQueue, o \notin timerQueue', thread' = "call"
               PROVE  now >= task[o].hit
      BY Zenon
  <2>1. CASE LateTask
    <3>1. o = Top /\ task[Top].hit <= now
        BY <2>1, LateStep, Zenon DEF LateTask
    <3>2. task[o].hit <= now /\ task[o].hit \in Nat /\ now \in Nat
        BY <3>1, SpanType, TimerAssumption DEF TimerInv
    <3> QED
        BY <3>2
  <2>2. CASE GetTask
    <3>1. o = Top /\ task[Top].hit <= now
        BY <2>2, ThreadSteps, Zenon
    <3>2. task[o].hit <= now /\ task[o].hit \in Nat /\ now \in Nat
        BY <3>1, SpanType, TimerAssumption DEF TimerInv
    <3> QED
        BY <3>2
  <2>3. CASE \E q \in Objects : ScheduleCheck(q) \/ ScheduleInsert(q) \/ StopTask(q)
      BY <2>3, Zenon DEF ScheduleCheck, ScheduleInsert, StopTask
  <2>4. CASE Shutdown \/ TimerStop \/ TimerTick
      BY <2>4, Zenon DEF Shutdown, TimerStop, TimerTick
  <2>5. CASE TimerJoin
      BY <2>5 DEF TimerJoin
  <2>6. CASE ThreadEnd \/ NoTask \/ RemoveStopped \/ WaitTimerTask
      BY <2>6 DEF ThreadEnd, NoTask, RemoveStopped, WaitTimerTask, Again
  <2>7. CASE RunTimerTask \/ Reschedule
      BY <2>7 DEF RunTimerTask, Reschedule
  <2> QED
      BY <2>1, <2>2, <2>3, <2>4, <2>5, <2>6, <2>7, Zenon DEF TimerNext, TimerThread
<1> QED
    BY <1>1, TimerInvariant, PTL DEF TimerSpec, NeverEarly

-----------------------------------------------------------------------------
(***************************************************************************)
(* The manager never has two processes of an application that has no pid   *)
(* file, for any number of pids, any limits and any number of crashes.     *)
(***************************************************************************)

ProcStates == {"gone", "alive", "hung", "killed", "zombie"}
AppStates == {"not_running", "running", "dead", "exiting", "force_kill"}
Messages == [pid : Procs, alive : Nat]
ProcTables == [Procs -> [is : ProcStates, child : BOOLEAN, locked : BOOLEAN]]
Apps == [state : AppStates, pid : Procs \cup {NoProc}, alive : Nat, start : Nat, dead : Nat,
         count : Nat]

(* Without a pid file the manager never waits for a pid ("pending"). *)
MonitorTypes ==
    /\ proc \in ProcTables /\ app \in Apps /\ msgs \in Seq(Messages)
    /\ manager \in {"down", "recv", "check", "wait"} /\ crashes \in Nat

(* The process that runs, if there is one, is the one that is monitored. *)
Watched(a, procs) ==
    \A p \in Procs : procs[p].is \in {"alive", "hung", "killed"} => p = a.pid

(* While there is no manager a process that was started runs on, alone;    *)
(* before the first start there is none.                                   *)
Alone ==
    /\ manager # "down" => Watched(app, proc)
    /\ manager = "down" => /\ app.pid = NoProc
                           /\ \A p, q \in Procs : Running(p) /\ Running(q) => p = q
                           /\ crashes = 0 => \A p \in Procs : ~Running(p)

MonitorInv == ~pidFile => MonitorTypes /\ Alone

LEMMA MonitorInitInv == MonitorInit => MonitorInv
    BY MonitorAssumption
       DEF MonitorInit, MonitorInv, MonitorTypes, Alone, Running, NoApp, ProcTables, ProcStates,
           Apps, AppStates

(* The counters are natural numbers, and grow up to their limits. *)
LEMMA OlderType ==
    ASSUME NEW age \in Nat, NEW max \in Nat
    PROVE  Older(age, max) \in Nat
    BY DEF Older

-----------------------------------------------------------------------------
(* _app_stop *)

(* waitpid forgets the process only when it has ended. *)
LEMMA ReapFacts ==
    ASSUME NEW a \in Apps, NEW procs \in ProcTables, a.pid \in Procs, Watched(a, procs),
           NEW r \in Reap(a, procs)
    PROVE  r.app \in Apps /\ r.proc \in ProcTables /\ Watched(r.app, r.proc)
<1>1. CASE r = [app |-> a, proc |-> procs]
    BY <1>1, SMTT(30)
<1>2. CASE r = [app |-> Cleared(a), proc |-> [procs EXCEPT ![a.pid].is = "gone",
                                                           ![a.pid].locked = FALSE]]
  <2>1. r.app = Cleared(a) /\ r.proc = [procs EXCEPT ![a.pid].is = "gone",
                                                     ![a.pid].locked = FALSE]
      BY <1>2
  <2>2. r.app \in Apps
      BY <2>1, MonitorAssumption, Zenon DEF Cleared, Apps, AppStates
  <2> DEFINE ended == [procs EXCEPT ![a.pid].is = "gone"]
  <2>3. /\ ended \in ProcTables /\ ended[a.pid].is = "gone"
        /\ \A p \in Procs : p # a.pid => ended[p] = procs[p]
      BY DEF ProcTables, ProcStates
  <2>4. r.proc = [ended EXCEPT ![a.pid].locked = FALSE]
      BY <2>1
  <2> HIDE DEF ended
  <2>5. [ended[a.pid] EXCEPT !.locked = FALSE] \in [is : ProcStates, child : BOOLEAN, locked : BOOLEAN]
    <3>1. ended[a.pid] \in [is : ProcStates, child : BOOLEAN, locked : BOOLEAN]
        BY <2>3 DEF ProcTables
    <3> QED
        BY <3>1, Zenon
  <2>6. r.proc \in ProcTables
      BY <2>3, <2>4, <2>5 DEF ProcTables
  <2>7. /\ r.proc[a.pid].is = "gone"
        /\ \A p \in Procs : p # a.pid => r.proc[p] = procs[p]
      BY <2>3, <2>4 DEF ProcTables
  <2> QED
      BY <2>2, <2>6, <2>7, Zenon DEF Watched
<1> QED
    BY <1>1, <1>2 DEF Reap

(* A process that is killed is still watched. *)
LEMMA KillFacts ==
    ASSUME proc \in ProcTables, NEW p \in Procs
    PROVE  /\ Kill(p) \in ProcTables
           /\ \A q \in Procs : q # p => Kill(p)[q] = proc[q]
    BY DEF Kill, ProcTables, ProcStates

LEMMA StopFacts ==
    ASSUME MonitorTypes, Watched(app, proc), NEW state \in AppStates,
           NEW r \in StopOutcomes(state)
    PROVE  r.app \in Apps /\ r.proc \in ProcTables /\ Watched(r.app, r.proc)
<1> DEFINE a == [app EXCEPT !.state = state]
<1>0. /\ app \in Apps /\ proc \in ProcTables
      /\ a \in Apps /\ a.pid = app.pid /\ Watched(a, proc)
    BY DEF MonitorTypes, Apps, Watched
<1> HIDE DEF a
<1>1. CASE a.pid = NoProc
    BY <1>0, <1>1 DEF StopOutcomes, a
<1>2. CASE a.pid # NoProc /\ ~Exists(a.pid)
  <2>1. r = [app |-> Cleared(a), proc |-> proc]
      BY <1>2 DEF StopOutcomes, a
  <2>2. Cleared(a) \in Apps
      BY <1>0, MonitorAssumption, Zenon DEF Cleared, Apps, AppStates
  <2>3. \A p \in Procs : proc[p].is \notin {"alive", "hung", "killed"}
      BY <1>0, <1>2 DEF Watched, Exists
  <2> QED
      BY <1>0, <2>1, <2>2, <2>3 DEF Watched
<1>3. CASE a.pid # NoProc /\ Exists(a.pid)
  <2>0. a.pid \in Procs
      BY <1>0, <1>3 DEF Apps
  <2> DEFINE waits == [a EXCEPT !.state = "exiting", !.dead = 0]
             kills == [a EXCEPT !.state = IF state = "exiting" THEN "force_kill" ELSE @]
  <2>1. /\ waits \in Apps /\ waits.pid = a.pid
        /\ kills \in Apps /\ kills.pid = a.pid
      BY <1>0, Zenon DEF Apps, AppStates
  <2>2. Kill(a.pid) \in ProcTables /\ Watched(kills, Kill(a.pid)) /\ Watched(waits, proc)
      BY <1>0, <2>0, <2>1, KillFacts DEF Watched
  <2>3. r \in Reap(waits, proc) \cup Reap(a, proc) \cup Reap(kills, Kill(a.pid))
      BY <1>3, ZenonT(40) DEF StopOutcomes, a
  <2> HIDE DEF waits, kills
  <2> QED
      BY <1>0, <2>0, <2>1, <2>2, <2>3, ReapFacts
<1> QED
    BY <1>1, <1>2, <1>3

-----------------------------------------------------------------------------
(* _app_start *)

(* A process is started only when none is monitored, hence none runs. *)
LEMMA StartFacts ==
    ASSUME MonitorTypes, ~pidFile,
           NEW r, r.app \in Apps, r.proc \in ProcTables, Watched(r.app, r.proc),
           r = [app |-> r.app, proc |-> r.proc],
           NEW q \in StartOutcomes(r)
    PROVE  q.app \in Apps /\ q.proc \in ProcTables /\ Watched(q.app, q.proc)
<1> DEFINE count == IF r.app.start < Interval THEN Older(r.app.count, Burst + 1) ELSE 0
           Fresh(p) ==
               [r.app EXCEPT !.state = IF pidFile THEN "pending" ELSE "running",
                             !.pid = p, !.alive = 0, !.start = 0, !.dead = ForceKill,
                             !.count = count]
           With(p) == [r.proc EXCEPT ![p] = [is |-> "alive", child |-> TRUE, locked |-> FALSE]]
<1>1. count \in Nat /\ ForceKill \in Nat
    BY MonitorAssumption, OlderType DEF Apps
<1>2. CASE r.app.pid # NoProc
    BY <1>2 DEF StartOutcomes
<1>3. CASE r.app.pid = NoProc /\ q = [r EXCEPT !.app.count = count]
  <2> HIDE DEF count
  <2>1. q = [app |-> [r.app EXCEPT !.count = count], proc |-> r.proc]
      BY <1>3
  <2>2. [r.app EXCEPT !.count = count] \in Apps /\ [r.app EXCEPT !.count = count].pid = r.app.pid
      BY <1>1 DEF Apps
  <2> QED
      BY <2>1, <2>2, Zenon DEF Watched
<1>4. ASSUME r.app.pid = NoProc,
             NEW p \in Procs, q = [app |-> Fresh(p), proc |-> With(p)]
      PROVE  q.app \in Apps /\ q.proc \in ProcTables /\ Watched(q.app, q.proc)
  <2> HIDE DEF count
  <2>1. Fresh(p) \in Apps /\ Fresh(p).pid = p
      BY <1>1, Zenon DEF Apps, AppStates
  <2>2. /\ With(p) \in ProcTables
        /\ \A o \in Procs : o # p => With(p)[o] = r.proc[o]
      BY DEF ProcTables, ProcStates
  <2>3. \A o \in Procs : r.proc[o].is \notin {"alive", "hung", "killed"}
      BY <1>4, MonitorAssumption DEF Watched
  <2> HIDE DEF Fresh, With
  <2> QED
      BY <1>4, <2>1, <2>2, <2>3 DEF Watched
<1>5. q = r \/ q = [r EXCEPT !.app.count = count]
            \/ \E p \in Procs : q = [app |-> Fresh(p), proc |-> With(p)]
    BY Zenon DEF StartOutcomes
<1> QED
    BY <1>2, <1>3, <1>4, <1>5, Zenon

-----------------------------------------------------------------------------
(* The steps. *)

(* What a process does by itself never makes a second one run. *)
LEMMA ProcessStep ==
    ASSUME MonitorTypes, Alone, ~pidFile, NEW p \in Procs,
           Exit(p) \/ Hang(p) \/ WritePidFile(p) \/ Heartbeat(p)
    PROVE  MonitorTypes' /\ Alone'
<1>1. ASSUME NEW s \in [is : ProcStates, child : BOOLEAN, locked : BOOLEAN],
             proc' = [proc EXCEPT ![p] = s], Running(p),
             UNCHANGED <<msgs, manager, crashes, app>>
      PROVE  MonitorTypes' /\ Alone'
  <2>1. proc' \in ProcTables /\ \A q \in Procs : Running(q)' => Running(q)
      BY <1>1 DEF MonitorTypes, ProcTables, Running
  <2> QED
      BY <1>1, <2>1 DEF MonitorTypes, Alone, Watched, Running
<1>2. proc[p] \in [is : ProcStates, child : BOOLEAN, locked : BOOLEAN]
    BY DEF MonitorTypes, ProcTables
<1>3. CASE Exit(p)
  <2>1. ProcEnd(p) \in [is : ProcStates, child : BOOLEAN, locked : BOOLEAN]
      BY <1>2, Zenon DEF ProcEnd, ProcStates
  <2> QED
      BY <1>1, <1>3, <2>1, Zenon DEF Exit
<1>4. CASE Hang(p)
  <2>1. [proc[p] EXCEPT !.is = "hung"] \in [is : ProcStates, child : BOOLEAN, locked : BOOLEAN]
      BY <1>2, Zenon DEF ProcStates
  <2>2. proc' = [proc EXCEPT ![p] = [proc[p] EXCEPT !.is = "hung"]] /\ Running(p)
      BY <1>4, SMTT(30) DEF Hang, Running
  <2> QED
      BY <1>1, <1>4, <2>1, <2>2, Zenon DEF Hang
<1>5. CASE Heartbeat(p)
  <2>1. msgs' \in Seq(Messages)
    <3>1. [pid |-> p, alive |-> 0] \in Messages
        BY DEF Messages
    <3>2. msgs \in Seq(Messages) /\ msgs' = Append(msgs, [pid |-> p, alive |-> 0])
        BY <1>5, Zenon DEF Heartbeat, MonitorTypes
    <3> HIDE DEF Messages
    <3> QED
        BY <3>1, <3>2
  <2> QED
      BY <1>5, <2>1, ZenonT(40) DEF Heartbeat, MonitorTypes, Alone, Watched, Running
<1> QED
    BY <1>3, <1>4, <1>5, SMTT(30) DEF WritePidFile

LEMMA TickStep ==
    ASSUME MonitorTypes, Alone, MonitorTick
    PROVE  MonitorTypes' /\ Alone'
<1>1. app' \in Apps /\ app'.pid = app.pid
  <2>1. /\ Older(app.alive, Timeout) \in Nat /\ Older(app.start, Interval) \in Nat
        /\ Older(app.dead, ForceKill) \in Nat
      BY OlderType, MonitorAssumption DEF MonitorTypes, Apps
  <2> QED
      BY <2>1, Zenon DEF MonitorTick, MonitorTypes, Apps
<1>2. msgs' \in Seq(Messages)
  <2>1. ASSUME NEW i \in 1..Len(msgs)
        PROVE  [msgs[i] EXCEPT !.alive = Older(@, Timeout)] \in Messages
    <3>1. msgs[i] \in Messages
        BY DEF MonitorTypes
    <3>2. Older(msgs[i].alive, Timeout) \in Nat
        BY <3>1, OlderType, MonitorAssumption, Zenon DEF Messages
    <3> QED
        BY <3>1, <3>2, Zenon DEF Messages
  <2>2. Len(msgs) \in Nat
      BY DEF MonitorTypes
  <2> QED
      BY <2>1, <2>2 DEF MonitorTick
<1> QED
    BY <1>1, <1>2 DEF MonitorTick, MonitorTypes, Alone, Watched, Running

(* A message names a process that exists or existed; without a pid file    *)
(* the process it names, when it is not the monitored one, does not run.   *)
LEMMA HeartbeatStep ==
    ASSUME MonitorTypes, Alone, ~pidFile, HeartbeatProcess
    PROVE  MonitorTypes' /\ Alone'
<1> DEFINE msg == Head(msgs)
           fresh == IF msg.alive <= app.alive THEN msg.alive ELSE app.alive
<1>1. msg \in Messages /\ msgs' \in Seq(Messages)
    BY SMTT(30) DEF HeartbeatProcess, MonitorTypes
<1>2. msg.pid \in Procs /\ fresh \in Nat /\ msg.pid # NoProc
    BY <1>1, MonitorAssumption, Zenon DEF Messages, MonitorTypes, Apps
<1>3. app.state # "pending" /\ manager = "recv" /\ Watched(app, proc)
    BY DEF HeartbeatProcess, MonitorTypes, Apps, AppStates, Alone
<1> HIDE DEF fresh, msg
<1>4. CASE /\ app.pid = msg.pid \/ (Exists(msg.pid) /\ ~Exists(app.pid))
           /\ app' = [app EXCEPT !.pid = msg.pid, !.alive = fresh]
           /\ UNCHANGED proc
  <2>1. app' \in Apps /\ app'.pid = msg.pid
      BY <1>2, <1>4, Zenon DEF MonitorTypes, Apps
  <2>2. Watched(app', proc)
      BY <1>3, <1>4, <2>1, MonitorAssumption DEF Watched, Exists
  <2> QED
      BY <1>1, <1>3, <1>4, <2>1, <2>2 DEF HeartbeatProcess, MonitorTypes, Alone
<1>5. CASE /\ app.pid # msg.pid
           /\ proc' = [proc EXCEPT ![msg.pid].is = IF @ = "zombie" THEN @ ELSE "killed"]
           /\ Exists(msg.pid) /\ UNCHANGED app
  <2>1. proc[msg.pid].is = "zombie"
      BY <1>2, <1>3, <1>5 DEF Watched, Exists, MonitorTypes, ProcTables, ProcStates
  <2>2. proc' = proc
      BY <1>2, <1>5, <2>1 DEF MonitorTypes, ProcTables
  <2> QED
      BY <1>1, <1>3, <1>5, <2>2, Zenon DEF HeartbeatProcess, MonitorTypes, Alone
<1>6. CASE UNCHANGED <<app, proc>>
    BY <1>1, <1>3, <1>6 DEF HeartbeatProcess, MonitorTypes, Alone
<1> QED
    BY <1>3, <1>4, <1>5, <1>6 DEF HeartbeatProcess, msg, fresh

(* _app_state_check does not find an application that waits for a pid. *)
LEMMA StateCheckFacts ==
    ASSUME MonitorTypes
    PROVE  StateCheck \in AppStates \cup {"ok"}
    BY SMTT(30) DEF StateCheck, MonitorTypes, Apps, AppStates

LEMMA TimeoutStep ==
    ASSUME MonitorTypes, Alone, ~pidFile, TimeoutCheck
    PROVE  MonitorTypes' /\ Alone'
<1>1. manager = "check" /\ Watched(app, proc) /\ app.state # "pending"
    BY DEF TimeoutCheck, MonitorTypes, Apps, AppStates, Alone
<1>2. app' \in Apps /\ proc' \in ProcTables /\ Watched(app', proc')
  <2>1. CASE StateCheck = "ok"
      BY <1>1, <2>1 DEF TimeoutCheck, MonitorTypes
  <2>2. CASE StateCheck # "ok"
    <3>1. PICK r \in StopOutcomes(StateCheck) : \E q \in StartOutcomes(r) :
                   app' = q.app /\ proc' = q.proc
        BY <1>1, <2>2, Zenon DEF TimeoutCheck
    <3>2. r.app \in Apps /\ r.proc \in ProcTables /\ Watched(r.app, r.proc)
        BY <1>1, <2>2, StateCheckFacts, StopFacts
    <3>3. r = [app |-> r.app, proc |-> r.proc]
        BY DEF StopOutcomes, Reap
    <3> QED
        BY <3>1, <3>2, <3>3, StartFacts
  <2> QED
      BY <2>1, <2>2
<1> QED
    BY <1>1, <1>2, SMTT(30) DEF TimeoutCheck, MonitorTypes, Alone

(* Reaping, a crash and a restart start no process: after a crash the one  *)
(* that runs is not monitored, until the manager finds it again.           *)
LEMMA LifeStep ==
    ASSUME MonitorTypes, Alone, ~pidFile,
           RecvEnd \/ WaitChild \/ ManagerCrash \/ ManagerStart
    PROVE  MonitorTypes' /\ Alone'
<1>0. \A p \in Procs : proc[p] \in [is : ProcStates, child : BOOLEAN, locked : BOOLEAN]
    BY DEF MonitorTypes, ProcTables
<1>1. CASE RecvEnd
    BY <1>1 DEF RecvEnd, MonitorTypes, Alone, Watched, Running
<1>2. CASE WaitChild
  <2>1. \A p \in Procs :
          /\ proc'[p] \in [is : ProcStates, child : BOOLEAN, locked : BOOLEAN]
          /\ proc'[p].is \in {"alive", "hung", "killed"} => proc'[p] = proc[p]
      BY <1>0, <1>2, Zenon DEF WaitChild, ProcStates
  <2>2. proc' \in ProcTables
      BY <1>2, <2>1 DEF WaitChild, ProcTables
  <2> QED
      BY <1>2, <2>1, <2>2 DEF WaitChild, MonitorTypes, Alone, Watched
<1>3. CASE ManagerCrash
  <2>1. \A p \in Procs :
          /\ proc'[p] \in [is : ProcStates, child : BOOLEAN, locked : BOOLEAN]
          /\ proc'[p].is \in {"alive", "hung", "killed"} => proc'[p].is = proc[p].is
      BY <1>0, <1>3, Zenon DEF ManagerCrash, ProcStates
  <2>2. proc' \in ProcTables
      BY <1>3, <2>1, Zenon DEF ManagerCrash, ProcTables
  <2>3. app' \in Apps /\ app'.pid = NoProc
      BY <1>3, MonitorAssumption, Zenon DEF ManagerCrash, NoApp, Apps, AppStates
  <2>4. \A p, q \in Procs : Running(p)' /\ Running(q)' => p = q
      BY <1>3, <2>1, Zenon DEF ManagerCrash, Alone, Watched, Running
  <2>5. crashes' = crashes + 1 /\ crashes \in Nat /\ manager' = "down" /\ msgs' = msgs
      BY <1>3, Zenon DEF ManagerCrash, MonitorTypes
  <2>6. crashes' \in Nat /\ crashes' # 0
      BY <2>5
  <2>7. MonitorTypes'
      BY <2>2, <2>3, <2>5, <2>6, Zenon DEF MonitorTypes
  <2>8. Alone'
      BY <2>3, <2>4, <2>5, <2>6, Zenon DEF Alone
  <2> QED
      BY <2>7, <2>8
<1>4. CASE ManagerStart
  <2>1. app' \in Apps /\ Watched(app', proc)
    <3>1. CASE UNCHANGED app /\ \A p \in Procs : ~Running(p)
        BY <3>1 DEF MonitorTypes, Watched, Running
    <3>2. ASSUME NEW p \in Procs, Running(p), app' = [app EXCEPT !.state = "running", !.pid = p]
          PROVE  app' \in Apps /\ Watched(app', proc)
      <4>1. app' \in Apps /\ app'.pid = p
          BY <3>2, Zenon DEF MonitorTypes, Apps, AppStates
      <4>2. \A q \in Procs : Running(q) => q = p
          BY <1>4, <3>2, Zenon DEF ManagerStart, Alone
      <4> QED
          BY <4>1, <4>2 DEF Watched, Running
    <3> QED
        BY <1>4, <3>1, <3>2, Zenon DEF ManagerStart, Alone
  <2> QED
      BY <1>4, <2>1, Zenon DEF ManagerStart, MonitorTypes, Alone
<1> QED
    BY <1>1, <1>2, <1>3, <1>4

LEMMA MonitorNextInv ==
    ASSUME MonitorInv, [MonitorNext]_monitorVars
    PROVE  MonitorInv'
<1>1. pidFile' = pidFile
    BY Zenon DEF MonitorNext, monitorVars, ManagerStep, Exit, Hang, WritePidFile, Heartbeat,
           MonitorTick, HeartbeatProcess, RecvEnd, TimeoutCheck, WaitChild, ManagerStart,
           ManagerCrash
<1> SUFFICES ASSUME ~pidFile PROVE MonitorTypes' /\ Alone'
    BY <1>1 DEF MonitorInv
<1>2. MonitorTypes /\ Alone
    BY DEF MonitorInv
<1>3. CASE UNCHANGED monitorVars
    BY <1>2, <1>3 DEF monitorVars, MonitorTypes, Alone, Watched, Running
<1>4. CASE \E p \in Procs : Exit(p) \/ Hang(p) \/ WritePidFile(p) \/ Heartbeat(p)
    BY <1>2, <1>4, ProcessStep, Zenon
<1>5. CASE MonitorTick \/ HeartbeatProcess \/ TimeoutCheck
    BY <1>2, <1>5, TickStep, HeartbeatStep, TimeoutStep, Zenon
<1>6. CASE RecvEnd \/ WaitChild \/ ManagerStart \/ ManagerCrash
    BY <1>2, <1>6, LifeStep, Zenon
<1> QED
    BY <1>3, <1>4, <1>5, <1>6, Zenon DEF MonitorNext, ManagerStep

(* _app_start and its callers: an application that has no pid file never   *)
(* has two processes, whatever the manager, the processes and the messages *)
(* between them do, and however often the manager crashes.                 *)
THEOREM NeverTwoInstances == MonitorSpec => []OneInstance
<1>1. MonitorInv => OneInstance
  <2> SUFFICES ASSUME MonitorInv, ~pidFile
               PROVE  Cardinality({p \in Procs : Running(p)}) <= 1
      BY DEF OneInstance
  <2>1. \A p, q \in Procs : Running(p) /\ Running(q) => p = q
      BY DEF MonitorInv, MonitorTypes, Alone, Watched, Running
  <2>2. CASE \A p \in Procs : ~Running(p)
    <3>1. {p \in Procs : Running(p)} = {}
        BY <2>2
    <3> QED
        BY <3>1, FS_EmptySet
  <2>3. ASSUME NEW p \in Procs, Running(p)
        PROVE  Cardinality({q \in Procs : Running(q)}) <= 1
    <3>1. {q \in Procs : Running(q)} = {p}
        BY <2>1, <2>3
    <3>2. Cardinality({p}) = 1
        BY FS_Singleton
    <3> QED
        BY <3>1, <3>2
  <2> QED
      BY <2>2, <2>3
<1> QED
    BY <1>1, MonitorInitInv, MonitorNextInv, PTL DEF MonitorSpec
=============================================================================
