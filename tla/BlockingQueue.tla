---------------------------- MODULE BlockingQueue ----------------------------
(***************************************************************************)
(* BlockingQueue<T> and PriorityBlockingQueue<T> of                        *)
(* src/libmodelbox/base/include/modelbox/base/blocking_queue.h: the queue  *)
(* of every port, of the thread pool and of the session outputs.           *)
(*                                                                         *)
(* Every operation runs under mutex_, so a call is one atomic step unless  *)
(* Wait() blocks on a condition variable.  A blocked call is resumed by a  *)
(* later step: after a notification (phase "notified"), or when its        *)
(* timeout expires.  waiter_number_ is the number of calls inside Wait().  *)
(* The clock is abstracted: a call with a positive timeout may time out at *)
(* any moment.  Spurious wakeups of the condition variables only re-check  *)
(* the predicate and are left out.                                         *)
(***************************************************************************)
EXTENDS Integers, Sequences, FiniteSets

CONSTANTS
    Threads,      \* the threads that use the queue
    Priority,     \* Priority[t]: the priority of the elements t pushes
    IsPriority,   \* TRUE: PriorityBlockingQueue, FALSE: BlockingQueue (FIFO)
    Menu,         \* Menu[t]: the calls thread t makes
    InitCapacity, \* the capacity the queue is constructed with
    MaxSend       \* bound: elements one thread pushes

Timeouts == {"never", "forever", "some"}   \* timeout < 0, = 0, > 0
PushOps == {"Push", "PushSeq", "PushBatch", "PushBatchForce", "PushForce"}
PopOps == {"Pop", "PopSeq", "PopBatch", "Front"}
ControlOps == {"Clear", "Close", "Shutdown", "Wakeup", "SetCapacity"}

(* num: the elements of a push, the maximum of a pop, or the new capacity;
   wait: the wait_when_full of PushBatchForce *)
Call == [op : PushOps \cup PopOps \cup ControlOps, num : Nat \ {0},
         timeout : Timeouts, wait : BOOLEAN]

NoCall == [op |-> "none", num |-> 0, timeout |-> "never", wait |-> FALSE]

ASSUME ThreadsAssumption == IsFiniteSet(Threads)
ASSUME PriorityAssumption == Priority \in [Threads -> Nat]
ASSUME KindAssumption ==
    IsPriority \in BOOLEAN /\ (~IsPriority => \A t, u \in Threads : Priority[t] = Priority[u])
ASSUME MenuAssumption == Menu \in [Threads -> SUBSET Call]
ASSUME CapacityAssumption == InitCapacity \in Nat \ {0} /\ MaxSend \in Nat

VARIABLES
    queue,        \* queue_, in the order in which pop() returns the elements
    capacity,     \* capacity_
    shutdown,     \* shutdown_
    need_wakeup,  \* need_wakeup_
    call,         \* call[t]: the blocked call of t, or NoCall
    phase,        \* phase[t]: where it is
    sent,         \* sent[t]: number of elements t has put into the queue
    taken         \* taken[t]: number of the elements of t that left the queue

vars == <<queue, capacity, shutdown, need_wakeup, call, phase, sent, taken>>

Elem == [src : Threads, num : Nat, prio : Nat]
Phases == {"idle", "wait", "notified", "unlocked"}

-----------------------------------------------------------------------------
(* Wait queues. *)

(* The condition variable a blocked call waits on. *)
CondVar(c) == IF c.op \in PushOps THEN "not_full" ELSE "not_empty"

Waiting(cv) == {t \in Threads : phase[t] = "wait" /\ CondVar(call[t]) = cv}
Notified(cv) == {t \in Threads : phase[t] = "notified" /\ CondVar(call[t]) = cv}

(* waiter_number_ *)
Waiters == {t \in Threads : phase[t] \in {"wait", "notified"}}

(* Mutant of HasRoom: >= where > is meant. *)
HasRoom_OffByOne(n) == capacity + 1 >= n + Len(queue)

(* capacity_ >= n + queue_.size() *)
HasRoom(n) == capacity >= n + Len(queue)

(* The wait_check predicates: when a blocked call may go on. *)
Ready(c) ==
    CASE c.op = "Push" -> shutdown \/ HasRoom(1)
      [] c.op = "PushSeq" -> shutdown \/ Len(queue) = 0 \/ HasRoom(1)
      [] c.op = "PushBatch" -> shutdown \/ Len(queue) = 0 \/ HasRoom(c.num)
      [] c.op = "PushBatchForce" -> ~c.wait \/ HasRoom(1) \/ shutdown \/ Len(queue) = 0
      [] OTHER -> shutdown \/ Len(queue) > 0

-----------------------------------------------------------------------------
(* The elements. *)

Minimum(a, b) == IF a < b THEN a ELSE b

(* The next n elements of t. *)
Fresh(t, n) == [i \in 1..n |-> [src |-> t, num |-> sent[t] + i, prio |-> Priority[t]]]

(* Mutant of Rank: the counter of StableElement compared the wrong way. *)
Rank_Unstable(p) == Cardinality({i \in DOMAIN queue : queue[i].prio > p})

(* The heap of StableElement orders by priority first and by the insertion
   counter among equal priorities. *)
Rank(p) == Cardinality({i \in DOMAIN queue : queue[i].prio >= p})

(* queue_ after n calls of emplace() by t. *)
Emplace(t, n) ==
    LET r == Rank(Priority[t])
    IN  SubSeq(queue, 1, r) \o Fresh(t, n) \o SubSeq(queue, r + 1, Len(queue))

(* The elements of the priority of the front element; all of them in a FIFO. *)
SamePriority == Cardinality({i \in DOMAIN queue : queue[i].prio = queue[1].prio})

(* How many elements a pop takes from a queue that is not empty. *)
PopCount(c) ==
    CASE c.op = "Pop" -> 1
      [] c.op = "PopSeq" -> Minimum(c.num, Len(queue))
      [] c.op = "PopBatch" -> Minimum(c.num, SamePriority)
      [] OTHER -> 0

(* The n front elements leave the queue. *)
Remove(n) ==
    /\ queue' = SubSeq(queue, n + 1, Len(queue))
    /\ taken' = [u \in Threads |->
                   taken[u] + Cardinality({i \in 1..n : queue[i].src = u})]

-----------------------------------------------------------------------------
(* Returning from a call. *)

(* The call of t goes to phase ph, the threads of S are notified. *)
Wake(t, ph, S) ==
    phase' = [u \in Threads |-> IF u = t THEN ph
                                ELSE IF u \in S THEN "notified" ELSE phase[u]]

NotifyNone(t, ph) == Wake(t, ph, {})
NotifyOne(t, ph, cv) ==
    \/ Waiting(cv) \ {t} = {} /\ Wake(t, ph, {})
    \/ \E w \in Waiting(cv) \ {t} : Wake(t, ph, {w})

(* Mutant of NotifyAll: notify_one(). *)
NotifyAll_One(t, ph, cv) == NotifyOne(t, ph, cv)

NotifyAll(t, ph, cv) == Wake(t, ph, Waiting(cv) \ {t})

(* The notification with which a call that moved n elements returns.  The
   PopBatch of a PriorityBlockingQueue notifies after it released the mutex. *)
Return(t, c, n) ==
    /\ call' = [call EXCEPT ![t] = NoCall]
    /\ CASE c.op = "Push" -> IF n > 0 THEN NotifyOne(t, "idle", "not_empty")
                                      ELSE NotifyNone(t, "idle")
         [] c.op = "PushSeq" -> IF n > 0 THEN NotifyAll(t, "idle", "not_empty")
                                         ELSE NotifyNone(t, "idle")
         [] c.op \in {"PushBatch", "PushBatchForce"} -> NotifyAll(t, "idle", "not_empty")
         [] c.op = "PushForce" -> NotifyOne(t, "idle", "not_empty")
         [] c.op = "Pop" -> IF n > 0 THEN NotifyOne(t, "idle", "not_full")
                                     ELSE NotifyNone(t, "idle")
         [] c.op = "PopSeq" -> NotifyAll(t, "idle", "not_full")
         [] c.op = "PopBatch" -> IF IsPriority THEN NotifyNone(t, "unlocked")
                                               ELSE NotifyAll(t, "idle", "not_full")
         [] OTHER -> NotifyNone(t, "idle")

Fail(t, c) == Return(t, c, 0) /\ UNCHANGED <<queue, sent, taken>>

Put(t, c, n) ==
    /\ queue' = Emplace(t, n)
    /\ sent' = [sent EXCEPT ![t] = @ + n]
    /\ UNCHANGED taken
    /\ Return(t, c, n)

Take(t, c, n) == Remove(n) /\ UNCHANGED sent /\ Return(t, c, n)

(* What a call does once Wait() returned true. *)
Succeed(t, c) ==
    CASE c.op = "Push" -> IF shutdown THEN Fail(t, c) ELSE Put(t, c, 1)
      [] c.op \in {"PushSeq", "PushBatch"} ->
           IF shutdown THEN Fail(t, c)
                       ELSE Put(t, c, Minimum(c.num, capacity - Len(queue)))
      [] c.op = "PushBatchForce" -> Put(t, c, c.num)
      [] OTHER -> IF queue = <<>> THEN Fail(t, c) ELSE Take(t, c, PopCount(c))

(* Mutant of Leave: the first call that Wakeup() interrupts clears need_wakeup_. *)
Leave_ClearsEarly(t, c, ok) ==
    /\ need_wakeup' = FALSE
    /\ IF ok /\ ~need_wakeup THEN Succeed(t, c) ELSE Fail(t, c)
    /\ UNCHANGED <<capacity, shutdown>>

(* The end of Wait(): a pending Wakeup() turns the call into a failure, and the
   last waiter clears it. *)
Leave(t, c, ok) ==
    /\ need_wakeup' = (need_wakeup /\ Waiters \ {t} # {})
    /\ IF ok /\ ~need_wakeup THEN Succeed(t, c) ELSE Fail(t, c)
    /\ UNCHANGED <<capacity, shutdown>>

(* Wait() of a new call. *)
Enter(t, c) ==
    \/ (need_wakeup \/ Ready(c) \/ c.timeout = "never")
       /\ Leave(t, c, Ready(c))
    \/ /\ ~(need_wakeup \/ Ready(c)) /\ c.timeout # "never"
       /\ phase' = [phase EXCEPT ![t] = "wait"]
       /\ call' = [call EXCEPT ![t] = c]
       /\ UNCHANGED <<queue, capacity, shutdown, need_wakeup, sent, taken>>

-----------------------------------------------------------------------------
(* The operations. *)

Calls(t, c) == phase[t] = "idle" /\ c \in Menu[t]
MaySend(t, c) == sent[t] + c.num <= MaxSend

(* bool Push(elem, timeout) *)
Push(t, c) ==
    /\ Calls(t, c) /\ c.op = "Push" /\ c.num = 1 /\ MaySend(t, c)
    /\ \/ /\ shutdown
          /\ Fail(t, c)
          /\ UNCHANGED <<capacity, shutdown, need_wakeup>>
       \/ ~shutdown /\ Enter(t, c)

(* Push of a Sequence, PushBatch, PushBatchForce *)
PushMany(t, c) ==
    /\ Calls(t, c) /\ c.op \in {"PushSeq", "PushBatch", "PushBatchForce"} /\ MaySend(t, c)
    /\ Enter(t, c)

(* PushForce *)
PushForce(t, c) ==
    /\ Calls(t, c) /\ c.op = "PushForce" /\ c.num = 1 /\ MaySend(t, c)
    /\ IF shutdown THEN Fail(t, c) ELSE Put(t, c, 1)
    /\ UNCHANGED <<capacity, shutdown, need_wakeup>>

(* Pop of an element, Pop of a Sequence, Front, and the PopBatch of the priority queue:
   WaitQueue first. *)
Pop(t, c) ==
    /\ Calls(t, c) /\ c.op \in PopOps
    /\ c.op = "PopBatch" => IsPriority
    /\ c.op = "Front" => c.timeout = "never"
    /\ \/ /\ shutdown /\ queue = <<>>
          /\ Fail(t, c)
          /\ UNCHANGED <<capacity, shutdown, need_wakeup>>
       \/ ~(shutdown /\ queue = <<>>) /\ Enter(t, c)

(* The PopBatch of the FIFO queue looks at the size before it waits. *)
PopBatchFifo(t, c) ==
    /\ Calls(t, c) /\ c.op = "PopBatch" /\ ~IsPriority
    /\ \/ queue = <<>> /\ Fail(t, c) /\ UNCHANGED <<capacity, shutdown, need_wakeup>>
       \/ queue # <<>> /\ Enter(t, c)

(* Mutant of NotifyUnlocked: notify_one(). *)
NotifyUnlocked_One(t) ==
    /\ phase[t] = "unlocked"
    /\ NotifyOne(t, "idle", "not_full")
    /\ UNCHANGED <<queue, capacity, shutdown, need_wakeup, call, sent, taken>>

(* The priority PopBatch notifies without holding the mutex. *)
NotifyUnlocked(t) ==
    /\ phase[t] = "unlocked"
    /\ NotifyAll(t, "idle", "not_full")
    /\ UNCHANGED <<queue, capacity, shutdown, need_wakeup, call, sent, taken>>

(* A notified call re-checks its predicate: it goes on or waits again. *)
Resume(t) ==
    /\ phase[t] = "notified"
    /\ \/ (need_wakeup \/ Ready(call[t])) /\ Leave(t, call[t], TRUE)
       \/ /\ ~(need_wakeup \/ Ready(call[t]))
          /\ phase' = [phase EXCEPT ![t] = "wait"]
          /\ UNCHANGED <<queue, capacity, shutdown, need_wakeup, call, sent, taken>>

(* wait_for() times out and re-checks the predicate a last time. *)
TimeOut(t) ==
    /\ phase[t] \in {"wait", "notified"} /\ call[t].timeout = "some"
    /\ Leave(t, call[t], Ready(call[t]))

(* Mutant of NotifyEverybody: not_empty_ is forgotten. *)
NotifyEverybody_Pushers ==
    phase' = [u \in Threads |-> IF u \in Waiting("not_full") THEN "notified" ELSE phase[u]]

NotifyEverybody ==
    phase' = [u \in Threads |-> IF phase[u] = "wait" THEN "notified" ELSE phase[u]]

Drop == queue' = <<>> /\ taken' = sent

Clear(t, c) ==
    /\ Calls(t, c) /\ c.op = "Clear"
    /\ Drop
    /\ UNCHANGED <<capacity, shutdown, need_wakeup, call, phase, sent>>

Close(t, c) ==
    /\ Calls(t, c) /\ c.op = "Close"
    /\ Drop
    /\ shutdown' = TRUE
    /\ NotifyEverybody
    /\ UNCHANGED <<capacity, need_wakeup, call, sent>>

Shutdown(t, c) ==
    /\ Calls(t, c) /\ c.op = "Shutdown"
    /\ shutdown' = TRUE
    /\ NotifyEverybody
    /\ UNCHANGED <<queue, capacity, need_wakeup, call, sent, taken>>

Wakeup(t, c) ==
    /\ Calls(t, c) /\ c.op = "Wakeup"
    /\ need_wakeup' = TRUE
    /\ NotifyEverybody
    /\ UNCHANGED <<queue, capacity, shutdown, call, sent, taken>>

SetCapacity(t, c) ==
    /\ Calls(t, c) /\ c.op = "SetCapacity"
    /\ capacity' = c.num
    /\ UNCHANGED <<queue, shutdown, need_wakeup, call, phase, sent, taken>>

Init ==
    /\ queue = <<>> /\ capacity = InitCapacity
    /\ shutdown = FALSE /\ need_wakeup = FALSE
    /\ call = [t \in Threads |-> NoCall]
    /\ phase = [t \in Threads |-> "idle"]
    /\ sent = [t \in Threads |-> 0] /\ taken = [t \in Threads |-> 0]

Next ==
    \E t \in Threads :
        \/ \E c \in Menu[t] :
              \/ Push(t, c) \/ PushMany(t, c) \/ PushForce(t, c)
              \/ Pop(t, c) \/ PopBatchFifo(t, c)
              \/ Clear(t, c) \/ Close(t, c) \/ Shutdown(t, c)
              \/ Wakeup(t, c) \/ SetCapacity(t, c)
        \/ NotifyUnlocked(t) \/ Resume(t) \/ TimeOut(t)

(* A notified thread gets the mutex and a thread about to notify goes on. *)
Fairness == \A t \in Threads : WF_vars(NotifyUnlocked(t)) /\ WF_vars(Resume(t))

Spec == Init /\ [][Next]_vars
FairSpec == Spec /\ Fairness

-----------------------------------------------------------------------------
(* Properties. *)

(* The fields hold values of their types; a blocked call is one that can block. *)
TypeOK ==
    /\ queue \in Seq(Elem)
    /\ capacity \in Nat \ {0}
    /\ shutdown \in BOOLEAN /\ need_wakeup \in BOOLEAN
    /\ call \in [Threads -> Call \cup {NoCall}]
    /\ phase \in [Threads -> Phases]
    /\ sent \in [Threads -> Nat] /\ taken \in [Threads -> Nat]
    /\ \A t \in Waiters :
          /\ call[t] \in Menu[t] /\ call[t].timeout # "never"
          /\ call[t].op \in (PushOps \cup PopOps) \ {"PushForce", "Front"}
          /\ call[t].op = "PushBatchForce" => call[t].wait

(* Whatever the interleaving of blocking, forced, batched and failing pushes and
   pops, the queue holds of every pusher exactly the elements that it pushed and
   that were not popped or cleared, each once and in the order of the pushes. *)
NothingLostOrDuplicated ==
    \A t \in Threads :
        LET mine == {i \in DOMAIN queue : queue[i].src = t}
        IN  /\ {queue[i].num : i \in mine} = taken[t] + 1 .. sent[t]
            /\ \A i, j \in mine : i < j => queue[i].num < queue[j].num
            /\ \A i \in mine : queue[i].prio = Priority[t]

(* A pop never sleeps beside data it could take: when the predicate of a thread
   that waits on not_empty_ holds, some thread is on its way out of a wait on
   not_empty_. *)
NoStrandedConsumer ==
    (\E t \in Waiting("not_empty") : Ready(call[t])) => Notified("not_empty") # {}

(* "timeout = 0 if queue is full, blocking until queue is not full": a push does
   not sleep beside room it waits for, unless a notification is on its way. *)
NoStrandedPusher ==
    (\E t \in Waiting("not_full") : Ready(call[t]))
        => \/ Notified("not_full") # {}
           \/ \E u \in Threads : phase[u] = "unlocked"

(* The largest batch the menu pushes past the capacity, once there is room. *)
BatchSizes == {c.num : c \in {d \in UNION {Menu[t] : t \in Threads} : d.op \in PushOps}}

(* Back-pressure: while every forced push waits for room, a queue that is not
   shut down exceeds its capacity by less than one batch. *)
BoundedOvershoot ==
    ~shutdown => Len(queue) = 0 \/ \E n \in BatchSizes : Len(queue) < capacity + n

(* Every blocked call returns once the queue is shut down, and every call that a
   Wakeup finds blocked returns. *)
ShutdownReleases == \A t \in Threads : shutdown /\ phase[t] \in {"wait", "notified"} ~> phase[t] = "idle"
WakeupReleases == \A t \in Threads : need_wakeup /\ phase[t] \in {"wait", "notified"} ~> phase[t] = "idle"

=============================================================================
