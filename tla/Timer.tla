------------------------------- MODULE Timer -------------------------------
(***************************************************************************)
(* Timer and TimerTask of base/timer/timer.cc, with the clock.             *)
(*                                                                         *)
(* Schedule puts an object into the timer queue: the task itself if the    *)
(* timer takes the ownership of it, a new object that refers to the task   *)
(* otherwise.  Every caller in the repository gives a new task away, so    *)
(* that each call of Schedule has an object of its own here.  The thread   *)
(* of the timer holds lock_ but while it waits and while it runs a task.   *)
(* Ticks are unsigned and wrap around at Wrap; that start_tick_ is moved   *)
(* when the queue is empty only moves the origin of the clock.             *)
(***************************************************************************)
EXTENDS Integers, FiniteSets, FiniteSetsExt

CONSTANTS
    Objects,    \* the objects that are scheduled, one for each call
    Periodic,   \* those that are scheduled with period 1, the others with 0
    Delays,     \* the delays that are used
    Stall,      \* 5 in the code: how many spans late is too late
    MaxTime,    \* bound: the last tick
    Wrap        \* 2^64 in the code

ASSUME TimerAssumption ==
    /\ Periodic \subseteq Objects /\ Delays \subseteq Nat
    /\ Stall \in Nat /\ MaxTime \in Nat /\ Wrap \in Nat /\ Wrap > 2 * MaxTime

VARIABLES
    now,        \* GetCurrentTick
    timerQueue, \* timer_queue_
    task,       \* task[o]: hit_time_, delay_, is_running_ and whether it has run
    thread,     \* where the thread of the timer is
    top,        \* the object it deals with
    deadline,   \* until when it waits
    timerRunning, isShutdown, \* timer_running_, is_shutdown_
    arming,     \* the objects whose call of Schedule found the timer running
    stopping    \* Stop(): "no", "join" or "done"

timerVars == <<now, timerQueue, task, thread, top, deadline, timerRunning, isShutdown,
               arming, stopping>>

NoObject == "none"

TimerInit ==
    /\ now = 0 /\ timerQueue = {}
    /\ task = [o \in Objects |-> [hit |-> 0, delay |-> 0, running |-> FALSE, ran |-> FALSE,
                                  used |-> FALSE]]
    /\ thread = "loop" /\ top = NoObject /\ deadline = 0
    /\ timerRunning = TRUE /\ isShutdown = FALSE
    /\ arming = {} /\ stopping = "no"

Period(o) == IF o \in Periodic THEN 1 ELSE 0

(* Mutant of GetTickDiff: ticks that do not wrap around. *)
GetTickDiff_Signed(a, b) == a - b

GetTickDiff(a, b) == (a - b) % Wrap

Span(o) == Period(o) + task[o].delay

(* A hit time that is further away than the span of the task has passed. *)
Ahead(o) == GetTickDiff(task[o].hit, now) <= Span(o)
Due(o) == ~(Ahead(o) /\ GetTickDiff(task[o].hit, now) # 0)

(* TimerCompare *)
Before(o, p) == task[o].hit < task[p].hit
                \/ (task[o].hit = task[p].hit /\ Span(o) < Span(p))

Top == CHOOSE o \in timerQueue : \A p \in timerQueue : ~Before(p, o)

-----------------------------------------------------------------------------
(* The callers. *)

(* Schedule looks at timer_running_ without the lock, ... *)
ScheduleCheck(o) ==
    /\ ~task[o].used /\ o \notin arming /\ timerRunning
    /\ arming' = arming \cup {o}
    /\ UNCHANGED <<now, timerQueue, task, thread, top, deadline, timerRunning, isShutdown,
                   stopping>>

(* ... and inserts the task with it; a thread that has ended is started.   *)
(* A thread that waits looks at the top again.                             *)
ScheduleInsert(o) ==
    /\ o \in arming /\ arming' = arming \ {o}
    /\ \E delay \in Delays :
         /\ now + delay + Period(o) <= MaxTime
         /\ task' = [task EXCEPT ![o] = [hit |-> now + delay + Period(o), delay |-> delay,
                                         running |-> TRUE, ran |-> FALSE, used |-> TRUE]]
    /\ timerQueue' = timerQueue \cup {o}
    /\ thread' = IF thread = "end" THEN "loop" ELSE thread
    /\ UNCHANGED <<now, top, deadline, timerRunning, isShutdown, stopping>>

(* TimerTask::Stop: is_running_ is all that is changed. *)
StopTask(o) ==
    /\ task[o].running
    /\ task' = [task EXCEPT ![o].running = FALSE]
    /\ UNCHANGED <<now, timerQueue, thread, top, deadline, timerRunning, isShutdown, arming,
                   stopping>>

Shutdown ==
    /\ ~isShutdown /\ timerRunning
    /\ isShutdown' = TRUE
    /\ UNCHANGED <<now, timerQueue, task, thread, top, deadline, timerRunning, arming,
                   stopping>>

TimerStop ==
    /\ stopping = "no" /\ timerRunning
    /\ stopping' = "join" /\ timerRunning' = FALSE
    /\ UNCHANGED <<now, timerQueue, task, thread, top, deadline, isShutdown, arming>>

(* Stop joins the thread and stops what is left. *)
TimerJoin ==
    /\ stopping = "join" /\ thread = "end"
    /\ stopping' = "done"
    /\ timerQueue' = {}
    /\ task' = [o \in Objects |-> [task[o] EXCEPT !.running = @ /\ o \notin timerQueue]]
    /\ UNCHANGED <<now, thread, top, deadline, timerRunning, isShutdown, arming>>

TimerTick ==
    /\ now < MaxTime /\ now' = now + 1
    /\ UNCHANGED <<timerQueue, task, thread, top, deadline, timerRunning, isShutdown, arming,
                   stopping>>

-----------------------------------------------------------------------------
(* RunTimer. *)

(* The end of a RunTimer that ran nothing, with the queue q. *)
Again(q) ==
    /\ timerQueue' = q
    /\ timerRunning' = (timerRunning /\ ~(isShutdown /\ q = {}))
    /\ thread' = "loop" /\ top' = NoObject
    /\ UNCHANGED <<now, deadline, isShutdown, arming, stopping>>

ThreadEnd ==
    /\ thread = "loop" /\ ~timerRunning
    /\ thread' = "end"
    /\ UNCHANGED <<now, timerQueue, task, top, deadline, timerRunning, isShutdown, arming,
                   stopping>>

(* GetTimerTask waits for a task, or for the shutdown. *)
NoTask ==
    /\ thread = "loop" /\ timerRunning /\ timerQueue = {} /\ isShutdown
    /\ Again({})
    /\ UNCHANGED task

(* RemoveStoppedTimer: those that are on top. *)
RemoveStopped ==
    /\ thread = "loop" /\ timerRunning /\ timerQueue # {} /\ ~task[Top].running
    /\ Again({o \in timerQueue : \/ task[o].running
                                 \/ \E p \in timerQueue : task[p].running /\ Before(p, o)})
    /\ UNCHANGED task

(* WaitTimerTask: the wait for a top whose time has not passed. *)
WaitTimerTask ==
    /\ thread = "loop" /\ timerRunning /\ timerQueue # {} /\ task[Top].running
    /\ Ahead(Top)
    /\ deadline' = now + GetTickDiff(task[Top].hit, now)
    /\ thread' = "wait" /\ top' = Top
    /\ UNCHANGED <<now, timerQueue, task, timerRunning, isShutdown, arming, stopping>>

(* One that is late is taken at once, and by far, its hit time is moved. *)
LateTask ==
    /\ thread = "loop" /\ timerRunning /\ timerQueue # {} /\ task[Top].running
    /\ ~Ahead(Top)
    /\ task' = IF GetTickDiff(now, task[Top].hit) > Stall * Span(Top) /\ Span(Top) > 0
               THEN [task EXCEPT ![Top].hit = now] ELSE task
    /\ timerQueue' = timerQueue \ {Top}
    /\ thread' = "call" /\ top' = Top
    /\ UNCHANGED <<now, deadline, timerRunning, isShutdown, arming, stopping>>

(* The wait ends in time, or when its predicate holds. *)
Waken == now >= deadline \/ ~timerRunning \/ ~task[Top].running \/ Top # top

(* Mutant of GetTask: what is on top is run. *)
GetTask_Any ==
    /\ thread = "wait" /\ Waken
    /\ IF timerRunning /\ task[Top].running
       THEN /\ timerQueue' = timerQueue \ {Top}
            /\ thread' = "call" /\ top' = Top
            /\ UNCHANGED <<now, deadline, timerRunning, isShutdown, arming, stopping>>
       ELSE Again(IF timerRunning /\ ~task[Top].running THEN timerQueue \ {Top} ELSE timerQueue)
    /\ UNCHANGED task

(* The rest of GetTimerTask. *)
GetTask ==
    /\ thread = "wait" /\ Waken
    /\ IF timerRunning /\ task[Top].running /\ Due(Top)
       THEN /\ timerQueue' = timerQueue \ {Top}
            /\ thread' = "call" /\ top' = Top
            /\ UNCHANGED <<now, deadline, timerRunning, isShutdown, arming, stopping>>
       ELSE Again(IF timerRunning /\ ~task[Top].running THEN timerQueue \ {Top} ELSE timerQueue)
    /\ UNCHANGED task

(* RunTimerTask; a task that was stopped meanwhile is run, too. *)
RunTimerTask ==
    /\ thread = "call"
    /\ task' = [task EXCEPT ![top].ran = TRUE]
    /\ thread' = "after"
    /\ UNCHANGED <<now, timerQueue, top, deadline, timerRunning, isShutdown, arming, stopping>>

(* A periodic task is scheduled again, relative to its last hit time. *)
Reschedule ==
    /\ thread = "after"
    /\ IF Period(top) = 0 \/ ~task[top].running
       THEN task' = [task EXCEPT ![top].running = FALSE] /\ UNCHANGED timerQueue
       ELSE /\ task' = [task EXCEPT ![top].delay = 0, ![top].hit = @ + Period(top)]
            /\ timerQueue' = timerQueue \cup {top}
    /\ thread' = "loop" /\ top' = NoObject
    /\ UNCHANGED <<now, deadline, timerRunning, isShutdown, arming, stopping>>

TimerThread ==
    ThreadEnd \/ NoTask \/ RemoveStopped \/ WaitTimerTask \/ LateTask \/ GetTask
    \/ RunTimerTask \/ Reschedule

TimerNext ==
    \/ \E o \in Objects : ScheduleCheck(o) \/ ScheduleInsert(o) \/ StopTask(o)
    \/ Shutdown \/ TimerStop \/ TimerJoin \/ TimerTick \/ TimerThread

(* Time passes, the thread runs and tasks end. *)
TimerFairness ==
    /\ WF_timerVars(TimerTick) /\ WF_timerVars(TimerThread) /\ WF_timerVars(TimerJoin)
    /\ \A o \in Objects : WF_timerVars(ScheduleInsert(o))

TimerSpec == TimerInit /\ [][TimerNext]_timerVars
TimerFairSpec == TimerSpec /\ TimerFairness

-----------------------------------------------------------------------------
(* No task is run before its hit time, although a passed hit time is told  *)
(* from a later one by the wrap around of unsigned ticks only.             *)
NeverEarly == [][\A o \in Objects :
    o \in timerQueue /\ o \notin timerQueue' /\ thread' = "call" => now >= task[o].hit]_timerVars

(* A task that was scheduled is run unless it or the timer is stopped, also *)
(* if it becomes the first while the thread waits for another, and also     *)
(* during a shutdown.                                                      *)
ScheduledRuns == []<>(\A o \in Objects :
    task[o].running /\ timerRunning => task[o].ran)
=============================================================================
