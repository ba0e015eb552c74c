---------------------------- MODULE TaskManager ----------------------------
(***************************************************************************)
(* TaskManager and OneShotTask of src/modelbox/server: tasks that a client *)
(* starts, stops and deletes, a thread pool that feeds their data to the   *)
(* flow and one thread that receives their results.                        *)
(*                                                                         *)
(* Modelled lock by lock: new_del_lock_, the lock_ of each task, and       *)
(* map_lock_, which only the receiving thread keeps across steps.  The     *)
(* flow is its session: it gives back results while data is in it and ends *)
(* once its input is closed.  The pool is a bounded queue with workers.    *)
(* An action whose call returns without a change of state is left out.     *)
(***************************************************************************)
EXTENDS Integers, Sequences, FiniteSets

CONSTANTS
    Tasks,      \* the tasks that may be created
    Filled,     \* the tasks that FillData gave data
    Clients,    \* the threads that call the manager
    Workers,    \* the threads of thread_pool_
    PoolQueue,  \* the queue size of thread_pool_
    Limit,      \* task_num_limits_
    Wrap,       \* 2^32: where avaiable_task_counts_ wraps around
    MaxOut      \* the results of a task

ASSUME ConstantsAssumption ==
    /\ Filled \subseteq Tasks
    /\ {PoolQueue, Limit, Wrap, MaxOut} \subseteq Nat \ {0}
    /\ Limit < Wrap

VARIABLES
    status,     \* status_
    submitted,  \* already_submit_
    lock,       \* lock[t]: the client in Start that holds lock_, or NoOne
    counting,   \* the receiving thread holds new_del_lock_
    count,      \* avaiable_task_counts_
    jobs,       \* the tasks queued in thread_pool_
    known,      \* task_maps_
    external,   \* external_task_maps_
    selected,   \* external_list_ of the selector
    running,    \* thread_run_
    client,     \* client[c]: pc and task of a client
    worker,     \* worker[w]: pc and task of a pool thread
    recv,       \* the receiving thread: pc, task, its result, what is to do
    closed,     \* close_flag_ of the external data
    shut,       \* shutdown_flag_ of the external data
    error,      \* error_ of the session
    fed,        \* how often the data of a task was sent
    made, out,  \* the results the flow produced, and those not received yet
    ended       \* session_end_flag_

manager == <<lock, counting, count, jobs, known, external, selected, running>>
session == <<closed, shut, error, fed, made, out, ended>>
vars == <<status, submitted, manager, client, worker, recv, session>>

NoOne == "no one"
Idle == [pc |-> "idle", t |-> NoOne]
Over == {"STOPPED", "ABNORMAL", "FINISHED"}

Init ==
    /\ status = [t \in Tasks |-> "UNKNOWN"]
    /\ submitted = [t \in Tasks |-> FALSE]
    /\ lock = [t \in Tasks |-> NoOne]
    /\ counting = FALSE
    /\ count = 0
    /\ jobs = <<>>
    /\ known = {} /\ external = {} /\ selected = {}
    /\ running = TRUE
    /\ client = [c \in Clients |-> Idle]
    /\ worker = [w \in Workers |-> Idle]
    /\ recv = [pc |-> "select", t |-> NoOne, result |-> "WAITING", todo |-> {}]
    /\ closed = [t \in Tasks |-> FALSE]
    /\ shut = [t \in Tasks |-> FALSE]
    /\ error = [t \in Tasks |-> "none"]
    /\ fed = [t \in Tasks |-> 0]
    /\ made = [t \in Tasks |-> 0]
    /\ out = [t \in Tasks |-> 0]
    /\ ended = [t \in Tasks |-> FALSE]

Free(t) == lock[t] = NoOne
MapLocked == recv.pc \in {"scan", "submit", "push"}

-----------------------------------------------------------------------------
(* The session of a task in the flow, as the code here uses it. *)

Output(t) ==
    /\ fed[t] > 0 /\ ~ended[t] /\ made[t] < MaxOut
    /\ made' = [made EXCEPT ![t] = @ + 1]
    /\ out' = [out EXCEPT ![t] = @ + 1]
    /\ UNCHANGED <<status, submitted, manager, client, worker, recv,
                   closed, shut, error, fed, ended>>

(* A flow unit fails: Session::SetError. *)
Fail(t) ==
    /\ fed[t] > 0 /\ ~ended[t]
    /\ error' = [error EXCEPT ![t] = "fault"]
    /\ UNCHANGED <<status, submitted, manager, client, worker, recv,
                   closed, shut, fed, made, out, ended>>

SessionEnd(t) ==
    /\ closed[t] /\ ~ended[t]
    /\ ended' = [ended EXCEPT ![t] = TRUE]
    /\ UNCHANGED <<status, submitted, manager, client, worker, recv,
                   closed, shut, error, fed, made, out>>

(* Mutant of Shutdown: the end of the data is not sent. *)
Shutdown_StaysOpen(t) ==
    /\ shut' = [shut EXCEPT ![t] = TRUE]
    /\ error' = [error EXCEPT ![t] = IF shut[t] \/ ended[t] THEN @ ELSE "EOF"]
    /\ UNCHANGED <<closed, fed, made, out, ended>>

(* ExternalDataMapImpl::Shutdown, once: Session::Close and Close. *)
Shutdown(t) ==
    /\ shut' = [shut EXCEPT ![t] = TRUE]
    /\ error' = [error EXCEPT ![t] = IF shut[t] \/ ended[t] THEN @ ELSE "EOF"]
    /\ closed' = [closed EXCEPT ![t] = TRUE]
    /\ UNCHANGED <<fed, made, out, ended>>

-----------------------------------------------------------------------------
(* The calls of a client. *)

(* CreateTask and RegisterTask. *)
CreateTask(c, t) ==
    /\ client[c] = Idle /\ running
    /\ status[t] = "UNKNOWN" /\ ~MapLocked
    /\ status' = [status EXCEPT ![t] = "WAITING"]
    /\ known' = known \cup {t}
    /\ external' = external \cup {t}
    /\ selected' = selected \cup {t}
    /\ UNCHANGED <<submitted, lock, counting, count, jobs, running, client, worker, recv, session>>

(* Task::Start up to the call of Submit. *)
StartTask(c, t) ==
    /\ client[c] = Idle
    /\ status[t] = "WAITING" /\ ~submitted[t] /\ Free(t)
    /\ lock' = [lock EXCEPT ![t] = c]
    /\ submitted' = [submitted EXCEPT ![t] = TRUE]
    /\ client' = [client EXCEPT ![c] = [pc |-> "submit", t |-> t]]
    /\ UNCHANGED <<status, counting, count, jobs, known, external, selected, running,
                   worker, recv, session>>

(* TaskManager::Submit counts a task, unless the limit is reached. *)
Submit(counted) ==
    /\ ~counting
    /\ counted = (count < Limit)
    /\ count' = IF counted THEN (count + 1) % Wrap ELSE count
    /\ UNCHANGED <<counting, known, external, selected, running>>

ClientSubmit(c) ==
    /\ client[c].pc = "submit"
    /\ \E counted \in BOOLEAN :
         /\ Submit(counted)
         /\ client' = [client EXCEPT ![c] = IF counted THEN [@ EXCEPT !.pc = "push"] ELSE Idle]
         /\ lock' = [lock EXCEPT ![client[c].t] = IF counted THEN @ ELSE NoOne]
    /\ UNCHANGED <<status, submitted, jobs, worker, recv, session>>

ClientPush(c) ==
    /\ client[c].pc = "push"
    /\ Len(jobs) < PoolQueue
    /\ jobs' = Append(jobs, client[c].t)
    /\ lock' = [lock EXCEPT ![client[c].t] = NoOne]
    /\ client' = [client EXCEPT ![c] = Idle]
    /\ UNCHANGED <<status, submitted, counting, count, known, external, selected, running,
                   worker, recv, session>>

(* Task::Stop up to the wait on cv_, which gives lock_ back. *)
StopTask(c, t) ==
    /\ client[c] = Idle
    /\ status[t] \in {"WAITING", "WORKING"} /\ Free(t)
    /\ Shutdown(t)
    /\ client' = [client EXCEPT ![c] = [pc |-> "stop", t |-> t]]
    /\ UNCHANGED <<status, submitted, manager, worker, recv>>

(* DeleteTaskById up to the call of Stop. *)
DeleteTask(c, t) ==
    /\ client[c] = Idle
    /\ t \in known /\ ~MapLocked
    /\ known' = known \ {t}
    /\ client' = [client EXCEPT ![c] = [pc |-> "delete", t |-> t]]
    /\ UNCHANGED <<status, submitted, lock, counting, count, jobs, external, selected, running,
                   worker, recv, session>>

(* The Stop within DeleteTaskById. *)
DeleteStop(c) ==
    /\ client[c].pc = "delete"
    /\ LET t == client[c].t
       IN  /\ Free(t)
           /\ IF status[t] \in Over THEN UNCHANGED session ELSE Shutdown(t)
    /\ client' = [client EXCEPT ![c].pc = "forget"]
    /\ UNCHANGED <<status, submitted, manager, worker, recv>>

(* Stop returns; DeleteTaskById then forgets the external data. *)
Stopped(c) ==
    /\ client[c].pc \in {"stop", "forget"}
    /\ LET t == client[c].t
           gone == IF client[c].pc = "forget" THEN {t} ELSE {}
       IN  /\ status[t] \in Over /\ Free(t)
           /\ selected' = selected \ gone
           /\ external' = external \ gone
    /\ client' = [client EXCEPT ![c] = Idle]
    /\ UNCHANGED <<status, submitted, lock, counting, count, jobs, known, running,
                   worker, recv, session>>

(* TaskManager::Stop tells the receiving thread to end. *)
StopManager(c) ==
    /\ client[c] = Idle /\ running
    /\ running' = FALSE
    /\ UNCHANGED <<status, submitted, lock, counting, count, jobs, known, external, selected,
                   client, worker, recv, session>>

-----------------------------------------------------------------------------
(* The pool threads: Task::SendData and OneShotTask::FeedData. *)

Take(w) ==
    /\ worker[w] = Idle /\ jobs # <<>>
    /\ worker' = [worker EXCEPT ![w] = [pc |-> "send", t |-> Head(jobs)]]
    /\ jobs' = Tail(jobs)
    /\ UNCHANGED <<status, submitted, lock, counting, count, known, external, selected, running,
                   client, recv, session>>

(* Mutant of SendData: a task that does not wait is fed as well. *)
SendData_Again(w) ==
    /\ worker[w].pc = "send" /\ Free(worker[w].t)
    /\ status' = [status EXCEPT ![worker[w].t] = "WORKING"]
    /\ worker' = [worker EXCEPT ![w].pc = "feed"]
    /\ UNCHANGED <<submitted, manager, client, recv, session>>

SendData(w) ==
    /\ worker[w].pc = "send" /\ Free(worker[w].t)
    /\ LET waits == status[worker[w].t] = "WAITING"
       IN  /\ status' = IF waits THEN [status EXCEPT ![worker[w].t] = "WORKING"] ELSE status
           /\ worker' = [worker EXCEPT ![w] = IF waits THEN [@ EXCEPT !.pc = "feed"] ELSE Idle]
    /\ UNCHANGED <<submitted, manager, client, recv, session>>

(* The data is sent, unless there is none or the session was shut down. *)
FeedData(w) ==
    /\ worker[w].pc = "feed"
    /\ LET t == worker[w].t
           sent == t \in Filled /\ ~closed[t]
       IN  /\ fed' = [fed EXCEPT ![t] = IF sent THEN @ + 1 ELSE @]
           /\ worker' = [worker EXCEPT ![w].pc = IF sent THEN "close" ELSE "stop"]
    /\ UNCHANGED <<status, submitted, manager, client, recv, closed, shut, error, made, out, ended>>

Close(w) ==
    /\ worker[w].pc = "close"
    /\ closed' = [closed EXCEPT ![worker[w].t] = TRUE]
    /\ worker' = [worker EXCEPT ![w] = Idle]
    /\ UNCHANGED <<status, submitted, manager, client, recv, shut, error, fed, made, out, ended>>

(* SendData calls Stop when FeedData failed. *)
FeedFailed(w) ==
    /\ worker[w].pc = "stop" /\ Free(worker[w].t)
    /\ IF status[worker[w].t] \in Over THEN UNCHANGED session ELSE Shutdown(worker[w].t)
    /\ worker' = [worker EXCEPT ![w].pc = "wait"]
    /\ UNCHANGED <<status, submitted, manager, client, recv>>

FeedStopped(w) ==
    /\ worker[w].pc = "wait" /\ Free(worker[w].t)
    /\ status[worker[w].t] \in Over
    /\ worker' = [worker EXCEPT ![w] = Idle]
    /\ UNCHANGED <<status, submitted, manager, client, recv, session>>

-----------------------------------------------------------------------------
(* The receiving thread: ReceiveWork and StartWaittingTask. *)

GetReadyFlag(t) == ended[t] \/ out[t] > 0

At(pc) == [recv EXCEPT !.pc = pc]
Done(pc) == [recv EXCEPT !.pc = pc, !.todo = @ \ {recv.t}, !.t = NoOne]

(* SelectExternalData gives the external data that is ready, or times out. *)
Select ==
    /\ recv.pc = "select" /\ running
    /\ recv' = [At("next") EXCEPT !.todo = {t \in selected : GetReadyFlag(t)}]
    /\ UNCHANGED <<status, submitted, manager, client, worker, session>>

Receive(t) ==
    /\ recv.pc = "next" /\ t \in recv.todo
    /\ recv' = IF t \in external THEN [At("recv") EXCEPT !.t = t]
               ELSE [recv EXCEPT !.todo = @ \ {t}]
    /\ UNCHANGED <<status, submitted, manager, client, worker, session>>

(* The status UpdateTaskStatus gives a task whose session is over. *)
Result(t) ==
    CASE error[t] = "none" -> "FINISHED"
      [] error[t] = "EOF" -> "STOPPED"
      [] error[t] = "fault" -> "ABNORMAL"

(* Mutant of Recv: the end is looked at before the results. *)
Recv_EndFirst ==
    /\ recv.pc = "recv" /\ GetReadyFlag(recv.t)
    /\ IF ended[recv.t]
       THEN /\ selected' = selected \ {recv.t}
            /\ recv' = [At("lock") EXCEPT !.result = Result(recv.t)]
            /\ UNCHANGED out
       ELSE /\ out' = [out EXCEPT ![recv.t] = 0]
            /\ recv' = Done("next")
            /\ UNCHANGED selected
    /\ UNCHANGED <<status, submitted, lock, counting, count, jobs, known, external, running,
                   client, worker, closed, shut, error, fed, made, ended>>

(* Recv takes all results there are; without any the session is over. *)
Recv ==
    /\ recv.pc = "recv" /\ GetReadyFlag(recv.t)
    /\ IF out[recv.t] > 0
       THEN /\ out' = [out EXCEPT ![recv.t] = 0]
            /\ recv' = Done("next")
            /\ UNCHANGED selected
       ELSE /\ selected' = selected \ {recv.t}
            /\ recv' = [At("lock") EXCEPT !.result = Result(recv.t)]
            /\ UNCHANGED out
    /\ UNCHANGED <<status, submitted, lock, counting, count, jobs, known, external, running,
                   client, worker, closed, shut, error, fed, made, ended>>

LockCount ==
    /\ recv.pc = "lock"
    /\ counting' = TRUE
    /\ recv' = At("update")
    /\ UNCHANGED <<status, submitted, lock, count, jobs, known, external, selected, running,
                   client, worker, session>>

UpdateTaskStatus ==
    /\ recv.pc = "update" /\ Free(recv.t)
    /\ status' = [status EXCEPT ![recv.t] = recv.result]
    /\ recv' = At("count")
    /\ UNCHANGED <<submitted, manager, client, worker, session>>

(* A task that was submitted is counted no more; new_del_lock_ is given back. *)
UncountTask ==
    /\ recv.pc = "count" /\ Free(recv.t)
    /\ count' = IF submitted[recv.t] THEN (count - 1) % Wrap ELSE count
    /\ counting' = FALSE
    /\ recv' = Done("next")
    /\ UNCHANGED <<status, submitted, lock, jobs, known, external, selected, running,
                   client, worker, session>>

StartWaittingTask ==
    /\ recv.pc = "next" /\ recv.todo = {}
    /\ recv' = IF count >= Limit THEN At("select") ELSE [At("scan") EXCEPT !.todo = known]
    /\ UNCHANGED <<status, submitted, manager, client, worker, session>>

IsReady(t) ==
    /\ recv.pc = "scan" /\ t \in recv.todo /\ Free(t)
    /\ recv' = IF submitted[t] /\ status[t] = "WAITING" THEN [At("submit") EXCEPT !.t = t]
               ELSE [recv EXCEPT !.todo = @ \ {t}]
    /\ UNCHANGED <<status, submitted, manager, client, worker, session>>

SubmitWaiting ==
    /\ recv.pc = "submit"
    /\ \E counted \in BOOLEAN :
         /\ Submit(counted)
         /\ recv' = IF counted THEN At("push") ELSE Done("scan")
    /\ UNCHANGED <<status, submitted, lock, jobs, client, worker, session>>

PushWaiting ==
    /\ recv.pc = "push"
    /\ Len(jobs) < PoolQueue
    /\ jobs' = Append(jobs, recv.t)
    /\ recv' = Done("scan")
    /\ UNCHANGED <<status, submitted, lock, counting, count, known, external, selected, running,
                   client, worker, session>>

ScanDone ==
    /\ recv.pc = "scan" /\ recv.todo = {}
    /\ recv' = At("select")
    /\ UNCHANGED <<status, submitted, manager, client, worker, session>>

-----------------------------------------------------------------------------
Call(c) == \E t \in Tasks :
    CreateTask(c, t) \/ StartTask(c, t) \/ StopTask(c, t) \/ DeleteTask(c, t)

Return(c) == ClientSubmit(c) \/ ClientPush(c) \/ DeleteStop(c) \/ Stopped(c)

Pool(w) ==
    Take(w) \/ SendData(w) \/ FeedData(w) \/ Close(w) \/ FeedFailed(w) \/ FeedStopped(w)

ReceiveWork ==
    \/ Select \/ Recv \/ LockCount \/ UpdateTaskStatus \/ UncountTask
    \/ StartWaittingTask \/ SubmitWaiting \/ PushWaiting \/ ScanDone
    \/ \E t \in Tasks : Receive(t) \/ IsReady(t)

Flow(t) == Output(t) \/ Fail(t) \/ SessionEnd(t)

Next ==
    \/ \E c \in Clients : Call(c) \/ Return(c) \/ StopManager(c)
    \/ \E w \in Workers : Pool(w)
    \/ ReceiveWork
    \/ \E t \in Tasks : Flow(t)

Spec == Init /\ [][Next]_vars

(* The threads run; a call is made or not; a closed session ends. *)
FairSpec ==
    /\ Spec
    /\ \A c \in Clients : WF_vars(Return(c))
    /\ \A w \in Workers : WF_vars(Pool(w))
    /\ WF_vars(ReceiveWork)
    /\ \A t \in Tasks : WF_vars(SessionEnd(t))

-----------------------------------------------------------------------------
(* Properties *)

(* SendData feeds a task once, although StartWaittingTask may queue a task *)
(* that Start has just queued.                                             *)
FedOnce == \A t \in Tasks : fed[t] <= 1

(* A task that is over stays what it is, and none waits again.             *)
StatusMoves ==
    [][\A t \in Tasks :
         /\ status[t] \in Over => status'[t] = status[t]
         /\ status[t] = "WORKING" => status'[t] # "WAITING"]_vars

(* A client that sees a task over has been given all its results.          *)
OverMeansReceived ==
    \A t \in Tasks : status[t] \in Over => ended[t] /\ out[t] = 0

(* Task::Stop returns while the manager runs, alone or in DeleteTaskById,  *)
(* whatever the task was doing.                                            *)
StopReturns ==
    \A c \in Clients :
        client[c].pc \in {"stop", "delete", "forget"} ~> (client[c] = Idle \/ ~running)

(* avaiable_task_counts_ is back at zero when all tasks are over: see      *)
(* GetAvaiableTaskCount in test/unit/plugin/task_manger_test.cc.           *)
NoneCountedAtEnd ==
    (\A t \in Tasks : status[t] \in Over) /\ ~counting => count = 0

=============================================================================
