------------------------- MODULE TaskManagerProofs -------------------------
(***************************************************************************)
(* A task is fed once, keeps the status in which it is over, and is over   *)
(* only when its session has ended and all its results were received: for  *)
(* any number of tasks, clients and pool threads, any limit and any size   *)
(* of the queue.                                                           *)
(***************************************************************************)
EXTENDS TaskManager, SequenceTheorems, TLAPS

Statuses == {"UNKNOWN", "WAITING", "WORKING"} \cup Over
Errors == {"none", "EOF", "fault"}

(* The types of what the theorems are about; who is in the middle of       *)
(* something has a task.                                                   *)
SessionTypes ==
    /\ error \in [Tasks -> Errors]
    /\ fed \in [Tasks -> Nat] /\ out \in [Tasks -> Nat]
    /\ ended \in [Tasks -> BOOLEAN]

ClientTypes ==
    /\ client \in [Clients -> [pc : {"idle", "submit", "push", "stop", "delete", "forget"},
                               t : Tasks \cup {NoOne}]]
    /\ \A c \in Clients : client[c].pc # "idle" => client[c].t \in Tasks

WorkerTypes ==
    /\ worker \in [Workers -> [pc : {"idle", "send", "feed", "close", "stop", "wait"},
                               t : Tasks \cup {NoOne}]]
    /\ \A w \in Workers : worker[w].pc # "idle" => worker[w].t \in Tasks

RecvTypes ==
    /\ recv \in [pc : {"select", "next", "recv", "lock", "update", "count",
                       "scan", "submit", "push"},
                 t : Tasks \cup {NoOne}, result : {"WAITING"} \cup Over, todo : SUBSET Tasks]
    /\ recv.pc \in {"recv", "lock", "update", "count", "submit", "push"} => recv.t \in recv.todo

ListTypes ==
    known \subseteq Tasks /\ external \subseteq Tasks /\ selected \subseteq Tasks

Types ==
    /\ status \in [Tasks -> Statuses] /\ jobs \in Seq(Tasks)
    /\ SessionTypes /\ ClientTypes /\ WorkerTypes /\ RecvTypes /\ ListTypes

(* Only SendData lets a worker feed a task, and it does so once: a task    *)
(* that waits was not fed, and one worker at most is about to feed it.     *)
FeedInv ==
    /\ \A t \in Tasks : status[t] \in {"UNKNOWN", "WAITING"} => fed[t] = 0
    /\ \A w \in Workers : worker[w].pc = "feed" =>
          /\ status[worker[w].t] \notin {"UNKNOWN", "WAITING"}
          /\ fed[worker[w].t] = 0
    /\ \A v, w \in Workers :
          worker[v].pc = "feed" /\ worker[w].pc = "feed" /\ worker[v].t = worker[w].t => v = w

(* A task that is not created is nowhere, and a task that is over is not   *)
(* selected any more, nor left to be received.                             *)
SelectInv ==
    /\ \A t \in Tasks : status[t] = "UNKNOWN" =>
          t \notin known /\ t \notin external /\ t \notin selected /\ t \notin recv.todo
    /\ \A t \in Tasks : status[t] \in Over =>
          /\ t \notin selected
          /\ recv.pc \in {"next", "recv", "lock", "update"} => t \notin recv.todo
          /\ recv.pc = "count" /\ t \in recv.todo => t = recv.t
    /\ recv.pc \in {"lock", "update", "count"} => recv.t \notin selected

(* The receiving thread ends a task that has nothing to give any more. *)
EndInv ==
    /\ OverMeansReceived
    /\ recv.pc \in {"lock", "update"} =>
          recv.result \in Over /\ ended[recv.t] /\ out[recv.t] = 0

IInv == Types /\ FedOnce /\ FeedInv /\ SelectInv /\ EndInv

LEMMA InitInv == Init => IInv
<1> SUFFICES ASSUME Init PROVE IInv
    OBVIOUS
<1>1. Types
    BY DEF Init, Types, SessionTypes, ClientTypes, WorkerTypes, RecvTypes, ListTypes,
           Statuses, Errors, Idle
<1>2. FeedInv /\ SelectInv /\ EndInv /\ FedOnce
    BY DEF Init, FeedInv, SelectInv, EndInv, FedOnce, OverMeansReceived, Over, Idle
<1> QED
    BY <1>1, <1>2 DEF IInv

-----------------------------------------------------------------------------
(* What each of the four kinds of steps leaves alone. *)

ClientStep(c) == Call(c) \/ Return(c) \/ StopManager(c)

LEMMA NextSteps ==
    ASSUME [Next]_vars
    PROVE  \/ UNCHANGED vars
           \/ \E c \in Clients : ClientStep(c)
           \/ \E w \in Workers : Pool(w)
           \/ ReceiveWork
           \/ \E t \in Tasks : Flow(t)
    BY Zenon DEF Next, ClientStep

LEMMA ShutdownFrame ==
    ASSUME NEW t, Shutdown(t)
    PROVE  UNCHANGED <<fed, made, out, ended>>
    BY DEF Shutdown

LEMMA ClientFrame ==
    ASSUME NEW c, ClientStep(c)
    PROVE  UNCHANGED <<worker, recv, counting, fed, made, out, ended>>
    BY ShutdownFrame, Zenon
       DEF ClientStep, Call, Return, CreateTask, StartTask, StopTask, DeleteTask, ClientSubmit,
           Submit, ClientPush, DeleteStop, Stopped, StopManager, manager, session

LEMMA PoolFrame ==
    ASSUME NEW w, Pool(w)
    PROVE  UNCHANGED <<client, recv, known, external, selected, out, ended>>
    BY ShutdownFrame, Zenon
       DEF Pool, Take, SendData, FeedData, Close, FeedFailed, FeedStopped, manager, session

LEMMA ReceiveFrame ==
    ASSUME ReceiveWork
    PROVE  UNCHANGED <<client, worker, known, external, error, fed, ended>>
    BY Zenon
       DEF ReceiveWork, Select, Recv, LockCount, UpdateTaskStatus, UncountTask, Receive, IsReady,
           StartWaittingTask, SubmitWaiting, Submit, PushWaiting, ScanDone, manager, session

LEMMA FlowFrame ==
    ASSUME NEW t, Flow(t)
    PROVE  UNCHANGED <<status, jobs, known, external, selected, client, worker, recv, fed>>
    BY Zenon DEF Flow, Output, Fail, SessionEnd, manager

-----------------------------------------------------------------------------
(* Types. *)

LEMMA SessionTypesStep == SessionTypes /\ [Next]_vars => SessionTypes'
<1> SUFFICES ASSUME SessionTypes, [Next]_vars PROVE SessionTypes'
    OBVIOUS
<1> USE DEF SessionTypes
<1>1. CASE UNCHANGED vars
    BY <1>1 DEF vars, session
<1>2. ASSUME NEW t, Shutdown(t) PROVE SessionTypes'
    BY <1>2, Zenon DEF Shutdown, Errors
<1>3. ASSUME NEW c \in Clients, ClientStep(c) PROVE SessionTypes'
  <2>1. UNCHANGED session \/ \E t : Shutdown(t)
      BY <1>3, Zenon
         DEF ClientStep, Call, Return, CreateTask, StartTask, StopTask, DeleteTask, ClientSubmit,
             ClientPush, DeleteStop, Stopped, StopManager
  <2> QED
      BY <1>2, <2>1 DEF session
<1>4. ASSUME NEW w \in Workers, Pool(w) PROVE SessionTypes'
  <2>1. UNCHANGED session \/ FeedData(w) \/ Close(w) \/ \E t : Shutdown(t)
      BY <1>4, Zenon DEF Pool, Take, SendData, FeedFailed, FeedStopped
  <2>2. CASE FeedData(w)
    <3>1. UNCHANGED <<error, out, ended>>
        BY <2>2, Zenon DEF FeedData
    <3>2. UNCHANGED fed \/ fed' = [fed EXCEPT ![worker[w].t] = @ + 1]
        BY <2>2, Zenon DEF FeedData
    <3> QED
        BY <3>1, <3>2
  <2>3. CASE Close(w)
      BY <2>3 DEF Close
  <2> QED
      BY <1>2, <2>1, <2>2, <2>3 DEF session
<1>5. CASE ReceiveWork
  <2>1. UNCHANGED <<error, fed, ended>>
      BY <1>5, ReceiveFrame
  <2>2. UNCHANGED session \/ Recv
      BY <1>5, Zenon
         DEF ReceiveWork, Select, LockCount, UpdateTaskStatus, UncountTask, Receive, IsReady,
             StartWaittingTask, SubmitWaiting, PushWaiting, ScanDone
  <2>3. out' \in [Tasks -> Nat]
      BY <2>2 DEF Recv, session
  <2> QED
      BY <2>1, <2>3
<1>6. ASSUME NEW t \in Tasks, Flow(t) PROVE SessionTypes'
  <2>1. CASE Output(t)
      BY <2>1 DEF Output
  <2>2. CASE Fail(t)
      BY <2>2 DEF Fail, Errors
  <2>3. CASE SessionEnd(t)
      BY <2>3 DEF SessionEnd
  <2> QED
      BY <1>6, <2>1, <2>2, <2>3 DEF Flow
<1> QED
    BY <1>1, <1>3, <1>4, <1>5, <1>6, NextSteps

LEMMA ClientTypesStep == ClientTypes /\ [Next]_vars => ClientTypes'
<1> SUFFICES ASSUME ClientTypes, [Next]_vars PROVE ClientTypes'
    OBVIOUS
<1> USE DEF ClientTypes
<1>1. CASE UNCHANGED client
    BY <1>1
<1>2. ASSUME NEW c \in Clients, NEW pc \in {"submit", "stop", "delete"}, NEW t \in Tasks,
             client' = [client EXCEPT ![c] = [pc |-> pc, t |-> t]]
      PROVE  ClientTypes'
    BY <1>2
<1>3. ASSUME NEW c \in Clients, client' = [client EXCEPT ![c] = Idle]
      PROVE  ClientTypes'
    BY <1>3 DEF Idle
<1>4. ASSUME NEW c \in Clients, NEW pc \in {"push", "forget"}, client[c].pc # "idle",
             client' = [client EXCEPT ![c] = [@ EXCEPT !.pc = pc]]
      PROVE  ClientTypes'
    BY <1>4
<1>5. ASSUME NEW c \in Clients, ClientStep(c) PROVE ClientTypes'
  <2>1. ASSUME NEW t \in Tasks,
               CreateTask(c, t) \/ StartTask(c, t) \/ StopTask(c, t) \/ DeleteTask(c, t)
        PROVE  ClientTypes'
      BY <1>1, <1>2, <2>1, Zenon DEF CreateTask, StartTask, StopTask, DeleteTask
  <2>2. CASE ClientSubmit(c)
    <3>1. \/ client' = [client EXCEPT ![c] = [@ EXCEPT !.pc = "push"]]
          \/ client' = [client EXCEPT ![c] = Idle]
        BY <2>2, Zenon DEF ClientSubmit
    <3>2. client[c].pc # "idle"
        BY <2>2 DEF ClientSubmit
    <3> QED
        BY <1>3, <1>4, <3>1, <3>2, Zenon
  <2>3. CASE ClientPush(c)
      BY <1>3, <2>3, Zenon DEF ClientPush
  <2>4. CASE DeleteStop(c)
      BY <1>4, <2>4 DEF DeleteStop
  <2>5. CASE Stopped(c)
      BY <1>3, <2>5, Zenon DEF Stopped
  <2>6. CASE StopManager(c)
      BY <1>1, <2>6, Zenon DEF StopManager
  <2> QED
      BY <1>5, <2>1, <2>2, <2>3, <2>4, <2>5, <2>6, Zenon DEF ClientStep, Call, Return
<1> QED
    BY <1>1, <1>5, NextSteps, PoolFrame, ReceiveFrame, FlowFrame DEF vars

LEMMA WorkerTypesStep == WorkerTypes /\ jobs \in Seq(Tasks) /\ [Next]_vars => WorkerTypes'
<1> SUFFICES ASSUME WorkerTypes, jobs \in Seq(Tasks), [Next]_vars PROVE WorkerTypes'
    OBVIOUS
<1> USE DEF WorkerTypes
<1>1. CASE UNCHANGED worker
    BY <1>1
<1>2. ASSUME NEW w \in Workers, worker' = [worker EXCEPT ![w] = Idle]
      PROVE  WorkerTypes'
    BY <1>2 DEF Idle
<1>3. ASSUME NEW w \in Workers, NEW pc \in {"feed", "close", "stop", "wait"},
             worker[w].pc # "idle",
             worker' = [worker EXCEPT ![w] = [@ EXCEPT !.pc = pc]]
      PROVE  WorkerTypes'
    BY <1>3
<1>4. ASSUME NEW w \in Workers, Take(w) PROVE WorkerTypes'
  <2>1. Head(jobs) \in Tasks
      BY <1>4, HeadTailProperties DEF Take
  <2> QED
      BY <1>4, <2>1 DEF Take
<1>5. ASSUME NEW w \in Workers, SendData(w) PROVE WorkerTypes'
  <2>1. \/ worker' = [worker EXCEPT ![w] = [@ EXCEPT !.pc = "feed"]]
        \/ worker' = [worker EXCEPT ![w] = Idle]
      BY <1>5, Zenon DEF SendData
  <2>2. worker[w].pc # "idle"
      BY <1>5 DEF SendData
  <2> QED
      BY <1>2, <1>3, <2>1, <2>2, Zenon
<1>6. ASSUME NEW w \in Workers, FeedData(w) PROVE WorkerTypes'
  <2>1. \/ worker' = [worker EXCEPT ![w] = [@ EXCEPT !.pc = "close"]]
        \/ worker' = [worker EXCEPT ![w] = [@ EXCEPT !.pc = "stop"]]
      BY <1>6, Zenon DEF FeedData
  <2>2. worker[w].pc # "idle"
      BY <1>6 DEF FeedData
  <2> QED
      BY <1>3, <2>1, <2>2, Zenon
<1>7. ASSUME NEW w \in Workers, Close(w) PROVE WorkerTypes'
    BY <1>2, <1>7, Zenon DEF Close
<1>8. ASSUME NEW w \in Workers, FeedFailed(w) PROVE WorkerTypes'
  <2>1. worker' = [worker EXCEPT ![w] = [@ EXCEPT !.pc = "wait"]] /\ worker[w].pc # "idle"
      BY <1>8 DEF FeedFailed
  <2> QED
      BY <1>3, <2>1, Zenon
<1>9. ASSUME NEW w \in Workers, FeedStopped(w) PROVE WorkerTypes'
    BY <1>2, <1>9, Zenon DEF FeedStopped
<1> QED
    BY <1>1, <1>4, <1>5, <1>6, <1>7, <1>8, <1>9, NextSteps, ClientFrame, ReceiveFrame, FlowFrame
       DEF vars, Pool

LEMMA ListTypesStep == ListTypes /\ [Next]_vars => ListTypes'
<1> SUFFICES ASSUME ListTypes, [Next]_vars PROVE ListTypes'
    OBVIOUS
<1> USE DEF ListTypes
<1>1. CASE UNCHANGED <<known, external, selected>>
    BY <1>1
<1>2. ASSUME NEW c \in Clients, ClientStep(c) PROVE ListTypes'
  <2>1. ASSUME NEW t \in Tasks, CreateTask(c, t) \/ DeleteTask(c, t) PROVE ListTypes'
      BY <2>1 DEF CreateTask, DeleteTask
  <2>2. CASE Stopped(c)
      BY <2>2 DEF Stopped
  <2>3. \/ UNCHANGED <<known, external, selected>> \/ Stopped(c)
        \/ \E t \in Tasks : CreateTask(c, t) \/ DeleteTask(c, t)
      BY <1>2, Zenon DEF ClientStep, Call, Return, StartTask, StopTask, ClientSubmit, Submit,
                         ClientPush, DeleteStop, StopManager, manager
  <2> QED
      BY <1>1, <2>1, <2>2, <2>3
<1>3. CASE ReceiveWork
  <2>1. UNCHANGED <<known, external>>
      BY <1>3, ReceiveFrame
  <2>2. UNCHANGED selected \/ selected' = selected \ {recv.t}
      BY <1>3, Zenon
         DEF ReceiveWork, Select, Recv, LockCount, UpdateTaskStatus, UncountTask, Receive,
             IsReady, StartWaittingTask, SubmitWaiting, Submit, PushWaiting, ScanDone, manager
  <2> QED
      BY <2>1, <2>2
<1> QED
    BY <1>1, <1>2, <1>3, NextSteps, PoolFrame, FlowFrame DEF vars, manager

LEMMA JobsTypesStep ==
    jobs \in Seq(Tasks) /\ ClientTypes /\ RecvTypes /\ [Next]_vars => jobs' \in Seq(Tasks)
<1> SUFFICES ASSUME jobs \in Seq(Tasks), ClientTypes, RecvTypes, [Next]_vars
             PROVE  jobs' \in Seq(Tasks)
    OBVIOUS
<1>1. ASSUME NEW c \in Clients, ClientStep(c) PROVE jobs' \in Seq(Tasks)
  <2>1. CASE ClientPush(c)
    <3>1. client[c].t \in Tasks /\ jobs' = Append(jobs, client[c].t)
        BY <2>1 DEF ClientPush, ClientTypes
    <3> QED
        BY <3>1, AppendProperties
  <2>2. UNCHANGED jobs \/ ClientPush(c)
      BY <1>1, Zenon DEF ClientStep, Call, Return, CreateTask, StartTask, StopTask, DeleteTask,
                         ClientSubmit, DeleteStop, Stopped, StopManager, manager
  <2> QED
      BY <2>1, <2>2
<1>2. ASSUME NEW w \in Workers, Pool(w) PROVE jobs' \in Seq(Tasks)
  <2>1. CASE Take(w)
      BY <2>1, HeadTailProperties DEF Take
  <2>2. UNCHANGED jobs \/ Take(w)
      BY <1>2, Zenon DEF Pool, SendData, FeedData, Close, FeedFailed, FeedStopped, manager
  <2> QED
      BY <2>1, <2>2
<1>3. CASE ReceiveWork
  <2>1. CASE PushWaiting
    <3>1. recv.t \in Tasks /\ jobs' = Append(jobs, recv.t)
        BY <2>1 DEF PushWaiting, RecvTypes
    <3> QED
        BY <3>1, AppendProperties
  <2>2. UNCHANGED jobs \/ PushWaiting
      BY <1>3, Zenon
         DEF ReceiveWork, Select, Recv, LockCount, UpdateTaskStatus, UncountTask, Receive,
             IsReady, StartWaittingTask, SubmitWaiting, ScanDone, manager
  <2> QED
      BY <2>1, <2>2
<1> QED
    BY <1>1, <1>2, <1>3, NextSteps, FlowFrame DEF vars, manager

(* Who changes the status of a task, and to what. *)
LEMMA StatusSteps ==
    ASSUME [Next]_vars
    PROVE  \/ UNCHANGED status
           \/ \E c \in Clients, t \in Tasks : CreateTask(c, t)
           \/ \E w \in Workers : SendData(w) /\ status[worker[w].t] = "WAITING"
           \/ UpdateTaskStatus
<1>1. ASSUME NEW c \in Clients, ClientStep(c)
      PROVE  UNCHANGED status \/ \E t \in Tasks : CreateTask(c, t)
    BY <1>1, Zenon DEF ClientStep, Call, Return, StartTask, StopTask, DeleteTask, ClientSubmit,
                       ClientPush, DeleteStop, Stopped, StopManager
<1>2. ASSUME NEW w \in Workers, Pool(w)
      PROVE  UNCHANGED status \/ (SendData(w) /\ status[worker[w].t] = "WAITING")
    BY <1>2, Zenon DEF Pool, SendData, Take, FeedData, Close, FeedFailed, FeedStopped
<1>3. CASE ReceiveWork
    BY <1>3, Zenon
       DEF ReceiveWork, Select, Recv, LockCount, UncountTask, Receive, IsReady,
           StartWaittingTask, SubmitWaiting, PushWaiting, ScanDone
<1> QED
    BY <1>1, <1>2, <1>3, NextSteps, FlowFrame, Zenon DEF vars

LEMMA StatusTypesStep ==
    status \in [Tasks -> Statuses] /\ RecvTypes /\ [Next]_vars => status' \in [Tasks -> Statuses]
<1> SUFFICES ASSUME status \in [Tasks -> Statuses], RecvTypes, [Next]_vars
             PROVE  status' \in [Tasks -> Statuses]
    OBVIOUS
<1>1. ASSUME NEW t, NEW v \in Statuses, status' = [status EXCEPT ![t] = v]
      PROVE  status' \in [Tasks -> Statuses]
    BY <1>1, Zenon
<1>2. "WAITING" \in Statuses /\ "WORKING" \in Statuses /\ recv.result \in Statuses
    BY DEF Statuses, RecvTypes
<1>3. \/ UNCHANGED status
      \/ \E t : \/ status' = [status EXCEPT ![t] = "WAITING"]
                \/ status' = [status EXCEPT ![t] = "WORKING"]
                \/ status' = [status EXCEPT ![t] = recv.result]
    BY StatusSteps, Zenon DEF CreateTask, SendData, UpdateTaskStatus
<1> QED
    BY <1>1, <1>2, <1>3, Zenon

LEMMA RecvTypesStep ==
    SessionTypes /\ RecvTypes /\ ListTypes /\ [Next]_vars => RecvTypes'
<1> SUFFICES ASSUME SessionTypes, RecvTypes, ListTypes, [Next]_vars PROVE RecvTypes'
    OBVIOUS
<1>1. CASE UNCHANGED recv
    BY <1>1 DEF RecvTypes
<1>2. CASE ReceiveWork
  <2> USE DEF RecvTypes
  <2>1. CASE Select
    <3>1. {t \in selected : GetReadyFlag(t)} \in SUBSET Tasks
        BY DEF ListTypes
    <3> QED
        BY <2>1, <3>1, Zenon DEF Select, At
  <2>2. ASSUME NEW t \in Tasks, Receive(t) PROVE RecvTypes'
      BY <2>2, Zenon DEF Receive, At
  <2>3. CASE Recv
    <3>1. recv.t \in Tasks /\ Result(recv.t) \in Over
        BY <2>3 DEF Recv, Result, SessionTypes, Errors, Over
    <3>2. \/ recv' = Done("next")
          \/ recv' = [At("lock") EXCEPT !.result = Result(recv.t)]
        BY <2>3, Zenon DEF Recv
    <3>3. recv.pc = "recv"
        BY <2>3 DEF Recv
    <3> QED
        BY <3>1, <3>2, <3>3, Zenon DEF At, Done
  <2>4. CASE LockCount
      BY <2>4 DEF LockCount, At
  <2>5. CASE UpdateTaskStatus
      BY <2>5 DEF UpdateTaskStatus, At
  <2>6. CASE UncountTask
      BY <2>6, Zenon DEF UncountTask, Done
  <2>7. CASE StartWaittingTask
      BY <2>7, Zenon DEF StartWaittingTask, At, ListTypes
  <2>8. ASSUME NEW t \in Tasks, IsReady(t) PROVE RecvTypes'
      BY <2>8, Zenon DEF IsReady, At
  <2>9. CASE SubmitWaiting
    <3>1. recv.pc = "submit" /\ (recv' = At("push") \/ recv' = Done("scan"))
        BY <2>9, Zenon DEF SubmitWaiting
    <3> QED
        BY <3>1, Zenon DEF At, Done
  <2>10. CASE PushWaiting
      BY <2>10, Zenon DEF PushWaiting, Done
  <2>11. CASE ScanDone
      BY <2>11 DEF ScanDone, At
  <2> QED
      BY <1>2, <2>1, <2>2, <2>3, <2>4, <2>5, <2>6, <2>7, <2>8, <2>9, <2>10, <2>11
         DEF ReceiveWork
<1> QED
    BY <1>1, <1>2, NextSteps, ClientFrame, PoolFrame, FlowFrame DEF vars

LEMMA TypesStep == Types /\ [Next]_vars => Types'
    BY SessionTypesStep, ClientTypesStep, WorkerTypesStep, ListTypesStep, JobsTypesStep,
       StatusTypesStep, RecvTypesStep DEF Types

-----------------------------------------------------------------------------
(* A task is fed once. *)

LEMMA FeedStep == IInv /\ [Next]_vars => FedOnce' /\ FeedInv'
<1> SUFFICES ASSUME IInv, [Next]_vars PROVE FedOnce' /\ FeedInv'
    OBVIOUS
<1>0. /\ status \in [Tasks -> Statuses] /\ fed \in [Tasks -> Nat]
      /\ WorkerTypes /\ RecvTypes /\ FedOnce /\ FeedInv
    BY DEF IInv, Types, SessionTypes
<1>1. CASE UNCHANGED <<status, fed, worker>>
    BY <1>0, <1>1 DEF FedOnce, FeedInv
(* A task that is created or updated gets a status, and no worker feeds it. *)
<1>2. ASSUME NEW c \in Clients, NEW t \in Tasks, CreateTask(c, t) PROVE FedOnce' /\ FeedInv'
  <2>1. /\ status[t] = "UNKNOWN" /\ status' = [status EXCEPT ![t] = "WAITING"]
        /\ UNCHANGED <<fed, worker>>
      BY <1>2 DEF CreateTask, session
  <2>2. FedOnce'
      BY <1>0, <2>1 DEF FedOnce
  <2>3. \A u \in Tasks : status'[u] \in {"UNKNOWN", "WAITING"} => status[u] \in {"UNKNOWN", "WAITING"}
      BY <1>0, <2>1
  <2>4. \A w \in Workers : worker[w].pc = "feed" => worker[w].t # t /\ worker[w].t \in Tasks
      BY <1>0, <2>1 DEF FeedInv, WorkerTypes
  <2>5. FeedInv'
      BY <1>0, <2>1, <2>3, <2>4 DEF FeedInv
  <2> QED
      BY <2>2, <2>5
<1>3. CASE UpdateTaskStatus
  <2>1. /\ status' = [status EXCEPT ![recv.t] = recv.result] /\ recv.result \in Over
        /\ UNCHANGED <<fed, worker>>
      BY <1>3 DEF UpdateTaskStatus, session, IInv, EndInv
  <2>2. \A u \in Tasks : status'[u] \in {"UNKNOWN", "WAITING"} => status[u] \in {"UNKNOWN", "WAITING"}
      BY <1>0, <2>1 DEF Over
  <2>3. \A w \in Workers : worker[w].pc = "feed" => worker[w].t \in Tasks
      BY <1>0 DEF WorkerTypes
  <2> QED
      BY <1>0, <2>1, <2>2, <2>3 DEF FedOnce, FeedInv
<1>4. ASSUME NEW w \in Workers, SendData(w) PROVE FedOnce' /\ FeedInv'
  <2>1. worker[w].pc = "send" /\ worker[w].t \in Tasks /\ UNCHANGED fed
      BY <1>0, <1>4 DEF SendData, session, WorkerTypes
  <2>2. CASE status[worker[w].t] = "WAITING"
    <3> DEFINE t == worker[w].t
    <3>1. /\ status' = [status EXCEPT ![t] = "WORKING"]
          /\ worker' = [worker EXCEPT ![w] = [@ EXCEPT !.pc = "feed"]]
        BY <1>4, <2>2 DEF SendData
    <3>2. fed[t] = 0 /\ \A v \in Workers : worker[v].pc = "feed" => worker[v].t # t
        BY <1>0, <2>1, <2>2 DEF FeedInv
    <3>3. /\ \A v \in Workers : v # w => worker'[v] = worker[v]
          /\ worker'[w].pc = "feed" /\ worker'[w].t = t
        BY <1>0, <3>1 DEF WorkerTypes
    <3>4. \A u \in Tasks : u # t => status'[u] = status[u]
        BY <1>0, <3>1
    <3>5. status'[t] = "WORKING"
        BY <1>0, <2>1, <3>1
    <3>6. \A v \in Workers : worker[v].pc = "feed" => worker[v].t \in Tasks
        BY <1>0 DEF WorkerTypes
    <3> HIDE DEF t
    <3> QED
        BY <1>0, <2>1, <3>2, <3>3, <3>4, <3>5, <3>6 DEF FedOnce, FeedInv
  <2>3. CASE status[worker[w].t] # "WAITING"
    <3>1. UNCHANGED status /\ worker' = [worker EXCEPT ![w] = Idle]
        BY <1>4, <2>3 DEF SendData
    <3>2. \A v \in Workers : worker'[v].pc = "feed" => worker'[v] = worker[v]
        BY <1>0, <3>1 DEF WorkerTypes, Idle
    <3> QED
        BY <1>0, <2>1, <3>1, <3>2 DEF FedOnce, FeedInv
  <2> QED
      BY <2>2, <2>3
<1>5. ASSUME NEW w \in Workers, FeedData(w) PROVE FedOnce' /\ FeedInv'
  <2> DEFINE t == worker[w].t
  <2>1. /\ worker[w].pc = "feed" /\ t \in Tasks /\ fed[t] = 0
        /\ status[t] \notin {"UNKNOWN", "WAITING"}
      BY <1>0, <1>5 DEF FeedData, FeedInv, WorkerTypes
  <2>2. UNCHANGED status /\ (UNCHANGED fed \/ fed' = [fed EXCEPT ![t] = @ + 1])
      BY <1>0, <1>5, Zenon DEF FeedData
  <2>3. \/ worker' = [worker EXCEPT ![w] = [@ EXCEPT !.pc = "close"]]
        \/ worker' = [worker EXCEPT ![w] = [@ EXCEPT !.pc = "stop"]]
      BY <1>5, Zenon DEF FeedData
  <2>4. \A v \in Workers : worker'[v].pc = "feed" => v # w /\ worker'[v] = worker[v]
      BY <1>0, <2>3 DEF WorkerTypes
  <2>5. \A v \in Workers : worker'[v].pc = "feed" => worker[v].t # t
      BY <1>0, <2>1, <2>4 DEF FeedInv
  <2>6. fed'[t] \in {0, 1} /\ \A u \in Tasks : u # t => fed'[u] = fed[u]
      BY <1>0, <2>1, <2>2
  <2>7. \A v \in Workers : worker[v].pc = "feed" => worker[v].t \in Tasks
      BY <1>0 DEF WorkerTypes
  <2> HIDE DEF t
  <2>8. FedOnce'
      BY <1>0, <2>6 DEF FedOnce
  <2> QED
      BY <1>0, <2>1, <2>2, <2>4, <2>5, <2>6, <2>7, <2>8 DEF FeedInv
(* The other steps of a worker do not make it feed. *)
<1>6. ASSUME NEW w \in Workers, Take(w) \/ Close(w) \/ FeedFailed(w) \/ FeedStopped(w)
      PROVE  FedOnce' /\ FeedInv'
  <2>1. UNCHANGED <<status, fed>>
      BY <1>6, ShutdownFrame, Zenon DEF Take, Close, FeedFailed, FeedStopped, session
  <2>2. \/ worker' = [worker EXCEPT ![w] = [pc |-> "send", t |-> Head(jobs)]]
        \/ worker' = [worker EXCEPT ![w] = Idle]
        \/ worker' = [worker EXCEPT ![w] = [@ EXCEPT !.pc = "wait"]]
      BY <1>6, Zenon DEF Take, Close, FeedFailed, FeedStopped
  <2>3. \A v \in Workers : worker'[v].pc = "feed" => worker'[v] = worker[v]
      BY <1>0, <2>2 DEF WorkerTypes, Idle
  <2> QED
      BY <1>0, <2>1, <2>3 DEF FedOnce, FeedInv
<1>7. ASSUME NEW w \in Workers, Pool(w) PROVE FedOnce' /\ FeedInv'
    BY <1>4, <1>5, <1>6, <1>7, Zenon DEF Pool
<1> QED
    BY <1>1, <1>2, <1>3, <1>4, <1>7, StatusSteps, NextSteps, ClientFrame, ReceiveFrame, FlowFrame
       DEF vars, session

-----------------------------------------------------------------------------
(* A task is ended once. *)

LEMMA SelectStep == IInv /\ [Next]_vars => SelectInv'
<1> SUFFICES ASSUME IInv, [Next]_vars PROVE SelectInv'
    OBVIOUS
<1>0. status \in [Tasks -> Statuses] /\ RecvTypes /\ ListTypes /\ SelectInv
    BY DEF IInv, Types
(* The lists and what is to do only shrink, at the same place. *)
<1>1. ASSUME UNCHANGED status, UNCHANGED recv,
             known' \subseteq known, external' \subseteq external, selected' \subseteq selected
      PROVE  SelectInv'
    BY <1>0, <1>1 DEF SelectInv, RecvTypes
<1>2. ASSUME UNCHANGED status, UNCHANGED <<known, external>>, selected' \subseteq selected,
             recv'.todo \subseteq recv.todo,
             \/ /\ recv.pc \in {"next", "recv", "lock", "update"}
                /\ recv'.pc \in {"next", "recv", "update"}
                /\ recv'.pc = "update" => recv.pc = "lock" /\ recv'.t = recv.t
             \/ recv'.pc = "lock" /\ recv.pc = "recv" /\ recv'.t \notin selected'
             \/ recv'.pc \in {"select", "scan", "submit", "push"}
      PROVE  SelectInv'
    BY <1>0, <1>2 DEF SelectInv, RecvTypes
<1>3. ASSUME NEW c \in Clients, NEW t \in Tasks, CreateTask(c, t) PROVE SelectInv'
  <2>1. /\ status[t] = "UNKNOWN" /\ status' = [status EXCEPT ![t] = "WAITING"]
        /\ known' = known \cup {t} /\ external' = external \cup {t}
        /\ selected' = selected \cup {t} /\ UNCHANGED recv
      BY <1>3 DEF CreateTask
  <2>2. t \notin recv.todo
      BY <1>0, <2>1 DEF SelectInv
  <2>3. \A u \in Tasks : u # t => status'[u] = status[u]
      BY <1>0, <2>1
  <2>4. status'[t] = "WAITING"
      BY <1>0, <2>1
  <2>5. "WAITING" \notin Over /\ "WAITING" # "UNKNOWN"
      BY DEF Over
  <2> QED
      BY <1>0, <2>1, <2>2, <2>3, <2>4, <2>5 DEF SelectInv, RecvTypes
<1>4. ASSUME NEW w \in Workers, SendData(w), status[worker[w].t] = "WAITING" PROVE SelectInv'
  <2>1. /\ status' = [status EXCEPT ![worker[w].t] = "WORKING"]
        /\ UNCHANGED <<known, external, selected, recv>>
      BY <1>4 DEF SendData, manager
  <2>2. \A u \in Tasks : \/ status'[u] = status[u]
                         \/ status'[u] = "WORKING"
      BY <1>0, <2>1
  <2>3. "WORKING" \notin Over
      BY DEF Over
  <2> QED
      BY <1>0, <2>1, <2>2, <2>3 DEF SelectInv
<1>5. CASE UpdateTaskStatus
  <2>1. /\ recv.pc = "update" /\ status' = [status EXCEPT ![recv.t] = recv.result]
        /\ recv' = [recv EXCEPT !.pc = "count"] /\ UNCHANGED <<known, external, selected>>
      BY <1>5 DEF UpdateTaskStatus, At, manager
  <2>2. recv.t \in recv.todo /\ recv.t \in Tasks /\ recv.result \in Over
      BY <2>1 DEF IInv, Types, RecvTypes, EndInv
  <2>3. status'[recv.t] # "UNKNOWN" /\ \A u \in Tasks : u # recv.t => status'[u] = status[u]
      BY <1>0, <2>1, <2>2 DEF Over
  <2>4. recv'.pc = "count" /\ recv'.t = recv.t /\ recv'.todo = recv.todo
      BY <1>0, <2>1 DEF RecvTypes
  <2>5. recv.t \notin selected
      BY <1>0, <2>1 DEF SelectInv
  <2> QED
      BY <1>0, <2>1, <2>3, <2>4, <2>5 DEF SelectInv
<1>6. CASE ReceiveWork /\ ~UpdateTaskStatus
  <2>1. UNCHANGED <<status, known, external>>
      BY <1>6, ReceiveFrame, Zenon
         DEF ReceiveWork, Select, Recv, LockCount, UncountTask, Receive, IsReady,
             StartWaittingTask, SubmitWaiting, PushWaiting, ScanDone
  <2> USE DEF At, Done, RecvTypes
  <2>2. CASE Select
    <3>1. recv'.pc = "next" /\ recv'.todo \subseteq selected /\ UNCHANGED selected
        BY <1>0, <2>2 DEF Select, manager
    <3> QED
        BY <1>0, <2>1, <3>1 DEF SelectInv
  <2>3. ASSUME NEW t \in Tasks, Receive(t) PROVE SelectInv'
    <3>1. /\ recv'.todo \subseteq recv.todo /\ recv.pc = "next" /\ recv'.pc \in {"next", "recv"}
          /\ UNCHANGED selected
        BY <1>0, <2>3 DEF Receive, manager
    <3> QED
        BY <1>2, <2>1, <3>1
  <2>4. CASE Recv
    <3>1. /\ selected' \subseteq selected /\ recv'.todo \subseteq recv.todo /\ recv.pc = "recv"
          /\ recv'.pc = "next" \/ (recv'.pc = "lock" /\ recv'.t \notin selected')
        BY <1>0, <2>4, ZenonT(30) DEF Recv
    <3> QED
        BY <1>2, <2>1, <3>1
  <2>5. CASE LockCount
    <3>1. /\ recv.pc = "lock" /\ recv'.pc = "update" /\ recv'.t = recv.t
          /\ recv'.todo = recv.todo /\ UNCHANGED selected
        BY <1>0, <2>5 DEF LockCount
    <3> QED
        BY <1>2, <2>1, <3>1
  <2>6. CASE UncountTask
    <3>1. /\ recv.pc = "count" /\ recv'.pc = "next" /\ recv'.todo = recv.todo \ {recv.t}
          /\ UNCHANGED selected
        BY <1>0, <2>6 DEF UncountTask
    <3> QED
        BY <1>0, <2>1, <3>1 DEF SelectInv
  <2>7. CASE StartWaittingTask
    <3>1. /\ UNCHANGED selected
          /\ \/ recv'.pc = "select" /\ recv'.todo = recv.todo
             \/ recv'.pc = "scan" /\ recv'.todo = known
        BY <1>0, <2>7 DEF StartWaittingTask, manager
    <3>2. CASE recv'.pc = "scan" /\ recv'.todo = known
        BY <1>0, <2>1, <3>1, <3>2 DEF SelectInv
    <3> QED
        BY <1>2, <2>1, <3>1, <3>2
  <2>8. ASSUME NEW t \in Tasks, IsReady(t) PROVE SelectInv'
    <3>1. /\ recv'.todo \subseteq recv.todo /\ recv'.pc \in {"scan", "submit"}
          /\ UNCHANGED selected
        BY <1>0, <2>8 DEF IsReady, manager
    <3> QED
        BY <1>2, <2>1, <3>1
  <2>9. CASE SubmitWaiting \/ PushWaiting \/ ScanDone
    <3>1. /\ recv' = At("push") \/ recv' = Done("scan") \/ recv' = At("select")
          /\ UNCHANGED selected
        BY <2>9, Zenon DEF SubmitWaiting, Submit, PushWaiting, ScanDone, manager
    <3>2. recv'.todo \subseteq recv.todo /\ recv'.pc \in {"push", "scan", "select"}
        BY <1>0, <3>1, ZenonT(30)
    <3> QED
        BY <1>2, <2>1, <3>1, <3>2
  <2> QED
      BY <1>6, <2>2, <2>3, <2>4, <2>5, <2>6, <2>7, <2>8, <2>9, Zenon DEF ReceiveWork
<1>7. ASSUME NEW c \in Clients, ClientStep(c), UNCHANGED status PROVE SelectInv'
  <2>1. UNCHANGED recv
      BY <1>7, ClientFrame
  <2>2. ASSUME NEW t \in Tasks, CreateTask(c, t) PROVE SelectInv'
      BY <1>3, <2>2
  <2>3. \/ UNCHANGED <<known, external, selected>> \/ Stopped(c)
        \/ \E t \in Tasks : CreateTask(c, t) \/ DeleteTask(c, t)
      BY <1>7, Zenon DEF ClientStep, Call, Return, StartTask, StopTask, ClientSubmit, Submit,
                         ClientPush, DeleteStop, StopManager, manager
  <2>4. \/ \E t \in Tasks : CreateTask(c, t)
        \/ known' \subseteq known /\ external' \subseteq external /\ selected' \subseteq selected
      BY <2>3 DEF Stopped, DeleteTask
  <2> QED
      BY <1>1, <1>7, <2>1, <2>2, <2>4
<1>8. ASSUME UNCHANGED status PROVE SelectInv'
    BY <1>1, <1>6, <1>5, <1>7, <1>8, NextSteps, PoolFrame, FlowFrame DEF vars, manager
<1> QED
    BY <1>3, <1>4, <1>5, <1>8, StatusSteps, Zenon

LEMMA EndStep == IInv /\ [Next]_vars => EndInv'
<1> SUFFICES ASSUME IInv, [Next]_vars PROVE EndInv'
    OBVIOUS
<1>0. /\ status \in [Tasks -> Statuses] /\ out \in [Tasks -> Nat]
      /\ ended \in [Tasks -> BOOLEAN] /\ RecvTypes /\ EndInv
    BY DEF IInv, Types, SessionTypes
<1> USE DEF EndInv, OverMeansReceived
<1>1. ASSUME UNCHANGED <<recv, out, ended>>,
             \A t \in Tasks : status'[t] \in Over => status[t] \in Over
      PROVE  EndInv'
    BY <1>0, <1>1
<1>2. ASSUME NEW c \in Clients, NEW t \in Tasks, CreateTask(c, t) PROVE EndInv'
  <2>1. \A u \in Tasks : status'[u] \in Over => status[u] \in Over
      BY <1>0, <1>2 DEF CreateTask, Over
  <2> QED
      BY <1>1, <1>2, <2>1 DEF CreateTask, session
<1>3. ASSUME NEW w \in Workers, SendData(w) PROVE EndInv'
  <2>1. \A u \in Tasks : status'[u] \in Over => status[u] \in Over
      BY <1>0, <1>3 DEF SendData, Over
  <2> QED
      BY <1>1, <1>3, <2>1 DEF SendData, session
<1>4. CASE UpdateTaskStatus
  <2>1. /\ recv.pc = "update" /\ status' = [status EXCEPT ![recv.t] = recv.result]
        /\ UNCHANGED <<out, ended>> /\ recv'.pc = "count"
      BY <1>0, <1>4 DEF UpdateTaskStatus, At, session, RecvTypes
  <2>2. ended[recv.t] /\ out[recv.t] = 0
      BY <1>0, <2>1
  <2>3. \A u \in Tasks : u # recv.t => status'[u] = status[u]
      BY <1>0, <2>1
  <2> QED
      BY <1>0, <2>1, <2>2, <2>3
<1>5. CASE Recv
  <2>1. recv.t \in Tasks /\ UNCHANGED <<status, ended>>
      BY <1>0, <1>5 DEF Recv, RecvTypes
  <2>2. CASE out[recv.t] > 0
    <3>1. out' = [out EXCEPT ![recv.t] = 0] /\ recv' = Done("next")
        BY <1>5, <2>2, Zenon DEF Recv
    <3>2. recv'.pc = "next" /\ \A u \in Tasks : out[u] = 0 => out'[u] = 0
        BY <1>0, <3>1 DEF Done, RecvTypes
    <3> QED
        BY <1>0, <2>1, <3>2
  <2>3. CASE ~(out[recv.t] > 0)
    <3>1. UNCHANGED out /\ recv' = [At("lock") EXCEPT !.result = Result(recv.t)]
        BY <1>5, <2>3, Zenon DEF Recv
    <3>2. ended[recv.t] /\ out[recv.t] = 0
        BY <1>0, <1>5, <2>1, <2>3 DEF Recv, GetReadyFlag
    <3>3. Result(recv.t) \in Over
        BY <2>1 DEF Result, Over, Errors, IInv, Types, SessionTypes
    <3>4. recv'.t = recv.t /\ recv'.result = Result(recv.t)
        BY <1>0, <3>1 DEF At, RecvTypes
    <3> QED
        BY <1>0, <2>1, <3>1, <3>2, <3>3, <3>4
  <2> QED
      BY <2>2, <2>3
<1>6. CASE ReceiveWork /\ ~Recv /\ ~UpdateTaskStatus
  <2>1. UNCHANGED <<status, out, ended>>
      BY <1>6, ReceiveFrame, Zenon
         DEF ReceiveWork, Select, LockCount, UncountTask, Receive, IsReady,
             StartWaittingTask, SubmitWaiting, PushWaiting, ScanDone, session
  <2>2. \/ LockCount
        \/ recv' = [At("next") EXCEPT !.todo = {t \in selected : GetReadyFlag(t)}]
        \/ \E pc \in {"recv", "submit"}, t \in Tasks : recv' = [At(pc) EXCEPT !.t = t]
        \/ recv.pc \in {"next", "scan"} /\ \E t \in Tasks : recv' = [recv EXCEPT !.todo = @ \ {t}]
        \/ recv' = Done("next") \/ recv' = Done("scan")
        \/ recv' = At("select") \/ recv' = At("push")
        \/ recv' = [At("scan") EXCEPT !.todo = known]
      BY <1>6, ZenonT(30)
         DEF ReceiveWork, Select, UncountTask, Receive, IsReady, StartWaittingTask,
             SubmitWaiting, PushWaiting, ScanDone
  <2>3. \/ recv'.pc \notin {"lock", "update"}
        \/ recv.pc = "lock" /\ recv'.t = recv.t /\ recv'.result = recv.result
      BY <1>0, <2>2, ZenonT(30) DEF LockCount, At, Done, RecvTypes
  <2> QED
      BY <1>0, <2>1, <2>3
<1>7. ASSUME NEW t \in Tasks, Flow(t) PROVE EndInv'
  <2>1. UNCHANGED <<status, recv>>
      BY <1>7, FlowFrame
  <2>2. \A u \in Tasks : ended[u] => ended'[u] /\ out'[u] = out[u]
      BY <1>0, <1>7 DEF Flow, Output, Fail, SessionEnd
  <2>3. recv.pc \in {"lock", "update"} => recv.t \in Tasks
      BY <1>0 DEF RecvTypes
  <2> QED
      BY <1>0, <2>1, <2>2, <2>3
<1>8. ASSUME UNCHANGED status PROVE EndInv'
    BY <1>1, <1>4, <1>5, <1>6, <1>7, <1>8, NextSteps, ClientFrame, PoolFrame DEF vars, session
<1> QED
    BY <1>2, <1>3, <1>4, <1>8, StatusSteps, Zenon

LEMMA Step == IInv /\ [Next]_vars => IInv'
    BY TypesStep, FeedStep, SelectStep, EndStep DEF IInv

LEMMA Invariant == Spec => []IInv
    BY InitInv, Step, PTL DEF Spec

-----------------------------------------------------------------------------
(* SendData feeds the data of a task once, although Start and              *)
(* StartWaittingTask may queue the task twice and several pool threads     *)
(* take it.                                                                *)
THEOREM TaskFedOnce == Spec => []FedOnce
<1>1. IInv => FedOnce
    BY DEF IInv
<1> QED
    BY <1>1, Invariant, PTL

(* A client that sees a task over, whatever it stopped or deleted          *)
(* meanwhile, has been given all its results: the receiving thread updates *)
(* the status after the last Recv.                                         *)
THEOREM ReceivedBeforeOver == Spec => []OverMeansReceived
<1>1. IInv => OverMeansReceived
    BY DEF IInv, EndInv
<1> QED
    BY <1>1, Invariant, PTL

(* A task that is over keeps its status, and no task waits again: the      *)
(* receiving thread updates the status of a task once, and SendData leaves *)
(* a task alone that does not wait.                                        *)
THEOREM OverIsFinal == Spec => StatusMoves
<1> DEFINE Moves == \A t \in Tasks :
               /\ status[t] \in Over => status'[t] = status[t]
               /\ status[t] = "WORKING" => status'[t] # "WAITING"
<1>1. IInv /\ [Next]_vars => [Moves]_vars
  <2> SUFFICES ASSUME IInv, [Next]_vars PROVE Moves
      OBVIOUS
  <2>0. status \in [Tasks -> Statuses]
      BY DEF IInv, Types
  <2>1. CASE UNCHANGED status
      BY <2>1
  <2>2. ASSUME NEW c \in Clients, NEW t \in Tasks, CreateTask(c, t) PROVE Moves
      BY <2>0, <2>2 DEF CreateTask, Over
  <2>3. ASSUME NEW w \in Workers, SendData(w), status[worker[w].t] = "WAITING" PROVE Moves
      BY <2>0, <2>3 DEF SendData, Over
  <2>4. CASE UpdateTaskStatus
    <3>1. recv.pc = "update" /\ status' = [status EXCEPT ![recv.t] = recv.result]
        BY <2>4 DEF UpdateTaskStatus
    <3>2. recv.result \in Over /\ recv.t \in Tasks /\ status[recv.t] \notin Over
        BY <3>1 DEF IInv, EndInv, SelectInv, Types, RecvTypes
    <3> QED
        BY <2>0, <3>1, <3>2 DEF Over
  <2> QED
      BY <2>1, <2>2, <2>3, <2>4, StatusSteps, Zenon
<1> QED
    BY <1>1, Invariant, PTL DEF Spec, StatusMoves
=============================================================================
