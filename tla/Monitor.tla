------------------------------ MODULE Monitor ------------------------------
(***************************************************************************)
(* The watchdog of the manager (manager_monitor.c, manager.c) for one      *)
(* application: app_monitor receives the heartbeats of the processes,      *)
(* checks the process it takes for the application, stops one that does    *)
(* not answer and starts another.  The manager may crash and be started    *)
(* again; the message queue and the processes outlive it.                  *)
(*                                                                         *)
(* Points in time are kept as ages that stop at their limit, so that time  *)
(* needs no bound.  A pid is not used again while someone still refers to  *)
(* it.  The command that may be run in place of SIGSEGV, like the signal,  *)
(* may end the process or not.                                             *)
(***************************************************************************)
EXTENDS Integers, FiniteSets, Sequences

CONSTANTS
    Procs,      \* the pids
    NoProc,     \* -1
    Timeout,    \* check_alive_time, and the 10 s of APP_PENDING
    Interval,   \* start_limit_interval
    Burst,      \* start_limit_burst
    ForceKill,  \* conf_force_kill_time
    MaxMsgs,    \* what the message queue holds
    MaxCrashes  \* bound: crashes of the manager

ASSUME MonitorAssumption ==
    /\ NoProc \notin Procs
    /\ {Timeout, Interval, Burst, ForceKill, MaxMsgs, MaxCrashes} \subseteq Nat \ {0}

VARIABLES
    pidFile,    \* whether the application has a pid file
    checkAlive, \* check_alive
    proc,       \* proc[p]: what the process does, whether it is a child of the
                \* manager and holds the lock of the pid file
    msgs,       \* the message queue
    manager,    \* what the manager does: "down", "recv", "check" or "wait"
    crashes,
    app         \* the control block

monitorVars == <<pidFile, checkAlive, proc, msgs, manager, crashes, app>>

NoApp == [state |-> "not_running", pid |-> NoProc, alive |-> Timeout, start |-> Interval,
          dead |-> ForceKill, count |-> 0]

MonitorInit ==
    /\ pidFile \in BOOLEAN /\ checkAlive \in BOOLEAN
    /\ proc = [p \in Procs |-> [is |-> "gone", child |-> FALSE, locked |-> FALSE]]
    /\ msgs = <<>> /\ manager = "down" /\ crashes = 0
    /\ app = NoApp

Running(p) == proc[p].is \in {"alive", "hung", "killed"}
Exists(p) == p # NoProc /\ proc[p].is # "gone"       \* kill(p, 0) == 0
PidOfFile == {p \in Procs : proc[p].locked}
Unused(p) == /\ proc[p].is = "gone" /\ app.pid # p
             /\ \A i \in 1..Len(msgs) : msgs[i].pid # p
Older(age, limit) == IF age < limit THEN age + 1 ELSE limit

-----------------------------------------------------------------------------
(* The processes, and time. *)

ProcEnd(p) == [proc[p] EXCEPT !.is = IF proc[p].child THEN "zombie" ELSE "gone",
                              !.locked = FALSE]

Exit(p) ==
    /\ Running(p) /\ proc' = [proc EXCEPT ![p] = ProcEnd(p)]
    /\ UNCHANGED <<pidFile, checkAlive, msgs, manager, crashes, app>>

Hang(p) ==
    /\ proc[p].is = "alive" /\ proc' = [proc EXCEPT ![p].is = "hung"]
    /\ UNCHANGED <<pidFile, checkAlive, msgs, manager, crashes, app>>

(* The process writes its pid file, itself or from a daemon it has forked. *)
WritePidFile(p) ==
    /\ pidFile /\ proc[p].is = "alive" /\ PidOfFile = {}
    /\ \/ proc' = [proc EXCEPT ![p].locked = TRUE]
       \/ \E d \in Procs : /\ Unused(d)
                           /\ proc' = [proc EXCEPT ![p] = ProcEnd(p),
                                ![d] = [is |-> "alive", child |-> FALSE, locked |-> TRUE]]
    /\ UNCHANGED <<pidFile, checkAlive, msgs, manager, crashes, app>>

(* app_monitor_heartbeat: the message is lost if the queue is full. *)
Heartbeat(p) ==
    /\ checkAlive /\ proc[p].is = "alive" /\ Len(msgs) < MaxMsgs
    /\ msgs' = Append(msgs, [pid |-> p, alive |-> 0])
    /\ UNCHANGED <<pidFile, checkAlive, proc, manager, crashes, app>>

MonitorTick ==
    /\ app' = [app EXCEPT !.alive = Older(@, Timeout), !.start = Older(@, Interval),
                          !.dead = Older(@, ForceKill)]
    /\ msgs' = [i \in 1..Len(msgs) |-> [msgs[i] EXCEPT !.alive = Older(@, Timeout)]]
    /\ UNCHANGED <<pidFile, checkAlive, proc, manager, crashes>>

-----------------------------------------------------------------------------
(* The manager. *)

Attached(p) == [app EXCEPT !.state = "running", !.pid = p, !.alive = 0]

(* _app_heartbeat_process with the oldest message.  A process that is not  *)
(* the one that is monitored is killed if both exist.                      *)
HeartbeatProcess ==
    /\ manager = "recv" /\ msgs # <<>>
    /\ LET msg == Head(msgs)
           fresh == IF msg.alive <= app.alive THEN msg.alive ELSE app.alive
       IN CASE app.state = "pending" /\ app.pid = NoProc ->
                 app' = [app EXCEPT !.state = "running", !.pid = msg.pid, !.alive = msg.alive]
                 /\ UNCHANGED proc
            [] app.state = "pending" /\ app.pid # NoProc /\ PidOfFile # {} ->
                 (\E p \in PidOfFile : app' = Attached(p)) /\ UNCHANGED proc
            [] OTHER ->
                 \/ /\ app.pid = msg.pid \/ (Exists(msg.pid) /\ ~Exists(app.pid))
                    /\ app' = [app EXCEPT !.pid = msg.pid, !.alive = fresh]
                    /\ UNCHANGED proc
                 \/ /\ app.pid # msg.pid /\ Exists(msg.pid) /\ Exists(app.pid)
                    /\ proc' = [proc EXCEPT ![msg.pid].is = IF @ = "zombie" THEN @ ELSE "killed"]
                    /\ UNCHANGED app
                 \/ /\ app.pid # msg.pid /\ ~Exists(msg.pid)
                    /\ UNCHANGED <<app, proc>>
    /\ msgs' = Tail(msgs)
    /\ UNCHANGED <<pidFile, checkAlive, manager, crashes>>

(* msgrcv finds no more messages. *)
RecvEnd ==
    /\ manager = "recv" /\ msgs = <<>> /\ manager' = "check"
    /\ UNCHANGED <<pidFile, checkAlive, proc, msgs, crashes, app>>

(* _app_state_check: "ok", or the state in which the process is stopped. *)
StateCheck ==
    IF app.state \notin {"running", "pending"} THEN app.state
    ELSE IF app.pid = NoProc THEN app.state
    ELSE IF ~Exists(app.pid) /\ app.state # "pending" THEN "not_running"
    ELSE IF (~checkAlive /\ app.state = "running") \/ app.alive < Timeout THEN "ok"
    ELSE "dead"

Cleared(a) == [a EXCEPT !.pid = NoProc, !.alive = Timeout, !.state = "not_running"]

(* waitpid: a child that has ended, maybe by the signal just sent, is      *)
(* reaped.                                                                 *)
Reap(a, procs) ==
    {[app |-> a, proc |-> procs]} \cup
    (IF procs[a.pid].child /\ procs[a.pid].is \in {"zombie", "killed"}
     THEN {[app |-> Cleared(a), proc |-> [procs EXCEPT ![a.pid].is = "gone",
                                                       ![a.pid].locked = FALSE]]}
     ELSE {})

Kill(p) == [proc EXCEPT ![p].is = IF @ = "zombie" THEN @ ELSE "killed"]

(* Mutant of StopOutcomes: a process that is exiting is waited for. *)
StopOutcomes_Waits(state) ==
    LET a == [app EXCEPT !.state = state]
    IN IF a.pid = NoProc THEN {[app |-> a, proc |-> proc]}
       ELSE IF ~Exists(a.pid) THEN {[app |-> Cleared(a), proc |-> proc]}
       ELSE IF state = "dead" THEN Reap([a EXCEPT !.state = "exiting", !.dead = 0], proc)
       ELSE IF state = "exiting" THEN Reap(a, proc)
       ELSE Reap(a, Kill(a.pid))

(* Mutant of StopOutcomes: the process is forgotten when it is killed. *)
StopOutcomes_Forgets(state) ==
    LET a == [app EXCEPT !.state = state]
    IN IF a.pid = NoProc THEN {[app |-> a, proc |-> proc]}
       ELSE IF ~Exists(a.pid) THEN {[app |-> Cleared(a), proc |-> proc]}
       ELSE IF state = "dead" THEN Reap([a EXCEPT !.state = "exiting", !.dead = 0], proc)
       ELSE IF state = "exiting" /\ a.dead < ForceKill THEN Reap(a, proc)
       ELSE {[app |-> Cleared(a), proc |-> Kill(a.pid)]}

(* _app_stop(app, 0) in the given state: a process that does not answer    *)
(* gets some time to exit, and is killed then.                             *)
StopOutcomes(state) ==
    LET a == [app EXCEPT !.state = state]
    IN IF a.pid = NoProc THEN {[app |-> a, proc |-> proc]}
       ELSE IF ~Exists(a.pid) THEN {[app |-> Cleared(a), proc |-> proc]}
       ELSE IF state = "dead" THEN Reap([a EXCEPT !.state = "exiting", !.dead = 0], proc)
       ELSE IF state = "exiting" /\ a.dead < ForceKill THEN Reap(a, proc)
       ELSE Reap([a EXCEPT !.state = IF state = "exiting" THEN "force_kill" ELSE @],
                 Kill(a.pid))

(* There is no pid left. *)
ForkFails == \A p \in Procs : ~Unused(p)

(* Mutant of StartOutcomes: the count of starts is never reset. *)
StartOutcomes_NoReset(r) ==
    LET limited == r.app.start < Interval
        count == IF limited THEN Older(r.app.count, Burst + 1) ELSE r.app.count
    IN IF r.app.pid # NoProc THEN {r}
       ELSE IF count > Burst \/ ForkFails THEN {[r EXCEPT !.app.count = count]}
       ELSE {[app |-> [r.app EXCEPT !.state = IF pidFile THEN "pending" ELSE "running",
                          !.pid = p, !.alive = 0, !.start = 0, !.dead = ForceKill,
                          !.count = count],
              proc |-> [r.proc EXCEPT ![p] = [is |-> "alive", child |-> TRUE,
                                              locked |-> FALSE]]] : p \in
                {q \in Procs : Unused(q)}}

(* _app_start: a process is started unless there is one, or too many were  *)
(* started in too short a time.                                            *)
StartOutcomes(r) ==
    LET limited == r.app.start < Interval
        count == IF limited THEN Older(r.app.count, Burst + 1) ELSE 0
    IN IF r.app.pid # NoProc THEN {r}
       ELSE IF count > Burst \/ ForkFails THEN {[r EXCEPT !.app.count = count]}
       ELSE {[app |-> [r.app EXCEPT !.state = IF pidFile THEN "pending" ELSE "running",
                          !.pid = p, !.alive = 0, !.start = 0, !.dead = ForceKill,
                          !.count = count],
              proc |-> [r.proc EXCEPT ![p] = [is |-> "alive", child |-> TRUE,
                                              locked |-> FALSE]]] : p \in
                {q \in Procs : Unused(q)}}

(* _app_timeout_check and, for one that is not running, _app_restart. *)
TimeoutCheck ==
    /\ manager = "check" /\ manager' = "wait"
    /\ IF app.state = "pending" /\ PidOfFile # {}
       THEN (\E p \in PidOfFile : app' = Attached(p)) /\ UNCHANGED proc
       ELSE IF StateCheck = "ok" THEN UNCHANGED <<app, proc>>
       ELSE \E r \in StopOutcomes(StateCheck) : \E q \in StartOutcomes(r) :
              app' = q.app /\ proc' = q.proc
    /\ UNCHANGED <<pidFile, checkAlive, msgs, crashes>>

(* _app_waitchild reaps every child that has ended; the next round begins. *)
WaitChild ==
    /\ manager = "wait" /\ manager' = "recv"
    /\ proc' = [p \in Procs |-> IF proc[p].is = "zombie"
                                THEN [proc[p] EXCEPT !.is = "gone"] ELSE proc[p]]
    /\ UNCHANGED <<pidFile, checkAlive, msgs, crashes, app>>

ManagerCrash ==
    /\ manager # "down" /\ crashes < MaxCrashes
    /\ manager' = "down" /\ crashes' = crashes + 1
    /\ proc' = [p \in Procs |-> [proc[p] EXCEPT !.child = FALSE,
                                     !.is = IF @ = "zombie" THEN "gone" ELSE @]]
    /\ app' = NoApp
    /\ UNCHANGED <<pidFile, checkAlive, msgs>>

(* manager_init_server.  When it finds the message queue of a manager that *)
(* crashed, app_start looks for a process: by the pid file, or else with   *)
(* pgrep, which leaves last_alive as it is.                                *)
ManagerStart ==
    /\ manager = "down" /\ manager' = "recv"
    /\ IF crashes = 0 THEN UNCHANGED app
       ELSE IF pidFile
       THEN IF PidOfFile # {} THEN \E p \in PidOfFile : app' = Attached(p)
            ELSE app' = [app EXCEPT !.state = "pending"]
       ELSE LET found == {p \in Procs : Running(p)}
            IN IF found # {} THEN \E p \in found : app' = [app EXCEPT !.state = "running",
                                                                      !.pid = p]
               ELSE UNCHANGED app
    /\ UNCHANGED <<pidFile, checkAlive, proc, msgs, crashes>>

ManagerStep == HeartbeatProcess \/ RecvEnd \/ TimeoutCheck \/ WaitChild \/ ManagerStart

MonitorNext ==
    \/ \E p \in Procs : Exit(p) \/ Hang(p) \/ WritePidFile(p) \/ Heartbeat(p)
    \/ MonitorTick \/ ManagerStep \/ ManagerCrash

(* The manager runs every half second, and heartbeats are further apart    *)
(* than the time to receive one.  A process that was killed ends.          *)
MonitorFairness ==
    /\ WF_monitorVars(MonitorTick) /\ WF_monitorVars(ManagerStep) /\ SF_monitorVars(RecvEnd)
    /\ \A p \in Procs : WF_monitorVars(proc[p].is = "killed" /\ Exit(p))

MonitorSpec == MonitorInit /\ [][MonitorNext]_monitorVars
MonitorFairSpec == MonitorSpec /\ MonitorFairness

-----------------------------------------------------------------------------
(* An application that has no pid file never has two processes, not even   *)
(* while a process that does not answer is replaced, nor when the manager  *)
(* was restarted: _app_start waits until the old process is reaped.        *)
OneInstance == ~pidFile => Cardinality({p \in Procs : Running(p)}) <= 1

(* When the application has ended it is started again, however often it    *)
(* was started before: the start limit only delays it.                     *)
Restarted == manager # "down" /\ (\A p \in Procs : ~Running(p))
                 ~> (\E p \in Procs : Running(p))

(* A monitored process that does not answer is not left like that.         *)
HungIsStopped == []<>~(checkAlive /\ app.pid # NoProc /\ proc[app.pid].is = "hung")
=============================================================================
