---------------------------- MODULE FlowScheduler ----------------------------
(***************************************************************************)
(* FlowScheduler of src/libmodelbox/engine/scheduler/flow_scheduler.cc     *)
(* with the node runs it submits to the thread pool, the ports they read   *)
(* and write, a client that feeds the graph and one that shuts it down.    *)
(*                                                                         *)
(* One step is one critical section: a hub operation, a queue operation or *)
(* an access to an atomic field.  What a flow unit computes is left out: a *)
(* run sends one element for each element it received, and a node of       *)
(* EventNodes also sends events to itself, as an expanding node does.      *)
(* RunImpl occupies a thread of the pool of its own; the Workers are the   *)
(* others.                                                                 *)
(***************************************************************************)
EXTENDS DataHub

CONSTANTS
    Nodes,        \* node_port_map_: the nodes with a notify port
    DataPorts,    \* DataPorts[n]: its input (or extern) ports, in order
    EventPort,    \* EventPort[n]: its event_port_
    Targets,      \* Targets[n]: the connected in-ports of each connected out-port
    Capacity,     \* Capacity[p]: capacity_ of the queue of an in-port
    CmdPort,      \* scheduler_event_port_
    ExtPorts,     \* the extern ports of the graph, in the order SendMatchData fills them
    FirstExt,     \* graph_input_node_ports_.begin(), the one it notifies
    Workers,      \* threads of the pool
    EventNodes,   \* nodes that send events to themselves
    MayFail,      \* nodes whose run may return an error
    MaxSends,     \* bound: sends of the client
    MaxEvents     \* bound: events a node sends to itself

PortsOf(n) == {DataPorts[n][i] : i \in DOMAIN DataPorts[n]} \cup {EventPort[n]}
NodePorts == UNION {PortsOf(n) : n \in Nodes}
NodeOf(p) == CHOOSE n \in Nodes : p \in PortsOf(n)

ASSUME GraphAssumption ==
    /\ Nodes # {} /\ IsFiniteSet(Workers)
    /\ \A n \in Nodes : DataPorts[n] \in Seq(Ports) /\ EventPort[n] \in Ports
    /\ \A m, n \in Nodes : m # n => PortsOf(m) \cap PortsOf(n) = {}
    /\ CmdPort \in Ports \ NodePorts
    /\ Ports = NodePorts \cup {CmdPort}
    /\ \A n \in Nodes : Targets[n] \in Seq(Seq(Ports) \ {<<>>})
    /\ ExtPorts \in Seq(Ports) /\ \E i \in DOMAIN ExtPorts : ExtPorts[i] = FirstExt
    /\ Capacity \in [Ports -> Nat]
    /\ EventNodes \subseteq Nodes /\ MayFail \subseteq Nodes
    /\ MaxSends \in Nat /\ MaxEvents \in Nat

VARIABLES
    sched,        \* RunImpl: its program counter and active_port
    is_stop,      \* is_stop_
    is_wait_stop, \* is_wait_stop_
    count,        \* running_node_count_
    status,       \* nodes_runing_status_
    tasks,        \* the work queue of the pool: <<node, port>>
    run,          \* run[w]: the RunWapper call of worker w
    events,       \* events[n]: events n still sends to itself
    client,       \* ExternalDataMap::Send of the client
    stopper       \* Shutdown(): its program counter

pool == <<tasks, run>>
vars == <<data, closed, running, active, sched, is_stop, is_wait_stop, count,
          status, tasks, run, events, client, stopper>>

NoRun == [pc |-> "idle", node |-> CHOOSE n \in Nodes : TRUE, rest |-> <<>>,
          got |-> 0, sends |-> <<>>, i |-> 1]

Init ==
    /\ HubInit
    /\ sched = [pc |-> "start", port |-> CmdPort]
    /\ is_stop = FALSE /\ is_wait_stop = FALSE /\ count = 0
    /\ status = [n \in Nodes |-> FALSE]
    /\ tasks = <<>>
    /\ run = [w \in Workers |-> NoRun]
    /\ events \in [Nodes -> 0..MaxEvents] /\ \A n \in Nodes \ EventNodes : events[n] = 0
    /\ client \in [left : 0..MaxSends, i : {1}]
    /\ stopper = "no"

-----------------------------------------------------------------------------
(* RunImpl, the loop of the scheduler. *)

To(pc) == sched' = [sched EXCEPT !.pc = pc]

(* The flags are reset when RunImpl starts, whatever Shutdown() did before. *)
Start ==
    /\ sched.pc = "start"
    /\ is_stop' = FALSE /\ is_wait_stop' = FALSE
    /\ To("loop")
    /\ UNCHANGED <<data, closed, hub, count, status, pool, events, client, stopper>>

Loop ==
    /\ sched.pc = "loop"
    /\ To(IF is_stop THEN "shutdown" ELSE "select")
    /\ UNCHANGED <<data, closed, hub, is_stop, is_wait_stop, count, status, pool,
                   events, client, stopper>>

Select ==
    /\ sched.pc = "select"
    /\ \E p \in active :
          /\ SelectActivePort(p)
          /\ sched' = [pc |-> IF p = CmdPort THEN "command" ELSE "disable", port |-> p]
    /\ UNCHANGED <<data, closed, is_stop, is_wait_stop, count, status, pool, events,
                   client, stopper>>

(* STATUS_TIMEDOUT: CheckScheduleStatus only reports. *)
SelectTimeout ==
    /\ sched.pc = "select" /\ active = {}
    /\ To("loop")
    /\ UNCHANGED <<data, closed, hub, is_stop, is_wait_stop, count, status, pool,
                   events, client, stopper>>

(* RunCommand: the pop, whose notification is void while the port is running ... *)
RunCommand ==
    /\ sched.pc = "command"
    /\ data' = [data EXCEPT ![CmdPort] = IF @ > 0 THEN @ - 1 ELSE 0]
    /\ PortEventCallback(CmdPort, data')
    /\ To(IF data[CmdPort] > 0 THEN "stop" ELSE "rearm")
    /\ UNCHANGED <<closed, is_stop, is_wait_stop, count, status, pool, events, client, stopper>>

(* ... then AddToActivePort; COMMAND_STOP and COMMAND_ERROR both end the loop. *)
Rearm ==
    /\ sched.pc \in {"stop", "rearm"}
    /\ AddToActivePort({CmdPort}, data)
    /\ is_stop' = (is_stop \/ sched.pc = "stop")
    /\ To(IF sched.pc = "stop" THEN "shutdown" ELSE "loop")
    /\ UNCHANGED <<data, closed, is_wait_stop, count, status, pool, events, client, stopper>>

(* RunNode: DisableActivePort in two critical sections, then Submit. *)
Disable ==
    /\ sched.pc = "disable"
    /\ RemoveFromActivePort(PortsOf(NodeOf(sched.port)))
    /\ To("mark")
    /\ UNCHANGED <<data, closed, is_stop, is_wait_stop, count, status, pool, events,
                   client, stopper>>

(* The rest of DisableActivePort, and running_node_count_++. *)
Mark ==
    /\ sched.pc = "mark"
    /\ status' = [status EXCEPT ![NodeOf(sched.port)] = TRUE]
    /\ count' = count + 1
    /\ To("submit")
    /\ UNCHANGED <<data, closed, hub, is_stop, is_wait_stop, pool, events, client, stopper>>

Submit ==
    /\ sched.pc = "submit"
    /\ tasks' = Append(tasks, <<NodeOf(sched.port), sched.port>>)
    /\ To("loop")
    /\ UNCHANGED <<data, closed, hub, is_stop, is_wait_stop, count, status, run, events,
                   client, stopper>>

(* ShutdownNodes: NotifyPort::Shutdown of every port of every node, in the order of
   the map, which is fixed and unspecified. *)
ShutdownPort ==
    /\ sched.pc = "shutdown"
    /\ \/ /\ \E p \in NodePorts : ~closed[p]
          /\ closed' = [closed EXCEPT ![CHOOSE p \in NodePorts : ~closed[p]] = TRUE]
          /\ UNCHANGED sched
       \/ (\A p \in NodePorts : closed[p]) /\ To("wait") /\ UNCHANGED closed
    /\ UNCHANGED <<data, hub, is_stop, is_wait_stop, count, status, pool, events, client,
                   stopper>>

(* Mutant of WaitNodeFinish: the predicate is not tested again after the wakeup. *)
WaitNodeFinish_Once ==
    /\ sched.pc \in {"wait", "woken"}
    /\ is_wait_stop' = TRUE
    /\ To(IF count = 0 \/ sched.pc = "woken" THEN "done" ELSE "waiting")
    /\ UNCHANGED <<data, closed, hub, is_stop, count, status, pool, events, client, stopper>>

(* WaitNodeFinish: cv_.wait tests its predicate now and after a notification. *)
WaitNodeFinish ==
    /\ sched.pc \in {"wait", "woken"}
    /\ is_wait_stop' = TRUE
    /\ To(IF count = 0 THEN "done" ELSE "waiting")
    /\ UNCHANGED <<data, closed, hub, is_stop, count, status, pool, events, client, stopper>>

Scheduler ==
    \/ Start \/ Loop \/ Select \/ SelectTimeout \/ RunCommand \/ Rearm \/ Disable \/ Mark
    \/ Submit \/ ShutdownPort \/ WaitNodeFinish

-----------------------------------------------------------------------------
(* RunWapper: a node run on a thread of the pool. *)

Stays == UNCHANGED <<sched, is_stop, is_wait_stop, client, stopper>>

(* A run for the event port is an EVENT run, any other a DATA run. *)
Reads(n, p) == IF p = EventPort[n] THEN <<p>> ELSE DataPorts[n]

Take(w) ==
    /\ run[w].pc = "idle" /\ tasks # <<>>
    /\ LET t == Head(tasks)
       IN  run' = [run EXCEPT ![w] = [NoRun EXCEPT !.pc = "recv", !.node = t[1],
                                                   !.rest = Reads(t[1], t[2])]]
    /\ tasks' = Tail(tasks)
    /\ UNCHANGED <<data, closed, hub, count, status, events>> /\ Stays

(* An in-port is read up to the capacity of its queue, an extern port and an event
   port as far as it is filled; only a read that got something notifies. *)
Unbounded(p) ==
    (\E n \in Nodes : p = EventPort[n]) \/ (\E i \in DOMAIN ExtPorts : p = ExtPorts[i])

ReadCount(p) == IF Unbounded(p) \/ data[p] < Capacity[p] THEN data[p] ELSE Capacity[p]

Recv(w) ==
    /\ run[w].pc = "recv" /\ run[w].rest # <<>>
    /\ LET p == Head(run[w].rest)
           d == [data EXCEPT ![p] = @ - ReadCount(p)]
       IN  /\ data' = d
           /\ IF ReadCount(p) > 0 THEN PortEventCallback(p, d) ELSE UNCHANGED hub
           /\ run' = [run EXCEPT ![w].rest = Tail(@), ![w].got = @ + ReadCount(p)]
    /\ UNCHANGED <<closed, count, status, tasks, events>> /\ Stays

(* What a run that received k elements sends: the event of an expanding node, then
   for each of its m data contexts (streams) one Send per out-port. *)
SendList(n, k, m) ==
    LET outs == Targets[n]
    IN  (IF events[n] > 0 THEN <<[to |-> <<EventPort[n]>>, size |-> 1]>> ELSE <<>>)
            \o [i \in 1..(m * Len(outs)) |-> [to |-> outs[1 + ((i - 1) % Len(outs))],
                                              size |-> k \div m]]

Command == [to |-> <<CmdPort>>, size |-> 1]

(* Node::Run after Recv: nothing to do, output to send, or a batch that fails, after
   which RunWapper sends COMMAND_ERROR. *)
Process(w) ==
    /\ run[w].pc = "recv" /\ run[w].rest = <<>>
    /\ LET n == run[w].node
           Continue(s) == run' = [run EXCEPT ![w].sends = s, ![w].i = 1,
                                             ![w].pc = IF s = <<>> THEN "enable" ELSE "push"]
       IN  \/ run[w].got = 0 /\ Continue(<<>>) /\ UNCHANGED events
           \/ /\ run[w].got > 0
              /\ \E m \in {1, run[w].got} :
                    LET s == SendList(n, run[w].got, m)
                    IN  \/ Continue(s)
                        \/ /\ n \in MayFail
                           /\ \E j \in 0..Len(s) : Continue(SubSeq(s, 1, j) \o <<Command>>)
              /\ events' = [events EXCEPT ![n] = IF @ > 0 THEN @ - 1 ELSE 0]
    /\ UNCHANGED <<data, closed, hub, count, status, tasks>> /\ Stays

Forced(p) == p = CmdPort \/ Unbounded(p)

(* OutPort::Send waits in PushBatchForce while the queue is full and then pushes all
   it has; SendEvent uses PushForce, which fails on a queue that was shut down. *)
PushPort(w) ==
    /\ run[w].pc = "push"
    /\ LET s == Head(run[w].sends).to
           p == s[run[w].i]
       IN  /\ Forced(p) \/ closed[p] \/ data[p] = 0 \/ data[p] < Capacity[p]
           /\ data' = [data EXCEPT ![p] = IF closed[p] /\ Forced(p) THEN @
                                          ELSE @ + Head(run[w].sends).size]
           /\ run' = [run EXCEPT ![w].i = IF @ = Len(s) THEN 1 ELSE @ + 1,
                                 ![w].pc = IF run[w].i = Len(s) THEN "notify" ELSE "push"]
    /\ UNCHANGED <<closed, hub, count, status, tasks, events>> /\ Stays

(* NotifyPushEvent of the ports of a Send, after the last of them was filled. *)
Notify(w) ==
    /\ run[w].pc = "notify"
    /\ LET s == Head(run[w].sends).to
           last == run[w].i = Len(s)
       IN  /\ PortEventCallback(s[run[w].i], data)
           /\ run' = [run EXCEPT ![w].i = IF last THEN 1 ELSE @ + 1,
                                 ![w].sends = IF last THEN Tail(@) ELSE @,
                                 ![w].pc = IF ~last THEN "notify"
                                           ELSE IF Tail(run[w].sends) = <<>> THEN "enable"
                                           ELSE "push"]
    /\ UNCHANGED <<data, closed, count, status, tasks, events>> /\ Stays

(* EnableActivePort, in two critical sections. *)
Enable(w) ==
    /\ run[w].pc = "enable"
    /\ AddToActivePort(PortsOf(run[w].node), data)
    /\ run' = [run EXCEPT ![w].pc = "unmark"]
    /\ UNCHANGED <<data, closed, count, status, tasks, events>> /\ Stays

Unmark(w) ==
    /\ run[w].pc = "unmark"
    /\ status' = [status EXCEPT ![run[w].node] = FALSE]
    /\ run' = [run EXCEPT ![w].pc = "finish"]
    /\ UNCHANGED <<data, closed, hub, count, tasks, events>> /\ Stays

(* Mutant of Finish: the wakeup of WaitNodeFinish is left out. *)
Finish_Silent(w) ==
    /\ run[w].pc = "finish"
    /\ count' = count - 1
    /\ run' = [run EXCEPT ![w] = NoRun]
    /\ UNCHANGED <<data, closed, hub, status, tasks, events>> /\ Stays

(* The end of RunWapper, under notify_mutex_. *)
Finish(w) ==
    /\ run[w].pc = "finish"
    /\ count' = count - 1
    /\ run' = [run EXCEPT ![w] = NoRun]
    /\ IF is_wait_stop /\ sched.pc = "waiting" THEN To("woken") ELSE UNCHANGED sched
    /\ UNCHANGED <<data, closed, hub, is_stop, is_wait_stop, status, tasks, events, client,
                   stopper>>

Worker(w) ==
    \/ Take(w) \/ Recv(w) \/ Process(w) \/ PushPort(w) \/ Notify(w)
    \/ Enable(w) \/ Unmark(w) \/ Finish(w)

-----------------------------------------------------------------------------
(* The callers. *)

(* SendMatchData: every extern port is filled, then one of them is notified. *)
ClientSend ==
    /\ client.left > 0
    /\ IF client.i <= Len(ExtPorts)
       THEN /\ data' = [data EXCEPT ![ExtPorts[client.i]] = @ + 1]
            /\ client' = [client EXCEPT !.i = @ + 1]
            /\ UNCHANGED hub
       ELSE /\ PortEventCallback(FirstExt, data)
            /\ client' = [left |-> client.left - 1, i |-> 1]
            /\ UNCHANGED data
    /\ UNCHANGED <<closed, sched, is_stop, is_wait_stop, count, status, pool, events, stopper>>

(* Shutdown(): is_stop_, COMMAND_STOP, its notification, then run_fut_.wait(). *)
StopperStep ==
    /\ \/ /\ stopper = "no" /\ stopper' = "push"
          /\ is_stop' = TRUE /\ UNCHANGED <<data, hub>>
       \/ /\ stopper = "push" /\ stopper' = "notify"
          /\ data' = [data EXCEPT ![CmdPort] = @ + 1] /\ UNCHANGED <<is_stop, hub>>
       \/ /\ stopper = "notify" /\ stopper' = "wait"
          /\ PortEventCallback(CmdPort, data) /\ UNCHANGED <<is_stop, data>>
       \/ /\ stopper = "wait" /\ sched.pc = "done" /\ stopper' = "done"
          /\ UNCHANGED <<is_stop, data, hub>>
    /\ UNCHANGED <<closed, sched, is_wait_stop, count, status, pool, events, client>>

Next == Scheduler \/ (\E w \in Workers : Worker(w)) \/ ClientSend \/ StopperStep

Spec == Init /\ [][Next]_vars

(* Threads are scheduled fairly; a client that began a Send or a Shutdown goes on. *)
Fairness ==
    /\ WF_vars(Scheduler)
    /\ \A w \in Workers : WF_vars(Worker(w))
    /\ WF_vars(ClientSend)
    /\ WF_vars(stopper # "no" /\ StopperStep)

FairSpec == Spec /\ Fairness

-----------------------------------------------------------------------------
(* Properties. *)

(* A run before EnableActivePort gave its ports back. *)
Busy == {"recv", "push", "notify", "enable"}

(* A Send: the ports it fills, and with how many elements. *)
Transmission == [to : Seq(Ports) \ {<<>>}, size : Nat]

Shape ==
    /\ HubTypeOK
    /\ sched \in [pc : {"start", "loop", "select", "command", "stop", "rearm", "disable",
                        "mark", "submit", "shutdown", "wait", "waiting", "woken", "done"},
                  port : Ports]
    /\ sched.pc \in {"disable", "mark", "submit"} => sched.port \in NodePorts
    /\ is_stop \in BOOLEAN /\ is_wait_stop \in BOOLEAN
    /\ status \in [Nodes -> BOOLEAN]
    /\ tasks \in Seq(Nodes \X Ports)
    /\ run \in [Workers -> [pc : Busy \cup {"idle", "unmark", "finish"}, node : Nodes,
                            rest : Seq(Ports), got : Nat, sends : Seq(Transmission), i : Nat]]
    /\ \A w \in Workers :
          run[w].pc \in {"push", "notify"} =>
              run[w].sends # <<>> /\ run[w].i \in 1..Len(Head(run[w].sends).to)
    /\ events \in [Nodes -> Nat]
    /\ client \in [left : Nat, i : 1..Len(ExtPorts) + 1]
    /\ stopper \in {"no", "push", "notify", "wait", "done"}

(* Type invariant: a port RunNode is given belongs to a node, the position of a
   Send is a port of it, and running_node_count_ never falls below zero. *)
TypeOK == Shape /\ count \in Nat

(* The runs of node n between DisableActivePort and EnableActivePort. *)
Scheduling(n) == sched.pc \in {"mark", "submit"} /\ NodeOf(sched.port) = n
Queued(n) == {i \in DOMAIN tasks : tasks[i][1] = n}
Executing(n) == {w \in Workers : run[w].node = n /\ run[w].pc \in Busy}

(* Node::Run takes no lock: its streams and caches are safe only because a node is
   never queued or executed twice at the same time. *)
NodeRunsAlone ==
    \A n \in Nodes :
        Cardinality(Queued(n)) + Cardinality(Executing(n)) + (IF Scheduling(n) THEN 1 ELSE 0)
            <= 1

(* Somebody will still notify port p. *)
WillNotify(w, p) ==
    /\ run[w].pc \in {"push", "notify"}
    /\ \E i \in DOMAIN Head(run[w].sends).to :
          /\ Head(run[w].sends).to[i] = p
          /\ run[w].pc = "notify" => run[w].i <= i

NotifyPending(p) ==
    \/ \E w \in Workers : WillNotify(w, p)
    \/ client.i > 1 /\ p = FirstExt
    \/ stopper = "notify" /\ p = CmdPort

(* Node n has a run that will re-enable its ports. *)
Owned(n) ==
    \/ sched.pc \in {"disable", "mark", "submit"} /\ NodeOf(sched.port) = n
    \/ Queued(n) # {} \/ Executing(n) # {}

(* A port with data is never forgotten: it can be selected, its node is running, or
   its notification is on the way.  Pushes, pops and the end of a run interleave
   freely and is_running_ suppresses notifications meanwhile. *)
NoForgottenPort ==
    \A p \in NodePorts :
        data[p] > 0 => p \in active \/ closed[p] \/ Owned(NodeOf(p)) \/ NotifyPending(p)

(* When RunImpl has returned no node run is queued or executing: WaitNodeFinish
   counted all of them. *)
QuietWhenDone ==
    sched.pc = "done" => tasks = <<>> /\ \A w \in Workers : run[w].pc = "idle"

(* Everything the client sends is consumed by the last node, unless the graph is
   shut down or a node fails: no notification that would schedule a node is lost. *)
Drains == []~is_stop => <>[](\A p \in NodePorts : data[p] = 0)

(* Shutdown() returns: no run, no blocked Send and no lost command keeps RunImpl. *)
ShutdownReturns == stopper = "push" ~> stopper = "done"

=============================================================================
