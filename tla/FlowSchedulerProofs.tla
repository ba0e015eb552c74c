------------------------- MODULE FlowSchedulerProofs -------------------------
(***************************************************************************)
(* Proofs about FlowScheduler, for every graph and number of workers.      *)
(*                                                                         *)
(* Exclusive is the heart: a port is running exactly as long as its node   *)
(* is owned by one party (the scheduler, a queued task or a worker), and   *)
(* an active port is not running.  Counted says what running_node_count_   *)
(* counts.                                                                 *)
(***************************************************************************)
EXTENDS FlowScheduler, FiniteSetTheorems, SequenceTheorems, TLAPS

(* The parties that hold node n, and those among them that run it. *)
HeldBySched(n) == sched.pc \in {"mark", "submit"} /\ NodeOf(sched.port) = n
HeldByTask(n) == \E i \in DOMAIN tasks : tasks[i][1] = n
HeldByWorker(n) == \E w \in Workers : run[w].pc \in Busy /\ run[w].node = n

Alone ==
    /\ \A n \in Nodes : ~(HeldBySched(n) /\ HeldByTask(n))
    /\ \A n \in Nodes : ~(HeldBySched(n) /\ HeldByWorker(n))
    /\ \A n \in Nodes : ~(HeldByTask(n) /\ HeldByWorker(n))
    /\ \A i, j \in DOMAIN tasks : tasks[i][1] = tasks[j][1] => i = j
    /\ \A v, w \in Workers :
          run[v].pc \in Busy /\ run[w].pc \in Busy /\ run[v].node = run[w].node => v = w

Held(n) == HeldBySched(n) \/ HeldByTask(n) \/ HeldByWorker(n)

Exclusive ==
    /\ Alone
    /\ \A p \in active : ~running[p]
    /\ \A n \in Nodes : Held(n) => \A p \in PortsOf(n) : running[p]
    /\ \A n \in Nodes : sched.pc = "disable" /\ NodeOf(sched.port) = n => ~Held(n)
    /\ sched.pc = "disable" => running[sched.port]
    /\ \A p \in NodePorts : running[p] =>
          Held(NodeOf(p)) \/ (sched.pc = "disable" /\ sched.port = p)

(* The runs that running_node_count_ counts. *)
Started == {w \in Workers : run[w].pc # "idle"}
Counted == count = Len(tasks) + Cardinality(Started) + (IF sched.pc = "submit" THEN 1 ELSE 0)

-----------------------------------------------------------------------------
(* The graph. *)

(* The ports of the graph are ports of the hub, and NodeOf finds their node. *)
LEMMA Owner ==
    /\ CmdPort \in Ports /\ CmdPort \notin NodePorts
    /\ FirstExt \in Ports
    /\ NodePorts \subseteq Ports
    /\ \A n \in Nodes : PortsOf(n) \subseteq NodePorts
    /\ \A p \in NodePorts : NodeOf(p) \in Nodes /\ p \in PortsOf(NodeOf(p))
    /\ \A n \in Nodes : \A p \in PortsOf(n) : NodeOf(p) = n
<1>1. CmdPort \in Ports /\ CmdPort \notin NodePorts /\ NodePorts \subseteq Ports
    BY GraphAssumption
<1>2. FirstExt \in Ports
    <2>1. PICK i \in DOMAIN ExtPorts : ExtPorts[i] = FirstExt
        BY GraphAssumption
    <2> QED BY <2>1, GraphAssumption
<1>3. \A n \in Nodes : PortsOf(n) \subseteq NodePorts
    BY DEF NodePorts
<1>4. \A p \in NodePorts : NodeOf(p) \in Nodes /\ p \in PortsOf(NodeOf(p))
    BY DEF NodePorts, NodeOf
<1>5. \A n \in Nodes : \A p \in PortsOf(n) : NodeOf(p) = n
    <2> SUFFICES ASSUME NEW n \in Nodes, NEW p \in PortsOf(n) PROVE NodeOf(p) = n
        OBVIOUS
    <2>1. p \in NodePorts
        BY <1>3
    <2>2. NodeOf(p) \in Nodes /\ p \in PortsOf(NodeOf(p))
        BY <1>4, <2>1
    <2>3. NodeOf(p) # n => PortsOf(NodeOf(p)) \cap PortsOf(n) = {}
        BY <2>2, GraphAssumption
    <2> QED BY <2>2, <2>3
<1> QED BY <1>1, <1>2, <1>3, <1>4, <1>5

(* What a run sends is a sequence of well-formed Sends. *)
LEMMA SendListType ==
    ASSUME NEW n \in Nodes, NEW k \in Nat, NEW m \in Nat \ {0}, events \in [Nodes -> Nat]
    PROVE  SendList(n, k, m) \in Seq(Transmission)
<1> DEFINE outs == Targets[n]
           l == Len(outs)
           body == [i \in 1..(m * l) |-> [to |-> outs[1 + ((i - 1) % l)], size |-> k \div m]]
           event == IF events[n] > 0 THEN <<[to |-> <<EventPort[n]>>, size |-> 1]>> ELSE <<>>
<1>1. outs \in Seq(Seq(Ports) \ {<<>>}) /\ EventPort[n] \in Ports
    BY GraphAssumption
<1>2. event \in Seq(Transmission)
    <2>1. <<EventPort[n]>> \in Seq(Ports) \ {<<>>}
        BY <1>1
    <2>2. [to |-> <<EventPort[n]>>, size |-> 1] \in Transmission
        BY <2>1 DEF Transmission
    <2> QED BY <2>2
<1>3. l \in Nat /\ \A j \in 1..l : outs[j] \in Seq(Ports) \ {<<>>}
    BY <1>1
<1>4. k \div m \in Nat
    OBVIOUS
<1>5. m * l \in Nat
    BY <1>3
<1>6. \A i \in 1..(m * l) : [to |-> outs[1 + ((i - 1) % l)], size |-> k \div m] \in Transmission
    <2> SUFFICES ASSUME NEW i \in 1..(m * l)
                 PROVE  outs[1 + ((i - 1) % l)] \in Seq(Ports) \ {<<>>}
        BY <1>4 DEF Transmission
    <2>1. l # 0
        BY <1>3, <1>5
    <2>2. 1 + ((i - 1) % l) \in 1..l
        <3>1. \A a \in Nat, b \in Nat : b # 0 => 1 + (a % b) \in 1..b
            OBVIOUS
        <3>2. i - 1 \in Nat
            BY <1>5
        <3> HIDE DEF l
        <3> QED BY <3>1, <3>2, <2>1, <1>3
    <2> QED BY <2>2, <1>3
<1>7. body \in Seq(Transmission)
    BY <1>5, <1>6, IsASeq
<1>8. event \o body \in Seq(Transmission)
    BY <1>2, <1>7
<1> QED BY <1>8 DEF SendList

-----------------------------------------------------------------------------
(* Types. *)

(* The hub operations keep the types of the hub. *)
LEMMA HubTypes ==
    ASSUME running \in [Ports -> BOOLEAN], active \subseteq Ports, NEW d
    PROVE  /\ \A p \in Ports : PortEventCallback(p, d) =>
                  running' \in [Ports -> BOOLEAN] /\ active' \subseteq Ports
           /\ \A S \in SUBSET Ports : AddToActivePort(S, d) \/ RemoveFromActivePort(S) =>
                  running' \in [Ports -> BOOLEAN] /\ active' \subseteq Ports
           /\ \A p \in active : SelectActivePort(p) =>
                  running' \in [Ports -> BOOLEAN] /\ active' \subseteq Ports
BY Zenon DEF PortEventCallback, AddToActivePort, RemoveFromActivePort, SelectActivePort

(* The initial state has its types. *)
LEMMA InitShape == Init => Shape
<1> SUFFICES ASSUME Init PROVE Shape
    OBVIOUS
<1>1. (CHOOSE n \in Nodes : TRUE) \in Nodes
    BY GraphAssumption
<1>2. NoRun \in [pc : Busy \cup {"idle", "unmark", "finish"}, node : Nodes, rest : Seq(Ports),
                 got : Nat, sends : Seq(Transmission), i : Nat] /\ NoRun.pc = "idle"
    BY <1>1 DEF NoRun
<1>3. HubTypeOK
    BY DEF Init, HubInit, HubTypeOK
<1>4. Len(ExtPorts) \in Nat
    BY GraphAssumption
<1>5. MaxSends \in Nat /\ MaxEvents \in Nat
    BY GraphAssumption
<1>6. CmdPort \in Ports
    BY Owner
<1>7. client \in [left : Nat, i : 1..Len(ExtPorts) + 1]
    BY <1>4, <1>5 DEF Init
<1>8. events \in [Nodes -> Nat]
    BY <1>5 DEF Init
<1>9. \A w \in Workers : run[w] = NoRun
    BY DEF Init
<1>10. run \in [Workers -> [pc : Busy \cup {"idle", "unmark", "finish"}, node : Nodes,
                rest : Seq(Ports), got : Nat, sends : Seq(Transmission), i : Nat]]
    <2> HIDE DEF NoRun
    <2> QED BY <1>2 DEF Init
<1>11. tasks \in Seq(Nodes \X Ports)
    BY DEF Init
<1>12. \A w \in Workers : run[w].pc \notin {"push", "notify"}
    BY <1>2, <1>9
<1>13. sched \in [pc : {"start"}, port : Ports]
    BY <1>6 DEF Init
<1> QED BY Zenon, <1>3, <1>7, <1>8, <1>10, <1>11, <1>12, <1>13 DEF Init, Shape

(* The scheduler keeps the types. *)
LEMMA SchedulerShape ==
    ASSUME Shape, Scheduler PROVE Shape'
<1> USE DEF To, pool, hub
<1>1. CASE Start
    BY Zenon, <1>1 DEF Start, Shape, HubTypeOK
<1>2. CASE Loop
    BY Zenon, <1>2 DEF Loop, Shape, HubTypeOK
<1>3. CASE Select
    <2>1. PICK p \in active : SelectActivePort(p) /\
              sched' = [pc |-> IF p = CmdPort THEN "command" ELSE "disable", port |-> p]
        BY <1>3 DEF Select
    <2>2. p \in Ports /\ (p # CmdPort => p \in NodePorts)
        BY <2>1, GraphAssumption DEF Shape, HubTypeOK
    <2>3. running' \in [Ports -> BOOLEAN] /\ active' \subseteq Ports
        BY Zenon, <2>1, HubTypes DEF Shape, HubTypeOK
    <2> QED BY <1>3, <2>1, <2>2, <2>3 DEF Select, Shape, HubTypeOK
<1>4. CASE SelectTimeout
    BY Zenon, <1>4 DEF SelectTimeout, Shape, HubTypeOK
<1>5. CASE RunCommand
    <2>1. running' \in [Ports -> BOOLEAN] /\ active' \subseteq Ports
        BY Zenon, <1>5, HubTypes, Owner DEF RunCommand, Shape, HubTypeOK
    <2>2. data' \in [Ports -> Nat]
        BY <1>5, Owner DEF RunCommand, Shape, HubTypeOK
    <2> QED BY Zenon, <1>5, <2>1, <2>2 DEF RunCommand, Shape, HubTypeOK
<1>6. CASE Rearm
    <2>1. {CmdPort} \in SUBSET Ports
        BY Owner
    <2>2. running' \in [Ports -> BOOLEAN] /\ active' \subseteq Ports
        BY Zenon, <1>6, <2>1, HubTypes DEF Rearm, Shape, HubTypeOK
    <2> QED BY Zenon, <1>6, <2>2 DEF Rearm, Shape, HubTypeOK
<1>7. CASE Disable
    <2>1. PortsOf(NodeOf(sched.port)) \in SUBSET Ports
        BY <1>7, Owner DEF Disable, Shape
    <2>2. running' \in [Ports -> BOOLEAN] /\ active' \subseteq Ports
        BY Zenon, <1>7, <2>1, HubTypes DEF Disable, Shape, HubTypeOK
    <2> QED BY Zenon, <1>7, <2>2 DEF Disable, Shape, HubTypeOK
<1>8. CASE Mark
    BY Zenon, <1>8 DEF Mark, Shape, HubTypeOK
<1>9. CASE Submit
    <2>1. NodeOf(sched.port) \in Nodes
        BY <1>9, Owner DEF Submit, Shape
    <2>2. <<NodeOf(sched.port), sched.port>> \in Nodes \X Ports
        BY <2>1 DEF Shape
    <2>3. tasks' \in Seq(Nodes \X Ports)
        BY <1>9, <2>2 DEF Submit, Shape
    <2> QED BY Zenon, <1>9, <2>3 DEF Submit, Shape, HubTypeOK
<1>10. CASE ShutdownPort
    <2>1. closed' \in [Ports -> BOOLEAN]
        BY Zenon, <1>10 DEF ShutdownPort, Shape, HubTypeOK
    <2> QED BY Zenon, <1>10, <2>1 DEF ShutdownPort, Shape, HubTypeOK
<1>11. CASE WaitNodeFinish
    BY Zenon, <1>11 DEF WaitNodeFinish, Shape, HubTypeOK
<1> QED BY <1>1, <1>2, <1>3, <1>4, <1>5, <1>6, <1>7, <1>8, <1>9, <1>10, <1>11 DEF Scheduler

(* What a run reads from, how much, and where it sends to. *)
LEMMA ReadsType == ASSUME NEW n \in Nodes, NEW p \in Ports PROVE Reads(n, p) \in Seq(Ports)
<1>1. DataPorts[n] \in Seq(Ports)
    BY ONLY GraphAssumption, n \in Nodes
<1>2. <<p>> \in Seq(Ports)
    BY ONLY p \in Ports
<1> QED BY Zenon, <1>1, <1>2 DEF Reads

LEMMA ReadCountType ==
    ASSUME data \in [Ports -> Nat], NEW p \in Ports
    PROVE  ReadCount(p) \in Nat /\ ReadCount(p) <= data[p]
<1>1. data[p] \in Nat /\ Capacity[p] \in Nat
    BY Zenon, GraphAssumption
<1> QED BY ONLY <1>1 DEF ReadCount

LEMMA TransmissionPort ==
    ASSUME NEW s \in Transmission, NEW i \in 1..Len(s.to)
    PROVE  s.to[i] \in Ports /\ s.size \in Nat /\ Len(s.to) \in Nat
<1>1. s.to \in Seq(Ports) /\ s.size \in Nat
    BY Zenon DEF Transmission
<1> QED BY ONLY <1>1, i \in 1..Len(s.to)

LEMMA RestPort ==
    ASSUME Shape, NEW w \in Workers, run[w].rest # <<>> PROVE Head(run[w].rest) \in Ports
<1>1. run[w].rest \in Seq(Ports)
    BY DEF Shape
<1> QED BY ONLY <1>1, run[w].rest # <<>>

(* The workers keep the types. *)
LEMMA WorkerShape ==
    ASSUME Shape, NEW w \in Workers, Worker(w) PROVE Shape'
<1> USE DEF hub
<1> DEFINE R == [pc : Busy \cup {"idle", "unmark", "finish"}, node : Nodes, rest : Seq(Ports),
                 got : Nat, sends : Seq(Transmission), i : Nat]
           Placed(r) == r.pc \in {"push", "notify"} =>
                            r.sends # <<>> /\ r.i \in 1..Len(Head(r.sends).to)
<1>a. run \in [Workers -> R] /\ run[w] \in R /\ Placed(run[w])
    BY DEF Shape
<1> DEFINE At(c, s, k) == [pc |-> c, node |-> run[w].node, rest |-> run[w].rest,
                           got |-> run[w].got, sends |-> s, i |-> k]
<1>c. \A c \in Busy, s \in Seq(Transmission), k \in Nat : At(c, s, k) \in R
    BY <1>a
<1>b. ASSUME run' = [run EXCEPT ![w] = run'[w]], run'[w] \in R, Placed(run'[w]),
             running' \in [Ports -> BOOLEAN], active' \subseteq Ports, data' \in [Ports -> Nat],
             closed' = closed, sched' = sched \/ sched' = [sched EXCEPT !.pc = "woken"],
             is_stop' = is_stop, is_wait_stop' = is_wait_stop, status' \in [Nodes -> BOOLEAN],
             tasks' \in Seq(Nodes \X Ports), events' \in [Nodes -> Nat], client' = client,
             stopper' = stopper
      PROVE  Shape'
    <2>1. run' \in [Workers -> R]
        <3> HIDE DEF R
        <3> QED BY Zenon, <1>a, <1>b
    <2>2. \A v \in Workers : Placed(run'[v])
        <3> SUFFICES ASSUME NEW v \in Workers PROVE Placed(run'[v])
            OBVIOUS
        <3>1. Placed(run[v])
            BY DEF Shape
        <3>2. v # w => run'[v] = run[v]
            BY <1>a, <1>b
        <3> HIDE DEF Placed
        <3> QED BY <3>1, <3>2, <1>b
    <2> QED BY Zenon, <1>b, <2>1, <2>2 DEF Shape, HubTypeOK
<1>1. CASE Take(w)
    <2> DEFINE t == Head(tasks)
    <2>1. t \in Nodes \X Ports /\ Tail(tasks) \in Seq(Nodes \X Ports)
        BY <1>1 DEF Take, Shape
    <2>a. t[1] \in Nodes /\ t[2] \in Ports
        BY <2>1
    <2>2. Reads(t[1], t[2]) \in Seq(Ports)
        BY Zenon, <2>a, ReadsType
    <2>3. run'[w] = [NoRun EXCEPT !.pc = "recv", !.node = t[1], !.rest = Reads(t[1], t[2])]
        BY <1>1, <1>a DEF Take
    <2>4. run'[w] \in R /\ Placed(run'[w])
        <3>1. run'[w] = [pc |-> "recv", node |-> t[1], rest |-> Reads(t[1], t[2]), got |-> 0,
                         sends |-> <<>>, i |-> 1]
            BY Zenon, <2>3 DEF NoRun
        <3>2. t[1] \in Nodes
            BY <2>1
        <3> HIDE DEF t
        <3>3. run'[w] \in R
            BY <3>1, <3>2, <2>2 DEF Busy
        <3>4. run'[w].pc = "recv"
            BY <3>1
        <3> QED BY <3>3, <3>4
    <2>5. run' = [run EXCEPT ![w] = run'[w]]
        BY <1>1, <1>a DEF Take
    <2> HIDE DEF R, Placed
    <2> QED BY Zenon, <1>1, <1>b, <2>1, <2>4, <2>5 DEF Take, Stays, Shape, HubTypeOK
<1>2. CASE Recv(w)
    <2> DEFINE p == Head(run[w].rest)
    <2>1. p \in Ports /\ Tail(run[w].rest) \in Seq(Ports)
        BY <1>2, <1>a DEF Recv
    <2>2. ReadCount(p) \in Nat /\ ReadCount(p) <= data[p]
        BY Zenon, <2>1, ReadCountType DEF Shape, HubTypeOK
    <2>3. data' = [data EXCEPT ![p] = @ - ReadCount(p)]
        BY <1>2 DEF Recv
    <2>4. data' \in [Ports -> Nat]
        BY <2>1, <2>2, <2>3 DEF Shape, HubTypeOK
    <2>5. running' \in [Ports -> BOOLEAN] /\ active' \subseteq Ports
        BY Zenon, <1>2, <2>1, HubTypes DEF Recv, Shape, HubTypeOK
    <2>6. run'[w] = [run[w] EXCEPT !.rest = Tail(@), !.got = @ + ReadCount(p)]
        BY <1>2, <1>a DEF Recv
    <2>7. run'[w] \in R /\ Placed(run'[w])
        <3>1. run[w].got + ReadCount(p) \in Nat
            BY <2>2, <1>a
        <3>2. run'[w] \in R
            BY Zenon, <2>1, <3>1, <2>6, <1>a
        <3>3. run'[w].pc = "recv"
            BY <1>2, <2>6, <1>a DEF Recv
        <3> QED BY <3>2, <3>3
    <2>8. run' = [run EXCEPT ![w] = run'[w]]
        BY Zenon, <1>2, <1>a DEF Recv
    <2> HIDE DEF R, Placed
    <2> QED BY Zenon, <1>2, <1>b, <2>4, <2>5, <2>7, <2>8 DEF Recv, Stays, Shape, HubTypeOK
<1>3. CASE Process(w)
    <2> DEFINE n == run[w].node
               Sent(s) == run' = [run EXCEPT ![w].sends = s, ![w].i = 1,
                                             ![w].pc = IF s = <<>> THEN "enable" ELSE "push"]
    <2>1. \E s \in Seq(Transmission) : Sent(s)
        <3>1. CASE run[w].got = 0
            <4>1. Sent(<<>>)
                BY <1>3, <3>1 DEF Process
            <4>2. <<>> \in Seq(Transmission)
                OBVIOUS
            <4> HIDE DEF Sent
            <4> QED BY Zenon, <4>1, <4>2
        <3>2. CASE run[w].got > 0
            <4>1. PICK m \in {1, run[w].got} :
                      LET s == SendList(n, run[w].got, m)
                      IN  \/ Sent(s)
                          \/ \E j \in 0..Len(s) : Sent(SubSeq(s, 1, j) \o <<Command>>)
                <5>1. run[w].got # 0
                    BY <3>2
                <5> QED BY <1>3, <5>1, Zenon DEF Process
            <4> DEFINE s == SendList(n, run[w].got, m)
            <4>2. m \in Nat \ {0} /\ n \in Nodes /\ run[w].got \in Nat
                BY <3>2, <1>a
            <4>3. s \in Seq(Transmission)
                BY <4>2, SendListType DEF Shape
            <4>4. <<CmdPort>> \in Seq(Ports) \ {<<>>}
                BY Owner
            <4>5. Command \in Transmission
                BY <4>4 DEF Command, Transmission
            <4> HIDE DEF s, Sent
            <4>6. \A j \in 0..Len(s) : SubSeq(s, 1, j) \in Seq(Transmission)
                BY <4>3
            <4>7. \A j \in 0..Len(s) : SubSeq(s, 1, j) \o <<Command>> \in Seq(Transmission)
                BY <4>5, <4>6
            <4>8. Sent(s) \/ \E j \in 0..Len(s) : Sent(SubSeq(s, 1, j) \o <<Command>>)
                BY <4>1 DEF s
            <4>9. CASE Sent(s)
                BY <4>3, <4>9, Zenon
            <4>10. CASE \E j \in 0..Len(s) : Sent(SubSeq(s, 1, j) \o <<Command>>)
                <5>1. PICK j \in 0..Len(s) : Sent(SubSeq(s, 1, j) \o <<Command>>)
                    BY <4>10
                <5> QED BY <5>1, <4>7, Zenon
            <4> QED BY <4>8, <4>9, <4>10
        <3>3. run[w].got = 0 \/ run[w].got > 0
            BY SMTT(30), <1>a
        <3> HIDE DEF Sent
        <3> QED BY <3>1, <3>2, <3>3, Zenon
    <2>2. PICK s \in Seq(Transmission) : Sent(s)
        BY Zenon, <2>1
    <2>3. run'[w] = [run[w] EXCEPT !.sends = s, !.i = 1,
                                   !.pc = IF s = <<>> THEN "enable" ELSE "push"]
        BY <2>2, <1>a
    <2>4. s # <<>> => 1 \in 1..Len(Head(s).to)
        <3> SUFFICES ASSUME s # <<>> PROVE 1 \in 1..Len(Head(s).to)
            OBVIOUS
        <3>1. Head(s) \in Transmission
            OBVIOUS
        <3>2. Head(s).to \in Seq(Ports) /\ Head(s).to # <<>>
            BY <3>1 DEF Transmission
        <3> QED BY <3>2
    <2>5. run'[w] \in R /\ Placed(run'[w])
        <3>1. run'[w] \in R
            <4> DEFINE c == IF s = <<>> THEN "enable" ELSE "push"
            <4>1. c \in Busy /\ 1 \in Nat
                BY DEF Busy
            <4>2. run'[w] = At(c, s, 1)
                BY Zenon, <2>3, <1>a
            <4> HIDE DEF c, R, At
            <4> QED BY <1>a, <1>c, <4>1, <4>2, Zenon
        <3>2. run'[w].sends = s /\ run'[w].i = 1 /\ (run'[w].pc = "push" => s # <<>>)
              /\ run'[w].pc # "notify"
            BY <2>3, <1>a
        <3> QED BY <3>1, <3>2, <2>4
    <2>6. run' = [run EXCEPT ![w] = run'[w]]
        BY ZenonT(30), <2>2, <1>a
    <2>7. events' \in [Nodes -> Nat]
        <3>1. events' = events \/ events' = [events EXCEPT ![n] = IF @ > 0 THEN @ - 1 ELSE 0]
            BY Zenon, <1>3 DEF Process
        <3>2. events \in [Nodes -> Nat] /\ n \in Nodes
            BY Zenon, <1>a DEF Shape
        <3> HIDE DEF n
        <3> QED BY <3>1, <3>2
    <2> HIDE DEF R, Placed
    <2> QED BY Zenon, <1>3, <1>b, <2>5, <2>6, <2>7 DEF Process, Stays, Shape, HubTypeOK
<1>4. CASE PushPort(w)
    <2> DEFINE s == Head(run[w].sends)
               p == s.to[run[w].i]
    <2>1. run[w].sends # <<>> /\ run[w].i \in 1..Len(s.to)
        BY Zenon, <1>4, <1>a DEF PushPort
    <2>2. s \in Transmission
        BY <2>1, <1>a
    <2>3. p \in Ports /\ s.size \in Nat /\ Len(s.to) \in Nat
        BY Zenon, <2>1, <2>2, TransmissionPort
    <2>4. data' \in [Ports -> Nat]
        <3>1. data' = [data EXCEPT ![p] = IF closed[p] /\ Forced(p) THEN @ ELSE @ + s.size]
            BY Zenon, <1>4 DEF PushPort
        <3>2. data \in [Ports -> Nat]
            BY Zenon DEF Shape, HubTypeOK
        <3> HIDE DEF p, s
        <3> QED BY <3>1, <3>2, <2>3
    <2>5. run'[w] = [run[w] EXCEPT !.i = IF @ = Len(s.to) THEN 1 ELSE @ + 1,
                          !.pc = IF run[w].i = Len(s.to) THEN "notify" ELSE "push"]
        BY Zenon, <1>4, <1>a DEF PushPort
    <2>6. run'[w] \in R /\ Placed(run'[w])
        <3> DEFINE l == Len(s.to)
        <3>1. l \in Nat /\ run[w].i \in 1..l
            BY <2>1, <2>3
        <3>2. run'[w].sends = run[w].sends /\ run'[w] \in R
            <4> DEFINE c == IF run[w].i = l THEN "notify" ELSE "push"
                       k == IF run[w].i = l THEN 1 ELSE run[w].i + 1
            <4>1. c \in Busy /\ k \in Nat /\ run[w].sends \in Seq(Transmission)
                BY <1>a DEF Busy
            <4>2. run'[w] = At(c, run[w].sends, k)
                BY ZenonT(30), <2>5, <1>a
            <4>3. run'[w].sends = run[w].sends
                BY <2>5, <1>a
            <4> HIDE DEF c, k, R, At
            <4> QED BY <1>a, <1>c, <4>1, <4>2, <4>3, Zenon
        <3>3. run'[w].i = IF run[w].i = l THEN 1 ELSE run[w].i + 1
            BY <2>5, <1>a
        <3>4. run'[w].i \in 1..l
            <4> HIDE DEF l
            <4> QED BY <3>1, <3>3
        <3> QED BY <3>2, <3>4, <2>1
    <2>7. run' = [run EXCEPT ![w] = run'[w]]
        BY Zenon, <1>4, <1>a DEF PushPort
    <2> HIDE DEF R, Placed
    <2> QED BY ZenonT(30), <1>4, <1>b, <2>4, <2>6, <2>7 DEF PushPort, Stays, Shape, HubTypeOK
<1>5. CASE Notify(w)
    <2> DEFINE s == Head(run[w].sends)
               last == run[w].i = Len(s.to)
               rest == Tail(run[w].sends)
    <2>1. run[w].sends # <<>> /\ run[w].i \in 1..Len(s.to)
        BY <1>5, <1>a DEF Notify
    <2>2. s \in Transmission /\ rest \in Seq(Transmission)
        BY <2>1, <1>a
    <2>3. s.to[run[w].i] \in Ports /\ Len(s.to) \in Nat
        BY Zenon, <2>1, <2>2, TransmissionPort
    <2>4. running' \in [Ports -> BOOLEAN] /\ active' \subseteq Ports
        BY Zenon, <1>5, <2>3, HubTypes DEF Notify, Shape, HubTypeOK
    <2>5. run'[w] = [run[w] EXCEPT !.i = IF last THEN 1 ELSE @ + 1,
                                   !.sends = IF last THEN rest ELSE @,
                                   !.pc = IF ~last THEN "notify"
                                          ELSE IF rest = <<>> THEN "enable" ELSE "push"]
        BY <1>5, <1>a DEF Notify
    <2>6. rest # <<>> => 1 \in 1..Len(Head(rest).to)
        <3> SUFFICES ASSUME rest # <<>> PROVE 1 \in 1..Len(Head(rest).to)
            OBVIOUS
        <3> HIDE DEF rest
        <3>1. Head(rest) \in Transmission
            BY <2>2
        <3>2. Head(rest).to \in Seq(Ports) /\ Head(rest).to # <<>>
            BY <3>1 DEF Transmission
        <3> QED BY <3>2
    <2>7. run'[w] \in R /\ Placed(run'[w])
        <3> HIDE DEF rest
        <3>1. CASE last
            <4>1. run'[w] \in R
                <5> DEFINE c == IF rest = <<>> THEN "enable" ELSE "push"
                <5>1. c \in Busy /\ 1 \in Nat
                    BY DEF Busy
                <5>2. run'[w] = At(c, rest, 1)
                    BY Zenon, <3>1, <2>5, <1>a
                <5> HIDE DEF c, R, At
                <5> QED BY <1>a, <1>c, <2>2, <5>1, <5>2, Zenon
            <4>2. run'[w].sends = rest /\ run'[w].i = 1 /\ run'[w].pc # "notify"
                  /\ (run'[w].pc = "push" => rest # <<>>)
                BY <3>1, <2>5, <1>a
            <4> QED BY <4>1, <4>2, <2>6
        <3>2. CASE ~last
            <4> DEFINE l == Len(s.to)
            <4>1. l \in Nat /\ run[w].i \in 1..l /\ run[w].i # l
                BY <3>2, <2>1, <2>3
            <4>2. run'[w].sends = run[w].sends /\ run'[w].i = run[w].i + 1
                BY <3>2, <2>5, <1>a
            <4>3. run'[w] \in R
                <5>1. "notify" \in Busy /\ run[w].i + 1 \in Nat
                      /\ run[w].sends \in Seq(Transmission)
                    BY <1>a DEF Busy
                <5>2. run'[w] = At("notify", run[w].sends, run[w].i + 1)
                    BY Zenon, <3>2, <2>5, <1>a
                <5> HIDE DEF R, At
                <5> QED BY <1>a, <1>c, <5>1, <5>2, Zenon
            <4>4. run'[w].i \in 1..l
                <5> HIDE DEF l
                <5> QED BY <4>1, <4>2
            <4> QED BY <4>2, <4>3, <4>4, <2>1
        <3> QED BY <3>1, <3>2
    <2>8. run' = [run EXCEPT ![w] = run'[w]]
        BY Zenon, <1>5, <1>a DEF Notify
    <2> HIDE DEF R, Placed
    <2> QED BY Zenon, <1>5, <1>b, <2>4, <2>7, <2>8 DEF Notify, Stays, Shape, HubTypeOK
<1>6. CASE Enable(w)
    <2>1. PortsOf(run[w].node) \in SUBSET Ports
        BY <1>a, Owner
    <2>2. running' \in [Ports -> BOOLEAN] /\ active' \subseteq Ports
        BY Zenon, <1>6, <2>1, HubTypes DEF Enable, Shape, HubTypeOK
    <2>3. run'[w] = [run[w] EXCEPT !.pc = "unmark"] /\ run' = [run EXCEPT ![w] = run'[w]]
        BY <1>6, <1>a DEF Enable
    <2>4. run'[w] \in R /\ Placed(run'[w])
        BY Zenon, <2>3, <1>a
    <2> HIDE DEF R, Placed
    <2> QED BY Zenon, <1>6, <1>b, <2>2, <2>3, <2>4 DEF Enable, Stays, Shape, HubTypeOK
<1>7. CASE Unmark(w)
    <2>1. run'[w] = [run[w] EXCEPT !.pc = "finish"] /\ run' = [run EXCEPT ![w] = run'[w]]
        BY <1>7, <1>a DEF Unmark
    <2>2. run'[w] \in R /\ Placed(run'[w])
        BY Zenon, <2>1, <1>a
    <2>3. status' \in [Nodes -> BOOLEAN]
        BY <1>7 DEF Unmark, Shape
    <2> HIDE DEF R, Placed
    <2> QED BY Zenon, <1>7, <1>b, <2>1, <2>2, <2>3 DEF Unmark, Stays, Shape, HubTypeOK
<1>8. CASE Finish(w)
    <2>1. (CHOOSE n \in Nodes : TRUE) \in Nodes
        BY GraphAssumption
    <2>2. run'[w] = NoRun /\ run' = [run EXCEPT ![w] = run'[w]]
        BY <1>8, <1>a DEF Finish
    <2>3. run'[w] \in R /\ Placed(run'[w])
        BY <2>1, <2>2 DEF NoRun
    <2> HIDE DEF R, Placed
    <2> QED BY Zenon, <1>8, <1>b, <2>2, <2>3 DEF Finish, To, Shape, HubTypeOK
<1> QED BY <1>1, <1>2, <1>3, <1>4, <1>5, <1>6, <1>7, <1>8 DEF Worker

(* Every step keeps the types. *)
LEMMA NextShape == Shape /\ [Next]_vars => Shape'
<1> SUFFICES ASSUME Shape, [Next]_vars PROVE Shape'
    OBVIOUS
<1> USE DEF hub, pool
<1>1. CASE Scheduler
    BY <1>1, SchedulerShape
<1>2. CASE \E w \in Workers : Worker(w)
    BY <1>2, WorkerShape
<1>3. CASE ClientSend
    <2>1. ExtPorts \in Seq(Ports) /\ Len(ExtPorts) \in Nat
        BY GraphAssumption
    <2>2. client.i \in 1..Len(ExtPorts) + 1 /\ client.left \in Nat
        BY DEF Shape
    <2>3. CASE client.i <= Len(ExtPorts)
        <3>1. ExtPorts[client.i] \in Ports
            BY <2>1, <2>2, <2>3
        <3>2. data' \in [Ports -> Nat]
            <4> DEFINE q == ExtPorts[client.i]
            <4>1. data' = [data EXCEPT ![q] = @ + 1] /\ data \in [Ports -> Nat]
                BY <1>3, <2>3 DEF ClientSend, Shape, HubTypeOK
            <4>2. q \in Ports
                BY <3>1
            <4> HIDE DEF q
            <4> QED BY <4>1, <4>2
        <3>3. client' = [client EXCEPT !.i = client.i + 1]
            BY <1>3, <2>3 DEF ClientSend
        <3>4. client' \in [left : Nat, i : 1..Len(ExtPorts) + 1]
            BY <2>1, <2>2, <2>3, <3>3 DEF Shape
        <3> QED BY Zenon, <1>3, <2>3, <3>2, <3>4 DEF ClientSend, Shape, HubTypeOK
    <2>4. CASE ~(client.i <= Len(ExtPorts))
        <3>1. running' \in [Ports -> BOOLEAN] /\ active' \subseteq Ports
            BY Zenon, <1>3, <2>4, HubTypes, Owner DEF ClientSend, Shape, HubTypeOK
        <3>2. client' = [left |-> client.left - 1, i |-> 1] /\ client.left > 0
            BY <1>3, <2>4 DEF ClientSend
        <3>3. client' \in [left : Nat, i : 1..Len(ExtPorts) + 1]
            BY <2>1, <2>2, <3>2
        <3> QED BY ZenonT(40), <1>3, <2>4, <3>1, <3>3 DEF ClientSend, Shape, HubTypeOK
    <2> QED BY <2>3, <2>4
<1>4. CASE StopperStep
    <2>1. running' \in [Ports -> BOOLEAN] /\ active' \subseteq Ports
        BY Zenon, <1>4, HubTypes, Owner DEF StopperStep, Shape, HubTypeOK
    <2>2. data' \in [Ports -> Nat]
        <3>1. data' = data \/ data' = [data EXCEPT ![CmdPort] = @ + 1]
            BY <1>4 DEF StopperStep
        <3>2. data \in [Ports -> Nat]
            BY DEF Shape, HubTypeOK
        <3> QED BY <3>1, <3>2, Owner
    <2>3. stopper' \in {"no", "push", "notify", "wait", "done"} /\ is_stop' \in BOOLEAN
        BY Zenon, <1>4 DEF StopperStep, Shape
    <2> QED BY <1>4, <2>1, <2>2, <2>3, SMTT(30) DEF StopperStep, Shape, HubTypeOK
<1>5. CASE UNCHANGED vars
    BY <1>5 DEF vars, Shape, HubTypeOK
<1> QED BY <1>1, <1>2, <1>3, <1>4, <1>5 DEF Next

-----------------------------------------------------------------------------
(* Exclusive ownership. *)

(* A step after which the same parties hold the same nodes ... *)
SameHolders ==
    /\ sched'.pc \in {"disable", "mark", "submit"} \/ sched.pc \in {"disable", "mark", "submit"}
           => sched' = sched
    /\ tasks' = tasks
    /\ \A w \in Workers : run'[w].pc \in Busy <=> run[w].pc \in Busy
    /\ \A w \in Workers : run[w].pc \in Busy => run'[w].node = run[w].node

(* ... and the marks of the ports of the graph are left alone. *)
SameMarks ==
    /\ \A p \in NodePorts : running'[p] = running[p]
    /\ \A p \in active' : ~running'[p]

(* Such a step keeps ownership exclusive. *)
LEMMA SameExclusive ==
    ASSUME Shape, Shape', Exclusive, SameHolders, SameMarks
    PROVE  Exclusive'
<1>1. \A n \in Nodes : HeldBySched(n)' <=> HeldBySched(n)
    BY DEF HeldBySched, SameHolders
<1>2. \A n \in Nodes : HeldByTask(n)' <=> HeldByTask(n)
    BY DEF HeldByTask, SameHolders
<1>3. \A n \in Nodes : HeldByWorker(n)' <=> HeldByWorker(n)
    BY DEF HeldByWorker, SameHolders
<1>4. \A n \in Nodes : Held(n)' <=> Held(n)
    BY <1>1, <1>2, <1>3 DEF Held
<1>5. Alone'
    <2>1. \A i, j \in DOMAIN tasks' : tasks'[i][1] = tasks'[j][1] => i = j
        BY DEF Exclusive, Alone, SameHolders
    <2>2. \A v, w \in Workers : run'[v].pc \in Busy /\ run'[w].pc \in Busy
                                   /\ run'[v].node = run'[w].node => v = w
        BY DEF Exclusive, Alone, SameHolders
    <2>3. \A n \in Nodes : /\ ~(HeldBySched(n)' /\ HeldByTask(n)')
                           /\ ~(HeldBySched(n)' /\ HeldByWorker(n)')
                           /\ ~(HeldByTask(n)' /\ HeldByWorker(n)')
        BY <1>1, <1>2, <1>3 DEF Exclusive, Alone
    <2> QED BY <2>1, <2>2, <2>3 DEF Alone
<1>6. \A n \in Nodes : Held(n)' => \A p \in PortsOf(n) : running'[p]
    BY <1>4, Owner DEF Exclusive, SameMarks
<1>7. /\ \A n \in Nodes : sched'.pc = "disable" /\ NodeOf(sched'.port) = n => ~Held(n)'
      /\ sched'.pc = "disable" => running'[sched'.port]
    <2>1. sched'.pc = "disable" => sched' = sched
        BY DEF SameHolders
    <2>2. \A n \in Nodes : sched'.pc = "disable" /\ NodeOf(sched'.port) = n => ~Held(n)'
        BY Zenon, <2>1, <1>4 DEF Exclusive
    <2>3. sched'.pc = "disable" => running'[sched'.port]
        BY <2>1 DEF Exclusive, SameMarks, Shape
    <2> QED BY <2>2, <2>3
<1>8. \A p \in NodePorts : running'[p] =>
          Held(NodeOf(p))' \/ (sched'.pc = "disable" /\ sched'.port = p)
    <2> SUFFICES ASSUME NEW p \in NodePorts, running'[p]
                 PROVE  Held(NodeOf(p))' \/ (sched'.pc = "disable" /\ sched'.port = p)
        OBVIOUS
    <2>1. running[p] /\ NodeOf(p) \in Nodes
        BY Owner DEF SameMarks
    <2>2. Held(NodeOf(p)) \/ (sched.pc = "disable" /\ sched.port = p)
        BY <2>1 DEF Exclusive
    <2> QED BY Zenon, <2>1, <2>2, <1>4 DEF SameHolders
<1> QED BY <1>5, <1>6, <1>7, <1>8 DEF Exclusive, SameMarks

(* A notification, and an operation on the command port, leave the marks alone. *)
LEMMA NotifyMarks ==
    ASSUME Shape, Exclusive, NEW d
    PROVE  /\ \A p \in Ports : PortEventCallback(p, d) => SameMarks
           /\ AddToActivePort({CmdPort}, d) => SameMarks
           /\ SelectActivePort(CmdPort) => SameMarks
           /\ UNCHANGED hub => SameMarks
<1>1. \A p \in active : ~running[p]
    BY DEF Exclusive
<1>2. active \subseteq Ports /\ running \in [Ports -> BOOLEAN]
    BY DEF Shape, HubTypeOK
<1>3. CmdPort \in Ports /\ CmdPort \notin NodePorts /\ NodePorts \subseteq Ports
    BY Owner
<1>4. \A p \in Ports : PortEventCallback(p, d) => SameMarks
    BY <1>1, <1>2, <1>3 DEF PortEventCallback, SameMarks
<1>5. AddToActivePort({CmdPort}, d) => SameMarks
    BY Zenon, <1>1, <1>2, <1>3 DEF AddToActivePort, SameMarks
<1>6. SelectActivePort(CmdPort) => SameMarks
    BY Zenon, <1>1, <1>2, <1>3 DEF SelectActivePort, SameMarks
<1>7. UNCHANGED hub => SameMarks
    BY <1>1, <1>2, <1>3 DEF hub, SameMarks
<1> QED BY <1>4, <1>5, <1>6, <1>7

(* The steps of a worker between Take and Enable, and after it, keep the holders. *)
LEMMA WorkerHolders ==
    ASSUME Shape, NEW w \in Workers,
           Recv(w) \/ Process(w) \/ PushPort(w) \/ Notify(w) \/ Unmark(w) \/ Finish(w)
    PROVE  SameHolders
<1> DEFINE Kept(r, s) == (s.pc \in Busy <=> r.pc \in Busy) /\ (r.pc \in Busy => s.node = r.node)
<1>a. run \in [Workers -> [pc : Busy \cup {"idle", "unmark", "finish"}, node : Nodes,
          rest : Seq(Ports), got : Nat, sends : Seq(Transmission), i : Nat]]
    BY DEF Shape
<1>b. ASSUME run' = [run EXCEPT ![w] = run'[w]], Kept(run[w], run'[w]), tasks' = tasks,
             sched' = sched \/ (sched.pc = "waiting" /\ sched' = [sched EXCEPT !.pc = "woken"])
      PROVE  SameHolders
    <2>1. \A v \in Workers : v # w => run'[v] = run[v]
        BY <1>a, <1>b
    <2>2. \A v \in Workers : Kept(run[v], run'[v])
        BY <2>1, <1>b
    <2>3. sched'.pc \in {"disable", "mark", "submit"} \/ sched.pc \in {"disable", "mark", "submit"}
              => sched' = sched
        BY <1>b DEF Shape
    <2> QED BY <1>b, <2>2, <2>3 DEF SameHolders
<1>1. CASE Recv(w)
    <2>1. run' = [run EXCEPT ![w] = run'[w]]
        BY Zenon, <1>1, <1>a DEF Recv
    <2>2. Kept(run[w], run'[w])
        BY <1>1, <1>a DEF Recv, Busy
    <2>3. tasks' = tasks /\ sched' = sched
        BY <1>1 DEF Recv, Stays
    <2> HIDE DEF Kept
    <2> QED BY <1>b, <2>1, <2>2, <2>3
<1>2. CASE Process(w)
    <2>1. run' = [run EXCEPT ![w] = run'[w]]
        BY Zenon, <1>2, <1>a DEF Process
    <2>2. run'[w].node = run[w].node /\ run'[w].pc \in {"enable", "push"} /\ run[w].pc = "recv"
        <3>1. \E s : run' = [run EXCEPT ![w].sends = s, ![w].i = 1,
                                       ![w].pc = IF s = <<>> THEN "enable" ELSE "push"]
            BY <1>2, ZenonT(30) DEF Process
        <3>2. run[w].pc = "recv"
            BY ZenonT(30), <1>2 DEF Process
        <3>3. PICK s : run' = [run EXCEPT ![w].sends = s, ![w].i = 1,
                                        ![w].pc = IF s = <<>> THEN "enable" ELSE "push"]
            BY Zenon, <3>1
        <3>4. run'[w] = [run[w] EXCEPT !.sends = s, !.i = 1,
                                       !.pc = IF s = <<>> THEN "enable" ELSE "push"]
            BY <3>3, <1>a
        <3>5. run'[w].node = run[w].node
            BY <3>4, <1>a
        <3>6. run'[w].pc = IF s = <<>> THEN "enable" ELSE "push"
            BY <3>4, <1>a
        <3> QED BY <3>2, <3>5, <3>6
    <2>3. Kept(run[w], run'[w])
        BY Zenon, <2>2 DEF Busy
    <2>4. tasks' = tasks /\ sched' = sched
        BY ZenonT(30), <1>2 DEF Process, Stays
    <2> HIDE DEF Kept
    <2> QED BY <1>b, <2>1, <2>3, <2>4
<1>3. CASE PushPort(w)
    <2>1. run' = [run EXCEPT ![w] = run'[w]]
        BY ZenonT(30), <1>3, <1>a DEF PushPort
    <2>2. Kept(run[w], run'[w])
        BY ZenonT(30), <1>3, <1>a DEF PushPort, Busy
    <2>3. tasks' = tasks /\ sched' = sched
        BY ZenonT(30), <1>3 DEF PushPort, Stays
    <2> HIDE DEF Kept
    <2> QED BY <1>b, <2>1, <2>2, <2>3
<1>4. CASE Notify(w)
    <2>1. run' = [run EXCEPT ![w] = run'[w]]
        BY ZenonT(40), <1>4, <1>a DEF Notify
    <2>2. Kept(run[w], run'[w])
        BY SMTT(30), <1>4, <1>a DEF Notify, Busy
    <2>3. tasks' = tasks /\ sched' = sched
        BY <1>4 DEF Notify, Stays
    <2> HIDE DEF Kept
    <2> QED BY <1>b, <2>1, <2>2, <2>3
<1>5. CASE Unmark(w)
    <2>1. run' = [run EXCEPT ![w] = run'[w]]
        BY <1>5, <1>a DEF Unmark
    <2>2. Kept(run[w], run'[w])
        BY <1>5, <1>a DEF Unmark, Busy
    <2>3. tasks' = tasks /\ sched' = sched
        BY <1>5 DEF Unmark, Stays
    <2> HIDE DEF Kept
    <2> QED BY <1>b, <2>1, <2>2, <2>3
<1>6. CASE Finish(w)
    <2>1. run' = [run EXCEPT ![w] = run'[w]]
        BY Zenon, <1>6, <1>a DEF Finish
    <2>2. Kept(run[w], run'[w])
        BY <1>6, <1>a DEF Finish, Busy, NoRun
    <2>3. tasks' = tasks
        BY <1>6 DEF Finish
    <2>4. sched' = sched \/ (sched.pc = "waiting" /\ sched' = [sched EXCEPT !.pc = "woken"])
        BY <1>6 DEF Finish, To
    <2> HIDE DEF Kept
    <2> QED BY <1>b, <2>1, <2>2, <2>3, <2>4
<1> QED BY Zenon, <1>1, <1>2, <1>3, <1>4, <1>5, <1>6

(* The steps of the scheduler that neither take nor pass on a node, and those of the
   callers, keep the holders and the marks. *)
LEMMA OtherExclusive ==
    ASSUME Shape, Shape', Exclusive,
           \/ Start \/ Loop \/ SelectTimeout \/ RunCommand \/ Rearm \/ ShutdownPort
           \/ WaitNodeFinish \/ ClientSend \/ StopperStep \/ UNCHANGED vars
    PROVE  Exclusive'
<1> USE DEF To, pool
<1>1. SameHolders
    BY DEF SameHolders, Start, Loop, SelectTimeout, RunCommand, Rearm, ShutdownPort,
           WaitNodeFinish, ClientSend, StopperStep, vars, Shape
<1>2. CASE RunCommand
    <2>1. SameMarks
        BY <1>2, NotifyMarks, Owner DEF RunCommand
    <2> QED BY <1>1, <2>1, SameExclusive
<1>3. CASE Rearm
    <2>1. SameMarks
        BY <1>3, NotifyMarks DEF Rearm
    <2> QED BY <1>1, <2>1, SameExclusive
<1>4. CASE ClientSend
    <2>1. UNCHANGED hub \/ PortEventCallback(FirstExt, data)
        BY <1>4 DEF ClientSend
    <2>2. SameMarks
        BY <2>1, NotifyMarks, Owner
    <2> QED BY <1>1, <2>2, SameExclusive
<1>5. CASE StopperStep
    <2>1. UNCHANGED hub \/ PortEventCallback(CmdPort, data)
        BY <1>5 DEF StopperStep
    <2>2. SameMarks
        BY <2>1, NotifyMarks, Owner
    <2> QED BY <1>1, <2>2, SameExclusive
<1>6. CASE Start \/ Loop \/ SelectTimeout \/ ShutdownPort \/ WaitNodeFinish \/ UNCHANGED vars
    <2>1. UNCHANGED hub
        BY <1>6 DEF Start, Loop, SelectTimeout, ShutdownPort, WaitNodeFinish, vars, hub
    <2>2. SameMarks
        BY <2>1, NotifyMarks
    <2> QED BY <1>1, <2>2, SameExclusive
<1> QED BY <1>2, <1>3, <1>4, <1>5, <1>6

(* The scheduler takes a node when it selects one of its ports. *)
LEMMA SelectExclusive == ASSUME Shape, Shape', Exclusive, Select PROVE Exclusive'
<1>1. PICK q \in active : SelectActivePort(q) /\
          sched' = [pc |-> IF q = CmdPort THEN "command" ELSE "disable", port |-> q]
    BY DEF Select
<1>2. sched.pc = "select" /\ tasks' = tasks /\ run' = run
    BY DEF Select, pool
<1>3. CASE q = CmdPort
    <2>1. SameMarks
        BY <1>1, <1>3, NotifyMarks
    <2>2. SameHolders
        BY Zenon, <1>1, <1>2, <1>3 DEF SameHolders
    <2> QED BY <2>1, <2>2, SameExclusive
<1>4. CASE q # CmdPort
    <2>1. q \in NodePorts /\ NodeOf(q) \in Nodes /\ q \in PortsOf(NodeOf(q))
        BY <1>4, Owner, GraphAssumption DEF Shape, HubTypeOK
    <2>2. sched'.pc = "disable" /\ sched'.port = q
        BY <1>1, <1>4
    <2>3. ~Held(NodeOf(q))
        BY <2>1 DEF Exclusive
    <2>4. running' = [running EXCEPT ![q] = TRUE] /\ active' = active \ {q}
          /\ running \in [Ports -> BOOLEAN] /\ NodePorts \subseteq Ports /\ active \subseteq Ports
        BY Zenon, <1>1, Owner DEF SelectActivePort, Shape, HubTypeOK
    <2>5. \A n \in Nodes : ~HeldBySched(n) /\ ~HeldBySched(n)'
        BY <1>2, <2>2 DEF HeldBySched
    <2>6. \A n \in Nodes : (HeldByTask(n)' <=> HeldByTask(n))
                           /\ (HeldByWorker(n)' <=> HeldByWorker(n))
        BY <1>2 DEF HeldByTask, HeldByWorker
    <2>7. \A n \in Nodes : Held(n)' <=> Held(n)
        BY Zenon, <2>5, <2>6 DEF Held
    <2>8. Alone'
        BY <1>2, <2>5, <2>6 DEF Exclusive, Alone
    <2>9. \A p \in active' : ~running'[p]
        BY <2>4 DEF Exclusive
    <2>10. \A n \in Nodes : Held(n)' => \A p \in PortsOf(n) : running'[p]
        BY <2>4, <2>7, Owner DEF Exclusive
    <2>11. \A n \in Nodes : sched'.pc = "disable" /\ NodeOf(sched'.port) = n => ~Held(n)'
        BY <2>2, <2>3, <2>7
    <2>12. running'[sched'.port]
        BY Zenon, <2>1, <2>2, <2>4
    <2>13. \A p \in NodePorts : running'[p] =>
               Held(NodeOf(p))' \/ (sched'.pc = "disable" /\ sched'.port = p)
        <3> SUFFICES ASSUME NEW p \in NodePorts, running'[p], p # q PROVE Held(NodeOf(p))'
            BY <2>2
        <3>1. running[p] /\ NodeOf(p) \in Nodes
            BY <2>4, Owner
        <3>2. Held(NodeOf(p))
            BY Zenon, <3>1, <1>2 DEF Exclusive
        <3> QED BY <3>1, <3>2, <2>7
    <2> QED BY ZenonT(40), <2>8, <2>9, <2>10, <2>11, <2>12, <2>13 DEF Exclusive
<1> QED BY <1>3, <1>4

(* DisableActivePort marks all the ports of the node that was taken. *)
LEMMA DisableExclusive == ASSUME Shape, Shape', Exclusive, Disable PROVE Exclusive'
<1> DEFINE m == NodeOf(sched.port)
<1>1. sched.pc = "disable" /\ sched'.pc = "mark" /\ sched'.port = sched.port /\ tasks' = tasks
      /\ run' = run
    BY Zenon DEF Disable, To, pool, Shape
<1>2. sched.port \in NodePorts /\ m \in Nodes
    BY <1>1, Owner DEF Shape
<1>3. running' = [p \in Ports |-> p \in PortsOf(m) \/ running[p]] /\ active' = active \ PortsOf(m)
    BY DEF Disable, RemoveFromActivePort
<1>4. running \in [Ports -> BOOLEAN] /\ NodePorts \subseteq Ports /\ active \subseteq Ports
    BY Zenon, Owner DEF Shape, HubTypeOK
<1>5. ~Held(m)
    BY <1>1, <1>2 DEF Exclusive
<1>6. \A n \in Nodes : ~HeldBySched(n) /\ (HeldBySched(n)' <=> n = m)
    BY <1>1 DEF HeldBySched
<1>7. \A n \in Nodes : (HeldByTask(n)' <=> HeldByTask(n)) /\ (HeldByWorker(n)' <=> HeldByWorker(n))
    BY <1>1 DEF HeldByTask, HeldByWorker
<1> HIDE DEF m
<1>8. \A n \in Nodes : Held(n)' <=> Held(n) \/ n = m
    BY ZenonT(40), <1>6, <1>7 DEF Held
<1>9. Alone'
    BY <1>1, <1>5, <1>6, <1>7 DEF Exclusive, Alone, Held
<1>10. \A p \in active' : ~running'[p]
    BY <1>3, <1>4 DEF Exclusive
<1>11. \A n \in Nodes : Held(n)' => \A p \in PortsOf(n) : running'[p]
    BY Zenon, <1>3, <1>4, <1>8, Owner DEF Exclusive
<1>12. \A p \in NodePorts : running'[p] => Held(NodeOf(p))'
    <2> SUFFICES ASSUME NEW p \in NodePorts, running'[p] PROVE Held(NodeOf(p))'
        OBVIOUS
    <2>1. NodeOf(p) \in Nodes
        BY Owner
    <2>2. CASE p \in PortsOf(m)
        <3>1. NodeOf(p) = m
            BY <2>2, <1>2, Owner
        <3> QED BY <3>1, <2>1, <1>8
    <2>3. CASE p \notin PortsOf(m)
        <3>1. running[p]
            BY <2>3, <1>3, <1>4
        <3>2. Held(NodeOf(p)) \/ sched.port = p
            BY <3>1 DEF Exclusive
        <3>3. sched.port # p
            BY <2>3, <1>2, Owner DEF m
        <3> QED BY <3>2, <3>3, <2>1, <1>8
    <2> QED BY <2>2, <2>3
<1> QED BY <1>1, <1>9, <1>10, <1>11, <1>12 DEF Exclusive

(* Mark and Submit pass the node on to a task. *)
LEMMA SubmitExclusive == ASSUME Shape, Shape', Exclusive, Mark \/ Submit PROVE Exclusive'
<1> DEFINE m == NodeOf(sched.port)
<1>1. sched.pc \in {"mark", "submit"} /\ run' = run /\ running' = running /\ active' = active
    BY Zenon DEF Mark, Submit, pool, hub
<1>2. m \in Nodes /\ HeldBySched(m)
    BY <1>1, Owner DEF Shape, HeldBySched
<1>3. \A n \in Nodes : HeldByWorker(n)' <=> HeldByWorker(n)
    BY <1>1 DEF HeldByWorker
<1>4. \A n \in Nodes : HeldBySched(n) <=> n = m
    BY <1>1 DEF HeldBySched
<1>5. CASE Mark
    <2>1. sched'.pc = "submit" /\ sched'.port = sched.port /\ tasks' = tasks
        BY <1>5 DEF Mark, To, pool, Shape
    <2>2. \A n \in Nodes : (HeldBySched(n)' <=> HeldBySched(n)) /\ (HeldByTask(n)' <=> HeldByTask(n))
        BY <1>1, <2>1 DEF HeldBySched, HeldByTask
    <2>3. \A n \in Nodes : Held(n)' <=> Held(n)
        BY ZenonT(40), <1>3, <2>2 DEF Held
    <2>4. Alone'
        BY <1>1, <1>3, <2>1, <2>2 DEF Exclusive, Alone
    <2>5. \A p \in NodePorts : NodeOf(p) \in Nodes
        BY Zenon, Owner
    <2> QED BY <1>1, <2>1, <2>3, <2>4, <2>5 DEF Exclusive
<1>6. CASE Submit
    <2> DEFINE t == <<m, sched.port>>
    <2>1. sched'.pc = "loop" /\ tasks' = Append(tasks, t)
        BY <1>6 DEF Submit, To, Shape
    <2>2. tasks \in Seq(Nodes \X Ports) /\ t[1] = m
        BY DEF Shape
    <2> HIDE DEF t
    <2>3. /\ DOMAIN tasks' = DOMAIN tasks \cup {Len(tasks) + 1}
          /\ tasks'[Len(tasks) + 1] = t
          /\ \A i \in DOMAIN tasks : tasks'[i] = tasks[i] /\ i # Len(tasks) + 1
        BY <2>1, <2>2
    <2>4. \A n \in Nodes : HeldByTask(n)' <=> HeldByTask(n) \/ n = m
        BY <2>2, <2>3 DEF HeldByTask
    <2>5. \A n \in Nodes : ~HeldBySched(n)'
        BY <2>1 DEF HeldBySched
    <2>6. \A n \in Nodes : Held(n)' <=> Held(n)
        BY <1>3, <1>4, <2>4, <2>5 DEF Held
    <2>7. ~HeldByTask(m) /\ ~HeldByWorker(m)
        BY Zenon, <1>2 DEF Exclusive, Alone
    <2>8. \A i, j \in DOMAIN tasks' : tasks'[i][1] = tasks'[j][1] => i = j
        BY ZenonT(90), <2>2, <2>3, <2>7 DEF Exclusive, Alone, HeldByTask
    <2>9. Alone'
        BY ZenonT(30), <1>1, <1>3, <2>4, <2>5, <2>7, <2>8 DEF Exclusive, Alone
    <2>10. \A p \in NodePorts : NodeOf(p) \in Nodes
        BY Owner
    <2> QED BY <1>1, <2>1, <2>6, <2>9, <2>10 DEF Exclusive
<1> QED BY <1>5, <1>6

(* Take passes the node on from the task to the worker. *)
LEMMA TakeExclusive ==
    ASSUME Shape, Shape', Exclusive, NEW w \in Workers, Take(w) PROVE Exclusive'
<1> DEFINE m == Head(tasks)[1]
<1>1. sched' = sched /\ running' = running /\ active' = active
    BY DEF Take, Stays, hub
<1>2. tasks \in Seq(Nodes \X Ports) /\ tasks # <<>> /\ tasks' = Tail(tasks)
    BY DEF Take, Shape
<1>3. m \in Nodes /\ m = tasks[1][1] /\ 1 \in DOMAIN tasks
    BY <1>2
<1>4. run[w].pc \notin Busy /\ run'[w].pc \in Busy /\ run'[w].node = m
    BY DEF Take, Shape, NoRun, Busy
<1>5. \A v \in Workers : v # w => run'[v] = run[v]
    BY DEF Take, Shape
<1> HIDE DEF m
<1>6. /\ \A i \in DOMAIN tasks' : i + 1 \in DOMAIN tasks /\ i + 1 # 1 /\ tasks'[i] = tasks[i + 1]
      /\ \A i \in DOMAIN tasks : i # 1 => i - 1 \in DOMAIN tasks' /\ tasks'[i - 1] = tasks[i]
    BY <1>2
<1>7. \A i, j \in DOMAIN tasks' : tasks'[i][1] = tasks'[j][1] => i = j
    <2> SUFFICES ASSUME NEW i \in DOMAIN tasks', NEW j \in DOMAIN tasks',
                        tasks'[i][1] = tasks'[j][1]
                 PROVE  i = j
        OBVIOUS
    <2>1. i + 1 = j + 1
        BY <1>6 DEF Exclusive, Alone
    <2>2. i \in Int /\ j \in Int
        BY <1>2
    <2> QED BY <2>1, <2>2
<1>8. HeldByTask(m)
    BY <1>3 DEF HeldByTask
<1>9. \A n \in Nodes : HeldByTask(n)' <=> HeldByTask(n) /\ n # m
    <2> SUFFICES ASSUME NEW n \in Nodes PROVE HeldByTask(n)' <=> HeldByTask(n) /\ n # m
        OBVIOUS
    <2>1. ASSUME HeldByTask(n)' PROVE HeldByTask(n) /\ n # m
        <3>1. PICK i \in DOMAIN tasks' : tasks'[i][1] = n
            BY <2>1 DEF HeldByTask
        <3>2. i + 1 \in DOMAIN tasks /\ i + 1 # 1 /\ tasks[i + 1][1] = n
            BY Zenon, <1>6, <3>1
        <3>3. n # m
            BY <1>3, <3>2 DEF Exclusive, Alone
        <3> QED BY <3>2, <3>3 DEF HeldByTask
    <2>2. ASSUME HeldByTask(n), n # m PROVE HeldByTask(n)'
        <3>1. PICK i \in DOMAIN tasks : tasks[i][1] = n
            BY <2>2 DEF HeldByTask
        <3>2. i - 1 \in DOMAIN tasks' /\ tasks'[i - 1][1] = n
            BY <1>3, <1>6, <2>2, <3>1
        <3> QED BY <3>2 DEF HeldByTask
    <2> QED BY <2>1, <2>2
<1>10. \A n \in Nodes : HeldByWorker(n)' <=> HeldByWorker(n) \/ n = m
    BY <1>4, <1>5 DEF HeldByWorker
<1>11. \A n \in Nodes : HeldBySched(n)' <=> HeldBySched(n)
    BY <1>1 DEF HeldBySched
<1>12. \A n \in Nodes : Held(n)' <=> Held(n)
    BY Zenon, <1>3, <1>8, <1>9, <1>10, <1>11 DEF Held
<1>13. ~HeldByWorker(m) /\ ~HeldBySched(m)
    BY Zenon, <1>3, <1>8 DEF Exclusive, Alone
<1>14. \A u, v \in Workers : run'[u].pc \in Busy /\ run'[v].pc \in Busy
                                /\ run'[u].node = run'[v].node => u = v
    <2> SUFFICES ASSUME NEW u \in Workers, NEW v \in Workers, run'[u].pc \in Busy,
                        run'[v].pc \in Busy, run'[u].node = run'[v].node
                 PROVE  u = v
        OBVIOUS
    <2>1. \A x \in Workers : x # w /\ run'[x].pc \in Busy => run'[x].node # m
        BY Zenon, <1>5, <1>13 DEF HeldByWorker
    <2>2. CASE u = w \/ v = w
        BY Zenon, <1>4, <2>1, <2>2
    <2>3. CASE u # w /\ v # w
        BY Zenon, <1>5, <2>3 DEF Exclusive, Alone
    <2> QED BY Zenon, <2>2, <2>3
<1>15. Alone'
    BY Zenon, <1>7, <1>9, <1>10, <1>11, <1>13, <1>14 DEF Exclusive, Alone
<1>16. \A p \in NodePorts : NodeOf(p) \in Nodes
    BY Owner
<1> QED BY <1>1, <1>12, <1>15, <1>16 DEF Exclusive

(* EnableActivePort gives the node back. *)
LEMMA EnableExclusive ==
    ASSUME Shape, Shape', Exclusive, NEW w \in Workers, Enable(w) PROVE Exclusive'
<1> DEFINE m == run[w].node
<1>1. sched' = sched /\ tasks' = tasks
    BY DEF Enable, Stays
<1>2. m \in Nodes /\ run[w].pc \in Busy /\ run'[w].pc \notin Busy
    BY DEF Enable, Shape, Busy
<1>3. \A v \in Workers : v # w => run'[v] = run[v]
    BY DEF Enable, Shape
<1>4. /\ running' = [p \in Ports |-> IF p \in PortsOf(m) THEN FALSE ELSE running[p]]
      /\ active' \subseteq active \cup PortsOf(m)
    BY DEF Enable, AddToActivePort
<1>5. running \in [Ports -> BOOLEAN] /\ NodePorts \subseteq Ports /\ active \subseteq Ports
      /\ PortsOf(m) \subseteq NodePorts
    BY ZenonT(30), <1>2, Owner DEF Shape, HubTypeOK
<1>6. HeldByWorker(m)
    BY SMTT(30), <1>2 DEF HeldByWorker
<1>7. ~HeldByTask(m) /\ ~HeldBySched(m)
    BY SMTT(30), <1>2, <1>6 DEF Exclusive, Alone
<1>8. \A n \in Nodes : HeldByWorker(n)' <=> HeldByWorker(n) /\ n # m
    BY <1>2, <1>3 DEF Exclusive, Alone, HeldByWorker
<1>9. \A n \in Nodes : (HeldBySched(n)' <=> HeldBySched(n)) /\ (HeldByTask(n)' <=> HeldByTask(n))
    BY ZenonT(40), <1>1 DEF HeldBySched, HeldByTask
<1>10. \A u, v \in Workers : run'[u].pc \in Busy /\ run'[v].pc \in Busy
                                /\ run'[u].node = run'[v].node => u = v
    BY <1>2, <1>3 DEF Exclusive, Alone
<1> HIDE DEF m
<1>11. \A n \in Nodes : Held(n)' <=> Held(n) /\ n # m
    BY Zenon, <1>7, <1>8, <1>9 DEF Held
<1>12. Alone'
    BY Zenon, <1>1, <1>8, <1>9, <1>10 DEF Exclusive, Alone
<1>13. \A p \in active' : ~running'[p]
    BY <1>4, <1>5 DEF Exclusive
<1>14. \A n \in Nodes : Held(n)' => \A p \in PortsOf(n) : running'[p]
    <2> SUFFICES ASSUME NEW n \in Nodes, Held(n)', NEW p \in PortsOf(n) PROVE running'[p]
        OBVIOUS
    <2>1. Held(n) /\ n # m
        BY <1>11
    <2>2. p \in Ports /\ p \notin PortsOf(m)
        BY <2>1, <1>2, Owner
    <2>3. running[p]
        BY <2>1 DEF Exclusive
    <2> QED BY <2>2, <2>3, <1>4
<1>15. Held(m)
    BY <1>6 DEF Held
<1>16. /\ \A n \in Nodes : sched'.pc = "disable" /\ NodeOf(sched'.port) = n => ~Held(n)'
       /\ sched'.pc = "disable" => running'[sched'.port]
    <2>1. \A n \in Nodes : sched'.pc = "disable" /\ NodeOf(sched'.port) = n => ~Held(n)'
        BY <1>1, <1>11 DEF Exclusive
    <2>2. ASSUME sched.pc = "disable" PROVE running'[sched.port]
        <3>1. sched.port \in NodePorts /\ NodeOf(sched.port) \in Nodes
            BY ZenonT(40), <2>2, Owner DEF Shape
        <3>2. ~Held(NodeOf(sched.port)) /\ running[sched.port]
            BY <2>2, <3>1 DEF Exclusive
        <3>3. sched.port \notin PortsOf(m)
            <4>1. sched.port \in PortsOf(m) => NodeOf(sched.port) = m
                BY <1>2, Owner
            <4>2. ASSUME NodeOf(sched.port) = m PROVE FALSE
                BY <4>2, <1>2, <1>15, <2>2 DEF Exclusive
            <4> QED BY <4>1, <4>2
        <3> QED BY <3>1, <3>2, <3>3, <1>4, <1>5
    <2> QED BY Zenon, <1>1, <2>1, <2>2
<1>17. \A p \in NodePorts : running'[p] =>
           Held(NodeOf(p))' \/ (sched'.pc = "disable" /\ sched'.port = p)
    <2> SUFFICES ASSUME NEW p \in NodePorts, running'[p],
                        ~(sched.pc = "disable" /\ sched.port = p)
                 PROVE  Held(NodeOf(p))'
        BY <1>1
    <2>1. NodeOf(p) \in Nodes /\ p \in PortsOf(NodeOf(p))
        BY Owner
    <2>2. running[p] /\ p \notin PortsOf(m)
        BY <1>4, <1>5
    <2>3. Held(NodeOf(p))
        BY <2>2 DEF Exclusive
    <2> QED BY <2>1, <2>2, <2>3, <1>11
<1> QED BY <1>12, <1>13, <1>14, <1>16, <1>17 DEF Exclusive

(* Every step keeps ownership exclusive. *)
LEMMA NextExclusive == Shape /\ Shape' /\ Exclusive /\ [Next]_vars => Exclusive'
<1> SUFFICES ASSUME Shape, Shape', Exclusive, [Next]_vars PROVE Exclusive'
    OBVIOUS
<1>1. ASSUME NEW w \in Workers, Worker(w) PROVE Exclusive'
    <2>1. CASE Take(w)
        BY <2>1, TakeExclusive
    <2>2. CASE Enable(w)
        BY <2>2, EnableExclusive
    <2>3. CASE Recv(w) \/ Process(w) \/ PushPort(w) \/ Notify(w) \/ Unmark(w) \/ Finish(w)
        <3>1. SameHolders
            BY <2>3, WorkerHolders
        <3>2. \E p \in Ports : \E d : UNCHANGED hub \/ PortEventCallback(p, d)
            <4>1. CASE Recv(w)
                <5>1. Head(run[w].rest) \in Ports
                    BY Zenon, <4>1, RestPort DEF Recv
                <5> QED BY <4>1, <5>1, ZenonT(30) DEF Recv
            <4>2. CASE Notify(w)
                <5>1. Head(run[w].sends) \in Transmission
                      /\ run[w].i \in 1..Len(Head(run[w].sends).to)
                    <6>1. run[w].pc = "notify"
                        BY <4>2 DEF Notify
                    <6>2. run[w].sends \in Seq(Transmission) /\ run[w].sends # <<>>
                          /\ run[w].i \in 1..Len(Head(run[w].sends).to)
                        BY Zenon, <6>1 DEF Shape
                    <6> QED BY <6>2, SMTT(30)
                <5>2. Head(run[w].sends).to[run[w].i] \in Ports
                    BY <5>1 DEF Transmission
                <5> QED BY <4>2, <5>2, Zenon DEF Notify
            <4>3. CASE Process(w) \/ PushPort(w) \/ Unmark(w) \/ Finish(w)
                <5>1. UNCHANGED hub
                    BY Zenon, <4>3 DEF Process, PushPort, Unmark, Finish
                <5>2. CmdPort \in Ports
                    BY Owner
                <5> QED BY <5>1, <5>2
            <4> QED BY <2>3, <4>1, <4>2, <4>3
        <3>3. SameMarks
            BY <3>2, NotifyMarks
        <3> QED BY <3>1, <3>3, SameExclusive
    <2> QED BY <1>1, <2>1, <2>2, <2>3 DEF Worker
<1> QED BY <1>1, OtherExclusive, SelectExclusive, DisableExclusive, SubmitExclusive
        DEF Next, Scheduler

-----------------------------------------------------------------------------
(* What running_node_count_ counts. *)

(* A worker that starts is one more, one that finishes is one less. *)
LEMMA StartedSize ==
    ASSUME Shape, Shape', NEW w \in Workers, \A v \in Workers \ {w} : run'[v].pc = run[v].pc
    PROVE  /\ IsFiniteSet(Started) /\ Cardinality(Started) \in Nat
           /\ (run[w].pc = "idle" <=> run'[w].pc = "idle") => Started' = Started
           /\ run[w].pc = "idle" /\ run'[w].pc # "idle" =>
                  Cardinality(Started') = Cardinality(Started) + 1
           /\ run[w].pc # "idle" /\ run'[w].pc = "idle" =>
                  Cardinality(Started') = Cardinality(Started) - 1
<1>1. IsFiniteSet(Started) /\ Cardinality(Started) \in Nat
    <2>1. IsFiniteSet(Workers) /\ Started \subseteq Workers
        BY GraphAssumption DEF Started
    <2>2. IsFiniteSet(Started)
        BY <2>1, FS_Subset
    <2> QED BY Zenon, <2>2, FS_CardinalityType
<1>2. (run[w].pc = "idle" <=> run'[w].pc = "idle") => Started' = Started
    BY DEF Started
<1>3. ASSUME run[w].pc = "idle", run'[w].pc # "idle"
      PROVE  Cardinality(Started') = Cardinality(Started) + 1
    <2>1. Started' = Started \cup {w} /\ w \notin Started
        BY <1>3 DEF Started
    <2> QED BY SMTT(30), <1>1, <2>1, FS_AddElement
<1>4. ASSUME run[w].pc # "idle", run'[w].pc = "idle"
      PROVE  Cardinality(Started') = Cardinality(Started) - 1
    <2>1. Started' = Started \ {w} /\ w \in Started
        BY <1>4 DEF Started
    <2> QED BY Zenon, <1>1, <2>1, FS_RemoveElement
<1> QED BY <1>1, <1>2, <1>3, <1>4

(* Every step keeps the count. *)
LEMMA NextCounted == Shape /\ Shape' /\ Counted /\ [Next]_vars => Counted'
<1> SUFFICES ASSUME Shape, Shape', Counted, [Next]_vars PROVE Counted'
    OBVIOUS
<1>a. tasks \in Seq(Nodes \X Ports) /\ Len(tasks) \in Nat
    BY DEF Shape
<1>b. Cardinality(Started) \in Nat
    <2>1. IsFiniteSet(Workers) /\ Started \subseteq Workers
        BY GraphAssumption DEF Started
    <2> QED BY <2>1, FS_Subset, FS_CardinalityType
<1>1. ASSUME UNCHANGED <<count, tasks, run>>, sched'.pc = "submit" <=> sched.pc = "submit"
      PROVE  Counted'
    <2>1. Started' = Started
        BY <1>1 DEF Started
    <2> QED BY <1>1, <2>1 DEF Counted
<1>2. CASE Start \/ Loop \/ Select \/ SelectTimeout \/ RunCommand \/ Rearm \/ Disable
           \/ ShutdownPort \/ WaitNodeFinish \/ ClientSend \/ StopperStep \/ UNCHANGED vars
    BY <1>1, <1>2 DEF Start, Loop, Select, SelectTimeout, RunCommand, Rearm, Disable, To, pool,
                      ShutdownPort, WaitNodeFinish, ClientSend, StopperStep, vars, Shape
<1>3. CASE Mark
    <2>1. Started' = Started /\ tasks' = tasks /\ count' = count + 1 /\ sched.pc = "mark"
          /\ sched'.pc = "submit"
        BY <1>3 DEF Mark, pool, Started, To, Shape
    <2> QED BY <1>a, <1>b, <2>1 DEF Counted
<1>4. CASE Submit
    <2>1. Started' = Started /\ count' = count /\ sched.pc = "submit" /\ sched'.pc = "loop"
        BY <1>4 DEF Submit, Started, To, Shape
    <2>2. Len(tasks') = Len(tasks) + 1
        BY <1>4, <1>a DEF Submit
    <2> QED BY <1>a, <1>b, <2>1, <2>2 DEF Counted
<1>5. ASSUME NEW w \in Workers, Worker(w) PROVE Counted'
    <2>a. run \in [Workers -> [pc : Busy \cup {"idle", "unmark", "finish"}, node : Nodes,
              rest : Seq(Ports), got : Nat, sends : Seq(Transmission), i : Nat]]
        BY Zenon DEF Shape
    <2>b. \A v \in Workers \ {w} : run'[v].pc = run[v].pc
        BY Zenon, <1>5, <2>a DEF Worker, Take, Recv, Process, PushPort, Notify, Enable, Unmark, Finish
    <2>1. CASE Take(w)
        <3>1. run[w].pc = "idle" /\ run'[w].pc # "idle"
            BY <2>1, <2>a DEF Take, NoRun
        <3>2. Cardinality(Started') = Cardinality(Started) + 1
            BY <3>1, <2>b, StartedSize
        <3>3. Len(tasks') = Len(tasks) - 1 /\ count' = count /\ sched' = sched
            BY <2>1, <1>a DEF Take, Stays
        <3> QED BY <1>a, <1>b, <3>2, <3>3 DEF Counted
    <2>2. CASE Finish(w)
        <3>1. run[w].pc # "idle" /\ run'[w].pc = "idle"
            BY Zenon, <2>2, <2>a DEF Finish, NoRun
        <3>2. Cardinality(Started') = Cardinality(Started) - 1
            BY <3>1, <2>b, StartedSize
        <3>3. tasks' = tasks /\ count' = count - 1
              /\ (sched'.pc = "submit" <=> sched.pc = "submit")
            BY Zenon, <2>2 DEF Finish, To, Shape
        <3> QED BY SMTT(30), <1>a, <1>b, <3>2, <3>3 DEF Counted
    <2>3. CASE Recv(w) \/ Process(w) \/ PushPort(w) \/ Notify(w) \/ Enable(w) \/ Unmark(w)
        <3>1. tasks' = tasks /\ count' = count /\ sched' = sched
            BY ZenonT(40), <2>3 DEF Recv, Process, PushPort, Notify, Enable, Unmark, Stays
        <3>2. run[w].pc # "idle" /\ run'[w].pc # "idle"
            <4>1. CASE Process(w)
                <5>1. SameHolders /\ run[w].pc \in Busy
                    BY Zenon, <4>1, WorkerHolders DEF Process, Busy
                <5> QED BY Zenon, <5>1 DEF SameHolders, Busy
            <4>2. CASE Recv(w)
                BY Zenon, <4>2, <2>a DEF Recv
            <4>3. CASE PushPort(w)
                BY Zenon, <4>3, <2>a DEF PushPort
            <4>4. CASE Notify(w)
                BY <4>4, <2>a DEF Notify
            <4>5. CASE Enable(w) \/ Unmark(w)
                BY <4>5, <2>a DEF Enable, Unmark
            <4> QED BY <2>3, <4>1, <4>2, <4>3, <4>4, <4>5
        <3>3. Started' = Started
            BY <3>2, <2>b, StartedSize
        <3> QED BY <3>1, <3>3 DEF Counted
    <2> QED BY Zenon, <1>5, <2>1, <2>2, <2>3 DEF Worker
<1> QED BY <1>2, <1>3, <1>4, <1>5 DEF Next, Scheduler

(* The counter is a natural number. *)
LEMMA CountIsNat == Shape /\ Counted => count \in Nat
<1> SUFFICES ASSUME Shape, Counted PROVE count \in Nat
    OBVIOUS
<1>1. IsFiniteSet(Workers) /\ Started \subseteq Workers
    BY GraphAssumption DEF Started
<1>2. Cardinality(Started) \in Nat
    BY <1>1, FS_Subset, FS_CardinalityType
<1>3. Len(tasks) \in Nat
    BY DEF Shape
<1> QED BY <1>2, <1>3 DEF Counted

-----------------------------------------------------------------------------
(* The theorems. *)

IInv == Shape /\ Exclusive /\ Counted

(* Initially nobody holds a node and nothing is counted. *)
LEMMA InitIInv == Init => IInv
<1> SUFFICES ASSUME Init PROVE IInv
    OBVIOUS
<1>1. Shape
    BY InitShape
<1>2. /\ \A w \in Workers : run[w].pc = "idle"
      /\ sched.pc = "start" /\ tasks = <<>> /\ active = {} /\ count = 0
      /\ \A p \in Ports : running[p] = FALSE
    BY DEF Init, NoRun, HubInit
<1>3. \A n \in Nodes : ~HeldBySched(n) /\ ~HeldByTask(n) /\ ~HeldByWorker(n)
    BY SMTT(30), <1>2 DEF HeldBySched, HeldByTask, HeldByWorker, Busy
<1>4. Exclusive
    BY SMTT(30), <1>2, <1>3, Owner DEF Exclusive, Alone, Held, Busy
<1>5. Counted
    <2>1. Started = {}
        BY <1>2 DEF Started
    <2>2. Cardinality(Started) = 0 /\ Len(tasks) = 0
        BY <1>2, <2>1, FS_EmptySet
    <2> QED BY SMTT(30), <1>2, <2>2 DEF Counted
<1> QED BY <1>1, <1>4, <1>5 DEF IInv

(* IInv is an inductive invariant of the scheduler. *)
LEMMA SpecIInv == Spec => []IInv
<1>1. Init => IInv
    BY InitIInv
<1>2. IInv /\ [Next]_vars => IInv'
    BY NextShape, NextExclusive, NextCounted DEF IInv
<1> QED BY <1>1, <1>2, PTL DEF Spec

(* RunImpl, RunWapper, SendMatchData and Shutdown keep the types, for every graph and
   number of workers; running_node_count_ never falls below zero. *)
THEOREM TypeCorrect == Spec => []TypeOK
<1>1. IInv => TypeOK
    BY CountIsNat DEF IInv, TypeOK
<1> QED BY <1>1, SpecIInv, PTL

(* A set whose elements are all equal has at most one. *)
LEMMA AtMostOne ==
    ASSUME NEW S, \A x, y \in S : x = y
    PROVE  Cardinality(S) \in {0, 1} /\ (S = {} => Cardinality(S) = 0)
<1>1. CASE S = {}
    BY <1>1, FS_EmptySet
<1>2. CASE S # {}
    <2>1. PICK x : S = {x}
        BY <1>2
    <2> QED BY <2>1, <1>2, FS_Singleton
<1> QED BY <1>1, <1>2

(* No node is ever queued or executed twice at the same time, whatever its ports
   receive while it runs: Node::Run needs no lock. *)
THEOREM RunsAlone == Spec => []NodeRunsAlone
<1>1. IInv => NodeRunsAlone
    <2> SUFFICES ASSUME IInv, NEW n \in Nodes
                 PROVE  Cardinality(Queued(n)) + Cardinality(Executing(n))
                            + (IF Scheduling(n) THEN 1 ELSE 0) <= 1
        BY DEF NodeRunsAlone
    <2>1. (Queued(n) # {} <=> HeldByTask(n)) /\ (Executing(n) # {} <=> HeldByWorker(n))
          /\ (Scheduling(n) <=> HeldBySched(n))
        BY Zenon DEF Queued, Executing, Scheduling, HeldByTask, HeldByWorker, HeldBySched
    <2>2. \A i, j \in Queued(n) : i = j
        BY Zenon DEF Queued, IInv, Exclusive, Alone
    <2>3. \A v, w \in Executing(n) : v = w
        BY Zenon DEF Executing, IInv, Exclusive, Alone
    <2>4. /\ ~(Scheduling(n) /\ Queued(n) # {})
          /\ ~(Scheduling(n) /\ Executing(n) # {})
          /\ ~(Queued(n) # {} /\ Executing(n) # {})
        BY Zenon, <2>1 DEF IInv, Exclusive, Alone
    <2>5. Cardinality(Queued(n)) \in {0, 1} /\ (Queued(n) = {} => Cardinality(Queued(n)) = 0)
        BY <2>2, AtMostOne
    <2>6. Cardinality(Executing(n)) \in {0, 1}
          /\ (Executing(n) = {} => Cardinality(Executing(n)) = 0)
        BY <2>3, AtMostOne
    <2> QED BY <2>4, <2>5, <2>6
<1> QED BY <1>1, SpecIInv, PTL

(* RunImpl returns only after the last node run has ended, so that nothing uses the
   graph any more. *)
THEOREM QuietAfterDone == Spec => []QuietWhenDone
<1>1. Init => QuietWhenDone
    BY DEF Init, QuietWhenDone
<1>2. IInv /\ QuietWhenDone /\ [Next]_vars => QuietWhenDone'
    <2> SUFFICES ASSUME IInv, QuietWhenDone, [Next]_vars, sched'.pc = "done"
                 PROVE  tasks' = <<>> /\ \A w \in Workers : run'[w].pc = "idle"
        BY DEF QuietWhenDone
    <2> USE DEF To, pool
    <2>a. sched \in [pc : {"start", "loop", "select", "command", "stop", "rearm", "disable",
                           "mark", "submit", "shutdown", "wait", "waiting", "woken", "done"},
                     port : Ports]
        BY DEF IInv, Shape
    <2>1. CASE sched.pc = "done"
        <3>1. tasks = <<>> /\ \A w \in Workers : run[w].pc = "idle"
            BY <2>1 DEF QuietWhenDone
        <3>2. ~Scheduler
            BY Zenon, <2>1 DEF Scheduler, Start, Loop, Select, SelectTimeout, RunCommand, Rearm,
                        Disable, Mark, Submit, ShutdownPort, WaitNodeFinish
        <3>3. \A w \in Workers : ~Worker(w)
            BY ZenonT(30), <3>1 DEF Worker, Take, Recv, Process, PushPort, Notify, Enable, Unmark, Finish
        <3>4. UNCHANGED pool
            BY <3>2, <3>3 DEF Next, ClientSend, StopperStep, vars
        <3> QED BY <3>1, <3>4
    <2>2. CASE sched.pc # "done"
        <3>1. WaitNodeFinish
            <4>1. Scheduler
                <5>1. sched' # sched
                    BY Zenon, <2>2
                <5>2. ASSUME NEW w \in Workers, Worker(w) PROVE FALSE
                    BY Zenon, <5>2, <2>2, <2>a DEF Worker, Take, Recv, Process, PushPort, Notify,
                                            Enable, Unmark, Finish, Stays
                <5> QED BY <5>1, <5>2 DEF Next, ClientSend, StopperStep, vars
            <4> QED BY <4>1, <2>2, <2>a DEF Scheduler, Start, Loop, Select, SelectTimeout,
                        RunCommand, Rearm, Disable, Mark, Submit, ShutdownPort
        <3>2. count = 0 /\ UNCHANGED <<tasks, run>> /\ sched.pc # "submit"
            BY <3>1, <2>a DEF WaitNodeFinish
        <3>3. IsFiniteSet(Started) /\ Cardinality(Started) \in Nat /\ Len(tasks) \in Nat
            <4>1. IsFiniteSet(Workers) /\ Started \subseteq Workers
                BY GraphAssumption DEF Started
            <4> QED BY SMTT(30), <4>1, FS_Subset, FS_CardinalityType DEF IInv, Shape
        <3>4. Cardinality(Started) = 0 /\ Len(tasks) = 0
            BY <3>2, <3>3 DEF IInv, Counted
        <3>5. Started = {} /\ tasks = <<>>
            <4>1. Started = {}
                BY <3>3, <3>4, FS_EmptySet
            <4>2. tasks = <<>>
                BY <3>4 DEF IInv, Shape
            <4> QED BY <4>1, <4>2
        <3> QED BY <3>2, <3>5 DEF Started
    <2> QED BY <2>1, <2>2
<1> QED BY <1>1, <1>2, SpecIInv, PTL DEF Spec

-----------------------------------------------------------------------------
(* No port is forgotten, in a graph with one input. *)

SingleInput == ExtPorts = <<FirstExt>>

(* A node is owned when it is held or its port was selected. *)
LEMMA OwnedHeld ==
    \A n \in Nodes : Owned(n) <=> Held(n) \/ (sched.pc = "disable" /\ NodeOf(sched.port) = n)
BY Zenon DEF Owned, Held, HeldBySched, HeldByTask, HeldByWorker, Queued, Executing

(* A step that takes nothing away and adds no data forgets no port. *)
LEMMA Monotone ==
    ASSUME Shape, NoForgottenPort,
           \A p \in NodePorts : data'[p] > 0 => data[p] > 0,
           \A p \in NodePorts : p \in active => p \in active',
           \A p \in NodePorts : closed[p] => closed'[p],
           \A n \in Nodes : Owned(n) => Owned(n)',
           \A p \in NodePorts : NotifyPending(p) => NotifyPending(p)'
    PROVE  NoForgottenPort'
<1> SUFFICES ASSUME NEW p \in NodePorts, data'[p] > 0
             PROVE  p \in active' \/ closed'[p] \/ Owned(NodeOf(p))' \/ NotifyPending(p)'
    BY Zenon DEF NoForgottenPort
<1>1. NodeOf(p) \in Nodes
    BY Owner
<1>2. p \in active \/ closed[p] \/ Owned(NodeOf(p)) \/ NotifyPending(p)
    BY DEF NoForgottenPort
<1> QED BY Zenon, <1>1, <1>2

(* A notification makes its port active unless the port is closed, empty or owned. *)
LEMMA Notified ==
    ASSUME Shape, Exclusive, NEW p \in NodePorts, PortEventCallback(p, data), data[p] > 0
    PROVE  p \in active' \/ closed[p] \/ Owned(NodeOf(p))
<1>1. NodeOf(p) \in Nodes
    BY Zenon, Owner
<1>2. running[p] => Owned(NodeOf(p))
    BY <1>1, OwnedHeld DEF Exclusive
<1> QED BY <1>2 DEF PortEventCallback

(* The steps of the scheduler forget no port. *)
LEMMA SchedulerCovered ==
    ASSUME IInv, IInv', NoForgottenPort, Scheduler PROVE NoForgottenPort'
<1> USE DEF To, pool, hub
<1>a. Shape /\ CmdPort \notin NodePorts /\ NodePorts \subseteq Ports
    BY Owner DEF IInv
<1>b. \A p \in NodePorts : NotifyPending(p) => NotifyPending(p)'
    <2>1. (run' = run /\ client' = client /\ stopper' = stopper) \/ Submit
        BY DEF Scheduler, Start, Loop, Select, SelectTimeout, RunCommand, Rearm, Disable, Mark,
               ShutdownPort, WaitNodeFinish
    <2>2. run' = run /\ client' = client /\ stopper' = stopper
        BY <2>1 DEF Submit
    <2> QED BY <2>2 DEF NotifyPending, WillNotify
<1>1. CASE Start \/ Loop \/ SelectTimeout \/ RunCommand \/ Rearm \/ ShutdownPort \/ WaitNodeFinish
    <2>1. tasks' = tasks /\ run' = run
        BY <1>1 DEF Start, Loop, SelectTimeout, RunCommand, Rearm, ShutdownPort, WaitNodeFinish
    <2>2. sched.pc \notin {"disable", "mark", "submit"}
        BY <1>1 DEF Start, Loop, SelectTimeout, RunCommand, Rearm, ShutdownPort, WaitNodeFinish
    <2>3. \A n \in Nodes : Owned(n) => Owned(n)'
        BY <2>1, <2>2 DEF Owned, Queued, Executing
    <2>4. \A p \in NodePorts : data'[p] = data[p]
        BY <1>1, <1>a DEF Start, Loop, SelectTimeout, RunCommand, Rearm, ShutdownPort,
                          WaitNodeFinish, Shape, HubTypeOK
    <2>5. \A p \in NodePorts : p \in active => p \in active'
        BY Zenon, <1>1 DEF Start, Loop, SelectTimeout, RunCommand, Rearm, ShutdownPort,
                    WaitNodeFinish, AddToActivePort, PortEventCallback
    <2>6. \A p \in NodePorts : closed[p] => closed'[p]
        BY <1>1, <1>a DEF Start, Loop, SelectTimeout, RunCommand, Rearm, ShutdownPort,
                          WaitNodeFinish, Shape, HubTypeOK
    <2> QED BY <1>a, <1>b, <2>3, <2>4, <2>5, <2>6, Monotone
<1>2. CASE Mark
    <2>1. \A n \in Nodes : Owned(n) => Owned(n)'
        BY <1>2 DEF Mark, Owned, Queued, Executing, IInv, Shape
    <2> QED BY <1>2, <1>a, <1>b, <2>1, Monotone DEF Mark
<1>3. CASE Submit
    <2> DEFINE t == <<NodeOf(sched.port), sched.port>>
    <2>1. tasks \in Seq(Nodes \X Ports) /\ tasks' = Append(tasks, t) /\ run' = run
          /\ sched.pc = "submit" /\ t[1] = NodeOf(sched.port)
        BY <1>3, <1>a DEF Submit, Shape
    <2> HIDE DEF t
    <2>2. /\ \A i \in DOMAIN tasks : i \in DOMAIN tasks' /\ tasks'[i] = tasks[i]
          /\ Len(tasks) + 1 \in DOMAIN tasks' /\ tasks'[Len(tasks) + 1] = t
        BY <2>1
    <2>3. \A n \in Nodes : Owned(n) => Owned(n)'
        BY Zenon, <2>1, <2>2 DEF Owned, Queued, Executing
    <2> QED BY <1>3, <1>a, <1>b, <2>3, Monotone DEF Submit
<1>4. CASE Select
    <2>1. PICK q \in active : SelectActivePort(q) /\
              sched' = [pc |-> IF q = CmdPort THEN "command" ELSE "disable", port |-> q]
        BY <1>4 DEF Select
    <2>2. sched.pc = "select" /\ tasks' = tasks /\ run' = run /\ data' = data /\ closed' = closed
          /\ active' = active \ {q}
        BY <1>4, <2>1 DEF Select, SelectActivePort
    <2>3. \A n \in Nodes : Owned(n) => Owned(n)'
        BY <2>2 DEF Owned, Queued, Executing
    <2>4. q # CmdPort => Owned(NodeOf(q))'
        BY <2>1 DEF Owned
    <2>5. \A p \in NodePorts : NodeOf(p) \in Nodes
        BY Zenon, Owner
    <2> SUFFICES ASSUME NEW p \in NodePorts, data'[p] > 0
                 PROVE  p \in active' \/ closed'[p] \/ Owned(NodeOf(p))' \/ NotifyPending(p)'
        BY DEF NoForgottenPort
    <2>6. CASE p = q
        BY <2>4, <2>6, <1>a
    <2>7. CASE p # q
        BY Zenon, <2>2, <2>3, <2>5, <2>7, <1>b DEF NoForgottenPort
    <2> QED BY <2>6, <2>7
<1>5. CASE Disable
    <2> DEFINE m == NodeOf(sched.port)
    <2>1. sched.pc = "disable" /\ sched' = [sched EXCEPT !.pc = "mark"] /\ tasks' = tasks
          /\ run' = run /\ data' = data /\ closed' = closed /\ active' = active \ PortsOf(m)
        BY <1>5 DEF Disable, RemoveFromActivePort
    <2>2. sched'.pc = "mark" /\ sched'.port = sched.port /\ sched.port \in NodePorts
        BY <2>1, <1>a DEF Shape
    <2>3. \A n \in Nodes : Owned(n) => Owned(n)'
        BY Zenon, <2>1, <2>2 DEF Owned, Queued, Executing
    <2>4. m \in Nodes /\ \A p \in NodePorts : NodeOf(p) \in Nodes /\ (p \in PortsOf(m) => NodeOf(p) = m)
        BY <2>2, Owner
    <2>5. \A n \in Nodes : n = m => Owned(n)'
        BY ZenonT(40), <2>2 DEF Owned
    <2> HIDE DEF m
    <2> SUFFICES ASSUME NEW p \in NodePorts, data'[p] > 0
                 PROVE  p \in active' \/ closed'[p] \/ Owned(NodeOf(p))' \/ NotifyPending(p)'
        BY DEF NoForgottenPort
    <2>6. CASE p \in PortsOf(m)
        BY <2>4, <2>5, <2>6
    <2>7. CASE p \notin PortsOf(m)
        BY <2>1, <2>3, <2>4, <2>7, <1>b DEF NoForgottenPort
    <2> QED BY <2>6, <2>7
<1> QED BY <1>1, <1>2, <1>3, <1>4, <1>5 DEF Scheduler

(* The steps of a worker forget no port. *)
LEMMA WorkerCovered ==
    ASSUME IInv, IInv', NoForgottenPort, NEW w \in Workers, Worker(w) PROVE NoForgottenPort'
<1>a. Shape /\ Shape' /\ Exclusive /\ NodePorts \subseteq Ports
    BY Zenon, Owner DEF IInv
<1>b. run \in [Workers -> [pc : Busy \cup {"idle", "unmark", "finish"}, node : Nodes,
          rest : Seq(Ports), got : Nat, sends : Seq(Transmission), i : Nat]]
    BY Zenon, <1>a DEF Shape
<1>c. \A v \in Workers : v # w => run'[v] = run[v]
    BY ZenonT(30), <1>b DEF Worker, Take, Recv, Process, PushPort, Notify, Enable, Unmark, Finish
<1>d. client' = client /\ stopper' = stopper /\ closed' = closed
    BY Zenon DEF Worker, Take, Recv, Process, PushPort, Notify, Enable, Unmark, Finish, Stays
<1>e. ASSUME NEW p \in NodePorts, WillNotify(w, p) => WillNotify(w, p)', NotifyPending(p)
      PROVE  NotifyPending(p)'
    <2>1. ASSUME NEW v \in Workers, WillNotify(v, p) PROVE \E u \in Workers : WillNotify(u, p)'
        <3>1. CASE v = w
            BY <1>e, <2>1, <3>1
        <3>2. CASE v # w
            <4>1. run'[v] = run[v]
                BY Zenon, <1>c, <3>2
            <4>2. WillNotify(v, p)'
                BY <2>1, <4>1 DEF WillNotify
            <4> QED BY <4>2
        <3> QED BY <3>1, <3>2
    <2> QED BY <1>d, <1>e, <2>1 DEF NotifyPending
<1>f. \A n \in Nodes : SameHolders => (Owned(n) => Owned(n)')
    BY Zenon DEF SameHolders, Owned, Queued, Executing
<1>1. CASE Take(w)
    <2>1. \A p \in NodePorts : ~WillNotify(w, p)
        BY <1>1 DEF Take, WillNotify
    <2>2. run[w].pc \notin Busy /\ run'[w].node = Head(tasks)[1] /\ run'[w].pc \in Busy
        BY <1>1, <1>b DEF Take, NoRun, Busy
    <2>3. tasks \in Seq(Nodes \X Ports) /\ tasks # <<>> /\ tasks' = Tail(tasks) /\ sched' = sched
        BY <1>1, <1>a DEF Take, Shape, Stays
    <2>4. \A j \in DOMAIN tasks : j # 1 => j - 1 \in DOMAIN tasks' /\ tasks'[j - 1] = tasks[j]
        BY <2>3
    <2>5. Head(tasks) = tasks[1]
        BY <2>3
    <2>6. \A n \in Nodes : Queued(n) # {} => Queued(n)' # {} \/ Executing(n)' # {}
        <3> SUFFICES ASSUME NEW n \in Nodes, NEW j \in Queued(n)
                     PROVE  Queued(n)' # {} \/ Executing(n)' # {}
            OBVIOUS
        <3>1. j \in DOMAIN tasks /\ tasks[j][1] = n
            BY Zenon DEF Queued
        <3>2. CASE j = 1
            BY Zenon, <3>1, <3>2, <2>2, <2>5 DEF Executing
        <3>3. CASE j # 1
            <4>1. j - 1 \in DOMAIN tasks' /\ tasks'[j - 1][1] = n
                BY <3>1, <3>3, <2>4
            <4> QED BY <4>1 DEF Queued
        <3> QED BY <3>2, <3>3
    <2>7. \A n \in Nodes : Executing(n) # {} => Executing(n)' # {}
        BY <2>2, <1>c DEF Executing
    <2>8. \A n \in Nodes : Owned(n) => Owned(n)'
        BY <2>3, <2>6, <2>7 DEF Owned
    <2>9. data' = data /\ active' = active
        BY Zenon, <1>1 DEF Take, hub
    <2> QED BY <1>a, <1>d, <1>e, <2>1, <2>8, <2>9, Monotone
<1>2. CASE Recv(w)
    <2>1. SameHolders
        BY <1>2, <1>a, WorkerHolders
    <2>2. \A p \in NodePorts : ~WillNotify(w, p)
        BY <1>2 DEF Recv, WillNotify
    <2>3. \A p \in NodePorts : data'[p] > 0 => data[p] > 0
        <3> DEFINE q == Head(run[w].rest)
        <3>1. q \in Ports
            BY SMTT(30), <1>2, <1>b DEF Recv
        <3>2. ReadCount(q) \in Nat /\ data \in [Ports -> Nat]
            BY ZenonT(30), <1>a, <3>1, GraphAssumption DEF ReadCount, Shape, HubTypeOK
        <3>3. data' = [data EXCEPT ![q] = @ - ReadCount(q)]
            BY <1>2 DEF Recv
        <3> HIDE DEF q
        <3> QED BY <1>a, <3>1, <3>2, <3>3
    <2>4. \A p \in NodePorts : p \in active => p \in active'
        BY Zenon, <1>2 DEF Recv, PortEventCallback, hub
    <2> QED BY Zenon, <1>a, <1>d, <1>e, <1>f, <2>1, <2>2, <2>3, <2>4, Monotone
<1>3. CASE Process(w)
    <2>1. SameHolders
        BY Zenon, <1>3, <1>a, WorkerHolders
    <2>2. \A p \in NodePorts : ~WillNotify(w, p)
        BY ZenonT(30), <1>3 DEF Process, WillNotify
    <2>3. data' = data /\ active' = active
        BY ZenonT(30), <1>3 DEF Process, hub
    <2> QED BY ZenonT(30), <1>a, <1>d, <1>e, <1>f, <2>1, <2>2, <2>3, Monotone
<1>4. CASE PushPort(w)
    <2> DEFINE s == Head(run[w].sends).to
               q == s[run[w].i]
    <2>1. SameHolders
        BY Zenon, <1>4, <1>a, WorkerHolders
    <2>2. run[w].pc = "push" /\ run[w].i \in 1..Len(s) /\ run[w].sends # <<>>
        BY Zenon, <1>4, <1>a DEF PushPort, Shape
    <2>3. s \in Seq(Ports)
        <3>1. Head(run[w].sends) \in Transmission
            BY SMTT(30), <2>2, <1>b
        <3> QED BY <3>1 DEF Transmission
    <2>4. /\ run'[w].sends = run[w].sends
          /\ run'[w].pc = IF run[w].i = Len(s) THEN "notify" ELSE "push"
          /\ run'[w].i = IF run[w].i = Len(s) THEN 1 ELSE run[w].i + 1
        BY ZenonT(30), <1>4, <1>b DEF PushPort
    <2>5. \A p \in NodePorts : (\E i \in DOMAIN s : s[i] = p) => WillNotify(w, p)'
        <3>1. \A i \in DOMAIN s : 1 <= i
            BY SMTT(30), <2>3
        <3> QED BY <2>4, <3>1 DEF WillNotify
    <2>6. \A p \in NodePorts : WillNotify(w, p) => WillNotify(w, p)'
        BY Zenon, <2>5 DEF WillNotify
    <2>7. \A p \in NodePorts : p # q => data'[p] = data[p]
        BY ZenonT(40), <1>4, <1>a DEF PushPort, Shape, HubTypeOK
    <2>8. run[w].i \in DOMAIN s
        BY SMTT(30), <2>2, <2>3
    <2>9. \A p \in NodePorts : p = q => NotifyPending(p)'
        BY Zenon, <2>5, <2>8 DEF NotifyPending
    <2>10. active' = active
        BY Zenon, <1>4 DEF PushPort, hub
    <2>11. \A p \in NodePorts : NodeOf(p) \in Nodes
        BY Zenon, Owner
    <2> HIDE DEF q
    <2> SUFFICES ASSUME NEW p \in NodePorts, data'[p] > 0, p # q
                 PROVE  p \in active' \/ closed'[p] \/ Owned(NodeOf(p))' \/ NotifyPending(p)'
        BY Zenon, <2>9 DEF NoForgottenPort
    <2>12. p \in active \/ closed[p] \/ Owned(NodeOf(p)) \/ NotifyPending(p)
        BY ZenonT(40), <2>7 DEF NoForgottenPort
    <2> QED BY ZenonT(30), <2>12, <2>1, <2>6, <2>10, <2>11, <1>d, <1>e, <1>f
<1>5. CASE Notify(w)
    <2> DEFINE s == Head(run[w].sends).to
               q == s[run[w].i]
    <2>1. SameHolders
        BY Zenon, <1>5, <1>a, WorkerHolders
    <2>2. run[w].pc = "notify" /\ run[w].i \in 1..Len(s) /\ run[w].sends # <<>>
        BY Zenon, <1>5, <1>a DEF Notify, Shape
    <2>3. s \in Seq(Ports)
        <3>1. Head(run[w].sends) \in Transmission
            BY SMTT(30), <2>2, <1>b
        <3> QED BY <3>1 DEF Transmission
    <2>4. PortEventCallback(q, data) /\ data' = data
        BY Zenon, <1>5 DEF Notify
    <2>5. \A p \in NodePorts : p # q /\ WillNotify(w, p) => WillNotify(w, p)'
        <3> SUFFICES ASSUME NEW p \in NodePorts, p # q, WillNotify(w, p) PROVE WillNotify(w, p)'
            OBVIOUS
        <3>1. PICK j \in DOMAIN s : s[j] = p /\ run[w].i <= j
            BY Zenon, <2>2 DEF WillNotify
        <3>a. DOMAIN s = 1..Len(s) /\ Len(s) \in Nat
            BY Zenon, <2>3, LenProperties
        <3>b. j # run[w].i
            BY Zenon, <3>1
        <3>c. run[w].i \in Nat
            BY ONLY <2>2, <3>a
        <3>2. j # run[w].i /\ j \in 1..Len(s) /\ run[w].i \in Nat /\ Len(s) \in Nat
            BY ZenonT(40), <3>1, <3>a, <3>b, <3>c
        <3>3. run[w].i # Len(s) /\ run[w].i + 1 <= j
            BY <3>1, <3>2, <2>2
        <3>4. run'[w].sends = run[w].sends /\ run'[w].pc = "notify" /\ run'[w].i = run[w].i + 1
            BY Zenon, <1>5, <1>b, <3>3 DEF Notify
        <3> QED BY ZenonT(40), <3>1, <3>3, <3>4 DEF WillNotify
    <2>6. \A p \in NodePorts : p \in active => p \in active'
        BY ZenonT(30), <2>4 DEF PortEventCallback
    <2>7. \A p \in NodePorts : NodeOf(p) \in Nodes
        BY Owner
    <2> SUFFICES ASSUME NEW p \in NodePorts, data'[p] > 0
                 PROVE  p \in active' \/ closed'[p] \/ Owned(NodeOf(p))' \/ NotifyPending(p)'
        BY Zenon DEF NoForgottenPort
    <2>8. CASE p = q
        <3>1. p \in active' \/ closed[p] \/ Owned(NodeOf(p))
            BY ZenonT(30), <1>a, <2>4, <2>8, Notified
        <3> QED BY Zenon, <3>1, <2>1, <2>7, <1>d, <1>f
    <2>9. CASE p # q
        <3>1. p \in active \/ closed[p] \/ Owned(NodeOf(p)) \/ NotifyPending(p)
            BY Zenon, <2>4 DEF NoForgottenPort
        <3>2. NotifyPending(p) => NotifyPending(p)'
            BY Zenon, <2>5, <2>9, <1>e
        <3> QED BY Zenon, <3>1, <3>2, <2>1, <2>6, <2>7, <1>d, <1>f
    <2> QED BY <2>8, <2>9
<1>6. CASE Enable(w)
    <2> DEFINE m == run[w].node
    <2>1. sched' = sched /\ tasks' = tasks /\ data' = data /\ run'[w].pc \notin Busy
          /\ active' = active \cup {p \in PortsOf(m) : data[p] > 0}
        BY Zenon, <1>6, <1>b DEF Enable, Stays, AddToActivePort, Busy
    <2>2. \A n \in Nodes : n # m /\ Owned(n) => Owned(n)'
        BY <2>1, <1>c DEF Owned, Queued, Executing
    <2>3. \A p \in NodePorts : ~WillNotify(w, p)
        BY Zenon, <1>6 DEF Enable, WillNotify
    <2>4. \A p \in NodePorts : NodeOf(p) \in Nodes /\ (NodeOf(p) = m => p \in PortsOf(m))
        BY ZenonT(40), Owner
    <2> HIDE DEF m
    <2> SUFFICES ASSUME NEW p \in NodePorts, data'[p] > 0
                 PROVE  p \in active' \/ closed'[p] \/ Owned(NodeOf(p))' \/ NotifyPending(p)'
        BY DEF NoForgottenPort
    <2>5. p \in active \/ closed[p] \/ Owned(NodeOf(p)) \/ NotifyPending(p)
        BY ZenonT(40), <2>1 DEF NoForgottenPort
    <2> QED BY Zenon, <2>1, <2>2, <2>3, <2>4, <2>5, <1>d, <1>e
<1>7. CASE Unmark(w) \/ Finish(w)
    <2>1. SameHolders
        BY <1>7, <1>a, WorkerHolders
    <2>2. \A p \in NodePorts : ~WillNotify(w, p)
        BY <1>7 DEF Unmark, Finish, WillNotify
    <2>3. data' = data /\ active' = active
        BY <1>7 DEF Unmark, Finish, hub
    <2> QED BY <1>a, <1>d, <1>e, <1>f, <2>1, <2>2, <2>3, Monotone
<1> QED BY <1>1, <1>2, <1>3, <1>4, <1>5, <1>6, <1>7 DEF Worker

(* The steps of the callers forget no port, if there is a single input. *)
LEMMA CallerCovered ==
    ASSUME SingleInput, IInv, IInv', NoForgottenPort,
           ClientSend \/ StopperStep \/ UNCHANGED vars
    PROVE  NoForgottenPort'
<1>a. Shape /\ Exclusive /\ CmdPort \notin NodePorts /\ NodePorts \subseteq Ports
    BY Owner DEF IInv
<1>b. UNCHANGED <<sched, tasks, run, closed>>
    BY DEF ClientSend, StopperStep, vars, pool
<1>c. \A n \in Nodes : Owned(n) => Owned(n)'
    BY Zenon, <1>b DEF Owned, Queued, Executing
<1>d. \A p \in NodePorts, w \in Workers : WillNotify(w, p) => WillNotify(w, p)'
    BY <1>b DEF WillNotify
<1>e. Len(ExtPorts) = 1 /\ ExtPorts[1] = FirstExt /\ client.i \in 1..2
    BY <1>a DEF SingleInput, Shape
<1>1. CASE ClientSend
    <2>1. CASE client.i <= Len(ExtPorts)
        <3>1. /\ data' = [data EXCEPT ![FirstExt] = @ + 1] /\ client'.i = 2
              /\ stopper' = stopper /\ active' = active
            BY SMTT(30), <1>1, <2>1, <1>a, <1>e DEF ClientSend, hub, Shape
        <3>2. \A p \in NodePorts : NotifyPending(p) => NotifyPending(p)'
            BY <3>1, <1>d DEF NotifyPending
        <3>3. NotifyPending(FirstExt)'
            BY <3>1 DEF NotifyPending
        <3>4. \A p \in NodePorts : p # FirstExt => data'[p] = data[p]
            BY <3>1, <1>a DEF Shape, HubTypeOK
        <3>5. \A p \in NodePorts : NodeOf(p) \in Nodes
            BY Zenon, Owner
        <3> QED BY <1>b, <1>c, <3>1, <3>2, <3>3, <3>4, <3>5 DEF NoForgottenPort
    <2>2. CASE ~(client.i <= Len(ExtPorts))
        <3>1. PortEventCallback(FirstExt, data) /\ data' = data /\ stopper' = stopper
            BY <1>1, <2>2 DEF ClientSend
        <3>2. \A p \in NodePorts : p # FirstExt /\ NotifyPending(p) => NotifyPending(p)'
            BY <3>1, <1>d DEF NotifyPending
        <3>3. active \subseteq active'
            BY Zenon, <3>1 DEF PortEventCallback
        <3>4. \A p \in NodePorts : NodeOf(p) \in Nodes
            BY Owner
        <3> SUFFICES ASSUME NEW p \in NodePorts, data'[p] > 0
                     PROVE  p \in active' \/ closed'[p] \/ Owned(NodeOf(p))' \/ NotifyPending(p)'
            BY Zenon DEF NoForgottenPort
        <3>5. CASE p = FirstExt
            <4>1. p \in active' \/ closed[p] \/ Owned(NodeOf(p))
                BY Zenon, <1>a, <3>1, <3>5, Notified
            <4> QED BY Zenon, <4>1, <1>b, <1>c, <3>4
        <3>6. CASE p # FirstExt
            BY Zenon, <1>b, <1>c, <3>1, <3>2, <3>3, <3>4, <3>6 DEF NoForgottenPort
        <3> QED BY <3>5, <3>6
    <2> QED BY ZenonT(40), <2>1, <2>2
<1>2. CASE StopperStep
    <2>1. client' = client
        BY <1>2 DEF StopperStep
    <2>2. \A p \in NodePorts : NotifyPending(p) => NotifyPending(p)'
        BY Zenon, <2>1, <1>a, <1>d DEF NotifyPending
    <2>3. \A p \in NodePorts : data'[p] = data[p]
        BY Zenon, <1>2, <1>a DEF StopperStep, Shape, HubTypeOK
    <2>4. active \subseteq active'
        BY ZenonT(30), <1>2 DEF StopperStep, PortEventCallback, hub
    <2> QED BY ZenonT(40), <1>a, <1>b, <1>c, <2>2, <2>3, <2>4, Monotone
<1>3. CASE UNCHANGED vars
    <2>1. UNCHANGED <<client, stopper, data, active>>
        BY <1>3 DEF vars
    <2>2. \A p \in NodePorts : NotifyPending(p) => NotifyPending(p)'
        BY <2>1, <1>d DEF NotifyPending
    <2> QED BY ZenonT(30), <1>a, <1>b, <1>c, <2>1, <2>2, Monotone
<1> QED BY <1>1, <1>2, <1>3

(* In a graph with one input a port that holds data can always be scheduled, is owned
   by a run that will look at it again, or has a notification on the way: none of the
   interleavings of pushes, runs and re-activation loses it. *)
THEOREM NoneForgotten ==
    ASSUME SingleInput
    PROVE  Spec => []NoForgottenPort
<1>1. Init => NoForgottenPort
    BY Owner DEF Init, HubInit, NoForgottenPort
<1>2. IInv /\ IInv' /\ NoForgottenPort /\ [Next]_vars => NoForgottenPort'
    BY SchedulerCovered, WorkerCovered, CallerCovered DEF Next
<1> QED BY <1>1, <1>2, SpecIInv, PTL DEF Spec

==============================================================================
