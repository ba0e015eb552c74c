------------------------------ MODULE Session ------------------------------
(***************************************************************************)
(* A session of the flow as its client sees it: ExternalDataMapImpl and    *)
(* ExternalDataSelect of engine/external_data_map.cc, Session of           *)
(* engine/session.cc and the output nodes of engine/virtual_node.cc.       *)
(*                                                                         *)
(* Clients send, close and shut down; the output node of the graph puts    *)
(* results into graph_output_cache_; the thread of the selector waits for  *)
(* results of many sessions, and each session in Direct has a thread that  *)
(* receives its results alone.  The graph between the input and the output *)
(* node is external: it keeps the order of the frames of a session, and    *)
(* turns each into results, into none, or into results with an error.  A   *)
(* frame holds a reference to its session, which ends with the last one.   *)
(***************************************************************************)
EXTENDS Integers, FiniteSets, FiniteSetsExt

CONSTANTS
    Sessions,   \* the sessions
    Direct,     \* the sessions whose client calls Recv without a selector
    Faulty,     \* the sessions whose data some flow unit cannot process
    Unmatched,  \* the output node is an OutputUnmatchVirtualNode
    InPorts,    \* the input ports of the graph
    MaxSend,    \* bound: the buffers that are sent in a behaviour
    Timed       \* Recv is called with a timeout

VARIABLES
    sent,       \* how many buffers were given to Send (for the bound)
    cached,     \* graph_input_ports_cache_: those that wait for other ports
    flight,     \* the frames of a session that are in the graph
    closed,     \* close_flag_, and with it init_stream_ = nullptr
    shut,       \* shutdown_flag_
    error,      \* whether the session has an error_
    results,    \* the size of graph_output_cache_
    made,       \* how many results were ever pushed to it
    got,        \* how many results the client was given
    over,       \* session_end_flag_, and whether the selector was notified
    lastError,  \* whether last_error_ is set
    list,       \* external_list_ of the selector
    node,       \* the thread that runs the output node
    recv,       \* recv[r]: the thread of the selector, or of a session
    reported    \* the status that told the client the end

client == <<sent, cached, closed, shut>>
output == <<results, made>>
vars == <<client, flight, error, output, got, over, lastError, list, node, recv, reported>>

NoOne == "no one"
Selector == "selector"
Receivers == Direct \cup {Selector}

ASSUME SessionAssumption ==
    /\ Direct \subseteq Sessions /\ Faulty \subseteq Sessions
    /\ NoOne \notin Sessions
    /\ {Unmatched, Timed} \subseteq BOOLEAN
    /\ MaxSend \in Nat
    /\ IsFiniteSet(InPorts) /\ InPorts # {}

IdleNode == [pc |-> "idle", s |-> NoOne, left |-> 0, error |-> FALSE]

Init ==
    /\ sent = 0
    /\ cached = [s \in Sessions |-> [p \in InPorts |-> 0]]
    /\ flight = [s \in Sessions |-> 0]
    /\ closed = [s \in Sessions |-> FALSE]
    /\ shut = [s \in Sessions |-> FALSE]
    /\ error = [s \in Sessions |-> FALSE]
    /\ results = [s \in Sessions |-> 0]
    /\ made = [s \in Sessions |-> 0]
    /\ got = [s \in Sessions |-> 0]
    /\ over = [s \in Sessions |-> "no"]
    /\ lastError = [s \in Sessions |-> FALSE]
    /\ list = {}
    /\ node = IdleNode
    /\ recv = [r \in Receivers |-> [pc |-> "idle", s |-> NoOne, todo |-> {}]]
    /\ reported = [s \in Sessions |-> "no"]

Ended(s) == over[s] # "no"

(* The client's handle, the frames in the graph and the run of the output  *)
(* node are the references to a session.                                   *)
Released(s) == closed[s] /\ flight[s] = 0 /\ node.s # s

-----------------------------------------------------------------------------
(* The client: each call holds close_state_lock_. *)

(* Send caches a buffer and moves what all ports have to the graph. *)
Send(s, p) ==
    /\ ~closed[s]
    /\ sent < MaxSend
    /\ sent' = sent + 1
    /\ LET there == [cached[s] EXCEPT ![p] = @ + 1]
           matched == Min({there[q] : q \in InPorts})
       IN  /\ cached' = [cached EXCEPT ![s] = [q \in InPorts |-> there[q] - matched]]
           /\ flight' = [flight EXCEPT ![s] = @ + matched]
    /\ UNCHANGED <<closed, shut, error, output, got, over, lastError, list, node, recv, reported>>

(* An end buffer follows the data on every port; init_stream_ is released. *)
Close(s) ==
    /\ closed' = [closed EXCEPT ![s] = TRUE]
    /\ flight' = [flight EXCEPT ![s] = IF closed[s] THEN @ ELSE @ + 1]

ClientClose(s) ==
    /\ ~closed[s]
    /\ Close(s)
    /\ UNCHANGED <<sent, cached, shut, error, output, got, over, lastError, list, node, recv, reported>>

(* Session::Close, unless the session is gone, and Close. *)
Shutdown(s) ==
    /\ ~shut[s]
    /\ shut' = [shut EXCEPT ![s] = TRUE]
    /\ IF Released(s)
       THEN UNCHANGED <<closed, flight, error>>
       ELSE /\ error' = [error EXCEPT ![s] = TRUE]
            /\ Close(s)
    /\ UNCHANGED <<sent, cached, output, got, over, lastError, list, node, recv, reported>>

RegisterExternalData(s) ==
    /\ s \notin Direct /\ s \notin list /\ reported[s] = "no"
    /\ list' = list \cup {s}
    /\ UNCHANGED <<client, flight, error, output, got, over, lastError, node, recv, reported>>

-----------------------------------------------------------------------------
(* The output node and the end of a session. *)

(* A flow unit without output ports fails: Node::SetLastError. *)
Fail(s) ==
    /\ s \in Faulty /\ flight[s] > 0 /\ ~error[s]
    /\ error' = [error EXCEPT ![s] = TRUE]
    /\ UNCHANGED <<client, flight, output, got, over, lastError, list, node, recv, reported>>

(* Run takes frames of a session and looks for results in them.  With      *)
(* matched ports they are one output, or none when only end flags and      *)
(* empty buffers came; otherwise there is one for each stream, empty or    *)
(* not, and last_error_ is written first.                                  *)
NodeRun(s) ==
    /\ node.pc = "idle" /\ flight[s] > 0
    /\ \E n \in 1 .. flight[s], fault \in {FALSE, (s \in Faulty)} :
         /\ flight' = [flight EXCEPT ![s] = @ - n]
         /\ \E k \in (IF Unmatched THEN 1 ELSE 0) .. (IF Unmatched THEN n ELSE 1) :
              node' = IF k = 0 THEN IdleNode
                      ELSE [pc |-> "size", s |-> s, left |-> k, error |-> fault]
         /\ lastError' = IF Unmatched THEN [lastError EXCEPT ![s] = fault] ELSE lastError
    /\ UNCHANGED <<client, error, output, got, over, list, recv, reported>>

(* The node goes on with the next output, or lets go of the session. *)
NodeDone == IF node.left > 1 THEN [node EXCEPT !.pc = "size", !.left = @ - 1]
            ELSE IF Unmatched THEN IdleNode ELSE [node EXCEPT !.pc = "error"]

(* PushGraphOutputBuffer reads the size of the cache first, *)
NodeSize ==
    /\ node.pc = "size"
    /\ node' = [node EXCEPT !.pc = IF results[node.s] = 0 THEN "first" ELSE "push"]
    /\ UNCHANGED <<client, flight, error, output, got, over, lastError, list, recv, reported>>

(* then pushes, *)
NodePush ==
    /\ node.pc \in {"first", "push"}
    /\ results' = [results EXCEPT ![node.s] = @ + 1]
    /\ made' = [made EXCEPT ![node.s] = @ + 1]
    /\ node' = IF node.pc = "first" THEN [node EXCEPT !.pc = "notify"] ELSE NodeDone
    /\ UNCHANGED <<client, flight, error, got, over, lastError, list, recv, reported>>

(* and wakes the selector when the cache was empty.  A session that was    *)
(* not registered has no selector.                                         *)
NotifySelect(s) ==
    recv' = IF s \in list /\ recv[Selector].pc = "asleep"
            THEN [recv EXCEPT ![Selector].pc = "idle"] ELSE recv

NodeNotify ==
    /\ node.pc = "notify"
    /\ NotifySelect(node.s)
    /\ node' = NodeDone
    /\ UNCHANGED <<client, flight, error, output, got, over, lastError, list, reported>>

NodeError ==
    /\ node.pc = "error"
    /\ lastError' = [lastError EXCEPT ![node.s] = node.error]
    /\ node' = IdleNode
    /\ UNCHANGED <<client, flight, error, output, got, over, list, recv, reported>>

(* Mutant of SessionEnd: what the output node wrote last is kept. *)
SessionEnd_KeepsError(s) ==
    /\ Released(s) /\ ~Ended(s)
    /\ over' = [over EXCEPT ![s] = "notify"]
    /\ UNCHANGED <<client, flight, error, output, got, lastError, list, node, recv, reported>>

(* ~Session calls SessionEnd: the cache is shut down, *)
SessionEnd(s) ==
    /\ Released(s) /\ ~Ended(s)
    /\ over' = [over EXCEPT ![s] = "notify"]
    /\ lastError' = [lastError EXCEPT ![s] = error[s]]
    /\ UNCHANGED <<client, flight, error, output, got, list, node, recv, reported>>

(* and the selector is woken. *)
EndNotify(s) ==
    /\ over[s] = "notify"
    /\ over' = [over EXCEPT ![s] = "yes"]
    /\ NotifySelect(s)
    /\ UNCHANGED <<client, flight, error, output, got, lastError, list, node, reported>>

-----------------------------------------------------------------------------
(* The receiving threads. *)

GetReadyFlag(s) == Ended(s) \/ results[s] > 0

IsExternalDataReady == \E s \in list : GetReadyFlag(s)

Goto(r, pc) == [recv EXCEPT ![r].pc = pc]

(* What the selector does when it is awake: it gives the sessions that are *)
(* ready, or waits.  Only its own thread takes results or sessions away,   *)
(* so that one which is ready is so in the second look at the list.        *)
Looked(wait) ==
    IF IsExternalDataReady
    THEN [recv EXCEPT ![Selector].pc = "next",
                      ![Selector].todo = {s \in list : GetReadyFlag(s)}]
    ELSE Goto(Selector, wait)

SelectExternalData ==
    /\ recv[Selector].pc = "idle"
    /\ recv' = Looked("asleep")
    /\ UNCHANGED <<client, flight, error, output, got, over, lastError, list, node, reported>>

(* After its waittime it looks again and returns STATUS_TIMEDOUT. *)
SelectTimeout ==
    /\ recv[Selector].pc = "asleep"
    /\ recv' = Looked("idle")
    /\ UNCHANGED <<client, flight, error, output, got, over, lastError, list, node, reported>>

(* The client calls Recv for each of them, or for its own session. *)
CallRecv(r, s) ==
    /\ \/ r = Selector /\ recv[r].pc = "next" /\ s \in recv[r].todo
       \/ r = s /\ recv[r].pc = "idle" /\ reported[s] = "no"
    /\ recv' = [recv EXCEPT ![r] = [pc |-> "pop", s |-> s, todo |-> recv[r].todo \ {s}]]
    /\ UNCHANGED <<client, flight, error, output, got, over, lastError, list, node, reported>>

Return(r) == [recv EXCEPT ![r].pc = IF r = Selector THEN "next" ELSE "idle", ![r].s = NoOne]

SelectAgain ==
    /\ recv[Selector].pc = "next" /\ recv[Selector].todo = {}
    /\ recv' = Goto(Selector, "idle")
    /\ UNCHANGED <<client, flight, error, output, got, over, lastError, list, node, reported>>

(* Pop takes all there is; it gives up when the cache is shut down. *)
PopAll(r) ==
    /\ recv[r].pc = "pop" /\ results[recv[r].s] > 0
    /\ got' = [got EXCEPT ![recv[r].s] = @ + results[recv[r].s]]
    /\ results' = [results EXCEPT ![recv[r].s] = 0]
    /\ recv' = Return(r)
    /\ UNCHANGED <<client, flight, error, made, over, lastError, list, node, reported>>

(* Mutant of PopNone: a cache that is shut down gives up its results. *)
PopNone_NotEmpty(r) ==
    /\ recv[r].pc = "pop"
    /\ Ended(recv[r].s) \/ (Timed /\ results[recv[r].s] = 0)
    /\ recv' = Goto(r, "state")
    /\ UNCHANGED <<client, flight, error, output, got, over, lastError, list, node, reported>>

(* Pop gives up: the cache is empty and shut down, or the time is over. *)
PopNone(r) ==
    /\ recv[r].pc = "pop" /\ results[recv[r].s] = 0
    /\ Timed \/ Ended(recv[r].s)
    /\ recv' = Goto(r, "state")
    /\ UNCHANGED <<client, flight, error, output, got, over, lastError, list, node, reported>>

(* Mutant of RecvState: the end of a shut down session is not reported. *)
RecvState_Shut(r) ==
    /\ recv[r].pc = "state"
    /\ LET s == recv[r].s
       IN  IF ~Ended(s) \/ shut[s] THEN UNCHANGED <<list, reported>>
           ELSE /\ list' = list \ {s}
                /\ reported' = [reported EXCEPT
                                  ![s] = IF lastError[s] THEN "INVALID" ELSE "EOF"]
    /\ recv' = Return(r)
    /\ UNCHANGED <<client, flight, error, output, got, over, lastError, node>>

(* Recv without a result, under session_state_lock_. *)
RecvState(r) ==
    /\ recv[r].pc = "state"
    /\ LET s == recv[r].s
       IN  IF ~Ended(s) THEN UNCHANGED <<list, reported>>
           ELSE /\ list' = list \ {s}
                /\ reported' = [reported EXCEPT
                                  ![s] = IF lastError[s] THEN "INVALID" ELSE "EOF"]
    /\ recv' = Return(r)
    /\ UNCHANGED <<client, flight, error, output, got, over, lastError, node>>

-----------------------------------------------------------------------------
OutputNode ==
    \/ \E s \in Sessions : NodeRun(s)
    \/ NodeSize \/ NodePush \/ NodeNotify \/ NodeError

Receive(r) ==
    \/ PopAll(r) \/ PopNone(r) \/ RecvState(r)
    \/ \E s \in Sessions : CallRecv(r, s)
    \/ r = Selector /\ (SelectExternalData \/ SelectTimeout \/ SelectAgain)

Call(s) ==
    \/ \E p \in InPorts : Send(s, p)
    \/ ClientClose(s) \/ Shutdown(s) \/ RegisterExternalData(s)

Finish(s) == SessionEnd(s) \/ EndNotify(s)

Next ==
    \/ \E s \in Sessions : Call(s) \/ Fail(s) \/ Finish(s)
    \/ OutputNode
    \/ \E r \in Receivers : Receive(r)

Spec == Init /\ [][Next]_vars

(* The threads run; the clients call or do not.  The output node serves    *)
(* the sessions in the order of its port.                                  *)
FairSpec ==
    /\ Spec
    /\ WF_vars(NodeSize \/ NodePush \/ NodeNotify \/ NodeError)
    /\ \A s \in Sessions : SF_vars(NodeRun(s)) /\ WF_vars(Finish(s))
    /\ \A r \in Receivers : WF_vars(Receive(r))
-----------------------------------------------------------------------------
(* How far a session is for its client. *)
Phase(s) == IF reported[s] # "no" THEN "reported"
            ELSE IF Ended(s) THEN "ended"
            ELSE IF closed[s] THEN "closed" ELSE "open"

Channel == INSTANCE SessionChannel
             WITH phase <- [s \in Sessions |-> Phase(s)],
                  produced <- made, received <- got

(* ExternalDataMapImpl implements the promise of a session: the results    *)
(* PushGraphOutputBuffer accepts are each given by one Recv, and Recv      *)
(* reports the end (STATUS_EOF or STATUS_INVALID) once, after Close and    *)
(* after the last of them.                                                 *)
ImplementsChannel == Channel!Spec

(* A session that was shut down, or in which a flow unit failed, never     *)
(* ends with STATUS_EOF for its client: the error outlives what the output *)
(* nodes write to last_error_.                                             *)
NoErrorHidden == \A s \in Sessions : error[s] => reported[s] # "EOF"

(* The client of a closed session learns of its end, from its own Recv or  *)
(* through a selector that is called with a waittime.                      *)
EndReported == \A s \in Sessions :
    closed[s] /\ (s \in list \cup Direct) ~> reported[s] # "no"
=============================================================================
