------------------------------ MODULE DataHub ------------------------------
(***************************************************************************)
(* DefaultDataHub of src/libmodelbox/engine/common/data_hub.cc and the     *)
(* NotifyPorts it serves: the set of ports that may be scheduled.          *)
(*                                                                         *)
(* Every operation holds active_mutex_ and is one step.  A queue is        *)
(* abstracted to its size (module BlockingQueue models the queue itself).  *)
(* Ports of one priority are ordered by active_time_, which every push     *)
(* renews: the order among them is left open.                              *)
(***************************************************************************)
EXTENDS Integers, Sequences, FiniteSets

CONSTANTS
    Ports,      \* the PriorityPorts added to the hub
    Priority    \* Priority[p]: the priority_ of port p

ASSUME PriorityAssumption == Priority \in [Ports -> Int]

VARIABLES
    data,       \* data[p]: the number of elements in the queue of port p
    closed,     \* closed[p]: NotifyPort::Shutdown cleared the callbacks of p
    running,    \* running[p]: is_running_
    active      \* active_ports_

hub == <<running, active>>

HubTypeOK ==
    /\ data \in [Ports -> Nat]
    /\ closed \in [Ports -> BOOLEAN]
    /\ running \in [Ports -> BOOLEAN]
    /\ active \subseteq Ports

HubInit ==
    /\ data = [p \in Ports |-> 0]
    /\ closed = [p \in Ports |-> FALSE]
    /\ running = [p \in Ports |-> FALSE]
    /\ active = {}

(* NotifyPushEvent and NotifyPopEvent of port p, d being the queue sizes. *)
PortEventCallback(p, d) ==
    /\ active' = IF ~closed[p] /\ d[p] > 0 /\ ~running[p] THEN active \cup {p} ELSE active
    /\ UNCHANGED running

(* Mutant of AddToActivePort: only the ports that got data become idle. *)
AddToActivePort_KeepsRunning(S, d) ==
    /\ running' = [p \in Ports |-> IF p \in S /\ d[p] > 0 THEN FALSE ELSE running[p]]
    /\ active' = active \cup {p \in S : d[p] > 0}

AddToActivePort(S, d) ==
    /\ running' = [p \in Ports |-> IF p \in S THEN FALSE ELSE running[p]]
    /\ active' = active \cup {p \in S : d[p] > 0}

(* Mutant of RemoveFromActivePort: the ports are not marked as running. *)
RemoveFromActivePort_Unmarked(S) ==
    /\ UNCHANGED running
    /\ active' = active \ S

RemoveFromActivePort(S) ==
    /\ running' = [p \in Ports |-> p \in S \/ running[p]]
    /\ active' = active \ S

(* PortCompare: a port of the highest priority comes first. *)
Foremost == {p \in active : \A q \in active : Priority[q] <= Priority[p]}

SelectActivePort(p) ==
    /\ p \in Foremost
    /\ running' = [running EXCEPT ![p] = TRUE]
    /\ active' = active \ {p}

=============================================================================
