--------------------------- MODULE SessionChannel ---------------------------
(***************************************************************************)
(* What the sessions of a flow promise their clients, whatever runs in     *)
(* them: every result is given to the client once, and the end of the      *)
(* session is reported once, after the input was closed and the last       *)
(* result was given.  Session shows that ExternalDataMapImpl keeps this    *)
(* promise, whichever threads run in between.                              *)
(***************************************************************************)
EXTENDS Naturals

CONSTANT Sessions

VARIABLES
    phase,      \* phase[s]: how far session s is
    produced,   \* produced[s]: the number of results the flow put out
    received    \* received[s]: the number of results the client was given

channel == <<phase, produced, received>>

Init ==
    /\ phase = [s \in Sessions |-> "open"]
    /\ produced = [s \in Sessions |-> 0]
    /\ received = [s \in Sessions |-> 0]

Produce(s) ==
    /\ phase[s] \in {"open", "closed"}
    /\ produced' = [produced EXCEPT ![s] = @ + 1]
    /\ UNCHANGED <<phase, received>>

CloseInput(s) ==
    /\ phase[s] = "open"
    /\ phase' = [phase EXCEPT ![s] = "closed"]
    /\ UNCHANGED <<produced, received>>

End(s) ==
    /\ phase[s] = "closed"
    /\ phase' = [phase EXCEPT ![s] = "ended"]
    /\ UNCHANGED <<produced, received>>

(* A call takes all the results there are. *)
Receive(s) ==
    /\ phase[s] # "reported"
    /\ received[s] < produced[s]
    /\ received' = [received EXCEPT ![s] = produced[s]]
    /\ UNCHANGED <<phase, produced>>

Report(s) ==
    /\ phase[s] = "ended"
    /\ received[s] = produced[s]
    /\ phase' = [phase EXCEPT ![s] = "reported"]
    /\ UNCHANGED <<produced, received>>

Next == \E s \in Sessions :
    Produce(s) \/ CloseInput(s) \/ End(s) \/ Receive(s) \/ Report(s)

Spec == Init /\ [][Next]_channel
=============================================================================
