--------------------------- MODULE MCFlowScheduler ---------------------------
(* Small graphs for FlowScheduler. *)
EXTENDS FlowScheduler, TLC

CONSTANTS in, a, w1, w2

(* in -> a. *)
PairPorts == {"in.ext", "in.event", "a.in", "a.event", "cmd"}
PairPriority == "in.ext" :> 1 @@ "in.event" :> 1 @@ "a.in" :> 2 @@ "a.event" :> 2 @@ "cmd" :> 0
PairData == in :> <<"in.ext">> @@ a :> <<"a.in">>
PairEvent == in :> "in.event" @@ a :> "a.event"
PairExt == <<"in.ext">>
OneEach == [p \in Ports |-> 1]
PairTargets == in :> <<<<"a.in">>>> @@ a :> <<>>

(* A graph with two inputs, cut off behind its input node. *)
ForkPorts == {"in.x", "in.y", "in.event", "cmd"}
ForkPriority == [p \in ForkPorts |-> IF p = "cmd" THEN 0 ELSE 1]
ForkData == in :> <<"in.x", "in.y">>
ForkEvent == in :> "in.event"
ForkTargets == in :> <<>>
ForkExt == <<"in.x", "in.y">>

(* Two sends, or one send and a node that sends itself an event. *)
PairInit == Init /\ client.left = 2 - events[a]
PairSpec == PairInit /\ [][Next]_vars /\ Fairness
==============================================================================
