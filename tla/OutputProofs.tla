---------------------------- MODULE OutputProofs ----------------------------
(***************************************************************************)
(* Proofs about how results leave a flow, two parts that share no state:   *)
(* the session a client receives them from, and the output broker.         *)
(***************************************************************************)
EXTENDS Session, OutputBroker, TLAPS

-----------------------------------------------------------------------------
(***************************************************************************)
(* Session implements SessionChannel when Recv is called without a         *)
(* timeout, for every set of sessions and however they are received: each  *)
(* result is given once, and the end is reported after the last of them.   *)
(***************************************************************************)

(* The output node as a record; what left and error hold does not matter. *)
IsNode == \E l, e : node = [pc |-> node.pc, s |-> node.s, left |-> l, error |-> e]

SessionTypes ==
    /\ results \in [Sessions -> Nat] /\ made \in [Sessions -> Nat] /\ got \in [Sessions -> Nat]
    /\ closed \in [Sessions -> BOOLEAN]
    /\ over \in [Sessions -> {"no", "notify", "yes"}]
    /\ reported \in [Sessions -> {"no", "EOF", "INVALID"}]
    /\ list \subseteq Sessions
    /\ flight = [s \in Sessions |-> flight[s]]
    /\ recv \in [Receivers -> [pc : {"idle", "asleep", "next", "pop", "state"},
                               s : Sessions \cup {NoOne}, todo : SUBSET Sessions]]
    /\ IsNode

(* Every result is in the cache or was received. *)
Balanced == \A s \in Sessions : got[s] + results[s] = made[s]

(* A session ends after it was closed, and when no frame is left of it, in *)
(* the graph or at the output node.                                        *)
EndsLast ==
    /\ \A s \in Sessions : Ended(s) => closed[s] /\ flight[s] = 0
    /\ node.pc # "idle" => node.s \in Sessions /\ ~Ended(node.s)

(* Pop that may time out tells nothing of the cache. *)
Drained(s) == Ended(s) /\ (Timed \/ results[s] = 0)

(* A thread that found the cache of an ended session empty will find it    *)
(* empty, as will a client that was told of the end.                       *)
EndIsDrained ==
    /\ \A s \in Sessions : reported[s] # "no" => Drained(s)
    /\ \A r \in Receivers :
         /\ recv[r].pc \in {"pop", "state"} => recv[r].s \in Sessions
         /\ recv[r].pc = "state" => Timed \/ Drained(recv[r].s)

SessionInv == SessionTypes /\ Balanced /\ EndsLast /\ EndIsDrained

-----------------------------------------------------------------------------
(* At the start nothing was made, and nobody waits. *)
LEMMA SessionInitInv == Init => SessionInv
  <1> SUFFICES ASSUME Init PROVE SessionInv
      OBVIOUS
  <1>1. IsNode
      BY Zenon DEF Init, IdleNode, IsNode
  <1>2. SessionTypes
      BY <1>1 DEF Init, SessionTypes
  <1>3. Balanced /\ EndsLast /\ EndIsDrained
      BY DEF Init, IdleNode, Balanced, EndsLast, EndIsDrained, Ended, Drained
  <1> QED
      BY <1>2, <1>3 DEF SessionInv

(* NotifySelect only wakes the selector. *)
LEMMA NotifyWakes ==
    ASSUME SessionTypes, EndIsDrained, NEW s, NotifySelect(s),
           UNCHANGED <<results, over, reported, closed>>
    PROVE  /\ recv' \in [Receivers -> [pc : {"idle", "asleep", "next", "pop", "state"},
                                       s : Sessions \cup {NoOne}, todo : SUBSET Sessions]]
           /\ EndIsDrained'
  <1>1. /\ recv' \in [Receivers -> [pc : {"idle", "asleep", "next", "pop", "state"},
                                    s : Sessions \cup {NoOne}, todo : SUBSET Sessions]]
        /\ \A r \in Receivers : recv'[r].s = recv[r].s
        /\ \A r \in Receivers : recv'[r].pc = recv[r].pc \/ recv'[r].pc = "idle"
      BY DEF NotifySelect, SessionTypes, Receivers
  <1> QED
      BY <1>1 DEF EndIsDrained, Drained, Ended

(* The calls of the client: a session is closed, or nothing that matters   *)
(* changes.                                                                *)
LEMMA CallInv ==
    ASSUME SessionInv, NEW s \in Sessions, Call(s) \/ Fail(s)
    PROVE  SessionInv'
  <1> USE DEF SessionInv, output, client
  <1>1. CASE (\E p \in InPorts : Send(s, p)) \/ RegisterExternalData(s) \/ Fail(s)
    <2>1. UNCHANGED <<results, made, got, closed, over, reported, recv, node>>
        BY <1>1, Zenon DEF Send, RegisterExternalData, Fail
    <2>2. list' \subseteq Sessions
        BY <1>1, Zenon DEF Send, RegisterExternalData, Fail, SessionTypes
    <2>3. /\ flight' = [t \in Sessions |-> flight'[t]]
          /\ \A t \in Sessions : closed[t] => flight'[t] = flight[t]
      <3>1. CASE \E p \in InPorts : Send(s, p)
        <4>1. PICK n : ~closed[s] /\ flight' = [flight EXCEPT ![s] = n]
            BY <3>1, Zenon DEF Send
        <4> QED
            BY <4>1 DEF SessionTypes
      <3>2. CASE RegisterExternalData(s) \/ Fail(s)
          BY <3>2 DEF RegisterExternalData, Fail, SessionTypes
      <3> QED
          BY <1>1, <3>1, <3>2
    <2>4. SessionTypes' /\ Balanced'
        BY <2>1, <2>2, <2>3 DEF SessionTypes, IsNode, Balanced
    <2>5. EndsLast' /\ EndIsDrained'
        BY <2>1, <2>3 DEF EndsLast, EndIsDrained, Drained, Ended
    <2> QED
        BY <2>4, <2>5
  <1>2. CASE ClientClose(s) \/ Shutdown(s)
    <2>1. UNCHANGED <<results, made, got, over, reported, recv, node, list>>
        BY <1>2 DEF ClientClose, Shutdown
    <2>2. /\ closed' \in [Sessions -> BOOLEAN]
          /\ \A t \in Sessions : closed[t] => closed'[t] /\ flight'[t] = flight[t]
          /\ flight' = [t \in Sessions |-> flight'[t]]
        BY <1>2, Zenon DEF ClientClose, Shutdown, Close, SessionTypes
    <2>3. SessionTypes' /\ Balanced'
        BY <2>1, <2>2 DEF SessionTypes, IsNode, Balanced
    <2>4. EndsLast' /\ EndIsDrained'
        BY <2>1, <2>2 DEF EndsLast, EndIsDrained, Drained, Ended
    <2> QED
        BY <2>3, <2>4
  <1> QED
      BY <1>1, <1>2 DEF Call

(* The output node pushes results of a session that has not ended. *)
LEMMA NodeInv ==
    ASSUME SessionInv, OutputNode
    PROVE  SessionInv'
  <1> USE DEF SessionInv, output, client
  <1>1. CASE \E s \in Sessions : NodeRun(s)
    <2> PICK s \in Sessions : NodeRun(s)
        BY <1>1
    <2>1. UNCHANGED <<results, made, got, closed, over, reported, recv, list>>
        BY DEF NodeRun
    <2>2. PICK k, fault : node' = IF k = 0 THEN IdleNode
                          ELSE [pc |-> "size", s |-> s, left |-> k, error |-> fault]
        BY Zenon DEF NodeRun
    <2>3. IsNode' /\ (node'.pc # "idle" => node'.s = s)
        BY <2>2, Zenon DEF IsNode, IdleNode
    <2>4. ~Ended(s)
        BY DEF NodeRun, EndsLast
    <2>5. PICK n : flight' = [flight EXCEPT ![s] = n]
        BY Zenon DEF NodeRun
    <2>6. SessionTypes' /\ Balanced'
        BY <2>1, <2>3, <2>5, Zenon DEF SessionTypes, Balanced
    <2>7. EndsLast' /\ EndIsDrained'
        BY <2>1, <2>3, <2>4, <2>5 DEF SessionTypes, EndsLast, EndIsDrained, Drained, Ended
    <2> QED
        BY <2>6, <2>7
  <1>2. CASE NodeSize \/ NodeError
    <2>1. UNCHANGED <<results, made, got, closed, over, reported, recv, list, flight>>
        BY <1>2 DEF NodeSize, NodeError
    <2>2. IsNode' /\ (node'.pc # "idle" => node'.s = node.s /\ node.pc # "idle")
        BY <1>2 DEF NodeSize, NodeError, IdleNode, SessionTypes, IsNode
    <2>3. SessionTypes' /\ Balanced'
        BY <2>1, <2>2 DEF SessionTypes, Balanced
    <2>4. EndsLast' /\ EndIsDrained'
        BY <2>1, <2>2 DEF EndsLast, EndIsDrained, Drained, Ended
    <2> QED
        BY <2>3, <2>4
  <1>3. CASE NodePush
    <2>1. UNCHANGED <<got, closed, over, reported, recv, list, flight>>
        BY <1>3 DEF NodePush
    <2>2. node.pc # "idle" /\ node.s \in Sessions /\ ~Ended(node.s)
        BY <1>3 DEF NodePush, EndsLast
    <2>3. /\ results' = [results EXCEPT ![node.s] = @ + 1]
          /\ made' = [made EXCEPT ![node.s] = @ + 1]
        BY <1>3 DEF NodePush
    <2>4. IsNode' /\ (node'.pc # "idle" => node'.s = node.s)
        BY <1>3, Zenon DEF NodePush, NodeDone, IdleNode, SessionTypes, IsNode
    <2>5. SessionTypes' /\ Balanced'
        BY <2>1, <2>2, <2>3, <2>4 DEF SessionTypes, Balanced
    <2>6. EndsLast'
        BY <2>1, <2>2, <2>4 DEF EndsLast, Ended
    <2>7. EndIsDrained'
        BY <2>1, <2>2, <2>3 DEF SessionTypes, EndIsDrained, Drained, Ended
    <2> QED
        BY <2>5, <2>6, <2>7
  <1>4. CASE NodeNotify
    <2>1. UNCHANGED <<results, made, got, closed, over, reported, list, flight>>
        BY <1>4 DEF NodeNotify
    <2>2. IsNode' /\ (node'.pc # "idle" => node'.s = node.s /\ node.pc # "idle")
        BY <1>4, Zenon DEF NodeNotify, NodeDone, IdleNode, SessionTypes, IsNode
    <2>3. /\ recv' \in [Receivers -> [pc : {"idle", "asleep", "next", "pop", "state"},
                                      s : Sessions \cup {NoOne}, todo : SUBSET Sessions]]
          /\ EndIsDrained'
        BY <1>4, <2>1, NotifyWakes DEF NodeNotify
    <2>4. SessionTypes' /\ Balanced'
        BY <2>1, <2>2, <2>3 DEF SessionTypes, Balanced
    <2>5. EndsLast'
        BY <2>1, <2>2 DEF EndsLast, Ended
    <2> QED
        BY <2>3, <2>4, <2>5
  <1> QED
      BY <1>1, <1>2, <1>3, <1>4 DEF OutputNode

(* A session ends when nothing of it is left. *)
LEMMA FinishInv ==
    ASSUME SessionInv, NEW s \in Sessions, Finish(s)
    PROVE  SessionInv'
  <1> USE DEF SessionInv, output, client
  <1>1. CASE SessionEnd(s)
    <2>1. UNCHANGED <<results, made, got, closed, reported, recv, list, flight, node>>
        BY <1>1 DEF SessionEnd
    <2>2. /\ over' = [over EXCEPT ![s] = "notify"]
          /\ closed[s] /\ flight[s] = 0 /\ node.s # s
        BY <1>1 DEF SessionEnd, Released
    <2>3. SessionTypes' /\ Balanced'
        BY <2>1, <2>2 DEF SessionTypes, IsNode, Balanced
    <2>4. EndsLast' /\ EndIsDrained'
        BY <2>1, <2>2 DEF SessionTypes, EndsLast, EndIsDrained, Drained, Ended
    <2> QED
        BY <2>3, <2>4
  <1>2. CASE EndNotify(s)
    <2>1. UNCHANGED <<results, made, got, closed, reported, list, flight, node>>
        BY <1>2 DEF EndNotify
    <2>2. over' = [over EXCEPT ![s] = "yes"] /\ over[s] = "notify"
        BY <1>2 DEF EndNotify
    <2>3. /\ recv' \in [Receivers -> [pc : {"idle", "asleep", "next", "pop", "state"},
                                      s : Sessions \cup {NoOne}, todo : SUBSET Sessions]]
          /\ \A r \in Receivers : recv'[r].s = recv[r].s
          /\ \A r \in Receivers : recv'[r].pc = recv[r].pc \/ recv'[r].pc = "idle"
        BY <1>2 DEF EndNotify, NotifySelect, SessionTypes, Receivers
    <2>4. SessionTypes' /\ Balanced'
        BY <2>1, <2>2, <2>3 DEF SessionTypes, IsNode, Balanced
    <2>5. EndsLast' /\ EndIsDrained'
        BY <2>1, <2>2, <2>3, SMTT(30) DEF SessionTypes, EndsLast, EndIsDrained, Drained, Ended
    <2> QED
        BY <2>4, <2>5
  <1> QED
      BY <1>1, <1>2 DEF Finish

(* A receiving thread takes the results, or learns that there will be none. *)
LEMMA ReceiveInv ==
    ASSUME SessionInv, NEW r \in Receivers, Receive(r)
    PROVE  SessionInv'
  <1> USE DEF SessionInv, output, client
  <1>1. UNCHANGED <<made, closed, over, flight, node>>
      BY DEF Receive, PopAll, PopNone, RecvState, CallRecv, SelectExternalData,
             SelectTimeout, SelectAgain
  <1>2. ASSUME UNCHANGED <<results, got, reported, list>>,
               NEW rec \in [pc : {"idle", "asleep", "next", "pop", "state"},
                            s : Sessions \cup {NoOne}, todo : SUBSET Sessions],
               recv' = [recv EXCEPT ![r] = rec],
               rec.pc \in {"pop", "state"} => rec.s \in Sessions,
               rec.pc = "state" => Timed \/ Drained(rec.s)
        PROVE  SessionInv'
    <2>1. SessionTypes' /\ Balanced'
        BY <1>1, <1>2 DEF SessionTypes, IsNode, Balanced
    <2>2. EndsLast' /\ EndIsDrained'
        BY <1>1, <1>2 DEF SessionTypes, EndsLast, EndIsDrained, Drained, Ended
    <2> QED
        BY <2>1, <2>2
  <1>3. recv[r] \in [pc : {"idle", "asleep", "next", "pop", "state"},
                     s : Sessions \cup {NoOne}, todo : SUBSET Sessions]
      BY DEF SessionTypes
  <1>4. CASE PopAll(r)
    <2> DEFINE s == recv[r].s
    <2>1. s \in Sessions
        BY <1>4 DEF PopAll, EndIsDrained
    <2>2. /\ got' = [got EXCEPT ![s] = @ + results[s]]
          /\ results' = [results EXCEPT ![s] = 0]
          /\ UNCHANGED <<list, reported>>
        BY <1>4 DEF PopAll
    <2>3. /\ recv' \in [Receivers -> [pc : {"idle", "asleep", "next", "pop", "state"},
                                      s : Sessions \cup {NoOne}, todo : SUBSET Sessions]]
          /\ \A q \in Receivers \ {r} : recv'[q] = recv[q]
          /\ recv'[r].pc \in {"next", "idle"}
        BY <1>4, <1>3, Zenon DEF PopAll, Return, SessionTypes
    <2> HIDE DEF s
    <2>4. SessionTypes'
        BY <1>1, <2>1, <2>2, <2>3 DEF SessionTypes, IsNode
    <2>5. Balanced'
        BY <1>1, <2>1, <2>2 DEF SessionTypes, Balanced
    <2>6. EndsLast'
        BY <1>1 DEF EndsLast, Ended
    <2>7. EndIsDrained'
        BY <1>1, <2>1, <2>2, <2>3 DEF SessionTypes, EndIsDrained, Drained, Ended
    <2> QED
        BY <2>4, <2>5, <2>6, <2>7
  <1>5. CASE PopNone(r)
    <2> DEFINE rec == [recv[r] EXCEPT !.pc = "state"]
    <2>1. UNCHANGED <<results, got, reported, list>> /\ recv' = [recv EXCEPT ![r] = rec]
        BY <1>5, <1>3 DEF PopNone, Goto, SessionTypes
    <2>2. recv[r].s \in Sessions /\ (Timed \/ Drained(recv[r].s))
        BY <1>5 DEF PopNone, EndIsDrained, Drained
    <2>3. rec \in [pc : {"idle", "asleep", "next", "pop", "state"},
                   s : Sessions \cup {NoOne}, todo : SUBSET Sessions] /\ rec.s = recv[r].s
        BY <1>3
    <2> QED
        BY <1>2, <2>1, <2>2, <2>3, Zenon
  <1>6. CASE RecvState(r)
    <2> DEFINE s == recv[r].s
    <2>1. s \in Sessions /\ (Timed \/ Drained(s))
        BY <1>6 DEF RecvState, EndIsDrained
    <2>2. UNCHANGED <<results, got>>
        BY <1>6 DEF RecvState
    <2>3. /\ recv' \in [Receivers -> [pc : {"idle", "asleep", "next", "pop", "state"},
                                      s : Sessions \cup {NoOne}, todo : SUBSET Sessions]]
          /\ \A q \in Receivers \ {r} : recv'[q] = recv[q]
          /\ recv'[r].pc \in {"next", "idle"}
        BY <1>6, <1>3, Zenon DEF RecvState, Return, SessionTypes
    <2>4. list' \subseteq Sessions
        BY <1>6 DEF RecvState, SessionTypes
    <2>5. PICK status \in {"EOF", "INVALID"} :
             reported' = IF Ended(s) THEN [reported EXCEPT ![s] = status] ELSE reported
        BY <1>6 DEF RecvState
    <2> HIDE DEF s
    <2>6. SessionTypes' /\ Balanced'
        BY <1>1, <2>1, <2>2, <2>3, <2>4, <2>5 DEF SessionTypes, IsNode, Balanced
    <2>7. EndsLast'
        BY <1>1 DEF EndsLast, Ended
    <2>8. EndIsDrained'
        BY <1>1, <2>1, <2>2, <2>3, <2>5 DEF SessionTypes, EndIsDrained, Drained, Ended
    <2> QED
        BY <2>6, <2>7, <2>8
  <1>7. CASE \E s \in Sessions : CallRecv(r, s)
    <2> PICK s \in Sessions : CallRecv(r, s)
        BY <1>7
    <2> QED
        BY <1>2, <1>3, Zenon DEF CallRecv
  <1>8. CASE r = Selector /\ (SelectExternalData \/ SelectTimeout \/ SelectAgain)
    <2>1. UNCHANGED <<results, got, reported, list>>
        BY <1>8 DEF SelectExternalData, SelectTimeout, SelectAgain
    <2>2. /\ recv' \in [Receivers -> [pc : {"idle", "asleep", "next", "pop", "state"},
                                      s : Sessions \cup {NoOne}, todo : SUBSET Sessions]]
          /\ \A q \in Receivers \ {r} : recv'[q] = recv[q]
          /\ recv'[r].pc \in {"next", "idle", "asleep"}
        BY <1>8, <1>3 DEF SelectExternalData, SelectTimeout, SelectAgain, Looked, Goto, SessionTypes
    <2>3. SessionTypes' /\ Balanced'
        BY <1>1, <2>1, <2>2 DEF SessionTypes, IsNode, Balanced
    <2>4. EndsLast' /\ EndIsDrained'
        BY <1>1, <2>1, <2>2 DEF EndsLast, EndIsDrained, Drained, Ended
    <2> QED
        BY <2>3, <2>4
  <1> QED
      BY <1>4, <1>5, <1>6, <1>7, <1>8 DEF Receive

-----------------------------------------------------------------------------
(* Every step keeps the invariant. *)
LEMMA StepInv ==
    ASSUME SessionInv, [Next]_vars
    PROVE  SessionInv'
  <1>1. CASE UNCHANGED vars
      BY <1>1 DEF vars, client, output, SessionInv, SessionTypes, IsNode, Balanced, EndsLast, EndIsDrained,
                  Drained, Ended
  <1>2. CASE Next
      BY <1>2, CallInv, NodeInv, FinishInv, ReceiveInv DEF Next
  <1> QED
      BY <1>1, <1>2

(* A step that leaves the counters and the phases alone is a stutter of    *)
(* the channel.                                                            *)
LEMMA Stutter ==
    ASSUME UNCHANGED <<made, got, over, closed, reported>>
    PROVE  UNCHANGED Channel!channel
  BY DEF Channel!channel, Phase, Ended

(* Each step of a session is a step of the channel or a stutter of it. *)
LEMMA StepImplements ==
    ASSUME SessionInv, ~Timed, [Next]_vars
    PROVE  [Channel!Next]_(Channel!channel)
  <1> USE DEF output, client
  <1> DEFINE phase == [s \in Sessions |-> Phase(s)]
  <1>1. ASSUME NEW s \in Sessions, Call(s) \/ Fail(s)
        PROVE  [Channel!Next]_(Channel!channel)
    <2>1. CASE (\E p \in InPorts : Send(s, p)) \/ RegisterExternalData(s) \/ Fail(s)
      <3>1. UNCHANGED <<made, got, over, closed, reported>>
          BY <2>1, Zenon DEF Send, RegisterExternalData, Fail
      <3> QED
          BY <3>1, Stutter
    <2>2. CASE ClientClose(s) \/ Shutdown(s)
      <3>1. UNCHANGED <<made, got, over, reported>>
          BY <2>2 DEF ClientClose, Shutdown
      <3>2. CASE UNCHANGED closed
          BY <3>1, <3>2, Stutter
      <3>3. CASE closed' # closed
        <4>1. closed' = [closed EXCEPT ![s] = TRUE]
            BY <2>2, <3>3 DEF ClientClose, Shutdown, Close
        <4>2. ~closed[s]
            BY <3>3, <4>1 DEF SessionInv, SessionTypes
        <4>3. ~Ended(s) /\ reported[s] = "no"
            BY <4>2 DEF SessionInv, EndsLast, EndIsDrained, Drained
        <4>4. phase[s] = "open"
            BY <4>2, <4>3 DEF Phase
        <4>5. phase' = [phase EXCEPT ![s] = "closed"]
            BY <3>1, <4>1, <4>3, Zenon DEF Phase, Ended, SessionInv, SessionTypes
        <4>6. Channel!CloseInput(s)
            BY <3>1, <4>4, <4>5 DEF Channel!CloseInput
        <4> QED
            BY <4>6 DEF Channel!Next
      <3> QED
          BY <3>2, <3>3
    <2> QED
        BY <1>1, <2>1, <2>2 DEF Call
  <1>2. ASSUME NEW s \in Sessions, Finish(s)
        PROVE  [Channel!Next]_(Channel!channel)
    <2>1. UNCHANGED <<made, got, closed, reported>>
        BY <1>2 DEF Finish, SessionEnd, EndNotify
    <2>2. CASE SessionEnd(s)
      <3>1. over' = [over EXCEPT ![s] = "notify"] /\ closed[s] /\ ~Ended(s)
          BY <2>2 DEF SessionEnd, Released
      <3>2. reported[s] = "no"
          BY <3>1 DEF SessionInv, EndIsDrained, Drained
      <3>3. phase[s] = "closed"
          BY <3>1, <3>2 DEF Phase
      <3>4. phase' = [phase EXCEPT ![s] = "ended"]
          BY <2>1, <3>1, <3>2, Zenon DEF Phase, Ended, SessionInv, SessionTypes
      <3>5. Channel!End(s)
          BY <2>1, <3>3, <3>4 DEF Channel!End
      <3> QED
          BY <3>5 DEF Channel!Next
    <2>3. CASE EndNotify(s)
      <3>1. over' = [over EXCEPT ![s] = "yes"] /\ over[s] = "notify"
          BY <2>3 DEF EndNotify
      <3>2. \A t \in Sessions : Phase(t)' = Phase(t)
          BY <2>1, <3>1 DEF Phase, Ended, SessionInv, SessionTypes
      <3>3. phase' = phase
          BY <3>2
      <3> QED
          BY <2>1, <3>3 DEF Channel!channel
    <2> QED
        BY <1>2, <2>2, <2>3 DEF Finish
  <1>3. ASSUME OutputNode
        PROVE  [Channel!Next]_(Channel!channel)
    <2>1. UNCHANGED <<got, over, closed, reported>>
        BY <1>3 DEF OutputNode, NodeRun, NodeSize, NodePush, NodeNotify, NodeError
    <2>2. CASE NodePush
      <3>1. node.s \in Sessions /\ ~Ended(node.s)
          BY <2>2 DEF NodePush, SessionInv, EndsLast
      <3>2. phase[node.s] \in {"open", "closed"}
          BY <3>1 DEF Phase, SessionInv, EndIsDrained, Drained
      <3>3. phase' = phase
          BY <2>1 DEF Phase, Ended
      <3>4. made' = [made EXCEPT ![node.s] = @ + 1]
          BY <2>2 DEF NodePush
      <3>5. Channel!Produce(node.s)
          BY <2>1, <3>2, <3>3, <3>4 DEF Channel!Produce
      <3> QED
          BY <3>1, <3>5 DEF Channel!Next
    <2>3. CASE ~NodePush
      <3>1. UNCHANGED made
          BY <1>3, <2>3 DEF OutputNode, NodeRun, NodeSize, NodeNotify, NodeError
      <3> QED
          BY <2>1, <3>1, Stutter
    <2> QED
        BY <2>2, <2>3
  <1>4. ASSUME NEW r \in Receivers, Receive(r)
        PROVE  [Channel!Next]_(Channel!channel)
    <2> DEFINE s == recv[r].s
    <2>1. UNCHANGED <<made, over, closed>>
        BY <1>4 DEF Receive, PopAll, PopNone, RecvState, CallRecv, SelectExternalData,
                    SelectTimeout, SelectAgain
    <2>2. CASE PopAll(r)
      <3>1. s \in Sessions /\ results[s] > 0 /\ UNCHANGED reported
          BY <2>2, Zenon DEF PopAll, SessionInv, EndIsDrained
      <3>2. /\ got[s] + results[s] = made[s] /\ got[s] \in Nat /\ results[s] \in Nat
            /\ got' = [got EXCEPT ![s] = got[s] + results[s]]
          BY <2>2, <3>1 DEF PopAll, SessionInv, SessionTypes, Balanced
      <3>3. got' = [got EXCEPT ![s] = made[s]]
          BY <3>2, Zenon
      <3>4. got[s] < made[s]
          BY ONLY <3>1, <3>2
      <3>5. phase[s] # "reported"
          BY <3>1 DEF Phase, SessionInv, SessionTypes, EndIsDrained, Drained
      <3>6. phase' = phase
          BY <2>1, <3>1 DEF Phase, Ended
      <3>7. Channel!Receive(s)
          BY <2>1, <3>3, <3>4, <3>5, <3>6 DEF Channel!Receive
      <3> QED
          BY <3>1, <3>7, SMTT(20) DEF Channel!Next
    <2>3. CASE RecvState(r)
      <3>1. s \in Sessions /\ Drained(s)
          BY <2>3 DEF RecvState, SessionInv, EndIsDrained
      <3>2. UNCHANGED got
          BY <2>3 DEF RecvState
      <3>3. PICK status \in {"EOF", "INVALID"} : reported' = [reported EXCEPT ![s] = status]
          BY <2>3, <3>1 DEF RecvState, Drained
      <3>4. phase' = [phase EXCEPT ![s] = "reported"]
          BY <2>1, <3>1, <3>3, Zenon DEF Phase, Ended, SessionInv, SessionTypes
      <3>5. CASE reported[s] = "no"
        <4>1. phase[s] = "ended"
            BY <3>1, <3>5 DEF Phase, Drained
        <4>2. got[s] = made[s]
            BY <3>1 DEF Drained, SessionInv, Balanced, SessionTypes
        <4>3. Channel!Report(s)
            BY <2>1, <3>2, <3>4, <4>1, <4>2 DEF Channel!Report
        <4> QED
            BY <3>1, <4>3 DEF Channel!Next
      <3>6. CASE reported[s] # "no"
        <4>1. phase[s] = "reported"
            BY <3>1, <3>6 DEF Phase
        <4>2. phase' = phase
            BY <3>4, <4>1
        <4> QED
            BY <2>1, <3>2, <4>2 DEF Channel!channel
      <3> QED
          BY <3>5, <3>6
    <2>4. CASE ~PopAll(r) /\ ~RecvState(r)
      <3>1. UNCHANGED <<got, reported>>
          BY <1>4, <2>4 DEF Receive, PopNone, CallRecv, SelectExternalData, SelectTimeout,
                            SelectAgain
      <3> QED
          BY <2>1, <3>1, Stutter
    <2> QED
        BY <2>2, <2>3, <2>4
  <1>5. CASE UNCHANGED vars
      BY <1>5, Stutter DEF vars
  <1> QED
      BY <1>1, <1>2, <1>3, <1>4, <1>5 DEF Next

(* ExternalDataMapImpl implements the channel of its sessions: for any     *)
(* sessions and threads, when Recv is called without a timeout, each       *)
(* result PushGraphOutputBuffer accepts is given once, and Recv reports    *)
(* the end once, after Close and after the last result.                    *)
THEOREM SessionImplementsChannel ==
    ASSUME ~Timed
    PROVE  Spec => ImplementsChannel
  <1>1. Init => Channel!Init
      BY DEF Init, Channel!Init, Phase, Ended
  <1>2. Init => SessionInv
      BY SessionInitInv
  <1>3. SessionInv /\ [Next]_vars => SessionInv'
      BY StepInv
  <1>4. SessionInv /\ [Next]_vars => [Channel!Next]_(Channel!channel)
      BY StepImplements
  <1> QED
      BY <1>1, <1>2, <1>3, <1>4, PTL DEF Spec, ImplementsChannel, Channel!Spec

-----------------------------------------------------------------------------
(* What NoErrorHidden rests on: the last error of a session that ended is  *)
(* its error, and neither is written again.                                *)
ErrorsKept ==
    /\ error \in [Sessions -> BOOLEAN] /\ lastError = [s \in Sessions |-> lastError[s]]
    /\ node.pc = "idle" => node.s = NoOne
    /\ \A s \in Sessions : Ended(s) => lastError[s] = error[s]
    /\ NoErrorHidden

(* No step writes the error of a session that has ended. *)
LEMMA StepErrors ==
    ASSUME SessionInv, ErrorsKept, [Next]_vars
    PROVE  ErrorsKept'
  <1> USE DEF output, client
  <1>1. ASSUME NEW s \in Sessions, Call(s) \/ Fail(s)
        PROVE  ErrorsKept'
    <2>1. UNCHANGED <<over, lastError, node, reported>>
        BY <1>1, Zenon DEF Call, Send, ClientClose, Shutdown, RegisterExternalData, Fail
    <2>2. CASE UNCHANGED error
        BY <2>1, <2>2 DEF ErrorsKept, NoErrorHidden, Ended
    <2>3. CASE error' # error
      <3>1. error' = [error EXCEPT ![s] = TRUE] /\ (~Released(s) \/ flight[s] > 0)
          BY <1>1, <2>3, Zenon DEF Call, Send, ClientClose, Shutdown, RegisterExternalData, Fail
      <3>2. ~Ended(s)
          BY <3>1, SessionAssumption DEF Released, SessionInv, EndsLast, ErrorsKept
      <3>3. reported[s] = "no"
          BY <3>2 DEF SessionInv, EndIsDrained, Drained
      <3> QED
          BY <2>1, <3>1, <3>2, <3>3, Zenon DEF ErrorsKept, NoErrorHidden, Ended
    <2> QED
        BY <2>2, <2>3, SMTT(20)
  <1>2. ASSUME NEW s \in Sessions, Finish(s)
        PROVE  ErrorsKept'
    <2>1. UNCHANGED <<error, node, reported>>
        BY <1>2 DEF Finish, SessionEnd, EndNotify
    <2>2. CASE SessionEnd(s)
      <3>1. /\ over' = [over EXCEPT ![s] = "notify"]
            /\ lastError' = [lastError EXCEPT ![s] = error[s]]
          BY <2>2 DEF SessionEnd
      <3> QED
          BY <2>1, <3>1, SMTT(20) DEF ErrorsKept, NoErrorHidden, Ended, SessionInv, SessionTypes
    <2>3. CASE EndNotify(s)
      <3>1. over' = [over EXCEPT ![s] = "yes"] /\ over[s] = "notify" /\ UNCHANGED lastError
          BY <2>3 DEF EndNotify
      <3> QED
          BY <2>1, <3>1 DEF ErrorsKept, NoErrorHidden, Ended, SessionInv, SessionTypes
    <2> QED
        BY <1>2, <2>2, <2>3 DEF Finish
  <1>3. ASSUME OutputNode
        PROVE  ErrorsKept'
    <2>1. UNCHANGED <<error, over, reported>>
        BY <1>3 DEF OutputNode, NodeRun, NodeSize, NodePush, NodeNotify, NodeError
    <2>2. /\ lastError' = [t \in Sessions |-> lastError'[t]]
          /\ \A t \in Sessions : Ended(t) => lastError'[t] = lastError[t]
      <3>1. CASE \E s \in Sessions : NodeRun(s)
        <4> PICK s \in Sessions : NodeRun(s)
            BY <3>1
        <4>1. ~Ended(s)
            BY DEF NodeRun, SessionInv, EndsLast
        <4>2. PICK e : lastError' = [lastError EXCEPT ![s] = e] \/ lastError' = lastError
            BY Zenon DEF NodeRun
        <4> QED
            BY <4>1, <4>2 DEF ErrorsKept
      <3>2. CASE NodeError
        <4>1. node.s \in Sessions /\ ~Ended(node.s)
            BY <3>2 DEF NodeError, SessionInv, EndsLast
        <4>2. lastError' = [lastError EXCEPT ![node.s] = node.error]
            BY <3>2 DEF NodeError
        <4> QED
            BY <4>1, <4>2 DEF ErrorsKept
      <3>3. CASE NodeSize \/ NodePush \/ NodeNotify
          BY <3>3 DEF NodeSize, NodePush, NodeNotify, ErrorsKept
      <3> QED
          BY <1>3, <3>1, <3>2, <3>3 DEF OutputNode
    <2>3. node'.pc = "idle" => node'.s = NoOne
      <3>1. CASE \E s \in Sessions : NodeRun(s)
        <4> PICK k, l, s, e : node' = IF k = 0 THEN IdleNode
                                   ELSE [pc |-> "size", s |-> s, left |-> l, error |-> e]
            BY <3>1, ZenonT(40) DEF NodeRun
        <4> QED
            BY DEF IdleNode
      <3>2. PICK l, e : node = [pc |-> node.pc, s |-> node.s, left |-> l, error |-> e]
          BY DEF SessionInv, SessionTypes, IsNode
      <3>3. NodeDone.pc = "idle" => NodeDone.s = NoOne
          BY ONLY <3>2 DEF NodeDone, IdleNode
      <3>4. CASE NodeSize \/ NodeError
          BY <3>2, <3>4 DEF NodeSize, NodeError, IdleNode
      <3>5. CASE NodePush
          BY <3>2, <3>3, <3>5 DEF NodePush
      <3>6. CASE NodeNotify
          BY <3>3, <3>6 DEF NodeNotify
      <3> QED
          BY <1>3, <3>1, <3>4, <3>5, <3>6 DEF OutputNode
    <2> QED
        BY <2>1, <2>2, <2>3 DEF ErrorsKept, NoErrorHidden, Ended
  <1>4. ASSUME NEW r \in Receivers, Receive(r)
        PROVE  ErrorsKept'
    <2>1. UNCHANGED <<error, lastError, over, node>>
        BY <1>4 DEF Receive, PopAll, PopNone, RecvState, CallRecv, SelectExternalData,
                    SelectTimeout, SelectAgain
    <2>2. CASE RecvState(r)
      <3> DEFINE s == recv[r].s
      <3>1. s \in Sessions
          BY <2>2, Zenon DEF RecvState, SessionInv, EndIsDrained
      <3>2. CASE Ended(s)
        <4>1. reported' = [reported EXCEPT ![s] = IF error[s] THEN "INVALID" ELSE "EOF"]
            BY <2>2, <3>1, <3>2 DEF RecvState, ErrorsKept
        <4> QED
            BY <2>1, <3>1, <4>1 DEF ErrorsKept, NoErrorHidden, Ended, SessionInv, SessionTypes
      <3>3. CASE ~Ended(s)
          BY <2>1, <2>2, <3>3 DEF RecvState, ErrorsKept, NoErrorHidden, Ended
      <3> QED
          BY <3>2, <3>3
    <2>3. CASE ~RecvState(r)
      <3>1. UNCHANGED reported
          BY <1>4, <2>3 DEF Receive, PopAll, PopNone, CallRecv, SelectExternalData,
                            SelectTimeout, SelectAgain
      <3> QED
          BY <2>1, <3>1 DEF ErrorsKept, NoErrorHidden, Ended
    <2> QED
        BY <2>2, <2>3
  <1>5. CASE UNCHANGED vars
      BY <1>5 DEF vars, ErrorsKept, NoErrorHidden, Ended
  <1> QED
      BY <1>1, <1>2, <1>3, <1>4, <1>5 DEF Next

(* No client is told STATUS_EOF of a session that was shut down or in      *)
(* which a flow unit failed: SessionEnd copies the error of the session to *)
(* last_error_ after the output nodes are done with it, and no call sets   *)
(* an error after that.                                                    *)
THEOREM ErrorsNeverHidden == Spec => []NoErrorHidden
  <1>1. Init => SessionInv /\ ErrorsKept
    <2>1. Init => ErrorsKept
        BY DEF Init, IdleNode, ErrorsKept, NoErrorHidden, Ended
    <2> QED
        BY <2>1, SessionInitInv
  <1>2. SessionInv /\ ErrorsKept /\ [Next]_vars => SessionInv' /\ ErrorsKept'
      BY StepInv, StepErrors
  <1>3. ErrorsKept => NoErrorHidden
      BY DEF ErrorsKept
  <1> QED
      BY <1>1, <1>2, <1>3, PTL DEF Spec

-----------------------------------------------------------------------------
(***************************************************************************)
(* BrokerAccounts and WrittenInOrder for every number of buffers, size of  *)
(* the queue and limit of the retries.  Neither is inductive.  The first   *)
(* needs that a queue is never left without a task, or a thread about to   *)
(* schedule one (Tended).  The second needs that the queue is sorted and   *)
(* behind what was written, and what the task holds between the two        *)
(* (Sorted), since PushForce may drop it at any moment.                    *)
(***************************************************************************)

BrokerTypes ==
    /\ mode \in {"sync", "async"}
    /\ accepted \in Nat /\ target \in Nat
    /\ queue \in Seq(Nat) /\ written \in Seq(Nat)
    /\ sender \in {"idle", "write", "evict", "arm", "dispose", "disposed"}
    /\ writer \in {"none", "front", "write", "next"}

Tended ==
    /\ stopped <=> writer = "none"
    /\ mode = "sync" => queue = <<>> /\ writer = "none" /\ sender \notin {"evict", "arm"}
    /\ sender = "write" => mode = "sync"
    /\ queue # <<>> /\ writer = "none" => sender = "arm"
    /\ sender = "disposed" => writer = "none"

(* Every buffer that came, if the last is not in the hands of the sender. *)
Known(n) == n <= accepted /\ (sender \in {"write", "evict"} => n < accepted)

Sorted ==
    /\ \A j \in 1..Len(queue) : Known(queue[j])
    /\ \A i \in 1..Len(written) : Known(written[i])
    /\ \A i, j \in 1..Len(queue) : i < j => queue[i] < queue[j]
    /\ \A i, j \in 1..Len(written) : i < j => written[i] < written[j]
    /\ \A i \in 1..Len(written), j \in 1..Len(queue) : written[i] < queue[j]
    /\ writer = "write" /\ target # 0 =>
           /\ Known(target)
           /\ \A i \in 1..Len(written) : written[i] < target
           /\ \A j \in 1..Len(queue) : target <= queue[j]

Placed == 1..accepted \subseteq
              Elements(queue) \cup InHand \cup Elements(written) \cup refused \cup evicted

(* What is left of a queue when its first buffer is popped. *)
LEMMA TailFacts ==
    ASSUME NEW s \in Seq(Nat), s # <<>>
    PROVE  /\ Len(s) \in Nat /\ Len(s) >= 1 /\ Head(s) = s[1] /\ Head(s) \in Nat
           /\ Tail(s) \in Seq(Nat) /\ Len(Tail(s)) = Len(s) - 1
           /\ \A i \in 1..(Len(s) - 1) : Tail(s)[i] = s[i + 1]
           /\ Elements(s) = {Head(s)} \cup Elements(Tail(s))
<1>1. /\ Len(s) \in Nat /\ Len(s) >= 1 /\ Head(s) = s[1] /\ Head(s) \in Nat
      /\ Tail(s) \in Seq(Nat) /\ Len(Tail(s)) = Len(s) - 1
      /\ \A i \in 1..(Len(s) - 1) : Tail(s)[i] = s[i + 1]
  OBVIOUS
<1>2. DOMAIN s = 1..Len(s) /\ DOMAIN Tail(s) = 1..(Len(s) - 1)
  BY <1>1
<1>3. \A i \in 1..Len(s) : i = 1 \/ (i - 1 \in 1..(Len(s) - 1) /\ s[i] = Tail(s)[i - 1])
  BY <1>1
<1>4. \A i \in 1..(Len(s) - 1) : i + 1 \in 1..Len(s)
  BY <1>1
<1>5. 1 \in 1..Len(s)
  BY <1>1
<1>6. Elements(s) \subseteq {Head(s)} \cup Elements(Tail(s))
  <2> SUFFICES ASSUME NEW i \in 1..Len(s) PROVE s[i] \in {Head(s)} \cup Elements(Tail(s))
    BY <1>2 DEF Elements
  <2>1. CASE i = 1 BY <1>1, <2>1
  <2>2. CASE i - 1 \in 1..(Len(s) - 1) /\ s[i] = Tail(s)[i - 1] BY <1>2, <2>2, Zenon DEF Elements
  <2> QED BY <1>3, <2>1, <2>2
<1>7. {Head(s)} \cup Elements(Tail(s)) \subseteq Elements(s)
  BY <1>1, <1>2, <1>4, <1>5 DEF Elements
<1> QED BY <1>1, <1>6, <1>7

(* A sequence to which a buffer is appended. *)
LEMMA AppendFacts ==
    ASSUME NEW s \in Seq(Nat), NEW e \in Nat
    PROVE  /\ Len(s) \in Nat
           /\ Append(s, e) \in Seq(Nat) /\ Len(Append(s, e)) = Len(s) + 1
           /\ \A i \in 1..Len(s) : Append(s, e)[i] = s[i]
           /\ Append(s, e)[Len(s) + 1] = e
           /\ Elements(Append(s, e)) = Elements(s) \cup {e}
<1>1. /\ Len(s) \in Nat
      /\ Append(s, e) \in Seq(Nat) /\ Len(Append(s, e)) = Len(s) + 1
      /\ \A i \in 1..Len(s) : Append(s, e)[i] = s[i]
      /\ Append(s, e)[Len(s) + 1] = e
  OBVIOUS
<1>2. DOMAIN s = 1..Len(s) /\ DOMAIN Append(s, e) = 1..(Len(s) + 1)
  BY <1>1
<1>3. \A i \in 1..(Len(s) + 1) : i \in 1..Len(s) \/ i = Len(s) + 1
  BY <1>1
<1>4. Len(s) + 1 \in 1..(Len(s) + 1) /\ \A i \in 1..Len(s) : i \in 1..(Len(s) + 1)
  BY <1>1
<1>5. Elements(Append(s, e)) \subseteq Elements(s) \cup {e}
  BY <1>1, <1>2, <1>3 DEF Elements
<1>6. Elements(s) \cup {e} \subseteq Elements(Append(s, e))
  BY <1>1, <1>2, <1>4 DEF Elements
<1> QED BY <1>1, <1>5, <1>6

(* A larger buffer keeps a sequence in order. *)
LEMMA AppendKeepsOrder ==
    ASSUME NEW s \in Seq(Nat), NEW e \in Nat,
           \A i, j \in 1..Len(s) : i < j => s[i] < s[j], \A i \in 1..Len(s) : s[i] < e
    PROVE  \A i, j \in 1..Len(Append(s, e)) : i < j => Append(s, e)[i] < Append(s, e)[j]
<1> DEFINE a == Append(s, e)
<1>1. /\ Len(s) \in Nat /\ Len(a) = Len(s) + 1 /\ a[Len(s) + 1] = e
      /\ \A i \in 1..Len(s) : a[i] = s[i]
  BY AppendFacts
<1> SUFFICES ASSUME NEW i \in 1..Len(a), NEW j \in 1..Len(a), i < j PROVE a[i] < a[j]
  BY Zenon
<1> HIDE DEF a
<1>2. i \in 1..Len(s) /\ (j \in 1..Len(s) \/ j = Len(s) + 1)
  BY <1>1
<1> QED BY <1>1, <1>2

(* The types, and that the queue of an instance is never left alone. *)
LEMMA TendedStep == BrokerTypes /\ Tended /\ [BrokerNext]_brokerVars => BrokerTypes' /\ Tended'
<1> SUFFICES ASSUME BrokerTypes, Tended, [BrokerNext]_brokerVars PROVE BrokerTypes' /\ Tended'
  OBVIOUS
<1> USE DEF BrokerTypes, Tended, settings, fates
<1>1. CASE SendData BY <1>1 DEF SendData
<1>2. CASE SyncWrite
  <2>1. accepted \in Nat /\ Append(written, accepted) \in Seq(Nat) BY AppendFacts
  <2>2. written' \in Seq(Nat) /\ sender' \in {"idle", "write"} /\ mode = "sync"
    BY <1>2, <2>1, SMTT(30) DEF SyncWrite
  <2> QED BY <1>2, <2>2, SMTT(30) DEF SyncWrite
<1>3. CASE Evict
  <2>1. Tail(queue) \in Seq(Nat) BY <1>3, TailFacts DEF Evict
  <2> QED BY <1>3, <2>1 DEF Evict
<1>4. CASE PushForce
  <2>1. Append(queue, accepted) \in Seq(Nat) BY AppendFacts
  <2> QED BY <1>4, <2>1 DEF PushForce
<1>5. CASE AddToQueue BY <1>5 DEF AddToQueue
<1>6. CASE Dispose BY <1>6 DEF Dispose
<1>7. CASE Disposed BY <1>7 DEF Disposed
<1>8. CASE Front
  <2>1. queue # <<>> => Head(queue) \in Nat BY TailFacts
  <2> QED BY <1>8, <2>1 DEF Front
<1>9. CASE WriteFromQueue
  <2>1. Append(written, target) \in Seq(Nat) BY AppendFacts
  <2>2. queue # <<>> => Tail(queue) \in Seq(Nat) BY TailFacts
  <2>3. written' \in Seq(Nat) /\ queue' \in Seq(Nat) /\ (queue = <<>> => queue' = <<>>)
    BY <1>9, <2>1, <2>2, Zenon DEF WriteFromQueue, PopIfEqual
  <2> QED BY <1>9, <2>3 DEF WriteFromQueue
<1>10. CASE TaskEnd BY <1>10 DEF TaskEnd
<1>11. CASE UNCHANGED brokerVars BY <1>11 DEF brokerVars
<1> QED
  BY <1>1, <1>2, <1>3, <1>4, <1>5, <1>6, <1>7, <1>8, <1>9, <1>10, <1>11
  DEF BrokerNext, Started, TimerTask

(* The orders of the queue and of what was written, and that what the task *)
(* holds lies between them.                                                *)
LEMMA SortedStep ==
    BrokerTypes /\ Tended /\ Sorted /\ [BrokerNext]_brokerVars => Sorted'
<1> SUFFICES ASSUME BrokerTypes, Tended, Sorted, [BrokerNext]_brokerVars PROVE Sorted'
  OBVIOUS
<1> USE DEF BrokerTypes, settings, fates
<1>0. Len(queue) \in Nat /\ Len(written) \in Nat
      /\ (\A j \in 1..Len(queue) : queue[j] \in Nat)
      /\ (\A i \in 1..Len(written) : written[i] \in Nat)
  OBVIOUS
<1>1. CASE SendData BY <1>0, <1>1 DEF SendData, Sorted, Known
<1>2. CASE SyncWrite
  <2>1. CASE written' = Append(written, accepted) /\ sender' = "idle"
    <3>1. mode = "sync" /\ queue = <<>> /\ writer = "none" BY <1>2 DEF SyncWrite, Tended
    <3>2. \A i \in 1..Len(written) : written[i] < accepted
      BY <1>2 DEF SyncWrite, Sorted, Known
    <3>3. /\ Len(written') = Len(written) + 1 /\ written'[Len(written) + 1] = accepted
          /\ \A i \in 1..Len(written) : written'[i] = written[i]
      BY <2>1, AppendFacts
    <3>4. queue' = queue /\ writer' = writer /\ accepted' = accepted BY <1>2 DEF SyncWrite
    <3> QED BY <1>0, <2>1, <3>1, <3>2, <3>3, <3>4 DEF Sorted, Known
  <2>2. CASE written' = written
    BY <1>0, <1>2, <2>2 DEF SyncWrite, Sorted, Known
  <2> QED BY <1>2, <2>1, <2>2 DEF SyncWrite
<1>3. CASE Evict
  <2>1. queue # <<>> /\ queue' = Tail(queue) BY <1>3 DEF Evict
  <2>2. /\ Len(queue') = Len(queue) - 1
        /\ \A i \in 1..(Len(queue) - 1) : queue'[i] = queue[i + 1]
    BY <2>1, TailFacts
  <2>3. UNCHANGED <<accepted, sender, writer, target, written>> BY <1>3 DEF Evict
  <2>4. Len(queue') \in Nat
        /\ \A j \in 1..Len(queue') : j + 1 \in 1..Len(queue) /\ queue'[j] = queue[j + 1]
    BY <1>0, <2>1, <2>2, TailFacts
  <2>5. \A i, j \in 1..Len(queue') : i < j => queue'[i] < queue'[j] BY <1>0, <2>4 DEF Sorted
  <2>6. /\ \A j \in 1..Len(queue') : Known(queue[j + 1])
        /\ \A i \in 1..Len(written), j \in 1..Len(queue') : written[i] < queue'[j]
    BY <1>0, <2>4 DEF Sorted
  <2>7. writer = "write" /\ target # 0 => \A j \in 1..Len(queue') : target <= queue'[j]
    BY <1>0, <2>4, Zenon DEF Sorted
  <2> QED BY <2>3, <2>4, <2>5, <2>6, <2>7, Zenon DEF Sorted, Known
<1>4. CASE PushForce
  <2>1. sender = "evict" /\ sender' = "arm" /\ UNCHANGED <<accepted, writer, target, written>>
    BY <1>4 DEF PushForce
  <2>2. /\ Len(queue') = Len(queue) + 1 /\ queue'[Len(queue) + 1] = accepted
        /\ \A i \in 1..Len(queue) : queue'[i] = queue[i]
    BY <1>4, AppendFacts DEF PushForce
  <2>3. \A j \in 1..Len(queue') : \/ j \in 1..Len(queue) /\ queue'[j] = queue[j]
                                  \/ j = Len(queue) + 1 /\ queue'[j] = accepted
    BY <1>0, <2>2
  <2>4. \A i \in 1..Len(queue) : queue[i] < accepted BY <2>1 DEF Sorted, Known
  <2>5. \A i \in 1..Len(written) : written[i] < accepted BY <2>1 DEF Sorted, Known
  <2>6. writer = "write" /\ target # 0 => target < accepted BY <2>1 DEF Sorted, Known
  <2>7. \A i, j \in 1..Len(queue') : i < j => queue'[i] < queue'[j]
    <3>1. queue' = Append(queue, accepted) BY <1>4 DEF PushForce
    <3>2. \A i, j \in 1..Len(queue) : i < j => queue[i] < queue[j] BY DEF Sorted
    <3> QED BY <2>4, <3>1, <3>2, AppendKeepsOrder
  <2>8. \A j \in 1..Len(queue') : queue'[j] <= accepted
    <3> TAKE j \in 1..Len(queue')
    <3>1. queue'[j] = accepted \/ (j \in 1..Len(queue) /\ queue'[j] = queue[j]) BY <2>3
    <3> QED BY <1>0, <2>4, <3>1
  <2>9. \A i \in 1..Len(written), j \in 1..Len(queue') : written[i] < queue'[j]
    <3> TAKE i \in 1..Len(written), j \in 1..Len(queue')
    <3>1. queue'[j] = accepted \/ (j \in 1..Len(queue) /\ queue'[j] = queue[j]) BY <2>3
    <3>2. \A k \in 1..Len(queue) : written[i] < queue[k] BY DEF Sorted
    <3> QED BY <2>5, <3>1, <3>2
  <2>10. ASSUME writer = "write", target # 0, NEW j \in 1..Len(queue') PROVE target <= queue'[j]
    <3>1. \A k \in 1..Len(queue) : target <= queue[k] BY <2>10 DEF Sorted
    <3> QED BY <2>3, <2>6, <2>10, <3>1
  <2> QED BY <1>0, <2>1, <2>5, <2>6, <2>7, <2>8, <2>9, <2>10 DEF Sorted, Known
<1>5. CASE AddToQueue BY <1>0, <1>5 DEF AddToQueue, Sorted, Known
<1>6. CASE Dispose BY <1>0, <1>6 DEF Dispose, Sorted, Known
<1>7. CASE Disposed BY <1>0, <1>7 DEF Disposed, Sorted, Known
<1>8. CASE Front
  <2>1. queue # <<>> => Head(queue) = queue[1] /\ Len(queue) >= 1 BY TailFacts
  <2> QED BY <1>0, <1>8, <2>1 DEF Front, Sorted, Known
<1>9. CASE WriteFromQueue
  <2>1. UNCHANGED <<accepted, sender, target>> /\ writer' = "next" /\ writer = "write"
    BY <1>9 DEF WriteFromQueue
  <2>2. CASE UNCHANGED <<queue, written>> BY <1>0, <2>1, <2>2 DEF Sorted, Known
  <2>3. ASSUME PopIfEqual
        PROVE  /\ \A j \in 1..Len(queue') : Known(queue'[j])
               /\ \A i, j \in 1..Len(queue') : i < j => queue'[i] < queue'[j]
               /\ \A i \in 1..Len(written), j \in 1..Len(queue') : written[i] < queue'[j]
               /\ target # 0 => \A j \in 1..Len(queue') : target < queue'[j]
    <3>1. CASE queue = <<>>
      BY <2>3, <3>1 DEF PopIfEqual
    <3>2. CASE queue # <<>> /\ Head(queue) = target
      <4>1. /\ Len(queue') = Len(queue) - 1 /\ queue[1] = target /\ Len(queue) >= 1
            /\ \A i \in 1..(Len(queue) - 1) : queue'[i] = queue[i + 1]
        BY <2>3, <3>2, TailFacts DEF PopIfEqual
      <4>2. Len(queue') \in Nat
            /\ \A j \in 1..Len(queue') : j + 1 \in 1..Len(queue) /\ queue'[j] = queue[j + 1]
        BY <1>0, <4>1
      <4>3. \A i, j \in 1..Len(queue') : i < j => queue'[i] < queue'[j] BY <1>0, <4>2 DEF Sorted
      <4>4. \A i \in 1..Len(written), j \in 1..Len(queue') : written[i] < queue'[j]
        BY <1>0, <4>2 DEF Sorted
      <4>5. \A j \in 1..Len(queue') : target < queue'[j]
        <5>1. \A k \in 1..Len(queue) : 1 < k => queue[1] < queue[k] BY <1>0, <4>1 DEF Sorted
        <5> TAKE j \in 1..Len(queue')
        <5>2. 1 < j + 1 /\ j + 1 \in 1..Len(queue) /\ queue'[j] = queue[j + 1] BY <4>2
        <5> QED BY <4>1, <5>1, <5>2
      <4>6. \A j \in 1..Len(queue') : Known(queue'[j]) BY <4>2 DEF Sorted
      <4> QED BY <4>3, <4>4, <4>5, <4>6
    <3>3. CASE queue # <<>> /\ Head(queue) # target
      <4>1. queue' = queue /\ queue[1] # target /\ Len(queue) >= 1
        BY <2>3, <3>3, TailFacts DEF PopIfEqual
      <4>2. target # 0 => \A j \in 1..Len(queue) : target < queue[j]
        BY <1>0, <2>1, <4>1 DEF Sorted
      <4> QED BY <4>1, <4>2 DEF Sorted
    <3> QED BY <3>1, <3>2, <3>3
  <2>4. CASE PopIfEqual /\ written' = written
    BY <2>1, <2>3, <2>4 DEF Sorted, Known
  <2>5. CASE PopIfEqual /\ target # 0 /\ written' = Append(written, target)
    <3>1. /\ Len(written') = Len(written) + 1 /\ written'[Len(written) + 1] = target
          /\ \A i \in 1..Len(written) : written'[i] = written[i]
      BY <2>5, AppendFacts
    <3>2. Known(target) /\ \A i \in 1..Len(written) : written[i] < target
      BY <2>1, <2>5 DEF Sorted
    <3>3. \A i \in 1..Len(written') : \/ i \in 1..Len(written) /\ written'[i] = written[i]
                                      \/ i = Len(written) + 1 /\ written'[i] = target
      <4> TAKE i \in 1..Len(written')
      <4>1. i \in 1..Len(written) \/ i = Len(written) + 1 BY <1>0, <3>1
      <4> QED BY <3>1, <4>1
    <3>4. \A i, j \in 1..Len(written') : i < j => written'[i] < written'[j]
      <4>1. \A i, j \in 1..Len(written) : i < j => written[i] < written[j] BY DEF Sorted
      <4> QED BY <2>5, <3>2, <4>1, AppendKeepsOrder
    <3>5. \A i \in 1..Len(written') : Known(written'[i]) BY <3>2, <3>3 DEF Sorted
    <3>6. \A i \in 1..Len(written'), j \in 1..Len(queue') : written'[i] < queue'[j]
      BY <2>3, <2>5, <3>3
    <3> QED BY <2>1, <2>3, <2>5, <3>4, <3>5, <3>6 DEF Sorted, Known
  <2> QED BY <1>9, <2>2, <2>4, <2>5 DEF WriteFromQueue
<1>10. CASE TaskEnd BY <1>0, <1>10 DEF TaskEnd, Sorted, Known
<1>11. CASE UNCHANGED brokerVars BY <1>11 DEF brokerVars, Sorted, Known
<1> QED
  BY <1>1, <1>2, <1>3, <1>4, <1>5, <1>6, <1>7, <1>8, <1>9, <1>10, <1>11
  DEF BrokerNext, Started, TimerTask

(* No step lets go of a buffer that has no fate. *)
LEMMA PlacedStep ==
    BrokerTypes /\ Tended /\ Placed /\ [BrokerNext]_brokerVars => Placed'
<1> SUFFICES ASSUME BrokerTypes, Tended, Placed, [BrokerNext]_brokerVars PROVE Placed'
  OBVIOUS
<1> USE DEF BrokerTypes, settings, fates
<1>1. CASE SendData
  <2>1. 1..accepted' = 1..accepted \cup {accepted'} /\ InHand = {} /\ InHand' = {accepted'}
    BY <1>1 DEF SendData, InHand
  <2>2. UNCHANGED <<refused, evicted>>
        /\ Elements(queue)' = Elements(queue) /\ Elements(written)' = Elements(written)
    BY <1>1 DEF SendData, Elements
  <2> QED BY <2>1, <2>2 DEF Placed
<1>2. CASE SyncWrite
  <2>1. Elements(Append(written, accepted)) = Elements(written) \cup {accepted}
    BY AppendFacts
  <2>2. UNCHANGED <<accepted, evicted>> /\ Elements(queue)' = Elements(queue)
        /\ InHand = {accepted}
    BY <1>2 DEF SyncWrite, Elements, InHand
  <2>3. CASE written' = Append(written, accepted) /\ refused' = refused
    <3>1. Elements(written)' = Elements(written) \cup {accepted} BY <2>1, <2>3, Zenon DEF Elements
    <3> QED BY <2>2, <2>3, <3>1 DEF Placed
  <2>4. CASE refused' = refused \cup {accepted} /\ written' = written
    <3>1. Elements(written)' = Elements(written) BY <2>4 DEF Elements
    <3> QED BY <2>2, <2>4, <3>1 DEF Placed
  <2>5. CASE UNCHANGED <<sender, written, refused>>
    <3>1. Elements(written)' = Elements(written) /\ InHand' = InHand
      BY <2>2, <2>5 DEF Elements, InHand
    <3> QED BY <2>2, <2>5, <3>1 DEF Placed
  <2> QED BY <1>2, <2>3, <2>4, <2>5 DEF SyncWrite
<1>3. CASE Evict
  <2>1. Elements(queue) = {Head(queue)} \cup Elements(Tail(queue))
    BY <1>3, TailFacts DEF Evict
  <2>2. Elements(queue)' = Elements(Tail(queue)) /\ Elements(written)' = Elements(written)
    BY <1>3 DEF Evict, Elements
  <2>3. UNCHANGED <<accepted, refused>> /\ evicted' = evicted \cup {Head(queue)}
        /\ InHand' = InHand
    BY <1>3 DEF Evict, InHand
  <2> QED BY <2>1, <2>2, <2>3 DEF Placed
<1>4. CASE PushForce
  <2>1. Elements(Append(queue, accepted)) = Elements(queue) \cup {accepted}
    BY AppendFacts
  <2>2. Elements(queue)' = Elements(queue) \cup {accepted}
        /\ Elements(written)' = Elements(written)
    BY <1>4, <2>1, Zenon DEF PushForce, Elements
  <2>3. UNCHANGED <<accepted, refused, evicted>> /\ InHand = {accepted}
    BY <1>4 DEF PushForce, InHand
  <2> QED BY <2>1, <2>2, <2>3 DEF Placed
<1>5. CASE AddToQueue
  <2>1. UNCHANGED <<accepted, queue, written, refused, evicted>> /\ InHand' = InHand
    BY <1>5 DEF AddToQueue, InHand
  <2> QED BY <2>1 DEF Placed, Elements
<1>6. CASE Dispose
  <2>1. UNCHANGED <<accepted, queue, written, refused, evicted>> /\ InHand' = InHand
    BY <1>6 DEF Dispose, InHand
  <2> QED BY <2>1 DEF Placed, Elements
<1>7. CASE Disposed
  <2>1. UNCHANGED <<accepted, queue, written, refused, evicted>> /\ InHand' = InHand
    BY <1>7 DEF Disposed, InHand
  <2> QED BY <2>1 DEF Placed, Elements
<1>8. CASE Front
  <2>1. UNCHANGED <<accepted, queue, written, refused, evicted>> /\ InHand' = InHand
    BY <1>8 DEF Front, InHand
  <2> QED BY <2>1 DEF Placed, Elements
<1>9. CASE WriteFromQueue
  <2>1. Elements(Append(written, target)) = Elements(written) \cup {target}
    BY AppendFacts
  <2>2. queue # <<>> => Elements(queue) = {Head(queue)} \cup Elements(Tail(queue))
    BY TailFacts
  <2>3. PopIfEqual => Elements(queue) \subseteq {target} \cup Elements(queue)'
    BY <2>2, Zenon DEF PopIfEqual, Elements
  <2>4. UNCHANGED <<accepted, sender, evicted>> /\ InHand' = InHand
    BY <1>9 DEF WriteFromQueue, InHand
  <2>5. CASE PopIfEqual /\ written' = Append(written, target) /\ UNCHANGED refused
    <3>1. Elements(written)' = Elements(written) \cup {target} BY <2>1, <2>5, Zenon DEF Elements
    <3> QED BY <2>3, <2>4, <2>5, <3>1 DEF Placed
  <2>6. CASE PopIfEqual /\ refused' = refused \cup {target} /\ UNCHANGED written
    <3>1. Elements(written)' = Elements(written) BY <2>6 DEF Elements
    <3> QED BY <2>3, <2>4, <2>6, <3>1 DEF Placed
  <2>7. CASE UNCHANGED <<queue, written, refused>>
    BY <2>4, <2>7 DEF Placed, Elements
  <2> QED BY <1>9, <2>5, <2>6, <2>7 DEF WriteFromQueue
<1>10. CASE TaskEnd
  <2>1. UNCHANGED <<accepted, queue, written, refused, evicted>> /\ InHand' = InHand
    BY <1>10 DEF TaskEnd, InHand
  <2> QED BY <2>1 DEF Placed, Elements
<1>11. CASE UNCHANGED brokerVars BY <1>11 DEF brokerVars, Placed, InHand, Elements
<1> QED
  BY <1>1, <1>2, <1>3, <1>4, <1>5, <1>6, <1>7, <1>8, <1>9, <1>10, <1>11
  DEF BrokerNext, Started, TimerTask

(* The inductive invariant holds in every behaviour of an instance. *)
LEMMA BrokerInvariant == BrokerSpec => [](BrokerTypes /\ Tended /\ Sorted /\ Placed)
<1>1. BrokerInit => BrokerTypes /\ Tended /\ Sorted /\ Placed
  BY DEF BrokerInit, BrokerTypes, Tended, Sorted, Placed, Known
<1>2. BrokerTypes /\ Tended /\ Sorted /\ Placed /\ [BrokerNext]_brokerVars
          => (BrokerTypes /\ Tended /\ Sorted /\ Placed)'
  BY TendedStep, SortedStep, PlacedStep
<1> QED BY <1>1, <1>2, PTL DEF BrokerSpec

(* Whatever the size of the queue, the limit of the retries and the answers
   of the service, every buffer given to an instance is queued, in the hands
   of the sender, written, refused or evicted, and the handle is closed only
   when the queue is empty and there is no task. *)
THEOREM BrokerLosesNothing == BrokerSpec => []BrokerAccounts
<1>1. BrokerTypes /\ Tended /\ Sorted /\ Placed => BrokerAccounts
  BY DEF BrokerTypes, Tended, Placed, BrokerAccounts
<1> QED BY <1>1, BrokerInvariant, PTL

(* The service takes the buffers in their order and none of them twice. *)
THEOREM BrokerKeepsOrder == BrokerSpec => []WrittenInOrder
<1>1. BrokerTypes /\ Tended /\ Sorted /\ Placed => WrittenInOrder
  BY DEF BrokerTypes, Sorted, WrittenInOrder
<1> QED BY <1>1, BrokerInvariant, PTL
=============================================================================
