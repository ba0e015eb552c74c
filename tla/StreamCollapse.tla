--------------------------- MODULE StreamCollapse ---------------------------
(***************************************************************************)
(* An expand node with the collapse node that follows it: DataContext      *)
(* composed with StreamCollapseFlowUnitDataContext of                      *)
(* engine/data_context.cc.  The streams the expand node made out of the    *)
(* buffers of one stream come in any pieces and any order; the collapse    *)
(* node makes one buffer out of each, in the order of the buffers they     *)
(* came from.                                                              *)
(* Its context is used by one thread, so that a run is one step.           *)
(***************************************************************************)
EXTENDS DataContext, Sequences

CONSTANT Silent  \* the collapse unit may put out nothing for a stream

ASSUME SilentAssumption == Silent \in BOOLEAN

VARIABLES
    taken,      \* taken[i]: what was taken from the stream i
    gather,     \* the fields of the context that outlive a run
    nextEvents, \* the COLLAPSE_NEXT_STREAM events in the event port
    collapsed   \* the indices of the buffers that were put out

collapse == <<taken, gather, nextEvents, collapsed>>
collapseVars == <<contextVars, collapse>>

(* A piece of a stream: some buffers, and whether its end is among them. *)
NoPiece == [data |-> 0, end |-> FALSE]

CollapseInit ==
    /\ ContextInit
    /\ taken = [i \in 0 .. length |-> NoPiece]
    /\ gather = [state |-> "none", order |-> 0, count |-> 0,
                 cache |-> [i \in 0 .. length |-> NoPiece]]
    /\ nextEvents = 0
    /\ collapsed = <<>>

(* What came of the stream i since the last run. *)
Arrived(i) == [data |-> out[i].data - taken[i].data,
               end  |-> out[i].ends > 0 /\ ~taken[i].end]

AppendToCache(i) == [data |-> gather.cache[i].data + Arrived(i).data,
                     end  |-> gather.cache[i].end \/ Arrived(i).end]

-----------------------------------------------------------------------------
(* How many buffers a run may put out for the piece cur of a stream of     *)
(* which total buffers came.  Placeholders and errors are passed on.  The  *)
(* unit puts out one buffer for a stream, in Process for some of its data  *)
(* or in DataPost at its end.  What CheckOutputData fills in for a unit    *)
(* that put out nothing comes after GenerateOutput, and is never sent.     *)
MayPut(cur, total) ==
    IF gather.order \in void
    THEN {IF cur.data > 0 /\ gather.count = 0 THEN 1 ELSE 0}
    ELSE {n \in 0 .. 1 :
            /\ n = 1 => gather.count = 0
            /\ n = 1 => cur.data > 0 \/ (cur.end /\ total > 0)
            /\ (cur.end /\ total > 0 /\ gather.count = 0 /\ ~Silent) => n = 1}

(* One buffer for a stream, or the end flag of the last: anything more     *)
(* stops the flow.                                                         *)
CheckOutputData(count) == count <= 1

(* Mutant of GenerateSendEvent: the next stream waits for more data. *)
NextStreamEvent_Never(cur) == 0

(* GenerateSendEvent of a collapse context. *)
NextStreamEvent(cur) == IF cur.end /\ gather.order # length THEN 1 ELSE 0

(* Mutant of CollapseNextStream: a stream that has ended goes first. *)
CollapseNextStream_Ended(cache) ==
    LET ended == {i \in DOMAIN cache : cache[i].end}
    IN  IF ended = {} THEN gather.order ELSE Min(ended)

(* The stream whose piece is the current input. *)
CollapseNextStream(cache) == gather.order

(* The run of the node: the piece of the next stream is its current input, *)
(* what cache holds of the others is left for later.                       *)
CollapseRun(cache, total, events0) ==
    LET order == CollapseNextStream(cache)
        cur == cache[order]
        flag == IF cur.end /\ order = length THEN 1 ELSE 0
    IN  \E put \in MayPut(cur, total[order]) :
          LET count == gather.count + put + flag
          IN  IF ~CheckOutputData(count)
              THEN /\ gather' = [gather EXCEPT !.state = "stop"]
                   /\ nextEvents' = events0
                   /\ UNCHANGED collapsed
              ELSE /\ gather' = [state |-> IF flag = 1 THEN "gone" ELSE "live",
                                 order |-> IF cur.end THEN gather.order + 1 ELSE gather.order,
                                 count |-> IF cur.end THEN 0 ELSE count,
                                 cache |-> [cache EXCEPT ![order] = NoPiece]]
                   /\ nextEvents' = events0 + NextStreamEvent(cur)
                   /\ collapsed' = collapsed \o [k \in 1 .. put + flag |-> order]

(* A run of type DATA takes pieces of some streams: the nodes in between   *)
(* (external) pass the streams on independently of each other.             *)
CollapseData ==
    /\ kind = "expand" /\ gather.state \in {"none", "live"}
    /\ \E came \in (SUBSET {i \in 0 .. length : Arrived(i) # NoPiece}) \ {{}} :
         LET took == [i \in 0 .. length |->
                        IF i \in came THEN [data |-> out[i].data, end |-> out[i].ends > 0]
                        ELSE taken[i]]
         IN  /\ taken' = took
             /\ CollapseRun([i \in 0 .. length |-> IF i \in came THEN AppendToCache(i)
                                                   ELSE gather.cache[i]],
                            [i \in 0 .. length |-> took[i].data], nextEvents)
    /\ UNCHANGED contextVars

(* A run of type EVENT goes on with what is cached; a finished context     *)
(* gets no event.                                                          *)
CollapseEvent ==
    /\ nextEvents > 0 /\ gather.state # "stop"
    /\ IF gather.state = "live"
       THEN CollapseRun(gather.cache, [i \in 0 .. length |-> taken[i].data], 0)
       ELSE nextEvents' = 0 /\ UNCHANGED <<gather, collapsed>>
    /\ UNCHANGED <<contextVars, taken>>

CollapseNext ==
    \/ ContextNext /\ UNCHANGED collapse
    \/ CollapseData
    \/ CollapseEvent

CollapseSpec == CollapseInit /\ [][CollapseNext]_collapseVars

(* The scheduler runs both nodes while a port has data, and timers fire. *)
CollapseFairSpec ==
    /\ CollapseSpec
    /\ WF_collapseVars(NodeStep /\ UNCHANGED collapse)
    /\ WF_collapseVars((TimerSend \/ TimerInput) /\ UNCHANGED collapse)
    /\ WF_collapseVars(CollapseData) /\ WF_collapseVars(CollapseEvent)

-----------------------------------------------------------------------------
(* The collapse node puts its buffers out in the order of the buffers that *)
(* were expanded, each once and the end flag last, in whatever pieces and  *)
(* order the streams in between came; the flow is never stopped for it.    *)
CollapsesInOrder ==
    /\ \A i, j \in 1 .. Len(collapsed) : i < j => collapsed[i] < collapsed[j]
    /\ gather.state # "stop"

(* Every stream with a buffer is collapsed to one. *)
CollapsesAll == gather.state = "gone" =>
    \A i \in 0 .. length : out[i].data > 0 =>
        \E k \in 1 .. Len(collapsed) : collapsed[k] = i

(* What was expanded is collapsed to its end. *)
CollapseFinishes ==
    (given = length + 1 /\ kind = "expand") ~> (gather.state = "gone")
=============================================================================
