---------------------------- MODULE DataContext ----------------------------
(***************************************************************************)
(* One data context of a stream node: FlowUnitDataContext with its kinds   *)
(* StreamFlowUnitDataContext ("origin") and StreamExpandFlowUnitData-      *)
(* Context ("expand") of engine/data_context.cc, driven by Node::Run of    *)
(* engine/node.cc and FlowUnitGroup::Run of engine/flowunit_group.cc.      *)
(*                                                                         *)
(* The stream has the buffers 0 .. length - 1 and the end flag, which has  *)
(* the index length.  An origin context turns it into one output stream;   *)
(* an expand context turns every buffer, and the end flag, into a stream   *)
(* of its own.  The flow unit (external) processes a run again when it     *)
(* sends itself an event, at once or from a timer; the session may be      *)
(* closed by another thread.  A unit that waits for an event returns       *)
(* STATUS_CONTINUE.                                                        *)
(***************************************************************************)
EXTENDS Integers, FiniteSets, FiniteSetsExt

CONSTANTS
    Kinds,      \* the kinds of contexts
    MaxLength,  \* bound: the buffers of the stream
    MaxEvents,  \* bound: the events the unit sends itself
    PreFails,   \* the kinds for which DataPre may fail
    PostEmits,  \* ... whose DataPost may put out a buffer
    Mixed,      \* ... whose unit sends events in a stream with void buffers
    Closes,     \* ... whose session may be closed while the node runs
    LateClose,  \* ... also after PostProcess of a run has looked at it
    SplitSend   \* ... where a run may come between the parts of SendEvent

ASSUME ContextAssumption ==
    /\ Kinds \subseteq {"origin", "expand"}
    /\ PreFails \subseteq Kinds /\ PostEmits \subseteq Kinds
    /\ Mixed \subseteq Kinds /\ Closes \subseteq Kinds
    /\ LateClose \subseteq Closes /\ SplitSend \subseteq Kinds
    /\ MaxLength \in Nat /\ MaxEvents \in Nat

VARIABLES
    kind,       \* the class of the context
    length,     \* the index of the end flag
    void,       \* the buffers without valid data: placeholders and errors
    given,      \* how many buffers were put into the input port
    waitIn,     \* how many of them are still in it
    events,     \* what is in the event port: user, close and next events
    closed,     \* closed_ of the session
    timers,     \* the timers of the unit that have not fired
    firing,     \* a timer is between the two parts of SendEvent
    asked,      \* how many events the unit asked for (for the bound)
    ctx,        \* the fields of the context that outlive a run
    run,        \* the run of the node
    out,        \* out[i]: what was sent to the output stream i
    fatal       \* a run returned STATUS_STOP

port == <<given, waitIn>>
unit == <<timers, firing, asked>>
shape == <<kind, length, void>>
contextVars == <<shape, port, events, closed, unit, ctx, run, out, fatal>>

None == -1
NoEvents == [user |-> 0, close |-> 0, next |-> 0]
Idle == [pc |-> "idle", cur |-> {}, valid |-> {}, end |-> FALSE, skip |-> FALSE,
         data |-> 0, flag |-> FALSE]

ContextInit ==
    /\ kind \in Kinds
    /\ length \in 0 .. MaxLength
    /\ void \in SUBSET (0 .. length - 1)
    /\ given = 0 /\ waitIn = 0
    /\ events = NoEvents
    /\ closed = FALSE
    /\ timers = 0 /\ firing = FALSE /\ asked = 0
    /\ ctx = [state |-> "none", status |-> "ok", waiting |-> 0, endReceived |-> FALSE,
              endCached |-> FALSE, generated |-> FALSE, preError |-> FALSE,
              lastValid |-> None, eventInput |-> None, pos |-> 0, cur |-> 0,
              curReceived |-> FALSE, nextSent |-> FALSE]
    /\ run = Idle
    /\ out = [i \in 0 .. length |-> [data |-> 0, ends |-> 0, late |-> FALSE]]
    /\ fatal = FALSE

IsContinueProcess == (ctx.status = "continue" /\ ~closed) \/ ctx.waiting > 0

-----------------------------------------------------------------------------
(* What the node receives. *)

Deliver ==
    /\ given <= length
    /\ given' = given + 1 /\ waitIn' = waitIn + 1
    /\ UNCHANGED <<shape, events, closed, unit, ctx, run, out, fatal>>

(* The current input is the set cur of buffers: c and r are the context    *)
(* and the run after it was set.                                           *)
SetCurrentInputData(c, r, cur) ==
    LET valid == IF c.preError THEN {} ELSE cur \ (void \cup {length})
    IN  [c |-> [c EXCEPT !.endReceived = @ \/ length \in cur,
                         !.lastValid = IF valid = {} THEN @ ELSE Max(valid)],
         r |-> [r EXCEPT !.cur = IF c.preError THEN cur \cap {length} ELSE cur,
                         !.valid = valid, !.end = length \in cur, !.skip = (valid = {})]]

(* Mutant of ExpandNextBuffer: the flag of the last stream is kept. *)
ExpandNextBuffer_KeepsFlag(c, r, got) ==
    IF c.pos = got \/ c.pos # c.cur
    THEN [c |-> c, r |-> [r EXCEPT !.skip = TRUE]]
    ELSE SetCurrentInputData([c EXCEPT !.curReceived = TRUE, !.pos = @ + 1,
                                       !.nextSent = FALSE],
                             r, {c.pos})

(* The buffers before got were received, those before c.pos expanded. *)
ExpandNextBuffer(c, r, got) ==
    IF c.pos = got \/ c.pos # c.cur
    THEN [c |-> c, r |-> [r EXCEPT !.skip = TRUE]]
    ELSE SetCurrentInputData([c EXCEPT !.curReceived = TRUE, !.generated = FALSE,
                                       !.pos = @ + 1, !.nextSent = FALSE],
                             r, {c.pos})

WriteInputData(c, r, cur) ==
    IF kind = "origin" THEN SetCurrentInputData(c, r, cur)
    ELSE IF c.nextSent THEN [c |-> c, r |-> [r EXCEPT !.skip = TRUE]]
    ELSE ExpandNextBuffer(c, r, given)

(* A run of type DATA takes all there is in the port. *)
RecvData ==
    /\ run.pc = "idle" /\ waitIn > 0 /\ ~fatal
    /\ LET written == WriteInputData([ctx EXCEPT !.state = "live"], Idle,
                                     (given - waitIn) .. (given - 1))
       IN  ctx' = written.c /\ run' = [written.r EXCEPT !.pc = "pre"]
    /\ waitIn' = 0
    /\ UNCHANGED <<shape, given, events, closed, unit, out, fatal>>

(* A run of type EVENT takes all events; those of a finished context are   *)
(* dropped.  An event the user did not send causes no process.             *)
RecvEvent ==
    /\ run.pc = "idle" /\ events # NoEvents /\ ~fatal
    /\ events' = NoEvents
    /\ IF ctx.state # "live" THEN UNCHANGED <<ctx, run>>
       ELSE LET set == [ctx EXCEPT !.waiting = @ - events.user]
                start == [Idle EXCEPT !.skip = events.close > 0]
                next == IF events.next = 0 THEN [c |-> set, r |-> start]
                        ELSE ExpandNextBuffer(set, start, given - waitIn)
            IN  ctx' = next.c /\ run' = [next.r EXCEPT !.pc = "pre"]
    /\ UNCHANGED <<shape, port, closed, unit, out, fatal>>

-----------------------------------------------------------------------------
(* FlowUnitGroup::Run. *)

IsDataPre == 0 \in run.cur /\ length > 0

(* A DataPre that fails leaves an error for the valid data, and nothing    *)
(* more of the stream is processed.                                        *)
PreProcess ==
    /\ run.pc = "pre"
    /\ \/ UNCHANGED ctx /\ run' = [run EXCEPT !.pc = "process"]
       \/ /\ IsDataPre /\ kind \in PreFails
          /\ ctx' = [ctx EXCEPT !.preError = TRUE]
          /\ run' = [run EXCEPT !.pc = "process", !.skip = TRUE,
                                !.data = IF run.valid = {} THEN 0 ELSE 1]
    /\ UNCHANGED <<shape, port, events, closed, unit, out, fatal>>

(* What SendEvent leaves: the event drives the last valid input again. *)
EventInput == IF ctx.lastValid = None THEN ctx.eventInput ELSE ctx.lastValid

(* The unit runs unless the context is skippable; it may put out a buffer  *)
(* and ask for another run.                                                *)
Process ==
    /\ run.pc = "process"
    /\ IF run.skip
       THEN /\ run' = [run EXCEPT !.pc = "endflag", !.skip = FALSE]
            /\ UNCHANGED <<ctx, events, unit>>
       ELSE \E emit \in 0 .. 1, ask \in {"no", "now", "later"} :
              /\ ask # "no" => asked < MaxEvents /\ (void = {} \/ kind \in Mixed)
              /\ asked' = asked + IF ask = "no" THEN 0 ELSE 1
              /\ timers' = timers + IF ask = "later" THEN 1 ELSE 0
              /\ ctx' = [ctx EXCEPT
                           !.status = IF ask # "no" \/ timers > 0 THEN "continue" ELSE "ok",
                           !.waiting = @ + IF ask = "now" /\ ~closed THEN 1 ELSE 0,
                           !.eventInput = IF ask = "now" /\ ~closed THEN EventInput ELSE @]
              /\ events' = [events EXCEPT !.user = @ + IF ask = "now" /\ ~closed THEN 1 ELSE 0]
              /\ run' = [run EXCEPT !.pc = "endflag", !.data = @ + emit]
              /\ UNCHANGED firing
    /\ UNCHANGED <<shape, port, closed, out, fatal>>

(* The buffer an output of this run comes from. *)
Parent == IF run.cur # {} THEN Max(run.cur) ELSE ctx.eventInput

(* The one an end flag comes from: the input of an event, which is kept    *)
(* when the event was processed, goes before placeholders and errors.      *)
EndFlagParent ==
    IF run.end THEN length
    ELSE IF run.valid # {} THEN Max(run.valid)
    ELSE IF ctx.eventInput # None THEN ctx.eventInput ELSE Parent

NeedStreamEndFlag ==
    /\ ~IsContinueProcess
    /\ IF kind = "origin" THEN ctx.endReceived ELSE ctx.curReceived

(* An end flag is appended once, if there is a buffer it can come from. *)
AppendEndFlag(hasEnd) ==
    /\ NeedStreamEndFlag /\ ~ctx.generated
    /\ hasEnd \/ EndFlagParent # None

(* PostProcess passes placeholders and errors on, and stops the flow when  *)
(* what an event put out has no input to come from.  An origin context     *)
(* keeps an end flag that is not for this run.                             *)
PostProcess ==
    /\ run.pc = "endflag"
    /\ IF run.cur = {} /\ run.data > 0 /\ ctx.eventInput = None
       THEN fatal' = TRUE /\ run' = Idle /\ UNCHANGED ctx
       ELSE LET here == run.end \/ (kind = "origin" /\ ctx.endCached)
                flag == AppendEndFlag(here)
            IN  /\ run' = [run EXCEPT !.pc = "post", !.flag = flag,
                             !.data = @ + Cardinality(run.cur \cap void)]
                /\ ctx' = [ctx EXCEPT !.generated = @ \/ flag,
                                      !.endCached = here /\ ~NeedStreamEndFlag]
                /\ UNCHANGED fatal
    /\ UNCHANGED <<shape, port, events, closed, unit, out>>

IsDataPost == ctx.endReceived /\ length > 0 /\ ~IsContinueProcess

(* DataPost may put out a buffer, which MergeDataPostOutput places before  *)
(* the end flag; without an input to derive it from it is dropped.         *)
DataPost ==
    /\ run.pc = "post"
    /\ \/ run' = [run EXCEPT !.pc = "update"]
       \/ /\ IsDataPost /\ kind \in PostEmits
          /\ run.cur # {} \/ (kind = "origin" /\ run.flag)
          /\ run' = [run EXCEPT !.pc = "update", !.data = @ + 1]
    /\ UNCHANGED <<shape, port, events, closed, unit, ctx, out, fatal>>

UpdateProcessState ==
    /\ run.pc = "update"
    /\ LET over == ctx.endReceived /\ ~IsContinueProcess
       IN  ctx' = [ctx EXCEPT
                     !.state = IF over THEN "over" ELSE @,
                     !.preError = @ /\ ~over,
                     !.cur = @ + IF ctx.curReceived /\ ~IsContinueProcess THEN 1 ELSE 0,
                     !.curReceived = @ /\ IsContinueProcess]
    /\ run' = [run EXCEPT !.pc = "send"]
    /\ UNCHANGED <<shape, port, events, closed, unit, out, fatal>>

(* An expand context goes on with the next buffer it has. *)
GenerateSendEvent ==
    /\ kind = "expand" /\ ~IsContinueProcess /\ ~ctx.endReceived /\ ~ctx.nextSent
    /\ ctx.pos < given - waitIn /\ ctx.pos = ctx.cur

(* The output stream of what comes from buffer i. *)
Stream(i) == IF kind = "origin" THEN 0 ELSE i

(* PostProcessEvent, Send and Clean: a finished context is disposed of. *)
SendAndClean ==
    /\ run.pc = "send"
    /\ events' = [events EXCEPT !.next = @ + IF GenerateSendEvent THEN 1 ELSE 0]
    /\ ctx' = IF ctx.state = "over"
              THEN [ctx EXCEPT !.state = "gone", !.lastValid = None, !.eventInput = None]
              ELSE [ctx EXCEPT !.nextSent = @ \/ GenerateSendEvent]
    /\ out' = [i \in DOMAIN out |->
                 LET data == IF i = Stream(Parent) THEN run.data ELSE 0
                 IN  [data |-> out[i].data + data,
                      ends |-> out[i].ends + IF run.flag /\ i = Stream(EndFlagParent)
                                             THEN 1 ELSE 0,
                      late |-> out[i].late \/ (data > 0 /\ out[i].ends > 0)]]
    /\ run' = Idle
    /\ UNCHANGED <<shape, port, closed, unit, fatal>>

-----------------------------------------------------------------------------
(* The other threads. *)

(* A timer of the unit calls SendEvent, which stops event driven runs of a *)
(* closed session.  The input of the event is set after it was sent, which *)
(* a run may see (SplitSend).                                              *)
TimerSend ==
    /\ timers > 0 /\ ~firing
    /\ timers' = timers - 1
    /\ IF closed /\ ctx.state # "gone" THEN UNCHANGED <<ctx, events, firing>>
       ELSE /\ events' = [events EXCEPT !.user = @ + 1]
            /\ firing' = (kind \in SplitSend)
            /\ ctx' = [ctx EXCEPT !.waiting = @ + 1,
                         !.eventInput = IF kind \in SplitSend THEN @ ELSE EventInput]
    /\ UNCHANGED <<shape, port, closed, asked, run, out, fatal>>

TimerInput ==
    /\ firing
    /\ firing' = FALSE
    /\ ctx' = [ctx EXCEPT !.eventInput = EventInput]
    /\ UNCHANGED <<shape, port, events, closed, timers, asked, run, out, fatal>>

(* Mutant of NotifySessionClose: no event is sent. *)
NotifySessionClose_Silent == UNCHANGED events

(* Only origin contexts listen: one that waits for nothing gets an event.  *)
NotifySessionClose ==
    events' = IF kind = "origin" /\ ctx.state = "live" /\ ctx.status = "continue"
                 /\ ctx.waiting = 0
              THEN [events EXCEPT !.close = @ + 1] ELSE events

(* Session::Close, which one run may see between two of its looks          *)
(* (LateClose).                                                            *)
Close ==
    /\ ~closed /\ kind \in Closes
    /\ run.pc \in {"post", "update"} => kind \in LateClose
    /\ closed' = TRUE
    /\ NotifySessionClose
    /\ UNCHANGED <<shape, port, unit, ctx, run, out, fatal>>

NodeStep ==
    \/ RecvData \/ RecvEvent \/ PreProcess \/ Process \/ PostProcess
    \/ DataPost \/ UpdateProcessState \/ SendAndClean

ContextNext == Deliver \/ NodeStep \/ TimerSend \/ TimerInput \/ Close

ContextSpec == ContextInit /\ [][ContextNext]_contextVars

(* The scheduler runs the node while a port has data, and timers fire. *)
ContextFairSpec ==
    /\ ContextSpec
    /\ WF_contextVars(NodeStep) /\ WF_contextVars(TimerSend \/ TimerInput)

-----------------------------------------------------------------------------
Streams == IF kind = "origin" THEN {0} ELSE 0 .. length

(* Every output stream gets one end flag, after its last buffer, whatever  *)
(* events, timers and Close do in between; a context that is disposed of   *)
(* has ended all its streams.                                              *)
EveryStreamEnds == \A i \in Streams :
    /\ out[i].ends <= 1 /\ ~out[i].late
    /\ ctx.state = "gone" => out[i].ends = 1

(* A context whose input has ended is disposed of: neither a session that  *)
(* is closed while the unit waits, nor buffers that came during a run,     *)
(* leave it behind.                                                        *)
ContextFinishes == (given = length + 1) ~> (ctx.state = "gone" \/ fatal)
=============================================================================
