-------------------------- MODULE StreamEndProofs ---------------------------
(***************************************************************************)
(* Every output stream of a data context gets one end flag, after its last *)
(* buffer.  StreamProofs has shown it of origin contexts.  An expand       *)
(* context ends the stream of the buffer it deals with before it takes the *)
(* next, so that the streams that were ended are those before At           *)
(* (ExpandInv).  Behind it the collapse node then misses no stream.        *)
(***************************************************************************)
EXTENDS StreamProofs

LEMMA ExpandFacts ==
    ASSUME ContextType, EndInv, kind = "expand"
    PROVE  /\ Waits /\ Placed /\ Driving /\ Flagged /\ Sent /\ Sends
           /\ Early \/ Decided => Fed \/ Skipped \/ Driven
           /\ length \in Nat /\ ctx.cur \in Nat /\ ctx.pos \in Nat /\ given \in Nat /\ waitIn \in Nat
           /\ waitIn <= given /\ given <= length + 1 /\ ctx.pos <= given - waitIn
           /\ ctx.state \in {"none", "live", "over", "gone"} /\ ctx.waiting \in Int
           /\ ctx.curReceived \in BOOLEAN /\ ctx.endReceived \in BOOLEAN /\ ctx.generated \in BOOLEAN
           /\ events.user \in Nat /\ events.next \in Nat /\ timers \in Nat
           /\ run.cur \in SUBSET (0 .. length) /\ run.data \in Nat
           /\ run.pc \in {"idle", "pre", "process", "endflag", "post", "update", "send"}
<1>1. /\ Waits /\ Placed /\ Driving /\ Flagged /\ Sent /\ Sends
      /\ Early \/ Decided => Fed \/ Skipped \/ Driven
    BY Zenon DEF EndInv, ExpandInv
<1>2. /\ length \in Nat /\ given \in Nat /\ waitIn \in Nat /\ timers \in Nat
      /\ waitIn <= given /\ given <= length + 1 /\ ctx.pos <= given - waitIn
      /\ ctx \in CtxType /\ run \in RunType /\ events \in [user : Nat, close : Nat, next : Nat]
    BY Zenon DEF ContextType
<1>3. /\ ctx.cur \in Nat /\ ctx.pos \in Nat
      /\ ctx.state \in {"none", "live", "over", "gone"} /\ ctx.waiting \in Int
      /\ ctx.curReceived \in BOOLEAN /\ ctx.endReceived \in BOOLEAN /\ ctx.generated \in BOOLEAN
    BY <1>2, Zenon DEF CtxType
<1>4. events.user \in Nat /\ events.next \in Nat
    BY <1>2, Zenon
<1>5. /\ run.cur \in SUBSET (0 .. length) /\ run.data \in Nat
      /\ run.pc \in {"idle", "pre", "process", "endflag", "post", "update", "send"}
    BY <1>2, Zenon DEF RunType
<1> QED
    BY <1>1, <1>2, <1>3, <1>4, <1>5, ZenonT(40)

(* A context that waits, waits for a buffer that is valid. *)
LEMMA WaitingIs ==
    ASSUME ContextType, EndInv, kind = "expand",
           IsContinueProcess \/ timers > 0 \/ (ctx.state = "live" /\ events.user > 0)
    PROVE  /\ IsContinueProcess /\ ctx.curReceived /\ ctx.cur < length /\ void = {}
           /\ ctx.lastValid = ctx.cur /\ EventInput = ctx.cur
           /\ ctx.state \notin {"over", "gone"}
<1>1. Waits /\ Driving /\ Placed /\ ctx.cur \in Nat /\ length \in Nat
    BY ExpandFacts, Zenon
<1>2. IsContinueProcess
    BY <1>1 DEF Waits, Driving, IsContinueProcess, Open
<1>3. ctx.curReceived /\ ctx.cur < length /\ void = {}
    BY <1>1, <1>2, Zenon DEF Driving
<1>4. ctx.lastValid = ctx.cur
    BY <1>1, <1>3, Zenon DEF Driving
<1>5. EventInput = ctx.cur
    BY <1>1, <1>4 DEF EventInput, None
<1>6. ctx.state \notin {"over", "gone"}
    BY <1>1, <1>3 DEF Placed
<1> QED
    BY <1>2, <1>3, <1>4, <1>5, <1>6

(* Before a run: nothing of the end has come. *)
LEMMA IdleExpand ==
    ASSUME ContextType, EndInv, kind = "expand", run.pc = "idle", ctx.state \in {"none", "live"}
    PROVE  /\ ~ ctx.endReceived /\ ctx.cur <= length /\ ~ (ctx.curReceived /\ ctx.cur = length)
           /\ (ctx.curReceived => ~ ctx.generated /\ IsContinueProcess)
           /\ At = ctx.cur /\ ctx.waiting = events.user
<1>1. Placed /\ Flagged /\ Driving /\ Waits /\ ctx.cur \in Nat /\ length \in Nat
    BY ExpandFacts, Zenon
<1>2. ~ Early /\ ~ Decided /\ run.pc # "send" /\ ctx.state \notin {"over", "gone"}
    BY DEF Early, Decided
<1>3. ctx.cur # length + 1
    BY <1>1, <1>2, Zenon DEF Placed
<1>4. ~ ctx.endReceived /\ ~ (ctx.curReceived /\ ctx.cur = length)
    BY <1>1, <1>2, <1>3, Zenon DEF Placed
<1>5. ctx.cur <= length
    BY <1>1, <1>3 DEF Placed
<1>6. ctx.curReceived => ~ ctx.generated /\ IsContinueProcess
    BY <1>1 DEF Flagged, Driving
<1>7. At = ctx.cur
    BY <1>2, Zenon DEF At
<1>8. ctx.waiting = events.user
    BY <1>1, NoEventsIs DEF Waits, Open
<1> QED
    BY <1>4, <1>5, <1>6, <1>7, <1>8, Zenon

(* A run that takes no buffer. *)
LEMMA NoneKeeps ==
    ASSUME ContextType, EndInv, kind = "expand", run.pc = "idle", ctx.state \in {"none", "live"},
           RunStarts, KeepsPlace, NEW s, TakesNone(s), SameShape, out' = out
    PROVE  Placed' /\ Flagged' /\ Sent' /\ Sends'
<1>1. Placed /\ Sent /\ ctx.cur \in Nat /\ length \in Nat
    BY ExpandFacts, Zenon
<1>2. /\ ~ ctx.endReceived /\ ctx.cur <= length /\ ~ (ctx.curReceived /\ ctx.cur = length)
      /\ (ctx.curReceived => ~ ctx.generated) /\ At = ctx.cur
    BY IdleExpand, Zenon
<1>3. /\ ctx'.pos = ctx.pos /\ ctx'.cur = ctx.cur /\ ctx'.curReceived = ctx.curReceived
      /\ ctx'.endReceived = ctx.endReceived /\ ctx'.generated = ctx.generated /\ ctx'.state = "live"
      /\ run'.pc = "pre" /\ length' = length
    BY Zenon DEF RunStarts, KeepsPlace, TakesNone, SameShape
<1>4. Early' /\ ~ Decided' /\ run'.pc # "send" /\ ctx'.state \notin {"over", "gone"}
    BY <1>3 DEF Early, Decided
<1>5. ctx.cur <= length + 1 /\ ctx.cur # length + 1
    BY <1>1, <1>2
<1>6. Placed'
    BY <1>1, <1>2, <1>3, <1>4, <1>5, ZenonT(40) DEF Placed
<1>7. Flagged'
    BY <1>2, <1>3, <1>4, Zenon DEF Flagged
<1>8. At' = At
    BY <1>2, <1>3, <1>4, Zenon DEF At
<1>9. Sent'
    BY <1>1, <1>3, <1>8, Zenon DEF Sent
<1>10. Sends'
    BY <1>3 DEF Sends
<1> QED
    BY <1>6, <1>7, <1>9, <1>10, Zenon

LEMMA MoreIn ==
    ASSUME NEW p \in Nat, NEW g \in Nat, NEW w \in Nat, NEW h \in Nat, NEW v \in Nat, h - v >= g - w
    PROVE  p < g - w => p < h - v
OBVIOUS

(* A run that has nothing to do. *)
LEMMA SkippedKeeps ==
    ASSUME ContextType, EndInv, kind = "expand", run.pc = "idle", ctx.state \in {"none", "live"},
           RunStarts, KeepsPlace, TakesNone(TRUE), SameShape, out' = out,
           ctx'.waiting = ctx.waiting, closed' = closed, firing' = firing, events' = events,
           given' - waitIn' >= given - waitIn, given' \in Nat, waitIn' \in Nat
    PROVE  ExpandInv'
<1>1. /\ Driving /\ ctx.pos \in Nat /\ given \in Nat /\ waitIn \in Nat
    BY ExpandFacts, Zenon
<1>2. Placed' /\ Flagged' /\ Sent' /\ Sends'
    BY NoneKeeps, Zenon
<1>3. ctx.curReceived => IsContinueProcess
    BY IdleExpand, Zenon
<1>4. /\ ctx'.pos = ctx.pos /\ ctx'.cur = ctx.cur /\ ctx'.curReceived = ctx.curReceived
      /\ ctx'.state = "live" /\ ctx'.nextSent = ctx.nextSent /\ ctx'.preError = ctx.preError
      /\ ctx'.status = ctx.status /\ ctx'.eventInput = ctx.eventInput /\ ctx'.lastValid = ctx.lastValid
      /\ run'.pc = "pre" /\ length' = length /\ void' = void /\ run'.cur = {} /\ run'.valid = {}
      /\ run'.end = FALSE /\ run'.data = 0 /\ run'.skip = TRUE
    BY Zenon DEF RunStarts, KeepsPlace, TakesNone, SameShape
<1>5. IsContinueProcess' <=> IsContinueProcess
    BY <1>4, ContinueSame, Zenon
<1>6. Skipped'
    BY <1>3, <1>4, <1>5, Zenon DEF Skipped
<1>7. ctx.pos < given - waitIn => ctx.pos < given' - waitIn'
    BY <1>1, MoreIn, Zenon
<1>8. run'.pc \notin {"idle", "send"} /\ ctx.state # "gone"
    BY <1>4
<1>9. Driving'
    BY <1>1, <1>4, <1>5, <1>7, <1>8, ZenonT(40) DEF Driving
<1> QED
    BY <1>2, <1>6, <1>9, Zenon DEF ExpandInv

(* A run for an event the unit sent. *)
LEMMA DrivenKeeps ==
    ASSUME ContextType, EndInv, kind = "expand", run.pc = "idle", ctx.state = "live",
           RunStarts, KeepsPlace, NEW s, TakesNone(s), SameShape, out' = out, events.user > 0,
           ctx'.waiting = 0, closed' = closed, firing' = firing, events' = NoEvents
    PROVE  ExpandInv'
<1>1. Driving
    BY ExpandFacts, Zenon
<1>2. Placed' /\ Flagged' /\ Sent' /\ Sends'
  <2>1. ctx.state \in {"none", "live"}
      OBVIOUS
  <2> QED
      BY <2>1, NoneKeeps, Zenon
<1>3. ctx.curReceived /\ ctx.cur < length /\ void = {} /\ ctx.lastValid = ctx.cur
    BY WaitingIs, Zenon
<1>4. ctx.eventInput = ctx.cur
    BY <1>1, Zenon DEF Driving
<1>5. /\ ctx'.pos = ctx.pos /\ ctx'.cur = ctx.cur /\ ctx'.curReceived = ctx.curReceived
      /\ ctx'.state = "live" /\ ctx'.nextSent = ctx.nextSent /\ ctx'.preError = ctx.preError
      /\ ctx'.status = ctx.status /\ ctx'.eventInput = ctx.eventInput /\ ctx'.lastValid = ctx.lastValid
      /\ run'.pc = "pre" /\ length' = length /\ void' = void /\ run'.cur = {} /\ run'.valid = {}
      /\ run'.end = FALSE
    BY Zenon DEF RunStarts, KeepsPlace, TakesNone, SameShape
<1>6. Driven'
    BY <1>3, <1>4, <1>5, Zenon DEF Driven
<1>7. run'.pc \notin {"idle", "send"}
    BY <1>5
<1>8. events'.close = 0 /\ ~ (events'.next > 0) /\ ~ (events'.user > 0)
    BY NoEventsIs
<1>9. Driving'
    BY <1>1, <1>3, <1>4, <1>5, <1>7, <1>8, ZenonT(40) DEF Driving
<1> QED
    BY <1>2, <1>6, <1>9, Zenon DEF ExpandInv

(* A run with the next buffer. *)
LEMMA FedKeeps ==
    ASSUME ContextType, EndInv, kind = "expand", run.pc = "idle", ctx.state \in {"none", "live"},
           NEW got \in Nat, got <= length + 1, RunStarts, TakesNext(got), SameShape, out' = out,
           ctx'.waiting = ctx.waiting, closed' = closed, firing' = firing,
           events'.user = 0, events'.close = 0, events'.next = 0
    PROVE  ExpandInv'
<1>1. Driving /\ Placed /\ Sent /\ length \in Nat /\ ctx.cur \in Nat /\ ctx.pos \in Nat
    BY ExpandFacts, Zenon
<1>2. ~ ctx.endReceived /\ ctx.cur <= length /\ At = ctx.cur
    BY IdleExpand, Zenon
<1>3. ctx.pos = ctx.cur /\ ctx.pos < got /\ TakesInput({ctx.pos})
    BY Zenon DEF TakesNext
<1>4. ~ ctx.curReceived
    BY <1>1, <1>3 DEF Placed
<1>5. ~ IsContinueProcess /\ ~ ctx.preError
    BY <1>1, <1>4, Zenon DEF Driving
<1> DEFINE c == ctx.cur
           V == {c} \ (void \cup {length})
<1>6. TakenOf(ctx.preError, {ctx.pos}) = {c} /\ ValidOf(ctx.preError, {ctx.pos}) = V
    BY <1>3, <1>5, Zenon DEF TakenOf, ValidOf
<1>7. /\ run'.cur = {c} /\ run'.valid = V /\ run'.end = (length \in {ctx.pos}) /\ run'.skip = (V = {})
      /\ ctx'.endReceived = (ctx.endReceived \/ length \in {ctx.pos})
      /\ ctx'.lastValid = LastOf(ctx.lastValid, V)
    BY <1>3, <1>6, Zenon DEF TakesInput
<1>8. (length \in {ctx.pos}) = (c = length)
    BY <1>3
<1>9. run'.end = (c = length) /\ (ctx'.endReceived <=> c = length)
    BY <1>2, <1>7, <1>8, Zenon
<1>10. /\ ctx'.pos = c + 1 /\ ctx'.cur = c /\ ctx'.curReceived = TRUE /\ ctx'.generated = FALSE
       /\ ctx'.state = "live" /\ ctx'.preError = ctx.preError
       /\ ctx'.status = ctx.status /\ ctx'.eventInput = ctx.eventInput
       /\ run'.pc = "pre" /\ length' = length /\ void' = void
    BY <1>3, Zenon DEF RunStarts, TakesNext, SameShape
<1>11. IsContinueProcess' <=> IsContinueProcess
    BY <1>10, ContinueSame, Zenon
<1>12. Early' /\ ~ Decided' /\ run'.pc # "send" /\ run'.pc \notin {"idle", "send"}
       /\ ctx'.state \notin {"over", "gone"} /\ ctx.state # "gone" /\ ctx'.state # "gone"
    BY <1>10 DEF Early, Decided
<1>13. void = {} /\ c < length => ctx'.lastValid = c
  <2>1. SUFFICES ASSUME void = {}, c < length PROVE ctx'.lastValid = c
      OBVIOUS
  <2>2. c # length
      BY <1>1, <2>1
  <2>3. V = {c}
      BY <2>1, <2>2, Zenon
  <2>4. Max({c}) = c /\ {c} # {}
      BY <1>1, MaxOne, Zenon
  <2> HIDE DEF V
  <2> QED
      BY <1>7, <2>3, <2>4, Zenon DEF LastOf
<1>14. Fed'
  <2>1. run'.valid = {ctx'.cur} \ (void' \cup {length'})
      BY <1>7, <1>10, Zenon
  <2>2. run'.skip = (run'.valid = {})
      BY <1>7, Zenon
  <2> HIDE DEF V, c
  <2>3. run'.cur = {ctx'.cur} /\ run'.end = (ctx'.cur = length')
      BY <1>7, <1>9, <1>10, Zenon
  <2> QED
      BY <1>5, <1>10, <1>11, <2>1, <2>2, <2>3, ZenonT(40) DEF Fed
<1> HIDE DEF c, V
<1>15. Placed'
  <2>1. c \in Nat /\ c <= length
      BY <1>1, <1>2, Zenon DEF c
  <2>2. c <= length + 1 /\ c # length + 1
      BY <1>1, <2>1
  <2> QED
      BY <1>9, <1>10, <1>12, <2>1, <2>2, ZenonT(40) DEF Placed
<1>16. Driving'
  <2>1. ~ (events'.user > 0) /\ ~ (events'.next > 0)
      OBVIOUS
  <2> QED
      BY <1>1, <1>5, <1>10, <1>11, <1>12, <1>13, <2>1, ZenonT(40) DEF Driving
<1>17. Flagged'
    BY <1>10, <1>12, Zenon DEF Flagged
<1>18. At' = At
    BY <1>2, <1>10, <1>12, Zenon DEF At, c
<1>19. Sent'
    BY <1>1, <1>10, <1>18, Zenon DEF Sent
<1>20. Sends'
    BY <1>10 DEF Sends
<1> QED
    BY <1>14, <1>15, <1>16, <1>17, <1>19, <1>20, Zenon DEF ExpandInv

LEMMA ExpandRecv ==
    ASSUME ContextType, EndInv, kind = "expand", RecvData \/ RecvEvent
    PROVE  ExpandInv'
<1>1. /\ Waits /\ Placed /\ Driving /\ length \in Nat /\ ctx.cur \in Nat /\ ctx.pos \in Nat
      /\ given \in Nat /\ waitIn \in Nat /\ waitIn <= given /\ given <= length + 1
      /\ ctx.state \in {"none", "live", "over", "gone"} /\ events.user \in Nat /\ events.next \in Nat
      /\ ctx.waiting \in Int /\ events \in [user : Nat, close : Nat, next : Nat]
    BY ExpandFacts, Zenon DEF ContextType
<1>2. CASE RecvData
  <2>1. /\ RunStarts /\ ctx'.waiting = ctx.waiting /\ waitIn' = 0 /\ waitIn > 0 /\ run.pc = "idle"
        /\ SameShape /\ given' = given /\ events' = events /\ closed' = closed /\ firing' = firing
        /\ out' = out
      BY <1>2, RecvDataIs, Zenon DEF SameShape
  <2>2. ctx.state \in {"none", "live"}
    <3>1. waitIn # 0
        BY <1>1, <2>1
    <3>2. ctx.state # "gone"
        BY <3>1, EndedIs, Zenon
    <3> QED
        BY <1>1, <2>1, <3>2 DEF Waits
  <2>3. CASE ~ ctx.nextSent /\ TakesNext(given)
    <3>1. ctx.pos = ctx.cur
        BY <2>3, Zenon DEF TakesNext
    <3>2. ~ ctx.curReceived
        BY <1>1, <3>1 DEF Placed
    <3>3. ~ IsContinueProcess
        BY <1>1, <3>2, Zenon DEF Driving
    <3>4. ctx.waiting = events.user
        BY <2>1, <2>2, IdleExpand, Zenon
    <3>5. events'.user = 0
        BY <1>1, <2>1, <3>3, <3>4 DEF IsContinueProcess
    <3>6. ~ (events.next > 0) /\ events.close = 0
        BY <1>1, <2>3, Zenon DEF Driving
    <3>7. events'.next = 0 /\ events'.close = 0
        BY <1>1, <2>1, <3>6
    <3> QED
        BY <1>1, <2>1, <2>2, <2>3, <3>5, <3>7, FedKeeps, ZenonT(40)
  <2>4. CASE TakesNone(TRUE) /\ KeepsPlace
    <3>1. given' - waitIn' >= given - waitIn /\ given' \in Nat /\ waitIn' \in Nat
        BY <1>1, <2>1
    <3> QED
        BY <2>1, <2>2, <2>4, <3>1, SkippedKeeps, Zenon
  <2>5. kind # "origin"
      OBVIOUS
  <2> QED
      BY <1>2, <2>3, <2>4, <2>5, RecvDataIs, Zenon
<1>3. CASE RecvEvent /\ ctx.state = "live"
  <2>1. /\ RunStarts /\ ctx'.waiting = ctx.waiting - events.user /\ run.pc = "idle"
        /\ SameShape /\ events' = NoEvents /\ events # NoEvents /\ closed' = closed
        /\ firing' = firing /\ out' = out /\ ctx.state \in {"none", "live"}
    <3>1. ctx.state \in {"none", "live"}
        BY <1>3
    <3> QED
        BY <1>3, <3>1, RecvEventIs, Zenon DEF SameShape
  <2>2. ctx.waiting = events.user /\ events.close = 0
      BY <1>1, <2>1, IdleExpand, Zenon DEF Driving
  <2>3. CASE events.user > 0
    <3>1. ctx.curReceived
        BY <1>3, <2>3, WaitingIs, Zenon
    <3>2. ~ (events.next > 0)
        BY <1>1, <3>1, Zenon DEF Driving
    <3>3. events.next = 0
        BY <1>1, <3>2
    <3>4. TakesNone(events.close > 0) /\ KeepsPlace
        BY <1>3, <3>3, RecvEventIs, Zenon
    <3>5. ctx'.waiting = 0
        BY <1>1, <2>1, <2>2
    <3> QED
        BY <1>3, <2>1, <2>3, <3>4, <3>5, DrivenKeeps, ZenonT(40)
  <2>4. CASE ~ (events.user > 0)
    <3>1. events.user = 0
        BY <1>1, <2>4
    <3>2. events.next # 0
      <4>1. SUFFICES ASSUME events.next = 0 PROVE events = NoEvents
          BY <2>1, Zenon
      <4> QED
          BY <1>1, <2>2, <3>1, <4>1 DEF NoEvents
    <3>3. ~ ctx.curReceived /\ ctx.pos < given - waitIn
        BY <1>1, <3>2 DEF Driving
    <3>4. ctx.pos = ctx.cur
        BY <1>1, <3>3 DEF Placed
    <3>5. TakesNext(given - waitIn)
        BY <1>3, <3>2, <3>3, <3>4, RecvEventIs, ZenonT(40)
    <3>6. given - waitIn \in Nat /\ given - waitIn <= length + 1
        BY <1>1
    <3>7. ctx'.waiting = ctx.waiting
        BY <1>1, <2>1, <3>1
    <3>8. events'.user = 0 /\ events'.close = 0 /\ events'.next = 0
        BY <2>1, NoEventsIs, Zenon
    <3> QED
        BY <2>1, <3>5, <3>6, <3>7, <3>8, FedKeeps, ZenonT(40)
  <2> QED
      BY <2>3, <2>4
<1>4. CASE RecvEvent /\ ctx.state # "live"
  <2>1. /\ SameShape /\ SameInPort /\ ctx' = ctx /\ run' = run /\ out' = out
        /\ closed' = closed /\ firing' = firing /\ events' = NoEvents
      BY <1>4, DroppedIs, Zenon
  <2>2. events'.close = 0 /\ ~ (events'.next > 0) /\ ~ (events'.user > 0)
      BY <2>1, NoEventsIs
  <2>3. IsContinueProcess' <=> IsContinueProcess
      BY <2>1, ContinueSame, Zenon
  <2>4. Placed /\ Driving /\ Flagged /\ Sent /\ Sends /\ (Early \/ Decided => Fed \/ Skipped \/ Driven)
      BY ExpandFacts, Zenon
  <2>5. length' = length /\ void' = void /\ kind' = kind
      BY <2>1, Zenon DEF SameShape
  <2>6. Driving'
      BY <2>1, <2>2, <2>3, <2>4, <2>5, ZenonT(40) DEF Driving, SameInPort
  <2>7. Placed' /\ Flagged' /\ Sent' /\ Sends'
    <3>1. Placed'
        BY <2>1, <2>4, <2>5, Zenon DEF Placed, Early, Decided
    <3>2. Flagged'
        BY <2>1, <2>3, <2>4, <2>5, ZenonT(40) DEF Flagged, Decided
    <3>3. At' = At /\ Parent' = Parent /\ EndFlagParent' = EndFlagParent
        BY <2>1, <2>5, Zenon DEF At, Parent, EndFlagParent
    <3> QED
        BY <2>1, <2>4, <2>5, <3>1, <3>2, <3>3, ZenonT(40) DEF Sent, Sends
  <2>8. ~ Early' /\ ~ Decided'
    <3>1. run.pc = "idle"
        BY <1>4, DroppedIs, Zenon
    <3> QED
        BY <2>1, <3>1 DEF Early, Decided
  <2> QED
      BY <2>6, <2>7, <2>8, Zenon DEF ExpandInv
<1> QED
    BY <1>2, <1>3, <1>4, Zenon

(* A context in a run of which nothing was decided. *)
LEMMA EarlyExpand ==
    ASSUME ContextType, EndInv, kind = "expand", Early \/ Decided
    PROVE  /\ ctx.state = "live" /\ ctx.cur <= length /\ At = ctx.cur /\ ctx.waiting = events.user
           /\ Fed \/ Skipped \/ Driven
<1>1. /\ Waits /\ Placed /\ ctx.cur \in Nat /\ length \in Nat
      /\ ctx.state \in {"none", "live", "over", "gone"} /\ (Fed \/ Skipped \/ Driven)
    BY ExpandFacts, Zenon
<1>2. run.pc # "send" /\ run.pc # "idle"
    BY DEF Early, Decided
<1>3. ctx.state = "live"
    BY <1>1, <1>2 DEF Waits, Open
<1>4. ctx.cur <= length
    BY <1>1, <1>3 DEF Placed
<1>5. At = ctx.cur
    BY <1>2, Zenon DEF At
<1>6. ctx.waiting = events.user
    BY <1>1, <1>3 DEF Waits, Open
<1> QED
    BY <1>1, <1>3, <1>4, <1>5, <1>6, ZenonT(40)

(* A step that leaves the context where it is in the stream. *)
LEMMA PlaceKept ==
    ASSUME Placed, Sent, SameShape, SamePlace, ctx'.state = ctx.state,
           ctx'.endReceived = ctx.endReceived, out' = out, At' = At,
           Early \/ Decided => Early' \/ Decided'
    PROVE  Placed' /\ Sent'
<1>1. Placed'
    BY ZenonT(40) DEF Placed, SameShape, SamePlace
<1>2. Sent'
    BY Zenon DEF Sent, SameShape
<1> QED
    BY <1>1, <1>2, Zenon

LEMMA ExpandPre ==
    ASSUME PlainExpand, ContextType, EndInv, kind = "expand", PreProcess
    PROVE  ExpandInv'
<1>1. Placed /\ Driving /\ Flagged /\ Sent /\ (Early \/ Decided => Fed \/ Skipped \/ Driven)
    BY ExpandFacts, Zenon
<1>2. /\ SameShape /\ SameInPort /\ SameThreads /\ out' = out /\ run.pc = "pre" /\ run'.pc = "process"
      /\ SameInput /\ run'.flag = run.flag /\ SamePlace /\ SameEnd /\ SameDriving
      /\ ctx'.state = ctx.state /\ ctx'.preError = ctx.preError /\ run'.skip = run.skip
      /\ run'.data = run.data
    BY PreIs, Zenon DEF PlainExpand
<1>3. Early /\ Early' /\ ~ Decided' /\ run'.pc # "send" /\ run'.pc \notin {"idle", "send"}
      /\ run.pc \in {"pre", "process"} /\ run.pc \in {"idle", "pre", "process", "endflag", "send"}
      /\ run'.pc \notin {"post", "update", "send"}
    BY <1>2 DEF Early, Decided
<1>4. IsContinueProcess' <=> IsContinueProcess
    BY <1>2, ContinueSame, Zenon DEF SameDriving, SameThreads
<1>5. At' = At
    BY <1>2, <1>3, EarlyExpand, Zenon DEF At, SamePlace
<1>6. Placed' /\ Sent'
    BY <1>1, <1>2, <1>3, <1>5, PlaceKept, ZenonT(40) DEF SameEnd
<1>7. Driving'
    BY <1>1, <1>2, <1>3, <1>4, ZenonT(40) DEF Driving, SameShape, SameInPort, SameThreads, SamePlace, SameDriving
<1>8. Flagged'
    BY <1>1, <1>2, <1>3, Zenon DEF Flagged, SamePlace, SameEnd
<1>9. Sends'
    BY <1>3, Zenon DEF Sends
<1>10. Fed' \/ Skipped' \/ Driven'
  <2>1. CASE Fed
      BY <1>2, <1>3, <1>4, <2>1, Zenon DEF Fed, SameInput, SamePlace, SameShape
  <2>2. CASE Skipped
      BY <1>2, <1>3, <1>4, <2>2, ZenonT(40) DEF Skipped, SameInput, SamePlace, SameShape
  <2>3. CASE Driven
      BY <1>2, <1>3, <1>4, <2>3, ZenonT(40) DEF Driven, SameInput, SamePlace, SameShape, SameDriving
  <2> QED
      BY <1>1, <1>3, <2>1, <2>2, <2>3, ZenonT(40)
<1> QED
    BY <1>6, <1>7, <1>8, <1>9, <1>10, ZenonT(40) DEF ExpandInv

LEMMA ExpandProcess ==
    ASSUME PlainExpand, ContextType, EndInv, kind = "expand", Process
    PROVE  ExpandInv'
<1>1. /\ Waits /\ Placed /\ Driving /\ Flagged /\ Sent /\ length \in Nat /\ ctx.cur \in Nat
      /\ timers \in Nat /\ events.user \in Nat /\ ctx.waiting \in Int
    BY ExpandFacts, Zenon
<1>2. /\ SameShape /\ SameInPort /\ out' = out /\ closed' = closed /\ firing' = firing
      /\ run.pc = "process" /\ run'.pc = "endflag" /\ SameInput /\ run'.flag = run.flag
      /\ SamePlace /\ SameEnd /\ ctx'.state = ctx.state /\ ctx'.preError = ctx.preError
      /\ ctx'.lastValid = ctx.lastValid /\ events'.close = events.close /\ events'.next = events.next
    BY ProcessIs, Zenon
<1>3. Early /\ Early' /\ ~ Decided' /\ run'.pc # "send" /\ run'.pc \notin {"idle", "send"}
      /\ run.pc \in {"pre", "process"} /\ run.pc \in {"idle", "pre", "process", "endflag", "send"}
      /\ run'.pc \notin {"post", "update", "send"} /\ run'.pc \notin {"pre", "process"}
    BY <1>2 DEF Early, Decided
<1>4. /\ ctx.state = "live" /\ ctx.cur <= length /\ At = ctx.cur /\ ctx.waiting = events.user
      /\ Fed \/ Skipped \/ Driven
    BY <1>3, EarlyExpand, Zenon
<1>5. At' = At
    BY <1>2, <1>3, <1>4, Zenon DEF At, SamePlace
<1>6. Placed' /\ Sent'
    BY <1>1, <1>2, <1>3, <1>5, PlaceKept, ZenonT(40) DEF SameEnd
<1>7. Flagged'
    BY <1>1, <1>2, <1>3, Zenon DEF Flagged, SamePlace, SameEnd
<1>8. Sends'
    BY <1>3, Zenon DEF Sends
<1>9. CASE run.skip
  <2>1. run'.data = run.data /\ SameThreads /\ SameDriving
      BY <1>9, ProcessIs, Zenon
  <2>2. IsContinueProcess' <=> IsContinueProcess
      BY <2>1, ContinueSame, Zenon DEF SameDriving, SameThreads
  <2>3. Driving'
    <3>1. /\ events'.user = events.user /\ ctx'.eventInput = ctx.eventInput /\ length' = length
          /\ void' = void /\ given' = given /\ waitIn' = waitIn /\ ctx'.cur = ctx.cur
          /\ ctx'.pos = ctx.pos /\ ctx'.curReceived = ctx.curReceived /\ ctx'.nextSent = ctx.nextSent
        BY <1>2, <2>1, Zenon DEF SameShape, SameInPort, SameThreads, SamePlace, SameDriving
    <3> QED
        BY <1>1, <1>2, <1>3, <2>2, <3>1, ZenonT(40) DEF Driving
  <2>4. Fed' \/ Skipped' \/ Driven'
    <3>1. CASE Fed
        BY <1>2, <1>3, <2>2, <3>1, Zenon DEF Fed, SameInput, SamePlace, SameShape
    <3>2. CASE Skipped
        BY <1>2, <1>3, <2>1, <2>2, <3>2, ZenonT(40) DEF Skipped, SameInput, SamePlace, SameShape
    <3>3. CASE Driven
        BY <1>2, <1>3, <2>1, <3>3, Zenon DEF Driven, SameInput, SamePlace, SameShape, SameDriving
    <3> QED
        BY <1>4, <3>1, <3>2, <3>3, Zenon
  <2> QED
      BY <1>6, <1>7, <1>8, <2>3, <2>4, Zenon DEF ExpandInv
<1>10. CASE ~ run.skip
  <2>1. ctx.curReceived /\ ctx.cur < length
    <3>1. CASE Fed
      <4>1. ctx.curReceived /\ run.valid # {}
          BY <1>3, <1>10, <3>1, Zenon DEF Fed
      <4>2. ctx.cur # length
          BY <3>1, <4>1, Zenon DEF Fed
      <4> QED
          BY <1>1, <1>4, <4>1, <4>2
    <3>2. CASE Driven
        BY <3>2, Zenon DEF Driven
    <3>3. CASE Skipped
        BY <1>3, <1>10, <3>3, Zenon DEF Skipped
    <3> QED
        BY <1>4, <3>1, <3>2, <3>3, Zenon
  <2>2. void = {} => ctx.lastValid = ctx.cur /\ EventInput = ctx.cur
    <3>1. void = {} => ctx.lastValid = ctx.cur
        BY <1>1, <2>1, Zenon DEF Driving
    <3> QED
        BY <1>1, <3>1 DEF EventInput, None
  <2>3. /\ ctx'.status = "continue" => timers > 0 \/ void = {}
        /\ \/ /\ ctx'.waiting = ctx.waiting /\ events'.user = events.user
              /\ ctx'.eventInput = ctx.eventInput
           \/ /\ ctx'.waiting = ctx.waiting + 1 /\ events'.user = events.user + 1
              /\ ctx'.eventInput = EventInput /\ void = {}
    <3>1. kind \notin Mixed
        BY Zenon DEF PlainExpand
    <3>2. ctx'.status = "continue" => timers > 0 \/ void = {}
        BY <1>10, <3>1, ProcessIs, Zenon
    <3>3. \/ /\ ctx'.waiting = ctx.waiting /\ events'.user = events.user
             /\ ctx'.eventInput = ctx.eventInput
          \/ /\ ctx'.waiting = ctx.waiting + 1 /\ events'.user = events.user + 1
             /\ ctx'.eventInput = EventInput /\ void = {}
        BY <1>10, <3>1, ProcessIs, Zenon
    <3> QED
        BY <3>2, <3>3, Zenon
  <2>4. timers > 0 \/ ctx.waiting > 0 => void = {}
      BY <1>4, WaitingIs, Zenon
  <2>5. IsContinueProcess' => void = {}
    <3>1. ctx'.waiting > 0 => void = {}
      <4>1. CASE ctx'.waiting = ctx.waiting
          BY <2>4, <4>1, Zenon
      <4>2. CASE void = {}
          BY <4>2
      <4> QED
          BY <2>3, <4>1, <4>2, Zenon
    <3> QED
        BY <2>3, <2>4, <3>1, Zenon DEF IsContinueProcess
  <2>6. events'.user > 0 => ctx'.eventInput = ctx.cur
    <3>1. events.user > 0 => ctx.eventInput = ctx.cur
        BY <1>1, Zenon DEF Driving
    <3> QED
        BY <2>2, <2>3, <3>1
  <2>7. /\ void # {} => ctx'.eventInput = ctx.eventInput
        /\ ctx.eventInput = ctx.cur => ctx'.eventInput = ctx.cur
      BY <2>2, <2>3, Zenon
  <2>8. Driving'
      BY <1>1, <1>2, <1>3, <2>1, <2>5, <2>6, <2>7, ZenonT(40)
         DEF Driving, SameShape, SameInPort, SamePlace
  <2>9. Fed' \/ Driven'
    <3>1. CASE Fed
      <4>1. run.valid # {}
          BY <1>3, <1>10, <3>1, Zenon DEF Fed
      <4> QED
          BY <1>2, <1>3, <3>1, <4>1, Zenon DEF Fed, SameInput, SamePlace, SameShape
    <3>2. CASE Driven
        BY <1>2, <2>7, <3>2, Zenon DEF Driven, SameInput, SamePlace, SameShape
    <3>3. CASE Skipped
        BY <1>3, <1>10, <3>3, Zenon DEF Skipped
    <3> QED
        BY <1>4, <3>1, <3>2, <3>3, ZenonT(40)
  <2> QED
      BY <1>6, <1>7, <1>8, <2>8, <2>9, ZenonT(40) DEF ExpandInv
<1> QED
    BY <1>9, <1>10

(* The buffer of the end flag, and of what a run puts out. *)
LEMMA ParentIs ==
    ASSUME ContextType, EndInv, kind = "expand", Early \/ Decided, run.pc \notin {"pre", "process"}
    PROVE  /\ ctx.curReceived /\ ~ IsContinueProcess => EndFlagParent = ctx.cur
           /\ ~ Skipped => Parent = ctx.cur
<1>1. /\ Driving /\ length \in Nat /\ ctx.cur \in Nat /\ ctx.state = "live" /\ (Fed \/ Skipped \/ Driven)
    BY ExpandFacts, EarlyExpand, Zenon
<1>2. Max({ctx.cur}) = ctx.cur
    BY <1>1, MaxOne, Zenon
<1>3. CASE Fed
  <2>1. run.cur = {ctx.cur} /\ run.cur # {} /\ run.end = (ctx.cur = length)
        /\ run.valid = {ctx.cur} \ (void \cup {length})
      BY <1>3, Zenon DEF Fed
  <2>2. Parent = ctx.cur
      BY <1>2, <2>1, Zenon DEF Parent
  <2>3. CASE run.end
      BY <2>1, <2>2, <2>3, Zenon DEF EndFlagParent
  <2>4. CASE ~ run.end /\ run.valid # {}
    <3>1. run.valid = {ctx.cur}
        BY <2>1, <2>4, Zenon
    <3> QED
        BY <1>2, <2>2, <2>4, <3>1, ZenonT(40) DEF EndFlagParent
  <2>5. CASE ~ run.end /\ run.valid = {}
    <3>1. ctx.cur \in void
        BY <2>1, <2>5, Zenon
    <3>2. void # {} /\ ctx.state # "gone"
        BY <1>1, <3>1
    <3>3. ctx.eventInput = None
        BY <1>1, <3>2, Zenon DEF Driving
    <3> QED
        BY <2>2, <2>5, <3>3, Zenon DEF EndFlagParent
  <2> QED
      BY <2>2, <2>3, <2>4, <2>5, ZenonT(40)
<1>4. CASE Driven
  <2>1. run.cur = {} /\ run.valid = {} /\ ~ run.end /\ ctx.eventInput = ctx.cur
      BY <1>4, Zenon DEF Driven
  <2>2. ctx.eventInput # None
      BY <1>1, <2>1 DEF None
  <2> QED
      BY <2>1, <2>2, Zenon DEF EndFlagParent, Parent
<1>5. CASE Skipped
    BY <1>5, Zenon DEF Skipped
<1> QED
    BY <1>1, <1>3, <1>4, <1>5, Zenon

LEMMA ExpandPost ==
    ASSUME ContextType, EndInv, kind = "expand", PostProcess
    PROVE  ExpandInv'
<1>1. /\ Placed /\ Driving /\ Flagged /\ Sent /\ length \in Nat /\ ctx.cur \in Nat /\ run.data \in Nat
    BY ExpandFacts, Zenon
<1>2. /\ SameShape /\ SameInPort /\ SameThreads /\ out' = out /\ SamePlace /\ SameDriving
      /\ ctx'.state = ctx.state /\ ctx'.endReceived = ctx.endReceived /\ run.pc = "endflag"
      /\ ctx'.preError = ctx.preError
    BY PostIs, Zenon
<1>3. Early /\ run.pc \notin {"pre", "process"} /\ run.pc \in {"idle", "pre", "process", "endflag", "send"}
    BY <1>2 DEF Early
<1>4. /\ ctx.state = "live" /\ ctx.cur <= length /\ At = ctx.cur /\ (Fed \/ Skipped \/ Driven)
    BY <1>3, EarlyExpand, Zenon
<1>5. /\ ctx.curReceived /\ ~ IsContinueProcess => EndFlagParent = ctx.cur
      /\ ~ Skipped => Parent = ctx.cur
    BY <1>3, ParentIs, Zenon
<1>6. ~ (run.cur = {} /\ run.data > 0 /\ ctx.eventInput = None)
  <2>1. CASE Fed
      BY <2>1, Zenon DEF Fed
  <2>2. CASE Skipped
    <3>1. run.data = 0
        BY <2>2, Zenon DEF Skipped
    <3> QED
        BY <3>1
  <2>3. CASE Driven
    <3>1. ctx.eventInput = ctx.cur
        BY <2>3, Zenon DEF Driven
    <3> QED
        BY <1>1, <3>1 DEF None
  <2> QED
      BY <1>4, <2>1, <2>2, <2>3, ZenonT(40)
<1>7. /\ run'.pc = "post" /\ SameInput /\ run'.flag = AppendEndFlag(HasEnd)
      /\ ctx'.generated = (ctx.generated \/ AppendEndFlag(HasEnd))
      /\ run.cur \cap void = {} => run'.data = run.data
    BY <1>6, PostIs, Zenon
<1>8. NeedStreamEndFlag <=> ctx.curReceived /\ ~ IsContinueProcess
    BY DEF NeedStreamEndFlag
<1>9. ctx.curReceived => ~ ctx.generated
    BY <1>1, <1>3, Zenon DEF Flagged
<1>10. ctx.cur # None
    BY <1>1 DEF None
<1>11. AppendEndFlag(HasEnd) <=> ctx.curReceived /\ ~ IsContinueProcess
    BY <1>5, <1>8, <1>9, <1>10, ZenonT(40) DEF AppendEndFlag
<1>12. IsContinueProcess' <=> IsContinueProcess
    BY <1>2, ContinueSame, Zenon DEF SameDriving, SameThreads
<1>13. Decided' /\ ~ Early' /\ run'.pc # "send" /\ run'.pc \notin {"idle", "send"}
       /\ run'.pc \notin {"idle", "pre", "process", "endflag", "send"}
       /\ run'.pc \notin {"pre", "process"}
    BY <1>7 DEF Decided, Early
<1>14. At' = At
    BY <1>2, <1>4, <1>13, Zenon DEF At, SamePlace
<1>15. Placed' /\ Sent'
    BY <1>1, <1>2, <1>13, <1>14, PlaceKept, ZenonT(40)
<1>16. Driving'
    BY <1>1, <1>2, <1>12, <1>13, ZenonT(40)
       DEF Driving, SameShape, SameInPort, SameThreads, SamePlace, SameDriving
<1>17. (run'.flag <=> ctx.curReceived /\ ~ IsContinueProcess) /\ (ctx.curReceived => (ctx'.generated <=> run'.flag))
    BY <1>7, <1>9, <1>11, Zenon
<1>18. Flagged'
    BY <1>2, <1>12, <1>13, <1>17, ZenonT(40) DEF Flagged, SamePlace
<1>19. Fed' \/ Skipped' \/ Driven'
  <2>1. CASE Fed
      BY <1>2, <1>7, <1>12, <1>13, <2>1, ZenonT(40) DEF Fed, SameInput, SamePlace, SameShape
  <2>2. CASE Skipped
    <3>1. run'.data = run.data
        BY <1>7, <2>2, Zenon DEF Skipped
    <3> QED
        BY <1>2, <1>7, <1>12, <1>13, <2>2, <3>1, ZenonT(40) DEF Skipped, SameInput, SamePlace, SameShape
  <2>3. CASE Driven
      BY <1>2, <1>7, <2>3, ZenonT(40) DEF Driven, SameInput, SamePlace, SameShape, SameDriving
  <2> QED
      BY <1>4, <2>1, <2>2, <2>3, ZenonT(40)
<1>20. Parent' = Parent /\ EndFlagParent' = EndFlagParent
    BY <1>2, <1>7, Zenon DEF Parent, EndFlagParent, SameInput, SameShape, SameDriving
<1>21. run'.data > 0 => Parent = ctx.cur
  <2>1. CASE Skipped
    <3>1. run'.data = 0
        BY <1>7, <2>1, Zenon DEF Skipped
    <3> QED
        BY <3>1
  <2> QED
      BY <1>5, <2>1, Zenon
<1>22. Sends'
    BY <1>4, <1>5, <1>14, <1>17, <1>20, <1>21, ZenonT(40) DEF Sends
<1> QED
    BY <1>15, <1>16, <1>18, <1>19, <1>22, ZenonT(40) DEF ExpandInv

LEMMA ExpandDataPost ==
    ASSUME ContextType, EndInv, kind = "expand", DataPost
    PROVE  ExpandInv'
<1>1. /\ Placed /\ Driving /\ Flagged /\ Sent /\ Sends
    BY ExpandFacts, Zenon
<1>2. /\ SameShape /\ SameInPort /\ SameThreads /\ out' = out /\ ctx' = ctx
      /\ run.pc = "post" /\ run'.pc = "update" /\ SameInput /\ run'.flag = run.flag
      /\ run'.data = run.data \/ run.cur # {}
  <2>1. kind # "origin"
      OBVIOUS
  <2> QED
      BY <2>1, DataPostIs, Zenon
<1>3. Decided /\ Decided' /\ ~ Early' /\ run'.pc # "send" /\ run'.pc \notin {"idle", "send"}
      /\ run'.pc \notin {"idle", "pre", "process", "endflag", "send"} /\ run.pc \notin {"pre", "process"}
      /\ run'.pc \notin {"pre", "process"} /\ run.pc \in {"post", "update", "send"}
    BY <1>2 DEF Decided, Early
<1>4. At = ctx.cur /\ (Fed \/ Skipped \/ Driven) /\ (~ Skipped => Parent = ctx.cur)
    BY <1>3, EarlyExpand, ParentIs, Zenon
<1>5. IsContinueProcess' <=> IsContinueProcess
    BY <1>2, ContinueSame, Zenon DEF SameThreads
<1>6. At' = At
    BY <1>2, <1>3, <1>4, Zenon DEF At
<1>7. SamePlace /\ ctx'.state = ctx.state /\ ctx'.endReceived = ctx.endReceived
    BY <1>2, CtxSame, Zenon DEF SameEnd
<1>8. Placed' /\ Sent'
    BY <1>1, <1>2, <1>3, <1>6, <1>7, PlaceKept, ZenonT(40)
<1>9. Driving'
    BY <1>1, <1>2, <1>3, <1>5, ZenonT(40) DEF Driving, SameShape, SameInPort, SameThreads
<1>10. Flagged'
    BY <1>1, <1>2, <1>3, <1>5, Zenon DEF Flagged
<1>11. Fed' \/ Skipped' \/ Driven'
  <2>1. CASE Fed
      BY <1>2, <1>3, <1>5, <2>1, ZenonT(40) DEF Fed, SameInput, SameShape
  <2>2. CASE Skipped
    <3>1. run'.data = run.data
        BY <1>2, <2>2, Zenon DEF Skipped
    <3> QED
        BY <1>2, <1>3, <1>5, <2>2, <3>1, ZenonT(40) DEF Skipped, SameInput, SameShape
  <2>3. CASE Driven
      BY <1>2, <2>3, Zenon DEF Driven, SameInput, SameShape
  <2> QED
      BY <1>4, <2>1, <2>2, <2>3, Zenon
<1>12. Parent' = Parent /\ EndFlagParent' = EndFlagParent
    BY <1>2, Zenon DEF Parent, EndFlagParent, SameInput, SameShape
<1>13. run'.data > 0 => Parent = At
  <2>1. CASE run'.data = run.data
      BY <1>1, <1>3, <2>1, Zenon DEF Sends
  <2>2. CASE run.cur # {}
      BY <1>4, <2>2, Zenon DEF Skipped
  <2> QED
      BY <1>2, <2>1, <2>2, Zenon
<1>14. run'.flag => EndFlagParent = At
    BY <1>1, <1>2, <1>3, Zenon DEF Sends
<1>15. Sends'
    BY <1>6, <1>12, <1>13, <1>14, Zenon DEF Sends
<1> QED
    BY <1>8, <1>9, <1>10, <1>11, <1>15, Zenon DEF ExpandInv

LEMMA ExpandUpdate ==
    ASSUME ContextType, EndInv, kind = "expand", UpdateProcessState
    PROVE  ExpandInv'
<1>1. /\ Placed /\ Driving /\ Flagged /\ Sent /\ Sends /\ length \in Nat /\ ctx.cur \in Nat
      /\ ctx.curReceived \in BOOLEAN
    BY ExpandFacts, Zenon
<1>2. /\ SameShape /\ SameInPort /\ SameThreads /\ out' = out
      /\ run.pc = "update" /\ run'.pc = "send" /\ SameInput /\ run'.flag = run.flag
      /\ run'.data = run.data /\ SameEnd /\ SameDriving /\ ctx'.pos = ctx.pos
      /\ ctx'.nextSent = ctx.nextSent /\ (ctx'.preError => ctx.preError)
      /\ ctx'.state = IF ctx.endReceived /\ ~ IsContinueProcess THEN "over" ELSE ctx.state
      /\ ctx'.curReceived = (ctx.curReceived /\ IsContinueProcess)
      /\ ctx'.cur = IF ctx.curReceived /\ ~ IsContinueProcess THEN ctx.cur + 1 ELSE ctx.cur
    BY UpdateIs, Zenon
<1>3. Decided /\ ~ Decided' /\ ~ Early' /\ run.pc \in {"post", "update", "send"}
      /\ run'.pc \in {"idle", "pre", "process", "endflag", "send"} /\ run.pc \notin {"pre", "process"}
    BY <1>2 DEF Decided, Early
<1>4. ctx.state = "live" /\ ctx.cur <= length /\ At = ctx.cur /\ ctx.waiting = events.user
    BY <1>3, EarlyExpand, Zenon
<1>5. IsContinueProcess' <=> IsContinueProcess
    BY <1>2, ContinueSame, Zenon DEF SameDriving, SameThreads
<1>6. run.flag <=> ctx.curReceived /\ ~ IsContinueProcess
    BY <1>1, <1>3, Zenon DEF Flagged
<1>7. ctx.endReceived => ctx.cur = length /\ ctx.curReceived /\ ~ IsContinueProcess
  <2>1. ctx.cur # length + 1
      BY <1>1, <1>4
  <2>2. ctx.endReceived => ctx.cur = length /\ ctx.curReceived
      BY <1>1, <2>1, Zenon DEF Placed
  <2>3. ctx.cur = length => ~ IsContinueProcess
    <3>1. ctx.cur = length => ~ (ctx.cur < length)
        BY <1>1
    <3> QED
        BY <1>1, <3>1, Zenon DEF Driving
  <2> QED
      BY <2>2, <2>3, Zenon
<1>8. CASE run.flag
  <2>1. ctx'.cur = ctx.cur + 1 /\ ctx'.curReceived = FALSE /\ ctx.curReceived /\ ~ IsContinueProcess
      BY <1>2, <1>6, <1>8, Zenon
  <2>2. At' = At
    <3>1. At' = ctx'.cur - 1
        BY <1>2, <1>8, Zenon DEF At
    <3> QED
        BY <1>1, <1>4, <2>1, <3>1
  <2>3. ctx.endReceived <=> ctx.cur = length
      BY <1>1, <1>7, <2>1, Zenon DEF Placed
  <2>4. (ctx.endReceived => ctx'.state = "over") /\ (~ ctx.endReceived => ctx'.state = "live")
      BY <1>2, <1>4, <2>1, Zenon
  <2>5. Placed'
    <3>1. ctx'.pos = ctx'.cur /\ ctx'.cur <= length + 1 /\ (ctx'.cur = length + 1 <=> ctx.cur = length)
      <4>1. ctx.pos = ctx.cur + 1
          BY <1>1, <2>1, Zenon DEF Placed
      <4> QED
          BY <1>1, <1>2, <1>4, <2>1, <4>1
    <3>2. ctx'.cur \in Nat /\ ctx'.cur = ctx'.cur + 0
        BY <1>1, <2>1
    <3>3. ctx.cur = length <=> ctx'.state \in {"over", "gone"}
        BY <2>3, <2>4
    <3>4. length' = length /\ ctx'.endReceived = ctx.endReceived
        BY <1>2, Zenon DEF SameShape, SameEnd
    <3>5. ctx'.endReceived => ctx'.cur = length + 1
        BY <2>3, <3>1, <3>4, Zenon
    <3>6. ctx'.cur = length => ~ ctx'.endReceived
        BY <1>1, <3>2, <3>5
    <3> QED
        BY <2>1, <3>1, <3>2, <3>3, <3>4, <3>5, <3>6, ZenonT(40) DEF Placed
  <2>6. Driving'
    <3>1. ~ (events.user > 0)
        BY <1>4, <2>1, Zenon DEF IsContinueProcess
    <3>2. ~ (events.next > 0)
        BY <1>1, <2>1, Zenon DEF Driving
    <3>3. ctx'.state # "gone" /\ ctx.state # "gone"
        BY <1>4, <2>4
    <3> QED
        BY <1>1, <1>2, <1>5, <2>1, <3>1, <3>2, <3>3, ZenonT(40)
           DEF Driving, SameShape, SameInPort, SameThreads, SameDriving
  <2>7. Flagged'
    <3>1. ctx'.cur > 0
        BY <1>1, <2>1, SMTT(30)
    <3> QED
        BY <1>3, <2>1, <3>1, Zenon DEF Flagged
  <2> QED
      BY <1>1, <1>2, <1>3, <2>2, <2>5, <2>6, <2>7, ZenonT(40)
         DEF ExpandInv, Sent, Sends, Parent, EndFlagParent, SameInput, SameShape, SameDriving
<1>9. CASE ~ run.flag
  <2>1. ctx'.cur = ctx.cur /\ ctx'.curReceived = ctx.curReceived /\ (ctx.curReceived => IsContinueProcess)
    <3>1. ctx.curReceived => IsContinueProcess
        BY <1>6, <1>9, Zenon
    <3>2. ctx'.cur = ctx.cur
        BY <1>2, <3>1, Zenon
    <3>3. (ctx.curReceived /\ IsContinueProcess) = ctx.curReceived
        BY <1>1, <3>1
    <3> QED
        BY <1>2, <3>1, <3>2, <3>3, Zenon
  <2>2. At' = At
      BY <1>2, <1>4, <1>9, <2>1, Zenon DEF At
  <2>3. ~ ctx.endReceived /\ ~ (ctx.curReceived /\ ctx.cur = length)
      BY <1>1, <1>7, <2>1, Zenon DEF Placed
  <2>4. ctx'.state = "live" /\ ctx'.state \notin {"over", "gone"} /\ ctx'.state # "gone" /\ ctx.state # "gone"
    <3>1. ctx'.state = ctx.state
        BY <1>2, <2>3, Zenon
    <3> QED
        BY <1>4, <3>1
  <2>5. Placed'
    <3>1. ctx.cur # length + 1
        BY <1>1, <1>4
    <3> QED
        BY <1>1, <1>2, <2>1, <2>3, <2>4, <3>1, ZenonT(40) DEF Placed, SameShape, SameEnd
  <2>6. Driving'
    <3>1. /\ events' = events /\ closed' = closed /\ firing' = firing /\ length' = length /\ void' = void
          /\ given' = given /\ waitIn' = waitIn /\ ctx'.eventInput = ctx.eventInput
          /\ ctx'.lastValid = ctx.lastValid
        BY <1>2, Zenon DEF SameShape, SameInPort, SameThreads, SameDriving
    <3> QED
        BY <1>1, <1>2, <1>5, <2>1, <2>4, <3>1, ZenonT(40) DEF Driving
  <2>7. Flagged'
    <3>1. ctx.curReceived => ~ ctx.generated
        BY <1>1, <1>3, <1>9, Zenon DEF Flagged
    <3> QED
        BY <1>2, <1>3, <1>9, <2>1, <3>1, ZenonT(40) DEF Flagged, SameEnd
  <2> QED
      BY <1>1, <1>2, <1>3, <2>2, <2>5, <2>6, <2>7, ZenonT(40)
         DEF ExpandInv, Sent, Sends, Parent, EndFlagParent, SameInput, SameShape, SameDriving
<1> QED
    BY <1>8, <1>9

LEMMA ExpandSend ==
    ASSUME ContextType, EndInv, kind = "expand", SendAndClean
    PROVE  ExpandInv'
<1>1. /\ Waits /\ Placed /\ Driving /\ Flagged /\ Sent /\ Sends /\ length \in Nat /\ ctx.cur \in Nat
      /\ ctx.pos \in Nat /\ events.user \in Nat /\ events.next \in Nat /\ run.data \in Nat
      /\ ctx.state \in {"none", "live", "over", "gone"} /\ ctx.curReceived \in BOOLEAN
    BY ExpandFacts, Zenon
<1>2. /\ SameShape /\ SameInPort /\ run.pc = "send" /\ run' = Idle /\ closed' = closed
      /\ firing' = firing /\ events'.user = events.user /\ events'.close = events.close
      /\ events'.next = IF GenerateSendEvent THEN events.next + 1 ELSE events.next
      /\ SameEnd /\ ctx'.waiting = ctx.waiting /\ ctx'.status = ctx.status
      /\ ctx'.pos = ctx.pos /\ ctx'.cur = ctx.cur /\ ctx'.curReceived = ctx.curReceived
      /\ ctx'.preError = ctx.preError
      /\ \/ ctx.state = "over" /\ ctx'.state = "gone" /\ ctx'.nextSent = ctx.nextSent
         \/ /\ ctx.state # "over" /\ ctx'.state = ctx.state /\ SameDriving
            /\ ctx'.nextSent = (ctx.nextSent \/ GenerateSendEvent)
    BY SendIs, Zenon
<1>3. run'.pc = "idle" /\ run'.flag = FALSE
    BY <1>2, IdleIs, Zenon
<1>4. /\ ~ Early /\ ~ Decided /\ ~ Early' /\ ~ Decided' /\ run'.pc # "send"
      /\ run.pc \in {"post", "update", "send"} /\ run'.pc \notin {"post", "update", "send"}
      /\ run.pc \in {"idle", "send"} /\ run.pc \in {"idle", "pre", "process", "endflag", "send"}
    BY <1>2, <1>3 DEF Early, Decided
<1>5. IsContinueProcess' <=> IsContinueProcess
    BY <1>2, ContinueSame, Zenon
<1>6. ctx.state \in {"live", "over"}
    BY <1>1, <1>2 DEF Waits, Open
<1>7. ctx'.state \in {"over", "gone"} <=> ctx.state \in {"over", "gone"}
    BY <1>2, <1>6
<1>8. Placed'
    BY <1>1, <1>2, <1>4, <1>7, ZenonT(40) DEF Placed, SameShape, SameEnd
<1>9. Flagged'
    BY <1>1, <1>2, <1>3, <1>4, Zenon DEF Flagged, SameEnd
<1>10. Sends'
    BY <1>4, Zenon DEF Sends
<1>11. At' = ctx.cur
    BY <1>2, <1>4, Zenon DEF At
<1>12. Sent'
  <2>1. SUFFICES ASSUME NEW i \in 0 .. length
                 PROVE  ~ out'[i].late /\ out'[i].ends = IF i < ctx.cur THEN 1 ELSE 0
      BY <1>2, <1>11, Zenon DEF Sent, SameShape
  <2>2. Stream(Parent) = Parent /\ Stream(EndFlagParent) = EndFlagParent
      BY DEF Stream
  <2>3. /\ out'[i].ends = out[i].ends + IF run.flag /\ i = EndFlagParent THEN 1 ELSE 0
        /\ out'[i].late = (out[i].late \/ ((IF i = Parent THEN run.data ELSE 0) > 0 /\ out[i].ends > 0))
      BY <2>1, <2>2, SendIs, Zenon
  <2>4. ~ out[i].late /\ out[i].ends = IF i < At THEN 1 ELSE 0
      BY <1>1, <2>1, Zenon DEF Sent
  <2>5. (run.data > 0 => Parent = At) /\ (run.flag => EndFlagParent = At)
      BY <1>1, <1>4, Zenon DEF Sends
  <2>6. /\ run.flag => At = ctx.cur - 1
        /\ ~ run.flag => At = ctx.cur
      BY <1>2, Zenon DEF At
  <2>7. At \in Int /\ i \in Nat
      BY <1>1, <2>1, <2>6
  <2>8. out'[i].ends = IF i < ctx.cur THEN 1 ELSE 0
    <3>1. CASE run.flag
        BY <1>1, <2>3, <2>4, <2>5, <2>6, <2>7, <3>1, SMTT(30)
    <3>2. CASE ~ run.flag
        BY <1>1, <2>3, <2>4, <2>6, <2>7, <3>2, SMTT(30)
    <3> QED
        BY <3>1, <3>2
  <2>9. ~ ((IF i = Parent THEN run.data ELSE 0) > 0 /\ out[i].ends > 0)
    <3>1. SUFFICES ASSUME (IF i = Parent THEN run.data ELSE 0) > 0 PROVE ~ (out[i].ends > 0)
        OBVIOUS
    <3>2. i = Parent /\ run.data > 0
        BY <3>1
    <3>3. i = At
        BY <2>5, <3>2, Zenon
    <3> QED
        BY <2>4, <2>7, <3>3
  <2> QED
      BY <2>3, <2>4, <2>8, <2>9, ZenonT(40)
<1>13. ctx.state = "over" => ~ IsContinueProcess /\ ~ ctx.curReceived /\ ~ (events.user > 0) /\ ctx.endReceived
  <2>1. SUFFICES ASSUME ctx.state = "over"
                 PROVE ~ IsContinueProcess /\ ~ ctx.curReceived /\ ~ (events.user > 0) /\ ctx.endReceived
      OBVIOUS
  <2>2. ctx.cur = length + 1
      BY <1>1, <2>1 DEF Placed
  <2>3. ~ IsContinueProcess
    <3>1. ~ (ctx.cur < length)
        BY <1>1, <2>2
    <3> QED
        BY <1>1, <3>1, Zenon DEF Driving
  <2>4. ~ ctx.curReceived
      BY <1>1, <1>4, <2>3, Zenon DEF Driving
  <2>5. ctx.waiting = events.user /\ ctx.endReceived
      BY <1>1, <2>1 DEF Waits, Open
  <2> QED
      BY <2>3, <2>4, <2>5, Zenon DEF IsContinueProcess
<1>14. events'.next > 0 => ctx'.nextSent /\ ~ ctx.curReceived /\ ctx.pos < given - waitIn
  <2>1. CASE GenerateSendEvent
    <3>1. ctx.pos < given - waitIn /\ ctx.pos = ctx.cur /\ ~ ctx.endReceived
        BY <2>1, Zenon DEF GenerateSendEvent
    <3>2. ~ ctx.curReceived
        BY <1>1, <3>1 DEF Placed
    <3>3. ctx'.nextSent
        BY <1>2, <1>13, <2>1, <3>1, Zenon
    <3> QED
        BY <3>1, <3>2, <3>3
  <2>2. CASE ~ GenerateSendEvent
    <3>1. events'.next = events.next
        BY <1>2, <2>2, Zenon
    <3>2. ctx.nextSent => ctx'.nextSent
        BY <1>2, Zenon
    <3> QED
        BY <1>1, <3>1, <3>2, Zenon DEF Driving
  <2> QED
      BY <2>1, <2>2
<1>15. Driving'
  <2>1. /\ length' = length /\ void' = void /\ given' = given /\ waitIn' = waitIn
      BY <1>2, Zenon DEF SameShape, SameInPort
  <2>2. CASE ctx.state = "over"
    <3>1. ctx'.state = "gone" /\ ~ IsContinueProcess /\ ~ ctx.curReceived /\ ~ (events.user > 0)
      <4>1. ctx'.state = "gone"
          BY <1>2, <2>2
      <4> QED
          BY <1>13, <2>2, <4>1, Zenon
    <3> QED
        BY <1>1, <1>2, <1>5, <1>14, <2>1, <3>1, ZenonT(40) DEF Driving
  <2>3. CASE ctx.state # "over"
    <3>1. ctx'.state = ctx.state /\ ctx'.eventInput = ctx.eventInput /\ ctx'.lastValid = ctx.lastValid
        BY <1>2, <2>3, Zenon DEF SameDriving
    <3> QED
        BY <1>1, <1>2, <1>4, <1>5, <1>14, <2>1, <3>1, ZenonT(40) DEF Driving
  <2> QED
      BY <2>2, <2>3
<1> QED
    BY <1>4, <1>8, <1>9, <1>10, <1>12, <1>15, ZenonT(40) DEF ExpandInv

LEMMA ExpandOthers ==
    ASSUME PlainExpand, ContextType, EndInv, kind = "expand", TimerSend \/ TimerInput \/ Close \/ Deliver
    PROVE  ExpandInv'
<1>1. /\ Waits /\ Placed /\ Driving /\ Flagged /\ Sent /\ Sends /\ length \in Nat /\ ctx.cur \in Nat
      /\ (Early \/ Decided => Fed \/ Skipped \/ Driven)
      /\ run.pc \in {"idle", "pre", "process", "endflag", "post", "update", "send"}
      /\ events.user \in Nat /\ ctx.waiting \in Int
    BY ExpandFacts, Zenon
<1>2. CASE TimerSend \/ TimerInput
  <2>1. /\ SameShape /\ SameInPort /\ run' = run /\ out' = out /\ closed' = closed
        /\ events'.close = events.close /\ events'.next = events.next
        /\ SamePlace /\ SameEnd /\ ctx'.state = ctx.state /\ ctx'.preError = ctx.preError
        /\ ctx'.status = ctx.status /\ ctx'.lastValid = ctx.lastValid
      BY <1>2, TimerIs, Zenon
  <2>2. ~ closed /\ ~ firing /\ kind \notin SplitSend
      BY <1>1, Zenon DEF Driving, PlainExpand
  <2>3. /\ timers > 0 /\ ctx'.waiting = ctx.waiting + 1 /\ events'.user = events.user + 1
        /\ firing' = (kind \in SplitSend) /\ ctx'.eventInput = EventInput
      BY <1>2, <2>2, TimerIs, Zenon
  <2>4. /\ IsContinueProcess /\ ctx.curReceived /\ ctx.cur < length /\ void = {}
        /\ ctx.lastValid = ctx.cur /\ ctx'.eventInput = ctx.cur
      BY <2>3, WaitingIs, Zenon
  <2>5. ctx.status = "continue"
      BY <1>1, <2>3, Zenon DEF Waits
  <2>6. IsContinueProcess'
      BY <2>1, <2>2, <2>5, Zenon DEF IsContinueProcess
  <2>7. /\ length' = length /\ void' = void /\ given' = given /\ waitIn' = waitIn
        /\ ctx'.pos = ctx.pos /\ ctx'.cur = ctx.cur
        /\ ctx'.curReceived = ctx.curReceived /\ ctx'.nextSent = ctx.nextSent
        /\ ctx'.endReceived = ctx.endReceived /\ ctx'.generated = ctx.generated
      BY <2>1, Zenon DEF SameShape, SameInPort, SamePlace, SameEnd
  <2>8. ~ run.flag \/ ~ (run.pc \in {"post", "update", "send"})
    <3>1. Decided => ~ run.flag
        BY <1>1, <2>4, Zenon DEF Flagged
    <3>2. run.pc = "send" => ~ run.flag
        BY <1>1, <2>4, Zenon DEF Flagged
    <3> QED
        BY <3>1, <3>2 DEF Decided
  <2>9. At' = At /\ (run.pc \in {"post", "update", "send"} => At = ctx.cur)
    <3>1. At' = At
        BY <2>1, <2>7, Zenon DEF At
    <3> QED
        BY <2>8, <3>1, Zenon DEF At
  <2>10. Placed' /\ Sent'
      BY <1>1, <2>1, <2>7, <2>9, PlaceKept, ZenonT(40) DEF Early, Decided
  <2>11. Driving'
      BY <1>1, <2>1, <2>2, <2>3, <2>4, <2>6, <2>7, ZenonT(40) DEF Driving
  <2>12. Flagged'
      BY <1>1, <2>1, <2>4, <2>6, <2>7, ZenonT(40) DEF Flagged, Decided
  <2>13. Sends'
    <3>1. ASSUME run.pc \in {"post", "update", "send"}, run.data > 0 PROVE Parent' = ctx.cur
      <4>1. Parent = ctx.cur
          BY <1>1, <2>9, <3>1, Zenon DEF Sends
      <4>2. CASE run.cur = {}
          BY <2>1, <2>4, <4>2, Zenon DEF Parent
      <4>3. CASE run.cur # {}
          BY <2>1, <4>1, <4>3, Zenon DEF Parent
      <4> QED
          BY <4>2, <4>3
    <3> QED
        BY <2>1, <2>8, <2>9, <3>1, ZenonT(40) DEF Sends
  <2>14. Early' \/ Decided' => Fed' \/ Skipped' \/ Driven'
    <3>1. SUFFICES ASSUME Early \/ Decided PROVE Fed' \/ Skipped' \/ Driven'
        BY <2>1, Zenon DEF Early, Decided
    <3>2. CASE Fed
        BY <2>1, <2>4, <2>6, <2>7, <3>2, ZenonT(40) DEF Fed
    <3>3. CASE Skipped
        BY <2>1, <2>6, <2>7, <3>3, Zenon DEF Skipped
    <3>4. CASE Driven
        BY <2>1, <2>4, <2>7, <3>4, Zenon DEF Driven
    <3> QED
        BY <1>1, <3>1, <3>2, <3>3, <3>4, ZenonT(40)
  <2> QED
      BY <2>10, <2>11, <2>12, <2>13, <2>14, ZenonT(40) DEF ExpandInv
<1>3. CASE Close
    BY <1>3, CloseIs, Zenon DEF PlainExpand
<1>4. CASE Deliver
  <2>1. /\ SameShape /\ SameThreads /\ ctx' = ctx /\ run' = run /\ out' = out
        /\ given' - waitIn' = given - waitIn
      BY <1>4, DeliverIs, Zenon
  <2>2. IsContinueProcess' <=> IsContinueProcess
      BY <2>1, ContinueSame, Zenon DEF SameThreads
  <2>3. length' = length /\ void' = void /\ kind' = kind /\ events' = events /\ closed' = closed /\ firing' = firing
      BY <2>1, Zenon DEF SameShape, SameThreads
  <2>4. Driving'
      BY <1>1, <2>1, <2>2, <2>3, ZenonT(40) DEF Driving
  <2>5. Placed' /\ Flagged'
      BY <1>1, <2>1, <2>2, <2>3, ZenonT(40) DEF Placed, Flagged, Early, Decided
  <2>6. At' = At /\ Parent' = Parent /\ EndFlagParent' = EndFlagParent
      BY <2>1, <2>3, Zenon DEF At, Parent, EndFlagParent
  <2>7. Sent' /\ Sends'
      BY <1>1, <2>1, <2>3, <2>6, Zenon DEF Sent, Sends
  <2>8. Early' \/ Decided' => Fed' \/ Skipped' \/ Driven'
      BY <1>1, <2>1, <2>2, <2>3, ZenonT(40) DEF Early, Decided, Fed, Skipped, Driven
  <2> QED
      BY <2>4, <2>5, <2>7, <2>8, Zenon DEF ExpandInv
<1> QED
    BY <1>2, <1>3, <1>4, Zenon

-----------------------------------------------------------------------------
LEMMA EndStarts ==
    ASSUME ContextInit
    PROVE  ContextType /\ EndInv
<1>1. /\ kind \in {"origin", "expand"} /\ length \in Nat /\ void \in SUBSET (0 .. length - 1)
      /\ given = 0 /\ waitIn = 0 /\ events = NoEvents /\ closed = FALSE /\ timers = 0
      /\ events.user = 0 /\ events.close = 0 /\ events.next = 0 /\ firing = FALSE
      /\ ctx.state = "none" /\ ctx.status = "ok" /\ ctx.waiting = 0 /\ ~ ctx.endReceived
      /\ ~ ctx.generated /\ ~ ctx.preError
      /\ ctx.eventInput = -1 /\ ctx.pos = 0 /\ ctx.cur = 0 /\ ~ ctx.curReceived
      /\ \A i \in 0 .. length : out[i].ends = 0 /\ ~ out[i].late
      /\ ContextType
    BY InitIs, Zenon
<1>2. run.pc = "idle" /\ ~ run.flag /\ ~ run.end
    BY InitIs, IdleIs, Zenon
<1>3. ~ Early /\ ~ Decided /\ run.pc # "send" /\ ~ IsContinueProcess /\ ~ Open
    BY <1>1, <1>2 DEF Early, Decided, IsContinueProcess, Open
<1>4. Waits
    BY <1>1, <1>2, <1>3 DEF Waits
<1>5. OriginInv
  <2>1. 0 \in 0 .. length /\ ctx.state # "gone"
      BY <1>1
  <2> QED
      BY <1>1, <1>2, <1>3, <2>1, ZenonT(40) DEF OriginInv
<1>6. ExpandInv
  <2>1. Placed
      BY <1>1 DEF Placed
  <2>2. Driving
      BY <1>1, <1>2, <1>3 DEF Driving, None
  <2>3. Flagged
      BY <1>1, <1>2, <1>3, Zenon DEF Flagged
  <2>4. At = 0
      BY <1>1, <1>3, Zenon DEF At
  <2>5. Sent
      BY <1>1, <2>4 DEF Sent
  <2>6. Sends
      BY <1>2 DEF Sends
  <2> QED
      BY <1>3, <2>1, <2>2, <2>3, <2>5, <2>6, ZenonT(40) DEF ExpandInv
<1> QED
    BY <1>1, <1>4, <1>5, <1>6, Zenon DEF EndInv

LEMMA KindKept ==
    ASSUME ContextType, ContextNext
    PROVE  kind' = kind
BY OutGrows, Zenon DEF SameShape

LEMMA EndStep ==
    ASSUME PlainExpand, ContextType, EndInv, ContextNext
    PROVE  EndInv'
<1>1. kind' = kind
    BY KindKept, Zenon
<1>2. Waits'
  <2>1. Waits
      BY Zenon DEF EndInv
  <2> QED
      BY <2>1, WaitsStages, WaitsRecv, WaitsOthers, ZenonT(40) DEF ContextNext, NodeStep
<1>3. kind = "origin" => OriginInv'
    BY OriginRecv, OriginEarly, OriginPost, OriginLate, OriginSend, OriginOthers, ZenonT(40)
       DEF ContextNext, NodeStep
<1>4. kind = "expand" => ExpandInv'
    BY ExpandRecv, ExpandPre, ExpandProcess, ExpandPost, ExpandDataPost, ExpandUpdate, ExpandSend,
       ExpandOthers, ZenonT(40) DEF ContextNext, NodeStep
<1> QED
    BY <1>1, <1>2, <1>3, <1>4, Zenon DEF EndInv

LEMMA EndStutter ==
    ASSUME ContextType, EndInv, UNCHANGED contextVars
    PROVE  EndInv'
<1>1. /\ SameShape /\ SameInPort /\ SameThreads /\ ctx' = ctx /\ run' = run /\ out' = out
    BY ContextStutter, Zenon
<1>2. kind' = kind /\ length' = length /\ void' = void /\ given' = given /\ waitIn' = waitIn
      /\ events' = events /\ closed' = closed /\ timers' = timers /\ firing' = firing
    BY <1>1, Zenon DEF SameShape, SameInPort, SameThreads
<1>3. (IsContinueProcess' <=> IsContinueProcess) /\ (Early' <=> Early) /\ (Decided' <=> Decided)
      /\ (Open' <=> Open) /\ At' = At /\ Parent' = Parent /\ EndFlagParent' = EndFlagParent
    BY <1>1, <1>2, Zenon DEF IsContinueProcess, Early, Decided, Open, At, Parent, EndFlagParent
<1>4. Waits => Waits'
    BY <1>1, <1>2, <1>3, Zenon DEF Waits
<1>5. OriginInv => OriginInv'
    BY <1>1, <1>2, <1>3, Zenon DEF OriginInv
<1>6. ExpandInv => ExpandInv'
  <2>1. (Placed => Placed') /\ (Flagged => Flagged') /\ (Sent => Sent') /\ (Sends => Sends')
      BY <1>1, <1>2, <1>3, Zenon DEF Placed, Flagged, Sent, Sends
  <2>2. Driving => Driving'
      BY <1>1, <1>2, <1>3, Zenon DEF Driving
  <2>3. (Fed => Fed') /\ (Skipped => Skipped') /\ (Driven => Driven')
      BY <1>1, <1>2, <1>3, Zenon DEF Fed, Skipped, Driven
  <2> QED
      BY <1>3, <2>1, <2>2, <2>3, ZenonT(40) DEF ExpandInv
<1> QED
    BY <1>2, <1>4, <1>5, <1>6, ZenonT(40) DEF EndInv

LEMMA EndMeans ==
    ASSUME ContextType, EndInv
    PROVE  EveryStreamEnds
<1>1. /\ kind \in {"origin", "expand"} /\ length \in Nat
    BY Zenon DEF ContextType
<1>2. CASE kind = "origin"
  <2>1. OriginInv /\ Streams = {0}
      BY <1>2, Zenon DEF EndInv, Streams
  <2>2. ~ out[0].late /\ out[0].ends = IF ctx.state = "gone" THEN 1 ELSE 0
      BY <2>1, Zenon DEF OriginInv
  <2>3. out[0].ends <= 1 /\ ~ out[0].late /\ (ctx.state = "gone" => out[0].ends = 1)
      BY <2>2
  <2> QED
      BY <2>1, <2>3, Zenon DEF EveryStreamEnds
<1>3. CASE kind = "expand"
  <2>1. Sent /\ Placed /\ Waits /\ ctx.cur \in Nat
      BY <1>3, ExpandFacts, Zenon
  <2>2. Streams = 0 .. length
      BY <1>3 DEF Streams
  <2>3. SUFFICES ASSUME NEW i \in 0 .. length
                 PROVE  out[i].ends <= 1 /\ ~ out[i].late /\ (ctx.state = "gone" => out[i].ends = 1)
      BY <2>2, Zenon DEF EveryStreamEnds
  <2>4. ~ out[i].late /\ out[i].ends = IF i < At THEN 1 ELSE 0
      BY <2>1, Zenon DEF Sent
  <2>5. ctx.state = "gone" => i < At
    <3>1. SUFFICES ASSUME ctx.state = "gone" PROVE i < At
        OBVIOUS
    <3>2. run.pc # "send"
        BY <2>1, <3>1 DEF Waits, Open
    <3>3. At = ctx.cur /\ ctx.cur = length + 1
        BY <2>1, <3>1, <3>2 DEF At, Placed
    <3> QED
        BY <1>1, <3>3
  <2> QED
      BY <2>4, <2>5
<1> QED
    BY <1>1, <1>2, <1>3

(* Every output stream of a data context gets one end flag, after its last *)
(* buffer, and a context that is disposed of has ended all of them: for    *)
(* streams of any length with any void buffers and any number of events    *)
(* and timers.                                                             *)
THEOREM StreamsEnd ==
    ASSUME PlainExpand
    PROVE  ContextSpec => []EveryStreamEnds
<1>1. ContextInit => ContextType /\ EndInv
    BY EndStarts
<1>2. (ContextType /\ EndInv) /\ [ContextNext]_contextVars => (ContextType /\ EndInv)'
    BY TypeNext, TypeStutter, EndStep, EndStutter, ZenonT(40)
<1>3. ContextType /\ EndInv => EveryStreamEnds
    BY EndMeans
<1> QED
    BY <1>1, <1>2, <1>3, PTL DEF ContextSpec

-----------------------------------------------------------------------------
(* A collapse unit that is not silent puts out a buffer for every stream.  *)

(* The context may go on while the collapse node rests: it adds nothing to *)
(* a stream that has ended.                                                *)
LEMMA ContextGathers ==
    ASSUME ContextType, AllInv, ContextNext, EndInv', UNCHANGED collapse
    PROVE  AllInv'
<1>1. SameShape /\ taken' = taken /\ gather' = gather /\ collapsed' = collapsed
    BY OutGrows, Zenon DEF collapse
<1>2. kind = "expand" => Whole'
  <2> SUFFICES ASSUME kind = "expand", NEW i \in 0 .. length, taken[i].end
               PROVE  out'[i].ends > 0 /\ taken[i].data = out'[i].data
      BY <1>1, Zenon DEF Whole, SameShape
  <2>1. out[i].ends > 0 /\ taken[i].data = out[i].data
      BY Zenon DEF AllInv, Whole
  <2>2. ~ out'[i].late
      BY <1>1, Zenon DEF EndInv, ExpandInv, Sent, SameShape
  <2> QED
      BY <2>1, <2>2, EndIsFinal, Zenon
<1> QED
    BY <1>1, <1>2, Zenon DEF AllInv, Gathered, SameShape

AllIInv == CollapseIInv /\ EndInv /\ AllInv

(* Every stream with a buffer is collapsed to one before the collapse node *)
(* ends, in whatever order and pieces the streams come: behind a plain     *)
(* expand node one is missing only when the collapse unit put out nothing  *)
(* for it.                                                                 *)
THEOREM CollapseMissesNone ==
    ASSUME PlainExpand, "expand" \notin PostEmits, ~ Silent
    PROVE  CollapseSpec => []CollapsesAll
<1>1. CollapseInit => AllIInv
  <2> SUFFICES ASSUME CollapseInit PROVE AllIInv
      OBVIOUS
  <2>1. CollapseIInv
      BY CollapseStarts, Zenon
  <2>2. EndInv /\ length \in Nat
      BY EndStarts, InitIs, Zenon DEF CollapseInit
  <2>3. /\ gather.state = "none" /\ gather.order = 0 /\ gather.count = 0
        /\ gather.cache = [i \in 0 .. length |-> NoPiece] /\ taken = [i \in 0 .. length |-> NoPiece]
      BY DEF CollapseInit
  <2>4. \A i \in 0 .. length : ~ taken[i].end /\ taken[i].data = 0 /\ gather.cache[i] = taken[i]
      BY <2>3 DEF NoPiece
  <2>5. \A i \in 0 .. length : ~ (i < 0)
      BY <2>2
  <2>6. 0 # 1
      OBVIOUS
  <2>7. Whole /\ Gathered(taken, gather.cache, gather.order, gather.count, collapsed)
      BY <2>3, <2>4, <2>5, <2>6, Zenon DEF Whole, Gathered
  <2>8. gather.state # "gone"
      BY <2>3
  <2> QED
      BY <2>1, <2>2, <2>7, <2>8, Zenon DEF AllIInv, AllInv
<1>2. AllIInv /\ [CollapseNext]_collapseVars => AllIInv'
  <2> SUFFICES ASSUME AllIInv, [CollapseNext]_collapseVars PROVE AllIInv'
      OBVIOUS
  <2>1. ContextType /\ NoLastData /\ CollapseInv /\ CollapseIInv /\ EndInv /\ AllInv
      BY Zenon DEF AllIInv, CollapseIInv
  <2>2. CollapseIInv'
      BY <2>1, CollapseStep, Zenon
  <2>3. CASE ContextNext /\ UNCHANGED collapse
      BY <2>1, <2>2, <2>3, EndStep, ContextGathers, Zenon DEF AllIInv
  <2>4. CASE CollapseData
    <3>1. UNCHANGED contextVars
        BY <2>4, Zenon DEF CollapseData
    <3> QED
        BY <2>1, <2>2, <2>4, <3>1, EndStutter, DataGathers, Zenon DEF AllIInv
  <2>5. CASE CollapseEvent
    <3>1. UNCHANGED contextVars
        BY <2>5, Zenon DEF CollapseEvent
    <3> QED
        BY <2>1, <2>2, <2>5, <3>1, EndStutter, EventGathers, Zenon DEF AllIInv
  <2>6. CASE UNCHANGED collapseVars
    <3>1. UNCHANGED contextVars /\ UNCHANGED collapse
        BY <2>6, Zenon DEF collapseVars
    <3>2. SameShape /\ out' = out
        BY <2>1, <3>1, ContextSame, Zenon
    <3>3. AllInv'
        BY <2>1, <3>1, <3>2, Zenon DEF AllInv, Whole, Gathered, SameShape, collapse
    <3> QED
        BY <2>1, <2>2, <3>1, <3>3, EndStutter, Zenon DEF AllIInv
  <2> QED
      BY <2>3, <2>4, <2>5, <2>6, Zenon DEF CollapseNext
<1>3. AllIInv => CollapsesAll
  <2> SUFFICES ASSUME AllIInv, gather.state = "gone", NEW i \in 0 .. length, out[i].data > 0
               PROVE  \E k \in 1 .. Len(collapsed) : collapsed[k] = i
      BY Zenon DEF CollapsesAll
  <2>1. /\ Whole /\ Gathered(taken, gather.cache, gather.order, gather.count, collapsed)
        /\ gather.order = length + 1
      BY Zenon DEF AllIInv, AllInv
  <2>2. i < gather.order
    <3>1. length \in Nat
        BY Zenon DEF AllIInv, CollapseIInv, ContextType
    <3> QED
        BY <2>1, <3>1
  <2>3. taken[i].end /\ taken[i].data > 0
      BY <2>1, <2>2, Zenon DEF Gathered, Whole
  <2> QED
      BY <2>1, <2>2, <2>3, Zenon DEF Gathered, Among
<1> QED
    BY <1>1, <1>2, <1>3, PTL DEF CollapseSpec
=============================================================================
