---------------------------- MODULE StreamProofs ----------------------------
(***************************************************************************)
(* Proofs about DataContext and StreamCollapse: what every step of a data  *)
(* context does to its fields, that they keep their types, that an origin  *)
(* context ends its stream in the run that finds nothing left to wait for  *)
(* (OriginInv), and that a collapse node puts its buffers out in order.    *)
(* StreamEndProofs goes on from here.                                      *)
(***************************************************************************)
EXTENDS StreamCollapse, FiniteSetTheorems, TLAPS

CtxType ==
    [state : {"none", "live", "over", "gone"}, status : {"ok", "continue"}, waiting : Int,
     endReceived : BOOLEAN, endCached : BOOLEAN, generated : BOOLEAN, preError : BOOLEAN,
     lastValid : Int, eventInput : Int, pos : Nat, cur : Nat, curReceived : BOOLEAN,
     nextSent : BOOLEAN]

RunType ==
    [pc : {"idle", "pre", "process", "endflag", "post", "update", "send"},
     cur : SUBSET (0 .. length), valid : SUBSET (0 .. length), end : BOOLEAN, skip : BOOLEAN,
     data : Nat, flag : BOOLEAN]

OutType == [data : Nat, ends : Nat, late : BOOLEAN]

(* The types, with what keeps the indices of a stream in their range. *)
ContextType ==
    /\ kind \in {"origin", "expand"} /\ length \in Nat /\ void \in SUBSET (0 .. length - 1)
    /\ given \in Nat /\ waitIn \in Nat /\ waitIn <= given /\ given <= length + 1
    /\ events \in [user : Nat, close : Nat, next : Nat]
    /\ closed \in BOOLEAN /\ timers \in Nat /\ firing \in BOOLEAN
    /\ ctx \in CtxType /\ run \in RunType /\ ctx.pos <= given - waitIn
    /\ out \in [0 .. length -> OutType]

-----------------------------------------------------------------------------
(* What a run receives. *)

(* The current input, what is valid of it, and the last valid buffer. *)
TakenOf(failed, S) == IF failed THEN S \cap {length} ELSE S
ValidOf(failed, S) == IF failed THEN {} ELSE S \ (void \cup {length})
LastOf(last, V) == IF V = {} THEN last ELSE Max(V)

TakesInput(S) ==
    /\ run'.cur = TakenOf(ctx.preError, S) /\ run'.valid = ValidOf(ctx.preError, S)
    /\ run'.end = (length \in S) /\ run'.skip = (ValidOf(ctx.preError, S) = {})
    /\ ctx'.endReceived = (ctx.endReceived \/ length \in S)
    /\ ctx'.lastValid = LastOf(ctx.lastValid, ValidOf(ctx.preError, S))

TakesNone(skip) ==
    /\ run'.cur = {} /\ run'.valid = {} /\ run'.end = FALSE /\ run'.skip = skip
    /\ ctx'.endReceived = ctx.endReceived /\ ctx'.lastValid = ctx.lastValid

KeepsPlace ==
    /\ ctx'.pos = ctx.pos /\ ctx'.curReceived = ctx.curReceived
    /\ ctx'.generated = ctx.generated /\ ctx'.nextSent = ctx.nextSent

TakesNext(got) ==
    /\ ctx.pos = ctx.cur /\ ctx.pos < got /\ TakesInput({ctx.pos})
    /\ ctx'.pos = ctx.pos + 1 /\ ctx'.curReceived = TRUE
    /\ ctx'.generated = FALSE /\ ctx'.nextSent = FALSE

RunStarts ==
    /\ ctx' \in CtxType /\ run' \in RunType
    /\ run'.pc = "pre" /\ run'.data = 0 /\ run'.flag = FALSE
    /\ ctx'.state = "live" /\ ctx'.status = ctx.status /\ ctx'.endCached = ctx.endCached
    /\ ctx'.preError = ctx.preError /\ ctx'.eventInput = ctx.eventInput /\ ctx'.cur = ctx.cur

LEMMA MaxIs ==
    ASSUME NEW n \in Nat, NEW S \in SUBSET (0 .. n), S # {}
    PROVE  Max(S) \in S /\ \A k \in S : k <= Max(S)
<1> DEFINE T == {n - k : k \in S}
<1>1. \A k \in S : k \in Nat /\ n - k \in Nat
    OBVIOUS
<1>2. T \in SUBSET Nat /\ T # {}
    BY <1>1, Zenon
<1>3. PICK m \in T : \A k \in T : ~ (<<k, m>> \in OpToRel(<, Nat))
    BY <1>2, NatLessThanWellFounded, WFMin, Zenon
<1>4. m \in Nat /\ \A k \in T : k \in Nat
    BY <1>2, <1>3, Zenon
<1>5. \A k \in T : ~ (k < m)
    BY <1>3, <1>4, Zenon DEF OpToRel
<1>6. PICK x \in S : m = n - x
    BY <1>3, Zenon
<1>7. ASSUME NEW k \in S PROVE x >= k
  <2>1. n - k \in T
      BY Zenon
  <2>2. n - k \in Nat /\ k \in Nat /\ x \in Nat /\ ~ (n - k < m)
      BY <1>1, <1>5, <2>1, Zenon
  <2> QED
      BY <1>4, <1>6, <2>2
<1>8. Max(S) \in S /\ \A k \in S : Max(S) >= k
    BY <1>7, Zenon DEF Max
<1> QED
    BY <1>8

LEMMA MaxOne ==
    ASSUME NEW i \in Nat
    PROVE  Max({i}) = i
<1>1. {i} \in SUBSET (0 .. i) /\ {i} # {}
    OBVIOUS
<1> QED
    BY <1>1, MaxIs, Zenon

LEMMA IdleIs ==
    /\ \A n \in Nat : Idle \in [pc : {"idle", "pre", "process", "endflag", "post", "update", "send"},
                                cur : SUBSET (0 .. n), valid : SUBSET (0 .. n), end : BOOLEAN,
                                skip : BOOLEAN, data : Nat, flag : BOOLEAN]
    /\ Idle.pc = "idle" /\ Idle.cur = {} /\ Idle.valid = {} /\ Idle.end = FALSE
    /\ Idle.skip = FALSE /\ Idle.data = 0 /\ Idle.flag = FALSE
<1>1. 0 \in Nat /\ \A n \in Nat : {} \in SUBSET (0 .. n)
    OBVIOUS
<1> QED
    BY <1>1, Zenon DEF Idle

(* The fields after SetCurrentInputData. *)
InputSet(w, c, r, S) ==
    /\ w.c \in CtxType /\ w.r \in RunType
    /\ w.r.cur = TakenOf(c.preError, S) /\ w.r.valid = ValidOf(c.preError, S)
    /\ w.r.end = (length \in S) /\ w.r.skip = (ValidOf(c.preError, S) = {})
    /\ w.r.pc = r.pc /\ w.r.data = r.data /\ w.r.flag = r.flag
    /\ w.c.endReceived = (c.endReceived \/ length \in S)
    /\ w.c.lastValid = LastOf(c.lastValid, ValidOf(c.preError, S))
    /\ w.c.state = c.state /\ w.c.status = c.status /\ w.c.waiting = c.waiting
    /\ w.c.endCached = c.endCached /\ w.c.generated = c.generated
    /\ w.c.preError = c.preError /\ w.c.eventInput = c.eventInput
    /\ w.c.pos = c.pos /\ w.c.cur = c.cur /\ w.c.curReceived = c.curReceived
    /\ w.c.nextSent = c.nextSent

LEMMA SetInput ==
    ASSUME ContextType, NEW c \in CtxType, NEW r \in RunType, NEW S \in SUBSET (0 .. length)
    PROVE  InputSet(SetCurrentInputData(c, r, S), c, r, S)
<1> DEFINE V == ValidOf(c.preError, S)
           w == SetCurrentInputData(c, r, S)
           e == c.endReceived \/ length \in S
           v == LastOf(c.lastValid, V)
           u == TakenOf(c.preError, S)
           cc == [c EXCEPT !.endReceived = e, !.lastValid = v]
           rr == [r EXCEPT !.cur = u, !.valid = V, !.end = length \in S, !.skip = (V = {})]
<1>1. length \in Nat /\ V \in SUBSET (0 .. length) /\ u \in SUBSET (0 .. length)
    BY DEF ContextType, TakenOf, ValidOf
<1>2. v \in Int
  <2>1. CASE V = {}
      BY <2>1 DEF CtxType, LastOf
  <2>2. CASE V # {}
    <3>1. Max(V) \in V
        BY <1>1, <2>2, MaxIs, Zenon
    <3> QED
        BY <1>1, <2>2, <3>1 DEF LastOf
  <2> QED
      BY <2>1, <2>2
<1>3. w = [c |-> cc, r |-> rr]
    BY Zenon DEF SetCurrentInputData, TakenOf, ValidOf, LastOf
<1>4. w.c = cc /\ w.r = rr
  <2> HIDE DEF cc, rr, w
  <2> QED
      BY <1>3, Zenon
<1>5. e \in BOOLEAN /\ (length \in S) \in BOOLEAN /\ (V = {}) \in BOOLEAN
    OBVIOUS
<1> HIDE DEF V, e, v, u
<1>6. cc \in CtxType /\ cc.endReceived = e /\ cc.lastValid = v
    BY <1>2, <1>5, Zenon DEF CtxType
<1>7. /\ cc.state = c.state /\ cc.status = c.status /\ cc.waiting = c.waiting
      /\ cc.endCached = c.endCached /\ cc.generated = c.generated
      /\ cc.preError = c.preError /\ cc.eventInput = c.eventInput
      /\ cc.pos = c.pos /\ cc.cur = c.cur /\ cc.curReceived = c.curReceived
      /\ cc.nextSent = c.nextSent
    BY Zenon DEF CtxType
<1>8. rr \in RunType /\ rr.cur = u /\ rr.valid = V /\ rr.end = (length \in S) /\ rr.skip = (V = {})
    BY <1>1, <1>5, Zenon DEF RunType
<1>9. rr.pc = r.pc /\ rr.data = r.data /\ rr.flag = r.flag
    BY Zenon DEF RunType
<1> HIDE DEF cc, rr, w
<1> QED
    BY <1>4, <1>6, <1>7, <1>8, <1>9, ZenonT(40) DEF InputSet, V, e, v, u, w

(* The context that ExpandNextBuffer goes on with. *)
NextOf(c) ==
    [c EXCEPT !.curReceived = TRUE, !.generated = FALSE, !.pos = c.pos + 1, !.nextSent = FALSE]

LEMMA NextOfIs ==
    ASSUME NEW c \in CtxType
    PROVE  /\ NextOf(c) \in CtxType
           /\ NextOf(c).curReceived = TRUE /\ NextOf(c).generated = FALSE
           /\ NextOf(c).pos = c.pos + 1 /\ NextOf(c).nextSent = FALSE
           /\ NextOf(c).state = c.state /\ NextOf(c).status = c.status
           /\ NextOf(c).waiting = c.waiting /\ NextOf(c).endReceived = c.endReceived
           /\ NextOf(c).endCached = c.endCached /\ NextOf(c).preError = c.preError
           /\ NextOf(c).lastValid = c.lastValid /\ NextOf(c).eventInput = c.eventInput
           /\ NextOf(c).cur = c.cur
<1>1. c.pos + 1 \in Nat
    BY DEF CtxType
<1>2. NextOf(c) \in CtxType
    BY <1>1, Zenon DEF NextOf, CtxType
<1> QED
    BY <1>2, ZenonT(40) DEF NextOf, CtxType

LEMMA ExpandIs ==
    ASSUME NEW c \in CtxType, NEW r \in RunType, NEW got \in Nat, c.pos <= got
    PROVE  IF c.pos = c.cur /\ c.pos < got
           THEN ExpandNextBuffer(c, r, got) = SetCurrentInputData(NextOf(c), r, {c.pos})
           ELSE ExpandNextBuffer(c, r, got) = [c |-> c, r |-> [r EXCEPT !.skip = TRUE]]
<1>1. c.pos \in Nat
    BY DEF CtxType
<1>2. (c.pos < got) <=> (c.pos # got)
    BY <1>1
<1> QED
    BY <1>2, Zenon DEF ExpandNextBuffer, NextOf

(* A run begins with the context c and the run r, and takes no input. *)
Begins(c, r) ==
    /\ c \in CtxType /\ r \in RunType
    /\ c.state = "live" /\ c.status = ctx.status /\ c.endCached = ctx.endCached
    /\ c.preError = ctx.preError /\ c.eventInput = ctx.eventInput /\ c.cur = ctx.cur
    /\ c.endReceived = ctx.endReceived /\ c.lastValid = ctx.lastValid
    /\ c.pos = ctx.pos /\ c.curReceived = ctx.curReceived
    /\ c.generated = ctx.generated /\ c.nextSent = ctx.nextSent
    /\ r.data = 0 /\ r.flag = FALSE /\ r.cur = {} /\ r.valid = {} /\ r.end = FALSE

LEMMA BeginsNone ==
    ASSUME NEW c, NEW r, Begins(c, r), ctx' = c, run' = [r EXCEPT !.pc = "pre"]
    PROVE  RunStarts /\ TakesNone(r.skip) /\ KeepsPlace
<1> DEFINE rr == [r EXCEPT !.pc = "pre"]
<1>1. /\ rr \in RunType /\ rr.pc = "pre" /\ rr.data = r.data /\ rr.flag = r.flag /\ rr.cur = r.cur
      /\ rr.valid = r.valid /\ rr.end = r.end /\ rr.skip = r.skip
    BY Zenon DEF Begins, RunType
<1> HIDE DEF rr
<1>2. run' = rr
    BY Zenon DEF rr
<1> QED
    BY <1>1, <1>2, ZenonT(40) DEF Begins, RunStarts, TakesNone, KeepsPlace

LEMMA BeginsSkipped ==
    ASSUME NEW c, NEW r, Begins(c, r), ctx' = c, run' = [[r EXCEPT !.skip = TRUE] EXCEPT !.pc = "pre"]
    PROVE  RunStarts /\ TakesNone(TRUE) /\ KeepsPlace
<1> DEFINE rr == [r EXCEPT !.skip = TRUE]
<1>1. /\ rr \in RunType /\ rr.data = r.data /\ rr.flag = r.flag /\ rr.cur = r.cur
      /\ rr.valid = r.valid /\ rr.end = r.end /\ rr.skip = TRUE
    BY Zenon DEF Begins, RunType
<1> HIDE DEF rr
<1>2. Begins(c, rr)
    BY <1>1, Zenon DEF Begins
<1>3. run' = [rr EXCEPT !.pc = "pre"]
    BY Zenon DEF rr
<1> QED
    BY <1>1, <1>2, <1>3, BeginsNone, Zenon

LEMMA BeginsInput ==
    ASSUME ContextType, NEW c, NEW r, Begins(c, r), NEW S \in SUBSET (0 .. length),
           ctx' = SetCurrentInputData(c, r, S).c,
           run' = [SetCurrentInputData(c, r, S).r EXCEPT !.pc = "pre"]
    PROVE  RunStarts /\ TakesInput(S) /\ KeepsPlace /\ ctx'.waiting = c.waiting
<1> DEFINE w == SetCurrentInputData(c, r, S)
           rr == [w.r EXCEPT !.pc = "pre"]
<1>1. c \in CtxType /\ r \in RunType
    BY Zenon DEF Begins
<1>2. InputSet(w, c, r, S)
    BY <1>1, SetInput, Zenon
<1> HIDE DEF w
<1>3. /\ w.r \in RunType /\ w.c.waiting = c.waiting
    BY <1>2, Zenon DEF InputSet
<1>4. /\ rr \in RunType /\ rr.pc = "pre" /\ rr.data = w.r.data /\ rr.flag = w.r.flag
      /\ rr.cur = w.r.cur /\ rr.valid = w.r.valid /\ rr.end = w.r.end /\ rr.skip = w.r.skip
    BY <1>3, Zenon DEF RunType
<1>5. run' = rr /\ ctx' = w.c
    BY Zenon DEF w
<1> HIDE DEF rr
<1>6. c.preError = ctx.preError /\ c.endReceived = ctx.endReceived /\ c.lastValid = ctx.lastValid
    BY Zenon DEF Begins
<1>7. TakesInput(S)
    BY <1>2, <1>4, <1>5, <1>6, ZenonT(40) DEF TakesInput, InputSet
<1>8. RunStarts /\ KeepsPlace
    BY <1>2, <1>4, <1>5, ZenonT(40) DEF Begins, RunStarts, KeepsPlace, InputSet
<1> QED
    BY <1>3, <1>5, <1>7, <1>8, Zenon

LEMMA BeginsNext ==
    ASSUME ContextType, NEW c, NEW r, Begins(c, r), NEW got \in Nat, got <= length + 1,
           c.pos = c.cur, c.pos < got,
           ctx' = SetCurrentInputData(NextOf(c), r, {c.pos}).c,
           run' = [SetCurrentInputData(NextOf(c), r, {c.pos}).r EXCEPT !.pc = "pre"]
    PROVE  RunStarts /\ TakesNext(got) /\ ctx'.waiting = c.waiting
<1> DEFINE n == NextOf(c)
           S == {c.pos}
           w == SetCurrentInputData(n, r, S)
           rr == [w.r EXCEPT !.pc = "pre"]
<1>1. c \in CtxType /\ r \in RunType /\ n \in CtxType
    BY NextOfIs, Zenon DEF Begins
<1>2. S \in SUBSET (0 .. length)
  <2>1. c.pos \in Nat /\ length \in Nat
      BY <1>1 DEF ContextType, CtxType
  <2> QED
      BY <2>1
<1>3. /\ n.curReceived = TRUE /\ n.generated = FALSE /\ n.pos = c.pos + 1 /\ n.nextSent = FALSE
      /\ n.state = c.state /\ n.status = c.status /\ n.waiting = c.waiting
      /\ n.endReceived = c.endReceived /\ n.endCached = c.endCached /\ n.preError = c.preError
      /\ n.lastValid = c.lastValid /\ n.eventInput = c.eventInput /\ n.cur = c.cur
    BY <1>1, NextOfIs, Zenon
<1> HIDE DEF n, S
<1>4. InputSet(w, n, r, S)
    BY <1>1, <1>2, SetInput, Zenon
<1> HIDE DEF w
<1>5. /\ w.r \in RunType /\ w.c.waiting = n.waiting
    BY <1>4, Zenon DEF InputSet
<1>6. /\ rr \in RunType /\ rr.pc = "pre" /\ rr.data = w.r.data /\ rr.flag = w.r.flag
      /\ rr.cur = w.r.cur /\ rr.valid = w.r.valid /\ rr.end = w.r.end /\ rr.skip = w.r.skip
    BY <1>5, Zenon DEF RunType
<1>7. run' = rr /\ ctx' = w.c
    BY Zenon DEF w, n, S
<1> HIDE DEF rr
<1>8. /\ n.preError = ctx.preError /\ n.endReceived = ctx.endReceived /\ n.lastValid = ctx.lastValid
      /\ S = {ctx.pos} /\ c.pos = ctx.pos /\ c.cur = ctx.cur
    BY <1>3, Zenon DEF Begins, S
<1>9. TakesInput(S)
    BY <1>4, <1>6, <1>7, <1>8, ZenonT(40) DEF TakesInput, InputSet
<1>10. RunStarts
  <2>1. /\ n.state = "live" /\ n.status = ctx.status /\ n.endCached = ctx.endCached
        /\ n.preError = ctx.preError /\ n.eventInput = ctx.eventInput /\ n.cur = ctx.cur
        /\ r.data = 0 /\ r.flag = FALSE
      BY <1>3, Zenon DEF Begins
  <2>2. /\ w.c \in CtxType /\ w.c.state = n.state /\ w.c.status = n.status
        /\ w.c.endCached = n.endCached /\ w.c.preError = n.preError
        /\ w.c.eventInput = n.eventInput /\ w.c.cur = n.cur
        /\ w.r.data = r.data /\ w.r.flag = r.flag
      BY <1>4, Zenon DEF InputSet
  <2> QED
      BY <1>6, <1>7, <2>1, <2>2, ZenonT(40) DEF RunStarts
<1>11. TakesNext(got)
  <2>1. /\ ctx'.pos = n.pos /\ ctx'.curReceived = n.curReceived
        /\ ctx'.generated = n.generated /\ ctx'.nextSent = n.nextSent
      BY <1>4, <1>7, Zenon DEF InputSet
  <2>2. ctx.pos = ctx.cur /\ ctx.pos < got /\ TakesInput({ctx.pos})
      BY <1>8, <1>9, Zenon
  <2> QED
      BY <1>3, <1>8, <2>1, <2>2, Zenon DEF TakesNext
<1> QED
    BY <1>3, <1>5, <1>7, <1>10, <1>11, Zenon

(* A run of type DATA. *)
LEMMA RecvDataIs ==
    ASSUME ContextType, RecvData
    PROVE  /\ RunStarts /\ ctx'.waiting = ctx.waiting
           /\ waitIn' = 0 /\ waitIn > 0 /\ run.pc = "idle"
           /\ UNCHANGED <<kind, length, void, given, events, closed, timers, firing, asked, out, fatal>>
           /\ \/ kind = "origin" /\ TakesInput((given - waitIn) .. (given - 1)) /\ KeepsPlace
              \/ kind = "expand" /\ ~ ctx.nextSent /\ TakesNext(given)
              \/ kind = "expand" /\ TakesNone(TRUE) /\ KeepsPlace
<1> DEFINE c == [ctx EXCEPT !.state = "live"]
           S == (given - waitIn) .. (given - 1)
           w == WriteInputData(c, Idle, S)
<1>1. /\ ctx \in CtxType /\ kind \in {"origin", "expand"} /\ length \in Nat /\ given \in Nat
      /\ waitIn \in Nat /\ waitIn <= given /\ given <= length + 1 /\ ctx.pos <= given - waitIn
    BY Zenon DEF ContextType
<1>2. Begins(c, Idle) /\ c.waiting = ctx.waiting
  <2>1. /\ c \in CtxType /\ c.state = "live" /\ c.status = ctx.status /\ c.endCached = ctx.endCached
        /\ c.preError = ctx.preError /\ c.eventInput = ctx.eventInput /\ c.cur = ctx.cur
        /\ c.endReceived = ctx.endReceived /\ c.lastValid = ctx.lastValid
        /\ c.pos = ctx.pos /\ c.curReceived = ctx.curReceived
        /\ c.generated = ctx.generated /\ c.nextSent = ctx.nextSent /\ c.waiting = ctx.waiting
      BY <1>1, Zenon DEF CtxType
  <2>2. Idle \in RunType
      BY <1>1, IdleIs, Zenon DEF RunType
  <2> HIDE DEF c
  <2> QED
      BY <2>1, <2>2, IdleIs, Zenon DEF Begins
<1>3. /\ ctx' = w.c /\ run' = [w.r EXCEPT !.pc = "pre"]
      /\ waitIn' = 0 /\ waitIn > 0 /\ run.pc = "idle"
      /\ UNCHANGED <<kind, length, void, given, events, closed, timers, firing, asked, out, fatal>>
    BY Zenon DEF RecvData, shape, unit
<1>4. S \in SUBSET (0 .. length)
    BY <1>1
<1> HIDE DEF c, S
<1>5. CASE kind = "origin"
  <2>1. w = SetCurrentInputData(c, Idle, S)
      BY <1>5, Zenon DEF WriteInputData
  <2>2. RunStarts /\ TakesInput(S) /\ KeepsPlace /\ ctx'.waiting = c.waiting
    <3>1. ctx' = SetCurrentInputData(c, Idle, S).c /\ run' = [SetCurrentInputData(c, Idle, S).r EXCEPT !.pc = "pre"]
        BY <1>3, <2>1, Zenon
    <3> QED
        BY <1>2, <1>4, <3>1, BeginsInput, Zenon
  <2> QED
      BY <1>2, <1>3, <1>5, <2>2, Zenon DEF S
<1>6. CASE kind = "expand"
  <2>0. kind # "origin"
      BY <1>6
  <2>1. c \in CtxType /\ Idle \in RunType /\ c.pos = ctx.pos /\ c.cur = ctx.cur /\ c.nextSent = ctx.nextSent
      BY <1>2, Zenon DEF Begins
  <2>2. c.pos \in Nat /\ c.pos <= given
      BY <1>1, <2>1 DEF CtxType
  <2>3. CASE ~ c.nextSent /\ c.pos = c.cur /\ c.pos < given
    <3>1. w = SetCurrentInputData(NextOf(c), Idle, {c.pos})
        BY <1>1, <2>0, <2>1, <2>2, <2>3, ExpandIs, Zenon DEF WriteInputData
    <3>2. /\ ctx' = SetCurrentInputData(NextOf(c), Idle, {c.pos}).c
          /\ run' = [SetCurrentInputData(NextOf(c), Idle, {c.pos}).r EXCEPT !.pc = "pre"]
        BY <1>3, <3>1, Zenon
    <3>3. RunStarts /\ TakesNext(given) /\ ctx'.waiting = c.waiting
        BY <1>1, <1>2, <2>3, <3>2, BeginsNext, Zenon
    <3> QED
        BY <1>2, <1>3, <1>6, <2>1, <2>3, <3>3, Zenon
  <2>4. CASE ~ (~ c.nextSent /\ c.pos = c.cur /\ c.pos < given)
    <3>1. w = [c |-> c, r |-> [Idle EXCEPT !.skip = TRUE]]
        BY <1>1, <2>0, <2>1, <2>2, <2>4, ExpandIs, Zenon DEF WriteInputData
    <3>2. w.c = c /\ w.r = [Idle EXCEPT !.skip = TRUE]
      <4> HIDE DEF w
      <4> QED
          BY <3>1, Zenon
    <3>3. ctx' = c /\ run' = [[Idle EXCEPT !.skip = TRUE] EXCEPT !.pc = "pre"]
        BY <1>3, <3>2, Zenon
    <3>4. RunStarts /\ TakesNone(TRUE) /\ KeepsPlace
        BY <1>2, <3>3, BeginsSkipped, Zenon
    <3> QED
        BY <1>2, <1>3, <1>6, <3>3, <3>4, Zenon
  <2> QED
      BY <2>3, <2>4, Zenon
<1> QED
    BY <1>1, <1>5, <1>6, Zenon

(* A run of type EVENT of a context that is live. *)
LEMMA RecvEventIs ==
    ASSUME ContextType, RecvEvent, ctx.state = "live"
    PROVE  /\ RunStarts /\ ctx'.waiting = ctx.waiting - events.user
           /\ run.pc = "idle" /\ events' = NoEvents /\ events # NoEvents
           /\ UNCHANGED <<kind, length, void, given, waitIn, closed, timers, firing, asked, out, fatal>>
           /\ \/ events.next = 0 /\ TakesNone(events.close > 0) /\ KeepsPlace
              \/ events.next # 0 /\ TakesNext(given - waitIn)
              \/ /\ events.next # 0 /\ TakesNone(TRUE) /\ KeepsPlace
                 /\ ~ (ctx.pos = ctx.cur /\ ctx.pos < given - waitIn)
<1> DEFINE c == [ctx EXCEPT !.waiting = ctx.waiting - events.user]
           r == [Idle EXCEPT !.skip = events.close > 0]
           got == given - waitIn
           w == IF events.next = 0 THEN [c |-> c, r |-> r] ELSE ExpandNextBuffer(c, r, got)
<1>1. /\ ctx \in CtxType /\ length \in Nat /\ given \in Nat
      /\ waitIn \in Nat /\ waitIn <= given /\ given <= length + 1 /\ ctx.pos <= given - waitIn
      /\ events.user \in Nat /\ events.close \in Nat
    BY DEF ContextType
<1>2. got \in Nat /\ got <= length + 1 /\ ctx.pos <= got
    BY <1>1
<1>3. ctx.waiting - events.user \in Int /\ (events.close > 0) \in BOOLEAN
    BY <1>1 DEF CtxType
<1>4. Begins(c, r) /\ c.waiting = ctx.waiting - events.user /\ r.skip = (events.close > 0)
  <2>1. /\ c \in CtxType /\ c.state = ctx.state /\ c.status = ctx.status /\ c.endCached = ctx.endCached
        /\ c.preError = ctx.preError /\ c.eventInput = ctx.eventInput /\ c.cur = ctx.cur
        /\ c.endReceived = ctx.endReceived /\ c.lastValid = ctx.lastValid
        /\ c.pos = ctx.pos /\ c.curReceived = ctx.curReceived
        /\ c.generated = ctx.generated /\ c.nextSent = ctx.nextSent
        /\ c.waiting = ctx.waiting - events.user
    <3> DEFINE n == ctx.waiting - events.user
    <3> HIDE DEF n
    <3> QED
        BY <1>1, <1>3, Zenon DEF CtxType, n
  <2>2. Idle \in RunType
      BY <1>1, IdleIs, Zenon DEF RunType
  <2>3. /\ r \in RunType /\ r.data = Idle.data /\ r.flag = Idle.flag /\ r.cur = Idle.cur
        /\ r.valid = Idle.valid /\ r.end = Idle.end /\ r.skip = (events.close > 0)
      BY <1>3, <2>2, Zenon DEF RunType
  <2> HIDE DEF c, r
  <2> QED
      BY <2>1, <2>3, IdleIs, Zenon DEF Begins
<1>5. /\ ctx' = w.c /\ run' = [w.r EXCEPT !.pc = "pre"]
      /\ run.pc = "idle" /\ events' = NoEvents /\ events # NoEvents
      /\ UNCHANGED <<kind, length, void, given, waitIn, closed, timers, firing, asked, out, fatal>>
    BY Zenon DEF RecvEvent, shape, unit, port
<1> HIDE DEF c, r, got
<1>6. CASE events.next = 0
  <2>1. w = [c |-> c, r |-> r]
      BY <1>6, Zenon
  <2>2. w.c = c /\ w.r = r
    <3> HIDE DEF w
    <3> QED
        BY <2>1, Zenon
  <2>3. RunStarts /\ TakesNone(r.skip) /\ KeepsPlace
      BY <1>4, <1>5, <2>2, BeginsNone, Zenon
  <2> QED
      BY <1>4, <1>5, <1>6, <2>2, <2>3, Zenon
<1>7. CASE events.next # 0
  <2>1. c \in CtxType /\ r \in RunType /\ c.pos = ctx.pos /\ c.cur = ctx.cur
      BY <1>4, Zenon DEF Begins
  <2>2. w = ExpandNextBuffer(c, r, got)
      BY <1>7, Zenon
  <2>3. CASE c.pos = c.cur /\ c.pos < got
    <3>1. w = SetCurrentInputData(NextOf(c), r, {c.pos})
        BY <1>2, <2>1, <2>2, <2>3, ExpandIs, Zenon
    <3>2. /\ ctx' = SetCurrentInputData(NextOf(c), r, {c.pos}).c
          /\ run' = [SetCurrentInputData(NextOf(c), r, {c.pos}).r EXCEPT !.pc = "pre"]
        BY <1>5, <3>1, Zenon
    <3>3. RunStarts /\ TakesNext(got) /\ ctx'.waiting = c.waiting
        BY <1>2, <1>4, <2>3, <3>2, BeginsNext, Zenon
    <3> QED
        BY <1>4, <1>5, <1>7, <3>3, Zenon DEF got
  <2>4. CASE ~ (c.pos = c.cur /\ c.pos < got)
    <3>1. w = [c |-> c, r |-> [r EXCEPT !.skip = TRUE]]
        BY <1>2, <2>1, <2>2, <2>4, ExpandIs, Zenon
    <3>2. w.c = c /\ w.r = [r EXCEPT !.skip = TRUE]
      <4> HIDE DEF w
      <4> QED
          BY <3>1, Zenon
    <3>3. ctx' = c /\ run' = [[r EXCEPT !.skip = TRUE] EXCEPT !.pc = "pre"]
        BY <1>5, <3>2, Zenon
    <3>4. RunStarts /\ TakesNone(TRUE) /\ KeepsPlace
        BY <1>4, <3>3, BeginsSkipped, Zenon
    <3> QED
        BY <1>4, <1>5, <1>7, <2>1, <2>4, <3>3, <3>4, Zenon DEF got
  <2> QED
      BY <2>3, <2>4, Zenon
<1> QED
    BY <1>6, <1>7, Zenon

-----------------------------------------------------------------------------
(* What the stages of a run change. *)

SameInput == run'.cur = run.cur /\ run'.valid = run.valid /\ run'.end = run.end
SamePlace ==
    /\ ctx'.pos = ctx.pos /\ ctx'.cur = ctx.cur
    /\ ctx'.curReceived = ctx.curReceived /\ ctx'.nextSent = ctx.nextSent
SameEnd ==
    /\ ctx'.endReceived = ctx.endReceived /\ ctx'.endCached = ctx.endCached
    /\ ctx'.generated = ctx.generated
SameDriving ==
    /\ ctx'.waiting = ctx.waiting /\ ctx'.status = ctx.status
    /\ ctx'.eventInput = ctx.eventInput /\ ctx'.lastValid = ctx.lastValid
SameShape == kind' = kind /\ length' = length /\ void' = void
SameInPort == given' = given /\ waitIn' = waitIn
SameThreads == events' = events /\ closed' = closed /\ timers' = timers /\ firing' = firing
Typed == ctx' \in CtxType /\ run' \in RunType

LEMMA CtxSame ==
    ASSUME ctx' = ctx
    PROVE  SamePlace /\ SameEnd /\ SameDriving /\ ctx'.state = ctx.state /\ ctx'.preError = ctx.preError
BY Zenon DEF SamePlace, SameEnd, SameDriving

LEMMA RunSame ==
    ASSUME run' = run
    PROVE  SameInput /\ run'.pc = run.pc /\ run'.skip = run.skip /\ run'.data = run.data
           /\ run'.flag = run.flag
BY Zenon DEF SameInput

LEMMA PreIs ==
    ASSUME ContextType, PreProcess
    PROVE  /\ Typed /\ SameShape /\ SameInPort /\ SameThreads /\ out' = out
           /\ run.pc = "pre" /\ run'.pc = "process"
           /\ SameInput /\ run'.flag = run.flag
           /\ SamePlace /\ SameEnd /\ SameDriving /\ ctx'.state = ctx.state
           /\ \/ ctx'.preError = ctx.preError /\ run'.skip = run.skip /\ run'.data = run.data
              \/ /\ 0 \in run.cur /\ length > 0 /\ kind \in PreFails /\ ctx'.preError = TRUE
                 /\ run'.skip = TRUE /\ run'.data = IF run.valid = {} THEN 0 ELSE 1
<1>1. ctx \in CtxType /\ run \in RunType
    BY Zenon DEF ContextType
<1>2. SameShape /\ SameInPort /\ SameThreads /\ out' = out /\ run.pc = "pre"
    BY Zenon DEF PreProcess, SameShape, SameInPort, SameThreads, shape, port, unit
<1>3. CASE ctx' = ctx /\ run' = [run EXCEPT !.pc = "process"]
  <2>1. /\ run' \in RunType /\ run'.pc = "process" /\ SameInput /\ run'.flag = run.flag
        /\ run'.skip = run.skip /\ run'.data = run.data
      BY <1>1, <1>3, Zenon DEF RunType, SameInput
  <2> QED
      BY <1>1, <1>2, <1>3, <2>1, CtxSame, Zenon DEF Typed
<1>4. CASE /\ IsDataPre /\ kind \in PreFails
           /\ ctx' = [ctx EXCEPT !.preError = TRUE]
           /\ run' = [run EXCEPT !.pc = "process", !.skip = TRUE,
                                 !.data = IF run.valid = {} THEN 0 ELSE 1]
  <2> DEFINE d == IF run.valid = {} THEN 0 ELSE 1
  <2>1. d \in Nat
      OBVIOUS
  <2> HIDE DEF d
  <2>2. run' = [run EXCEPT !.pc = "process", !.skip = TRUE, !.data = d]
      BY <1>4, Zenon DEF d
  <2>3. /\ run' \in RunType /\ run'.pc = "process" /\ SameInput /\ run'.flag = run.flag
        /\ run'.skip = TRUE /\ run'.data = d
      BY <1>1, <2>1, <2>2, Zenon DEF RunType, SameInput
  <2>4. /\ ctx' \in CtxType /\ SamePlace /\ SameEnd /\ SameDriving /\ ctx'.state = ctx.state
        /\ ctx'.preError = TRUE
      BY <1>1, <1>4, Zenon DEF CtxType, SamePlace, SameEnd, SameDriving
  <2>5. 0 \in run.cur /\ length > 0 /\ kind \in PreFails
      BY <1>4, Zenon DEF IsDataPre
  <2> QED
      BY <1>2, <2>3, <2>4, <2>5, Zenon DEF Typed, d
<1> QED
    BY <1>3, <1>4, Zenon DEF PreProcess

(* The unit may ask for n runs at once, and for later ones. *)
LEMMA ProcessIs ==
    ASSUME ContextType, Process
    PROVE  /\ Typed /\ SameShape /\ SameInPort /\ closed' = closed /\ firing' = firing /\ out' = out
           /\ events' \in [user : Nat, close : Nat, next : Nat] /\ timers' \in Nat
           /\ run.pc = "process" /\ run'.pc = "endflag"
           /\ SameInput /\ run'.flag = run.flag
           /\ SamePlace /\ SameEnd /\ ctx'.state = ctx.state /\ ctx'.preError = ctx.preError
           /\ ctx'.lastValid = ctx.lastValid
           /\ events'.close = events.close /\ events'.next = events.next
           /\ \/ run.skip /\ run'.data = run.data /\ SameThreads /\ SameDriving
              \/ /\ ~ run.skip /\ timers <= timers'
                 /\ timers' > 0 => ctx'.status = "continue"
                 /\ ctx'.status = "continue" => timers > 0 \/ void = {} \/ kind \in Mixed
                 /\ \/ /\ ctx'.waiting = ctx.waiting /\ events'.user = events.user
                       /\ ctx'.eventInput = ctx.eventInput
                    \/ /\ ctx'.waiting = ctx.waiting + 1 /\ events'.user = events.user + 1
                       /\ ctx'.eventInput = EventInput /\ (void = {} \/ kind \in Mixed)
                       /\ ctx'.status = "continue"
<1>1. ctx \in CtxType /\ run \in RunType /\ events \in [user : Nat, close : Nat, next : Nat] /\ timers \in Nat
    BY Zenon DEF ContextType
<1>2. SameShape /\ SameInPort /\ closed' = closed /\ out' = out /\ run.pc = "process"
    BY Zenon DEF Process, SameShape, SameInPort, shape, port
<1>3. CASE run.skip
  <2>1. run' = [run EXCEPT !.pc = "endflag", !.skip = FALSE] /\ ctx' = ctx /\ SameThreads
      BY <1>2, <1>3, Zenon DEF Process, SameThreads, unit
  <2>2. run' \in RunType /\ run'.pc = "endflag" /\ SameInput /\ run'.flag = run.flag /\ run'.data = run.data
      BY <1>1, <2>1, Zenon DEF RunType, SameInput
  <2>3. /\ timers' \in Nat /\ events'.close = events.close /\ events'.next = events.next
        /\ firing' = firing /\ events' \in [user : Nat, close : Nat, next : Nat]
      BY <1>1, <2>1, Zenon DEF SameThreads
  <2>4. SamePlace /\ SameEnd /\ SameDriving /\ ctx'.state = ctx.state /\ ctx'.preError = ctx.preError
      BY <2>1, CtxSame, Zenon
  <2> QED
      BY <1>1, <1>2, <1>3, <2>1, <2>2, <2>3, <2>4, ZenonT(40) DEF Typed, SameDriving
<1>4. CASE ~ run.skip
  <2>1. PICK emit \in 0 .. 1, ask \in {"no", "now", "later"} :
          /\ ask # "no" => asked < MaxEvents /\ (void = {} \/ kind \in Mixed)
          /\ timers' = timers + IF ask = "later" THEN 1 ELSE 0
          /\ ctx' = [ctx EXCEPT
                       !.status = IF ask # "no" \/ timers > 0 THEN "continue" ELSE "ok",
                       !.waiting = @ + IF ask = "now" /\ ~closed THEN 1 ELSE 0,
                       !.eventInput = IF ask = "now" /\ ~closed THEN EventInput ELSE @]
          /\ events' = [events EXCEPT !.user = @ + IF ask = "now" /\ ~closed THEN 1 ELSE 0]
          /\ run' = [run EXCEPT !.pc = "endflag", !.data = @ + emit]
          /\ UNCHANGED firing
      BY <1>4, Zenon DEF Process
  <2> DEFINE n == IF ask = "now" /\ ~closed THEN 1 ELSE 0
             s == IF ask # "no" \/ timers > 0 THEN "continue" ELSE "ok"
             wn == ctx.waiting + n
             e == IF ask = "now" /\ ~closed THEN EventInput ELSE ctx.eventInput
             u == events.user + n
             d == run.data + emit
  <2>2. /\ n \in Nat /\ s \in {"ok", "continue"} /\ wn \in Int /\ u \in Nat /\ d \in Nat
        /\ timers' \in Nat /\ timers <= timers'
    <3>1. n \in Nat /\ s \in {"ok", "continue"}
        OBVIOUS
    <3>2. ctx.waiting \in Int /\ events.user \in Nat /\ run.data \in Nat
        BY <1>1 DEF CtxType, RunType
    <3>3. timers' \in Nat /\ timers <= timers'
        BY <1>1, <2>1
    <3> QED
        BY <3>1, <3>2, <3>3
  <2>3. e \in Int
      BY <1>1 DEF CtxType, EventInput
  <2>4. /\ ctx' = [ctx EXCEPT !.status = s, !.waiting = wn, !.eventInput = e]
        /\ events' = [events EXCEPT !.user = u]
        /\ run' = [run EXCEPT !.pc = "endflag", !.data = d]
      BY <2>1, Zenon
  <2>5. /\ timers' > 0 => s = "continue"
        /\ s = "continue" => timers > 0 \/ void = {} \/ kind \in Mixed
        /\ \/ n = 0 /\ e = ctx.eventInput
           \/ n = 1 /\ e = EventInput /\ (void = {} \/ kind \in Mixed) /\ s = "continue"
    <3>1. timers' > 0 => s = "continue"
        BY <1>1, <2>1
    <3>2. s = "continue" => timers > 0 \/ void = {} \/ kind \in Mixed
        BY <2>1
    <3>3. \/ n = 0 /\ e = ctx.eventInput
          \/ n = 1 /\ e = EventInput /\ (void = {} \/ kind \in Mixed) /\ s = "continue"
      <4>1. CASE ask = "now" /\ ~ closed
        <5>1. ask # "no"
            BY <4>1
        <5> QED
            BY <2>1, <4>1, <5>1, Zenon
      <4>2. CASE ~ (ask = "now" /\ ~ closed)
          BY <4>2, Zenon
      <4> QED
          BY <4>1, <4>2
    <3> QED
        BY <3>1, <3>2, <3>3, Zenon
  <2> HIDE DEF s, wn, e, u, d
  <2>6. /\ run' \in RunType /\ run'.pc = "endflag" /\ SameInput /\ run'.flag = run.flag
      BY <1>1, <2>2, <2>4, Zenon DEF RunType, SameInput
  <2>7. /\ ctx' \in CtxType /\ SamePlace /\ SameEnd /\ ctx'.state = ctx.state
        /\ ctx'.preError = ctx.preError /\ ctx'.lastValid = ctx.lastValid
        /\ ctx'.status = s /\ ctx'.waiting = wn /\ ctx'.eventInput = e
    <3>1. ctx' \in CtxType
        BY <1>1, <2>2, <2>3, <2>4, Zenon DEF CtxType
    <3> QED
        BY <1>1, <2>4, <3>1, ZenonT(40) DEF CtxType, SamePlace, SameEnd
  <2>8. /\ events' \in [user : Nat, close : Nat, next : Nat] /\ events'.user = u
        /\ events'.close = events.close /\ events'.next = events.next
      BY <1>1, <2>2, <2>4, Zenon
  <2>9. \/ wn = ctx.waiting /\ u = events.user /\ e = ctx.eventInput
        \/ /\ wn = ctx.waiting + 1 /\ u = events.user + 1 /\ e = EventInput
           /\ (void = {} \/ kind \in Mixed) /\ s = "continue"
    <3>1. ctx.waiting \in Int /\ events.user \in Nat
        BY <1>1 DEF CtxType
    <3>2. wn = ctx.waiting + n /\ u = events.user + n
        BY Zenon DEF wn, u
    <3> HIDE DEF n
    <3>3. n = 0 => wn = ctx.waiting /\ u = events.user
        BY <3>1, <3>2
    <3> QED
        BY <2>5, <3>2, <3>3, Zenon
  <2>10. /\ timers' > 0 => ctx'.status = "continue"
         /\ ctx'.status = "continue" => timers > 0 \/ void = {} \/ kind \in Mixed
         /\ \/ /\ ctx'.waiting = ctx.waiting /\ events'.user = events.user
               /\ ctx'.eventInput = ctx.eventInput
            \/ /\ ctx'.waiting = ctx.waiting + 1 /\ events'.user = events.user + 1
               /\ ctx'.eventInput = EventInput /\ (void = {} \/ kind \in Mixed)
               /\ ctx'.status = "continue"
      BY <2>5, <2>7, <2>8, <2>9, Zenon
  <2>11. Typed /\ firing' = firing
      BY <2>1, <2>6, <2>7, Zenon DEF Typed
  <2> QED
      BY <1>2, <1>4, <2>2, <2>6, <2>7, <2>8, <2>10, <2>11, ZenonT(40)
<1> QED
    BY <1>3, <1>4, Zenon

HasEnd == run.end \/ (kind = "origin" /\ ctx.endCached)

LEMMA PostIs ==
    ASSUME ContextType, PostProcess
    PROVE  /\ Typed /\ SameShape /\ SameInPort /\ SameThreads /\ out' = out
           /\ run.pc = "endflag"
           /\ SamePlace /\ SameDriving /\ ctx'.state = ctx.state /\ ctx'.preError = ctx.preError
           /\ ctx'.endReceived = ctx.endReceived
           /\ \/ /\ run.cur = {} /\ run.data > 0 /\ ctx.eventInput = None
                 /\ run' = Idle /\ ctx' = ctx
              \/ /\ ~ (run.cur = {} /\ run.data > 0 /\ ctx.eventInput = None)
                 /\ run'.pc = "post" /\ SameInput
                 /\ run'.flag = AppendEndFlag(HasEnd)
                 /\ run'.data = run.data + Cardinality(run.cur \cap void)
                 /\ Cardinality(run.cur \cap void) \in Nat
                 /\ run.cur \cap void = {} => run'.data = run.data
                 /\ ctx'.generated = (ctx.generated \/ AppendEndFlag(HasEnd))
                 /\ ctx'.endCached = (HasEnd /\ ~ NeedStreamEndFlag)
<1>1. ctx \in CtxType /\ run \in RunType /\ length \in Nat /\ run.cur \in SUBSET (0 .. length) /\ run.data \in Nat
    BY DEF ContextType, RunType
<1>2. SameShape /\ SameInPort /\ SameThreads /\ out' = out /\ run.pc = "endflag"
    BY Zenon DEF PostProcess, SameShape, SameInPort, SameThreads, shape, port, unit
<1>3. CASE run.cur = {} /\ run.data > 0 /\ ctx.eventInput = None
  <2>1. run' = Idle /\ ctx' = ctx
      BY <1>3, Zenon DEF PostProcess
  <2>2. Typed
      BY <1>1, <2>1, IdleIs, Zenon DEF Typed, RunType
  <2> QED
      BY <1>2, <1>3, <2>1, <2>2, CtxSame, Zenon DEF SameEnd
<1>4. CASE ~ (run.cur = {} /\ run.data > 0 /\ ctx.eventInput = None)
  <2> DEFINE f == AppendEndFlag(HasEnd)
             k == Cardinality(run.cur \cap void)
             d == run.data + k
             g == ctx.generated \/ f
             h == HasEnd /\ ~ NeedStreamEndFlag
  <2>1. /\ run' = [run EXCEPT !.pc = "post", !.flag = f, !.data = d]
        /\ ctx' = [ctx EXCEPT !.generated = g, !.endCached = h]
      BY <1>4, Zenon DEF PostProcess, HasEnd
  <2>2. f \in BOOLEAN /\ g \in BOOLEAN /\ h \in BOOLEAN
      BY DEF AppendEndFlag
  <2>3. IsFiniteSet(0 .. length)
      BY <1>1, FS_Interval
  <2>4. run.cur \cap void \in SUBSET (0 .. length)
      BY <1>1, Zenon
  <2>5. k \in Nat
      BY <2>3, <2>4, FS_Subset, FS_CardinalityType, Zenon
  <2>6. run.cur \cap void = {} => k = 0
      BY FS_EmptySet, Zenon
  <2> HIDE DEF k
  <2>7. d \in Nat /\ (run.cur \cap void = {} => d = run.data)
      BY <1>1, <2>5, <2>6
  <2> HIDE DEF f, d, g, h
  <2>8. /\ run' \in RunType /\ run'.pc = "post" /\ SameInput /\ run'.flag = f /\ run'.data = d
      BY <1>1, <2>1, <2>2, <2>7, Zenon DEF RunType, SameInput
  <2>9. /\ ctx' \in CtxType /\ SamePlace /\ SameDriving /\ ctx'.state = ctx.state
        /\ ctx'.preError = ctx.preError /\ ctx'.endReceived = ctx.endReceived
        /\ ctx'.generated = g /\ ctx'.endCached = h
    <3>1. ctx' \in CtxType
        BY <1>1, <2>1, <2>2, Zenon DEF CtxType
    <3> QED
        BY <1>1, <2>1, <3>1, ZenonT(40) DEF CtxType, SamePlace, SameDriving
  <2> QED
      BY <1>2, <1>4, <2>5, <2>7, <2>8, <2>9, ZenonT(40) DEF Typed, f, d, g, h, k
<1> QED
    BY <1>3, <1>4, Zenon

LEMMA DataPostIs ==
    ASSUME ContextType, DataPost
    PROVE  /\ Typed /\ SameShape /\ SameInPort /\ SameThreads /\ out' = out /\ ctx' = ctx
           /\ run.pc = "post" /\ run'.pc = "update" /\ SameInput /\ run'.flag = run.flag
           /\ \/ run'.data = run.data
              \/ /\ kind \in PostEmits /\ (run.cur # {} \/ (kind = "origin" /\ run.flag))
                 /\ run'.data = run.data + 1
<1>1. ctx \in CtxType /\ run \in RunType
    BY Zenon DEF ContextType
<1>2. /\ SameShape /\ SameInPort /\ SameThreads /\ out' = out /\ ctx' = ctx /\ run.pc = "post"
    BY Zenon DEF DataPost, SameShape, SameInPort, SameThreads, shape, port, unit
<1>3. CASE run' = [run EXCEPT !.pc = "update"]
  <2>1. /\ run' \in RunType /\ run'.pc = "update" /\ SameInput /\ run'.flag = run.flag
        /\ run'.data = run.data
      BY <1>1, <1>3, Zenon DEF RunType, SameInput
  <2> QED
      BY <1>1, <1>2, <2>1, Zenon DEF Typed
<1>4. CASE /\ kind \in PostEmits /\ (run.cur # {} \/ (kind = "origin" /\ run.flag))
           /\ run' = [run EXCEPT !.pc = "update", !.data = @ + 1]
  <2> DEFINE d == run.data + 1
  <2>1. d \in Nat
      BY <1>1 DEF RunType
  <2>2. run' = [run EXCEPT !.pc = "update", !.data = d]
      BY <1>4, Zenon
  <2> HIDE DEF d
  <2>3. /\ run' \in RunType /\ run'.pc = "update" /\ SameInput /\ run'.flag = run.flag
        /\ run'.data = d
      BY <1>1, <2>1, <2>2, Zenon DEF RunType, SameInput
  <2> QED
      BY <1>1, <1>2, <1>4, <2>3, Zenon DEF Typed, d
<1> QED
    BY <1>3, <1>4, Zenon DEF DataPost

LEMMA UpdateIs ==
    ASSUME ContextType, UpdateProcessState
    PROVE  /\ Typed /\ SameShape /\ SameInPort /\ SameThreads /\ out' = out
           /\ run.pc = "update" /\ run'.pc = "send" /\ SameInput /\ run'.flag = run.flag
           /\ run'.data = run.data
           /\ SameEnd /\ SameDriving /\ ctx'.pos = ctx.pos /\ ctx'.nextSent = ctx.nextSent
           /\ ctx'.state = IF ctx.endReceived /\ ~ IsContinueProcess THEN "over" ELSE ctx.state
           /\ ctx'.preError => ctx.preError
           /\ ctx'.curReceived = (ctx.curReceived /\ IsContinueProcess)
           /\ ctx'.cur = IF ctx.curReceived /\ ~ IsContinueProcess THEN ctx.cur + 1 ELSE ctx.cur
<1>1. ctx \in CtxType /\ run \in RunType /\ ctx.cur \in Nat
    BY DEF ContextType, CtxType
<1>2. /\ SameShape /\ SameInPort /\ SameThreads /\ out' = out /\ run.pc = "update"
      /\ run' = [run EXCEPT !.pc = "send"]
    BY Zenon DEF UpdateProcessState, SameShape, SameInPort, SameThreads, shape, port, unit
<1>3. /\ run' \in RunType /\ run'.pc = "send" /\ SameInput /\ run'.flag = run.flag
      /\ run'.data = run.data
    BY <1>1, <1>2, Zenon DEF RunType, SameInput
<1> DEFINE over == ctx.endReceived /\ ~ IsContinueProcess
           s == IF over THEN "over" ELSE ctx.state
           p == ctx.preError /\ ~ over
           k == ctx.cur + IF ctx.curReceived /\ ~ IsContinueProcess THEN 1 ELSE 0
           r == ctx.curReceived /\ IsContinueProcess
<1>4. ctx' = [ctx EXCEPT !.state = s, !.preError = p, !.cur = k, !.curReceived = r]
    BY Zenon DEF UpdateProcessState
<1>5. s \in {"none", "live", "over", "gone"}
    BY <1>1 DEF CtxType
<1>6. p \in BOOLEAN /\ r \in BOOLEAN
    BY DEF IsContinueProcess
<1>7. k \in Nat /\ k = IF ctx.curReceived /\ ~ IsContinueProcess THEN ctx.cur + 1 ELSE ctx.cur
    BY <1>1
<1> HIDE DEF s, p, k, r
<1>8. ctx' \in CtxType
    BY <1>1, <1>4, <1>5, <1>6, <1>7, ZenonT(40) DEF CtxType
<1>9. /\ SameEnd /\ SameDriving /\ ctx'.pos = ctx.pos /\ ctx'.nextSent = ctx.nextSent
      /\ ctx'.state = s /\ ctx'.preError = p /\ ctx'.curReceived = r /\ ctx'.cur = k
    BY <1>1, <1>4, <1>8, ZenonT(40) DEF CtxType, SameEnd, SameDriving
<1>10. ctx'.preError => ctx.preError
    BY <1>9, Zenon DEF p
<1> QED
    BY <1>2, <1>3, <1>7, <1>8, <1>9, <1>10, ZenonT(40) DEF Typed, s, r

LEMMA SendIs ==
    ASSUME ContextType, SendAndClean
    PROVE  /\ Typed /\ SameShape /\ SameInPort /\ run.pc = "send" /\ run' = Idle
           /\ closed' = closed /\ timers' = timers /\ firing' = firing
           /\ events' \in [user : Nat, close : Nat, next : Nat]
           /\ events'.user = events.user /\ events'.close = events.close
           /\ events'.next = IF GenerateSendEvent THEN events.next + 1 ELSE events.next
           /\ SameEnd /\ ctx'.waiting = ctx.waiting /\ ctx'.status = ctx.status
           /\ ctx'.pos = ctx.pos /\ ctx'.cur = ctx.cur /\ ctx'.curReceived = ctx.curReceived
           /\ ctx'.preError = ctx.preError
           /\ \/ /\ ctx.state = "over" /\ ctx'.state = "gone"
                 /\ ctx'.lastValid = None /\ ctx'.eventInput = None /\ ctx'.nextSent = ctx.nextSent
              \/ /\ ctx.state # "over" /\ ctx'.state = ctx.state /\ SameDriving
                 /\ ctx'.nextSent = (ctx.nextSent \/ GenerateSendEvent)
           /\ out' \in [0 .. length -> OutType]
           /\ \A i \in 0 .. length :
                LET data == IF i = Stream(Parent) THEN run.data ELSE 0
                IN  /\ out'[i].data = out[i].data + data
                    /\ out'[i].ends = out[i].ends + IF run.flag /\ i = Stream(EndFlagParent) THEN 1 ELSE 0
                    /\ out'[i].late = (out[i].late \/ (data > 0 /\ out[i].ends > 0))
<1>1. /\ ctx \in CtxType /\ run \in RunType /\ run.data \in Nat /\ length \in Nat
      /\ events \in [user : Nat, close : Nat, next : Nat] /\ out \in [0 .. length -> OutType]
    BY DEF ContextType, RunType
<1>2. /\ SameShape /\ SameInPort /\ closed' = closed /\ timers' = timers /\ firing' = firing
      /\ run.pc = "send" /\ run' = Idle
    BY Zenon DEF SendAndClean, SameShape, SameInPort, shape, port, unit
<1>3. run' \in RunType
    BY <1>1, <1>2, IdleIs, Zenon DEF RunType
<1>4. /\ events' \in [user : Nat, close : Nat, next : Nat]
      /\ events'.user = events.user /\ events'.close = events.close
      /\ events'.next = IF GenerateSendEvent THEN events.next + 1 ELSE events.next
  <2> DEFINE k == events.next + IF GenerateSendEvent THEN 1 ELSE 0
  <2>1. k \in Nat /\ k = IF GenerateSendEvent THEN events.next + 1 ELSE events.next
    <3>1. events.next \in Nat
        BY <1>1
    <3> QED
        BY <3>1
  <2>2. events' = [events EXCEPT !.next = k]
      BY Zenon DEF SendAndClean
  <2> HIDE DEF k
  <2> QED
      BY <1>1, <2>1, <2>2, Zenon
<1>5. /\ ctx' \in CtxType /\ SameEnd /\ ctx'.waiting = ctx.waiting /\ ctx'.status = ctx.status
      /\ ctx'.pos = ctx.pos /\ ctx'.cur = ctx.cur /\ ctx'.curReceived = ctx.curReceived
      /\ ctx'.preError = ctx.preError
      /\ \/ /\ ctx.state = "over" /\ ctx'.state = "gone"
            /\ ctx'.lastValid = None /\ ctx'.eventInput = None /\ ctx'.nextSent = ctx.nextSent
         \/ /\ ctx.state # "over" /\ ctx'.state = ctx.state /\ SameDriving
            /\ ctx'.nextSent = (ctx.nextSent \/ GenerateSendEvent)
  <2>1. CASE ctx.state = "over"
    <3>1. ctx' = [ctx EXCEPT !.state = "gone", !.lastValid = None, !.eventInput = None]
        BY <2>1, Zenon DEF SendAndClean
    <3>2. None \in Int
        BY DEF None
    <3>3. ctx' \in CtxType
        BY <1>1, <3>1, <3>2, Zenon DEF CtxType
    <3> QED
        BY <1>1, <2>1, <3>1, <3>3, ZenonT(40) DEF CtxType, SameEnd
  <2>2. CASE ctx.state # "over"
    <3> DEFINE g == ctx.nextSent \/ GenerateSendEvent
    <3>1. ctx' = [ctx EXCEPT !.nextSent = g]
        BY <2>2, Zenon DEF SendAndClean
    <3>2. g \in BOOLEAN
        BY DEF GenerateSendEvent
    <3> HIDE DEF g
    <3>3. ctx' \in CtxType
        BY <1>1, <3>1, <3>2, Zenon DEF CtxType
    <3>4. /\ SameEnd /\ SameDriving /\ ctx'.state = ctx.state /\ ctx'.pos = ctx.pos
          /\ ctx'.cur = ctx.cur /\ ctx'.curReceived = ctx.curReceived
          /\ ctx'.preError = ctx.preError /\ ctx'.nextSent = g
        BY <1>1, <3>1, <3>3, ZenonT(40) DEF CtxType, SameEnd, SameDriving
    <3> QED
        BY <2>2, <3>3, <3>4, Zenon DEF g, SameDriving
  <2> QED
      BY <2>1, <2>2
<1> DEFINE data(i) == IF i = Stream(Parent) THEN run.data ELSE 0
           ends(i) == out[i].ends + IF run.flag /\ i = Stream(EndFlagParent) THEN 1 ELSE 0
           new(i) == [data |-> out[i].data + data(i), ends |-> ends(i),
                      late |-> out[i].late \/ (data(i) > 0 /\ out[i].ends > 0)]
<1>6. out' = [i \in 0 .. length |-> new(i)]
  <2>1. DOMAIN out = 0 .. length
      BY <1>1, Zenon
  <2> QED
      BY <2>1, Zenon DEF SendAndClean
<1>7. ASSUME NEW i \in 0 .. length PROVE new(i) \in OutType
  <2>1. out[i].data \in Nat /\ out[i].ends \in Nat /\ data(i) \in Nat
      BY <1>1 DEF OutType
  <2>2. out[i].data + data(i) \in Nat /\ ends(i) \in Nat
      BY <2>1
  <2>3. (out[i].late \/ (data(i) > 0 /\ out[i].ends > 0)) \in BOOLEAN
      OBVIOUS
  <2> HIDE DEF data, ends
  <2> QED
      BY <2>2, <2>3, Zenon DEF OutType
<1>8. out' \in [0 .. length -> OutType] /\ \A i \in 0 .. length : out'[i] = new(i)
  <2> HIDE DEF new
  <2> QED
      BY <1>6, <1>7, Zenon
<1>9. \A i \in 0 .. length :
        /\ out'[i].data = out[i].data + data(i)
        /\ out'[i].ends = ends(i)
        /\ out'[i].late = (out[i].late \/ (data(i) > 0 /\ out[i].ends > 0))
  <2> TAKE i \in 0 .. length
  <2> HIDE DEF data, ends
  <2>1. /\ new(i).data = out[i].data + data(i)
        /\ new(i).ends = ends(i)
        /\ new(i).late = (out[i].late \/ (data(i) > 0 /\ out[i].ends > 0))
      OBVIOUS
  <2>2. out'[i] = new(i)
      BY <1>8, Zenon
  <2> HIDE DEF new
  <2> QED
      BY <2>1, <2>2, Zenon
<1> QED
    BY <1>2, <1>3, <1>4, <1>5, <1>8, <1>9, ZenonT(40) DEF Typed

LEMMA TimerIs ==
    ASSUME ContextType, TimerSend \/ TimerInput
    PROVE  /\ Typed /\ SameShape /\ SameInPort /\ run' = run /\ out' = out /\ closed' = closed
           /\ timers' \in Nat /\ timers' <= timers /\ firing' \in BOOLEAN
           /\ events' \in [user : Nat, close : Nat, next : Nat]
           /\ events'.close = events.close /\ events'.next = events.next
           /\ SamePlace /\ SameEnd /\ ctx'.state = ctx.state /\ ctx'.preError = ctx.preError
           /\ ctx'.status = ctx.status /\ ctx'.lastValid = ctx.lastValid
           /\ ctx'.eventInput \in {ctx.eventInput, EventInput}
           /\ \/ timers > 0 /\ closed /\ ctx' = ctx /\ events' = events /\ firing' = firing
              \/ /\ timers > 0 /\ (~ closed \/ ctx.state = "gone")
                 /\ ctx'.waiting = ctx.waiting + 1 /\ events'.user = events.user + 1
                 /\ firing' = (kind \in SplitSend)
                 /\ kind \notin SplitSend => ctx'.eventInput = EventInput
              \/ firing /\ ctx'.waiting = ctx.waiting /\ events' = events /\ ~ firing'
<1>1. ctx \in CtxType /\ events \in [user : Nat, close : Nat, next : Nat] /\ timers \in Nat /\ run \in RunType
    BY Zenon DEF ContextType
<1>2. /\ SameShape /\ SameInPort /\ run' = run /\ out' = out /\ closed' = closed
    BY Zenon DEF TimerSend, TimerInput, SameShape, SameInPort, shape, port
<1>3. EventInput \in Int /\ ctx.waiting + 1 \in Int /\ events.user + 1 \in Nat
    BY <1>1 DEF EventInput, CtxType
<1>4. run' \in RunType
    BY <1>1, <1>2, Zenon DEF SameShape, RunType
<1>5. CASE TimerSend /\ closed /\ ctx.state # "gone"
  <2>1. ctx' = ctx /\ events' = events /\ firing' = firing /\ timers > 0 /\ timers' = timers - 1
      BY <1>5, Zenon DEF TimerSend
  <2>2. timers' \in Nat /\ timers' <= timers /\ firing \in BOOLEAN
      BY <1>1, <2>1 DEF ContextType
  <2>3. ctx'.eventInput = ctx.eventInput /\ ctx'.status = ctx.status /\ ctx'.lastValid = ctx.lastValid
      BY <2>1, Zenon
  <2> QED
      BY <1>1, <1>2, <1>4, <1>5, <2>1, <2>2, <2>3, CtxSame, ZenonT(40) DEF Typed
<1>6. CASE TimerSend /\ ~ (closed /\ ctx.state # "gone")
  <2> DEFINE e == IF kind \in SplitSend THEN ctx.eventInput ELSE EventInput
             n == ctx.waiting + 1
             u == events.user + 1
  <2>1. /\ ctx' = [ctx EXCEPT !.waiting = n, !.eventInput = e] /\ events' = [events EXCEPT !.user = u]
        /\ firing' = (kind \in SplitSend) /\ timers > 0 /\ timers' = timers - 1
      BY <1>6, Zenon DEF TimerSend
  <2>2. timers' \in Nat /\ timers' <= timers /\ firing' \in BOOLEAN
      BY <1>1, <2>1
  <2>3. e \in Int /\ e \in {ctx.eventInput, EventInput} /\ (kind \notin SplitSend => e = EventInput)
      BY <1>1, <1>3 DEF CtxType
  <2>4. n \in Int /\ u \in Nat
      BY <1>3, Zenon
  <2> HIDE DEF e, n, u
  <2>5. ctx' \in CtxType
      BY <1>1, <2>1, <2>3, <2>4, Zenon DEF CtxType
  <2>6. /\ SamePlace /\ SameEnd /\ ctx'.state = ctx.state /\ ctx'.preError = ctx.preError
        /\ ctx'.status = ctx.status /\ ctx'.lastValid = ctx.lastValid
        /\ ctx'.eventInput = e /\ ctx'.waiting = n
      BY <1>1, <2>1, <2>5, ZenonT(40) DEF CtxType, SamePlace, SameEnd
  <2>7. /\ events' \in [user : Nat, close : Nat, next : Nat]
        /\ events'.close = events.close /\ events'.next = events.next /\ events'.user = u
      BY <1>1, <2>1, <2>4, Zenon
  <2> QED
      BY <1>2, <1>4, <1>6, <2>1, <2>2, <2>3, <2>5, <2>6, <2>7, ZenonT(40) DEF Typed, n, u
<1>7. CASE TimerInput
  <2> DEFINE e == EventInput
  <2>1. /\ firing /\ ~ firing' /\ firing' \in BOOLEAN /\ ctx' = [ctx EXCEPT !.eventInput = e]
        /\ events' = events /\ timers' = timers
      BY <1>7, Zenon DEF TimerInput
  <2>2. timers' \in Nat /\ timers' <= timers
      BY <1>1, <2>1
  <2>3. e \in Int
      BY <1>3, Zenon
  <2> HIDE DEF e
  <2>5. ctx' \in CtxType
      BY <1>1, <2>1, <2>3, Zenon DEF CtxType
  <2>6. /\ SamePlace /\ SameEnd /\ ctx'.state = ctx.state /\ ctx'.preError = ctx.preError
        /\ ctx'.status = ctx.status /\ ctx'.lastValid = ctx.lastValid
        /\ ctx'.eventInput = e /\ ctx'.waiting = ctx.waiting
      BY <1>1, <2>1, <2>5, ZenonT(40) DEF CtxType, SamePlace, SameEnd
  <2>7. ctx'.eventInput \in {ctx.eventInput, EventInput}
      BY <2>6, Zenon DEF e
  <2>8. /\ events' \in [user : Nat, close : Nat, next : Nat]
        /\ events'.close = events.close /\ events'.next = events.next
      BY <1>1, <2>1, Zenon
  <2> QED
      BY <1>2, <1>4, <2>1, <2>2, <2>5, <2>6, <2>7, <2>8, ZenonT(40) DEF Typed
<1> QED
    BY <1>5, <1>6, <1>7, Zenon

LEMMA CloseIs ==
    ASSUME ContextType, Close
    PROVE  /\ SameShape /\ SameInPort /\ ctx' = ctx /\ run' = run /\ out' = out
           /\ timers' = timers /\ firing' = firing /\ closed' = TRUE /\ kind \in Closes
           /\ run.pc \in {"post", "update"} => kind \in LateClose
           /\ events' \in [user : Nat, close : Nat, next : Nat]
           /\ events'.user = events.user /\ events'.next = events.next
           /\ \/ events' = events
              \/ kind = "origin" /\ ctx.state = "live"
<1>1. events \in [user : Nat, close : Nat, next : Nat]
    BY Zenon DEF ContextType
<1>2. /\ SameShape /\ SameInPort /\ ctx' = ctx /\ run' = run /\ out' = out
      /\ timers' = timers /\ firing' = firing /\ closed' = TRUE /\ kind \in Closes
      /\ (run.pc \in {"post", "update"} => kind \in LateClose) /\ NotifySessionClose
    BY Zenon DEF Close, SameShape, SameInPort, shape, port, unit
<1>3. CASE events' = events
    BY <1>1, <1>2, <1>3, Zenon
<1>4. CASE kind = "origin" /\ ctx.state = "live" /\ events' = [events EXCEPT !.close = @ + 1]
  <2> DEFINE n == events.close + 1
  <2>1. n \in Nat
      BY <1>1
  <2>2. events' = [events EXCEPT !.close = n]
      BY <1>4, Zenon
  <2> HIDE DEF n
  <2>3. /\ events' \in [user : Nat, close : Nat, next : Nat]
        /\ events'.user = events.user /\ events'.next = events.next
      BY <1>1, <2>1, <2>2, Zenon
  <2> QED
      BY <1>2, <1>4, <2>3, Zenon
<1> QED
    BY <1>2, <1>3, <1>4, Zenon DEF NotifySessionClose

LEMMA DeliverIs ==
    ASSUME ContextType, Deliver
    PROVE  /\ SameShape /\ SameThreads /\ ctx' = ctx /\ run' = run /\ out' = out
           /\ given <= length /\ given' = given + 1 /\ waitIn' = waitIn + 1
           /\ given' - waitIn' = given - waitIn
<1>1. /\ SameShape /\ SameThreads /\ ctx' = ctx /\ run' = run /\ out' = out
      /\ given <= length /\ given' = given + 1 /\ waitIn' = waitIn + 1
    BY Zenon DEF Deliver, SameShape, SameThreads, shape, unit
<1>2. given' - waitIn' = given - waitIn
    BY <1>1 DEF ContextType
<1> QED
    BY <1>1, <1>2, Zenon

-----------------------------------------------------------------------------
(* The types are kept. *)

LEMMA InitIs ==
    ASSUME ContextInit
    PROVE  /\ kind \in {"origin", "expand"} /\ length \in Nat /\ void \in SUBSET (0 .. length - 1)
           /\ given = 0 /\ waitIn = 0 /\ events = NoEvents /\ closed = FALSE /\ timers = 0
           /\ events.user = 0 /\ events.close = 0 /\ events.next = 0
           /\ firing = FALSE /\ run = Idle /\ ctx \in CtxType
           /\ ctx.state = "none" /\ ctx.status = "ok" /\ ctx.waiting = 0 /\ ~ ctx.endReceived
           /\ ~ ctx.endCached /\ ~ ctx.generated /\ ~ ctx.preError /\ ctx.lastValid = -1
           /\ ctx.eventInput = -1 /\ ctx.pos = 0 /\ ctx.cur = 0 /\ ~ ctx.curReceived /\ ~ ctx.nextSent
           /\ \A i \in 0 .. length : out[i].data = 0 /\ out[i].ends = 0 /\ ~ out[i].late
           /\ ContextType
<1>1. /\ kind \in {"origin", "expand"} /\ length \in Nat /\ void \in SUBSET (0 .. length - 1)
    BY ContextAssumption DEF ContextInit
<1>2. /\ given = 0 /\ waitIn = 0 /\ events = NoEvents /\ closed = FALSE /\ timers = 0
      /\ firing = FALSE /\ run = Idle
    BY Zenon DEF ContextInit
<1>3. /\ events.user = 0 /\ events.close = 0 /\ events.next = 0
      /\ events \in [user : Nat, close : Nat, next : Nat]
    BY <1>2 DEF NoEvents
<1>4. /\ ctx.state = "none" /\ ctx.status = "ok" /\ ctx.waiting = 0 /\ ~ ctx.endReceived
      /\ ~ ctx.endCached /\ ~ ctx.generated /\ ~ ctx.preError /\ ctx.lastValid = -1
      /\ ctx.eventInput = -1 /\ ctx.pos = 0 /\ ctx.cur = 0 /\ ~ ctx.curReceived /\ ~ ctx.nextSent
    BY DEF ContextInit, None
<1>5. ctx \in CtxType
  <2>1. 0 \in Int /\ 0 \in Nat /\ None \in Int
      BY DEF None
  <2> QED
      BY <2>1, Zenon DEF ContextInit, CtxType
<1>6. /\ out \in [0 .. length -> OutType]
      /\ \A i \in 0 .. length : out[i].data = 0 /\ out[i].ends = 0 /\ ~ out[i].late
    BY DEF ContextInit, OutType
<1>7. run \in RunType
    BY <1>1, <1>2, IdleIs, Zenon DEF RunType
<1>8. /\ given \in Nat /\ waitIn \in Nat /\ waitIn <= given /\ given <= length + 1
      /\ ctx.pos <= given - waitIn /\ timers \in Nat
    BY <1>1, <1>2, <1>4
<1>9. ContextType
    BY <1>1, <1>2, <1>3, <1>5, <1>6, <1>7, <1>8, Zenon DEF ContextType
<1> QED
    BY <1>1, <1>2, <1>3, <1>4, <1>5, <1>6, <1>9, ZenonT(40)

LEMMA TypeKept ==
    ASSUME ContextType, SameShape, SameInPort, Typed,
           events' \in [user : Nat, close : Nat, next : Nat],
           closed' \in BOOLEAN, timers' \in Nat, firing' \in BOOLEAN, ctx'.pos = ctx.pos,
           out' \in [0 .. length -> OutType]
    PROVE  ContextType'
<1>1. CtxType' = CtxType /\ RunType' = RunType /\ OutType' = OutType
    BY Zenon DEF SameShape, CtxType, RunType, OutType
<1>2. /\ kind' \in {"origin", "expand"} /\ length' \in Nat /\ void' \in SUBSET (0 .. length' - 1)
      /\ given' \in Nat /\ waitIn' \in Nat /\ waitIn' <= given' /\ given' <= length' + 1
      /\ ctx'.pos <= given' - waitIn'
    BY Zenon DEF ContextType, SameShape, SameInPort
<1>3. ctx' \in CtxType' /\ run' \in RunType' /\ out' \in [0 .. length' -> OutType']
    BY <1>1, Zenon DEF Typed, SameShape
<1> QED
    BY <1>2, <1>3, Zenon DEF ContextType

LEMMA TypeThreads ==
    ASSUME ContextType, SameThreads
    PROVE  /\ events' \in [user : Nat, close : Nat, next : Nat]
           /\ closed' \in BOOLEAN /\ timers' \in Nat /\ firing' \in BOOLEAN
BY Zenon DEF ContextType, SameThreads

LEMMA TypeStages ==
    ASSUME ContextType, PreProcess \/ Process \/ PostProcess \/ DataPost \/ UpdateProcessState \/ SendAndClean
    PROVE  ContextType'
<1>1. out \in [0 .. length -> OutType] /\ closed \in BOOLEAN /\ firing \in BOOLEAN /\ timers \in Nat
    BY Zenon DEF ContextType
<1>2. CASE PreProcess
  <2>1. SameShape /\ SameInPort /\ Typed /\ SameThreads /\ SamePlace /\ out' = out
      BY <1>2, PreIs, Zenon
  <2> QED
      BY <1>1, <2>1, TypeKept, TypeThreads, Zenon DEF SamePlace
<1>3. CASE Process
  <2>1. /\ SameShape /\ SameInPort /\ Typed /\ SamePlace /\ out' = out /\ closed' = closed /\ firing' = firing
        /\ events' \in [user : Nat, close : Nat, next : Nat] /\ timers' \in Nat
      BY <1>3, ProcessIs, Zenon
  <2> QED
      BY <1>1, <2>1, TypeKept, Zenon DEF SamePlace
<1>4. CASE PostProcess
  <2>1. SameShape /\ SameInPort /\ Typed /\ SameThreads /\ SamePlace /\ out' = out
      BY <1>4, PostIs, Zenon
  <2> QED
      BY <1>1, <2>1, TypeKept, TypeThreads, Zenon DEF SamePlace
<1>5. CASE DataPost
  <2>1. SameShape /\ SameInPort /\ Typed /\ SameThreads /\ ctx' = ctx /\ out' = out
      BY <1>5, DataPostIs, Zenon
  <2> QED
      BY <1>1, <2>1, TypeKept, TypeThreads, Zenon
<1>6. CASE UpdateProcessState
  <2>1. SameShape /\ SameInPort /\ Typed /\ SameThreads /\ ctx'.pos = ctx.pos /\ out' = out
      BY <1>6, UpdateIs, Zenon
  <2> QED
      BY <1>1, <2>1, TypeKept, TypeThreads, Zenon
<1>7. CASE SendAndClean
  <2>1. /\ SameShape /\ SameInPort /\ Typed /\ ctx'.pos = ctx.pos /\ out' \in [0 .. length -> OutType]
        /\ closed' = closed /\ timers' = timers /\ firing' = firing
        /\ events' \in [user : Nat, close : Nat, next : Nat]
      BY <1>7, SendIs, Zenon
  <2> QED
      BY <1>1, <2>1, TypeKept, Zenon
<1> QED
    BY <1>2, <1>3, <1>4, <1>5, <1>6, <1>7, Zenon

LEMMA NoEventsIs ==
    /\ NoEvents \in [user : Nat, close : Nat, next : Nat]
    /\ NoEvents.user = 0 /\ NoEvents.close = 0 /\ NoEvents.next = 0
BY DEF NoEvents

(* The events of a context that is not live are dropped. *)
LEMMA DroppedIs ==
    ASSUME ContextType, RecvEvent, ctx.state # "live"
    PROVE  /\ SameShape /\ SameInPort /\ ctx' = ctx /\ run' = run /\ out' = out
           /\ closed' = closed /\ timers' = timers /\ firing' = firing /\ events' = NoEvents
           /\ run.pc = "idle" /\ events # NoEvents
BY Zenon DEF RecvEvent, SameShape, SameInPort, shape, port, unit

LEMMA TypeRecv ==
    ASSUME ContextType, RecvData \/ RecvEvent
    PROVE  ContextType'
<1>1. /\ out \in [0 .. length -> OutType] /\ closed \in BOOLEAN /\ firing \in BOOLEAN /\ timers \in Nat
      /\ events \in [user : Nat, close : Nat, next : Nat] /\ ctx \in CtxType /\ run \in RunType
      /\ given \in Nat /\ waitIn \in Nat /\ waitIn <= given /\ ctx.pos <= given - waitIn
      /\ kind \in {"origin", "expand"} /\ length \in Nat /\ void \in SUBSET (0 .. length - 1)
      /\ given <= length + 1
    BY Zenon DEF ContextType
<1>2. ctx.pos \in Nat
    BY <1>1 DEF CtxType
<1>3. ASSUME SameShape, given' = given, waitIn' \in Nat, waitIn' <= given, RunStarts,
             ctx'.pos <= given - waitIn', closed' = closed, timers' = timers, firing' = firing,
             out' = out, events' \in [user : Nat, close : Nat, next : Nat]
      PROVE  ContextType'
  <2>1. CtxType' = CtxType /\ RunType' = RunType /\ OutType' = OutType
      BY <1>3, Zenon DEF SameShape, CtxType, RunType, OutType
  <2>2. ctx' \in CtxType' /\ run' \in RunType' /\ out' \in [0 .. length' -> OutType']
      BY <1>1, <1>3, <2>1, Zenon DEF RunStarts, SameShape
  <2>3. /\ kind' \in {"origin", "expand"} /\ length' \in Nat /\ void' \in SUBSET (0 .. length' - 1)
        /\ given' <= length' + 1
      BY <1>1, <1>3, Zenon DEF SameShape
  <2> QED
      BY <1>1, <1>3, <2>2, <2>3, Zenon DEF ContextType
<1>4. CASE RecvData
  <2>1. /\ RunStarts /\ waitIn' = 0 /\ SameShape /\ given' = given /\ closed' = closed
        /\ timers' = timers /\ firing' = firing /\ out' = out /\ events' = events
      BY <1>4, RecvDataIs, Zenon DEF SameShape
  <2>2. ctx'.pos = ctx.pos \/ (ctx.pos < given /\ ctx'.pos = ctx.pos + 1)
      BY <1>4, RecvDataIs, Zenon DEF KeepsPlace, TakesNext
  <2>3. ctx'.pos <= given - 0 /\ 0 \in Nat /\ 0 <= given
      BY <1>1, <1>2, <2>2
  <2> QED
      BY <1>1, <1>3, <2>1, <2>3, Zenon
<1>5. CASE RecvEvent /\ ctx.state = "live"
  <2>1. /\ RunStarts /\ SameShape /\ SameInPort /\ closed' = closed
        /\ timers' = timers /\ firing' = firing /\ out' = out /\ events' = NoEvents
      BY <1>5, RecvEventIs, Zenon DEF SameShape, SameInPort
  <2>2. ctx'.pos = ctx.pos \/ (ctx.pos < given - waitIn /\ ctx'.pos = ctx.pos + 1)
      BY <1>5, RecvEventIs, Zenon DEF KeepsPlace, TakesNext
  <2>3. ctx'.pos <= given - waitIn
      BY <1>1, <1>2, <2>2
  <2> QED
      BY <1>1, <1>3, <2>1, <2>3, NoEventsIs, Zenon DEF SameInPort
<1>6. CASE RecvEvent /\ ctx.state # "live"
  <2>1. /\ SameShape /\ SameInPort /\ ctx' = ctx /\ run' = run /\ out' = out
        /\ closed' = closed /\ timers' = timers /\ firing' = firing /\ events' = NoEvents
      BY <1>6, DroppedIs, Zenon
  <2>2. Typed
      BY <1>1, <2>1, Zenon DEF Typed, SameShape, RunType
  <2> QED
      BY <1>1, <2>1, <2>2, NoEventsIs, TypeKept, Zenon
<1> QED
    BY <1>4, <1>5, <1>6, Zenon

LEMMA TypeOthers ==
    ASSUME ContextType, TimerSend \/ TimerInput \/ Close \/ Deliver
    PROVE  ContextType'
<1>1. /\ out \in [0 .. length -> OutType] /\ closed \in BOOLEAN /\ firing \in BOOLEAN /\ timers \in Nat
      /\ events \in [user : Nat, close : Nat, next : Nat] /\ ctx \in CtxType /\ run \in RunType
    BY Zenon DEF ContextType
<1>2. CASE TimerSend \/ TimerInput
  <2>1. /\ Typed /\ SameShape /\ SameInPort /\ out' = out /\ closed' = closed
        /\ timers' \in Nat /\ firing' \in BOOLEAN /\ SamePlace
        /\ events' \in [user : Nat, close : Nat, next : Nat]
      BY <1>2, TimerIs, Zenon
  <2> QED
      BY <1>1, <2>1, TypeKept, Zenon DEF SamePlace
<1>3. CASE Close
  <2>1. /\ SameShape /\ SameInPort /\ ctx' = ctx /\ run' = run /\ out' = out
        /\ timers' = timers /\ firing' = firing /\ closed' = TRUE
        /\ events' \in [user : Nat, close : Nat, next : Nat]
      BY <1>3, CloseIs, Zenon
  <2>2. Typed
      BY <1>1, <2>1, Zenon DEF Typed, SameShape, RunType
  <2> QED
      BY <1>1, <2>1, <2>2, TypeKept, Zenon
<1>4. CASE Deliver
  <2>1. /\ SameShape /\ SameThreads /\ ctx' = ctx /\ run' = run /\ out' = out
        /\ given <= length /\ given' = given + 1 /\ waitIn' = waitIn + 1
        /\ given' - waitIn' = given - waitIn
      BY <1>4, DeliverIs, Zenon
  <2>2. CtxType' = CtxType /\ RunType' = RunType /\ OutType' = OutType
      BY <2>1, Zenon DEF SameShape, CtxType, RunType, OutType
  <2>3. ctx' \in CtxType' /\ run' \in RunType' /\ out' \in [0 .. length' -> OutType']
      BY <1>1, <2>1, <2>2, Zenon DEF SameShape
  <2>4. given' \in Nat /\ waitIn' \in Nat /\ waitIn' <= given' /\ given' <= length + 1 /\ length \in Nat
      BY <2>1 DEF ContextType
  <2>5. /\ kind' \in {"origin", "expand"} /\ length' \in Nat /\ void' \in SUBSET (0 .. length' - 1)
        /\ given' <= length' + 1 /\ ctx'.pos <= given' - waitIn'
      BY <2>1, <2>4, Zenon DEF SameShape, ContextType
  <2> QED
      BY <2>1, <2>3, <2>4, <2>5, TypeThreads, Zenon DEF ContextType
<1> QED
    BY <1>2, <1>3, <1>4, Zenon

LEMMA TypeNext ==
    ASSUME ContextType, ContextNext
    PROVE  ContextType'
BY TypeStages, TypeRecv, TypeOthers, Zenon DEF ContextNext, NodeStep

LEMMA ContextStutter ==
    ASSUME UNCHANGED contextVars
    PROVE  /\ SameShape /\ SameInPort /\ SameThreads /\ ctx' = ctx /\ run' = run /\ out' = out
BY Zenon DEF contextVars, shape, port, unit, SameShape, SameInPort, SameThreads

LEMMA TypeStutter ==
    ASSUME ContextType, UNCHANGED contextVars
    PROVE  ContextType'
<1>1. SameShape /\ SameInPort /\ SameThreads /\ ctx' = ctx /\ run' = run /\ out' = out
    BY ContextStutter, Zenon
<1>2. ctx \in CtxType /\ run \in RunType /\ out \in [0 .. length -> OutType]
    BY Zenon DEF ContextType
<1>3. Typed
    BY <1>1, <1>2, Zenon DEF Typed
<1> QED
    BY <1>1, <1>2, <1>3, TypeThreads, TypeKept, Zenon

LEMMA OutGrows ==
    ASSUME ContextType, ContextNext
    PROVE  SameShape /\ \A i \in 0 .. length : out[i].data <= out'[i].data /\ out'[i].data \in Nat
<1>1. \A i \in 0 .. length : out[i].data \in Nat
    BY DEF ContextType, OutType
<1>2. CASE SendAndClean
  <2>1. SameShape
      BY <1>2, SendIs, Zenon
  <2>2. run.data \in Nat
      BY DEF ContextType, RunType
  <2> SUFFICES ASSUME NEW i \in 0 .. length PROVE out[i].data <= out'[i].data /\ out'[i].data \in Nat
      BY <2>1, Zenon
  <2>3. out'[i].data = out[i].data + IF i = Stream(Parent) THEN run.data ELSE 0
      BY <1>2, SendIs, Zenon
  <2> QED
      BY <1>1, <2>2, <2>3
<1>3. CASE ~ SendAndClean
  <2>1. SameShape /\ out' = out
      BY <1>3, RecvDataIs, RecvEventIs, DroppedIs, PreIs, ProcessIs, PostIs, DataPostIs, UpdateIs,
         TimerIs, CloseIs, DeliverIs, ZenonT(40) DEF ContextNext, NodeStep, SameShape
  <2> QED
      BY <1>1, <2>1
<1> QED
    BY <1>2, <1>3, Zenon

-----------------------------------------------------------------------------
(* The end of every stream.  What the run of the parts checks: a close of  *)
(* the session does not come between the two looks of a run at it, and an  *)
(* expand context is not closed, does not fail in DataPre, sends no events *)
(* in a stream with void buffers and is not run between the parts of       *)
(* SendEvent.                                                              *)
PlainExpand ==
    /\ LateClose = {}
    /\ "expand" \notin PreFails \cup Mixed \cup Closes \cup SplitSend

Early == run.pc \in {"pre", "process", "endflag"}
Decided == run.pc \in {"post", "update"}
Open == ctx.state \in {"live", "over"}

(* The events of the unit are the ones it waits for, and a timer that has  *)
(* not fired keeps the context.                                            *)
Waits ==
    /\ Open => ctx.waiting = events.user
    /\ ctx.state = "none" => ctx.waiting = 0 /\ events = NoEvents /\ timers = 0 /\ ~ ctx.endReceived
    /\ timers > 0 => ctx.status = "continue"
    /\ run.pc # "idle" => Open
    /\ ctx.state = "over" => run.pc = "send" /\ ctx.endReceived
    /\ ctx.state = "gone" => ctx.endReceived
    /\ run.pc \in {"idle", "pre", "process", "endflag"} => ~ run.flag

(* The end flag of an origin context is cached until it is put out. *)
OriginInv ==
    /\ events.next = 0
    /\ ctx.endReceived => given = length + 1 /\ waitIn = 0
    /\ ~ out[0].late /\ out[0].ends = IF ctx.state = "gone" THEN 1 ELSE 0
    /\ Decided => (run.flag <=> ctx.endReceived /\ ~ IsContinueProcess)
    /\ run.pc = "send" => (run.flag <=> ctx.state = "over")
    /\ ctx.state # "gone" => (ctx.generated <=> run.flag)
    /\ ctx.state # "gone" /\ ctx.endReceived => ctx.generated \/ ctx.endCached \/ (Early /\ run.end)
    /\ run.end => run.cur # {}

(* The stream an expand context is at: the ones before it have ended. *)
At == IF run.pc = "send" /\ run.flag THEN ctx.cur - 1 ELSE ctx.cur

(* The three kinds of runs: with a buffer, with nothing to do, and with an *)
(* event for the buffer of before.                                         *)
Fed ==
    /\ run.cur = {ctx.cur} /\ ctx.curReceived /\ run.end = (ctx.cur = length)
    /\ run.valid = {ctx.cur} \ (void \cup {length})
    /\ run.pc \in {"pre", "process"} => run.skip = (run.valid = {}) /\ ~ IsContinueProcess
    /\ run.valid = {} => ~ IsContinueProcess

Skipped ==
    /\ run.cur = {} /\ run.valid = {} /\ ~ run.end /\ run.data = 0
    /\ ctx.curReceived => IsContinueProcess
    /\ run.pc \in {"pre", "process"} => run.skip

Driven ==
    /\ run.cur = {} /\ run.valid = {} /\ ~ run.end /\ ctx.curReceived
    /\ ctx.eventInput = ctx.cur /\ ctx.cur < length /\ void = {}

(* Where an expand context is in its stream. *)
Placed ==
    /\ ctx.pos = ctx.cur + IF ctx.curReceived THEN 1 ELSE 0
    /\ ctx.cur <= length + 1
    /\ ctx.cur = length + 1 <=> ctx.state \in {"over", "gone"}
    /\ ctx.endReceived => ctx.cur = length + 1 \/ (ctx.cur = length /\ (Early \/ Decided))
    /\ ctx.curReceived /\ ctx.cur = length => ctx.endReceived /\ (Early \/ Decided)
    /\ ctx.endReceived /\ ctx.cur = length => ctx.curReceived

(* What it waits for is an event for the buffer it is at. *)
Driving ==
    /\ ~ closed /\ ~ firing /\ ~ ctx.preError /\ events.close = 0
    /\ ctx.state # "gone" /\ void # {} => ctx.eventInput = None
    /\ IsContinueProcess => ctx.curReceived /\ ctx.cur < length /\ void = {}
    /\ run.pc \in {"idle", "send"} /\ ctx.curReceived => IsContinueProcess
    /\ events.next > 0 => ctx.nextSent /\ ~ ctx.curReceived /\ ctx.pos < given - waitIn
    /\ ctx.curReceived /\ void = {} /\ ctx.cur < length => ctx.lastValid = ctx.cur
    /\ events.user > 0 => ctx.eventInput = ctx.cur

(* An end flag is for the stream it is at, and only once. *)
Flagged ==
    /\ run.pc \in {"idle", "pre", "process", "endflag", "send"} /\ ctx.curReceived => ~ ctx.generated
    /\ Decided => (run.flag <=> ctx.curReceived /\ ~ IsContinueProcess)
    /\ run.pc = "send" /\ run.flag => ~ ctx.curReceived /\ ctx.cur > 0
    /\ Decided /\ ctx.curReceived => (ctx.generated <=> run.flag)

Sent == \A i \in 0 .. length : ~ out[i].late /\ out[i].ends = IF i < At THEN 1 ELSE 0

Sends ==
    run.pc \in {"post", "update", "send"} =>
        /\ run.data > 0 => Parent = At
        /\ run.flag => EndFlagParent = At

ExpandInv ==
    /\ Placed /\ Driving /\ Flagged /\ Sent /\ Sends
    /\ Early \/ Decided => Fed \/ Skipped \/ Driven

EndInv == Waits /\ (kind = "origin" => OriginInv) /\ (kind = "expand" => ExpandInv)

LEMMA WaitsStages ==
    ASSUME ContextType, Waits,
           PreProcess \/ Process \/ PostProcess \/ DataPost \/ UpdateProcessState \/ SendAndClean
    PROVE  Waits'
<1>1. /\ ctx.state \in {"none", "live", "over", "gone"} /\ ctx.endReceived \in BOOLEAN
      /\ run.flag \in BOOLEAN /\ ctx.waiting \in Int /\ events.user \in Nat
    BY DEF ContextType, CtxType, RunType
<1>2. CASE PreProcess
  <2>1. /\ run.pc = "pre" /\ run'.pc = "process" /\ run'.flag = run.flag /\ ctx'.state = ctx.state
        /\ ctx'.waiting = ctx.waiting /\ ctx'.status = ctx.status /\ events' = events /\ timers' = timers
        /\ ctx'.endReceived = ctx.endReceived
      BY <1>2, PreIs, Zenon DEF SameDriving, SameThreads, SameEnd
  <2> QED
      BY <2>1 DEF Waits, Open
<1>3. CASE Process
  <2>1. /\ run.pc = "process" /\ run'.pc = "endflag" /\ run'.flag = run.flag /\ ctx'.state = ctx.state
        /\ ctx'.endReceived = ctx.endReceived
      BY <1>3, ProcessIs, Zenon DEF SameEnd
  <2>2. \/ /\ ctx'.waiting = ctx.waiting /\ events'.user = events.user
        \/ /\ ctx'.waiting = ctx.waiting + 1 /\ events'.user = events.user + 1
      BY <1>3, ProcessIs, Zenon DEF SameDriving, SameThreads
  <2>3. timers' > 0 => ctx'.status = "continue"
      BY <1>3, ProcessIs, Zenon DEF SameDriving, SameThreads, Waits
  <2>4. Open /\ ctx.state = "live"
      BY <1>1, <2>1 DEF Waits, Open
  <2>5. ctx'.waiting = events'.user
      BY <1>1, <2>2, <2>4 DEF Waits
  <2> QED
      BY <2>1, <2>3, <2>4, <2>5 DEF Waits, Open
<1>4. CASE PostProcess
  <2>1. /\ run.pc = "endflag" /\ (run'.pc = "post" \/ run' = Idle) /\ ctx'.state = ctx.state
        /\ ctx'.waiting = ctx.waiting /\ ctx'.status = ctx.status /\ events' = events /\ timers' = timers
        /\ ctx'.endReceived = ctx.endReceived
      BY <1>4, PostIs, Zenon DEF SameDriving, SameThreads
  <2>2. run'.pc = "post" \/ (run'.pc = "idle" /\ ~ run'.flag)
      BY <2>1, IdleIs, Zenon
  <2> QED
      BY <2>1, <2>2 DEF Waits, Open
<1>5. CASE DataPost
  <2>1. /\ run.pc = "post" /\ run'.pc = "update" /\ ctx' = ctx /\ events' = events /\ timers' = timers
      BY <1>5, DataPostIs, Zenon DEF SameThreads
  <2> QED
      BY <2>1 DEF Waits, Open
<1>6. CASE UpdateProcessState
  <2>1. /\ run.pc = "update" /\ run'.pc = "send"
        /\ ctx'.waiting = ctx.waiting /\ ctx'.status = ctx.status /\ events' = events /\ timers' = timers
        /\ ctx'.endReceived = ctx.endReceived
        /\ ctx'.state = IF ctx.endReceived /\ ~ IsContinueProcess THEN "over" ELSE ctx.state
      BY <1>6, UpdateIs, Zenon DEF SameDriving, SameThreads, SameEnd
  <2>2. ctx'.state = ctx.state \/ (ctx'.state = "over" /\ ctx.endReceived)
      BY <2>1, Zenon
  <2>3. Open
      BY <2>1 DEF Waits
  <2> QED
      BY <2>1, <2>2, <2>3 DEF Waits, Open
<1>7. CASE SendAndClean
  <2>1. /\ run.pc = "send" /\ run'.pc = "idle" /\ ~ run'.flag
        /\ ctx'.waiting = ctx.waiting /\ ctx'.status = ctx.status /\ timers' = timers
        /\ ctx'.endReceived = ctx.endReceived /\ events'.user = events.user
        /\ \/ ctx.state = "over" /\ ctx'.state = "gone"
           \/ ctx.state # "over" /\ ctx'.state = ctx.state
      BY <1>7, SendIs, IdleIs, Zenon DEF SameEnd
  <2>2. Open
      BY <2>1 DEF Waits
  <2> QED
      BY <2>1, <2>2 DEF Waits, Open
<1> QED
    BY <1>2, <1>3, <1>4, <1>5, <1>6, <1>7, Zenon

(* No data comes to a context that has ended. *)
LEMMA EndedIs ==
    ASSUME ContextType, EndInv, ctx.state = "gone"
    PROVE  given = length + 1 /\ waitIn = 0
<1>1. /\ kind \in {"origin", "expand"} /\ length \in Nat /\ given \in Nat /\ waitIn \in Nat
      /\ given <= length + 1 /\ ctx.pos <= given - waitIn /\ ctx.pos \in Nat /\ ctx.cur \in Nat
    BY DEF ContextType, CtxType
<1>2. CASE kind = "origin"
    BY <1>2, Zenon DEF EndInv, OriginInv, Waits
<1>3. CASE kind = "expand"
  <2>1. Placed
      BY <1>3, Zenon DEF EndInv, ExpandInv
  <2>2. ctx.cur = length + 1
      BY <2>1 DEF Placed
  <2>3. ctx.pos >= ctx.cur
      BY <1>1, <2>1 DEF Placed
  <2> QED
      BY <1>1, <2>2, <2>3
<1> QED
    BY <1>1, <1>2, <1>3

LEMMA WaitsRecv ==
    ASSUME ContextType, EndInv, RecvData \/ RecvEvent
    PROVE  Waits'
<1>1. Waits /\ ctx.state \in {"none", "live", "over", "gone"} /\ ctx.waiting \in Int /\ events.user \in Nat
    BY DEF EndInv, ContextType, CtxType
<1>2. CASE RecvData
  <2>1. /\ ctx'.state = "live" /\ ctx'.waiting = ctx.waiting /\ waitIn > 0 /\ run.pc = "idle"
        /\ events' = events /\ timers' = timers /\ ctx'.status = ctx.status /\ run'.flag = FALSE
      BY <1>2, RecvDataIs, Zenon DEF RunStarts
  <2>2. ctx.state # "gone"
    <3>1. waitIn # 0
        BY <2>1 DEF ContextType
    <3> QED
        BY <3>1, EndedIs, Zenon
  <2>3. ctx.waiting = events.user
      BY <1>1, <2>1, <2>2, NoEventsIs DEF Waits, Open
  <2> QED
      BY <1>1, <2>1, <2>3 DEF Waits, Open
<1>3. CASE RecvEvent /\ ctx.state = "live"
  <2>1. /\ ctx'.state = "live" /\ ctx'.waiting = ctx.waiting - events.user /\ run.pc = "idle"
        /\ events' = NoEvents /\ timers' = timers /\ ctx'.status = ctx.status /\ run'.flag = FALSE
      BY <1>3, RecvEventIs, Zenon DEF RunStarts
  <2>2. ctx.waiting = events.user
      BY <1>1, <1>3 DEF Waits, Open
  <2>3. ctx'.waiting = 0 /\ events'.user = 0
      BY <1>1, <2>1, <2>2, NoEventsIs
  <2> QED
      BY <1>1, <2>1, <2>3 DEF Waits, Open
<1>4. CASE RecvEvent /\ ctx.state # "live"
  <2>1. /\ ctx' = ctx /\ run' = run /\ timers' = timers /\ events' = NoEvents
        /\ run.pc = "idle" /\ events # NoEvents
      BY <1>4, DroppedIs, Zenon
  <2>2. ctx.state = "gone"
      BY <1>1, <1>4, <2>1 DEF Waits
  <2> QED
      BY <1>1, <2>1, <2>2 DEF Waits, Open
<1> QED
    BY <1>2, <1>3, <1>4, Zenon

LEMMA WaitsOthers ==
    ASSUME ContextType, Waits, TimerSend \/ TimerInput \/ Close \/ Deliver
    PROVE  Waits'
<1>1. ctx.waiting \in Int /\ events.user \in Nat /\ timers \in Nat
    BY DEF ContextType, CtxType
<1>2. CASE TimerSend \/ TimerInput
  <2>1. /\ run' = run /\ timers' \in Nat /\ timers' <= timers /\ ctx'.state = ctx.state
        /\ ctx'.status = ctx.status /\ ctx'.endReceived = ctx.endReceived
      BY <1>2, TimerIs, Zenon DEF SameEnd
  <2>2. timers' > 0 => timers > 0
      BY <1>1, <2>1
  <2>3. \/ ctx'.waiting = ctx.waiting /\ events' = events
        \/ timers > 0 /\ ctx'.waiting = ctx.waiting + 1 /\ events'.user = events.user + 1
      BY <1>2, TimerIs, Zenon
  <2>4. CASE ctx'.waiting = ctx.waiting /\ events' = events
    <3>1. timers = 0 => timers' = 0
        BY <1>1, <2>1
    <3> QED
        BY <2>1, <2>2, <2>4, <3>1 DEF Waits, Open
  <2>5. CASE timers > 0 /\ ctx'.waiting = ctx.waiting + 1 /\ events'.user = events.user + 1
    <3>1. ctx.state # "none"
        BY <2>5 DEF Waits
    <3>2. ctx.waiting = events.user => ctx'.waiting = events'.user
        BY <2>5
    <3> QED
        BY <2>1, <2>2, <3>1, <3>2 DEF Waits, Open
  <2> QED
      BY <2>3, <2>4, <2>5, Zenon
<1>3. CASE Close
  <2>1. /\ ctx' = ctx /\ run' = run /\ timers' = timers /\ events'.user = events.user
        /\ (events' = events \/ ctx.state = "live")
      BY <1>3, CloseIs, Zenon
  <2> QED
      BY <2>1 DEF Waits, Open
<1>4. CASE Deliver
  <2>1. ctx' = ctx /\ run' = run /\ timers' = timers /\ events' = events
      BY <1>4, DeliverIs, Zenon DEF SameThreads
  <2> QED
      BY <2>1, Zenon DEF Waits, Open
<1> QED
    BY <1>2, <1>3, <1>4, Zenon

LEMMA ContinueSame ==
    ASSUME ctx'.status = ctx.status, ctx'.waiting = ctx.waiting, closed' = closed
    PROVE  IsContinueProcess' <=> IsContinueProcess
BY Zenon DEF IsContinueProcess

LEMMA OriginRecv ==
    ASSUME ContextType, EndInv, kind = "origin", RecvData \/ RecvEvent
    PROVE  OriginInv'
<1>1. Waits /\ OriginInv
    BY Zenon DEF EndInv
<1>2. /\ length \in Nat /\ given \in Nat /\ waitIn \in Nat /\ waitIn <= given /\ given <= length + 1
      /\ ctx.endReceived \in BOOLEAN /\ ctx.generated \in BOOLEAN /\ ctx.endCached \in BOOLEAN
      /\ ctx.state \in {"none", "live", "over", "gone"}
    BY DEF ContextType, CtxType
<1>3. CASE RecvData
  <2> DEFINE S == (given - waitIn) .. (given - 1)
  <2>1. /\ RunStarts /\ TakesInput(S) /\ KeepsPlace /\ waitIn > 0 /\ waitIn' = 0 /\ given' = given
        /\ length' = length /\ out' = out /\ events' = events /\ run.pc = "idle"
    <3>1. kind # "expand"
        OBVIOUS
    <3> QED
        BY <1>3, <3>1, RecvDataIs, Zenon
  <2>2. ~ ctx.endReceived
    <3>1. waitIn # 0
        BY <1>2, <2>1
    <3> QED
        BY <1>1, <3>1, Zenon DEF OriginInv
  <2>3. ctx.state # "gone" /\ ~ run.flag
      BY <1>1, <2>1, <2>2 DEF Waits
  <2>4. ~ ctx.generated
      BY <1>1, <2>3, Zenon DEF OriginInv
  <2>5. length \in S => given = length + 1
      BY <1>2
  <2> HIDE DEF S
  <2>6. /\ (ctx'.endReceived <=> length \in S) /\ (run'.end <=> length \in S) /\ ~ ctx'.generated
        /\ run'.flag = FALSE /\ run'.pc = "pre" /\ ctx'.state = "live"
    <3>1. ctx'.endReceived = (ctx.endReceived \/ length \in S)
        BY <2>1, Zenon DEF TakesInput
    <3>2. ctx'.generated = ctx.generated
        BY <2>1, Zenon DEF KeepsPlace
    <3> QED
        BY <1>2, <2>1, <2>2, <2>4, <3>1, <3>2, Zenon DEF TakesInput, RunStarts
  <2>7. run'.end => run'.cur # {}
    <3>1. run'.cur = TakenOf(ctx.preError, S)
        BY <2>1, Zenon DEF TakesInput
    <3>2. length \in S => length \in run'.cur
        BY <3>1, Zenon DEF TakenOf
    <3> QED
        BY <2>6, <3>2, Zenon
  <2>8. Early' /\ ~ Decided' /\ run'.pc # "send" /\ ctx'.state # "gone"
      BY <2>6 DEF Early, Decided
  <2>9. ~ out'[0].late /\ out'[0].ends = 0 /\ events'.next = 0
      BY <1>1, <2>1, <2>3, Zenon DEF OriginInv
  <2> QED
      BY <2>1, <2>5, <2>6, <2>7, <2>8, <2>9, Zenon DEF OriginInv
<1>4. CASE RecvEvent /\ ctx.state = "live"
  <2>1. /\ RunStarts /\ KeepsPlace /\ run.pc = "idle" /\ events' = NoEvents /\ waitIn' = waitIn
        /\ given' = given /\ length' = length /\ out' = out /\ TakesNone(events.close > 0)
    <3>1. events.next = 0
        BY <1>1, Zenon DEF OriginInv
    <3> QED
        BY <1>4, <3>1, RecvEventIs, Zenon
  <2>2. ~ run.flag /\ ctx.state # "gone"
      BY <1>1, <1>4, <2>1 DEF Waits
  <2>3. /\ ctx'.endReceived = ctx.endReceived /\ run'.end = FALSE /\ ctx'.generated = ctx.generated
        /\ ctx'.endCached = ctx.endCached
        /\ run'.flag = FALSE /\ run'.pc = "pre" /\ ctx'.state = "live"
      BY <2>1, Zenon DEF TakesNone, KeepsPlace, RunStarts
  <2>4. ~ Early /\ Early' /\ ~ Decided' /\ run'.pc # "send" /\ ctx'.state # "gone"
      BY <2>1, <2>3 DEF Early, Decided
  <2>5. events'.next = 0
      BY <2>1, NoEventsIs, Zenon
  <2> QED
      BY <1>1, <2>1, <2>2, <2>3, <2>4, <2>5, ZenonT(40) DEF OriginInv
<1>5. CASE RecvEvent /\ ctx.state # "live"
  <2>1. /\ SameShape /\ SameInPort /\ ctx' = ctx /\ run' = run /\ out' = out /\ closed' = closed
        /\ events' = NoEvents
      BY <1>5, DroppedIs, Zenon
  <2>2. events'.next = 0
      BY <2>1, NoEventsIs, Zenon
  <2> QED
      BY <1>1, <2>1, <2>2, ZenonT(40) DEF OriginInv, SameShape, SameInPort, Early, Decided, IsContinueProcess
<1> QED
    BY <1>3, <1>4, <1>5, Zenon

LEMMA OriginEarly ==
    ASSUME ContextType, EndInv, kind = "origin", PreProcess \/ Process
    PROVE  OriginInv'
<1>1. Waits /\ OriginInv
    BY Zenon DEF EndInv
<1>2. /\ SameShape /\ SameInPort /\ out' = out /\ SameInput /\ run'.flag = run.flag /\ SameEnd
      /\ ctx'.state = ctx.state /\ events'.next = events.next
      /\ \/ run.pc = "pre" /\ run'.pc = "process"
         \/ run.pc = "process" /\ run'.pc = "endflag"
  <2>1. CASE PreProcess
      BY <2>1, PreIs, Zenon DEF SameThreads
  <2>2. CASE Process
      BY <2>2, ProcessIs, Zenon
  <2> QED
      BY <2>1, <2>2
<1>3. Early /\ Early' /\ ~ Decided' /\ run'.pc # "send"
    BY <1>2 DEF Early, Decided
<1> QED
    BY <1>1, <1>2, <1>3, ZenonT(40) DEF OriginInv, SameShape, SameInPort, SameInput, SameEnd

LEMMA OriginPost ==
    ASSUME ContextType, EndInv, kind = "origin", PostProcess
    PROVE  OriginInv'
<1>1. Waits /\ OriginInv
    BY Zenon DEF EndInv
<1>2. /\ SameShape /\ SameInPort /\ SameThreads /\ out' = out /\ SamePlace /\ SameDriving
      /\ ctx'.state = ctx.state /\ ctx'.endReceived = ctx.endReceived /\ run.pc = "endflag"
    BY PostIs, Zenon
<1>3. ~ run.flag /\ ctx.state # "gone" /\ Early
    BY <1>1, <1>2 DEF Waits, Open, Early
<1>4. ~ ctx.generated /\ (ctx.endReceived => ctx.endCached \/ run.end)
    BY <1>1, <1>3, Zenon DEF OriginInv
<1>5. CASE run.cur = {} /\ run' = Idle /\ ctx' = ctx
  <2>1. run'.pc = "idle" /\ ~ run'.flag /\ ~ run'.end
      BY <1>5, IdleIs, Zenon
  <2>2. ~ run.end
      BY <1>1, <1>5, Zenon DEF OriginInv
  <2>3. ~ Decided' /\ run'.pc # "send"
      BY <2>1 DEF Decided
  <2> QED
      BY <1>1, <1>2, <1>3, <1>4, <1>5, <2>1, <2>2, <2>3, ZenonT(40)
         DEF OriginInv, SameShape, SameInPort, SameThreads
<1>6. CASE /\ run'.pc = "post" /\ SameInput /\ run'.flag = AppendEndFlag(HasEnd)
           /\ ctx'.generated = (ctx.generated \/ AppendEndFlag(HasEnd))
           /\ ctx'.endCached = (HasEnd /\ ~ NeedStreamEndFlag)
  <2>1. NeedStreamEndFlag <=> ctx.endReceived /\ ~ IsContinueProcess
      BY Zenon DEF NeedStreamEndFlag
  <2>2. ctx.endReceived => HasEnd
      BY <1>4, Zenon DEF HasEnd
  <2>3. AppendEndFlag(HasEnd) <=> ctx.endReceived /\ ~ IsContinueProcess
      BY <1>4, <2>1, <2>2, Zenon DEF AppendEndFlag
  <2>4. IsContinueProcess' <=> IsContinueProcess
      BY <1>2, ContinueSame, Zenon DEF SameDriving, SameThreads
  <2>5. run'.flag <=> ctx'.endReceived /\ ~ IsContinueProcess'
      BY <1>2, <1>6, <2>3, <2>4, Zenon
  <2>6. ctx'.generated <=> run'.flag
      BY <1>4, <1>6, Zenon
  <2>7. ctx'.endReceived => ctx'.generated \/ ctx'.endCached
      BY <1>2, <1>6, <2>1, <2>2, <2>3, Zenon
  <2>8. run'.pc # "send" /\ ctx'.state # "gone"
      BY <1>2, <1>3, <1>6
  <2>9. run'.end => run'.cur # {}
      BY <1>1, <1>6, Zenon DEF OriginInv, SameInput
  <2> QED
      BY <1>1, <1>2, <1>3, <2>5, <2>6, <2>7, <2>8, <2>9, ZenonT(40)
         DEF OriginInv, SameShape, SameInPort, SameThreads
<1> QED
    BY <1>5, <1>6, PostIs, Zenon

LEMMA OriginLate ==
    ASSUME ContextType, EndInv, kind = "origin", DataPost \/ UpdateProcessState
    PROVE  OriginInv'
<1>1. Waits /\ OriginInv
    BY Zenon DEF EndInv
<1>2. CASE DataPost
  <2>1. /\ SameShape /\ SameInPort /\ SameThreads /\ out' = out /\ ctx' = ctx
        /\ run.pc = "post" /\ run'.pc = "update" /\ SameInput /\ run'.flag = run.flag
      BY <1>2, DataPostIs, Zenon
  <2>2. Decided /\ ~ Early /\ ~ Early' /\ run'.pc # "send"
      BY <2>1 DEF Decided, Early
  <2>3. IsContinueProcess' <=> IsContinueProcess
      BY <2>1, ContinueSame, Zenon DEF SameThreads
  <2> QED
      BY <1>1, <2>1, <2>2, <2>3, ZenonT(40) DEF OriginInv, SameShape, SameInPort, SameThreads, SameInput
<1>3. CASE UpdateProcessState
  <2>1. /\ SameShape /\ SameInPort /\ SameThreads /\ out' = out /\ SameEnd
        /\ run.pc = "update" /\ run'.pc = "send" /\ SameInput /\ run'.flag = run.flag
        /\ ctx'.state = IF ctx.endReceived /\ ~ IsContinueProcess THEN "over" ELSE ctx.state
      BY <1>3, UpdateIs, Zenon
  <2>2. Decided /\ ~ Early /\ ~ Decided' /\ ctx.state = "live"
    <3>1. ctx.state \in {"none", "live", "over", "gone"}
        BY DEF ContextType, CtxType
    <3> QED
        BY <1>1, <2>1, <3>1 DEF Decided, Early, Waits, Open
  <2>3. run'.flag <=> ctx.endReceived /\ ~ IsContinueProcess
      BY <1>1, <2>1, <2>2, Zenon DEF OriginInv
  <2>4. /\ run'.flag => ctx'.state = "over"
        /\ ~ run'.flag => ctx'.state = "live"
      BY <2>1, <2>2, <2>3, Zenon
  <2>5. ctx.state # "gone" /\ ctx'.state # "gone" /\ (run'.flag <=> ctx'.state = "over")
      BY <2>2, <2>4
  <2>6. ~ Early'
      BY <2>1 DEF Early
  <2> QED
      BY <1>1, <2>1, <2>2, <2>5, <2>6, ZenonT(40)
         DEF OriginInv, SameShape, SameInPort, SameThreads, SameInput, SameEnd
<1> QED
    BY <1>2, <1>3

LEMMA OriginSend ==
    ASSUME ContextType, EndInv, kind = "origin", SendAndClean
    PROVE  OriginInv'
<1>1. Waits /\ OriginInv
    BY Zenon DEF EndInv
<1>2. /\ SameShape /\ SameInPort /\ run.pc = "send" /\ run' = Idle /\ SameEnd
      /\ \/ ctx.state = "over" /\ ctx'.state = "gone"
         \/ ctx.state # "over" /\ ctx'.state = ctx.state
    BY SendIs, Zenon
<1>3. events'.next = 0
  <2>1. ~ GenerateSendEvent
      BY DEF GenerateSendEvent
  <2> QED
      BY <1>1, <2>1, SendIs, Zenon DEF OriginInv
<1>4. run'.pc = "idle" /\ ~ run'.flag /\ ~ run'.end
    BY <1>2, IdleIs, Zenon
<1>5. ctx.state # "gone" /\ ~ Early
    BY <1>1, <1>2 DEF Waits, Open, Early
<1>6. (run.flag <=> ctx.state = "over") /\ out[0].ends = 0 /\ ~ out[0].late
    BY <1>1, <1>2, <1>5, Zenon DEF OriginInv
<1>7. 0 \in 0 .. length /\ Stream(EndFlagParent) = 0
    BY DEF ContextType, Stream
<1>8. out'[0].ends = out[0].ends + IF run.flag /\ 0 = Stream(EndFlagParent) THEN 1 ELSE 0
    BY <1>7, SendIs, Zenon
<1>9. ~ out'[0].late
  <2>1. ~ (out[0].ends > 0)
      BY <1>6
  <2> QED
      BY <1>6, <1>7, <2>1, SendIs, Zenon
<1>10. out'[0].ends = IF ctx'.state = "gone" THEN 1 ELSE 0
  <2>1. CASE run.flag
    <3>1. out'[0].ends = 1
        BY <1>6, <1>7, <1>8, <2>1
    <3> QED
        BY <1>2, <1>6, <2>1, <3>1, Zenon
  <2>2. CASE ~ run.flag
    <3>1. out'[0].ends = 0
        BY <1>6, <1>7, <1>8, <2>2
    <3>2. ctx'.state # "gone"
        BY <1>2, <1>5, <1>6, <2>2, Zenon
    <3> QED
        BY <3>1, <3>2, Zenon
  <2> QED
      BY <2>1, <2>2
<1>11. ctx'.state # "gone" => ~ ctx'.generated /\ (ctx'.endReceived => ctx'.endCached)
  <2>1. SUFFICES ASSUME ctx'.state # "gone"
                 PROVE  ~ ctx'.generated /\ (ctx'.endReceived => ctx'.endCached)
      OBVIOUS
  <2>2. ~ run.flag
      BY <1>2, <1>6, <2>1, Zenon
  <2> QED
      BY <1>1, <1>2, <1>5, <2>2, Zenon DEF OriginInv, SameEnd
<1>12. ~ Decided' /\ run'.pc # "send"
    BY <1>4 DEF Decided
<1>13. ctx'.endReceived => given' = length' + 1 /\ waitIn' = 0
    BY <1>1, <1>2, Zenon DEF OriginInv, SameShape, SameInPort, SameEnd
<1> QED
    BY <1>3, <1>4, <1>9, <1>10, <1>11, <1>12, <1>13, ZenonT(40) DEF OriginInv

LEMMA OriginOthers ==
    ASSUME PlainExpand, ContextType, EndInv, kind = "origin", TimerSend \/ TimerInput \/ Close \/ Deliver
    PROVE  OriginInv'
<1>1. Waits /\ OriginInv
    BY Zenon DEF EndInv
<1>2. CASE TimerSend \/ TimerInput
  <2>1. /\ SameShape /\ SameInPort /\ run' = run /\ out' = out /\ closed' = closed
        /\ events'.next = events.next /\ SameEnd /\ ctx'.state = ctx.state /\ ctx'.status = ctx.status
      BY <1>2, TimerIs, Zenon
  <2>2. Decided => (IsContinueProcess' <=> IsContinueProcess)
    <3>1. CASE ctx'.waiting = ctx.waiting
        BY <2>1, <3>1, ContinueSame, Zenon
    <3>2. CASE timers > 0 /\ (~ closed \/ ctx.state = "gone") /\ ctx'.waiting = ctx.waiting + 1
      <4>1. SUFFICES ASSUME Decided PROVE IsContinueProcess' /\ IsContinueProcess
          OBVIOUS
      <4>2. ctx.state # "gone" /\ ctx.status = "continue"
          BY <1>1, <3>2, <4>1 DEF Waits, Open, Decided
      <4> QED
          BY <2>1, <3>2, <4>2, Zenon DEF IsContinueProcess
    <3> QED
        BY <1>2, <3>1, <3>2, TimerIs, Zenon
  <2> QED
      BY <1>1, <2>1, <2>2, ZenonT(40) DEF OriginInv, SameShape, SameInPort, SameEnd, Early, Decided
<1>3. CASE Close
  <2>1. /\ SameShape /\ SameInPort /\ ctx' = ctx /\ run' = run /\ out' = out /\ events'.next = events.next
        /\ run.pc \in {"post", "update"} => kind \in LateClose
      BY <1>3, CloseIs, Zenon
  <2>2. ~ Decided
      BY <2>1, Zenon DEF PlainExpand, Decided
  <2> QED
      BY <1>1, <2>1, <2>2, ZenonT(40) DEF OriginInv, SameShape, SameInPort, Early, Decided
<1>4. CASE Deliver
  <2>1. SameShape /\ SameThreads /\ ctx' = ctx /\ run' = run /\ out' = out /\ given <= length
      BY <1>4, DeliverIs, Zenon
  <2>2. ~ ctx.endReceived
    <3>1. given # length + 1
        BY <2>1 DEF ContextType
    <3> QED
        BY <1>1, <3>1, Zenon DEF OriginInv
  <2>3. IsContinueProcess' <=> IsContinueProcess
      BY <2>1, ContinueSame, Zenon DEF SameThreads
  <2> QED
      BY <1>1, <2>1, <2>2, <2>3, ZenonT(40) DEF OriginInv, SameShape, SameThreads, Early, Decided
<1> QED
    BY <1>2, <1>3, <1>4, Zenon

-----------------------------------------------------------------------------
(* The end flag of an expanded stream becomes a stream without data, when  *)
(* the unit puts nothing out in DataPost.                                  *)

NoLastData ==
    kind = "expand" =>
        /\ ctx.lastValid < length /\ ctx.eventInput < length
        /\ out[length].data = 0
        /\ run.cur = {} \/ \E i \in 0 .. length : run.cur = {i}
        /\ length \in run.cur => run.data = 0 /\ run.valid = {}
        /\ length \in run.cur /\ run.pc \in {"pre", "process"} => run.skip

(* The input of a run of an expand context. *)
OneBuffer ==
    /\ run.cur = {} \/ \E i \in 0 .. length : run.cur = {i}
    /\ length \in run.cur => run.data = 0 /\ run.valid = {}
    /\ length \in run.cur /\ run.pc \in {"pre", "process"} => run.skip

LEMMA NoLastIs ==
    NoLastData <=> (kind = "expand" => /\ ctx.lastValid < length /\ ctx.eventInput < length
                                       /\ out[length].data = 0 /\ OneBuffer)
BY Zenon DEF NoLastData, OneBuffer

LEMMA NoLastKept ==
    ASSUME SameShape, NoLastData,
           kind = "expand" => /\ ctx'.lastValid < length /\ ctx'.eventInput < length
                              /\ out'[length].data = 0 /\ OneBuffer'
    PROVE  NoLastData'
BY NoLastIs, Zenon DEF SameShape, NoLastData, OneBuffer

LEMMA TakeNextLast ==
    ASSUME ContextType, ctx.lastValid < length, NEW got \in Nat, got <= length + 1,
           TakesNext(got), RunStarts, length' = length
    PROVE  ctx'.lastValid < length /\ OneBuffer'
<1>1. /\ length \in Nat /\ ctx.pos \in 0 .. length /\ ctx.preError \in BOOLEAN /\ ctx.lastValid \in Int
  <2>1. length \in Nat /\ ctx \in CtxType
      BY DEF ContextType
  <2>2. ctx.pos \in Nat /\ ctx.preError \in BOOLEAN /\ ctx.lastValid \in Int /\ ctx.pos < got
      BY <2>1, Zenon DEF TakesNext, CtxType
  <2> QED
      BY <2>1, <2>2
<1> DEFINE V == ValidOf(ctx.preError, {ctx.pos})
           U == TakenOf(ctx.preError, {ctx.pos})
<1>2. /\ run'.cur = U /\ run'.valid = V /\ run'.skip = (V = {}) /\ run'.data = 0
      /\ ctx'.lastValid = LastOf(ctx.lastValid, V)
    BY Zenon DEF TakesNext, TakesInput, RunStarts
<1>3. V = {} \/ (V = {ctx.pos} /\ ctx.pos # length)
  <2>1. CASE ctx.preError
      BY <2>1, Zenon DEF ValidOf
  <2>2. CASE ~ ctx.preError
    <3>1. V = {ctx.pos} \ (void \cup {length})
        BY <2>2, Zenon DEF ValidOf
    <3> QED
        BY <3>1
  <2> QED
      BY <2>1, <2>2, Zenon
<1>4. U = {} \/ U = {ctx.pos}
  <2>1. CASE ctx.preError
      BY <2>1, Zenon DEF TakenOf
  <2>2. CASE ~ ctx.preError
      BY <2>2, Zenon DEF TakenOf
  <2> QED
      BY <2>1, <2>2
<1>5. length \in U => V = {}
  <2> HIDE DEF U, V
  <2> QED
      BY <1>3, <1>4
<1>6. ctx'.lastValid < length
  <2>1. CASE V = {}
      BY <1>2, <2>1, Zenon DEF LastOf
  <2>2. CASE V = {ctx.pos} /\ ctx.pos # length
    <3>1. V # {} /\ Max(V) = ctx.pos
      <4>1. ctx.pos \in Nat
          BY <1>1
      <4> QED
          BY <2>2, <4>1, MaxOne, Zenon
    <3>2. ctx'.lastValid = ctx.pos
        BY <1>2, <3>1, Zenon DEF LastOf
    <3> QED
        BY <1>1, <2>2, <3>2
  <2> QED
      BY <1>3, <2>1, <2>2, Zenon
<1> HIDE DEF U, V
<1>7. run'.cur = {} \/ \E i \in 0 .. length : run'.cur = {i}
    BY <1>1, <1>2, <1>4, Zenon
<1>8. /\ length \in run'.cur => run'.data = 0 /\ run'.valid = {}
      /\ length \in run'.cur => run'.skip
    BY <1>2, <1>5, Zenon
<1>9. OneBuffer'
    BY <1>7, <1>8, Zenon DEF OneBuffer
<1> QED
    BY <1>6, <1>9, Zenon

LEMMA NoInputLast ==
    ASSUME run'.cur = {}
    PROVE  OneBuffer'
BY Zenon DEF OneBuffer

LEMMA SameInputLast ==
    ASSUME OneBuffer, SameInput, length' = length, length \in run.cur => run'.data = 0,
           run'.pc \notin {"pre", "process"} \/ (run.pc \in {"pre", "process"} /\ (run.skip => run'.skip))
    PROVE  OneBuffer'
BY Zenon DEF OneBuffer, SameInput

LEMMA NoLastRecv ==
    ASSUME ContextType, NoLastData, RecvData \/ RecvEvent
    PROVE  NoLastData'
<1>1. CASE RecvData
  <2>1. SameShape /\ out' = out /\ RunStarts
      BY <1>1, RecvDataIs, Zenon DEF SameShape
  <2>2. ASSUME kind = "expand"
        PROVE  ctx'.lastValid < length /\ ctx'.eventInput < length /\ out'[length].data = 0 /\ OneBuffer'
    <3>1. ctx.lastValid < length /\ ctx.eventInput < length /\ out[length].data = 0
        BY <2>2, NoLastIs, Zenon
    <3>2. kind # "origin"
        BY <2>2
    <3>3. CASE TakesNext(given)
      <4>1. given \in Nat /\ given <= length + 1
          BY Zenon DEF ContextType
      <4>2. ctx'.lastValid < length /\ OneBuffer'
          BY <2>1, <3>1, <3>3, <4>1, TakeNextLast, Zenon DEF SameShape
      <4> QED
          BY <2>1, <3>1, <4>2, Zenon DEF RunStarts
    <3>4. CASE TakesNone(TRUE)
        BY <2>1, <3>1, <3>4, NoInputLast, Zenon DEF TakesNone, RunStarts
    <3> QED
        BY <1>1, <3>2, <3>3, <3>4, RecvDataIs, Zenon
  <2> QED
      BY <2>1, <2>2, NoLastKept, Zenon
<1>2. CASE RecvEvent /\ ctx.state = "live"
  <2>1. SameShape /\ out' = out /\ RunStarts
      BY <1>2, RecvEventIs, Zenon DEF SameShape
  <2>2. ASSUME kind = "expand"
        PROVE  ctx'.lastValid < length /\ ctx'.eventInput < length /\ out'[length].data = 0 /\ OneBuffer'
    <3>1. ctx.lastValid < length /\ ctx.eventInput < length /\ out[length].data = 0
        BY <2>2, NoLastIs, Zenon
    <3>3. CASE TakesNext(given - waitIn)
      <4>1. given - waitIn \in Nat /\ given - waitIn <= length + 1
          BY DEF ContextType
      <4>2. ctx'.lastValid < length /\ OneBuffer'
          BY <2>1, <3>1, <3>3, <4>1, TakeNextLast, Zenon DEF SameShape
      <4> QED
          BY <2>1, <3>1, <4>2, Zenon DEF RunStarts
    <3>4. ASSUME NEW s, TakesNone(s)
          PROVE  ctx'.lastValid < length /\ ctx'.eventInput < length /\ out'[length].data = 0 /\ OneBuffer'
        BY <2>1, <3>1, <3>4, NoInputLast, Zenon DEF TakesNone, RunStarts
    <3> QED
        BY <1>2, <3>3, <3>4, RecvEventIs, ZenonT(40)
  <2> QED
      BY <2>1, <2>2, NoLastKept, Zenon
<1>3. CASE RecvEvent /\ ctx.state # "live"
  <2>1. SameShape /\ ctx' = ctx /\ run' = run /\ out' = out
      BY <1>3, DroppedIs, Zenon
  <2> QED
      BY <2>1, Zenon DEF SameShape, NoLastData
<1> QED
    BY <1>1, <1>2, <1>3, Zenon

LEMMA NoLastStages ==
    ASSUME ContextType, NoLastData, "expand" \notin PostEmits,
           PreProcess \/ Process \/ PostProcess \/ DataPost \/ UpdateProcessState
    PROVE  NoLastData'
<1>1. /\ SameShape /\ out' = out
    BY PreIs, ProcessIs, PostIs, DataPostIs, UpdateIs, Zenon
<1>2. SUFFICES ASSUME kind = "expand"
               PROVE  ctx'.lastValid < length /\ ctx'.eventInput < length /\ OneBuffer'
    BY <1>1, NoLastKept, NoLastIs, Zenon
<1>3. ctx.lastValid < length /\ ctx.eventInput < length /\ OneBuffer /\ length' = length
    BY <1>1, <1>2, NoLastIs, Zenon DEF SameShape
<1>4. CASE PreProcess
  <2>1. /\ SameInput /\ SameDriving /\ run.pc = "pre"
        /\ (run'.skip = run.skip /\ run'.data = run.data)
           \/ (run'.skip = TRUE /\ run'.data = IF run.valid = {} THEN 0 ELSE 1)
      BY <1>4, PreIs, Zenon
  <2>2. (run.skip => run'.skip) /\ (length \in run.cur => run'.data = 0)
      BY <1>3, <2>1, Zenon DEF OneBuffer
  <2>3. OneBuffer'
      BY <1>3, <2>1, <2>2, SameInputLast, Zenon
  <2> QED
      BY <1>3, <2>1, <2>3, Zenon DEF SameDriving
<1>5. CASE Process
  <2>1. /\ SameInput /\ run.pc = "process" /\ run'.pc = "endflag"
        /\ ctx'.lastValid = ctx.lastValid /\ run.skip => run'.data = run.data
        /\ ctx'.eventInput = ctx.eventInput \/ ctx'.eventInput = EventInput
    <3>1. SameInput /\ run.pc = "process" /\ run'.pc = "endflag" /\ ctx'.lastValid = ctx.lastValid
        BY <1>5, ProcessIs, Zenon
    <3>2. run.skip => run'.data = run.data
        BY <1>5, ProcessIs, Zenon
    <3>3. ctx'.eventInput = ctx.eventInput \/ ctx'.eventInput = EventInput
        BY <1>5, ProcessIs, Zenon DEF SameDriving
    <3> QED
        BY <3>1, <3>2, <3>3, Zenon
  <2>2. length \in run.cur => run'.data = 0
      BY <1>3, <1>5, <2>1, ProcessIs, Zenon DEF OneBuffer
  <2>3. OneBuffer'
    <3>1. run'.pc \notin {"pre", "process"}
        BY <2>1
    <3> QED
        BY <1>3, <2>1, <2>2, <3>1, SameInputLast, Zenon
  <2>4. EventInput < length
      BY <1>3, Zenon DEF EventInput
  <2> QED
      BY <1>3, <1>5, <2>1, <2>3, <2>4, ProcessIs, Zenon
<1>6. CASE PostProcess
  <2>1. SameDriving /\ (run' = Idle \/ (run'.pc = "post" /\ SameInput
                            /\ (run.cur \cap void = {} => run'.data = run.data)))
      BY <1>6, PostIs, Zenon
  <2>2. CASE run' = Idle
      BY <1>3, <2>1, <2>2, IdleIs, NoInputLast, Zenon DEF SameDriving
  <2>3. CASE run'.pc = "post" /\ SameInput /\ (run.cur \cap void = {} => run'.data = run.data)
    <3>1. ASSUME length \in run.cur PROVE run.cur \cap void = {}
      <4>1. run.cur = {length}
          BY <1>3, <3>1, Zenon DEF OneBuffer
      <4>2. length \notin void
          BY DEF ContextType
      <4> QED
          BY <4>1, <4>2, Zenon
    <3>2. length \in run.cur => run'.data = 0
        BY <1>3, <2>3, <3>1, Zenon DEF OneBuffer
    <3>3. run'.pc \notin {"pre", "process"}
        BY <2>3
    <3>4. OneBuffer'
        BY <1>3, <2>3, <3>2, <3>3, SameInputLast, Zenon
    <3> QED
        BY <1>3, <2>1, <3>4, Zenon DEF SameDriving
  <2> QED
      BY <2>1, <2>2, <2>3, Zenon
<1>7. CASE DataPost
  <2>1. ctx' = ctx /\ run'.pc = "update" /\ SameInput /\ run'.data = run.data
      BY <1>2, <1>7, DataPostIs, Zenon
  <2>2. run'.pc \notin {"pre", "process"}
      BY <2>1
  <2> QED
      BY <1>3, <2>1, <2>2, SameInputLast, Zenon DEF OneBuffer
<1>8. CASE UpdateProcessState
  <2>1. SameDriving /\ run'.pc = "send" /\ SameInput /\ run'.data = run.data
      BY <1>8, UpdateIs, Zenon
  <2>2. run'.pc \notin {"pre", "process"}
      BY <2>1
  <2> QED
      BY <1>3, <2>1, <2>2, SameInputLast, Zenon DEF OneBuffer, SameDriving
<1> QED
    BY <1>4, <1>5, <1>6, <1>7, <1>8, Zenon

LEMMA NoLastSend ==
    ASSUME ContextType, NoLastData, SendAndClean
    PROVE  NoLastData'
<1>1. SameShape /\ run' = Idle
    BY SendIs, Zenon
<1>2. SUFFICES ASSUME kind = "expand"
               PROVE  ctx'.lastValid < length /\ ctx'.eventInput < length /\ OneBuffer'
                      /\ out'[length].data = 0
    BY <1>1, NoLastKept, Zenon
<1>3. ctx.lastValid < length /\ ctx.eventInput < length /\ OneBuffer /\ out[length].data = 0
    BY <1>2, NoLastIs, Zenon
<1>4. length \in Nat /\ None < length /\ length \in 0 .. length
    BY DEF ContextType, None
<1>5. ctx'.lastValid < length /\ ctx'.eventInput < length
    BY <1>3, <1>4, SendIs, Zenon DEF SameDriving
<1>6. OneBuffer'
    BY <1>1, IdleIs, NoInputLast, Zenon
<1>7. out'[length].data = out[length].data + IF length = Stream(Parent) THEN run.data ELSE 0
    BY <1>4, SendIs, Zenon
<1>8. length = Stream(Parent) => run.data = 0
  <2>1. Stream(Parent) = Parent
      BY <1>2 DEF Stream
  <2>2. CASE run.cur = {}
    <3>1. Parent = ctx.eventInput
        BY <2>2, Zenon DEF Parent
    <3>2. ctx.eventInput \in Int
        BY DEF ContextType, CtxType
    <3> QED
        BY <1>3, <1>4, <2>1, <3>1, <3>2
  <2>3. CASE run.cur # {}
    <3>1. Parent = Max(run.cur) /\ run.cur \in SUBSET (0 .. length)
        BY <2>3, Zenon DEF Parent, ContextType, RunType
    <3>2. Max(run.cur) \in run.cur
        BY <1>4, <2>3, <3>1, MaxIs, Zenon
    <3> QED
        BY <1>3, <2>1, <3>1, <3>2, Zenon DEF OneBuffer
  <2> QED
      BY <2>2, <2>3
<1>9. out'[length].data = 0
    BY <1>3, <1>7, <1>8
<1> QED
    BY <1>5, <1>6, <1>9, Zenon

LEMMA NoLastOthers ==
    ASSUME ContextType, NoLastData, TimerSend \/ TimerInput \/ Close \/ Deliver
    PROVE  NoLastData'
<1>1. CASE TimerSend \/ TimerInput
  <2>1. /\ SameShape /\ run' = run /\ out' = out /\ ctx'.lastValid = ctx.lastValid
        /\ ctx'.eventInput = ctx.eventInput \/ ctx'.eventInput = EventInput
      BY <1>1, TimerIs, Zenon
  <2> QED
      BY <2>1, NoLastKept, NoLastIs, Zenon DEF EventInput, OneBuffer, SameShape
<1>2. CASE Close
    BY <1>2, CloseIs, Zenon DEF SameShape, NoLastData
<1>3. CASE Deliver
    BY <1>3, DeliverIs, Zenon DEF SameShape, NoLastData
<1> QED
    BY <1>1, <1>2, <1>3, Zenon

LEMMA NoLastNext ==
    ASSUME ContextType, NoLastData, "expand" \notin PostEmits, ContextNext
    PROVE  NoLastData'
BY NoLastRecv, NoLastStages, NoLastSend, NoLastOthers, Zenon DEF ContextNext, NodeStep


-----------------------------------------------------------------------------
(* The collapse node. *)

PieceType == [data : Nat, end : BOOLEAN]
CacheType == [0 .. length -> PieceType]

(* What was put out comes before the stream that is collapsed, but for the *)
(* one buffer of that stream itself.                                       *)
Ordered(s, order, count) ==
    /\ s \in Seq(0 .. length)
    /\ \A k \in 1 .. Len(s) : s[k] <= order /\ (count = 0 => s[k] < order)
    /\ \A i, j \in 1 .. Len(s) : i < j => s[i] < s[j]

CollapseInv ==
    /\ taken \in CacheType /\ gather.cache \in CacheType
    /\ gather.order \in 0 .. length + 1 /\ gather.count \in {0, 1}
    /\ gather.state \in {"none", "live", "gone"}
    /\ gather.state = "live" => kind = "expand"
    /\ gather.state # "gone" => gather.order <= length
    /\ gather.order >= length => gather.count = 0
    /\ gather.cache[length].data = 0
    /\ \A i \in 0 .. length : taken[i].data <= out[i].data
    /\ Ordered(collapsed, gather.order, gather.count)

(* The sequence t is s with n copies of o after it. *)
Extends(t, s, n, o, T) ==
    /\ t \in Seq(T) /\ Len(s) \in Nat /\ Len(t) = Len(s) + n
    /\ \A k \in 1 .. Len(s) : t[k] = s[k]
    /\ n = 1 => t[Len(s) + 1] = o

LEMMA AppendCopies ==
    ASSUME NEW T, NEW s \in Seq(T), NEW n \in {0, 1}, NEW o \in T
    PROVE  Extends(s \o [k \in 1 .. n |-> o], s, n, o, T)
<1> DEFINE c == [k \in 1 .. n |-> o]
           t == s \o c
<1>1. c \in Seq(T) /\ Len(c) = n /\ \A k \in 1 .. n : c[k] = o
    OBVIOUS
<1>2. Len(s) \in Nat
    OBVIOUS
<1> HIDE DEF c
<1>3. /\ t \in Seq(T) /\ Len(t) = Len(s) + Len(c)
      /\ \A i \in 1 .. Len(s) + Len(c) : t[i] = IF i <= Len(s) THEN s[i] ELSE c[i - Len(s)]
    BY <1>1
<1> HIDE DEF t
<1>4. \A k \in 1 .. Len(s) : t[k] = s[k]
    BY <1>1, <1>2, <1>3
<1>5. n = 1 => t[Len(s) + 1] = o
    BY <1>1, <1>2, <1>3
<1> QED
    BY <1>1, <1>2, <1>3, <1>4, <1>5, Zenon DEF t, c, Extends

LEMMA OrderKept ==
    ASSUME NEW s, length \in Nat, NEW order \in 0 .. length, NEW count \in {0, 1}, Ordered(s, order, count),
           NEW n \in {0, 1}, n = 1 => count = 0, NEW end \in BOOLEAN, NEW o2, NEW c2,
           o2 = IF end THEN order + 1 ELSE order,
           c2 = IF end THEN 0 ELSE count + n
    PROVE  Ordered(s \o [k \in 1 .. n |-> order], o2, c2)
<1> DEFINE t == s \o [k \in 1 .. n |-> order]
<1>1. s \in Seq(0 .. length)
    BY Zenon DEF Ordered
<1>2. /\ t \in Seq(0 .. length) /\ Len(s) \in Nat /\ Len(t) = Len(s) + n
      /\ \A k \in 1 .. Len(s) : t[k] = s[k]
      /\ n = 1 => t[Len(s) + 1] = order
  <2>1. Extends(t, s, n, order, 0 .. length)
      BY <1>1, AppendCopies, Zenon
  <2> HIDE DEF t
  <2> QED
      BY <2>1, Zenon DEF Extends
<1> HIDE DEF t
<1>3. \A k \in 1 .. Len(s) : s[k] \in 0 .. length
    BY <1>1
<1>4. ASSUME NEW k \in 1 .. Len(t) PROVE k \in 1 .. Len(s) \/ (n = 1 /\ k = Len(s) + 1)
    BY <1>2
<1>5. ASSUME NEW k \in 1 .. Len(t) PROVE t[k] <= o2 /\ (c2 = 0 => t[k] < o2)
  <2>1. CASE k \in 1 .. Len(s)
    <3>1. t[k] = s[k] /\ s[k] <= order /\ (count = 0 => s[k] < order) /\ s[k] \in Nat
        BY <1>2, <1>3, <2>1 DEF Ordered
    <3> QED
        BY <3>1
  <2>2. CASE n = 1 /\ k = Len(s) + 1
    <3>1. t[k] = order
        BY <1>2, <2>2, Zenon
    <3> QED
        BY <2>2, <3>1
  <2> QED
      BY <1>4, <2>1, <2>2
<1>6. ASSUME NEW i \in 1 .. Len(t), NEW j \in 1 .. Len(t), i < j PROVE t[i] < t[j]
  <2>1. i \in 1 .. Len(s)
      BY <1>2, <1>6
  <2>2. t[i] = s[i]
      BY <1>2, <2>1, Zenon
  <2>3. CASE j \in 1 .. Len(s)
      BY <1>2, <1>6, <2>1, <2>2, <2>3, Zenon DEF Ordered
  <2>4. CASE n = 1 /\ j = Len(s) + 1
      BY <1>2, <2>1, <2>2, <2>4, Zenon DEF Ordered
  <2> QED
      BY <1>4, <2>3, <2>4, Zenon
<1>7. Ordered(t, o2, c2)
    BY <1>2, <1>5, <1>6, Zenon DEF Ordered
<1> QED
    BY <1>7, Zenon DEF t

(* A run puts out a buffer of a stream once, and none of the last stream. *)
LEMMA PutIs ==
    ASSUME length \in Nat, void \in SUBSET (0 .. length - 1), gather.count \in {0, 1},
           NEW cur \in PieceType, NEW total, NEW put \in MayPut(cur, total)
    PROVE  /\ put \in {0, 1} /\ (put = 1 => gather.count = 0)
           /\ gather.order = length /\ cur.data = 0 /\ total = 0 => put = 0
           /\ gather.count = 0 /\ gather.order \in void /\ cur.data > 0 => put = 1
           /\ gather.count = 0 /\ gather.order \notin void /\ cur.end /\ total > 0 /\ ~ Silent => put = 1
<1>1. CASE gather.order \in void
  <2>1. put = IF cur.data > 0 /\ gather.count = 0 THEN 1 ELSE 0
      BY <1>1, Zenon DEF MayPut
  <2> QED
      BY <1>1, <2>1
<1>2. CASE gather.order \notin void
  <2>1. /\ put \in 0 .. 1 /\ (put = 1 => gather.count = 0)
        /\ (put = 1 => cur.data > 0 \/ (cur.end /\ total > 0))
        /\ (cur.end /\ total > 0 /\ gather.count = 0 /\ ~ Silent => put = 1)
      BY <1>2, Zenon DEF MayPut
  <2> QED
      BY <1>2, <2>1
<1> QED
    BY <1>1, <1>2

(* The run of the collapse node, for all that is cached: it puts out n     *)
(* buffers of the stream it is at, or the end flag of the last.            *)
LEMMA RunIs ==
    ASSUME ContextType, CollapseInv, gather.state \in {"none", "live"},
           NEW cache \in CacheType, cache[length].data = 0,
           NEW total, total[length] = 0, NEW events0, CollapseRun(cache, total, events0)
    PROVE  LET order == gather.order
               cur == cache[order]
           IN  /\ order \in 0 .. length /\ gather.count \in {0, 1}
               /\ \E n \in {0, 1} :
                    /\ n = 1 => gather.count = 0
                    /\ order = length => gather.count = 0 /\ (~ cur.end => n = 0)
                    /\ gather.count = 0 /\ order \in void /\ cur.data > 0 => n = 1
                    /\ gather.count = 0 /\ order \notin void /\ cur.end /\ total[order] > 0
                           /\ ~ Silent => n = 1
                    /\ gather' = [state |-> IF cur.end /\ order = length THEN "gone" ELSE "live",
                                  order |-> IF cur.end THEN order + 1 ELSE order,
                                  count |-> IF cur.end THEN 0 ELSE gather.count + n,
                                  cache |-> [cache EXCEPT ![order] = NoPiece]]
                    /\ collapsed' = collapsed \o [k \in 1 .. n |-> order]
<1> DEFINE order == gather.order
           cur == cache[order]
           flag == IF cur.end /\ order = length THEN 1 ELSE 0
<1>1. /\ length \in Nat /\ void \in SUBSET (0 .. length - 1) /\ gather.count \in {0, 1}
      /\ order \in 0 .. length /\ (order = length => gather.count = 0)
    <2>1. length \in Nat /\ void \in SUBSET (0 .. length - 1)
        BY Zenon DEF ContextType
    <2>2. /\ gather.count \in {0, 1} /\ order \in 0 .. length + 1 /\ order <= length
          /\ order >= length => gather.count = 0
      <3>1. gather.state # "gone"
          OBVIOUS
      <3> QED
          BY <3>1, Zenon DEF CollapseInv
    <2> QED
        BY <2>1, <2>2
<1>2. cur \in PieceType
    BY <1>1, Zenon DEF CacheType
<1>3. PICK put \in MayPut(cur, total[order]) :
        LET count == gather.count + put + flag
        IN  IF ~CheckOutputData(count)
            THEN /\ gather' = [gather EXCEPT !.state = "stop"]
                 /\ nextEvents' = events0
                 /\ UNCHANGED collapsed
            ELSE /\ gather' = [state |-> IF flag = 1 THEN "gone" ELSE "live",
                               order |-> IF cur.end THEN gather.order + 1 ELSE gather.order,
                               count |-> IF cur.end THEN 0 ELSE count,
                               cache |-> [cache EXCEPT ![order] = NoPiece]]
                 /\ nextEvents' = events0 + NextStreamEvent(cur)
                 /\ collapsed' = collapsed \o [k \in 1 .. put + flag |-> order]
    BY Zenon DEF CollapseRun, CollapseNextStream
<1>4. /\ put \in {0, 1} /\ (put = 1 => gather.count = 0)
      /\ order = length /\ cur.data = 0 /\ total[order] = 0 => put = 0
      /\ gather.count = 0 /\ order \in void /\ cur.data > 0 => put = 1
      /\ gather.count = 0 /\ order \notin void /\ cur.end /\ total[order] > 0 /\ ~ Silent => put = 1
  <2> HIDE DEF cur
  <2> QED
      BY <1>1, <1>2, <1>3, PutIs, Zenon
<1>5. order = length => put = 0
    BY <1>4, Zenon
<1>6. flag \in {0, 1} /\ (flag = 1 <=> cur.end /\ order = length)
    OBVIOUS
<1>7. cur.end \in BOOLEAN
    BY <1>2 DEF PieceType
<1> DEFINE n == put + flag
<1> HIDE DEF flag, cur
<1>8. /\ n \in {0, 1} /\ (n = 1 => gather.count = 0) /\ (put = 1 => n = 1)
      /\ gather.count + put + flag = gather.count + n /\ gather.count + n \in {0, 1}
      /\ (order = length /\ ~ cur.end => n = 0)
    BY <1>1, <1>4, <1>5, <1>6, <1>7
<1>9. CheckOutputData(gather.count + put + flag)
    BY <1>8 DEF CheckOutputData
<1> DEFINE s2 == IF cur.end /\ order = length THEN "gone" ELSE "live"
           o2 == IF cur.end THEN order + 1 ELSE order
           c2 == IF cur.end THEN 0 ELSE gather.count + n
           k2 == [cache EXCEPT ![order] = NoPiece]
<1>10. /\ gather' = [state |-> s2, order |-> o2, count |-> c2, cache |-> k2]
       /\ collapsed' = collapsed \o [k \in 1 .. n |-> order]
    BY <1>3, <1>6, <1>8, <1>9, Zenon
<1> HIDE DEF n
<1>11. \E m \in {0, 1} :
         /\ m = 1 => gather.count = 0
         /\ order = length => gather.count = 0 /\ (~ cur.end => m = 0)
         /\ gather.count = 0 /\ order \in void /\ cur.data > 0 => m = 1
         /\ gather.count = 0 /\ order \notin void /\ cur.end /\ total[order] > 0
                /\ ~ Silent => m = 1
         /\ gather' = [state |-> s2, order |-> o2,
                       count |-> IF cur.end THEN 0 ELSE gather.count + m, cache |-> k2]
         /\ collapsed' = collapsed \o [k \in 1 .. m |-> order]
    BY <1>1, <1>4, <1>8, <1>10, ZenonT(40)
<1> QED
    BY <1>1, <1>11, Zenon DEF cur

LEMMA RunKeeps ==
    ASSUME ContextType, CollapseInv, gather.state \in {"none", "live"},
           NEW cache \in CacheType, cache[length].data = 0,
           NEW total, total[length] = 0, NEW events0, CollapseRun(cache, total, events0)
    PROVE  /\ gather'.cache \in CacheType /\ gather'.cache[length].data = 0
           /\ gather'.order \in 0 .. length + 1 /\ gather'.count \in {0, 1}
           /\ gather'.state \in {"live", "gone"}
           /\ gather'.state # "gone" => gather'.order <= length
           /\ gather'.order >= length => gather'.count = 0
           /\ Ordered(collapsed', gather'.order, gather'.count)
<1> DEFINE order == gather.order
           end == cache[order].end
<1>1. length \in Nat /\ order \in 0 .. length /\ gather.count \in {0, 1}
    BY RunIs, Zenon DEF ContextType
<1>2. end \in BOOLEAN
  <2>1. cache[order] \in PieceType
      BY <1>1, Zenon DEF CacheType
  <2> QED
      BY <2>1 DEF PieceType
<1> DEFINE s2 == IF end /\ order = length THEN "gone" ELSE "live"
           o2 == IF end THEN order + 1 ELSE order
           c2(n) == IF end THEN 0 ELSE gather.count + n
           k2 == [cache EXCEPT ![order] = NoPiece]
<1>3. PICK n \in {0, 1} :
        /\ n = 1 => gather.count = 0
        /\ order = length => gather.count = 0 /\ (~ end => n = 0)
        /\ gather' = [state |-> s2, order |-> o2, count |-> c2(n), cache |-> k2]
        /\ collapsed' = collapsed \o [k \in 1 .. n |-> order]
    BY RunIs, Zenon
<1> HIDE DEF end
<1>4. s2 \in {"live", "gone"} /\ o2 \in 0 .. length + 1 /\ c2(n) \in {0, 1}
       /\ (s2 # "gone" => o2 <= length) /\ (o2 >= length => c2(n) = 0)
  <2>1. s2 \in {"live", "gone"} /\ o2 \in 0 .. length + 1 /\ c2(n) \in {0, 1}
      BY <1>1, <1>2, <1>3
  <2>2. s2 # "gone" => o2 <= length
      BY <1>1
  <2>3. o2 >= length => c2(n) = 0
      BY <1>1, <1>3
  <2> QED
      BY <2>1, <2>2, <2>3
<1>5. k2 \in CacheType /\ k2[length].data = 0
  <2>1. NoPiece \in PieceType /\ NoPiece.data = 0
      BY DEF NoPiece, PieceType
  <2>2. k2 \in CacheType
      BY <1>1, <2>1, Zenon DEF CacheType
  <2>3. length \in 0 .. length
      BY <1>1
  <2>4. k2[length] = IF length = order THEN NoPiece ELSE cache[length]
      BY <2>3, Zenon DEF CacheType
  <2> QED
      BY <2>1, <2>2, <2>4, Zenon
<1>6. Ordered(collapsed, gather.order, gather.count)
    BY Zenon DEF CollapseInv
<1> HIDE DEF s2, k2
<1>7. Ordered(collapsed \o [k \in 1 .. n |-> order], o2, c2(n))
  <2>1. o2 = (IF end THEN order + 1 ELSE order) /\ c2(n) = IF end THEN 0 ELSE gather.count + n
      OBVIOUS
  <2> HIDE DEF o2, c2
  <2> QED
      BY <1>1, <1>2, <1>3, <1>6, <2>1, OrderKept, ZenonT(40)
<1> HIDE DEF o2, c2
<1>8. gather'.state = s2 /\ gather'.order = o2 /\ gather'.count = c2(n) /\ gather'.cache = k2
    BY <1>3
<1> QED
    BY <1>3, <1>4, <1>5, <1>7, <1>8, Zenon

LEMMA CollapseKept ==
    ASSUME CollapseInv, SameShape, UNCHANGED collapse,
           \A i \in 0 .. length : taken[i].data <= out'[i].data
    PROVE  CollapseInv'
BY Zenon DEF CollapseInv, collapse, SameShape, CacheType, PieceType, Ordered

LEMMA ContextSame ==
    ASSUME ContextType, UNCHANGED contextVars
    PROVE  SameShape /\ out' = out
BY ContextStutter, Zenon

(* What a run takes of the stream i, and what is cached of it then. *)
Takes(i, t, c) ==
    \/ t = taken[i] /\ c = gather.cache[i]
    \/ /\ t.data = out[i].data /\ t.end = (out[i].ends > 0)
       /\ c.data = gather.cache[i].data + (out[i].data - taken[i].data)
       /\ c.end = (gather.cache[i].end \/ (out[i].ends > 0 /\ ~ taken[i].end))

LEMMA DataIs ==
    ASSUME ContextType, NoLastData, CollapseInv, CollapseData
    PROVE  /\ kind = "expand" /\ gather.state \in {"none", "live"} /\ UNCHANGED contextVars
           /\ taken' \in CacheType
           /\ \E cache \in CacheType : \E total :
                /\ cache[length].data = 0 /\ total[length] = 0
                /\ CollapseRun(cache, total, nextEvents)
                /\ \A i \in 0 .. length :
                     /\ taken'[i].data <= out[i].data /\ total[i] = taken'[i].data
                     /\ Takes(i, taken'[i], cache[i])
<1>1. /\ kind = "expand" /\ gather.state \in {"none", "live"} /\ UNCHANGED contextVars
    BY Zenon DEF CollapseData
<1>2. PICK came \in (SUBSET {i \in 0 .. length : Arrived(i) # NoPiece}) \ {{}} :
        LET took == [i \in 0 .. length |->
                       IF i \in came THEN [data |-> out[i].data, end |-> out[i].ends > 0]
                       ELSE taken[i]]
        IN  /\ taken' = took
            /\ CollapseRun([i \in 0 .. length |-> IF i \in came THEN AppendToCache(i)
                                                  ELSE gather.cache[i]],
                           [i \in 0 .. length |-> took[i].data], nextEvents)
    BY Zenon DEF CollapseData
<1> DEFINE new(i) == IF i \in came THEN [data |-> out[i].data, end |-> out[i].ends > 0] ELSE taken[i]
           took == [i \in 0 .. length |-> new(i)]
           piece(i) == IF i \in came THEN AppendToCache(i) ELSE gather.cache[i]
           cache == [i \in 0 .. length |-> piece(i)]
           total == [i \in 0 .. length |-> took[i].data]
<1>3. taken' = took /\ CollapseRun(cache, total, nextEvents)
    BY <1>2, Zenon
<1>4. length \in Nat /\ out \in [0 .. length -> OutType]
    BY Zenon DEF ContextType
<1>5. ASSUME NEW i \in 0 .. length
      PROVE  /\ new(i) \in PieceType /\ new(i).data <= out[i].data /\ piece(i) \in PieceType
             /\ i = length => new(i).data = 0 /\ piece(i).data = 0
             /\ Takes(i, new(i), piece(i))
  <2>1. /\ out[i].data \in Nat /\ out[i].ends \in Nat /\ taken[i].data \in Nat /\ taken[i].end \in BOOLEAN
        /\ gather.cache[i].data \in Nat /\ gather.cache[i].end \in BOOLEAN
        /\ taken[i] \in PieceType /\ gather.cache[i] \in PieceType /\ taken[i].data <= out[i].data
    <3>1. taken[i] \in PieceType /\ gather.cache[i] \in PieceType /\ taken[i].data <= out[i].data
        BY Zenon DEF CollapseInv, CacheType
    <3> QED
        BY <1>4, <3>1 DEF PieceType, OutType
  <2>2. i = length => out[i].data = 0 /\ gather.cache[i].data = 0
      BY <1>1, NoLastIs, Zenon DEF CollapseInv
  <2>3. CASE i \in came
    <3>1. new(i) = [data |-> out[i].data, end |-> out[i].ends > 0] /\ piece(i) = AppendToCache(i)
        BY <2>3, Zenon
    <3> DEFINE d == out[i].data - taken[i].data
               g == out[i].ends > 0 /\ ~taken[i].end
    <3>2. Arrived(i).data = d /\ Arrived(i).end = g
        BY DEF Arrived
    <3>3. d \in Nat /\ (i = length => d = 0) /\ g \in BOOLEAN
        BY <2>1, <2>2
    <3> HIDE DEF d, g
    <3>4. piece(i) = [data |-> gather.cache[i].data + d, end |-> gather.cache[i].end \/ g]
        BY <3>1, <3>2, Zenon DEF AppendToCache
    <3> HIDE DEF new, piece
    <3>5. piece(i) \in PieceType /\ (i = length => piece(i).data = 0)
        BY <2>1, <2>2, <3>3, <3>4 DEF PieceType
    <3>6. new(i) \in PieceType /\ new(i).data = out[i].data /\ new(i).end = (out[i].ends > 0)
        BY <2>1, <3>1 DEF PieceType
    <3>7. piece(i).data = gather.cache[i].data + d /\ piece(i).end = (gather.cache[i].end \/ g)
        BY <3>4
    <3>8. Takes(i, new(i), piece(i))
        BY <3>6, <3>7, Zenon DEF Takes, d, g
    <3> QED
        BY <2>1, <2>2, <3>5, <3>6, <3>8
  <2>4. CASE i \notin came
    <3>1. new(i) = taken[i] /\ piece(i) = gather.cache[i]
        BY <2>4, Zenon
    <3>2. Takes(i, new(i), piece(i))
        BY <3>1, Zenon DEF Takes
    <3> HIDE DEF new, piece
    <3> QED
        BY <2>1, <2>2, <3>1, <3>2
  <2> QED
      BY <2>3, <2>4
<1> HIDE DEF new, piece
<1>6. took \in CacheType /\ cache \in CacheType
    BY <1>5, Zenon DEF CacheType
<1>7. \A i \in 0 .. length : took[i] = new(i) /\ cache[i] = piece(i) /\ total[i] = new(i).data
    OBVIOUS
<1>8. length \in 0 .. length
    BY <1>4
<1>9. cache[length].data = 0 /\ total[length] = 0
    BY <1>5, <1>7, <1>8, Zenon
<1> HIDE DEF took, cache, total
<1>10. \A i \in 0 .. length : /\ taken'[i].data <= out[i].data /\ total[i] = taken'[i].data
                               /\ Takes(i, taken'[i], cache[i])
    BY <1>3, <1>5, <1>7, Zenon
<1> QED
    BY <1>1, <1>3, <1>6, <1>9, <1>10, Zenon

LEMMA CollapseDataStep ==
    ASSUME ContextType, NoLastData, CollapseInv, CollapseData
    PROVE  CollapseInv'
<1>1. /\ kind = "expand" /\ gather.state \in {"none", "live"} /\ UNCHANGED contextVars
      /\ taken' \in CacheType
    BY DataIs, Zenon
<1>2. PICK cache, total :
        /\ cache \in CacheType /\ cache[length].data = 0 /\ total[length] = 0
        /\ CollapseRun(cache, total, nextEvents)
        /\ \A i \in 0 .. length : taken'[i].data <= out[i].data
    BY DataIs, Zenon
<1>3. /\ gather'.cache \in CacheType /\ gather'.cache[length].data = 0
      /\ gather'.order \in 0 .. length + 1 /\ gather'.count \in {0, 1}
      /\ gather'.state \in {"live", "gone"}
      /\ gather'.state # "gone" => gather'.order <= length
      /\ gather'.order >= length => gather'.count = 0
      /\ Ordered(collapsed', gather'.order, gather'.count)
    BY <1>1, <1>2, RunKeeps, Zenon
<1>4. SameShape /\ out' = out
    BY <1>1, ContextSame, Zenon
<1>5. Ordered(collapsed, gather.order, gather.count)' /\ CacheType' = CacheType
    BY <1>3, <1>4, Zenon DEF Ordered, SameShape, CacheType, PieceType
<1>6. kind' = "expand" /\ length' = length
    BY <1>1, <1>4, Zenon DEF SameShape
<1>7. gather'.state \in {"none", "live", "gone"}
    BY <1>3
<1> QED
    BY <1>1, <1>2, <1>3, <1>4, <1>5, <1>6, <1>7, ZenonT(40) DEF CollapseInv

LEMMA EventIs ==
    ASSUME ContextType, NoLastData, CollapseInv, CollapseEvent, gather.state = "live"
    PROVE  LET total == [i \in 0 .. length |-> taken[i].data]
           IN  CollapseRun(gather.cache, total, 0) /\ total[length] = 0
<1>1. CollapseRun(gather.cache, [i \in 0 .. length |-> taken[i].data], 0)
    BY Zenon DEF CollapseEvent
<1>2. /\ kind = "expand" /\ taken \in CacheType
      /\ \A i \in 0 .. length : taken[i].data <= out[i].data
    BY Zenon DEF CollapseInv
<1>3. length \in 0 .. length
    BY DEF ContextType
<1>4. taken[length] \in PieceType /\ taken[length].data <= out[length].data /\ out[length].data = 0
    BY <1>2, <1>3, NoLastIs, Zenon DEF CacheType
<1>5. taken[length].data = 0
    BY <1>4 DEF PieceType
<1> QED
    BY <1>1, <1>3, <1>5, Zenon

LEMMA CollapseEventStep ==
    ASSUME ContextType, NoLastData, CollapseInv, CollapseEvent
    PROVE  CollapseInv'
<1>1. UNCHANGED contextVars /\ taken' = taken
    BY Zenon DEF CollapseEvent
<1>2. SameShape /\ out' = out
    BY <1>1, ContextSame, Zenon
<1>3. CASE gather.state = "live"
  <2> DEFINE total == [i \in 0 .. length |-> taken[i].data]
  <2>1. CollapseRun(gather.cache, total, 0) /\ total[length] = 0
      BY <1>3, EventIs, Zenon
  <2>2. /\ kind = "expand" /\ gather.state \in {"none", "live"} /\ gather.cache \in CacheType
        /\ gather.cache[length].data = 0 /\ taken \in CacheType
        /\ \A i \in 0 .. length : taken[i].data <= out[i].data
      BY <1>3, Zenon DEF CollapseInv
  <2> HIDE DEF total
  <2>3. /\ gather'.cache \in CacheType /\ gather'.cache[length].data = 0
        /\ gather'.order \in 0 .. length + 1 /\ gather'.count \in {0, 1}
        /\ gather'.state \in {"live", "gone"}
        /\ gather'.state # "gone" => gather'.order <= length
        /\ gather'.order >= length => gather'.count = 0
        /\ Ordered(collapsed', gather'.order, gather'.count)
      BY <2>1, <2>2, RunKeeps, Zenon
  <2>4. Ordered(collapsed, gather.order, gather.count)' /\ CacheType' = CacheType
      BY <1>2, <2>3, Zenon DEF Ordered, SameShape, CacheType, PieceType
  <2>5. kind' = "expand" /\ length' = length /\ gather'.state \in {"none", "live", "gone"}
      BY <1>2, <2>2, <2>3, Zenon DEF SameShape
  <2> QED
      BY <1>1, <1>2, <2>2, <2>3, <2>4, <2>5, Zenon DEF CollapseInv
<1>4. CASE gather.state # "live"
  <2>1. gather' = gather /\ collapsed' = collapsed
      BY <1>4, Zenon DEF CollapseEvent
  <2> QED
      BY <1>1, <1>2, <2>1, Zenon DEF CollapseInv, SameShape, CacheType, PieceType, Ordered
<1> QED
    BY <1>3, <1>4

CollapseIInv == ContextType /\ NoLastData /\ CollapseInv

LEMMA CollapseStarts ==
    ASSUME CollapseInit
    PROVE  CollapseIInv
<1>1. ContextInit
    BY Zenon DEF CollapseInit
<1>2. ContextType /\ length \in Nat
    BY <1>1, InitIs, Zenon
<1>3. NoLastData
  <2>1. run.cur = {}
      BY <1>1, InitIs, IdleIs, Zenon
  <2>2. ctx.lastValid < length /\ ctx.eventInput < length
    <3>1. ctx.lastValid = -1 /\ ctx.eventInput = -1
        BY <1>1, InitIs, Zenon
    <3> QED
        BY <1>2, <3>1
  <2>3. length \in 0 .. length
      BY <1>2
  <2>4. out[length].data = 0
      BY <1>1, <2>3, InitIs, Zenon
  <2> QED
      BY <2>1, <2>2, <2>4, Zenon DEF NoLastData
<1>4. CollapseInv
  <2>1. \A i \in 0 .. length : out[i].data = 0
      BY <1>1, InitIs, Zenon
  <2>2. NoPiece \in PieceType /\ NoPiece.data = 0
      BY DEF NoPiece, PieceType
  <2>3. taken = [i \in 0 .. length |-> NoPiece]
      BY Zenon DEF CollapseInit
  <2>4. /\ gather.state = "none" /\ gather.order = 0 /\ gather.count = 0
        /\ gather.cache = [i \in 0 .. length |-> NoPiece]
      BY DEF CollapseInit
  <2>5. taken \in CacheType /\ gather.cache \in CacheType
      BY <2>2, <2>3, <2>4, Zenon DEF CacheType
  <2>6. length \in 0 .. length /\ 0 \in 0 .. length + 1 /\ 0 <= length
      BY <1>2
  <2>7. gather.cache[length].data = 0
      BY <2>2, <2>4, <2>6, Zenon
  <2>8. \A i \in 0 .. length : taken[i].data <= out[i].data
    <3> TAKE i \in 0 .. length
    <3>1. taken[i].data = 0 /\ out[i].data = 0
        BY <2>1, <2>2, <2>3, Zenon
    <3> QED
        BY <3>1
  <2>9. Ordered(collapsed, gather.order, gather.count)
    <3>1. collapsed = <<>>
        BY Zenon DEF CollapseInit
    <3> QED
        BY <3>1 DEF Ordered
  <2>10. gather.state \in {"none", "live", "gone"} /\ gather.state # "live" /\ gather.count \in {0, 1}
      BY <2>4
  <2> QED
      BY <2>4, <2>5, <2>6, <2>7, <2>8, <2>9, <2>10, ZenonT(40) DEF CollapseInv
<1> QED
    BY <1>2, <1>3, <1>4, Zenon DEF CollapseIInv

LEMMA CollapseStep ==
    ASSUME CollapseIInv, "expand" \notin PostEmits, [CollapseNext]_collapseVars
    PROVE  CollapseIInv'
<1>1. ContextType /\ NoLastData /\ CollapseInv
    BY Zenon DEF CollapseIInv
<1>2. \A i \in 0 .. length : taken[i].data <= out[i].data /\ taken[i].data \in Nat /\ out[i].data \in Nat
  <2>1. taken \in CacheType /\ \A i \in 0 .. length : taken[i].data <= out[i].data
      BY <1>1, Zenon DEF CollapseInv
  <2> QED
      BY <1>1, <2>1 DEF CacheType, PieceType, ContextType, OutType
<1>3. ASSUME UNCHANGED contextVars PROVE ContextType' /\ NoLastData'
  <2>1. SameShape /\ ctx' = ctx /\ run' = run /\ out' = out
      BY <1>3, ContextStutter, Zenon
  <2>2. NoLastData'
      BY <1>1, <2>1, Zenon DEF NoLastData, SameShape
  <2> QED
      BY <1>1, <1>3, <2>2, TypeStutter, Zenon
<1>4. CASE ContextNext /\ UNCHANGED collapse
  <2>1. ContextType' /\ NoLastData'
      BY <1>1, <1>4, TypeNext, NoLastNext, Zenon
  <2>2. SameShape /\ \A i \in 0 .. length : out[i].data <= out'[i].data /\ out'[i].data \in Nat
      BY <1>1, <1>4, OutGrows, Zenon
  <2>3. \A i \in 0 .. length : taken[i].data <= out'[i].data
      BY <1>2, <2>2
  <2> QED
      BY <1>1, <1>4, <2>1, <2>2, <2>3, CollapseKept, Zenon DEF CollapseIInv
<1>5. CASE CollapseData
  <2>1. UNCHANGED contextVars
      BY <1>5, Zenon DEF CollapseData
  <2> QED
      BY <1>1, <1>3, <1>5, <2>1, CollapseDataStep, Zenon DEF CollapseIInv
<1>6. CASE CollapseEvent
  <2>1. UNCHANGED contextVars
      BY <1>6, Zenon DEF CollapseEvent
  <2> QED
      BY <1>1, <1>3, <1>6, <2>1, CollapseEventStep, Zenon DEF CollapseIInv
<1>7. CASE UNCHANGED collapseVars
  <2>1. UNCHANGED contextVars /\ UNCHANGED collapse
      BY <1>7, Zenon DEF collapseVars
  <2>2. SameShape /\ out' = out
      BY <1>1, <2>1, ContextSame, Zenon
  <2>3. CollapseInv'
      BY <1>1, <1>2, <2>1, <2>2, CollapseKept, Zenon
  <2> QED
      BY <1>3, <2>1, <2>3, Zenon DEF CollapseIInv
<1> QED
    BY <1>4, <1>5, <1>6, <1>7, Zenon DEF CollapseNext

(* The collapse node puts its buffers out in the order of the buffers they *)
(* came from, each once, and the check of its output never stops the flow, *)
(* in whatever pieces and order the streams come: for streams of any       *)
(* length, any number of events and any failure of the expand node, when   *)
(* its unit puts nothing out in DataPost.                                  *)
THEOREM CollapseKeepsOrder ==
    ASSUME "expand" \notin PostEmits
    PROVE  CollapseSpec => []CollapsesInOrder
<1>1. CollapseInit => CollapseIInv
    BY CollapseStarts
<1>2. CollapseIInv /\ [CollapseNext]_collapseVars => CollapseIInv'
    BY CollapseStep
<1>3. CollapseIInv => CollapsesInOrder
  <2>1. SUFFICES ASSUME CollapseIInv PROVE CollapsesInOrder
      OBVIOUS
  <2>2. Ordered(collapsed, gather.order, gather.count) /\ gather.state \in {"none", "live", "gone"}
      BY <2>1, Zenon DEF CollapseIInv, CollapseInv
  <2>3. gather.state # "stop"
      BY <2>2
  <2> QED
      BY <2>2, <2>3, Zenon DEF CollapsesInOrder, Ordered
<1> QED
    BY <1>1, <1>2, <1>3, PTL DEF CollapseSpec

-----------------------------------------------------------------------------
(* A collapse unit that is not silent: what it was given of a stream is    *)
(* all there is once the stream has ended, and every stream with a buffer  *)
(* is put out before the next.                                             *)

Among(s, i) == \E k \in 1 .. Len(s) : s[k] = i

(* The streams before o are collapsed, the ones behind it are cached, and  *)
(* n tells whether there was a buffer for o itself.                        *)
Gathered(t, c, o, n, s) ==
    \A i \in 0 .. length :
        /\ i < o => t[i].end /\ (t[i].data > 0 => Among(s, i))
        /\ i >= o /\ c[i].end => t[i].end
        /\ i > o \/ (i = o /\ i \in void /\ n = 0) => c[i].data = t[i].data
        /\ i = o /\ n = 1 => Among(s, i)

(* What was taken of a stream that has ended is all of it. *)
Whole == \A i \in 0 .. length : taken[i].end => out[i].ends > 0 /\ taken[i].data = out[i].data

AllInv ==
    /\ kind = "expand" =>
         Whole /\ Gathered(taken, gather.cache, gather.order, gather.count, collapsed)
    /\ gather.state = "gone" => kind = "expand" /\ gather.order = length + 1

(* Nothing is added to a stream that has ended. *)
LEMMA EndIsFinal ==
    ASSUME ContextType, ContextNext, NEW i \in 0 .. length, ~ out'[i].late, out[i].ends > 0
    PROVE  out'[i].ends > 0 /\ out'[i].data = out[i].data
<1>1. out[i].data \in Nat /\ out[i].ends \in Nat /\ run.data \in Nat
    BY DEF ContextType, OutType, RunType
<1>2. CASE SendAndClean
  <2> DEFINE data == IF i = Stream(Parent) THEN run.data ELSE 0
             flag == IF run.flag /\ i = Stream(EndFlagParent) THEN 1 ELSE 0
  <2>1. /\ out'[i].data = out[i].data + data /\ out'[i].ends = out[i].ends + flag
        /\ out'[i].late = (out[i].late \/ (data > 0 /\ out[i].ends > 0))
      BY <1>2, SendIs, Zenon
  <2>2. data \in Nat /\ flag \in {0, 1}
      BY <1>1
  <2> HIDE DEF data, flag
  <2>3. ~ (data > 0)
      BY <2>1, Zenon
  <2> QED
      BY <1>1, <2>1, <2>2, <2>3
<1>3. CASE ~ SendAndClean
  <2>1. out' = out
      BY <1>3, RecvDataIs, RecvEventIs, DroppedIs, PreIs, ProcessIs, PostIs, DataPostIs, UpdateIs,
         TimerIs, CloseIs, DeliverIs, ZenonT(40) DEF ContextNext, NodeStep
  <2> QED
      BY <2>1, Zenon
<1> QED
    BY <1>2, <1>3, Zenon

(* A run goes on to the next stream only when it has put out a buffer of   *)
(* the one before, if there was any.                                       *)
LEMMA RunGathers ==
    ASSUME ContextType, CollapseInv, gather.state \in {"none", "live"}, ~ Silent,
           NEW cache \in CacheType, cache[length].data = 0,
           NEW total, total[length] = 0, NEW events0, CollapseRun(cache, total, events0),
           NEW t \in CacheType, \A i \in 0 .. length : total[i] = t[i].data,
           Gathered(t, cache, gather.order, gather.count, collapsed)
    PROVE  /\ Gathered(t, gather'.cache, gather'.order, gather'.count, collapsed')
           /\ gather'.state = "gone" => gather'.order = length + 1
<1> DEFINE o == gather.order
           end == cache[o].end
           o2 == IF end THEN o + 1 ELSE o
           c2(n) == IF end THEN 0 ELSE gather.count + n
           k2 == [cache EXCEPT ![o] = NoPiece]
<1>1. length \in Nat /\ o \in 0 .. length /\ gather.count \in {0, 1}
    BY RunIs, Zenon DEF ContextType
<1>2. PICK n \in {0, 1} :
        /\ n = 1 => gather.count = 0
        /\ gather.count = 0 /\ o \in void /\ cache[o].data > 0 => n = 1
        /\ gather.count = 0 /\ o \notin void /\ end /\ total[o] > 0 => n = 1
        /\ gather' = [state |-> IF end /\ o = length THEN "gone" ELSE "live",
                      order |-> o2, count |-> c2(n), cache |-> k2]
        /\ collapsed' = collapsed \o [k \in 1 .. n |-> o]
    BY RunIs, Zenon
<1>3. /\ gather'.order = o2 /\ gather'.count = c2(n) /\ gather'.cache = k2
      /\ gather'.state = "gone" => end /\ o = length
    BY <1>2
<1>4. /\ \A i \in 0 .. length : Among(collapsed, i) => Among(collapsed', i)
      /\ n = 1 => Among(collapsed', o)
  <2>1. collapsed \in Seq(0 .. length)
      BY Zenon DEF CollapseInv, Ordered
  <2>2. Extends(collapsed \o [k \in 1 .. n |-> o], collapsed, n, o, 0 .. length)
      BY <1>1, <2>1, AppendCopies, Zenon
  <2>3. collapsed' = collapsed \o [k \in 1 .. n |-> o]
      BY <1>2, Zenon
  <2>4. Extends(collapsed', collapsed, n, o, 0 .. length)
      BY <2>2, <2>3, Zenon
  <2>5. /\ Len(collapsed) \in Nat /\ Len(collapsed') = Len(collapsed) + n
        /\ \A k \in 1 .. Len(collapsed) : collapsed'[k] = collapsed[k]
        /\ n = 1 => collapsed'[Len(collapsed) + 1] = o
      BY <2>4, Zenon DEF Extends
  <2>6. ASSUME NEW k \in 1 .. Len(collapsed) PROVE k \in 1 .. Len(collapsed')
      BY <2>5
  <2>7. n = 1 => Len(collapsed) + 1 \in 1 .. Len(collapsed')
      BY <2>5
  <2> QED
      BY <2>5, <2>6, <2>7, Zenon DEF Among
<1>5. ASSUME NEW i \in 0 .. length
      PROVE  /\ cache[i].data \in Nat /\ cache[i].end \in BOOLEAN /\ t[i].data \in Nat
             /\ k2[i].data = (IF i = o THEN 0 ELSE cache[i].data)
             /\ k2[i].end = (IF i = o THEN FALSE ELSE cache[i].end)
  <2>1. cache[i] \in PieceType /\ t[i] \in PieceType
      BY Zenon DEF CacheType
  <2>2. k2[i] = IF i = o THEN NoPiece ELSE cache[i]
      BY Zenon DEF CacheType
  <2> HIDE DEF k2
  <2> QED
      BY <2>1, <2>2 DEF PieceType, NoPiece
<1> HIDE DEF k2
<1>6. ASSUME NEW i \in 0 .. length
      PROVE  /\ i < o2 => t[i].end /\ (t[i].data > 0 => Among(collapsed', i))
             /\ i >= o2 /\ k2[i].end => t[i].end
             /\ i > o2 \/ (i = o2 /\ i \in void /\ c2(n) = 0) => k2[i].data = t[i].data
             /\ i = o2 /\ c2(n) = 1 => Among(collapsed', i)
  <2>1. /\ i < o => t[i].end /\ (t[i].data > 0 => Among(collapsed, i))
        /\ i >= o /\ cache[i].end => t[i].end
        /\ i > o \/ (i = o /\ i \in void /\ gather.count = 0) => cache[i].data = t[i].data
        /\ i = o /\ gather.count = 1 => Among(collapsed, i)
      BY Zenon DEF Gathered
  <2>2. Among(collapsed, i) => Among(collapsed', i)
      BY <1>4, Zenon
  <2>3. total[i] = t[i].data
      BY Zenon
  <2>4. CASE i < o
    <3>1. ~ (i >= o2) /\ ~ (i > o2) /\ i # o2
        BY <1>1, <2>4
    <3> HIDE DEF o2, c2
    <3> QED
        BY <2>1, <2>2, <2>4, <3>1, Zenon
  <2>5. CASE i > o
    <3>1. ~ (i < o2) /\ ~ (i = o2 /\ c2(n) = 1) /\ i # o /\ i >= o
        BY <1>1, <2>5
    <3>2. k2[i].data = cache[i].data /\ k2[i].end = cache[i].end
        BY <1>5, <3>1, Zenon
    <3> HIDE DEF o2, c2
    <3> QED
        BY <2>1, <2>5, <3>1, <3>2, Zenon
  <2>6. CASE i = o /\ end
    <3>1. t[i].data > 0 => gather.count = 1 \/ n = 1
        BY <1>1, <1>2, <1>5, <2>1, <2>3, <2>6
    <3>2. t[i].data > 0 => Among(collapsed', i)
        BY <1>4, <2>1, <2>2, <2>6, <3>1, Zenon
    <3>3. t[i].end
        BY <1>1, <2>1, <2>6
    <3>4. ~ (i >= o2) /\ ~ (i > o2) /\ i # o2
        BY <1>1, <2>6
    <3> HIDE DEF o2, c2
    <3> QED
        BY <3>2, <3>3, <3>4, Zenon
  <2>7. CASE i = o /\ ~ end
    <3>1. o2 = o /\ c2(n) = gather.count + n /\ ~ (i < o) /\ ~ (i > o)
        BY <1>1, <2>7
    <3>2. c2(n) = 0 => gather.count = 0 /\ n # 1
        BY <1>1, <1>2, <3>1
    <3>3. ASSUME i \in void, c2(n) = 0 PROVE k2[i].data = t[i].data
      <4>1. ~ (cache[i].data > 0) /\ cache[i].data = t[i].data
          BY <1>2, <2>1, <2>7, <3>2, <3>3, Zenon
      <4>2. k2[i].data = 0 /\ cache[i].data \in Nat
          BY <1>5, <2>7, Zenon
      <4> QED
          BY <4>1, <4>2
    <3>4. c2(n) = 1 => gather.count = 1 \/ n = 1
        BY <1>1, <1>2, <3>1
    <3>5. c2(n) = 1 => Among(collapsed', i)
        BY <1>4, <2>1, <2>2, <2>7, <3>4, Zenon
    <3>6. ~ k2[i].end
        BY <1>5, <2>7, Zenon
    <3> QED
        BY <2>7, <3>1, <3>3, <3>5, <3>6, Zenon
  <2>8. i < o \/ i > o \/ i = o
      BY <1>1
  <2> QED
      BY <2>4, <2>5, <2>6, <2>7, <2>8, Zenon
<1>7. gather'.state = "gone" => gather'.order = length + 1
    BY <1>3, Zenon
<1> HIDE DEF o2, c2
<1> QED
    BY <1>3, <1>6, <1>7, Zenon DEF Gathered

LEMMA DataGathers ==
    ASSUME ContextType, NoLastData, CollapseInv, AllInv, CollapseData, ~ Silent
    PROVE  AllInv'
<1>1. /\ kind = "expand" /\ gather.state \in {"none", "live"} /\ UNCHANGED contextVars
      /\ taken' \in CacheType
    BY DataIs, Zenon
<1>2. PICK cache, total :
        /\ cache \in CacheType /\ cache[length].data = 0 /\ total[length] = 0
        /\ CollapseRun(cache, total, nextEvents)
        /\ \A i \in 0 .. length : total[i] = taken'[i].data /\ Takes(i, taken'[i], cache[i])
    BY DataIs, Zenon
<1>3. Whole /\ Gathered(taken, gather.cache, gather.order, gather.count, collapsed)
    BY <1>1, Zenon DEF AllInv
<1>4. ASSUME NEW i \in 0 .. length
      PROVE  /\ taken'[i].end => out[i].ends > 0 /\ taken'[i].data = out[i].data
             /\ taken[i].end => taken'[i].end /\ taken'[i].data = taken[i].data
             /\ (gather.cache[i].end => taken[i].end) /\ cache[i].end => taken'[i].end
             /\ gather.cache[i].data = taken[i].data => cache[i].data = taken'[i].data
  <2>1. taken[i].end => out[i].ends > 0 /\ taken[i].data = out[i].data
      BY <1>3, Zenon DEF Whole
  <2>2. Takes(i, taken'[i], cache[i])
      BY <1>2, Zenon
  <2>3. CASE taken'[i] = taken[i] /\ cache[i] = gather.cache[i]
      BY <2>1, <2>3, Zenon
  <2>4. CASE /\ taken'[i].data = out[i].data /\ taken'[i].end = (out[i].ends > 0)
             /\ cache[i].data = gather.cache[i].data + (out[i].data - taken[i].data)
             /\ cache[i].end = (gather.cache[i].end \/ (out[i].ends > 0 /\ ~ taken[i].end))
    <3>1. taken[i].data \in Nat /\ out[i].data \in Nat
      <4>1. taken[i] \in PieceType
          BY Zenon DEF CollapseInv, CacheType
      <4> QED
          BY <4>1 DEF ContextType, OutType, PieceType
    <3>2. gather.cache[i].data = taken[i].data => cache[i].data = taken'[i].data
        BY <2>4, <3>1
    <3> QED
        BY <2>1, <2>4, <3>2, Zenon
  <2> QED
      BY <2>2, <2>3, <2>4, Zenon DEF Takes
<1>5. Gathered(taken', cache, gather.order, gather.count, collapsed)
    BY <1>3, <1>4, Zenon DEF Gathered
<1>6. /\ Gathered(taken', gather'.cache, gather'.order, gather'.count, collapsed')
      /\ gather'.state = "gone" => gather'.order = length + 1
    BY <1>1, <1>2, <1>5, RunGathers, Zenon
<1>7. SameShape /\ out' = out
    BY <1>1, ContextSame, Zenon
<1>8. Whole'
    BY <1>4, <1>7, Zenon DEF Whole, SameShape
<1> QED
    BY <1>1, <1>6, <1>7, <1>8, Zenon DEF AllInv, Gathered, SameShape

LEMMA EventGathers ==
    ASSUME ContextType, NoLastData, CollapseInv, AllInv, CollapseEvent, ~ Silent
    PROVE  AllInv'
<1>1. UNCHANGED contextVars /\ taken' = taken
    BY Zenon DEF CollapseEvent
<1>2. SameShape /\ out' = out
    BY <1>1, ContextSame, Zenon
<1>3. CASE gather.state = "live"
  <2> DEFINE total == [i \in 0 .. length |-> taken[i].data]
  <2>1. /\ kind = "expand" /\ gather.cache \in CacheType /\ gather.cache[length].data = 0
        /\ taken \in CacheType /\ gather.state \in {"none", "live"}
      BY <1>3, Zenon DEF CollapseInv
  <2>2. Whole /\ Gathered(taken, gather.cache, gather.order, gather.count, collapsed)
      BY <2>1, Zenon DEF AllInv
  <2>3. CollapseRun(gather.cache, total, 0) /\ total[length] = 0
      BY <1>3, EventIs, Zenon
  <2>4. \A i \in 0 .. length : total[i] = taken[i].data
      OBVIOUS
  <2> HIDE DEF total
  <2>5. /\ Gathered(taken, gather'.cache, gather'.order, gather'.count, collapsed')
        /\ gather'.state = "gone" => gather'.order = length + 1
      BY <2>1, <2>2, <2>3, <2>4, RunGathers, ZenonT(40)
  <2>6. Whole'
      BY <1>1, <1>2, <2>2, Zenon DEF Whole, SameShape
  <2> QED
      BY <1>1, <1>2, <2>1, <2>5, <2>6, Zenon DEF AllInv, Gathered, SameShape
<1>4. CASE gather.state # "live"
  <2>1. gather' = gather /\ collapsed' = collapsed
      BY <1>4, Zenon DEF CollapseEvent
  <2> QED
      BY <1>1, <1>2, <2>1, Zenon DEF AllInv, Whole, Gathered, SameShape
<1> QED
    BY <1>3, <1>4
=============================================================================
