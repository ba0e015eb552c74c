------------------------ MODULE BlockingQueueProofs ------------------------
(***************************************************************************)
(* No blocked call of a BlockingQueue is stranded and no element is lost,  *)
(* for every set of threads, every capacity and every mix of calls.        *)
(***************************************************************************)
EXTENDS BlockingQueue, FiniteSetTheorems, SequenceTheorems, TLAPS

(* A released queue has no sleeping call. *)
NobodySleeps == shutdown \/ need_wakeup => \A t \in Threads : phase[t] # "wait"

(* While a consumer sleeps, every element has a notified consumer. *)
ConsumersCovered ==
    Waiting("not_empty") # {} => Len(queue) <= Cardinality(Notified("not_empty"))

(* While a pusher sleeps, every free place has a notified pusher, or a PopBatch
   is about to notify all of them. *)
PushersCovered ==
    Waiting("not_full") # {} =>
        \/ capacity <= Len(queue) + Cardinality(Notified("not_full"))
        \/ \E u \in Threads : phase[u] = "unlocked"

(* All pushers wait for one place, and room is only made by a pop. *)
UniformMenu ==
    \A t \in Threads : \A c \in Menu[t] : c.op \notin {"PushBatch", "Clear", "SetCapacity"}

IInv == TypeOK /\ NobodySleeps /\ ConsumersCovered /\ (UniformMenu => PushersCovered)

-----------------------------------------------------------------------------
(* Elements. *)

(* Selecting positions of the queue gives at most Len(queue) of them. *)
LEMMA Positions ==
    ASSUME NEW q \in Seq(Elem), NEW S \in SUBSET DOMAIN q
    PROVE  /\ IsFiniteSet(S)
           /\ Cardinality(S) \in 0..Len(q)
           /\ S # {} => Cardinality(S) >= 1
<1>1. Len(q) \in Nat /\ DOMAIN q = 1..Len(q)
    BY LenProperties
<1>2. IsFiniteSet(1..Len(q)) /\ Cardinality(1..Len(q)) = Len(q)
  <2>1. 1 \in Int /\ Len(q) \in Int
      BY <1>1
  <2>2. /\ IsFiniteSet(1..Len(q))
        /\ Cardinality(1..Len(q)) = IF 1 > Len(q) THEN 0 ELSE Len(q) - 1 + 1
      BY <2>1, FS_Interval, Zenon
  <2> QED
      BY <1>1, <2>2
<1>3. IsFiniteSet(S) /\ Cardinality(S) <= Len(q)
    BY <1>1, <1>2, FS_Subset
<1>4. Cardinality(S) \in Nat
    BY <1>3, FS_CardinalityType
<1>5. S # {} => Cardinality(S) # 0
    BY <1>3, FS_EmptySet
<1> QED
    BY <1>1, <1>3, <1>4, <1>5

(* A queue without its first n elements. *)
LEMMA Suffix ==
    ASSUME NEW q \in Seq(Elem), NEW n \in 0..Len(q)
    PROVE  /\ SubSeq(q, n + 1, Len(q)) \in Seq(Elem)
           /\ Len(SubSeq(q, n + 1, Len(q))) = Len(q) - n
<1>1. Len(q) \in Nat /\ q \in [1..Len(q) -> Elem]
    BY LenProperties
<1>2. n + 1 \in Int /\ Len(q) \in Int /\ \A i \in n + 1 .. Len(q) : q[i] \in Elem
    BY <1>1
<1>3. /\ SubSeq(q, n + 1, Len(q)) \in Seq(Elem)
      /\ Len(SubSeq(q, n + 1, Len(q))) = IF n + 1 <= Len(q) THEN Len(q) - (n + 1) + 1 ELSE 0
    BY <1>2, SubSeqProperties, Zenon
<1> DEFINE rest == SubSeq(q, n + 1, Len(q))
<1>4. rest \in Seq(Elem) /\ Len(rest) = IF n + 1 <= Len(q) THEN Len(q) - (n + 1) + 1 ELSE 0
    BY <1>3
<1> HIDE DEF rest
<1>5. \A k, l \in Nat : k <= l => (IF k + 1 <= l THEN l - (k + 1) + 1 ELSE 0) = l - k
    OBVIOUS
<1>6. n \in Nat /\ n <= Len(q)
    BY <1>1
<1>7. Len(rest) = Len(q) - n
    BY <1>1, <1>4, <1>5, <1>6, Zenon
<1> QED
    BY <1>4, <1>7 DEF rest

(* emplace() of n elements makes the queue longer by n. *)
LEMMA EmplaceType ==
    ASSUME TypeOK, NEW t \in Threads, NEW n \in Nat
    PROVE  /\ Emplace(t, n) \in Seq(Elem)
           /\ Len(Emplace(t, n)) = Len(queue) + n
<1> DEFINE r == Rank(Priority[t])
<1>1. queue \in Seq(Elem) /\ Len(queue) \in Nat
    BY LenProperties DEF TypeOK
<1>2. r \in 0..Len(queue)
    BY <1>1, Positions DEF Rank
<1>3. Fresh(t, n) \in Seq(Elem) /\ Len(Fresh(t, n)) = n
  <2>1. \A i \in 1..n : [src |-> t, num |-> sent[t] + i, prio |-> Priority[t]] \in Elem
      BY PriorityAssumption DEF TypeOK, Elem
  <2>2. Fresh(t, n) \in [1..n -> Elem]
      BY <2>1 DEF Fresh
  <2> QED
      BY <2>2, SeqDef, LenProperties
<1>4. SubSeq(queue, 1, r) \in Seq(Elem) /\ Len(SubSeq(queue, 1, r)) = r
    BY <1>1, <1>2, SMT
<1>5. /\ SubSeq(queue, r + 1, Len(queue)) \in Seq(Elem)
      /\ Len(SubSeq(queue, r + 1, Len(queue))) = Len(queue) - r
    BY <1>1, <1>2, Suffix
<1> HIDE DEF r
<1> QED
    BY <1>1, <1>2, <1>3, <1>4, <1>5, ConcatProperties DEF Emplace, r

(* pop() of n elements makes it shorter by n. *)
LEMMA RemoveType ==
    ASSUME TypeOK, NEW n \in 0..Len(queue), Remove(n)
    PROVE  /\ queue' \in Seq(Elem) /\ Len(queue') = Len(queue) - n
           /\ taken' \in [Threads -> Nat]
<1>1. queue \in Seq(Elem) /\ Len(queue) \in Nat /\ DOMAIN queue = 1..Len(queue)
    BY LenProperties DEF TypeOK
<1>2. queue' \in Seq(Elem) /\ Len(queue') = Len(queue) - n
  <2>1. /\ SubSeq(queue, n + 1, Len(queue)) \in Seq(Elem)
        /\ Len(SubSeq(queue, n + 1, Len(queue))) = Len(queue) - n
      BY <1>1, Suffix
  <2> QED
      BY <2>1 DEF Remove
<1>3. \A u \in Threads : Cardinality({i \in 1..n : queue[i].src = u}) \in Nat
  <2> TAKE u \in Threads
  <2>1. {i \in 1..n : queue[i].src = u} \in SUBSET DOMAIN queue
      BY <1>1
  <2> QED
      BY <1>1, <2>1, Positions
<1>4. taken' \in [Threads -> Nat]
  <2>1. taken \in [Threads -> Nat]
      BY DEF TypeOK
  <2>2. taken' = [u \in Threads |->
                    taken[u] + Cardinality({i \in 1..n : queue[i].src = u})]
      BY DEF Remove
  <2> DEFINE f(u) == Cardinality({i \in 1..n : queue[i].src = u})
  <2>3. \A u \in Threads : f(u) \in Nat
      BY <1>3
  <2>4. taken' = [u \in Threads |-> taken[u] + f(u)]
      BY <2>2
  <2> HIDE DEF f
  <2> QED
      BY <2>1, <2>3, <2>4
<1> QED
    BY <1>2, <1>4

(* A pop of a non-empty queue takes something, except Front. *)
LEMMA PopCountRange ==
    ASSUME TypeOK, queue # <<>>, NEW c \in Call, c.op \in PopOps
    PROVE  /\ PopCount(c) \in 0..Len(queue)
           /\ c.op # "Front" => PopCount(c) >= 1
           /\ c.op = "Pop" => PopCount(c) = 1
           /\ c.op = "Front" => PopCount(c) = 0
<1>1. queue \in Seq(Elem) /\ Len(queue) \in Nat \ {0} /\ DOMAIN queue = 1..Len(queue)
    BY LenProperties, EmptySeq DEF TypeOK
<1>2. SamePriority \in 1..Len(queue)
  <2> DEFINE S == {i \in DOMAIN queue : queue[i].prio = queue[1].prio}
  <2>1. 1 \in S
      BY <1>1
  <2>2. /\ Cardinality(S) \in 0..Len(queue)
        /\ S # {} => Cardinality(S) >= 1
    <3>1. S \in SUBSET DOMAIN queue
        OBVIOUS
    <3> HIDE DEF S
    <3> QED
        BY <1>1, <3>1, Positions
  <2>3. SamePriority = Cardinality(S)
      BY DEF SamePriority
  <2> HIDE DEF S
  <2> QED
      BY <1>1, <2>1, <2>2, <2>3
<1>3. c.num \in Nat \ {0}
    BY DEF Call
<1> QED
    BY <1>1, <1>2, <1>3 DEF PopCount, Minimum, PopOps
-----------------------------------------------------------------------------
(* Notifications. *)

CV == {"not_full", "not_empty"}

(* A step of t that wakes the sleeping threads S and nobody else. *)
LEMMA WakeEffect ==
    ASSUME TypeOK, NEW t \in Threads, NEW ph \in {"idle", "unlocked"},
           NEW S, S \subseteq {u \in Threads : phase[u] = "wait"}, t \notin S,
           Wake(t, ph, S), \A u \in Threads \ {t} : call'[u] = call[u]
    PROVE  /\ phase' \in [Threads -> Phases]
           /\ phase'[t] = ph
           /\ Waiters' = Waiters \ {t}
           /\ \A u \in Threads \ {t} : phase[u] = "unlocked" => phase'[u] = "unlocked"
           /\ \A u \in Threads : phase'[u] = "wait" => phase[u] = "wait"
           /\ \A cv : Waiting(cv)' = Waiting(cv) \ ({t} \cup S)
           /\ \A cv : Notified(cv)' =
                (Notified(cv) \ {t}) \cup {u \in S : CondVar(call[u]) = cv}
<1>1. phase \in [Threads -> Phases]
    BY DEF TypeOK
<1>2. phase' = [u \in Threads |-> IF u = t THEN ph
                                  ELSE IF u \in S THEN "notified" ELSE phase[u]]
    BY DEF Wake
<1>3. \A u \in Threads \ {t} : CondVar(call[u])' = CondVar(call[u])
    BY DEF CondVar
<1>4. /\ phase' \in [Threads -> Phases]
      /\ phase'[t] = ph
      /\ \A u \in Threads \ {t} : phase[u] = "unlocked" => phase'[u] = "unlocked"
      /\ \A u \in Threads : phase'[u] = "wait" => phase[u] = "wait"
    BY <1>1, <1>2 DEF Phases
<1>5. Waiters' = Waiters \ {t}
    BY <1>1, <1>2 DEF Waiters
<1>6. ASSUME NEW cv PROVE Waiting(cv)' = Waiting(cv) \ ({t} \cup S)
    BY <1>1, <1>2, <1>3 DEF Waiting
<1>7. ASSUME NEW cv
      PROVE  Notified(cv)' = (Notified(cv) \ {t}) \cup {u \in S : CondVar(call[u]) = cv}
    BY <1>1, <1>2, <1>3 DEF Notified
<1> QED
    BY <1>4, <1>5, <1>6, <1>7

(* A step of t wakes nobody by itself that it should not, and forgets nobody. *)
Quiet(t) ==
    /\ phase' \in [Threads -> Phases]
    /\ Waiters' = Waiters \ {t}
    /\ \A u \in Threads \ {t} : phase[u] = "unlocked" => phase'[u] = "unlocked"
    /\ \A u \in Threads : phase'[u] = "wait" => phase[u] = "wait"
    /\ \A cv \in CV : /\ Waiting(cv)' \subseteq Waiting(cv) \ {t}
                      /\ Notified(cv) \ {t} \subseteq Notified(cv)'

(* Everyone who sleeps on cv is notified. *)
All(cv) == Waiting(cv)' = {}

(* At least one of those who sleep on cv is notified. *)
One(t, cv) == All(cv) \/ \E w \in Waiting(cv) \ {t} : w \in Notified(cv)'

(* What notify_one and notify_all do to the sleepers on a condition variable. *)
LEMMA NotifyEffect ==
    ASSUME TypeOK, NEW t \in Threads, NEW ph \in {"idle", "unlocked"}, NEW cv \in CV,
           \A u \in Threads \ {t} : call'[u] = call[u]
    PROVE  /\ NotifyNone(t, ph) => Quiet(t) /\ phase'[t] = ph
           /\ NotifyAll(t, ph, cv) => Quiet(t) /\ phase'[t] = ph /\ All(cv)
           /\ NotifyOne(t, ph, cv) => Quiet(t) /\ phase'[t] = ph /\ One(t, cv)
<1>1. ASSUME NEW S, S \subseteq {u \in Threads : phase[u] = "wait"} \ {t}, Wake(t, ph, S)
      PROVE  Quiet(t) /\ phase'[t] = ph
    BY <1>1, WakeEffect DEF Quiet
<1>2. NotifyNone(t, ph) => Quiet(t) /\ phase'[t] = ph
    BY <1>1 DEF NotifyNone
<1>3. \A c : Waiting(c) \subseteq {u \in Threads : phase[u] = "wait"}
    BY DEF Waiting
<1>4. NotifyAll(t, ph, cv) => Quiet(t) /\ phase'[t] = ph /\ All(cv)
  <2> SUFFICES ASSUME Wake(t, ph, Waiting(cv) \ {t})
               PROVE  Quiet(t) /\ phase'[t] = ph /\ All(cv)
      BY DEF NotifyAll
  <2>1. Waiting(cv)' = Waiting(cv) \ ({t} \cup (Waiting(cv) \ {t}))
      BY <1>3, WakeEffect
  <2> QED
      BY <1>1, <1>3, <2>1 DEF All
<1>5. NotifyOne(t, ph, cv) => Quiet(t) /\ phase'[t] = ph /\ One(t, cv)
  <2>1. CASE Waiting(cv) \ {t} = {} /\ Wake(t, ph, {})
    <3>1. Waiting(cv)' = Waiting(cv) \ ({t} \cup {})
        BY <2>1, WakeEffect
    <3> QED
        BY <1>1, <2>1, <3>1 DEF One, All
  <2>2. ASSUME NEW w \in Waiting(cv) \ {t}, Wake(t, ph, {w})
        PROVE  Quiet(t) /\ phase'[t] = ph /\ One(t, cv)
    <3>1. {w} \subseteq {u \in Threads : phase[u] = "wait"} /\ t \notin {w}
        BY <1>3
    <3>2. Notified(cv)' = (Notified(cv) \ {t}) \cup {u \in {w} : CondVar(call[u]) = cv}
        BY <2>2, <3>1, WakeEffect
    <3>3. CondVar(call[w]) = cv
        BY DEF Waiting
    <3> QED
        BY <1>1, <2>2, <3>1, <3>2, <3>3 DEF One
  <2> QED
      BY <2>1, <2>2 DEF NotifyOne
<1> QED
    BY <1>2, <1>4, <1>5

(* How a call that moved n elements returns. *)
Returned(t, c, n) ==
    /\ Quiet(t)
    /\ call' = [call EXCEPT ![t] = NoCall]
    /\ phase'[t] \in {"idle", "unlocked"}
    /\ c.op \in {"Push", "PushForce"} /\ n > 0 => One(t, "not_empty")
    /\ c.op \in {"PushSeq", "PushBatch", "PushBatchForce"} /\ n > 0 => All("not_empty")
    /\ c.op = "Pop" /\ n > 0 => One(t, "not_full")
    /\ c.op \in {"PopSeq", "PopBatch"} => All("not_full") \/ phase'[t] = "unlocked"

(* Return leaves the caller outside and notifies as the operation demands. *)
LEMMA ReturnEffect ==
    ASSUME TypeOK, NEW t \in Threads, NEW c \in Call, NEW n \in Nat, Return(t, c, n)
    PROVE  Returned(t, c, n)
<1>1. call \in [Threads -> Call \cup {NoCall}] /\ call' = [call EXCEPT ![t] = NoCall]
    BY DEF TypeOK, Return
<1>2. \A u \in Threads \ {t} : call'[u] = call[u]
    BY <1>1
<1>3. ASSUME NEW ph \in {"idle", "unlocked"}, NotifyNone(t, ph)
      PROVE  Quiet(t) /\ phase'[t] = ph
    BY <1>2, <1>3, NotifyEffect DEF CV
<1>4. ASSUME NEW cv \in CV, NotifyAll(t, "idle", cv)
      PROVE  Quiet(t) /\ phase'[t] = "idle" /\ All(cv)
    BY <1>2, <1>4, NotifyEffect
<1>5. ASSUME NEW cv \in CV, NotifyOne(t, "idle", cv)
      PROVE  Quiet(t) /\ phase'[t] = "idle" /\ One(t, cv)
    BY <1>2, <1>5, NotifyEffect
<1>6. CASE c.op = "Push"
  <2>1. CASE n > 0
    <3>1. NotifyOne(t, "idle", "not_empty")
        BY <1>6, <2>1 DEF Return
    <3> QED
        BY <1>1, <1>5, <1>6, <3>1 DEF Returned, CV
  <2>2. CASE ~(n > 0)
    <3>1. NotifyNone(t, "idle")
        BY <1>6, <2>2 DEF Return
    <3> QED
        BY <1>1, <1>3, <1>6, <2>2, <3>1 DEF Returned
  <2> QED
      BY <2>1, <2>2
<1>7. CASE c.op = "PushSeq"
  <2>1. CASE n > 0
    <3>1. NotifyAll(t, "idle", "not_empty")
        BY <1>7, <2>1 DEF Return
    <3> QED
        BY <1>1, <1>4, <1>7, <3>1 DEF Returned, CV
  <2>2. CASE ~(n > 0)
    <3>1. NotifyNone(t, "idle")
        BY <1>7, <2>2 DEF Return
    <3> QED
        BY <1>1, <1>3, <1>7, <2>2, <3>1 DEF Returned
  <2> QED
      BY <2>1, <2>2
<1>8. CASE c.op \in {"PushBatch", "PushBatchForce"}
  <2>1. NotifyAll(t, "idle", "not_empty")
      BY <1>8 DEF Return
  <2> QED
      BY <1>1, <1>4, <1>8, <2>1 DEF Returned, CV
<1>9. CASE c.op = "PushForce"
  <2>1. NotifyOne(t, "idle", "not_empty")
      BY <1>9 DEF Return
  <2> QED
      BY <1>1, <1>5, <1>9, <2>1 DEF Returned, CV
<1>10. CASE c.op = "Pop"
  <2>1. CASE n > 0
    <3>1. NotifyOne(t, "idle", "not_full")
        BY <1>10, <2>1 DEF Return
    <3> QED
        BY <1>1, <1>5, <1>10, <3>1 DEF Returned, CV
  <2>2. CASE ~(n > 0)
    <3>1. NotifyNone(t, "idle")
        BY <1>10, <2>2 DEF Return
    <3> QED
        BY <1>1, <1>3, <1>10, <2>2, <3>1 DEF Returned
  <2> QED
      BY <2>1, <2>2
<1>11. CASE c.op = "PopSeq"
  <2>1. NotifyAll(t, "idle", "not_full")
      BY <1>11 DEF Return
  <2> QED
      BY <1>1, <1>4, <1>11, <2>1 DEF Returned, CV
<1>12. CASE c.op = "PopBatch"
  <2>1. CASE IsPriority
    <3>1. NotifyNone(t, "unlocked")
        BY <1>12, <2>1 DEF Return
    <3> QED
        BY <1>1, <1>3, <1>12, <3>1 DEF Returned
  <2>2. CASE ~IsPriority
    <3>1. NotifyAll(t, "idle", "not_full")
        BY <1>12, <2>2 DEF Return
    <3> QED
        BY <1>1, <1>4, <1>12, <3>1 DEF Returned, CV
  <2> QED
      BY <2>1, <2>2
<1>13. CASE c.op \in ControlOps \cup {"Front"}
  <2>1. NotifyNone(t, "idle")
      BY <1>13 DEF Return, ControlOps
  <2> QED
      BY <1>1, <1>3, <1>13, <2>1 DEF Returned, ControlOps
<1> QED
    BY <1>6, <1>7, <1>8, <1>9, <1>10, <1>11, <1>12, <1>13
       DEF Call, PushOps, PopOps, ControlOps

(* The common effect of the calls that return: n elements moved. *)
Moved(t, c, n) ==
    /\ Returned(t, c, n)
    /\ queue' \in Seq(Elem) /\ sent' \in [Threads -> Nat] /\ taken' \in [Threads -> Nat]
    /\ c.op \in PushOps => Len(queue') = Len(queue) + n
    /\ c.op \in PopOps => Len(queue') = Len(queue) - n
    /\ c.op \in {"Push", "PushForce", "Pop"} => n <= 1
    /\ c.op = "Front" => n = 0

(* A call that fails moves no element. *)
LEMMA FailMoves ==
    ASSUME TypeOK, NEW t \in Threads, NEW c \in Call, Fail(t, c)
    PROVE  Moved(t, c, 0)
<1>1. Returned(t, c, 0)
    BY ReturnEffect DEF Fail
<1>2. UNCHANGED <<queue, sent, taken>>
    BY DEF Fail
<1>3. Len(queue) \in Nat /\ Len(queue) = Len(queue) + 0 /\ Len(queue) = Len(queue) - 0
    BY LenProperties DEF TypeOK
<1> QED
    BY <1>1, <1>2, <1>3 DEF Moved, TypeOK

(* A push that succeeds lengthens the queue by what it pushes. *)
LEMMA PutMoves ==
    ASSUME TypeOK, NEW t \in Threads, NEW c \in Call, NEW n \in Nat, Put(t, c, n),
           c.op \in PushOps, c.op \in {"Push", "PushForce"} => n = 1
    PROVE  Moved(t, c, n)
<1>1. Returned(t, c, n)
    BY ReturnEffect DEF Put
<1>2. queue' \in Seq(Elem) /\ Len(queue') = Len(queue) + n
    BY EmplaceType DEF Put
<1>3. sent' \in [Threads -> Nat] /\ taken' \in [Threads -> Nat]
    BY DEF Put, TypeOK
<1> QED
    BY <1>1, <1>2, <1>3 DEF Moved, PushOps, PopOps

(* A pop that succeeds shortens the queue by what it takes. *)
LEMMA TakeMoves ==
    ASSUME TypeOK, NEW t \in Threads, NEW c \in Call, NEW n \in 0..Len(queue), Take(t, c, n),
           c.op \in PopOps, c.op = "Pop" => n = 1, c.op = "Front" => n = 0
    PROVE  Moved(t, c, n)
<1>0. Len(queue) \in Nat /\ n \in Nat
    BY LenProperties DEF TypeOK
<1>1. Returned(t, c, n)
    BY <1>0, ReturnEffect DEF Take
<1>2. queue' \in Seq(Elem) /\ Len(queue') = Len(queue) - n /\ taken' \in [Threads -> Nat]
    BY RemoveType DEF Take
<1>3. sent' \in [Threads -> Nat]
    BY DEF Take, TypeOK
<1> QED
    BY <1>1, <1>2, <1>3 DEF Moved, PushOps, PopOps

(* The end of Wait() moves elements when the predicate of the call holds. *)
LEMMA LeaveMoves ==
    ASSUME TypeOK, NEW t \in Threads, NEW c \in Call, NEW ok \in BOOLEAN, Leave(t, c, ok),
           c.op \in (PushOps \cup PopOps) \ {"PushForce"},
           ok /\ ~need_wakeup => Ready(c)
    PROVE  \E n \in Nat :
             /\ Moved(t, c, n)
             /\ ok /\ ~need_wakeup /\ ~shutdown /\ c.op # "Front" => n >= 1
<1>1. CASE ~(ok /\ ~need_wakeup)
  <2>1. Fail(t, c)
      BY <1>1 DEF Leave
  <2> QED
      BY <1>1, <2>1, FailMoves
<1>2. CASE ok /\ ~need_wakeup
  <2>1. Succeed(t, c) /\ Ready(c)
      BY <1>2 DEF Leave
  <2>2. Len(queue) \in Nat /\ (queue = <<>> <=> Len(queue) = 0)
      BY LenProperties, EmptySeq DEF TypeOK
  <2>3. c.num \in Nat \ {0} /\ capacity \in Nat \ {0}
      BY DEF Call, TypeOK
  <2>4. CASE c.op = "Push"
    <3>1. CASE shutdown
        BY <2>1, <2>4, <3>1, FailMoves DEF Succeed
    <3>2. CASE ~shutdown
      <4>1. Put(t, c, 1) /\ c.op \in PushOps
          BY <2>1, <2>4, <3>2 DEF Succeed, PushOps
      <4>2. Moved(t, c, 1)
          BY <4>1, PutMoves
      <4> QED
          BY <4>2
    <3> QED
        BY <3>1, <3>2
  <2>5. CASE c.op \in {"PushSeq", "PushBatch"}
    <3>1. CASE shutdown
        BY <2>1, <2>5, <3>1, FailMoves DEF Succeed
    <3>2. CASE ~shutdown
      <4> DEFINE n == Minimum(c.num, capacity - Len(queue))
      <4>1. n \in Nat /\ n >= 1
          BY <2>1, <2>2, <2>3, <2>5, <3>2 DEF Ready, HasRoom, Minimum
      <4>2. Put(t, c, n)
          BY <2>1, <2>5, <3>2 DEF Succeed
      <4>3. c.op \in PushOps /\ c.op \notin {"Push", "PushForce"}
          BY <2>5 DEF PushOps
      <4> HIDE DEF n
      <4> QED
          BY <4>1, <4>2, <4>3, PutMoves
    <3> QED
        BY <3>1, <3>2
  <2>6. CASE c.op = "PushBatchForce"
    <3>1. Put(t, c, c.num) /\ c.op \in PushOps
        BY <2>1, <2>6 DEF Succeed, PushOps
    <3> QED
        BY <2>3, <2>6, <3>1, PutMoves
  <2>7. CASE c.op \in PopOps
    <3>1. IF queue = <<>> THEN Fail(t, c) ELSE Take(t, c, PopCount(c))
        BY <2>1, <2>7 DEF Succeed, PopOps
    <3>2. queue = <<>> => shutdown
        BY <2>1, <2>2, <2>7 DEF Ready, PopOps
    <3>3. CASE queue = <<>>
        BY <3>1, <3>2, <3>3, FailMoves
    <3>4. CASE queue # <<>>
      <4> DEFINE n == PopCount(c)
      <4>1. /\ n \in 0..Len(queue) /\ n \in Nat
            /\ c.op # "Front" => n >= 1
            /\ c.op = "Pop" => n = 1
            /\ c.op = "Front" => n = 0
          BY <2>2, <2>7, <3>4, PopCountRange
      <4>2. Take(t, c, n)
          BY <3>1, <3>4
      <4> HIDE DEF n
      <4> QED
          BY <2>7, <4>1, <4>2, TakeMoves
    <3> QED
        BY <3>3, <3>4
  <2> QED
      BY <2>4, <2>5, <2>6, <2>7 DEF PushOps
<1> QED
    BY <1>1, <1>2

-----------------------------------------------------------------------------
(* The inductive invariant. *)

(* Sets of threads are finite. *)
LEMMA ThreadSets ==
    ASSUME NEW S \in SUBSET Threads
    PROVE  IsFiniteSet(S) /\ Cardinality(S) \in Nat
<1>1. IsFiniteSet(S)
    BY ThreadsAssumption, FS_Subset
<1> QED
    BY <1>1, FS_CardinalityType

(* One thread leaves a set of threads and the others stay. *)
LEMMA LeaveOne ==
    ASSUME NEW S \in SUBSET Threads, NEW T \in SUBSET Threads, NEW t, S \ {t} \subseteq T
    PROVE  /\ Cardinality(S) <= Cardinality(T) + 1
           /\ t \notin S => Cardinality(S) <= Cardinality(T)
<1>1. IsFiniteSet(S) /\ IsFiniteSet(T) /\ Cardinality(S) \in Nat /\ Cardinality(T) \in Nat
    BY ThreadSets
<1>2. CASE t \notin S
  <2>1. S \in SUBSET T
      BY <1>2
  <2> QED
      BY <1>1, <2>1, FS_Subset
<1>3. CASE t \in S
  <2>1. IsFiniteSet(S \ {t}) /\ Cardinality(S \ {t}) = Cardinality(S) - 1
      BY <1>1, <1>3, FS_RemoveElement
  <2>2. Cardinality(S \ {t}) <= Cardinality(T)
      BY <1>1, FS_Subset
  <2> QED
      BY <1>1, <1>3, <2>1, <2>2
<1> QED
    BY <1>2, <1>3

(* A thread enters a set of threads and the others stay. *)
LEMMA EnterOne ==
    ASSUME NEW S \in SUBSET Threads, NEW T \in SUBSET Threads, NEW w \in T,
           w \notin S, S \subseteq T
    PROVE  Cardinality(S) + 1 <= Cardinality(T)
<1>1. IsFiniteSet(S) /\ IsFiniteSet(T) /\ Cardinality(S) \in Nat /\ Cardinality(T) \in Nat
    BY ThreadSets
<1>2. Cardinality(S \cup {w}) = Cardinality(S) + 1
    BY <1>1, FS_AddElement
<1>3. Cardinality(S \cup {w}) <= Cardinality(T)
    BY <1>1, FS_Subset
<1> QED
    BY <1>2, <1>3

(* A call that returns keeps the invariant. *)
LEMMA MoveKeeps ==
    ASSUME IInv, NEW t \in Threads, NEW c \in Menu[t], c.op \in PushOps \cup PopOps,
           NEW n \in Nat, Moved(t, c, n),
           capacity' = capacity, shutdown' = shutdown,
           need_wakeup' \in BOOLEAN, need_wakeup' => need_wakeup,
           phase[t] # "unlocked",
           t \in Waiters => c = call[t],
           t \in Waiters /\ n = 0 /\ ~shutdown /\ ~need_wakeup => ~Ready(c)
    PROVE  IInv'
<1> USE DEF CV
<1>1. /\ c \in Call
      /\ TypeOK /\ Len(queue) \in Nat /\ Len(queue') \in Nat /\ capacity \in Nat \ {0}
    BY MenuAssumption, LenProperties DEF IInv, TypeOK, Moved
<1>2. Quiet(t)
    BY DEF Moved, Returned
<1>3. TypeOK'
  <2>1. /\ queue' \in Seq(Elem) /\ capacity' \in Nat \ {0} /\ shutdown' \in BOOLEAN
        /\ need_wakeup' \in BOOLEAN /\ phase' \in [Threads -> Phases]
        /\ sent' \in [Threads -> Nat] /\ taken' \in [Threads -> Nat]
      BY <1>1, <1>2 DEF TypeOK, Moved, Quiet
  <2>2. call' = [call EXCEPT ![t] = NoCall] /\ call \in [Threads -> Call \cup {NoCall}]
      BY <1>1 DEF Moved, Returned, TypeOK
  <2>3. call' \in [Threads -> Call \cup {NoCall}]
      BY <2>2
  <2>4. \A u \in Waiters' : u \in Waiters /\ u \in Threads /\ call'[u] = call[u]
      BY <1>2, <2>2 DEF Quiet, Waiters
  <2> QED
      BY <1>1, <2>1, <2>3, <2>4 DEF TypeOK
<1>4. NobodySleeps'
    BY <1>2 DEF IInv, NobodySleeps, Quiet
<1>5. ASSUME NEW cv \in CV
      PROVE  /\ Waiting(cv)' \subseteq Waiting(cv) \ {t}
             /\ Notified(cv) \ {t} \subseteq Notified(cv)'
             /\ Waiting(cv)' # {} => Waiting(cv) # {} /\ ~shutdown /\ ~need_wakeup
             /\ Notified(cv) \in SUBSET Threads /\ Notified(cv)' \in SUBSET Threads
             /\ Waiting(cv) \cap Notified(cv) = {}
             /\ t \in Notified(cv) => t \in Waiters /\ CondVar(c) = cv
             /\ Cardinality(Notified(cv)) \in Nat /\ Cardinality(Notified(cv)') \in Nat
  <2>1. /\ Waiting(cv)' \subseteq Waiting(cv) \ {t}
        /\ Notified(cv) \ {t} \subseteq Notified(cv)'
      BY <1>2 DEF Quiet
  <2>2. /\ Notified(cv) \in SUBSET Threads /\ Notified(cv)' \in SUBSET Threads
        /\ Waiting(cv) \cap Notified(cv) = {}
      BY DEF Notified, Waiting
  <2>3. Waiting(cv) # {} => ~shutdown /\ ~need_wakeup
      BY DEF IInv, NobodySleeps, Waiting
  <2>4. t \in Notified(cv) => t \in Waiters /\ CondVar(c) = cv
      BY DEF Notified, Waiters
  <2> QED
      BY <2>1, <2>2, <2>3, <2>4, ThreadSets
<1>6. ConsumersCovered'
  <2> SUFFICES ASSUME Waiting("not_empty")' # {}
               PROVE  Len(queue') <= Cardinality(Notified("not_empty")')
      BY DEF ConsumersCovered
  <2>1. Len(queue) <= Cardinality(Notified("not_empty"))
      BY <1>5 DEF IInv, ConsumersCovered
  <2>2. CASE c.op \in PopOps
    <3>1. Len(queue') = Len(queue) - n
        BY <2>2 DEF Moved
    <3>2. t \in Notified("not_empty") => n >= 1 \/ Len(queue) = 0
        BY <1>1, <1>5, <2>2 DEF Ready, PopOps
    <3>3. /\ Cardinality(Notified("not_empty")) <= Cardinality(Notified("not_empty")') + 1
          /\ t \notin Notified("not_empty")
                => Cardinality(Notified("not_empty")) <= Cardinality(Notified("not_empty")')
        BY <1>5, LeaveOne
    <3> QED
        BY <1>1, <1>5, <2>1, <3>1, <3>2, <3>3
  <2>3. CASE c.op \in PushOps
    <3>1. Len(queue') = Len(queue) + n
        BY <2>3 DEF Moved
    <3>2. t \notin Notified("not_empty")
        BY <1>5, <2>3 DEF CondVar
    <3>3. Notified("not_empty") \subseteq Notified("not_empty")'
        BY <1>5, <3>2
    <3>4. Cardinality(Notified("not_empty")) <= Cardinality(Notified("not_empty")')
        BY <1>5, <3>2, LeaveOne
    <3>5. CASE n = 0
        BY <1>1, <1>5, <2>1, <3>1, <3>4, <3>5
    <3>6. CASE n > 0
      <4>1. n = 1 /\ One(t, "not_empty")
          BY <1>1, <2>3, <3>6 DEF Moved, Returned, All, PushOps
      <4>2. PICK w \in Waiting("not_empty") \ {t} : w \in Notified("not_empty")'
          BY <4>1 DEF One, All
      <4>3. Cardinality(Notified("not_empty")) + 1 <= Cardinality(Notified("not_empty")')
          BY <1>5, <3>3, <4>2, EnterOne
      <4> QED
          BY <1>1, <1>5, <2>1, <3>1, <4>1, <4>3
    <3> QED
        BY <3>5, <3>6
  <2> QED
      BY <2>2, <2>3
<1>7. UniformMenu => PushersCovered'
  <2> SUFFICES ASSUME UniformMenu, Waiting("not_full")' # {},
                      ~ \E u \in Threads : phase'[u] = "unlocked"
               PROVE  capacity <= Len(queue') + Cardinality(Notified("not_full")')
      BY DEF PushersCovered
  <2>1. ~ \E u \in Threads : phase[u] = "unlocked"
      BY <1>2 DEF Quiet
  <2>2. capacity <= Len(queue) + Cardinality(Notified("not_full"))
      BY <1>5, <2>1 DEF IInv, PushersCovered
  <2>3. CASE c.op \in PushOps
    <3>1. Len(queue') = Len(queue) + n
        BY <2>3 DEF Moved
    <3>2. t \in Notified("not_full") => n >= 1 \/ capacity <= Len(queue)
      <4>1. c.op # "PushBatch"
          BY DEF UniformMenu
      <4> QED
        BY <1>1, <1>5, <2>3, <4>1 DEF Ready, HasRoom, PushOps, TypeOK
    <3>3. /\ Cardinality(Notified("not_full")) <= Cardinality(Notified("not_full")') + 1
          /\ t \notin Notified("not_full")
                => Cardinality(Notified("not_full")) <= Cardinality(Notified("not_full")')
        BY <1>5, LeaveOne
    <3> QED
        BY <1>1, <1>5, <2>2, <3>1, <3>2, <3>3
  <2>4. CASE c.op \in PopOps
    <3>1. Len(queue') = Len(queue) - n
        BY <2>4 DEF Moved
    <3>2. t \notin Notified("not_full")
        BY <1>5, <2>4 DEF CondVar, PopOps, PushOps
    <3>3. Notified("not_full") \subseteq Notified("not_full")'
        BY <1>5, <3>2
    <3>4. Cardinality(Notified("not_full")) <= Cardinality(Notified("not_full")')
        BY <1>5, <3>2, LeaveOne
    <3>5. CASE n = 0
        BY SMTT(30), <1>1, <1>5, <2>2, <3>1, <3>4, <3>5
    <3>6. CASE n > 0
      <4>1. c.op = "Pop"
          BY SMTT(30), <2>4, <3>6 DEF Moved, Returned, All, PopOps
      <4>2. n = 1 /\ One(t, "not_full")
          BY <3>6, <4>1 DEF Moved, Returned
      <4>3. PICK w \in Waiting("not_full") \ {t} : w \in Notified("not_full")'
          BY <4>2 DEF One, All
      <4>4. Cardinality(Notified("not_full")) + 1 <= Cardinality(Notified("not_full")')
          BY <1>5, <3>3, <4>3, EnterOne
      <4> QED
          BY SMTT(30), <1>1, <1>5, <2>2, <3>1, <4>2, <4>4
    <3> QED
        BY <3>5, <3>6
  <2> QED
      BY <2>3, <2>4
<1> QED
    BY <1>3, <1>4, <1>6, <1>7 DEF IInv

(* A call that goes to sleep found its predicate false. *)
LEMMA BlockKeeps ==
    ASSUME IInv, NEW t \in Threads, NEW c \in Menu[t],
           c.op \in (PushOps \cup PopOps) \ {"PushForce", "Front"}, c.timeout # "never",
           ~need_wakeup, ~Ready(c), phase[t] \in {"idle", "notified"},
           phase[t] = "notified" => c = call[t],
           phase' = [phase EXCEPT ![t] = "wait"],
           call' = [call EXCEPT ![t] = c],
           UNCHANGED <<queue, capacity, shutdown, need_wakeup, sent, taken>>
    PROVE  IInv'
<1>1. /\ c \in Call /\ TypeOK /\ Len(queue) \in Nat /\ capacity \in Nat \ {0}
      /\ Len(queue') = Len(queue) /\ capacity' = capacity
    BY MenuAssumption, LenProperties DEF IInv, TypeOK
<1>2. TypeOK'
  <2>1. \A u \in Waiters' : u = t \/ (u \in Waiters /\ u # t /\ call'[u] = call[u])
      BY <1>1 DEF TypeOK, Waiters
  <2>2. call'[t] = c
      BY <1>1 DEF TypeOK
  <2>3. phase' \in [Threads -> Phases] /\ call' \in [Threads -> Call \cup {NoCall}]
      BY <1>1 DEF TypeOK, Phases
  <2>4. c.op = "PushBatchForce" => c.wait
      BY DEF Ready
  <2> QED
      BY <1>1, <2>1, <2>2, <2>3, <2>4 DEF TypeOK
<1>3. ~shutdown
    BY <1>1 DEF Ready, PushOps, PopOps
<1>4. NobodySleeps'
    BY <1>3 DEF NobodySleeps
<1>5. ASSUME NEW cv
      PROVE  /\ Notified(cv)' = Notified(cv) \ {t}
             /\ Waiting(cv)' = Waiting(cv) \cup (IF CondVar(c) = cv THEN {t} ELSE {})
  <2>1. /\ phase \in [Threads -> Phases] /\ call \in [Threads -> Call \cup {NoCall}]
      BY <1>1 DEF TypeOK
  <2>2. \A u \in Threads \ {t} : CondVar(call[u])' = CondVar(call[u]) /\ phase'[u] = phase[u]
      BY <2>1 DEF CondVar
  <2>3. CondVar(call[t])' = CondVar(c) /\ phase'[t] = "wait"
      BY <2>1 DEF CondVar
  <2> QED
      BY <2>2, <2>3 DEF Notified, Waiting
<1>6. \A cv : /\ Cardinality(Notified(cv)) \in Nat /\ Cardinality(Notified(cv)') \in Nat
              /\ t \notin Notified(cv) => Notified(cv)' = Notified(cv)
  <2> TAKE cv
  <2>1. Notified(cv) \in SUBSET Threads /\ Notified(cv)' \in SUBSET Threads
      BY DEF Notified
  <2>2. Cardinality(Notified(cv)) \in Nat /\ Cardinality(Notified(cv)') \in Nat
      BY Zenon, <2>1, ThreadSets
  <2>3. t \notin Notified(cv) => Notified(cv)' = Notified(cv)
      BY ONLY <1>5
  <2> QED
      BY Zenon, <2>2, <2>3
<1>7. \A cv : CondVar(c) # cv => Waiting(cv)' = Waiting(cv) /\ Notified(cv)' = Notified(cv)
  <2> TAKE cv
  <2>1. t \in Notified(cv) => CondVar(c) = cv
      BY DEF Notified
  <2>2. CondVar(c) # cv => Waiting(cv)' = Waiting(cv)
      BY <1>5
  <2>3. t \notin Notified(cv) => Notified(cv)' = Notified(cv)
      BY ONLY <1>6
  <2> QED
      BY ONLY <2>1, <2>2, <2>3
<1>8. ConsumersCovered'
  <2>1. CASE c.op \in PopOps
    <3>1. Len(queue) = 0
        BY <1>1, <2>1 DEF Ready, PopOps
    <3> QED
        BY <1>1, <1>6, <3>1 DEF ConsumersCovered
  <2>2. CASE c.op \in PushOps
      BY <1>1, <1>7, <2>2 DEF ConsumersCovered, CondVar, IInv
  <2> QED
      BY <2>1, <2>2
<1>9. ASSUME UniformMenu PROVE PushersCovered'
  <2>1. CASE c.op \in PushOps
    <3>1. c.op # "PushBatch"
        BY <1>9 DEF UniformMenu
    <3>2. capacity <= Len(queue)
        BY <1>1, <2>1, <3>1 DEF Ready, HasRoom, PushOps
    <3> QED
        BY <1>1, <1>6, <3>2 DEF PushersCovered
  <2>2. CASE c.op \in PopOps
    <3>1. Waiting("not_full")' = Waiting("not_full") /\ Notified("not_full")' = Notified("not_full")
        BY <1>7, <2>2 DEF CondVar, PopOps, PushOps
    <3>2. \A u \in Threads : phase[u] = "unlocked" => phase'[u] = "unlocked"
        BY <1>1 DEF TypeOK
    <3>3. PushersCovered
        BY <1>9 DEF IInv
    <3> QED
        BY <1>1, <3>1, <3>2, <3>3 DEF PushersCovered
  <2> QED
      BY <2>1, <2>2
<1> QED
    BY <1>2, <1>4, <1>8, <1>9 DEF IInv

(* The end of Wait() keeps the invariant. *)
LEMMA LeaveKeeps ==
    ASSUME IInv, NEW t \in Threads, NEW c \in Menu[t],
           c.op \in (PushOps \cup PopOps) \ {"PushForce"},
           NEW ok \in BOOLEAN, Leave(t, c, ok), ~need_wakeup => (ok <=> Ready(c)),
           phase[t] # "unlocked", t \in Waiters => c = call[t]
    PROVE  IInv'
<1>1. c \in Call /\ TypeOK
    BY MenuAssumption DEF IInv
<1>2. PICK n \in Nat : /\ Moved(t, c, n)
                       /\ ok /\ ~need_wakeup /\ ~shutdown /\ c.op # "Front" => n >= 1
    BY <1>1, LeaveMoves
<1>3. t \in Waiters => c.op # "Front"
    BY <1>1 DEF TypeOK
<1>4. /\ capacity' = capacity /\ shutdown' = shutdown
      /\ need_wakeup' \in BOOLEAN /\ (need_wakeup' => need_wakeup)
    BY <1>1 DEF Leave, TypeOK
<1>5. t \in Waiters /\ n = 0 /\ ~shutdown /\ ~need_wakeup => ~Ready(c)
    BY <1>2, <1>3
<1> QED
    BY <1>2, <1>4, <1>5, MoveKeeps

(* So does Wait() of a new call. *)
LEMMA EnterKeeps ==
    ASSUME IInv, NEW t \in Threads, NEW c \in Menu[t], phase[t] = "idle",
           c.op \in (PushOps \cup PopOps) \ {"PushForce"},
           c.op = "Front" => c.timeout = "never", Enter(t, c)
    PROVE  IInv'
<1>1. t \notin Waiters
    BY DEF Waiters
<1>2. CASE (need_wakeup \/ Ready(c) \/ c.timeout = "never") /\ Leave(t, c, Ready(c))
  <2>1. Ready(c) \in BOOLEAN
      BY DEF Ready, HasRoom, IInv, TypeOK, Call
  <2> QED
      BY <1>1, <1>2, <2>1, LeaveKeeps
<1>3. CASE /\ ~(need_wakeup \/ Ready(c)) /\ c.timeout # "never"
           /\ phase' = [phase EXCEPT ![t] = "wait"]
           /\ call' = [call EXCEPT ![t] = c]
           /\ UNCHANGED <<queue, capacity, shutdown, need_wakeup, sent, taken>>
    BY <1>3, BlockKeeps
<1> QED
    BY <1>2, <1>3 DEF Enter

(* And a call that fails before Wait(). *)
LEMMA FailKeeps ==
    ASSUME IInv, NEW t \in Threads, NEW c \in Menu[t], phase[t] = "idle",
           c.op \in PushOps \cup PopOps, Fail(t, c),
           UNCHANGED <<capacity, shutdown, need_wakeup>>
    PROVE  IInv'
<1>1. c \in Call /\ TypeOK /\ need_wakeup \in BOOLEAN
    BY MenuAssumption DEF IInv, TypeOK
<1>2. t \notin Waiters
    BY DEF Waiters
<1>3. Moved(t, c, 0)
    BY <1>1, FailMoves
<1> QED
    BY <1>1, <1>2, <1>3, MoveKeeps

(* notify_all() of both condition variables leaves nobody asleep. *)
LEMMA NotifyEverybodyKeeps ==
    ASSUME IInv, NotifyEverybody, UNCHANGED <<capacity, call, sent>>,
           queue' \in Seq(Elem), taken' \in [Threads -> Nat],
           shutdown' \in BOOLEAN, need_wakeup' \in BOOLEAN
    PROVE  IInv'
<1>1. phase \in [Threads -> Phases] /\ TypeOK
    BY DEF IInv, TypeOK
<1>2. phase' \in [Threads -> Phases] /\ \A t \in Threads : phase'[t] # "wait"
    BY <1>1 DEF NotifyEverybody, Phases
<1>3. Waiters' \subseteq Waiters
    BY <1>1 DEF Waiters, NotifyEverybody
<1>4. TypeOK'
    BY <1>1, <1>2, <1>3 DEF TypeOK
<1>5. \A cv : Waiting(cv)' = {}
    BY <1>2 DEF Waiting
<1> QED
    BY <1>2, <1>4, <1>5 DEF IInv, NobodySleeps, ConsumersCovered, PushersCovered

(* An empty queue with nobody inside satisfies the inductive invariant. *)
LEMMA InitIInv == Init => IInv
<1> SUFFICES ASSUME Init PROVE IInv
    OBVIOUS
<1>1. TypeOK
  <2>1. Waiters = {}
      BY DEF Init, Waiters
  <2>2. queue \in Seq(Elem)
      BY EmptySeq DEF Init
  <2>3. call \in [Threads -> Call \cup {NoCall}] /\ phase \in [Threads -> Phases]
      BY DEF Init, Phases
  <2> QED
      BY <2>1, <2>2, <2>3, CapacityAssumption DEF Init, TypeOK
<1>2. \A cv : Waiting(cv) = {}
    BY DEF Init, Waiting
<1>3. NobodySleeps
    BY DEF Init, NobodySleeps
<1> QED
    BY <1>1, <1>2, <1>3 DEF IInv, ConsumersCovered, PushersCovered

(* The invariant is inductive. *)
LEMMA NextIInv == IInv /\ [Next]_vars => IInv'
<1> SUFFICES ASSUME IInv, [Next]_vars PROVE IInv'
    OBVIOUS
<1>0. TypeOK
    BY DEF IInv
<1>1. ASSUME NEW t \in Threads, NEW c \in Menu[t], Push(t, c) PROVE IInv'
  <2>1. phase[t] = "idle" /\ c.op = "Push"
      BY <1>1 DEF Push, Calls
  <2>2. CASE shutdown
      BY <1>1, <2>1, <2>2, FailKeeps DEF Push, PushOps
  <2>3. CASE ~shutdown
      BY <1>1, <2>1, <2>3, EnterKeeps DEF Push, PushOps
  <2> QED
      BY <2>2, <2>3
<1>2. ASSUME NEW t \in Threads, NEW c \in Menu[t], PushMany(t, c) PROVE IInv'
    BY <1>2, EnterKeeps DEF PushMany, Calls, PushOps
<1>3. ASSUME NEW t \in Threads, NEW c \in Menu[t], PushForce(t, c) PROVE IInv'
  <2>1. /\ phase[t] = "idle" /\ c.op = "PushForce" /\ c \in Call /\ c.op \in PushOps
        /\ UNCHANGED <<capacity, shutdown, need_wakeup>> /\ need_wakeup \in BOOLEAN
      BY Zenon, <1>0, <1>3, MenuAssumption DEF PushForce, Calls, PushOps, TypeOK
  <2>2. CASE shutdown
      BY Zenon, <1>3, <2>1, <2>2, FailKeeps DEF PushForce
  <2>3. CASE ~shutdown
    <3>1. Put(t, c, 1)
        BY <1>3, <2>3 DEF PushForce
    <3>2. Moved(t, c, 1)
        BY <1>0, <2>1, <3>1, PutMoves
    <3>3. t \notin Waiters
        BY <2>1 DEF Waiters
    <3> QED
        BY <2>1, <3>2, <3>3, MoveKeeps
  <2> QED
      BY <2>2, <2>3
<1>4. ASSUME NEW t \in Threads, NEW c \in Menu[t], Pop(t, c) PROVE IInv'
  <2>1. /\ phase[t] = "idle" /\ c.op \in PopOps /\ (c.op = "Front" => c.timeout = "never")
        /\ c.op # "PushForce"
      BY <1>4 DEF Pop, Calls, PopOps
  <2>2. CASE shutdown /\ queue = <<>>
      BY <1>4, <2>1, <2>2, FailKeeps DEF Pop
  <2>3. CASE ~(shutdown /\ queue = <<>>)
      BY <1>4, <2>1, <2>3, EnterKeeps DEF Pop
  <2> QED
      BY <2>2, <2>3
<1>5. ASSUME NEW t \in Threads, NEW c \in Menu[t], PopBatchFifo(t, c) PROVE IInv'
  <2>1. phase[t] = "idle" /\ c.op = "PopBatch" /\ c.op \in PopOps
      BY <1>5 DEF PopBatchFifo, Calls, PopOps
  <2>2. CASE queue = <<>>
      BY <1>5, <2>1, <2>2, FailKeeps DEF PopBatchFifo
  <2>3. CASE queue # <<>>
      BY <1>5, <2>1, <2>3, EnterKeeps DEF PopBatchFifo
  <2> QED
      BY <2>2, <2>3
<1>6. ASSUME NEW t \in Threads, NEW c \in Menu[t], Clear(t, c) PROVE IInv'
  <2>1. ~UniformMenu
      BY <1>6 DEF Clear, UniformMenu
  <2>2. /\ queue' = <<>> /\ taken' = sent
        /\ UNCHANGED <<capacity, shutdown, need_wakeup, call, phase, sent>>
      BY <1>6 DEF Clear, Drop
  <2>3. TypeOK'
      BY <1>0, <2>2, EmptySeq DEF TypeOK, Waiters
  <2>4. Len(queue') = 0 /\ Cardinality(Notified("not_empty")') \in Nat
    <3>1. Notified("not_empty")' \in SUBSET Threads
        BY DEF Notified
    <3> QED
        BY <2>2, <3>1, ThreadSets, EmptySeq
  <2> QED
      BY <2>1, <2>2, <2>3, <2>4 DEF IInv, NobodySleeps, ConsumersCovered
<1>7. ASSUME NEW t \in Threads, NEW c \in Menu[t],
             Close(t, c) \/ Shutdown(t, c) \/ Wakeup(t, c)
      PROVE  IInv'
  <2>1. NotifyEverybody /\ UNCHANGED <<capacity, call, sent>>
      BY <1>7 DEF Close, Shutdown, Wakeup
  <2>2. /\ queue' \in Seq(Elem) /\ taken' \in [Threads -> Nat]
        /\ shutdown' \in BOOLEAN /\ need_wakeup' \in BOOLEAN
      BY <1>0, <1>7, EmptySeq DEF Close, Drop, Shutdown, Wakeup, TypeOK
  <2> QED
      BY <2>1, <2>2, NotifyEverybodyKeeps
<1>8. ASSUME NEW t \in Threads, NEW c \in Menu[t], SetCapacity(t, c) PROVE IInv'
  <2>1. ~UniformMenu
      BY <1>8 DEF SetCapacity, UniformMenu
  <2>2. /\ capacity' \in Nat \ {0}
        /\ UNCHANGED <<queue, shutdown, need_wakeup, call, phase, sent, taken>>
      BY <1>8, MenuAssumption DEF SetCapacity, Call
  <2>3. TypeOK'
      BY <1>0, <2>2 DEF TypeOK, Waiters
  <2>4. \A cv : Notified(cv)' = Notified(cv) /\ Waiting(cv)' = Waiting(cv)
      BY <2>2 DEF Notified, Waiting, CondVar
  <2> QED
      BY <2>1, <2>2, <2>3, <2>4 DEF IInv, NobodySleeps, ConsumersCovered
<1>9. ASSUME NEW t \in Threads, NotifyUnlocked(t) PROVE IInv'
  <2>1. /\ NotifyAll(t, "idle", "not_full") /\ phase[t] = "unlocked"
        /\ UNCHANGED <<queue, capacity, shutdown, need_wakeup, call, sent, taken>>
      BY <1>9 DEF NotifyUnlocked
  <2>2. Quiet(t) /\ All("not_full")
      BY Zenon, <1>0, <2>1, NotifyEffect DEF CV
  <2>3. TypeOK'
      BY <1>0, <2>1, <2>2 DEF TypeOK, Quiet
  <2>4. NobodySleeps'
      BY <2>1, <2>2 DEF IInv, NobodySleeps, Quiet
  <2>5. ConsumersCovered'
    <3>1. t \notin Notified("not_empty")
        BY <2>1 DEF Notified
    <3>2. /\ Notified("not_empty") \in SUBSET Threads /\ Notified("not_empty")' \in SUBSET Threads
        BY DEF Notified
    <3>3. /\ Waiting("not_empty")' \subseteq Waiting("not_empty")
          /\ Notified("not_empty") \ {t} \subseteq Notified("not_empty")'
        BY <2>2 DEF Quiet, CV
    <3>4. Cardinality(Notified("not_empty")) <= Cardinality(Notified("not_empty")')
        BY <3>1, <3>2, <3>3, LeaveOne
    <3>5. /\ Cardinality(Notified("not_empty")) \in Nat /\ Cardinality(Notified("not_empty")') \in Nat
          /\ Len(queue) \in Nat
        BY <1>0, <3>2, ThreadSets, LenProperties DEF TypeOK
    <3> QED
        BY <2>1, <3>3, <3>4, <3>5 DEF ConsumersCovered, IInv
  <2>6. PushersCovered'
      BY <2>2 DEF PushersCovered, All
  <2> QED
      BY <2>3, <2>4, <2>5, <2>6 DEF IInv
<1>10. ASSUME NEW t \in Threads, Resume(t) PROVE IInv'
  <2>1. /\ phase[t] = "notified" /\ t \in Waiters /\ call[t] \in Menu[t]
        /\ call[t].op \in (PushOps \cup PopOps) \ {"PushForce", "Front"}
        /\ call[t].timeout # "never"
      BY <1>0, <1>10 DEF Resume, Waiters, TypeOK
  <2>2. CASE (need_wakeup \/ Ready(call[t])) /\ Leave(t, call[t], TRUE)
      BY <2>1, <2>2, LeaveKeeps
  <2>3. CASE /\ ~(need_wakeup \/ Ready(call[t]))
             /\ phase' = [phase EXCEPT ![t] = "wait"]
             /\ UNCHANGED <<queue, capacity, shutdown, need_wakeup, call, sent, taken>>
    <3>1. call' = [call EXCEPT ![t] = call[t]]
        BY <1>0, <2>3 DEF TypeOK
    <3> QED
        BY <2>1, <2>3, <3>1, BlockKeeps
  <2> QED
      BY <1>10, <2>2, <2>3 DEF Resume
<1>11. ASSUME NEW t \in Threads, TimeOut(t) PROVE IInv'
  <2>1. /\ phase[t] # "unlocked" /\ t \in Waiters /\ call[t] \in Menu[t]
        /\ call[t].op \in (PushOps \cup PopOps) \ {"PushForce", "Front"}
      BY <1>0, <1>11 DEF TimeOut, Waiters, TypeOK
  <2>2. Ready(call[t]) \in BOOLEAN
      BY <1>0 DEF Ready, HasRoom, TypeOK, Call
  <2> QED
      BY <1>11, <2>1, <2>2, LeaveKeeps DEF TimeOut
<1>12. CASE UNCHANGED vars
  <2>1. \A cv : Notified(cv)' = Notified(cv) /\ Waiting(cv)' = Waiting(cv)
      BY <1>12 DEF Notified, Waiting, CondVar, vars
  <2> QED
      BY <1>12, <2>1 DEF IInv, TypeOK, NobodySleeps, ConsumersCovered, PushersCovered, Waiters, vars
<1> QED
    BY <1>1, <1>2, <1>3, <1>4, <1>5, <1>6, <1>7, <1>8, <1>9, <1>10, <1>11, <1>12 DEF Next

(* The inductive invariant holds in every reachable state. *)
LEMMA SpecIInv == Spec => []IInv
    BY InitIInv, NextIInv, PTL DEF Spec

-----------------------------------------------------------------------------
(* The theorems. *)

(* Every field of the queue keeps its type, whatever calls are mixed. *)
THEOREM TypeCorrect == Spec => []TypeOK
<1>1. IInv => TypeOK
    BY DEF IInv
<1> QED
    BY <1>1, SpecIInv, PTL

(* No pop sleeps beside data: for every mix of calls, Wakeup(), Shutdown(),
   Clear() and SetCapacity() included, a sleeping consumer whose predicate holds
   has a notified consumer next to it. *)
THEOREM ConsumersNeverStranded == Spec => []NoStrandedConsumer
<1>1. IInv => NoStrandedConsumer
  <2> SUFFICES ASSUME IInv, NEW t \in Waiting("not_empty"), Ready(call[t])
               PROVE  Notified("not_empty") # {}
      BY DEF NoStrandedConsumer
  <2>1. t \in Threads /\ phase[t] = "wait" /\ t \in Waiters /\ call[t].op \notin PushOps
      BY DEF Waiting, Waiters, CondVar
  <2>2. ~shutdown
      BY <2>1 DEF IInv, NobodySleeps
  <2>3. Len(queue) \in Nat
      BY LenProperties DEF IInv, TypeOK
  <2>4. Len(queue) > 0
      BY <2>1, <2>2 DEF Ready, PushOps
  <2>5. Len(queue) <= Cardinality(Notified("not_empty"))
      BY DEF IInv, ConsumersCovered
  <2> QED
      BY <2>3, <2>4, <2>5, FS_EmptySet
<1> QED
    BY <1>1, SpecIInv, PTL

(* No push sleeps beside room, when all pushers wait for a single place and room
   is made by pops only: this is how the ports use their queues. *)
THEOREM PushersNeverStranded ==
    ASSUME UniformMenu
    PROVE  Spec => []NoStrandedPusher
<1>1. IInv => NoStrandedPusher
  <2> SUFFICES ASSUME IInv, NEW t \in Waiting("not_full"), Ready(call[t]),
                      ~ \E u \in Threads : phase[u] = "unlocked"
               PROVE  Notified("not_full") # {}
      BY DEF NoStrandedPusher
  <2>1. t \in Threads /\ phase[t] = "wait" /\ t \in Waiters /\ call[t].op \in PushOps
      BY DEF Waiting, Waiters, CondVar
  <2>2. ~shutdown
      BY <2>1 DEF IInv, NobodySleeps
  <2>3. Len(queue) \in Nat /\ capacity \in Nat \ {0}
      BY LenProperties DEF IInv, TypeOK
  <2>4. /\ call[t] \in Menu[t]
        /\ call[t].op \in PushOps \ {"PushForce"}
      BY <2>1 DEF IInv, TypeOK, PopOps, PushOps
  <2>5. call[t].op # "PushBatch"
      BY <2>1, <2>4, UniformMenu DEF UniformMenu
  <2>6. call[t].op = "PushBatchForce" => call[t].wait
      BY <2>1 DEF IInv, TypeOK
  <2>7. Len(queue) < capacity
      BY <2>2, <2>3, <2>4, <2>5, <2>6 DEF Ready, HasRoom, PushOps
  <2>8. capacity <= Len(queue) + Cardinality(Notified("not_full"))
      BY UniformMenu DEF IInv, PushersCovered
  <2>9. Notified("not_full") = {} => Cardinality(Notified("not_full")) = 0
      BY Zenon, FS_EmptySet
  <2> QED
      BY ONLY <2>3, <2>7, <2>8, <2>9
<1> QED
    BY <1>1, SpecIInv, PTL

-----------------------------------------------------------------------------
(* The content of the queue. *)

(* A set of natural numbers that is not empty has a least element. *)
LEMMA LeastNatural ==
    ASSUME NEW S \in SUBSET Nat, S # {}
    PROVE  \E m \in S : \A k \in S : m <= k
<1>1. PICK m \in S : \A k \in S : ~ (<<k, m>> \in OpToRel(<, Nat))
    BY NatLessThanWellFounded, WFMin, Zenon
<1>2. m \in Nat /\ \A k \in S : k \in Nat
    OBVIOUS
<1>3. \A k \in S : ~ (k < m)
    BY <1>1, <1>2, Zenon DEF OpToRel
<1> QED
    BY <1>2, <1>3

(* A part of a+1..b that holds with a number all the smaller ones consists of
   the first ones. *)
LEMMA InitialSegment ==
    ASSUME NEW a \in Nat, NEW b \in Nat, NEW D \in SUBSET (a + 1 .. b),
           \A x \in D : \A y \in a + 1 .. b : y < x => y \in D
    PROVE  /\ IsFiniteSet(D) /\ Cardinality(D) \in Nat
           /\ D = a + 1 .. a + Cardinality(D)
<1> DEFINE E == {y \in Nat : y > a /\ y \notin D}
<1>1. E \in SUBSET Nat /\ a + b + 1 \in E
    OBVIOUS
<1>2. PICK m \in E : \A k \in E : m <= k
  <2> HIDE DEF E
  <2> QED
      BY <1>1, LeastNatural
<1>3. D = a + 1 .. m - 1
  <2>1. ASSUME NEW x \in D PROVE x \in a + 1 .. m - 1
    <3>1. x \in Nat /\ x >= a + 1 /\ x <= b /\ m \in Nat /\ m > a /\ m \notin D
        OBVIOUS
    <3>2. ~ (m < x)
        BY <3>1
    <3> QED
        BY <3>1, <3>2
  <2>2. ASSUME NEW x \in a + 1 .. m - 1 PROVE x \in D
    <3>1. x \in Nat /\ x > a /\ ~ (m <= x)
        OBVIOUS
    <3> QED
        BY <1>2, <3>1
  <2> QED
      BY <2>1, <2>2, Zenon
<1>4. a + 1 \in Int /\ m - 1 \in Int /\ m > a /\ m \in Nat
    OBVIOUS
<1>5. /\ IsFiniteSet(a + 1 .. m - 1)
      /\ Cardinality(a + 1 .. m - 1) = IF a + 1 > m - 1 THEN 0 ELSE (m - 1) - (a + 1) + 1
    BY <1>4, FS_Interval, Zenon
<1> HIDE DEF E
<1>6. Cardinality(D) = m - 1 - a
    BY <1>3, <1>4, <1>5
<1> QED
    BY <1>3, <1>4, <1>5, <1>6

(* The elements are ordered by priority, and those of one thread by number. *)
Ordered(q) ==
    \A i, j \in 1..Len(q) :
        i < j => /\ q[i].prio >= q[j].prio
                 /\ q[i].src = q[j].src => q[i].num < q[j].num

(* Exactly the elements that were sent and not taken are there. *)
Held(q, from, upto) ==
    /\ \A t \in Threads : from[t] <= upto[t]
    /\ \A i \in 1..Len(q) : /\ q[i].prio = Priority[q[i].src]
                            /\ from[q[i].src] < q[i].num
                            /\ q[i].num <= upto[q[i].src]
    /\ \A t \in Threads : \A n \in Nat :
          from[t] < n /\ n <= upto[t] => \E i \in 1..Len(q) : q[i].src = t /\ q[i].num = n

Content == Ordered(queue) /\ Held(queue, taken, sent)

(* The elements of at least a priority stand at the front: Rank is the place
   behind the last of them. *)
LEMMA RankSplits ==
    ASSUME TypeOK, Content, NEW p \in Nat
    PROVE  /\ Rank(p) \in 0..Len(queue)
           /\ \A i \in 1..Len(queue) : i <= Rank(p) <=> queue[i].prio >= p
<1> DEFINE D == {i \in DOMAIN queue : queue[i].prio >= p}
<1>0. /\ queue \in Seq(Elem) /\ Len(queue) \in Nat /\ DOMAIN queue = 1..Len(queue)
      /\ \A i \in 1..Len(queue) : queue[i] \in Elem
    BY LenProperties, ElementOfSeq DEF TypeOK
<1>1. /\ queue \in Seq(Elem) /\ Len(queue) \in Nat /\ DOMAIN queue = 1..Len(queue)
      /\ \A i \in 1..Len(queue) : queue[i].prio \in Nat
    BY <1>0 DEF Elem
<1>2. D \in SUBSET (0 + 1 .. Len(queue))
    BY <1>1
<1>3. \A x \in D : \A y \in 0 + 1 .. Len(queue) : y < x => y \in D
    BY <1>1 DEF Content, Ordered
<1>4. Rank(p) = Cardinality(D) /\ Rank(p) \in 0..Len(queue)
    BY <1>1, Positions DEF Rank
<1>5. \A i \in 1..Len(queue) : i \in D <=> queue[i].prio >= p
    BY <1>1
<1> HIDE DEF D
<1>6. D = 0 + 1 .. 0 + Cardinality(D)
    BY <1>1, <1>2, <1>3, InitialSegment, Zenon
<1> QED
    BY <1>1, <1>4, <1>5, <1>6

(* A queue between two positions. *)
LEMMA Part ==
    ASSUME NEW q \in Seq(Elem), NEW m \in 0..Len(q), NEW k \in m..Len(q)
    PROVE  /\ SubSeq(q, m + 1, k) \in Seq(Elem)
           /\ Len(SubSeq(q, m + 1, k)) = k - m
           /\ \A i \in 1 .. k - m : SubSeq(q, m + 1, k)[i] = q[m + i]
<1>1. Len(q) \in Nat /\ \A i \in 1..Len(q) : q[i] \in Elem
    BY LenProperties, ElementOfSeq
<1>3. SubSeq(q, m + 1, k) \in Seq(Elem) /\ Len(SubSeq(q, m + 1, k)) = k - m
    BY <1>1, SMT
<1>4. \A i \in 1 .. k - m : SubSeq(q, m + 1, k)[i] = q[m + i]
    BY <1>1, SMT
<1> QED
    BY <1>3, <1>4

(* Where emplace() puts the elements. *)
LEMMA EmplaceElements ==
    ASSUME TypeOK, Content, NEW t \in Threads, NEW n \in Nat
    PROVE  \A i \in 1..Len(queue) + n :
               Emplace(t, n)[i] =
                   IF i <= Rank(Priority[t]) THEN queue[i]
                   ELSE IF i <= Rank(Priority[t]) + n
                   THEN [src |-> t, num |-> sent[t] + (i - Rank(Priority[t])), prio |-> Priority[t]]
                   ELSE queue[i - n]
<1> DEFINE r == Rank(Priority[t])
           front == SubSeq(queue, 1, r)
           back == SubSeq(queue, r + 1, Len(queue))
           new == Fresh(t, n)
<1>1. /\ queue \in Seq(Elem) /\ Len(queue) \in Nat
      /\ \A i \in 1..Len(queue) : queue[i] \in Elem
    BY LenProperties, ElementOfSeq DEF TypeOK
<1>2. Priority[t] \in Nat
    BY PriorityAssumption
<1>3. r \in 0..Len(queue) /\ r \in Int
  <2>1. r \in 0..Len(queue)
      BY <1>2, RankSplits, Zenon
  <2> HIDE DEF r
  <2> QED
      BY <1>1, <2>1
<1>4. /\ front \in Seq(Elem) /\ Len(front) = r
      /\ \A i \in 1..r : front[i] = queue[i]
  <2>1. 0 \in 0..Len(queue) /\ r \in 0..Len(queue) /\ 0 + 1 = 1 /\ r - 0 = r
      BY <1>1, <1>3
  <2> HIDE DEF r
  <2>2. \A i \in 1..r : 0 + i = i
      BY <2>1
  <2> QED
      BY <1>1, <2>1, <2>2, Part
<1>5. /\ back \in Seq(Elem) /\ Len(back) = Len(queue) - r
      /\ \A i \in 1 .. Len(queue) - r : back[i] = queue[r + i]
  <2>1. r \in 0..Len(queue) /\ Len(queue) \in r..Len(queue)
      BY <1>1, <1>3
  <2> HIDE DEF r
  <2> QED
      BY <1>1, <2>1, Part
<1>6. /\ new \in Seq(Elem) /\ Len(new) = n
      /\ \A i \in 1..n : new[i] = [src |-> t, num |-> sent[t] + i, prio |-> Priority[t]]
  <2>1. \A i \in 1..n : [src |-> t, num |-> sent[t] + i, prio |-> Priority[t]] \in Elem
      BY PriorityAssumption DEF TypeOK, Elem
  <2>2. new \in [1..n -> Elem]
      BY <2>1 DEF Fresh
  <2>3. \A i \in 1..n : new[i] = [src |-> t, num |-> sent[t] + i, prio |-> Priority[t]]
      BY DEF Fresh
  <2> HIDE DEF new
  <2> QED
      BY <2>2, <2>3, SeqDef, LenProperties
<1>7. Emplace(t, n) = (front \o new) \o back
    BY DEF Emplace
<1> HIDE DEF front, back, new, r
<1>8. /\ front \o new \in Seq(Elem) /\ Len(front \o new) = r + n
      /\ \A i \in 1 .. r + n : (front \o new)[i] = IF i <= r THEN front[i] ELSE new[i - r]
    BY <1>4, <1>6, ConcatProperties, Zenon
<1>9. \A i \in 1 .. (r + n) + (Len(queue) - r) :
         Emplace(t, n)[i] = IF i <= r + n THEN (front \o new)[i] ELSE back[i - (r + n)]
    BY <1>5, <1>7, <1>8, ConcatProperties
<1> SUFFICES ASSUME NEW i \in 1 .. Len(queue) + n
             PROVE  Emplace(t, n)[i] =
                      IF i <= r THEN queue[i]
                      ELSE IF i <= r + n
                      THEN [src |-> t, num |-> sent[t] + (i - r), prio |-> Priority[t]]
                      ELSE queue[i - n]
    BY DEF r
<1>10. i \in 1 .. (r + n) + (Len(queue) - r) /\ i \in Int /\ r \in Nat
    BY <1>1, <1>3
<1>11. CASE i <= r
  <2>1. i \in 1..r + n /\ i <= r + n /\ i \in 1..r
      BY <1>10, <1>11
  <2> QED
      BY <1>4, <1>8, <1>9, <1>10, <1>11, <2>1
<1>12. CASE ~(i <= r) /\ i <= r + n
  <2>1. i \in 1..r + n /\ i - r \in 1..n
      BY <1>10, <1>12
  <2> QED
      BY <1>6, <1>8, <1>9, <1>10, <1>12, <2>1, Zenon
<1>13. CASE ~(i <= r + n)
  <2>1. /\ i - (r + n) \in 1..Len(queue) - r /\ r + (i - (r + n)) = i - n
        /\ ~(i <= r)
      BY <1>1, <1>3, <1>10, <1>13
  <2>2. back[i - (r + n)] = queue[r + (i - (r + n))]
      BY <1>5, <2>1
  <2> QED
      BY <1>9, <1>10, <1>13, <2>1, <2>2
<1> QED
    BY <1>11, <1>12, <1>13

(* The fields of the elements. *)
LEMMA Elements ==
    ASSUME TypeOK
    PROVE  /\ queue \in Seq(Elem) /\ Len(queue) \in Nat /\ DOMAIN queue = 1..Len(queue)
           /\ \A i \in 1..Len(queue) :
                 queue[i].src \in Threads /\ queue[i].num \in Nat /\ queue[i].prio \in Nat
           /\ \A t \in Threads : sent[t] \in Nat /\ taken[t] \in Nat /\ Priority[t] \in Nat
<1>1. queue \in Seq(Elem) /\ Len(queue) \in Nat /\ DOMAIN queue = 1..Len(queue)
    BY LenProperties DEF TypeOK
<1>2. \A i \in 1..Len(queue) : queue[i] \in Elem
    BY <1>1, ElementOfSeq
<1>3. \A i \in 1..Len(queue) :
         queue[i].src \in Threads /\ queue[i].num \in Nat /\ queue[i].prio \in Nat
    BY <1>2 DEF Elem
<1>4. \A t \in Threads : sent[t] \in Nat /\ taken[t] \in Nat /\ Priority[t] \in Nat
    BY PriorityAssumption DEF TypeOK
<1> QED
    BY <1>1, <1>3, <1>4

(* emplace() adds the elements behind those of their thread and priority. *)
LEMMA EmplaceContent ==
    ASSUME TypeOK, Content, NEW t \in Threads, NEW n \in Nat,
           queue' = Emplace(t, n), sent' = [sent EXCEPT ![t] = @ + n], taken' = taken
    PROVE  Content'
<1> DEFINE r == Rank(Priority[t])
           L == Len(queue)
           Old(i) == IF i <= r THEN i ELSE i - n
           IsNew(i) == r < i /\ i <= r + n
<1>1. /\ L \in Nat
      /\ \A i \in 1..L : queue[i].src \in Threads /\ queue[i].num \in Nat /\ queue[i].prio \in Nat
      /\ \A u \in Threads : sent[u] \in Nat /\ taken[u] \in Nat /\ Priority[u] \in Nat
    BY Elements
<1>2. r \in Nat /\ r <= L /\ \A i \in 1..L : i <= r <=> queue[i].prio >= Priority[t]
  <2>1. r \in 0..L /\ \A i \in 1..L : i <= r <=> queue[i].prio >= Priority[t]
      BY <1>1, RankSplits, Zenon
  <2> HIDE DEF r
  <2> QED
      BY <1>1, <2>1
<1>3. Len(queue') = L + n
    BY EmplaceType
<1>4. \A i \in 1..L + n :
         queue'[i] = IF i <= r THEN queue[i]
                     ELSE IF i <= r + n
                     THEN [src |-> t, num |-> sent[t] + (i - r), prio |-> Priority[t]]
                     ELSE queue[i - n]
    BY EmplaceElements, Zenon
<1>5. sent'[t] = sent[t] + n /\ \A u \in Threads : u # t => sent'[u] = sent[u]
    BY DEF TypeOK
<1>6. Ordered(queue) /\ Held(queue, taken, sent)
    BY DEF Content
<1> HIDE DEF r, L
<1>7. \A i \in 1..L + n :
        /\ IsNew(i) => /\ queue'[i].src = t /\ queue'[i].num = sent[t] + (i - r)
                       /\ queue'[i].prio = Priority[t]
        /\ ~IsNew(i) => Old(i) \in 1..L /\ queue'[i] = queue[Old(i)]
  <2> TAKE i \in 1..L + n
  <2>1. CASE IsNew(i)
    <3>1. ~(i <= r) /\ i <= r + n
        BY <1>1, <1>2, <2>1
    <3>2. queue'[i] = [src |-> t, num |-> sent[t] + (i - r), prio |-> Priority[t]]
        BY <1>4, <3>1, Zenon
    <3> QED
        BY <2>1, <3>2
  <2>2. CASE ~IsNew(i)
    <3>1. Old(i) \in 1..L /\ (i <= r \/ ~(i <= r + n)) /\ (i <= r => i <= r + n)
        BY <1>1, <1>2, <2>2
    <3>2. queue'[i] = queue[Old(i)]
        BY <1>4, <3>1, Zenon
    <3> QED
        BY <2>2, <3>1, <3>2
  <2> QED
      BY <2>1, <2>2
<1>8. Ordered(queue')
  <2> SUFFICES ASSUME NEW i \in 1..L + n, NEW j \in 1..L + n, i < j
               PROVE  /\ queue'[i].prio >= queue'[j].prio
                      /\ queue'[i].src = queue'[j].src => queue'[i].num < queue'[j].num
      BY <1>3, Zenon DEF Ordered
  <2>1. CASE IsNew(i) /\ IsNew(j)
      BY <1>1, <1>2, <1>7, <2>1
  <2>2. CASE IsNew(i) /\ ~IsNew(j)
    <3>1. Old(j) \in 1..L /\ ~(Old(j) <= r) /\ queue'[j] = queue[Old(j)]
        BY <1>1, <1>2, <1>7, <2>2
    <3>2. ~(queue[Old(j)].prio >= Priority[t])
        BY <1>2, <3>1
    <3>3. queue[Old(j)].prio = Priority[queue[Old(j)].src] /\ queue[Old(j)].prio \in Nat
        BY <1>1, <1>6, <3>1 DEF Held, L
    <3> HIDE DEF Old, IsNew
    <3> QED
        BY <1>1, <1>7, <2>2, <3>1, <3>2, <3>3
  <2>3. CASE ~IsNew(i) /\ IsNew(j)
    <3>1. Old(i) \in 1..L /\ Old(i) <= r /\ queue'[i] = queue[Old(i)] /\ j - r >= 1 /\ j - r \in Nat
        BY <1>1, <1>2, <1>7, <2>3
    <3>2. queue[Old(i)].prio >= Priority[t]
        BY <1>2, <3>1
    <3>3. queue[Old(i)].num <= sent[queue[Old(i)].src] /\ queue[Old(i)].num \in Nat
        BY <1>1, <1>6, <3>1 DEF Held, L
    <3> HIDE DEF Old, IsNew
    <3> QED
        BY <1>1, <1>7, <2>3, <3>1, <3>2, <3>3
  <2>4. CASE ~IsNew(i) /\ ~IsNew(j)
    <3>1. /\ Old(i) \in 1..L /\ Old(j) \in 1..L /\ Old(i) < Old(j)
          /\ queue'[i] = queue[Old(i)] /\ queue'[j] = queue[Old(j)]
        BY <1>1, <1>2, <1>7, <2>4
    <3> HIDE DEF Old, IsNew
    <3> QED
        BY <1>6, <3>1 DEF Ordered, L
  <2> QED
      BY <2>1, <2>2, <2>3, <2>4
<1>9. Held(queue', taken, sent')
  <2>1. ASSUME NEW i \in 1..L + n
        PROVE  /\ queue'[i].prio = Priority[queue'[i].src]
               /\ taken[queue'[i].src] < queue'[i].num
               /\ queue'[i].num <= sent'[queue'[i].src]
    <3>1. CASE IsNew(i)
      <4>1. i - r \in 1..n /\ taken[t] <= sent[t]
        <5>1. taken[t] <= sent[t]
            BY <1>6 DEF Held
        <5> QED
            BY <1>2, <3>1, <5>1
      <4> QED
          BY <1>1, <1>5, <1>7, <3>1, <4>1
    <3>2. CASE ~IsNew(i)
      <4>1. Old(i) \in 1..L /\ queue'[i] = queue[Old(i)]
          BY <1>7, <3>2
      <4> HIDE DEF Old, IsNew
      <4>2. /\ queue[Old(i)].prio = Priority[queue[Old(i)].src]
            /\ taken[queue[Old(i)].src] < queue[Old(i)].num
            /\ queue[Old(i)].num <= sent[queue[Old(i)].src]
            /\ queue[Old(i)].src \in Threads /\ queue[Old(i)].num \in Nat
          BY <1>1, <1>6, <4>1 DEF Held, L
      <4> QED
          BY <1>1, <1>5, <4>1, <4>2
    <3> QED
        BY <3>1, <3>2
  <2>2. ASSUME NEW u \in Threads, NEW k \in Nat, taken[u] < k, k <= sent'[u]
        PROVE  \E i \in 1..L + n : queue'[i].src = u /\ queue'[i].num = k
    <3>1. CASE k <= sent[u]
      <4>1. PICK i \in 1..L : queue[i].src = u /\ queue[i].num = k
          BY <1>6, <2>2, <3>1 DEF Held, L
      <4> DEFINE j == IF i <= r THEN i ELSE i + n
      <4>2. j \in 1..L + n /\ ~IsNew(j) /\ Old(j) = i
          BY <1>1, <1>2
      <4> HIDE DEF j, IsNew, Old
      <4> QED
          BY <1>7, <4>1, <4>2
    <3>2. CASE ~(k <= sent[u])
      <4>1. u = t /\ k - sent[t] \in 1..n
          BY <1>1, <1>5, <2>2, <3>2
      <4> DEFINE j == r + (k - sent[t])
      <4>2. j \in 1..L + n /\ IsNew(j) /\ sent[t] + (j - r) = k
          BY <1>1, <1>2, <4>1
      <4> HIDE DEF j, IsNew
      <4> QED
          BY <1>7, <4>1, <4>2
    <3> QED
        BY <3>1, <3>2
  <2>3. \A u \in Threads : taken[u] <= sent'[u]
      BY <1>1, <1>5, <1>6 DEF Held
  <2> QED
      BY <1>3, <2>1, <2>2, <2>3 DEF Held
<1> QED
    BY <1>8, <1>9, Zenon DEF Content

(* The elements that leave are, for every thread, its oldest ones. *)
LEMMA Leaving ==
    ASSUME TypeOK, Content, NEW n \in 0..Len(queue), NEW u \in Threads
    PROVE  LET k == Cardinality({i \in 1..n : queue[i].src = u})
           IN  /\ k \in Nat /\ taken[u] + k <= sent[u]
               /\ \A i \in 1..Len(queue) :
                    queue[i].src = u => (i <= n <=> queue[i].num <= taken[u] + k)
<1> DEFINE P == {i \in 1..n : queue[i].src = u}
           D == {queue[i].num : i \in P}
           f == [i \in P |-> queue[i].num]
<1>1. /\ queue \in Seq(Elem) /\ Len(queue) \in Nat /\ DOMAIN queue = 1..Len(queue)
      /\ \A i \in 1..Len(queue) : queue[i].src \in Threads /\ queue[i].num \in Nat
      /\ sent[u] \in Nat /\ taken[u] \in Nat
    BY Elements
<1>2. /\ \A i, j \in 1..Len(queue) :
            i < j /\ queue[i].src = u /\ queue[j].src = u => queue[i].num < queue[j].num
      /\ \A i \in 1..Len(queue) :
            queue[i].src = u => taken[u] < queue[i].num /\ queue[i].num <= sent[u]
      /\ \A m \in Nat : taken[u] < m /\ m <= sent[u] =>
            \E i \in 1..Len(queue) : queue[i].src = u /\ queue[i].num = m
      /\ taken[u] <= sent[u]
    BY DEF Content, Ordered, Held
<1>3. P \in SUBSET 1..Len(queue) /\ P \in SUBSET DOMAIN queue
    BY <1>1
<1>4. IsFiniteSet(P)
    BY <1>1, <1>3, Positions
<1>5. D \in SUBSET (taken[u] + 1 .. sent[u])
    BY <1>1, <1>2, <1>3
<1>6. ASSUME NEW x \in D, NEW y \in taken[u] + 1 .. sent[u], y < x
      PROVE  y \in D
  <2>1. PICK i \in P : x = queue[i].num
      OBVIOUS
  <2>2. y \in Nat /\ taken[u] < y /\ y <= sent[u]
      BY <1>1
  <2>3. PICK j \in 1..Len(queue) : queue[j].src = u /\ queue[j].num = y
      BY <1>2, <2>2
  <2>4. i \in 1..Len(queue) /\ queue[i].src = u /\ i \in Int /\ j \in Int /\ i <= n /\ n \in Int
      BY <1>1, <1>3
  <2>5. ~(i < j) /\ i # j
    <3>1. x \in Nat /\ y \in Nat
        BY <1>1, <2>1, <2>2, <2>4
    <3> QED
        BY <1>2, <1>6, <2>1, <2>3, <2>4, <3>1
  <2>6. j \in 1..n
      BY <2>4, <2>5
  <2> QED
      BY <2>3, <2>6
<1>7. \A i, j \in P : queue[i].num = queue[j].num => i = j
  <2> TAKE i \in P, j \in P
  <2>1. i \in 1..Len(queue) /\ j \in 1..Len(queue) /\ i \in Int /\ j \in Int
      BY <1>1, <1>3
  <2>2. i < j => queue[i].num < queue[j].num
      BY <1>2, <2>1
  <2>3. j < i => queue[j].num < queue[i].num
      BY <1>2, <2>1
  <2>4. queue[i].num \in Nat /\ queue[j].num \in Nat
      BY <1>1, <2>1
  <2> HIDE DEF P
  <2> QED
      BY <2>1, <2>2, <2>3, <2>4
<1>8. ExistsBijection(P, D)
  <2>1. f \in [P -> D] /\ \A i \in P : f[i] = queue[i].num
      OBVIOUS
  <2>2. \A i, j \in DOMAIN f : f[i] = f[j] => i = j
      BY <1>7, <2>1
  <2>3. \A d \in D : \E i \in P : f[i] = d
      BY <2>1
  <2>4. f \in Bijection(P, D)
    <3> HIDE DEF f, P, D
    <3> QED
        BY <2>1, <2>2, <2>3 DEF Bijection, Injection, Surjection, IsInjective
  <2> QED
      BY <2>4 DEF ExistsBijection
<1> HIDE DEF f
<1>9. Cardinality(D) = Cardinality(P)
  <2> HIDE DEF D, P
  <2> QED
      BY <1>4, <1>8, FS_Bijection
<1> DEFINE k == Cardinality(P)
<1>10. k \in Nat /\ D = taken[u] + 1 .. taken[u] + k
  <2> DEFINE a == taken[u]
             b == sent[u]
  <2>1. /\ a \in Nat /\ b \in Nat /\ D \in SUBSET (a + 1 .. b)
        /\ \A x \in D : \A y \in a + 1 .. b : y < x => y \in D
      BY <1>1, <1>5, <1>6
  <2> HIDE DEF D, P, a, b
  <2>2. Cardinality(D) \in Nat /\ D = a + 1 .. a + Cardinality(D)
      BY <2>1, InitialSegment, Zenon
  <2> QED
      BY <1>9, <2>2 DEF a
<1>11. taken[u] + k <= sent[u]
  <2> HIDE DEF P, D, k
  <2>1. CASE k = 0
      BY <1>1, <1>2, <2>1
  <2>2. CASE k # 0
    <3>1. taken[u] + k \in D
        BY <1>1, <1>10, <2>2
    <3> QED
        BY <1>1, <1>5, <1>10, <3>1
  <2> QED
      BY <2>1, <2>2
<1>12. ASSUME NEW i \in 1..Len(queue), queue[i].src = u
       PROVE  i <= n <=> queue[i].num <= taken[u] + k
  <2>0. i \in Int /\ n \in Int /\ queue[i].num \in Nat /\ taken[u] < queue[i].num
      BY <1>1, <1>2, <1>12
  <2>1. CASE i <= n
    <3>1. i \in P
        BY <1>12, <2>0, <2>1
    <3>2. queue[i].num \in D
        BY <3>1
    <3> HIDE DEF P, D, k
    <3> QED
        BY <1>1, <1>10, <2>0, <2>1, <3>2
  <2>2. CASE ~(i <= n)
    <3>1. ASSUME queue[i].num <= taken[u] + k PROVE FALSE
      <4>1. queue[i].num \in D
        <5> HIDE DEF P, D, k
        <5> QED
            BY <1>1, <1>10, <2>0, <3>1
      <4>2. PICK j \in P : queue[j].num = queue[i].num
          BY <4>1
      <4>3. j \in 1..Len(queue) /\ queue[j].src = u /\ j < i
          BY <1>1, <2>0, <2>2
      <4>4. queue[j].num < queue[i].num
          BY <1>2, <1>12, <4>3
      <4> QED
          BY <2>0, <4>2, <4>4
    <3> QED
        BY <2>2, <3>1
  <2> QED
      BY <2>1, <2>2
<1> QED
    BY <1>10, <1>11, <1>12

(* A pop takes the elements from the front. *)
LEMMA RemoveContent ==
    ASSUME TypeOK, Content, NEW n \in 0..Len(queue), Remove(n), sent' = sent
    PROVE  Content'
<1> DEFINE k(u) == Cardinality({i \in 1..n : queue[i].src = u})
           L == Len(queue)
<1>1. /\ queue \in Seq(Elem) /\ L \in Nat
      /\ \A i \in 1..L : queue[i].src \in Threads /\ queue[i].num \in Nat
      /\ \A u \in Threads : sent[u] \in Nat /\ taken[u] \in Nat
    BY Elements
<1>2. \A u \in Threads :
        /\ k(u) \in Nat /\ taken[u] + k(u) <= sent[u] /\ taken'[u] = taken[u] + k(u)
        /\ \A i \in 1..L : queue[i].src = u => (i <= n <=> queue[i].num <= taken[u] + k(u))
  <2> TAKE u \in Threads
  <2>1. taken'[u] = taken[u] + k(u)
      BY DEF Remove
  <2> QED
      BY <2>1, Leaving
<1>3. Len(queue') = L - n /\ \A i \in 1 .. L - n : queue'[i] = queue[n + i]
  <2>1. L \in n..L
      BY <1>1
  <2> QED
      BY <1>1, <2>1, Part DEF Remove
<1>4. /\ \A i, j \in 1..L :
            i < j => /\ queue[i].prio >= queue[j].prio
                     /\ queue[i].src = queue[j].src => queue[i].num < queue[j].num
      /\ \A i \in 1..L : /\ queue[i].prio = Priority[queue[i].src]
                         /\ queue[i].num <= sent[queue[i].src]
      /\ \A t \in Threads : \A m \in Nat :
            taken[t] < m /\ m <= sent[t] => \E i \in 1..L : queue[i].src = t /\ queue[i].num = m
    BY DEF Content, Ordered, Held
<1> HIDE DEF k, L
<1>5. \A i \in 1 .. L - n : n + i \in 1..L /\ n + i \in Int /\ ~(n + i <= n)
    BY <1>1 DEF L
<1>6. Ordered(queue')
  <2> SUFFICES ASSUME NEW i \in 1 .. L - n, NEW j \in 1 .. L - n, i < j
               PROVE  /\ queue'[i].prio >= queue'[j].prio
                      /\ queue'[i].src = queue'[j].src => queue'[i].num < queue'[j].num
      BY <1>3, Zenon DEF Ordered
  <2>1. n + i < n + j
      BY <1>1 DEF L
  <2>2. queue'[i] = queue[n + i] /\ queue'[j] = queue[n + j]
      BY <1>3
  <2>3. n + i \in 1..L /\ n + j \in 1..L
      BY <1>5
  <2> QED
      BY <1>4, <2>1, <2>2, <2>3
<1>7. \A i \in 1 .. L - n : /\ queue'[i].prio = Priority[queue'[i].src]
                            /\ taken'[queue'[i].src] < queue'[i].num
                            /\ queue'[i].num <= sent[queue'[i].src]
  <2> TAKE i \in 1 .. L - n
  <2> DEFINE e == queue[n + i]
  <2>1. e.prio = Priority[e.src] /\ e.num <= sent[e.src] /\ e.src \in Threads /\ e.num \in Nat
      BY <1>1, <1>4, <1>5
  <2>2. ~(e.num <= taken[e.src] + k(e.src))
      BY <1>2, <1>5, <2>1
  <2>3. queue'[i] = e
      BY <1>3
  <2> HIDE DEF e
  <2> QED
      BY <1>1, <1>2, <2>1, <2>2, <2>3
<1>8. ASSUME NEW t \in Threads, NEW m \in Nat, taken'[t] < m, m <= sent[t]
      PROVE  \E i \in 1 .. L - n : queue'[i].src = t /\ queue'[i].num = m
  <2>1. taken[t] < m /\ ~(m <= taken[t] + k(t))
      BY <1>1, <1>2, <1>8
  <2>2. PICK i \in 1..L : queue[i].src = t /\ queue[i].num = m
      BY <1>4, <1>8, <2>1
  <2>3. ~(i <= n)
      BY <1>2, <2>1, <2>2
  <2>4. i - n \in 1 .. L - n /\ n + (i - n) = i
      BY <1>1, <2>3 DEF L
  <2> QED
      BY <1>3, <2>2, <2>4
<1>9. \A t \in Threads : taken'[t] <= sent[t]
    BY <1>2
<1>10. Held(queue', taken', sent)
    BY <1>3, <1>7, <1>8, <1>9 DEF Held
<1> QED
    BY <1>6, <1>10 DEF Content

-----------------------------------------------------------------------------
(* What the steps do to the content. *)

(* t stores n elements: a push that waits for room overshoots the capacity by
   less than its own size. *)
Stores(t, c, n) ==
    /\ c.op \in PushOps
    /\ queue' = Emplace(t, n) /\ sent' = [sent EXCEPT ![t] = @ + n] /\ taken' = taken
    /\ \/ shutdown \/ c.op = "PushForce" \/ (c.op = "PushBatchForce" /\ ~c.wait)
       \/ Len(queue) + n < capacity + c.num

(* A call of t stores, takes or leaves the elements. *)
Changes(t, c) ==
    \/ UNCHANGED <<queue, sent, taken>>
    \/ \E n \in 0..Len(queue) : Remove(n) /\ sent' = sent
    \/ \E n \in Nat : Stores(t, c, n)

LEMMA FailChanges ==
    ASSUME NEW t \in Threads, NEW c \in Call, Fail(t, c)
    PROVE  Changes(t, c)
    BY DEF Fail, Changes

LEMMA LeaveChanges ==
    ASSUME TypeOK, NEW t \in Threads, NEW c \in Call, NEW ok \in BOOLEAN, Leave(t, c, ok),
           c.op \in (PushOps \cup PopOps) \ {"PushForce"},
           ok /\ ~need_wakeup => Ready(c)
    PROVE  Changes(t, c)
<1>1. CASE ~(ok /\ ~need_wakeup)
  <2>1. Fail(t, c)
      BY <1>1 DEF Leave
  <2> QED
      BY <2>1, FailChanges
<1>2. CASE ok /\ ~need_wakeup
  <2>1. Succeed(t, c) /\ Ready(c)
      BY <1>2 DEF Leave
  <2>2. Len(queue) \in Nat /\ c.num \in Nat \ {0} /\ capacity \in Nat \ {0}
      BY Elements DEF Call, TypeOK
  <2>3. CASE c.op = "Push"
    <3>1. CASE shutdown
        BY <2>1, <2>3, <3>1, FailChanges DEF Succeed
    <3>2. CASE ~shutdown
      <4>1. Put(t, c, 1) /\ c.op \in PushOps
          BY <2>1, <2>3, <3>2 DEF Succeed, PushOps
      <4>2. Len(queue) + 1 < capacity + c.num
          BY <2>1, <2>2, <2>3, <3>2 DEF Ready, HasRoom
      <4>3. Stores(t, c, 1)
          BY <4>1, <4>2 DEF Put, Stores
      <4> QED
          BY <4>3 DEF Changes
    <3> QED
        BY <3>1, <3>2
  <2>4. CASE c.op \in {"PushSeq", "PushBatch"}
    <3>1. CASE shutdown
        BY <2>1, <2>4, <3>1, FailChanges DEF Succeed
    <3>2. CASE ~shutdown
      <4> DEFINE n == Minimum(c.num, capacity - Len(queue))
      <4>1. n \in Nat /\ Len(queue) + n < capacity + c.num
          BY <2>1, <2>2, <2>4, <3>2 DEF Ready, HasRoom, Minimum
      <4>2. Put(t, c, n) /\ c.op \in PushOps
          BY <2>1, <2>4, <3>2 DEF Succeed, PushOps
      <4> HIDE DEF n
      <4>3. Stores(t, c, n)
          BY <4>1, <4>2 DEF Put, Stores
      <4> QED
          BY <4>1, <4>3 DEF Changes
    <3> QED
        BY <3>1, <3>2
  <2>5. CASE c.op = "PushBatchForce"
    <3>1. Put(t, c, c.num) /\ c.op \in PushOps
        BY <2>1, <2>5 DEF Succeed, PushOps
    <3>2. shutdown \/ ~c.wait \/ Len(queue) + c.num < capacity + c.num
        BY <2>1, <2>2, <2>5 DEF Ready, HasRoom
    <3>3. Stores(t, c, c.num)
        BY <2>5, <3>1, <3>2 DEF Put, Stores
    <3> QED
        BY <2>2, <3>3 DEF Changes
  <2>6. CASE c.op \in PopOps
    <3>1. IF queue = <<>> THEN Fail(t, c) ELSE Take(t, c, PopCount(c))
        BY <2>1, <2>6 DEF Succeed, PopOps
    <3>2. CASE queue = <<>>
        BY <3>1, <3>2, FailChanges
    <3>3. CASE queue # <<>>
      <4>1. PopCount(c) \in 0..Len(queue)
          BY <2>6, <3>3, PopCountRange
      <4>2. Remove(PopCount(c)) /\ sent' = sent
          BY <3>1, <3>3 DEF Take
      <4> QED
          BY <4>1, <4>2 DEF Changes
    <3> QED
        BY <3>2, <3>3
  <2> QED
      BY <2>3, <2>4, <2>5, <2>6 DEF PushOps
<1> QED
    BY <1>1, <1>2

(* A call that enters Wait() stores or takes, or goes to sleep. *)
LEMMA EnterChanges ==
    ASSUME TypeOK, NEW t \in Threads, NEW c \in Call, Enter(t, c),
           c.op \in (PushOps \cup PopOps) \ {"PushForce"}
    PROVE  Changes(t, c) /\ capacity' = capacity /\ shutdown' = shutdown
<1>1. CASE Leave(t, c, Ready(c))
  <2>1. Ready(c) \in BOOLEAN
      BY Zenon DEF Ready, HasRoom, TypeOK, Call
  <2> QED
      BY <1>1, <2>1, LeaveChanges DEF Leave
<1>2. CASE UNCHANGED <<queue, capacity, shutdown, need_wakeup, sent, taken>>
    BY <1>2 DEF Changes
<1> QED
    BY <1>1, <1>2 DEF Enter

LEMMA StepChanges ==
    ASSUME TypeOK, Next
    PROVE  /\ shutdown => shutdown'
           /\ \/ /\ capacity' = capacity
                 /\ \E t \in Threads : \E c \in Menu[t] : Changes(t, c)
              \/ UNCHANGED <<queue, sent, taken, capacity>>
              \/ Drop /\ UNCHANGED <<sent, capacity>>
              \/ /\ UNCHANGED <<queue, sent, taken>>
                 /\ \E t \in Threads : \E c \in Menu[t] : c.op = "SetCapacity"
<1> DEFINE Goal ==
             /\ shutdown => shutdown'
             /\ \/ /\ capacity' = capacity
                   /\ \E t \in Threads : \E c \in Menu[t] : Changes(t, c)
                \/ UNCHANGED <<queue, sent, taken, capacity>>
                \/ Drop /\ UNCHANGED <<sent, capacity>>
                \/ /\ UNCHANGED <<queue, sent, taken>>
                   /\ \E t \in Threads : \E c \in Menu[t] : c.op = "SetCapacity"
<1>0. \A t \in Threads : \A c \in Menu[t] : c \in Call
    BY MenuAssumption
<1>1. ASSUME NEW t \in Threads, NEW c \in Menu[t],
             Push(t, c) \/ PushMany(t, c) \/ Pop(t, c) \/ PopBatchFifo(t, c)
      PROVE  Goal
  <2>1. c \in Call /\ c.op \in (PushOps \cup PopOps) \ {"PushForce"}
      BY <1>0, <1>1 DEF Push, PushMany, Pop, PopBatchFifo, PushOps, PopOps
  <2>2. Enter(t, c) \/ (Fail(t, c) /\ UNCHANGED <<capacity, shutdown, need_wakeup>>)
      BY <1>1, Zenon DEF Push, PushMany, Pop, PopBatchFifo
  <2>3. Changes(t, c) /\ capacity' = capacity /\ shutdown' = shutdown
      BY <2>1, <2>2, EnterChanges, FailChanges, Zenon
  <2> QED
      BY <2>3
<1>2. ASSUME NEW t \in Threads, NEW c \in Menu[t], PushForce(t, c)
      PROVE  Goal
  <2>1. Fail(t, c) \/ Put(t, c, 1)
      BY <1>2 DEF PushForce
  <2>2. Put(t, c, 1) => Stores(t, c, 1)
      BY <1>2 DEF PushForce, Put, Stores, PushOps
  <2>3. Changes(t, c)
      BY <1>0, <2>1, <2>2, FailChanges DEF Changes
  <2> QED
      BY <1>2, <2>3 DEF PushForce
<1>3. ASSUME NEW t \in Threads, NEW c \in Menu[t],
             Clear(t, c) \/ Close(t, c) \/ Shutdown(t, c) \/ Wakeup(t, c) \/ SetCapacity(t, c)
      PROVE  Goal
    BY <1>3 DEF Clear, Close, Shutdown, Wakeup, SetCapacity
<1>4. ASSUME NEW t \in Threads, NotifyUnlocked(t)
      PROVE  Goal
    BY <1>4 DEF NotifyUnlocked
<1>5. ASSUME NEW t \in Threads, Resume(t) \/ TimeOut(t)
      PROVE  Goal
  <2>1. /\ call[t] \in Menu[t]
        /\ call[t].op \in (PushOps \cup PopOps) \ {"PushForce", "Front"}
      BY <1>5, Zenon DEF Resume, TimeOut, Waiters, TypeOK
  <2>2. Ready(call[t]) \in BOOLEAN
      BY Zenon DEF Ready, HasRoom, TypeOK, Call
  <2>3. CASE TimeOut(t)
    <3>1. Leave(t, call[t], Ready(call[t]))
        BY <2>3 DEF TimeOut
    <3>2. Changes(t, call[t])
        BY <1>0, <2>1, <2>2, <3>1, LeaveChanges
    <3> QED
        BY <2>1, <3>1, <3>2 DEF Leave
  <2>4. CASE Resume(t) /\ (need_wakeup \/ Ready(call[t])) /\ Leave(t, call[t], TRUE)
    <3>1. Changes(t, call[t])
        BY <1>0, <2>1, <2>4, LeaveChanges, Zenon
    <3> QED
        BY <2>1, <2>4, <3>1 DEF Leave
  <2>5. CASE UNCHANGED <<queue, capacity, shutdown, need_wakeup, call, sent, taken>>
      BY <2>5
  <2> QED
      BY <1>5, <2>3, <2>4, <2>5, Zenon DEF Resume
<1> HIDE DEF Goal
<1>6. Goal
    BY <1>1, <1>2, <1>3, <1>4, <1>5, Zenon DEF Next
<1> QED
    BY <1>6 DEF Goal

-----------------------------------------------------------------------------
(* The theorems on the content. *)

(* What is pushed is popped, once and in order: blocking, forced, batched and
   failing pushes and pops of any number of threads, Clear(), Close() and
   SetCapacity() neither lose nor duplicate nor overtake an element. *)
THEOREM ContentKept == Spec => []NothingLostOrDuplicated
<1>1. Init => Content
  <2> SUFFICES ASSUME Init PROVE Content
      OBVIOUS
  <2>1. Len(queue) = 0 /\ \A t \in Threads : taken[t] = 0 /\ sent[t] = 0
      BY DEF Init
  <2> QED
      BY <2>1 DEF Content, Ordered, Held
<1>2. TypeOK /\ Content /\ [Next]_vars => Content'
  <2> SUFFICES ASSUME TypeOK, Content, [Next]_vars PROVE Content'
      OBVIOUS
  <2>1. CASE UNCHANGED <<queue, sent, taken>>
      BY <2>1 DEF Content, Ordered, Held
  <2>2. CASE Drop /\ sent' = sent
    <3>1. Len(queue') = 0 /\ \A t \in Threads : sent[t] \in Nat
        BY <2>2, Elements DEF Drop
    <3> QED
        BY <2>2, <3>1 DEF Drop, Content, Ordered, Held
  <2>3. ASSUME NEW t \in Threads, NEW c \in Menu[t], Changes(t, c)
        PROVE  Content'
      BY <2>1, <2>3, RemoveContent, EmplaceContent DEF Changes, Stores
  <2> QED
      BY <2>1, <2>2, <2>3, StepChanges DEF vars
<1>3. TypeOK /\ Content => NothingLostOrDuplicated
  <2> SUFFICES ASSUME TypeOK, Content, NEW t \in Threads
               PROVE  LET mine == {i \in DOMAIN queue : queue[i].src = t}
                      IN  /\ {queue[i].num : i \in mine} = taken[t] + 1 .. sent[t]
                          /\ \A i, j \in mine : i < j => queue[i].num < queue[j].num
                          /\ \A i \in mine : queue[i].prio = Priority[t]
      BY DEF NothingLostOrDuplicated
  <2> DEFINE mine == {i \in 1..Len(queue) : queue[i].src = t}
  <2>1. /\ DOMAIN queue = 1..Len(queue) /\ taken[t] \in Nat /\ sent[t] \in Nat
        /\ \A i \in mine : queue[i].num \in Nat
      BY Elements
  <2>2. /\ \A i, j \in mine : i < j => queue[i].num < queue[j].num
        /\ \A i \in mine : /\ queue[i].prio = Priority[t]
                           /\ taken[t] < queue[i].num /\ queue[i].num <= sent[t]
        /\ \A m \in Nat : taken[t] < m /\ m <= sent[t] => \E i \in mine : queue[i].num = m
      BY DEF Content, Ordered, Held
  <2> HIDE DEF mine
  <2>3. {queue[i].num : i \in mine} = taken[t] + 1 .. sent[t]
      BY <2>1, <2>2
  <2> QED
      BY <2>1, <2>2, <2>3 DEF mine
<1> QED
    BY <1>1, <1>2, <1>3, TypeCorrect, PTL DEF Spec

(* Every push waits for room, and the capacity stays as it is. *)
WaitingMenu ==
    \A t \in Threads : \A c \in Menu[t] :
        /\ c.op \notin {"PushForce", "SetCapacity"}
        /\ c.op = "PushBatchForce" => c.wait

(* Back-pressure: where no push is forced past a full queue, as between the
   ports, the queue exceeds its capacity by less than the largest batch, until
   it is shut down. *)
THEOREM OvershootBounded ==
    ASSUME WaitingMenu
    PROVE  Spec => []BoundedOvershoot
<1>1. Init => BoundedOvershoot
    BY DEF Init, BoundedOvershoot
<1>2. TypeOK /\ TypeOK' /\ BoundedOvershoot /\ [Next]_vars => BoundedOvershoot'
  <2> SUFFICES ASSUME TypeOK, TypeOK', BoundedOvershoot, [Next]_vars, ~shutdown'
               PROVE  Len(queue') = 0 \/ \E n \in BatchSizes : Len(queue') < capacity' + n
      BY DEF BoundedOvershoot, BatchSizes
  <2>1. /\ Len(queue) \in Nat /\ Len(queue') \in Nat /\ capacity \in Nat /\ capacity' \in Nat
        /\ BatchSizes \subseteq Nat
    <3>1. Len(queue) \in Nat /\ Len(queue') \in Nat /\ capacity \in Nat /\ capacity' \in Nat
        BY LenProperties DEF TypeOK
    <3>2. \A t \in Threads : \A c \in Menu[t] : c.num \in Nat
        BY MenuAssumption DEF Call
    <3> QED
        BY <3>1, <3>2 DEF BatchSizes
  <2>2. CASE ~shutdown /\ Len(queue') <= Len(queue) /\ capacity' = capacity
    <3>1. Len(queue) = 0 \/ \E n \in BatchSizes : Len(queue) < capacity + n
        BY <2>2 DEF BoundedOvershoot
    <3>2. \A n \in BatchSizes : n \in Nat
        BY <2>1
    <3> HIDE DEF BatchSizes
    <3> QED
        BY <2>1, <2>2, <3>1, <3>2
  <2>3. ASSUME ~shutdown, capacity' = capacity,
               NEW t \in Threads, NEW c \in Menu[t], NEW n \in Nat, Stores(t, c, n)
        PROVE  \E k \in BatchSizes : Len(queue') < capacity' + k
    <3>1. Len(queue) + n < capacity + c.num
        BY <2>3, WaitingMenu DEF Stores, WaitingMenu
    <3>2. Len(queue') = Len(queue) + n
        BY <2>3, EmplaceType DEF Stores
    <3>3. c.num \in BatchSizes
        BY <2>3 DEF BatchSizes, Stores
    <3> QED
        BY <2>3, <3>1, <3>2, <3>3
  <2>4. ASSUME NEW n \in 0..Len(queue), Remove(n)
        PROVE  Len(queue') <= Len(queue)
      BY <2>1, <2>4, RemoveType
  <2>5. CASE UNCHANGED vars
      BY <2>1, <2>2, <2>5 DEF vars
  <2>6. CASE Next
    <3>1. ~shutdown
        BY <2>6, StepChanges
    <3>2. CASE UNCHANGED <<queue, sent, taken, capacity>>
        BY <2>1, <2>2, <3>1, <3>2
    <3>3. CASE Drop
        BY <3>3 DEF Drop
    <3>4. ASSUME capacity' = capacity, NEW t \in Threads, NEW c \in Menu[t], Changes(t, c)
          PROVE  Len(queue') = 0 \/ \E n \in BatchSizes : Len(queue') < capacity' + n
        BY <2>1, <2>2, <2>3, <2>4, <3>1, <3>4 DEF Changes
    <3>5. \A t \in Threads : \A c \in Menu[t] : c.op # "SetCapacity"
        BY WaitingMenu DEF WaitingMenu
    <3> QED
        BY <2>6, <3>2, <3>3, <3>4, <3>5, StepChanges
  <2> QED
      BY <2>5, <2>6
<1>3. Spec => []TypeOK
    BY TypeCorrect
<1> QED
    BY <1>1, <1>2, <1>3, PTL DEF Spec
=============================================================================
