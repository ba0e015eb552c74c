---------------------------- MODULE MatchStream ----------------------------
(***************************************************************************)
(* InputMatchStreamManager of src/libmodelbox/engine/match_stream.cc: a    *)
(* node with several input ports reads them within a window, caches what   *)
(* it read and hands on only what arrived on every port.                   *)
(*                                                                         *)
(* A port may merge the branches of an if-else: every data buffer then     *)
(* comes from one branch, with an index of its own in that branch, and the *)
(* end flag comes once from each.  A stream is its match key: the inherit  *)
(* chain that GetInputStreamMatchKey follows back is the identity of the   *)
(* stream before the branches divided it.                                  *)
(*                                                                         *)
(* The scheduler starts the node when an activated port holds data, which  *)
(* is what module FlowScheduler establishes.  Upstream nodes push while    *)
(* the node runs.  Session::Abort has no caller: no session is aborted and *)
(* Clean finds nothing.                                                    *)
(***************************************************************************)
EXTENDS Integers, Sequences, FiniteSets, FiniteSetsExt

CONSTANTS
    PortOrder,  \* data_ports, in the order LoadData visits them
    Streams,    \* the streams that are sent
    Length,     \* Length[s]: the buffers of stream s, its end flag included
    Branches,   \* stream_count_each_port_: the output ports linked to a port
    QueueSize,  \* queue_size_, also the capacity of the queue of a port
    MaxCache,   \* max_cache_count_
    Modes       \* pairs of is_input_in_order_ and need_gather_all_

Ports == Range(PortOrder)
EndIndex(s) == Length[s] - 1
Indices == UNION {0 .. EndIndex(s) : s \in Streams}

ASSUME ConstantsAssumption ==
    /\ PortOrder \in Seq(Ports)
    /\ \A i, j \in DOMAIN PortOrder : PortOrder[i] = PortOrder[j] => i = j
    /\ IsFiniteSet(Streams)
    /\ Length \in [Streams -> Nat \ {0}]
    /\ Branches \in [Ports -> Nat \ {0}]
    /\ QueueSize \in Nat \ {0}
    /\ MaxCache \in Nat \ {0}
    /\ Modes \subseteq [order : BOOLEAN, gather : BOOLEAN]

VARIABLES
    mode,       \* the flags InitNodeProperties gives the manager
    route,      \* route[s][p][i]: the branch that buffer i of s takes to p
    at,         \* at[s][p][b]: the first index branch b has yet to look at
    queue,      \* queue[p]: the buffers in the queue of port p
    activated,  \* activated[p]: is_activated_
    levelled,   \* port_inherit_backward_level_ is known
    run,        \* the run of the node: pc, place in PortOrder, what it holds
    cache,      \* match_stream_cache_map_: cache[s] is Fresh when s has none
    count,      \* port_cache_count_map_
    out         \* out[s]: the indices handed on to the data contexts

upstream == <<mode, route, at>>
vars == <<mode, route, at, queue, activated, levelled, run, cache, count, out>>

NoCell == [got |-> [p \in Ports |-> 0], end |-> FALSE]

Fresh ==
    [cells |-> [i \in Indices |-> NoCell],  \* match_buffers_
     ready |-> {},                          \* ready_match_buffers_
     next  |-> 0,                           \* index_in_order_
     cur   |-> 0,                           \* cur_input_count_in_stream_
     total |-> 0]                           \* total_input_count_in_stream_

Idle == [pc |-> "idle", i |-> 1, valid |-> {}, batch |-> <<>>, read |-> FALSE]

Init ==
    /\ mode \in Modes
    /\ route \in [Streams -> [Ports -> [Indices -> UNION {1 .. Branches[p] : p \in Ports}]]]
    /\ \A s \in Streams, p \in Ports, i \in Indices :
         IF i < EndIndex(s) THEN route[s][p][i] <= Branches[p] ELSE route[s][p][i] = 1
    /\ at = [s \in Streams |-> [p \in Ports |-> [b \in 1 .. Branches[p] |-> 0]]]
    /\ queue = [p \in Ports |-> <<>>]
    /\ activated = [p \in Ports |-> TRUE]
    /\ levelled = FALSE
    /\ run = Idle
    /\ cache = [s \in Streams |-> Fresh]
    /\ count = [p \in Ports |-> 0]
    /\ out = [s \in Streams |-> <<>>]

-----------------------------------------------------------------------------
(* The nodes before this one.                                              *)

OnBranch(s, p, b) == {i \in 0 .. EndIndex(s) : i = EndIndex(s) \/ route[s][p][i] = b}

(* SetIndexInStream numbers the buffers of a branch anew. *)
OwnIndex(s, p, b, i) == Cardinality({j \in OnBranch(s, p, b) : j < i})

(* Branch b sends the next buffer of stream s to port p, in order. *)
Push(s, p, b) ==
    /\ at[s][p][b] <= EndIndex(s)
    /\ Len(queue[p]) < QueueSize
    /\ LET i == Min({j \in OnBranch(s, p, b) : j >= at[s][p][b]})
       IN  /\ queue' = [queue EXCEPT ![p] = Append(@,
                  [key |-> s, own |-> OwnIndex(s, p, b, i), orig |-> i, end |-> i = EndIndex(s)])]
           /\ at' = [at EXCEPT ![s][p][b] = i + 1]
    /\ UNCHANGED <<mode, route, activated, levelled, run, cache, count, out>>

-----------------------------------------------------------------------------
(* LoadData *)

Port == PortOrder[run.i]
AfterPort == [run EXCEPT !.i = @ + 1, !.batch = <<>>]

Start ==
    /\ run.pc = "idle"
    /\ \E p \in Ports : queue[p] # <<>> /\ activated[p]
    /\ run' = [run EXCEPT !.pc = IF levelled THEN "load" ELSE "level"]
    /\ UNCHANGED <<upstream, queue, activated, levelled, cache, count, out>>

(* InitInheritBackwardLevel looks at the front of one queue. *)
TestLevel ==
    /\ run.pc = "level"
    /\ run.i <= Len(PortOrder)
    /\ run' = [AfterPort EXCEPT !.valid = IF queue[Port] = <<>> THEN @ ELSE @ \cup {Port}]
    /\ UNCHANGED <<upstream, queue, activated, levelled, cache, count, out>>

(* Mutant of FixLevel: the empty port is suppressed with the others. *)
FixLevel_SuppressAll ==
    /\ run.pc = "level"
    /\ run.i > Len(PortOrder)
    /\ levelled' = (run.valid = Ports)
    /\ activated' = [p \in Ports |-> activated[p] /\ levelled']
    /\ run' = [Idle EXCEPT !.pc = IF levelled' THEN "load" ELSE "gen"]
    /\ UNCHANGED <<upstream, queue, cache, count, out>>

(* With a port still empty, only that port may start the node again. *)
FixLevel ==
    /\ run.pc = "level"
    /\ run.i > Len(PortOrder)
    /\ levelled' = (run.valid = Ports)
    /\ activated' = [p \in Ports |-> activated[p] /\ (levelled' \/ p \notin run.valid)]
    /\ run' = [Idle EXCEPT !.pc = IF levelled' THEN "load" ELSE "gen"]
    /\ UNCHANGED <<upstream, queue, cache, count, out>>

(* Mutant of GetReadCount: max_cache_count_ is not looked at. *)
GetReadCount_NoLimit(p) ==
    IF count[p] + QueueSize - Min(Range(count)) > 2 * QueueSize THEN 0 ELSE QueueSize

(* A port that shares the least count is never refused: QueueSize is below *)
(* the window, so it does not matter which of them the code finds first.   *)
GetReadCount(p) ==
    LET read == Min({MaxCache - count[p], QueueSize})
        shortest == Min(Range(count))
    IN  IF count[p] >= MaxCache \/ count[p] + read - shortest > 2 * QueueSize THEN 0 ELSE read

(* InPort::Recv takes up to GetReadCount buffers, or the port is suppressed. *)
Recv ==
    /\ run.pc = "load"
    /\ run.i <= Len(PortOrder)
    /\ LET n == Min({GetReadCount(Port), Len(queue[Port])})
       IN  /\ activated' = [activated EXCEPT ![Port] = @ /\ GetReadCount(Port) > 0]
           /\ queue' = [queue EXCEPT ![Port] = SubSeq(@, n + 1, Len(@))]
           /\ run' = IF n = 0 THEN AfterPort
                     ELSE [run EXCEPT !.pc = "cache", !.read = TRUE,
                                      !.batch = SubSeq(queue[Port], 1, n)]
    /\ UNCHANGED <<upstream, levelled, cache, count, out>>

(* Where the branches of an if-else merge, the index before the condition. *)
CacheIndex(p, buf) == IF Branches[p] > 1 THEN buf.orig ELSE buf.own

(* Mutant of IsMatched: the first end flag of a merged port is enough. *)
IsMatched_OneEnd(cell) == \A p \in Ports : cell.got[p] > 0

IsMatched(cell) ==
    \A p \in Ports : cell.got[p] >= IF cell.end THEN Branches[p] ELSE 1

MissMatch(cell, buf) == cell.got # NoCell.got /\ cell.end # buf.end

(* MatchStreamCache::CacheBuffer on the cache of one stream. *)
Cached(c, p, i, buf) ==
    LET cell == [got |-> [c.cells[i].got EXCEPT ![p] = @ + 1], end |-> buf.end]
    IN  IF IsMatched(cell)
        THEN [c EXCEPT !.cells[i] = NoCell, !.ready = @ \cup {i}, !.cur = @ + 1,
                       !.total = IF buf.end THEN i + 1 ELSE @]
        ELSE [c EXCEPT !.cells[i] = cell]

(* Mutant of Counted: a second end flag is counted as well. *)
Counted_Every(cell, p) == 1

(* The buffers CacheBuffer counts for port p: none for a second end flag. *)
Counted(cell, p) == IF cell.got[p] = 0 THEN 1 ELSE 0

(* CacheBuffer takes one buffer that was read, or fails the whole node. *)
CacheBuffer ==
    /\ run.pc = "cache"
    /\ LET buf == Head(run.batch)
           c == cache[buf.key]
           i == CacheIndex(Port, buf)
       IN  IF MissMatch(c.cells[i], buf)
           THEN /\ run' = [run EXCEPT !.pc = "fault"]
                /\ UNCHANGED <<cache, count>>
           ELSE /\ cache' = [cache EXCEPT ![buf.key] = Cached(c, Port, i, buf)]
                /\ count' = [count EXCEPT ![Port] = @ + Counted(c.cells[i], Port)]
                /\ run' = IF Len(run.batch) = 1
                          THEN [AfterPort EXCEPT !.pc = "load"]
                          ELSE [run EXCEPT !.batch = Tail(@)]
    /\ UNCHANGED <<upstream, queue, activated, levelled, out>>

EndLoad ==
    /\ run.pc = "load"
    /\ run.i > Len(PortOrder)
    /\ activated' = [p \in Ports |-> run.read \/ activated[p]]
    /\ run' = [Idle EXCEPT !.pc = "gen"]
    /\ UNCHANGED <<upstream, queue, levelled, cache, count, out>>

-----------------------------------------------------------------------------
(* GenMatchStreamData *)

(* Mutant of PopReadyMatchBuffers: is_input_in_order_ is not looked at. *)
PopReadyMatchBuffers_AnyOrder(c) ==
    IF mode.gather /\ (c.total = 0 \/ Cardinality(c.ready) # c.total) THEN {} ELSE c.ready

(* Mutant of PopReadyMatchBuffers: need_gather_all_ is not looked at. *)
PopReadyMatchBuffers_AsTheyCome(c) ==
    {i \in c.ready : mode.order => c.next .. i \subseteq c.ready}

(* The indices that leave the cache of a stream. *)
PopReadyMatchBuffers(c) ==
    IF mode.gather /\ (c.total = 0 \/ Cardinality(c.ready) # c.total) THEN {}
    ELSE {i \in c.ready : mode.order => c.next .. i \subseteq c.ready}

IsStreamEnd(c) == c.total # 0 /\ c.cur = c.total

(* The indices in a set, as the std::map of the cache hands them out. *)
Ascending(S) ==
    [k \in 1 .. Cardinality(S) |-> CHOOSE i \in S : Cardinality({j \in S : j < i}) = k - 1]

GenMatchStreamData ==
    /\ run.pc = "gen"
    /\ LET popped == [s \in Streams |-> PopReadyMatchBuffers(cache[s])]
           total == Cardinality({b \in Streams \X Indices : b[2] \in popped[b[1]]})
       IN  /\ out' = [s \in Streams |-> out[s] \o Ascending(popped[s])]
           /\ cache' = [s \in Streams |->
                 IF IsStreamEnd(cache[s]) THEN Fresh
                 ELSE [cache[s] EXCEPT !.ready = @ \ popped[s],
                                       !.next = @ + Cardinality(popped[s])]]
           /\ count' = [p \in Ports |-> count[p] - total]
    /\ run' = Idle
    /\ UNCHANGED <<upstream, queue, activated, levelled>>

-----------------------------------------------------------------------------
Send == \E s \in Streams, p \in Ports : \E b \in 1 .. Branches[p] : Push(s, p, b)

NodeRun == Start \/ TestLevel \/ FixLevel \/ Recv \/ CacheBuffer \/ EndLoad \/ GenMatchStreamData

Next == Send \/ NodeRun

Spec == Init /\ [][Next]_vars

(* Every upstream node sends what it has once there is room, and a node the *)
(* scheduler may start is started and runs on.                              *)
FairSpec ==
    /\ Spec
    /\ \A s \in Streams, p \in Ports : \A b \in 1 .. Branches[p] : WF_vars(Push(s, p, b))
    /\ WF_vars(NodeRun)

-----------------------------------------------------------------------------
(* Properties *)

Occurs(seq, s, i) == Cardinality({k \in DOMAIN seq : seq[k].key = s /\ seq[k].orig = i})

HandedOn(s, i) == Cardinality({k \in DOMAIN out[s] : out[s][k] = i})

(* The copies of buffer i of stream s that port p received and still holds. *)
Held(s, p, i) ==
    Occurs(queue[p], s, i) + cache[s].cells[i].got[p]
    + IF run.pc = "cache" /\ Port = p THEN Occurs(run.batch, s, i) ELSE 0

(* The copies of buffer i of stream s that were sent to port p. *)
SentTo(s, p, i) ==
    Cardinality({b \in 1 .. Branches[p] : i \in OnBranch(s, p, b) /\ at[s][p][b] > i})

(* A buffer is lost or handed on twice by no interleaving of the senders   *)
(* with a run: all its copies are held by the port, or it is ready, or it  *)
(* went to a data context once, and then every port had received it in     *)
(* full.  Erasing the cache of a stream that ended loses nothing.          *)
NothingLost ==
    \A s \in Streams, i \in Indices : i <= EndIndex(s) =>
        LET matched == HandedOn(s, i) + IF i \in cache[s].ready THEN 1 ELSE 0
        IN  \/ matched = 0 /\ \A p \in Ports : Held(s, p, i) = SentTo(s, p, i)
            \/ /\ matched = 1
               /\ \A p \in Ports :
                    /\ Held(s, p, i) = 0
                    /\ SentTo(s, p, i) = IF i = EndIndex(s) THEN Branches[p] ELSE 1

(* A stream, collapse or condition node sees the buffers of a stream in    *)
(* the order they had before the branches, however those raced.            *)
InOrder ==
    mode.order => \A s \in Streams : \A k \in DOMAIN out[s] : out[s][k] = k - 1

(* A node that gathers gets a whole stream at once. *)
AllOrNothing ==
    mode.gather => \A s \in Streams : Len(out[s]) \in {0, Length[s]}

(* port_cache_count_map_, which the read window relies on, is the number   *)
(* of buffers cached for the port.                                         *)
CountIsCache ==
    \A p \in Ports : count[p] =
        Cardinality({b \in Streams \X Indices : cache[b[1]].cells[b[2]].got[p] > 0})
        + Cardinality({b \in Streams \X Indices : b[2] \in cache[b[1]].ready})

(* max_cache_count_ bounds what is cached for a port. *)
BoundedCache == \A p \in Ports : count[p] <= MaxCache

(* Suppressing a port wedges the node only with a cache at its limit: all  *)
(* streams are handed on in full, or some port stays at max_cache_count_.  *)
Delivers ==
    \/ <>(\A s \in Streams : Len(out[s]) = Length[s])
    \/ <>[](\E p \in Ports : count[p] = MaxCache)

=============================================================================
