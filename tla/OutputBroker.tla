---------------------------- MODULE OutputBroker ----------------------------
(***************************************************************************)
(* A BrokerInstance of the flow unit output_broker                         *)
(* (output_broker_flowunit.cc), of one stream and one service.  The thread *)
(* that runs the node gives it the buffers 1, 2, ... and calls Dispose     *)
(* when the stream ends.  In mode "sync" it writes each buffer itself; in  *)
(* mode "async" it queues them, and a task of timer_ writes the first and  *)
(* schedules itself again while there are more.  The service (external)    *)
(* takes a buffer, refuses it or asks for a retry.  The time between two   *)
(* tries is left out: a task that was scheduled runs, as Timer shows.      *)
(***************************************************************************)
EXTENDS Integers, Sequences

CONSTANTS
    MaxData,       \* bound: the buffers of the stream
    QueueSizes,    \* the values of queue_size
    Limits,        \* the limits retry_count_limit may set; -1 sets none
    DefaultRetry   \* DEFAULT_RETRY_COUNT

ASSUME BrokerAssumption ==
    /\ MaxData \in Nat /\ QueueSizes \subseteq Nat
    /\ Limits \subseteq Nat /\ DefaultRetry \in Nat

VARIABLES
    mode,       \* mode_ of the flow unit
    size,       \* queue_size_
    limit,      \* retry_count_limit_
    accepted,   \* how many buffers came
    queue,      \* queue_ of data_queue_
    retries,    \* cur_data_retry_count_
    stopped,    \* is_stopped
    sender,     \* where the thread of the node is
    writer,     \* where the task of the timer is; "none": there is no task
    target,     \* what it took from the queue; 0: nothing
    written,    \* what the service took, in this order
    refused,    \* what it refused, or asked to retry too often
    evicted     \* what PushForce dropped

settings == <<mode, size, limit>>
fates == <<written, refused, evicted>>
brokerVars == <<settings, accepted, queue, retries, stopped, sender, writer, target, fates>>

BrokerInit ==
    /\ mode \in {"sync", "async"} /\ size \in QueueSizes /\ limit \in Limits \cup {-1}
    /\ accepted = 0 /\ queue = <<>> /\ retries = 0
    /\ stopped = TRUE
    /\ sender = "idle" /\ writer = "none" /\ target = 0
    /\ written = <<>> /\ refused = {} /\ evicted = {}

(* queue_lock_: only PushForce is more than one step. *)
QueueFree == sender # "evict"

MayRetry == retries < limit \/ limit < 0

(* Without a limit the count matters up to the limit that Dispose will set. *)
CountRetry ==
    retries' = IF limit < 0 /\ retries >= DefaultRetry THEN retries ELSE retries + 1

-----------------------------------------------------------------------------
(* The thread of the node. *)

(* SendData, with the next buffer. *)
SendData ==
    /\ sender = "idle" /\ accepted < MaxData
    /\ accepted' = accepted + 1
    /\ \/ mode = "sync" /\ sender' = "write" /\ retries' = 0
       \/ mode = "async" /\ sender' = "evict" /\ UNCHANGED retries
    /\ UNCHANGED <<settings, queue, stopped, writer, target, fates>>

(* Write: one turn of its loop.  A retry too many is a failure, like an
   error of the service. *)
SyncWrite ==
    /\ sender = "write"
    /\ \/ written' = Append(written, accepted) /\ sender' = "idle" /\ UNCHANGED <<retries, refused>>
       \/ refused' = refused \cup {accepted} /\ sender' = "idle" /\ UNCHANGED <<retries, written>>
       \/ MayRetry /\ CountRetry /\ UNCHANGED <<sender, written, refused>>
    /\ UNCHANGED <<settings, accepted, queue, stopped, writer, target, evicted>>

(* PushForce makes room, ... *)
Evict ==
    /\ sender = "evict" /\ Len(queue) >= size /\ queue # <<>>
    /\ evicted' = evicted \cup {Head(queue)}
    /\ queue' = Tail(queue)
    /\ UNCHANGED <<settings, accepted, retries, stopped, sender, writer, target, written, refused>>

(* ... and pushes. *)
PushForce ==
    /\ sender = "evict" /\ (Len(queue) < size \/ queue = <<>>)
    /\ queue' = Append(queue, accepted)
    /\ sender' = "arm"
    /\ UNCHANGED <<settings, accepted, retries, stopped, writer, target, fates>>

(* The rest of AddToQueue, under stop_lock_: a task is scheduled unless
   there is one.  Only a later Dispose of this thread sets exit_flag_. *)
AddToQueue ==
    /\ sender = "arm" /\ sender' = "idle"
    /\ \/ stopped /\ stopped' = FALSE /\ writer' = "front"
       \/ ~stopped /\ UNCHANGED <<stopped, writer>>
    /\ UNCHANGED <<settings, accepted, queue, retries, target, fates>>

(* Mutant of Dispose: unlimited retries stay unlimited. *)
Dispose_Unlimited ==
    /\ sender = "idle" /\ sender' = "dispose"
    /\ UNCHANGED <<settings, accepted, queue, retries, stopped, writer, target, fates>>

(* Dispose limits the retries, ... *)
Dispose ==
    /\ sender = "idle" /\ sender' = "dispose"
    /\ limit' = IF limit = -1 THEN DefaultRetry ELSE limit
    /\ UNCHANGED <<mode, size, accepted, queue, retries, stopped, writer, target, fates>>

(* ... waits for the task to end and closes the handle. *)
Disposed ==
    /\ sender = "dispose" /\ stopped /\ sender' = "disposed"
    /\ UNCHANGED <<settings, accepted, queue, retries, stopped, writer, target, fates>>

-----------------------------------------------------------------------------
(* The task of the timer: WriteFromQueue. *)

(* Front leaves the buffer null when the queue is empty. *)
Front ==
    /\ writer = "front" /\ QueueFree
    /\ writer' = "write"
    /\ target' = IF queue = <<>> THEN 0 ELSE Head(queue)
    /\ UNCHANGED <<settings, accepted, queue, retries, stopped, sender, fates>>

(* Mutants of PopIfEqual: it pops what is first, or only what is not the
   target. *)
PopIfEqual_Any == QueueFree /\ queue' = IF queue = <<>> THEN queue ELSE Tail(queue)
PopIfEqual_Unequal ==
    QueueFree /\ queue' = IF queue # <<>> /\ Head(queue) # target THEN Tail(queue) ELSE queue

PopIfEqual ==
    QueueFree /\ queue' = IF queue # <<>> /\ Head(queue) = target THEN Tail(queue) ELSE queue

(* The answer of the service.  The plugins refuse a null buffer. *)
WriteFromQueue ==
    /\ writer = "write" /\ writer' = "next"
    /\ \/ /\ target # 0 /\ written' = Append(written, target)
          /\ retries' = 0 /\ PopIfEqual /\ UNCHANGED refused
       \/ /\ refused' = refused \cup {target}
          /\ retries' = 0 /\ PopIfEqual /\ UNCHANGED written
       \/ target # 0 /\ MayRetry /\ CountRetry /\ UNCHANGED <<queue, written, refused>>
    /\ UNCHANGED <<settings, accepted, stopped, sender, target, evicted>>

(* The end of WriteFromQueue, under stop_lock_; Empty takes no queue_lock_. *)
TaskEnd ==
    /\ writer = "next"
    /\ \/ queue # <<>> /\ writer' = "front" /\ stopped' = FALSE
       \/ queue = <<>> /\ writer' = "none" /\ stopped' = TRUE
    /\ UNCHANGED <<settings, accepted, queue, retries, sender, target, fates>>

-----------------------------------------------------------------------------
Started == SyncWrite \/ Evict \/ PushForce \/ AddToQueue \/ Disposed
TimerTask == Front \/ WriteFromQueue \/ TaskEnd

BrokerNext == SendData \/ Dispose \/ Started \/ TimerTask

BrokerSpec == BrokerInit /\ [][BrokerNext]_brokerVars

(* The threads go on with what they began; nobody has to send or to end. *)
BrokerFairSpec ==
    BrokerSpec /\ WF_brokerVars(Started) /\ WF_brokerVars(TimerTask)

-----------------------------------------------------------------------------
Elements(s) == {s[i] : i \in DOMAIN s}

(* The buffer the thread of the node has in its hands. *)
InHand == IF sender \in {"write", "evict"} THEN {accepted} ELSE {}

(* Every buffer that came is on its way or has a fate: the service took it
   or refused it, or the queue was full; and when Dispose has closed the
   handle none is left and no task will use the handle any more, although
   PushForce evicts the very buffer a task is writing and Empty is read
   while it does. *)
BrokerAccounts ==
    /\ 1..accepted \subseteq
           Elements(queue) \cup InHand \cup Elements(written) \cup refused \cup evicted
    /\ sender = "disposed" => queue = <<>> /\ writer = "none"

(* The service takes the buffers in the order in which they came and none
   of them twice, retries and evictions notwithstanding. *)
WrittenInOrder == \A i, j \in DOMAIN written : i < j => written[i] < written[j]

(* Dispose returns, even if the service asks for a retry each time. *)
DisposeReturns == sender = "dispose" ~> sender = "disposed"

(* WriteFromQueue says of the queue when it takes the first buffer:
   "Will not be empty". *)
FrontNotEmpty == writer = "write" => target # 0
=============================================================================
