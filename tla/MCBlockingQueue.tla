-------------------------- MODULE MCBlockingQueue --------------------------
(* Small instances of BlockingQueue: the queue of a port and a FIFO queue with
   the whole interface. *)
EXTENDS BlockingQueue, TLC

CONSTANTS t1, t2, t3, t4

C(op, num, timeout, wait) == [op |-> op, num |-> num, timeout |-> timeout, wait |-> wait]

(* A port: what OutPort and NotifyPort push, what InPort and the scheduler pop. *)
Senders ==
    {C("PushBatchForce", 1, "forever", TRUE), C("PushBatchForce", 2, "forever", TRUE),
     C("Push", 1, "forever", FALSE)}
Receivers ==
    {C("PopBatch", 2, "never", FALSE), C("Pop", 1, "never", FALSE),
     C("Front", 1, "never", FALSE), C("PopBatch", 1, "forever", FALSE)}
PortMenu == t1 :> Senders @@ t2 :> Senders @@ t3 :> Senders
            @@ t4 :> Receivers \cup {C("Shutdown", 1, "never", FALSE)}
PortPriority == t1 :> 1 @@ t2 :> 2 @@ t3 :> 1 @@ t4 :> 1

(* Every operation, on a FIFO queue. *)
Pushes ==
    {C("Push", 1, "some", FALSE), C("PushSeq", 2, "forever", FALSE),
     C("PushBatch", 2, "some", FALSE), C("PushForce", 1, "never", FALSE),
     C("PushBatchForce", 2, "never", FALSE)}
Pops ==
    {C("Pop", 1, "forever", FALSE), C("Pop", 1, "some", FALSE), C("PopSeq", 2, "forever", FALSE),
     C("PopBatch", 2, "forever", FALSE), C("Front", 1, "never", FALSE)}
Controls ==
    {C("Clear", 1, "never", FALSE), C("Close", 1, "never", FALSE),
     C("Shutdown", 1, "never", FALSE), C("Wakeup", 1, "never", FALSE),
     C("SetCapacity", 1, "never", FALSE), C("SetCapacity", 3, "never", FALSE)}
FifoMenu == t1 :> Pushes @@ t2 :> Pops @@ t3 :> Pops @@ t4 :> Pushes \cup Controls
OnePriority == [t \in Threads |-> 0]
=============================================================================
