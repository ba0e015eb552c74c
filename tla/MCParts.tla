------------------------------ MODULE MCParts ------------------------------
(* Six parts of the system that share no state, checked in one run: one of
   them is picked at the start and runs, while the others rest. *)
EXTENDS StreamCollapse, ThreadPool, Timer, Slab, Monitor, OutputBroker

VARIABLE part   \* the part that runs

partsVars == <<part, collapseVars, poolVars, timerVars, slabVars, monitorVars,
               brokerVars>>

(* A part that rests is in one of its initial states. *)
Init ==
    /\ part \in {"stream", "pool", "timer", "slab", "monitor", "broker"}
    /\ CollapseInit /\ PoolInit /\ TimerInit /\ SlabInit /\ MonitorInit /\ BrokerInit
    /\ part # "stream" => kind = "origin" /\ length = 0
    /\ part # "monitor" => pidFile
    /\ pidFile => checkAlive
    /\ part # "broker" => mode = "sync" /\ limit = -1 /\ \A n \in QueueSizes : size <= n

Next ==
    /\ \/ /\ part = "stream" /\ CollapseNext
          /\ UNCHANGED <<poolVars, timerVars, slabVars, monitorVars, brokerVars>>
       \/ /\ part = "pool" /\ PoolNext
          /\ UNCHANGED <<collapseVars, timerVars, slabVars, monitorVars, brokerVars>>
       \/ /\ part = "timer" /\ TimerNext
          /\ UNCHANGED <<collapseVars, poolVars, slabVars, monitorVars, brokerVars>>
       \/ /\ part = "slab" /\ SlabNext
          /\ UNCHANGED <<collapseVars, poolVars, timerVars, monitorVars, brokerVars>>
       \/ /\ part = "monitor" /\ MonitorNext
          /\ UNCHANGED <<collapseVars, poolVars, timerVars, slabVars, brokerVars>>
       \/ /\ part = "broker" /\ BrokerNext
          /\ UNCHANGED <<collapseVars, poolVars, timerVars, slabVars, monitorVars>>
    /\ UNCHANGED part

(* The fairness of each part, for the one that runs. *)
FairSpec ==
    /\ Init /\ [][Next]_partsVars
    /\ WF_collapseVars(part = "stream" /\ NodeStep /\ UNCHANGED collapse)
    /\ WF_collapseVars(part = "stream" /\ (TimerSend \/ TimerInput) /\ UNCHANGED collapse)
    /\ WF_collapseVars(part = "stream" /\ CollapseData)
    /\ WF_collapseVars(part = "stream" /\ CollapseEvent)
    /\ \A t \in Tasks : WF_poolVars(part = "pool" /\ submit[t].pc # "new" /\ SubmitStep(t))
    /\ \A w \in Workers : WF_poolVars(part = "pool" /\ WorkerStep(w))
    /\ WF_timerVars(part = "timer" /\ TimerTick)
    /\ WF_timerVars(part = "timer" /\ TimerThread)
    /\ \A o \in Objects : WF_timerVars(part = "timer" /\ ScheduleInsert(o))
    /\ WF_monitorVars(part = "monitor" /\ MonitorTick)
    /\ WF_monitorVars(part = "monitor" /\ ManagerStep)
    /\ SF_monitorVars(part = "monitor" /\ RecvEnd)
    /\ \A p \in Procs : WF_monitorVars(part = "monitor" /\ proc[p].is = "killed" /\ Exit(p))
    /\ WF_brokerVars(part = "broker" /\ Started)
    /\ WF_brokerVars(part = "broker" /\ TimerTask)
=============================================================================
