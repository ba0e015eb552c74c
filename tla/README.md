# ModelBox in TLA+

ModelBox runs a graph of flow units. A client pushes buffers into the input ports
of a graph, a scheduler decides which node runs next, the nodes run on a thread
pool and hand buffers on through bounded queues, and the client takes the results
out at the other end. This directory models the concurrent core of that engine, the
services it is built on and a few of its users in TLA+, checks them with TLC on small
instances and proves the main invariants with TLAPS for every value of the constants.

`PROJECT.json` lists the components, the runs, the map from each definition to the
source lines it models, the hazards, the findings and the theorems. Paths below are
relative to `src/src/libmodelbox/` unless they start with `src/`.

## The system

| Part | State | Operations | What is hard about it |
|---|---|---|---|
| Blocking queue (`base/include/modelbox/base/blocking_queue.h`) | the heap or list, capacity, `shutdown_`, `need_wakeup_`, two condition variables | Push, Pop, batches, forced pushes, Front, Clear, Close, Wakeup, Shutdown, SetCapacity | which waiter a notification wakes; notification after unlocking; stability of the heap |
| Ports (`include/modelbox/port.h`, `engine/port.cc`) | a queue, callbacks, `is_activated_` | Send, Recv, notifications, Shutdown | notification and data change in separate steps |
| Data hub (`engine/common/data_hub.cc`) | `active_ports_`, `is_running_` of each port | Select, AddToActivePort, RemoveFromActivePort, the port callback | a notification that is dropped because the port is running |
| Flow scheduler (`engine/scheduler/flow_scheduler.cc`) | loop state, `running_node_count_`, `nodes_runing_status_`, the command port | Run, RunNode, RunWapper, RunCommand, Shutdown | node runs, the loop, a client and Shutdown interleave lock by lock |
| Input matching (`engine/match_stream.cc`) | the caches per stream, counts per port, suppressed ports | LoadData, CacheBuffer, GenMatchStreamData | ports of different speed, merged branches, bounded caches |
| Data contexts (`engine/data_context.cc`, `engine/node.cc`) | the state of a stream in a node: input, events, output, end flag | a run of the node, SendEvent, session close, collapse of expanded streams | a run may have no input, be started by an event, or come between two parts of SendEvent |
| Sessions and external data (`engine/external_data_map.cc`, `engine/session.cc`, `engine/virtual_node.cc`) | input caches, output queue, close, shutdown and end flags | Send, Recv, Close, Shutdown, SessionEnd, select | wake-ups of the selector, end of session against late output |
| Task manager (`src/src/modelbox/server/task_manager.cc`, `task.cc`) | status and `already_submit_` of each task, the count of running tasks, the maps | CreateTask, Start, Stop, DeleteTaskById, SendData, ReceiveWork | three locks taken in different orders, a limit counted in one place and uncounted in another |
| Thread pool (`base/thread_pool/thread_pool.cc`) | work queue, workers, atomic counters | SubmitTask, RunWorker, SetThreadSize, Shutdown | growing and shrinking against submission |
| Timer (`base/timer/timer.cc`) | queue of timed tasks, unsigned ticks | Schedule, Stop, Shutdown, the thread | tasks that become the first while the thread waits for another |
| Slab cache (`base/mem/slab.cc`) | slabs in three lists, counters | allocation, freeing, Shrink, Reclaim | a lock given up in the middle, counters read without it |
| Application monitor (`src/src/modelbox/manager/src/manager_monitor.c`) | the process taken for the application, ages of heartbeats and starts | heartbeat, check, stop, start, reap | crashes of the manager, processes that hang |
| Output broker (`src/src/drivers/devices/cpu/flowunit/output_broker/`) | a bounded queue, `is_stopped`, the retry count | Write, AddToQueue, WriteFromQueue, Dispose | a task that ends while a buffer is added; eviction of what is being written |

They depend on each other as follows. The ports of a graph are blocking queues that the
data hub watches for the scheduler; the scheduler runs nodes on a thread pool; a run
matches its inputs and hands them to the data contexts of the node; sessions feed the
first nodes and are fed by the last; the task manager drives sessions. Timers start
runs by events and write for the output broker. FlowScheduler composes the data hub,
the scheduler, the pool's queue and the input side of sessions; StreamCollapse composes
two data contexts; the others use their neighbours as their own modules describe them.

Configuration, drivers, device memory, profiling, the language bindings, serving and
the tools are listed in `PROJECT.json` with the reason why they are not modelled:
they are I/O, data or sequential construction.

## The modules

**BlockingQueue** models every operation of `BlockingQueue` and
`PriorityBlockingQueue`. A step is a critical section of `queue_mutex_`: the body of
a call up to its return or its wait, a wake-up, a timeout, or the notification that
the priority `PopBatch` sends after it has released the mutex (`NotifyUnlocked`). A
thread has a `call` and a `phase`: idle, waiting, notified, or about to notify. A call
is a record of its operation, size, kind of timeout and the flag of the forced push;
`Menu[t]` is what thread `t` may call, so that one module serves the port, the FIFO
queue and the theorem's assumption about ports. A timeout is "some" that may expire,
not a duration. Elements are pairs of a sender and a serial number. Spurious wake-ups
are left out: every wait of the code re-evaluates its predicate.

**DataHub** is the data hub with the ports it serves: queue sizes, closed ports,
`is_running_` and the active set. Every operation holds `active_mutex_` and is one
action or an operator of an action. The order by `active_time_` among ports of equal
priority is left open, and priorities are static (the priority of loop buffers is
not modelled).

**FlowScheduler** extends DataHub with the loop (`sched`), the pool's work queue
(`tasks`), its workers (`run`), a client inside `SendMatchData`, and a thread that
calls `Shutdown` (`stopper`). The loop's actions are named after the functions and
follow `RunImpl` lock by lock: `SelectActivePort`, then `DisableActivePort`, then the
status, then the submission. A run is Recv, Process and Send for each port, with the
notification after the push as a step of its own, and `EnableActivePort`, the status
and the counter as three more. The pool is a fixed set of workers with a queue (the
default size is the larger of twice the number of nodes and the number of cores); a
failing submission cannot happen before the pool is shut down. The loop has a thread
of its own (`RunAsync`); a run forwards one element for each one it received, or fails.

**MatchStream** models a node with several inputs. A run of the node is a sequence of
steps, with pushes from upstream in between: the test of the inherit level
(`TestLevel`, `FixLevel`), then for each port `Recv` of as many buffers as
`GetReadCount` grants and `CacheBuffer` for each of them, then `EndLoad` and
`GenMatchStreamData`. A port that merges the branches of a condition gets each data
buffer from one branch, in any interleaving, and the end flag from all. The key of a
stream stands for the chain of inherit infos that `GetInputStreamMatchKey` follows.
`Session::Abort` has no caller, so no session is aborted. The node starts when an
activated port holds data; that it is started then is what FlowScheduler shows.

**TaskManager** models tasks, their clients, the pool threads and the receiving
thread. `lock_` of a task is kept across steps only by `Task::Start`, `new_del_lock_`
only by the receiving thread between `LockCount` and `UncountTask`, and `map_lock_`
only by `StartWaittingTask`; all other critical sections are single steps. A session
is what the task code sees of it: closed, shut down, error, results, end.
`OneShotTask` sends all its data at once, because buffers leave the input cache only
when every port has its own. The pool queue has one place, as in the code (a pool of
size 0). `SetTaskNumLimit`, the client's callbacks and what happens after
`TaskManager::Stop` are left out.

**SessionChannel** says what a session promises its client: every result is given once,
and the end is reported once, after the input was closed and the last result was given.
**Session** is the code that keeps this promise: `ExternalDataMapImpl`, the selector,
the end of a session and the output nodes. The output node looks at the size of the
queue, pushes, notifies the selector and writes `last_error_` in separate steps, and so
does a Recv with its pop and its look at the flags. The graph in between is external;
a frame in it is a reference to its session, which ends when the last one is dropped.

**DataContext** follows one stream through a node, as an origin or an expand context. A
run has one action per stage of `Node::Run`: receiving data and events, DataPre,
Process, PostProcess, DataPost, UpdateProcessState, sending. The flow unit may wait for
events that it sends itself, at once or from a timer; the session may be closed by
another thread. **StreamCollapse** adds the collapse node behind an expand node, which
gets the streams in any order and pieces and starts itself by events.

**ThreadPool** has one step per access to the atomic counters and to the work queue: a
submitting thread counts itself before it creates a worker and takes itself back when
there are too many, and a worker leaves when it finds the pool too large. **Timer** is
the queue, the clock with ticks modulo `Wrap`, and the thread, which holds the lock
except while it waits and while it runs a task. **Slab** keeps, for each slab, its list
and how many of its objects are in use; Shrink and Reclaim compute with unsigned
numbers they read without the lock. **Monitor** is the watchdog of one application,
with processes that hang or end, lost heartbeats, and a manager that crashes and is
started again; points in time are ages that stop at their limit, so that time needs no
bound. **OutputBroker** is one instance of the flow unit: the thread of the node with the
push and the scheduling of a task as two steps, and the task with its read of the
queue, the answer of the service and its end as three.

The `MC*` modules hold the graphs, menus and streams of the instances. **MCParts** runs
six modules that share no state in one run: the initial state picks the part that
runs, the others rest, and the state spaces add up instead of multiplying.

## The runs

| Run | Instance | What it shows |
|---|---|---|
| `queue_port` | three senders of two priorities, one receiver, capacity 2, at most 3 elements each | no element is lost, duplicated or overtaken by a later one of equal priority; no sender sleeps beside room; the overshoot of forced batches is below one batch |
| `queue_fifo` | four threads with all operations, capacity 1 to 3 | nothing is lost; no receiver sleeps beside data; Shutdown and Wakeup release everybody |
| `scheduler_pair` | two nodes, one may fail, two workers, queues of one; two sends, or one send and an event | a node never runs twice at once; no port with data is forgotten; nothing runs after the loop returned; what is sent is consumed unless something fails or stops; Shutdown returns |
| `scheduler_fork` (violation) | two input ports | data of the second input stays in its port until the next Send or Close |
| `match_join` | two ports, one merging two branches, streams of 3 and 1 buffers, all routes, three modes, queues of one, cache of 3 | nothing is lost, order, all-or-nothing gathering, counts agree with caches, the bound of the cache, and delivery of every stream |
| `task_manager` | one client, two tasks (one without data), two workers, limit 2 | data is sent once, an ended task stays ended and has been received, Stop returns |
| `task_count` (violation) | limit 1 | the count of running tasks wraps around |
| `task_locks` (violation) | two clients | Start and Stop of one task deadlock |
| `session` | two sessions, one with a Recv of its own and one behind a selector, the second in a flow unit that may fail, one buffer | Session refines SessionChannel; an error is never reported as a normal end; the end of a closed session is reported |
| `parts` | the six parts of MCParts, see below | see below |
| `collapse_silent` (violation) | one expanded stream, a collapse unit that puts out nothing | the placeholder made in its place is never sent |
| `broker_empty` (violation) | two buffers, a queue with room for both | a task is scheduled for an empty queue |

The properties of `parts`:

| Part | Instance | Properties |
|---|---|---|
| data contexts | streams of at most 2 buffers, 2 events; for origin contexts DataPre may fail, DataPost may emit, the session may close and a run may split SendEvent | each output stream has one end flag, after its last buffer (`EveryStreamEnds`); a context whose input ended is disposed of (`ContextFinishes`); the collapse node puts its buffers out in order (`CollapsesInOrder`) and comes to the end (`CollapseFinishes`) |
| thread pool | 2 tasks, a size of 1 and at most 2 workers, a queue of one | never more workers than allowed (`BoundedWorkers`); what was accepted is run (`AcceptedRuns`) |
| timer | a periodic task and a single one, delays 0 and 1, time up to 3, ticks modulo 16 | no task runs early (`NeverEarly`), each one runs unless it or the timer is stopped (`ScheduledRuns`) |
| slab cache | 3 slabs of 2 objects, 2 threads, Shrink to 0 or 1 | lists and counters agree, no slab is freed with an object in use (`SlabsAccounted`) |
| monitor | 2 pids, one crash of the manager, one message in the queue | never two processes (`OneInstance`); a process that hangs is stopped (`HungIsStopped`), one that ended is started again (`Restarted`) |
| output broker | 3 buffers, a queue of 1 or 2, limits 0, 1 and none, both modes | every buffer has a place or a fate (`BrokerAccounts`); order (`WrittenInOrder`); Dispose returns (`DisposeReturns`) |

The bounds are the smallest at which the cases differ. A queue of one element makes
every send block. Two elements per sender distinguish loss from reordering, three
let a batch overtake. Two workers let a node and its successor run together.
`scheduler_pair` starts with two sends, or with one send and an event that the second
node sends itself (`PairInit`): each makes the other wait for a queue of one, and both
together add states and no new case. `MaxCache = 3` stands for 16384: with
`QueueSize = 1` the window of 2 is below it, so that the window and the limit bind
separately. `Wrap` and `Word` stand for 2^32 or 2^64; they only have to exceed every
number that does not wrap, which their assumptions state. Two sessions are needed for
a selector that serves one while the other is received directly; one buffer suffices,
because the end of the input is a frame of its own and may bring a second result.
With one core thread and at most two, two submitting threads race for the second
worker; a third worker identity lets one be created while another leaves. A stream of
two buffers has a first, a last and an end flag. Two pids let an old process outlive
its successor's start. `Stall = 1` stands for 5, `DefaultRetry = 2` for 5: they only set
how long a delay or a row of retries is. `MaxSends`, `MaxSend`, `MaxEvents`, `MaxOut`,
`MaxTime`, `MaxCrashes` and `MaxData` bound the input and appear in guards only.

Deadlock is not checked in any run: all systems may stop, after Shutdown or when the
bounded input is used up. Waiting for ever is what the liveness properties exclude.

### Fairness

The specifications assume weak fairness of threads, unless stated, and nothing of
clients:

- BlockingQueue: a thread that was notified, or is about to notify, goes on. Nobody has
  to call anything.
- FlowScheduler: the loop, each worker, and a client or stopper that is inside a call.
- MatchStream: the node runs and the upstream branches send what they have.
- TaskManager: the receiving thread, the pool threads, a client inside a call, and the
  end of a session whose input is closed, which is what `scheduler_pair` shows of
  the flow. No client has to make a call.
- Session: the output node goes on, the end of a session is run, and receivers receive.
  The output node takes up each session that has frames (strong fairness): it serves
  several sessions, and the ports keep the order of what arrived.
- DataContext, StreamCollapse: a node with something in its ports runs, which is what
  FlowScheduler shows, and a timer that the flow unit has set fires.
- ThreadPool: submitting threads and workers go on, and tasks end.
- Timer: time passes, the thread goes on, and a call of Schedule that has begun ends.
- Monitor: time passes, the manager goes on while it is up, and a process that was sent
  SIGKILL ends. Its loop over the heartbeats comes to an end (strong fairness): the code
  reads the message queue until it is empty, and the processes send once a period.
- OutputBroker: the thread of the node goes on with a call, and a scheduled task runs,
  which is what Timer shows. The service may ask for a retry each time.

The operating system schedules every runnable thread, and every critical section is
finite, which justifies all of these. Some conditions of the results are worth naming. `Drains`
is checked with as many workers as nodes: with fewer, all workers may block in Send.
`Delivers` allows for a port that stays at `max_cache_count_` for ever, because a node that
gathers whole streams cannot go on when a stream is longer than the cache.
`AcceptedRuns` is stated for a pool with core threads: a pool of size 0 whose workers leave
at the wrong moment keeps a task in its queue until the next one comes. `EndReported` is
stated for a selector that is called with a waittime, as `TaskManager` does (200 ms): the
size that `PushGraphOutputBuffer` reads may be stale when it decides whether to notify,
and a selector that waits for ever may then miss it. `EveryStreamEnds` and
`ContextFinishes` are checked for sessions that are not closed between two looks of one
run (`LateClose` is empty; see below what happens otherwise), and with a close for origin
contexts only: contexts of expand nodes do not listen to it.

## What the violations show

- `scheduler_fork`: `SendMatchData` fills its ports one after the other and notifies
  one. A run in between reads the first and leaves nothing that would start the node
  for the second.
- `task_count`: `Submit` does not count a task that has to wait, `ReceiveWork` uncounts it
  when it is stopped. The unsigned counter becomes 2^32-1 and no task starts any more.
- `task_locks`: `Task::Start` takes `lock_` and then `new_del_lock_`, `ReceiveWork` the
  other way round.
- `collapse_silent`: `CheckOutputData` fills in a placeholder for a collapse unit that put
  out nothing, but `GenerateOutput` has been called before: the buffer is missing behind
  the collapse node.
- `broker_empty`: `AddToQueue` pushes first and looks at `is_stopped` afterwards. The task
  that runs may write the new buffer and end in between. `AddToQueue` then schedules a
  task for an empty queue, `Front` leaves the buffer null and the plugin is called with
  it. The comment there says that the queue will not be empty. No buffer is lost by
  this, which `BrokerAccounts` shows.

What the models have shown besides, without a run of its own:

- Push and PushBatch on one queue wait on `not_full_` for different amounts of room, and
  `Pop` wakes one waiter: if the batch is woken and lacks room, a push that has room
  sleeps on. Ports use only forced batches and single pushes, which wait for the same.
  Theorem `PushersNeverStranded` states exactly this condition.
- `EnableActivePort` gives the ports back before it resets `nodes_runing_status_`: the
  reset may hit the next run, and `CheckScheduleStatus` then logs a node that executes as
  not running. Nothing else reads the value.
- A session that is closed after a run has decided about the end flag and DataPost, and
  before `UpdateProcessState` of that run looks at the session again, while the flow unit
  waits for an event: the context is taken for finished and disposed of without DataPost
  and without an end flag (`LateClose = {"origin"}` violates `EveryStreamEnds`).
- A Recv with a timeout may report the end with a result unread, if the timeout expires
  just before the last result and the end arrive (`Timed = TRUE`).
- A manager that adopts a running application after a restart sets no time of the last
  heartbeat, so that it may stop an application that is well.
- When a buffer is evicted while it is retried, `cur_data_retry_count_` stays, and the
  next buffer has fewer tries. A negative `retry_count_limit` other than -1 is unlimited
  as well, and Dispose does not limit it.

## What is proved

The theorems hold for all values of the constants, under the ASSUMEs of the modules
(types of the constants; that each port belongs to one node or is the command port;
that sets of workers, slabs, threads and streams are finite; that `Word` and `Wrap` are
large enough). Every invariant and action property that a passing run checks has a
theorem. Eight modules hold them; parts that share no state share a module.

`BlockingQueueProofs`: `TypeCorrect`, `ConsumersNeverStranded`, `PushersNeverStranded`,
`ContentKept`, `OvershootBounded`. "No receiver sleeps beside data unless somebody is on
the way" is not inductive: the one on the way takes one element, and a second element
may lie beside a second sleeper. The invariant `IInv` therefore counts. While a receiver
sleeps, the queue has at most as many elements as there are notified receivers
(`ConsumersCovered`). While a sender sleeps, there are at most as many free places as
notified senders, or a `PopBatch` is about to notify all of them (`PushersCovered`).
Nobody sleeps once the queue is shut down or woken up (`NobodySleeps`). Each operation
is a composition of few moves (put, take, fail, enter or leave a wait, notify); one
lemma per move states what it does to the sets of waiting and notified threads, and
`NextIInv` combines them. `PushersNeverStranded` assumes `UniformMenu`: nobody calls
`PushBatch`, the one push that waits for more than one place, and nobody changes the
capacity or clears the queue. `ContentKept` holds for every mix of calls. Its invariant
is that the heap is sorted by priority and, within one, by insertion, so that what a
pop removes of a sender is always the oldest it has there; the queue then holds of each
sender an interval of what it pushed. `OvershootBounded` assumes `WaitingMenu`: every
push waits for room and the capacity stays, as between ports.

`FlowSchedulerProofs`: `TypeCorrect`, `RunsAlone`, `QuietAfterDone`, `NoneForgotten`. The
invariant has three parts. `Shape` is the type invariant with the relation between a
control point and its data. `Exclusive` says that each node has at most one holder among
the loop, the work queue and the workers, and that all ports of a held node are marked
as running and not active, except where the loop has marked only the selected one.
`Counted` says that `running_node_count_` is the number of queued and started runs
plus the one being submitted, so that the wait at the end of the loop cannot end
early. `NoneForgotten` is proved by induction on top of these: in a graph with one
input, a port with data is active, owned by a run that will give it back, or about to be
notified. The assumption `SingleInput` is needed: `scheduler_fork` is the counterexample
without it.

`MatchStreamProofs`: `MatchLosesNothing`, `MatchKeepsOrder`, `MatchGathersAll`,
`MatchCountsCache`, `MatchCacheBounded`, from one invariant `MatchInv`. Every buffer in a
port says truthfully where it belongs (`Sound`); each copy of a buffer is unsent, in the
port, cached, or matched (`CopiesInv`); the fields of the cache of a stream agree with
what was handed on, also after the cache was erased (`Progress`); and what the port that
is being read may still get fits under the limit (`Window`). It follows that the error
of an index at which the ports disagree about the end (`MissMatch`) is never reached.

`TaskManagerProofs`: `TaskFedOnce`, `ReceivedBeforeOver`, and the action property
`OverIsFinal`. A task may be queued twice, by Start and by StartWaittingTask. It is fed
once because a task that waits was not fed and only one worker at a time is between
the change of its status and the feeding (`FeedInv`). A task that is over is neither
selected nor in the list of the receiving thread (`SelectInv`), so that its status is
updated once.

`RuntimeProofs` has four parts. `WorkersBounded` (ThreadPool): `worker_num_` is the number of
workers plus the threads that have reserved one, and the workers plus the threads that
go on to create one are never more than `max_thread_size_`. The second is what makes the
race harmless. `AlwaysAccounted` (Slab): `SlabsAccounted` with the types is inductive;
whatever number Shrink and Reclaim compute, RemoveSlabs takes slabs from the list of
empty ones only. `TasksNeverEarly` (Timer), an action property: whether a task is due is
told from a difference of ticks that wraps around, which is right only while the hit
time of each task is within its span from now (`TimerInv`). `NeverTwoInstances` (Monitor):
the process that runs is the one the manager watches, and while the manager is down a
process that was started runs on alone (`Alone`).

`OutputProofs` has two. `SessionImplementsChannel` and `ErrorsNeverHidden` (Session) are for
all sets of sessions and ports and for both kinds of output nodes; the run has matched
output ports only (`Unmatched = FALSE`). The refinement maps the phase of a session to
open, closed, ended or reported, and counts results. Its invariant says that every
result is in the cache or was received (`Balanced`), that a session ends after its close
and with no frame left in the graph or at the output node (`EndsLast`), and that a Recv
which has found the session ended and is about to report it has an empty cache
(`EndIsDrained`). The last one needs `~Timed`. `ErrorsNeverHidden` adds that the end of a
session copies its error into `last_error_`, and that no output node writes there
afterwards. `BrokerLosesNothing` and `BrokerKeepsOrder` (OutputBroker) are for every number
of buffers, queue size and limit. The first needs that a queue with buffers has a task
or a thread about to schedule one (`Tended`). The second needs that the queue is sorted
and behind what was written, with the buffer of the task in between (`Sorted`), since
PushForce may drop that buffer at any moment.

`StreamProofs`: `CollapseKeepsOrder`, when the expand unit puts nothing out in DataPost.
Otherwise the end flag of the expanded stream becomes a stream with data (`NoLastData`
excludes it) and TLC finds the order broken. The invariant `CollapseInv` says that what
was put out comes from streams before the current one, but for one buffer of its own.
The module also holds what the next one builds on: what each step of a context changes,
the origin half of `StreamsEnd`, and how a collapse step keeps `AllInv`.

`StreamEndProofs`: `StreamsEnd`, for origin and expand contexts, any length and any number
of events. The events on the way are those the flow unit waits for (`Waits`). An origin
context ends its stream in the run that finds nothing left to wait for (`OriginInv`). An
expand context deals with one buffer at a time and ends its stream before it takes the
next, so that the streams that have ended are those before the current one
(`ExpandInv`). The theorem assumes `PlainExpand`: no close between two looks of one run,
and no failing DataPre, close, event among void buffers or split SendEvent in an expand
context. Each part of it is needed: TLC violates `EveryStreamEnds` when any one of
them is dropped.
`CollapseMissesNone` is the counterpart of the violation `collapse_silent`: with
`PlainExpand`, an expand unit that puts nothing out in DataPost and a collapse unit that
is not silent, every stream with a buffer is collapsed to one. Its invariant `AllInv`
says that a stream that was taken to its end was taken whole (`Whole`, which needs
`StreamsEnd`: nothing follows an end flag) and that the streams before the current one
are collapsed and those behind it are cached (`Gathered`). So in this setting the
missing buffer has one cause, the silent unit.

Only model-checked: all liveness properties, since fairness and ENABLED are out of the
prover's reach, and the violations, which are counterexamples.

## Not modelled

Most of the repository is not concurrent control but data: drivers and flow units
(image, video and inference code), device memory, the bindings for Python, Java and C,
configuration, logging, the front ends, and the tests of all of these. That is why the
definitions map to a small share of the lines: the modules follow the code where
threads meet. In particular:

- Graph construction and checking are sequential and leave no state behind that later
  steps change. Profiling only counts. Drivers and configuration are I/O and parsing.
- Ports: the priority of loop buffers. Scheduler: `Run`, which runs the same loop in the
  thread of its caller.
- Matching: the chain of inherit infos is a key; OutputMatchStream is left out.
- Data contexts: normal, loop and condition contexts; batches of several contexts; the
  executors and the balancer.
- Sessions: FlowStreamIO and ExternalDataSimple, which forward calls.
- Thread pool: forced Shutdown, keep-alive, changes of the queue size. Timer: tasks that a
  caller keeps, since no caller in the repository does. Slabs: the memory pool above
  them, which selects a cache by size.
- Task manager: SetTaskNumLimit, jobs, and the lifetime of objects. A data race on
  `external_task_maps_`, named among the hazards, has outcomes no model can enumerate.
- Monitor: the commands and the key file of the manager. Output broker: its
  configuration, the intervals between tries and the plugins.
