--------------------------- MODULE NodeLifecycle ---------------------------
(***************************************************************************)
(* A full node from the start of its workers to its shutdown (bee-node's   *)
(* FullNodeBuilder, FullNode and Core; bee-runtime's resources, event bus  *)
(* and shutdown streams).                                                  *)
(*                                                                         *)
(* The workers are started in a topological order of their dependencies,   *)
(* found by a depth-first search; the frames of its recursive calls are    *)
(* part of the state.                                                      *)
(* A worker runs at most one task that takes events out of a queue and     *)
(* sends events to the queues of the workers it depends on.  Some tasks    *)
(* have started another one that the node does not know of (the propagator *)
(* one for solid messages, the peer manager one for each peer), which ends *)
(* some time after the channel to it is closed.  Shutdown stops the        *)
(* workers in the reverse order and then takes the storage out of the      *)
(* resources.                                                              *)
(*                                                                         *)
(* Two resources matter for the order: the tangle, registered by its own   *)
(* worker, and the storage, which the tangle holds as long as anybody      *)
(* holds the tangle.  Time is left out: the period in which the tangle     *)
(* worker polls may elapse at any moment.                                  *)
(***************************************************************************)
EXTENDS Integers, Sequences, SequencesExt, FiniteSets

CONSTANTS
    WorkerIds,        \* the workers
    TangleWorker,     \* the one that registers the tangle
    DependencyGraphs, \* graphs: from a worker to the workers it depends on, in order
    TangleUsers,      \* workers whose task holds the tangle
    Detaching,        \* workers whose task started another one that holds the tangle
    Listening,        \* workers with a listener on the event bus that holds the tangle
    MaxEvents,        \* bound on the events sent
    MaxPolls          \* bound on the polls before the polling period elapses

(* Every worker that takes the tangle names the tangle worker as one of its *)
(* dependencies; the tangle worker itself has no task.                      *)
ASSUME LifecycleAssumption ==
    /\ TangleUsers \cup Detaching \cup Listening \subseteq WorkerIds \ {TangleWorker}
    /\ \A g \in DependencyGraphs :
        /\ DOMAIN g \subseteq WorkerIds
        /\ \A w \in DOMAIN g :
            /\ g[w] \in Seq(WorkerIds)
            /\ w \in TangleUsers \cup Listening => TangleWorker \in ToSet(g[w])

VARIABLES
    graph,        \* the dependencies
    unsorted,     \* non_visited
    visiting,     \* the calls of visit that have not returned, with the dependencies left
    worker_order, \* core.worker_order
    phase,        \* what the node is doing
    position,     \* how many of worker_order are started, or are left to stop
    core_workers, \* core.workers
    task,         \* the state of each worker's task
    detached,     \* the state of the task it started
    queue,        \* the number of events in its queue
    bus,          \* the workers with listeners
    tangle,       \* the handle in the resources: "none", "registered" or "removed"
    polls,        \* polls made by the tangle worker
    tangle_shut,  \* how the tangle worker stopped
    events,       \* the number of events sent
    lost          \* the workers with an event that was sent to a task that had ended

sortVars == <<graph, unsorted, visiting, worker_order>>
lifeVars == <<graph, unsorted, visiting, worker_order, phase, position, core_workers, task,
              detached, queue, bus, tangle, polls, tangle_shut, events, lost>>

(* The worker that is stopped.  The bug: the order of the start.            *)
CurrentInOrder == worker_order[Len(worker_order) - position + 1]
Current == worker_order[position]
Deps(w) == ToSet(graph[w])

(* Who holds a handle of the tangle apart from the resources.               *)
TangleHolders ==
    {w \in TangleUsers : task[w] \in {"running", "signalled"}}
        \cup {w \in Detaching : detached[w] = "running"}
        \cup (bus \cap Listening)

-----------------------------------------------------------------------------
(* TopologicalOrder::visit: nothing is done for a worker that has its place  *)
(* in the order or was not added to the node; one that is being visited      *)
(* depends on itself.                                                        *)
being_visited == {visiting[i].worker : i \in DOMAIN visiting}

VisitOf(w) == [worker |-> w, deps |-> graph[w]]

visit(w, callers) ==
    \/ /\ w \notin unsorted
       /\ visiting' = callers /\ UNCHANGED phase
    \/ /\ w \in unsorted \cap being_visited
       /\ phase' = "panicked" /\ UNCHANGED visiting
    \/ /\ w \in unsorted \ being_visited
       /\ visiting' = Append(callers, VisitOf(w)) /\ UNCHANGED phase

(* The hash set of workers yields any of them.                              *)
Sort(w) ==
    /\ phase = "sort" /\ visiting = <<>> /\ w \in unsorted
    /\ visiting' = <<VisitOf(w)>>
    /\ UNCHANGED <<graph, unsorted, worker_order, phase, position, core_workers, task, detached, queue, bus, tangle,
                   polls, tangle_shut, events, lost>>

VisitDependency ==
    /\ phase = "sort" /\ visiting # <<>> /\ Last(visiting).deps # <<>>
    /\ visit(Head(Last(visiting).deps), [visiting EXCEPT ![Len(visiting)].deps = Tail(@)])
    /\ UNCHANGED <<graph, unsorted, worker_order, position, core_workers, task, detached, queue, bus, tangle,
                   polls, tangle_shut, events, lost>>

(* The worker goes after its dependencies.                                  *)
VisitEnds ==
    /\ phase = "sort" /\ visiting # <<>> /\ Last(visiting).deps = <<>>
    /\ visiting' = Front(visiting)
    /\ unsorted' = unsorted \ {Last(visiting).worker}
    /\ worker_order' = Append(worker_order, Last(visiting).worker)
    /\ phase' = IF unsorted' = {} THEN "start" ELSE "sort"
    /\ UNCHANGED <<graph, position, core_workers, task, detached, queue, bus, tangle,
                   polls, tangle_shut, events, lost>>

(* The start of the next worker: it takes the channels of the workers it     *)
(* depends on (node.worker::<W>().unwrap()) and the tangle if it uses it.   *)
StartWorker ==
    /\ phase = "start" /\ position < Len(worker_order)
    /\ LET w == worker_order[position + 1] IN
       IF Deps(w) \subseteq core_workers
       THEN /\ core_workers' = core_workers \cup {w}
            /\ task' = [task EXCEPT ![w] = IF w = TangleWorker THEN "none" ELSE "running"]
            /\ detached' = [detached EXCEPT ![w] = IF w \in Detaching THEN "running" ELSE "none"]
            /\ bus' = IF w \in Listening THEN bus \cup {w} ELSE bus
            /\ tangle' = IF w = TangleWorker THEN "registered" ELSE tangle
            /\ position' = position + 1
            /\ phase' = IF position + 1 = Len(worker_order) THEN "running" ELSE "start"
       ELSE phase' = "panicked" /\ UNCHANGED <<position, core_workers, task, detached, bus, tangle>>
    /\ UNCHANGED <<sortVars, queue, polls, tangle_shut, events, lost>>

-----------------------------------------------------------------------------
(* The tasks.                                                               *)

(* A task and the one it started send events, also while the queue is       *)
(* drained; without a receiver the event is lost.                           *)
SendEvent(w, d) ==
    /\ task[w] \in {"running", "signalled"} \/ detached[w] = "running"
    /\ d \in Deps(w) /\ task[d] # "none"
    /\ events < MaxEvents
    /\ events' = events + 1
    /\ IF task[d] = "ended"
       THEN lost' = lost \cup {w} /\ UNCHANGED queue
       ELSE queue' = [queue EXCEPT ![d] = @ + 1] /\ UNCHANGED lost
    /\ UNCHANGED <<sortVars, phase, position, core_workers, task, detached, bus, tangle,
                   polls, tangle_shut>>

HandleEvent(w) ==
    /\ task[w] \in {"running", "signalled"} /\ queue[w] > 0
    /\ queue' = [queue EXCEPT ![w] = @ - 1]
    /\ UNCHANGED <<sortVars, phase, position, core_workers, task, detached, bus, tangle,
                   polls, tangle_shut, events, lost>>

(* A task that sees the signal (ShutdownStream asks for it first) drains    *)
(* its queue and ends.                                                      *)
Drained(w) == [queue EXCEPT ![w] = 0]
EndTask(w) ==
    /\ task[w] = "signalled"
    /\ task' = [task EXCEPT ![w] = "ended"]
    /\ queue' = Drained(w)
    /\ UNCHANGED <<sortVars, phase, position, core_workers, detached, bus, tangle,
                   polls, tangle_shut, events, lost>>

(* A detached task ends after the one that started it.                      *)
EndDetached(w) ==
    /\ detached[w] = "running" /\ task[w] = "ended"
    /\ detached' = [detached EXCEPT ![w] = "ended"]
    /\ UNCHANGED <<sortVars, phase, position, core_workers, task, queue, bus, tangle,
                   polls, tangle_shut, events, lost>>

-----------------------------------------------------------------------------
(* FullNode::run receives the shutdown signal.                              *)
Shutdown ==
    /\ phase = "running"
    /\ phase' = "stop_task"
    /\ UNCHANGED <<sortVars, position, core_workers, task, detached, queue, bus, tangle,
                   polls, tangle_shut, events, lost>>

(* FullNode::stop, for the last of the workers that are left: its task is   *)
(* signalled and awaited.  The bug: it is only awaited.                     *)
SignalledNot(w) == task
Signalled(w) == [task EXCEPT ![w] = IF @ = "running" THEN "signalled" ELSE @]
StopTask ==
    /\ phase = "stop_task"
    /\ task' = Signalled(Current)
    /\ phase' = "await"
    /\ UNCHANGED <<sortVars, position, core_workers, detached, queue, bus, tangle,
                   polls, tangle_shut, events, lost>>

TaskJoined ==
    /\ phase = "await" /\ task[Current] \in {"none", "ended"}
    /\ phase' = IF Current = TangleWorker THEN "stop_tangle" ELSE "stop_worker"
    /\ UNCHANGED <<sortVars, position, core_workers, task, detached, queue, bus, tangle,
                   polls, tangle_shut, events, lost>>

(* TangleWorker::stop: remove_resource takes the handle out of the          *)
(* resources, whether or not the tangle can be unwrapped afterwards.        *)
StopTangle ==
    /\ phase = "stop_tangle"
    /\ tangle' = "removed"
    /\ IF tangle = "registered" /\ TangleHolders = {}
       THEN tangle_shut' = "shutdown" /\ phase' = "stop_worker" /\ UNCHANGED polls
       ELSE \/ polls < MaxPolls /\ polls' = polls + 1 /\ UNCHANGED <<tangle_shut, phase>>
            \/ polls > 0 /\ tangle_shut' = "dropped" /\ phase' = "stop_worker" /\ UNCHANGED polls
    /\ UNCHANGED <<sortVars, position, core_workers, task, detached, queue, bus, events, lost>>

(* The worker is dropped and its listeners are removed.                     *)
RemoveListeners(w) == bus \ {w}
StopWorker ==
    /\ phase = "stop_worker"
    /\ core_workers' = core_workers \ {Current}
    /\ bus' = RemoveListeners(Current)
    /\ position' = position - 1
    /\ phase' = IF position > 1 THEN "stop_task" ELSE "stop_storage"
    /\ UNCHANGED <<sortVars, task, detached, queue, tangle, polls, tangle_shut, events, lost>>

(* The storage is unwrapped, which panics if the tangle is still held.      *)
StopStorage ==
    /\ phase = "stop_storage"
    /\ phase' = IF TangleHolders = {} THEN "stopped" ELSE "panicked"
    /\ UNCHANGED <<sortVars, position, core_workers, task, detached, queue, bus, tangle,
                   polls, tangle_shut, events, lost>>

-----------------------------------------------------------------------------
LifeInit ==
    /\ graph \in DependencyGraphs
    /\ unsorted = DOMAIN graph
    /\ worker_order = <<>> /\ visiting = <<>>
    /\ phase = "sort"
    /\ position = 0
    /\ core_workers = {}
    /\ task = [w \in WorkerIds |-> "none"]
    /\ detached = [w \in WorkerIds |-> "none"]
    /\ queue = [w \in WorkerIds |-> 0]
    /\ bus = {}
    /\ tangle = "none"
    /\ polls = 0
    /\ tangle_shut = "no"
    /\ events = 0 /\ lost = {}

NodeStep == (\E w \in WorkerIds : Sort(w)) \/ VisitDependency \/ VisitEnds \/ StartWorker
            \/ StopTask \/ TaskJoined \/ StopTangle \/ StopWorker \/ StopStorage

LifeNext ==
    \/ NodeStep \/ Shutdown
    \/ \E w \in WorkerIds : HandleEvent(w) \/ EndTask(w) \/ EndDetached(w)
    \/ \E w, d \in WorkerIds : SendEvent(w, d)

LifeSpec == LifeInit /\ [][LifeNext]_lifeVars

-----------------------------------------------------------------------------
(* A worker comes after the workers it depends on, and once (TopologicalOrder). *)
DependenciesFirst ==
    \A i \in DOMAIN worker_order :
        LET earlier == {worker_order[j] : j \in 1 .. i - 1}
        IN  worker_order[i] \notin earlier /\ Deps(worker_order[i]) \cap DOMAIN graph \subseteq earlier

(* As long as the task of a worker runs, at the start, in operation or      *)
(* during the shutdown, the workers it depends on have been started and     *)
(* have not been stopped ("Workers listed will be started before this       *)
(* worker and shut down after this worker", Worker::dependencies).          *)
DependenciesAlive ==
    \A w \in WorkerIds : task[w] \in {"running", "signalled"} =>
        \A d \in Deps(w) : d \in core_workers /\ task[d] \in {"none", "running"}

(* A task that has ended leaves no event behind: those who send to it have  *)
(* been stopped before, and what they sent has been drained (FullNode::stop *)
(* in the reverse order, the drain after a ShutdownStream: "Otherwise,      *)
(* information would be lost and not easily recoverable").  The exception   *)
(* is a detached task, which nobody stops.                                  *)
NothingLeftInQueues ==
    /\ \A w \in WorkerIds : task[w] = "ended" => queue[w] = 0
    /\ lost \subseteq {w \in Detaching : task[w] = "ended"}

(* When the tangle worker stops, the tasks and listeners of the other       *)
(* workers have let go of the tangle: only a detached task can hold it, and *)
(* only then is the tangle dropped without a shutdown (TangleWorker::stop:  *)
(* "The tangle was still in use by other users ... This is a bug").         *)
OnlyDetachedHoldTangle ==
    /\ phase = "stop_tangle" => TangleHolders \subseteq {w \in Detaching : detached[w] = "running"}
    /\ tangle_shut = "dropped" => \E w \in Detaching : detached[w] # "none"

(* A node that is told to shut down stops, unless the storage is still in   *)
(* use (FullNode::run).                                                     *)
ShutdownEnds == phase = "stop_task" ~> phase \in {"stopped", "panicked"}

(* Workers start after and stop before those they depend on, what was       *)
(* queued for them is handled, and they have let go of the tangle when its  *)
(* worker stops, detached tasks excepted (FullNodeBuilder::finish,          *)
(* FullNode::stop).                                                         *)
OrderlyShutdown ==
    /\ DependenciesFirst
    /\ DependenciesAlive
    /\ NothingLeftInQueues
    /\ OnlyDetachedHoldTangle
=============================================================================
