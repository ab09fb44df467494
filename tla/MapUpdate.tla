------------------------------ MODULE MapUpdate ------------------------------
(***************************************************************************)
(* The parallel map update of the world server: one tick of                *)
(* MapManager::Update hands every base map to the MapUpdater, whose        *)
(* DelayExecutor runs the requests on a pool of threads.  A request for an *)
(* instanceable base map (MapInstanced::Update) destroys idle instances    *)
(* and schedules the others from the worker thread, while the world thread *)
(* is already waiting for the tick to end.  When the tick has ended the    *)
(* world thread touches every map without a lock, and at shutdown deletes  *)
(* them (MapManager::UnloadAll).                                           *)
(*                                                                         *)
(* m_mutex protects pending_requests and is held for the whole of          *)
(* schedule_update and update_finished, so each is one step.  The queue is *)
(* an ACE_Activation_Queue: FIFO for equal priorities, refused at its high *)
(* water mark because execute() passes a zero timeout.                     *)
(***************************************************************************)
EXTENDS Naturals, Sequences, FiniteSets

CONSTANTS
  BaseMaps,       \* ids i_maps may hold
  InstancedMaps,  \* those whose object is a MapInstanced
  Instances,      \* instance ids m_InstancedMaps may hold
  Parent,         \* the MapInstanced an instance belongs to
  Workers,        \* threads the DelayExecutor may start (CONFIG_NUMTHREADS of them)
  HighWater       \* requests the queue takes before enqueue reports EWOULDBLOCK

ASSUME MapsAssumption ==
  /\ InstancedMaps \subseteq BaseMaps
  /\ BaseMaps \cap Instances = {}
  /\ Parent \in [Instances -> InstancedMaps]

ASSUME PoolAssumption ==
  /\ IsFiniteSet(Workers)
  /\ HighWater \in Nat \ {0}

VARIABLES
  exists,           \* Map objects allocated and not deleted
  queue,            \* requests in DelayExecutor::queue_
  qstate,           \* state of its message queue
  activated,        \* DelayExecutor::activated_
  pending_requests, \* MapUpdater::pending_requests
  wpc, wmap, wtodo, \* each worker: where in svc(), m_map of its request, instances left to visit
  main,             \* where the world thread is
  todo,             \* base maps MapManager::Update has not visited in this tick
  asleep,           \* the world thread is inside m_condition.wait()
  updated,          \* maps whose Update has run in this tick
  refused,          \* maps schedule_update returned -1 for in this tick
  kept              \* unloadable instances DestroyInstance could not empty in this tick

poolVars == <<queue, pending_requests, refused>>
workerVars == <<wpc, wmap, wtodo>>
mainVars == <<main, todo, asleep>>
vars == <<exists, queue, qstate, activated, pending_requests, wpc, wmap, wtodo,
          main, todo, asleep, updated, refused, kept>>

Maps == BaseMaps \cup Instances
Children(m) == {i \in Instances : Parent[i] = m}

\* Workers that hold a request taken from the queue and not yet finished.
InHand == {w \in Workers : wpc[w] \in {"update", "instances", "finish"}}

Queued == {queue[k] : k \in 1..Len(queue)}

TypeOK ==
  /\ exists \subseteq Maps
  /\ queue \in Seq(Maps)
  /\ qstate \in {"ACTIVATED", "DEACTIVATED"}
  /\ activated \in BOOLEAN
  /\ pending_requests \in Nat
  /\ wpc \in [Workers -> {"dequeue", "update", "instances", "finish", "exited"}]
  /\ wmap \in [Workers -> Maps]
  /\ wtodo \in [Workers -> SUBSET Instances]
  /\ main \in {"idle", "schedule", "wait", "delayed", "unload", "drain", "join", "done"}
  /\ todo \subseteq BaseMaps
  /\ asleep \in BOOLEAN
  /\ updated \subseteq Maps
  /\ refused \subseteq Maps
  /\ kept \subseteq Instances

\* MapManager::Initialize has run: it starts num_threads of the Workers, and the
\* pool only if there is one.  A thread that is not started counts as exited.
Init ==
  /\ exists = {}
  /\ queue = <<>>
  /\ qstate = "ACTIVATED"
  /\ \E started \in SUBSET Workers :
       /\ activated = (started # {})
       /\ wpc = [w \in Workers |-> IF w \in started THEN "dequeue" ELSE "exited"]
  /\ pending_requests = 0
  /\ wmap \in [Workers -> Maps]
  /\ wtodo = [w \in Workers |-> {}]
  /\ main = "idle"
  /\ todo = {}
  /\ asleep = FALSE
  /\ updated = {}
  /\ refused = {}
  /\ kept = {}

-----------------------------------------------------------------------------
(* DelayExecutor::execute and MapUpdater::schedule_update                   *)

CanEnqueue == qstate = "ACTIVATED" /\ Len(queue) < HighWater

schedule_update(m) ==
  \/ /\ CanEnqueue
     /\ pending_requests' = pending_requests + 1
     /\ queue' = Append(queue, m)
     /\ UNCHANGED refused
  \/ /\ ~CanEnqueue
     /\ refused' = refused \cup {m}
     /\ UNCHANGED <<queue, pending_requests>>

-----------------------------------------------------------------------------
(* The world thread                                                         *)

\* Between two map ticks the world thread handles sessions, game events and
\* resets, and creates the maps they ask for.
CreateBaseMap(m) ==
  /\ main = "idle"
  /\ m \notin exists
  /\ exists' = exists \cup {m}
  /\ UNCHANGED <<poolVars, qstate, activated, workerVars, mainVars, updated, kept>>

CreateInstance(i) ==
  /\ main = "idle"
  /\ Parent[i] \in exists
  /\ i \notin exists
  /\ exists' = exists \cup {i}
  /\ UNCHANGED <<poolVars, qstate, activated, workerVars, mainVars, updated, kept>>

\* MapManager::Update once i_timer has passed.
StartTick ==
  /\ main = "idle"
  /\ main' = "schedule"
  /\ todo' = exists \cap BaseMaps
  /\ updated' = {}
  /\ refused' = {}
  /\ kept' = {}
  /\ UNCHANGED <<exists, queue, pending_requests, qstate, activated, workerVars, asleep>>

ScheduleMap(m) ==
  /\ main = "schedule"
  /\ m \in todo
  /\ activated
  /\ schedule_update(m)
  /\ todo' = todo \ {m}
  /\ UNCHANGED <<exists, qstate, activated, workerVars, main, asleep, updated, kept>>

\* Mutant: update the maps in place, but forget the instances.
UpdateInPlaceBaseOnly(m) ==
  /\ main = "schedule"
  /\ m \in todo
  /\ ~activated
  /\ updated' = updated \cup {m}
  /\ todo' = todo \ {m}
  /\ UNCHANGED <<exists, poolVars, qstate, activated, workerVars, main, asleep, kept>>

\* Without a pool the map, and each of its instances, is updated in place.
UpdateInPlace(m) ==
  /\ main = "schedule"
  /\ m \in todo
  /\ ~activated
  /\ \E idle \in SUBSET (Children(m) \cap exists) :
       \E emptied \in SUBSET idle :
         /\ exists' = exists \ emptied
         /\ kept' = kept \cup (idle \ emptied)
         /\ updated' = updated \cup {m} \cup ((Children(m) \cap exists) \ idle)
  /\ todo' = todo \ {m}
  /\ UNCHANGED <<poolVars, qstate, activated, workerVars, main, asleep>>

EndSchedule ==
  /\ main = "schedule"
  /\ todo = {}
  /\ main' = IF activated THEN "wait" ELSE "delayed"
  /\ UNCHANGED <<exists, poolVars, qstate, activated, workerVars, todo, asleep, updated, kept>>

\* MapUpdater::wait, called by MapManager::Update and by MapUpdater::deactivate.
WaitBlocks ==
  /\ main \in {"wait", "drain"}
  /\ ~asleep
  /\ pending_requests > 0
  /\ asleep' = TRUE
  /\ UNCHANGED <<exists, poolVars, qstate, activated, workerVars, main, todo, updated, kept>>

\* Mutant: wait() only looks at the queue, not at the requests being run.
WaitReturnsOnEmptyQueue ==
  /\ main = "wait"
  /\ ~asleep
  /\ queue = <<>>
  /\ main' = "delayed"
  /\ UNCHANGED <<exists, poolVars, qstate, activated, workerVars, todo, asleep, updated, kept>>

WaitReturns ==
  /\ main = "wait"
  /\ ~asleep
  /\ pending_requests = 0
  /\ main' = "delayed"
  /\ UNCHANGED <<exists, poolVars, qstate, activated, workerVars, todo, asleep, updated, kept>>

\* DelayedUpdate of every map and instance, on the world thread.
DelayedUpdate ==
  /\ main = "delayed"
  /\ main' = "idle"
  /\ UNCHANGED <<exists, poolVars, qstate, activated, workerVars, todo, asleep, updated, kept>>

\* WorldRunnable::run leaves its loop and calls MapManager::UnloadAll.
StopWorld ==
  /\ main = "idle"
  /\ main' = "unload"
  /\ UNCHANGED <<exists, poolVars, qstate, activated, workerVars, todo, asleep, updated, kept>>

UnloadMap(m) ==
  /\ main = "unload"
  /\ m \in exists \cap BaseMaps
  /\ exists' = exists \ ({m} \cup Children(m))
  /\ UNCHANGED <<poolVars, qstate, activated, workerVars, mainVars, updated, kept>>

EndUnload ==
  /\ main = "unload"
  /\ exists \cap BaseMaps = {}
  /\ main' = IF activated THEN "drain" ELSE "done"
  /\ UNCHANGED <<exists, poolVars, qstate, activated, workerVars, todo, asleep, updated, kept>>

\* MapUpdater::deactivate after its wait(): DelayExecutor::deactivate.
DeactivateExecutor ==
  /\ main = "drain"
  /\ ~asleep
  /\ pending_requests = 0
  /\ activated' = FALSE
  /\ qstate' = "DEACTIVATED"
  /\ main' = "join"
  /\ UNCHANGED <<exists, poolVars, workerVars, todo, asleep, updated, kept>>

JoinWorkers ==
  /\ main = "join"
  /\ \A w \in Workers : wpc[w] = "exited"
  /\ main' = "done"
  /\ UNCHANGED <<exists, poolVars, qstate, activated, workerVars, todo, asleep, updated, kept>>

Terminated == main = "done" /\ UNCHANGED vars

-----------------------------------------------------------------------------
(* A worker: DelayExecutor::svc and MapUpdateRequest::call                  *)

Dequeue(w) ==
  /\ wpc[w] = "dequeue"
  /\ qstate = "ACTIVATED"
  /\ queue # <<>>
  /\ wmap' = [wmap EXCEPT ![w] = Head(queue)]
  /\ queue' = Tail(queue)
  /\ wpc' = [wpc EXCEPT ![w] = "update"]
  /\ UNCHANGED <<exists, pending_requests, qstate, activated, wtodo, mainVars, updated, refused, kept>>

\* Map::Update of the request's map; a MapInstanced then visits its instances.
RunUpdate(w) ==
  /\ wpc[w] = "update"
  /\ updated' = updated \cup {wmap[w]}
  /\ \/ /\ wmap[w] \in InstancedMaps
        /\ wpc' = [wpc EXCEPT ![w] = "instances"]
        /\ wtodo' = [wtodo EXCEPT ![w] = Children(wmap[w]) \cap exists]
     \/ /\ wmap[w] \notin InstancedMaps
        /\ wpc' = [wpc EXCEPT ![w] = "finish"]
        /\ UNCHANGED wtodo
  /\ UNCHANGED <<exists, poolVars, qstate, activated, wmap, mainVars, kept>>

\* Mutant: the iterator is not advanced past a scheduled instance.
ScheduleInstanceAgain(w, i) ==
  /\ wpc[w] = "instances"
  /\ i \in wtodo[w]
  /\ schedule_update(i)
  /\ UNCHANGED <<exists, qstate, activated, workerVars, mainVars, updated, kept>>

\* Mutant: a worker gives the request to the executor without counting it.
ScheduleInstanceUncounted(w, i) ==
  /\ wpc[w] = "instances"
  /\ i \in wtodo[w]
  /\ CanEnqueue
  /\ queue' = Append(queue, i)
  /\ wtodo' = [wtodo EXCEPT ![w] = @ \ {i}]
  /\ UNCHANGED <<exists, pending_requests, refused, qstate, activated, wpc, wmap, mainVars, updated, kept>>

\* An instance that cannot be unloaded is scheduled from the worker thread.
ScheduleInstance(w, i) ==
  /\ wpc[w] = "instances"
  /\ i \in wtodo[w]
  /\ schedule_update(i)
  /\ wtodo' = [wtodo EXCEPT ![w] = @ \ {i}]
  /\ UNCHANGED <<exists, qstate, activated, wpc, wmap, mainVars, updated, kept>>

\* Mutant: the unload timer is looked at again after the instance was scheduled.
DestroyInstanceLate(w, i) ==
  /\ wpc[w] = "instances"
  /\ i \in Children(wmap[w]) \cap exists
  /\ \/ exists' = exists \ {i} /\ UNCHANGED kept
     \/ kept' = kept \cup {i} /\ UNCHANGED exists
  /\ wtodo' = [wtodo EXCEPT ![w] = @ \ {i}]
  /\ UNCHANGED <<poolVars, qstate, activated, wpc, wmap, mainVars, updated>>

\* DestroyInstance deletes the map, or keeps it when players are still inside.
DestroyInstance(w, i) ==
  /\ wpc[w] = "instances"
  /\ i \in wtodo[w]
  /\ \/ exists' = exists \ {i} /\ UNCHANGED kept
     \/ kept' = kept \cup {i} /\ UNCHANGED exists
  /\ wtodo' = [wtodo EXCEPT ![w] = @ \ {i}]
  /\ UNCHANGED <<poolVars, qstate, activated, wpc, wmap, mainVars, updated>>

EndInstances(w) ==
  /\ wpc[w] = "instances"
  /\ wtodo[w] = {}
  /\ wpc' = [wpc EXCEPT ![w] = "finish"]
  /\ UNCHANGED <<exists, poolVars, qstate, activated, wmap, wtodo, mainVars, updated, kept>>

\* pending_requests = 0 here is the "BUG, report to devs" return.
update_finished(w) ==
  /\ wpc[w] = "finish"
  /\ wpc' = [wpc EXCEPT ![w] = "dequeue"]
  /\ IF pending_requests = 0
       THEN UNCHANGED <<pending_requests, asleep>>
       ELSE /\ pending_requests' = pending_requests - 1
            /\ asleep' = FALSE
  /\ UNCHANGED <<exists, queue, qstate, activated, wmap, wtodo, main, todo, updated, refused, kept>>

\* dequeue() fails once the queue is deactivated, whatever it still holds.
LeaveService(w) ==
  /\ wpc[w] = "dequeue"
  /\ qstate = "DEACTIVATED"
  /\ wpc' = [wpc EXCEPT ![w] = "exited"]
  /\ UNCHANGED <<exists, poolVars, qstate, activated, wmap, wtodo, mainVars, updated, kept>>

-----------------------------------------------------------------------------

MainUpdates ==
  \/ \E m \in BaseMaps : ScheduleMap(m) \/ UpdateInPlace(m)
  \/ EndSchedule \/ WaitBlocks \/ WaitReturns \/ DelayedUpdate

MainStops ==
  \/ \E m \in BaseMaps : UnloadMap(m)
  \/ EndUnload \/ DeactivateExecutor \/ JoinWorkers

MainIdles ==
  \/ \E m \in BaseMaps : CreateBaseMap(m)
  \/ \E i \in Instances : CreateInstance(i)
  \/ StartTick \/ StopWorld

Worker(w) ==
  \/ Dequeue(w) \/ RunUpdate(w) \/ EndInstances(w) \/ update_finished(w) \/ LeaveService(w)
  \/ \E i \in Instances : ScheduleInstance(w, i) \/ DestroyInstance(w, i)

Next == MainIdles \/ MainUpdates \/ MainStops \/ Terminated \/ \E w \in Workers : Worker(w)

Spec == Init /\ [][Next]_vars

\* Every thread of the process keeps being scheduled by the operating system.
Fairness ==
  /\ WF_vars(MainUpdates)
  /\ WF_vars(MainStops)
  /\ \A w \in Workers : WF_vars(Worker(w))

FairSpec == Spec /\ Fairness

-----------------------------------------------------------------------------
(* Properties                                                               *)

\* pending_requests counts exactly the requests that are queued or running, so
\* wait() cannot return early, cannot wait for ever, and update_finished never
\* takes its "BUG, report to devs" return.
PendingExact == pending_requests = Len(queue) + Cardinality(InHand)

\* No request, queued or running, refers to a Map that DestroyInstance or
\* UnloadAll has deleted; neither does a MapInstanced iteration in progress.
NoDanglingRequest ==
  /\ Queued \subseteq exists
  /\ \A w \in InHand : wmap[w] \in exists /\ (wpc[w] = "instances" => wtodo[w] \subseteq exists)

\* No Map is updated by two threads at a time, or scheduled twice at a time.
OneRequestPerMap ==
  /\ \A j, k \in 1..Len(queue) : j # k => queue[j] # queue[k]
  /\ \A w \in InHand : wmap[w] \notin Queued
  /\ \A v, w \in InHand : v # w => wmap[v] # wmap[w]

\* Outside the schedule/wait window of MapManager::Update the world thread has
\* every map to itself: it runs DelayedUpdate, sessions and UnloadAll unlocked.
WorldThreadAlone == main \notin {"schedule", "wait"} => queue = <<>> /\ InHand = {}

\* When the tick's wait() has returned every map has been updated, unless its
\* own request or its parent's was refused, or it is being emptied.
TickComplete ==
  main = "delayed" =>
    \A m \in exists :
      \/ m \in updated \cup refused \cup kept
      \/ m \in Instances /\ Parent[m] \in refused

-----------------------------------------------------------------------------
(* Refinement                                                               *)

\* Maps of the running tick that have been neither updated, refused nor kept.
Unsettled ==
  {m \in exists :
    /\ m \notin updated \cup refused \cup kept
    /\ m \in Instances => Parent[m] \notin refused}

Tick == INSTANCE MapTick WITH
  maps <- exists,
  left <- IF main \in {"schedule", "wait"} THEN Unsettled ELSE {},
  phase <- CASE main \in {"idle", "delayed"} -> "between"
             [] main \in {"schedule", "wait"} -> "tick"
             [] main \in {"unload", "drain", "join"} -> "stopping"
             [] OTHER -> "stopped"

\* The pool, its queue and its counters implement the atomic view the world
\* thread has of MapManager::Update and UnloadAll: no map is created or skipped
\* in a tick, none is settled twice or before its parent, a map is destroyed
\* only while its tick is still due, and ticks and the shutdown end.
ImplementsTick == Tick!FairSpec
=============================================================================
