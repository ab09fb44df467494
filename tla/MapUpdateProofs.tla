--------------------------- MODULE MapUpdateProofs ---------------------------
(***************************************************************************)
(* Proofs about MapUpdate, for any set of maps, any pool of threads and    *)
(* any high water mark.                                                    *)
(***************************************************************************)
EXTENDS MapUpdate, FiniteSetTheorems, TLAPS

\* The maps a request refers to, queued or in the hands of a worker.
Busy == Queued \cup {wmap[w] : w \in InHand}

\* A base map the world thread still has to schedule exists and is not busy.
TodoFresh ==
  /\ todo \subseteq exists \ Busy
  /\ main # "schedule" => todo = {}

\* An instance a worker still has to visit exists, belongs to the MapInstanced
\* the worker is updating, and is not busy.
VisitsFresh ==
  \A w \in Workers : wpc[w] = "instances" =>
    /\ wmap[w] \in InstancedMaps
    /\ wtodo[w] \subseteq (Children(wmap[w]) \cap exists) \ Busy

\* An instance is busy only after its MapInstanced has begun to visit it: the
\* parent's own request is neither ahead of it nor about to start.
ParentFirst ==
  \A i \in Instances \cap Busy :
    /\ Parent[i] \notin todo \cup Queued
    /\ \A w \in Workers : wpc[w] = "update" => wmap[w] # Parent[i]

\* Without an active pool nothing is queued and nobody works.
PoolOff == ~activated => queue = <<>> /\ InHand = {}

\* An instance lives no longer than its MapInstanced.
ParentExists == \A i \in Instances \cap exists : Parent[i] \in exists

IInv ==
  /\ TypeOK
  /\ OneRequestPerMap
  /\ WorldThreadAlone
  /\ Busy \subseteq exists
  /\ TodoFresh
  /\ VisitsFresh
  /\ ParentFirst
  /\ PoolOff
  /\ ParentExists
  /\ PendingExact

\* Maps whose Update is still to come in this tick through their own request.
Ahead == todo \cup Queued \cup {wmap[w] : w \in {v \in Workers : wpc[v] = "update"}}

\* From the start of a tick to its DelayedUpdate no map is forgotten: it was
\* updated, refused or kept, it is ahead, or its MapInstanced will still visit it.
NoneForgotten ==
  main \in {"schedule", "wait", "delayed"} =>
    \A m \in exists :
      \/ m \in updated \cup refused \cup kept \cup Ahead
      \/ m \in Instances /\ Parent[m] \in refused \cup Ahead
      \/ \E w \in Workers : wpc[w] = "instances" /\ m \in wtodo[w]

-----------------------------------------------------------------------------
(* Sequences: what enqueue and dequeue do to the set of queued maps.        *)

\* Appending m to a queue adds m to its elements and nothing else, and keeps
\* the elements distinct when m is new.
LEMMA AppendElements ==
  ASSUME NEW S, NEW q \in Seq(S), NEW m \in S
  PROVE  LET r == Append(q, m) IN
         /\ r \in Seq(S)
         /\ Len(r) = Len(q) + 1
         /\ {r[k] : k \in 1..Len(r)} = {q[k] : k \in 1..Len(q)} \cup {m}
         /\ (\A j, k \in 1..Len(q) : j # k => q[j] # q[k])
              /\ m \notin {q[k] : k \in 1..Len(q)}
            => \A j, k \in 1..Len(r) : j # k => r[j] # r[k]
<1> DEFINE r == Append(q, m)
<1>1. /\ r \in Seq(S)
      /\ Len(r) = Len(q) + 1
      /\ r[Len(q) + 1] = m
      /\ \A k \in 1..Len(q) : r[k] = q[k]
  OBVIOUS
<1>2. Len(q) \in Nat
  OBVIOUS
<1> HIDE DEF r
<1>3. 1..Len(r) = (1..Len(q)) \cup {Len(q) + 1}
  BY <1>1, <1>2
<1>4. {r[k] : k \in 1..Len(r)} = {q[k] : k \in 1..Len(q)} \cup {m}
  BY <1>1, <1>3
<1>5. ASSUME \A j, k \in 1..Len(q) : j # k => q[j] # q[k],
             m \notin {q[k] : k \in 1..Len(q)}
      PROVE  \A j, k \in 1..Len(r) : j # k => r[j] # r[k]
  BY <1>1, <1>3, <1>5
<1> QED
  BY <1>1, <1>4, <1>5 DEF r

\* Taking the head of a queue removes one element, which the rest no longer
\* holds when the elements were distinct.
LEMMA TailElements ==
  ASSUME NEW S, NEW q \in Seq(S), q # <<>>
  PROVE  LET r == Tail(q) IN
         /\ r \in Seq(S)
         /\ Head(q) \in S
         /\ Len(r) = Len(q) - 1
         /\ {q[k] : k \in 1..Len(q)} = {r[k] : k \in 1..Len(r)} \cup {Head(q)}
         /\ (\A j, k \in 1..Len(q) : j # k => q[j] # q[k])
            => /\ \A j, k \in 1..Len(r) : j # k => r[j] # r[k]
               /\ Head(q) \notin {r[k] : k \in 1..Len(r)}
<1> DEFINE r == Tail(q)
<1>1. /\ r \in Seq(S)
      /\ Len(r) = Len(q) - 1
      /\ Head(q) = q[1]
      /\ \A k \in 1..Len(r) : r[k] = q[k + 1]
      /\ Len(q) \in Nat \ {0}
      /\ Head(q) \in S
  OBVIOUS
<1> HIDE DEF r
<1>2. \A k \in 1..Len(q) : k = 1 \/ k - 1 \in 1..Len(r)
  BY <1>1
<1>3. \A k \in 1..Len(r) : k + 1 \in 1..Len(q) /\ k + 1 # 1
  BY <1>1
<1>4. 1 \in 1..Len(q)
  BY <1>1
<1>5. {q[k] : k \in 1..Len(q)} \subseteq {r[k] : k \in 1..Len(r)} \cup {Head(q)}
  <2> SUFFICES ASSUME NEW k \in 1..Len(q), k # 1
               PROVE  q[k] \in {r[j] : j \in 1..Len(r)}
    BY <1>1
  <2>1. k - 1 \in 1..Len(r) /\ r[k - 1] = q[(k - 1) + 1] /\ (k - 1) + 1 = k
    BY <1>1, <1>2
  <2> QED
    BY <2>1
<1>6. {r[k] : k \in 1..Len(r)} \cup {Head(q)} \subseteq {q[k] : k \in 1..Len(q)}
  BY <1>1, <1>3, <1>4
<1>7. ASSUME \A j, k \in 1..Len(q) : j # k => q[j] # q[k]
      PROVE  /\ \A j, k \in 1..Len(r) : j # k => r[j] # r[k]
             /\ Head(q) \notin {r[k] : k \in 1..Len(r)}
  BY <1>1, <1>3, <1>4, <1>7
<1> QED
  BY <1>1, <1>5, <1>6, <1>7 DEF r

-----------------------------------------------------------------------------
(* Type correctness                                                         *)

\* The state MapManager::Initialize leaves is well typed.
LEMMA InitTypeOK == Init => TypeOK
<1> SUFFICES ASSUME Init PROVE TypeOK
  OBVIOUS
<1>1. activated \in BOOLEAN
  BY Zenon DEF Init
<1>2. queue \in Seq(Maps)
  BY DEF Init
<1> QED
  BY <1>1, <1>2 DEF Init, TypeOK

\* Every step of every thread keeps the type invariant.
LEMMA NextTypeOK == TypeOK /\ [Next]_vars => TypeOK'
<1> SUFFICES ASSUME TypeOK, [Next]_vars PROVE TypeOK'
  OBVIOUS
<1> USE DEF poolVars, workerVars, mainVars
<1>1. ASSUME NEW m \in BaseMaps, ScheduleMap(m) PROVE TypeOK'
  BY <1>1, AppendElements DEF TypeOK, ScheduleMap, schedule_update, Maps
<1>2. ASSUME NEW m \in BaseMaps, UpdateInPlace(m) PROVE TypeOK'
  BY <1>2 DEF TypeOK, UpdateInPlace, Maps, Children
<1>3. ASSUME NEW m \in BaseMaps, CreateBaseMap(m) PROVE TypeOK'
  BY <1>3 DEF TypeOK, CreateBaseMap, Maps
<1>4. ASSUME NEW i \in Instances, CreateInstance(i) PROVE TypeOK'
  BY <1>4 DEF TypeOK, CreateInstance, Maps
<1>5. CASE StartTick
  BY <1>5 DEF TypeOK, StartTick
<1>6. CASE EndSchedule \/ WaitBlocks \/ WaitReturns \/ DelayedUpdate \/ StopWorld \/ EndUnload \/ JoinWorkers
  BY <1>6 DEF TypeOK, EndSchedule, WaitBlocks, WaitReturns, DelayedUpdate, StopWorld, EndUnload, JoinWorkers
<1>7. ASSUME NEW m \in BaseMaps, UnloadMap(m) PROVE TypeOK'
  BY <1>7 DEF TypeOK, UnloadMap
<1>8. CASE DeactivateExecutor
  BY <1>8 DEF TypeOK, DeactivateExecutor
<1>9. CASE UNCHANGED vars
  BY <1>9 DEF TypeOK, vars
<1>10. ASSUME NEW w \in Workers, Dequeue(w) PROVE TypeOK'
  <2>1. Head(queue) \in Maps /\ Tail(queue) \in Seq(Maps)
    BY <1>10, TailElements DEF TypeOK, Dequeue
  <2> QED
    BY <1>10, <2>1 DEF TypeOK, Dequeue
<1>11. ASSUME NEW w \in Workers, RunUpdate(w) PROVE TypeOK'
  BY <1>11 DEF TypeOK, RunUpdate, Children
<1>12. ASSUME NEW w \in Workers, NEW i \in Instances, ScheduleInstance(w, i) PROVE TypeOK'
  <2>1. i \in Maps /\ schedule_update(i)
    BY <1>12 DEF ScheduleInstance, Maps
  <2>2. Append(queue, i) \in Seq(Maps)
    BY <2>1, AppendElements DEF TypeOK
  <2>3. /\ queue' \in Seq(Maps)
        /\ pending_requests' \in Nat
        /\ refused' \subseteq Maps
    <3>1. queue \in Seq(Maps) /\ pending_requests \in Nat /\ refused \subseteq Maps
      BY DEF TypeOK
    <3>2. CASE CanEnqueue
      <4>1. queue' = Append(queue, i) /\ pending_requests' = pending_requests + 1 /\ refused' = refused
        BY <2>1, <3>2 DEF schedule_update
      <4> QED
        BY <2>2, <3>1, <4>1
    <3>3. CASE ~CanEnqueue
      <4>1. queue' = queue /\ pending_requests' = pending_requests /\ refused' = refused \cup {i}
        BY <2>1, <3>3 DEF schedule_update
      <4> QED
        BY <2>1, <3>1, <4>1
    <3> QED
      BY <3>2, <3>3
  <2> QED
    BY <1>12, <2>3 DEF TypeOK, ScheduleInstance
<1>13. ASSUME NEW w \in Workers, NEW i \in Instances, DestroyInstance(w, i) PROVE TypeOK'
  <2>1. exists' \subseteq Maps /\ kept' \subseteq Instances
    BY <1>13 DEF TypeOK, DestroyInstance
  <2> QED
    BY <1>13, <2>1 DEF TypeOK, DestroyInstance
<1>14. ASSUME NEW w \in Workers, EndInstances(w) \/ LeaveService(w) PROVE TypeOK'
  BY <1>14 DEF TypeOK, EndInstances, LeaveService
<1>15. ASSUME NEW w \in Workers, update_finished(w) PROVE TypeOK'
  <2>1. asleep' \in BOOLEAN
    BY <1>15, Zenon DEF TypeOK, update_finished
  <2>2. pending_requests' \in Nat
    BY <1>15 DEF TypeOK, update_finished
  <2> QED
    BY <1>15, <2>1, <2>2 DEF TypeOK, update_finished
<1> QED
  BY <1>1, <1>2, <1>3, <1>4, <1>5, <1>6, <1>7, <1>8, <1>9, <1>10, <1>11, <1>12, <1>13, <1>14, <1>15
  DEF Next, MainIdles, MainUpdates, MainStops, Worker, Terminated

\* Every variable keeps its type in every behaviour of the map update.
THEOREM TypeCorrect == Spec => []TypeOK
BY InitTypeOK, NextTypeOK, PTL DEF Spec

-----------------------------------------------------------------------------
(* How each step moves the requests                                         *)

\* A step that leaves the queue and the workers alone leaves the requests alone.
LEMMA RequestsUnmoved ==
  ASSUME UNCHANGED <<queue, wpc, wmap>>
  PROVE  Queued' = Queued /\ InHand' = InHand /\ Busy' = Busy
<1>1. Queued' = Queued
  BY DEF Queued
<1>2. InHand' = InHand
  BY DEF InHand
<1> QED
  BY <1>1, <1>2 DEF Busy

\* schedule_update either refuses or appends one request and counts it.
LEMMA ScheduleMoves ==
  ASSUME TypeOK, NEW m \in Maps \ Busy, OneRequestPerMap,
         schedule_update(m), UNCHANGED <<wpc, wmap>>
  PROVE  /\ InHand' = InHand
         /\ OneRequestPerMap'
         /\ \/ /\ UNCHANGED queue /\ Queued' = Queued /\ Busy' = Busy
               /\ pending_requests' = pending_requests /\ refused' = refused \cup {m}
            \/ /\ Queued' = Queued \cup {m} /\ Busy' = Busy \cup {m}
               /\ Len(queue') = Len(queue) + 1
               /\ pending_requests' = pending_requests + 1 /\ refused' = refused
<1>1. InHand' = InHand
  BY DEF InHand
<1>2. CASE ~CanEnqueue
  <2>1. UNCHANGED queue
    BY <1>2 DEF schedule_update
  <2>2. Queued' = Queued /\ Busy' = Busy
    BY <2>1, RequestsUnmoved
  <2> QED
    BY <1>1, <1>2, <2>1, <2>2 DEF schedule_update, OneRequestPerMap
<1>3. CASE CanEnqueue
  <2>1. queue' = Append(queue, m)
    BY <1>3 DEF schedule_update
  <2>2. Queued' = Queued \cup {m} /\ Len(queue') = Len(queue) + 1
    BY <2>1, AppendElements DEF Queued, TypeOK
  <2>3. Busy' = Busy \cup {m}
    BY <1>1, <2>2 DEF Busy
  <2>4. m \notin Queued /\ \A w \in InHand : wmap[w] # m
    BY DEF Busy
  <2>5. \A j, k \in 1..Len(queue') : j # k => queue'[j] # queue'[k]
    BY <2>1, <2>4, AppendElements DEF OneRequestPerMap, Queued, TypeOK
  <2>6. OneRequestPerMap'
    BY <1>1, <2>2, <2>4, <2>5 DEF OneRequestPerMap
  <2> QED
    BY <1>1, <1>3, <2>2, <2>3, <2>6 DEF schedule_update
<1> QED
  BY <1>2, <1>3

\* dequeue moves the head of the queue into the hand of w.
LEMMA DequeueMoves ==
  ASSUME TypeOK, OneRequestPerMap, NEW w \in Workers, Dequeue(w)
  PROVE  /\ wmap'[w] \in Queued
         /\ Queued' = Queued \ {wmap'[w]}
         /\ Len(queue') = Len(queue) - 1
         /\ w \notin InHand
         /\ InHand' = InHand \cup {w}
         /\ \A v \in InHand : wmap'[v] = wmap[v]
         /\ Busy' = Busy
         /\ OneRequestPerMap'
<1>1. queue \in Seq(Maps) /\ queue # <<>>
  BY DEF TypeOK, Dequeue
<1>2. wmap'[w] = Head(queue) /\ \A v \in Workers \ {w} : wmap'[v] = wmap[v]
  BY DEF TypeOK, Dequeue
<1>3. w \notin InHand /\ InHand' = InHand \cup {w}
  <2>1. wpc[w] = "dequeue" /\ wpc'[w] = "update" /\ \A v \in Workers \ {w} : wpc'[v] = wpc[v]
    BY DEF TypeOK, Dequeue
  <2> QED
    BY <2>1 DEF InHand
<1>4. \A v \in InHand : v \in Workers \ {w}
  BY <1>3 DEF InHand
<1>5. /\ Queued = Queued' \cup {Head(queue)}
      /\ Head(queue) \notin Queued'
      /\ \A j, k \in 1..Len(queue') : j # k => queue'[j] # queue'[k]
      /\ Len(queue') = Len(queue) - 1
  <2>1. queue' = Tail(queue)
    BY DEF Dequeue
  <2>2. \A j, k \in 1..Len(queue) : j # k => queue[j] # queue[k]
    BY DEF OneRequestPerMap
  <2>3. /\ Len(Tail(queue)) = Len(queue) - 1
        /\ {queue[k] : k \in 1..Len(queue)} = {Tail(queue)[k] : k \in 1..Len(Tail(queue))} \cup {Head(queue)}
        /\ \A j, k \in 1..Len(Tail(queue)) : j # k => Tail(queue)[j] # Tail(queue)[k]
        /\ Head(queue) \notin {Tail(queue)[k] : k \in 1..Len(Tail(queue))}
    BY <1>1, <2>2, TailElements, Zenon
  <2> QED
    BY <2>1, <2>3, Zenon DEF Queued
<1>6. Busy' = Busy
  BY <1>2, <1>3, <1>4, <1>5 DEF Busy
<1>7. OneRequestPerMap'
  BY <1>2, <1>3, <1>4, <1>5 DEF OneRequestPerMap
<1> QED
  BY <1>2, <1>3, <1>4, <1>5, <1>6, <1>7

\* Going on with a request keeps it in hand.
LEMMA WorkKeepsHand ==
  ASSUME TypeOK, NEW w \in Workers, RunUpdate(w) \/ EndInstances(w)
  PROVE  /\ UNCHANGED <<queue, wmap>>
         /\ Queued' = Queued /\ InHand' = InHand /\ Busy' = Busy
<1> USE DEF poolVars, workerVars, mainVars
<1>1. UNCHANGED <<queue, wmap>>
  BY DEF RunUpdate, EndInstances
<1>2. InHand' = InHand
  BY DEF TypeOK, RunUpdate, EndInstances, InHand
<1> QED
  BY <1>1, <1>2 DEF Queued, Busy

\* update_finished lets go of the request w had in hand.
LEMMA FinishMoves ==
  ASSUME TypeOK, OneRequestPerMap, NEW w \in Workers, update_finished(w)
  PROVE  /\ UNCHANGED <<queue, wmap>>
         /\ w \in InHand
         /\ InHand' = InHand \ {w}
         /\ Queued' = Queued
         /\ Busy' \subseteq Busy
         /\ OneRequestPerMap'
<1>1. UNCHANGED <<queue, wmap>>
  BY DEF update_finished
<1>2. w \in InHand /\ InHand' = InHand \ {w}
  BY DEF TypeOK, update_finished, InHand
<1>3. Queued' = Queued
  BY <1>1 DEF Queued
<1> QED
  BY <1>1, <1>2, <1>3 DEF Busy, OneRequestPerMap

-----------------------------------------------------------------------------
(* The inductive invariant                                                  *)

\* The requests in the hands of the workers can be counted.
LEMMA InHandFinite == IsFiniteSet(InHand) /\ Cardinality(InHand) \in Nat
BY PoolAssumption, FS_Subset, FS_CardinalityType DEF InHand

\* The invariant holds when the pool has just been started.
LEMMA InitIInv == Init => IInv
<1> SUFFICES ASSUME Init PROVE IInv
  OBVIOUS
<1>1. TypeOK
  BY InitTypeOK
<1>2. queue = <<>> /\ InHand = {} /\ Queued = {} /\ Busy = {}
  BY DEF Init, InHand, Queued, Busy
<1>3. PendingExact
  BY <1>2, FS_EmptySet DEF Init, PendingExact
<1>4. OneRequestPerMap
  BY <1>2 DEF OneRequestPerMap
<1>5. VisitsFresh
  BY DEF Init, VisitsFresh
<1> QED
  BY <1>1, <1>2, <1>3, <1>4, <1>5
  DEF Init, IInv, WorldThreadAlone, TodoFresh, ParentFirst, PoolOff, ParentExists

\* A step that leaves every request, every visit and the set of maps alone
\* keeps the invariant, provided it respects the phases of the world thread.
LEMMA PhaseStep ==
  ASSUME IInv, TypeOK',
         UNCHANGED <<exists, queue, pending_requests, wpc, wmap, wtodo>>,
         todo' = todo \/ (todo' \subseteq exists /\ Busy = {}),
         main' # "schedule" => todo' = {},
         WorldThreadAlone', PoolOff'
  PROVE  IInv'
<1>1. Queued' = Queued /\ InHand' = InHand /\ Busy' = Busy
  BY RequestsUnmoved
<1>2. TodoFresh'
  BY <1>1 DEF IInv, TodoFresh
<1>3. VisitsFresh'
  BY <1>1 DEF IInv, VisitsFresh
<1>4. ParentFirst'
  BY <1>1 DEF IInv, ParentFirst
<1>5. OneRequestPerMap' /\ PendingExact' /\ Busy' \subseteq exists' /\ ParentExists'
  BY <1>1 DEF IInv, OneRequestPerMap, PendingExact, ParentExists
<1> QED
  BY <1>2, <1>3, <1>4, <1>5 DEF IInv

\* A step of the world thread, alone, that only changes the set of maps.
LEMMA MapsStep ==
  ASSUME IInv, TypeOK', Busy = {}, todo = {},
         UNCHANGED <<queue, pending_requests, wpc, wmap, wtodo, main, todo, activated>>,
         InHand = {}, ParentExists'
  PROVE  IInv'
<1>1. Queued' = Queued /\ InHand' = InHand /\ Busy' = Busy
  BY RequestsUnmoved
<1>2. \A w \in Workers : wpc[w] # "instances"
  BY DEF InHand
<1>3. VisitsFresh'
  BY <1>2 DEF VisitsFresh
<1>4. TodoFresh' /\ ParentFirst' /\ WorldThreadAlone' /\ PoolOff'
  BY <1>1 DEF IInv, TodoFresh, ParentFirst, WorldThreadAlone, PoolOff
<1>5. OneRequestPerMap' /\ PendingExact' /\ Busy' \subseteq exists'
  BY <1>1 DEF IInv, OneRequestPerMap, PendingExact
<1> QED
  BY <1>3, <1>4, <1>5 DEF IInv

\* pending_requests = 0 means that nothing is queued and nobody works.
LEMMA NothingPending ==
  ASSUME TypeOK, PendingExact, pending_requests = 0
  PROVE  queue = <<>> /\ InHand = {} /\ Busy = {}
<1>1. Len(queue) \in Nat
  BY DEF TypeOK
<1>2. Len(queue) = 0 /\ Cardinality(InHand) = 0
  BY <1>1, InHandFinite DEF PendingExact
<1>3. queue = <<>>
  BY <1>2 DEF TypeOK
<1>4. InHand = {}
  BY <1>2, InHandFinite, FS_EmptySet
<1> QED
  BY <1>3, <1>4 DEF Busy, Queued

\* With an empty queue and idle workers no map has a request.
LEMMA EmptyBusy == ASSUME queue = <<>>, InHand = {} PROVE Busy = {}
BY DEF Busy, Queued

\* schedule_update counts what it queues.
LEMMA ScheduleCounts ==
  ASSUME TypeOK, NEW m \in Maps \ Busy, OneRequestPerMap, PendingExact,
         schedule_update(m), UNCHANGED <<wpc, wmap>>
  PROVE  PendingExact'
<1>1. InHand' = InHand
  BY DEF InHand
<1>2. \/ queue' = queue /\ pending_requests' = pending_requests
      \/ Len(queue') = Len(queue) + 1 /\ pending_requests' = pending_requests + 1
  BY ScheduleMoves
<1>3. Len(queue) \in Nat /\ Cardinality(InHand) \in Nat
  BY InHandFinite DEF TypeOK
<1> QED
  BY <1>1, <1>2, <1>3 DEF PendingExact

-----------------------------------------------------------------------------
(* One lemma for each step that moves a request                             *)

\* A base map given to schedule_update by MapManager::Update keeps the invariant.
LEMMA ScheduleMapIInv ==
  ASSUME IInv, TypeOK', NEW m \in BaseMaps, ScheduleMap(m)
  PROVE  IInv'
<1> USE DEF poolVars, workerVars, mainVars
<1>1. m \in Maps \ Busy /\ m \in todo /\ m \in exists /\ m \notin Instances
  BY MapsAssumption DEF IInv, TodoFresh, ScheduleMap, Maps
<1>2. schedule_update(m) /\ UNCHANGED <<exists, wpc, wmap, wtodo, main, activated>> /\ todo' = todo \ {m}
      /\ main = "schedule" /\ activated
  BY DEF ScheduleMap
<1>3. InHand' = InHand /\ OneRequestPerMap'
  BY <1>1, <1>2, ScheduleMoves DEF IInv
<1>4. Queued' \subseteq Queued \cup {m} /\ Busy' \subseteq Busy \cup {m}
  BY <1>1, <1>2, ScheduleMoves DEF IInv
<1>5. PendingExact'
  BY <1>1, <1>2, ScheduleCounts DEF IInv
<1>6. TodoFresh' /\ Busy' \subseteq exists'
  BY <1>1, <1>2, <1>4 DEF IInv, TodoFresh
<1>7. VisitsFresh'
  <2> SUFFICES ASSUME NEW w \in Workers, wpc[w] = "instances"
               PROVE  wmap[w] \in InstancedMaps /\ wtodo[w] \subseteq (Children(wmap[w]) \cap exists) \ Busy'
    BY <1>2 DEF VisitsFresh, Children
  <2>1. wmap[w] \in InstancedMaps /\ wtodo[w] \subseteq (Children(wmap[w]) \cap exists) \ Busy
    BY DEF IInv, VisitsFresh
  <2>2. m \notin wtodo[w]
    BY <1>1, <2>1 DEF Children
  <2> QED
    BY <2>1, <2>2, <1>4
<1>8. ParentFirst'
  <2> SUFFICES ASSUME NEW i \in Instances, i \in Busy'
               PROVE  /\ Parent[i] \notin todo' \cup Queued'
                      /\ \A w \in Workers : wpc[w] = "update" => wmap[w] # Parent[i]
    BY <1>2 DEF ParentFirst
  <2>1. i \in Busy
    BY <1>1, <1>4
  <2>2. /\ Parent[i] \notin todo \cup Queued
        /\ \A w \in Workers : wpc[w] = "update" => wmap[w] # Parent[i]
    BY <2>1 DEF IInv, ParentFirst
  <2> QED
    BY <1>1, <1>2, <1>4, <2>2
<1>9. WorldThreadAlone' /\ PoolOff' /\ ParentExists'
  BY <1>2 DEF IInv, WorldThreadAlone, PoolOff, ParentExists
<1> QED
  BY <1>3, <1>5, <1>6, <1>7, <1>8, <1>9 DEF IInv

\* What a worker that visits its instances knows about the instance at hand.
LEMMA VisitFacts ==
  ASSUME IInv, NEW w \in Workers, wpc[w] = "instances", NEW i \in wtodo[w]
  PROVE  /\ i \in Instances \cap exists
         /\ i \in Maps \ Busy
         /\ Parent[i] = wmap[w]
         /\ w \in InHand
         /\ Parent[i] \notin todo \cup Queued
         /\ \A v \in InHand : wmap[v] = Parent[i] => v = w
         /\ \A v \in Workers : wpc[v] = "instances" /\ i \in wtodo[v] => v = w
         /\ main \in {"schedule", "wait"}
         /\ activated
<1>1. wtodo[w] \subseteq (Children(wmap[w]) \cap exists) \ Busy
  BY DEF IInv, VisitsFresh
<1>2. i \in Instances \cap exists /\ i \in Maps \ Busy /\ Parent[i] = wmap[w]
  BY <1>1 DEF Children, Maps
<1>3. w \in InHand
  BY DEF InHand
<1>4. wmap[w] \in Busy /\ wmap[w] \notin Queued
  BY <1>3 DEF Busy, IInv, OneRequestPerMap
<1>5. \A v \in InHand : wmap[v] = wmap[w] => v = w
  BY <1>3 DEF IInv, OneRequestPerMap
<1>6. \A v \in Workers : wpc[v] = "instances" /\ i \in wtodo[v] => v = w
  <2> SUFFICES ASSUME NEW v \in Workers, wpc[v] = "instances", i \in wtodo[v]
               PROVE  v = w
    OBVIOUS
  <2>1. v \in InHand
    BY DEF InHand
  <2>2. wtodo[v] \subseteq Children(wmap[v])
    BY DEF IInv, VisitsFresh
  <2>3. Parent[i] = wmap[v]
    BY <2>2 DEF Children
  <2> QED
    BY <1>2, <1>5, <2>1, <2>3
<1>7. wmap[w] \notin todo
  BY <1>4 DEF IInv, TodoFresh
<1>8. main \in {"schedule", "wait"} /\ activated
  BY <1>3 DEF IInv, WorldThreadAlone, PoolOff
<1> QED
  BY <1>2, <1>3, <1>4, <1>5, <1>6, <1>7, <1>8

\* An instance given to schedule_update by MapInstanced::Update keeps the invariant.
LEMMA ScheduleInstanceIInv ==
  ASSUME IInv, TypeOK', NEW w \in Workers, NEW i \in Instances, ScheduleInstance(w, i)
  PROVE  IInv'
<1> USE DEF poolVars, workerVars, mainVars
<1>1. wpc[w] = "instances" /\ i \in wtodo[w]
  BY DEF ScheduleInstance
<1>2. schedule_update(i) /\ UNCHANGED <<exists, wpc, wmap, main, todo, activated>>
  BY DEF ScheduleInstance
<1>3. /\ wtodo'[w] = wtodo[w] \ {i}
      /\ \A v \in Workers \ {w} : wtodo'[v] = wtodo[v]
  BY DEF ScheduleInstance, IInv, TypeOK
<1>4. InHand' = InHand /\ OneRequestPerMap'
  BY <1>1, <1>2, ScheduleMoves, VisitFacts DEF IInv
<1>5. Queued' \subseteq Queued \cup {i} /\ Busy' \subseteq Busy \cup {i}
  BY <1>1, <1>2, ScheduleMoves, VisitFacts DEF IInv
<1>6. PendingExact'
  <2>1. i \in Maps \ Busy
    BY <1>1, VisitFacts
  <2> QED
    BY <2>1, <1>2, ScheduleCounts DEF IInv
<1>7. TodoFresh'
  BY <1>2, <1>5, MapsAssumption DEF IInv, TodoFresh, TypeOK
<1>8. Busy' \subseteq exists'
  BY <1>1, <1>2, <1>5, VisitFacts DEF IInv
<1>9. VisitsFresh'
  <2> SUFFICES ASSUME NEW v \in Workers, wpc[v] = "instances"
               PROVE  wmap[v] \in InstancedMaps /\ wtodo'[v] \subseteq (Children(wmap[v]) \cap exists) \ Busy'
    BY <1>2 DEF VisitsFresh, Children
  <2>1. wmap[v] \in InstancedMaps /\ wtodo[v] \subseteq (Children(wmap[v]) \cap exists) \ Busy
    BY DEF IInv, VisitsFresh
  <2>2. i \notin wtodo'[v] /\ wtodo'[v] \subseteq wtodo[v]
    BY <1>1, <1>3, VisitFacts
  <2> QED
    BY <1>5, <2>1, <2>2
<1>10. ParentFirst'
  <2> SUFFICES ASSUME NEW j \in Instances, j \in Busy'
               PROVE  /\ Parent[j] \notin todo \cup Queued'
                      /\ \A v \in Workers : wpc[v] = "update" => wmap[v] # Parent[j]
    BY <1>2 DEF ParentFirst
  <2>1. Parent[j] # i
    BY MapsAssumption
  <2>2. CASE j \in Busy
    BY <1>5, <2>1, <2>2 DEF IInv, ParentFirst
  <2>3. CASE j = i
    <3>1. Parent[i] \notin todo \cup Queued
      BY <1>1, VisitFacts
    <3>2. ASSUME NEW v \in Workers, wpc[v] = "update" PROVE wmap[v] # Parent[i]
      <4>1. v \in InHand /\ v # w
        BY <1>1, <3>2 DEF InHand
      <4> QED
        BY <1>1, <4>1, VisitFacts
    <3> QED
      BY <1>5, <2>1, <2>3, <3>1, <3>2
  <2> QED
    BY <1>5, <2>2, <2>3
<1>11. WorldThreadAlone' /\ PoolOff' /\ ParentExists'
  BY <1>1, <1>2, VisitFacts DEF IInv, WorldThreadAlone, PoolOff, ParentExists
<1> QED
  BY <1>4, <1>6, <1>7, <1>8, <1>9, <1>10, <1>11 DEF IInv

\* MapInstanced::DestroyInstance on a worker keeps the invariant.
LEMMA DestroyInstanceIInv ==
  ASSUME IInv, TypeOK', NEW w \in Workers, NEW i \in Instances, DestroyInstance(w, i)
  PROVE  IInv'
<1> USE DEF poolVars, workerVars, mainVars
<1>1. wpc[w] = "instances" /\ i \in wtodo[w]
  BY DEF DestroyInstance
<1>2. UNCHANGED <<queue, pending_requests, wpc, wmap, main, todo, activated>>
  BY DEF DestroyInstance
<1>3. /\ wtodo'[w] = wtodo[w] \ {i}
      /\ \A v \in Workers \ {w} : wtodo'[v] = wtodo[v]
  BY DEF DestroyInstance, IInv, TypeOK
<1>4. exists \ {i} \subseteq exists' /\ exists' \subseteq exists
  BY DEF DestroyInstance
<1>5. Queued' = Queued /\ InHand' = InHand /\ Busy' = Busy
  BY <1>2, RequestsUnmoved
<1>6. VisitsFresh'
  <2> SUFFICES ASSUME NEW v \in Workers, wpc[v] = "instances"
               PROVE  wmap[v] \in InstancedMaps /\ wtodo'[v] \subseteq (Children(wmap[v]) \cap exists') \ Busy
    BY <1>2, <1>5 DEF VisitsFresh, Children
  <2>1. wmap[v] \in InstancedMaps /\ wtodo[v] \subseteq (Children(wmap[v]) \cap exists) \ Busy
    BY DEF IInv, VisitsFresh
  <2>2. i \notin wtodo'[v] /\ wtodo'[v] \subseteq wtodo[v]
    BY <1>1, <1>3, VisitFacts
  <2> QED
    BY <1>4, <2>1, <2>2
<1>7. Busy' \subseteq exists' /\ TodoFresh'
  BY <1>1, <1>2, <1>4, <1>5, VisitFacts, MapsAssumption DEF IInv, TodoFresh, TypeOK
<1>8. ParentExists'
  BY <1>4, MapsAssumption DEF IInv, ParentExists
<1>9. ParentFirst' /\ OneRequestPerMap' /\ WorldThreadAlone' /\ PoolOff' /\ PendingExact'
  BY <1>2, <1>5 DEF IInv, ParentFirst, OneRequestPerMap, WorldThreadAlone, PoolOff, PendingExact
<1> QED
  BY <1>6, <1>7, <1>8, <1>9 DEF IInv

\* A worker that takes a request in DelayExecutor::svc keeps the invariant.
LEMMA DequeueIInv ==
  ASSUME IInv, TypeOK', NEW w \in Workers, Dequeue(w)
  PROVE  IInv'
<1> USE DEF poolVars, workerVars, mainVars
<1>1. /\ UNCHANGED <<exists, pending_requests, wtodo, main, todo, activated>>
      /\ wpc'[w] = "update"
      /\ queue # <<>>
      /\ \A v \in Workers \ {w} : wpc'[v] = wpc[v] /\ wmap'[v] = wmap[v]
  BY DEF Dequeue, IInv, TypeOK
<1>2. /\ wmap'[w] \in Queued /\ Queued' = Queued \ {wmap'[w]}
      /\ Len(queue') = Len(queue) - 1
      /\ w \notin InHand /\ InHand' = InHand \cup {w}
      /\ Busy' = Busy
      /\ OneRequestPerMap'
  BY DequeueMoves DEF IInv
<1>3. PendingExact'
  <2>1. Cardinality(InHand') = Cardinality(InHand) + 1
    BY <1>2, InHandFinite, FS_AddElement
  <2> QED
    BY <1>1, <1>2, <2>1, InHandFinite DEF IInv, PendingExact, TypeOK
<1>4. Busy' \subseteq exists' /\ TodoFresh' /\ ParentExists'
  BY <1>1, <1>2 DEF IInv, TodoFresh, ParentExists
<1>5. VisitsFresh'
  BY <1>1, <1>2 DEF IInv, VisitsFresh, Children
<1>6. ParentFirst'
  <2> SUFFICES ASSUME NEW i \in Instances, i \in Busy
               PROVE  /\ Parent[i] \notin todo \cup Queued'
                      /\ \A v \in Workers : wpc'[v] = "update" => wmap'[v] # Parent[i]
    BY <1>1, <1>2 DEF ParentFirst
  <2>1. /\ Parent[i] \notin todo \cup Queued
        /\ \A v \in Workers : wpc[v] = "update" => wmap[v] # Parent[i]
    BY DEF IInv, ParentFirst
  <2> QED
    BY <1>1, <1>2, <2>1
<1>7. WorldThreadAlone' /\ PoolOff'
  BY <1>1 DEF IInv, WorldThreadAlone, PoolOff
<1> QED
  BY <1>2, <1>3, <1>4, <1>5, <1>6, <1>7 DEF IInv

\* MapUpdateRequest::call up to the end of Map::Update keeps the invariant.
LEMMA RunUpdateIInv ==
  ASSUME IInv, TypeOK', NEW w \in Workers, RunUpdate(w) \/ EndInstances(w)
  PROVE  IInv'
<1> USE DEF poolVars, workerVars, mainVars
<1>1. UNCHANGED <<exists, pending_requests, main, todo, activated>>
  BY DEF RunUpdate, EndInstances
<1>2. UNCHANGED <<queue, wmap>> /\ Queued' = Queued /\ InHand' = InHand /\ Busy' = Busy
  BY WorkKeepsHand DEF IInv
<1>3. /\ \A v \in Workers \ {w} : wpc'[v] = wpc[v] /\ wtodo'[v] = wtodo[v]
      /\ wpc'[w] # "update"
      /\ wpc'[w] = "instances" =>
           wpc[w] = "update" /\ wmap[w] \in InstancedMaps /\ wtodo'[w] = Children(wmap[w]) \cap exists
  BY DEF RunUpdate, EndInstances, IInv, TypeOK
<1>4. VisitsFresh'
  <2> SUFFICES ASSUME NEW v \in Workers, wpc'[v] = "instances"
               PROVE  wmap[v] \in InstancedMaps /\ wtodo'[v] \subseteq (Children(wmap[v]) \cap exists) \ Busy
    BY <1>1, <1>2 DEF VisitsFresh, Children
  <2>1. CASE v # w
    BY <1>3, <2>1 DEF IInv, VisitsFresh
  <2>2. CASE v = w
    <3>1. \A i \in Children(wmap[w]) : i \notin Busy
      BY <1>3, <2>2 DEF IInv, ParentFirst, Children
    <3> QED
      BY <1>3, <2>2, <3>1
  <2> QED
    BY <2>1, <2>2
<1>5. ParentFirst'
  BY <1>1, <1>2, <1>3 DEF IInv, ParentFirst
<1>6. OneRequestPerMap' /\ WorldThreadAlone' /\ Busy' \subseteq exists' /\ TodoFresh'
  BY <1>1, <1>2 DEF IInv, OneRequestPerMap, WorldThreadAlone, TodoFresh
<1>7. PoolOff' /\ ParentExists' /\ PendingExact'
  BY <1>1, <1>2 DEF IInv, PoolOff, ParentExists, PendingExact
<1> QED
  BY <1>4, <1>5, <1>6, <1>7 DEF IInv

\* update_finished finds the count it has to take back: the "BUG, report to
\* devs" branch is never entered.
LEMMA FinishCounts ==
  ASSUME IInv, NEW w \in Workers, wpc[w] = "finish"
  PROVE  pending_requests > 0
<1>1. w \in InHand
  BY DEF InHand
<1>2. Cardinality(InHand) # 0
  BY <1>1, InHandFinite, FS_EmptySet
<1>3. Len(queue) \in Nat
  BY DEF IInv, TypeOK
<1> QED
  BY <1>2, <1>3, InHandFinite DEF IInv, PendingExact

\* MapUpdater::update_finished keeps the invariant.
LEMMA FinishIInv ==
  ASSUME IInv, TypeOK', NEW w \in Workers, update_finished(w)
  PROVE  IInv'
<1>1. UNCHANGED <<exists, wtodo, main, todo, activated>>
  BY DEF update_finished
<1>2. /\ UNCHANGED <<queue, wmap>> /\ w \in InHand /\ InHand' = InHand \ {w}
      /\ Queued' = Queued /\ Busy' \subseteq Busy /\ OneRequestPerMap'
  BY FinishMoves DEF IInv
<1>3. /\ wpc'[w] = "dequeue"
      /\ \A v \in Workers \ {w} : wpc'[v] = wpc[v]
  BY DEF update_finished, IInv, TypeOK
<1>4. pending_requests' = pending_requests - 1
  BY FinishCounts DEF update_finished, IInv, TypeOK
<1>5. PendingExact'
  <2>1. Cardinality(InHand') = Cardinality(InHand) - 1
    BY <1>2, InHandFinite, FS_RemoveElement
  <2>2. Len(queue) \in Nat
    BY DEF IInv, TypeOK
  <2> QED
    BY <1>2, <1>4, <2>1, <2>2, InHandFinite DEF IInv, PendingExact
<1>6. VisitsFresh'
  BY <1>1, <1>2, <1>3 DEF IInv, VisitsFresh, Children
<1>7. ParentFirst'
  BY <1>1, <1>2, <1>3 DEF IInv, ParentFirst
<1>8. TodoFresh' /\ Busy' \subseteq exists' /\ ParentExists' /\ WorldThreadAlone' /\ PoolOff'
  BY <1>1, <1>2 DEF IInv, TodoFresh, ParentExists, WorldThreadAlone, PoolOff
<1> QED
  BY <1>2, <1>5, <1>6, <1>7, <1>8 DEF IInv

\* Every step keeps the invariant.
LEMMA NextIInv == IInv /\ [Next]_vars => IInv'
<1> SUFFICES ASSUME IInv, [Next]_vars PROVE IInv'
  OBVIOUS
<1> USE DEF poolVars, workerVars, mainVars
<1>0. TypeOK'
  BY NextTypeOK DEF IInv
<1>1. ASSUME main \notin {"schedule", "wait"}
      PROVE  queue = <<>> /\ InHand = {} /\ Busy = {} /\ todo = {}
  BY <1>1, EmptyBusy DEF IInv, WorldThreadAlone, TodoFresh
<1>2. ASSUME NEW m \in BaseMaps, CreateBaseMap(m) PROVE IInv'
  <2>1. exists' = exists \cup {m} /\ m \notin Instances
    BY <1>2, MapsAssumption DEF CreateBaseMap
  <2>2. ParentExists'
    BY <2>1 DEF IInv, ParentExists
  <2> QED
    BY <1>0, <1>1, <1>2, <2>2, MapsStep DEF CreateBaseMap
<1>3. ASSUME NEW i \in Instances, CreateInstance(i) PROVE IInv'
  <2>1. ParentExists'
    BY <1>3 DEF CreateInstance, IInv, ParentExists
  <2> QED
    BY <1>0, <1>1, <1>3, <2>1, MapsStep DEF CreateInstance
<1>4. ASSUME NEW m \in BaseMaps, UnloadMap(m) PROVE IInv'
  <2>1. exists' = exists \ ({m} \cup Children(m))
    BY <1>4 DEF UnloadMap
  <2>2. ParentExists'
    BY <2>1, MapsAssumption DEF IInv, ParentExists, Children
  <2> QED
    BY <1>0, <1>1, <1>4, <2>2, MapsStep DEF UnloadMap
<1>5. CASE StartTick
  BY <1>0, <1>1, <1>5, PhaseStep DEF StartTick, WorldThreadAlone, PoolOff, IInv, InHand
<1>6. ASSUME NEW m \in BaseMaps, ScheduleMap(m) PROVE IInv'
  BY <1>0, <1>6, ScheduleMapIInv
<1>7. ASSUME NEW m \in BaseMaps, UpdateInPlace(m) PROVE IInv'
  <2>1. queue = <<>> /\ InHand = {} /\ Busy = {}
    BY <1>7, EmptyBusy DEF UpdateInPlace, IInv, PoolOff
  <2>2. UNCHANGED <<queue, pending_requests, wpc, wmap, wtodo, main, activated>>
    BY <1>7 DEF UpdateInPlace
  <2>3. Queued' = Queued /\ InHand' = InHand /\ Busy' = Busy
    BY <2>2, RequestsUnmoved
  <2>4. exists \ Children(m) \subseteq exists' /\ exists' \subseteq exists /\ todo' \subseteq todo
    BY <1>7 DEF UpdateInPlace
  <2>5. VisitsFresh'
    BY <2>1, <2>2 DEF VisitsFresh, InHand
  <2>6. TodoFresh' /\ ParentExists'
    BY <2>1, <2>2, <2>3, <2>4, MapsAssumption DEF IInv, TodoFresh, TypeOK, Children, ParentExists
  <2>7. ParentFirst' /\ Busy' \subseteq exists'
    BY <2>1, <2>3 DEF ParentFirst
  <2>8. OneRequestPerMap' /\ WorldThreadAlone' /\ PoolOff' /\ PendingExact'
    BY <2>2, <2>3 DEF IInv, OneRequestPerMap, WorldThreadAlone, PoolOff, PendingExact
  <2> QED
    BY <1>0, <2>5, <2>6, <2>7, <2>8 DEF IInv
<1>8. CASE EndSchedule
  <2>1. ~activated => queue = <<>> /\ InHand = {}
    BY DEF IInv, PoolOff
  <2> QED
    BY <1>0, <1>8, <2>1, PhaseStep DEF EndSchedule, WorldThreadAlone, PoolOff, InHand
<1>9. CASE WaitBlocks
  BY <1>0, <1>9, PhaseStep DEF WaitBlocks, IInv, TodoFresh, WorldThreadAlone, PoolOff, InHand
<1>10. CASE WaitReturns
  <2>1. queue = <<>> /\ InHand = {}
    BY <1>10, NothingPending DEF WaitReturns, IInv
  <2> QED
    BY <1>0, <1>10, <2>1, PhaseStep DEF WaitReturns, IInv, TodoFresh, WorldThreadAlone, PoolOff, InHand
<1>11. CASE DelayedUpdate \/ StopWorld \/ EndUnload \/ DeactivateExecutor \/ JoinWorkers
  <2>1. main \notin {"schedule", "wait"} /\ main' # "schedule"
    BY <1>11 DEF DelayedUpdate, StopWorld, EndUnload, DeactivateExecutor, JoinWorkers
  <2>2. UNCHANGED <<exists, queue, pending_requests, wpc, wmap, wtodo, todo>>
    BY <1>11 DEF DelayedUpdate, StopWorld, EndUnload, DeactivateExecutor, JoinWorkers
  <2>3. queue' = <<>> /\ InHand' = {} /\ todo' = {}
    BY <1>1, <2>1, <2>2 DEF InHand
  <2> QED
    BY <1>0, <2>1, <2>2, <2>3, PhaseStep DEF WorldThreadAlone, PoolOff
<1>12. CASE UNCHANGED vars
  <2>1. UNCHANGED <<exists, queue, pending_requests, wpc, wmap, wtodo, main, todo, activated>>
    BY <1>12 DEF vars
  <2>2. WorldThreadAlone' /\ PoolOff'
    BY <2>1 DEF IInv, WorldThreadAlone, PoolOff, InHand
  <2> QED
    BY <1>0, <2>1, <2>2, PhaseStep DEF IInv, TodoFresh
<1>13. ASSUME NEW w \in Workers, Worker(w) PROVE IInv'
  <2>1. CASE LeaveService(w)
    <3>1. UNCHANGED <<exists, queue, pending_requests, wmap, wtodo, main, todo, activated>>
      BY <2>1 DEF LeaveService
    <3>2. InHand' = InHand
      BY <2>1 DEF LeaveService, InHand, IInv, TypeOK
    <3>3. Queued' = Queued /\ Busy' = Busy
      BY <3>1, <3>2 DEF Queued, Busy
    <3>4. \A v \in Workers : wpc'[v] \in {"instances", "update"} => wpc'[v] = wpc[v]
      BY <2>1 DEF LeaveService, IInv, TypeOK
    <3>5. VisitsFresh' /\ ParentFirst'
      BY <3>1, <3>3, <3>4 DEF IInv, VisitsFresh, ParentFirst, Children
    <3> QED
      BY <1>0, <3>1, <3>2, <3>3, <3>5
      DEF IInv, OneRequestPerMap, WorldThreadAlone, TodoFresh, PoolOff, ParentExists, PendingExact
  <2> QED
    BY <1>0, <1>13, <2>1, DequeueIInv, RunUpdateIInv, FinishIInv, ScheduleInstanceIInv, DestroyInstanceIInv DEF Worker
<1> QED
  BY <1>2, <1>3, <1>4, <1>5, <1>6, <1>7, <1>8, <1>9, <1>10, <1>11, <1>12, <1>13
  DEF Next, MainIdles, MainUpdates, MainStops, Terminated

\* The inductive invariant holds in every reachable state.
THEOREM Inductive == Spec => []IInv
BY InitIInv, NextIInv, PTL DEF Spec

\* For any pool, any set of maps and any high water mark, pending_requests is
\* the number of requests queued or running: MapUpdater::wait returns exactly
\* when the last of them has called update_finished.
THEOREM PendingIsExact == Spec => []PendingExact
<1>1. IInv => PendingExact
  BY DEF IInv
<1> QED
  BY <1>1, Inductive, PTL

\* No request or visit ever refers to a deleted Map.
THEOREM RequestsAreLive == Spec => []NoDanglingRequest
<1>1. IInv => NoDanglingRequest
  <2> SUFFICES ASSUME IInv PROVE NoDanglingRequest
    OBVIOUS
  <2>1. Queued \subseteq exists /\ \A w \in InHand : wmap[w] \in exists
    BY DEF IInv, Busy
  <2>2. \A w \in InHand : wpc[w] = "instances" => wtodo[w] \subseteq exists
    BY DEF IInv, VisitsFresh, InHand
  <2> QED
    BY <2>1, <2>2 DEF NoDanglingRequest
<1> QED
  BY <1>1, Inductive, PTL

\* No Map is ever updated by two threads, or scheduled twice, at a time.
THEOREM OneUpdateAtATime == Spec => []OneRequestPerMap
<1>1. IInv => OneRequestPerMap
  BY DEF IInv
<1> QED
  BY <1>1, Inductive, PTL

\* Outside MapManager::Update's schedule/wait window no worker has a map.
THEOREM WorldThreadHasMaps == Spec => []WorldThreadAlone
<1>1. IInv => WorldThreadAlone
  BY DEF IInv
<1> QED
  BY <1>1, Inductive, PTL

-----------------------------------------------------------------------------
(* No map is forgotten by a tick                                            *)

\* Every step of a tick leaves no map behind that would never be updated.
LEMMA NextNoneForgotten == IInv /\ NoneForgotten /\ [Next]_vars => NoneForgotten'
<1> SUFFICES ASSUME IInv, NoneForgotten, [Next]_vars,
                    main' \in {"schedule", "wait", "delayed"},
                    NEW m \in exists'
             PROVE  \/ m \in updated' \cup refused' \cup kept' \cup Ahead'
                    \/ m \in Instances /\ Parent[m] \in refused' \cup Ahead'
                    \/ \E w \in Workers : wpc'[w] = "instances" /\ m \in wtodo'[w]
  BY DEF NoneForgotten
<1> DEFINE Old == \/ m \in updated \cup refused \cup kept \cup Ahead
                  \/ m \in Instances /\ Parent[m] \in refused \cup Ahead
                  \/ \E w \in Workers : wpc[w] = "instances" /\ m \in wtodo[w]
<1> DEFINE New == \/ m \in updated' \cup refused' \cup kept' \cup Ahead'
                  \/ m \in Instances /\ Parent[m] \in refused' \cup Ahead'
                  \/ \E w \in Workers : wpc'[w] = "instances" /\ m \in wtodo'[w]
<1> SUFFICES New
  OBVIOUS
<1> HIDE DEF New, Old
<1> USE DEF poolVars, workerVars, mainVars
<1>1. ASSUME main \in {"schedule", "wait", "delayed"}, m \in exists PROVE Old
  BY <1>1 DEF NoneForgotten, Old
<1>2. CASE StartTick
  <2>1. todo' = exists \cap BaseMaps /\ exists' = exists
    BY <1>2 DEF StartTick
  <2>2. todo' \subseteq Ahead'
    BY DEF Ahead
  <2>3. m \in Instances => Parent[m] \in exists \cap BaseMaps
    BY <2>1, MapsAssumption DEF IInv, ParentExists
  <2> QED
    BY <2>1, <2>2, <2>3 DEF New, IInv, TypeOK, Maps
<1>3. ASSUME NEW b \in BaseMaps, ScheduleMap(b) PROVE New
  <2>1. b \in Maps \ Busy /\ schedule_update(b)
        /\ UNCHANGED <<exists, wpc, wmap, wtodo, updated, kept>>
        /\ todo' = todo \ {b} /\ main = "schedule"
    BY <1>3 DEF ScheduleMap, IInv, TodoFresh, Maps
  <2>2. refused \subseteq refused' /\ Queued \subseteq Queued'
        /\ (b \in refused' \/ b \in Queued')
    BY <2>1, ScheduleMoves DEF IInv
  <2>3. Ahead \subseteq Ahead' \cup refused'
    BY <2>1, <2>2 DEF Ahead
  <2> QED
    BY <1>1, <2>1, <2>2, <2>3 DEF New, Old
<1>4. ASSUME NEW b \in BaseMaps, UpdateInPlace(b) PROVE New
  <2>1. main = "schedule" /\ queue = <<>> /\ InHand = {} /\ b \in todo
    BY <1>4 DEF UpdateInPlace, IInv, PoolOff
  <2>2. Ahead = todo /\ Ahead' = todo \ {b}
    BY <1>4, <2>1 DEF UpdateInPlace, Ahead, Queued, InHand
  <2>3. \A w \in Workers : wpc[w] # "instances"
    BY <2>1 DEF InHand
  <2>4. refused' = refused /\ updated \cup {b} \subseteq updated' /\ kept \subseteq kept' /\ exists' \subseteq exists
    BY <1>4 DEF UpdateInPlace
  <2>5. m \in Children(b) => m \in updated' \cup kept'
    BY <1>4 DEF UpdateInPlace
  <2>6. m \in Instances => (Parent[m] = b <=> m \in Children(b))
    BY DEF Children
  <2> QED
    BY <1>1, <2>1, <2>2, <2>3, <2>4, <2>5, <2>6 DEF New, Old
<1>5. CASE EndSchedule \/ WaitBlocks \/ WaitReturns \/ DelayedUpdate \/ StopWorld \/ EndUnload \/ JoinWorkers
  <2>1. UNCHANGED <<exists, queue, wpc, wmap, wtodo, todo, updated, refused, kept>>
    BY <1>5 DEF EndSchedule, WaitBlocks, WaitReturns, DelayedUpdate, StopWorld, EndUnload, JoinWorkers
  <2>2. main \in {"schedule", "wait", "delayed"}
    BY <1>5 DEF EndSchedule, WaitBlocks, WaitReturns, DelayedUpdate, StopWorld, EndUnload, JoinWorkers
  <2>3. Ahead' = Ahead
    BY <2>1 DEF Ahead, Queued
  <2> QED
    BY <1>1, <2>1, <2>2, <2>3 DEF New, Old
<1>6. CASE DeactivateExecutor \/ (\E b \in BaseMaps : CreateBaseMap(b) \/ UnloadMap(b))
           \/ (\E i \in Instances : CreateInstance(i))
  BY <1>6 DEF DeactivateExecutor, CreateBaseMap, UnloadMap, CreateInstance
<1>7. CASE UNCHANGED vars
  <2>1. UNCHANGED <<exists, queue, wpc, wmap, wtodo, todo, updated, refused, kept, main>>
    BY <1>7 DEF vars
  <2>2. Ahead' = Ahead
    BY <2>1 DEF Ahead, Queued
  <2> QED
    BY <1>1, <2>1, <2>2 DEF New, Old
<1>8. ASSUME NEW w \in Workers, Dequeue(w) PROVE New
  <2>1. /\ UNCHANGED <<exists, wtodo, todo, updated, refused, kept, main>>
        /\ wpc'[w] = "update" /\ wpc[w] = "dequeue"
        /\ \A v \in Workers \ {w} : wpc'[v] = wpc[v] /\ wmap'[v] = wmap[v]
    BY <1>8 DEF Dequeue, IInv, TypeOK
  <2>2. Queued' = Queued \ {wmap'[w]}
    BY <1>8, DequeueMoves DEF IInv
  <2>3. Ahead \subseteq Ahead'
    BY <2>1, <2>2 DEF Ahead
  <2> QED
    BY <1>1, <2>1, <2>3 DEF New, Old
<1>9. ASSUME NEW w \in Workers, RunUpdate(w) PROVE New
  <2>1. /\ UNCHANGED <<exists, queue, wmap, todo, refused, kept, main>>
        /\ wpc[w] = "update" /\ updated' = updated \cup {wmap[w]}
        /\ \A v \in Workers \ {w} : wpc'[v] = wpc[v] /\ wtodo'[v] = wtodo[v]
        /\ wmap[w] \in InstancedMaps =>
             wpc'[w] = "instances" /\ wtodo'[w] = Children(wmap[w]) \cap exists
    BY <1>9 DEF RunUpdate, IInv, TypeOK
  <2>2. Queued' = Queued
    BY <2>1 DEF Queued
  <2>3. Ahead \subseteq Ahead' \cup {wmap[w]}
    BY <2>1, <2>2 DEF Ahead
  <2>4. m \in Instances /\ Parent[m] = wmap[w] => m \in Children(wmap[w]) /\ wmap[w] \in InstancedMaps
    BY MapsAssumption DEF Children
  <2> QED
    BY <1>1, <2>1, <2>3, <2>4 DEF New, Old
<1>10. ASSUME NEW w \in Workers, NEW i \in Instances, ScheduleInstance(w, i) PROVE New
  <2>1. /\ UNCHANGED <<exists, wpc, wmap, todo, updated, kept, main>>
        /\ wpc[w] = "instances" /\ i \in wtodo[w]
        /\ wtodo'[w] = wtodo[w] \ {i}
        /\ \A v \in Workers \ {w} : wtodo'[v] = wtodo[v]
        /\ schedule_update(i)
    BY <1>10 DEF ScheduleInstance, IInv, TypeOK
  <2>2. i \in Maps \ Busy
    BY <2>1, VisitFacts
  <2>3. refused \subseteq refused' /\ Queued \subseteq Queued'
        /\ (i \in refused' \/ i \in Queued')
    BY <2>1, <2>2, ScheduleMoves DEF IInv
  <2>4. Ahead \subseteq Ahead' /\ (i \in refused' \/ i \in Ahead')
    BY <2>1, <2>3 DEF Ahead
  <2> QED
    BY <1>1, <2>1, <2>3, <2>4 DEF New, Old
<1>11. ASSUME NEW w \in Workers, NEW i \in Instances, DestroyInstance(w, i) PROVE New
  <2>1. /\ UNCHANGED <<queue, wpc, wmap, todo, updated, refused, main>>
        /\ wtodo'[w] = wtodo[w] \ {i}
        /\ \A v \in Workers \ {w} : wtodo'[v] = wtodo[v]
    BY <1>11 DEF DestroyInstance, IInv, TypeOK
  <2>2. exists' \subseteq exists /\ kept \subseteq kept' /\ (i \notin exists' \/ i \in kept')
    BY <1>11 DEF DestroyInstance
  <2>3. Ahead' = Ahead
    BY <2>1 DEF Ahead, Queued
  <2> QED
    BY <1>1, <2>1, <2>2, <2>3 DEF New, Old
<1>12. ASSUME NEW w \in Workers, EndInstances(w) \/ LeaveService(w) \/ update_finished(w) PROVE New
  <2>1. /\ UNCHANGED <<exists, queue, wmap, wtodo, todo, updated, refused, kept, main>>
        /\ wpc[w] # "update" /\ (wpc[w] = "instances" => wtodo[w] = {})
        /\ \A v \in Workers \ {w} : wpc'[v] = wpc[v]
    BY <1>12 DEF EndInstances, LeaveService, update_finished, IInv, TypeOK
  <2>2. Ahead \subseteq Ahead'
    BY <2>1 DEF Ahead, Queued
  <2> QED
    BY <1>1, <2>1, <2>2 DEF New, Old
<1> QED
  BY <1>2, <1>3, <1>4, <1>5, <1>6, <1>7, <1>8, <1>9, <1>10, <1>11, <1>12
  DEF Next, MainIdles, MainUpdates, MainStops, Worker, Terminated

\* When the tick's wait() has returned, every map has been updated, unless
\* its request or its parent's was refused at the high water mark, or
\* DestroyInstance could not empty it: no interleaving of the pool loses a map.
THEOREM TickIsComplete == Spec => []TickComplete
<1>1. Init => NoneForgotten
  BY DEF Init, NoneForgotten
<1>2. IInv /\ NoneForgotten => TickComplete
  <2> SUFFICES ASSUME IInv, NoneForgotten, main = "delayed" PROVE TickComplete
    BY DEF TickComplete
  <2>1. queue = <<>> /\ InHand = {} /\ todo = {}
    BY DEF IInv, WorldThreadAlone, TodoFresh
  <2>2. Ahead = {} /\ \A w \in Workers : wpc[w] # "instances"
    BY <2>1 DEF Ahead, InHand, Queued
  <2> QED
    BY <2>2 DEF NoneForgotten, TickComplete
<1> QED
  BY <1>1, <1>2, Inductive, NextNoneForgotten, PTL DEF Spec

-----------------------------------------------------------------------------
(* The atomic tick                                                          *)

\* Maps that have had their turn in the running tick.
Settled == updated \cup refused \cup kept

\* A base map that is still ahead was not refused, and none of its instances
\* has had its turn.
AheadUnsettled == \A m \in BaseMaps \cap Ahead : m \notin refused /\ Children(m) \cap Settled = {}

\* The instances a worker still has to visit have not had their turn, while
\* their MapInstanced has had it.
VisitsUnsettled ==
  \A w \in Workers : wpc[w] = "instances" =>
    wmap[w] \in updated \ refused /\ wtodo[w] \cap Settled = {}

\* An instance has a request only when its MapInstanced has been updated.
ParentUpdated == \A i \in Instances \cap Busy : Parent[i] \in updated

\* The pool is drained after the last map is deleted.
AllUnloaded == main \in {"drain", "join", "done"} => exists = {}

TickFresh == AheadUnsettled /\ VisitsUnsettled /\ ParentUpdated /\ AllUnloaded

\* Nothing has its turn twice while nothing is queued, running or to be scheduled.
LEMMA QuietFresh ==
  ASSUME Ahead = {}, InHand = {}, Busy = {}
  PROVE  AheadUnsettled /\ VisitsUnsettled /\ ParentUpdated
BY DEF AheadUnsettled, VisitsUnsettled, ParentUpdated, InHand

\* With an empty queue, idle workers and no base map to schedule nothing is ahead.
LEMMA EmptyAhead ==
  ASSUME queue = <<>>, InHand = {}, todo = {}
  PROVE  Ahead = {} /\ Busy = {}
BY EmptyBusy DEF Ahead, Queued, InHand

\* A base map given to schedule_update stays ahead, or has its turn by being refused.
LEMMA FreshScheduleMap ==
  ASSUME IInv, TickFresh, NEW m \in BaseMaps, ScheduleMap(m)
  PROVE  AheadUnsettled' /\ VisitsUnsettled' /\ ParentUpdated'
<1> USE DEF poolVars, workerVars, mainVars
<1>1. m \in Maps \ Busy /\ schedule_update(m) /\ m \in todo /\ todo' = todo \ {m}
      /\ UNCHANGED <<wpc, wmap, wtodo, updated, kept>>
  BY DEF ScheduleMap, IInv, TodoFresh, Maps
<1>2. /\ InHand' = InHand
      /\ \/ Queued' = Queued /\ Busy' = Busy /\ refused' = refused \cup {m}
         \/ Queued' = Queued \cup {m} /\ Busy' = Busy \cup {m} /\ refused' = refused
  BY <1>1, ScheduleMoves DEF IInv
<1>3. m \notin Instances /\ \A b \in BaseMaps : m \notin Children(b)
  BY MapsAssumption DEF Children
<1>4. m \notin Queued /\ \A v \in InHand : wmap[v] # m
  BY <1>1 DEF Busy
<1>5. \/ Ahead' = Ahead \ {m} /\ refused' = refused \cup {m}
      \/ Ahead' = Ahead /\ refused' = refused
  BY <1>1, <1>2, <1>4 DEF Ahead, InHand
<1>6. AheadUnsettled'
  <2> SUFFICES ASSUME NEW b \in BaseMaps \cap Ahead'
               PROVE  b \notin refused' /\ Children(b) \cap Settled' = {}
    BY DEF AheadUnsettled, Children
  <2>1. b \notin refused /\ Children(b) \cap Settled = {} /\ (b = m => refused' = refused)
    BY <1>5 DEF TickFresh, AheadUnsettled
  <2> QED
    BY <1>1, <1>3, <1>5, <2>1 DEF Settled
<1>7. VisitsUnsettled'
  <2> SUFFICES ASSUME NEW v \in Workers, wpc[v] = "instances"
               PROVE  wmap[v] \in updated \ refused' /\ wtodo[v] \cap Settled' = {}
    BY <1>1 DEF VisitsUnsettled
  <2>1. v \in InHand
    BY DEF InHand
  <2>2. wmap[v] \in updated \ refused /\ wtodo[v] \cap Settled = {} /\ wtodo[v] \subseteq Instances
    BY DEF TickFresh, VisitsUnsettled, IInv, TypeOK
  <2> QED
    BY <1>1, <1>3, <1>4, <1>5, <2>1, <2>2 DEF Settled
<1>8. ParentUpdated'
  BY <1>1, <1>2, <1>3 DEF TickFresh, ParentUpdated
<1> QED
  BY <1>6, <1>7, <1>8

\* Without a pool a map and its instances have their turn together.
LEMMA FreshInPlace ==
  ASSUME IInv, TickFresh, NEW m \in BaseMaps, UpdateInPlace(m)
  PROVE  AheadUnsettled' /\ VisitsUnsettled' /\ ParentUpdated'
<1> USE DEF poolVars, workerVars, mainVars
<1>1. queue = <<>> /\ InHand = {} /\ m \in todo
  BY DEF UpdateInPlace, IInv, PoolOff
<1>2. UNCHANGED <<queue, refused, wpc, wmap>> /\ todo' = todo \ {m}
  BY DEF UpdateInPlace
<1>3. InHand' = {} /\ Busy' = {}
  BY <1>1, <1>2, EmptyBusy, RequestsUnmoved
<1>4. Ahead' \subseteq Ahead \ {m}
  BY <1>1, <1>2 DEF Ahead, Queued, InHand
<1>5. updated' \cup kept' \subseteq updated \cup kept \cup {m} \cup Children(m)
  BY DEF UpdateInPlace
<1>6. AheadUnsettled'
  <2> SUFFICES ASSUME NEW b \in BaseMaps \cap Ahead'
               PROVE  b \notin refused' /\ Children(b) \cap Settled' = {}
    BY DEF AheadUnsettled, Children
  <2>1. b \notin refused /\ Children(b) \cap Settled = {} /\ b # m
    BY <1>4 DEF TickFresh, AheadUnsettled
  <2>2. Children(b) \cap ({m} \cup Children(m)) = {}
    BY <2>1, MapsAssumption DEF Children
  <2> QED
    BY <1>2, <1>5, <2>1, <2>2 DEF Settled
<1>7. VisitsUnsettled' /\ ParentUpdated'
  BY <1>3 DEF VisitsUnsettled, ParentUpdated, InHand
<1> QED
  BY <1>6, <1>7

\* Map::Update of a request: its own map has its turn, its instances become visits.
LEMMA FreshRunUpdate ==
  ASSUME IInv, TickFresh, NEW w \in Workers, RunUpdate(w)
  PROVE  AheadUnsettled' /\ VisitsUnsettled' /\ ParentUpdated'
<1> USE DEF poolVars, workerVars, mainVars
<1>1. /\ UNCHANGED <<queue, wmap, todo, refused, kept>>
      /\ wpc[w] = "update" /\ updated' = updated \cup {wmap[w]}
      /\ \A v \in Workers \ {w} : wpc'[v] = wpc[v] /\ wtodo'[v] = wtodo[v]
      /\ wpc'[w] \in {"instances", "finish"}
      /\ wpc'[w] = "instances" => wmap[w] \in InstancedMaps /\ wtodo'[w] \subseteq Children(wmap[w])
  BY DEF RunUpdate, IInv, TypeOK
<1>2. InHand' = InHand /\ Queued' = Queued /\ Busy' = Busy
  BY WorkKeepsHand DEF IInv
<1>3. w \in InHand /\ wmap[w] \in Busy /\ wmap[w] \in Ahead
  BY <1>1 DEF InHand, Busy, Ahead
<1>4. Ahead' \subseteq Ahead
  BY <1>1, <1>2 DEF Ahead
<1>5. AheadUnsettled'
  <2> SUFFICES ASSUME NEW b \in BaseMaps \cap Ahead'
               PROVE  b \notin refused' /\ Children(b) \cap Settled' = {}
    BY DEF AheadUnsettled, Children
  <2>1. b \notin refused /\ Children(b) \cap Settled = {}
    BY <1>4 DEF TickFresh, AheadUnsettled
  <2>2. wmap[w] \notin Children(b)
    <3>1. b \in Ahead
      BY <1>4
    <3> QED
      BY <1>3, <3>1 DEF IInv, ParentFirst, Children, Ahead
  <2> QED
    BY <1>1, <2>1, <2>2 DEF Settled
<1>6. VisitsUnsettled'
  <2> SUFFICES ASSUME NEW v \in Workers, wpc'[v] = "instances"
               PROVE  wmap[v] \in updated' \ refused' /\ wtodo'[v] \cap Settled' = {}
    BY <1>1 DEF VisitsUnsettled
  <2>1. CASE v # w
    <3>1. wpc[v] = "instances" /\ wtodo'[v] = wtodo[v]
      BY <1>1, <2>1
    <3>2. wmap[v] \in updated \ refused /\ wtodo[v] \cap Settled = {} /\ wmap[w] \notin wtodo[v]
      BY <1>3, <3>1 DEF TickFresh, VisitsUnsettled, IInv, VisitsFresh
    <3> QED
      BY <1>1, <3>1, <3>2 DEF Settled
  <2>2. CASE v = w
    <3>1. wmap[w] \in BaseMaps \cap Ahead /\ wtodo'[w] \subseteq Children(wmap[w])
      BY <1>1, <1>3, <2>2, MapsAssumption
    <3>2. wmap[w] \notin refused /\ Children(wmap[w]) \cap Settled = {}
      BY <3>1 DEF TickFresh, AheadUnsettled
    <3>3. wmap[w] \notin Children(wmap[w])
      BY <3>1, MapsAssumption DEF Children
    <3> QED
      BY <1>1, <2>2, <3>1, <3>2, <3>3 DEF Settled
  <2> QED
    BY <2>1, <2>2
<1>7. ParentUpdated'
  BY <1>1, <1>2 DEF TickFresh, ParentUpdated
<1> QED
  BY <1>5, <1>6, <1>7

\* An instance visited by a worker has its turn, or a request of its own.
LEMMA FreshVisit ==
  ASSUME IInv, TickFresh, NEW w \in Workers, NEW i \in Instances,
         ScheduleInstance(w, i) \/ DestroyInstance(w, i)
  PROVE  AheadUnsettled' /\ VisitsUnsettled' /\ ParentUpdated'
<1> USE DEF poolVars, workerVars, mainVars
<1>1. /\ UNCHANGED <<wpc, wmap, todo, updated>>
      /\ wpc[w] = "instances" /\ i \in wtodo[w] /\ wtodo'[w] = wtodo[w] \ {i}
      /\ \A v \in Workers \ {w} : wtodo'[v] = wtodo[v]
  BY DEF ScheduleInstance, DestroyInstance, IInv, TypeOK
<1>2. /\ i \in Maps \ Busy /\ Parent[i] = wmap[w] /\ Parent[i] \notin todo \cup Queued
      /\ w \in InHand /\ \A v \in InHand : wmap[v] = Parent[i] => v = w
      /\ \A v \in Workers : wpc[v] = "instances" /\ i \in wtodo[v] => v = w
  BY <1>1, VisitFacts
<1>3. /\ InHand' = InHand /\ Queued' \subseteq Queued \cup {i} /\ Busy' \subseteq Busy \cup {i}
      /\ refused' \subseteq refused \cup {i} /\ kept' \subseteq kept \cup {i}
  <2>1. CASE ScheduleInstance(w, i)
    <3>1. schedule_update(i) /\ UNCHANGED <<wpc, wmap, kept>>
      BY <2>1 DEF ScheduleInstance
    <3> QED
      BY <1>2, <3>1, ScheduleMoves DEF IInv
  <2>2. CASE DestroyInstance(w, i)
    <3>1. UNCHANGED <<queue, wpc, wmap, refused>> /\ kept' \subseteq kept \cup {i}
      BY <2>2 DEF DestroyInstance
    <3> QED
      BY <3>1, RequestsUnmoved
  <2> QED
    BY <2>1, <2>2
<1>4. Ahead' \subseteq Ahead \cup {i}
  BY <1>1, <1>3 DEF Ahead
<1>5. Settled' \subseteq Settled \cup {i} /\ i \notin BaseMaps
  BY <1>1, <1>3, MapsAssumption DEF Settled
<1>6. wmap[w] \notin Ahead
  <2>1. \A v \in Workers : wpc[v] = "update" => v \in InHand /\ v # w
    BY <1>1 DEF InHand
  <2> QED
    BY <1>2, <2>1 DEF Ahead
<1>7. AheadUnsettled'
  <2> SUFFICES ASSUME NEW b \in BaseMaps \cap Ahead'
               PROVE  b \notin refused' /\ Children(b) \cap Settled' = {}
    BY DEF AheadUnsettled, Children
  <2>1. b \in Ahead /\ b # i
    BY <1>4, <1>5
  <2>2. b \notin refused /\ Children(b) \cap Settled = {}
    BY <2>1 DEF TickFresh, AheadUnsettled
  <2>3. i \notin Children(b)
    BY <1>2, <1>6, <2>1 DEF Children
  <2> QED
    BY <1>3, <1>5, <2>1, <2>2, <2>3
<1>8. VisitsUnsettled'
  <2> SUFFICES ASSUME NEW v \in Workers, wpc[v] = "instances"
               PROVE  wmap[v] \in updated \ refused' /\ wtodo'[v] \cap Settled' = {}
    BY <1>1 DEF VisitsUnsettled
  <2>1. wmap[v] \in updated \ refused /\ wtodo[v] \cap Settled = {} /\ wmap[v] \in BaseMaps
    BY MapsAssumption DEF TickFresh, VisitsUnsettled, IInv, VisitsFresh
  <2>2. i \notin wtodo'[v] /\ wtodo'[v] \subseteq wtodo[v]
    BY <1>1, <1>2
  <2> QED
    BY <1>3, <1>5, <2>1, <2>2
<1>9. ParentUpdated'
  <2>1. wmap[w] \in updated
    BY <1>1 DEF TickFresh, VisitsUnsettled
  <2> QED
    BY <1>1, <1>2, <1>3, <2>1 DEF TickFresh, ParentUpdated
<1> QED
  BY <1>7, <1>8, <1>9

\* Taking a request, ending the visits, finishing and leaving give no map its turn.
LEMMA FreshRest ==
  ASSUME IInv, TickFresh, NEW w \in Workers,
         Dequeue(w) \/ EndInstances(w) \/ update_finished(w) \/ LeaveService(w)
  PROVE  AheadUnsettled' /\ VisitsUnsettled' /\ ParentUpdated'
<1> USE DEF poolVars, workerVars, mainVars
<1>1. UNCHANGED <<wtodo, todo, updated, refused, kept>>
  BY DEF Dequeue, EndInstances, update_finished, LeaveService
<1>2. /\ \A v \in Workers \ {w} : wpc'[v] = wpc[v] /\ wmap'[v] = wmap[v]
      /\ wpc'[w] # "instances"
  BY DEF Dequeue, EndInstances, update_finished, LeaveService, IInv, TypeOK
<1>3. Busy' \subseteq Busy /\ Ahead' \subseteq Ahead
  <2>1. CASE Dequeue(w)
    <3>1. wmap'[w] \in Queued /\ Queued' \subseteq Queued /\ Busy' = Busy
      BY <2>1, DequeueMoves DEF IInv
    <3> QED
      BY <1>1, <1>2, <3>1 DEF Ahead
  <2>2. CASE ~Dequeue(w)
    <3>1. UNCHANGED <<queue, wmap>> /\ wpc'[w] # "update"
      BY <2>2 DEF EndInstances, update_finished, LeaveService, IInv, TypeOK
    <3>2. Queued' = Queued
      BY <3>1 DEF Queued
    <3>3. InHand' \subseteq InHand
      BY <1>2, <2>2 DEF EndInstances, update_finished, LeaveService, IInv, TypeOK, InHand
    <3> QED
      BY <1>1, <1>2, <3>1, <3>2, <3>3 DEF Ahead, Busy
  <2> QED
    BY <2>1, <2>2
<1>4. Settled' = Settled
  BY <1>1 DEF Settled
<1>5. AheadUnsettled'
  BY <1>1, <1>3, <1>4 DEF TickFresh, AheadUnsettled, Children
<1>6. VisitsUnsettled'
  BY <1>1, <1>2, <1>4 DEF TickFresh, VisitsUnsettled
<1>7. ParentUpdated'
  BY <1>1, <1>3 DEF TickFresh, ParentUpdated
<1> QED
  BY <1>5, <1>6, <1>7

\* Every step keeps the turns of the running tick apart.
LEMMA NextTickFresh == IInv /\ TickFresh /\ [Next]_vars => TickFresh'
<1> SUFFICES ASSUME IInv, TickFresh, [Next]_vars PROVE TickFresh'
  OBVIOUS
<1> USE DEF poolVars, workerVars, mainVars
<1>1. ASSUME main \notin {"schedule", "wait"}
      PROVE  queue = <<>> /\ InHand = {} /\ todo = {}
  BY <1>1 DEF IInv, WorldThreadAlone, TodoFresh
<1>2. CASE (\E m \in BaseMaps : CreateBaseMap(m) \/ UnloadMap(m))
           \/ (\E i \in Instances : CreateInstance(i))
           \/ StopWorld \/ EndUnload \/ DeactivateExecutor \/ JoinWorkers \/ DelayedUpdate
  <2>1. main \notin {"schedule", "wait"} /\ UNCHANGED <<queue, wpc, wmap, todo>>
    BY <1>2 DEF CreateBaseMap, UnloadMap, CreateInstance, StopWorld, EndUnload,
                DeactivateExecutor, JoinWorkers, DelayedUpdate
  <2>2. queue' = <<>> /\ InHand' = {} /\ todo' = {}
    BY <1>1, <2>1, RequestsUnmoved
  <2>3. Ahead' = {} /\ Busy' = {}
    BY <2>2 DEF Ahead, Busy, Queued, InHand
  <2>4. AheadUnsettled' /\ VisitsUnsettled' /\ ParentUpdated'
    BY <2>2, <2>3 DEF AheadUnsettled, VisitsUnsettled, ParentUpdated, InHand
  <2>5. AllUnloaded'
    <3>1. CASE EndUnload
      <4>1. exists' = exists /\ exists \cap BaseMaps = {}
        BY <3>1 DEF EndUnload
      <4>2. \A i \in Instances : i \notin exists
        BY <4>1, MapsAssumption DEF IInv, ParentExists
      <4> QED
        BY <4>1, <4>2 DEF AllUnloaded, IInv, TypeOK, Maps
    <3>2. CASE DeactivateExecutor \/ JoinWorkers
      BY <3>2 DEF DeactivateExecutor, JoinWorkers, TickFresh, AllUnloaded
    <3>3. CASE ~EndUnload /\ ~DeactivateExecutor /\ ~JoinWorkers
      BY <1>2, <3>3 DEF CreateBaseMap, UnloadMap, CreateInstance, StopWorld, DelayedUpdate, AllUnloaded
    <3> QED
      BY <3>1, <3>2, <3>3
  <2> QED
    BY <2>4, <2>5 DEF TickFresh
<1>3. CASE StartTick
  <2>1. UNCHANGED <<queue, wpc, wmap>> /\ Settled' = {} /\ refused' = {} /\ main' = "schedule"
    BY <1>3 DEF StartTick, Settled
  <2>2. InHand' = {} /\ Busy' = {}
    BY <1>1, <1>3, <2>1, EmptyBusy, RequestsUnmoved DEF StartTick
  <2> QED
    BY <2>1, <2>2 DEF TickFresh, AheadUnsettled, VisitsUnsettled, ParentUpdated, AllUnloaded, InHand
<1>4. CASE EndSchedule \/ WaitBlocks \/ WaitReturns \/ UNCHANGED vars
  <2>1. UNCHANGED <<exists, queue, wpc, wmap, wtodo, todo, updated, refused, kept>>
    BY <1>4 DEF EndSchedule, WaitBlocks, WaitReturns, vars
  <2>2. InHand' = InHand /\ Queued' = Queued /\ Busy' = Busy /\ Settled' = Settled
    BY <2>1, RequestsUnmoved DEF Settled
  <2>3. Ahead' = Ahead
    BY <2>1, <2>2 DEF Ahead
  <2>4. main' = main \/ main' \in {"wait", "delayed"}
    BY <1>4 DEF EndSchedule, WaitBlocks, WaitReturns, vars
  <2> QED
    BY <2>1, <2>2, <2>3, <2>4
    DEF TickFresh, AheadUnsettled, VisitsUnsettled, ParentUpdated, AllUnloaded, Children
<1>5. ASSUME NEW m \in BaseMaps, ScheduleMap(m) \/ UpdateInPlace(m) PROVE TickFresh'
  <2>1. main' = "schedule"
    BY <1>5 DEF ScheduleMap, UpdateInPlace
  <2> QED
    BY <1>5, <2>1, FreshScheduleMap, FreshInPlace DEF TickFresh, AllUnloaded
<1>6. ASSUME NEW w \in Workers, Worker(w) PROVE TickFresh'
  <2>1. main' = main /\ exists' \subseteq exists
    BY <1>6 DEF Worker, Dequeue, RunUpdate, EndInstances, update_finished, LeaveService,
                ScheduleInstance, DestroyInstance
  <2>2. AllUnloaded'
    BY <2>1 DEF TickFresh, AllUnloaded
  <2> QED
    BY <1>6, <2>2, FreshRunUpdate, FreshVisit, FreshRest DEF TickFresh, Worker
<1> QED
  BY <1>2, <1>3, <1>4, <1>5, <1>6 DEF Next, MainIdles, MainUpdates, MainStops, Terminated

-----------------------------------------------------------------------------
(* The pool implements the atomic tick                                      *)

TickLeft == IF main \in {"schedule", "wait"} THEN Unsettled ELSE {}

TickPhase ==
  CASE main \in {"idle", "delayed"} -> "between"
    [] main \in {"schedule", "wait"} -> "tick"
    [] main \in {"unload", "drain", "join"} -> "stopping"
    [] OTHER -> "stopped"

\* The abstract phase and what is left, for each place of the world thread.
LEMMA TickView ==
  ASSUME TypeOK
  PROVE  /\ main \in {"idle", "delayed"} => TickPhase = "between" /\ TickLeft = {}
         /\ main \in {"schedule", "wait"} => TickPhase = "tick" /\ TickLeft = Unsettled
         /\ main \in {"unload", "drain", "join"} => TickPhase = "stopping" /\ TickLeft = {}
         /\ main = "done" => TickPhase = "stopped" /\ TickLeft = {}
BY DEF TickPhase, TickLeft

\* The abstract variables change only with what they are computed from.
LEMMA TickUnmoved ==
  ASSUME UNCHANGED <<exists, main, updated, refused, kept>>
  PROVE  UNCHANGED <<exists, TickLeft, TickPhase>>
BY DEF TickLeft, TickPhase, Unsettled

\* One abstract step, written over the concrete state.
TickStep ==
  \/ \E m \in Maps :
       /\ TickPhase = "between" /\ m \notin exists
       /\ m \in Instances => Parent[m] \in exists
       /\ exists' = exists \cup {m} /\ UNCHANGED <<TickLeft, TickPhase>>
  \/ /\ TickPhase = "between" /\ TickPhase' = "tick"
     /\ TickLeft' = exists /\ UNCHANGED exists
  \/ /\ TickPhase = "between" /\ TickPhase' = "stopping"
     /\ UNCHANGED <<exists, TickLeft>>
  \/ \E S \in SUBSET TickLeft : \E gone \in SUBSET (S \cap Instances) :
       /\ TickPhase = "tick" /\ S # {}
       /\ \A i \in S \cap Instances : Parent[i] \notin TickLeft \ S
       /\ TickLeft' = TickLeft \ S /\ exists' = exists \ gone
       /\ UNCHANGED TickPhase
  \/ /\ TickPhase = "tick" /\ TickLeft = {} /\ TickPhase' = "between"
     /\ UNCHANGED <<exists, TickLeft>>
  \/ \E m \in BaseMaps :
       /\ TickPhase = "stopping" /\ m \in exists
       /\ exists' = exists \ ({m} \cup Children(m))
       /\ UNCHANGED <<TickLeft, TickPhase>>
  \/ /\ TickPhase = "stopping" /\ exists = {} /\ TickPhase' = "stopped"
     /\ UNCHANGED <<exists, TickLeft>>
  \/ UNCHANGED <<exists, TickLeft, TickPhase>>

\* During a tick, any set of maps that have their turn at once, of which some
\* instances are destroyed, is one Settle of the abstract tick or none.
LEMMA SettleStep ==
  ASSUME TypeOK, TypeOK', main \in {"schedule", "wait"}, main' = main,
         NEW gone \in SUBSET (Unsettled \cap Instances), exists' = exists \ gone,
         Settled \subseteq Settled', refused \subseteq refused',
         \A i \in Instances \cap (Unsettled \ Unsettled') : Parent[i] \notin Unsettled'
  PROVE  TickStep
<1> DEFINE S == Unsettled \ Unsettled'
<1>1. TickPhase = "tick" /\ TickPhase' = "tick" /\ TickLeft = Unsettled /\ TickLeft' = Unsettled'
  BY TickView DEF TickLeft, TickPhase
<1>2. Unsettled' \subseteq Unsettled
  BY DEF Unsettled, Settled
<1>3. gone \subseteq S
  BY DEF Unsettled
<1>4. CASE S = {}
  <2>1. gone = {} /\ Unsettled' = Unsettled
    BY <1>2, <1>3, <1>4
  <2> QED
    BY <1>1, <2>1 DEF TickStep
<1>5. CASE S # {}
  <2>1. S \in SUBSET TickLeft /\ gone \in SUBSET (S \cap Instances) /\ TickLeft \ S = Unsettled'
    BY <1>1, <1>2, <1>3
  <2>2. \A i \in S \cap Instances : Parent[i] \notin TickLeft \ S
    BY <2>1
  <2> HIDE DEF S
  <2> QED
    BY <1>1, <1>5, <2>1, <2>2 DEF TickStep
<1> QED
  BY <1>4, <1>5

\* Scheduling a base map, or updating it in place, is one abstract step or none.
LEMMA SettleMap ==
  ASSUME IInv, TickFresh, NEW m \in BaseMaps, ScheduleMap(m) \/ UpdateInPlace(m)
  PROVE  TickStep
<1> USE DEF poolVars, workerVars, mainVars
<1>0. TypeOK /\ TypeOK'
  BY NextTypeOK DEF IInv, Next, MainUpdates
<1>1. m \in todo /\ main = "schedule" /\ main' = main /\ m \in Ahead
  BY DEF ScheduleMap, UpdateInPlace, Ahead
<1>2. CASE ScheduleMap(m)
  <2>1. m \in Maps \ Busy /\ schedule_update(m) /\ UNCHANGED <<exists, wpc, wmap, updated, kept>>
    BY <1>2 DEF ScheduleMap, IInv, TodoFresh, Maps
  <2>2. refused' = refused \cup {m} \/ refused' = refused
    BY <2>1, ScheduleMoves DEF IInv
  <2>3. ASSUME NEW i \in Instances \cap (Unsettled \ Unsettled') PROVE Parent[i] \notin Unsettled'
    <3>1. refused' = refused \cup {m} /\ m \notin Instances /\ i # m
      BY <2>1, <2>2, <2>3, MapsAssumption DEF Unsettled
    <3>2. Parent[i] = m
      BY <2>1, <2>3, <3>1 DEF Unsettled
    <3> QED
      BY <3>1, <3>2 DEF Unsettled
  <2>4. exists' = exists \ {} /\ {} \in SUBSET (Unsettled \cap Instances)
    BY <2>1
  <2>5. Settled \subseteq Settled' /\ refused \subseteq refused'
    BY <2>1, <2>2 DEF Settled
  <2> QED
    BY <1>0, <1>1, <2>3, <2>4, <2>5, SettleStep
<1>3. CASE UpdateInPlace(m)
  <2>1. PICK idle \in SUBSET (Children(m) \cap exists) : \E emptied \in SUBSET idle :
          /\ exists' = exists \ emptied
          /\ kept' = kept \cup (idle \ emptied)
          /\ updated' = updated \cup {m} \cup ((Children(m) \cap exists) \ idle)
    BY <1>3 DEF UpdateInPlace
  <2>2. PICK emptied \in SUBSET idle :
          /\ exists' = exists \ emptied
          /\ kept' = kept \cup (idle \ emptied)
          /\ updated' = updated \cup {m} \cup ((Children(m) \cap exists) \ idle)
    BY <2>1
  <2>3. refused' = refused
    BY <1>3 DEF UpdateInPlace
  <2>4. m \notin refused /\ Children(m) \cap Settled = {}
    BY <1>1 DEF TickFresh, AheadUnsettled
  <2>5. emptied \in SUBSET (Unsettled \cap Instances)
    BY <2>4 DEF Unsettled, Settled, Children
  <2>6. ASSUME NEW i \in Instances \cap (Unsettled \ Unsettled') PROVE Parent[i] \notin Unsettled'
    <3>1. Parent[i] = m
      BY <2>2, <2>3, <2>6, MapsAssumption DEF Unsettled, Children
    <3> QED
      BY <2>2, <3>1 DEF Unsettled
  <2>7. Settled \subseteq Settled' /\ refused \subseteq refused'
    BY <2>2, <2>3 DEF Settled
  <2> QED
    BY <1>0, <1>1, <2>2, <2>5, <2>6, <2>7, SettleStep
<1> QED
  BY <1>2, <1>3

\* A worker's step is one turn of one map, after that of its MapInstanced, or none.
LEMMA SettleWorker ==
  ASSUME IInv, TickFresh, NEW w \in Workers, Worker(w)
  PROVE  TickStep
<1> USE DEF poolVars, workerVars, mainVars
<1>0. TypeOK /\ TypeOK'
  BY NextTypeOK DEF IInv, Next
<1>1. CASE RunUpdate(w)
  <2>1. wpc[w] = "update" /\ w \in InHand /\ wmap[w] \in Busy /\ main \in {"schedule", "wait"}
    BY <1>1 DEF RunUpdate, InHand, Busy, IInv, WorldThreadAlone
  <2>2. UNCHANGED <<exists, refused, kept, main>> /\ updated' = updated \cup {wmap[w]}
    BY <1>1 DEF RunUpdate
  <2>3. ASSUME NEW i \in Instances \cap (Unsettled \ Unsettled') PROVE Parent[i] \notin Unsettled'
    <3>1. i = wmap[w]
      BY <2>2, <2>3 DEF Unsettled
    <3>2. Parent[i] \in updated
      BY <2>1, <3>1 DEF TickFresh, ParentUpdated
    <3> QED
      BY <2>2, <3>2 DEF Unsettled
  <2>4. exists' = exists \ {} /\ {} \in SUBSET (Unsettled \cap Instances)
    BY <2>2
  <2>5. Settled \subseteq Settled' /\ refused \subseteq refused'
    BY <2>2 DEF Settled
  <2> QED
    BY <1>0, <2>1, <2>2, <2>3, <2>4, <2>5, SettleStep
<1>2. ASSUME NEW i \in Instances, ScheduleInstance(w, i) \/ DestroyInstance(w, i) PROVE TickStep
  <2>1. /\ UNCHANGED <<wpc, wmap, main, updated>>
        /\ wpc[w] = "instances" /\ i \in wtodo[w]
    BY <1>2 DEF ScheduleInstance, DestroyInstance
  <2>2. /\ i \in Maps \ Busy /\ i \in exists /\ Parent[i] = wmap[w]
        /\ main \in {"schedule", "wait"}
    BY <2>1, VisitFacts
  <2>3. Parent[i] \in updated \ refused /\ i \notin Settled
    BY <2>1, <2>2 DEF TickFresh, VisitsUnsettled
  <2>4. i \in Unsettled
    BY <2>2, <2>3 DEF Unsettled, Settled
  <2>5. /\ exists' = exists \/ exists' = exists \ {i}
        /\ refused \subseteq refused' /\ refused' \subseteq refused \cup {i}
        /\ kept \subseteq kept' /\ kept' \subseteq kept \cup {i}
    <3>1. CASE ScheduleInstance(w, i)
      <4>1. schedule_update(i) /\ UNCHANGED <<exists, kept>>
        BY <3>1 DEF ScheduleInstance
      <4> QED
        BY <2>1, <2>2, <4>1, ScheduleMoves DEF IInv
    <3>2. CASE DestroyInstance(w, i)
      BY <3>2 DEF DestroyInstance
    <3> QED
      BY <1>2, <3>1, <3>2
  <2>6. PICK gone \in {{}, {i}} : exists' = exists \ gone
    BY <2>5
  <2>7. gone \in SUBSET (Unsettled \cap Instances)
    BY <2>4
  <2>8. ASSUME NEW j \in Instances \cap (Unsettled \ Unsettled') PROVE Parent[j] \notin Unsettled'
    <3>1. Parent[j] # i
      BY MapsAssumption
    <3>2. j = i
      BY <2>1, <2>5, <2>8, <3>1 DEF Unsettled
    <3> QED
      BY <2>1, <2>3, <3>2 DEF Unsettled
  <2>9. Settled \subseteq Settled'
    BY <2>1, <2>5 DEF Settled
  <2> QED
    BY <1>0, <2>1, <2>2, <2>5, <2>6, <2>7, <2>8, <2>9, SettleStep
<1>3. CASE Dequeue(w) \/ EndInstances(w) \/ update_finished(w) \/ LeaveService(w)
  <2>1. UNCHANGED <<exists, main, updated, refused, kept>>
    BY <1>3 DEF Dequeue, EndInstances, update_finished, LeaveService
  <2> QED
    BY <2>1, TickUnmoved DEF TickStep
<1> QED
  BY <1>1, <1>2, <1>3 DEF Worker

\* Every step is an abstract step, or leaves the abstract state alone.
LEMMA NextTickStep == IInv /\ NoneForgotten /\ TickFresh /\ [Next]_vars => TickStep
<1> SUFFICES ASSUME IInv, NoneForgotten, TickFresh, [Next]_vars PROVE TickStep
  OBVIOUS
<1> USE DEF poolVars, workerVars, mainVars
<1>0. TypeOK /\ TypeOK'
  BY NextTypeOK DEF IInv
<1>1. CASE \E m \in BaseMaps : CreateBaseMap(m)
  <2>1. PICK m \in BaseMaps : CreateBaseMap(m)
    BY <1>1
  <2>2. m \in Maps /\ m \notin Instances
    BY MapsAssumption DEF Maps
  <2>3. TickPhase = "between" /\ UNCHANGED <<TickLeft, TickPhase>>
    BY <2>1 DEF CreateBaseMap, TickPhase, TickLeft
  <2> QED
    BY <2>1, <2>2, <2>3 DEF CreateBaseMap, TickStep
<1>2. CASE \E i \in Instances : CreateInstance(i)
  <2>1. PICK i \in Instances : CreateInstance(i)
    BY <1>2
  <2>2. TickPhase = "between" /\ UNCHANGED <<TickLeft, TickPhase>>
    BY <2>1 DEF CreateInstance, TickPhase, TickLeft
  <2> QED
    BY <2>1, <2>2 DEF CreateInstance, Maps, TickStep
<1>3. CASE StartTick
  <2>1. main = "idle" /\ main' = "schedule" /\ exists' = exists
    BY <1>3 DEF StartTick
  <2>2. TickPhase = "between" /\ TickPhase' = "tick" /\ TickLeft' = Unsettled'
    BY <2>1 DEF TickPhase, TickLeft
  <2>3. Unsettled' = exists
    BY <1>3 DEF StartTick, Unsettled
  <2> QED
    BY <2>1, <2>2, <2>3 DEF TickStep
<1>4. CASE StopWorld
  <2>1. main = "idle" /\ main' = "unload" /\ exists' = exists
    BY <1>4 DEF StopWorld
  <2>2. TickPhase = "between" /\ TickPhase' = "stopping" /\ TickLeft' = TickLeft
    BY <2>1 DEF TickPhase, TickLeft
  <2> QED
    BY <2>1, <2>2 DEF TickStep
<1>5. CASE EndSchedule \/ WaitReturns
  <2>1. UNCHANGED <<exists, queue, wpc, wmap, wtodo, todo, updated, refused, kept>>
        /\ main \in {"schedule", "wait"}
    BY <1>5 DEF EndSchedule, WaitReturns
  <2>2. CASE main' = "delayed"
    <3>1. TypeOK' /\ NoneForgotten' /\ IInv'
      BY <1>0, NextIInv, NextNoneForgotten
    <3>2. queue' = <<>> /\ InHand' = {} /\ todo' = {}
      BY <2>2, <3>1 DEF IInv, WorldThreadAlone, TodoFresh
    <3>3. Ahead' = {} /\ \A w \in Workers : wpc'[w] # "instances"
      BY <3>2 DEF Ahead, InHand, Queued
    <3>4. Unsettled' = {}
      BY <2>2, <3>1, <3>3 DEF NoneForgotten, Unsettled
    <3>5. Unsettled = {}
      BY <2>1, <3>4 DEF Unsettled
    <3>6. TickPhase = "tick" /\ TickLeft = {} /\ TickPhase' = "between" /\ TickLeft' = {}
      BY <2>1, <2>2, <3>5 DEF TickPhase, TickLeft
    <3> QED
      BY <2>1, <3>6 DEF TickStep
  <2>3. CASE main' # "delayed"
    <3>1. main' = "wait" /\ main = "schedule"
      BY <1>5, <2>3 DEF EndSchedule, WaitReturns
    <3>2. UNCHANGED <<exists, TickLeft, TickPhase>>
      BY <2>1, <3>1 DEF TickPhase, TickLeft, Unsettled
    <3> QED
      BY <3>2 DEF TickStep
  <2> QED
    BY <2>2, <2>3
<1>6. CASE WaitBlocks \/ UNCHANGED vars
  <2>1. UNCHANGED <<exists, main, updated, refused, kept>>
    BY <1>6 DEF WaitBlocks, vars
  <2> QED
    BY <2>1, TickUnmoved DEF TickStep
<1>7. CASE DelayedUpdate
  <2>1. UNCHANGED <<exists, TickLeft, TickPhase>>
    BY <1>7 DEF DelayedUpdate, TickPhase, TickLeft
  <2> QED
    BY <2>1 DEF TickStep
<1>8. CASE \E m \in BaseMaps : UnloadMap(m)
  <2>1. PICK m \in BaseMaps : UnloadMap(m)
    BY <1>8
  <2>2. TickPhase = "stopping" /\ UNCHANGED <<TickLeft, TickPhase>>
    BY <2>1 DEF UnloadMap, TickPhase, TickLeft
  <2> QED
    BY <2>1, <2>2 DEF UnloadMap, TickStep
<1>9. CASE EndUnload \/ DeactivateExecutor \/ JoinWorkers
  <2>1. exists' = exists /\ main \in {"unload", "drain", "join"} /\ main' \in {"drain", "join", "done"}
    BY <1>9 DEF EndUnload, DeactivateExecutor, JoinWorkers
  <2>2. exists' = {}
    BY <2>1, NextTickFresh DEF TickFresh, AllUnloaded
  <2>3. TickPhase = "stopping" /\ TickLeft = {} /\ TickLeft' = {} /\ TickPhase' \in {"stopping", "stopped"}
    BY <2>1 DEF TickPhase, TickLeft
  <2> QED
    BY <2>1, <2>2, <2>3 DEF TickStep
<1>10. ASSUME NEW m \in BaseMaps, ScheduleMap(m) \/ UpdateInPlace(m) PROVE TickStep
  BY <1>10, SettleMap
<1>11. ASSUME NEW w \in Workers, Worker(w) PROVE TickStep
  BY <1>11, SettleWorker
<1> QED
  BY <1>1, <1>2, <1>3, <1>4, <1>5, <1>6, <1>7, <1>8, <1>9, <1>10, <1>11
  DEF Next, MainIdles, MainUpdates, MainStops, Terminated

\* The abstract steps are those of MapTick under the refinement mapping.
LEMMA TickStepMaps == TypeOK /\ TickStep => [Tick!Next]_(Tick!vars)
<1> SUFFICES ASSUME TypeOK, TickStep PROVE [Tick!Next]_(Tick!vars)
  OBVIOUS
<1> USE DEF TickLeft, TickPhase
<1>1. ASSUME NEW m \in Maps, TickPhase = "between", m \notin exists,
             m \in Instances => Parent[m] \in exists,
             exists' = exists \cup {m}, UNCHANGED <<TickLeft, TickPhase>>
      PROVE  Tick!Next
  <2>1. Tick!Create(m)
    BY <1>1 DEF Tick!Create
  <2> QED
    BY <2>1 DEF Tick!Next, Maps
<1>2. ASSUME TickPhase = "between", TickPhase' = "tick", TickLeft' = exists, UNCHANGED exists
      PROVE  Tick!Next
  <2>1. Tick!BeginTick
    BY <1>2 DEF Tick!BeginTick
  <2> QED
    BY <2>1 DEF Tick!Next
<1>3. ASSUME TickPhase = "between", TickPhase' = "stopping", UNCHANGED <<exists, TickLeft>>
      PROVE  Tick!Next
  <2>1. Tick!BeginStop
    BY <1>3 DEF Tick!BeginStop
  <2> QED
    BY <2>1 DEF Tick!Next
<1>4. ASSUME NEW S \in SUBSET TickLeft, NEW gone \in SUBSET (S \cap Instances),
             TickPhase = "tick", S # {},
             \A i \in S \cap Instances : Parent[i] \notin TickLeft \ S,
             TickLeft' = TickLeft \ S, exists' = exists \ gone, UNCHANGED TickPhase
      PROVE  Tick!Next
  <2>1. Tick!Settle(S, gone)
    BY <1>4 DEF Tick!Settle
  <2>2. Tick!GoesOn
    BY <2>1 DEF Tick!GoesOn
  <2> QED
    BY <2>2 DEF Tick!Next
<1>5. ASSUME TickPhase = "tick", TickLeft = {}, TickPhase' = "between", UNCHANGED <<exists, TickLeft>>
      PROVE  Tick!Next
  <2>1. Tick!EndTick
    BY <1>5 DEF Tick!EndTick
  <2> QED
    BY <2>1 DEF Tick!Next, Tick!GoesOn
<1>6. ASSUME NEW m \in BaseMaps, TickPhase = "stopping", m \in exists,
             exists' = exists \ ({m} \cup Children(m)), UNCHANGED <<TickLeft, TickPhase>>
      PROVE  Tick!Next
  <2>1. Tick!Unload(m)
    BY <1>6 DEF Tick!Unload, Tick!InstancesOf, Children
  <2> QED
    BY <2>1 DEF Tick!Next, Tick!Stops
<1>7. ASSUME TickPhase = "stopping", exists = {}, TickPhase' = "stopped", UNCHANGED <<exists, TickLeft>>
      PROVE  Tick!Next
  <2>1. Tick!EndStop
    BY <1>7 DEF Tick!EndStop
  <2> QED
    BY <2>1 DEF Tick!Next, Tick!Stops
<1>8. ASSUME UNCHANGED <<exists, TickLeft, TickPhase>>
      PROVE  UNCHANGED Tick!vars
  BY <1>8 DEF Tick!vars
<1> HIDE DEF TickLeft, TickPhase
<1> QED
  BY <1>1, <1>2, <1>3, <1>4, <1>5, <1>6, <1>7, <1>8 DEF TickStep

\* The world thread may think of MapManager::Update and UnloadAll as atomic turns
\* of the maps: no interleaving of the pool's threads, at any high water mark,
\* creates or skips a map in a tick, settles one twice or before its
\* MapInstanced, or destroys one whose turn is over.  (The fairness of
\* ImplementsTick is liveness and stays with TLC.)
THEOREM RefinesTick == Spec => Tick!Spec
<1>1. Init => NoneForgotten
  BY DEF Init, NoneForgotten
<1>2. Init => TickFresh
  <2> SUFFICES ASSUME Init PROVE TickFresh
    OBVIOUS
  <2>1. queue = <<>> /\ InHand = {} /\ todo = {} /\ main = "idle"
    BY DEF Init, InHand
  <2> QED
    BY <2>1, EmptyAhead, QuietFresh DEF TickFresh, AllUnloaded
<1>3. Init => Tick!Init
  BY DEF Init, Tick!Init
<1>4. IInv /\ NoneForgotten /\ TickFresh /\ [Next]_vars => [Tick!Next]_(Tick!vars)
  BY NextTickStep, TickStepMaps DEF IInv
<1> QED
  BY <1>1, <1>2, <1>3, <1>4, Inductive, NextNoneForgotten, NextTickFresh, PTL DEF Spec, Tick!Spec
=============================================================================
