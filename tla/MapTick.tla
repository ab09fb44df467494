------------------------------- MODULE MapTick -------------------------------
(***************************************************************************)
(* What MapManager::Update promises the rest of the world thread, without  *)
(* queue, threads or counters: maps are created between two ticks only;    *)
(* during a tick every map that was there at its start is settled once -   *)
(* updated, refused by the pool, kept, or destroyed if it is an idle       *)
(* instance - an instance never before its parent; the tick ends when      *)
(* nothing is left; UnloadAll deletes base maps with all their instances.  *)
(***************************************************************************)
CONSTANTS BaseMaps, Instances, Parent

VARIABLES
  maps,   \* Map objects that exist
  left,   \* maps the running tick has not settled yet
  phase   \* "between" two ticks, in a "tick", "stopping" or "stopped"

vars == <<maps, left, phase>>

InstancesOf(m) == {i \in Instances : Parent[i] = m}

Init ==
  /\ maps = {}
  /\ left = {}
  /\ phase = "between"

\* CreateBaseMap, and CreateInstance under its base map.
Create(m) ==
  /\ phase = "between"
  /\ m \notin maps
  /\ m \in Instances => Parent[m] \in maps
  /\ maps' = maps \cup {m}
  /\ UNCHANGED <<left, phase>>

BeginTick ==
  /\ phase = "between"
  /\ phase' = "tick"
  /\ left' = maps
  /\ UNCHANGED maps

\* Some maps are settled at once, of which the instances in gone are destroyed.
Settle(S, gone) ==
  /\ phase = "tick"
  /\ S # {}
  /\ \A i \in S \cap Instances : Parent[i] \notin left \ S
  /\ left' = left \ S
  /\ maps' = maps \ gone
  /\ UNCHANGED phase

EndTick ==
  /\ phase = "tick"
  /\ left = {}
  /\ phase' = "between"
  /\ UNCHANGED <<maps, left>>

BeginStop ==
  /\ phase = "between"
  /\ phase' = "stopping"
  /\ UNCHANGED <<maps, left>>

Unload(m) ==
  /\ phase = "stopping"
  /\ m \in maps
  /\ maps' = maps \ ({m} \cup InstancesOf(m))
  /\ UNCHANGED <<left, phase>>

EndStop ==
  /\ phase = "stopping"
  /\ maps = {}
  /\ phase' = "stopped"
  /\ UNCHANGED <<maps, left>>

GoesOn ==
  \/ \E S \in SUBSET left : \E gone \in SUBSET (S \cap Instances) : Settle(S, gone)
  \/ EndTick

Stops == (\E m \in BaseMaps : Unload(m)) \/ EndStop

Next ==
  \/ \E m \in BaseMaps \cup Instances : Create(m)
  \/ BeginTick \/ BeginStop
  \/ GoesOn \/ Stops

Spec == Init /\ [][Next]_vars

\* A tick and the shutdown, once begun, are finished.
FairSpec == Spec /\ WF_vars(GoesOn) /\ WF_vars(Stops)
=============================================================================
