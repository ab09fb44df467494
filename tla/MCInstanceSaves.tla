--------------------------- MODULE MCInstanceSaves ---------------------------
(* Instances of InstanceSaves for TLC: in a normal dungeon three players     *)
(* with one instance or two with two, in a raid or heroic dungeon two with   *)
(* two, of whom one loads at a time.                                         *)
EXTENDS InstanceSaves, TLC

CONSTANTS p1, p2, p3

Symmetric == Permutations(Players)

\* Players who have anything to do with the dungeon or the group.
Involved ==
  {p \in Players : where[p] # Outside \/ InGroup(p) \/ b.pbind[p] # NoBind \/ b.crow[p] # {}}

Small ==
  \/ ~heroic /\ Cardinality(used) <= 1
  \/ /\ \E p \in Players \ Involved : status[p] = "offline"
     /\ heroic => Cardinality({p \in Players : status[p] = "loading"}) <= 1
=============================================================================
