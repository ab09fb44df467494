----------------------------- MODULE MCMapUpdate -----------------------------
(* Instances of MapUpdate for TLC: continents, one dungeon map with up to   *)
(* two instances, and a pool of none, one or two threads.                   *)
EXTENDS MapUpdate

CONSTANTS continent, outland, dungeon, i1, i2

MCParent == [i \in Instances |-> dungeon]
=============================================================================
