------------------------------- MODULE MCTrade -------------------------------
(* Instances of Trade for TLC.  In the first alice has room for both items  *)
(* and bob for one; in the second alice carries the two limited items she   *)
(* may carry, and bob one of them.                                          *)
EXTENDS Trade, TLC

CONSTANTS alice, bob, cloth, sword, gem, ring, amulet

MCFirstOwner == (cloth :> alice) @@ (sword :> bob)
MCStack == (cloth :> 2) @@ (sword :> 1)
MCCapacity == (alice :> 2) @@ (bob :> 1)
MCPurse == (alice :> 1) @@ (bob :> 1)

MCLimitFirstOwner == (gem :> alice) @@ (ring :> alice) @@ (amulet :> bob) @@ (sword :> bob)
MCLimitStack == [i \in Items |-> 1]
MCLimitCapacity == (alice :> 2) @@ (bob :> 3)
MCLimitPurse == (alice :> 0) @@ (bob :> 0)
=============================================================================
