--------------------------- MODULE MCWorldSessions ---------------------------
(* An instance of WorldSessions for TLC: two players and a game master.     *)
EXTENDS WorldSessions

CONSTANTS p1, p2, gm
=============================================================================
