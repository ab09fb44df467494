--------------------------- MODULE MCDatabasePool ---------------------------
(* Instances of DatabasePool for TLC.                                       *)
EXTENDS DatabasePool

Asked(kind, size, direct) == [kind |-> kind, size |-> size, direct |-> direct]

\* A character's save and its load, a statement, and both ways of committing.
MCRequests == {Asked("transaction", 2, FALSE), Asked("query", 2, FALSE),
               Asked("statement", 1, FALSE), Asked("transaction", 0, FALSE),
               Asked("transaction", 2, TRUE)}
=============================================================================
