---------------------------- MODULE DatabasePool ----------------------------
(***************************************************************************)
(* One DatabaseWorkerPool: a queue of SQLOperations shared by the worker   *)
(* threads of the asynchronous connections, and the synchronous            *)
(* connections on which a calling thread runs its statements itself.  A    *)
(* connection executes one request at a time, one call to the MySQL client *)
(* after the other (MySQLConnection::Execute, _Query, ExecuteTransaction); *)
(* each call is answered, refused, chosen as the victim of a deadlock, or  *)
(* meets a lost connection, which _HandleMySQLErrno opens again.  Close()  *)
(* is called by the main thread when all other threads have ended.         *)
(*                                                                         *)
(* Requests are numbered in the order in which they are made.  What the    *)
(* server has made durable, and what queries have read, is the sequence    *)
(* log of pairs <<request, number of the statement>>.                      *)
(***************************************************************************)
EXTENDS Naturals, Sequences, FiniteSets

CONSTANTS
  MaxAsync,    \* asynchronous connections the configuration may ask for
  Synchs,      \* synchronous connections
  Requests,    \* shapes of the requests: kind, number of statements, direct or queued
  MaxTasks,    \* bound: requests made in a behaviour
  MaxLosses,   \* bound: lost connections in a behaviour
  HighWater    \* requests the queue takes before enqueue blocks

Shapes == [kind : {"statement", "query", "transaction"}, size : Nat, direct : BOOLEAN]

ASSUME PoolAssumption ==
  /\ MaxAsync \in Nat \ {0}
  /\ Synchs \in Nat \ {0}
  /\ HighWater \in Nat \ {0}
  /\ MaxTasks \in Nat
  /\ MaxLosses \in Nat

\* A one-way statement is one call, a query holder has queries; only a
\* transaction may be empty.
ASSUME RequestsAssumption ==
  /\ Requests \subseteq Shapes
  /\ \A r \in Requests : r.kind = "statement" => r.size = 1
  /\ \A r \in Requests : r.kind = "query" => r.size > 0

AsyncConns == 1..MaxAsync
SynchConns == (MaxAsync + 1)..(MaxAsync + Synchs)
Conns == AsyncConns \cup SynchConns
NoTask == 0
MaxTries == 6      \* one ExecuteTransaction and loopBreaker more

VARIABLES
  workers,    \* asynchronous connections Open() has made, each with its thread
  req,        \* the requests made so far
  queue,      \* requests in _queue
  cur, pc,    \* each connection: the request it executes, and where it is in it
  next,       \* the statement of that request it is at
  tries,      \* calls of ExecuteTransaction for a request
  mysql,      \* m_Mysql of each connection: open, or NULL
  inTx, pend, \* its session on the server: inside a transaction, statements not committed
  errno,      \* mysql_errno of the connection
  log,        \* statements made durable, and queries answered, in order
  finished,   \* requests whose Execute has returned (the future of a query is set)
  dropped,    \* requests Close() has thrown away
  alive,      \* connection objects that are not deleted
  main,       \* where the main thread is in Close(); an ASSERT that fails ends the process
  losses,     \* connections lost so far
  faults      \* pairs of a request and an error it has met

connVars == <<cur, pc, next>>
sessionVars == <<inTx, pend>>
vars == <<workers, req, queue, cur, pc, next, tries, mysql, inTx, pend, errno,
          log, finished, dropped, alive, main, losses, faults>>

Tasks == DOMAIN req
Waiting == {queue[i] : i \in DOMAIN queue}
Calling == {"begin", "run", "commit", "rollback"}
Faults == {"refused", "unbegun", "deadlock", "lost", "dead"}

TypeOK ==
  /\ workers \in SUBSET AsyncConns
  /\ req \in Seq(Requests)
  /\ queue \in Seq(Tasks)
  /\ cur \in [Conns -> Tasks \cup {NoTask}]
  /\ pc \in [Conns -> Calling \cup {"idle", "aborted", "exit"}]
  /\ next \in [Conns -> Nat]
  /\ tries \in [1..MaxTasks -> 0..MaxTries]
  /\ mysql \in [Conns -> BOOLEAN]
  /\ inTx \in [Conns -> BOOLEAN]
  /\ pend \in [Conns -> Seq(Tasks \X Nat)]
  /\ errno \in [Conns -> {0, 1062, 1213}]
  /\ log \in Seq(Tasks \X Nat)
  /\ finished \in SUBSET Tasks
  /\ dropped \in SUBSET Tasks
  /\ alive \in SUBSET Conns
  /\ main \in {"open", "closing", "closed", "crashed"}
  /\ losses \in 0..MaxLosses
  /\ faults \in SUBSET (Tasks \X Faults)

-----------------------------------------------------------------------------
(* Open().  Nothing is asked of the pool before it has returned.            *)

Init ==
  /\ workers \in {1..n : n \in 1..MaxAsync}
  /\ req = <<>>
  /\ queue = <<>>
  /\ cur = [c \in Conns |-> NoTask]
  /\ pc = [c \in Conns |-> "idle"]
  /\ next = [c \in Conns |-> 1]
  /\ tries = [t \in 1..MaxTasks |-> 0]
  /\ mysql = [c \in Conns |-> TRUE]
  /\ inTx = [c \in Conns |-> FALSE]
  /\ pend = [c \in Conns |-> <<>>]
  /\ errno = [c \in Conns |-> 0]
  /\ log = <<>>
  /\ finished = {}
  /\ dropped = {}
  /\ alive = workers \cup SynchConns
  /\ main = "open"
  /\ losses = 0
  /\ faults = {}

-----------------------------------------------------------------------------
(* Requests.                                                                *)

\* Execute of a BasicStatementTask, PreparedStatementTask, SQLQueryHolderTask
\* or TransactionTask begins on connection c.  ExecuteTransaction returns false
\* at once for a transaction without statements.
Start(c, t, r) ==
  /\ cur' = [cur EXCEPT ![c] = t]
  /\ next' = [next EXCEPT ![c] = 1]
  /\ tries' = [tries EXCEPT ![t] = 1]
  /\ pc' = [pc EXCEPT ![c] = IF r.kind # "transaction" THEN "run"
               ELSE IF r.size = 0 THEN "aborted" ELSE "begin"]

\* Mutant of Enqueue: the newest request is taken first.
EnqueueFirst(r) ==
  /\ main = "open"
  /\ ~r.direct
  /\ Len(req) < MaxTasks
  /\ Len(queue) < HighWater
  /\ req' = Append(req, r)
  /\ queue' = <<Len(req) + 1>> \o queue
  /\ UNCHANGED <<workers, cur, pc, next, tries, mysql, inTx, pend, errno, log,
                 finished, dropped, alive, main, losses, faults>>

\* Execute, PExecute, AsyncQuery, DelayQueryHolder, CommitTransaction: the
\* caller waits for room in the queue and goes on.
Enqueue(r) ==
  /\ main = "open"
  /\ ~r.direct
  /\ Len(req) < MaxTasks
  /\ Len(queue) < HighWater
  /\ req' = Append(req, r)
  /\ queue' = Append(queue, Len(req) + 1)
  /\ UNCHANGED <<workers, cur, pc, next, tries, mysql, inTx, pend, errno, log,
                 finished, dropped, alive, main, losses, faults>>

\* DirectExecute, Query, DirectCommitTransaction: GetFreeConnection locks a
\* connection no other thread is using; the calling thread does the work.
Direct(r, c) ==
  /\ main = "open"
  /\ r.direct
  /\ Len(req) < MaxTasks
  /\ pc[c] = "idle"
  /\ req' = Append(req, r)
  /\ Start(c, Len(req) + 1, r)
  /\ UNCHANGED <<workers, queue, mysql, inTx, pend, errno, log, finished, dropped,
                 alive, main, losses, faults>>

\* DatabaseWorker::svc takes the next request.
Dequeue(c) ==
  /\ main = "open"
  /\ pc[c] = "idle"
  /\ queue # <<>>
  /\ queue' = Tail(queue)
  /\ Start(c, Head(queue), req[Head(queue)])
  /\ UNCHANGED <<workers, req, mysql, inTx, pend, errno, log, finished, dropped,
                 alive, main, losses, faults>>

-----------------------------------------------------------------------------
(* One call to the MySQL client.                                            *)

Shape(c) == req[cur[c]]
IsTx(c) == Shape(c).kind = "transaction"
Statement(c) == <<cur[c], next[c]>>
At(c, places) == main # "crashed" /\ pc[c] \in places

\* What the server makes durable, and the session it leaves, if it executes
\* the call connection c is at: START TRANSACTION, a statement, COMMIT or
\* ROLLBACK.  Outside a transaction a statement is committed at once
\* (mysql_autocommit).
Made(c) == IF pc[c] = "commit" THEN pend[c]
           ELSE IF pc[c] = "run" /\ ~inTx[c] THEN <<Statement(c)>> ELSE <<>>
InTxAfter(c) == pc[c] = "begin" \/ (pc[c] = "run" /\ inTx[c])
PendAfter(c) == IF pc[c] = "run" /\ inTx[c] THEN Append(pend[c], Statement(c)) ELSE <<>>

\* Mutant of After: a transaction goes on to COMMIT after a statement has failed.
AfterFailureToo(c, ok) ==
  IF pc[c] = "begin" THEN "run"
  ELSE IF pc[c] = "rollback" THEN "aborted"
  ELSE IF pc[c] = "commit" THEN "idle"
  ELSE IF next[c] < Shape(c).size THEN "run"
  ELSE IF IsTx(c) THEN "commit" ELSE "idle"

\* Mutant of After: the last query of a holder is not executed.
AfterSkipsLast(c, ok) ==
  IF pc[c] = "begin" THEN "run"
  ELSE IF pc[c] = "rollback" THEN "aborted"
  ELSE IF pc[c] = "commit" THEN "idle"
  ELSE IF IsTx(c) /\ ~ok THEN "rollback"
  ELSE IF IsTx(c) /\ next[c] < Shape(c).size THEN "run"
  ELSE IF next[c] + 1 < Shape(c).size THEN "run"
  ELSE IF IsTx(c) THEN "commit" ELSE "idle"

\* Where the code goes on when Execute or _Query has returned ok.  The results
\* of START TRANSACTION, ROLLBACK and COMMIT are not looked at.
After(c, ok) ==
  IF pc[c] = "begin" THEN "run"
  ELSE IF pc[c] = "rollback" THEN "aborted"
  ELSE IF pc[c] = "commit" THEN "idle"
  ELSE IF IsTx(c) /\ ~ok THEN "rollback"
  ELSE IF next[c] < Shape(c).size THEN "run"
  ELSE IF IsTx(c) THEN "commit" ELSE "idle"

\* The request is done with: the worker deletes it, or the calling thread
\* unlocks the connection and goes on.
Finish(c) ==
  /\ cur' = [cur EXCEPT ![c] = NoTask]
  /\ finished' = finished \cup {cur[c]}

\* Mutant of Return: only a transaction advances to its next element.
ReturnStays(c, ok) ==
  /\ pc' = [pc EXCEPT ![c] = After(c, ok)]
  /\ next' = IF pc[c] = "run" /\ IsTx(c)
               THEN [next EXCEPT ![c] = @ + 1] ELSE next
  /\ IF After(c, ok) = "idle" THEN Finish(c) ELSE UNCHANGED <<cur, finished>>

Return(c, ok) ==
  /\ pc' = [pc EXCEPT ![c] = After(c, ok)]
  /\ next' = IF pc[c] = "run" THEN [next EXCEPT ![c] = @ + 1] ELSE next
  /\ IF After(c, ok) = "idle" THEN Finish(c) ELSE UNCHANGED <<cur, finished>>

Meets(c, fault) == faults' = faults \cup {<<cur[c], fault>>}

\* The call succeeds, and mysql_errno is 0 after it.
Answered(c) ==
  /\ At(c, Calling) /\ mysql[c]
  /\ log' = log \o Made(c)
  /\ inTx' = [inTx EXCEPT ![c] = InTxAfter(c)]
  /\ pend' = [pend EXCEPT ![c] = PendAfter(c)]
  /\ errno' = [errno EXCEPT ![c] = 0]
  /\ Return(c, TRUE)
  /\ UNCHANGED <<workers, req, queue, tries, mysql, dropped, alive, main, losses,
                 faults>>

\* An error that concerns the call alone (1062 stands for all of them): the
\* transaction goes on without the statement.  A COMMIT that fails has rolled
\* back.  After a START TRANSACTION that fails, whose result nobody looks at,
\* each statement is committed at once.  ROLLBACK does not fail.
Refused(c) ==
  /\ At(c, {"begin", "run", "commit"}) /\ mysql[c]
  /\ errno' = [errno EXCEPT ![c] = 1062]
  /\ inTx' = [inTx EXCEPT ![c] = @ /\ pc[c] = "run"]
  /\ pend' = [pend EXCEPT ![c] = IF pc[c] = "run" THEN @ ELSE <<>>]
  /\ Meets(c, IF pc[c] = "begin" THEN "unbegun" ELSE "refused")
  /\ Return(c, FALSE)
  /\ UNCHANGED <<workers, req, queue, tries, mysql, log, dropped, alive, main,
                 losses>>

\* Error 1213: the server has rolled back the whole transaction.
Deadlock(c) ==
  /\ At(c, {"run"}) /\ mysql[c]
  /\ Shape(c).kind # "query"
  /\ errno' = [errno EXCEPT ![c] = 1213]
  /\ inTx' = [inTx EXCEPT ![c] = FALSE]
  /\ pend' = [pend EXCEPT ![c] = <<>>]
  /\ Meets(c, "deadlock")
  /\ Return(c, FALSE)
  /\ UNCHANGED <<workers, req, queue, tries, mysql, log, dropped, alive, main,
                 losses>>

\* Errors 2006, 2013, 2048, 2055: the session is gone, and with it what was not
\* committed; the server may or may not have executed the call.
LoseConnection(c) ==
  /\ At(c, Calling) /\ mysql[c]
  /\ losses < MaxLosses
  /\ losses' = losses + 1
  /\ log' \in {log, log \o Made(c)}
  /\ inTx' = [inTx EXCEPT ![c] = FALSE]
  /\ pend' = [pend EXCEPT ![c] = <<>>]
  /\ errno' = [errno EXCEPT ![c] = 0]
  /\ Meets(c, "lost")

\* _HandleMySQLErrno opens the connection again, and the call is repeated in a
\* new session, which is not inside a transaction.
Reconnect(c) ==
  /\ LoseConnection(c)
  /\ UNCHANGED <<workers, req, queue, cur, pc, next, tries, mysql, finished,
                 dropped, alive, main>>

\* Open() fails and leaves m_Mysql NULL.  mysql_errno(NULL) is none of the
\* errors of a lost connection: _HandleMySQLErrno returns false.
ReconnectFails(c) ==
  /\ LoseConnection(c)
  /\ mysql' = [mysql EXCEPT ![c] = FALSE]
  /\ Return(c, FALSE)
  /\ UNCHANGED <<workers, req, queue, tries, dropped, alive, main>>

\* Execute and _Query return false when m_Mysql is NULL.
NoHandle(c) ==
  /\ At(c, Calling) /\ ~mysql[c]
  /\ Meets(c, "dead")
  /\ Return(c, FALSE)
  /\ UNCHANGED <<workers, req, queue, tries, mysql, inTx, pend, errno, log, dropped,
                 alive, main, losses>>

\* ExecuteTransaction has returned false: TransactionTask::Execute and
\* DirectCommitTransaction try again when the last error of the connection is a
\* deadlock, up to five times, without looking at the error again.
TryAgain(c) ==
  \/ tries[cur[c]] = 1 /\ errno[c] = 1213
  \/ tries[cur[c]] > 1 /\ tries[cur[c]] < MaxTries

\* Mutant of Aborted: the attempts are not counted.
AbortedUncounted(c) ==
  /\ At(c, {"aborted"})
  /\ IF TryAgain(c)
       THEN /\ next' = [next EXCEPT ![c] = 1]
            /\ pc' = [pc EXCEPT ![c] = IF Shape(c).size = 0 THEN "aborted" ELSE "begin"]
            /\ UNCHANGED <<cur, finished, tries>>
       ELSE /\ Finish(c)
            /\ pc' = [pc EXCEPT ![c] = "idle"]
            /\ UNCHANGED <<tries, next>>
  /\ UNCHANGED <<workers, req, queue, mysql, inTx, pend, errno, log, dropped, alive,
                 main, losses, faults>>

Aborted(c) ==
  /\ At(c, {"aborted"})
  /\ IF TryAgain(c)
       THEN /\ tries' = [tries EXCEPT ![cur[c]] = @ + 1]
            /\ next' = [next EXCEPT ![c] = 1]
            /\ pc' = [pc EXCEPT ![c] = IF Shape(c).size = 0 THEN "aborted" ELSE "begin"]
            /\ UNCHANGED <<cur, finished>>
       ELSE /\ Finish(c)
            /\ pc' = [pc EXCEPT ![c] = "idle"]
            /\ UNCHANGED <<tries, next>>
  /\ UNCHANGED <<workers, req, queue, mysql, inTx, pend, errno, log, dropped, alive,
                 main, losses, faults>>

Step(c) == \/ Answered(c) \/ Refused(c) \/ Deadlock(c)
           \/ Reconnect(c) \/ ReconnectFails(c) \/ NoHandle(c) \/ Aborted(c)

-----------------------------------------------------------------------------
(* Close(), called when no other thread uses the pool.                      *)

\* close() of the message queue wakes the workers and throws away what it holds.
CloseQueue ==
  /\ main = "open"
  /\ \A c \in SynchConns : pc[c] = "idle"
  /\ main' = "closing"
  /\ dropped' = Waiting
  /\ queue' = <<>>
  /\ UNCHANGED <<workers, req, cur, pc, next, tries, mysql, inTx, pend, errno, log,
                 finished, alive, losses, faults>>

\* Mutant of WorkerEnds: svc goes on with the loop when dequeue() returns NULL.
WorkerEndsLoops(c) ==
  /\ main = "closing"
  /\ pc[c] = "idle"
  /\ UNCHANGED vars

\* dequeue() returns NULL, and svc ends.
WorkerEnds(c) ==
  /\ main = "closing"
  /\ pc[c] = "idle"
  /\ pc' = [pc EXCEPT ![c] = "exit"]
  /\ UNCHANGED <<workers, req, queue, cur, next, tries, mysql, inTx, pend, errno, log,
                 finished, dropped, alive, main, losses, faults>>

\* worker->wait(), then the connection is deleted; the synchronous ones follow.
\* ~MySQLConnection asserts that there is a handle.
CloseConnection(c) ==
  /\ main = "closing"
  /\ c \in alive
  /\ \A d \in alive : c <= d
  /\ c \in workers => pc[c] = "exit"
  /\ alive' = alive \ {c}
  /\ main' = IF ~mysql[c] THEN "crashed" ELSE IF alive = {c} THEN "closed" ELSE main
  /\ UNCHANGED <<workers, req, queue, cur, pc, next, tries, mysql, inTx, pend, errno,
                 log, finished, dropped, losses, faults>>

Terminated == main \in {"closed", "crashed"} /\ UNCHANGED vars

Next ==
  \/ \E r \in Requests : Enqueue(r)
  \/ \E r \in Requests, c \in SynchConns : Direct(r, c)
  \/ \E c \in workers : Dequeue(c)
  \/ \E c \in workers \cup SynchConns : Step(c)
  \/ CloseQueue
  \/ \E c \in workers : WorkerEnds(c)
  \/ \E c \in Conns : CloseConnection(c)
  \/ Terminated

Spec == Init /\ [][Next]_vars

\* The threads run, and every call to the client library ends in one of its
\* outcomes; nothing obliges anybody to make a request or to close the pool.
Fairness ==
  /\ \A c \in AsyncConns : WF_vars(c \in workers /\ (Dequeue(c) \/ WorkerEnds(c)))
  /\ \A c \in Conns : WF_vars(Step(c))
  /\ \A c \in Conns : WF_vars(CloseConnection(c))

FairSpec == Spec /\ Fairness

-----------------------------------------------------------------------------
(* Properties.                                                              *)

Of(t) == {p \in DOMAIN log : log[p][1] = t}
Done(t) == {log[p][2] : p \in Of(t)}
Met(t, fault) == <<t, fault>> \in faults

\* A transaction that was begun, on a connection that was not lost, is in the
\* database as a whole or not at all, whatever else failed (ExecuteTransaction).
AllOrNothing ==
  \A t \in Tasks : req[t].kind = "transaction" /\ ~Met(t, "lost") /\ ~Met(t, "unbegun")
                     => Done(t) \in {{}, 1..req[t].size}

\* No statement is executed twice, unless its connection was lost and
\* _HandleMySQLErrno had it repeated.
ExecutedOnce ==
  \A p, q \in DOMAIN log : log[p] = log[q] /\ p # q => Met(log[p][1], "lost")

\* The statements of a request take effect in the order in which they were
\* appended; and with one worker thread so do the requests of the queue: a
\* character that is loaded after it was saved has what was saved.
InOrder ==
  \A p, q \in DOMAIN log : p < q =>
    LET t == log[p][1]
        u == log[q][1]
    IN  /\ t = u => log[p][2] <= log[q][2]
        /\ Cardinality(workers) = 1 /\ ~req[t].direct /\ ~req[u].direct => t <= u

\* A request that has returned without an error is in the database completely.
FinishedIsDurable ==
  \A t \in finished : (\A f \in Faults : ~Met(t, f))
                        => Done(t) = 1..req[t].size

\* Every call returns and every future is set, if the pool is not closed before.
RequestsFinish ==
  \A t \in 1..MaxTasks : t \in Tasks ~> t \in finished \cup dropped \/ main = "crashed"

\* Close() waits for the workers, and they end.
CloseEnds == main = "closing" ~> main \in {"closed", "crashed"}
=============================================================================
