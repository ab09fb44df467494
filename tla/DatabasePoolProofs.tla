------------------------- MODULE DatabasePoolProofs -------------------------
(***************************************************************************)
(* Proofs about DatabasePool, for every number of connections, requests    *)
(* and lost connections: a transaction whose connection was not lost is    *)
(* all or nothing, statements are executed once and in order, and what has *)
(* returned without an error is in the database.                           *)
(*                                                                         *)
(* The inductive invariant is built in five layers, each proved with the   *)
(* help of those before it: where a connection can be (Cursor), where      *)
(* requests are (Places), what its session on the server holds (Session),  *)
(* that a transaction is inside one (Guarded), and what a request has      *)
(* written so far (Written).                                               *)
(***************************************************************************)
EXTENDS DatabasePool, TLAPS, FiniteSetTheorems, SequenceTheorems

Busy(c) == pc[c] \notin {"idle", "exit"}
Started(t) == t \in finished \/ \E c \in Conns : cur[c] = t
NoFault(t) == \A f \in Faults : ~Met(t, f)
Loose(t) == Met(t, "lost") \/ Met(t, "unbegun")
InLog(t) == \E p \in DOMAIN log : log[p][1] = t

\* Where a connection can be in the request it executes.
Cursor ==
  /\ Len(req) <= MaxTasks
  /\ \A c \in Conns : cur[c] = NoTask <=> ~Busy(c)
  /\ \A c \in Conns : Busy(c) =>
       /\ c \in workers \cup SynchConns
       /\ Shape(c).direct <=> c \in SynchConns
       /\ pc[c] = "run" => next[c] \in 1..Shape(c).size
       /\ pc[c] = "begin" => next[c] = 1
       /\ pc[c] # "run" => IsTx(c)
       /\ pc[c] \in {"begin", "commit", "rollback"} => Shape(c).size > 0

\* Requests wait in the order in which they were made, behind all queued
\* requests that were started; no request is executed twice.
Places ==
  /\ \A i \in DOMAIN queue : ~req[queue[i]].direct
  /\ \A i, j \in DOMAIN queue : i < j => queue[i] < queue[j]
  /\ \A i \in DOMAIN queue : \A t \in Tasks : Started(t) /\ ~req[t].direct => t < queue[i]
  /\ \A c, d \in Conns : cur[c] = cur[d] /\ cur[c] # NoTask => c = d
  /\ \A c \in Conns : cur[c] \notin finished
  /\ Cardinality(workers) = 1 =>
       \A c \in workers : \A t \in finished : ~req[t].direct /\ cur[c] # NoTask => t < cur[c]

\* What a session inside a transaction holds.
OpenTx(c) ==
  /\ pc[c] \in {"run", "commit", "rollback"} /\ IsTx(c)
  /\ pc[c] = "run" => Len(pend[c]) = next[c] - 1
  /\ pc[c] = "commit" => Len(pend[c]) = Shape(c).size
  /\ \A k \in DOMAIN pend[c] : pend[c][k] = <<cur[c], k>>

\* What decides on a retry.  ROLLBACK has cleared the error before the code
\* looks at it, and a transaction with statements is tried once.
FirstAttempt(c) ==
  Busy(c) /\ IsTx(c) /\ Shape(c).size > 0 =>
    /\ tries[cur[c]] = 1
    /\ pc[c] = "aborted" => errno[c] # 1213

\* The session of a connection on the server.
SessionOf(c) ==
  /\ ~inTx[c] => pend[c] = <<>>
  /\ ~mysql[c] => ~inTx[c] /\ errno[c] = 0
  /\ inTx[c] => OpenTx(c)
  /\ FirstAttempt(c)

Session == \A c \in Conns : SessionOf(c)

\* A transaction is inside one on the server, unless it was not begun, the connection
\* was lost or there is none; without an error it is not rolled back.
GuardedOf(c) ==
  Busy(c) /\ IsTx(c) =>
    /\ ~Loose(cur[c]) /\ pc[c] = "commit" => inTx[c]
    /\ ~Loose(cur[c]) /\ pc[c] = "run" /\ ~inTx[c] => ~mysql[c]
    /\ NoFault(cur[c]) => pc[c] # "rollback" /\ (pc[c] = "aborted" => Shape(c).size = 0)

Guarded == \A c \in Conns : GuardedOf(c)

\* What a request that is being executed has made durable.
WrittenBy(c) ==
  Busy(c) =>
    /\ IsTx(c) /\ (~Loose(cur[c]) \/ pc[c] = "begin" \/ inTx[c]) => ~InLog(cur[c])
    /\ pc[c] = "run" => \A p \in Of(cur[c]) : log[p][2] <= next[c]
    /\ pc[c] = "run" /\ ~Met(cur[c], "lost") => \A p \in Of(cur[c]) : log[p][2] < next[c]
    /\ ~IsTx(c) /\ NoFault(cur[c]) => 1..(next[c] - 1) \subseteq Done(cur[c])

Written ==
  /\ \A p \in DOMAIN log : Started(log[p][1]) /\ log[p][2] > 0
  /\ \A c \in Conns : WrittenBy(c)

-----------------------------------------------------------------------------
(* Sequences and calls.                                                     *)

\* A sequence over a set is one over every larger set.
LEMMA SeqMono ==
  ASSUME NEW S, NEW T, S \subseteq T, NEW s \in Seq(S)
  PROVE  s \in Seq(T)
  OBVIOUS

\* A function into a set is one into every larger set.
LEMMA FcnMono ==
  ASSUME NEW D, NEW S, NEW T, S \subseteq T, NEW f \in [D -> S]
  PROVE  f \in [D -> T]
  OBVIOUS

\* A function that is changed at one point is still one into its range.
LEMMA ExceptType ==
  ASSUME NEW S, NEW T, NEW f \in [S -> T], NEW x \in S, NEW y \in T
  PROVE  [f EXCEPT ![x] = y] \in [S -> T]
  OBVIOUS

\* A request that is appended leaves the others as they were.
LEMMA ReqGrows ==
  ASSUME req \in Seq(Requests), NEW r \in Requests, req' = Append(req, r)
  PROVE  /\ req' \in Seq(Requests)
         /\ Len(req') = Len(req) + 1
         /\ Tasks = 1..Len(req) /\ Tasks' = 1..(Len(req) + 1)
         /\ Tasks \subseteq Tasks'
         /\ Len(req) + 1 \in Tasks'
         /\ \A t \in Tasks : req'[t] = req[t]
         /\ req'[Len(req) + 1] = r
  BY DEF Tasks

\* Requests have a kind, a size and a way.
LEMMA ShapeFields ==
  ASSUME req \in Seq(Requests), NEW t \in Tasks
  PROVE  /\ req[t] \in Requests
         /\ req[t].kind \in {"statement", "query", "transaction"}
         /\ req[t].size \in Nat
         /\ req[t].direct \in BOOLEAN
         /\ req[t].kind # "transaction" => req[t].size > 0
  <1>1. req[t] \in Requests
    BY DEF Tasks
  <1>2. req[t] \in Shapes
    BY <1>1, RequestsAssumption
  <1> QED
    BY <1>1, <1>2, RequestsAssumption DEF Shapes

\* A call after which the code goes on with its result.
Called(c, ok) ==
  /\ c \in workers \cup SynchConns
  /\ pc[c] \in Calling
  /\ Return(c, ok)
  /\ UNCHANGED <<workers, req, queue, tries, dropped, alive, main>>

\* A refused call fails, and leaves everything but the session alone.
LEMMA RefusedCall ==
  ASSUME NEW c \in workers \cup SynchConns, Refused(c)
  PROVE  Called(c, FALSE)
  <1>1. /\ pc[c] \in {"begin", "run", "commit"} /\ Return(c, FALSE)
        /\ UNCHANGED <<workers, req, queue, tries, dropped, alive, main>>
    BY DEF Refused, At
  <1>2. pc[c] \in Calling
    BY <1>1 DEF Calling
  <1> QED BY <1>1, <1>2 DEF Called

\* It is not ROLLBACK, and neither the handle nor the log changes.
LEMMA RefusedFrame ==
  ASSUME NEW c, Refused(c)
  PROVE  pc[c] \in {"begin", "run", "commit"} /\ mysql' = mysql /\ log' = log
  BY DEF Refused, At

\* So does a statement that meets a deadlock.
LEMMA DeadlockCall ==
  ASSUME NEW c \in workers \cup SynchConns, Deadlock(c)
  PROVE  Called(c, FALSE)
  <1>1. /\ pc[c] = "run" /\ Return(c, FALSE)
        /\ UNCHANGED <<workers, req, queue, tries, dropped, alive, main>>
    BY DEF Deadlock, At
  <1>2. pc[c] \in Calling
    BY <1>1 DEF Calling
  <1> QED BY <1>1, <1>2 DEF Called

\* Only a statement meets one, and neither the handle nor the log changes.
LEMMA DeadlockFrame ==
  ASSUME NEW c, Deadlock(c)
  PROVE  pc[c] = "run" /\ mysql' = mysql /\ log' = log
  BY DEF Deadlock, At

\* And a call without a handle.
LEMMA NoHandleCall ==
  ASSUME NEW c \in workers \cup SynchConns, NoHandle(c)
  PROVE  Called(c, FALSE)
  <1>1. /\ pc[c] \in Calling /\ Return(c, FALSE)
        /\ UNCHANGED <<workers, req, queue, tries, dropped, alive, main>>
    BY DEF NoHandle, At
  <1> QED BY <1>1 DEF Called

\* Neither the handle nor the log changes.
LEMMA NoHandleFrame ==
  ASSUME NEW c, NoHandle(c)
  PROVE  mysql' = mysql /\ log' = log
  BY DEF NoHandle

\* The steps inside a request.
LEMMA StepCases ==
  ASSUME NEW c \in workers \cup SynchConns, Step(c)
  PROVE  Called(c, TRUE) \/ Called(c, FALSE) \/ Reconnect(c) \/ Aborted(c)
  <1>1. Answered(c) => Called(c, TRUE)
    BY DEF Answered, Called, At
  <1>2. Refused(c) => Called(c, FALSE)
    BY RefusedCall
  <1>3. Deadlock(c) => Called(c, FALSE)
    BY DeadlockCall
  <1>4. ReconnectFails(c) => Called(c, FALSE)
    BY DEF ReconnectFails, LoseConnection, Called, At
  <1>5. NoHandle(c) => Called(c, FALSE)
    BY NoHandleCall
  <1> QED
    BY <1>1, <1>2, <1>3, <1>4, <1>5 DEF Step

\* Every connection in use is one of Conns.
LEMMA InConns ==
  ASSUME workers \in SUBSET AsyncConns, NEW c \in workers \cup SynchConns
  PROVE  c \in Conns
  BY DEF Conns

-----------------------------------------------------------------------------
(* Types and cursors.                                                       *)

\* What a connection does next stays in range.
LEMMA CalledCursor ==
  ASSUME TypeOK, Cursor, NEW c \in Conns, NEW ok \in BOOLEAN, Called(c, ok)
  PROVE  /\ cur \in [Conns -> Tasks \cup {NoTask}] /\ cur[c] \in Tasks
         /\ cur' \in [Conns -> Tasks \cup {NoTask}]
         /\ pc' \in [Conns -> Calling \cup {"idle", "aborted", "exit"}]
         /\ next' \in [Conns -> Nat]
         /\ finished' \in SUBSET Tasks
         /\ Cursor'
  <1>1. cur[c] \in Tasks /\ Busy(c)
    BY DEF TypeOK, Cursor, Called, Busy, Calling, NoTask
  <1>2. /\ Shape(c).kind \in {"statement", "query", "transaction"}
        /\ Shape(c).size \in Nat
    BY <1>1, ShapeFields DEF TypeOK, Shape
  <1>3. /\ pc' = [pc EXCEPT ![c] = After(c, ok)]
        /\ next' = IF pc[c] = "run" THEN [next EXCEPT ![c] = @ + 1] ELSE next
        /\ cur' = IF After(c, ok) = "idle" THEN [cur EXCEPT ![c] = NoTask] ELSE cur
        /\ finished' = IF After(c, ok) = "idle" THEN finished \cup {cur[c]} ELSE finished
        /\ workers' = workers /\ req' = req /\ c \in workers \cup SynchConns
    BY DEF Called, Return, Finish
  <1>4. After(c, ok) \in Calling \cup {"idle", "aborted"}
    BY <1>2 DEF After, Calling
  <1>5. /\ cur' \in [Conns -> Tasks \cup {NoTask}]
        /\ pc' \in [Conns -> Calling \cup {"idle", "aborted", "exit"}]
        /\ next' \in [Conns -> Nat]
        /\ finished' \in SUBSET Tasks
    <2>1. cur' \in [Conns -> Tasks \cup {NoTask}]
      BY <1>3 DEF TypeOK
    <2>2. pc' \in [Conns -> Calling \cup {"idle", "aborted", "exit"}]
      BY <1>3, <1>4 DEF TypeOK
    <2>3. next' \in [Conns -> Nat]
      BY <1>3 DEF TypeOK
    <2>4. finished' \in SUBSET Tasks
      BY <1>1, <1>3 DEF TypeOK
    <2> QED BY <2>1, <2>2, <2>3, <2>4
  <1>6. \A d \in Conns : d # c => cur'[d] = cur[d] /\ pc'[d] = pc[d] /\ next'[d] = next[d]
    BY <1>3 DEF TypeOK
  <1>7. pc'[c] = After(c, ok) /\ cur'[c] = IF After(c, ok) = "idle" THEN NoTask ELSE cur[c]
    BY <1>3 DEF TypeOK
  <1>8. next'[c] = IF pc[c] = "run" THEN next[c] + 1 ELSE next[c]
    BY <1>3 DEF TypeOK
  <1>9. /\ Shape(c).direct <=> c \in SynchConns
        /\ pc[c] = "run" => next[c] \in 1..Shape(c).size
        /\ pc[c] = "begin" => next[c] = 1
        /\ pc[c] # "run" => IsTx(c)
        /\ pc[c] \in {"begin", "commit", "rollback"} => Shape(c).size > 0
    BY <1>1 DEF Cursor
  <1>10. After(c, ok) # "idle" =>
           /\ After(c, ok) = "run" => next'[c] \in 1..Shape(c).size
           /\ After(c, ok) # "begin"
           /\ After(c, ok) # "run" => IsTx(c)
           /\ After(c, ok) \in {"commit", "rollback"} => Shape(c).size > 0
    BY <1>2, <1>8, <1>9 DEF After, IsTx, TypeOK, Called, Calling
  <1>11. Cursor'
    <2>1. Len(req') <= MaxTasks
      BY <1>3 DEF Cursor
    <2>2. ASSUME NEW d \in Conns PROVE (cur[d] = NoTask <=> ~Busy(d))'
      <3>1. CASE d = c
        BY <3>1, <1>1, <1>4, <1>7 DEF Busy, Calling, NoTask, TypeOK, Tasks
      <3>2. CASE d # c
        BY <3>2, <1>6 DEF Cursor, Busy
      <3> QED BY <3>1, <3>2
    <2>3. ASSUME NEW d \in Conns, Busy(d)'
          PROVE  (/\ d \in workers \cup SynchConns
                  /\ Shape(d).direct <=> d \in SynchConns
                  /\ pc[d] = "run" => next[d] \in 1..Shape(d).size
                  /\ pc[d] = "begin" => next[d] = 1
                  /\ pc[d] # "run" => IsTx(d)
                  /\ pc[d] \in {"begin", "commit", "rollback"} => Shape(d).size > 0)'
      <3>1. CASE d = c
        <4>1. After(c, ok) # "idle" /\ cur'[c] = cur[c]
          BY <3>1, <2>3, <1>7 DEF Busy
        <4> QED
          BY <3>1, <4>1, <1>3, <1>7, <1>9, <1>10 DEF Shape, IsTx
      <3>2. CASE d # c
        BY <3>2, <2>3, <1>3, <1>6 DEF Cursor, Busy, Shape, IsTx
      <3> QED BY <3>1, <3>2
    <2> QED BY <2>1, <2>2, <2>3 DEF Cursor
  <1> QED BY <1>1, <1>5, <1>11 DEF TypeOK

\* A connection that begins a request is at its first statement.
LEMMA StartCursor ==
  ASSUME TypeOK, Cursor, NEW c \in Conns, c \in workers \cup SynchConns,
         NEW t \in Tasks', Start(c, t, req'[t]), req'[t].direct <=> c \in SynchConns,
         req' \in Seq(Requests), Tasks \subseteq Tasks', \A u \in Tasks : req'[u] = req[u],
         Len(req') <= MaxTasks, t \in 1..MaxTasks, workers' = workers
  PROVE  /\ cur' \in [Conns -> Tasks' \cup {NoTask}]
         /\ pc' \in [Conns -> Calling \cup {"idle", "aborted", "exit"}]
         /\ next' \in [Conns -> Nat]
         /\ tries' \in [1..MaxTasks -> 0..MaxTries]
         /\ Cursor'
  <1>1. /\ cur' = [cur EXCEPT ![c] = t]
        /\ next' = [next EXCEPT ![c] = 1]
        /\ tries' = [tries EXCEPT ![t] = 1]
        /\ pc' = [pc EXCEPT ![c] = IF req'[t].kind # "transaction" THEN "run"
                                   ELSE IF req'[t].size = 0 THEN "aborted" ELSE "begin"]
    BY DEF Start
  <1>2. /\ req'[t].size \in Nat
        /\ req'[t].kind # "transaction" => req'[t].size > 0
    <2>1. req'[t] \in Requests
      BY DEF Tasks
    <2>2. req'[t] \in Shapes
      BY <2>1, RequestsAssumption
    <2> QED BY <2>1, <2>2, RequestsAssumption DEF Shapes
  <1>3. /\ cur' \in [Conns -> Tasks' \cup {NoTask}]
        /\ pc' \in [Conns -> Calling \cup {"idle", "aborted", "exit"}]
        /\ next' \in [Conns -> Nat]
    <2>1. cur \in [Conns -> Tasks' \cup {NoTask}] /\ t \in Tasks' \cup {NoTask}
      <3>1. cur \in [Conns -> Tasks \cup {NoTask}]
        BY DEF TypeOK
      <3>2. Tasks \cup {NoTask} \subseteq Tasks' \cup {NoTask}
        BY Zenon
      <3> QED BY <3>1, <3>2, FcnMono, Zenon
    <2>2. cur' \in [Conns -> Tasks' \cup {NoTask}]
      BY <1>1, <2>1, ExceptType, Zenon
    <2>3. pc' \in [Conns -> Calling \cup {"idle", "aborted", "exit"}]
      BY <1>1 DEF TypeOK, Calling
    <2>4. next' \in [Conns -> Nat]
      BY <1>1 DEF TypeOK
    <2> QED BY <2>2, <2>3, <2>4
  <1>4. tries' \in [1..MaxTasks -> 0..MaxTries]
    <2>1. tries \in [1..MaxTasks -> 0..MaxTries] /\ 1 \in 0..MaxTries
      BY DEF TypeOK, MaxTries
    <2> QED BY <1>1, <2>1, ExceptType, Zenon
  <1>5. \A d \in Conns : d # c => cur'[d] = cur[d] /\ pc'[d] = pc[d] /\ next'[d] = next[d]
    BY <1>1 DEF TypeOK
  <1>6. /\ cur'[c] = t /\ next'[c] = 1
        /\ pc'[c] = IF req'[t].kind # "transaction" THEN "run"
                    ELSE IF req'[t].size = 0 THEN "aborted" ELSE "begin"
    BY <1>1 DEF TypeOK
  <1>7. t # NoTask
    <2>1. t \in 1..Len(req')
      BY DEF Tasks
    <2> QED BY <2>1 DEF NoTask
  <1>8. ASSUME NEW d \in Conns PROVE (cur[d] = NoTask <=> ~Busy(d))'
    <2>1. CASE d = c
      BY <2>1, <1>6, <1>7 DEF Busy
    <2>2. CASE d # c
      BY <2>2, <1>5 DEF Cursor, Busy
    <2> QED BY <2>1, <2>2
  <1>9. ASSUME NEW d \in Conns, Busy(d)'
        PROVE  (/\ d \in workers \cup SynchConns
                /\ Shape(d).direct <=> d \in SynchConns
                /\ pc[d] = "run" => next[d] \in 1..Shape(d).size
                /\ pc[d] = "begin" => next[d] = 1
                /\ pc[d] # "run" => IsTx(d)
                /\ pc[d] \in {"begin", "commit", "rollback"} => Shape(d).size > 0)'
    <2>1. CASE d = c
      BY <2>1, <1>2, <1>6 DEF Shape, IsTx
    <2>2. CASE d # c
      <3>1. Busy(d) /\ cur[d] \in Tasks
        BY <2>2, <1>5, <1>9 DEF Busy, Cursor, TypeOK
      <3>2. Shape(d)' = Shape(d)
        BY <2>2, <3>1, <1>5 DEF Shape
      <3> QED
        BY <2>2, <3>1, <3>2, <1>5 DEF Cursor, IsTx
    <2> QED BY <2>1, <2>2
  <1>10. Cursor'
    BY <1>8, <1>9 DEF Cursor
  <1> QED BY <1>3, <1>4, <1>10

\* The type invariant and the cursors hold initially.
LEMMA CursorInit == Init => TypeOK /\ Cursor
  <1> SUFFICES ASSUME Init PROVE TypeOK /\ Cursor
    OBVIOUS
  <1>1. workers \in SUBSET AsyncConns
    <2>1. PICK n \in 1..MaxAsync : workers = 1..n
      BY DEF Init
    <2> QED BY <2>1, PoolAssumption DEF AsyncConns
  <1>2. TypeOK
    BY <1>1, PoolAssumption
    DEF Init, TypeOK, Tasks, Calling, NoTask, MaxTries, Conns, AsyncConns, SynchConns
  <1>3. Cursor
    BY PoolAssumption DEF Init, Cursor, Busy, NoTask
  <1> QED BY <1>2, <1>3

\* A statement is a pair of a request and a number.
LEMMA MadeType ==
  ASSUME TypeOK, Cursor, NEW c \in Conns, pc[c] \in Calling
  PROVE  /\ cur[c] \in Tasks
         /\ Made(c) \in Seq(Tasks \X Nat)
         /\ PendAfter(c) \in Seq(Tasks \X Nat)
         /\ InTxAfter(c) \in BOOLEAN
         /\ log \o Made(c) \in Seq(Tasks \X Nat)
  <1>1. cur[c] \in Tasks
    <2>1. Busy(c)
      BY DEF Busy, Calling
    <2>2. cur[c] # NoTask
      BY <2>1 DEF Cursor
    <2> QED BY <2>2 DEF TypeOK
  <1>2. Statement(c) \in Tasks \X Nat
    BY <1>1 DEF Statement, TypeOK
  <1>3. pend[c] \in Seq(Tasks \X Nat) /\ log \in Seq(Tasks \X Nat)
    BY DEF TypeOK
  <1>4. Made(c) \in Seq(Tasks \X Nat) /\ PendAfter(c) \in Seq(Tasks \X Nat)
    <2> HIDE DEF Statement
    <2> DEFINE S == Tasks \X Nat
    <2>1. Statement(c) \in S /\ pend[c] \in Seq(S)
      BY <1>2, <1>3
    <2> HIDE DEF S
    <2>2. Made(c) \in Seq(S) /\ PendAfter(c) \in Seq(S)
      BY <2>1 DEF Made, PendAfter
    <2> QED BY <2>2 DEF S
  <1>5. log \o Made(c) \in Seq(Tasks \X Nat)
    BY <1>3, <1>4, ConcatProperties, Zenon
  <1>6. InTxAfter(c) \in BOOLEAN
    BY Zenon DEF InTxAfter
  <1> QED BY <1>1, <1>4, <1>5, <1>6

\* The data a call changes keep their types.
LEMMA CallTypes ==
  ASSUME TypeOK, Cursor, NEW c \in Conns, pc[c] \in Calling,
         Answered(c) \/ Refused(c) \/ Deadlock(c) \/ LoseConnection(c) \/ NoHandle(c)
  PROVE  /\ inTx' \in [Conns -> BOOLEAN]
         /\ pend' \in [Conns -> Seq(Tasks \X Nat)]
         /\ errno' \in [Conns -> {0, 1062, 1213}]
         /\ log' \in Seq(Tasks \X Nat)
         /\ losses' \in 0..MaxLosses
         /\ faults' \in SUBSET (Tasks \X Faults)
  <1> DEFINE S == Seq(Tasks \X Nat)
             F == SUBSET (Tasks \X Faults)
             O == 0..MaxLosses
             E == {0, 1062, 1213}
  <1>1. /\ inTx \in [Conns -> BOOLEAN] /\ pend \in [Conns -> S] /\ errno \in [Conns -> E]
        /\ log \in S /\ losses \in O /\ faults \in F
    BY DEF TypeOK
  <1>2. /\ Made(c) \in S /\ PendAfter(c) \in S /\ log \o Made(c) \in S /\ <<>> \in S
        /\ InTxAfter(c) \in BOOLEAN
        /\ 0 \in E /\ 1062 \in E /\ 1213 \in E
    BY MadeType
  <1>3. \A f \in Faults : faults \cup {<<cur[c], f>>} \in F
    BY <1>1, MadeType
  <1>4. losses < MaxLosses => losses + 1 \in O
    BY <1>1, PoolAssumption
  <1> HIDE DEF S, F, O, E
  <1>5. CASE Answered(c)
    <2>1. log' \in S /\ losses' \in O /\ faults' \in F
      BY <1>5, <1>1, <1>2 DEF Answered
    <2>2. inTx' \in [Conns -> BOOLEAN] /\ pend' \in [Conns -> S] /\ errno' \in [Conns -> E]
      BY <1>5, <1>1, <1>2 DEF Answered
    <2> QED BY <2>1, <2>2 DEF S, F, O, E
  <1>6. CASE Refused(c)
    <2>1. log' \in S /\ losses' \in O /\ faults' \in F
      BY <1>6, <1>1, <1>2, <1>3 DEF Refused, Meets, Faults
    <2>2. inTx' \in [Conns -> BOOLEAN] /\ pend' \in [Conns -> S] /\ errno' \in [Conns -> E]
      BY <1>6, <1>1, <1>2 DEF Refused
    <2> QED BY <2>1, <2>2 DEF S, F, O, E
  <1>7. CASE Deadlock(c)
    <2>1. log' \in S /\ losses' \in O /\ faults' \in F
      BY <1>7, <1>1, <1>2, <1>3 DEF Deadlock, Meets, Faults
    <2>2. inTx' \in [Conns -> BOOLEAN] /\ pend' \in [Conns -> S] /\ errno' \in [Conns -> E]
      BY <1>7, <1>1, <1>2 DEF Deadlock
    <2> QED BY <2>1, <2>2 DEF S, F, O, E
  <1>8. CASE LoseConnection(c)
    <2>1. log' \in S /\ losses' \in O /\ faults' \in F
      <3>1. log' \in S
        <4>1. log' = log \/ log' = log \o Made(c)
          BY <1>8 DEF LoseConnection
        <4> QED BY <4>1, <1>1, <1>2
      <3>2. losses' \in O
        BY <1>8, <1>4 DEF LoseConnection
      <3>3. faults' \in F
        BY <1>8, <1>3 DEF LoseConnection, Meets, Faults
      <3> QED BY <3>1, <3>2, <3>3
    <2>2. inTx' \in [Conns -> BOOLEAN] /\ pend' \in [Conns -> S] /\ errno' \in [Conns -> E]
      BY <1>8, <1>1, <1>2 DEF LoseConnection
    <2> QED BY <2>1, <2>2 DEF S, F, O, E
  <1>9. CASE NoHandle(c)
    <2>1. log' \in S /\ losses' \in O /\ faults' \in F
      BY <1>9, <1>1, <1>3 DEF NoHandle, Meets, Faults
    <2>2. inTx' \in [Conns -> BOOLEAN] /\ pend' \in [Conns -> S] /\ errno' \in [Conns -> E]
      BY <1>9, <1>1 DEF NoHandle
    <2> QED BY <2>1, <2>2 DEF S, F, O, E
  <1> QED BY <1>5, <1>6, <1>7, <1>8, <1>9

\* ExecuteTransaction has returned false: the cursor is at the begin again, or
\* the request is done with.
LEMMA CursorAborted ==
  ASSUME TypeOK, Cursor, NEW c \in Conns, Aborted(c)
  PROVE  TypeOK' /\ Cursor'
  <1>1. /\ workers' = workers /\ req' = req /\ queue' = queue /\ mysql' = mysql
        /\ inTx' = inTx /\ pend' = pend /\ errno' = errno /\ log' = log
        /\ dropped' = dropped /\ alive' = alive /\ main' = main /\ losses' = losses
        /\ faults' = faults /\ Tasks' = Tasks /\ pc[c] = "aborted"
    BY DEF Aborted, At, Tasks
  <1>2. Busy(c)
    BY <1>1 DEF Busy
  <1>3. cur[c] \in Tasks /\ cur[c] # NoTask /\ c \in workers \cup SynchConns
        /\ IsTx(c) /\ (Shape(c).direct <=> c \in SynchConns)
    BY <1>1, <1>2 DEF TypeOK, Cursor
  <1>4. Shape(c).size \in Nat
    BY <1>3, ShapeFields DEF TypeOK, Shape
  <1>5. /\ tries' = IF TryAgain(c) THEN [tries EXCEPT ![cur[c]] = @ + 1] ELSE tries
        /\ next' = IF TryAgain(c) THEN [next EXCEPT ![c] = 1] ELSE next
        /\ pc' = [pc EXCEPT ![c] = IF TryAgain(c)
                     THEN IF Shape(c).size = 0 THEN "aborted" ELSE "begin" ELSE "idle"]
        /\ cur' = IF TryAgain(c) THEN cur ELSE [cur EXCEPT ![c] = NoTask]
        /\ finished' = IF TryAgain(c) THEN finished ELSE finished \cup {cur[c]}
    BY DEF Aborted, Finish
  <1>6. cur' \in [Conns -> Tasks \cup {NoTask}] /\ next' \in [Conns -> Nat]
        /\ pc' \in [Conns -> Calling \cup {"idle", "aborted", "exit"}]
        /\ finished' \in SUBSET Tasks
    <2>1. cur' \in [Conns -> Tasks \cup {NoTask}]
      BY <1>5 DEF TypeOK
    <2>2. next' \in [Conns -> Nat]
      BY <1>5 DEF TypeOK
    <2>3. pc' \in [Conns -> Calling \cup {"idle", "aborted", "exit"}]
      BY <1>5 DEF TypeOK, Calling
    <2>4. finished' \in SUBSET Tasks
      BY <1>3, <1>5 DEF TypeOK
    <2> QED BY <2>1, <2>2, <2>3, <2>4
  <1>7. tries' \in [1..MaxTasks -> 0..MaxTries]
    <2>1. cur[c] \in 1..MaxTasks
      <3>1. cur[c] \in 1..Len(req) /\ Len(req) \in Nat
        BY <1>3 DEF TypeOK, Tasks
      <3>2. Len(req) <= MaxTasks
        BY DEF Cursor
      <3> QED BY <3>1, <3>2, PoolAssumption
    <2>2. tries \in [1..MaxTasks -> 0..MaxTries]
      BY DEF TypeOK
    <2>3. TryAgain(c) => tries[cur[c]] + 1 \in 0..MaxTries
      BY <2>1, <2>2 DEF TryAgain, MaxTries
    <2>4. tries' = IF TryAgain(c) THEN [tries EXCEPT ![cur[c]] = tries[cur[c]] + 1] ELSE tries
      BY <1>5
    <2> QED BY <2>1, <2>2, <2>3, <2>4, ExceptType, Zenon
  <1>8. TypeOK'
    BY <1>1, <1>6, <1>7 DEF TypeOK
  <1>9. \A d \in Conns : d # c => cur'[d] = cur[d] /\ pc'[d] = pc[d] /\ next'[d] = next[d]
    BY <1>5 DEF TypeOK
  <1>10. /\ pc'[c] = IF TryAgain(c) THEN IF Shape(c).size = 0 THEN "aborted" ELSE "begin"
                                    ELSE "idle"
         /\ cur'[c] = IF TryAgain(c) THEN cur[c] ELSE NoTask
         /\ TryAgain(c) => next'[c] = 1
    BY <1>5 DEF TypeOK
  <1>11. Cursor'
    <2>1. Len(req') <= MaxTasks
      BY <1>1 DEF Cursor
    <2>2. ASSUME NEW d \in Conns PROVE (cur[d] = NoTask <=> ~Busy(d))'
      <3>1. CASE d = c
        BY <3>1, <1>3, <1>10 DEF Busy
      <3>2. CASE d # c
        BY <3>2, <1>9 DEF Cursor, Busy
      <3> QED BY <3>1, <3>2
    <2>3. ASSUME NEW d \in Conns, Busy(d)'
          PROVE  (/\ d \in workers \cup SynchConns
                  /\ Shape(d).direct <=> d \in SynchConns
                  /\ pc[d] = "run" => next[d] \in 1..Shape(d).size
                  /\ pc[d] = "begin" => next[d] = 1
                  /\ pc[d] # "run" => IsTx(d)
                  /\ pc[d] \in {"begin", "commit", "rollback"} => Shape(d).size > 0)'
      <3>1. CASE d = c
        <4>1. TryAgain(c)
          BY <3>1, <2>3, <1>10 DEF Busy
        <4> QED
          BY <3>1, <4>1, <1>1, <1>3, <1>4, <1>10 DEF Shape, IsTx
      <3>2. CASE d # c
        BY <3>2, <2>3, <1>1, <1>9 DEF Cursor, Busy, Shape, IsTx
      <3> QED BY <3>1, <3>2
    <2> QED BY <2>1, <2>2, <2>3 DEF Cursor
  <1> QED BY <1>8, <1>11

\* A step inside a request keeps types and cursors.
LEMMA CursorStep ==
  ASSUME TypeOK, Cursor, NEW c \in workers \cup SynchConns, Step(c)
  PROVE  TypeOK' /\ Cursor'
  <1>1. c \in Conns
    BY InConns DEF TypeOK
  <1>2. ASSUME NEW ok \in BOOLEAN, Called(c, ok), mysql' \in [Conns -> BOOLEAN],
               Answered(c) \/ Refused(c) \/ Deadlock(c) \/ LoseConnection(c) \/ NoHandle(c)
        PROVE  TypeOK' /\ Cursor'
    <2>1. pc[c] \in Calling /\ Tasks' = Tasks
          /\ workers' = workers /\ req' = req /\ queue' = queue /\ tries' = tries
          /\ dropped' = dropped /\ alive' = alive /\ main' = main
      BY <1>2 DEF Called, Tasks
    <2>2. /\ inTx' \in [Conns -> BOOLEAN]
          /\ pend' \in [Conns -> Seq(Tasks \X Nat)]
          /\ errno' \in [Conns -> {0, 1062, 1213}]
          /\ log' \in Seq(Tasks \X Nat)
          /\ losses' \in 0..MaxLosses
          /\ faults' \in SUBSET (Tasks \X Faults)
      BY <1>1, <1>2, <2>1, CallTypes
    <2>3. /\ cur' \in [Conns -> Tasks \cup {NoTask}]
          /\ pc' \in [Conns -> Calling \cup {"idle", "aborted", "exit"}]
          /\ next' \in [Conns -> Nat]
          /\ finished' \in SUBSET Tasks
          /\ Cursor'
      BY <1>1, <1>2, CalledCursor
    <2>4. TypeOK'
      <3>1. /\ workers' \in SUBSET AsyncConns /\ req' \in Seq(Requests)
            /\ queue' \in Seq(Tasks') /\ tries' \in [1..MaxTasks -> 0..MaxTries]
            /\ dropped' \in SUBSET Tasks' /\ alive' \in SUBSET Conns
            /\ main' \in {"open", "closing", "closed", "crashed"}
        BY <2>1 DEF TypeOK
      <3>2. mysql' \in [Conns -> BOOLEAN]
        BY <1>2
      <3>3. /\ cur' \in [Conns -> Tasks' \cup {NoTask}]
            /\ pend' \in [Conns -> Seq(Tasks' \X Nat)] /\ log' \in Seq(Tasks' \X Nat)
            /\ faults' \in SUBSET (Tasks' \X Faults)
            /\ finished' \in SUBSET Tasks'
        BY <2>1, <2>2, <2>3
      <3> QED BY <2>2, <2>3, <3>1, <3>2, <3>3 DEF TypeOK
    <2> QED BY <2>3, <2>4
  <1>3. mysql \in [Conns -> BOOLEAN]
    BY DEF TypeOK
  <1>4. CASE Answered(c)
    <2>1. Called(c, TRUE) /\ mysql' = mysql
      BY <1>4 DEF Answered, Called, At
    <2> QED BY <1>2, <1>3, <1>4, <2>1
  <1>5. CASE Refused(c)
    <2>1. Called(c, FALSE) /\ mysql' = mysql
      BY <1>5, RefusedCall, RefusedFrame
    <2> QED BY <1>2, <1>3, <1>5, <2>1
  <1>6. CASE Deadlock(c)
    <2>1. Called(c, FALSE) /\ mysql' = mysql
      BY <1>6, DeadlockCall, DeadlockFrame
    <2> QED BY <1>2, <1>3, <1>6, <2>1
  <1>7. CASE ReconnectFails(c)
    <2>1. Called(c, FALSE) /\ mysql' = [mysql EXCEPT ![c] = FALSE] /\ LoseConnection(c)
      BY <1>7 DEF ReconnectFails, LoseConnection, Called, At
    <2>2. mysql' \in [Conns -> BOOLEAN]
      BY <2>1, <1>3
    <2> QED BY <1>2, <2>1, <2>2
  <1>8. CASE NoHandle(c)
    <2>1. Called(c, FALSE) /\ mysql' = mysql
      BY <1>8 DEF NoHandle, Called, At
    <2> QED BY <1>2, <1>3, <1>8, <2>1
  <1>9. CASE Reconnect(c)
    <2>1. pc[c] \in Calling /\ LoseConnection(c) /\ Tasks' = Tasks
          /\ UNCHANGED <<workers, req, queue, cur, pc, next, tries, mysql, finished,
                         dropped, alive, main>>
      BY <1>9 DEF Reconnect, LoseConnection, At, Tasks
    <2>2. /\ inTx' \in [Conns -> BOOLEAN]
          /\ pend' \in [Conns -> Seq(Tasks \X Nat)]
          /\ errno' \in [Conns -> {0, 1062, 1213}]
          /\ log' \in Seq(Tasks \X Nat)
          /\ losses' \in 0..MaxLosses
          /\ faults' \in SUBSET (Tasks \X Faults)
      BY <1>1, <2>1, CallTypes
    <2>3. TypeOK'
      BY <2>1, <2>2 DEF TypeOK
    <2>4. Cursor'
      BY <2>1 DEF Cursor, Busy, Shape, IsTx
    <2> QED BY <2>3, <2>4
  <1>10. CASE Aborted(c)
    BY <1>1, <1>10, CursorAborted
  <1> QED
    BY <1>4, <1>5, <1>6, <1>7, <1>8, <1>9, <1>10 DEF Step

\* What the server holds keeps its type when a request is appended.
LEMMA GrowTypes ==
  ASSUME TypeOK, NEW r \in Requests, req' = Append(req, r),
         UNCHANGED <<pend, log, finished, dropped, faults>>
  PROVE  /\ pend' \in [Conns -> Seq(Tasks' \X Nat)]
         /\ log' \in Seq(Tasks' \X Nat)
         /\ finished' \in SUBSET Tasks'
         /\ dropped' \in SUBSET Tasks'
         /\ faults' \in SUBSET (Tasks' \X Faults)
         /\ queue \in Seq(Tasks')
         /\ cur \in [Conns -> Tasks' \cup {NoTask}]
  <1> DEFINE T == Tasks
             U == Tasks'
  <1>1. T \subseteq U
    BY ReqGrows DEF TypeOK
  <1>2. /\ pend' \in [Conns -> Seq(T \X Nat)] /\ log' \in Seq(T \X Nat)
        /\ finished' \in SUBSET T /\ dropped' \in SUBSET T
        /\ faults' \in SUBSET (T \X Faults)
        /\ queue \in Seq(T) /\ cur \in [Conns -> T \cup {NoTask}]
    BY DEF TypeOK
  <1> HIDE DEF T, U
  <1>3. T \X Nat \subseteq U \X Nat
    BY <1>1
  <1>4. Seq(T \X Nat) \subseteq Seq(U \X Nat) /\ Seq(T) \subseteq Seq(U)
    BY <1>1, <1>3, SeqMono
  <1>5. pend' \in [Conns -> Seq(U \X Nat)] /\ cur \in [Conns -> U \cup {NoTask}]
    <2>1. T \cup {NoTask} \subseteq U \cup {NoTask}
      BY <1>1
    <2> QED BY <1>2, <1>4, <2>1, FcnMono, Zenon
  <1>6. /\ finished' \in SUBSET U /\ dropped' \in SUBSET U
        /\ faults' \in SUBSET (U \X Faults)
    BY <1>1, <1>2
  <1> QED BY <1>2, <1>4, <1>5, <1>6 DEF U

\* A new request in the queue.
LEMMA CursorEnqueue ==
  ASSUME TypeOK, Cursor, NEW r \in Requests, Enqueue(r)
  PROVE  TypeOK' /\ Cursor'
  <1>1. /\ req' = Append(req, r) /\ Len(req) < MaxTasks
        /\ queue' = Append(queue, Len(req) + 1)
        /\ workers' = workers /\ cur' = cur /\ pc' = pc /\ next' = next /\ tries' = tries
        /\ mysql' = mysql /\ inTx' = inTx /\ pend' = pend /\ errno' = errno /\ log' = log
        /\ finished' = finished /\ dropped' = dropped /\ alive' = alive /\ main' = main
        /\ losses' = losses /\ faults' = faults
    BY DEF Enqueue
  <1>2. /\ req' \in Seq(Requests) /\ Len(req') = Len(req) + 1
        /\ Tasks \subseteq Tasks' /\ Len(req) + 1 \in Tasks'
        /\ \A t \in Tasks : req'[t] = req[t]
    BY <1>1, ReqGrows DEF TypeOK
  <1>3. /\ pend' \in [Conns -> Seq(Tasks' \X Nat)]
        /\ log' \in Seq(Tasks' \X Nat)
        /\ finished' \in SUBSET Tasks'
        /\ dropped' \in SUBSET Tasks'
        /\ faults' \in SUBSET (Tasks' \X Faults)
        /\ queue \in Seq(Tasks')
        /\ cur \in [Conns -> Tasks' \cup {NoTask}]
    BY <1>1, GrowTypes
  <1>4. queue' \in Seq(Tasks')
    BY <1>1, <1>2, <1>3, AppendProperties, Zenon
  <1>5. TypeOK'
    BY <1>1, <1>2, <1>3, <1>4 DEF TypeOK
  <1>6. Len(req') <= MaxTasks
    <2>1. Len(req) \in Nat
      BY DEF TypeOK
    <2>2. Len(req) + 1 <= MaxTasks
      BY <2>1, <1>1, PoolAssumption
    <2> QED BY <1>2, <2>2, Zenon
  <1>7. ASSUME NEW d \in Conns, Busy(d)
        PROVE  Shape(d)' = Shape(d)
    <2>1. cur[d] \in Tasks
      BY <1>7 DEF TypeOK, Cursor
    <2> QED BY <2>1, <1>1, <1>2 DEF Shape
  <1>8. Cursor'
    <2>1. \A d \in Conns : (cur[d] = NoTask <=> ~Busy(d))'
      BY <1>1 DEF Cursor, Busy
    <2>2. ASSUME NEW d \in Conns, Busy(d)'
          PROVE  (/\ d \in workers \cup SynchConns
                  /\ Shape(d).direct <=> d \in SynchConns
                  /\ pc[d] = "run" => next[d] \in 1..Shape(d).size
                  /\ pc[d] = "begin" => next[d] = 1
                  /\ pc[d] # "run" => IsTx(d)
                  /\ pc[d] \in {"begin", "commit", "rollback"} => Shape(d).size > 0)'
      <3>1. Busy(d)
        BY <2>2, <1>1 DEF Busy
      <3>2. Shape(d)' = Shape(d)
        BY <3>1, <1>7
      <3> QED BY <3>1, <3>2, <1>1 DEF Cursor, IsTx
    <2> QED BY <1>6, <2>1, <2>2 DEF Cursor
  <1> QED BY <1>5, <1>8

\* A calling thread begins its request.
LEMMA CursorDirect ==
  ASSUME TypeOK, Cursor, NEW r \in Requests, NEW c \in SynchConns, Direct(r, c)
  PROVE  TypeOK' /\ Cursor'
  <1>1. /\ req' = Append(req, r) /\ Len(req) < MaxTasks /\ r.direct
        /\ Start(c, Len(req) + 1, r)
        /\ workers' = workers /\ queue' = queue
        /\ mysql' = mysql /\ inTx' = inTx /\ pend' = pend /\ errno' = errno /\ log' = log
        /\ finished' = finished /\ dropped' = dropped /\ alive' = alive /\ main' = main
        /\ losses' = losses /\ faults' = faults
    BY DEF Direct
  <1>2. /\ req' \in Seq(Requests) /\ Len(req') = Len(req) + 1
        /\ Tasks \subseteq Tasks' /\ Len(req) + 1 \in Tasks'
        /\ \A t \in Tasks : req'[t] = req[t]
        /\ req'[Len(req) + 1] = r
    BY <1>1, ReqGrows DEF TypeOK
  <1>3. /\ pend' \in [Conns -> Seq(Tasks' \X Nat)]
        /\ log' \in Seq(Tasks' \X Nat)
        /\ finished' \in SUBSET Tasks'
        /\ dropped' \in SUBSET Tasks'
        /\ faults' \in SUBSET (Tasks' \X Faults)
        /\ queue \in Seq(Tasks')
    BY <1>1, GrowTypes
  <1>4. Len(req) + 1 \in 1..MaxTasks /\ Len(req) + 1 <= MaxTasks
    <2>1. Len(req) \in Nat
      BY DEF TypeOK
    <2> QED BY <2>1, <1>1, PoolAssumption
  <1>5. c \in Conns /\ c \in workers \cup SynchConns
    BY DEF Conns
  <1>6. /\ cur' \in [Conns -> Tasks' \cup {NoTask}]
        /\ pc' \in [Conns -> Calling \cup {"idle", "aborted", "exit"}]
        /\ next' \in [Conns -> Nat]
        /\ tries' \in [1..MaxTasks -> 0..MaxTries]
        /\ Cursor'
    <2> DEFINE t == Len(req) + 1
    <2>1. /\ t \in Tasks' /\ Start(c, t, req'[t]) /\ (req'[t].direct <=> c \in SynchConns)
          /\ Len(req') <= MaxTasks /\ t \in 1..MaxTasks
      BY <1>1, <1>2, <1>4, Zenon
    <2> HIDE DEF t
    <2> QED BY <1>1, <1>2, <1>5, <2>1, StartCursor, Zenon
  <1>7. TypeOK'
    BY <1>1, <1>2, <1>3, <1>6 DEF TypeOK
  <1> QED BY <1>6, <1>7

\* A worker begins the next request.
LEMMA CursorDequeue ==
  ASSUME TypeOK, Cursor, Places, NEW c \in workers, Dequeue(c)
  PROVE  TypeOK' /\ Cursor'
  <1>1. /\ queue # <<>> /\ queue' = Tail(queue)
        /\ Start(c, Head(queue), req[Head(queue)])
        /\ workers' = workers /\ req' = req
        /\ mysql' = mysql /\ inTx' = inTx /\ pend' = pend /\ errno' = errno /\ log' = log
        /\ finished' = finished /\ dropped' = dropped /\ alive' = alive /\ main' = main
        /\ losses' = losses /\ faults' = faults
    BY DEF Dequeue
  <1>2. Head(queue) \in Tasks /\ 1 \in DOMAIN queue /\ Head(queue) = queue[1]
        /\ queue' \in Seq(Tasks)
    <2>1. queue \in Seq(Tasks)
      BY DEF TypeOK
    <2> QED BY <2>1, <1>1
  <1>3. c \in Conns /\ c \notin SynchConns
    BY PoolAssumption DEF TypeOK, Conns, AsyncConns, SynchConns
  <1>4. ~req[Head(queue)].direct
    BY <1>2 DEF Places
  <1>5. Head(queue) \in 1..MaxTasks /\ Len(req) <= MaxTasks
    <2>1. Head(queue) \in 1..Len(req) /\ Len(req) \in Nat
      BY <1>2 DEF TypeOK, Tasks
    <2>2. Len(req) <= MaxTasks
      BY DEF Cursor
    <2> QED BY <2>1, <2>2, PoolAssumption
  <1>6. Tasks' = Tasks /\ req \in Seq(Requests)
    BY <1>1 DEF Tasks, TypeOK
  <1>7. /\ cur' \in [Conns -> Tasks' \cup {NoTask}]
        /\ pc' \in [Conns -> Calling \cup {"idle", "aborted", "exit"}]
        /\ next' \in [Conns -> Nat]
        /\ tries' \in [1..MaxTasks -> 0..MaxTries]
        /\ Cursor'
    <2> DEFINE t == Head(queue)
    <2>1. /\ t \in Tasks' /\ Start(c, t, req'[t]) /\ (req'[t].direct <=> c \in SynchConns)
          /\ Len(req') <= MaxTasks /\ t \in 1..MaxTasks /\ req' \in Seq(Requests)
          /\ Tasks \subseteq Tasks' /\ \A u \in Tasks : req'[u] = req[u]
          /\ c \in workers \cup SynchConns
      BY <1>1, <1>2, <1>3, <1>4, <1>5, <1>6, Zenon
    <2> HIDE DEF t
    <2> QED BY <1>1, <1>3, <2>1, StartCursor, Zenon
  <1>8. TypeOK'
    BY <1>1, <1>2, <1>6, <1>7 DEF TypeOK
  <1> QED BY <1>7, <1>8

\* Types and cursors are kept by every step.
LEMMA CursorNext ==
  ASSUME TypeOK, Cursor, Places, [Next]_vars
  PROVE  TypeOK' /\ Cursor'
  <1>1. ASSUME UNCHANGED <<workers, req, cur, pc, next>>
        PROVE  Cursor' /\ Tasks' = Tasks
    BY <1>1 DEF Cursor, Busy, Shape, IsTx, Tasks
  <1>2. ASSUME NEW r \in Requests, Enqueue(r) PROVE TypeOK' /\ Cursor'
    BY <1>2, CursorEnqueue
  <1>3. ASSUME NEW r \in Requests, NEW c \in SynchConns, Direct(r, c) PROVE TypeOK' /\ Cursor'
    BY <1>3, CursorDirect
  <1>4. ASSUME NEW c \in workers, Dequeue(c) PROVE TypeOK' /\ Cursor'
    BY <1>4, CursorDequeue
  <1>5. ASSUME NEW c \in workers \cup SynchConns, Step(c) PROVE TypeOK' /\ Cursor'
    BY <1>5, CursorStep
  <1>6. CASE CloseQueue
    <2>1. Cursor' /\ Tasks' = Tasks
      BY <1>1, <1>6 DEF CloseQueue
    <2>2. Waiting \in SUBSET Tasks /\ <<>> \in Seq(Tasks)
      BY DEF TypeOK, Waiting
    <2>3. TypeOK'
      BY <1>6, <2>1, <2>2 DEF CloseQueue, TypeOK
    <2> QED BY <2>1, <2>3
  <1>7. ASSUME NEW c \in workers, WorkerEnds(c) PROVE TypeOK' /\ Cursor'
    <2>1. c \in Conns /\ pc[c] = "idle" /\ pc' = [pc EXCEPT ![c] = "exit"]
          /\ workers' = workers /\ req' = req /\ cur' = cur /\ next' = next
      BY <1>7 DEF WorkerEnds, TypeOK, Conns
    <2>2. pc' \in [Conns -> Calling \cup {"idle", "aborted", "exit"}] /\ Tasks' = Tasks
      BY <2>1 DEF TypeOK, Tasks
    <2>3. TypeOK'
      BY <1>7, <2>1, <2>2 DEF WorkerEnds, TypeOK
    <2>4. pc'[c] = "exit" /\ \A d \in Conns : d # c => pc'[d] = pc[d]
      BY <2>1 DEF TypeOK
    <2>5. Cursor'
      BY <2>1, <2>4 DEF Cursor, Busy, Shape, IsTx
    <2> QED BY <2>3, <2>5
  <1>8. ASSUME NEW c \in Conns, CloseConnection(c) PROVE TypeOK' /\ Cursor'
    <2>1. Cursor' /\ Tasks' = Tasks
      BY <1>1, <1>8 DEF CloseConnection
    <2>2. alive' \in SUBSET Conns /\ main' \in {"open", "closing", "closed", "crashed"}
      BY <1>8 DEF CloseConnection, TypeOK
    <2>3. TypeOK'
      BY <1>8, <2>1, <2>2 DEF CloseConnection, TypeOK
    <2> QED BY <2>1, <2>3
  <1>9. CASE Terminated \/ UNCHANGED vars
    <2>1. UNCHANGED vars
      BY <1>9 DEF Terminated
    <2>2. Cursor' /\ Tasks' = Tasks
      BY <1>1, <2>1 DEF vars
    <2>3. TypeOK'
      BY <2>1, <2>2 DEF vars, TypeOK
    <2> QED BY <2>2, <2>3
  <1> QED
    BY <1>2, <1>3, <1>4, <1>5, <1>6, <1>7, <1>8, <1>9 DEF Next

-----------------------------------------------------------------------------
(* Where requests are.                                                      *)

\* The elements of a set of one connection are equal.
LEMMA OneWorker ==
  ASSUME workers \in SUBSET AsyncConns, Cardinality(workers) = 1
  PROVE  \A c, d \in workers : c = d
  <1>1. IsFiniteSet(AsyncConns)
    <2>1. 1 \in Int /\ MaxAsync \in Int
      BY PoolAssumption
    <2> QED BY <2>1, FS_Interval DEF AsyncConns
  <1>2. IsFiniteSet(workers)
    BY <1>1, FS_Subset
  <1>3. \E x : workers = {x}
    BY <1>2, FS_Singleton
  <1> QED BY <1>3

\* Requests are numbers, and none of them is NoTask.
LEMMA TaskNumbers ==
  ASSUME TypeOK
  PROVE  /\ Tasks = 1..Len(req) /\ Len(req) \in Nat
         /\ \A t \in Tasks : t \in Nat /\ t # NoTask /\ t <= Len(req)
         /\ finished \subseteq Tasks /\ NoTask \notin finished
         /\ \A i \in DOMAIN queue : queue[i] \in Tasks
         /\ \A c \in Conns : cur[c] \in Tasks \cup {NoTask}
         /\ \A t \in Tasks \cup {NoTask} : t \in Nat
  <1>1. Tasks = 1..Len(req) /\ Len(req) \in Nat
    BY DEF TypeOK, Tasks
  <1>2. \A t \in Tasks : t \in Nat /\ t # NoTask /\ t <= Len(req)
    BY <1>1 DEF NoTask
  <1>3. finished \subseteq Tasks /\ \A c \in Conns : cur[c] \in Tasks \cup {NoTask}
    BY DEF TypeOK
  <1>4. \A i \in DOMAIN queue : queue[i] \in Tasks
    BY DEF TypeOK
  <1>5. NoTask \in Nat
    BY DEF NoTask
  <1> QED BY <1>1, <1>2, <1>3, <1>4, <1>5

\* A request that is done with leaves its connection.
LEMMA PlacesFinish ==
  ASSUME TypeOK, Cursor, Places, NEW c \in Conns, Busy(c),
         cur' = [cur EXCEPT ![c] = NoTask], finished' = finished \cup {cur[c]},
         UNCHANGED <<workers, req, queue>>
  PROVE  Places'
  <1>1. cur[c] \in Tasks /\ cur[c] # NoTask /\ NoTask \notin finished /\ NoTask \notin Tasks
    BY TaskNumbers DEF Cursor
  <1>2. cur'[c] = NoTask /\ \A d \in Conns : d # c => cur'[d] = cur[d]
    BY DEF TypeOK
  <1>3. Tasks' = Tasks
    BY DEF Tasks
  <1>4. \A t \in Tasks : Started(t)' => Started(t)
    BY <1>1, <1>2 DEF Started
  <1>5. \A i \in DOMAIN queue' : \A t \in Tasks' :
          Started(t)' /\ ~req'[t].direct => t < queue'[i]
    BY <1>3, <1>4 DEF Places
  <1>6. \A e, d \in Conns : cur'[e] = cur'[d] /\ cur'[e] # NoTask => e = d
    BY <1>2 DEF Places
  <1>7. \A d \in Conns : cur'[d] \notin finished'
    BY <1>1, <1>2 DEF Places
  <1>8. ASSUME Cardinality(workers') = 1, NEW d \in workers', NEW t \in finished',
               ~req'[t].direct, cur'[d] # NoTask
        PROVE  t < cur'[d]
    <2>1. d \in workers /\ d # c /\ d \in Conns
      BY <1>2, <1>8 DEF TypeOK, Conns
    <2>2. CASE c \in workers
      BY <2>1, <2>2, <1>8, OneWorker DEF TypeOK
    <2>3. CASE c \notin workers
      <3>1. c \in SynchConns /\ req[cur[c]].direct
        BY <2>3 DEF Cursor, Shape
      <3>2. t \in finished
        BY <3>1, <1>8
      <3> QED BY <3>2, <2>1, <1>2, <1>8 DEF Places
    <2> QED BY <2>2, <2>3
  <1>9. /\ \A i \in DOMAIN queue' : ~req'[queue'[i]].direct
        /\ \A i, j \in DOMAIN queue' : i < j => queue'[i] < queue'[j]
    BY DEF Places
  <1> QED BY <1>5, <1>6, <1>7, <1>8, <1>9 DEF Places

\* The first request of the queue goes to an idle worker.
LEMMA PlacesDequeue ==
  ASSUME TypeOK, Cursor, Places, NEW c \in workers, Dequeue(c)
  PROVE  Places'
  <1> DEFINE h == queue[1]
  <1>1. /\ queue # <<>> /\ queue' = Tail(queue) /\ pc[c] = "idle"
        /\ cur' = [cur EXCEPT ![c] = Head(queue)]
        /\ workers' = workers /\ req' = req /\ finished' = finished
    BY DEF Dequeue, Start
  <1>2. /\ Head(queue) = h /\ h \in Tasks /\ 1 \in DOMAIN queue
        /\ \A i \in DOMAIN queue' : /\ i + 1 \in DOMAIN queue
                                    /\ queue'[i] = queue[i + 1]
                                    /\ i \in Nat \ {0}
    <2>1. queue \in Seq(Tasks)
      BY DEF TypeOK
    <2> QED BY <2>1, <1>1
  <1> HIDE DEF h
  <1>3. c \in Conns /\ c \notin SynchConns
    BY PoolAssumption DEF TypeOK, Conns, AsyncConns, SynchConns
  <1>4. cur'[c] = h /\ \A d \in Conns : d # c => cur'[d] = cur[d]
    BY <1>1, <1>2, <1>3 DEF TypeOK
  <1>5. cur[c] = NoTask
    BY <1>1, <1>3 DEF Cursor, Busy
  <1>6. Tasks' = Tasks
    BY <1>1 DEF Tasks
  <1>7. ~req[h].direct
    BY <1>2 DEF Places, h
  <1>8. ~Started(h)
    <2>1. Started(h) => h < h
      BY <1>2, <1>7 DEF Places, h
    <2>2. h \in Nat
      BY <1>2, TaskNumbers
    <2> QED BY <2>1, <2>2
  <1>9. \A t \in Tasks : Started(t)' => Started(t) \/ t = h
    BY <1>1, <1>4 DEF Started
  <1>10. ASSUME NEW i \in DOMAIN queue', NEW t \in Tasks', Started(t)', ~req'[t].direct
         PROVE  t < queue'[i]
    <2>1. CASE t = h
      <3>1. 1 < i + 1
        BY <1>2
      <3> QED BY <2>1, <3>1, <1>2 DEF Places, h
    <2>2. CASE Started(t)
      BY <2>2, <1>1, <1>2, <1>6, <1>10 DEF Places
    <2> QED BY <2>1, <2>2, <1>6, <1>9, <1>10
  <1>11. \A e, d \in Conns : cur'[e] = cur'[d] /\ cur'[e] # NoTask => e = d
    <2>1. \A d \in Conns : cur[d] # h
      BY <1>8 DEF Started
    <2> QED BY <2>1, <1>4 DEF Places
  <1>12. \A d \in Conns : cur'[d] \notin finished'
    BY <1>1, <1>4, <1>8 DEF Places, Started
  <1>13. ASSUME Cardinality(workers') = 1, NEW d \in workers', NEW t \in finished',
                ~req'[t].direct, cur'[d] # NoTask
         PROVE  t < cur'[d]
    <2>1. t \in Tasks /\ Started(t) /\ d \in Conns
      BY <1>1, <1>13, TaskNumbers DEF Started, TypeOK, Conns
    <2>2. CASE d = c
      BY <2>1, <2>2, <1>1, <1>2, <1>4, <1>13 DEF Places, h
    <2>3. CASE d # c
      BY <2>1, <2>3, <1>1, <1>4, <1>13 DEF Places
    <2> QED BY <2>2, <2>3
  <1>14. \A i \in DOMAIN queue' : ~req'[queue'[i]].direct
    BY <1>1, <1>2 DEF Places
  <1>15. ASSUME NEW i \in DOMAIN queue', NEW j \in DOMAIN queue', i < j
         PROVE  queue'[i] < queue'[j]
    <2>1. i + 1 < j + 1
      BY <1>2, <1>15
    <2> QED BY <2>1, <1>2, <1>15 DEF Places
  <1> QED BY <1>10, <1>11, <1>12, <1>13, <1>14, <1>15 DEF Places

\* A new request is the last of the queue.
LEMMA PlacesEnqueue ==
  ASSUME TypeOK, Cursor, Places, NEW r \in Requests, Enqueue(r)
  PROVE  Places'
  <1> DEFINE n == Len(req) + 1
  <1>1. /\ req' = Append(req, r) /\ ~r.direct /\ queue' = Append(queue, n)
        /\ workers' = workers /\ cur' = cur /\ finished' = finished
    BY DEF Enqueue
  <1>2. /\ Tasks \subseteq Tasks' /\ n \in Nat /\ n # NoTask
        /\ \A t \in Tasks : req'[t] = req[t] /\ t < n
        /\ req'[n] = r /\ \A t \in Tasks' : t = n \/ t \in Tasks
    <2>1. Len(req) \in Nat /\ req \in Seq(Requests)
      BY DEF TypeOK
    <2>2. /\ Tasks = 1..Len(req) /\ Tasks' = 1..n /\ Tasks \subseteq Tasks'
          /\ \A t \in Tasks : req'[t] = req[t]
          /\ req'[n] = r
      BY <2>1, <1>1, ReqGrows
    <2> QED BY <2>1, <2>2 DEF NoTask
  <1>3. /\ DOMAIN queue' = 1..(Len(queue) + 1) /\ Len(queue) \in Nat
        /\ DOMAIN queue = 1..Len(queue)
        /\ \A i \in DOMAIN queue : queue'[i] = queue[i] /\ queue[i] \in Tasks
        /\ queue'[Len(queue) + 1] = n
    <2>1. queue \in Seq(Tasks)
      BY DEF TypeOK
    <2> HIDE DEF n
    <2> QED BY <2>1, <1>1
  <1> DEFINE last == Len(queue) + 1
  <1>4. \A i \in DOMAIN queue' : i = last \/ (i \in DOMAIN queue /\ i < last)
    BY <1>3
  <1>5. last \notin DOMAIN queue /\ \A i \in DOMAIN queue : i \in Nat /\ i < last
    BY <1>3
  <1> HIDE DEF n, last
  <1>6. ASSUME NEW t \in Tasks', Started(t)' PROVE Started(t) /\ t \in Tasks
    <2>1. Started(t)
      BY <1>1, <1>6 DEF Started
    <2>2. t \in Tasks \cup {NoTask}
      BY <2>1, TaskNumbers DEF Started
    <2>3. t # NoTask
      BY <1>2, TaskNumbers
    <2> QED BY <2>1, <2>2, <2>3
  <1>7. ASSUME NEW i \in DOMAIN queue' PROVE ~req'[queue'[i]].direct
    <2>1. CASE i = last
      BY <2>1, <1>1, <1>2, <1>3 DEF last
    <2>2. CASE i \in DOMAIN queue
      BY <2>2, <1>2, <1>3 DEF Places
    <2> QED BY <2>1, <2>2, <1>4
  <1>8. ASSUME NEW i \in DOMAIN queue', NEW j \in DOMAIN queue', i < j
        PROVE  queue'[i] < queue'[j]
    <2>1. i \in DOMAIN queue
      <3>1. i = last => j = last \/ j < last
        BY <1>4
      <3> QED BY <3>1, <1>3, <1>4, <1>8 DEF last
    <2>2. CASE j = last
      BY <2>1, <2>2, <1>2, <1>3 DEF last
    <2>3. CASE j \in DOMAIN queue
      BY <2>1, <2>3, <1>3, <1>8 DEF Places
    <2> QED BY <2>2, <2>3, <1>4
  <1>9. ASSUME NEW i \in DOMAIN queue', NEW t \in Tasks', Started(t)', ~req'[t].direct
        PROVE  t < queue'[i]
    <2>1. t \in Tasks /\ Started(t) /\ ~req[t].direct
      BY <1>2, <1>6, <1>9
    <2>2. CASE i = last
      BY <2>1, <2>2, <1>2, <1>3 DEF last
    <2>3. CASE i \in DOMAIN queue
      BY <2>1, <2>3, <1>3 DEF Places
    <2> QED BY <2>2, <2>3, <1>4
  <1>10. ASSUME Cardinality(workers') = 1, NEW d \in workers', NEW t \in finished',
                ~req'[t].direct, cur'[d] # NoTask
         PROVE  t < cur'[d]
    BY <1>1, <1>2, <1>10, TaskNumbers DEF Places
  <1> QED BY <1>1, <1>7, <1>8, <1>9, <1>10 DEF Places

\* A request of a calling thread is never in the queue.
LEMMA PlacesDirect ==
  ASSUME TypeOK, Cursor, Places, NEW r \in Requests, NEW c \in SynchConns, Direct(r, c)
  PROVE  Places'
  <1> DEFINE n == Len(req) + 1
  <1>1. /\ req' = Append(req, r) /\ r.direct /\ cur' = [cur EXCEPT ![c] = n]
        /\ workers' = workers /\ queue' = queue /\ finished' = finished
    BY DEF Direct, Start
  <1>2. /\ Tasks \subseteq Tasks' /\ n \in Nat /\ n \notin Tasks /\ n # NoTask
        /\ \A t \in Tasks : req'[t] = req[t] /\ t < n
        /\ req'[n] = r /\ \A t \in Tasks' : t = n \/ t \in Tasks
    <2>1. Len(req) \in Nat /\ req \in Seq(Requests)
      BY DEF TypeOK
    <2>2. /\ Tasks = 1..Len(req) /\ Tasks' = 1..n /\ Tasks \subseteq Tasks'
          /\ \A t \in Tasks : req'[t] = req[t]
          /\ req'[n] = r
      BY <2>1, <1>1, ReqGrows
    <2> QED BY <2>1, <2>2 DEF NoTask
  <1> HIDE DEF n
  <1>3. c \in Conns /\ c \notin workers
    BY PoolAssumption DEF TypeOK, Conns, AsyncConns, SynchConns
  <1>4. cur'[c] = n /\ \A d \in Conns : d # c => cur'[d] = cur[d]
    BY <1>1, <1>3 DEF TypeOK
  <1>5. n \notin finished /\ \A d \in Conns : cur[d] # n
    BY <1>2, TaskNumbers
  <1>6. \A i \in DOMAIN queue' : ~req'[queue'[i]].direct
    BY <1>1, <1>2, TaskNumbers DEF Places
  <1>7. \A i, j \in DOMAIN queue' : i < j => queue'[i] < queue'[j]
    BY <1>1 DEF Places
  <1>8. ASSUME NEW i \in DOMAIN queue', NEW t \in Tasks', Started(t)', ~req'[t].direct
        PROVE  t < queue'[i]
    <2>1. t \in Tasks
      BY <1>1, <1>2, <1>8
    <2>2. ~req[t].direct /\ t # n
      BY <2>1, <1>2, <1>8
    <2>3. Started(t)
      BY <2>2, <1>1, <1>4, <1>8 DEF Started
    <2> QED BY <2>1, <2>2, <2>3, <1>1 DEF Places
  <1>9. \A e, d \in Conns : cur'[e] = cur'[d] /\ cur'[e] # NoTask => e = d
    BY <1>4, <1>5 DEF Places
  <1>10. \A d \in Conns : cur'[d] \notin finished'
    BY <1>1, <1>4, <1>5 DEF Places
  <1>11. ASSUME Cardinality(workers') = 1, NEW d \in workers', NEW t \in finished',
                ~req'[t].direct, cur'[d] # NoTask
         PROVE  t < cur'[d]
    <2>1. d # c /\ d \in Conns /\ t \in Tasks
      BY <1>1, <1>3, <1>11, TaskNumbers DEF TypeOK, Conns
    <2> QED BY <2>1, <1>1, <1>2, <1>4, <1>11 DEF Places
  <1> QED BY <1>6, <1>7, <1>8, <1>9, <1>10, <1>11 DEF Places

\* Requests stay where they are, or go from the queue to a connection and from
\* there to the finished ones.
LEMMA PlacesNext ==
  ASSUME TypeOK, Cursor, Places, [Next]_vars
  PROVE  Places'
  <1>1. ASSUME UNCHANGED <<workers, req, cur, finished>>, queue' = queue \/ queue' = <<>>
        PROVE  Places'
    <2>1. Tasks' = Tasks /\ (\A t \in Tasks : Started(t)' => Started(t))
      BY <1>1 DEF Tasks, Started
    <2>2. CASE queue' = queue
      BY <1>1, <2>1, <2>2 DEF Places
    <2>3. CASE queue' = <<>>
      <3>1. DOMAIN queue' = {}
        BY <2>3
      <3> QED BY <1>1, <3>1 DEF Places
    <2> QED BY <1>1, <2>2, <2>3
  <1>2. ASSUME NEW r \in Requests, Enqueue(r) PROVE Places'
    BY <1>2, PlacesEnqueue
  <1>3. ASSUME NEW r \in Requests, NEW c \in SynchConns, Direct(r, c) PROVE Places'
    BY <1>3, PlacesDirect
  <1>4. ASSUME NEW c \in workers, Dequeue(c) PROVE Places'
    BY <1>4, PlacesDequeue
  <1>5. ASSUME NEW c \in workers \cup SynchConns, Step(c) PROVE Places'
    <2>1. c \in Conns
      BY <1>5, InConns DEF TypeOK
    <2>2. ASSUME NEW ok \in BOOLEAN, Called(c, ok) PROVE Places'
      <3>1. CASE After(c, ok) = "idle"
        <4>1. /\ Busy(c) /\ cur' = [cur EXCEPT ![c] = NoTask]
              /\ finished' = finished \cup {cur[c]} /\ UNCHANGED <<workers, req, queue>>
          BY <2>2, <3>1 DEF Called, Return, Finish, Busy, Calling
        <4> QED BY <2>1, <4>1, PlacesFinish
      <3>2. CASE After(c, ok) # "idle"
        <4>1. UNCHANGED <<workers, req, cur, finished, queue>>
          BY <2>2, <3>2 DEF Called, Return
        <4> QED BY <1>1, <4>1
      <3> QED BY <3>1, <3>2
    <2>3. CASE Reconnect(c)
      BY <1>1, <2>3 DEF Reconnect
    <2>4. CASE Aborted(c)
      <3>1. CASE TryAgain(c)
        BY <1>1, <2>4, <3>1 DEF Aborted
      <3>2. CASE ~TryAgain(c)
        <4>1. /\ Busy(c) /\ cur' = [cur EXCEPT ![c] = NoTask]
              /\ finished' = finished \cup {cur[c]} /\ UNCHANGED <<workers, req, queue>>
          BY <2>4, <3>2 DEF Aborted, Finish, Busy, At
        <4> QED BY <2>1, <4>1, PlacesFinish
      <3> QED BY <3>1, <3>2
    <2> QED BY <1>5, <2>2, <2>3, <2>4, StepCases
  <1>6. CASE CloseQueue
    BY <1>1, <1>6 DEF CloseQueue
  <1>7. ASSUME NEW c \in workers, WorkerEnds(c) PROVE Places'
    BY <1>1, <1>7 DEF WorkerEnds
  <1>8. ASSUME NEW c \in Conns, CloseConnection(c) PROVE Places'
    BY <1>1, <1>8 DEF CloseConnection
  <1>9. CASE Terminated \/ UNCHANGED vars
    BY <1>1, <1>9 DEF Terminated, vars
  <1> QED
    BY <1>2, <1>3, <1>4, <1>5, <1>6, <1>7, <1>8, <1>9 DEF Next

\* No request has a place initially.
LEMMA PlacesInit == Init => Places
  <1> SUFFICES ASSUME Init PROVE Places
    OBVIOUS
  <1>1. DOMAIN queue = {} /\ finished = {} /\ \A c \in Conns : cur[c] = NoTask
    BY DEF Init
  <1> QED BY <1>1 DEF Places

Located == TypeOK /\ Cursor /\ Places

\* Types, cursors and places after any step.
LEMMA LocatedNext ==
  ASSUME Located, [Next]_vars
  PROVE  Located'
  <1>1. TypeOK /\ Cursor /\ Places
    BY DEF Located
  <1> QED BY <1>1, CursorNext, PlacesNext, Zenon DEF Located

\* Types, cursors and places are invariants.
LEMMA LocatedInvariant == Spec => []Located
  <1>1. Init => Located
    BY CursorInit, PlacesInit, Zenon DEF Located
  <1>2. ASSUME Located, [Next]_vars PROVE Located'
    BY <1>2, LocatedNext
  <1> QED BY <1>1, <1>2, PTL DEF Spec

\* The variables of the pool stay in the ranges of their declarations: no
\* connection executes a request that was not made, and no transaction is tried
\* more than loopBreaker allows.
THEOREM TypeCorrect == Spec => []TypeOK
  <1>1. Located => TypeOK
    BY DEF Located
  <1> QED BY <1>1, LocatedInvariant, PTL

-----------------------------------------------------------------------------
(* Sessions.                                                                *)

\* A connection another one's step leaves alone.
Untouched(d) ==
  /\ cur'[d] = cur[d] /\ pc'[d] = pc[d] /\ next'[d] = next[d] /\ mysql'[d] = mysql[d]
  /\ inTx'[d] = inTx[d] /\ pend'[d] = pend[d] /\ errno'[d] = errno[d]
  /\ Busy(d) => Shape(d)' = Shape(d) /\ tries'[cur[d]] = tries[cur[d]]

\* The session of such a connection is what it was.
LEMMA SessionFrame ==
  ASSUME NEW d \in Conns, Cursor, SessionOf(d), Untouched(d)
  PROVE  SessionOf(d)'
  <1>1. Busy(d)' = Busy(d) /\ (inTx[d] => Busy(d))
    BY DEF Busy, SessionOf, OpenTx, Untouched
  <1>2. Busy(d) => IsTx(d)' = IsTx(d) /\ Shape(d)' = Shape(d)
                   /\ tries'[cur'[d]] = tries[cur[d]]
    BY DEF Untouched, IsTx
  <1>3. inTx[d] => OpenTx(d)'
    BY <1>1, <1>2 DEF SessionOf, OpenTx, Untouched
  <1>4. FirstAttempt(d)'
    <2> SUFFICES ASSUME (Busy(d) /\ IsTx(d) /\ Shape(d).size > 0)'
                 PROVE  tries'[cur'[d]] = 1 /\ (pc'[d] = "aborted" => errno'[d] # 1213)
      BY DEF FirstAttempt
    <2>1. Busy(d) /\ IsTx(d) /\ Shape(d).size > 0
      BY <1>1, <1>2
    <2>2. tries[cur[d]] = 1 /\ (pc[d] = "aborted" => errno[d] # 1213)
      BY <2>1 DEF SessionOf, FirstAttempt
    <2> QED BY <2>1, <2>2, <1>2 DEF Untouched
  <1> QED BY <1>3, <1>4 DEF SessionOf, Untouched

\* A step inside a request concerns its own connection alone.
LEMMA StepFrame ==
  ASSUME Located, NEW c \in workers \cup SynchConns, Step(c), NEW d \in Conns, d # c
  PROVE  Untouched(d)
  <1>1. c \in Conns
    BY InConns DEF Located, TypeOK
  <1>2. /\ cur \in [Conns -> Tasks \cup {NoTask}] /\ next \in [Conns -> Nat]
        /\ pc \in [Conns -> Calling \cup {"idle", "aborted", "exit"}]
        /\ mysql \in [Conns -> BOOLEAN] /\ inTx \in [Conns -> BOOLEAN]
        /\ pend \in [Conns -> Seq(Tasks \X Nat)] /\ errno \in [Conns -> {0, 1062, 1213}]
    BY DEF Located, TypeOK
  <1>3. ASSUME NEW ok \in BOOLEAN, Called(c, ok)
        PROVE  /\ cur'[d] = cur[d] /\ pc'[d] = pc[d] /\ next'[d] = next[d]
               /\ Shape(d)' = Shape(d) /\ tries'[cur[d]] = tries[cur[d]]
    <2>1. /\ pc' = [pc EXCEPT ![c] = After(c, ok)]
          /\ next' = IF pc[c] = "run" THEN [next EXCEPT ![c] = @ + 1] ELSE next
          /\ cur' = IF After(c, ok) = "idle" THEN [cur EXCEPT ![c] = NoTask] ELSE cur
          /\ req' = req /\ tries' = tries
      BY <1>3 DEF Called, Return, Finish
    <2>2. cur'[d] = cur[d] /\ pc'[d] = pc[d] /\ next'[d] = next[d]
      BY <1>1, <1>2, <2>1
    <2> QED BY <2>1, <2>2 DEF Shape
  <1>4. CASE Answered(c)
    <2>1. mysql'[d] = mysql[d] /\ inTx'[d] = inTx[d] /\ pend'[d] = pend[d] /\ errno'[d] = errno[d]
      BY <1>1, <1>2, <1>4 DEF Answered
    <2>2. Called(c, TRUE)
      BY <1>4 DEF Answered, Called, At
    <2> QED BY <1>3, <2>1, <2>2 DEF Untouched
  <1>5. CASE Refused(c)
    <2>1. mysql'[d] = mysql[d] /\ inTx'[d] = inTx[d] /\ pend'[d] = pend[d] /\ errno'[d] = errno[d]
      BY <1>1, <1>2, <1>5 DEF Refused
    <2>2. Called(c, FALSE)
      BY <1>5, RefusedCall
    <2> QED BY <1>3, <2>1, <2>2 DEF Untouched
  <1>6. CASE Deadlock(c)
    <2>1. mysql'[d] = mysql[d] /\ inTx'[d] = inTx[d] /\ pend'[d] = pend[d] /\ errno'[d] = errno[d]
      BY <1>1, <1>2, <1>6 DEF Deadlock
    <2>2. Called(c, FALSE)
      BY <1>6, DeadlockCall
    <2> QED BY <1>3, <2>1, <2>2 DEF Untouched
  <1>7. CASE ReconnectFails(c)
    <2>1. mysql'[d] = mysql[d] /\ inTx'[d] = inTx[d] /\ pend'[d] = pend[d] /\ errno'[d] = errno[d]
      BY <1>1, <1>2, <1>7 DEF ReconnectFails, LoseConnection
    <2>2. Called(c, FALSE)
      BY <1>7 DEF ReconnectFails, LoseConnection, Called, At
    <2> QED BY <1>3, <2>1, <2>2 DEF Untouched
  <1>8. CASE NoHandle(c)
    <2>1. mysql'[d] = mysql[d] /\ inTx'[d] = inTx[d] /\ pend'[d] = pend[d] /\ errno'[d] = errno[d]
      BY <1>8 DEF NoHandle
    <2>2. Called(c, FALSE)
      BY <1>8 DEF NoHandle, Called, At
    <2> QED BY <1>3, <2>1, <2>2 DEF Untouched
  <1>9. CASE Reconnect(c)
    <2>1. mysql'[d] = mysql[d] /\ inTx'[d] = inTx[d] /\ pend'[d] = pend[d] /\ errno'[d] = errno[d]
      BY <1>1, <1>2, <1>9 DEF Reconnect, LoseConnection
    <2> QED BY <1>9, <2>1 DEF Reconnect, Untouched, Shape
  <1>10. CASE Aborted(c)
    <2>1. /\ tries' = IF TryAgain(c) THEN [tries EXCEPT ![cur[c]] = @ + 1] ELSE tries
          /\ next' = IF TryAgain(c) THEN [next EXCEPT ![c] = 1] ELSE next
          /\ pc' = [pc EXCEPT ![c] = IF TryAgain(c)
                       THEN IF Shape(c).size = 0 THEN "aborted" ELSE "begin" ELSE "idle"]
          /\ cur' = IF TryAgain(c) THEN cur ELSE [cur EXCEPT ![c] = NoTask]
          /\ mysql' = mysql /\ inTx' = inTx /\ pend' = pend /\ errno' = errno /\ req' = req
      BY <1>10 DEF Aborted, Finish
    <2>2. cur'[d] = cur[d] /\ pc'[d] = pc[d] /\ next'[d] = next[d]
      BY <1>1, <1>2, <2>1
    <2>3. Busy(d) => tries'[cur[d]] = tries[cur[d]]
      <3>1. Busy(d) => cur[d] # cur[c]
        BY <1>1 DEF Located, Cursor, Places
      <3>2. tries \in [1..MaxTasks -> 0..MaxTries] /\ (Busy(d) => cur[d] \in 1..MaxTasks)
        <4>1. Busy(d) => cur[d] \in 1..Len(req)
          BY <1>2, TaskNumbers DEF Located, Cursor
        <4>2. Len(req) <= MaxTasks /\ Len(req) \in Nat
          BY TaskNumbers DEF Located, Cursor
        <4>3. tries \in [1..MaxTasks -> 0..MaxTries]
          BY DEF Located, TypeOK
        <4> QED BY <4>1, <4>2, <4>3, PoolAssumption
      <3> QED BY <3>1, <3>2, <2>1
    <2> QED BY <2>1, <2>2, <2>3 DEF Untouched, Shape
  <1> QED
    BY <1>4, <1>5, <1>6, <1>7, <1>8, <1>9, <1>10 DEF Step

\* What is known of a connection at a call, and where it is afterwards.
LEMMA CalledFacts ==
  ASSUME Located, NEW c \in Conns, NEW ok \in BOOLEAN, Called(c, ok)
  PROVE  /\ Busy(c) /\ pc[c] \in Calling /\ cur[c] \in Tasks /\ cur[c] # NoTask
         /\ Shape(c).size \in Nat /\ next[c] \in Nat /\ IsTx(c) \in BOOLEAN
         /\ pc[c] = "run" => next[c] \in 1..Shape(c).size
         /\ pc[c] = "begin" => next[c] = 1
         /\ pc[c] # "run" => IsTx(c)
         /\ pc'[c] = After(c, ok)
         /\ next'[c] = IF pc[c] = "run" THEN next[c] + 1 ELSE next[c]
         /\ req' = req /\ tries' = tries /\ workers' = workers /\ Tasks' = Tasks
         /\ After(c, ok) = "idle" => cur'[c] = NoTask /\ finished' = finished \cup {cur[c]}
         /\ After(c, ok) # "idle" => /\ cur'[c] = cur[c] /\ finished' = finished
                                     /\ Shape(c)' = Shape(c) /\ IsTx(c)' = IsTx(c)
         /\ Busy(c)' => After(c, ok) # "idle"
  <1> USE DEF Located
  <1>1. Busy(c) /\ pc[c] \in Calling
    BY DEF Called, Busy, Calling
  <1>2. cur[c] \in Tasks /\ cur[c] # NoTask
    BY <1>1, TaskNumbers DEF Cursor
  <1>3. Shape(c).size \in Nat
    BY <1>2, ShapeFields DEF Shape, TypeOK
  <1>4. /\ pc[c] = "run" => next[c] \in 1..Shape(c).size
        /\ pc[c] = "begin" => next[c] = 1
        /\ pc[c] # "run" => IsTx(c)
    BY <1>1 DEF Cursor
  <1>5. /\ pc' = [pc EXCEPT ![c] = After(c, ok)]
        /\ next' = IF pc[c] = "run" THEN [next EXCEPT ![c] = @ + 1] ELSE next
        /\ cur' = IF After(c, ok) = "idle" THEN [cur EXCEPT ![c] = NoTask] ELSE cur
        /\ finished' = IF After(c, ok) = "idle" THEN finished \cup {cur[c]} ELSE finished
        /\ workers' = workers /\ req' = req /\ tries' = tries
    BY DEF Called, Return, Finish
  <1>6. next[c] \in Nat
    BY DEF TypeOK
  <1>7. pc'[c] = After(c, ok)
    BY <1>5 DEF TypeOK
  <1>8. next'[c] = IF pc[c] = "run" THEN next[c] + 1 ELSE next[c]
    BY <1>5 DEF TypeOK
  <1>9. After(c, ok) = "idle" => cur'[c] = NoTask
    BY <1>5 DEF TypeOK
  <1>10. After(c, ok) # "idle" => cur'[c] = cur[c] /\ Shape(c)' = Shape(c) /\ IsTx(c)' = IsTx(c)
    BY <1>5 DEF Shape, IsTx
  <1>11. Busy(c)' => After(c, ok) # "idle"
    BY <1>7 DEF Busy
  <1>12. IsTx(c) \in BOOLEAN /\ Tasks' = Tasks
    BY <1>5 DEF IsTx, Tasks
  <1> QED
    BY <1>1, <1>2, <1>3, <1>4, <1>5, <1>6, <1>7, <1>8, <1>9, <1>10, <1>11, <1>12

\* The number of attempts and the error that decides on another one, after a call.
LEMMA RetryCalled ==
  ASSUME Located, NEW c \in Conns, NEW ok \in BOOLEAN, Called(c, ok), SessionOf(c),
         errno'[c] # 1213 \/ pc[c] # "rollback"
  PROVE  FirstAttempt(c)'
  <1> SUFFICES ASSUME (Busy(c) /\ IsTx(c) /\ Shape(c).size > 0)'
               PROVE  /\ tries'[cur'[c]] = 1
                      /\ pc'[c] = "aborted" => errno'[c] # 1213
    BY DEF FirstAttempt
  <1>1. After(c, ok) # "idle"
    BY CalledFacts
  <1>2. Busy(c) /\ IsTx(c) /\ Shape(c).size > 0 /\ tries'[cur'[c]] = tries[cur[c]]
    BY <1>1, CalledFacts
  <1>3. pc'[c] = "aborted" => pc[c] = "rollback"
    BY CalledFacts DEF After
  <1> QED BY <1>2, <1>3 DEF SessionOf, FirstAttempt

\* The session after an answer.
LEMMA SessionAnswered ==
  ASSUME Located, NEW c \in workers \cup SynchConns, c \in Conns, Answered(c), SessionOf(c)
  PROVE  SessionOf(c)'
  <1>1. Called(c, TRUE)
    BY DEF Answered, Called, At
  <1>2. /\ inTx'[c] = InTxAfter(c) /\ pend'[c] = PendAfter(c) /\ errno'[c] = 0
        /\ mysql'[c] /\ pend[c] \in Seq(Tasks \X Nat)
    BY DEF Answered, Located, TypeOK
  <1>3. FirstAttempt(c)'
    <2>1. errno'[c] # 1213
      BY <1>2
    <2>2. PICK ok \in BOOLEAN : Called(c, ok)
      BY <1>1
    <2> QED BY <2>1, <2>2, RetryCalled
  <1>4. ~inTx'[c] => pend'[c] = <<>>
    BY <1>2 DEF InTxAfter, PendAfter
  <1>5. ASSUME inTx'[c]
        PROVE  OpenTx(c)'
    <2>1. CASE pc[c] = "begin"
      <3>1. After(c, TRUE) = "run" /\ pend'[c] = <<>> /\ IsTx(c) /\ next[c] = 1
        BY <2>1, <1>1, <1>2, CalledFacts DEF After, PendAfter
      <3>2. pc'[c] = "run" /\ IsTx(c)' /\ next'[c] = 1
        BY <3>1, <2>1, <1>1, CalledFacts
      <3> QED BY <3>1, <3>2 DEF OpenTx
    <2>2. CASE pc[c] = "run" /\ inTx[c]
      <3>1. /\ IsTx(c) /\ Len(pend[c]) = next[c] - 1
            /\ \A k \in DOMAIN pend[c] : pend[c][k] = <<cur[c], k>>
        BY <2>2 DEF SessionOf, OpenTx
      <3>2. /\ next[c] \in 1..Shape(c).size /\ Shape(c).size \in Nat /\ next[c] \in Nat
            /\ pc'[c] = After(c, TRUE) /\ next'[c] = next[c] + 1
        BY <1>1, <2>2, CalledFacts
      <3>3. After(c, TRUE) = IF next[c] < Shape(c).size THEN "run" ELSE "commit"
        BY <2>2, <3>1 DEF After
      <3>4. cur'[c] = cur[c] /\ IsTx(c)' /\ Shape(c)' = Shape(c)
        BY <3>1, <3>3, <1>1, CalledFacts
      <3>5. pend'[c] = Append(pend[c], <<cur[c], next[c]>>)
        BY <1>2, <2>2 DEF PendAfter, Statement
      <3>6. /\ Len(pend'[c]) = next[c]
            /\ \A k \in DOMAIN pend'[c] : pend'[c][k] = <<cur[c], k>>
        <4> DEFINE s == pend[c]
                   x == <<cur[c], next[c]>>
                   n == next[c]
                   S == Tasks \X Nat
        <4>1. s \in Seq(S) /\ Len(s) = n - 1 /\ n \in Nat /\ pend'[c] = Append(s, x)
              /\ \A k \in DOMAIN s : s[k] = <<cur[c], k>>
          BY <1>2, <3>1, <3>2, <3>5
        <4>2. x = <<cur[c], n>>
          OBVIOUS
        <4> HIDE DEF s, x, n, S
        <4>3. /\ DOMAIN Append(s, x) = 1..n /\ Len(Append(s, x)) = n /\ Append(s, x)[n] = x
              /\ \A k \in 1..n : k # n => k \in DOMAIN s /\ Append(s, x)[k] = s[k]
          BY <4>1
        <4>4. \A k \in DOMAIN Append(s, x) : Append(s, x)[k] = <<cur[c], k>>
          BY <4>1, <4>2, <4>3
        <4> QED BY <4>1, <4>3, <4>4 DEF n
      <3>7. pc'[c] = "run" => Len(pend'[c]) = next'[c] - 1
        BY <3>2, <3>6
      <3>8. pc'[c] = "commit" => Len(pend'[c]) = Shape(c).size
        <4>1. ~(next[c] < Shape(c).size) => next[c] = Shape(c).size
          BY <3>2
        <4>2. pc'[c] = "commit" => ~(next[c] < Shape(c).size)
          <5> HIDE DEF Shape
          <5> QED BY <3>2, <3>3, Zenon
        <4> QED BY <4>1, <4>2, <3>6, Zenon
      <3>9. pc'[c] \in {"run", "commit", "rollback"}
        BY <3>2, <3>3
      <3> QED BY <3>4, <3>6, <3>7, <3>8, <3>9 DEF OpenTx
    <2> QED BY <2>1, <2>2, <1>2, <1>5 DEF InTxAfter
  <1> QED BY <1>2, <1>3, <1>4, <1>5 DEF SessionOf

\* The session after a call that failed.
LEMMA SessionFailed ==
  ASSUME Located, NEW c \in workers \cup SynchConns, c \in Conns, SessionOf(c),
         Refused(c) \/ Deadlock(c) \/ ReconnectFails(c) \/ NoHandle(c)
  PROVE  SessionOf(c)'
  <1>1. CASE Refused(c)
    <2>1. Called(c, FALSE)
      BY <1>1, RefusedCall
    <2>2. /\ inTx'[c] <=> (inTx[c] /\ pc[c] = "run")
          /\ errno'[c] = 1062
          /\ pend'[c] = IF pc[c] = "run" THEN pend[c] ELSE <<>>
          /\ mysql'[c]
      <3>1. inTx'[c] = (inTx[c] /\ pc[c] = "run")
        BY <1>1 DEF Refused, Located, TypeOK
      <3>2. errno'[c] = 1062 /\ pend'[c] = IF pc[c] = "run" THEN pend[c] ELSE <<>>
        BY <1>1 DEF Refused, Located, TypeOK
      <3>3. mysql'[c]
        <4>1. mysql[c]
          BY <1>1 DEF Refused
        <4> QED BY <1>1, <4>1, RefusedFrame
      <3> QED BY <3>1, <3>2, <3>3
    <2>3. FirstAttempt(c)'
      <3>1. errno'[c] # 1213
        BY <2>2
      <3>2. PICK ok \in BOOLEAN : Called(c, ok)
        BY <2>1
      <3> QED BY <3>1, <3>2, RetryCalled
    <2>4. ~inTx'[c] => pend'[c] = <<>>
      BY <2>2 DEF SessionOf
    <2>5. ASSUME inTx'[c]
          PROVE  OpenTx(c)'
      <3>1. inTx[c] /\ pc[c] = "run" /\ pend'[c] = pend[c]
        BY <2>2, <2>5
      <3>2. IsTx(c) /\ \A k \in DOMAIN pend[c] : pend[c][k] = <<cur[c], k>>
        BY <3>1 DEF SessionOf, OpenTx
      <3>3. After(c, FALSE) = "rollback"
        BY <3>1, <3>2 DEF After
      <3>4. pc'[c] = "rollback" /\ IsTx(c)' /\ cur'[c] = cur[c]
        BY <3>2, <3>3, <2>1, CalledFacts
      <3> QED BY <3>1, <3>2, <3>4 DEF OpenTx
    <2> QED BY <2>2, <2>3, <2>4, <2>5 DEF SessionOf
  <1>2. CASE Deadlock(c)
    <2>1. Called(c, FALSE) /\ pc[c] = "run"
      BY <1>2, DeadlockCall, DeadlockFrame
    <2>2. ~inTx'[c] /\ pend'[c] = <<>> /\ mysql'[c]
      BY <1>2 DEF Deadlock, Located, TypeOK
    <2>3. FirstAttempt(c)'
      <3>1. pc[c] # "rollback"
        BY <2>1
      <3>2. PICK ok \in BOOLEAN : Called(c, ok)
        BY <2>1
      <3> QED BY <3>1, <3>2, RetryCalled
    <2> QED BY <2>2, <2>3 DEF SessionOf
  <1>3. CASE ReconnectFails(c)
    <2>1. Called(c, FALSE)
      BY <1>3 DEF ReconnectFails, LoseConnection, Called, At
    <2>2. ~inTx'[c] /\ pend'[c] = <<>> /\ errno'[c] = 0
      BY <1>3 DEF ReconnectFails, LoseConnection, Located, TypeOK
    <2>3. FirstAttempt(c)'
      <3>1. errno'[c] # 1213
        BY <2>2
      <3>2. PICK ok \in BOOLEAN : Called(c, ok)
        BY <2>1
      <3> QED BY <3>1, <3>2, RetryCalled
    <2> QED BY <2>2, <2>3 DEF SessionOf
  <1>4. CASE NoHandle(c)
    <2>1. Called(c, FALSE)
      BY <1>4 DEF NoHandle, Called, At
    <2>2. ~inTx[c] /\ pend[c] = <<>> /\ errno[c] = 0
      BY <1>4 DEF NoHandle, SessionOf
    <2>3. ~inTx'[c] /\ pend'[c] = <<>> /\ errno'[c] = 0
      BY <1>4, <2>2 DEF NoHandle
    <2>4. FirstAttempt(c)'
      <3>1. errno'[c] # 1213
        BY <2>3
      <3>2. PICK ok \in BOOLEAN : Called(c, ok)
        BY <2>1
      <3> QED BY <3>1, <3>2, RetryCalled
    <2> QED BY <2>3, <2>4 DEF SessionOf
  <1> QED BY <1>1, <1>2, <1>3, <1>4

\* ExecuteTransaction has returned false: a transaction that has statements is
\* not tried again.
LEMMA SessionAborted ==
  ASSUME Located, NEW c \in Conns, Aborted(c), SessionOf(c)
  PROVE  SessionOf(c)' /\ (Shape(c).size > 0 => ~TryAgain(c))
  <1>1. /\ pc[c] = "aborted" /\ mysql' = mysql /\ inTx' = inTx /\ pend' = pend
        /\ errno' = errno /\ req' = req
        /\ pc' = [pc EXCEPT ![c] = IF TryAgain(c)
                     THEN IF Shape(c).size = 0 THEN "aborted" ELSE "begin" ELSE "idle"]
        /\ cur' = IF TryAgain(c) THEN cur ELSE [cur EXCEPT ![c] = NoTask]
    BY DEF Aborted, At, Finish
  <1>2. ~inTx[c]
    BY <1>1 DEF SessionOf, OpenTx
  <1>3. Busy(c)
    BY <1>1 DEF Busy
  <1>4. IsTx(c) /\ cur[c] \in Tasks
    BY <1>1, <1>3, TaskNumbers DEF Located, Cursor
  <1>5. Shape(c).size \in Nat
    BY <1>4, ShapeFields DEF Shape, Located, TypeOK
  <1>6. Shape(c).size > 0 => ~TryAgain(c)
    BY <1>1, <1>3, <1>4 DEF SessionOf, FirstAttempt, TryAgain
  <1>7. FirstAttempt(c)'
    <2>1. CASE TryAgain(c)
      <3>1. Shape(c)' = Shape(c) /\ ~(Shape(c).size > 0)
        BY <2>1, <1>1, <1>6 DEF Shape
      <3> QED BY <3>1 DEF FirstAttempt
    <2>2. CASE ~TryAgain(c)
      <3>1. pc'[c] = "idle"
        BY <2>2, <1>1 DEF Located, TypeOK
      <3> QED BY <3>1 DEF FirstAttempt, Busy
    <2> QED BY <2>1, <2>2
  <1> QED BY <1>1, <1>2, <1>6, <1>7 DEF SessionOf

\* A connection that is opened again has a new session.
LEMMA SessionReconnect ==
  ASSUME Located, NEW c \in Conns, Reconnect(c), SessionOf(c)
  PROVE  SessionOf(c)'
  <1>1. ~inTx'[c] /\ pend'[c] = <<>> /\ errno'[c] = 0
    BY DEF Reconnect, LoseConnection, Located, TypeOK
  <1>2. cur' = cur /\ pc' = pc /\ req' = req /\ tries' = tries /\ pc[c] \in Calling
    BY DEF Reconnect, LoseConnection, At
  <1>3. FirstAttempt(c)'
    <2>1. Busy(c)' = Busy(c) /\ IsTx(c)' = IsTx(c) /\ Shape(c)' = Shape(c)
          /\ tries'[cur'[c]] = tries[cur[c]] /\ pc'[c] # "aborted"
      BY <1>2 DEF Busy, IsTx, Shape, Calling
    <2>2. Busy(c) /\ IsTx(c) /\ Shape(c).size > 0 => tries[cur[c]] = 1
      BY DEF SessionOf, FirstAttempt
    <2> QED BY <2>1, <2>2 DEF FirstAttempt
  <1> QED BY <1>1, <1>3 DEF SessionOf

\* Connection c begins a request that was not begun before.
Begins(c, t) ==
  /\ pc[c] = "idle" /\ t \in Tasks' /\ Start(c, t, req'[t]) /\ ~Started(t)
  /\ Tasks \subseteq Tasks' /\ \A u \in Tasks : req'[u] = req[u]
  /\ UNCHANGED <<workers, mysql, inTx, pend, errno, log, finished, faults>>

\* A request begins outside a transaction, and its attempts are counted from one.
LEMMA SessionStart ==
  ASSUME Located, Located', Session, NEW c \in Conns, NEW t, Begins(c, t)
  PROVE  Session' /\ \A d \in Conns : d # c => Untouched(d)
  <1>1. /\ cur' = [cur EXCEPT ![c] = t]
        /\ next' = [next EXCEPT ![c] = 1]
        /\ tries' = [tries EXCEPT ![t] = 1]
        /\ pc' = [pc EXCEPT ![c] = IF req'[t].kind # "transaction" THEN "run"
                                   ELSE IF req'[t].size = 0 THEN "aborted" ELSE "begin"]
    BY DEF Begins, Start
  <1>2. /\ cur'[c] = t
        /\ pc'[c] = IF req'[t].kind # "transaction" THEN "run"
                    ELSE IF req'[t].size = 0 THEN "aborted" ELSE "begin"
        /\ \A d \in Conns : d # c => cur'[d] = cur[d] /\ pc'[d] = pc[d] /\ next'[d] = next[d]
    BY <1>1 DEF Located, TypeOK
  <1>3. tries \in [1..MaxTasks -> 0..MaxTries] /\ tries' \in [1..MaxTasks -> 0..MaxTries]
    BY DEF Located, TypeOK
  <1>4. \A u \in Tasks' : u \in 1..MaxTasks
    <2>1. PICK m \in Nat : m = Len(req') /\ Tasks' = 1..m
      BY DEF Located, TypeOK, Tasks
    <2>2. Len(req') <= MaxTasks
      BY DEF Located, Cursor
    <2>3. m <= MaxTasks
      BY <2>1, <2>2, Zenon
    <2> QED BY <2>1, <2>3, PoolAssumption
  <1>5. tries'[t] = 1 /\ \A u \in 1..MaxTasks : u # t => tries'[u] = tries[u]
    BY <1>1, <1>3, <1>4 DEF Begins
  <1>6. ASSUME NEW d \in Conns, d # c PROVE Untouched(d)
    <2>1. Busy(d) => cur[d] \in Tasks /\ cur[d] # NoTask
      BY TaskNumbers DEF Located, Cursor
    <2>2. Busy(d) => cur[d] # t /\ cur[d] \in 1..MaxTasks
      <3>1. Busy(d) => cur'[d] # cur'[c]
        BY <1>2, <1>6, <2>1 DEF Located, Places
      <3>2. Tasks \subseteq 1..MaxTasks
        <4>1. Tasks = 1..Len(req) /\ Len(req) \in Nat /\ Len(req) <= MaxTasks
          BY TaskNumbers DEF Located, Cursor
        <4> QED BY <4>1, PoolAssumption
      <3> QED BY <3>1, <3>2, <2>1, <1>2, <1>6
    <2>3. Busy(d) => Shape(d)' = Shape(d)
      BY <2>1, <1>2, <1>6 DEF Shape, Begins
    <2> QED BY <1>2, <1>5, <1>6, <2>2, <2>3 DEF Untouched, Begins
  <1>7. SessionOf(c)'
    <2>1. SessionOf(c)
      BY DEF Session
    <2>2. ~inTx[c]
      BY <2>1 DEF SessionOf, OpenTx, Begins
    <2>3. FirstAttempt(c)'
      <3>1. Shape(c)' = req'[t]
        BY <1>2 DEF Shape
      <3>2. req'[t].size > 0 => pc'[c] # "aborted"
        BY <1>2
      <3> QED BY <3>1, <3>2, <1>2, <1>5 DEF FirstAttempt, IsTx
    <2> QED BY <2>1, <2>2, <2>3 DEF SessionOf, Begins
  <1>8. ASSUME NEW d \in Conns, d # c PROVE SessionOf(d)'
    <2>1. SessionOf(d) /\ Cursor
      BY DEF Session, Located
    <2> QED BY <2>1, <1>6, <1>8, SessionFrame, Zenon
  <1> QED BY <1>6, <1>7, <1>8 DEF Session

\* The first request of the queue was not begun before.
LEMMA DequeueBegins ==
  ASSUME Located, NEW c \in workers, Dequeue(c)
  PROVE  Begins(c, Head(queue))
  <1>1. /\ queue # <<>> /\ pc[c] = "idle" /\ Start(c, Head(queue), req[Head(queue)])
        /\ UNCHANGED <<workers, req, mysql, inTx, pend, errno, log, finished, faults>>
    BY DEF Dequeue
  <1>2. Head(queue) = queue[1] /\ queue[1] \in Tasks /\ 1 \in DOMAIN queue
    <2>1. queue \in Seq(Tasks)
      BY DEF Located, TypeOK
    <2> QED BY <2>1, <1>1
  <1>3. Tasks' = Tasks /\ req' = req
    BY <1>1 DEF Tasks
  <1>4. ~req[queue[1]].direct
    BY <1>2 DEF Located, Places
  <1>5. Started(queue[1]) => queue[1] < queue[1]
    BY <1>2, <1>4 DEF Located, Places
  <1>6. queue[1] \in Nat
    BY <1>2, TaskNumbers DEF Located
  <1>7. ~Started(queue[1])
    BY <1>5, <1>6
  <1> QED BY <1>1, <1>2, <1>3, <1>7 DEF Begins

\* Nor was the one a calling thread makes.
LEMMA DirectBegins ==
  ASSUME Located, NEW r \in Requests, NEW c \in SynchConns, Direct(r, c)
  PROVE  Begins(c, Len(req) + 1)
  <1>1. /\ pc[c] = "idle" /\ Start(c, Len(req) + 1, r) /\ req' = Append(req, r)
        /\ UNCHANGED <<workers, mysql, inTx, pend, errno, log, finished, faults>>
    BY DEF Direct
  <1>2. /\ Tasks = 1..Len(req) /\ Len(req) \in Nat /\ Tasks \subseteq Tasks'
        /\ Len(req) + 1 \in Tasks' /\ req'[Len(req) + 1] = r
        /\ \A u \in Tasks : req'[u] = req[u]
    <2>1. req \in Seq(Requests)
      BY DEF Located, TypeOK
    <2> QED BY <1>1, <2>1, ReqGrows
  <1>3. Len(req) + 1 \notin Tasks /\ Len(req) + 1 # NoTask
    BY <1>2 DEF NoTask
  <1>4. ~Started(Len(req) + 1)
    <2>1. \A u : Started(u) => u \in Tasks \cup {NoTask}
      BY TaskNumbers DEF Located, Started
    <2> QED BY <2>1, <1>3, Zenon
  <1> QED BY <1>1, <1>2, <1>4 DEF Begins

\* Sessions are kept by every step.
LEMMA SessionNext ==
  ASSUME Located, Session, [Next]_vars
  PROVE  Session'
  <1>1. Located' /\ Cursor
    BY LocatedNext DEF Located
  <1>2. ASSUME \A d \in Conns : Untouched(d)
        PROVE  Session'
    BY <1>1, <1>2, SessionFrame DEF Session
  <1>3. ASSUME UNCHANGED <<cur, pc, next, mysql, inTx, pend, errno, req, tries>>
        PROVE  Session'
    <2>1. \A d \in Conns : Untouched(d)
      BY <1>3 DEF Untouched, Shape
    <2> QED BY <1>2, <2>1
  <1>4. ASSUME NEW r \in Requests, Enqueue(r) PROVE Session'
    <2>1. /\ UNCHANGED <<cur, pc, next, mysql, inTx, pend, errno, tries>>
          /\ req' = Append(req, r)
      BY <1>4 DEF Enqueue
    <2>2. \A u \in Tasks : req'[u] = req[u]
      <3>1. req \in Seq(Requests)
        BY DEF Located, TypeOK
      <3> QED BY <2>1, <3>1, ReqGrows
    <2>3. ASSUME NEW d \in Conns PROVE Untouched(d)
      <3>1. Busy(d) => cur[d] \in Tasks
        BY TaskNumbers DEF Located, Cursor
      <3> QED BY <3>1, <2>1, <2>2 DEF Untouched, Shape
    <2> QED BY <1>2, <2>3
  <1>5. ASSUME NEW r \in Requests, NEW c \in SynchConns, Direct(r, c) PROVE Session'
    <2>1. c \in Conns
      BY DEF Conns
    <2> QED BY <1>1, <1>5, <2>1, DirectBegins, SessionStart
  <1>6. ASSUME NEW c \in workers, Dequeue(c) PROVE Session'
    <2>1. c \in Conns
      BY DEF Conns, Located, TypeOK
    <2> QED BY <1>1, <1>6, <2>1, DequeueBegins, SessionStart
  <1>7. ASSUME NEW c \in workers \cup SynchConns, Step(c) PROVE Session'
    <2>1. c \in Conns /\ SessionOf(c)
      BY <1>7, InConns DEF Located, TypeOK, Session
    <2>2. SessionOf(c)'
      <3>1. CASE Answered(c)
        BY <2>1, <3>1, SessionAnswered
      <3>2. CASE Refused(c) \/ Deadlock(c) \/ ReconnectFails(c) \/ NoHandle(c)
        BY <2>1, <3>2, SessionFailed
      <3>3. CASE Reconnect(c)
        BY <2>1, <3>3, SessionReconnect
      <3>4. CASE Aborted(c)
        BY <2>1, <3>4, SessionAborted
      <3> QED BY <1>7, <3>1, <3>2, <3>3, <3>4 DEF Step
    <2>3. ASSUME NEW d \in Conns, d # c PROVE SessionOf(d)'
      <3>1. Untouched(d) /\ SessionOf(d)
        BY <1>7, <2>3, StepFrame DEF Session
      <3> QED BY <1>1, <3>1, SessionFrame
    <2> QED BY <2>2, <2>3 DEF Session
  <1>8. CASE CloseQueue
    BY <1>3, <1>8 DEF CloseQueue
  <1>9. ASSUME NEW c \in workers, WorkerEnds(c) PROVE Session'
    <2>1. c \in Conns /\ pc[c] = "idle" /\ pc' = [pc EXCEPT ![c] = "exit"]
          /\ UNCHANGED <<cur, next, mysql, inTx, pend, errno, req, tries>>
      BY <1>9 DEF WorkerEnds, Conns, Located, TypeOK
    <2>2. pc'[c] = "exit" /\ \A d \in Conns : d # c => pc'[d] = pc[d]
      BY <2>1 DEF Located, TypeOK
    <2>3. ASSUME NEW d \in Conns PROVE SessionOf(d)'
      <3>1. CASE d = c
        <4>1. SessionOf(c) /\ ~inTx[c]
          BY <2>1 DEF Session, SessionOf, OpenTx
        <4>2. FirstAttempt(c)'
          BY <2>2 DEF FirstAttempt, Busy
        <4> QED BY <3>1, <4>1, <4>2, <2>1 DEF SessionOf
      <3>2. CASE d # c
        <4>1. Untouched(d) /\ SessionOf(d)
          BY <2>1, <2>2, <3>2 DEF Untouched, Shape, Session
        <4> QED BY <1>1, <4>1, SessionFrame
      <3> QED BY <3>1, <3>2
    <2> QED BY <2>3 DEF Session
  <1>10. ASSUME NEW c \in Conns, CloseConnection(c) PROVE Session'
    BY <1>3, <1>10 DEF CloseConnection
  <1>11. CASE Terminated \/ UNCHANGED vars
    BY <1>3, <1>11 DEF Terminated, vars
  <1> QED
    BY <1>4, <1>5, <1>6, <1>7, <1>8, <1>9, <1>10, <1>11 DEF Next

\* No session is inside a transaction initially.
LEMMA SessionInit == Init => Session
  BY DEF Init, Session, SessionOf, FirstAttempt, Busy

-----------------------------------------------------------------------------
(* Transactions on the server.                                              *)

\* What a refused call is remembered as.
RefusalOf(c) == IF pc[c] = "begin" THEN "unbegun" ELSE "refused"

\* Errors are remembered, and a step inside a request is charged to it.
LEMMA FaultStep ==
  ASSUME NEW c \in workers \cup SynchConns, Step(c), NEW t, t = cur[c]
  PROVE  /\ \A u, f : Met(u, f) => Met(u, f)'
         /\ \A u, f : u # t => (Met(u, f)' <=> Met(u, f))
         /\ \A u : NoFault(u)' => NoFault(u)
         /\ Answered(c) \/ Aborted(c) \/ ~NoFault(t)'
         /\ Reconnect(c) \/ ReconnectFails(c) => Met(t, "lost")'
         /\ NoHandle(c) => Met(t, "dead")'
         /\ Refused(c) /\ pc[c] = "begin" => Met(t, "unbegun")'
  <1>1. /\ Answered(c) \/ Aborted(c) => faults' = faults
        /\ Refused(c) => faults' = faults \cup {<<t, RefusalOf(c)>>}
        /\ Deadlock(c) => faults' = faults \cup {<<t, "deadlock">>}
        /\ Reconnect(c) \/ ReconnectFails(c) => faults' = faults \cup {<<t, "lost">>}
        /\ NoHandle(c) => faults' = faults \cup {<<t, "dead">>}
    <2>1. Answered(c) \/ Aborted(c) => faults' = faults
      BY DEF Answered, Aborted
    <2>2. Refused(c) => faults' = faults \cup {<<t, RefusalOf(c)>>}
      BY DEF Refused, Meets, RefusalOf
    <2>3. Deadlock(c) => faults' = faults \cup {<<t, "deadlock">>}
      BY DEF Deadlock, Meets
    <2>4. Reconnect(c) \/ ReconnectFails(c) => faults' = faults \cup {<<t, "lost">>}
      BY DEF Reconnect, ReconnectFails, LoseConnection, Meets
    <2>5. NoHandle(c) => faults' = faults \cup {<<t, "dead">>}
      BY DEF NoHandle, Meets
    <2> QED BY <2>1, <2>2, <2>3, <2>4, <2>5
  <1>2. \/ Answered(c) \/ Aborted(c) \/ Refused(c) \/ Deadlock(c)
        \/ Reconnect(c) \/ ReconnectFails(c) \/ NoHandle(c)
    BY DEF Step
  <1>3. faults' = faults \/ \E g : faults' = faults \cup {<<t, g>>}
    BY <1>1, <1>2
  <1>4. \A u, f : Met(u, f) => Met(u, f)'
    BY <1>3 DEF Met
  <1>5. \A u, f : u # t => (Met(u, f)' <=> Met(u, f))
    BY <1>3 DEF Met
  <1>6. \A u : NoFault(u)' => NoFault(u)
    BY <1>4 DEF NoFault
  <1>7. Answered(c) \/ Aborted(c) \/ ~NoFault(t)'
    BY <1>1, <1>2 DEF NoFault, Met, Faults, RefusalOf
  <1>8. /\ Reconnect(c) \/ ReconnectFails(c) => Met(t, "lost")'
        /\ NoHandle(c) => Met(t, "dead")'
        /\ Refused(c) /\ pc[c] = "begin" => Met(t, "unbegun")'
    BY <1>1 DEF Met, RefusalOf
  <1> QED BY <1>4, <1>5, <1>6, <1>7, <1>8

\* Another connection's request keeps its guard.
LEMMA GuardedFrame ==
  ASSUME NEW d \in Conns, GuardedOf(d), Untouched(d), NEW t, t = cur[d],
         Busy(d) => \A f : Met(t, f)' <=> Met(t, f)
  PROVE  GuardedOf(d)'
  <1> SUFFICES ASSUME (Busy(d) /\ IsTx(d))'
               PROVE  (/\ ~Loose(cur[d]) /\ pc[d] = "commit" => inTx[d]
                       /\ ~Loose(cur[d]) /\ pc[d] = "run" /\ ~inTx[d] => ~mysql[d]
                       /\ NoFault(cur[d]) =>
                            pc[d] # "rollback" /\ (pc[d] = "aborted" => Shape(d).size = 0))'
    BY DEF GuardedOf
  <1>1. Busy(d)
    BY DEF Busy, Untouched
  <1>2. Shape(d)' = Shape(d) /\ IsTx(d)
    BY <1>1 DEF Untouched, IsTx
  <1>3. cur'[d] = t /\ cur[d] = t
    BY DEF Untouched
  <1>4. \A f : <<t, f>> \in faults' <=> <<t, f>> \in faults
    BY <1>1 DEF Met
  <1>5. Met(cur[d], "lost")' = Met(cur[d], "lost") /\ Loose(cur[d])' = Loose(cur[d])
        /\ NoFault(cur[d])' = NoFault(cur[d])
    BY <1>3, <1>4 DEF Met, NoFault, Loose
  <1> QED BY <1>1, <1>2, <1>5 DEF GuardedOf, Untouched

\* The request of the connection that makes the step.
LEMMA GuardedStep ==
  ASSUME Located, Session, NEW c \in workers \cup SynchConns, Step(c), c \in Conns,
         GuardedOf(c)
  PROVE  GuardedOf(c)'
  <1> SUFFICES ASSUME (Busy(c) /\ IsTx(c))'
               PROVE  (/\ ~Loose(cur[c]) /\ pc[c] = "commit" => inTx[c]
                       /\ ~Loose(cur[c]) /\ pc[c] = "run" /\ ~inTx[c] => ~mysql[c]
                       /\ NoFault(cur[c]) =>
                            pc[c] # "rollback" /\ (pc[c] = "aborted" => Shape(c).size = 0))'
    BY DEF GuardedOf
  <1>1. PICK t : t = cur[c]
    OBVIOUS
  <1>2. SessionOf(c)
    BY DEF Session
  <1>3. /\ \A f : Met(t, f) => Met(t, f)'
        /\ NoFault(t)' => NoFault(t)
        /\ Answered(c) \/ Aborted(c) \/ ~NoFault(t)'
        /\ Reconnect(c) \/ ReconnectFails(c) => Met(t, "lost")'
        /\ NoHandle(c) => Met(t, "dead")'
        /\ Refused(c) /\ pc[c] = "begin" => Met(t, "unbegun")'
    BY <1>1, FaultStep
  <1>4. ASSUME NEW ok \in BOOLEAN, Called(c, ok)
        PROVE  /\ Busy(c) /\ IsTx(c) /\ cur'[c] = t /\ pc'[c] = After(c, ok)
               /\ After(c, ok) \in {"run", "commit", "rollback", "aborted"}
               /\ pc[c] \in Calling /\ pc[c] # "commit"
               /\ pc[c] # "run" => After(c, ok) = IF pc[c] = "begin" THEN "run" ELSE "aborted"
               /\ pc[c] = "run" /\ ~ok => After(c, ok) = "rollback"
               /\ pc[c] = "run" /\ ok => After(c, ok) \in {"run", "commit"}
    <2>1. After(c, ok) # "idle" /\ Busy(c)
      BY <1>4, CalledFacts
    <2>2. IsTx(c) /\ cur'[c] = t /\ pc'[c] = After(c, ok) /\ pc[c] \in Calling
      BY <2>1, <1>1, <1>4, CalledFacts
    <2> QED BY <2>1, <2>2 DEF After, Calling
  <1>5. CASE Answered(c)
    <2>1. Called(c, TRUE) /\ mysql[c] /\ pc[c] \in Calling
      BY <1>5 DEF Answered, Called, At
    <2>2. (inTx'[c] <=> (pc[c] = "begin" \/ (pc[c] = "run" /\ inTx[c]))) /\ faults' = faults
      <3>1. inTx'[c] = InTxAfter(c) /\ faults' = faults
        BY <1>5 DEF Answered, Located, TypeOK
      <3> QED BY <3>1 DEF InTxAfter
    <2>3. /\ Busy(c) /\ IsTx(c) /\ cur'[c] = t /\ pc'[c] = After(c, TRUE)
          /\ pc[c] # "run" => After(c, TRUE) = IF pc[c] = "begin" THEN "run" ELSE "aborted"
          /\ pc[c] = "run" => After(c, TRUE) \in {"run", "commit"}
          /\ pc[c] # "commit"
      BY <2>1, <1>4
    <2>4. Loose(cur[c])' = Loose(cur[c]) /\ NoFault(cur[c])' = NoFault(cur[c])
      BY <1>1, <2>2, <2>3 DEF Met, NoFault, Loose
    <2>5. CASE pc[c] = "begin"
      BY <2>2, <2>3, <2>5
    <2>6. CASE pc[c] = "run"
      <3>1. ~Loose(cur[c]) => inTx[c]
        BY <2>1, <2>3, <2>6 DEF GuardedOf
      <3> QED BY <3>1, <2>2, <2>3, <2>4, <2>6
    <2>7. CASE pc[c] = "rollback"
      <3>1. ~NoFault(cur[c])
        BY <2>3, <2>7 DEF GuardedOf
      <3> QED BY <3>1, <2>3, <2>4, <2>7
    <2> QED BY <2>1, <2>3, <2>5, <2>6, <2>7 DEF Calling
  <1>6. CASE Refused(c) \/ Deadlock(c)
    <2>1. Called(c, FALSE) /\ pc[c] \in {"begin", "run", "commit"}
      <3>1. Called(c, FALSE)
        BY <1>6, RefusedCall, DeadlockCall
      <3>2. pc[c] \in {"begin", "run", "commit"}
        BY <1>6, RefusedFrame, DeadlockFrame
      <3> QED BY <3>1, <3>2
    <2>2. pc'[c] = (IF pc[c] = "begin" THEN "run" ELSE "rollback") /\ cur'[c] = t
      BY <2>1, <1>4
    <2>3. ~NoFault(cur[c])'
      <3>1. ~Answered(c) /\ ~Aborted(c)
        <4>1. ~Aborted(c)
          BY <2>1 DEF Aborted, At
        <4>2. errno'[c] \in {1062, 1213}
          <5>1. errno \in [Conns -> {0, 1062, 1213}]
            BY DEF Located, TypeOK
          <5>2. \/ errno' = [errno EXCEPT ![c] = 1062]
                \/ errno' = [errno EXCEPT ![c] = 1213]
            <6>1. Refused(c) => errno' = [errno EXCEPT ![c] = 1062]
              BY DEF Refused
            <6>2. Deadlock(c) => errno' = [errno EXCEPT ![c] = 1213]
              BY DEF Deadlock
            <6> QED BY <1>6, <6>1, <6>2
          <5> QED BY <5>1, <5>2
        <4>3. Answered(c) => errno'[c] = 0
          BY DEF Answered, Located, TypeOK
        <4> QED BY <4>1, <4>2, <4>3
      <3> QED BY <3>1, <2>2, <1>3 DEF NoFault, Met
    <2>4. pc[c] = "begin" => <<t, "unbegun">> \in faults'
      BY <1>3, <1>6, DeadlockFrame DEF Met
    <2> QED BY <2>2, <2>3, <2>4 DEF Loose, Met
  <1>7. CASE ReconnectFails(c) \/ Reconnect(c)
    <2>1. cur'[c] = t
      <3>1. CASE Reconnect(c)
        BY <3>1, <1>1 DEF Reconnect
      <3>2. CASE ReconnectFails(c)
        <4>1. Called(c, FALSE)
          BY <3>2 DEF ReconnectFails, LoseConnection, Called, At
        <4> QED BY <4>1, <1>4
      <3> QED BY <1>7, <3>1, <3>2
    <2>2. <<t, "lost">> \in faults'
      BY <1>3, <1>7 DEF Met
    <2> QED BY <2>1, <2>2 DEF Met, NoFault, Faults, Loose
  <1>8. CASE NoHandle(c)
    <2>1. Called(c, FALSE) /\ ~mysql[c] /\ mysql' = mysql /\ inTx' = inTx
      BY <1>8 DEF NoHandle, Called, At
    <2>2. cur'[c] = t /\ pc'[c] # "commit"
      BY <2>1, <1>4 DEF Calling
    <2>3. <<t, "dead">> \in faults'
      BY <1>3, <1>8 DEF Met
    <2> QED BY <2>1, <2>2, <2>3 DEF Met, NoFault, Faults
  <1>9. CASE Aborted(c)
    <2>1. pc'[c] = IF TryAgain(c) THEN IF Shape(c).size = 0 THEN "aborted" ELSE "begin"
                                  ELSE "idle"
      BY <1>9 DEF Aborted, Located, TypeOK
    <2>2. TryAgain(c)
      BY <2>1 DEF Busy
    <2>3. Shape(c)' = Shape(c)
      BY <1>9, <2>2 DEF Aborted, Shape
    <2> QED BY <2>1, <2>2, <2>3
  <1> QED
    BY <1>5, <1>6, <1>7, <1>8, <1>9 DEF Step

\* A step that neither begins a request nor is inside one.
Quiet ==
  /\ UNCHANGED <<workers, cur, next, mysql, inTx, pend, errno, tries, log, finished, faults>>
  /\ Tasks \subseteq Tasks' /\ \A u \in Tasks : req'[u] = req[u]
  /\ \A d \in Conns : pc'[d] = pc[d] \/ (pc[d] = "idle" /\ pc'[d] = "exit")

\* The kinds of steps.
LEMMA NextCases ==
  ASSUME Located, [Next]_vars
  PROVE  \/ \E c \in workers \cup SynchConns : Step(c)
         \/ \E c \in Conns : \E t : Begins(c, t)
         \/ Quiet
  <1>1. ASSUME UNCHANGED <<workers, req, cur, pc, next, mysql, inTx, pend, errno, tries, log,
                           finished, faults>>
        PROVE  Quiet
    BY <1>1 DEF Quiet, Tasks
  <1>2. ASSUME NEW r \in Requests, Enqueue(r) PROVE Quiet
    <2>1. req \in Seq(Requests) /\ req' = Append(req, r)
      BY <1>2 DEF Enqueue, Located, TypeOK
    <2>2. Tasks \subseteq Tasks' /\ \A u \in Tasks : req'[u] = req[u]
      BY <2>1, ReqGrows
    <2> QED BY <1>2, <2>2 DEF Enqueue, Quiet
  <1>3. ASSUME NEW r \in Requests, NEW c \in SynchConns, Direct(r, c)
        PROVE  \E d \in Conns : \E t : Begins(d, t)
    <2>1. c \in Conns
      BY DEF Conns
    <2> QED BY <1>3, <2>1, DirectBegins
  <1>4. ASSUME NEW c \in workers, Dequeue(c)
        PROVE  \E d \in Conns : \E t : Begins(d, t)
    <2>1. c \in Conns
      BY DEF Conns, Located, TypeOK
    <2> QED BY <1>4, <2>1, DequeueBegins
  <1>5. CloseQueue => Quiet
    BY <1>1 DEF CloseQueue
  <1>6. ASSUME NEW c \in workers, WorkerEnds(c) PROVE Quiet
    <2>1. c \in Conns /\ pc[c] = "idle" /\ pc' = [pc EXCEPT ![c] = "exit"] /\ req' = req
          /\ UNCHANGED <<workers, cur, next, mysql, inTx, pend, errno, tries, log, finished,
                         faults>>
      BY <1>6 DEF WorkerEnds, Conns, Located, TypeOK
    <2>2. \A d \in Conns : pc'[d] = pc[d] \/ (pc[d] = "idle" /\ pc'[d] = "exit")
      BY <2>1 DEF Located, TypeOK
    <2> QED BY <2>1, <2>2 DEF Quiet, Tasks
  <1>7. ASSUME NEW c \in Conns, CloseConnection(c) PROVE Quiet
    BY <1>1, <1>7 DEF CloseConnection
  <1>8. Terminated \/ UNCHANGED vars => Quiet
    BY <1>1 DEF Terminated, vars
  <1> QED
    BY <1>2, <1>3, <1>4, <1>5, <1>6, <1>7, <1>8 DEF Next

\* A quiet step leaves the connections that execute a request alone.
LEMMA QuietFrame ==
  ASSUME Located, Quiet, NEW d \in Conns, Busy(d)'
  PROVE  Busy(d) /\ Untouched(d)
  <1>1. Busy(d) /\ pc'[d] = pc[d]
    BY DEF Quiet, Busy
  <1>2. cur[d] \in Tasks
    BY <1>1, TaskNumbers DEF Located, Cursor
  <1> QED BY <1>1, <1>2 DEF Quiet, Untouched, Shape

\* Connections execute different requests.
LEMMA Different ==
  ASSUME Located, NEW c \in Conns, NEW d \in Conns, d # c, Busy(d)
  PROVE  cur[d] # cur[c] /\ cur[d] \in Tasks
  BY TaskNumbers DEF Located, Cursor, Places

\* The guard of transactions is kept by every step.
LEMMA GuardedNext ==
  ASSUME Located, Session, Guarded, [Next]_vars
  PROVE  Guarded'
  <1>1. Located'
    BY LocatedNext
  <1>2. ASSUME NEW c \in workers \cup SynchConns, Step(c) PROVE Guarded'
    <2>1. c \in Conns
      BY <1>2, InConns DEF Located, TypeOK
    <2>2. GuardedOf(c)'
      BY <1>2, <2>1, GuardedStep DEF Guarded
    <2>3. ASSUME NEW d \in Conns, d # c PROVE GuardedOf(d)'
      <3>1. Untouched(d) /\ GuardedOf(d)
        BY <1>2, <2>3, StepFrame DEF Guarded
      <3>2. PICK t : t = cur[d]
        OBVIOUS
      <3>3. PICK u : u = cur[c]
        OBVIOUS
      <3>4. Busy(d) => t # u
        BY <2>1, <2>3, <3>2, <3>3, Different
      <3>5. Busy(d) => \A f : Met(t, f)' <=> Met(t, f)
        BY <1>2, <3>3, <3>4, FaultStep
      <3> QED BY <3>1, <3>2, <3>5, GuardedFrame
    <2> QED BY <2>2, <2>3 DEF Guarded
  <1>3. ASSUME NEW c \in Conns, NEW t, Begins(c, t) PROVE Guarded'
    <2>1. \A d \in Conns : d # c => Untouched(d)
      BY <1>1, <1>3, SessionStart
    <2>2. ASSUME NEW d \in Conns, d # c PROVE GuardedOf(d)'
      <3>1. PICK u : u = cur[d]
        OBVIOUS
      <3>2. \A f : Met(u, f)' <=> Met(u, f)
        BY <1>3 DEF Begins, Met
      <3> QED BY <2>1, <2>2, <3>1, <3>2, GuardedFrame DEF Guarded
    <2>3. GuardedOf(c)'
      <3>1. cur'[c] = t /\ pc'[c] = IF req'[t].kind # "transaction" THEN "run"
                                    ELSE IF req'[t].size = 0 THEN "aborted" ELSE "begin"
        BY <1>3 DEF Begins, Start, Located, TypeOK
      <3>2. Shape(c)' = req'[t]
        BY <3>1 DEF Shape
      <3> QED BY <3>1, <3>2 DEF GuardedOf, IsTx
    <2> QED BY <2>2, <2>3 DEF Guarded
  <1>4. CASE Quiet
    <2>1. ASSUME NEW d \in Conns PROVE GuardedOf(d)'
      <3>1. CASE Busy(d)'
        <4>1. Untouched(d)
          BY <1>4, <3>1, QuietFrame
        <4>2. PICK u : u = cur[d]
          OBVIOUS
        <4>3. \A f : Met(u, f)' <=> Met(u, f)
          BY <1>4 DEF Quiet, Met
        <4> QED BY <4>1, <4>2, <4>3, GuardedFrame DEF Guarded
      <3>2. CASE ~Busy(d)'
        BY <3>2 DEF GuardedOf
      <3> QED BY <3>1, <3>2
    <2> QED BY <2>1 DEF Guarded
  <1> QED BY <1>2, <1>3, <1>4, NextCases

-----------------------------------------------------------------------------
(* What is written.                                                         *)

\* A statement outside a transaction is durable at once.
RunLogged(c) ==
  /\ pc[c] = "run" /\ ~inTx[c]
  /\ DOMAIN log' = 1..(Len(log) + 1)
  /\ log'[Len(log) + 1] = <<cur[c], next[c]>>

\* COMMIT makes all statements durable.
CommitLogged(c) ==
  /\ pc[c] = "commit" /\ inTx[c] /\ IsTx(c)
  /\ DOMAIN log' = 1..(Len(log) + Shape(c).size)
  /\ \A k \in 1..Shape(c).size : log'[Len(log) + k] = <<cur[c], k>>

\* The concatenation of two sequences.
LEMMA Concat ==
  ASSUME NEW S, NEW s \in Seq(S), NEW m \in Seq(S)
  PROVE  /\ DOMAIN (s \o m) = 1..(Len(s) + Len(m))
         /\ \A p \in DOMAIN s : (s \o m)[p] = s[p]
         /\ \A k \in 1..Len(m) : (s \o m)[Len(s) + k] = m[k]
  OBVIOUS

\* What a call may add to the log.
LEMMA MadeLogged ==
  ASSUME Located, Session, NEW c \in Conns, pc[c] \in Calling, log' = log \o Made(c)
  PROVE  /\ \A p \in DOMAIN log : log'[p] = log[p]
         /\ pc[c] = "run" /\ ~inTx[c] => RunLogged(c)
         /\ pc[c] = "commit" /\ inTx[c] => CommitLogged(c)
         /\ log' = log \/ RunLogged(c) \/ CommitLogged(c)
  <1>1. log \in Seq(Tasks \X Nat) /\ Made(c) \in Seq(Tasks \X Nat)
    BY MadeType DEF Located, TypeOK
  <1>2. /\ DOMAIN log' = 1..(Len(log) + Len(Made(c)))
        /\ \A p \in DOMAIN log : log'[p] = log[p]
        /\ \A k \in 1..Len(Made(c)) : log'[Len(log) + k] = Made(c)[k]
    <2> DEFINE S == Tasks \X Nat
               m == Made(c)
    <2>1. log \in Seq(S) /\ m \in Seq(S) /\ log' = log \o m
      BY <1>1
    <2> HIDE DEF S, m
    <2>2. /\ DOMAIN (log \o m) = 1..(Len(log) + Len(m))
          /\ \A p \in DOMAIN log : (log \o m)[p] = log[p]
          /\ \A k \in 1..Len(m) : (log \o m)[Len(log) + k] = m[k]
      BY <2>1, Concat
    <2>3. /\ DOMAIN log' = 1..(Len(log) + Len(m))
          /\ \A p \in DOMAIN log : log'[p] = log[p]
          /\ \A k \in 1..Len(m) : log'[Len(log) + k] = m[k]
      BY <2>1, <2>2, Zenon
    <2> QED BY <2>3 DEF m
  <1>3. Busy(c) /\ SessionOf(c)
    BY DEF Busy, Calling, Session
  <1>4. ASSUME pc[c] = "run", ~inTx[c] PROVE RunLogged(c)
    <2>1. Made(c) = <<Statement(c)>>
      BY <1>4 DEF Made
    <2>2. Len(Made(c)) = 1 /\ Made(c)[1] = Statement(c)
      BY <2>1
    <2>3. 1 \in 1..Len(Made(c))
      BY <2>2
    <2>4. log'[Len(log) + 1] = Statement(c)
      BY <1>2, <2>2, <2>3
    <2> QED BY <1>2, <1>4, <2>2, <2>4 DEF RunLogged, Statement
  <1>5. ASSUME pc[c] = "commit", inTx[c] PROVE CommitLogged(c)
    <2>1. Made(c) = pend[c]
      BY <1>5 DEF Made
    <2>2. /\ Len(pend[c]) = Shape(c).size /\ IsTx(c)
          /\ \A k \in DOMAIN pend[c] : pend[c][k] = <<cur[c], k>>
      BY <1>3, <1>5 DEF SessionOf, OpenTx
    <2>3. DOMAIN pend[c] = 1..Len(pend[c])
      BY DEF Located, TypeOK
    <2> QED BY <1>2, <1>5, <2>1, <2>2, <2>3 DEF CommitLogged
  <1>6. log' = log \/ RunLogged(c) \/ CommitLogged(c)
    <2>1. CASE pc[c] = "commit" /\ ~inTx[c]
      <3>1. Made(c) = <<>>
        BY <2>1, <1>3 DEF Made, SessionOf
      <3> QED BY <3>1, <1>1
    <2>2. CASE pc[c] # "commit" /\ ~(pc[c] = "run" /\ ~inTx[c])
      <3>1. Made(c) = <<>>
        BY <2>2 DEF Made
      <3> QED BY <3>1, <1>1
    <2> QED BY <1>4, <1>5, <2>1, <2>2
  <1> QED BY <1>2, <1>4, <1>5, <1>6

\* What a step inside a request adds to the log: statements of its own, by an
\* answer or when the connection is lost.
LEMMA LogStep ==
  ASSUME Located, Session, NEW c \in workers \cup SynchConns, Step(c), c \in Conns
  PROVE  /\ DOMAIN log = 1..Len(log) /\ Len(log) \in Nat
         /\ \A p \in DOMAIN log : log'[p] = log[p]
         /\ log' = log \/ RunLogged(c) \/ CommitLogged(c)
         /\ log' = log \/ Answered(c) \/ Reconnect(c) \/ ReconnectFails(c)
         /\ Answered(c) /\ pc[c] = "run" /\ ~inTx[c] => RunLogged(c)
         /\ Answered(c) /\ pc[c] = "commit" /\ inTx[c] => CommitLogged(c)
  <1>1. DOMAIN log = 1..Len(log) /\ Len(log) \in Nat
    BY DEF Located, TypeOK
  <1>2. CASE Answered(c)
    <2>1. pc[c] \in Calling /\ log' = log \o Made(c)
      BY <1>2 DEF Answered, At
    <2> QED BY <1>1, <1>2, <2>1, MadeLogged
  <1>3. CASE LoseConnection(c) /\ (Reconnect(c) \/ ReconnectFails(c)) /\ ~Answered(c)
    <2>1. pc[c] \in Calling /\ (log' = log \/ log' = log \o Made(c))
      BY <1>3 DEF LoseConnection, At
    <2> QED BY <1>1, <1>3, <2>1, MadeLogged
  <1>4. CASE log' = log /\ ~Answered(c)
    BY <1>1, <1>4
  <1>5. Refused(c) \/ Deadlock(c) \/ NoHandle(c) \/ Aborted(c) => log' = log
    <2>1. Aborted(c) => log' = log
      BY DEF Aborted
    <2> QED BY <2>1, RefusedFrame, DeadlockFrame, NoHandleFrame
  <1>6. Reconnect(c) \/ ReconnectFails(c) => LoseConnection(c)
    BY DEF Reconnect, ReconnectFails
  <1> QED BY <1>2, <1>3, <1>4, <1>5, <1>6 DEF Step

\* The positions a step adds.
LEMMA NewEntries ==
  ASSUME Located, NEW c \in Conns, cur[c] \in Tasks,
         DOMAIN log = 1..Len(log), Len(log) \in Nat,
         \A p \in DOMAIN log : log'[p] = log[p],
         log' = log \/ RunLogged(c) \/ CommitLogged(c)
  PROVE  /\ DOMAIN log \subseteq DOMAIN log'
         /\ \A q \in DOMAIN log' : q \notin DOMAIN log =>
              /\ log'[q][1] = cur[c]
              /\ \A p \in DOMAIN log : p < q
              /\ RunLogged(c) => q = Len(log) + 1 /\ log'[q][2] = next[c]
              /\ CommitLogged(c) => q - Len(log) \in 1..Shape(c).size /\ log'[q][2] = q - Len(log)
              /\ RunLogged(c) \/ CommitLogged(c)
  <1>1. Shape(c).size \in Nat
    BY ShapeFields DEF Shape, Located, TypeOK
  <1>2. CASE RunLogged(c)
    <2>1. DOMAIN log' = 1..(Len(log) + 1) /\ log'[Len(log) + 1] = <<cur[c], next[c]>>
          /\ ~CommitLogged(c)
      BY <1>2 DEF RunLogged, CommitLogged
    <2>2. \A q \in DOMAIN log' : q \notin DOMAIN log => q = Len(log) + 1
      BY <2>1
    <2>3. DOMAIN log \subseteq DOMAIN log' /\ \A p \in DOMAIN log : p < Len(log) + 1
      BY <2>1
    <2> QED BY <1>2, <2>1, <2>2, <2>3
  <1>3. CASE CommitLogged(c)
    <2>1. DOMAIN log' = 1..(Len(log) + Shape(c).size) /\ ~RunLogged(c)
          /\ \A k \in 1..Shape(c).size : log'[Len(log) + k] = <<cur[c], k>>
      BY <1>3 DEF RunLogged, CommitLogged
    <2>2. DOMAIN log \subseteq DOMAIN log'
      BY <1>1, <2>1
    <2>3. ASSUME NEW q \in DOMAIN log', q \notin DOMAIN log
          PROVE  /\ log'[q][1] = cur[c] /\ \A p \in DOMAIN log : p < q
                 /\ q - Len(log) \in 1..Shape(c).size /\ log'[q][2] = q - Len(log)
      <3>1. q \in Nat /\ q > Len(log) /\ q <= Len(log) + Shape(c).size
        BY <1>1, <2>1, <2>3
      <3>2. PICK k \in 1..Shape(c).size : q = Len(log) + k /\ k = q - Len(log)
        BY <1>1, <3>1
      <3>3. log'[q] = <<cur[c], k>>
        BY <2>1, <3>2
      <3> QED BY <3>1, <3>2, <3>3
    <2> QED BY <1>3, <2>1, <2>2, <2>3
  <1>4. CASE log' = log
    BY <1>4
  <1> QED BY <1>2, <1>3, <1>4

\* A connection that makes a step executes a request.
LEMMA StepBusy ==
  ASSUME Located, NEW c \in workers \cup SynchConns, c \in Conns, Step(c)
  PROVE  Busy(c) /\ cur[c] \in Tasks /\ cur[c] # NoTask /\ req' = req /\ Tasks' = Tasks
         /\ workers' = workers
  <1>1. pc[c] \in Calling \cup {"aborted"} /\ req' = req /\ workers' = workers
    <2>1. ASSUME NEW ok \in BOOLEAN, Called(c, ok)
          PROVE  pc[c] \in Calling /\ req' = req /\ workers' = workers
      BY <2>1 DEF Called
    <2>2. Reconnect(c) => pc[c] \in Calling /\ req' = req /\ workers' = workers
      BY DEF Reconnect, LoseConnection, At
    <2>3. Aborted(c) => pc[c] = "aborted" /\ req' = req /\ workers' = workers
      BY DEF Aborted, At
    <2> QED BY <2>1, <2>2, <2>3, StepCases
  <1>2. Busy(c)
    BY <1>1 DEF Busy, Calling
  <1>3. cur[c] \in Tasks /\ cur[c] # NoTask
    BY <1>2, TaskNumbers DEF Located, Cursor
  <1> QED BY <1>1, <1>2, <1>3 DEF Tasks

\* Requests that were begun stay begun.
LEMMA StartedStep ==
  ASSUME Located, NEW c \in workers \cup SynchConns, Step(c), c \in Conns, NEW u, Started(u)
  PROVE  Started(u)'
  <1>1. finished \subseteq finished' /\ (cur'[c] = cur[c] \/ cur[c] \in finished')
    <2>1. ASSUME NEW ok \in BOOLEAN, Called(c, ok)
          PROVE  finished \subseteq finished' /\ (cur'[c] = cur[c] \/ cur[c] \in finished')
      BY <2>1, CalledFacts
    <2>2. CASE Reconnect(c)
      BY <2>2 DEF Reconnect
    <2>3. CASE Aborted(c)
      BY <2>3 DEF Aborted, Finish
    <2> QED BY <2>1, <2>2, <2>3, StepCases
  <1>2. \A d \in Conns : d # c => cur'[d] = cur[d]
    BY StepFrame DEF Untouched
  <1> QED BY <1>1, <1>2 DEF Started

\* The statements of another request.
LEMMA OthersLog ==
  ASSUME Located, Session, NEW c \in workers \cup SynchConns, Step(c), c \in Conns,
         NEW t, t # cur[c]
  PROVE  /\ Of(t)' = Of(t) /\ Done(t)' = Done(t) /\ InLog(t)' = InLog(t)
         /\ \A p \in Of(t) : log'[p] = log[p]
  <1>1. cur[c] \in Tasks
    BY StepBusy
  <1>2. /\ \A p \in DOMAIN log : log'[p] = log[p]
        /\ DOMAIN log \subseteq DOMAIN log'
        /\ \A q \in DOMAIN log' : q \notin DOMAIN log => log'[q][1] = cur[c]
    BY <1>1, LogStep, NewEntries
  <1>3. Of(t)' = Of(t)
    BY <1>2 DEF Of
  <1>4. \A p \in Of(t) : log'[p] = log[p]
    BY <1>2 DEF Of
  <1>5. Done(t)' = Done(t)
    BY <1>3, <1>4 DEF Done
  <1>6. InLog(t)' = InLog(t)
    <2>1. InLog(t) <=> Of(t) # {}
      BY DEF InLog, Of
    <2>2. InLog(t)' <=> Of(t)' # {}
      BY DEF InLog, Of
    <2> QED BY <2>1, <2>2, <1>3 DEF InLog
  <1> QED BY <1>3, <1>4, <1>5, <1>6

\* Another connection's request has written what it had.
LEMMA WrittenFrame ==
  ASSUME NEW d \in Conns, WrittenBy(d), Untouched(d), NEW t, t = cur[d],
         Busy(d) => /\ \A f : Met(t, f)' <=> Met(t, f)
                    /\ Of(t)' = Of(t) /\ Done(t)' = Done(t) /\ InLog(t)' = InLog(t)
                    /\ \A p \in Of(t) : log'[p] = log[p]
  PROVE  WrittenBy(d)'
  <1> SUFFICES ASSUME Busy(d)'
               PROVE  (/\ IsTx(d) /\ (~Loose(cur[d]) \/ pc[d] = "begin" \/ inTx[d])
                            => ~InLog(cur[d])
                       /\ pc[d] = "run" => \A p \in Of(cur[d]) : log[p][2] <= next[d]
                       /\ pc[d] = "run" /\ ~Met(cur[d], "lost")
                            => \A p \in Of(cur[d]) : log[p][2] < next[d]
                       /\ ~IsTx(d) /\ NoFault(cur[d]) => 1..(next[d] - 1) \subseteq Done(cur[d]))'
    BY DEF WrittenBy
  <1>1. Busy(d)
    BY DEF Busy, Untouched
  <1>2. /\ IsTx(d)' = IsTx(d) /\ cur'[d] = t /\ cur[d] = t /\ pc'[d] = pc[d]
        /\ inTx'[d] = inTx[d] /\ next'[d] = next[d]
    BY <1>1 DEF Untouched, IsTx
  <1>3. \A f : <<t, f>> \in faults' <=> <<t, f>> \in faults
    BY <1>1 DEF Met
  <1>4. /\ Met(cur[d], "lost")' = Met(cur[d], "lost") /\ NoFault(cur[d])' = NoFault(cur[d])
        /\ Loose(cur[d])' = Loose(cur[d])
    BY <1>2, <1>3 DEF Met, NoFault, Loose
  <1>5. /\ Of(cur[d])' = Of(t)' /\ Done(cur[d])' = Done(t)' /\ InLog(cur[d])' = InLog(t)'
    BY <1>2 DEF Of, Done, InLog
  <1>6. /\ Of(cur[d])' = Of(cur[d]) /\ Done(cur[d])' = Done(cur[d])
        /\ InLog(cur[d])' = InLog(cur[d])
        /\ \A p \in Of(cur[d]) : log'[p] = log[p]
    BY <1>1, <1>2, <1>5
  <1> QED BY <1>1, <1>2, <1>4, <1>6 DEF WrittenBy

\* A transaction that is guarded after the step was so before, and the step has
\* written nothing.
LEMMA GuardedSilent ==
  ASSUME Located, Session, Guarded, NEW c \in workers \cup SynchConns, Step(c), c \in Conns,
         NEW t, t = cur[c], Busy(c)', IsTx(c)',
         ~Loose(t)' \/ pc'[c] = "begin" \/ inTx'[c]
  PROVE  /\ IsTx(c) /\ (~Loose(t) \/ pc[c] = "begin" \/ inTx[c])
         /\ log' = log
  <1>1. SessionOf(c) /\ GuardedOf(c)
    BY DEF Session, Guarded
  <1>2. /\ Loose(t) => Loose(t)'
        /\ Reconnect(c) \/ ReconnectFails(c) => Loose(t)'
        /\ Refused(c) /\ pc[c] = "begin" => Loose(t)'
    BY FaultStep DEF Loose
  <1>3. /\ log' = log \/ RunLogged(c) \/ CommitLogged(c)
        /\ log' = log \/ Answered(c) \/ Reconnect(c) \/ ReconnectFails(c)
    BY LogStep
  <1>4. ASSUME NEW ok \in BOOLEAN, Called(c, ok)
        PROVE  /\ Busy(c) /\ IsTx(c) /\ pc[c] # "commit" /\ pc'[c] # "begin"
               /\ pc'[c] = After(c, ok)
    <2>1. After(c, ok) # "idle" /\ Busy(c)
      BY <1>4, CalledFacts
    <2>2. IsTx(c) /\ pc'[c] = After(c, ok) /\ pc[c] \in Calling
      BY <2>1, <1>4, CalledFacts
    <2> QED BY <2>1, <2>2 DEF After, Calling
  <1>5. CASE Answered(c)
    <2>1. Called(c, TRUE) /\ mysql[c] /\ pc[c] \in Calling
      BY <1>5 DEF Answered, Called, At
    <2>2. inTx'[c] = InTxAfter(c) /\ faults' = faults
      BY <1>5 DEF Answered, Located, TypeOK
    <2>3. inTx'[c] => pc[c] = "begin" \/ (pc[c] = "run" /\ inTx[c])
      BY <2>2 DEF InTxAfter
    <2>4. Busy(c) /\ IsTx(c) /\ pc[c] # "commit" /\ pc'[c] # "begin"
      BY <2>1, <1>4
    <2>5. ~Loose(t) \/ pc[c] = "begin" \/ inTx[c]
      BY <1>2, <2>3, <2>4
    <2>6. ~RunLogged(c)
      BY <1>1, <1>2, <2>1, <2>3, <2>4 DEF RunLogged, GuardedOf
    <2>7. ~CommitLogged(c)
      BY <2>4 DEF CommitLogged
    <2> QED BY <1>3, <2>4, <2>5, <2>6, <2>7
  <1>6. CASE ReconnectFails(c) \/ Reconnect(c)
    <2>1. ~inTx'[c] /\ Loose(t)'
      <3>1. LoseConnection(c) /\ inTx \in [Conns -> BOOLEAN]
        <4>1. LoseConnection(c)
          BY <1>6 DEF ReconnectFails, Reconnect
        <4> QED BY <4>1 DEF Located, TypeOK
      <3>2. ~inTx'[c]
        BY <3>1 DEF LoseConnection
      <3> QED BY <1>2, <1>6, <3>2
    <2>2. pc'[c] = "begin"
      BY <2>1
    <2>3. Reconnect(c)
      <3>1. ASSUME ReconnectFails(c) PROVE FALSE
        <4>1. Called(c, FALSE)
          BY <3>1 DEF ReconnectFails, LoseConnection, Called, At
        <4> QED BY <4>1, <1>4, <2>2
      <3> QED BY <3>1, <1>6
    <2>4. pc[c] = "begin" /\ IsTx(c)
      BY <2>2, <2>3 DEF Reconnect, IsTx, Shape
    <2>5. ~RunLogged(c) /\ ~CommitLogged(c)
      BY <2>4 DEF RunLogged, CommitLogged
    <2> QED BY <1>3, <2>4, <2>5
  <1>7. CASE Refused(c) \/ Deadlock(c) \/ NoHandle(c)
    <2>1. Called(c, FALSE) /\ log' = log
      <3>1. Called(c, FALSE)
        BY <1>7, RefusedCall, DeadlockCall, NoHandleCall
      <3>2. log' = log
        BY <1>7, RefusedFrame, DeadlockFrame, NoHandleFrame
      <3> QED BY <3>1, <3>2
    <2>2. inTx'[c] => inTx[c]
      <3>1. inTx \in [Conns -> BOOLEAN]
        BY DEF Located, TypeOK
      <3>2. Refused(c) => inTx'[c] = (inTx[c] /\ pc[c] = "run")
        BY <3>1 DEF Refused
      <3>3. Deadlock(c) => ~inTx'[c]
        BY <3>1 DEF Deadlock
      <3>4. NoHandle(c) => inTx'[c] = inTx[c]
        BY DEF NoHandle
      <3> QED BY <1>7, <3>2, <3>3, <3>4
    <2>3. IsTx(c) /\ pc'[c] # "begin"
      BY <2>1, <1>4
    <2> QED BY <1>2, <2>1, <2>2, <2>3
  <1>8. CASE Aborted(c)
    <2>1. /\ pc[c] = "aborted" /\ inTx' = inTx /\ log' = log
          /\ pc'[c] = IF TryAgain(c) THEN IF Shape(c).size = 0 THEN "aborted" ELSE "begin"
                                     ELSE "idle"
      BY <1>8 DEF Aborted, At, Located, TypeOK
    <2>2. TryAgain(c)
      BY <2>1 DEF Busy
    <2>3. ~(Shape(c).size > 0)
      BY <1>1, <1>8, <2>2, SessionAborted
    <2>4. Shape(c).size \in Nat
      BY StepBusy, ShapeFields DEF Shape, Located, TypeOK
    <2>5. pc'[c] # "begin"
      BY <2>1, <2>3, <2>4
    <2>6. IsTx(c)
      BY <1>8, <2>2 DEF Aborted, IsTx, Shape
    <2> QED BY <1>2, <2>1, <2>5, <2>6
  <1> QED BY <1>5, <1>6, <1>7, <1>8 DEF Step

\* What the request of the connection that makes the step has written.
LEMMA WrittenStep ==
  ASSUME Located, Session, Guarded, NEW c \in workers \cup SynchConns, Step(c), c \in Conns,
         WrittenBy(c), Written
  PROVE  WrittenBy(c)'
  <1> SUFFICES ASSUME Busy(c)'
               PROVE  (/\ IsTx(c) /\ (~Loose(cur[c]) \/ pc[c] = "begin" \/ inTx[c])
                            => ~InLog(cur[c])
                       /\ pc[c] = "run" => \A p \in Of(cur[c]) : log[p][2] <= next[c]
                       /\ pc[c] = "run" /\ ~Met(cur[c], "lost")
                            => \A p \in Of(cur[c]) : log[p][2] < next[c]
                       /\ ~IsTx(c) /\ NoFault(cur[c]) => 1..(next[c] - 1) \subseteq Done(cur[c]))'
    BY DEF WrittenBy
  <1>1. PICK t : t = cur[c]
    OBVIOUS
  <1>2. Busy(c) /\ cur[c] \in Tasks /\ SessionOf(c) /\ next[c] \in Nat
    BY StepBusy DEF Session, Located, TypeOK
  <1>3. /\ DOMAIN log = 1..Len(log) /\ Len(log) \in Nat
        /\ \A p \in DOMAIN log : log'[p] = log[p]
        /\ log' = log \/ RunLogged(c) \/ CommitLogged(c)
    BY LogStep
  <1>4. /\ DOMAIN log \subseteq DOMAIN log'
        /\ \A q \in DOMAIN log' : q \notin DOMAIN log =>
             /\ RunLogged(c) => q = Len(log) + 1 /\ log'[q][2] = next[c]
             /\ RunLogged(c) \/ CommitLogged(c)
    BY <1>2, <1>3, NewEntries
  <1>5. /\ \A f : Met(t, f) => Met(t, f)'
        /\ NoFault(t)' => NoFault(t)
        /\ Answered(c) \/ Aborted(c) \/ ~NoFault(t)'
        /\ Reconnect(c) \/ ReconnectFails(c) => Met(t, "lost")'
    BY <1>1, FaultStep
  <1>6. cur'[c] = t /\ Shape(c)' = Shape(c) /\ IsTx(c)' = IsTx(c)
    <2>1. ASSUME NEW ok \in BOOLEAN, Called(c, ok)
          PROVE  cur'[c] = t /\ Shape(c)' = Shape(c) /\ IsTx(c)' = IsTx(c)
      <3>1. After(c, ok) # "idle"
        BY <2>1, CalledFacts
      <3> QED BY <2>1, <3>1, <1>1, CalledFacts
    <2>2. CASE Reconnect(c)
      BY <2>2, <1>1 DEF Reconnect, Shape, IsTx
    <2>3. CASE Aborted(c)
      <3>1. TryAgain(c)
        <4>1. ~TryAgain(c) => pc'[c] = "idle"
          BY <2>3 DEF Aborted, Located, TypeOK
        <4> QED BY <4>1 DEF Busy
      <3> QED BY <2>3, <3>1, <1>1 DEF Aborted, Shape, IsTx
    <2> QED BY <2>1, <2>2, <2>3, StepCases
  <1>7. /\ Met(cur[c], "lost")' = Met(t, "lost")' /\ NoFault(cur[c])' = NoFault(t)'
        /\ Loose(cur[c])' = Loose(t)'
        /\ Of(cur[c])' = Of(t)' /\ Done(cur[c])' = Done(t)' /\ InLog(cur[c])' = InLog(t)'
    BY <1>6 DEF Met, NoFault, Of, Done, InLog
  <1>8. /\ IsTx(c) /\ (~Loose(t) \/ pc[c] = "begin" \/ inTx[c]) => ~InLog(t)
        /\ pc[c] = "run" => \A p \in Of(t) : log[p][2] <= next[c]
        /\ pc[c] = "run" /\ ~Met(t, "lost") => \A p \in Of(t) : log[p][2] < next[c]
        /\ ~IsTx(c) /\ NoFault(t) => 1..(next[c] - 1) \subseteq Done(t)
    BY <1>1, <1>2 DEF WrittenBy
  <1>9. IsTx(c)' /\ (~Loose(t)' \/ pc'[c] = "begin" \/ inTx'[c]) => ~InLog(t)'
    <2> SUFFICES ASSUME IsTx(c)', ~Loose(t)' \/ pc'[c] = "begin" \/ inTx'[c]
                 PROVE  ~InLog(t)'
      OBVIOUS
    <2>1. IsTx(c) /\ (~Loose(t) \/ pc[c] = "begin" \/ inTx[c]) /\ log' = log
      BY <1>1, GuardedSilent
    <2> QED BY <2>1, <1>8 DEF InLog
  <1>10. ASSUME pc'[c] = "run"
         PROVE  \/ pc[c] = "begin" /\ ~InLog(t)' /\ Of(t)' = {}
                \/ /\ pc[c] = "run" /\ next'[c] \in {next[c], next[c] + 1}
                   /\ next'[c] = next[c] => Met(t, "lost")'
                   /\ \A p \in Of(t)' : log'[p][2] <= next[c]
    <2>1. pc[c] \in {"begin", "run"}
      <3>1. ASSUME NEW ok \in BOOLEAN, Called(c, ok) PROVE pc[c] \in {"begin", "run"}
        <4>1. After(c, ok) = "run" /\ pc[c] \in Calling
          BY <3>1, <1>10, CalledFacts
        <4> QED BY <4>1 DEF After, Calling
      <3>2. CASE Reconnect(c)
        BY <3>2, <1>10 DEF Reconnect
      <3>3. CASE Aborted(c)
        BY <3>3, <1>10 DEF Aborted, Located, TypeOK
      <3> QED BY <3>1, <3>2, <3>3, StepCases
    <2>2. CASE pc[c] = "begin"
      <3>1. IsTx(c)
        BY <2>2, <1>2 DEF Located, Cursor
      <3>2. log' = log
        BY <2>2, <1>3 DEF RunLogged, CommitLogged
      <3> QED BY <2>2, <3>1, <3>2, <1>8 DEF InLog, Of
    <2>3. CASE pc[c] = "run"
      <3>1. next'[c] \in {next[c], next[c] + 1} /\ (next'[c] = next[c] => Met(t, "lost")')
        <4>1. ASSUME NEW ok \in BOOLEAN, Called(c, ok)
              PROVE  next'[c] = next[c] + 1 /\ next'[c] # next[c]
          <5>1. next'[c] = next[c] + 1
            BY <4>1, <2>3, CalledFacts
          <5>2. next[c] + 1 # next[c]
            BY <1>2
          <5> QED BY <5>1, <5>2
        <4>2. CASE Reconnect(c)
          BY <4>2, <1>5 DEF Reconnect
        <4>3. ~Aborted(c)
          BY <2>3 DEF Aborted, At
        <4> QED BY <4>1, <4>2, <4>3, StepCases
      <3>2. ASSUME NEW p \in Of(t)' PROVE log'[p][2] <= next[c]
        <4>1. p \in DOMAIN log' /\ log'[p][1] = t
          BY <3>2 DEF Of
        <4>2. CASE p \in DOMAIN log
          BY <4>1, <4>2, <2>3, <1>3, <1>8 DEF Of
        <4>3. CASE p \notin DOMAIN log
          <5>1. RunLogged(c)
            BY <4>1, <4>3, <2>3, <1>4 DEF CommitLogged
          <5>2. log'[p][2] = next[c]
            BY <4>1, <4>3, <5>1, <1>4
          <5> QED BY <5>2, <1>2
        <4> QED BY <4>2, <4>3
      <3> QED BY <2>3, <3>1, <3>2
    <2> QED BY <2>1, <2>2, <2>3
  <1>11. ASSUME NEW p \in Of(t)', pc'[c] = "run"
         PROVE  log'[p][2] <= next'[c] /\ (~Met(t, "lost")' => log'[p][2] < next'[c])
    <2>1. /\ next'[c] \in {next[c], next[c] + 1} /\ (next'[c] = next[c] => Met(t, "lost")')
          /\ log'[p][2] <= next[c]
      BY <1>10, <1>11
    <2>2. PICK x \in Nat : x = log'[p][2]
      <3>1. p \in DOMAIN log'
        BY DEF Of
      <3>2. Located'
        BY <1>2, LocatedNext DEF Next
      <3>3. log'[p] \in Tasks' \X Nat
        BY <3>1, <3>2 DEF Located, TypeOK
      <3> QED BY <3>3
    <2>3. PICK n \in Nat : n = next'[c]
      BY <2>1, <1>2
    <2>4. x <= next[c] /\ n \in {next[c], next[c] + 1} /\ (n = next[c] => Met(t, "lost")')
      BY <2>1, <2>2, <2>3, Zenon
    <2>5. x <= n /\ (n # next[c] => x < n)
      BY <2>4, <1>2
    <2> QED BY <2>2, <2>3, <2>4, <2>5, Zenon
  <1>12. ASSUME ~IsTx(c)', NoFault(t)' PROVE 1..(next'[c] - 1) \subseteq Done(t)'
    <2>1. ~IsTx(c) /\ NoFault(t)
      BY <1>5, <1>6, <1>12
    <2>2. pc[c] = "run" /\ ~inTx[c]
      BY <2>1, <1>2 DEF Located, Cursor, SessionOf, OpenTx
    <2>3. Answered(c)
      BY <2>2, <1>5, <1>12 DEF Aborted, At
    <2>4. RunLogged(c)
      BY <2>2, <2>3, LogStep
    <2>5. Called(c, TRUE)
      BY <2>3 DEF Answered, Called, At
    <2>6. next'[c] = next[c] + 1
      BY <2>2, <2>5, CalledFacts
    <2>7. next'[c] - 1 = next[c]
      BY <2>6, <1>2
    <2>8. Done(t) \subseteq Done(t)' /\ next[c] \in Done(t)'
      <3>1. Done(t) \subseteq Done(t)'
        BY <1>3, <1>4 DEF Done, Of
      <3>2. Len(log) + 1 \in DOMAIN log' /\ log'[Len(log) + 1] = <<t, next[c]>>
        BY <2>4, <1>1, <1>3 DEF RunLogged
      <3>3. next[c] \in Done(t)'
        BY <3>2 DEF Done, Of
      <3> QED BY <3>1, <3>3
    <2>9. 1..(next[c] - 1) \subseteq Done(t)
      BY <2>1, <1>8
    <2>10. \A k \in 1..next[c] : k = next[c] \/ k \in 1..(next[c] - 1)
      BY <1>2
    <2> QED BY <2>7, <2>8, <2>9, <2>10
  <1> QED BY <1>7, <1>9, <1>11, <1>12

\* What is written is kept by every step.
LEMMA WrittenNext ==
  ASSUME Located, Session, Guarded, Written, [Next]_vars
  PROVE  Written'
  <1>1. Located' /\ \A d \in Conns : WrittenBy(d)
    BY LocatedNext DEF Written
  <1>2. \A p \in DOMAIN log : /\ log[p][1] \in Tasks /\ log[p][2] \in Nat
                              /\ Started(log[p][1]) /\ log[p][2] > 0
    BY DEF Located, TypeOK, Written
  <1>3. ASSUME NEW c \in workers \cup SynchConns, Step(c) PROVE Written'
    <2>1. c \in Conns
      BY <1>3, InConns DEF Located, TypeOK
    <2>2. WrittenBy(c)'
      BY <1>1, <1>3, <2>1, WrittenStep
    <2>3. ASSUME NEW d \in Conns, d # c PROVE WrittenBy(d)'
      <3>1. PICK t : t = cur[d]
        OBVIOUS
      <3>2. PICK u : u = cur[c]
        OBVIOUS
      <3>3. ASSUME Busy(d)
            PROVE  /\ \A f : Met(t, f)' <=> Met(t, f)
                   /\ Of(t)' = Of(t) /\ Done(t)' = Done(t) /\ InLog(t)' = InLog(t)
                   /\ \A p \in Of(t) : log'[p] = log[p]
        <4>1. t # u
          BY <2>1, <2>3, <3>1, <3>2, <3>3, Different
        <4>2. \A f : Met(t, f)' <=> Met(t, f)
          BY <1>3, <3>2, <4>1, FaultStep
        <4> QED BY <1>3, <2>1, <3>2, <4>1, <4>2, OthersLog
      <3>4. Untouched(d)
        BY <1>3, <2>3, StepFrame
      <3> QED BY <1>1, <3>1, <3>3, <3>4, WrittenFrame
    <2>4. ASSUME NEW p \in DOMAIN log' PROVE (Started(log[p][1]) /\ log[p][2] > 0)'
      <3>1. PICK u : u = log'[p][1]
        OBVIOUS
      <3>2. cur[c] \in Tasks
        BY <1>3, <2>1, StepBusy
      <3>3. /\ DOMAIN log = 1..Len(log) /\ Len(log) \in Nat
            /\ \A q \in DOMAIN log : log'[q] = log[q]
            /\ log' = log \/ RunLogged(c) \/ CommitLogged(c)
        BY <1>3, <2>1, LogStep
      <3>4. /\ DOMAIN log \subseteq DOMAIN log'
            /\ \A q \in DOMAIN log' : q \notin DOMAIN log =>
                 /\ log'[q][1] = cur[c]
                 /\ RunLogged(c) => q = Len(log) + 1 /\ log'[q][2] = next[c]
                 /\ CommitLogged(c) => q - Len(log) \in 1..Shape(c).size
                                       /\ log'[q][2] = q - Len(log)
                 /\ RunLogged(c) \/ CommitLogged(c)
        BY <2>1, <3>2, <3>3, NewEntries
      <3>5. Started(u) /\ log'[p][2] > 0
        <4>1. CASE p \in DOMAIN log
          BY <4>1, <1>2, <3>1, <3>3
        <4>2. CASE p \notin DOMAIN log
          <5>1. u = cur[c]
            BY <4>2, <3>1, <3>4
          <5>2. CASE RunLogged(c)
            <6>1. pc[c] = "run" /\ Busy(c)
              BY <5>2, <1>3, <2>1, StepBusy DEF RunLogged
            <6>2. next[c] \in 1..Shape(c).size
              BY <6>1, <2>1 DEF Located, Cursor
            <6>3. next[c] > 0
              BY <6>2
            <6> QED BY <4>2, <5>1, <5>2, <6>3, <2>1, <3>4 DEF Started
          <5>3. CASE CommitLogged(c)
            <6>1. p - Len(log) \in 1..Shape(c).size /\ log'[p][2] = p - Len(log)
              BY <4>2, <5>3, <3>4
            <6>2. p - Len(log) > 0
              BY <6>1
            <6> QED BY <5>1, <6>1, <6>2, <2>1 DEF Started
          <5> QED BY <4>2, <5>2, <5>3, <3>4
        <4> QED BY <4>1, <4>2
      <3>6. Started(u)'
        BY <1>3, <2>1, <3>5, StartedStep
      <3> QED BY <3>1, <3>5, <3>6 DEF Started
    <2> QED BY <2>2, <2>3, <2>4 DEF Written
  <1>4. ASSUME NEW c \in Conns, NEW t, Begins(c, t) PROVE Written'
    <2>1. \A d \in Conns : d # c => Untouched(d)
      BY <1>1, <1>4, SessionStart
    <2>2. log' = log /\ faults' = faults /\ finished' = finished /\ ~Started(t)
      BY <1>4 DEF Begins
    <2>3. cur[c] = NoTask /\ cur'[c] = t /\ next'[c] = 1
      BY <1>4 DEF Begins, Start, Located, TypeOK, Cursor, Busy
    <2>4. ASSUME NEW d \in Conns, d # c PROVE WrittenBy(d)'
      <3>1. PICK u : u = cur[d]
        OBVIOUS
      <3>2. /\ \A f : Met(u, f)' <=> Met(u, f)
            /\ Of(u)' = Of(u) /\ Done(u)' = Done(u) /\ InLog(u)' = InLog(u)
            /\ \A p \in Of(u) : log'[p] = log[p]
        BY <2>2 DEF Met, Of, Done, InLog
      <3> QED BY <1>1, <2>1, <2>4, <3>1, <3>2, WrittenFrame
    <2>5. WrittenBy(c)'
      <3>1. \A p \in DOMAIN log : log[p][1] # t
        BY <1>2, <2>2
      <3>2. ~InLog(cur[c])' /\ Of(cur[c])' = {}
        BY <3>1, <2>2, <2>3 DEF InLog, Of
      <3>3. 1..(next'[c] - 1) = {}
        BY <2>3
      <3> QED BY <3>2, <3>3 DEF WrittenBy
    <2>6. ASSUME NEW p \in DOMAIN log' PROVE (Started(log[p][1]) /\ log[p][2] > 0)'
      <3>1. log[p][1] # NoTask /\ p \in DOMAIN log
        BY <1>2, <2>2, <2>6, TaskNumbers DEF Located
      <3>2. log[p][1] \in finished \/ \E d \in Conns : d # c /\ cur[d] = log[p][1]
        BY <1>2, <2>3, <3>1 DEF Started
      <3> QED BY <1>2, <2>1, <2>2, <3>1, <3>2 DEF Started, Untouched
    <2> QED BY <2>4, <2>5, <2>6 DEF Written
  <1>5. CASE Quiet
    <2>1. log' = log /\ faults' = faults /\ finished' = finished /\ cur' = cur
      BY <1>5 DEF Quiet
    <2>2. ASSUME NEW d \in Conns PROVE WrittenBy(d)'
      <3>1. CASE Busy(d)'
        <4>1. Untouched(d)
          BY <1>5, <3>1, QuietFrame
        <4>2. PICK u : u = cur[d]
          OBVIOUS
        <4>3. /\ \A f : Met(u, f)' <=> Met(u, f)
              /\ Of(u)' = Of(u) /\ Done(u)' = Done(u) /\ InLog(u)' = InLog(u)
              /\ \A p \in Of(u) : log'[p] = log[p]
          BY <2>1 DEF Met, Of, Done, InLog
        <4> QED BY <1>1, <4>1, <4>2, <4>3, WrittenFrame
      <3>2. CASE ~Busy(d)'
        BY <3>2 DEF WrittenBy
      <3> QED BY <3>1, <3>2
    <2>3. \A p \in DOMAIN log' : (Started(log[p][1]) /\ log[p][2] > 0)'
      BY <1>2, <2>1 DEF Started
    <2> QED BY <2>2, <2>3 DEF Written
  <1> QED BY <1>3, <1>4, <1>5, NextCases

-----------------------------------------------------------------------------
(* The properties.                                                          *)

\* A commit of a transaction of which nothing was written writes all of it.
LEMMA CommitDone ==
  ASSUME Located, NEW c \in Conns, cur[c] \in Tasks, NEW t, t = cur[c], ~InLog(t),
         DOMAIN log = 1..Len(log), Len(log) \in Nat,
         \A p \in DOMAIN log : log'[p] = log[p], CommitLogged(c)
  PROVE  Done(t)' = 1..req[t].size
  <1>1. Shape(c) = req[t] /\ Shape(c).size \in Nat
    BY ShapeFields DEF Shape, Located, TypeOK
  <1>2. \A q \in DOMAIN log' : q \notin DOMAIN log =>
          q - Len(log) \in 1..Shape(c).size /\ log'[q][2] = q - Len(log)
    BY NewEntries
  <1>3. ASSUME NEW q \in Of(t)' PROVE log'[q][2] \in 1..Shape(c).size
    <2>1. q \in DOMAIN log' /\ log'[q][1] = t
      BY DEF Of
    <2>2. q \notin DOMAIN log
      BY <2>1 DEF InLog
    <2> QED BY <1>2, <2>1, <2>2
  <1>4. ASSUME NEW k \in 1..Shape(c).size PROVE \E q \in Of(t)' : log'[q][2] = k
    <2>1. log'[Len(log) + k] = <<t, k>> /\ DOMAIN log' = 1..(Len(log) + Shape(c).size)
      BY DEF CommitLogged
    <2>2. Len(log) + k \in 1..(Len(log) + Shape(c).size)
      BY <1>1
    <2>3. Len(log) + k \in Of(t)'
      BY <2>1, <2>2 DEF Of
    <2> QED BY <2>1, <2>3
  <1> QED BY <1>1, <1>3, <1>4 DEF Done

\* A step that writes nothing and finishes nothing keeps the properties.
LEMMA PropertiesFrame ==
  ASSUME Located, log' = log, faults' = faults, finished' = finished, workers' = workers,
         Tasks \subseteq Tasks', \A u \in Tasks : req'[u] = req[u],
         AllOrNothing, ExecutedOnce, InOrder, FinishedIsDurable
  PROVE  AllOrNothing' /\ ExecutedOnce' /\ InOrder' /\ FinishedIsDurable'
  <1>1. \A p \in DOMAIN log : log[p][1] \in Tasks
    BY DEF Located, TypeOK
  <1>2. AllOrNothing'
    <2> SUFFICES ASSUME NEW t \in Tasks', req'[t].kind = "transaction", ~Loose(t)'
                 PROVE  Done(t)' \in {{}, 1..req'[t].size}
      BY DEF AllOrNothing, Loose
    <2>1. Done(t)' = Done(t) /\ ~Loose(t)
      BY DEF Done, Of, Met, Loose
    <2>2. CASE t \in Tasks
      BY <2>1, <2>2 DEF AllOrNothing, Loose
    <2>3. CASE t \notin Tasks
      <3>1. Done(t) = {}
        BY <1>1, <2>3 DEF Done, Of
      <3> QED BY <2>1, <3>1
    <2> QED BY <2>2, <2>3
  <1>3. ExecutedOnce'
    BY DEF ExecutedOnce, Met
  <1>4. InOrder'
    BY <1>1 DEF InOrder
  <1>5. FinishedIsDurable'
    <2> SUFFICES ASSUME NEW t \in finished',
                        \A f \in Faults : ~Met(t, f)'
                 PROVE  Done(t)' = 1..req'[t].size
      BY DEF FinishedIsDurable
    <2>1. Done(t)' = Done(t) /\ t \in finished /\ t \in Tasks
      BY TaskNumbers DEF Done, Of, Located
    <2>2. \A f \in Faults : ~Met(t, f)
      BY DEF Met
    <2> QED BY <2>1, <2>2 DEF FinishedIsDurable
  <1> QED BY <1>2, <1>3, <1>4, <1>5

\* A step inside a request leaves transactions whole.
LEMMA AllOrNothingStep ==
  ASSUME Located, Session, Guarded, Written, AllOrNothing,
         NEW c \in workers \cup SynchConns, Step(c), c \in Conns
  PROVE  AllOrNothing'
  <1>1. Busy(c) /\ cur[c] \in Tasks /\ req' = req /\ Tasks' = Tasks
    BY StepBusy
  <1> SUFFICES ASSUME NEW t \in Tasks, req[t].kind = "transaction", ~Loose(t)'
               PROVE  Done(t)' \in {{}, 1..req[t].size}
    BY <1>1 DEF AllOrNothing, Loose
  <1>2. CASE t # cur[c]
    <2>1. PICK u : u = cur[c]
      OBVIOUS
    <2>2. ~Loose(t)
      BY <1>2, <2>1, FaultStep DEF Loose
    <2>3. Done(t)' = Done(t)
      BY <1>2, OthersLog
    <2> QED BY <2>2, <2>3 DEF AllOrNothing, Loose
  <1>3. CASE t = cur[c]
    <2>1. ~Loose(t) /\ ~Reconnect(c) /\ ~ReconnectFails(c)
      BY <1>3, FaultStep DEF Loose
    <2>2. IsTx(c)
      BY <1>3 DEF IsTx, Shape
    <2>3. ~InLog(t)
      BY <1>1, <1>3, <2>1, <2>2 DEF Written, WrittenBy
    <2>4. CASE log' = log
      <3>1. Done(t)' = {}
        BY <2>3, <2>4 DEF Done, Of, InLog
      <3> QED BY <3>1
    <2>5. CASE log' # log
      <3>1. /\ DOMAIN log = 1..Len(log) /\ Len(log) \in Nat
            /\ \A p \in DOMAIN log : log'[p] = log[p]
            /\ Answered(c) /\ (RunLogged(c) \/ CommitLogged(c))
        BY <2>1, <2>5, LogStep
      <3>2. ~RunLogged(c)
        <4>1. mysql[c]
          BY <3>1 DEF Answered
        <4> QED BY <4>1, <1>1, <1>3, <2>1, <2>2 DEF RunLogged, Guarded, GuardedOf
      <3>3. Done(t)' = 1..req[t].size
        BY <3>1, <3>2, <1>1, <1>3, <2>3, CommitDone
      <3> QED BY <3>3
    <2> QED BY <2>4, <2>5
  <1> QED BY <1>2, <1>3

\* What a new entry of the log has to do with an old one of the same request.
LEMMA OldAndNew ==
  ASSUME Located, Session, Written, NEW c \in workers \cup SynchConns, Step(c), c \in Conns,
         NEW p \in DOMAIN log, NEW q \in DOMAIN log', q \notin DOMAIN log,
         log[p][1] = cur[c]
  PROVE  /\ log[p][2] <= log'[q][2]
         /\ log[p][2] = log'[q][2] => Met(cur[c], "lost")
  <1>1. Busy(c) /\ cur[c] \in Tasks /\ WrittenBy(c) /\ SessionOf(c)
    BY StepBusy DEF Written, Session
  <1>2. /\ DOMAIN log = 1..Len(log) /\ Len(log) \in Nat
        /\ \A i \in DOMAIN log : log'[i] = log[i]
        /\ log' = log \/ RunLogged(c) \/ CommitLogged(c)
    BY LogStep
  <1>3. (RunLogged(c) => log'[q][2] = next[c]) /\ (RunLogged(c) \/ CommitLogged(c))
    BY <1>1, <1>2, NewEntries
  <1>4. ~CommitLogged(c)
    BY <1>1 DEF CommitLogged, WrittenBy, InLog
  <1>5. pc[c] = "run" /\ log'[q][2] = next[c]
    BY <1>3, <1>4 DEF RunLogged
  <1>6. p \in Of(cur[c]) /\ log[p][2] \in Nat /\ next[c] \in Nat
    BY DEF Of, Located, TypeOK
  <1>7. log[p][2] <= next[c] /\ (Met(cur[c], "lost") \/ log[p][2] < next[c])
    BY <1>1, <1>5, <1>6 DEF WrittenBy
  <1> QED BY <1>5, <1>6, <1>7

\* No statement is executed twice by a step.
LEMMA ExecutedOnceStep ==
  ASSUME Located, Session, Guarded, Written, ExecutedOnce,
         NEW c \in workers \cup SynchConns, Step(c), c \in Conns
  PROVE  ExecutedOnce'
  <1>1. PICK t : t = cur[c]
    OBVIOUS
  <1>2. \A u, f : Met(u, f) => Met(u, f)'
    BY <1>1, FaultStep
  <1>3. /\ DOMAIN log = 1..Len(log) /\ Len(log) \in Nat
        /\ \A i \in DOMAIN log : log'[i] = log[i]
        /\ log' = log \/ RunLogged(c) \/ CommitLogged(c)
    BY LogStep
  <1>4. \A q \in DOMAIN log' : q \notin DOMAIN log =>
          /\ log'[q][1] = t
          /\ RunLogged(c) => q = Len(log) + 1
          /\ CommitLogged(c) => q - Len(log) \in 1..Shape(c).size /\ log'[q][2] = q - Len(log)
          /\ RunLogged(c) \/ CommitLogged(c)
    BY <1>1, <1>3, StepBusy, NewEntries
  <1>5. ASSUME NEW p \in DOMAIN log, NEW q \in DOMAIN log', q \notin DOMAIN log,
               log'[p] = log'[q]
        PROVE  Met(t, "lost")'
    <2>1. log[p][1] = cur[c] /\ log[p][2] = log'[q][2]
      BY <1>1, <1>3, <1>4, <1>5
    <2>2. Met(cur[c], "lost")
      BY <1>5, <2>1, OldAndNew
    <2> QED BY <1>1, <1>2, <2>2
  <1>6. ASSUME NEW p \in DOMAIN log', NEW q \in DOMAIN log', log'[p] = log'[q], p # q
        PROVE  <<log'[p][1], "lost">> \in faults'
    <2>1. CASE p \in DOMAIN log /\ q \in DOMAIN log
      <3>1. Met(log[p][1], "lost")
        BY <1>3, <1>6, <2>1 DEF ExecutedOnce
      <3> QED BY <1>2, <1>3, <2>1, <3>1 DEF Met
    <2>2. CASE p \in DOMAIN log /\ q \notin DOMAIN log
      BY <1>4, <1>5, <1>6, <2>2 DEF Met
    <2>3. CASE p \notin DOMAIN log /\ q \in DOMAIN log
      BY <1>4, <1>5, <1>6, <2>3 DEF Met
    <2>4. CASE p \notin DOMAIN log /\ q \notin DOMAIN log
      <3>1. CASE RunLogged(c)
        BY <1>4, <1>6, <2>4, <3>1
      <3>2. CASE CommitLogged(c)
        <4>1. p - Len(log) = q - Len(log)
          BY <1>4, <1>6, <2>4, <3>2
        <4>2. p \in Nat /\ q \in Nat
          <5>1. DOMAIN log' = 1..(Len(log) + Shape(c).size)
            BY <3>2 DEF CommitLogged
          <5> QED BY <5>1
        <4> QED BY <4>1, <4>2, <1>3, <1>6
      <3> QED BY <1>4, <2>4, <3>1, <3>2
    <2> QED BY <2>1, <2>2, <2>3, <2>4
  <1> QED BY <1>6 DEF ExecutedOnce, Met

\* Statements take effect in order, and with one worker so do requests.
LEMMA InOrderStep ==
  ASSUME Located, Session, Guarded, Written, InOrder,
         NEW c \in workers \cup SynchConns, Step(c), c \in Conns
  PROVE  InOrder'
  <1>1. /\ DOMAIN log = 1..Len(log) /\ Len(log) \in Nat
        /\ \A i \in DOMAIN log : log'[i] = log[i]
        /\ log' = log \/ RunLogged(c) \/ CommitLogged(c)
    BY LogStep
  <1>2. Busy(c) /\ cur[c] \in Tasks /\ req' = req /\ workers' = workers
    BY StepBusy
  <1>3. \A q \in DOMAIN log' : q \notin DOMAIN log =>
          /\ log'[q][1] = cur[c]
          /\ \A p \in DOMAIN log : p < q
          /\ RunLogged(c) => q = Len(log) + 1
          /\ CommitLogged(c) => q - Len(log) \in 1..Shape(c).size /\ log'[q][2] = q - Len(log)
          /\ RunLogged(c) \/ CommitLogged(c)
    BY <1>1, <1>2, NewEntries
  <1>4. \A q \in DOMAIN log' : q \in Nat
    <2>1. Shape(c).size \in Nat
      BY <1>2, ShapeFields DEF Shape, Located, TypeOK
    <2> QED BY <1>1, <2>1 DEF RunLogged, CommitLogged
  <1>5. ASSUME NEW p \in DOMAIN log, Cardinality(workers) = 1,
               ~req[log[p][1]].direct, ~req[cur[c]].direct
        PROVE  log[p][1] <= cur[c]
    <2> DEFINE t == log[p][1]
    <2>1. t \in Tasks /\ t \in Nat /\ t # NoTask /\ cur[c] \in Nat /\ Started(t)
      <3>1. t \in Tasks
        BY DEF Located, TypeOK
      <3>2. Started(t)
        BY DEF Written
      <3>3. \A u \in Tasks : u \in Nat /\ u # NoTask
        BY TaskNumbers DEF Located
      <3> HIDE DEF t
      <3> QED BY <1>2, <3>1, <3>2, <3>3
    <2>2. c \in workers
      BY <1>2, <1>5 DEF Located, Cursor, Shape
    <2>3. CASE t \in finished
      <3>1. t < cur[c]
        BY <1>2, <1>5, <2>2, <2>3, TaskNumbers DEF Located, Places
      <3> QED BY <3>1, <2>1
    <2>4. ASSUME NEW d \in Conns, cur[d] = t PROVE t <= cur[c]
      <3>1. Busy(d)
        BY <2>1, <2>4 DEF Located, Cursor
      <3>2. d \in workers
        BY <3>1, <1>5, <2>4 DEF Located, Cursor, Shape
      <3>3. d = c
        BY <3>2, <2>2, <1>5, OneWorker DEF Located, TypeOK
      <3> QED BY <3>3, <2>1, <2>4
    <2> QED BY <2>1, <2>3, <2>4 DEF Started
  <1>6. ASSUME NEW p \in DOMAIN log', NEW q \in DOMAIN log', p < q
        PROVE  /\ log'[p][1] = log'[q][1] => log'[p][2] <= log'[q][2]
               /\ Cardinality(workers) = 1 /\ ~req[log'[p][1]].direct /\ ~req[log'[q][1]].direct
                    => log'[p][1] <= log'[q][1]
    <2>1. CASE p \in DOMAIN log /\ q \in DOMAIN log
      BY <1>1, <1>6, <2>1 DEF InOrder
    <2>2. CASE p \in DOMAIN log /\ q \notin DOMAIN log
      <3>1. log'[q][1] = cur[c] /\ log'[p] = log[p]
        BY <1>1, <1>3, <2>2
      <3>2. log[p][1] = cur[c] => log[p][2] <= log'[q][2]
        BY <2>2, OldAndNew
      <3> QED BY <1>5, <2>2, <3>1, <3>2
    <2>3. CASE p \notin DOMAIN log /\ q \in DOMAIN log
      <3>1. q < p
        BY <1>3, <2>3
      <3> QED BY <3>1, <1>4, <1>6
    <2>4. CASE p \notin DOMAIN log /\ q \notin DOMAIN log
      <3>1. log'[p][1] = cur[c] /\ log'[q][1] = cur[c] /\ cur[c] <= cur[c]
        <4>1. cur[c] \in Nat
          BY <1>2, TaskNumbers DEF Located
        <4> QED BY <1>3, <2>4, <4>1
      <3>2. CASE RunLogged(c)
        <4>1. p = Len(log) + 1 /\ q = Len(log) + 1
          BY <1>3, <2>4, <3>2
        <4> QED BY <4>1, <1>1, <1>6
      <3>3. CASE CommitLogged(c)
        <4>1. log'[p][2] = p - Len(log) /\ log'[q][2] = q - Len(log)
          BY <1>3, <2>4, <3>3
        <4>2. p - Len(log) <= q - Len(log)
          BY <1>1, <1>4, <1>6
        <4> QED BY <3>1, <4>1, <4>2
      <3> QED BY <1>3, <2>4, <3>2, <3>3
    <2> QED BY <2>1, <2>2, <2>3, <2>4
  <1> QED BY <1>2, <1>6 DEF InOrder

\* A request that returns without an error has been written.
LEMMA DurableStep ==
  ASSUME Located, Session, Guarded, Written, FinishedIsDurable,
         NEW c \in workers \cup SynchConns, Step(c), c \in Conns
  PROVE  FinishedIsDurable'
  <1>1. Busy(c) /\ cur[c] \in Tasks /\ req' = req /\ WrittenBy(c) /\ GuardedOf(c) /\ SessionOf(c)
    BY StepBusy DEF Written, Guarded, Session
  <1> SUFFICES ASSUME NEW t \in finished', NoFault(t)'
               PROVE  Done(t)' = 1..req[t].size
    BY <1>1 DEF FinishedIsDurable, NoFault
  <1>2. CASE t \in finished
    <2>1. t # cur[c]
      BY <1>2 DEF Located, Places
    <2>2. PICK u : u = cur[c]
      OBVIOUS
    <2>3. NoFault(t)
      BY <2>2, FaultStep
    <2>4. Done(t)' = Done(t)
      BY <2>1, OthersLog
    <2> QED BY <1>2, <2>3, <2>4 DEF FinishedIsDurable, NoFault
  <1>3. CASE t \notin finished
    <2>1. t = cur[c]
      <3>1. ASSUME NEW ok \in BOOLEAN, Called(c, ok) PROVE t = cur[c]
        BY <3>1, <1>3, CalledFacts
      <3>2. CASE Reconnect(c)
        BY <3>2, <1>3 DEF Reconnect
      <3>3. CASE Aborted(c)
        BY <3>3, <1>3 DEF Aborted, Finish
      <3> QED BY <3>1, <3>2, <3>3, StepCases
    <2>2. NoFault(t) /\ (Answered(c) \/ Aborted(c))
      BY <2>1, FaultStep
    <2>3. NoFault(cur[c]) /\ ~Loose(cur[c]) /\ ~Loose(t) /\ Shape(c) = req[t]
      BY <2>1, <2>2 DEF NoFault, Shape, Met, Faults, Loose
    <2>4. Shape(c).size \in Nat
      BY <1>1, ShapeFields DEF Shape, Located, TypeOK
    <2>5. /\ DOMAIN log = 1..Len(log) /\ Len(log) \in Nat
          /\ \A i \in DOMAIN log : log'[i] = log[i]
          /\ log' = log \/ RunLogged(c) \/ CommitLogged(c)
          /\ Answered(c) /\ pc[c] = "run" /\ ~inTx[c] => RunLogged(c)
          /\ Answered(c) /\ pc[c] = "commit" /\ inTx[c] => CommitLogged(c)
      BY LogStep
    <2>6. CASE Aborted(c)
      <3>1. pc[c] = "aborted" /\ log' = log
        BY <2>6 DEF Aborted, At
      <3>2. IsTx(c)
        BY <3>1, <1>1 DEF Located, Cursor
      <3>3. Shape(c).size = 0
        BY <3>1, <3>2, <1>1, <2>3 DEF GuardedOf
      <3>4. ~InLog(t)
        BY <3>2, <1>1, <2>1, <2>3 DEF WrittenBy
      <3>5. Done(t)' = {}
        BY <3>1, <3>4 DEF Done, Of, InLog
      <3>6. 1..Shape(c).size = {}
        BY <3>3
      <3> QED BY <3>5, <3>6, <2>3
    <2>7. CASE Answered(c)
      <3>1. Called(c, TRUE)
        BY <2>7 DEF Answered, Called, At
      <3>2. After(c, TRUE) = "idle" /\ pc[c] \in Calling /\ next[c] \in Nat
            /\ (pc[c] = "run" => next[c] \in 1..Shape(c).size) /\ (pc[c] # "run" => IsTx(c))
        BY <3>1, <1>3, CalledFacts
      <3>3. pc[c] = "commit" \/ (pc[c] = "run" /\ ~IsTx(c) /\ ~(next[c] < Shape(c).size))
        BY <3>2 DEF After, Calling
      <3>4. CASE pc[c] = "commit"
        <4>1. IsTx(c)
          BY <3>2, <3>4
        <4>2. inTx[c]
          BY <4>1, <3>4, <1>1, <2>3 DEF GuardedOf
        <4>3. ~InLog(t)
          BY <4>1, <1>1, <2>1, <2>3 DEF WrittenBy
        <4>4. CommitLogged(c)
          BY <4>2, <3>4, <2>5, <2>7
        <4> QED BY <4>3, <4>4, <1>1, <2>1, <2>5, CommitDone
      <3>5. CASE pc[c] = "run" /\ ~IsTx(c) /\ ~(next[c] < Shape(c).size)
        <4>1. next[c] = Shape(c).size
          BY <3>2, <3>5, <2>4
        <4>2. RunLogged(c)
          BY <3>5, <1>1, <2>5, <2>7 DEF SessionOf, OpenTx
        <4>3. /\ DOMAIN log \subseteq DOMAIN log'
              /\ \A q \in DOMAIN log' : q \notin DOMAIN log => log'[q][2] = next[c]
          BY <4>2, <1>1, <2>5, NewEntries
        <4>4. ASSUME NEW q \in Of(t)' PROVE log'[q][2] \in 1..Shape(c).size
          <5>1. q \in DOMAIN log' /\ log'[q][1] = t
            BY DEF Of
          <5>2. CASE q \in DOMAIN log
            <6>1. q \in Of(cur[c]) /\ log'[q] = log[q]
              BY <5>1, <5>2, <2>1, <2>5 DEF Of
            <6>2. log[q][2] <= next[c] /\ log[q][2] > 0 /\ log[q][2] \in Nat
              BY <6>1, <5>2, <3>5, <1>1 DEF WrittenBy, Written, Located, TypeOK
            <6>3. log[q][2] \in 1..Shape(c).size
              BY <6>2, <4>1, <2>4
            <6> QED BY <6>1, <6>3
          <5>3. CASE q \notin DOMAIN log
            BY <5>1, <5>3, <4>3, <3>2, <3>5
          <5> QED BY <5>2, <5>3
        <4>5. ASSUME NEW k \in 1..Shape(c).size PROVE k \in Done(t)'
          <5>1. CASE k = next[c]
            <6>1. Len(log) + 1 \in DOMAIN log' /\ log'[Len(log) + 1] = <<t, next[c]>>
              BY <4>2, <2>1, <2>5 DEF RunLogged
            <6> QED BY <5>1, <6>1 DEF Done, Of
          <5>2. CASE k # next[c]
            <6>1. k \in 1..(next[c] - 1)
              BY <5>2, <4>1, <2>4
            <6>2. k \in Done(t)
              BY <6>1, <3>5, <1>1, <2>1, <2>3 DEF WrittenBy
            <6> QED BY <6>2, <4>3, <2>5 DEF Done, Of
          <5> QED BY <5>1, <5>2
        <4> QED BY <4>4, <4>5, <2>3 DEF Done
      <3> QED BY <3>3, <3>4, <3>5
    <2> QED BY <2>2, <2>6, <2>7
  <1> QED BY <1>2, <1>3

\* The inductive invariant.
Inv == /\ Located /\ Session /\ Guarded /\ Written
       /\ AllOrNothing /\ ExecutedOnce /\ InOrder /\ FinishedIsDurable

\* Nothing is written, and nothing is being executed, when Open() returns.
LEMMA Initially == Init => Inv
  <1> SUFFICES ASSUME Init PROVE Inv
    OBVIOUS
  <1>1. Located
    BY CursorInit, PlacesInit, Zenon DEF Located
  <1>2. Session
    BY SessionInit, Zenon
  <1>3. \A c \in Conns : ~Busy(c)
    BY DEF Init, Busy
  <1>4. DOMAIN log = {} /\ finished = {} /\ Tasks = {}
    BY DEF Init, Tasks
  <1>5. Guarded
    BY <1>3 DEF Guarded, GuardedOf
  <1>6. Written
    BY <1>3, <1>4 DEF Written, WrittenBy
  <1>7. AllOrNothing /\ ExecutedOnce /\ InOrder /\ FinishedIsDurable
    BY <1>4 DEF AllOrNothing, ExecutedOnce, InOrder, FinishedIsDurable
  <1> QED BY <1>1, <1>2, <1>5, <1>6, <1>7 DEF Inv

\* Every step keeps the inductive invariant.
LEMMA Preserved ==
  ASSUME Inv, [Next]_vars
  PROVE  Inv'
  <1>1. /\ Located /\ Session /\ Guarded /\ Written
        /\ AllOrNothing /\ ExecutedOnce /\ InOrder /\ FinishedIsDurable
    BY DEF Inv
  <1>2. Located' /\ Session' /\ Guarded' /\ Written'
    BY <1>1, LocatedNext, SessionNext, GuardedNext, WrittenNext
  <1>3. AllOrNothing' /\ ExecutedOnce' /\ InOrder' /\ FinishedIsDurable'
    <2>1. ASSUME NEW c \in workers \cup SynchConns, Step(c)
          PROVE  AllOrNothing' /\ ExecutedOnce' /\ InOrder' /\ FinishedIsDurable'
      <3>1. c \in Conns
        BY <1>1, <2>1, InConns DEF Located, TypeOK
      <3> QED BY <1>1, <2>1, <3>1, AllOrNothingStep, ExecutedOnceStep, InOrderStep, DurableStep
    <2>2. ASSUME NEW c \in Conns, NEW t, Begins(c, t)
          PROVE  AllOrNothing' /\ ExecutedOnce' /\ InOrder' /\ FinishedIsDurable'
      <3>1. log' = log /\ faults' = faults /\ finished' = finished /\ workers' = workers
            /\ Tasks \subseteq Tasks' /\ \A u \in Tasks : req'[u] = req[u]
        BY <2>2 DEF Begins
      <3> QED BY <1>1, <3>1, PropertiesFrame
    <2>3. CASE Quiet
      <3>1. log' = log /\ faults' = faults /\ finished' = finished /\ workers' = workers
            /\ Tasks \subseteq Tasks' /\ \A u \in Tasks : req'[u] = req[u]
        BY <2>3 DEF Quiet
      <3> QED BY <1>1, <3>1, PropertiesFrame
    <2> QED BY <1>1, <2>1, <2>2, <2>3, NextCases
  <1> QED BY <1>2, <1>3 DEF Inv

\* It holds in every behaviour.
LEMMA Invariance == Spec => []Inv
  <1>1. Init => Inv
    BY Initially
  <1>2. ASSUME Inv, [Next]_vars PROVE Inv'
    BY <1>2, Preserved
  <1> QED BY <1>1, <1>2, PTL DEF Spec

\* However many connections there are and whatever fails, a transaction whose
\* connection was not lost is in the database as a whole or not at all.
THEOREM TransactionsAreWhole == Spec => []AllOrNothing
  <1>1. Inv => AllOrNothing
    BY DEF Inv
  <1> QED BY <1>1, Invariance, PTL

\* No statement is executed twice unless its connection was lost.
THEOREM StatementsOnce == Spec => []ExecutedOnce
  <1>1. Inv => ExecutedOnce
    BY DEF Inv
  <1> QED BY <1>1, Invariance, PTL

\* The statements of a request, and with one worker thread the queued requests,
\* take effect in the order in which they were made.
THEOREM EffectsInOrder == Spec => []InOrder
  <1>1. Inv => InOrder
    BY DEF Inv
  <1> QED BY <1>1, Invariance, PTL

\* A request that has returned without an error is in the database completely.
THEOREM ReturnedIsDurable == Spec => []FinishedIsDurable
  <1>1. Inv => FinishedIsDurable
    BY DEF Inv
  <1> QED BY <1>1, Invariance, PTL
=============================================================================
