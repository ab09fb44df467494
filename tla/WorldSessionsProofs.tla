------------------------- MODULE WorldSessionsProofs -------------------------
(***************************************************************************)
(* Proofs about WorldSessions, for any accounts, any number of sessions    *)
(* and any limits.                                                         *)
(***************************************************************************)
EXTENDS WorldSessions, FiniteSetTheorems, TLAPS

Distinct(q) == \A j, k \in 1..Len(q) : j # k => q[j] # q[k]

\* Every session that is alive is in m_sessions or waits in addSessQueue, once.
Owned ==
  /\ Listed \cup Elements(addSessQueue) = alive
  /\ Listed \cap Elements(addSessQueue) = {}
  /\ Distinct(addSessQueue)
  /\ IsFiniteSet(alive)

\* A session belongs to one account, under which it is listed.
Accounted ==
  /\ \A a \in Accounts : m_sessions[a] # None => account[m_sessions[a]] = a
  /\ \A s \in alive : account[s] \in Accounts

\* UpdateSessions still has to update listed sessions only.
Updating ==
  /\ todo \subseteq Listed
  /\ todo # {} => phase = "update"

\* A waiting session is listed, once, and it knows that it waits.
Waiting ==
  /\ Distinct(m_QueuedPlayer)
  /\ Queued \subseteq Listed
  /\ ~stopping => \A s \in alive : m_inQueue[s] <=> s \in Queued

IInv ==
  /\ TypeOK
  /\ Owned
  /\ Accounted
  /\ Updating
  /\ Waiting

-----------------------------------------------------------------------------
(* Sequences: what the two queues hold.                                     *)

\* Appending x to a queue adds x to its elements and nothing else.
LEMMA AppendElements ==
  ASSUME NEW S, NEW q \in Seq(S), NEW x \in S
  PROVE  LET r == Append(q, x) IN
         /\ r \in Seq(S)
         /\ Len(r) = Len(q) + 1
         /\ \A k \in 1..Len(q) : r[k] = q[k]
         /\ Elements(r) = Elements(q) \cup {x}
         /\ Distinct(q) /\ x \notin Elements(q) => Distinct(r)
<1> DEFINE r == Append(q, x)
<1>1. /\ r \in Seq(S)
      /\ Len(r) = Len(q) + 1
      /\ r[Len(q) + 1] = x
      /\ \A k \in 1..Len(q) : r[k] = q[k]
  OBVIOUS
<1>2. Len(q) \in Nat
  OBVIOUS
<1> HIDE DEF r
<1>3. 1..Len(r) = (1..Len(q)) \cup {Len(q) + 1}
  BY <1>1, <1>2
<1>4. Elements(r) = Elements(q) \cup {x}
  BY <1>1, <1>3 DEF Elements
<1>5. ASSUME Distinct(q), x \notin Elements(q)
      PROVE  Distinct(r)
  BY <1>1, <1>3, <1>5 DEF Distinct, Elements
<1> QED
  BY <1>1, <1>4, <1>5 DEF r

\* Taking the head of a queue removes that element.
LEMMA TailElements ==
  ASSUME NEW S, NEW q \in Seq(S), q # <<>>
  PROVE  LET r == Tail(q) IN
         /\ r \in Seq(S)
         /\ Head(q) \in S
         /\ Head(q) = q[1]
         /\ Len(r) = Len(q) - 1
         /\ \A k \in 1..Len(r) : r[k] = q[k + 1]
         /\ Elements(q) = Elements(r) \cup {Head(q)}
         /\ Distinct(q) => Distinct(r) /\ Head(q) \notin Elements(r)
<1> DEFINE r == Tail(q)
<1>1. /\ r \in Seq(S)
      /\ Len(r) = Len(q) - 1
      /\ Head(q) = q[1]
      /\ \A k \in 1..Len(r) : r[k] = q[k + 1]
      /\ Len(q) \in Nat \ {0}
      /\ Head(q) \in S
  OBVIOUS
<1> HIDE DEF r
<1>2. \A k \in 1..Len(q) : k = 1 \/ (k - 1 \in 1..Len(r) /\ (k - 1) + 1 = k)
  BY <1>1
<1>3. \A k \in 1..Len(r) : k + 1 \in 1..Len(q) /\ k + 1 # 1
  BY <1>1
<1>4. 1 \in 1..Len(q)
  BY <1>1
<1>5. Elements(q) \subseteq Elements(r) \cup {Head(q)}
  <2> SUFFICES ASSUME NEW k \in 1..Len(q), k # 1
               PROVE  q[k] \in Elements(r)
    BY <1>1 DEF Elements
  <2>1. k - 1 \in 1..Len(r) /\ r[k - 1] = q[k]
    BY <1>1, <1>2
  <2> QED
    BY <2>1 DEF Elements
<1>6. Elements(r) \cup {Head(q)} \subseteq Elements(q)
  BY <1>1, <1>3, <1>4 DEF Elements
<1>7. ASSUME Distinct(q)
      PROVE  Distinct(r) /\ Head(q) \notin Elements(r)
  BY <1>1, <1>3, <1>4, <1>7 DEF Distinct, Elements
<1> QED
  BY <1>1, <1>5, <1>6, <1>7 DEF r

\* A queue without repetitions is as long as the set it holds is large.
LEMMA DistinctCardinality ==
  ASSUME NEW S, NEW q \in Seq(S), Distinct(q)
  PROVE  IsFiniteSet(Elements(q)) /\ Cardinality(Elements(q)) = Len(q)
<1> DEFINE f == [k \in 1..Len(q) |-> q[k]]
<1>1. Len(q) \in Nat
  OBVIOUS
<1>2. f \in Bijection(1..Len(q), Elements(q))
  BY DEF Distinct, Elements, Bijection, Injection, Surjection, IsInjective
<1>3. ExistsBijection(1..Len(q), Elements(q))
  BY <1>2 DEF ExistsBijection
<1> QED
  BY <1>1, <1>3, FS_CountingElements, FS_NatBijection

\* RemoveFirst leaves a queue alone that does not hold s.
LEMMA RemoveAbsent ==
  ASSUME NEW q, NEW s, s \notin Elements(q)
  PROVE  RemoveFirst(q, s) = q
BY DEF RemoveFirst, Elements

\* RemoveFirst takes the element out at the first place that holds s.
LEMMA RemovePresent ==
  ASSUME NEW S, NEW q \in Seq(S), NEW s, NEW i \in 1..Len(q), q[i] = s,
         \A j \in 1..Len(q) : q[j] = s => i <= j
  PROVE  LET r == RemoveFirst(q, s) IN
         /\ r \in Seq(S)
         /\ Len(r) = Len(q) - 1
         /\ \A k \in 1..Len(r) : r[k] = IF k < i THEN q[k] ELSE q[k + 1]
<1> DEFINE I == {j \in 1..Len(q) : q[j] = s}
           m == CHOOSE x \in I : \A y \in I : x =< y
<1>1. i \in I /\ \A j \in I : i =< j
  OBVIOUS
<1>2. m \in I /\ \A y \in I : m =< y
  <2> HIDE DEF I
  <2> QED
    BY <1>1
<1>3. m = i
  <2> HIDE DEF m
  <2> QED
    BY <1>1, <1>2
<1>4. Min(I) = m
  BY Zenon DEF Min
<1>5. RemoveFirst(q, s) = RemoveAt(q, IF I # {} THEN Min(I) ELSE 0)
  BY Zenon DEF RemoveFirst, SelectInSeq
<1>6. (IF I # {} THEN Min(I) ELSE 0) = i
  BY <1>1, <1>3, <1>4
<1>7. RemoveFirst(q, s) = SubSeq(q, 1, i - 1) \o SubSeq(q, i + 1, Len(q))
  BY <1>5, <1>6 DEF RemoveAt
<1> DEFINE front == SubSeq(q, 1, i - 1)
           back == SubSeq(q, i + 1, Len(q))
<1>8. Len(q) \in Nat /\ i \in Nat /\ i >= 1 /\ i <= Len(q)
  OBVIOUS
<1>9. front \in Seq(S) /\ Len(front) = i - 1 /\ \A k \in 1..Len(front) : front[k] = q[k]
  BY <1>8
<1>10. back \in Seq(S) /\ Len(back) = Len(q) - i
  BY <1>8
<1>11. \A k \in 1..Len(back) : back[k] = q[i + k]
  BY <1>8
<1> DEFINE r == front \o back
<1> HIDE DEF front, back
<1>12. r \in Seq(S) /\ Len(r) = Len(front) + Len(back)
  BY <1>9, <1>10
<1>13. \A k \in 1..Len(r) : r[k] = IF k <= Len(front) THEN front[k] ELSE back[k - Len(front)]
  BY <1>9, <1>10, <1>12
<1>14. r = RemoveFirst(q, s)
  BY <1>7 DEF front, back
<1> HIDE DEF r
<1>15. Len(r) = Len(q) - 1
  BY <1>8, <1>9, <1>10, <1>12
<1>16. \A k \in 1..Len(r) : r[k] = IF k < i THEN q[k] ELSE q[k + 1]
  <2> SUFFICES ASSUME NEW k \in 1..Len(r) PROVE r[k] = IF k < i THEN q[k] ELSE q[k + 1]
    OBVIOUS
  <2>1. CASE k < i
    <3>1. k \in 1..Len(front)
      BY <2>1, <1>8, <1>9
    <3> QED
      BY <3>1, <2>1, <1>9, <1>13
  <2>2. CASE ~(k < i)
    <3>1. k - Len(front) \in 1..Len(back) /\ i + (k - Len(front)) = k + 1 /\ ~(k <= Len(front))
      BY <2>2, <1>8, <1>9, <1>10, <1>15
    <3>2. back[k - Len(front)] = q[k + 1]
      BY <3>1, <1>11
    <3> QED
      BY <3>1, <3>2, <2>2, <1>13
  <2> QED
    BY <2>1, <2>2
<1> QED
  BY <1>12, <1>14, <1>15, <1>16

\* r is what is left of the queue q when s leaves it and sessions at its front
\* are let in: nobody passes another one.
KeepsOrder(q, r) ==
  \A j, k \in 1..Len(q) : \A i, l \in 1..Len(r) : (j < k /\ r[i] = q[j] /\ r[l] = q[k]) => i < l

FrontFirst(q, s, r) ==
  \A j, k \in 1..Len(q) :
    (j < k /\ q[k] # s /\ q[k] \notin Elements(r)) => q[j] \notin Elements(r)

Shortened(q, s, r) ==
  /\ r \in Seq(Sess)
  /\ Distinct(r)
  /\ Elements(r) \subseteq Elements(q) \ {s}
  /\ KeepsOrder(q, r)
  /\ FrontFirst(q, s, r)

\* Removing s keeps the others, in their order.
LEMMA RemoveShortens ==
  ASSUME NEW q \in Seq(Sess), Distinct(q), NEW s
  PROVE  LET r == RemoveFirst(q, s) IN
         /\ Shortened(q, s, r)
         /\ Elements(r) = Elements(q) \ {s}
         /\ Len(r) = IF s \in Elements(q) THEN Len(q) - 1 ELSE Len(q)
<1> DEFINE r == RemoveFirst(q, s)
<1>1. CASE s \notin Elements(q)
  <2>1. r = q
    BY <1>1, RemoveAbsent
  <2>2. KeepsOrder(q, q)
    BY DEF KeepsOrder, Distinct
  <2>3. FrontFirst(q, s, q)
    BY DEF FrontFirst, Elements
  <2> QED
    BY <1>1, <2>1, <2>2, <2>3 DEF Shortened
<1>2. CASE s \in Elements(q)
  <2>1. PICK i \in 1..Len(q) : q[i] = s
    BY <1>2 DEF Elements
  <2>2. \A j \in 1..Len(q) : q[j] = s => i = j
    BY <2>1 DEF Distinct
  <2>3. /\ r \in Seq(Sess)
        /\ Len(r) = Len(q) - 1
        /\ \A k \in 1..Len(r) : r[k] = IF k < i THEN q[k] ELSE q[k + 1]
    BY <2>1, <2>2, RemovePresent
  <2> HIDE DEF r
  <2>4. Len(q) \in Nat /\ i \in Nat
    BY <2>1
  <2> DEFINE at(k) == IF k < i THEN k ELSE k + 1
  <2>5. \A k \in 1..Len(r) : at(k) \in 1..Len(q) /\ at(k) # i /\ r[k] = q[at(k)]
    BY <2>1, <2>3, <2>4
  <2>6. \A j \in 1..Len(q) : j # i => \E k \in 1..Len(r) : at(k) = j
    <3> SUFFICES ASSUME NEW j \in 1..Len(q), j # i
                 PROVE  \E k \in 1..Len(r) : at(k) = j
      OBVIOUS
    <3>1. CASE j < i
      BY <2>1, <2>3, <2>4, <3>1
    <3>2. CASE j > i
      <4>1. j - 1 \in 1..Len(r) /\ at(j - 1) = j
        BY <2>1, <2>3, <2>4, <3>2
      <4> QED
        BY <4>1
    <3> QED
      BY <2>4, <3>1, <3>2
  <2>7. \A k, l \in 1..Len(r) : (at(k) = at(l) => k = l) /\ (at(k) < at(l) => k < l)
    BY <2>3, <2>4
  <2> HIDE DEF at
  <2>8. Distinct(r)
    BY <2>5, <2>7 DEF Distinct
  <2>9. Elements(r) = Elements(q) \ {s}
    <3>1. Elements(r) \subseteq Elements(q) \ {s}
      BY <2>2, <2>5 DEF Elements
    <3>2. Elements(q) \ {s} \subseteq Elements(r)
      BY <2>1, <2>5, <2>6 DEF Elements
    <3> QED
      BY <3>1, <3>2
  <2>10. KeepsOrder(q, r)
    <3> SUFFICES ASSUME NEW j \in 1..Len(q), NEW k \in 1..Len(q), j < k,
                        NEW m \in 1..Len(r), NEW l \in 1..Len(r), r[m] = q[j], r[l] = q[k]
                 PROVE  m < l
      BY DEF KeepsOrder
    <3>1. at(m) = j /\ at(l) = k
      BY <2>5 DEF Distinct
    <3> QED
      BY <2>7, <3>1
  <2>11. FrontFirst(q, s, r)
    BY <2>9 DEF FrontFirst, Elements
  <2> QED
    BY <1>2, <2>3, <2>8, <2>9, <2>10, <2>11 DEF Shortened, r
<1> QED
  BY <1>1, <1>2

\* Letting in the first of what is left keeps the order, too.
LEMMA TailShortens ==
  ASSUME NEW q \in Seq(Sess), NEW s, NEW r, Shortened(q, s, r), r # <<>>
  PROVE  Shortened(q, s, Tail(r))
<1> DEFINE t == Tail(r)
<1>1. /\ t \in Seq(Sess) /\ Distinct(t) /\ Elements(r) = Elements(t) \cup {r[1]}
      /\ Len(t) = Len(r) - 1 /\ r[1] \notin Elements(t)
      /\ \A k \in 1..Len(t) : t[k] = r[k + 1]
  BY TailElements DEF Shortened
<1>2. Len(r) \in Nat \ {0}
  BY DEF Shortened
<1> HIDE DEF t
<1>3. \A k \in 1..Len(t) : k + 1 \in 1..Len(r) /\ 1 < k + 1
  BY <1>1, <1>2
<1>4. 1 \in 1..Len(r)
  BY <1>2
<1>5. KeepsOrder(q, t)
  <2> SUFFICES ASSUME NEW j \in 1..Len(q), NEW k \in 1..Len(q), j < k,
                      NEW m \in 1..Len(t), NEW l \in 1..Len(t), t[m] = q[j], t[l] = q[k]
               PROVE  m < l
    BY DEF KeepsOrder
  <2>1. m + 1 < l + 1
    BY <1>1, <1>3 DEF Shortened, KeepsOrder
  <2> QED
    BY <2>1, <1>1, <1>2
<1>6. FrontFirst(q, s, t)
  <2> SUFFICES ASSUME NEW j \in 1..Len(q), NEW k \in 1..Len(q), j < k, q[k] # s,
                      q[k] \notin Elements(t), q[j] \in Elements(t)
               PROVE  FALSE
    BY DEF FrontFirst
  <2>1. q[k] = r[1]
    BY <1>1 DEF Shortened, FrontFirst
  <2>2. PICK m \in 1..Len(t) : t[m] = q[j]
    BY DEF Elements
  <2>3. m + 1 \in 1..Len(r) /\ r[m + 1] = q[j] /\ 1 < m + 1
    BY <1>1, <1>3, <2>2
  <2>4. m + 1 < 1
    BY <1>4, <2>1, <2>3 DEF Shortened, KeepsOrder
  <2> QED
    BY <1>2, <2>3, <2>4
<1> QED
  BY <1>1, <1>5, <1>6 DEF Shortened, t

-----------------------------------------------------------------------------
(* The login queue                                                          *)

\* The sessions RemoveQueuedPlayer compares with the limit.
Sessions(q, count, s) ==
  IF s \notin Elements(q) /\ count - Len(q) > 0 THEN count - Len(q) - 1 ELSE count - Len(q)

\* RemoveQueuedPlayer removes s, and lets in the first one left exactly if there
\* is one and the limit is not reached.
LEMMA Removed ==
  ASSUME NEW q \in Seq(Sess), Distinct(q), NEW count, NEW s
  PROVE  LET r == RemoveQueuedPlayer(q, count, s)
             rest == RemoveFirst(q, s)
             room == m_playerLimit = 0 \/ Sessions(q, count, s) < m_playerLimit
         IN
         /\ Shortened(q, s, r)
         /\ \/ ~room /\ r = rest
            \/ rest = <<>> /\ r = rest
            \/ room /\ rest # <<>> /\ r = Tail(rest)
<1> DEFINE rest == RemoveFirst(q, s)
           room == m_playerLimit = 0 \/ Sessions(q, count, s) < m_playerLimit
<1>1. RemoveQueuedPlayer(q, count, s) = IF room /\ rest # <<>> THEN Tail(rest) ELSE rest
  BY DEF RemoveQueuedPlayer, Sessions
<1>2. Shortened(q, s, rest)
  BY RemoveShortens
<1>3. rest # <<>> => Shortened(q, s, Tail(rest))
  BY <1>2, TailShortens
<1> HIDE DEF rest, room
<1>4. Shortened(q, s, RemoveQueuedPlayer(q, count, s))
  BY <1>1, <1>2, <1>3
<1> QED
  BY <1>1, <1>4 DEF rest, room

\* The second call for the same session removes nothing more, and may let in one
\* more.
LEMMA RemovedTwice ==
  ASSUME NEW q \in Seq(Sess), Distinct(q), NEW count, NEW s
  PROVE  LET once == RemoveQueuedPlayer(q, count, s)
             twice == RemoveQueuedPlayer(once, count, s)
             room == m_playerLimit = 0 \/ Sessions(once, count, s) < m_playerLimit
         IN
         /\ Shortened(q, s, twice)
         /\ s \notin Elements(once)
         /\ \/ ~room /\ twice = once
            \/ once = <<>> /\ twice = once
            \/ room /\ once # <<>> /\ twice = Tail(once)
<1> DEFINE once == RemoveQueuedPlayer(q, count, s)
           twice == RemoveQueuedPlayer(once, count, s)
           room == m_playerLimit = 0 \/ Sessions(once, count, s) < m_playerLimit
<1>1. Shortened(q, s, once)
  BY Removed
<1> HIDE DEF once
<1>2. s \notin Elements(once) /\ once \in Seq(Sess) /\ Distinct(once)
  BY <1>1 DEF Shortened
<1>3. RemoveFirst(once, s) = once
  BY <1>2, RemoveAbsent
<1>4. \/ ~room /\ twice = once
      \/ once = <<>> /\ twice = once
      \/ room /\ once # <<>> /\ twice = Tail(once)
  BY <1>2, <1>3, Removed
<1>5. Shortened(q, s, twice)
  BY <1>1, <1>4, TailShortens
<1> QED
  BY <1>2, <1>4, <1>5 DEF once

\* Who is alive knows after a step of the queue whether he waits.
LEMMA KnowsQueue ==
  ASSUME TypeOK, NEW q
  PROVE  /\ SetInQueue(q) \in [Sess -> BOOLEAN]
         /\ \A s \in Sess : (m_inQueue[s] <=> s \in Queued) => (SetInQueue(q)[s] <=> s \in Elements(q))
<1>1. \A s \in Sess : m_inQueue[s] \in BOOLEAN
  BY DEF TypeOK
<1>2. \A s \in Sess : SetInQueue(q)[s] =
        IF s \in Queued \cup Elements(q) THEN s \in Elements(q) ELSE m_inQueue[s]
  BY DEF SetInQueue
<1>3. ASSUME NEW s \in Sess
      PROVE  (IF s \in Queued \cup Elements(q) THEN s \in Elements(q) ELSE m_inQueue[s]) \in BOOLEAN
  <2>1. CASE s \in Queued \cup Elements(q)
    BY <2>1
  <2>2. CASE s \notin Queued \cup Elements(q)
    BY <2>2, <1>1
  <2> QED
    BY <2>1, <2>2
<1>4. SetInQueue(q) \in [Sess -> BOOLEAN]
  BY <1>3, Zenon DEF SetInQueue
<1>5. ASSUME NEW s \in Sess, m_inQueue[s] <=> s \in Queued
      PROVE  SetInQueue(q)[s] <=> s \in Elements(q)
  BY <1>2, <1>5
<1> QED
  BY <1>4, <1>5

-----------------------------------------------------------------------------
(* The session map                                                          *)

\* A session is listed under one account only.
LEMMA ListedOnce ==
  ASSUME TypeOK, Accounted, NEW a \in Accounts, NEW b \in Accounts,
         m_sessions[a] = m_sessions[b], m_sessions[a] # None
  PROVE  a = b
BY DEF Accounted

\* A listed session is listed under its account.
LEMMA ListedUnder ==
  ASSUME TypeOK, Accounted, NEW s \in Listed
  PROVE  s \in Sess /\ account[s] \in Accounts /\ m_sessions[account[s]] = s
BY DEF Accounted, Listed, TypeOK

\* Changing one entry of m_sessions replaces the session that was there.
LEMMA ListedReplaced ==
  ASSUME TypeOK, Accounted, NEW a \in Accounts, NEW s \in Sess \cup {None},
         m_sessions' = [m_sessions EXCEPT ![a] = s]
  PROVE  /\ m_sessions' \in [Accounts -> Sess \cup {None}]
         /\ Listed' = (Listed \ {m_sessions[a]}) \cup ({s} \ {None})
<1>1. m_sessions' \in [Accounts -> Sess \cup {None}]
  BY DEF TypeOK
<1>2. m_sessions'[a] = s /\ \A b \in Accounts \ {a} : m_sessions'[b] = m_sessions[b]
  BY DEF TypeOK
<1>3. Listed' \subseteq (Listed \ {m_sessions[a]}) \cup ({s} \ {None})
  <2> SUFFICES ASSUME NEW b \in Accounts, m_sessions'[b] # None, m_sessions'[b] # s
               PROVE  m_sessions'[b] \in Listed \ {m_sessions[a]}
    BY DEF Listed
  <2>1. b # a /\ m_sessions'[b] = m_sessions[b]
    BY <1>2
  <2> QED
    BY <2>1, ListedOnce DEF Listed
<1>4. (Listed \ {m_sessions[a]}) \cup ({s} \ {None}) \subseteq Listed'
  <2>1. {s} \ {None} \subseteq Listed'
    BY <1>2 DEF Listed
  <2>2. ASSUME NEW x \in Listed, x # m_sessions[a]
        PROVE  x \in Listed'
    <3>1. PICK b \in Accounts : m_sessions[b] = x /\ x # None
      BY DEF Listed
    <3> QED
      BY <1>2, <2>2, <3>1 DEF Listed
  <2> QED
    BY <2>1, <2>2
<1> QED
  BY <1>1, <1>3, <1>4

-----------------------------------------------------------------------------
(* The steps                                                                *)

\* The parts of IInv do not depend on closed, loading, m_disconnects and
\* m_playerLimit but for their types.
Frame == /\ alive' = alive /\ account' = account /\ addSessQueue' = addSessQueue
         /\ m_sessions' = m_sessions

\* Steps that change neither of the queues nor the session map.
LEMMA FrameStep ==
  ASSUME IInv, Frame, m_QueuedPlayer' = m_QueuedPlayer, m_inQueue' = m_inQueue,
         stopping' = stopping
  PROVE  Owned' /\ Accounted' /\ Waiting' /\ Listed' = Listed
<1>1. Listed' = Listed /\ Queued' = Queued
  BY DEF Frame, Listed, Queued
<1>2. Owned'
  BY <1>1 DEF IInv, Owned, Frame
<1>3. Accounted'
  BY DEF IInv, Accounted, Frame
<1>4. Waiting'
  BY <1>1 DEF IInv, Waiting, Frame
<1> QED
  BY <1>1, <1>2, <1>3, <1>4

\* A network thread creates a session nobody knows, and queues it.
LEMMA AuthStep ==
  ASSUME IInv, NEW a \in Accounts, HandleAuthSession(a)
  PROVE  IInv'
<1> DEFINE s == CHOOSE x \in Sess : x \notin alive
<1>1. s \in Sess \ alive
  <2>1. \E x \in Sess : x \notin alive
    BY DEF HandleAuthSession, IInv, TypeOK
  <2> QED
    BY <2>1
<1>2. /\ alive' = alive \cup {s}
      /\ account' = [account EXCEPT ![s] = a]
      /\ m_inQueue' = [m_inQueue EXCEPT ![s] = FALSE]
      /\ addSessQueue' = Append(addSessQueue, s)
      /\ closed' = closed /\ loading' = loading /\ m_sessions' = m_sessions
      /\ m_QueuedPlayer' = m_QueuedPlayer /\ m_disconnects' = m_disconnects
      /\ m_playerLimit' = m_playerLimit /\ phase' = phase /\ stopping' = stopping
      /\ todo' = todo
  BY DEF HandleAuthSession
<1> HIDE DEF s
<1>3. Listed' = Listed /\ Queued' = Queued
  BY <1>2 DEF Listed, Queued
<1>4. s \notin Listed /\ s \notin Elements(addSessQueue) /\ s \notin Queued
  BY <1>1 DEF IInv, Owned, Waiting
<1>5. /\ addSessQueue' \in Seq(Sess) /\ Distinct(addSessQueue')
      /\ Elements(addSessQueue') = Elements(addSessQueue) \cup {s}
  BY <1>1, <1>2, <1>4, AppendElements DEF IInv, TypeOK, Owned
<1>6. TypeOK'
  <2>1. account' \in [Sess -> Accounts \cup {None}] /\ m_inQueue' \in [Sess -> BOOLEAN]
    BY <1>2 DEF IInv, TypeOK
  <2> QED
    BY <1>1, <1>2, <1>5, <2>1 DEF IInv, TypeOK
<1>7. Owned'
  <2>1. IsFiniteSet(alive')
    BY <1>2, FS_AddElement DEF IInv, Owned
  <2> QED
    BY <1>2, <1>3, <1>4, <1>5, <2>1 DEF IInv, Owned
<1>8. account'[s] = a /\ \A x \in Sess \ {s} : account'[x] = account[x]
  BY <1>1, <1>2 DEF IInv, TypeOK
<1>9. Accounted'
  <2>1. ASSUME NEW b \in Accounts, m_sessions'[b] # None
        PROVE  account'[m_sessions'[b]] = b
    <3>1. m_sessions[b] \in Listed /\ m_sessions[b] \in Sess /\ account[m_sessions[b]] = b
      BY <1>2, <2>1 DEF IInv, TypeOK, Listed, Accounted
    <3> QED
      BY <1>2, <1>4, <1>8, <3>1
  <2>2. ASSUME NEW x \in alive'
        PROVE  account'[x] \in Accounts
    BY <1>1, <1>2, <1>8, <2>2 DEF IInv, TypeOK, Accounted
  <2> QED
    BY <2>1, <2>2 DEF Accounted
<1>10. Updating'
  BY <1>2, <1>3 DEF IInv, Updating
<1>11. Waiting'
  <2>1. ASSUME ~stopping', NEW x \in alive'
        PROVE  m_inQueue'[x] <=> x \in Queued'
    <3>1. CASE x = s
      <4>1. m_inQueue'[s] = FALSE
        BY <1>1, <1>2 DEF IInv, TypeOK
      <4> QED
        BY <1>3, <1>4, <3>1, <4>1
    <3>2. CASE x # s
      <4>1. x \in alive /\ m_inQueue'[x] = m_inQueue[x]
        BY <1>1, <1>2, <2>1, <3>2 DEF IInv, TypeOK
      <4> QED
        BY <1>2, <1>3, <2>1, <4>1 DEF IInv, Waiting
    <3> QED
      BY <3>1, <3>2
  <2>2. Distinct(m_QueuedPlayer') /\ Queued' \subseteq Listed'
    BY <1>2, <1>3 DEF IInv, Waiting
  <2> QED
    BY <2>1, <2>2 DEF Waiting
<1> QED
  BY <1>6, <1>7, <1>9, <1>10, <1>11 DEF IInv

\* Steps that leave the session map and both queues alone.
LEMMA QuietStep ==
  ASSUME IInv,
         \/ \E s \in Sess : CloseSocket(s) \/ KeepSession(s)
         \/ BeginUpdateSessions \/ EndAdd \/ EndUpdateSessions
         \/ \E l \in Limits : SetPlayerAmountLimit(l)
         \/ UNCHANGED vars
  PROVE  IInv' /\ Listed' = Listed /\ Queued' = Queued
<1>1. /\ Frame /\ m_QueuedPlayer' = m_QueuedPlayer /\ m_inQueue' = m_inQueue
      /\ stopping' = stopping /\ m_disconnects' = m_disconnects
  BY DEF CloseSocket, KeepSession, BeginUpdateSessions, EndAdd, EndUpdateSessions,
         SetPlayerAmountLimit, vars, netVars, Frame
<1>2. Owned' /\ Accounted' /\ Waiting' /\ Listed' = Listed
  BY <1>1, FrameStep
<1>3. closed' \in [Sess -> BOOLEAN]
  BY DEF CloseSocket, KeepSession, BeginUpdateSessions, EndAdd, EndUpdateSessions,
         SetPlayerAmountLimit, vars, IInv, TypeOK
<1>4. loading' \in [Sess -> BOOLEAN]
  BY DEF CloseSocket, KeepSession, BeginUpdateSessions, EndAdd, EndUpdateSessions,
         SetPlayerAmountLimit, vars, IInv, TypeOK
<1>5. m_playerLimit' \in Limits
  BY DEF CloseSocket, KeepSession, BeginUpdateSessions, EndAdd, EndUpdateSessions,
         SetPlayerAmountLimit, vars, IInv, TypeOK
<1>6. phase' \in {"idle", "add", "update", "stopped"}
  BY DEF CloseSocket, KeepSession, BeginUpdateSessions, EndAdd, EndUpdateSessions,
         SetPlayerAmountLimit, vars, IInv, TypeOK
<1>7. Listed \subseteq Sess
  BY DEF IInv, TypeOK, Listed
<1>8. Updating'
  BY <1>2 DEF CloseSocket, KeepSession, BeginUpdateSessions, EndAdd, EndUpdateSessions,
              SetPlayerAmountLimit, vars, IInv, Updating
<1>9. TypeOK'
  <2>1. todo' \subseteq Sess
    BY <1>2, <1>7, <1>8 DEF Updating
  <2> QED
    BY <1>1, <1>3, <1>4, <1>5, <1>6, <2>1 DEF IInv, TypeOK, Frame
<1> QED
  BY <1>1, <1>2, <1>8, <1>9 DEF IInv, Queued

\* KickAll empties the queue and deletes nobody.
LEMMA KickAllStep ==
  ASSUME IInv, KickAll
  PROVE  IInv'
<1>1. Listed' = Listed
  BY DEF KickAll, Listed
<1>2. m_QueuedPlayer' = <<>> /\ Queued' = {}
  BY DEF KickAll, Queued, Elements
<1>3. Frame /\ m_inQueue' = m_inQueue /\ stopping' = TRUE /\ phase' = "add" /\ todo' = todo
      /\ loading' = loading /\ m_disconnects' = m_disconnects /\ m_playerLimit' = m_playerLimit
  BY DEF KickAll, Frame, netVars
<1>4. closed' \in [Sess -> BOOLEAN]
  BY DEF KickAll, IInv, TypeOK
<1>5. TypeOK'
  BY <1>2, <1>3, <1>4 DEF IInv, TypeOK, Frame
<1>6. Owned' /\ Accounted'
  BY <1>1, <1>3 DEF IInv, Owned, Accounted, Frame
<1>7. Updating'
  BY <1>1, <1>3 DEF KickAll, IInv, Updating
<1>8. Waiting'
  BY <1>2, <1>3 DEF Waiting, Distinct
<1> QED
  BY <1>5, <1>6, <1>7, <1>8 DEF IInv

\* What is true of the session AddSession_ takes from its queue: it is listed
\* nowhere, and once it is taken the queue does not hold it.
LEMMA Taken ==
  ASSUME IInv, AddSession_
  PROVE  LET s == Head(addSessQueue) IN
         /\ s \in alive /\ s \in Sess /\ s \notin Listed /\ account[s] \in Accounts
         /\ addSessQueue' \in Seq(Sess) /\ Distinct(addSessQueue')
         /\ Elements(addSessQueue') = Elements(addSessQueue) \ {s}
<1>1. addSessQueue # <<>> /\ addSessQueue' = Tail(addSessQueue) /\ addSessQueue \in Seq(Sess)
      /\ Distinct(addSessQueue)
  BY DEF AddSession_, IInv, TypeOK, Owned
<1> DEFINE s == Head(addSessQueue)
<1>2. /\ addSessQueue' \in Seq(Sess) /\ Distinct(addSessQueue') /\ s \in Sess
      /\ s \in Elements(addSessQueue)
      /\ Elements(addSessQueue') = Elements(addSessQueue) \ {s}
  BY <1>1, TailElements
<1> HIDE DEF s
<1>3. s \in alive /\ s \notin Listed /\ account[s] \in Accounts
  BY <1>2 DEF IInv, Owned, Accounted
<1> QED
  BY <1>2, <1>3 DEF s

\* After AddSession_ an account is kept for those who are alive.
LEMMA AccountsKept ==
  ASSUME IInv, AddSession_, alive' \subseteq alive
  PROVE  account' \in [Sess -> Accounts \cup {None}]
         /\ \A s \in alive' : account'[s] = account[s]
BY DEF AddSession_, IInv, TypeOK

\* A refused session is deleted; nothing else changes.
LEMMA RejectStep ==
  ASSUME IInv, AddSession_, RejectSession(Head(addSessQueue))
  PROVE  IInv' /\ Listed' = Listed /\ Queued' = Queued
<1> DEFINE s == Head(addSessQueue)
<1>1. /\ s \in alive /\ s \in Sess /\ s \notin Listed /\ account[s] \in Accounts
      /\ addSessQueue' \in Seq(Sess) /\ Distinct(addSessQueue')
      /\ Elements(addSessQueue') = Elements(addSessQueue) \ {s}
  BY Taken
<1>2. /\ alive' = alive \ {s} /\ closed' = [closed EXCEPT ![s] = FALSE]
      /\ m_inQueue' = m_inQueue /\ m_sessions' = m_sessions /\ m_QueuedPlayer' = m_QueuedPlayer
  BY DEF RejectSession
<1> HIDE DEF s
<1>3. /\ loading' = loading /\ m_disconnects' = m_disconnects /\ m_playerLimit' = m_playerLimit
      /\ phase' = phase /\ stopping' = stopping /\ todo' = todo
  BY DEF AddSession_
<1>4. account' \in [Sess -> Accounts \cup {None}] /\ \A x \in alive' : account'[x] = account[x]
  BY <1>2, AccountsKept
<1>5. Listed' = Listed /\ Queued' = Queued
  BY <1>2 DEF Listed, Queued
<1>6. closed' \in [Sess -> BOOLEAN]
  BY <1>2 DEF IInv, TypeOK
<1>7. TypeOK'
  BY <1>1, <1>2, <1>3, <1>4, <1>6 DEF IInv, TypeOK
<1>8. Owned'
  <2>1. IsFiniteSet(alive')
    BY <1>2, FS_RemoveElement DEF IInv, Owned
  <2> QED
    BY <1>1, <1>2, <1>5, <2>1 DEF IInv, Owned
<1>9. Accounted'
  <2>1. ASSUME NEW b \in Accounts, m_sessions'[b] # None
        PROVE  account'[m_sessions'[b]] = b
    <3>1. m_sessions[b] \in Listed
      BY <1>2, <2>1 DEF Listed
    <3>2. m_sessions[b] \in alive'
      BY <1>1, <1>2, <3>1 DEF IInv, Owned
    <3> QED
      BY <1>2, <1>4, <2>1, <3>2 DEF IInv, Accounted
  <2>2. \A x \in alive' : account'[x] \in Accounts
    BY <1>2, <1>4 DEF IInv, Accounted
  <2> QED
    BY <2>1, <2>2 DEF Accounted
<1>10. Updating' /\ Waiting'
  BY <1>2, <1>3, <1>5 DEF IInv, Updating, Waiting
<1> QED
  BY <1>5, <1>7, <1>8, <1>9, <1>10 DEF IInv

\* What AddSession_ does to the queue: the replaced session leaves it, and the new
\* one may enter it behind all others.
Replacement(s, old, rest) ==
  /\ old = m_sessions[account[s]]
  /\ IF old = None THEN rest = m_QueuedPlayer
                   ELSE rest = RemoveQueuedPlayer(m_QueuedPlayer, SessionCount, old)
  /\ m_QueuedPlayer' = Append(rest, s) \/ m_QueuedPlayer' = rest
  /\ m_sessions' = [m_sessions EXCEPT ![account[s]] = s]

\* The sets after a replacement.
LEMMA ReplacedSets ==
  ASSUME IInv, NEW s \in Sess, s \notin Listed, account[s] \in Accounts, NEW old, NEW rest,
         Replacement(s, old, rest)
  PROVE  /\ m_sessions' \in [Accounts -> Sess \cup {None}]
         /\ Listed' = (Listed \ {old}) \cup {s}
         /\ Shortened(m_QueuedPlayer, old, rest)
         /\ m_QueuedPlayer' \in Seq(Sess) /\ Distinct(m_QueuedPlayer')
         /\ m_QueuedPlayer' = Append(rest, s) => Queued' = Elements(rest) \cup {s}
         /\ m_QueuedPlayer' = rest => Queued' = Elements(rest)
         /\ s \notin Queued
<1>1. /\ m_QueuedPlayer \in Seq(Sess) /\ Distinct(m_QueuedPlayer) /\ Queued \subseteq Listed
      /\ None \notin Sess /\ Listed \subseteq Sess
  BY SessionsAssumption DEF IInv, TypeOK, Waiting, Listed
<1>2. /\ m_sessions' \in [Accounts -> Sess \cup {None}]
      /\ Listed' = (Listed \ {old}) \cup {s}
  BY <1>1, ListedReplaced DEF Replacement, IInv
<1>3. Shortened(m_QueuedPlayer, old, rest)
  <2>1. CASE old = None
    <3>1. None \notin Elements(m_QueuedPlayer)
      BY <1>1 DEF Queued
    <3>2. RemoveFirst(m_QueuedPlayer, None) = m_QueuedPlayer
      BY <3>1, RemoveAbsent
    <3>3. rest = RemoveFirst(m_QueuedPlayer, old)
      BY <2>1, <3>2 DEF Replacement
    <3> QED
      BY <1>1, <3>3, RemoveShortens
  <2>2. CASE old # None
    BY <1>1, <2>2, Removed DEF Replacement
  <2> QED
    BY <2>1, <2>2
<1>4. rest \in Seq(Sess) /\ Distinct(rest) /\ s \notin Elements(rest)
  BY <1>1, <1>3 DEF Shortened, Queued
<1>5. /\ Append(rest, s) \in Seq(Sess) /\ Distinct(Append(rest, s))
      /\ Elements(Append(rest, s)) = Elements(rest) \cup {s}
  BY <1>4, AppendElements
<1>6. m_QueuedPlayer' \in Seq(Sess) /\ Distinct(m_QueuedPlayer')
  BY <1>4, <1>5 DEF Replacement
<1> QED
  BY <1>1, <1>2, <1>3, <1>5, <1>6 DEF Queued

\* The rest of the queue that ReplaceSession computes.
RestWithout(old) ==
  IF old = None THEN m_QueuedPlayer
                ELSE RemoveQueuedPlayer(m_QueuedPlayer, SessionCount, old)

\* The new session takes the entry of its account from the old one, which is
\* deleted and waits no longer.
LEMMA ReplaceStep ==
  ASSUME IInv, AddSession_, ReplaceSession(Head(addSessQueue))
  PROVE  IInv'
<1> DEFINE s == Head(addSessQueue)
           old == m_sessions[account[s]]
           rest == RestWithout(old)
<1>1. /\ s \in alive /\ s \in Sess /\ s \notin Listed /\ account[s] \in Accounts
      /\ addSessQueue' \in Seq(Sess) /\ Distinct(addSessQueue')
      /\ Elements(addSessQueue') = Elements(addSessQueue) \ {s}
  BY Taken
<1>2. /\ Replacement(s, old, rest)
      /\ alive' = alive \ {old} /\ closed' = [x \in Sess |-> closed[x] /\ x # old]
      /\ m_inQueue' = SetInQueue(m_QueuedPlayer')
  BY DEF ReplaceSession, Replacement, RestWithout
<1>3. /\ loading' = loading /\ m_disconnects' = m_disconnects /\ m_playerLimit' = m_playerLimit
      /\ phase' = phase /\ stopping' = stopping /\ todo' = todo /\ phase = "add"
  BY DEF AddSession_
<1>4. account[s] \in Accounts /\ (old # None => old \in Listed /\ account[old] = account[s])
  BY <1>1 DEF IInv, Listed, Accounted
<1> HIDE DEF s, old, rest
<1>5. /\ m_sessions' \in [Accounts -> Sess \cup {None}]
      /\ Listed' = (Listed \ {old}) \cup {s}
      /\ Shortened(m_QueuedPlayer, old, rest)
      /\ m_QueuedPlayer' \in Seq(Sess) /\ Distinct(m_QueuedPlayer')
      /\ m_QueuedPlayer' = Append(rest, s) => Queued' = Elements(rest) \cup {s}
      /\ m_QueuedPlayer' = rest => Queued' = Elements(rest)
  BY <1>1, <1>2, ReplacedSets
<1>6. account' \in [Sess -> Accounts \cup {None}] /\ \A x \in alive' : account'[x] = account[x]
  BY <1>2, AccountsKept
<1>7. Elements(m_QueuedPlayer') = Queued' /\ Queued' \subseteq Listed'
      /\ Queued' \subseteq (Queued \ {old}) \cup {s}
  <2>1. Queued' \subseteq (Queued \ {old}) \cup {s}
    BY <1>2, <1>5 DEF Replacement, Shortened, Queued
  <2> QED
    BY <1>5, <2>1 DEF IInv, Waiting, Queued
<1>8. /\ m_inQueue' \in [Sess -> BOOLEAN]
      /\ \A x \in Sess : (m_inQueue[x] <=> x \in Queued) => (m_inQueue'[x] <=> x \in Queued')
  BY <1>2, <1>7, KnowsQueue DEF IInv
<1>9. closed' \in [Sess -> BOOLEAN]
  BY <1>2 DEF IInv, TypeOK
<1>10. TypeOK'
  BY <1>1, <1>2, <1>3, <1>5, <1>6, <1>8, <1>9 DEF IInv, TypeOK
<1>11. Owned'
  <2>1. IsFiniteSet(alive')
    BY <1>2, FS_RemoveElement DEF IInv, Owned
  <2>2. None \notin alive /\ Listed \cup Elements(addSessQueue) = alive
        /\ Listed \cap Elements(addSessQueue) = {}
    BY SessionsAssumption DEF IInv, TypeOK, Owned
  <2>3. Listed' \cup Elements(addSessQueue') = alive'
    BY <1>1, <1>2, <1>4, <1>5, <2>2
  <2>4. Listed' \cap Elements(addSessQueue') = {}
    BY <1>1, <1>5, <2>2
  <2> QED
    BY <1>1, <2>1, <2>3, <2>4 DEF Owned
<1>12. Accounted'
  <2>1. ASSUME NEW b \in Accounts, m_sessions'[b] # None
        PROVE  account'[m_sessions'[b]] = b
    <3>1. m_sessions'[b] \in alive'
      BY <1>11, <2>1 DEF Owned, Listed
    <3>2. account[m_sessions'[b]] = b
      BY <1>2, <2>1 DEF Replacement, IInv, TypeOK, Accounted
    <3> QED
      BY <1>6, <3>1, <3>2
  <2>2. \A x \in alive' : account'[x] \in Accounts
    BY <1>2, <1>6 DEF IInv, Accounted
  <2> QED
    BY <2>1, <2>2 DEF Accounted
<1>13. Updating'
  BY <1>3 DEF IInv, Updating
<1>14. Waiting'
  <2>1. ASSUME ~stopping', NEW x \in alive'
        PROVE  m_inQueue'[x] <=> x \in Queued'
    <3>1. x \in alive /\ x \in Sess
      BY <1>2, <2>1 DEF IInv, TypeOK
    <3>2. m_inQueue[x] <=> x \in Queued
      BY <1>3, <2>1, <3>1 DEF IInv, Waiting
    <3> QED
      BY <1>8, <3>1, <3>2
  <2> QED
    BY <1>5, <1>7, <2>1 DEF Waiting
<1> QED
  BY <1>10, <1>11, <1>12, <1>13, <1>14 DEF IInv

\* UpdateSessions deletes a listed session, and its entry and place with it.
LEMMA DropStep ==
  ASSUME IInv, NEW s \in Sess, DropSession(s)
  PROVE  /\ IInv'
         /\ s \in Listed /\ Listed' = Listed \ {s}
         /\ Shortened(m_QueuedPlayer, s, m_QueuedPlayer')
<1> DEFINE a == account[s]
           once == RemoveQueuedPlayer(m_QueuedPlayer, SessionCount, s)
           twice == RemoveQueuedPlayer(once, SessionCount, s)
<1>1. /\ s \in todo
      /\ m_QueuedPlayer' = twice /\ m_inQueue' = SetInQueue(twice)
      /\ m_disconnects' = IF s \notin Queued /\ Tolerance THEN m_disconnects \cup {a} ELSE m_disconnects
      /\ m_sessions' = [m_sessions EXCEPT ![a] = None]
      /\ alive' = alive \ {s}
      /\ closed' = [closed EXCEPT ![s] = FALSE] /\ loading' = [loading EXCEPT ![s] = FALSE]
      /\ account' = [account EXCEPT ![s] = None]
      /\ todo' = todo \ {s}
      /\ addSessQueue' = addSessQueue /\ m_playerLimit' = m_playerLimit
      /\ phase' = phase /\ stopping' = stopping
  BY DEF DropSession
<1>2. s \in Listed /\ a \in Accounts /\ m_sessions[a] = s /\ s \in alive
  BY <1>1, ListedUnder DEF IInv, Updating, Owned
<1>3. m_QueuedPlayer \in Seq(Sess) /\ Distinct(m_QueuedPlayer) /\ Queued \subseteq Listed
      /\ None \notin Sess
  BY SessionsAssumption DEF IInv, TypeOK, Waiting
<1>4. Shortened(m_QueuedPlayer, s, twice)
  BY <1>3, RemovedTwice
<1> HIDE DEF a, twice
<1>5. m_sessions' \in [Accounts -> Sess \cup {None}] /\ Listed' = Listed \ {s}
  BY <1>1, <1>2, ListedReplaced DEF IInv
<1>6. Elements(twice) = Queued' /\ Queued' \subseteq Queued \ {s} /\ Queued' \subseteq Listed'
      /\ twice \in Seq(Sess) /\ Distinct(twice)
  BY <1>1, <1>3, <1>4, <1>5 DEF Shortened, Queued
<1>7. /\ m_inQueue' \in [Sess -> BOOLEAN]
      /\ \A x \in Sess : (m_inQueue[x] <=> x \in Queued) => (m_inQueue'[x] <=> x \in Queued')
  BY <1>1, <1>6, KnowsQueue DEF IInv
<1>8. TypeOK'
  <2>1. closed' \in [Sess -> BOOLEAN] /\ loading' \in [Sess -> BOOLEAN]
        /\ account' \in [Sess -> Accounts \cup {None}]
    BY <1>1 DEF IInv, TypeOK
  <2>2. m_disconnects' \subseteq Accounts
    BY <1>1, <1>2 DEF IInv, TypeOK
  <2> QED
    BY <1>1, <1>5, <1>6, <1>7, <2>1, <2>2 DEF IInv, TypeOK
<1>9. Owned'
  <2>1. IsFiniteSet(alive')
    BY <1>1, FS_RemoveElement DEF IInv, Owned
  <2> QED
    BY <1>1, <1>2, <1>5, <2>1 DEF IInv, Owned
<1>10. \A x \in alive' : account'[x] = account[x]
  BY <1>1 DEF IInv, TypeOK
<1>11. Accounted'
  <2>1. ASSUME NEW b \in Accounts, m_sessions'[b] # None
        PROVE  account'[m_sessions'[b]] = b
    <3>1. m_sessions'[b] \in alive'
      BY <1>9, <2>1 DEF Owned, Listed
    <3>2. account[m_sessions'[b]] = b
      BY <1>1, <2>1 DEF IInv, TypeOK, Accounted
    <3> QED
      BY <1>10, <3>1, <3>2
  <2>2. \A x \in alive' : account'[x] \in Accounts
    BY <1>1, <1>10 DEF IInv, Accounted
  <2> QED
    BY <2>1, <2>2 DEF Accounted
<1>12. Updating'
  BY <1>1, <1>5 DEF IInv, Updating
<1>13. Waiting'
  <2>1. ASSUME ~stopping', NEW x \in alive'
        PROVE  m_inQueue'[x] <=> x \in Queued'
    <3>1. x \in alive /\ x \in Sess
      BY <1>1, <2>1 DEF IInv, TypeOK
    <3>2. m_inQueue[x] <=> x \in Queued
      BY <1>1, <2>1, <3>1 DEF IInv, Waiting
    <3> QED
      BY <1>7, <3>1, <3>2
  <2> QED
    BY <1>1, <1>6, <2>1 DEF Waiting
<1> QED
  BY <1>1, <1>2, <1>4, <1>5, <1>8, <1>9, <1>11, <1>12, <1>13 DEF IInv

-----------------------------------------------------------------------------
(* The invariant and what follows from it                                   *)

\* Every reachable state satisfies IInv: the type invariant of the session map
\* and its queues, strengthened by who is listed, alive, updated and waiting.
THEOREM Invariance == Spec => []IInv
<1>1. Init => IInv
  <2> SUFFICES ASSUME Init PROVE IInv
    OBVIOUS
  <2>1. Listed = {} /\ Queued = {} /\ Elements(addSessQueue) = {}
    BY DEF Init, Listed, Queued, Elements
  <2>2. TypeOK
    <3>1. closed \in [Sess -> BOOLEAN] /\ loading \in [Sess -> BOOLEAN]
      BY DEF Init
    <3>2. m_inQueue \in [Sess -> BOOLEAN] /\ account \in [Sess -> Accounts \cup {None}]
      BY DEF Init
    <3>3. m_sessions \in [Accounts -> Sess \cup {None}]
      BY DEF Init
    <3>4. addSessQueue \in Seq(Sess) /\ m_QueuedPlayer \in Seq(Sess)
      BY DEF Init
    <3>5. alive \subseteq Sess /\ m_disconnects \subseteq Accounts /\ todo \subseteq Sess
      BY DEF Init
    <3>6. m_playerLimit \in Limits /\ phase \in {"idle", "add", "update", "stopped"}
      BY DEF Init
    <3>7. stopping \in BOOLEAN
      BY DEF Init
    <3> QED
      BY <3>1, <3>2, <3>3, <3>4, <3>5, <3>6, <3>7 DEF TypeOK
  <2>3. Owned
    BY <2>1, FS_EmptySet DEF Init, Owned, Distinct
  <2>4. Accounted /\ Updating
    BY <2>1 DEF Init, Accounted, Updating
  <2>5. Waiting
    BY <2>1 DEF Init, Waiting, Distinct
  <2> QED
    BY <2>2, <2>3, <2>4, <2>5 DEF IInv
<1>2. IInv /\ [Next]_vars => IInv'
  <2> SUFFICES ASSUME IInv, [Next]_vars PROVE IInv'
    OBVIOUS
  <2>1. CASE \E a \in Accounts : HandleAuthSession(a)
    BY <2>1, AuthStep
  <2>2. CASE AddSession_
    BY <2>2, RejectStep, ReplaceStep DEF AddSession_
  <2>3. CASE \E s \in Sess : DropSession(s)
    BY <2>3, DropStep
  <2>4. CASE KickAll
    BY <2>4, KickAllStep
  <2>5. CASE \/ \E s \in Sess : CloseSocket(s) \/ KeepSession(s)
             \/ BeginUpdateSessions \/ EndAdd \/ EndUpdateSessions
             \/ \E l \in Limits : SetPlayerAmountLimit(l)
             \/ UNCHANGED vars
    BY <2>5, QuietStep
  <2> QED
    BY <2>1, <2>2, <2>3, <2>4, <2>5 DEF Next, Network, UpdateSessions, Stopped
<1> QED
  BY <1>1, <1>2, PTL DEF Spec

\* No WorldSession is leaked or deleted twice, and each account has one.
THEOREM NoSessionLostOrTwice == Spec => []SessionsOwned
<1>1. IInv => SessionsOwned
  BY DEF IInv, Owned, Accounted, SessionsOwned
<1> QED
  BY <1>1, Invariance, PTL

\* The login queue holds listed sessions only, each once, and m_inQueue agrees.
THEOREM LoginQueueSound == Spec => []QueueSound
<1>1. IInv => QueueSound
  <2> SUFFICES ASSUME IInv PROVE QueueSound
    OBVIOUS
  <2>1. Listed \subseteq alive
    BY DEF IInv, Owned
  <2> QED
    BY <2>1 DEF IInv, Waiting, Distinct, QueueSound
<1> QED
  BY <1>1, Invariance, PTL

\* What a replacement does to those who wait: only the first ones are let in.
LEMMA ReplaceServesFirst ==
  ASSUME IInv, AddSession_, ReplaceSession(Head(addSessQueue)),
         NEW j \in 1..Len(m_QueuedPlayer), NEW k \in 1..Len(m_QueuedPlayer), j < k,
         m_QueuedPlayer[k] \in InWorld'
  PROVE  m_QueuedPlayer[j] \notin Queued'
<1> DEFINE s == Head(addSessQueue)
           old == m_sessions[account[s]]
           rest == RestWithout(old)
<1>1. s \in Sess /\ s \notin Listed /\ account[s] \in Accounts
  BY Taken
<1>2. Replacement(s, old, rest)
  BY DEF ReplaceSession, Replacement, RestWithout
<1>3. old # s
  BY <1>1, SessionsAssumption DEF Listed
<1> HIDE DEF s, old, rest
<1>4. /\ Listed' = (Listed \ {old}) \cup {s}
      /\ Shortened(m_QueuedPlayer, old, rest)
      /\ Queued' = Elements(rest) \/ Queued' = Elements(rest) \cup {s}
      /\ s \notin Queued
  BY <1>1, <1>2, ReplacedSets DEF Replacement
<1>5. m_QueuedPlayer[k] # old /\ m_QueuedPlayer[k] \notin Elements(rest)
  BY <1>3, <1>4 DEF InWorld
<1>6. m_QueuedPlayer[j] \notin Elements(rest)
  BY <1>4, <1>5 DEF Shortened, FrontFirst
<1>7. m_QueuedPlayer[j] # s
  BY <1>4 DEF Queued, Elements
<1> QED
  BY <1>4, <1>6, <1>7

\* The login queue is first come, first served: whoever waits in front of a
\* session that enters the world has entered, too, or left.
THEOREM QueueServesInOrder == Spec => FirstComeFirstServed
<1>1. ASSUME IInv, [Next]_vars, NEW j \in 1..Len(m_QueuedPlayer),
             NEW k \in 1..Len(m_QueuedPlayer), j < k, m_QueuedPlayer[k] \in InWorld'
      PROVE  m_QueuedPlayer[j] \notin Queued'
  <2>0. m_QueuedPlayer[k] \in Queued
    BY DEF Queued, Elements
  <2>1. CASE \E a \in Accounts : HandleAuthSession(a)
    <3>1. Queued' = Queued
      BY <2>1 DEF HandleAuthSession, Queued
    <3> QED
      BY <1>1, <2>0, <3>1 DEF InWorld
  <2>2. CASE AddSession_
    <3>1. CASE RejectSession(Head(addSessQueue))
      BY <1>1, <2>0, <2>2, <3>1, RejectStep DEF InWorld
    <3>2. CASE ReplaceSession(Head(addSessQueue))
      BY <1>1, <2>2, <3>2, ReplaceServesFirst
    <3> QED
      BY <2>2, <3>1, <3>2 DEF AddSession_
  <2>3. ASSUME NEW s \in Sess, DropSession(s)
        PROVE  m_QueuedPlayer[j] \notin Queued'
    <3>1. Listed' = Listed \ {s} /\ FrontFirst(m_QueuedPlayer, s, m_QueuedPlayer')
      BY <1>1, <2>3, DropStep DEF Shortened
    <3>2. m_QueuedPlayer[k] # s /\ m_QueuedPlayer[k] \notin Elements(m_QueuedPlayer')
      BY <1>1, <3>1 DEF InWorld, Queued
    <3> QED
      BY <1>1, <3>1, <3>2 DEF FrontFirst, Queued
  <2>4. CASE KickAll
    BY <2>4 DEF KickAll, Queued, Elements
  <2>5. CASE \/ \E s \in Sess : CloseSocket(s) \/ KeepSession(s)
             \/ BeginUpdateSessions \/ EndAdd \/ EndUpdateSessions
             \/ \E l \in Limits : SetPlayerAmountLimit(l)
             \/ UNCHANGED vars
    BY <1>1, <2>0, <2>5, QuietStep DEF InWorld
  <2> QED
    BY <1>1, <2>1, <2>2, <2>3, <2>4, <2>5 DEF Next, Network, UpdateSessions, Stopped
<1>2. IInv /\ [Next]_vars =>
        [\A j, k \in 1..Len(m_QueuedPlayer) :
           (j < k /\ m_QueuedPlayer[k] \in InWorld') => m_QueuedPlayer[j] \notin Queued']_vars
  BY <1>1
<1> QED
  BY <1>2, Invariance, PTL DEF Spec, FirstComeFirstServed

-----------------------------------------------------------------------------
(* Counting: who is in the world                                            *)

\* SessionCount is the number of listed sessions, and the queue is as long as
\* those of them that wait are many.
LEMMA Counts ==
  ASSUME IInv
  PROVE  /\ IsFiniteSet(Listed) /\ IsFiniteSet(Queued) /\ IsFiniteSet(InWorld)
         /\ SessionCount \in Nat /\ Len(m_QueuedPlayer) \in Nat /\ Cardinality(InWorld) \in Nat
         /\ SessionCount = Cardinality(Listed)
         /\ Cardinality(InWorld) = SessionCount - Len(m_QueuedPlayer)
<1> DEFINE A == {a \in Accounts : m_sessions[a] # None}
           f == [s \in Listed |-> account[s]]
<1>1. IsFiniteSet(Listed) /\ Queued \subseteq Listed
  BY FS_Subset DEF IInv, Owned, Waiting
<1>2. ExistsBijection(Listed, A)
  <2>1. f \in [Listed -> A]
    BY ListedUnder, SessionsAssumption DEF IInv
  <2>2. \A s, t \in Listed : f[s] = f[t] => s = t
    BY ListedUnder DEF IInv
  <2>3. \A a \in A : \E s \in Listed : f[s] = a
    BY DEF IInv, Accounted, Listed
  <2> HIDE DEF f, A
  <2>4. f \in Bijection(Listed, A)
    BY <2>1, <2>2, <2>3 DEF Bijection, Injection, Surjection, IsInjective
  <2> QED
    BY <2>4 DEF ExistsBijection
<1>3. SessionCount = Cardinality(Listed)
  BY <1>1, <1>2, FS_Bijection DEF SessionCount
<1>4. Cardinality(Listed) \in Nat
  BY <1>1, FS_CardinalityType
<1>5. IsFiniteSet(Queued) /\ Cardinality(Queued) = Len(m_QueuedPlayer) /\ Len(m_QueuedPlayer) \in Nat
  BY DistinctCardinality DEF IInv, TypeOK, Waiting, Queued
<1>6. IsFiniteSet(InWorld) /\ Cardinality(InWorld) = Cardinality(Listed) - Cardinality(Queued)
  <2>1. Listed \cap Queued = Queued
    BY <1>1
  <2> QED
    BY <1>1, <2>1, FS_Difference DEF InWorld
<1>7. Cardinality(InWorld) \in Nat
  BY <1>6, FS_CardinalityType
<1> QED
  BY <1>1, <1>3, <1>4, <1>5, <1>6, <1>7

\* Who is in the world beside s when q waits.
Others(q, s) == (Listed \ {s}) \ Elements(q)

\* RemoveQueuedPlayer lets nobody in, because nobody is left or the limit is
\* reached, or one, and then the limit was not reached.
LEMMA LetIn ==
  ASSUME IInv, NEW s \in Listed, NEW q \in Seq(Sess), Distinct(q), Elements(q) \subseteq Listed
  PROVE  LET r == RemoveQueuedPlayer(q, SessionCount, s)
             places == Cardinality(Others(q, s))
         IN
         /\ IsFiniteSet(Others(r, s)) /\ places \in Nat /\ Cardinality(Others(r, s)) \in Nat
         /\ \/ /\ Others(r, s) = Others(q, s)
               /\ r = <<>> \/ (m_playerLimit > 0 /\ places >= m_playerLimit)
            \/ /\ Others(q, s) \subseteq Others(r, s)
               /\ Cardinality(Others(r, s)) = places + 1
               /\ m_playerLimit = 0 \/ places < m_playerLimit
<1> DEFINE r == RemoveQueuedPlayer(q, SessionCount, s)
           rest == RemoveFirst(q, s)
           places == Cardinality(Others(q, s))
           room == m_playerLimit = 0 \/ Sessions(q, SessionCount, s) < m_playerLimit
<1>1. /\ IsFiniteSet(Listed) /\ SessionCount \in Nat /\ SessionCount = Cardinality(Listed)
      /\ m_playerLimit \in Nat
  BY Counts, SessionsAssumption DEF IInv, TypeOK
<1>2. IsFiniteSet(Listed \ {s}) /\ Cardinality(Listed \ {s}) = SessionCount - 1
  BY <1>1, FS_RemoveElement
<1>3. /\ rest \in Seq(Sess) /\ Distinct(rest) /\ Elements(rest) = Elements(q) \ {s}
      /\ Len(rest) = IF s \in Elements(q) THEN Len(q) - 1 ELSE Len(q)
  BY RemoveShortens DEF Shortened
<1>4. /\ Shortened(q, s, r)
      /\ \/ ~room /\ r = rest
         \/ rest = <<>> /\ r = rest
         \/ room /\ rest # <<>> /\ r = Tail(rest)
  BY Removed
<1> HIDE DEF r, rest
<1>5. ASSUME NEW x \in Seq(Sess), Distinct(x), Elements(x) \subseteq Listed \ {s}
      PROVE  /\ IsFiniteSet(Others(x, s)) /\ Cardinality(Others(x, s)) \in Nat
             /\ Cardinality(Others(x, s)) = SessionCount - 1 - Len(x)
  <2>1. Cardinality(Elements(x)) = Len(x)
    BY <1>5, DistinctCardinality
  <2>2. (Listed \ {s}) \cap Elements(x) = Elements(x)
    BY <1>5
  <2>3. /\ IsFiniteSet(Others(x, s))
        /\ Cardinality(Others(x, s)) = Cardinality(Listed \ {s}) - Cardinality(Elements(x))
    <3> DEFINE L == Listed \ {s}
    <3>1. IsFiniteSet(L) /\ L \cap Elements(x) = Elements(x)
      BY <1>2, <2>2
    <3>2. Others(x, s) = L \ Elements(x)
      BY DEF Others
    <3> HIDE DEF L
    <3>3. /\ IsFiniteSet(L \ Elements(x))
          /\ Cardinality(L \ Elements(x)) = Cardinality(L) - Cardinality(L \cap Elements(x))
      BY <3>1, FS_Difference
    <3>4. /\ IsFiniteSet(Others(x, s))
          /\ Cardinality(Others(x, s)) = Cardinality(L) - Cardinality(Elements(x))
      BY <3>1, <3>2, <3>3
    <3> QED
      BY <3>4 DEF L
  <2>4. Cardinality(Others(x, s)) \in Nat
    BY <2>3, FS_CardinalityType
  <2> QED
    BY <1>2, <2>1, <2>3, <2>4
<1>6. Others(rest, s) = Others(q, s)
  BY <1>3 DEF Others
<1>7. /\ IsFiniteSet(Others(q, s)) /\ places \in Nat
      /\ places = SessionCount - 1 - Len(rest) /\ Len(rest) \in Nat /\ Len(q) \in Nat
  BY <1>3, <1>5, <1>6
<1>8. Sessions(q, SessionCount, s) = places
  <2>1. CASE s \in Elements(q)
    BY <1>1, <1>3, <1>7, <2>1 DEF Sessions
  <2>2. CASE s \notin Elements(q)
    <3>1. SessionCount - Len(q) > 0
      BY <1>1, <1>3, <1>7, <2>2
    <3> QED
      BY <1>1, <1>3, <1>7, <2>2, <3>1 DEF Sessions
  <2> QED
    BY <2>1, <2>2
<1> HIDE DEF places
<1>9. CASE r = rest /\ (~room \/ rest = <<>>)
  BY <1>1, <1>6, <1>7, <1>8, <1>9 DEF places, r
<1>10. CASE room /\ rest # <<>> /\ r = Tail(rest)
  <2>1. Elements(rest) = Elements(r) \cup {Head(rest)} /\ Len(r) = Len(rest) - 1
    BY <1>3, <1>10, TailElements
  <2>2. /\ IsFiniteSet(Others(r, s)) /\ Cardinality(Others(r, s)) \in Nat
        /\ Cardinality(Others(r, s)) = SessionCount - 1 - Len(r)
    BY <1>3, <1>4, <1>5, <2>1 DEF Shortened
  <2>3. Others(q, s) \subseteq Others(r, s)
    BY <1>6, <2>1 DEF Others
  <2>4. Cardinality(Others(r, s)) = places + 1
    BY <1>1, <1>7, <2>1, <2>2
  <2> QED
    BY <1>7, <1>8, <1>10, <2>2, <2>3, <2>4 DEF places, r
<1> QED
  BY <1>4, <1>9, <1>10

\* What DropSession does to the world: nobody is let in although places and
\* waiting sessions are there never happens, and never too many are.
LEMMA DropCounts ==
  ASSUME IInv, NEW s \in Sess, DropSession(s)
  PROVE  /\ IsFiniteSet(InWorld') /\ Cardinality(InWorld') \in Nat
         /\ \/ InWorld' \subseteq InWorld /\ m_QueuedPlayer' = <<>>
            \/ /\ InWorld' \subseteq InWorld /\ m_playerLimit > 0
               /\ Cardinality(InWorld') >= m_playerLimit
            \/ /\ Cardinality(InWorld') >= Cardinality(InWorld)
               /\ m_playerLimit = 0 \/ Cardinality(InWorld') <= m_playerLimit
<1> DEFINE q == m_QueuedPlayer
           once == RemoveQueuedPlayer(q, SessionCount, s)
           twice == RemoveQueuedPlayer(once, SessionCount, s)
<1>1. /\ s \in Listed /\ Listed' = Listed \ {s} /\ m_QueuedPlayer' = twice
  BY DropStep DEF DropSession
<1>2. InWorld' = Others(twice, s) /\ InWorld \ {s} = Others(q, s)
  BY <1>1 DEF InWorld, Queued, Others
<1>3. q \in Seq(Sess) /\ Distinct(q) /\ Elements(q) \subseteq Listed
  BY DEF IInv, TypeOK, Waiting, Queued
<1>4. once \in Seq(Sess) /\ Distinct(once) /\ Elements(once) \subseteq Listed
  BY <1>3, Removed DEF Shortened
<1>5. /\ Cardinality(Others(q, s)) \in Nat
      /\ \/ /\ Others(once, s) = Others(q, s)
            /\ once = <<>> \/ (m_playerLimit > 0 /\ Cardinality(Others(q, s)) >= m_playerLimit)
         \/ /\ Others(q, s) \subseteq Others(once, s)
            /\ Cardinality(Others(once, s)) = Cardinality(Others(q, s)) + 1
            /\ m_playerLimit = 0 \/ Cardinality(Others(q, s)) < m_playerLimit
  BY <1>1, <1>3, LetIn
<1>6. once = <<>> => twice = <<>>
  BY <1>4, RemovedTwice, <1>3
<1> HIDE DEF once
<1>7. /\ IsFiniteSet(Others(twice, s)) /\ Cardinality(Others(twice, s)) \in Nat
      /\ Cardinality(Others(once, s)) \in Nat
      /\ \/ /\ Others(twice, s) = Others(once, s)
            /\ twice = <<>> \/ (m_playerLimit > 0 /\ Cardinality(Others(once, s)) >= m_playerLimit)
         \/ /\ Others(once, s) \subseteq Others(twice, s)
            /\ Cardinality(Others(twice, s)) = Cardinality(Others(once, s)) + 1
            /\ m_playerLimit = 0 \/ Cardinality(Others(once, s)) < m_playerLimit
  BY <1>1, <1>4, LetIn
<1> HIDE DEF twice, q
<1>8. /\ Cardinality(InWorld) \in Nat /\ m_playerLimit \in Nat
      /\ Cardinality(Others(q, s)) >= Cardinality(InWorld) - 1
  <2>1. /\ Cardinality(InWorld) \in Nat /\ IsFiniteSet(InWorld) /\ m_playerLimit \in Nat
    BY Counts, SessionsAssumption DEF IInv, TypeOK
  <2> QED
    BY <1>2, <2>1, FS_RemoveElement
<1>9. CASE Others(twice, s) = Others(q, s)
  BY <1>1, <1>2, <1>5, <1>6, <1>7, <1>8, <1>9
<1>10. CASE Others(twice, s) # Others(q, s)
  BY <1>1, <1>2, <1>5, <1>7, <1>8, <1>10
<1> QED
  BY <1>9, <1>10

\* Players in the world, to whom the limit applies.
Players == {s \in InWorld : account[s] \notin Staff}

\* A step keeps the free places taken, or leaves nobody waiting for one.
PlacesTaken ==
  \/ m_QueuedPlayer' = <<>>
  \/ Cardinality(InWorld') >= Cardinality(InWorld)
  \/ m_playerLimit > 0 /\ Cardinality(InWorld') >= m_playerLimit

\* The players after a step were in the world before, or are not above the limit.
PlayersBounded ==
  \E X : /\ Players' \subseteq X
         /\ X \subseteq InWorld \/ (IsFiniteSet(X) /\ Cardinality(X) <= m_playerLimit)

\* The world without a session that is replaced, and with those let in for it.
LEMMA ReplacedLeaves ==
  ASSUME IInv, NEW a \in Accounts,
         NEW old, old = m_sessions[a], NEW rest, rest = RestWithout(old)
  PROVE  LET in == Others(rest, old) IN
         /\ IsFiniteSet(in) /\ Cardinality(in) \in Nat
         /\ \/ in = InWorld /\ (old \in Queued \/ old = None)
            \/ /\ in \subseteq InWorld /\ old \in InWorld
               /\ Cardinality(in) = Cardinality(InWorld) - 1
               /\ \/ Cardinality(in) = SessionCount - 1
                  \/ m_playerLimit > 0 /\ Cardinality(in) >= m_playerLimit
            \/ /\ Cardinality(in) >= Cardinality(InWorld)
               /\ m_playerLimit = 0 \/ Cardinality(in) <= m_playerLimit
<1> DEFINE q == m_QueuedPlayer
           in == Others(rest, old)
<1>1. /\ q \in Seq(Sess) /\ Distinct(q) /\ Elements(q) \subseteq Listed /\ Queued = Elements(q)
      /\ None \notin Listed
  BY DEF IInv, TypeOK, Waiting, Queued, Listed
<1>2. /\ IsFiniteSet(Listed) /\ IsFiniteSet(InWorld) /\ Cardinality(InWorld) \in Nat
      /\ SessionCount \in Nat /\ SessionCount = Cardinality(Listed) /\ m_playerLimit \in Nat
  BY Counts, SessionsAssumption DEF IInv, TypeOK
<1>3. CASE old = None
  <2>1. in = InWorld
    BY <1>1, <1>3 DEF RestWithout, Others, InWorld
  <2> QED
    BY <1>2, <1>3, <2>1
<1>4. CASE old # None
  <2>1. old \in Listed
    BY <1>4 DEF Listed
  <2>2. rest = RemoveQueuedPlayer(q, SessionCount, old)
    BY <1>4 DEF RestWithout
  <2>3. /\ IsFiniteSet(in) /\ Cardinality(in) \in Nat /\ Cardinality(Others(q, old)) \in Nat
        /\ \/ /\ in = Others(q, old)
              /\ rest = <<>> \/ (m_playerLimit > 0 /\ Cardinality(Others(q, old)) >= m_playerLimit)
           \/ /\ Cardinality(in) = Cardinality(Others(q, old)) + 1
              /\ m_playerLimit = 0 \/ Cardinality(Others(q, old)) < m_playerLimit
    BY <1>1, <2>1, <2>2, LetIn
  <2>4. Others(q, old) = InWorld \ {old}
    BY <1>1 DEF Others, InWorld
  <2>5. rest = <<>> => in = Listed \ {old}
    BY DEF Others, Elements
  <2> HIDE DEF in
  <2>6. rest = <<>> => Cardinality(in) = SessionCount - 1
    BY <1>2, <2>1, <2>5, FS_RemoveElement
  <2>7. CASE old \in Queued
    <3>1. Others(q, old) = InWorld
      BY <2>4, <2>7 DEF InWorld
    <3> QED
      BY <1>2, <2>3, <2>7, <3>1 DEF in
  <2>8. CASE old \notin Queued
    <3>1. old \in InWorld
      BY <2>1, <2>8 DEF InWorld
    <3>2. Cardinality(Others(q, old)) = Cardinality(InWorld) - 1 /\ Others(q, old) \subseteq InWorld
      BY <1>2, <2>4, <3>1, FS_RemoveElement
    <3> QED
      BY <1>2, <2>3, <2>6, <3>1, <3>2 DEF in
  <2> QED
    BY <2>7, <2>8
<1> QED
  BY <1>3, <1>4

\* A replacement gives the place of the old session to the new one or to whoever
\* waits, and brings no player more than the limit.
LEMMA ReplaceCounts ==
  ASSUME IInv, AddSession_, ReplaceSession(Head(addSessQueue))
  PROVE  /\ IsFiniteSet(InWorld') /\ Cardinality(InWorld') \in Nat
         /\ PlacesTaken
         /\ m_playerLimit > 0 /\ m_disconnects = {} => PlayersBounded
<1> DEFINE s == Head(addSessQueue)
           a == account[s]
           old == m_sessions[a]
           rest == RestWithout(old)
           count == IF old = None THEN SessionCount + 1 ELSE SessionCount
           others == IF old \in Queued THEN count ELSE count - 1
           wait == /\ m_playerLimit > 0
                   /\ others >= m_playerLimit
                   /\ a \notin Staff
                   /\ ~HasRecentlyDisconnected(a)
           in == Others(rest, old)
<1>1. s \in Sess /\ s \in alive /\ s \notin Listed /\ a \in Accounts
  BY Taken
<1>2. Replacement(s, old, rest) /\ m_QueuedPlayer' = IF wait THEN Append(rest, s) ELSE rest
  BY DEF ReplaceSession, Replacement, RestWithout
<1>3. /\ IsFiniteSet(Listed) /\ IsFiniteSet(InWorld) /\ Cardinality(InWorld) \in Nat
      /\ SessionCount \in Nat /\ SessionCount = Cardinality(Listed) /\ m_playerLimit \in Nat
  BY Counts, SessionsAssumption DEF IInv, TypeOK
<1>4. IInv' /\ None \notin Listed /\ Queued \subseteq Listed
  BY ReplaceStep DEF Listed, IInv, Waiting
<1>5. IsFiniteSet(Listed') /\ IsFiniteSet(InWorld') /\ Cardinality(InWorld') \in Nat
  <2>1. Listed' \subseteq alive' /\ InWorld' \subseteq alive' /\ IsFiniteSet(alive')
    BY <1>4 DEF IInv, Owned, InWorld
  <2> QED
    BY <2>1, FS_Subset, FS_CardinalityType
<1>6. /\ IsFiniteSet(in) /\ Cardinality(in) \in Nat
      /\ \/ in = InWorld /\ (old \in Queued \/ old = None)
         \/ /\ in \subseteq InWorld /\ old \in InWorld
            /\ Cardinality(in) = Cardinality(InWorld) - 1
            /\ \/ Cardinality(in) = SessionCount - 1
               \/ m_playerLimit > 0 /\ Cardinality(in) >= m_playerLimit
         \/ /\ Cardinality(in) >= Cardinality(InWorld)
            /\ m_playerLimit = 0 \/ Cardinality(in) <= m_playerLimit
  BY <1>1, <1>4, ReplacedLeaves
<1>7. old # None => old \in Listed
  BY <1>1 DEF Listed
<1> HIDE DEF s, old, rest, in
<1>8. /\ Listed' = (Listed \ {old}) \cup {s}
      /\ m_QueuedPlayer' = Append(rest, s) => Queued' = Elements(rest) \cup {s}
      /\ m_QueuedPlayer' = rest => Queued' = Elements(rest)
      /\ Elements(rest) \subseteq Queued
  BY <1>1, <1>2, ReplacedSets DEF Shortened, Queued
<1>9. s \notin in
  BY <1>1 DEF in, Others
<1>10. wait => InWorld' = in
  BY <1>1, <1>2, <1>8 DEF InWorld, in, Others
<1>11. ~wait => InWorld' = in \cup {s}
  BY <1>1, <1>2, <1>4, <1>8 DEF InWorld, in, Others
<1>12. ~wait => Cardinality(InWorld') = Cardinality(in) + 1
  BY <1>6, <1>9, <1>11, FS_AddElement
<1>13. old \in InWorld => others = SessionCount - 1
  BY <1>4, <1>3 DEF InWorld
<1>14. PlacesTaken
  <2>1. CASE wait
    BY <1>3, <1>6, <1>10, <1>13, <2>1 DEF PlacesTaken
  <2>2. CASE ~wait
    BY <1>3, <1>5, <1>6, <1>12, <2>2 DEF PlacesTaken
  <2> QED
    BY <2>1, <2>2
<1>15. ASSUME m_playerLimit > 0, m_disconnects = {}
       PROVE  PlayersBounded
  <2>1. CASE Players' \subseteq in
    BY <1>3, <1>6, <1>15, <2>1 DEF PlayersBounded
  <2>2. CASE ~(Players' \subseteq in)
    <3>1. ~wait
      BY <1>10, <2>2 DEF Players
    <3>2. s \in Players'
      BY <1>11, <2>2, <3>1 DEF Players
    <3>3. account'[s] = account[s]
      <4>1. s \in alive' /\ alive' \subseteq alive
        BY <1>4, <3>2 DEF Players, InWorld, IInv, Owned, ReplaceSession
      <4> QED
        BY <4>1, AccountsKept
    <3>4. a \notin Staff
      BY <3>2, <3>3 DEF Players
    <3>5. others < m_playerLimit
      <4>1. ~HasRecentlyDisconnected(a)
        BY <1>15 DEF HasRecentlyDisconnected
      <4>2. others \in Int
        BY <1>3
      <4> QED
        BY <1>3, <1>15, <3>1, <3>4, <4>1, <4>2
    <3>6. Cardinality(Listed') <= m_playerLimit
      <4>1. IsFiniteSet(Listed \ {old}) /\ Cardinality(Listed \ {old}) =
              IF old \in Listed THEN SessionCount - 1 ELSE SessionCount
        BY <1>3, FS_RemoveElement
      <4>2. Cardinality(Listed') = Cardinality(Listed \ {old}) + 1
        BY <1>1, <1>8, <4>1, FS_AddElement
      <4> QED
        BY <1>3, <1>4, <1>7, <3>5, <4>1, <4>2
    <3>7. Players' \subseteq Listed'
      BY DEF Players, InWorld
    <3> QED
      BY <1>5, <3>6, <3>7 DEF PlayersBounded
  <2> QED
    BY <2>1, <2>2
<1> QED
  BY <1>5, <1>14, <1>15

\* Steps that move nobody in or out of the world.
LEMMA WorldSame ==
  ASSUME IInv, IInv', Listed' = Listed, Queued' = Queued,
         \A s \in InWorld : account'[s] = account[s]
  PROVE  PlacesTaken /\ PlayersBounded
<1>1. InWorld' = InWorld /\ Cardinality(InWorld) \in Nat
  BY Counts DEF InWorld
<1>2. Players' \subseteq InWorld
  BY <1>1 DEF Players
<1> QED
  BY <1>1, <1>2 DEF PlacesTaken, PlayersBounded

\* Each step that does not change the limit takes the free places, and brings no
\* player above the limit.
LEMMA StepCounts ==
  ASSUME IInv, [Next]_vars, m_playerLimit' = m_playerLimit
  PROVE  /\ PlacesTaken
         /\ m_playerLimit > 0 /\ m_disconnects = {} /\ ~stopping' => PlayersBounded
<1>1. CASE \E a \in Accounts : HandleAuthSession(a)
  <2>1. PICK a \in Accounts : HandleAuthSession(a)
    BY <1>1
  <2>2. IInv'
    BY <2>1, AuthStep
  <2>3. Listed' = Listed /\ Queued' = Queued
    BY <2>1 DEF HandleAuthSession, Listed, Queued
  <2> DEFINE n == CHOOSE x \in Sess : x \notin alive
  <2>4. n \notin alive
    <3>1. \E x \in Sess : x \notin alive
      BY <2>1 DEF HandleAuthSession, IInv, TypeOK
    <3> QED
      BY <3>1
  <2>5. account' = [account EXCEPT ![n] = a]
    BY <2>1 DEF HandleAuthSession
  <2> HIDE DEF n
  <2>6. \A s \in InWorld : account'[s] = account[s]
    BY <2>4, <2>5 DEF IInv, TypeOK, Owned, InWorld
  <2> QED
    BY <2>2, <2>3, <2>6, WorldSame
<1>2. CASE AddSession_
  <2>1. CASE RejectSession(Head(addSessQueue))
    <3>1. IInv' /\ Listed' = Listed /\ Queued' = Queued
      BY <1>2, <2>1, RejectStep
    <3>2. \A s \in InWorld : account'[s] = account[s]
      <4>1. alive' \subseteq alive
        BY <2>1 DEF RejectSession
      <4>2. InWorld \subseteq alive'
        BY <3>1 DEF InWorld, IInv, Owned
      <4> QED
        BY <1>2, <4>1, <4>2, AccountsKept
    <3> QED
      BY <3>1, <3>2, WorldSame
  <2>2. CASE ReplaceSession(Head(addSessQueue))
    BY <1>2, <2>2, ReplaceCounts
  <2> QED
    BY <1>2, <2>1, <2>2 DEF AddSession_
<1>3. ASSUME NEW s \in Sess, DropSession(s)
      PROVE  PlacesTaken /\ (m_playerLimit > 0 => PlayersBounded)
  <2>1. /\ IsFiniteSet(InWorld') /\ Cardinality(InWorld') \in Nat
        /\ \/ InWorld' \subseteq InWorld /\ m_QueuedPlayer' = <<>>
           \/ /\ InWorld' \subseteq InWorld /\ m_playerLimit > 0
              /\ Cardinality(InWorld') >= m_playerLimit
           \/ /\ Cardinality(InWorld') >= Cardinality(InWorld)
              /\ m_playerLimit = 0 \/ Cardinality(InWorld') <= m_playerLimit
    BY <1>3, DropCounts
  <2>2. PlacesTaken
    BY <2>1 DEF PlacesTaken
  <2>3. Players' \subseteq InWorld'
    BY DEF Players
  <2>4. m_playerLimit \in Nat
    BY SessionsAssumption DEF IInv, TypeOK
  <2>5. m_playerLimit > 0 => PlayersBounded
    BY <2>1, <2>3, <2>4 DEF PlayersBounded
  <2> QED
    BY <2>2, <2>5
<1>4. CASE KickAll
  BY <1>4 DEF KickAll, PlacesTaken
<1>5. CASE \E l \in Limits : SetPlayerAmountLimit(l)
  BY <1>5 DEF SetPlayerAmountLimit
<1>6. CASE \/ \E s \in Sess : CloseSocket(s) \/ KeepSession(s)
           \/ BeginUpdateSessions \/ EndAdd \/ EndUpdateSessions
           \/ UNCHANGED vars
  <2>1. IInv' /\ Listed' = Listed /\ Queued' = Queued
    BY <1>6, QuietStep
  <2>2. account' = account
    BY <1>6 DEF CloseSocket, KeepSession, BeginUpdateSessions, EndAdd, EndUpdateSessions,
                vars, netVars
  <2> QED
    BY <2>1, <2>2, WorldSame
<1> QED
  BY <1>1, <1>2, <1>3, <1>4, <1>5, <1>6 DEF Next, Network, UpdateSessions, Stopped

\* Free places and the excess of players are bounded by what the steps do.
LEMMA FreePlacesFall ==
  ASSUME IInv, IInv', PlacesTaken, m_QueuedPlayer' # <<>>, m_playerLimit' = m_playerLimit
  PROVE  FreePlaces' <= FreePlaces
<1>1. /\ Cardinality(InWorld) \in Nat /\ m_playerLimit \in Nat
      /\ Cardinality(InWorld)' \in Nat
  <2>1. Cardinality(InWorld) \in Nat
    BY Counts
  <2>2. Cardinality(InWorld)' \in Nat
    <3>1. InWorld' \subseteq alive' /\ IsFiniteSet(alive')
      BY DEF IInv, Owned, InWorld
    <3> QED
      BY <3>1, FS_Subset, FS_CardinalityType
  <2> QED
    BY <2>1, <2>2, SessionsAssumption DEF IInv, TypeOK
<1> QED
  BY <1>1 DEF PlacesTaken, FreePlaces

\* The excess follows: players who stay were counted, and those who come fit in.
LEMMA ExcessFalls ==
  ASSUME IInv, IInv', PlayersBounded, m_playerLimit' = m_playerLimit,
         \A s \in alive \cap alive' : account'[s] = account[s]
  PROVE  Excess' <= Excess
<1>1. Players \subseteq alive /\ IsFiniteSet(Players) /\ Cardinality(Players) \in Nat
  <2>1. Players \subseteq alive /\ IsFiniteSet(alive)
    BY DEF IInv, Owned, InWorld, Players
  <2> QED
    BY <2>1, FS_Subset, FS_CardinalityType
<1>2. Players' \subseteq alive' /\ IsFiniteSet(Players') /\ Cardinality(Players') \in Nat
  <2>1. Players' \subseteq alive' /\ IsFiniteSet(alive')
    BY DEF IInv, Owned, InWorld, Players
  <2> QED
    BY <2>1, FS_Subset, FS_CardinalityType
<1>3. m_playerLimit \in Nat
  BY SessionsAssumption DEF IInv, TypeOK
<1>4. Cardinality(Players') <= Cardinality(Players) \/ Cardinality(Players') <= m_playerLimit
  <2>1. PICK X : /\ Players' \subseteq X
                 /\ X \subseteq InWorld \/ (IsFiniteSet(X) /\ Cardinality(X) <= m_playerLimit)
    BY DEF PlayersBounded
  <2>2. CASE X \subseteq InWorld
    <3>1. Players' \subseteq Players
      BY <1>2, <2>1, <2>2 DEF Players, InWorld, IInv, Owned
    <3> QED
      BY <1>1, <3>1, FS_Subset
  <2>3. CASE IsFiniteSet(X) /\ Cardinality(X) <= m_playerLimit
    <3>1. Cardinality(X) \in Nat /\ Cardinality(Players') <= Cardinality(X)
      BY <2>1, <2>3, FS_Subset, FS_CardinalityType
    <3> QED
      BY <1>2, <1>3, <2>3, <3>1
  <2> QED
    BY <2>1, <2>2, <2>3
<1>5. /\ Excess = IF Cardinality(Players) > m_playerLimit THEN Cardinality(Players) - m_playerLimit ELSE 0
      /\ Excess' = IF Cardinality(Players') > m_playerLimit THEN Cardinality(Players') - m_playerLimit ELSE 0
  BY DEF Excess, Players
<1> HIDE DEF Players
<1> QED
  BY <1>1, <1>2, <1>3, <1>4, <1>5

\* A session that stays alive keeps its account.
LEMMA AccountFixed ==
  ASSUME IInv, [Next]_vars
  PROVE  \A s \in alive \cap alive' : account'[s] = account[s]
<1>1. CASE \E a \in Accounts : HandleAuthSession(a)
  <2>1. PICK a \in Accounts : HandleAuthSession(a)
    BY <1>1
  <2> DEFINE n == CHOOSE x \in Sess : x \notin alive
  <2>2. n \notin alive
    <3>1. \E x \in Sess : x \notin alive
      BY <2>1 DEF HandleAuthSession, IInv, TypeOK
    <3> QED
      BY <3>1
  <2>3. account' = [account EXCEPT ![n] = a]
    BY <2>1 DEF HandleAuthSession
  <2> HIDE DEF n
  <2> QED
    BY <2>2, <2>3 DEF IInv, TypeOK
<1>2. CASE AddSession_
  BY <1>2 DEF AddSession_, IInv, TypeOK
<1>3. ASSUME NEW s \in Sess, DropSession(s)
      PROVE  \A x \in alive \cap alive' : account'[x] = account[x]
  BY <1>3 DEF DropSession, IInv, TypeOK
<1>4. CASE \/ \E s \in Sess : CloseSocket(s) \/ KeepSession(s)
           \/ BeginUpdateSessions \/ EndAdd \/ EndUpdateSessions \/ KickAll
           \/ \E l \in Limits : SetPlayerAmountLimit(l)
           \/ UNCHANGED vars
  BY <1>4 DEF CloseSocket, KeepSession, BeginUpdateSessions, EndAdd, EndUpdateSessions,
              KickAll, SetPlayerAmountLimit, vars, netVars
<1> QED
  BY <1>1, <1>2, <1>3, <1>4 DEF Next, Network, UpdateSessions, Stopped

\* Nobody is kept waiting by a place that falls free: while somebody waits, only
\* a change of the limit adds free places.
THEOREM PlacesGivenOn == Spec => NoFreePlaceWhileWaiting
<1>1. IInv /\ IInv' /\ [Next]_vars =>
        [(m_QueuedPlayer' # <<>> /\ m_playerLimit' = m_playerLimit) => FreePlaces' <= FreePlaces]_vars
  BY StepCounts, FreePlacesFall
<1> QED
  BY <1>1, Invariance, PTL DEF Spec, NoFreePlaceWhileWaiting

\* PlayerLimit is kept: when nobody is let in as recently disconnected, only a
\* change of the limit brings more players over it.
THEOREM LimitOnlyLowered == Spec => LimitKept
<1>1. IInv /\ IInv' /\ [Next]_vars =>
        [(m_playerLimit > 0 /\ m_playerLimit' = m_playerLimit /\ m_disconnects = {} /\ ~stopping')
           => Excess' <= Excess]_vars
  BY StepCounts, AccountFixed, ExcessFalls
<1> QED
  BY <1>1, Invariance, PTL DEF Spec, LimitKept
=============================================================================
