---------------------------- MODULE SessionProofs ----------------------------
(***************************************************************************)
(* Proofs about a WorldSession: about its packets (SessionPackets), for    *)
(* any bound on those waiting and any number of logins; and about its      *)
(* socket and its deletion (WorldSocketLife), for any number of map        *)
(* threads and any bound on the waiting packets.                           *)
(***************************************************************************)
EXTENDS SessionPackets, WorldSocketLife, FiniteSetTheorems, TLAPS

-----------------------------------------------------------------------------
(* The packets: SessionPackets                                              *)

Distinct(q) == \A j, k \in 1..Len(q) : j # k => q[j] # q[k]

\* x stands in front of y.
Before(q, x, y) == \E j, k \in 1..Len(q) : j < k /\ q[j] = x /\ q[k] = y

\* The packet in the handler and those in the queue behind it.
Line == IF cur = None THEN recvQueue ELSE <<cur>> \o recvQueue
Pending == Elements(Line)

\* The packets that are not deleted are those in line, each once.
Owned ==
  /\ Distinct(Line) /\ Pending = allocated
  /\ Distinct(arrived) /\ Elements(arrived) = allocated
  /\ cur # None => updater \in {"world", "map"}

\* The packets this Update has put back wait behind firstDelayedPacket.
DelayedBehind ==
  updater # "gone" =>
    /\ again \subseteq Elements(recvQueue)
    /\ IF again = {} THEN firstDelayedPacket = None ELSE firstDelayedPacket \in again
    /\ \A p \in again : p = firstDelayedPacket \/ Before(recvQueue, firstDelayedPacket, p)

\* A packet never put back is in front of all that came later.
OrderKept ==
  \A x, y \in Pending : (Before(arrived, x, y) /\ x \notin delayed) => Before(Line, x, y)

Login(p) == op[p] = "CMSG_PLAYER_LOGIN"
Enum(p) == op[p] = "CMSG_CHAR_ENUM"

\* A packet the client sent in the game of a character it has left.
Stale(p) == op[p] \notin Authed /\ (char[p] < logins \/ screen # "game")

\* Between a logout and the next login.
NoPlayer == player = "none" /\ loading = 0 /\ ~logoutComplete

\* The login in line is the last one, and nothing has come of it.
LoginPending ==
  \A p \in Pending :
    /\ char[p] <= logins
    /\ Login(p) => /\ char[p] = logins /\ screen = "game" /\ NoPlayer
                   /\ \A q \in Pending : Login(q) => q = p

\* Until the server has seen the request that ends the last game, it remembers the
\* logout; that request is in front of the next login.
EnumPending ==
  \A p \in Pending : Enum(p) =>
    /\ m_playerRecentlyLogout /\ screen # "left" /\ NoPlayer
    /\ \A q \in Pending : Enum(q) => q = p
    /\ \A q \in Pending : Login(q) => Before(Line, p, q)

\* Stale packets are in front of that request.
StalePending ==
  \A p \in Pending : Stale(p) =>
    screen = "left" \/ \E q \in Pending : Enum(q) /\ Before(Line, p, q)

\* How far the session is with the last login of the client.
Stage ==
  /\ screen # "game" => NoPlayer
  /\ screen = "left" => m_playerRecentlyLogout
  /\ logoutComplete => m_playerRecentlyLogout
  /\ loading # 0 => loading = logins /\ player = "none" /\ ~logoutComplete
  /\ player # "none" => playerChar = logins /\ ~logoutComplete
  /\ m_inQueue => ~m_playerRecentlyLogout /\ NoPlayer
  /\ logoutTime => player # "none"

IInv ==
  /\ TypeOK
  /\ Owned
  /\ DelayedBehind
  /\ OrderKept
  /\ LoginPending
  /\ EnumPending
  /\ StalePending
  /\ Stage

-----------------------------------------------------------------------------
(* Sequences: what the queue holds, and in which order.                     *)

\* Appending x to a queue adds x to its elements and nothing else.
LEMMA AppendElements ==
  ASSUME NEW S, NEW q \in Seq(S), NEW x \in S
  PROVE  LET r == Append(q, x) IN
         /\ r \in Seq(S)
         /\ Len(r) = Len(q) + 1
         /\ \A k \in 1..Len(q) : r[k] = q[k]
         /\ Elements(r) = Elements(q) \cup {x}
         /\ Distinct(q) /\ x \notin Elements(q) => Distinct(r)
<1> DEFINE r == Append(q, x)
<1>1. /\ r \in Seq(S)
      /\ Len(r) = Len(q) + 1
      /\ r[Len(q) + 1] = x
      /\ \A k \in 1..Len(q) : r[k] = q[k]
  OBVIOUS
<1>2. Len(q) \in Nat
  OBVIOUS
<1> HIDE DEF r
<1>3. 1..Len(r) = (1..Len(q)) \cup {Len(q) + 1}
  BY <1>1, <1>2
<1>4. Elements(r) = Elements(q) \cup {x}
  BY <1>1, <1>3 DEF Elements
<1>5. ASSUME Distinct(q), x \notin Elements(q)
      PROVE  Distinct(r)
  BY <1>1, <1>3, <1>5 DEF Distinct, Elements
<1> QED
  BY <1>1, <1>4, <1>5 DEF r

\* Taking the head of a queue removes that element.
LEMMA TailElements ==
  ASSUME NEW S, NEW q \in Seq(S), q # <<>>
  PROVE  LET r == Tail(q) IN
         /\ r \in Seq(S)
         /\ Head(q) \in S
         /\ Head(q) = q[1]
         /\ Len(r) = Len(q) - 1
         /\ \A k \in 1..Len(r) : r[k] = q[k + 1]
         /\ Elements(q) = Elements(r) \cup {Head(q)}
         /\ Distinct(q) => Distinct(r) /\ Head(q) \notin Elements(r)
<1> DEFINE r == Tail(q)
<1>1. /\ r \in Seq(S)
      /\ Len(r) = Len(q) - 1
      /\ Head(q) = q[1]
      /\ \A k \in 1..Len(r) : r[k] = q[k + 1]
      /\ Len(q) \in Nat \ {0}
      /\ Head(q) \in S
  OBVIOUS
<1> HIDE DEF r
<1>2. \A k \in 1..Len(q) : k = 1 \/ (k - 1 \in 1..Len(r) /\ (k - 1) + 1 = k)
  BY <1>1
<1>3. \A k \in 1..Len(r) : k + 1 \in 1..Len(q) /\ k + 1 # 1
  BY <1>1
<1>4. 1 \in 1..Len(q)
  BY <1>1
<1>5. Elements(q) \subseteq Elements(r) \cup {Head(q)}
  <2> SUFFICES ASSUME NEW k \in 1..Len(q), k # 1
               PROVE  q[k] \in Elements(r)
    BY <1>1 DEF Elements
  <2>1. k - 1 \in 1..Len(r) /\ r[k - 1] = q[k]
    BY <1>1, <1>2
  <2> QED
    BY <2>1 DEF Elements
<1>6. Elements(r) \cup {Head(q)} \subseteq Elements(q)
  BY <1>1, <1>3, <1>4 DEF Elements
<1>7. ASSUME Distinct(q)
      PROVE  Distinct(r) /\ Head(q) \notin Elements(r)
  BY <1>1, <1>3, <1>4, <1>7 DEF Distinct, Elements
<1> QED
  BY <1>1, <1>5, <1>6, <1>7 DEF r

\* A queue without repetitions is as long as the set it holds is large.
LEMMA DistinctCardinality ==
  ASSUME NEW S, NEW q \in Seq(S), Distinct(q)
  PROVE  IsFiniteSet(Elements(q)) /\ Cardinality(Elements(q)) = Len(q)
<1> DEFINE f == [k \in 1..Len(q) |-> q[k]]
<1>1. Len(q) \in Nat
  OBVIOUS
<1>2. f \in Bijection(1..Len(q), Elements(q))
  BY DEF Distinct, Elements, Bijection, Injection, Surjection, IsInjective
<1>3. ExistsBijection(1..Len(q), Elements(q))
  BY <1>2 DEF ExistsBijection
<1> QED
  BY <1>1, <1>3, FS_CountingElements, FS_NatBijection

\* RemoveFirst leaves a queue alone that does not hold s.
LEMMA RemoveAbsent ==
  ASSUME NEW q, NEW s, s \notin Elements(q)
  PROVE  RemoveFirst(q, s) = q
BY DEF RemoveFirst, Elements

\* RemoveFirst takes the element out at the first place that holds s.
LEMMA RemovePresent ==
  ASSUME NEW S, NEW q \in Seq(S), NEW s, NEW i \in 1..Len(q), q[i] = s,
         \A j \in 1..Len(q) : q[j] = s => i <= j
  PROVE  LET r == RemoveFirst(q, s) IN
         /\ r \in Seq(S)
         /\ Len(r) = Len(q) - 1
         /\ \A k \in 1..Len(r) : r[k] = IF k < i THEN q[k] ELSE q[k + 1]
<1> DEFINE I == {j \in 1..Len(q) : q[j] = s}
           m == CHOOSE x \in I : \A y \in I : x =< y
<1>1. i \in I /\ \A j \in I : i =< j
  OBVIOUS
<1>2. m \in I /\ \A y \in I : m =< y
  <2> HIDE DEF I
  <2> QED
    BY <1>1
<1>3. m = i
  <2> HIDE DEF m
  <2> QED
    BY <1>1, <1>2
<1>4. Min(I) = m
  BY Zenon DEF Min
<1>5. RemoveFirst(q, s) = RemoveAt(q, IF I # {} THEN Min(I) ELSE 0)
  BY Zenon DEF RemoveFirst, SelectInSeq
<1>6. (IF I # {} THEN Min(I) ELSE 0) = i
  BY <1>1, <1>3, <1>4
<1>7. RemoveFirst(q, s) = SubSeq(q, 1, i - 1) \o SubSeq(q, i + 1, Len(q))
  BY <1>5, <1>6 DEF RemoveAt
<1> DEFINE front == SubSeq(q, 1, i - 1)
           back == SubSeq(q, i + 1, Len(q))
<1>8. Len(q) \in Nat /\ i \in Nat /\ i >= 1 /\ i <= Len(q)
  OBVIOUS
<1>9. front \in Seq(S) /\ Len(front) = i - 1 /\ \A k \in 1..Len(front) : front[k] = q[k]
  BY <1>8
<1>10. back \in Seq(S) /\ Len(back) = Len(q) - i
  BY <1>8
<1>11. \A k \in 1..Len(back) : back[k] = q[i + k]
  BY <1>8
<1> DEFINE r == front \o back
<1> HIDE DEF front, back
<1>12. r \in Seq(S) /\ Len(r) = Len(front) + Len(back)
  BY <1>9, <1>10
<1>13. \A k \in 1..Len(r) : r[k] = IF k <= Len(front) THEN front[k] ELSE back[k - Len(front)]
  BY <1>9, <1>10, <1>12
<1>14. r = RemoveFirst(q, s)
  BY <1>7 DEF front, back
<1> HIDE DEF r
<1>15. Len(r) = Len(q) - 1
  BY <1>8, <1>9, <1>10, <1>12
<1>16. \A k \in 1..Len(r) : r[k] = IF k < i THEN q[k] ELSE q[k + 1]
  <2> SUFFICES ASSUME NEW k \in 1..Len(r) PROVE r[k] = IF k < i THEN q[k] ELSE q[k + 1]
    OBVIOUS
  <2>1. CASE k < i
    <3>1. k \in 1..Len(front)
      BY <2>1, <1>8, <1>9
    <3> QED
      BY <3>1, <2>1, <1>9, <1>13
  <2>2. CASE ~(k < i)
    <3>1. k - Len(front) \in 1..Len(back) /\ i + (k - Len(front)) = k + 1 /\ ~(k <= Len(front))
      BY <2>2, <1>8, <1>9, <1>10, <1>15
    <3>2. back[k - Len(front)] = q[k + 1]
      BY <3>1, <1>11
    <3> QED
      BY <3>1, <3>2, <2>2, <1>13
  <2> QED
    BY <2>1, <2>2
<1> QED
  BY <1>12, <1>14, <1>15, <1>16

\* x is in front of the head of no queue, and of y or the other way round, not both.
LEMMA BeforeHead ==
  ASSUME NEW S, NEW q \in Seq(S), Distinct(q), NEW x, NEW y
  PROVE  /\ Before(q, x, y) => x # y /\ x \in Elements(q) /\ y \in Elements(q)
         /\ ~(Before(q, x, y) /\ Before(q, y, x))
         /\ q # <<>> => ~Before(q, x, Head(q))
<1>1. Len(q) \in Nat /\ (q # <<>> => Head(q) = q[1] /\ Len(q) # 0)
  OBVIOUS
<1>2. \A j, k \in 1..Len(q) : q[j] = q[k] => j = k
  BY DEF Distinct
<1>3. Before(q, x, y) => x # y /\ x \in Elements(q) /\ y \in Elements(q)
  BY <1>1, <1>2 DEF Before, Elements
<1>4. ~(Before(q, x, y) /\ Before(q, y, x))
  BY <1>1, <1>2 DEF Before
<1>5. q # <<>> => ~Before(q, x, Head(q))
  BY <1>1, <1>2 DEF Before
<1> QED
  BY <1>3, <1>4, <1>5

\* The order of a queue to which p is appended.
LEMMA BeforeAppend ==
  ASSUME NEW S, NEW q \in Seq(S), NEW p \in S, NEW x, NEW y
  PROVE  Before(Append(q, p), x, y) <=> (Before(q, x, y) \/ (x \in Elements(q) /\ y = p))
<1> DEFINE r == Append(q, p)
<1>1. Len(r) = Len(q) + 1 /\ r[Len(q) + 1] = p /\ \A k \in 1..Len(q) : r[k] = q[k]
  OBVIOUS
<1>2. Len(q) \in Nat
  OBVIOUS
<1> HIDE DEF r
<1>3. 1..Len(r) = (1..Len(q)) \cup {Len(q) + 1}
  BY <1>1, <1>2
<1>4. Before(r, x, y) => (Before(q, x, y) \/ (x \in Elements(q) /\ y = p))
  <2> SUFFICES ASSUME NEW j \in 1..Len(r), NEW k \in 1..Len(r), j < k, r[j] = x, r[k] = y
               PROVE  Before(q, x, y) \/ (x \in Elements(q) /\ y = p)
    BY DEF Before
  <2>1. j \in 1..Len(q) /\ q[j] = x
    BY <1>1, <1>2, <1>3
  <2> QED
    BY <1>1, <1>3, <2>1 DEF Before, Elements
<1>5. Before(q, x, y) => Before(r, x, y)
  BY <1>1, <1>3 DEF Before
<1>6. x \in Elements(q) /\ y = p => Before(r, x, y)
  <2> SUFFICES ASSUME NEW j \in 1..Len(q), q[j] = x, y = p PROVE Before(r, x, y)
    BY DEF Elements
  <2>1. j \in 1..Len(r) /\ Len(q) + 1 \in 1..Len(r) /\ j < Len(q) + 1
    BY <1>1, <1>2
  <2> QED
    BY <1>1, <2>1 DEF Before
<1> QED
  BY <1>4, <1>5, <1>6 DEF r

\* The order of a queue whose head is taken.
LEMMA BeforeTail ==
  ASSUME NEW S, NEW q \in Seq(S), q # <<>>, Distinct(q), NEW x, NEW y
  PROVE  Before(Tail(q), x, y) <=> (Before(q, x, y) /\ x # Head(q))
<1> DEFINE r == Tail(q)
<1>1. /\ Head(q) = q[1]
      /\ Len(r) = Len(q) - 1
      /\ \A k \in 1..Len(r) : r[k] = q[k + 1]
      /\ Len(q) \in Nat \ {0}
  OBVIOUS
<1> HIDE DEF r
<1>2. \A j, k \in 1..Len(q) : q[j] = q[k] => j = k
  BY DEF Distinct
<1>3. \A k \in 1..Len(r) : k + 1 \in 1..Len(q) /\ k + 1 # 1
  BY <1>1
<1>4. ASSUME Before(r, x, y)
      PROVE  Before(q, x, y) /\ x # Head(q)
  <2>1. PICK j \in 1..Len(r), k \in 1..Len(r) : j < k /\ r[j] = x /\ r[k] = y
    BY <1>4 DEF Before
  <2>2. j + 1 \in 1..Len(q) /\ k + 1 \in 1..Len(q) /\ j + 1 < k + 1 /\ q[j + 1] = x /\ q[k + 1] = y
        /\ j + 1 # 1 /\ 1 \in 1..Len(q)
    BY <1>1, <2>1
  <2> QED
    BY <1>1, <1>2, <2>2 DEF Before
<1>5. ASSUME Before(q, x, y), x # Head(q)
      PROVE  Before(r, x, y)
  <2>1. PICK j \in 1..Len(q), k \in 1..Len(q) : j < k /\ q[j] = x /\ q[k] = y
    BY <1>5 DEF Before
  <2>2. j # 1
    BY <1>1, <1>5, <2>1
  <2>3. j - 1 \in 1..Len(r) /\ k - 1 \in 1..Len(r) /\ j - 1 < k - 1
        /\ (j - 1) + 1 = j /\ (k - 1) + 1 = k
    BY <1>1, <2>1, <2>2
  <2>4. r[j - 1] = x /\ r[k - 1] = y
    BY <1>1, <2>1, <2>3
  <2> QED
    BY <2>3, <2>4 DEF Before
<1> QED
  BY <1>4, <1>5 DEF r

\* The elements and the order of a queue without s.
LEMMA BeforeRemove ==
  ASSUME NEW S, NEW q \in Seq(S), Distinct(q), NEW s
  PROVE  LET r == RemoveFirst(q, s) IN
         /\ r \in Seq(S) /\ Distinct(r) /\ Elements(r) = Elements(q) \ {s}
         /\ \A x, y : Before(r, x, y) => Before(q, x, y)
<1> DEFINE r == RemoveFirst(q, s)
<1>1. CASE s \notin Elements(q)
  BY <1>1, RemoveAbsent
<1>2. CASE s \in Elements(q)
  <2>1. PICK i \in 1..Len(q) : q[i] = s
    BY <1>2 DEF Elements
  <2>2. \A j \in 1..Len(q) : q[j] = s => i = j
    BY <2>1 DEF Distinct
  <2>3. /\ r \in Seq(S)
        /\ Len(r) = Len(q) - 1
        /\ \A k \in 1..Len(r) : r[k] = IF k < i THEN q[k] ELSE q[k + 1]
    BY <2>1, <2>2, RemovePresent
  <2> HIDE DEF r
  <2>4. Len(q) \in Nat /\ i \in Nat
    BY <2>1
  <2> DEFINE at(k) == IF k < i THEN k ELSE k + 1
  <2>5. \A k \in 1..Len(r) : at(k) \in 1..Len(q) /\ at(k) # i /\ r[k] = q[at(k)]
    BY <2>1, <2>3, <2>4
  <2>6. \A j \in 1..Len(q) : j # i => \E k \in 1..Len(r) : at(k) = j
    <3> SUFFICES ASSUME NEW j \in 1..Len(q), j # i
                 PROVE  \E k \in 1..Len(r) : at(k) = j
      OBVIOUS
    <3>1. CASE j < i
      BY <2>1, <2>3, <2>4, <3>1
    <3>2. CASE j > i
      <4>1. j - 1 \in 1..Len(r) /\ at(j - 1) = j
        BY <2>1, <2>3, <2>4, <3>2
      <4> QED
        BY <4>1
    <3> QED
      BY <2>4, <3>1, <3>2
  <2>7. \A k, l \in 1..Len(r) : (at(k) = at(l) => k = l) /\ (k < l => at(k) < at(l))
    BY <2>3, <2>4
  <2> HIDE DEF at
  <2>8. Distinct(r)
    BY <2>5, <2>7 DEF Distinct
  <2>9. Elements(r) = Elements(q) \ {s}
    <3>1. Elements(r) \subseteq Elements(q) \ {s}
      BY <2>2, <2>5 DEF Elements
    <3>2. Elements(q) \ {s} \subseteq Elements(r)
      BY <2>1, <2>5, <2>6 DEF Elements
    <3> QED
      BY <3>1, <3>2
  <2>10. ASSUME NEW x, NEW y, Before(r, x, y)
         PROVE  Before(q, x, y)
    BY <2>5, <2>7, <2>10 DEF Before
  <2> QED
    BY <2>3, <2>8, <2>9, <2>10 DEF r
<1> QED
  BY <1>1, <1>2

-----------------------------------------------------------------------------
(* The line of packets                                                      *)

\* The packet in the handler is the head of the line, the queue the rest.
LEMMA LineParts ==
  ASSUME TypeOK, Owned
  PROVE  /\ Line \in Seq(Packets) /\ recvQueue \in Seq(Packets)
         /\ Distinct(recvQueue) /\ cur \notin Elements(recvQueue)
         /\ cur = None => Line = recvQueue
         /\ cur # None => /\ cur \in Packets /\ Line # <<>> /\ Head(Line) = cur
                          /\ Tail(Line) = recvQueue
                          /\ Pending = Elements(recvQueue) \cup {cur}
<1>1. recvQueue \in Seq(Packets) /\ cur \in Packets \cup {None} /\ Distinct(Line)
      /\ None \notin Packets
  BY PacketsAssumption DEF TypeOK, Owned
<1>2. CASE cur = None
  <2>1. Line = recvQueue
    BY <1>2 DEF Line
  <2>2. None \notin Elements(recvQueue)
    BY <1>1 DEF Elements
  <2> QED
    BY <1>1, <1>2, <2>1, <2>2
<1>3. CASE cur # None
  <2>1. Line = <<cur>> \o recvQueue
    BY <1>3 DEF Line
  <2>2. /\ Line \in Seq(Packets) /\ Line # <<>> /\ Head(Line) = cur /\ Tail(Line) = recvQueue
    BY <1>1, <1>3, <2>1
  <2>3. /\ Pending = Elements(recvQueue) \cup {cur} /\ Distinct(recvQueue)
        /\ cur \notin Elements(recvQueue)
    BY <1>1, <2>2, TailElements DEF Pending
  <2> QED
    BY <1>1, <1>3, <2>2, <2>3
<1> QED
  BY <1>2, <1>3

\* A new packet is behind all others.
LEMMA LineSend ==
  ASSUME TypeOK, Owned, NEW p \in Packets \ allocated,
         recvQueue' = Append(recvQueue, p), cur' = cur
  PROVE  /\ Line' \in Seq(Packets) /\ Distinct(Line') /\ Pending' = Pending \cup {p}
         /\ \A x, y : Before(Line', x, y) <=> (Before(Line, x, y) \/ (x \in Pending /\ y = p))
<1>1. Line \in Seq(Packets) /\ Distinct(Line) /\ p \notin Elements(Line) /\ recvQueue \in Seq(Packets)
      /\ cur \in Packets \cup {None}
  BY LineParts DEF Owned, Pending, TypeOK
<1>2. Line' = Append(Line, p)
  <2>1. CASE cur = None
    BY <2>1 DEF Line
  <2>2. CASE cur # None
    <3>1. Line' = <<cur>> \o Append(recvQueue, p) /\ Line = <<cur>> \o recvQueue
      BY <2>2 DEF Line
    <3>2. <<cur>> \o Append(recvQueue, p) = Append(<<cur>> \o recvQueue, p)
      BY <1>1, <2>2
    <3> QED
      BY <3>1, <3>2
  <2> QED
    BY <2>1, <2>2
<1>3. /\ Line' \in Seq(Packets) /\ Distinct(Line') /\ Pending' = Pending \cup {p}
  BY <1>1, <1>2, AppendElements DEF Pending
<1>4. \A x, y : Before(Line', x, y) <=> (Before(Line, x, y) \/ (x \in Pending /\ y = p))
  BY <1>1, <1>2, BeforeAppend DEF Pending
<1> QED
  BY <1>3, <1>4

\* Taking the first packet out of the queue leaves it the first in line.
LEMMA LineNext ==
  ASSUME TypeOK, Owned, cur = None, recvQueue # <<>>,
         recvQueue' = Tail(recvQueue), cur' = Head(recvQueue)
  PROVE  Line' = Line
<1>1. recvQueue \in Seq(Packets) /\ Head(recvQueue) \in Packets /\ None \notin Packets
  BY PacketsAssumption, TailElements DEF TypeOK
<1>2. Line' = <<Head(recvQueue)>> \o Tail(recvQueue) /\ Line = recvQueue
  BY <1>1 DEF Line
<1> QED
  BY <1>1, <1>2

\* A packet that is consumed leaves the line from its head.
LEMMA LineConsume ==
  ASSUME TypeOK, Owned, cur # None, recvQueue' = recvQueue, cur' = None
  PROVE  /\ Line' \in Seq(Packets) /\ Distinct(Line')
         /\ cur \in Pending /\ Pending' = Pending \ {cur}
         /\ \A x, y : Before(Line', x, y) <=> (Before(Line, x, y) /\ x # cur)
         /\ \A x : ~Before(Line, x, cur)
<1>1. /\ Line \in Seq(Packets) /\ Distinct(Line) /\ Line # <<>> /\ Head(Line) = cur
      /\ Line' = Tail(Line)
  <2>1. Line' = recvQueue
    BY DEF Line
  <2> QED
    BY <2>1, LineParts DEF Owned
<1>2. /\ Line' \in Seq(Packets) /\ Distinct(Line')
      /\ cur \in Pending /\ Pending' = Pending \ {cur}
  BY <1>1, TailElements DEF Pending
<1>3. \A x, y : Before(Line', x, y) <=> (Before(Line, x, y) /\ x # cur)
  BY <1>1, BeforeTail
<1>4. \A x : ~Before(Line, x, cur)
  BY <1>1, BeforeHead
<1> QED
  BY <1>2, <1>3, <1>4

\* A packet that is put back goes from the head of the line to its end.
LEMMA LineDelay ==
  ASSUME TypeOK, Owned, cur # None, recvQueue' = Append(recvQueue, cur), cur' = None
  PROVE  /\ Line' \in Seq(Packets) /\ Distinct(Line') /\ Pending' = Pending /\ cur \in Pending
         /\ \A x, y : Before(Line', x, y) <=>
              ((Before(Line, x, y) /\ x # cur) \/ (x \in Pending \ {cur} /\ y = cur))
         /\ \A x : ~Before(Line, x, cur)
<1>1. /\ Line \in Seq(Packets) /\ Distinct(Line) /\ Line # <<>> /\ Head(Line) = cur
      /\ Tail(Line) = recvQueue /\ cur \in Packets /\ recvQueue \in Seq(Packets)
      /\ Distinct(recvQueue) /\ cur \notin Elements(recvQueue)
      /\ Pending = Elements(recvQueue) \cup {cur}
  BY LineParts DEF Owned
<1>2. Line' = Append(recvQueue, cur)
  BY DEF Line
<1>3. /\ Line' \in Seq(Packets) /\ Distinct(Line') /\ Pending' = Pending
  BY <1>1, <1>2, AppendElements DEF Pending
<1>4. \A x, y : Before(Line', x, y) <=> (Before(recvQueue, x, y) \/ (x \in Elements(recvQueue) /\ y = cur))
  BY <1>1, <1>2, BeforeAppend
<1>5. \A x, y : Before(recvQueue, x, y) <=> (Before(Line, x, y) /\ x # cur)
  BY <1>1, BeforeTail
<1>6. \A x : ~Before(Line, x, cur)
  BY <1>1, BeforeHead
<1> QED
  BY <1>1, <1>3, <1>4, <1>5, <1>6

-----------------------------------------------------------------------------
(* Who is in line: Owned, DelayedBehind and OrderKept                       *)

QueueKept == Owned /\ DelayedBehind /\ OrderKept

\* The network thread queues a packet.
LEMMA SendQueue ==
  ASSUME IInv, NEW p \in Packets, NEW o, NEW c, QueuePacket(p, o, c)
  PROVE  /\ QueueKept' /\ recvQueue' \in Seq(Packets) /\ arrived' \in Seq(Packets)
         /\ p \notin Pending /\ Pending' = Pending \cup {p}
         /\ \A x, y : Before(Line', x, y) <=> (Before(Line, x, y) \/ (x \in Pending /\ y = p))
<1>1. /\ p \notin allocated /\ updater # "gone"
      /\ allocated' = allocated \cup {p}
      /\ recvQueue' = Append(recvQueue, p) /\ arrived' = Append(arrived, p)
      /\ delayed' = delayed /\ again' = again
      /\ updater' = updater /\ cur' = cur /\ firstDelayedPacket' = firstDelayedPacket
  BY DEF QueuePacket, loopVars
<1>2. /\ TypeOK /\ Owned /\ recvQueue \in Seq(Packets) /\ arrived \in Seq(Packets)
      /\ Distinct(arrived) /\ Elements(arrived) = allocated /\ Pending = allocated
  BY DEF IInv, TypeOK, Owned
<1>3. /\ Line' \in Seq(Packets) /\ Distinct(Line') /\ Pending' = Pending \cup {p}
      /\ \A x, y : Before(Line', x, y) <=> (Before(Line, x, y) \/ (x \in Pending /\ y = p))
  BY <1>1, <1>2, LineSend
<1>4. /\ arrived' \in Seq(Packets) /\ Distinct(arrived')
      /\ Elements(arrived') = allocated \cup {p}
  BY <1>1, <1>2, AppendElements
<1>5. \A x, y : Before(arrived', x, y) <=> (Before(arrived, x, y) \/ (x \in Elements(arrived) /\ y = p))
  BY <1>1, <1>2, BeforeAppend
<1>6. /\ recvQueue' \in Seq(Packets)
      /\ Elements(recvQueue') = Elements(recvQueue) \cup {p}
  BY <1>1, <1>2, AppendElements
<1>7. \A x, y : Before(recvQueue', x, y) <=> (Before(recvQueue, x, y) \/ (x \in Elements(recvQueue) /\ y = p))
  BY <1>1, <1>2, BeforeAppend
<1>8. Owned'
  BY <1>1, <1>2, <1>3, <1>4 DEF Owned
<1>9. DelayedBehind'
  BY <1>1, <1>6, <1>7 DEF IInv, DelayedBehind
<1>10. OrderKept'
  <2> SUFFICES ASSUME NEW x \in Pending', NEW y \in Pending', Before(arrived', x, y), x \notin delayed'
               PROVE  Before(Line', x, y)
    BY DEF OrderKept
  <2>1. CASE Before(arrived, x, y)
    <3>1. x \in Pending /\ y \in Pending
      BY <1>2, <2>1, BeforeHead
    <3> QED
      BY <1>1, <1>3, <2>1, <3>1 DEF IInv, OrderKept
  <2>2. CASE x \in Elements(arrived) /\ y = p
    BY <1>2, <1>3, <2>2
  <2> QED
    BY <1>5, <2>1, <2>2
<1> QED
  BY <1>1, <1>2, <1>3, <1>4, <1>6, <1>8, <1>9, <1>10 DEF QueueKept

\* Steps that leave the queue and the handler's packet alone.
LEMMA StillQueue ==
  ASSUME IInv,
         recvQueue' = recvQueue, cur' = cur, allocated' = allocated, arrived' = arrived,
         delayed' = delayed,
         \/ again' = again /\ firstDelayedPacket' = firstDelayedPacket
         \/ again' = {} /\ firstDelayedPacket' = None,
         cur # None => updater' \in {"world", "map"},
         updater = "gone" => updater' = "gone"
  PROVE  QueueKept' /\ Line' = Line /\ Pending' = Pending
<1>1. Line' = Line /\ Pending' = Pending
  BY DEF Line, Pending
<1>2. Owned'
  BY <1>1 DEF IInv, Owned
<1>3. DelayedBehind'
  BY DEF IInv, DelayedBehind
<1>4. OrderKept'
  BY <1>1 DEF IInv, OrderKept
<1> QED
  BY <1>1, <1>2, <1>3, <1>4 DEF QueueKept

\* next() takes the first packet, which this Update has not put back.
LEMMA NextQueue ==
  ASSUME IInv, NextPacket
  PROVE  /\ QueueKept' /\ Line' = Line /\ Pending' = Pending
         /\ recvQueue' \in Seq(Packets) /\ cur' \in Packets
<1>1. /\ updater \in {"world", "map"} /\ cur = None /\ recvQueue # <<>>
      /\ Head(recvQueue) # firstDelayedPacket
      /\ cur' = Head(recvQueue) /\ recvQueue' = Tail(recvQueue)
      /\ allocated' = allocated /\ arrived' = arrived /\ delayed' = delayed /\ again' = again
      /\ updater' = updater /\ firstDelayedPacket' = firstDelayedPacket
  BY DEF NextPacket, LoopGoesOn
<1>2. TypeOK /\ Owned /\ recvQueue \in Seq(Packets) /\ Distinct(recvQueue)
  BY LineParts DEF IInv
<1>3. Line' = Line /\ Pending' = Pending
  BY <1>1, <1>2, LineNext DEF Pending
<1>4. /\ recvQueue' \in Seq(Packets) /\ cur' \in Packets
      /\ Elements(recvQueue) = Elements(recvQueue') \cup {Head(recvQueue)}
      /\ \A x : ~Before(recvQueue, x, Head(recvQueue))
      /\ \A x, y : Before(recvQueue', x, y) <=> (Before(recvQueue, x, y) /\ x # Head(recvQueue))
  <2>1. /\ recvQueue' \in Seq(Packets) /\ cur' \in Packets
        /\ Elements(recvQueue) = Elements(recvQueue') \cup {Head(recvQueue)}
    BY <1>1, <1>2, TailElements
  <2>2. \A x : ~Before(recvQueue, x, Head(recvQueue))
    BY <1>1, <1>2, BeforeHead
  <2>3. \A x, y : Before(recvQueue', x, y) <=> (Before(recvQueue, x, y) /\ x # Head(recvQueue))
    BY <1>1, <1>2, BeforeTail
  <2> QED
    BY <2>1, <2>2, <2>3
<1>5. Owned'
  BY <1>1, <1>3 DEF IInv, Owned
<1>6. DelayedBehind'
  <2>1. Head(recvQueue) \notin again
    BY <1>1, <1>4 DEF IInv, DelayedBehind
  <2> QED
    BY <1>1, <1>4, <2>1 DEF IInv, DelayedBehind
<1>7. OrderKept'
  BY <1>1, <1>3 DEF IInv, OrderKept
<1> QED
  BY <1>3, <1>4, <1>5, <1>6, <1>7 DEF QueueKept

\* A packet is put back at the end of the queue.
LEMMA DelayQueue ==
  ASSUME IInv, DelayPacket
  PROVE  /\ QueueKept' /\ recvQueue' \in Seq(Packets)
         /\ cur \in Packets /\ cur \in Pending /\ Pending' = Pending
         /\ \A x, y : Before(Line', x, y) <=>
              ((Before(Line, x, y) /\ x # cur) \/ (x \in Pending \ {cur} /\ y = cur))
         /\ \A x : ~Before(Line, x, cur)
<1>1. /\ cur # None /\ cur' = None /\ recvQueue' = Append(recvQueue, cur)
      /\ firstDelayedPacket' = IF firstDelayedPacket = None THEN cur ELSE firstDelayedPacket
      /\ delayed' = delayed \cup {cur} /\ again' = again \cup {cur}
      /\ allocated' = allocated /\ arrived' = arrived /\ updater' = updater
  BY DEF DelayPacket
<1>2. TypeOK /\ Owned /\ recvQueue \in Seq(Packets) /\ Distinct(recvQueue) /\ cur \in Packets
  BY <1>1, LineParts DEF IInv
<1>3. /\ Line' \in Seq(Packets) /\ Distinct(Line') /\ Pending' = Pending /\ cur \in Pending
      /\ \A x, y : Before(Line', x, y) <=>
           ((Before(Line, x, y) /\ x # cur) \/ (x \in Pending \ {cur} /\ y = cur))
      /\ \A x : ~Before(Line, x, cur)
  BY <1>1, <1>2, LineDelay
<1>4. /\ recvQueue' \in Seq(Packets)
      /\ Elements(recvQueue') = Elements(recvQueue) \cup {cur}
  BY <1>1, <1>2, AppendElements
<1>5. \A x, y : Before(recvQueue', x, y) <=> (Before(recvQueue, x, y) \/ (x \in Elements(recvQueue) /\ y = cur))
  BY <1>1, <1>2, BeforeAppend
<1>6. Owned'
  BY <1>1, <1>3 DEF IInv, Owned
<1>7. DelayedBehind'
  <2> SUFFICES ASSUME updater # "gone" PROVE DelayedBehind'
    BY <1>1 DEF DelayedBehind
  <2>1. CASE again = {}
    <3>1. firstDelayedPacket' = cur /\ again' = {cur}
      BY <1>1, <2>1 DEF IInv, DelayedBehind
    <3> QED
      BY <1>1, <1>4, <3>1 DEF DelayedBehind
  <2>2. CASE again # {}
    <3>1. /\ firstDelayedPacket \in again /\ again \subseteq Elements(recvQueue)
          /\ \A p \in again : p = firstDelayedPacket \/ Before(recvQueue, firstDelayedPacket, p)
      BY <2>2 DEF IInv, DelayedBehind
    <3>2. firstDelayedPacket # None
      BY <3>1, PacketsAssumption DEF IInv, TypeOK
    <3>3. firstDelayedPacket' = firstDelayedPacket
      BY <1>1, <3>2
    <3> QED
      BY <1>1, <1>4, <1>5, <3>1, <3>3 DEF DelayedBehind
  <2> QED
    BY <2>1, <2>2
<1>8. OrderKept'
  <2> SUFFICES ASSUME NEW x \in Pending', NEW y \in Pending', Before(arrived', x, y), x \notin delayed'
               PROVE  Before(Line', x, y)
    BY DEF OrderKept
  <2>1. x \notin delayed /\ x # cur /\ Before(Line, x, y)
    BY <1>1, <1>3 DEF IInv, OrderKept
  <2> QED
    BY <1>3, <2>1
<1> QED
  BY <1>2, <1>3, <1>4, <1>6, <1>7, <1>8 DEF QueueKept

\* A packet that is consumed is in line no more, and neither is anything that came
\* before it and was never put back.
LEMMA ConsumeQueue ==
  ASSUME IInv, cur # None, Consume
  PROVE  /\ QueueKept' /\ arrived' \in Seq(Packets)
         /\ cur \in Packets /\ cur \in Pending /\ Pending' = Pending \ {cur}
         /\ Elements(arrived') = Elements(arrived) \ {cur}
         /\ \A x, y : Before(Line', x, y) <=> (Before(Line, x, y) /\ x # cur)
         /\ \A x : ~Before(Line, x, cur)
<1>1. /\ cur' = None /\ recvQueue' = recvQueue /\ allocated' = allocated \ {cur}
      /\ arrived' = RemoveFirst(arrived, cur) /\ delayed' = delayed \ {cur}
      /\ again' = again /\ updater' = updater /\ firstDelayedPacket' = firstDelayedPacket
  BY DEF Consume, Without
<1>2. /\ TypeOK /\ Owned /\ recvQueue \in Seq(Packets) /\ cur \in Packets
      /\ arrived \in Seq(Packets) /\ Distinct(arrived) /\ Elements(arrived) = allocated
      /\ Pending = allocated
  BY LineParts DEF IInv, TypeOK, Owned
<1>3. /\ Line' \in Seq(Packets) /\ Distinct(Line')
      /\ cur \in Pending /\ Pending' = Pending \ {cur}
      /\ \A x, y : Before(Line', x, y) <=> (Before(Line, x, y) /\ x # cur)
      /\ \A x : ~Before(Line, x, cur)
  BY <1>1, <1>2, LineConsume
<1>4. /\ arrived' \in Seq(Packets) /\ Distinct(arrived')
      /\ Elements(arrived') = Elements(arrived) \ {cur}
      /\ \A x, y : Before(arrived', x, y) => Before(arrived, x, y)
  BY <1>1, <1>2, BeforeRemove
<1>5. Owned'
  BY <1>1, <1>2, <1>3, <1>4 DEF Owned
<1>6. DelayedBehind'
  BY <1>1 DEF IInv, DelayedBehind
<1>7. OrderKept'
  <2> SUFFICES ASSUME NEW x \in Pending', NEW y \in Pending', Before(arrived', x, y), x \notin delayed'
               PROVE  Before(Line', x, y)
    BY DEF OrderKept
  <2>1. x \in Pending /\ y \in Pending /\ x \notin delayed /\ x # cur /\ Before(arrived, x, y)
    BY <1>1, <1>3, <1>4
  <2> QED
    BY <1>3, <2>1 DEF IInv, OrderKept
<1> QED
  BY <1>2, <1>3, <1>4, <1>5, <1>6, <1>7 DEF QueueKept

-----------------------------------------------------------------------------
(* What the line means: LoginPending, EnumPending and StalePending          *)

LineMeans == LoginPending /\ EnumPending /\ StalePending

\* The line keeps its meaning when it shrinks from its head, if the session is where
\* the login and the request still in line say it is.
LEMMA LineShrinks ==
  ASSUME IInv, op' = op, char' = char, screen' = screen, logins' = logins,
         Pending' \subseteq Pending,
         \A x, y \in Pending' : Before(Line, x, y) => Before(Line', x, y),
         \A x \in Pending', y \in Pending : Before(Line, x, y) => y \in Pending',
         \A p \in Pending' : Login(p) => NoPlayer',
         \A p \in Pending' : Enum(p) => NoPlayer' /\ m_playerRecentlyLogout'
  PROVE  LineMeans'
<1>1. \A p : (Login(p)' <=> Login(p)) /\ (Enum(p)' <=> Enum(p)) /\ (Stale(p)' <=> Stale(p))
  BY DEF Login, Enum, Stale
<1>2. LoginPending'
  BY <1>1 DEF IInv, LoginPending
<1>3. EnumPending'
  BY <1>1 DEF IInv, EnumPending
<1>4. StalePending'
  BY <1>1 DEF IInv, StalePending
<1> QED
  BY <1>2, <1>3, <1>4 DEF LineMeans

-----------------------------------------------------------------------------
(* The steps                                                                *)

\* The types of the player's part of the session, and of the rest.
PlayerTypes ==
  /\ player \in {"none", "world", "transfer"}
  /\ playerChar \in 0..MaxLogins /\ loading \in 0..MaxLogins
  /\ m_playerRecentlyLogout \in BOOLEAN /\ logoutTime \in BOOLEAN /\ logoutComplete \in BOOLEAN

QueueTypes ==
  /\ recvQueue \in Seq(Packets) /\ arrived \in Seq(Packets)
  /\ allocated \subseteq Packets /\ delayed \subseteq Packets /\ again \subseteq Packets
  /\ op \in [Packets -> Opcodes] /\ char \in [Packets -> 0..MaxLogins]
  /\ cur \in Packets \cup {None} /\ firstDelayedPacket \in Packets \cup {None}

OtherTypes ==
  /\ updater \in {"idle", "world", "logout", "maps", "map", "gone"}
  /\ screen \in {"select", "game", "left"}
  /\ logins \in 0..MaxLogins
  /\ m_inQueue \in BOOLEAN /\ closed \in BOOLEAN

\* TypeOK in parts.
LEMMA Types == TypeOK <=> QueueTypes /\ PlayerTypes /\ OtherTypes
<1>1. {m_playerRecentlyLogout, m_inQueue, logoutTime, closed, logoutComplete} \subseteq BOOLEAN
        <=> /\ m_playerRecentlyLogout \in BOOLEAN /\ m_inQueue \in BOOLEAN
            /\ logoutTime \in BOOLEAN /\ closed \in BOOLEAN /\ logoutComplete \in BOOLEAN
  BY Zenon
<1> QED
  BY <1>1, Zenon DEF TypeOK, QueueTypes, PlayerTypes, OtherTypes

\* IInv in the parts that the lemmas above give.
LEMMA Parts == IInv <=> QueueTypes /\ PlayerTypes /\ OtherTypes /\ QueueKept /\ LineMeans /\ Stage
BY Types, Zenon DEF IInv, QueueKept, LineMeans

\* The same after a step.
LEMMA PartsNext ==
  QueueTypes' /\ PlayerTypes' /\ OtherTypes' /\ QueueKept' /\ LineMeans' /\ Stage' => IInv'
BY Parts, PTL

\* What a new packet is, and that it changes no other one.
LEMMA NewPacket ==
  ASSUME IInv, NEW p \in Packets, NEW o \in Opcodes, NEW c \in 0..MaxLogins, QueuePacket(p, o, c)
  PROVE  /\ QueueTypes'
         /\ op'[p] = o /\ char'[p] = c
         /\ \A x \in Pending : op'[x] = op[x] /\ char'[x] = char[x]
<1>1. /\ p \notin allocated /\ allocated' = allocated \cup {p}
      /\ op' = [op EXCEPT ![p] = o] /\ char' = [char EXCEPT ![p] = c]
      /\ delayed' = delayed /\ again' = again /\ cur' = cur
      /\ firstDelayedPacket' = firstDelayedPacket
  BY DEF QueuePacket, loopVars
<1>2. op \in [Packets -> Opcodes] /\ char \in [Packets -> 0..MaxLogins] /\ Pending = allocated
      /\ allocated \subseteq Packets
  BY DEF IInv, TypeOK, Owned
<1>3. op' \in [Packets -> Opcodes] /\ char' \in [Packets -> 0..MaxLogins]
  BY <1>1, <1>2
<1>4. recvQueue' \in Seq(Packets) /\ arrived' \in Seq(Packets)
  BY SendQueue
<1>5. QueueTypes'
  BY <1>1, <1>2, <1>3, <1>4 DEF QueueTypes, IInv, TypeOK
<1> QED
  BY <1>1, <1>2, <1>5

\* The login of the next character is sent when nothing of the last one is left.
LEMMA SendLoginStep ==
  ASSUME IInv, NEW p \in Packets, SendLogin(p)
  PROVE  IInv'
<1>1. /\ screen = "select" /\ logins < MaxLogins /\ screen' = "game" /\ logins' = logins + 1
      /\ QueuePacket(p, "CMSG_PLAYER_LOGIN", logins + 1)
      /\ updater' = updater /\ player' = player /\ playerChar' = playerChar
      /\ loading' = loading /\ m_playerRecentlyLogout' = m_playerRecentlyLogout
      /\ logoutTime' = logoutTime /\ logoutComplete' = logoutComplete
      /\ m_inQueue' = m_inQueue /\ closed' = closed
  BY DEF SendLogin, QueuePacket, loopVars, playerVars
<1>2. logins \in Nat /\ MaxLogins \in Nat /\ logins + 1 \in 0..MaxLogins
  BY <1>1, PacketsAssumption DEF IInv, TypeOK
<1>3. /\ QueueKept' /\ p \notin Pending /\ Pending' = Pending \cup {p}
      /\ \A x, y : Before(Line', x, y) <=> (Before(Line, x, y) \/ (x \in Pending /\ y = p))
  BY <1>1, SendQueue
<1>4. /\ QueueTypes' /\ op'[p] = "CMSG_PLAYER_LOGIN" /\ char'[p] = logins + 1
      /\ \A x \in Pending : op'[x] = op[x] /\ char'[x] = char[x]
  BY <1>1, <1>2, NewPacket DEF Opcodes, Authed
<1>5. PlayerTypes' /\ OtherTypes'
  <2>1. PlayerTypes /\ OtherTypes
    BY Types DEF IInv
  <2>2. PlayerTypes'
    BY <1>1, <2>1 DEF PlayerTypes
  <2>3. OtherTypes'
    BY <1>1, <1>2, <2>1 DEF OtherTypes
  <2> QED
    BY <2>2, <2>3
<1>6. NoPlayer /\ NoPlayer'
  BY <1>1 DEF IInv, Stage, NoPlayer
<1>7. \A x \in Pending : char[x] \in 0..MaxLogins /\ char[x] <= logins /\ ~Login(x)
  BY <1>1 DEF IInv, LoginPending, Owned, TypeOK
<1>8. LoginPending'
  <2>1. ASSUME NEW x \in Pending'
        PROVE  char'[x] <= logins' /\ (Login(x)' => x = p /\ char'[x] = logins')
    BY <1>1, <1>2, <1>3, <1>4, <1>7 DEF Login
  <2> QED
    BY <1>1, <1>6, <2>1 DEF LoginPending
<1>9. EnumPending'
  <2>1. ASSUME NEW x \in Pending', Enum(x)'
        PROVE  x \in Pending /\ Enum(x)
    BY <1>3, <1>4, <2>1 DEF Enum
  <2>2. ASSUME NEW x \in Pending', Login(x)'
        PROVE  x = p
    BY <1>3, <1>4, <1>7, <2>2 DEF Login
  <2> QED
    BY <1>1, <1>3, <1>6, <2>1, <2>2 DEF IInv, EnumPending
<1>10. StalePending'
  <2>1. ASSUME NEW x \in Pending', Stale(x)'
        PROVE  x \in Pending /\ Stale(x)
    BY <1>1, <1>3, <1>4, <2>1 DEF Stale, Authed
  <2>2. \A x \in Pending : Enum(x)' <=> Enum(x)
    BY <1>4 DEF Enum
  <2> QED
    BY <1>1, <1>3, <2>1, <2>2 DEF IInv, StalePending
<1>11. Stage'
  BY <1>1, <1>6 DEF IInv, Stage, NoPlayer
<1> QED
  BY <1>3, <1>4, <1>5, <1>8, <1>9, <1>10, <1>11, PartsNext DEF LineMeans

\* In the game, a packet belongs to the last login.
LEMMA SendInGameStep ==
  ASSUME IInv, NEW p \in Packets, SendInGame(p)
  PROVE  IInv'
<1>1. PICK o \in Opcodes \ Authed : QueuePacket(p, o, logins)
  BY DEF SendInGame
<1>2. /\ screen = "game" /\ screen' = screen /\ logins' = logins
      /\ updater' = updater /\ player' = player /\ playerChar' = playerChar
      /\ loading' = loading /\ m_playerRecentlyLogout' = m_playerRecentlyLogout
      /\ logoutTime' = logoutTime /\ logoutComplete' = logoutComplete
      /\ m_inQueue' = m_inQueue /\ closed' = closed
  BY <1>1 DEF SendInGame, QueuePacket, loopVars, playerVars, clientVars
<1>3. logins \in 0..MaxLogins /\ logins \in Nat
  BY PacketsAssumption DEF IInv, TypeOK
<1>4. /\ QueueKept' /\ p \notin Pending /\ Pending' = Pending \cup {p}
      /\ \A x, y : Before(Line', x, y) <=> (Before(Line, x, y) \/ (x \in Pending /\ y = p))
  BY <1>1, SendQueue
<1>5. /\ QueueTypes' /\ op'[p] = o /\ char'[p] = logins
      /\ \A x \in Pending : op'[x] = op[x] /\ char'[x] = char[x]
  BY <1>1, <1>3, NewPacket
<1>6. PlayerTypes' /\ OtherTypes' /\ Stage'
  <2>1. PlayerTypes /\ OtherTypes
    BY Types DEF IInv
  <2>2. PlayerTypes'
    BY <1>2, <2>1 DEF PlayerTypes
  <2>3. OtherTypes'
    BY <1>2, <2>1 DEF OtherTypes
  <2>4. Stage'
    BY <1>2 DEF IInv, Stage, NoPlayer
  <2> QED
    BY <2>2, <2>3, <2>4
<1>7. NoPlayer' <=> NoPlayer
  BY <1>2 DEF NoPlayer
<1>8. /\ \A x \in Pending : /\ Login(x)' <=> Login(x)
                            /\ Enum(x)' <=> Enum(x)
                            /\ Stale(x)' <=> Stale(x)
      /\ ~Login(p)' /\ ~Enum(p)' /\ ~Stale(p)'
  BY <1>1, <1>2, <1>3, <1>5 DEF Login, Enum, Stale, Authed
<1>9. LoginPending'
  BY <1>2, <1>3, <1>4, <1>5, <1>7, <1>8 DEF IInv, LoginPending
<1>10. EnumPending'
  BY <1>2, <1>4, <1>7, <1>8 DEF IInv, EnumPending
<1>11. StalePending'
  BY <1>2, <1>4, <1>8 DEF IInv, StalePending
<1> QED
  BY <1>4, <1>5, <1>6, <1>9, <1>10, <1>11, PartsNext DEF LineMeans

\* The request that ends the last game is behind all its packets.
LEMMA SendCharEnumStep ==
  ASSUME IInv, NEW p \in Packets, SendCharEnum(p)
  PROVE  IInv'
<1>1. /\ QueuePacket(p, "CMSG_CHAR_ENUM", logins)
      /\ screen = "left" /\ screen' = "select" /\ logins' = logins
      /\ updater' = updater /\ player' = player /\ playerChar' = playerChar
      /\ loading' = loading /\ m_playerRecentlyLogout' = m_playerRecentlyLogout
      /\ logoutTime' = logoutTime /\ logoutComplete' = logoutComplete
      /\ m_inQueue' = m_inQueue /\ closed' = closed
  BY DEF SendCharEnum, QueuePacket, loopVars, playerVars
<1>3. logins \in 0..MaxLogins /\ logins \in Nat
  BY PacketsAssumption DEF IInv, TypeOK
<1>4. /\ QueueKept' /\ p \notin Pending /\ Pending' = Pending \cup {p}
      /\ \A x, y : Before(Line', x, y) <=> (Before(Line, x, y) \/ (x \in Pending /\ y = p))
  BY <1>1, SendQueue
<1>5. /\ QueueTypes' /\ op'[p] = "CMSG_CHAR_ENUM" /\ char'[p] = logins
      /\ \A x \in Pending : op'[x] = op[x] /\ char'[x] = char[x]
  BY <1>1, <1>3, NewPacket DEF Opcodes, Authed
<1>6. PlayerTypes' /\ OtherTypes' /\ Stage'
  <2>1. PlayerTypes /\ OtherTypes
    BY Types DEF IInv
  <2>2. PlayerTypes'
    BY <1>1, <2>1 DEF PlayerTypes
  <2>3. OtherTypes'
    BY <1>1, <2>1 DEF OtherTypes
  <2>4. Stage'
    BY <1>1 DEF IInv, Stage, NoPlayer
  <2> QED
    BY <2>2, <2>3, <2>4
<1>7. NoPlayer' /\ m_playerRecentlyLogout'
  BY <1>1 DEF IInv, Stage, NoPlayer
<1>8. /\ \A x \in Pending : ~Login(x)' /\ ~Enum(x)'
      /\ ~Login(p)' /\ Enum(p)' /\ ~Stale(p)'
  BY <1>1, <1>5 DEF Login, Enum, Stale, Authed, IInv, LoginPending, EnumPending
<1>9. LoginPending'
  BY <1>1, <1>3, <1>4, <1>5, <1>8 DEF IInv, LoginPending
<1>10. EnumPending'
  BY <1>1, <1>4, <1>7, <1>8 DEF EnumPending
<1>11. StalePending'
  BY <1>4, <1>8 DEF StalePending
<1> QED
  BY <1>4, <1>5, <1>6, <1>9, <1>10, <1>11, PartsNext DEF LineMeans

\* The line does not change and nothing happens to the player: for the steps of the
\* tick and the connection.
LEMMA StillStep ==
  ASSUME IInv, UNCHANGED queueVars, cur' = cur,
         firstDelayedPacket' = firstDelayedPacket, PlayerTypes', OtherTypes', Stage',
         cur # None => updater' \in {"world", "map"},
         updater = "gone" => updater' = "gone",
         screen' = screen, logins' = logins,
         \A p \in Pending : Login(p) => NoPlayer',
         \A p \in Pending : Enum(p) => NoPlayer' /\ m_playerRecentlyLogout'
  PROVE  IInv'
<1>1. /\ recvQueue' = recvQueue /\ allocated' = allocated /\ op' = op /\ char' = char
      /\ arrived' = arrived /\ delayed' = delayed /\ again' = again
  BY DEF queueVars
<1>2. QueueKept' /\ Line' = Line /\ Pending' = Pending
  BY <1>1, StillQueue
<1>3. QueueTypes'
  BY <1>1, Types DEF IInv, QueueTypes
<1>4. LineMeans'
  BY <1>1, <1>2, LineShrinks
<1> QED
  BY <1>2, <1>3, <1>4, PartsNext

\* The body of the loop ends with a packet consumed.
LEMMA ConsumeStep ==
  ASSUME IInv, cur # None, Consume, PlayerTypes', closed' \in BOOLEAN, Stage',
         \A p \in Pending \ {cur} : Login(p) => NoPlayer',
         \A p \in Pending \ {cur} : Enum(p) => NoPlayer' /\ m_playerRecentlyLogout'
  PROVE  IInv'
<1>1. /\ allocated' = allocated \ {cur} /\ delayed' = delayed \ {cur} /\ cur' = None
      /\ recvQueue' = recvQueue /\ op' = op /\ char' = char /\ again' = again
      /\ updater' = updater /\ firstDelayedPacket' = firstDelayedPacket
      /\ screen' = screen /\ logins' = logins /\ m_inQueue' = m_inQueue
  BY DEF Consume, clientVars
<1>2. /\ QueueKept' /\ arrived' \in Seq(Packets) /\ Pending' = Pending \ {cur}
      /\ \A x, y : Before(Line', x, y) <=> (Before(Line, x, y) /\ x # cur)
      /\ \A x : ~Before(Line, x, cur)
  BY ConsumeQueue
<1>3. QueueTypes'
  BY <1>1, <1>2, Types DEF IInv, QueueTypes
<1>4. OtherTypes'
  BY <1>1, Types DEF IInv, OtherTypes
<1>5. LineMeans'
  <2>1. \A x, y \in Pending' : Before(Line, x, y) => Before(Line', x, y)
    BY <1>2
  <2>2. \A x \in Pending', y \in Pending : Before(Line, x, y) => y \in Pending'
    BY <1>2
  <2> QED
    BY <1>1, <1>2, <2>1, <2>2, LineShrinks
<1> QED
  BY <1>2, <1>3, <1>4, <1>5, PartsNext

\* A player in the world, or a query on its way, leaves no login and no request in line.
LEMMA NothingPending ==
  ASSUME IInv, ~NoPlayer
  PROVE  \A p \in Pending : ~Login(p) /\ ~Enum(p)
BY DEF IInv, LoginPending, EnumPending

\* LogoutPlayer is called when there is a player.
LEMMA LogoutStep ==
  ASSUME IInv, LogoutPlayer, player # "none", screen' = screen, logins' = logins,
         m_inQueue' = m_inQueue
  PROVE  PlayerTypes' /\ Stage' /\ \A p \in Pending : ~Login(p) /\ ~Enum(p)
<1>1. /\ player' = "none" /\ m_playerRecentlyLogout' = TRUE /\ logoutTime' = FALSE
      /\ logoutComplete' \in BOOLEAN /\ playerChar' = playerChar /\ loading' = loading
  BY DEF LogoutPlayer, IInv, TypeOK
<1>2. PlayerTypes'
  BY <1>1, Types DEF IInv, PlayerTypes
<1>3. ~NoPlayer /\ screen = "game" /\ ~m_inQueue
  BY DEF NoPlayer, IInv, Stage, TypeOK
<1>4. loading = 0
  BY DEF IInv, Stage
<1>5. Stage'
  BY <1>1, <1>3, <1>4 DEF Stage
<1> QED
  BY <1>2, <1>3, <1>5, NothingPending

\* The client leaves the game: its packets in line are stale from here on.
LEMMA ReceiveLogoutCompleteStep ==
  ASSUME IInv, ReceiveLogoutComplete
  PROVE  IInv'
<1>1. /\ logoutComplete /\ screen = "game" /\ screen' = "left" /\ logoutComplete' = FALSE
      /\ UNCHANGED queueVars /\ updater' = updater /\ cur' = cur
      /\ firstDelayedPacket' = firstDelayedPacket /\ player' = player
      /\ playerChar' = playerChar /\ loading' = loading
      /\ m_playerRecentlyLogout' = m_playerRecentlyLogout /\ logoutTime' = logoutTime
      /\ logins' = logins /\ m_inQueue' = m_inQueue /\ closed' = closed
  BY DEF ReceiveLogoutComplete, loopVars
<1>2. /\ recvQueue' = recvQueue /\ allocated' = allocated /\ op' = op /\ char' = char
      /\ arrived' = arrived /\ delayed' = delayed /\ again' = again
  BY <1>1 DEF queueVars
<1>3. QueueKept' /\ Line' = Line /\ Pending' = Pending
  BY <1>1, <1>2, StillQueue DEF IInv, Owned
<1>4. QueueTypes'
  BY <1>1, <1>2, Types DEF IInv, QueueTypes
<1>5. PlayerTypes'
  BY <1>1, Types DEF IInv, PlayerTypes
<1>6. OtherTypes'
  BY <1>1, Types DEF IInv, OtherTypes
<1>7. ~NoPlayer /\ NoPlayer' /\ m_playerRecentlyLogout
  BY <1>1 DEF IInv, Stage, NoPlayer, TypeOK
<1>8. Stage'
  BY <1>1, <1>7 DEF IInv, Stage, NoPlayer
<1>9. \A p \in Pending : ~Login(p)' /\ ~Enum(p)'
  BY <1>2, <1>7, NothingPending DEF Login, Enum
<1>10. LineMeans'
  BY <1>1, <1>2, <1>3, <1>9 DEF LineMeans, LoginPending, EnumPending, StalePending, IInv
<1> QED
  BY <1>3, <1>4, <1>5, <1>6, <1>8, <1>10, PartsNext

\* The connection drops, or the session is let in.
LEMMA ConnectionStep ==
  ASSUME IInv, CloseSocket \/ LeaveQueue
  PROVE  IInv'
<1>1. /\ UNCHANGED queueVars /\ cur' = cur /\ firstDelayedPacket' = firstDelayedPacket
      /\ updater' = updater /\ player' = player /\ playerChar' = playerChar /\ loading' = loading
      /\ m_playerRecentlyLogout' = m_playerRecentlyLogout /\ logoutTime' = logoutTime
      /\ logoutComplete' = logoutComplete /\ screen' = screen /\ logins' = logins
  BY DEF CloseSocket, LeaveQueue, loopVars, playerVars, clientVars
<1>2. closed' \in BOOLEAN /\ m_inQueue' \in BOOLEAN /\ (m_inQueue' => m_inQueue)
  <2>1. CASE CloseSocket
    BY <2>1 DEF CloseSocket, IInv, TypeOK
  <2>2. CASE LeaveQueue
    BY <2>2 DEF LeaveQueue, IInv, TypeOK
  <2> QED
    BY <2>1, <2>2
<1>3. PlayerTypes'
  BY <1>1, Types DEF IInv, PlayerTypes
<1>4. OtherTypes'
  BY <1>1, <1>2, Types DEF IInv, OtherTypes
<1>5. Stage' /\ (NoPlayer => NoPlayer')
  BY <1>1, <1>2 DEF IInv, Stage, NoPlayer
<1> QED
  BY <1>1, <1>3, <1>4, <1>5, StillStep DEF IInv, Owned, LoginPending, EnumPending

\* An update begins with no packet put back in it.
LEMMA BeginUpdateStep ==
  ASSUME IInv, BeginUpdate
  PROVE  IInv'
<1>1. /\ recvQueue' = recvQueue /\ allocated' = allocated /\ op' = op /\ char' = char
      /\ arrived' = arrived /\ delayed' = delayed /\ cur' = cur
      /\ again' = {} /\ firstDelayedPacket' = None
      /\ updater \in {"idle", "maps"} /\ updater' \in {"world", "map"}
      /\ player' = player /\ playerChar' = playerChar /\ loading' = loading
      /\ m_playerRecentlyLogout' = m_playerRecentlyLogout /\ logoutTime' = logoutTime
      /\ logoutComplete' = logoutComplete /\ screen' = screen /\ logins' = logins
      /\ m_inQueue' = m_inQueue /\ closed' = closed
  BY DEF BeginUpdate, playerVars, clientVars
<1>2. QueueKept' /\ Line' = Line /\ Pending' = Pending
  BY <1>1, StillQueue
<1>3. QueueTypes'
  BY <1>1, Types DEF IInv, QueueTypes
<1>4. PlayerTypes'
  BY <1>1, Types DEF IInv, PlayerTypes
<1>5. OtherTypes'
  BY <1>1, Types DEF IInv, OtherTypes
<1>6. Stage' /\ (NoPlayer => NoPlayer')
  BY <1>1 DEF IInv, Stage, NoPlayer
<1>7. LineMeans'
  BY <1>1, <1>2, <1>6, LineShrinks DEF IInv, LoginPending, EnumPending
<1> QED
  BY <1>2, <1>3, <1>4, <1>5, <1>6, <1>7, PartsNext

\* Packets are only moved from the queue to the handler.
LEMMA NextPacketStep ==
  ASSUME IInv, NextPacket
  PROVE  IInv'
<1>1. /\ allocated' = allocated /\ op' = op /\ char' = char
      /\ arrived' = arrived /\ delayed' = delayed
      /\ again' = again /\ firstDelayedPacket' = firstDelayedPacket /\ updater' = updater
      /\ player' = player /\ playerChar' = playerChar /\ loading' = loading
      /\ m_playerRecentlyLogout' = m_playerRecentlyLogout /\ logoutTime' = logoutTime
      /\ logoutComplete' = logoutComplete /\ screen' = screen /\ logins' = logins
      /\ m_inQueue' = m_inQueue /\ closed' = closed
  BY DEF NextPacket, playerVars, clientVars
<1>2. /\ QueueKept' /\ Line' = Line /\ Pending' = Pending
      /\ recvQueue' \in Seq(Packets) /\ cur' \in Packets
  BY NextQueue
<1>3. QueueTypes'
  BY <1>1, <1>2, Types DEF IInv, QueueTypes
<1>4. PlayerTypes'
  BY <1>1, Types DEF IInv, PlayerTypes
<1>5. OtherTypes'
  BY <1>1, Types DEF IInv, OtherTypes
<1>6. Stage' /\ (NoPlayer => NoPlayer')
  BY <1>1 DEF IInv, Stage, NoPlayer
<1>7. LineMeans'
  BY <1>1, <1>2, <1>6, LineShrinks DEF IInv, LoginPending, EnumPending
<1> QED
  BY <1>2, <1>3, <1>4, <1>5, <1>6, <1>7, PartsNext

\* A packet that is put back is not stale, since after a logout none is put back.
LEMMA DelayPacketStep ==
  ASSUME IInv, DelayPacket
  PROVE  IInv'
<1>1. /\ op[cur] \in LoggedIn /\ ~m_playerRecentlyLogout
      /\ firstDelayedPacket' = IF firstDelayedPacket = None THEN cur ELSE firstDelayedPacket
      /\ delayed' = delayed \cup {cur} /\ again' = again \cup {cur} /\ cur' = None
      /\ allocated' = allocated /\ op' = op /\ char' = char
      /\ arrived' = arrived /\ updater' = updater
      /\ player' = player /\ playerChar' = playerChar /\ loading' = loading
      /\ m_playerRecentlyLogout' = m_playerRecentlyLogout /\ logoutTime' = logoutTime
      /\ logoutComplete' = logoutComplete /\ screen' = screen /\ logins' = logins
      /\ m_inQueue' = m_inQueue /\ closed' = closed
  BY DEF DelayPacket, playerVars, clientVars
<1>2. /\ QueueKept' /\ recvQueue' \in Seq(Packets)
      /\ cur \in Packets /\ cur \in Pending /\ Pending' = Pending
      /\ \A x, y : Before(Line', x, y) <=>
           ((Before(Line, x, y) /\ x # cur) \/ (x \in Pending \ {cur} /\ y = cur))
      /\ \A x : ~Before(Line, x, cur)
  BY DelayQueue
<1>3. QueueTypes'
  BY <1>1, <1>2, Types DEF IInv, QueueTypes
<1>4. PlayerTypes'
  BY <1>1, Types DEF IInv, PlayerTypes
<1>5. OtherTypes'
  BY <1>1, Types DEF IInv, OtherTypes
<1>6. Stage' /\ (NoPlayer' <=> NoPlayer)
  BY <1>1 DEF IInv, Stage, NoPlayer
<1>7. \A p : (Login(p)' <=> Login(p)) /\ (Enum(p)' <=> Enum(p)) /\ (Stale(p)' <=> Stale(p))
  BY <1>1 DEF Login, Enum, Stale
<1>8. /\ \A p \in Pending : ~Enum(p) /\ ~Stale(p)
  <2>1. \A p \in Pending : ~Enum(p)
    BY <1>1 DEF IInv, EnumPending
  <2>2. screen # "left"
    BY <1>1 DEF IInv, Stage
  <2> QED
    BY <2>1, <2>2 DEF IInv, StalePending
<1>9. LoginPending'
  BY <1>1, <1>2, <1>6, <1>7 DEF IInv, LoginPending
<1>10. EnumPending' /\ StalePending'
  BY <1>2, <1>7, <1>8 DEF EnumPending, StalePending
<1> QED
  BY <1>2, <1>3, <1>4, <1>5, <1>6, <1>9, <1>10, PartsNext DEF LineMeans

\* A packet is dropped.
LEMMA DropPacketStep ==
  ASSUME IInv, DropPacket
  PROVE  IInv'
<1>1. /\ cur # None /\ Consume /\ closed' = closed
      /\ player' = player /\ playerChar' = playerChar /\ loading' = loading
      /\ m_playerRecentlyLogout' = m_playerRecentlyLogout /\ logoutTime' = logoutTime
      /\ logoutComplete' = logoutComplete
  BY DEF DropPacket, playerVars
<1>2. screen' = screen /\ logins' = logins /\ m_inQueue' = m_inQueue
  BY <1>1 DEF Consume, clientVars
<1>3. PlayerTypes' /\ closed' \in BOOLEAN
  BY <1>1, Types DEF IInv, PlayerTypes, OtherTypes
<1>4. Stage' /\ (NoPlayer' <=> NoPlayer)
  BY <1>1, <1>2 DEF IInv, Stage, NoPlayer
<1> QED
  BY <1>1, <1>3, <1>4, ConsumeStep DEF IInv, LoginPending, EnumPending

\* The handlers of the packets of a game: the player stays, moves or leaves.
LEMMA GameHandlerStep ==
  ASSUME IInv, \/ HandleInWorld \/ HandleLogoutRequestOpcode \/ HandleMoveWorldportAckOpcode
  PROVE  IInv'
<1>1. cur # None /\ Consume /\ player # "none"
  BY DEF HandleInWorld, HandleLogoutRequestOpcode, HandleMoveWorldportAckOpcode
<1>2. screen' = screen /\ logins' = logins /\ m_inQueue' = m_inQueue
  BY <1>1 DEF Consume, clientVars
<1>3. closed' \in BOOLEAN
  BY DEF HandleInWorld, HandleLogoutRequestOpcode, HandleMoveWorldportAckOpcode, IInv, TypeOK
<1>4. ~NoPlayer
  BY <1>1 DEF NoPlayer
<1>5. \A p \in Pending : ~Login(p) /\ ~Enum(p)
  BY <1>4, NothingPending
<1>6. PlayerTypes' /\ Stage'
  <2>1. CASE LogoutPlayer
    BY <1>1, <1>2, <2>1, LogoutStep
  <2>2. CASE ~LogoutPlayer
    <3>1. /\ player' \in {"world", "transfer"} /\ logoutTime' \in BOOLEAN
          /\ playerChar' = playerChar /\ loading' = loading
          /\ m_playerRecentlyLogout' = m_playerRecentlyLogout /\ logoutComplete' = logoutComplete
      <4>1. CASE HandleInWorld
        BY <4>1 DEF HandleInWorld, IInv, TypeOK
      <4>2. CASE HandleLogoutRequestOpcode
        BY <2>2, <4>2 DEF HandleLogoutRequestOpcode
      <4>3. CASE HandleMoveWorldportAckOpcode
        BY <2>2, <4>3 DEF HandleMoveWorldportAckOpcode, IInv, TypeOK
      <4> QED
        BY <4>1, <4>2, <4>3
    <3>2. PlayerTypes'
      BY <3>1, Types DEF IInv, PlayerTypes
    <3>3. Stage'
      BY <1>1, <1>2, <3>1 DEF IInv, Stage, NoPlayer
    <3> QED
      BY <3>2, <3>3
  <2> QED
    BY <2>1, <2>2
<1> QED
  BY <1>1, <1>3, <1>5, <1>6, ConsumeStep

\* A logout is cancelled.
LEMMA LogoutCancelStep ==
  ASSUME IInv, HandleLogoutCancelOpcode
  PROVE  IInv'
<1>1. /\ cur # None /\ Consume /\ closed' = closed
      /\ player' = player /\ playerChar' = playerChar /\ loading' = loading
      /\ m_playerRecentlyLogout' = m_playerRecentlyLogout
      /\ logoutTime' = (logoutTime /\ player = "none") /\ logoutComplete' = logoutComplete
  BY DEF HandleLogoutCancelOpcode
<1>2. screen' = screen /\ logins' = logins /\ m_inQueue' = m_inQueue
  BY <1>1 DEF Consume, clientVars
<1>3. logoutTime' = FALSE
  BY <1>1 DEF IInv, Stage
<1>4. PlayerTypes' /\ closed' \in BOOLEAN
  BY <1>1, <1>3, Types DEF IInv, PlayerTypes, OtherTypes
<1>5. Stage' /\ (NoPlayer' <=> NoPlayer)
  BY <1>1, <1>2, <1>3 DEF IInv, Stage, NoPlayer
<1> QED
  BY <1>1, <1>4, <1>5, ConsumeStep DEF IInv, LoginPending, EnumPending

\* The client is back at the character selection: nothing in line is stale.
LEMMA CharEnumStep ==
  ASSUME IInv, HandleCharEnumOpcode
  PROVE  IInv'
<1>1. /\ cur # None /\ Enum(cur) /\ Consume /\ closed' = closed
      /\ player' = player /\ playerChar' = playerChar /\ loading' = loading
      /\ m_playerRecentlyLogout' = FALSE
      /\ logoutTime' = logoutTime /\ logoutComplete' = logoutComplete
  BY DEF HandleCharEnumOpcode, Enum
<1>2. screen' = screen /\ logins' = logins /\ m_inQueue' = m_inQueue
  BY <1>1 DEF Consume, clientVars
<1>3. PlayerTypes' /\ closed' \in BOOLEAN
  BY <1>1, Types DEF IInv, PlayerTypes, OtherTypes
<1>4. cur \in Pending
  BY <1>1, ConsumeQueue
<1>5. screen # "left" /\ NoPlayer /\ NoPlayer' /\ \A p \in Pending \ {cur} : ~Enum(p)
  BY <1>1, <1>4 DEF IInv, EnumPending, NoPlayer
<1>6. Stage'
  BY <1>1, <1>2, <1>5 DEF IInv, Stage, NoPlayer
<1> QED
  BY <1>1, <1>3, <1>5, <1>6, ConsumeStep

\* The login of a character: the request that ended the game before is gone.
LEMMA PlayerLoginStep ==
  ASSUME IInv, HandlePlayerLoginOpcode
  PROVE  IInv'
<1>1. /\ cur # None /\ Login(cur) /\ ~m_inQueue /\ Consume
      /\ closed' \in {closed, TRUE} /\ loading' \in {loading, char[cur]}
      /\ player' = player /\ playerChar' = playerChar
      /\ m_playerRecentlyLogout' = m_playerRecentlyLogout
      /\ logoutTime' = logoutTime /\ logoutComplete' = logoutComplete
  BY DEF HandlePlayerLoginOpcode, Login
<1>2. screen' = screen /\ logins' = logins /\ m_inQueue' = m_inQueue
  BY <1>1 DEF Consume, clientVars
<1>3. cur \in Packets /\ cur \in Pending /\ \A x : ~Before(Line, x, cur)
  BY <1>1, ConsumeQueue
<1>4. PlayerTypes' /\ closed' \in BOOLEAN
  <2>1. char[cur] \in 0..MaxLogins /\ loading \in 0..MaxLogins
    BY <1>3 DEF IInv, TypeOK
  <2>2. PlayerTypes'
    BY <1>1, <2>1, Types DEF IInv, PlayerTypes
  <2>3. closed' \in BOOLEAN
    BY <1>1 DEF IInv, TypeOK
  <2> QED
    BY <2>2, <2>3
<1>5. /\ char[cur] = logins /\ screen = "game" /\ NoPlayer
      /\ \A p \in Pending \ {cur} : ~Login(p)
  BY <1>1, <1>3 DEF IInv, LoginPending
<1>6. \A p \in Pending \ {cur} : ~Enum(p)
  BY <1>1, <1>3 DEF IInv, EnumPending
<1>7. Stage'
  BY <1>1, <1>2, <1>5 DEF IInv, Stage, NoPlayer
<1> QED
  BY <1>1, <1>4, <1>5, <1>6, <1>7, ConsumeStep

\* The query of the login is ready: the player is the one of the last login.
LEMMA HandlePlayerLoginStep ==
  ASSUME IInv, HandlePlayerLogin
  PROVE  IInv'
<1>1. /\ cur = None /\ updater \in {"world", "map"} /\ updater' \in {"logout", "idle"}
      /\ UNCHANGED queueVars /\ cur' = cur /\ firstDelayedPacket' = firstDelayedPacket
      /\ m_playerRecentlyLogout' = m_playerRecentlyLogout /\ logoutTime' = logoutTime
      /\ logoutComplete' = logoutComplete /\ screen' = screen /\ logins' = logins
      /\ m_inQueue' = m_inQueue
  BY DEF HandlePlayerLogin, LoopEnds, clientVars
<1>2. closed' \in BOOLEAN
  BY DEF HandlePlayerLogin, IInv, TypeOK
<1>3. OtherTypes'
  BY <1>1, <1>2, Types DEF IInv, OtherTypes
<1>4. CASE UNCHANGED <<player, playerChar, loading, closed>>
  <2>1. PlayerTypes'
    BY <1>1, <1>4, Types DEF IInv, PlayerTypes
  <2>2. Stage' /\ (NoPlayer => NoPlayer')
    BY <1>1, <1>4 DEF IInv, Stage, NoPlayer
  <2> QED
    BY <1>1, <1>3, <2>1, <2>2, StillStep DEF IInv, LoginPending, EnumPending
<1>5. CASE ~UNCHANGED <<player, playerChar, loading, closed>>
  <2>1. /\ loading # 0 /\ loading' = 0
        /\ \/ player' \in {"world", "transfer"} /\ playerChar' = loading
           \/ player' = player /\ playerChar' = playerChar
    BY <1>5 DEF HandlePlayerLogin
  <2>2. loading = logins /\ player = "none" /\ ~logoutComplete /\ ~NoPlayer /\ screen = "game"
        /\ ~m_inQueue
    BY <2>1 DEF IInv, Stage, NoPlayer, TypeOK
  <2>3. PlayerTypes'
    <3>1. 0 \in 0..MaxLogins
      BY PacketsAssumption
    <3> QED
      BY <1>1, <2>1, <3>1, Types DEF IInv, PlayerTypes
  <2>4. Stage'
    BY <1>1, <2>1, <2>2 DEF IInv, Stage, NoPlayer
  <2>5. \A p \in Pending : ~Login(p) /\ ~Enum(p)
    BY <2>2, NothingPending
  <2> QED
    BY <1>1, <1>3, <2>3, <2>4, <2>5, StillStep
<1> QED
  BY <1>4, <1>5

\* A teleport, or no map to update the session.
LEMMA MapStep ==
  ASSUME IInv, NoMapUpdate \/ TeleportTo
  PROVE  IInv'
<1>1. /\ updater \in {"idle", "maps"} /\ updater' \in {"idle", "maps"}
      /\ UNCHANGED queueVars /\ cur' = cur /\ firstDelayedPacket' = firstDelayedPacket
      /\ playerChar' = playerChar /\ loading' = loading
      /\ m_playerRecentlyLogout' = m_playerRecentlyLogout /\ logoutTime' = logoutTime
      /\ logoutComplete' = logoutComplete /\ screen' = screen /\ logins' = logins
      /\ m_inQueue' = m_inQueue /\ closed' = closed
      /\ player' = player \/ (player = "world" /\ player' = "transfer")
  BY DEF NoMapUpdate, TeleportTo, loopVars, playerVars, clientVars
<1>2. cur = None
  BY <1>1 DEF IInv, Owned
<1>3. PlayerTypes'
  BY <1>1, Types DEF IInv, PlayerTypes
<1>4. OtherTypes'
  BY <1>1, Types DEF IInv, OtherTypes
<1>5. Stage' /\ (NoPlayer => NoPlayer')
  BY <1>1 DEF IInv, Stage, NoPlayer
<1> QED
  BY <1>1, <1>2, <1>3, <1>4, <1>5, StillStep DEF IInv, LoginPending, EnumPending

\* The end of the update: perhaps a logout, perhaps the end of the session, whose
\* packets are deleted.
LEMMA EndWorldUpdateStep ==
  ASSUME IInv, EndWorldUpdate
  PROVE  IInv'
<1>1. /\ updater = "logout" /\ updater' \in {"gone", "maps"}
      /\ op' = op /\ char' = char /\ again' = again /\ cur' = cur
      /\ firstDelayedPacket' = firstDelayedPacket
      /\ screen' = screen /\ logins' = logins /\ m_inQueue' = m_inQueue /\ closed' = closed
  BY DEF EndWorldUpdate, clientVars
<1>2. cur = None
  BY <1>1 DEF IInv, Owned
<1>3. /\ PlayerTypes' /\ Stage'
      /\ \A p \in Pending : Login(p) => NoPlayer'
      /\ \A p \in Pending : Enum(p) => NoPlayer' /\ m_playerRecentlyLogout'
  <2>1. CASE LogoutPlayer /\ ((logoutTime /\ loading = 0) \/ (closed /\ player # "none"))
    <3>1. player # "none"
      BY <2>1 DEF IInv, Stage
    <3> QED
      BY <1>1, <2>1, <3>1, LogoutStep
  <2>2. CASE UNCHANGED playerVars
    <3>1. /\ player' = player /\ playerChar' = playerChar /\ loading' = loading
          /\ m_playerRecentlyLogout' = m_playerRecentlyLogout /\ logoutTime' = logoutTime
          /\ logoutComplete' = logoutComplete
      BY <2>2 DEF playerVars
    <3>2. PlayerTypes'
      BY <3>1, Types DEF IInv, PlayerTypes
    <3>3. Stage' /\ (NoPlayer => NoPlayer')
      BY <1>1, <3>1 DEF IInv, Stage, NoPlayer
    <3> QED
      BY <3>1, <3>2, <3>3 DEF IInv, LoginPending, EnumPending
  <2> QED
    BY <2>1, <2>2 DEF EndWorldUpdate
<1>4. OtherTypes'
  BY <1>1, Types DEF IInv, OtherTypes
<1>5. CASE ~closed
  <2>1. /\ recvQueue' = recvQueue /\ arrived' = arrived /\ delayed' = delayed
        /\ allocated' = allocated
    BY <1>5 DEF EndWorldUpdate
  <2> QED
    BY <1>1, <1>2, <1>3, <1>4, <2>1, StillStep DEF queueVars
<1>6. CASE closed
  <2>1. /\ updater' = "gone" /\ recvQueue' = <<>> /\ arrived' = <<>> /\ delayed' = {}
        /\ allocated' = allocated \ Elements(recvQueue)
    BY <1>6 DEF EndWorldUpdate
  <2>2. Line = recvQueue /\ Line' = <<>> /\ Pending' = {} /\ Elements(arrived') = {}
    BY <1>1, <1>2, <2>1 DEF Line, Pending, Elements
  <2>3. allocated' = {}
    BY <2>1, <2>2 DEF IInv, Owned, Pending
  <2>4. QueueTypes'
    BY <1>1, <2>1, <2>3, Types DEF IInv, QueueTypes
  <2>5. Owned'
    BY <1>1, <1>2, <2>1, <2>2, <2>3 DEF Owned, Distinct
  <2>6. QueueKept' /\ LineMeans'
    BY <2>1, <2>2, <2>5 DEF QueueKept, DelayedBehind, OrderKept, LineMeans, LoginPending,
                            EnumPending, StalePending
  <2> QED
    BY <1>3, <1>4, <2>4, <2>6, PartsNext
<1> QED
  BY <1>5, <1>6 DEF IInv, TypeOK

\* IInv is about the variables of the module only.
LEMMA Stuttering ==
  ASSUME IInv, UNCHANGED vars
  PROVE  IInv'
<1>1. /\ UNCHANGED queueVars /\ cur' = cur /\ firstDelayedPacket' = firstDelayedPacket
      /\ updater' = updater /\ player' = player /\ playerChar' = playerChar /\ loading' = loading
      /\ m_playerRecentlyLogout' = m_playerRecentlyLogout /\ logoutTime' = logoutTime
      /\ logoutComplete' = logoutComplete /\ screen' = screen /\ logins' = logins
      /\ closed' = closed /\ m_inQueue' = m_inQueue
  BY DEF vars, loopVars, playerVars, clientVars
<1>2. PlayerTypes'
  BY <1>1, Types DEF IInv, PlayerTypes
<1>3. OtherTypes'
  BY <1>1, Types DEF IInv, OtherTypes
<1>4. Stage' /\ (NoPlayer => NoPlayer')
  BY <1>1 DEF IInv, Stage, NoPlayer
<1> QED
  BY <1>1, <1>2, <1>3, <1>4, StillStep DEF IInv, Owned, LoginPending, EnumPending

-----------------------------------------------------------------------------
(* The invariant and what follows from it                                   *)

\* Every reachable state satisfies IInv: types, who is in line and in which order,
\* and what the line says about the last login.
THEOREM Invariance == Spec => []IInv
<1>1. Init => IInv
  <2> SUFFICES ASSUME Init PROVE IInv
    OBVIOUS
  <2>1. Line = <<>> /\ Pending = {}
    BY DEF Init, Line, Pending, Elements
  <2>2. 0 \in 0..MaxLogins
    BY PacketsAssumption
  <2>3. QueueTypes
    <3>1. op \in [Packets -> Opcodes] /\ char \in [Packets -> 0..MaxLogins]
      BY <2>2 DEF Init, Opcodes, Authed
    <3> QED
      BY <3>1 DEF Init, QueueTypes
  <2>4. PlayerTypes
    BY <2>2 DEF Init, PlayerTypes
  <2>5. OtherTypes
    BY <2>2 DEF Init, OtherTypes
  <2>6. QueueKept
    BY <2>1 DEF Init, QueueKept, Owned, DelayedBehind, OrderKept, Distinct, Elements
  <2>7. LineMeans
    BY <2>1 DEF LineMeans, LoginPending, EnumPending, StalePending
  <2>8. Stage
    BY DEF Init, Stage, NoPlayer
  <2> QED
    BY <2>3, <2>4, <2>5, <2>6, <2>7, <2>8, Parts
<1>2. IInv /\ [Next]_vars => IInv'
  <2> SUFFICES ASSUME IInv, [Next]_vars PROVE IInv'
    OBVIOUS
  <2>1. CASE \E p \in Packets : SendLogin(p) \/ SendInGame(p) \/ SendCharEnum(p)
    BY <2>1, SendLoginStep, SendInGameStep, SendCharEnumStep
  <2>2. CASE ReceiveLogoutComplete
    BY <2>2, ReceiveLogoutCompleteStep
  <2>3. CASE CloseSocket \/ LeaveQueue
    BY <2>3, ConnectionStep
  <2>4. CASE BeginUpdate \/ NextPacket \/ DelayPacket
    BY <2>4, BeginUpdateStep, NextPacketStep, DelayPacketStep
  <2>5. CASE DropPacket
    BY <2>5, DropPacketStep
  <2>6. CASE HandleInWorld \/ HandleLogoutRequestOpcode \/ HandleMoveWorldportAckOpcode
    BY <2>6, GameHandlerStep
  <2>7. CASE HandleLogoutCancelOpcode \/ HandleCharEnumOpcode \/ HandlePlayerLoginOpcode
    BY <2>7, LogoutCancelStep, CharEnumStep, PlayerLoginStep
  <2>8. CASE HandlePlayerLogin \/ EndWorldUpdate
    BY <2>8, HandlePlayerLoginStep, EndWorldUpdateStep
  <2>9. CASE NoMapUpdate \/ TeleportTo
    BY <2>9, MapStep
  <2>10. CASE Gone \/ UNCHANGED vars
    BY <2>10, Stuttering DEF Gone
  <2> QED
    BY <2>1, <2>2, <2>3, <2>4, <2>5, <2>6, <2>7, <2>8, <2>9, <2>10
       DEF Next, Client, Tick, HandlePacket
<1> QED
  BY <1>1, <1>2, PTL DEF Spec

\* A packet that waits or is handled is not deleted, and is in one place once.
THEOREM NoPacketLostOrTwice == Spec => []PacketsOwned
<1>1. IInv => PacketsOwned
  <2> SUFFICES ASSUME IInv PROVE PacketsOwned
    OBVIOUS
  <2>1. /\ recvQueue \in Seq(Packets) /\ Distinct(recvQueue) /\ cur \notin Elements(recvQueue)
        /\ Elements(recvQueue) \cup ({cur} \ {None}) \subseteq Pending
    BY LineParts DEF IInv, Pending
  <2>2. Cardinality(Elements(recvQueue)) = Len(recvQueue)
    BY <2>1, DistinctCardinality
  <2> QED
    BY <2>1, <2>2 DEF PacketsOwned, IInv, Owned
<1> QED
  BY <1>1, Invariance, PTL

\* The loop of Update is finite: it never takes a packet it has put back.
THEOREM LoopEndsAtDelayed == Spec => []NoPacketTwicePerUpdate
<1>1. IInv => NoPacketTwicePerUpdate
  <2> SUFFICES ASSUME IInv PROVE cur \notin again
    BY DEF NoPacketTwicePerUpdate
  <2>1. CASE cur = None
    BY <2>1, PacketsAssumption DEF IInv, TypeOK
  <2>2. CASE cur # None
    <3>1. cur \notin Elements(recvQueue)
      BY LineParts DEF IInv
    <3> QED
      BY <2>2, <3>1 DEF IInv, Owned, DelayedBehind
  <2> QED
    BY <2>1, <2>2
<1> QED
  BY <1>1, Invariance, PTL

\* A packet of the game of one character is never handled for another.
THEOREM PacketsReachTheirCharacter == Spec => []RightCharacter
<1>1. IInv => RightCharacter
  <2> SUFFICES ASSUME IInv, cur # None, op[cur] \in LoggedIn, player # "none"
               PROVE  char[cur] = playerChar
    BY DEF RightCharacter
  <2>1. cur \in Pending /\ cur \in Packets
    BY LineParts DEF IInv
  <2>2. ~NoPlayer /\ screen = "game" /\ playerChar = logins
    BY DEF NoPlayer, IInv, Stage, TypeOK
  <2>3. ~Stale(cur)
    BY <2>1, <2>2, NothingPending DEF IInv, StalePending
  <2>4. op[cur] \notin Authed
    BY DEF LoggedIn, Authed
  <2>5. ~(char[cur] < logins) /\ char[cur] <= logins
    BY <2>1, <2>2, <2>3, <2>4 DEF Stale, IInv, LoginPending
  <2>6. char[cur] \in Nat /\ logins \in Nat
    BY <2>1, PacketsAssumption DEF IInv, TypeOK
  <2> QED
    BY <2>2, <2>5, <2>6
<1> QED
  BY <1>1, Invariance, PTL

\* Steps that take nothing from arrived but the packet in the handler.
LEMMA ArrivedStep ==
  ASSUME IInv, [Next]_vars, updater' # "gone"
  PROVE  \/ Elements(arrived) \subseteq Elements(arrived')
         \/ cur # None /\ Consume
<1>1. CASE arrived' = arrived
  BY <1>1
<1>2. CASE \E p \in Packets : SendLogin(p) \/ SendInGame(p) \/ SendCharEnum(p)
  <2>1. PICK p \in Packets : arrived' = Append(arrived, p)
    BY <1>2 DEF SendLogin, SendInGame, SendCharEnum, QueuePacket
  <2>2. Elements(arrived') = Elements(arrived) \cup {p}
    BY <2>1, AppendElements DEF IInv, TypeOK
  <2> QED
    BY <2>2
<1>3. CASE HandlePacket /\ ~DelayPacket
  BY <1>3 DEF HandlePacket, DropPacket, HandleInWorld, HandleLogoutRequestOpcode,
              HandleLogoutCancelOpcode, HandleMoveWorldportAckOpcode, HandleCharEnumOpcode,
              HandlePlayerLoginOpcode
<1>4. CASE \/ ReceiveLogoutComplete \/ CloseSocket \/ BeginUpdate \/ NextPacket
           \/ DelayPacket \/ HandlePlayerLogin \/ EndWorldUpdate \/ NoMapUpdate \/ TeleportTo
           \/ LeaveQueue \/ Gone \/ UNCHANGED vars
  BY <1>1, <1>4 DEF ReceiveLogoutComplete, CloseSocket, BeginUpdate, NextPacket, DelayPacket,
                    HandlePlayerLogin, EndWorldUpdate, NoMapUpdate, TeleportTo, LeaveQueue,
                    Gone, vars, queueVars
<1> QED
  BY <1>2, <1>3, <1>4 DEF Next, Client, Tick, HandlePacket

\* Packets are handled in the order they came; only one that was put back is
\* overtaken.
THEOREM HandledInOrder == Spec => OvertakesOnlyDelayed
<1>1. ASSUME IInv, [Next]_vars, NEW k \in 1..Len(arrived), updater' # "gone",
             arrived[k] \notin Elements(arrived'), NEW j \in 1..(k - 1)
      PROVE  arrived[j] \in delayed \/ arrived[j] \notin Elements(arrived')
  <2>1. j \in 1..Len(arrived) /\ j < k
    BY DEF IInv, TypeOK
  <2>a. arrived[j] \in Elements(arrived) /\ arrived[k] \in Elements(arrived)
    BY <2>1 DEF Elements
  <2>b. Elements(arrived) = Pending
    BY <1>1 DEF IInv, Owned
  <2>c. Before(arrived, arrived[j], arrived[k])
    BY <2>1 DEF Before
  <2>2. arrived[j] \in Pending /\ arrived[k] \in Pending /\ Before(arrived, arrived[j], arrived[k])
    BY <2>a, <2>b, <2>c
  <2>3. arrived[k] \in Elements(arrived)
    BY <2>a
  <2>4. cur # None /\ Consume
    BY <1>1, <2>3, ArrivedStep
  <2>5. Elements(arrived') = Elements(arrived) \ {cur} /\ \A x : ~Before(Line, x, cur)
    BY <1>1, <2>4, ConsumeQueue
  <2>6. arrived[k] = cur
    BY <1>1, <2>3, <2>5
  <2> QED
    BY <1>1, <2>2, <2>5, <2>6 DEF IInv, OrderKept
<1>2. IInv /\ [Next]_vars =>
        [\A k \in 1..Len(arrived) :
           arrived[k] \notin Elements(arrived') /\ updater' # "gone" =>
             \A j \in 1..(k - 1) : arrived[j] \in delayed \/ arrived[j] \notin Elements(arrived')]_vars
  BY <1>1
<1> QED
  BY <1>2, Invariance, PTL DEF Spec, OvertakesOnlyDelayed

-----------------------------------------------------------------------------
(* The socket and the session: WorldSocketLife                              *)

\* Map threads between the two halves of CloseSocket.
Clearing == {t \in Senders : spc[t] = "clear"}

\* Until open() has registered the socket only the acceptor and the sets know it.
OpenFirst ==
  /\ apc = "open" => listed = "none"
  /\ apc \in {"open", "added"} => ~registered /\ sess = "none"

\* The network thread works on a socket that is in its set or in the reactor.
NetworkHolds ==
  /\ npc \in {"sweep", "drop"} => listed = "active"
  /\ npc \in {"input", "auth", "close", "clear"} => registered
  /\ npc = "auth" <=> sess = "created"

\* The world thread and the map threads work on a session that is not deleted,
\* of a socket whose closing_ they have set or seen.
WorldHolds ==
  /\ wpc \in {"kick", "destroy", "delete"} => closing_ /\ sess \in {"added", "in world"}
  /\ Clearing # {} => closing_ /\ sess = "in world" /\ wpc = "maps"

\* m_Session outlives the session only while the network thread is on its way to
\* clear it; the world thread, before it deletes the session of a closing socket,
\* leaves m_Session to nobody else.
ClearOwed ==
  /\ sess = "none" => ~m_Session
  /\ m_Session => SessionAlive \/ npc \in {"sweep", "clear"}
  /\ closing_ /\ m_Session =>
       npc \in {"sweep", "clear"} \/ wpc \in {"kick", "destroy"} \/ Clearing # {}

\* The queue of a deleted session stays empty.
QueueGone == sess = "deleted" => recv = 0

\* RefsExact as a sum: one reference of each holder.
AcceptorRefs == IF apc = "done" THEN 0 ELSE 1
SocketsRefs == IF listed = "none" THEN 0 ELSE 1
ReactorRefs == IF registered THEN 1 ELSE 0
SessionRefs == IF SessionAlive THEN 1 ELSE 0

RefsCounted == refs = AcceptorRefs + SocketsRefs + ReactorRefs + SessionRefs

LifeInv ==
  /\ LifeTypeOK
  /\ OpenFirst
  /\ NetworkHolds
  /\ WorldHolds
  /\ ClearOwed
  /\ QueueGone
  /\ RefsCounted

-----------------------------------------------------------------------------

\* A holder that may be added counts one reference or none.
LEMMA AddHolder ==
  ASSUME NEW S, IsFiniteSet(S), NEW h, h \notin S, NEW n \in {0, 1}
  PROVE  LET T == IF n = 1 THEN S \cup {h} ELSE S IN
         IsFiniteSet(T) /\ Cardinality(T) = Cardinality(S) + n
<1>1. Cardinality(S) \in Nat
  BY FS_CardinalityType
<1>2. CASE n = 1
  BY <1>2, FS_AddElement
<1>3. CASE n = 0
  BY <1>1, <1>3
<1> QED
  BY <1>2, <1>3

\* The count of holders is the sum of their references.
LEMMA RefsSum == RefsCounted => RefsExact
<1> SUFFICES ASSUME RefsCounted PROVE RefsExact
  OBVIOUS
<1>0. {AcceptorRefs, SocketsRefs, ReactorRefs, SessionRefs} \subseteq {0, 1}
  BY DEF AcceptorRefs, SocketsRefs, ReactorRefs, SessionRefs
<1> DEFINE A == IF AcceptorRefs = 1 THEN {} \cup {"acceptor"} ELSE {}
           B == IF SocketsRefs = 1 THEN A \cup {"sockets"} ELSE A
           C == IF ReactorRefs = 1 THEN B \cup {"reactor"} ELSE B
           D == IF SessionRefs = 1 THEN C \cup {"session"} ELSE C
<1>1. IsFiniteSet({}) /\ Cardinality({}) = 0
  BY FS_EmptySet
<1>2. IsFiniteSet(A) /\ Cardinality(A) = 0 + AcceptorRefs
  BY <1>0, <1>1, AddHolder
<1>3. IsFiniteSet(B) /\ Cardinality(B) = Cardinality(A) + SocketsRefs
  <2>1. "sockets" \notin A
    OBVIOUS
  <2> HIDE DEF A
  <2> QED
    BY <1>0, <1>2, <2>1, AddHolder
<1>4. IsFiniteSet(C) /\ Cardinality(C) = Cardinality(B) + ReactorRefs
  <2>1. "reactor" \notin B
    OBVIOUS
  <2> HIDE DEF A, B
  <2> QED
    BY <1>0, <1>3, <2>1, AddHolder
<1>5. Cardinality(D) = Cardinality(C) + SessionRefs
  <2>1. "session" \notin C
    OBVIOUS
  <2> HIDE DEF A, B, C
  <2> QED
    BY <1>0, <1>4, <2>1, AddHolder
<1>6. D = {h \in {"acceptor", "sockets", "reactor", "session"} :
             \/ h = "acceptor" /\ apc # "done"
             \/ h = "sockets" /\ listed # "none"
             \/ h = "reactor" /\ registered
             \/ h = "session" /\ SessionAlive}
  BY DEF AcceptorRefs, SocketsRefs, ReactorRefs, SessionRefs
<1> HIDE DEF A, B, C, D
<1>7. Cardinality(D) = AcceptorRefs + SocketsRefs + ReactorRefs + SessionRefs
  BY <1>0, <1>2, <1>3, <1>4, <1>5
<1> QED
  BY <1>6, <1>7 DEF RefsCounted, RefsExact

\* A step adds or drops at most one holder, and counts the reference of that one.
Same(r1, r2, r3) == r1' = r1 /\ r2' = r2 /\ r3' = r3
Comes(r) == r = 0 /\ r' = 1 /\ refs' = refs + 1
Goes(r) == r = 1 /\ r' = 0 /\ refs' = refs - 1

RefsMove ==
  \/ refs' = refs /\ AcceptorRefs' = AcceptorRefs /\ Same(SocketsRefs, ReactorRefs, SessionRefs)
  \/ Goes(AcceptorRefs) /\ Same(SocketsRefs, ReactorRefs, SessionRefs)
  \/ (Comes(SocketsRefs) \/ Goes(SocketsRefs)) /\ Same(AcceptorRefs, ReactorRefs, SessionRefs)
  \/ (Comes(ReactorRefs) \/ Goes(ReactorRefs)) /\ Same(AcceptorRefs, SocketsRefs, SessionRefs)
  \/ (Comes(SessionRefs) \/ Goes(SessionRefs)) /\ Same(AcceptorRefs, SocketsRefs, ReactorRefs)

\* Steps that add and drop no holder.
Holds ==
  /\ refs' = refs /\ registered' = registered
  /\ (apc' = "done") <=> (apc = "done")
  /\ (listed' = "none") <=> (listed = "none")
  /\ SessionAlive' <=> SessionAlive

\* Every step moves the reference of one holder at most.
LEMMA StepMovesRefs == LifeInv /\ [LifeNext]_lifeVars => RefsMove
<1> USE DEF RefsMove, Same, Comes, Goes, AcceptorRefs, SocketsRefs, ReactorRefs, SessionRefs
<1>1. Holds => RefsMove
  BY DEF Holds
<1>2. CASE UNCHANGED lifeVars
  BY <1>1, <1>2 DEF lifeVars, Holds, SessionAlive
<1> USE DEF SessionAlive
<1>3. ASSUME LifeInv, Acceptor PROVE RefsMove
  <2> USE DEF LifeInv, LifeTypeOK, OpenFirst
  <2>1. CASE OnSocketOpen
    BY <1>3, <2>1 DEF OnSocketOpen
  <2>2. CASE RegisterHandler
    BY <1>3, <2>2 DEF RegisterHandler
  <2>3. CASE OpenReturns
    BY <1>3, <2>3 DEF OpenReturns
  <2>4. CASE OpenFails
    BY <1>3, <2>4 DEF OpenFails
  <2> QED
    BY <1>3, <2>1, <2>2, <2>3, <2>4 DEF Acceptor
<1>4. ASSUME LifeInv, Network PROVE RefsMove
  <2> USE DEF LifeInv, LifeTypeOK, NetworkHolds, sockVars
  <2>1. CASE AddNewSockets
    BY <1>4, <2>1 DEF AddNewSockets
  <2>2. CASE SweepDrop
    BY <1>4, <2>2 DEF SweepDrop
  <2>3. CASE HandleAuthSession
    BY <1>4, <2>3 DEF HandleAuthSession
  <2>4. CASE HandleCloseClear
    BY <1>4, <2>4 DEF HandleCloseClear
  <2>5. CASE Sweep \/ SweepClear
    BY <1>1, <2>5 DEF Sweep, SweepClear, Holds
  <2>6. CASE handle_input \/ InputRefused \/ ReceivePacket
    BY <1>1, <2>6 DEF handle_input, InputRefused, ReceivePacket, Holds
  <2>7. CASE handle_close
    BY <1>1, <2>7 DEF handle_close, Holds
  <2>8. CASE AddSession
    BY <1>1, <1>4, <2>8 DEF AddSession, Holds
  <2> QED
    BY <1>4, <2>1, <2>2, <2>3, <2>4, <2>5, <2>6, <2>7, <2>8 DEF Network
<1>5. ASSUME LifeInv, World PROVE RefsMove
  <2> USE DEF LifeInv, LifeTypeOK, WorldHolds, sockVars
  <2>1. CASE RemoveClosed
    BY <1>5, <2>1 DEF RemoveClosed
  <2>2. CASE DestroySession
    BY <1>5, <2>2 DEF DestroySession
  <2>3. CASE AcceptSession
    BY <1>1, <2>3 DEF AcceptSession, Holds
  <2>4. CASE HandleReceived \/ UpdateMaps \/ MapsUpdated
    BY <1>1, <2>4 DEF HandleReceived, UpdateMaps, MapsUpdated, Holds
  <2>5. CASE Kick \/ KickClear
    BY <1>1, <2>5 DEF Kick, KickClear, Holds
  <2>6. CASE Destroy \/ DestroyClear
    BY <1>1, <2>6 DEF Destroy, DestroyClear, Holds
  <2> QED
    BY <1>5, <2>1, <2>2, <2>3, <2>4, <2>5, <2>6 DEF World
<1>6. ASSUME NEW t \in Senders, MapThread(t) PROVE RefsMove
  BY <1>1, <1>6 DEF MapThread, SendFails, SendFailsClear, Holds
<1> QED
  BY <1>2, <1>3, <1>4, <1>5, <1>6 DEF LifeNext

\* So the sum stays right, and below the number of holders.
LEMMA RefsStep == LifeInv /\ [LifeNext]_lifeVars => RefsCounted' /\ refs' \in 0..4
<1> SUFFICES ASSUME LifeInv, [LifeNext]_lifeVars PROVE RefsCounted' /\ refs' \in 0..4
  OBVIOUS
<1>1. /\ {AcceptorRefs, SocketsRefs, ReactorRefs, SessionRefs} \subseteq {0, 1}
      /\ {AcceptorRefs', SocketsRefs', ReactorRefs', SessionRefs'} \subseteq {0, 1}
  BY DEF AcceptorRefs, SocketsRefs, ReactorRefs, SessionRefs
<1>2. refs = AcceptorRefs + SocketsRefs + ReactorRefs + SessionRefs
  BY DEF LifeInv, RefsCounted
<1>3. refs' = AcceptorRefs' + SocketsRefs' + ReactorRefs' + SessionRefs'
  BY <1>1, <1>2, StepMovesRefs DEF RefsMove, Same, Comes, Goes
<1> QED
  BY <1>1, <1>3 DEF RefsCounted

\* _recvQueue stays within the bound.
LEMMA RecvStep == LifeInv /\ [LifeNext]_lifeVars => recv' \in 0..MaxPackets
<1> SUFFICES ASSUME LifeInv, [LifeNext]_lifeVars, recv' # recv PROVE recv' \in 0..MaxPackets
  BY DEF LifeInv, LifeTypeOK
<1>1. recv \in 0..MaxPackets /\ MaxPackets \in Nat
  BY LifeAssumption DEF LifeInv, LifeTypeOK
<1> USE DEF sockVars
<1>2. ~UNCHANGED lifeVars /\ ~Acceptor
  BY DEF lifeVars, Acceptor, OnSocketOpen, RegisterHandler, OpenReturns, OpenFails
<1>3. ASSUME Network PROVE ReceivePacket
  BY <1>3 DEF Network, AddNewSockets, Sweep, SweepClear, SweepDrop, handle_input,
     HandleAuthSession, AddSession, InputRefused, handle_close, HandleCloseClear
<1>4. ASSUME World PROVE HandleReceived \/ RemoveClosed \/ DestroySession
  BY <1>4 DEF World, AcceptSession, Kick, KickClear, Destroy, DestroyClear, UpdateMaps,
     MapsUpdated
<1>5. ASSUME NEW t \in Senders, MapThread(t) PROVE FALSE
  BY <1>5 DEF MapThread, SendFails, SendFailsClear
<1>6. ReceivePacket \/ HandleReceived \/ RemoveClosed \/ DestroySession
  BY <1>2, <1>3, <1>4, <1>5 DEF LifeNext
<1>7. \/ recv' = recv + 1 /\ recv < MaxPackets
      \/ recv' = recv - 1 /\ recv > 0
      \/ recv' = 0
  BY <1>6 DEF ReceivePacket, HandleReceived, RemoveClosed, DestroySession
<1> QED
  BY <1>1, <1>7

\* Each clause of the invariant survives the steps of the acceptor ...
LEMMA AcceptorStep == LifeInv /\ Acceptor => LifeInv'
<1> SUFFICES ASSUME LifeInv, Acceptor PROVE LifeInv'
  OBVIOUS
<1>0. RefsCounted' /\ refs' \in 0..4 /\ recv' \in 0..MaxPackets
  BY RefsStep, RecvStep DEF LifeNext
<1> USE DEF LifeInv, LifeTypeOK, OpenFirst, NetworkHolds, WorldHolds, ClearOwed, QueueGone,
            Clearing, SessionAlive
<1>1. CASE OnSocketOpen
  BY <1>0, <1>1 DEF OnSocketOpen
<1>2. CASE RegisterHandler
  BY <1>0, <1>2 DEF RegisterHandler
<1>3. CASE OpenReturns
  BY <1>0, <1>3 DEF OpenReturns
<1>4. CASE OpenFails
  BY <1>0, <1>4 DEF OpenFails
<1> QED
  BY <1>1, <1>2, <1>3, <1>4 DEF Acceptor

\* ... of the network thread ...
LEMMA NetworkStep == LifeInv /\ Network => LifeInv'
<1> SUFFICES ASSUME LifeInv, Network PROVE LifeInv'
  OBVIOUS
<1>0. RefsCounted' /\ refs' \in 0..4 /\ recv' \in 0..MaxPackets
  BY RefsStep, RecvStep DEF LifeNext
<1> USE DEF LifeInv, LifeTypeOK, OpenFirst, NetworkHolds, WorldHolds, ClearOwed, QueueGone,
            Clearing, SessionAlive
<1>1. CASE AddNewSockets
  BY <1>0, <1>1 DEF AddNewSockets
<1>2. CASE Sweep
  BY <1>0, <1>2 DEF Sweep, sockVars
<1>3. CASE SweepClear
  BY <1>0, <1>3 DEF SweepClear
<1>4. CASE SweepDrop
  BY <1>0, <1>4 DEF SweepDrop
<1>5. CASE handle_input
  BY <1>0, <1>5 DEF handle_input, sockVars
<1>6. CASE HandleAuthSession
  <2>1. LifeTypeOK'
    BY <1>0, <1>6 DEF HandleAuthSession
  <2>2. OpenFirst'
    BY <1>6 DEF HandleAuthSession
  <2>3. NetworkHolds'
    BY <1>6 DEF HandleAuthSession
  <2>4. WorldHolds'
    BY <1>6 DEF HandleAuthSession
  <2>5. ClearOwed'
    <3>1. ~closing_'
      BY <1>6 DEF HandleAuthSession
    <3>2. \/ sess' = "created"
          \/ sess' = "none" /\ ~m_Session'
      BY <1>6 DEF HandleAuthSession
    <3> QED
      BY <3>1, <3>2
  <2>6. QueueGone'
    BY <1>6 DEF HandleAuthSession
  <2> QED
    BY <1>0, <2>1, <2>2, <2>3, <2>4, <2>5, <2>6 DEF LifeInv
<1>7. CASE AddSession
  BY <1>0, <1>7 DEF AddSession, sockVars
<1>8. CASE ReceivePacket
  <2>1. LifeTypeOK'
    BY <1>0, <1>8 DEF ReceivePacket, sockVars
  <2>2. OpenFirst'
    BY <1>8 DEF ReceivePacket, sockVars
  <2>3. NetworkHolds'
    BY <1>8 DEF ReceivePacket, sockVars
  <2>4. WorldHolds'
    BY <1>8 DEF ReceivePacket, sockVars
  <2>5. ClearOwed'
    BY <1>8 DEF ReceivePacket, sockVars
  <2>6. QueueGone'
    BY <1>8 DEF ReceivePacket, sockVars
  <2> QED
    BY <1>0, <2>1, <2>2, <2>3, <2>4, <2>5, <2>6 DEF LifeInv
<1>9. CASE InputRefused
  BY <1>0, <1>9 DEF InputRefused, sockVars
<1>10. CASE handle_close
  BY <1>0, <1>10 DEF handle_close
<1>11. CASE HandleCloseClear
  BY <1>0, <1>11 DEF HandleCloseClear
<1> QED
  BY <1>1, <1>2, <1>3, <1>4, <1>5, <1>6, <1>7, <1>8, <1>9, <1>10, <1>11 DEF Network

\* ... of the world thread ...
LEMMA WorldStep == LifeInv /\ World => LifeInv'
<1> SUFFICES ASSUME LifeInv, World PROVE LifeInv'
  OBVIOUS
<1>0. RefsCounted' /\ refs' \in 0..4 /\ recv' \in 0..MaxPackets
  BY RefsStep, RecvStep DEF LifeNext
<1> USE DEF LifeInv, LifeTypeOK, OpenFirst, NetworkHolds, WorldHolds, ClearOwed, QueueGone,
            Clearing, SessionAlive
<1>1. CASE AcceptSession
  BY <1>0, <1>1 DEF AcceptSession, sockVars
<1>2. CASE HandleReceived
  <2>1. LifeTypeOK'
    BY <1>0, <1>2 DEF HandleReceived, sockVars
  <2>2. OpenFirst'
    BY <1>2 DEF HandleReceived, sockVars
  <2>3. NetworkHolds'
    BY <1>2 DEF HandleReceived, sockVars
  <2>4. WorldHolds'
    BY <1>2 DEF HandleReceived, sockVars
  <2>5. ClearOwed'
    BY <1>2 DEF HandleReceived, sockVars
  <2>6. QueueGone'
    BY <1>2 DEF HandleReceived, sockVars
  <2> QED
    BY <1>0, <2>1, <2>2, <2>3, <2>4, <2>5, <2>6 DEF LifeInv
<1>3. CASE Kick
  BY <1>0, <1>3 DEF Kick
<1>4. CASE KickClear
  BY <1>0, <1>4 DEF KickClear
<1>5. CASE RemoveClosed
  <2>1. LifeTypeOK'
    BY <1>0, <1>5 DEF RemoveClosed
  <2>2. OpenFirst'
    BY <1>5 DEF RemoveClosed
  <2>3. NetworkHolds'
    BY <1>5 DEF RemoveClosed
  <2>4. WorldHolds'
    BY <1>5 DEF RemoveClosed
  <2>5. ClearOwed'
    BY <1>5 DEF RemoveClosed
  <2>6. QueueGone'
    BY <1>5 DEF RemoveClosed
  <2> QED
    BY <1>0, <2>1, <2>2, <2>3, <2>4, <2>5, <2>6 DEF LifeInv
<1>6. CASE Destroy
  BY <1>0, <1>6 DEF Destroy
<1>7. CASE DestroyClear
  BY <1>0, <1>7 DEF DestroyClear
<1>8. CASE DestroySession
  <2>1. LifeTypeOK'
    BY <1>0, <1>8 DEF DestroySession
  <2>2. OpenFirst'
    BY <1>8 DEF DestroySession
  <2>3. NetworkHolds'
    BY <1>8 DEF DestroySession
  <2>4. WorldHolds'
    BY <1>8 DEF DestroySession
  <2>5. ClearOwed'
    BY <1>8 DEF DestroySession
  <2>6. QueueGone'
    BY <1>8 DEF DestroySession
  <2> QED
    BY <1>0, <2>1, <2>2, <2>3, <2>4, <2>5, <2>6 DEF LifeInv
<1>9. CASE UpdateMaps
  BY <1>0, <1>9 DEF UpdateMaps, sockVars
<1>10. CASE MapsUpdated
  BY <1>0, <1>10 DEF MapsUpdated, sockVars
<1> QED
  BY <1>1, <1>2, <1>3, <1>4, <1>5, <1>6, <1>7, <1>8, <1>9, <1>10 DEF World

\* ... and of a map thread.
LEMMA MapThreadStep ==
  ASSUME LifeInv, NEW t \in Senders, MapThread(t)
  PROVE  LifeInv'
<1>0. RefsCounted' /\ refs' \in 0..4 /\ recv' \in 0..MaxPackets
  BY RefsStep, RecvStep DEF LifeNext
<1> USE DEF LifeInv, LifeTypeOK, OpenFirst, NetworkHolds, WorldHolds, ClearOwed, QueueGone,
            Clearing, SessionAlive
<1>1. CASE SendFails(t)
  BY <1>0, <1>1 DEF SendFails
<1>2. CASE SendFailsClear(t)
  BY <1>0, <1>2 DEF SendFailsClear
<1> QED
  BY <1>1, <1>2 DEF MapThread

\* LifeInv is about the variables of the module only.
LEMMA LifeStuttering == LifeInv /\ UNCHANGED lifeVars => LifeInv'
<1> SUFFICES ASSUME LifeInv, UNCHANGED lifeVars PROVE LifeInv'
  OBVIOUS
<1> USE DEF lifeVars, LifeInv, Clearing, SessionAlive
<1>1. LifeTypeOK'
  <2>1. closing_' \in BOOLEAN /\ m_Session' \in BOOLEAN /\ registered' \in BOOLEAN
    BY DEF LifeTypeOK
  <2>2. refs' \in 0..4 /\ recv' \in 0..MaxPackets
    BY DEF LifeTypeOK
  <2>3. apc' = apc /\ npc' = npc /\ listed' = listed /\ sess' = sess /\ wpc' = wpc
    OBVIOUS
  <2>4. spc' \in [Senders -> {"idle", "clear"}]
    BY DEF LifeTypeOK
  <2> QED
    BY <2>1, <2>2, <2>3, <2>4 DEF LifeTypeOK
<1>2. OpenFirst' /\ NetworkHolds' /\ QueueGone'
  BY DEF OpenFirst, NetworkHolds, QueueGone
<1>3. WorldHolds' /\ ClearOwed'
  BY DEF WorldHolds, ClearOwed
<1>4. RefsCounted'
  BY DEF RefsCounted, AcceptorRefs, SocketsRefs, ReactorRefs, SessionRefs
<1> QED
  BY <1>1, <1>2, <1>3, <1>4

\* The clauses of the inductive invariant hold in every reachable state.
THEOREM LifeInvariance == LifeSpec => []LifeInv
<1>1. ASSUME LifeInit PROVE LifeInv
  <2> USE <1>1 DEF LifeInit
  <2>1. LifeTypeOK
    <3>1. recv \in 0..MaxPackets /\ refs \in 0..4
      BY LifeAssumption
    <3>2. spc \in [Senders -> {"idle", "clear"}]
      OBVIOUS
    <3> QED
      BY <3>1, <3>2 DEF LifeTypeOK
  <2>2. RefsCounted
    BY DEF RefsCounted, AcceptorRefs, SocketsRefs, ReactorRefs, SessionRefs, SessionAlive
  <2>3. OpenFirst /\ NetworkHolds /\ QueueGone
    BY DEF OpenFirst, NetworkHolds, QueueGone
  <2>4. WorldHolds /\ ClearOwed
    BY DEF WorldHolds, ClearOwed, Clearing
  <2> QED
    BY <2>1, <2>2, <2>3, <2>4 DEF LifeInv
<1>2. LifeInv /\ [LifeNext]_lifeVars => LifeInv'
  <2> SUFFICES ASSUME LifeInv, [LifeNext]_lifeVars PROVE LifeInv'
    OBVIOUS
  <2>1. CASE UNCHANGED lifeVars
    BY <2>1, LifeStuttering
  <2> QED
    BY <2>1, AcceptorStep, NetworkStep, WorldStep, MapThreadStep DEF LifeNext
<1> QED
  BY <1>1, <1>2, PTL DEF LifeSpec

-----------------------------------------------------------------------------

\* However the threads interleave, each holder of the socket has one reference
\* and there is no other: the socket is deleted with its last holder, not before.
THEOREM ReferencesExact == LifeSpec => []RefsExact
<1>1. LifeInv => RefsExact
  BY RefsSum DEF LifeInv
<1> QED
  BY <1>1, LifeInvariance, PTL

\* The network thread never hands a packet to a session the world thread has
\* deleted, and no packet is queued behind the deletion.
THEOREM SessionsNotUsedDeleted == LifeSpec => []NoDeletedSessionUsed
<1>1. LifeInv => NoDeletedSessionUsed
  BY DEF LifeInv, ClearOwed, QueueGone, NoDeletedSessionUsed
<1> QED
  BY <1>1, LifeInvariance, PTL

\* Whoever is about to touch the WorldSocket finds a reference on it.
THEOREM SocketsNotUsedDeleted == LifeSpec => []NoDeletedSocketUsed
<1>1. ASSUME LifeInv PROVE NoDeletedSocketUsed
  <2> USE <1>1 DEF LifeInv
  <2>1. {AcceptorRefs, SocketsRefs, ReactorRefs, SessionRefs} \subseteq {0, 1}
    BY DEF AcceptorRefs, SocketsRefs, ReactorRefs, SessionRefs
  <2>2. SocketsRefs = 1 \/ ReactorRefs = 1 \/ SessionRefs = 1 => refs > 0
    BY <2>1 DEF RefsCounted
  <2>3. npc # "loop" => listed # "none" \/ registered
    BY DEF LifeTypeOK, NetworkHolds
  <2>4. wpc \in {"kick", "destroy", "delete"} \/ (\E t \in Senders : spc[t] = "clear")
          => SessionAlive
    BY DEF WorldHolds, Clearing, SessionAlive
  <2>5. SessionAlive \/ registered \/ listed # "none" => refs > 0
    BY <2>2 DEF SocketsRefs, ReactorRefs, SessionRefs
  <2> QED
    BY <2>3, <2>4, <2>5 DEF NoDeletedSocketUsed
<1> QED
  BY <1>1, LifeInvariance, PTL
=============================================================================
