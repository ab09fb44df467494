------------------------ MODULE BattlegroundQueueProofs ------------------------
(***************************************************************************)
(* Proofs about BattlegroundQueue, for any players, teams and parties, any *)
(* number of battlegrounds, and any size of a team and of the counters     *)
(* that hold a team and the players.                                       *)
(***************************************************************************)
EXTENDS BattlegroundQueue, FiniteSetTheorems, WellFoundedInduction, TLAPS

\* What a list of groups, players or battlegrounds holds.
Listed(t) == ToSet(premade[t]) \cup ToSet(normal[t])

Running == {"wait_join", "in_progress"}

PlayerTypes ==
  /\ place \in [Players -> {"world", "loading", "offline"}]
  /\ bgInstanceID \in [Players -> 0..MaxInstance]
  /\ slots \subseteq Players
  /\ slotInvite \in [Players -> 0..MaxInstance]

QueueTypes ==
  /\ m_QueuedPlayers \in [Players -> Infos \cup {0}]
  /\ members \in [Infos -> SUBSET Players]
  /\ invitedTo \in [Infos -> 0..MaxInstance]
  /\ premade \in [Teams -> Seq(Infos)] /\ normal \in [Teams -> Seq(Infos)]
  /\ timed \subseteq Players

BgTypes ==
  /\ status \in [Instances -> {"none", "wait_leave"} \cup Running]
  /\ invited \in [Instances -> [Teams -> 0..(CounterSize - 1)]]
  /\ inside \in [Instances -> SUBSET Players]
  /\ offlineQueue \in [Instances -> Seq(Players)]
  /\ freeSlotQueue \in Seq(Instances)

TypeOK == PlayerTypes /\ QueueTypes /\ BgTypes

\* The lists of a team hold the groups of its players, each once.
Lists ==
  /\ \A t \in Teams : /\ IsInjective(premade[t]) /\ IsInjective(normal[t])
                      /\ ToSet(premade[t]) \cap ToSet(normal[t]) = {}
  /\ \A t \in Teams, g \in Infos : g \in Listed(t) <=> \E p \in members[g] : Team[p] = t

\* A GroupQueueInfo and its players know each other; they are of one team.
Grouped ==
  /\ \A p \in Players, g \in Infos : (m_QueuedPlayers[p] = g) <=> (p \in members[g])
  /\ \A g \in Infos : members[g] = {} => invitedTo[g] = 0
  /\ \A g \in Infos : \A p, q \in members[g] : Team[p] = Team[q]

\* Where a player is, and what his slot, his group and the battlegrounds say of him.
Journey(p) ==
  LET g == m_QueuedPlayers[p] IN
  /\ g # 0 => place[p] # "offline" /\ p \in slots /\ slotInvite[p] \in {0, invitedTo[g]}
  /\ p \notin slots => slotInvite[p] = 0
  /\ p \in timed => g # 0
  /\ CASE place[p] = "offline" -> p \notin slots
       [] place[p] = "loading" -> bgInstanceID[p] # 0 =>
            p \in slots /\ slotInvite[p] = bgInstanceID[p] /\ g = 0
       [] place[p] = "world" -> bgInstanceID[p] # 0 => p \in inside[bgInstanceID[p]]
  /\ \A b \in Instances : p \in inside[b] =>
       /\ bgInstanceID[p] = b /\ g = 0 /\ place[p] # "loading"
       /\ place[p] = "world" => p \in slots /\ slotInvite[p] = b

\* A battleground that does not exist has nobody and has invited nobody.
Gone ==
  \A b \in Instances : status[b] = "none" =>
    inside[b] = {} /\ \A t \in Teams : invited[b][t] = 0

\* FillPlayersToBG visits battlegrounds that were listed, and are still.
Filling ==
  phase = "fill" => todo \in Seq(Instances) /\ \A b \in ToSet(todo) : status[b] \in Running

IInv ==
  /\ TypeOK
  /\ Lists
  /\ Grouped
  /\ \A p \in Players : Journey(p)
  /\ Gone
  /\ InvitedCovers
  /\ OfflineQueueSound
  /\ FreeSlotsListed
  /\ Filling

-----------------------------------------------------------------------------
(* Sequences without repetitions: what they hold after an operation.        *)

\* The set and the repetitions of a sequence, by its indices.
LEMMA SequenceElements ==
  ASSUME NEW S, NEW q \in Seq(S)
  PROVE  /\ Len(q) \in Nat /\ DOMAIN q = 1..Len(q)
         /\ ToSet(q) = {q[k] : k \in 1..Len(q)}
         /\ ToSet(q) \subseteq S
         /\ IsInjective(q) <=> \A j, k \in 1..Len(q) : q[j] = q[k] => j = k
<1>1. Len(q) \in Nat /\ DOMAIN q = 1..Len(q) /\ \A k \in 1..Len(q) : q[k] \in S
  OBVIOUS
<1> QED
  BY <1>1 DEF ToSet, IsInjective

\* The empty list.
LEMMA EmptyList ==
  ASSUME NEW S
  PROVE  <<>> \in Seq(S) /\ ToSet(<<>>) = {} /\ IsInjective(<<>>)
BY DEF ToSet, IsInjective

\* push_back.
LEMMA AppendList ==
  ASSUME NEW S, NEW q \in Seq(S), NEW x \in S
  PROVE  LET r == Append(q, x) IN
         /\ r \in Seq(S)
         /\ ToSet(r) = ToSet(q) \cup {x}
         /\ IsInjective(q) /\ x \notin ToSet(q) => IsInjective(r)
<1> DEFINE r == Append(q, x)
<1>1. /\ r \in Seq(S)
      /\ Len(r) = Len(q) + 1
      /\ r[Len(q) + 1] = x
      /\ \A k \in 1..Len(q) : r[k] = q[k]
  OBVIOUS
<1> HIDE DEF r
<1>2. 1..Len(r) = (1..Len(q)) \cup {Len(q) + 1} /\ Len(q) \in Nat
  BY <1>1
<1>3. ToSet(r) = ToSet(q) \cup {x}
  <2>1. ToSet(r) = {r[k] : k \in 1..Len(r)} /\ ToSet(q) = {q[k] : k \in 1..Len(q)}
    BY <1>1, SequenceElements
  <2> QED
    BY <1>1, <1>2, <2>1
<1>4. ASSUME IsInjective(q), x \notin ToSet(q) PROVE IsInjective(r)
  <2>1. \A j, k \in 1..Len(q) : q[j] = q[k] => j = k
    BY <1>4, SequenceElements
  <2>2. \A k \in 1..Len(q) : q[k] # x
    BY <1>4, SequenceElements
  <2>3. \A j, k \in 1..Len(r) : r[j] = r[k] => j = k
    BY <1>1, <1>2, <2>1, <2>2
  <2> QED
    BY <1>1, <2>3, SequenceElements
<1> QED
  BY <1>1, <1>3, <1>4 DEF r

\* push_front.
LEMMA PrependList ==
  ASSUME NEW S, NEW q \in Seq(S), NEW x \in S
  PROVE  LET r == <<x>> \o q IN
         /\ r \in Seq(S)
         /\ ToSet(r) = ToSet(q) \cup {x}
         /\ IsInjective(q) /\ x \notin ToSet(q) => IsInjective(r)
<1> DEFINE r == <<x>> \o q
<1>1. /\ r \in Seq(S)
      /\ Len(r) = Len(q) + 1
      /\ r[1] = x
      /\ \A k \in 1..Len(q) : r[k + 1] = q[k]
  OBVIOUS
<1> HIDE DEF r
<1>2. Len(q) \in Nat
  OBVIOUS
<1>3. \A k \in 1..Len(r) : k = 1 \/ (k - 1 \in 1..Len(q) /\ r[k] = q[k - 1])
  <2> SUFFICES ASSUME NEW k \in 1..Len(r), k # 1
               PROVE  k - 1 \in 1..Len(q) /\ r[k] = q[k - 1]
    OBVIOUS
  <2>1. k - 1 \in 1..Len(q) /\ (k - 1) + 1 = k
    BY <1>1, <1>2
  <2> QED
    BY <1>1, <2>1
<1>4. ToSet(r) = {r[k] : k \in 1..Len(r)} /\ ToSet(q) = {q[k] : k \in 1..Len(q)}
  BY <1>1, SequenceElements
<1>5. \A k \in 1..Len(q) : k + 1 \in 1..Len(r)
  BY <1>1, <1>2
<1>6. ToSet(r) = ToSet(q) \cup {x}
  <2>1. ASSUME NEW y \in ToSet(r) PROVE y \in ToSet(q) \cup {x}
    <3>1. PICK k \in 1..Len(r) : y = r[k]
      BY <1>4
    <3>2. CASE k = 1
      BY <1>1, <3>1, <3>2
    <3>3. CASE k # 1
      <4>1. k - 1 \in 1..Len(q) /\ y = q[k - 1]
        BY <1>3, <3>1, <3>3
      <4> QED
        BY <1>4, <4>1
    <3> QED
      BY <3>2, <3>3
  <2>2. ToSet(q) \subseteq ToSet(r)
    BY <1>1, <1>4, <1>5
  <2>3. x \in ToSet(r)
    BY <1>1, <1>2, <1>4
  <2> QED
    BY <2>1, <2>2, <2>3
<1>7. ASSUME IsInjective(q), x \notin ToSet(q) PROVE IsInjective(r)
  <2>1. \A j, k \in 1..Len(q) : q[j] = q[k] => j = k
    BY <1>7, SequenceElements
  <2>2. \A k \in 1..Len(q) : q[k] # x
    BY <1>4, <1>7
  <2>3. ASSUME NEW j \in 1..Len(r), NEW k \in 1..Len(r), r[j] = r[k] PROVE j = k
    <3>1. CASE j = 1 \/ k = 1
      BY <1>1, <1>3, <2>2, <2>3, <3>1
    <3>2. CASE j # 1 /\ k # 1
      <4>1. j - 1 = k - 1
        BY <1>3, <2>1, <2>3, <3>2
      <4> QED
        BY <4>1
    <3> QED
      BY <3>1, <3>2
  <2> QED
    BY <1>1, <2>3, SequenceElements
<1> QED
  BY <1>1, <1>6, <1>7 DEF r

\* pop_front.
LEMMA TailList ==
  ASSUME NEW S, NEW q \in Seq(S), q # <<>>
  PROVE  /\ Tail(q) \in Seq(S)
         /\ Head(q) \in ToSet(q)
         /\ ToSet(Tail(q)) \subseteq ToSet(q)
         /\ IsInjective(q) => /\ IsInjective(Tail(q))
                              /\ ToSet(Tail(q)) = ToSet(q) \ {Head(q)}
<1> DEFINE r == Tail(q)
<1>1. /\ r \in Seq(S)
      /\ Len(r) = Len(q) - 1
      /\ Head(q) = q[1]
      /\ \A k \in 1..Len(r) : r[k] = q[k + 1]
      /\ Len(q) \in Nat \ {0}
  OBVIOUS
<1> HIDE DEF r
<1>2. \A k \in 1..Len(q) : k = 1 \/ (k - 1 \in 1..Len(r) /\ r[k - 1] = q[k])
  <2> SUFFICES ASSUME NEW k \in 1..Len(q), k # 1
               PROVE  k - 1 \in 1..Len(r) /\ r[k - 1] = q[k]
    OBVIOUS
  <2>1. k - 1 \in 1..Len(r) /\ (k - 1) + 1 = k
    BY <1>1
  <2> QED
    BY <1>1, <2>1
<1>3. \A k \in 1..Len(r) : k + 1 \in 1..Len(q) /\ k + 1 # 1
  BY <1>1
<1>4. 1 \in 1..Len(q)
  BY <1>1
<1>5. ToSet(r) = {r[k] : k \in 1..Len(r)} /\ ToSet(q) = {q[k] : k \in 1..Len(q)}
  BY <1>1, SequenceElements
<1>6. Head(q) \in ToSet(q) /\ ToSet(r) \subseteq ToSet(q)
  BY <1>1, <1>3, <1>4, <1>5
<1>7. ASSUME IsInjective(q)
      PROVE  IsInjective(r) /\ ToSet(r) = ToSet(q) \ {Head(q)}
  <2>1. \A j, k \in 1..Len(q) : q[j] = q[k] => j = k
    BY <1>7, SequenceElements
  <2>2. \A j, k \in 1..Len(r) : r[j] = r[k] => j = k
    <3> SUFFICES ASSUME NEW j \in 1..Len(r), NEW k \in 1..Len(r), r[j] = r[k] PROVE j = k
      OBVIOUS
    <3>1. j + 1 = k + 1
      BY <1>1, <1>3, <2>1
    <3> QED
      BY <3>1
  <2>3. \A k \in 1..Len(r) : r[k] # q[1]
    BY <1>1, <1>3, <1>4, <2>1
  <2>4. ToSet(q) \ {q[1]} \subseteq ToSet(r)
    BY <1>2, <1>5
  <2>5. q[1] \notin ToSet(r)
    BY <1>5, <2>3
  <2>6. IsInjective(r)
    BY <1>1, <2>2, SequenceElements
  <2> QED
    BY <1>1, <1>6, <2>4, <2>5, <2>6
<1> QED
  BY <1>1, <1>6, <1>7 DEF r

\* A list followed by another.
LEMMA JoinLists ==
  ASSUME NEW S, NEW q \in Seq(S), NEW r \in Seq(S)
  PROVE  /\ q \o r \in Seq(S)
         /\ ToSet(q \o r) = ToSet(q) \cup ToSet(r)
         /\ IsInjective(q) /\ IsInjective(r) /\ ToSet(q) \cap ToSet(r) = {} => IsInjective(q \o r)
<1> DEFINE s == q \o r
<1>1. /\ s \in Seq(S)
      /\ Len(s) = Len(q) + Len(r)
      /\ \A k \in 1..Len(s) : s[k] = IF k <= Len(q) THEN q[k] ELSE r[k - Len(q)]
  OBVIOUS
<1>2. Len(q) \in Nat /\ Len(r) \in Nat
  OBVIOUS
<1> HIDE DEF s
<1>3. /\ ToSet(s) = {s[k] : k \in 1..Len(s)}
      /\ ToSet(q) = {q[k] : k \in 1..Len(q)} /\ ToSet(r) = {r[k] : k \in 1..Len(r)}
  BY <1>1, SequenceElements
<1>4. \A k \in 1..Len(s) : IF k <= Len(q) THEN k \in 1..Len(q) /\ s[k] = q[k]
                                          ELSE k - Len(q) \in 1..Len(r) /\ s[k] = r[k - Len(q)]
  BY <1>1, <1>2
<1>5. ToSet(s) \subseteq ToSet(q) \cup ToSet(r)
  BY <1>3, <1>4
<1>6. ToSet(q) \subseteq ToSet(s)
  <2> SUFFICES ASSUME NEW k \in 1..Len(q) PROVE q[k] \in ToSet(s)
    BY <1>3
  <2>1. k \in 1..Len(s) /\ s[k] = q[k]
    BY <1>1, <1>2
  <2> QED
    BY <1>3, <2>1
<1>7. ToSet(r) \subseteq ToSet(s)
  <2> SUFFICES ASSUME NEW k \in 1..Len(r) PROVE r[k] \in ToSet(s)
    BY <1>3
  <2>1. Len(q) + k \in 1..Len(s) /\ ~(Len(q) + k <= Len(q)) /\ (Len(q) + k) - Len(q) = k
    BY <1>1, <1>2
  <2>2. s[Len(q) + k] = r[k]
    BY <1>1, <2>1
  <2> QED
    BY <1>3, <2>1, <2>2
<1>8. ASSUME IsInjective(q), IsInjective(r), ToSet(q) \cap ToSet(r) = {} PROVE IsInjective(s)
  <2>1. /\ \A j, k \in 1..Len(q) : q[j] = q[k] => j = k
        /\ \A j, k \in 1..Len(r) : r[j] = r[k] => j = k
    BY <1>8, SequenceElements
  <2>2. \A j \in 1..Len(q), k \in 1..Len(r) : q[j] # r[k]
    BY <1>3, <1>8
  <2>3. ASSUME NEW j \in 1..Len(s), NEW k \in 1..Len(s), s[j] = s[k] PROVE j = k
    <3>1. CASE j <= Len(q) /\ k <= Len(q)
      BY <1>4, <2>1, <2>3, <3>1
    <3>2. CASE ~(j <= Len(q)) /\ ~(k <= Len(q))
      <4>1. j - Len(q) = k - Len(q)
        BY <1>4, <2>1, <2>3, <3>2
      <4> QED
        BY <1>2, <4>1
    <3>3. CASE j <= Len(q) /\ ~(k <= Len(q))
      BY <1>4, <2>2, <2>3, <3>3
    <3>4. CASE ~(j <= Len(q)) /\ k <= Len(q)
      BY <1>4, <2>2, <2>3, <3>4
    <3> QED
      BY <3>1, <3>2, <3>3, <3>4
  <2> QED
    BY <1>1, <2>3, SequenceElements
<1> QED
  BY <1>1, <1>5, <1>6, <1>7, <1>8 DEF s

\* The erase of an iterator that was found, or not.
LEMMA RemoveList ==
  ASSUME NEW S, NEW q \in Seq(S), NEW x, IsInjective(q)
  PROVE  LET r == RemoveFirst(q, x) IN
         r \in Seq(S) /\ IsInjective(r) /\ ToSet(r) = ToSet(q) \ {x}
<1>1. /\ ToSet(q) = {q[k] : k \in 1..Len(q)} /\ Len(q) \in Nat
      /\ \A j, k \in 1..Len(q) : q[j] = q[k] => j = k
  BY SequenceElements
<1>2. CASE x \notin ToSet(q)
  <2>1. ~\E i \in 1..Len(q) : q[i] = x
    BY <1>1, <1>2
  <2>2. RemoveFirst(q, x) = q
    BY <2>1 DEF RemoveFirst
  <2> QED
    BY <1>2, <2>2
<1>3. CASE x \in ToSet(q)
  <2>1. PICK i \in 1..Len(q) : q[i] = x
    BY <1>1, <1>3
  <2>2. {j \in 1..Len(q) : q[j] = x} = {i}
    BY <1>1, <2>1
  <2>3. Min({i}) = i
    BY <2>1 DEF Min
  <2>4. RemoveFirst(q, x) = RemoveAt(q, i)
    <3>1. SelectInSeq(q, LAMBDA v : v = x) = i
      BY <2>2, <2>3 DEF SelectInSeq
    <3> QED
      BY <2>1, <3>1 DEF RemoveFirst
  <2> DEFINE front == SubSeq(q, 1, i - 1)
             back == SubSeq(q, i + 1, Len(q))
  <2>5. i \in Nat /\ i >= 1 /\ i <= Len(q)
    BY <1>1, <2>1
  <2>6. front \in Seq(S) /\ Len(front) = i - 1 /\ \A k \in 1..Len(front) : front[k] = q[k]
    BY <1>1, <2>5
  <2>7. back \in Seq(S) /\ Len(back) = Len(q) - i /\ \A k \in 1..Len(back) : back[k] = q[i + k]
    <3>1. back \in Seq(S) /\ Len(back) = Len(q) - i
      BY <1>1, <2>5
    <3>2. \A k \in 1..Len(back) : back[k] = q[i + k]
      BY <1>1, <2>5
    <3> QED
      BY <3>1, <3>2
  <2>8. RemoveFirst(q, x) = front \o back
    BY <2>4 DEF RemoveAt
  <2> HIDE DEF front, back
  <2>9. /\ ToSet(front) = {front[k] : k \in 1..Len(front)} /\ ToSet(back) = {back[k] : k \in 1..Len(back)}
        /\ IsInjective(front) <=> \A j, k \in 1..Len(front) : front[j] = front[k] => j = k
        /\ IsInjective(back) <=> \A j, k \in 1..Len(back) : back[j] = back[k] => j = k
    BY <2>6, <2>7, SequenceElements
  <2>10. /\ \A k \in 1..Len(front) : k \in 1..Len(q) /\ k < i
         /\ \A k \in 1..Len(back) : i + k \in 1..Len(q) /\ i + k > i
    BY <1>1, <2>5, <2>6, <2>7
  <2>11. IsInjective(front)
    BY <1>1, <2>6, <2>9, <2>10
  <2>12. IsInjective(back)
    <3> SUFFICES ASSUME NEW j \in 1..Len(back), NEW k \in 1..Len(back), back[j] = back[k] PROVE j = k
      BY <2>9
    <3>1. i + j = i + k
      BY <1>1, <2>7, <2>10
    <3> QED
      BY <2>5, <3>1
  <2>13. ToSet(front) \cap ToSet(back) = {}
    <3> SUFFICES ASSUME NEW j \in 1..Len(front), NEW k \in 1..Len(back), front[j] = back[k] PROVE FALSE
      BY <2>9
    <3>1. j = i + k
      BY <1>1, <2>6, <2>7, <2>10
    <3> QED
      BY <2>5, <2>10, <3>1
  <2>14. ToSet(front) \cup ToSet(back) \subseteq ToSet(q) \ {x}
    <3>1. \A k \in 1..Len(front) : q[k] # x
      BY <1>1, <2>1, <2>10
    <3>2. \A k \in 1..Len(back) : q[i + k] # x
      BY <1>1, <2>1, <2>10
    <3>3. \A k \in 1..Len(front) : front[k] \in ToSet(q) \ {x}
      BY <1>1, <2>6, <2>10, <3>1
    <3>4. \A k \in 1..Len(back) : back[k] \in ToSet(q) \ {x}
      BY <1>1, <2>7, <2>10, <3>2
    <3> QED
      BY <2>9, <3>3, <3>4
  <2>15. ToSet(q) \ {x} \subseteq ToSet(front) \cup ToSet(back)
    <3> SUFFICES ASSUME NEW k \in 1..Len(q), k # i
                 PROVE  q[k] \in ToSet(front) \/ q[k] \in ToSet(back)
      BY <1>1, <2>1
    <3>1. CASE k < i
      <4>1. k \in 1..Len(front)
        BY <2>5, <2>6, <3>1
      <4> QED
        BY <2>6, <2>9, <4>1
    <3>2. CASE ~(k < i)
      <4>1. k - i \in 1..Len(back) /\ i + (k - i) = k
        BY <1>1, <2>5, <2>7, <3>2
      <4>2. back[k - i] = q[k]
        BY <2>7, <4>1
      <4> QED
        BY <2>9, <4>1, <4>2
    <3> QED
      BY <3>1, <3>2
  <2> QED
    BY <2>6, <2>7, <2>8, <2>11, <2>12, <2>13, <2>14, <2>15, JoinLists
<1> QED
  BY <1>2, <1>3

-----------------------------------------------------------------------------
(* The counters of invited players.                                         *)

\* A counter stays in its range; it wraps neither at a team's size nor at 0.
LEMMA Counter ==
  ASSUME NEW n \in 0..(CounterSize - 1), NEW k \in Nat
  PROVE  /\ k <= CounterSize => Down(n, k) \in 0..(CounterSize - 1)
         /\ Up(n, k) \in 0..(CounterSize - 1)
         /\ k <= n => Down(n, k) = n - k
         /\ n + k < CounterSize => Up(n, k) = n + k
<1>1. CounterSize \in Nat /\ CounterSize > 0
  BY QueueAssumption
<1> QED
  BY <1>1 DEF Down, Up

\* Sets of players and their parts.
LEMMA PlayersCount ==
  ASSUME NEW S \in SUBSET Players
  PROVE  /\ IsFiniteSet(S) /\ Cardinality(S) \in Nat
         /\ Cardinality(S) <= Cardinality(Players) /\ Cardinality(S) < CounterSize
         /\ \A T \in SUBSET S : Cardinality(T) <= Cardinality(S)
         /\ S = {} <=> Cardinality(S) = 0
<1>1. IsFiniteSet(Players) /\ IsFiniteSet(S)
  BY QueueAssumption, FS_Subset
<1>2. Cardinality(S) \in Nat /\ Cardinality(Players) \in Nat
  BY <1>1, FS_CardinalityType
<1>3. Cardinality(S) <= Cardinality(Players)
  BY <1>1, FS_Subset
<1>4. \A T \in SUBSET S : Cardinality(T) <= Cardinality(S)
  BY <1>1, FS_Subset
<1>5. S = {} <=> Cardinality(S) = 0
  BY <1>1, FS_EmptySet
<1> QED
  BY <1>1, <1>2, <1>3, <1>4, <1>5, QueueAssumption

\* Who leaves counts no more.
LEMMA PlayersLess ==
  ASSUME NEW S \in SUBSET Players, NEW T \in SUBSET S, NEW R, R \subseteq S \ T
  PROVE  Cardinality(R) <= Cardinality(S) - Cardinality(T)
<1>1. IsFiniteSet(S) /\ IsFiniteSet(T) /\ IsFiniteSet(S \ T)
  BY PlayersCount
<1>2. Cardinality(S \ T) = Cardinality(S) - Cardinality(T)
  <2>1. S \cap T = T
    OBVIOUS
  <2> QED
    BY <1>1, <2>1, FS_Difference
<1>3. Cardinality(R) <= Cardinality(S \ T)
  BY <1>1, FS_Subset
<1>4. /\ Cardinality(S) \in Nat /\ Cardinality(T) \in Nat
      /\ Cardinality(S \ T) \in Nat /\ Cardinality(R) \in Nat
  BY PlayersCount
<1> QED
  BY <1>2, <1>3, <1>4

\* Who comes counts once.
LEMMA PlayersMore ==
  ASSUME NEW S \in SUBSET Players, NEW T \in SUBSET Players, NEW R, R \subseteq S \cup T
  PROVE  Cardinality(R) <= Cardinality(S) + Cardinality(T)
<1>1. IsFiniteSet(S) /\ IsFiniteSet(T) /\ IsFiniteSet(S \cup T)
  BY PlayersCount
<1>2. Cardinality(S \cup T) = Cardinality(S) + Cardinality(T) - Cardinality(S \cap T)
  BY <1>1, FS_Union
<1>3. Cardinality(R) <= Cardinality(S \cup T)
  BY <1>1, FS_Subset
<1>4. /\ Cardinality(S) \in Nat /\ Cardinality(T) \in Nat
      /\ Cardinality(S \cap T) \in Nat /\ Cardinality(S \cup T) \in Nat /\ Cardinality(R) \in Nat
  BY PlayersCount
<1> QED
  BY <1>2, <1>3, <1>4

\* p counts for the battleground b.
Holds(p, b) ==
  \/ m_QueuedPlayers[p] # 0 /\ slotInvite[p] = b
  \/ place[p] = "loading" /\ bgInstanceID[p] = b /\ p \in slots
  \/ p \in inside[b]

\* The counter of a team covers those who count.
Covers(b, t) ==
  /\ Exists(b) => invited[b][t] <= MaxPlayersPerTeam
  /\ Cardinality(Holders(b, t)) <= IF Exists(b) THEN invited[b][t] ELSE 0

\* InvitedCovers and Holders by their parts.
LEMMA CoversParts ==
  /\ InvitedCovers <=> \A b \in Instances : b \notin undercounted => \A t \in Teams : Covers(b, t)
  /\ \A b, t : Holders(b, t) = {p \in Players : Team[p] = t /\ Holds(p, b)}
  /\ \A b, t : Holders(b, t) \in SUBSET Players
BY DEF InvitedCovers, Covers, Holders, Holds

\* The same after a step.
LEMMA CoversPartsNext ==
  /\ InvitedCovers' <=> \A b \in Instances : b \notin undercounted' => \A t \in Teams : Covers(b, t)'
  /\ \A b, t : Holders(b, t)' = {p \in Players : Team[p] = t /\ Holds(p, b)'}
  /\ \A b, t : Holders(b, t)' \in SUBSET Players
BY DEF InvitedCovers, Covers, Holders, Holds

\* The counter of b and t is left alone and nobody comes.
LEMMA CoversSame ==
  ASSUME NEW b \in Instances, NEW t \in Teams, Covers(b, t),
         Holders(b, t)' \subseteq Holders(b, t),
         invited'[b][t] = invited[b][t], Exists(b)' <=> Exists(b), TypeOK
  PROVE  Covers(b, t)'
<1>1. Cardinality(Holders(b, t)') <= Cardinality(Holders(b, t))
  BY CoversParts, PlayersCount
<1>2. Cardinality(Holders(b, t)') \in Nat /\ Cardinality(Holders(b, t)) \in Nat
  BY CoversParts, CoversPartsNext, PlayersCount
<1>3. invited[b][t] \in 0..(CounterSize - 1)
  BY DEF TypeOK, PlayerTypes, BgTypes
<1> QED
  BY <1>1, <1>2, <1>3 DEF Covers

\* It goes down by those who leave.
LEMMA CoversLess ==
  ASSUME NEW b \in Instances, NEW t \in Teams, Covers(b, t), NEW S \in SUBSET Holders(b, t),
         Holders(b, t)' \subseteq Holders(b, t) \ S,
         invited'[b][t] = Down(invited[b][t], Cardinality(S)), Exists(b), Exists(b)', TypeOK
  PROVE  Covers(b, t)'
<1>1. Cardinality(Holders(b, t)') <= Cardinality(Holders(b, t)) - Cardinality(S)
  BY CoversParts, PlayersLess
<1>2. Cardinality(S) <= Cardinality(Holders(b, t))
  BY CoversParts, PlayersCount
<1>3. /\ Cardinality(Holders(b, t)') \in Nat /\ Cardinality(Holders(b, t)) \in Nat
      /\ Cardinality(S) \in Nat
  BY CoversParts, CoversPartsNext, PlayersCount
<1>4. invited[b][t] \in 0..(CounterSize - 1)
  BY DEF TypeOK, PlayerTypes, BgTypes
<1>5. Cardinality(Holders(b, t)) <= invited[b][t] /\ invited[b][t] <= MaxPlayersPerTeam
  BY DEF Covers
<1>6. invited'[b][t] = invited[b][t] - Cardinality(S)
  BY <1>2, <1>3, <1>4, <1>5, Counter
<1> QED
  BY <1>1, <1>2, <1>3, <1>4, <1>5, <1>6, QueueAssumption DEF Covers

\* It goes up by those who come, who fit into the team.
LEMMA CoversMore ==
  ASSUME NEW b \in Instances, NEW t \in Teams, NEW S \in SUBSET Players,
         Holders(b, t)' \subseteq Holders(b, t) \cup S,
         Cardinality(Holders(b, t)) <= invited[b][t],
         invited[b][t] + Cardinality(S) <= MaxPlayersPerTeam,
         invited'[b][t] = Up(invited[b][t], Cardinality(S)), Exists(b)', TypeOK
  PROVE  Covers(b, t)'
<1>1. Cardinality(Holders(b, t)') <= Cardinality(Holders(b, t)) + Cardinality(S)
  BY CoversParts, PlayersMore
<1>2. /\ Cardinality(Holders(b, t)') \in Nat /\ Cardinality(Holders(b, t)) \in Nat
      /\ Cardinality(S) \in Nat
  BY CoversParts, CoversPartsNext, PlayersCount
<1>3. invited[b][t] \in 0..(CounterSize - 1)
  BY DEF TypeOK, PlayerTypes, BgTypes
<1>4. /\ CounterSize \in Nat /\ MaxPlayersPerTeam \in Nat /\ Cardinality(Players) \in Nat
      /\ MaxPlayersPerTeam < CounterSize
  <2>1. Cardinality(Players) \in Nat
    BY PlayersCount
  <2> QED
    BY <2>1, QueueAssumption
<1>5. invited'[b][t] = invited[b][t] + Cardinality(S)
  BY <1>2, <1>3, <1>4, Counter
<1> QED
  BY <1>1, <1>2, <1>3, <1>4, <1>5 DEF Covers

-----------------------------------------------------------------------------
(* Players a step does not touch.                                           *)

\* Nothing that Journey and Holds say of q changes.
SameFor(q) ==
  /\ place'[q] = place[q] /\ bgInstanceID'[q] = bgInstanceID[q]
  /\ (q \in slots') <=> (q \in slots)
  /\ slotInvite'[q] = slotInvite[q]
  /\ m_QueuedPlayers'[q] = m_QueuedPlayers[q]
  /\ m_QueuedPlayers[q] # 0 => invitedTo'[m_QueuedPlayers[q]] = invitedTo[m_QueuedPlayers[q]]
  /\ q \in timed' => q \in timed
  /\ \A b \in Instances : (q \in inside'[b]) <=> (q \in inside[b])

\* Journey and Holds are kept for q.
LEMMA JourneyKept ==
  ASSUME TypeOK, NEW q \in Players, Journey(q), SameFor(q)
  PROVE  Journey(q)'
<1> DEFINE g == m_QueuedPlayers[q]
<1>1. place[q] \in {"world", "loading", "offline"} /\ bgInstanceID[q] \in 0..MaxInstance
  BY DEF TypeOK, PlayerTypes, BgTypes
<1>2. bgInstanceID[q] # 0 => bgInstanceID[q] \in Instances
  BY <1>1, QueueAssumption DEF Instances
<1>3. /\ g # 0 => place'[q] # "offline" /\ q \in slots' /\ slotInvite'[q] \in {0, invitedTo'[g]}
      /\ q \notin slots' => slotInvite'[q] = 0
      /\ q \in timed' => g # 0
  BY DEF Journey, SameFor
<1>4. \A b \in Instances : q \in inside'[b] =>
       /\ bgInstanceID'[q] = b /\ g = 0 /\ place'[q] # "loading"
       /\ place'[q] = "world" => q \in slots' /\ slotInvite'[q] = b
  BY DEF Journey, SameFor
<1>5. place[q] = "offline" => q \notin slots'
  BY DEF Journey, SameFor
<1>6. place[q] = "loading" /\ bgInstanceID'[q] # 0 =>
        q \in slots' /\ slotInvite'[q] = bgInstanceID'[q] /\ g = 0
  BY DEF Journey, SameFor
<1>7. place[q] = "world" /\ bgInstanceID'[q] # 0 => q \in inside'[bgInstanceID'[q]]
  BY <1>2 DEF Journey, SameFor
<1> QED
  BY <1>1, <1>3, <1>4, <1>5, <1>6, <1>7 DEF Journey, SameFor

\* Neither does q come to count for a battleground, nor cease to.
LEMMA HoldsKept ==
  ASSUME NEW q \in Players, SameFor(q), NEW b \in Instances
  PROVE  Holds(q, b)' <=> Holds(q, b)
BY DEF Holds, SameFor

\* A step of the player p alone: the others stay where they are, and p does not come
\* to count for any battleground.
LEMMA OnePlayerHolders ==
  ASSUME NEW p \in Players, \A q \in Players \ {p} : SameFor(q),
         NEW b \in Instances, Holds(p, b)' => Holds(p, b), NEW t \in Teams
  PROVE  Holders(b, t)' \subseteq Holders(b, t)
BY CoversParts, CoversPartsNext, HoldsKept

-----------------------------------------------------------------------------
(* RemovePlayer.                                                            *)

\* A queued player is in a group with a place in the lists of his team only.
LEMMA QueuedGroup ==
  ASSUME QueueTypes, Grouped, NEW p \in Players, m_QueuedPlayers[p] # 0
  PROVE  LET g == m_QueuedPlayers[p] IN
         /\ g \in Infos /\ p \in members[g]
         /\ \A q \in Players \ {p} : m_QueuedPlayers[q] = g => members[g] # {p}
         /\ \A q \in members[g] : Team[q] = Team[p]
         /\ \A h \in Infos : h # g => p \notin members[h]
BY QueueAssumption DEF QueueTypes, Grouped, Infos

\* It takes the player out of the records of the queue, and his group with him if he
\* is its last player.
LEMMA RemovePlayerQueue ==
  ASSUME QueueTypes, Lists, Grouped, NEW p \in Players, m_QueuedPlayers[p] # 0,
         NEW d \in BOOLEAN, RemovePlayer(p, d)
  PROVE  /\ QueueTypes' /\ Lists' /\ Grouped'
         /\ m_QueuedPlayers'[p] = 0 /\ p \notin timed'
         /\ \A q \in Players \ {p} :
              /\ m_QueuedPlayers'[q] = m_QueuedPlayers[q]
              /\ m_QueuedPlayers[q] # 0 =>
                   invitedTo'[m_QueuedPlayers[q]] = invitedTo[m_QueuedPlayers[q]]
              /\ q \in timed' => q \in timed
<1> DEFINE g == m_QueuedPlayers[p]
           last == members[g] = {p}
<1>1. /\ g \in Infos /\ p \in members[g]
      /\ \A q \in Players \ {p} : m_QueuedPlayers[q] = g => members[g] # {p}
      /\ \A q \in members[g] : Team[q] = Team[p]
      /\ \A h \in Infos : h # g => p \notin members[h]
  BY QueuedGroup
<1>2. /\ m_QueuedPlayers' = [m_QueuedPlayers EXCEPT ![p] = 0]
      /\ members' = [members EXCEPT ![g] = @ \ {p}]
      /\ invitedTo' = [invitedTo EXCEPT ![g] = IF last THEN 0 ELSE @]
      /\ premade' = [t \in Teams |-> IF last THEN RemoveFirst(premade[t], g) ELSE premade[t]]
      /\ normal' = [t \in Teams |-> IF last THEN RemoveFirst(normal[t], g) ELSE normal[t]]
      /\ timed' = timed \ {p}
  BY DEF RemovePlayer
<1> HIDE DEF g, last
<1>3. g = m_QueuedPlayers[p] /\ (last <=> members[g] = {p})
  BY DEF g, last
<1>4. ASSUME NEW t \in Teams
      PROVE  /\ premade'[t] \in Seq(Infos) /\ normal'[t] \in Seq(Infos)
             /\ IsInjective(premade'[t]) /\ IsInjective(normal'[t])
             /\ ToSet(premade'[t]) = IF last THEN ToSet(premade[t]) \ {g} ELSE ToSet(premade[t])
             /\ ToSet(normal'[t]) = IF last THEN ToSet(normal[t]) \ {g} ELSE ToSet(normal[t])
  <2>1. /\ premade[t] \in Seq(Infos) /\ normal[t] \in Seq(Infos)
        /\ IsInjective(premade[t]) /\ IsInjective(normal[t])
    BY DEF QueueTypes, Lists
  <2>2. CASE last
    BY <1>2, <2>1, <2>2, RemoveList
  <2>3. CASE ~last
    BY <1>2, <2>1, <2>3
  <2> QED
    BY <2>2, <2>3
<1>5. QueueTypes'
  <2>1. 0 \in 0..MaxInstance
    BY QueueAssumption
  <2>2. m_QueuedPlayers' \in [Players -> Infos \cup {0}] /\ members' \in [Infos -> SUBSET Players]
    BY <1>2 DEF QueueTypes
  <2>3. invitedTo' \in [Infos -> 0..MaxInstance] /\ timed' \subseteq Players
    BY <1>2, <2>1 DEF QueueTypes
  <2>4. premade' \in [Teams -> Seq(Infos)] /\ normal' \in [Teams -> Seq(Infos)]
    <3>1. premade' = [t \in Teams |-> premade'[t]] /\ normal' = [t \in Teams |-> normal'[t]]
      BY <1>2
    <3> QED
      BY <1>4, <3>1
  <2> QED
    BY <2>2, <2>3, <2>4 DEF QueueTypes
<1>6. Lists'
  <2>1. \A t \in Teams : /\ IsInjective(premade'[t]) /\ IsInjective(normal'[t])
                         /\ ToSet(premade'[t]) \cap ToSet(normal'[t]) = {}
    BY <1>4 DEF Lists
  <2>2. ASSUME NEW t \in Teams, NEW h \in Infos
        PROVE  h \in Listed(t)' <=> \E q \in members'[h] : Team[q] = t
    <3>1. h \in Listed(t) <=> \E q \in members[h] : Team[q] = t
      BY DEF Lists
    <3>2. h \in Listed(t)' <=> h \in Listed(t) /\ (last => h # g)
      BY <1>4 DEF Listed
    <3>3. CASE h # g
      <4>1. members'[h] = members[h]
        BY <1>2, <3>3 DEF QueueTypes
      <4> QED
        BY <3>1, <3>2, <3>3, <4>1
    <3>4. CASE h = g /\ last
      <4>1. members'[g] = {}
        BY <1>1, <1>2, <1>3, <3>4 DEF QueueTypes
      <4> QED
        BY <3>2, <3>4, <4>1
    <3>5. CASE h = g /\ ~last
      <4>1. members'[g] = members[g] \ {p} /\ members[g] # {p}
        BY <1>1, <1>2, <1>3, <3>5 DEF QueueTypes
      <4>2. \E q \in members'[g] : Team[q] = Team[p]
        BY <1>1, <4>1
      <4> QED
        BY <1>1, <3>1, <3>2, <3>5, <4>1, <4>2
    <3> QED
      BY <3>3, <3>4, <3>5
  <2> QED
    BY <2>1, <2>2 DEF Lists
<1>7. Grouped'
  <2>1. ASSUME NEW q \in Players, NEW h \in Infos
        PROVE  (m_QueuedPlayers'[q] = h) <=> (q \in members'[h])
    <3>1. (m_QueuedPlayers[q] = h) <=> (q \in members[h])
      BY DEF Grouped
    <3>2. members'[h] = IF h = g THEN members[h] \ {p} ELSE members[h]
      BY <1>2 DEF QueueTypes
    <3>3. m_QueuedPlayers'[q] = IF q = p THEN 0 ELSE m_QueuedPlayers[q]
      BY <1>2 DEF QueueTypes
    <3>4. h # 0
      BY QueueAssumption DEF Infos
    <3> QED
      BY <1>1, <3>1, <3>2, <3>3, <3>4
  <2>2. \A h \in Infos : members'[h] = {} => invitedTo'[h] = 0
    BY <1>1, <1>2, <1>3 DEF Grouped, QueueTypes
  <2>3. \A h \in Infos : \A q, r \in members'[h] : Team[q] = Team[r]
    <3>1. \A h \in Infos : members'[h] \subseteq members[h]
      BY <1>2 DEF QueueTypes
    <3> QED
      BY <3>1 DEF Grouped
  <2> QED
    BY <2>1, <2>2, <2>3 DEF Grouped
<1>8. \A q \in Players \ {p} :
        m_QueuedPlayers[q] # 0 => invitedTo'[m_QueuedPlayers[q]] = invitedTo[m_QueuedPlayers[q]]
  BY <1>1, <1>2, <1>3 DEF QueueTypes
<1>9. m_QueuedPlayers'[p] = 0 /\ \A q \in Players \ {p} : m_QueuedPlayers'[q] = m_QueuedPlayers[q]
  BY <1>2 DEF QueueTypes
<1> QED
  BY <1>2, <1>5, <1>6, <1>7, <1>8, <1>9

\* The counters: if the player was counted, his place is given back; if not, the
\* battleground is from now on one of undercounted.
LEMMA RemovePlayerCounts ==
  ASSUME TypeOK, InvitedCovers, Gone, NEW p \in Players, m_QueuedPlayers[p] # 0, Journey(p),
         RemovePlayer(p, TRUE), m_QueuedPlayers'[p] = 0,
         p \notin slots', status' = status, inside' = inside,
         \A q \in Players \ {p} : SameFor(q)
  PROVE  /\ invited' \in [Instances -> [Teams -> 0..(CounterSize - 1)]]
         /\ InvitedCovers' /\ Gone'
<1> DEFINE c == invitedTo[m_QueuedPlayers[p]]
           counts == Exists(c)
<1>1. /\ invited' = IF counts THEN [invited EXCEPT ![c][Team[p]] = Down(@, 1)] ELSE invited
      /\ undercounted' = IF counts /\ slotInvite[p] # c THEN undercounted \cup {c} ELSE undercounted
  BY DEF RemovePlayer
<1>2. /\ counts => c \in Instances /\ status[c] # "none"
      /\ \A b : Exists(b)' <=> Exists(b)
  BY DEF Exists
<1>3. Team[p] \in Teams /\ CounterSize \in Nat /\ 1 \in Nat /\ 1 <= CounterSize
  <2>1. Cardinality(Players) \in Nat
    BY PlayersCount
  <2> QED
    BY <2>1, QueueAssumption
<1> HIDE DEF c, counts
<1>4. \A b \in Instances, t \in Teams :
        invited'[b][t] = IF counts /\ b = c /\ t = Team[p] THEN Down(invited[b][t], 1) ELSE invited[b][t]
  BY <1>1, <1>2, <1>3 DEF TypeOK, BgTypes
<1>5. invited' \in [Instances -> [Teams -> 0..(CounterSize - 1)]]
  <2>1. CASE counts
    <3>1. Down(invited[c][Team[p]], 1) \in 0..(CounterSize - 1)
      BY <1>2, <1>3, <2>1, Counter DEF TypeOK, BgTypes
    <3> QED
      BY <1>1, <1>2, <1>3, <2>1, <3>1 DEF TypeOK, BgTypes
  <2>2. CASE ~counts
    BY <1>1, <2>2 DEF TypeOK, BgTypes
  <2> QED
    BY <2>1, <2>2
<1>6. Gone'
  <2>1. \A b \in Instances : status[b] = "none" => \A t \in Teams : invited'[b][t] = invited[b][t]
    BY <1>2, <1>4
  <2> QED
    BY <2>1 DEF Gone
<1>7. \A b \in Instances : ~Holds(p, b)'
  BY DEF Holds, Journey
<1>8. ASSUME NEW b \in Instances, b \notin undercounted', NEW t \in Teams
      PROVE  Covers(b, t)'
  <2>1. Covers(b, t) /\ b \notin undercounted
    BY <1>1, <1>8, CoversParts
  <2>2. Holders(b, t)' \subseteq Holders(b, t) \ {p}
    BY <1>7, OnePlayerHolders, CoversPartsNext
  <2>3. CASE counts /\ b = c /\ t = Team[p]
    <3>1. {p} \in SUBSET Holders(b, t)
      <4>1. slotInvite[p] = b
        BY <1>1, <1>8, <2>3
      <4> QED
        BY <2>3, <4>1, CoversParts DEF Holds
    <3>2. Cardinality({p}) = 1
      BY FS_Singleton
    <3>3. Exists(b) /\ Exists(b)'
      BY <1>2, <2>3 DEF counts
    <3> QED
      BY <1>4, <2>1, <2>2, <2>3, <3>1, <3>2, <3>3, CoversLess
  <2>4. CASE ~(counts /\ b = c /\ t = Team[p])
    <3>1. Holders(b, t)' \subseteq Holders(b, t)
      BY <2>2
    <3> QED
      BY <1>2, <1>4, <2>1, <2>4, <3>1, CoversSame
  <2> QED
    BY <2>3, <2>4
<1> QED
  BY <1>5, <1>6, <1>8, CoversPartsNext

-----------------------------------------------------------------------------
(* AddGroup.                                                                *)

\* A new group of players of one team who are not queued.
LEMMA AddGroupQueue ==
  ASSUME QueueTypes, Lists, Grouped, NEW S \in SUBSET Players, NEW leader \in S,
         \A p \in S : Team[p] = Team[leader] /\ m_QueuedPlayers[p] = 0,
         NEW isPremade \in BOOLEAN, AddGroup(leader, S, isPremade)
  PROVE  /\ QueueTypes' /\ Lists' /\ Grouped'
         /\ timed' = timed /\ invitedTo' = invitedTo
         /\ \A q \in Players \ S : m_QueuedPlayers'[q] = m_QueuedPlayers[q]
         /\ \A p \in S : m_QueuedPlayers'[p] # 0
<1> DEFINE t == Team[leader]
<1>1. PICK g \in Infos :
        /\ members[g] = {}
        /\ m_QueuedPlayers' = [p \in Players |-> IF p \in S THEN g ELSE m_QueuedPlayers[p]]
        /\ members' = [members EXCEPT ![g] = S]
        /\ premade' = IF isPremade THEN [premade EXCEPT ![t] = Append(@, g)] ELSE premade
        /\ normal' = IF isPremade THEN normal ELSE [normal EXCEPT ![t] = Append(@, g)]
        /\ invitedTo' = invitedTo /\ timed' = timed
  BY DEF AddGroup
<1>2. t \in Teams /\ g # 0 /\ leader \in Players
  BY QueueAssumption DEF Infos
<1> HIDE DEF t
<1>3. \A u \in Teams : g \notin ToSet(premade[u]) /\ g \notin ToSet(normal[u])
  BY <1>1 DEF Lists, Listed
<1>4. ASSUME NEW u \in Teams
      PROVE  /\ premade'[u] \in Seq(Infos) /\ normal'[u] \in Seq(Infos)
             /\ IsInjective(premade'[u]) /\ IsInjective(normal'[u])
             /\ ToSet(premade'[u]) \cap ToSet(normal'[u]) = {}
             /\ Listed(u)' = IF u = t THEN Listed(u) \cup {g} ELSE Listed(u)
  <2>1. /\ premade[u] \in Seq(Infos) /\ normal[u] \in Seq(Infos)
        /\ IsInjective(premade[u]) /\ IsInjective(normal[u])
        /\ ToSet(premade[u]) \cap ToSet(normal[u]) = {}
    BY DEF QueueTypes, Lists
  <2>2. CASE u # t
    <3>1. premade'[u] = premade[u] /\ normal'[u] = normal[u]
      BY <1>1, <2>2 DEF QueueTypes
    <3> QED
      BY <2>1, <2>2, <3>1 DEF Listed
  <2>3. CASE u = t /\ isPremade
    <3>1. premade'[u] = Append(premade[u], g) /\ normal'[u] = normal[u]
      BY <1>1, <1>2, <2>3 DEF QueueTypes
    <3>2. /\ premade'[u] \in Seq(Infos) /\ IsInjective(premade'[u])
          /\ ToSet(premade'[u]) = ToSet(premade[u]) \cup {g}
      BY <1>3, <2>1, <3>1, AppendList
    <3> QED
      BY <1>3, <2>1, <2>3, <3>1, <3>2 DEF Listed
  <2>4. CASE u = t /\ ~isPremade
    <3>1. normal'[u] = Append(normal[u], g) /\ premade'[u] = premade[u]
      BY <1>1, <1>2, <2>4 DEF QueueTypes
    <3>2. /\ normal'[u] \in Seq(Infos) /\ IsInjective(normal'[u])
          /\ ToSet(normal'[u]) = ToSet(normal[u]) \cup {g}
      BY <1>3, <2>1, <3>1, AppendList
    <3> QED
      BY <1>3, <2>1, <2>4, <3>1, <3>2 DEF Listed
  <2> QED
    BY <2>2, <2>3, <2>4
<1>5. QueueTypes'
  <2>1. premade' = [u \in Teams |-> premade'[u]] /\ normal' = [u \in Teams |-> normal'[u]]
    BY <1>1 DEF QueueTypes
  <2>2. premade' \in [Teams -> Seq(Infos)] /\ normal' \in [Teams -> Seq(Infos)]
    BY <1>4, <2>1
  <2> QED
    BY <1>1, <2>2 DEF QueueTypes
<1>6. Lists'
  <2>1. ASSUME NEW u \in Teams, NEW h \in Infos
        PROVE  h \in Listed(u)' <=> \E q \in members'[h] : Team[q] = u
    <3>1. h \in Listed(u) <=> \E q \in members[h] : Team[q] = u
      BY DEF Lists
    <3>2. members'[h] = IF h = g THEN S ELSE members[h]
      BY <1>1 DEF QueueTypes
    <3>3. (\E q \in S : Team[q] = u) <=> u = t
      BY DEF t
    <3>4. g \notin Listed(u)
      BY <1>3 DEF Listed
    <3> QED
      BY <1>4, <3>1, <3>2, <3>3, <3>4
  <2> QED
    BY <1>4, <2>1 DEF Lists
<1>7. Grouped'
  <2>1. ASSUME NEW q \in Players, NEW h \in Infos
        PROVE  (m_QueuedPlayers'[q] = h) <=> (q \in members'[h])
    <3>1. (m_QueuedPlayers[q] = h) <=> (q \in members[h])
      BY DEF Grouped
    <3>2. /\ members'[h] = IF h = g THEN S ELSE members[h]
          /\ m_QueuedPlayers'[q] = IF q \in S THEN g ELSE m_QueuedPlayers[q]
      BY <1>1 DEF QueueTypes
    <3>3. q \in S => m_QueuedPlayers[q] = 0 /\ h # 0
      BY QueueAssumption DEF Infos
    <3> QED
      BY <1>1, <3>1, <3>2, <3>3
  <2>2. \A h \in Infos : members'[h] = {} => invitedTo'[h] = 0
    BY <1>1 DEF Grouped, QueueTypes
  <2>3. \A h \in Infos : \A q, r \in members'[h] : Team[q] = Team[r]
    BY <1>1 DEF Grouped, QueueTypes
  <2> QED
    BY <2>1, <2>2, <2>3 DEF Grouped
<1>8. /\ \A q \in Players \ S : m_QueuedPlayers'[q] = m_QueuedPlayers[q]
      /\ \A p \in S : m_QueuedPlayers'[p] # 0
  BY <1>1, <1>2
<1> QED
  BY <1>1, <1>5, <1>6, <1>7, <1>8

-----------------------------------------------------------------------------
(* What a step leaves alone keeps its part of the invariant.                *)

\* The battlegrounds and their list.
LEMMA BgKept ==
  ASSUME BgTypes, Gone, FreeSlotsListed, status' = status, invited' = invited,
         inside' = inside, offlineQueue' = offlineQueue, freeSlotQueue' = freeSlotQueue
  PROVE  BgTypes' /\ Gone' /\ FreeSlotsListed'
<1>1. BgTypes'
  BY DEF BgTypes
<1>2. Gone'
  BY DEF Gone
<1>3. FreeSlotsListed'
  BY DEF FreeSlotsListed, HasFreeSlots
<1> QED
  BY <1>1, <1>2, <1>3

\* Nobody comes to count, and the counters stay.
LEMMA CoversKept ==
  ASSUME TypeOK, InvitedCovers, status' = status, invited' = invited,
         undercounted \subseteq undercounted',
         \A b \in Instances, t \in Teams : Holders(b, t)' \subseteq Holders(b, t)
  PROVE  InvitedCovers'
<1>1. ASSUME NEW b \in Instances, b \notin undercounted', NEW t \in Teams PROVE Covers(b, t)'
  <2>1. Covers(b, t)
    BY <1>1, CoversParts
  <2>2. Exists(b)' <=> Exists(b)
    BY DEF Exists
  <2> QED
    BY <2>1, <2>2, CoversSame
<1> QED
  BY <1>1, CoversPartsNext

\* Nobody inside goes offline or comes back.
LEMMA OfflineKept ==
  ASSUME OfflineQueueSound, status' = status, inside' = inside, offlineQueue' = offlineQueue,
         PlayerTypes, BgTypes,
         \A b \in Instances : \A p \in inside[b] : place'[p] = "offline" <=> place[p] = "offline"
  PROVE  OfflineQueueSound'
<1>1. ASSUME NEW b \in Instances, status'[b] \in {"wait_join", "in_progress"}
      PROVE  /\ IsInjective(offlineQueue'[b])
             /\ ToSet(offlineQueue'[b]) = {p \in inside'[b] : place'[p] = "offline"}
  <2>1. {p \in inside'[b] : place'[p] = "offline"} = {p \in inside[b] : place[p] = "offline"}
    OBVIOUS
  <2> QED
    BY <1>1, <2>1 DEF OfflineQueueSound
<1> QED
  BY <1>1 DEF OfflineQueueSound

\* Handlers run while no queue is being filled.
LEMMA FillingIdle == phase' # "fill" => Filling'
BY DEF Filling

\* The loop goes on.
LEMMA FillingKept ==
  ASSUME Filling, phase' = phase, todo' = todo, status' = status
  PROVE  Filling'
BY DEF Filling

\* A step of BattlegroundMgr that changes no record.
LEMMA Idle ==
  ASSUME IInv, UNCHANGED <<playerVars, queueVars, bgVars>>, Filling'
  PROVE  IInv'
<1>1. UNCHANGED <<place, bgInstanceID, slots, slotInvite>>
  BY DEF playerVars
<1>2. UNCHANGED <<m_QueuedPlayers, members, invitedTo, premade, normal, timed>>
  BY DEF queueVars
<1>3. UNCHANGED <<status, invited, inside, offlineQueue, freeSlotQueue, undercounted>>
  BY DEF bgVars
<1>4. TypeOK /\ PlayerTypes /\ QueueTypes /\ BgTypes
  BY DEF IInv, TypeOK
<1>5. PlayerTypes' /\ QueueTypes'
  BY <1>1, <1>2, <1>4 DEF PlayerTypes, QueueTypes
<1>6. Lists' /\ Grouped'
  BY <1>2 DEF IInv, Lists, Listed, Grouped
<1>7. ASSUME NEW q \in Players PROVE SameFor(q)
  BY <1>1, <1>2, <1>3 DEF SameFor
<1>8. \A q \in Players : Journey(q)'
  BY <1>4, <1>7, JourneyKept DEF IInv
<1>9. \A b \in Instances, t \in Teams : Holders(b, t)' \subseteq Holders(b, t)
  BY <1>7, HoldsKept, CoversParts, CoversPartsNext
<1>10. InvitedCovers'
  BY <1>3, <1>4, <1>9, CoversKept DEF IInv
<1>11. BgTypes' /\ Gone' /\ FreeSlotsListed' /\ OfflineQueueSound'
  BY <1>1, <1>3, <1>4, BgKept, OfflineKept DEF IInv
<1> QED
  BY <1>5, <1>6, <1>8, <1>10, <1>11 DEF IInv, TypeOK

-----------------------------------------------------------------------------
(* Joining.                                                                 *)

\* Whoever joins has no slot of the queue: he is in no battleground, nor on the way.
LEMMA Joins ==
  ASSUME IInv, NEW S \in SUBSET Players, NEW leader \in S,
         \A p \in S : Team[p] = Team[leader] /\ place[p] # "offline" /\ p \notin slots,
         NEW isPremade \in BOOLEAN, AddGroup(leader, S, isPremade),
         slots' = slots \cup S,
         slotInvite' \in [Players -> 0..MaxInstance],
         \A p \in Players : slotInvite'[p] = IF p \in S THEN 0 ELSE slotInvite[p],
         phase = "handlers",
         UNCHANGED <<place, bgInstanceID, bgVars, phase, todo>>
  PROVE  IInv'
<1>1. TypeOK /\ QueueTypes /\ PlayerTypes /\ BgTypes /\ Lists /\ Grouped
  BY DEF IInv, TypeOK
<1>2. \A p \in S : m_QueuedPlayers[p] = 0
  BY DEF IInv, Journey
<1>3. /\ QueueTypes' /\ Lists' /\ Grouped'
      /\ timed' = timed /\ invitedTo' = invitedTo
      /\ \A q \in Players \ S : m_QueuedPlayers'[q] = m_QueuedPlayers[q]
      /\ \A p \in S : m_QueuedPlayers'[p] # 0
  BY <1>1, <1>2, AddGroupQueue
<1>4. UNCHANGED <<place, bgInstanceID, status, invited, inside, offlineQueue, freeSlotQueue, undercounted>>
  BY DEF bgVars
<1>5. PlayerTypes'
  BY <1>1, <1>4 DEF PlayerTypes
<1>6. ASSUME NEW q \in Players \ S PROVE SameFor(q)
  BY <1>3, <1>4 DEF SameFor
<1>7. ASSUME NEW p \in S
      PROVE  bgInstanceID[p] = 0 /\ (\A b \in Instances : p \notin inside[b]) /\ Journey(p)'
  <2>1. /\ Journey(p) /\ place[p] # "offline" /\ p \notin slots /\ p \in slots'
        /\ slotInvite'[p] = 0 /\ place[p] \in {"world", "loading", "offline"}
    BY <1>1 DEF IInv, PlayerTypes
  <2>2. \A b \in Instances : p \notin inside[b]
    BY <2>1 DEF Journey
  <2>3. bgInstanceID[p] = 0
    <3>1. bgInstanceID[p] \in 0..MaxInstance
      BY <1>1 DEF PlayerTypes
    <3>2. bgInstanceID[p] # 0 => bgInstanceID[p] \in Instances
      BY <3>1, QueueAssumption DEF Instances
    <3> QED
      BY <2>1, <2>2, <3>2 DEF Journey
  <2> QED
    BY <1>3, <1>4, <2>1, <2>2, <2>3 DEF Journey
<1>8. \A p \in Players : Journey(p)'
  BY <1>1, <1>6, <1>7, JourneyKept DEF IInv
<1>9. ASSUME NEW b \in Instances, NEW t \in Teams PROVE Holders(b, t)' \subseteq Holders(b, t)
  <2>1. \A p \in S : ~Holds(p, b)'
    <3>1. b # 0
      BY QueueAssumption DEF Instances
    <3> QED
      BY <1>4, <1>7, <3>1 DEF Holds
  <2> QED
    BY <1>6, <2>1, HoldsKept, CoversParts, CoversPartsNext
<1>10. InvitedCovers'
  BY <1>1, <1>4, <1>9, CoversKept DEF IInv
<1>11. BgTypes' /\ Gone' /\ FreeSlotsListed' /\ OfflineQueueSound'
  BY <1>1, <1>4, BgKept, OfflineKept DEF IInv
<1> QED
  BY <1>3, <1>5, <1>8, <1>10, <1>11, FillingIdle DEF IInv, TypeOK

\* HandleBattlemasterJoinOpcode of a player ...
LEMMA JoinAloneStep ==
  ASSUME IInv, NEW p \in Players, JoinAlone(p)
  PROVE  IInv'
<1>1. slotInvite' = [slotInvite EXCEPT ![p] = 0] /\ slotInvite \in [Players -> 0..MaxInstance]
  BY DEF JoinAlone, IInv, TypeOK, PlayerTypes
<1>2. /\ slotInvite' \in [Players -> 0..MaxInstance]
      /\ \A q \in Players : slotInvite'[q] = IF q \in {p} THEN 0 ELSE slotInvite[q]
  <2>1. 0 \in 0..MaxInstance
    BY QueueAssumption
  <2> QED
    BY <1>1, <2>1
<1> QED
  BY <1>2, Joins DEF JoinAlone, Handling

\* ... and of a group, whose members may refuse it.
LEMMA JoinAsGroupStep ==
  ASSUME IInv, NEW party \in Parties, NEW leader \in party, JoinAsGroup(leader, party)
  PROVE  IInv'
<1>1. party \in SUBSET Players /\ \A p \in party : Team[p] = Team[leader]
  BY QueueAssumption
<1>2. CASE \A p \in party : place[p] # "offline" /\ p \notin slots
  <2>1. slotInvite' = [p \in Players |-> IF p \in party THEN 0 ELSE slotInvite[p]]
    BY <1>2 DEF JoinAsGroup
  <2>2. slotInvite \in [Players -> 0..MaxInstance] /\ 0 \in 0..MaxInstance
    BY QueueAssumption DEF IInv, TypeOK, PlayerTypes
  <2>3. slotInvite' \in [Players -> 0..MaxInstance]
    BY <2>1, <2>2
  <2>4. (Cardinality(party) >= MinPlayersPerTeam) \in BOOLEAN
    OBVIOUS
  <2> QED
    BY <1>1, <1>2, <2>1, <2>3, <2>4, Joins DEF JoinAsGroup, Handling
<1>3. CASE ~\A p \in party : place[p] # "offline" /\ p \notin slots
  <2>1. UNCHANGED <<playerVars, queueVars, bgVars>> /\ phase' # "fill"
    BY <1>3 DEF JoinAsGroup, Handling, playerVars
  <2> QED
    BY <2>1, FillingIdle, Idle
<1> QED
  BY <1>2, <1>3

-----------------------------------------------------------------------------
(* Players who leave a battleground, and the list of those with free slots. *)

\* The counters of b go down by the players S who leave it for good.
LEMMA ParticipantsLeave ==
  ASSUME TypeOK, InvitedCovers, Gone, NEW b \in Instances, status[b] # "none",
         NEW S \in SUBSET inside[b], RemoveParticipants(b, S), undercounted' = undercounted,
         \A c \in Instances : status'[c] = "none" <=> status[c] = "none",
         \A q \in Players \ S : SameFor(q),
         \A p \in S, c \in Instances : ~Holds(p, c)'
  PROVE  /\ invited' \in [Instances -> [Teams -> 0..(CounterSize - 1)]]
         /\ inside' \in [Instances -> SUBSET Players]
         /\ inside'[b] = inside[b] \ S
         /\ \A c \in Instances \ {b} : inside'[c] = inside[c]
         /\ Gone' /\ InvitedCovers'
<1> DEFINE mates(t) == {p \in S : Team[p] = t}
<1>1. /\ inside' = [inside EXCEPT ![b] = @ \ S]
      /\ invited' = [invited EXCEPT ![b] = [t \in Teams |-> Down(@[t], OfTeam(S, t))]]
  BY DEF RemoveParticipants
<1>2. S \in SUBSET Players
  BY DEF TypeOK, BgTypes
<1>3. ASSUME NEW t \in Teams
      PROVE  /\ mates(t) \in SUBSET Players /\ OfTeam(S, t) = Cardinality(mates(t))
             /\ OfTeam(S, t) \in Nat /\ OfTeam(S, t) <= CounterSize
  <2>1. mates(t) \in SUBSET Players /\ OfTeam(S, t) = Cardinality(mates(t))
    BY <1>2 DEF OfTeam
  <2>2. Cardinality(mates(t)) \in Nat /\ Cardinality(mates(t)) < CounterSize
    BY <2>1, PlayersCount
  <2> QED
    BY <2>1, <2>2, QueueAssumption
<1>4. \A c \in Instances, t \in Teams :
        invited'[c][t] = IF c = b THEN Down(invited[c][t], OfTeam(S, t)) ELSE invited[c][t]
  BY <1>1 DEF TypeOK, BgTypes
<1>5. invited' \in [Instances -> [Teams -> 0..(CounterSize - 1)]]
  <2>1. \A t \in Teams : Down(invited[b][t], OfTeam(S, t)) \in 0..(CounterSize - 1)
    BY <1>3, Counter DEF TypeOK, BgTypes
  <2>2. [t \in Teams |-> Down(invited[b][t], OfTeam(S, t))] \in [Teams -> 0..(CounterSize - 1)]
    BY <2>1
  <2> QED
    BY <1>1, <2>2 DEF TypeOK, BgTypes
<1>6. /\ inside' \in [Instances -> SUBSET Players]
      /\ inside'[b] = inside[b] \ S
      /\ \A c \in Instances \ {b} : inside'[c] = inside[c]
  BY <1>1 DEF TypeOK, BgTypes
<1>7. Gone'
  BY <1>4, <1>6 DEF Gone
<1>8. ASSUME NEW c \in Instances, c \notin undercounted', NEW t \in Teams
      PROVE  Covers(c, t)'
  <2>1. Covers(c, t)
    BY <1>8, CoversParts
  <2>2. Exists(c)' <=> Exists(c)
    BY DEF Exists
  <2>3. Holders(c, t)' \subseteq Holders(c, t) \ S
    BY CoversParts, CoversPartsNext, HoldsKept
  <2>4. CASE c = b
    <3>1. mates(t) \in SUBSET Holders(b, t)
      BY <1>2, CoversParts DEF Holds
    <3>2. Exists(b)
      BY DEF Exists
    <3>3. Holders(c, t)' \subseteq Holders(c, t) \ mates(t)
      BY <2>3
    <3> QED
      BY <1>3, <1>4, <2>1, <2>2, <2>4, <3>1, <3>2, <3>3, CoversLess
  <2>5. CASE c # b
    <3>1. Holders(c, t)' \subseteq Holders(c, t) /\ invited'[c][t] = invited[c][t]
      BY <1>4, <2>3, <2>5
    <3> QED
      BY <2>1, <2>2, <3>1, CoversSame
  <2> QED
    BY <2>4, <2>5
<1> QED
  BY <1>5, <1>6, <1>7, <1>8, CoversPartsNext

\* FreeSlotsListed after a step that concerns b only.
LEMMA ListChanges ==
  ASSUME FreeSlotsListed, NEW b \in Instances, freeSlotQueue' \in Seq(Instances),
         IsInjective(freeSlotQueue'),
         \A c \in Instances \ {b} : /\ status'[c] = status[c] /\ inside'[c] = inside[c]
                                    /\ c \in ToSet(freeSlotQueue') <=> c \in ToSet(freeSlotQueue),
         b \in ToSet(freeSlotQueue') => status'[b] \in {"wait_join", "in_progress"},
         status'[b] \in {"wait_join", "in_progress"} /\ HasFreeSlots(b)' => b \in ToSet(freeSlotQueue')
  PROVE  FreeSlotsListed'
<1>1. \A c \in ToSet(freeSlotQueue') : status'[c] \in {"wait_join", "in_progress"}
  <2>1. ToSet(freeSlotQueue') \subseteq Instances
    BY SequenceElements
  <2> QED
    BY <2>1 DEF FreeSlotsListed
<1>2. \A c \in Instances \ {b} : HasFreeSlots(c)' <=> HasFreeSlots(c)
  BY DEF HasFreeSlots
<1>3. \A c \in Instances : status'[c] \in {"wait_join", "in_progress"} /\ HasFreeSlots(c)' =>
        c \in ToSet(freeSlotQueue')
  BY <1>2 DEF FreeSlotsListed
<1> QED
  BY <1>1, <1>3 DEF FreeSlotsListed

\* AddToBGFreeSlotQueue and RemoveFromBGFreeSlotQueue.
LEMMA ListOperations ==
  ASSUME BgTypes, FreeSlotsListed, NEW b \in Instances
  PROVE  LET added == AddToBGFreeSlotQueue(b)
             removed == RemoveFirst(freeSlotQueue, b)
         IN  /\ added \in Seq(Instances) /\ IsInjective(added)
             /\ ToSet(added) = ToSet(freeSlotQueue) \cup {b}
             /\ removed \in Seq(Instances) /\ IsInjective(removed)
             /\ ToSet(removed) = ToSet(freeSlotQueue) \ {b}
<1>1. freeSlotQueue \in Seq(Instances) /\ IsInjective(freeSlotQueue)
  BY DEF BgTypes, FreeSlotsListed
<1>2. CASE b \in ToSet(freeSlotQueue)
  BY <1>1, <1>2, RemoveList DEF AddToBGFreeSlotQueue
<1>3. CASE b \notin ToSet(freeSlotQueue)
  BY <1>1, <1>3, RemoveList, PrependList DEF AddToBGFreeSlotQueue
<1> QED
  BY <1>2, <1>3

\* The list after RemovePlayerAtLeave.
LEMMA ListAfterLeave ==
  ASSUME BgTypes, FreeSlotsListed, NEW b \in Instances, status[b] # "none",
         status' = status, NEW S \in SUBSET inside[b],
         inside' \in [Instances -> SUBSET Players], inside'[b] = inside[b] \ S,
         \A c \in Instances \ {b} : inside'[c] = inside[c],
         freeSlotQueue' = IF S # {} /\ status[b] # "wait_leave" THEN AddToBGFreeSlotQueue(b)
                                                                ELSE freeSlotQueue
  PROVE  freeSlotQueue' \in Seq(Instances) /\ FreeSlotsListed'
<1>1. status[b] \in {"wait_join", "in_progress", "wait_leave"}
  BY DEF BgTypes, Running
<1>2. CASE S # {} /\ status[b] # "wait_leave"
  <2>1. /\ freeSlotQueue' \in Seq(Instances) /\ IsInjective(freeSlotQueue')
        /\ ToSet(freeSlotQueue') = ToSet(freeSlotQueue) \cup {b}
    BY <1>2, ListOperations
  <2> QED
    BY <1>1, <1>2, <2>1, ListChanges
<1>3. CASE status[b] = "wait_leave"
  <2>1. freeSlotQueue' = freeSlotQueue
    BY <1>3
  <2>2. b \notin ToSet(freeSlotQueue)
    BY <1>3 DEF FreeSlotsListed
  <2> QED
    BY <1>3, <2>1, <2>2, ListChanges DEF BgTypes, FreeSlotsListed
<1>4. CASE S = {}
  <2>1. inside' = inside /\ freeSlotQueue' = freeSlotQueue
    BY <1>4 DEF BgTypes
  <2> QED
    BY <2>1 DEF FreeSlotsListed, HasFreeSlots, BgTypes
<1> QED
  BY <1>2, <1>3, <1>4

-----------------------------------------------------------------------------
(* Steps of one player.                                                     *)

\* The types and the clauses of one player, and where his battleground is.
LEMMA PlayerFacts ==
  ASSUME IInv, NEW p \in Players
  PROVE  /\ TypeOK /\ PlayerTypes /\ QueueTypes /\ BgTypes /\ Journey(p)
         /\ place[p] \in {"world", "loading", "offline"}
         /\ bgInstanceID[p] \in 0..MaxInstance /\ slotInvite[p] \in 0..MaxInstance
         /\ bgInstanceID[p] # 0 => bgInstanceID[p] \in Instances
         /\ 0 \in 0..MaxInstance /\ 0 \notin Instances
         /\ m_QueuedPlayers[p] # 0 =>
              m_QueuedPlayers[p] \in Infos /\ invitedTo[m_QueuedPlayers[p]] \in 0..MaxInstance
BY QueueAssumption DEF IInv, TypeOK, PlayerTypes, QueueTypes, Instances

\* Nobody comes to count: the counters still cover everybody.
LEMMA OnePlayerCovers ==
  ASSUME IInv, NEW p \in Players, \A q \in Players \ {p} : SameFor(q),
         \A b \in Instances : Holds(p, b)' => Holds(p, b),
         status' = status, invited' = invited, undercounted' = undercounted
  PROVE  InvitedCovers'
<1>1. \A b \in Instances, t \in Teams : Holders(b, t)' \subseteq Holders(b, t)
  BY OnePlayerHolders
<1> QED
  BY <1>1, CoversKept DEF IInv

\* His records alone change, to consistent ones.
LEMMA OnePlayerJourneys ==
  ASSUME IInv, NEW p \in Players, \A q \in Players \ {p} : SameFor(q), Journey(p)'
  PROVE  \A q \in Players : Journey(q)'
BY JourneyKept DEF IInv

\* A far teleport of somebody who is in no battleground.
LEMMA TeleportToStep ==
  ASSUME IInv, NEW p \in Players, TeleportTo(p)
  PROVE  IInv'
<1>1. /\ phase' = "handlers" /\ place[p] = "world" /\ bgInstanceID[p] = 0
      /\ place' = [place EXCEPT ![p] = "loading"]
      /\ UNCHANGED <<bgInstanceID, slots, slotInvite, m_QueuedPlayers, members, invitedTo, premade,
                     normal, timed, status, invited, inside, offlineQueue, freeSlotQueue, undercounted>>
  BY DEF TeleportTo, Handling, queueVars, bgVars, mgrVars
<1>2. /\ TypeOK /\ PlayerTypes /\ QueueTypes /\ BgTypes /\ Journey(p)
      /\ 0 \notin Instances
  BY PlayerFacts
<1>3. \A b \in Instances : p \notin inside[b]
  BY <1>1, <1>2 DEF Journey
<1>4. /\ PlayerTypes' /\ QueueTypes' /\ Lists' /\ Grouped'
      /\ place'[p] = "loading" /\ \A q \in Players \ {p} : place'[q] = place[q]
  BY <1>1, <1>2 DEF PlayerTypes, QueueTypes, IInv, Lists, Listed, Grouped
<1>5. \A q \in Players \ {p} : SameFor(q)
  BY <1>1, <1>4 DEF SameFor
<1>6. Journey(p)'
  BY <1>1, <1>2, <1>3, <1>4 DEF Journey
<1>7. \A b \in Instances : Holds(p, b)' => Holds(p, b)
  BY <1>1, <1>2, <1>3 DEF Holds
<1>8. InvitedCovers'
  BY <1>1, <1>5, <1>7, OnePlayerCovers
<1>9. BgTypes' /\ Gone' /\ FreeSlotsListed' /\ OfflineQueueSound'
  BY <1>1, <1>2, <1>3, <1>4, BgKept, OfflineKept DEF IInv, BgTypes
<1>10. \A q \in Players : Journey(q)'
  BY <1>5, <1>6, OnePlayerJourneys
<1> QED
  BY <1>1, <1>4, <1>8, <1>9, <1>10, FillingIdle DEF IInv, TypeOK

\* The player arrives; if his battleground does not exist any more, at home.
LEMMA WorldportAckStep ==
  ASSUME IInv, NEW p \in Players, WorldportAck(p)
  PROVE  IInv'
<1> DEFINE c == bgInstanceID[p]
<1>1. /\ phase' = "handlers" /\ place[p] = "loading"
      /\ place' = [place EXCEPT ![p] = "world"]
      /\ inside' = IF Exists(c) /\ slotInvite[p] = c THEN [inside EXCEPT ![c] = @ \cup {p}] ELSE inside
      /\ bgInstanceID' = [bgInstanceID EXCEPT ![p] = IF Exists(c) THEN c ELSE 0]
      /\ UNCHANGED <<slots, slotInvite, m_QueuedPlayers, members, invitedTo, premade,
                     normal, timed, status, invited, offlineQueue, freeSlotQueue, undercounted>>
  BY DEF WorldportAck, queueVars, mgrVars
<1>2. /\ TypeOK /\ PlayerTypes /\ QueueTypes /\ BgTypes /\ Journey(p)
      /\ 0 \in 0..MaxInstance /\ 0 \notin Instances
      /\ c \in 0..MaxInstance /\ (c # 0 => c \in Instances)
  BY PlayerFacts
<1>3. \A b \in Instances : p \notin inside[b]
  BY <1>1, <1>2 DEF Journey
<1>4. c # 0 => p \in slots /\ slotInvite[p] = c /\ m_QueuedPlayers[p] = 0
  BY <1>1, <1>2 DEF Journey
<1>5. Exists(c) <=> c \in Instances /\ status[c] # "none"
  BY DEF Exists
<1> HIDE DEF c
<1>6. /\ PlayerTypes' /\ QueueTypes' /\ Lists' /\ Grouped'
      /\ place'[p] = "world" /\ bgInstanceID'[p] = (IF Exists(c) THEN c ELSE 0)
      /\ \A q \in Players \ {p} : place'[q] = place[q] /\ bgInstanceID'[q] = bgInstanceID[q]
  BY <1>1, <1>2 DEF PlayerTypes, QueueTypes, IInv, Lists, Listed, Grouped
<1>7. \A b \in Instances : inside'[b] = IF Exists(c) /\ b = c THEN inside[b] \cup {p} ELSE inside[b]
  BY <1>1, <1>2, <1>4, <1>5 DEF BgTypes
<1>8. \A q \in Players \ {p} : SameFor(q)
  BY <1>1, <1>6, <1>7 DEF SameFor
<1>9. Journey(p)'
  <2>1. \A b \in Instances : p \in inside'[b] <=> Exists(c) /\ b = c
    BY <1>3, <1>7
  <2> QED
    BY <1>1, <1>2, <1>4, <1>5, <1>6, <2>1 DEF Journey
<1>10. \A b \in Instances : Holds(p, b)' => Holds(p, b)
  <2> SUFFICES ASSUME NEW b \in Instances, Holds(p, b)' PROVE Holds(p, b)
    OBVIOUS
  <2>1. CASE m_QueuedPlayers[p] # 0 /\ slotInvite[p] = b
    BY <2>1 DEF Holds
  <2>2. CASE Exists(c) /\ b = c
    BY <1>1, <1>2, <1>4, <1>5, <2>2 DEF Holds, c
  <2> QED
    BY <1>1, <1>3, <1>6, <1>7, <2>1, <2>2 DEF Holds
<1>11. InvitedCovers'
  BY <1>1, <1>8, <1>10, OnePlayerCovers
<1>12. \A q \in Players : Journey(q)'
  BY <1>8, <1>9, OnePlayerJourneys
<1>13. BgTypes'
  <2>1. inside' \in [Instances -> SUBSET Players]
    BY <1>1, <1>2 DEF BgTypes
  <2> QED
    BY <1>1, <1>2, <2>1 DEF BgTypes
<1>14. Gone'
  BY <1>1, <1>5, <1>7 DEF Gone, IInv
<1>15. FreeSlotsListed'
  <2>1. \A b \in Instances : HasFreeSlots(b)' => HasFreeSlots(b)
    <3> SUFFICES ASSUME NEW b \in Instances, HasFreeSlots(b)' PROVE HasFreeSlots(b)
      OBVIOUS
    <3>1. inside'[b] \in SUBSET Players /\ inside[b] \in SUBSET inside'[b]
      BY <1>2, <1>7, <1>13 DEF BgTypes
    <3>2. /\ Cardinality(inside[b]) <= Cardinality(inside'[b])
          /\ Cardinality(inside[b]) \in Nat /\ Cardinality(inside'[b]) \in Nat
      BY <3>1, PlayersCount
    <3> QED
      BY <3>2, QueueAssumption DEF HasFreeSlots
  <2> QED
    BY <1>1, <2>1 DEF FreeSlotsListed, IInv
<1>16. OfflineQueueSound'
  <2>1. \A b \in Instances :
          {q \in inside'[b] : place'[q] = "offline"} = {q \in inside[b] : place[q] = "offline"}
    <3> SUFFICES ASSUME NEW b \in Instances, NEW q
                 PROVE  q \in inside'[b] /\ place'[q] = "offline" <=>
                          q \in inside[b] /\ place[q] = "offline"
      OBVIOUS
    <3>1. inside[b] \subseteq Players
      BY <1>2 DEF BgTypes
    <3> QED
      BY <1>3, <1>6, <1>7, <3>1
  <2> QED
    BY <1>1, <2>1 DEF OfflineQueueSound, IInv
<1> QED
  BY <1>1, <1>6, <1>11, <1>12, <1>13, <1>14, <1>15, <1>16, FillingIdle DEF IInv, TypeOK

\* The invited player enters: he counts as one who is on his way.
LEMMA EnterBattleStep ==
  ASSUME IInv, NEW p \in Players, EnterBattle(p)
  PROVE  IInv'
<1> DEFINE c == invitedTo[m_QueuedPlayers[p]]
<1>1. /\ phase' = "handlers" /\ place[p] = "world" /\ p \in slots /\ m_QueuedPlayers[p] # 0
      /\ Exists(c) /\ slotInvite[p] # 0
      /\ RemovePlayer(p, FALSE)
      /\ bgInstanceID' = [bgInstanceID EXCEPT ![p] = c]
      /\ place' = [place EXCEPT ![p] = "loading"]
      /\ invited' = invited /\ undercounted' = undercounted
      /\ UNCHANGED <<slots, slotInvite, status, inside, offlineQueue, freeSlotQueue>>
  BY DEF EnterBattle, Handling, mgrVars, RemovePlayer
<1>2. /\ TypeOK /\ PlayerTypes /\ QueueTypes /\ BgTypes /\ Journey(p)
      /\ c \in 0..MaxInstance /\ 0 \notin Instances
  BY <1>1, PlayerFacts
<1>3. slotInvite[p] = c /\ \A b \in Instances : p \notin inside[b]
  BY <1>1, <1>2 DEF Journey
<1>4. /\ QueueTypes' /\ Lists' /\ Grouped'
      /\ m_QueuedPlayers'[p] = 0 /\ p \notin timed'
      /\ \A q \in Players \ {p} :
           /\ m_QueuedPlayers'[q] = m_QueuedPlayers[q]
           /\ m_QueuedPlayers[q] # 0 =>
                invitedTo'[m_QueuedPlayers[q]] = invitedTo[m_QueuedPlayers[q]]
           /\ q \in timed' => q \in timed
  BY <1>1, <1>2, RemovePlayerQueue DEF IInv
<1> HIDE DEF c
<1>5. /\ PlayerTypes'
      /\ place'[p] = "loading" /\ bgInstanceID'[p] = c
      /\ \A q \in Players \ {p} : place'[q] = place[q] /\ bgInstanceID'[q] = bgInstanceID[q]
  BY <1>1, <1>2 DEF PlayerTypes
<1>6. \A q \in Players \ {p} : SameFor(q)
  BY <1>1, <1>4, <1>5 DEF SameFor
<1>7. Journey(p)'
  BY <1>1, <1>3, <1>4, <1>5 DEF Journey
<1>8. \A b \in Instances : Holds(p, b)' => Holds(p, b)
  BY <1>1, <1>3, <1>4, <1>5 DEF Holds
<1>9. InvitedCovers'
  BY <1>1, <1>6, <1>8, OnePlayerCovers
<1>10. \A q \in Players : Journey(q)'
  BY <1>6, <1>7, OnePlayerJourneys
<1>11. BgTypes' /\ Gone' /\ FreeSlotsListed' /\ OfflineQueueSound'
  BY <1>1, <1>2, <1>3, <1>5, BgKept, OfflineKept DEF IInv, BgTypes
<1> QED
  BY <1>1, <1>4, <1>5, <1>9, <1>10, <1>11, FillingIdle DEF IInv, TypeOK

\* A queued player leaves the queue or is removed from it.
LEMMA QueueLeft ==
  ASSUME IInv, NEW p \in Players, place[p] = "world", m_QueuedPlayers[p] # 0,
         RemovePlayer(p, TRUE), slots' = slots \ {p},
         slotInvite' = [slotInvite EXCEPT ![p] = 0],
         UNCHANGED <<place, bgInstanceID, status, inside, offlineQueue, freeSlotQueue>>,
         Filling'
  PROVE  IInv'
<1>1. /\ TypeOK /\ PlayerTypes /\ QueueTypes /\ BgTypes /\ Journey(p)
      /\ 0 \in 0..MaxInstance /\ 0 \notin Instances
      /\ bgInstanceID[p] # 0 => bgInstanceID[p] \in Instances
  BY PlayerFacts
<1>2. (\A b \in Instances : p \notin inside[b]) /\ bgInstanceID[p] = 0
  BY <1>1 DEF Journey
<1>3. /\ QueueTypes' /\ Lists' /\ Grouped'
      /\ m_QueuedPlayers'[p] = 0 /\ p \notin timed'
      /\ \A q \in Players \ {p} :
           /\ m_QueuedPlayers'[q] = m_QueuedPlayers[q]
           /\ m_QueuedPlayers[q] # 0 =>
                invitedTo'[m_QueuedPlayers[q]] = invitedTo[m_QueuedPlayers[q]]
           /\ q \in timed' => q \in timed
  BY <1>1, RemovePlayerQueue DEF IInv
<1>4. /\ PlayerTypes' /\ p \notin slots' /\ slotInvite'[p] = 0
      /\ \A q \in Players \ {p} : slotInvite'[q] = slotInvite[q]
  BY <1>1 DEF PlayerTypes
<1>5. \A q \in Players \ {p} : SameFor(q)
  BY <1>3, <1>4 DEF SameFor
<1>6. Journey(p)'
  BY <1>2, <1>3, <1>4 DEF Journey
<1>7. /\ invited' \in [Instances -> [Teams -> 0..(CounterSize - 1)]]
      /\ InvitedCovers' /\ Gone'
  BY <1>1, <1>3, <1>4, <1>5, RemovePlayerCounts DEF IInv
<1>8. \A q \in Players : Journey(q)'
  BY <1>5, <1>6, OnePlayerJourneys
<1>9. BgTypes'
  BY <1>1, <1>7 DEF BgTypes
<1>10. FreeSlotsListed' /\ OfflineQueueSound'
  <2>1. FreeSlotsListed'
    BY DEF IInv, FreeSlotsListed, HasFreeSlots
  <2> QED
    BY <1>1, <2>1, OfflineKept DEF IInv
<1> QED
  BY <1>3, <1>4, <1>7, <1>8, <1>9, <1>10 DEF IInv, TypeOK

\* HandleBattleFieldPortOpcode, leave queue.
LEMMA LeaveQueueStep ==
  ASSUME IInv, NEW p \in Players, LeaveQueue(p)
  PROVE  IInv'
<1>1. /\ place[p] = "world" /\ m_QueuedPlayers[p] # 0 /\ RemovePlayer(p, TRUE)
      /\ slots' = slots \ {p} /\ slotInvite' = [slotInvite EXCEPT ![p] = 0]
      /\ UNCHANGED <<place, bgInstanceID, status, inside, offlineQueue, freeSlotQueue>>
      /\ phase' = "handlers"
  BY DEF LeaveQueue, Handling
<1> QED
  BY <1>1, FillingIdle, QueueLeft

\* The time of an invitation is up.
LEMMA RemoveEventStep ==
  ASSUME IInv, NEW p \in Players, RemoveEvent(p)
  PROVE  IInv'
<1> DEFINE c == invitedTo[m_QueuedPlayers[p]]
<1>1. /\ phase = "battlegrounds" /\ p \in timed
      /\ UNCHANGED <<place, bgInstanceID, status, inside, offlineQueue, freeSlotQueue, todo>>
  BY DEF RemoveEvent
<1>2. m_QueuedPlayers[p] # 0
  BY <1>1 DEF IInv, Journey
<1>3. CASE place[p] # "world"
  <2>1. /\ timed' = timed \ {p} /\ phase' # "fill"
        /\ UNCHANGED <<slots, slotInvite, m_QueuedPlayers, members, invitedTo, premade, normal,
                       invited, undercounted>>
    BY <1>1, <1>3 DEF RemoveEvent
  <2>2. TypeOK /\ PlayerTypes /\ QueueTypes /\ BgTypes
    BY PlayerFacts
  <2>3. PlayerTypes' /\ QueueTypes' /\ Lists' /\ Grouped'
    BY <1>1, <2>1, <2>2 DEF PlayerTypes, QueueTypes, IInv, Lists, Listed, Grouped
  <2>4. \A q \in Players : SameFor(q)
    BY <1>1, <2>1 DEF SameFor
  <2>5. \A q \in Players : Journey(q)'
    BY <2>2, <2>4, JourneyKept DEF IInv
  <2>6. \A b \in Instances : Holds(p, b)' => Holds(p, b)
    BY <2>4, HoldsKept
  <2>7. InvitedCovers'
    BY <1>1, <2>1, <2>4, <2>6, OnePlayerCovers
  <2>8. BgTypes' /\ Gone' /\ FreeSlotsListed' /\ OfflineQueueSound'
    BY <1>1, <2>1, <2>2, BgKept, OfflineKept DEF IInv
  <2> QED
    BY <2>1, <2>3, <2>5, <2>7, <2>8, FillingIdle DEF IInv, TypeOK
<1>4. CASE place[p] = "world" /\ ~Exists(c)
  <2>1. UNCHANGED <<playerVars, queueVars, bgVars>> /\ phase' # "fill"
    BY <1>4 DEF RemoveEvent, playerVars, bgVars
  <2> QED
    BY <2>1, FillingIdle, Idle
<1>5. CASE place[p] = "world" /\ Exists(c)
  <2>1. /\ slots' = slots \ {p} /\ slotInvite' = [slotInvite EXCEPT ![p] = 0]
        /\ RemovePlayer(p, TRUE) /\ phase' # "fill"
    BY <1>1, <1>5 DEF RemoveEvent
  <2> QED
    BY <1>1, <1>2, <1>5, <2>1, FillingIdle, QueueLeft
<1> QED
  BY <1>3, <1>4, <1>5

\* A participant leaves for good.
LEMMA LeaveBattlegroundStep ==
  ASSUME IInv, NEW p \in Players, LeaveBattleground(p)
  PROVE  IInv'
<1> DEFINE c == bgInstanceID[p]
<1>1. /\ phase' = "handlers" /\ place[p] = "world" /\ Exists(c)
      /\ RemovePlayersAtLeave(c, {p} \cap inside[c]) /\ SendBack(c, {p})
      /\ UNCHANGED <<m_QueuedPlayers, members, invitedTo, premade, normal, timed, status,
                     offlineQueue, undercounted>>
  BY DEF LeaveBattleground, Handling, queueVars
<1>2. /\ TypeOK /\ PlayerTypes /\ QueueTypes /\ BgTypes /\ Journey(p)
      /\ 0 \in 0..MaxInstance /\ 0 \notin Instances
      /\ c # 0 => c \in Instances
  BY PlayerFacts
<1>3. c \in Instances /\ status[c] # "none"
  BY <1>1 DEF Exists
<1>4. p \in inside[c] /\ m_QueuedPlayers[p] = 0 /\ \A b \in Instances \ {c} : p \notin inside[b]
  BY <1>1, <1>2, <1>3 DEF Journey
<1> HIDE DEF c
<1>5. /\ slots' = slots \ {p}
      /\ slotInvite' = [q \in Players |-> IF q = p THEN 0 ELSE slotInvite[q]]
      /\ bgInstanceID' = [q \in Players |-> IF q = p THEN 0 ELSE bgInstanceID[q]]
      /\ place' = [q \in Players |-> IF q = p THEN "loading" ELSE place[q]]
  <2>1. /\ {q \in {p} : place[q] = "world"} = {p}
        /\ {q \in {p} : place[q] = "world"} \cap inside[c] = {p}
    BY <1>1, <1>4
  <2> QED
    BY <1>1, <2>1 DEF SendBack
<1>6. RemoveParticipants(c, {p}) /\ {p} \in SUBSET inside[c]
  <2>1. {p} \cap inside[c] = {p}
    BY <1>4
  <2> QED
    BY <1>1, <1>4, <2>1 DEF RemovePlayersAtLeave
<1>7. freeSlotQueue' = IF {p} # {} /\ status[c] # "wait_leave" THEN AddToBGFreeSlotQueue(c)
                                                               ELSE freeSlotQueue
  <2>1. {p} \cap inside[c] = {p}
    BY <1>4
  <2> QED
    BY <1>1, <2>1 DEF RemovePlayersAtLeave
<1>8. \A b \in Instances : inside'[b] = IF b = c THEN inside[b] \ {p} ELSE inside[b]
  BY <1>2, <1>3, <1>6 DEF RemoveParticipants, BgTypes
<1>9. /\ PlayerTypes' /\ QueueTypes' /\ Lists' /\ Grouped'
      /\ place'[p] = "loading" /\ bgInstanceID'[p] = 0 /\ slotInvite'[p] = 0
  BY <1>1, <1>2, <1>5 DEF PlayerTypes, QueueTypes, IInv, Lists, Listed, Grouped
<1>10. \A q \in Players \ {p} : SameFor(q)
  BY <1>1, <1>5, <1>8 DEF SameFor
<1>11. \A b \in Instances : p \notin inside'[b]
  BY <1>4, <1>8
<1>12. Journey(p)'
  BY <1>1, <1>2, <1>4, <1>5, <1>9, <1>11 DEF Journey
<1>13. \A b \in Instances : ~Holds(p, b)'
  BY <1>1, <1>2, <1>4, <1>5, <1>11 DEF Holds
<1>14. /\ invited' \in [Instances -> [Teams -> 0..(CounterSize - 1)]]
       /\ inside' \in [Instances -> SUBSET Players]
       /\ inside'[c] = inside[c] \ {p}
       /\ \A b \in Instances \ {c} : inside'[b] = inside[b]
       /\ Gone' /\ InvitedCovers'
  BY <1>1, <1>2, <1>3, <1>6, <1>10, <1>13, ParticipantsLeave DEF IInv
<1>15. freeSlotQueue' \in Seq(Instances) /\ FreeSlotsListed'
  BY <1>1, <1>2, <1>3, <1>6, <1>7, <1>14, ListAfterLeave DEF IInv
<1>16. OfflineQueueSound'
  <2>1. \A b \in Instances :
          {q \in inside'[b] : place'[q] = "offline"} = {q \in inside[b] : place[q] = "offline"}
    <3> SUFFICES ASSUME NEW b \in Instances, NEW q
                 PROVE  q \in inside'[b] /\ place'[q] = "offline" <=>
                          q \in inside[b] /\ place[q] = "offline"
      OBVIOUS
    <3>1. inside[b] \subseteq Players
      BY <1>2 DEF BgTypes
    <3> QED
      BY <1>1, <1>5, <1>8, <3>1
  <2> QED
    BY <1>1, <2>1 DEF OfflineQueueSound, IInv
<1>17. \A q \in Players : Journey(q)'
  BY <1>10, <1>12, OnePlayerJourneys
<1>18. BgTypes'
  BY <1>1, <1>2, <1>14, <1>15 DEF BgTypes
<1> QED
  BY <1>1, <1>9, <1>14, <1>15, <1>16, <1>17, <1>18, FillingIdle DEF IInv, TypeOK

\* A logout: a participant becomes one of the offline queue, a queued player leaves.
LEMMA LogoutPlayerStep ==
  ASSUME IInv, NEW p \in Players, LogoutPlayer(p)
  PROVE  IInv'
<1> DEFINE c == bgInstanceID[p]
<1>1. /\ phase' = "handlers" /\ place[p] # "offline"
      /\ offlineQueue' = IF Exists(c) /\ p \in inside[c]
                           THEN [offlineQueue EXCEPT ![c] = Append(@, p)] ELSE offlineQueue
      /\ slots' = slots \ {p} /\ slotInvite' = [slotInvite EXCEPT ![p] = 0]
      /\ place' = [place EXCEPT ![p] = "offline"]
      /\ bgInstanceID' = [bgInstanceID EXCEPT ![p] = IF Exists(c) THEN c ELSE 0]
      /\ UNCHANGED <<status, inside, freeSlotQueue>>
      /\ IF p \in slots /\ m_QueuedPlayers[p] # 0
           THEN RemovePlayer(p, TRUE) ELSE UNCHANGED <<queueVars, invited, undercounted>>
  BY DEF LogoutPlayer, mgrVars
<1>2. /\ TypeOK /\ PlayerTypes /\ QueueTypes /\ BgTypes /\ Journey(p)
      /\ 0 \in 0..MaxInstance /\ 0 \notin Instances
      /\ c \in 0..MaxInstance /\ (c # 0 => c \in Instances)
  BY PlayerFacts
<1>3. Exists(c) <=> c \in Instances /\ status[c] # "none"
  BY DEF Exists
<1>4. \A b \in Instances : p \in inside[b] => b = c /\ Exists(c) /\ m_QueuedPlayers[p] = 0
  BY <1>2, <1>3 DEF Journey, IInv, Gone
<1>5. m_QueuedPlayers[p] # 0 => p \in slots
  BY <1>2 DEF Journey
<1> HIDE DEF c
<1>6. /\ PlayerTypes' /\ p \notin slots' /\ slotInvite'[p] = 0 /\ place'[p] = "offline"
      /\ bgInstanceID'[p] = (IF Exists(c) THEN c ELSE 0)
      /\ \A q \in Players \ {p} :
           slotInvite'[q] = slotInvite[q] /\ place'[q] = place[q] /\ bgInstanceID'[q] = bgInstanceID[q]
  BY <1>1, <1>2 DEF PlayerTypes
<1>7. /\ QueueTypes' /\ Lists' /\ Grouped'
      /\ m_QueuedPlayers'[p] = 0 /\ p \notin timed'
      /\ \A q \in Players \ {p} :
           /\ m_QueuedPlayers'[q] = m_QueuedPlayers[q]
           /\ m_QueuedPlayers[q] # 0 =>
                invitedTo'[m_QueuedPlayers[q]] = invitedTo[m_QueuedPlayers[q]]
           /\ q \in timed' => q \in timed
  <2>1. CASE m_QueuedPlayers[p] # 0
    <3>1. RemovePlayer(p, TRUE)
      BY <1>1, <1>5, <2>1
    <3> QED
      BY <1>2, <2>1, <3>1, RemovePlayerQueue DEF IInv
  <2>2. CASE m_QueuedPlayers[p] = 0
    <3>1. UNCHANGED <<m_QueuedPlayers, members, invitedTo, premade, normal, timed>>
      BY <1>1, <2>2 DEF queueVars
    <3> QED
      BY <1>2, <2>2, <3>1 DEF IInv, QueueTypes, Lists, Listed, Grouped, Journey
  <2> QED
    BY <2>1, <2>2
<1>8. \A q \in Players \ {p} : SameFor(q)
  BY <1>1, <1>6, <1>7 DEF SameFor
<1>9. Journey(p)'
  BY <1>1, <1>4, <1>6, <1>7 DEF Journey
<1>10. /\ invited' \in [Instances -> [Teams -> 0..(CounterSize - 1)]]
       /\ InvitedCovers' /\ Gone'
  <2>1. CASE m_QueuedPlayers[p] # 0
    BY <1>1, <1>2, <1>5, <1>6, <1>7, <1>8, <2>1, RemovePlayerCounts DEF IInv
  <2>2. CASE m_QueuedPlayers[p] = 0
    <3>1. invited' = invited /\ undercounted' = undercounted
      BY <1>1, <2>2
    <3>2. \A b \in Instances : Holds(p, b)' => Holds(p, b)
      BY <1>1, <1>6, <1>7 DEF Holds
    <3>3. InvitedCovers'
      BY <1>1, <1>8, <3>1, <3>2, OnePlayerCovers
    <3> QED
      BY <1>1, <1>2, <3>1, <3>3 DEF IInv, Gone, BgTypes
  <2> QED
    BY <2>1, <2>2
<1>11. \A q \in Players : Journey(q)'
  BY <1>8, <1>9, OnePlayerJourneys
<1>12. FreeSlotsListed'
  BY <1>1 DEF IInv, FreeSlotsListed, HasFreeSlots
<1>13. \A b \in Instances :
         offlineQueue'[b] = IF p \in inside[b] THEN Append(offlineQueue[b], p) ELSE offlineQueue[b]
  <2>1. CASE Exists(c) /\ p \in inside[c]
    BY <1>1, <1>2, <1>3, <1>4, <2>1 DEF BgTypes
  <2>2. CASE ~(Exists(c) /\ p \in inside[c])
    BY <1>1, <1>4, <2>2
  <2> QED
    BY <2>1, <2>2
<1>14. BgTypes'
  <2>1. \A b \in Instances : offlineQueue'[b] \in Seq(Players)
    <3> SUFFICES ASSUME NEW b \in Instances PROVE offlineQueue'[b] \in Seq(Players)
      OBVIOUS
    <3>1. offlineQueue[b] \in Seq(Players)
      BY <1>2 DEF BgTypes
    <3>2. Append(offlineQueue[b], p) \in Seq(Players)
      BY <3>1
    <3> QED
      BY <1>13, <3>1, <3>2
  <2>2. offlineQueue' = [b \in Instances |-> offlineQueue'[b]]
    BY <1>1, <1>2 DEF BgTypes
  <2>3. offlineQueue' \in [Instances -> Seq(Players)]
    BY <2>1, <2>2
  <2> QED
    BY <1>1, <1>2, <1>10, <2>3 DEF BgTypes
<1>15. OfflineQueueSound'
  <2>1. ASSUME NEW b \in Instances, status[b] \in {"wait_join", "in_progress"}
        PROVE  /\ IsInjective(offlineQueue'[b])
               /\ ToSet(offlineQueue'[b]) = {q \in inside[b] : place'[q] = "offline"}
    <3>1. /\ IsInjective(offlineQueue[b]) /\ offlineQueue[b] \in Seq(Players)
          /\ ToSet(offlineQueue[b]) = {q \in inside[b] : place[q] = "offline"}
          /\ inside[b] \subseteq Players
      BY <1>2, <2>1 DEF IInv, OfflineQueueSound, BgTypes
    <3>2. CASE p \in inside[b]
      <4>1. p \notin ToSet(offlineQueue[b])
        BY <1>1, <3>1
      <4>2. /\ IsInjective(offlineQueue'[b])
            /\ ToSet(offlineQueue'[b]) = ToSet(offlineQueue[b]) \cup {p}
        BY <1>13, <3>1, <3>2, <4>1, AppendList
      <4>3. {q \in inside[b] : place'[q] = "offline"} = {q \in inside[b] : place[q] = "offline"} \cup {p}
        BY <1>6, <3>1, <3>2
      <4> QED
        BY <3>1, <4>2, <4>3
    <3>3. CASE p \notin inside[b]
      <4>1. {q \in inside[b] : place'[q] = "offline"} = {q \in inside[b] : place[q] = "offline"}
        BY <1>6, <3>1, <3>3
      <4> QED
        BY <1>13, <3>1, <3>3, <4>1
    <3> QED
      BY <3>2, <3>3
  <2> QED
    BY <1>1, <2>1 DEF OfflineQueueSound
<1> QED
  BY <1>1, <1>6, <1>7, <1>10, <1>11, <1>12, <1>14, <1>15, FillingIdle DEF IInv, TypeOK

\* A login: back into the battleground, or out of it if it is over or gone.
LEMMA LoginStep ==
  ASSUME IInv, NEW p \in Players, Login(p)
  PROVE  IInv'
<1> DEFINE c == bgInstanceID[p]
           at == Exists(c) /\ p \in inside[c]
           back == at /\ status[c] # "wait_leave"
<1>1. /\ phase' = "handlers" /\ place[p] = "offline"
      /\ place' = [place EXCEPT ![p] = "world"]
      /\ UNCHANGED <<m_QueuedPlayers, members, invitedTo, premade, normal, timed, status,
                     undercounted>>
  BY DEF Login, queueVars
<1>2. /\ TypeOK /\ PlayerTypes /\ QueueTypes /\ BgTypes /\ Journey(p)
      /\ 0 \in 0..MaxInstance /\ 0 \notin Instances
      /\ c \in 0..MaxInstance /\ (c # 0 => c \in Instances)
  BY PlayerFacts
<1>3. Exists(c) <=> c \in Instances /\ status[c] # "none"
  BY DEF Exists
<1>4. m_QueuedPlayers[p] = 0 /\ p \notin slots /\ slotInvite[p] = 0 /\ p \notin timed
  BY <1>1, <1>2 DEF Journey
<1>5. \A b \in Instances : p \in inside[b] <=> b = c /\ at
  BY <1>2, <1>3 DEF Journey, IInv, Gone
<1>6. /\ place'[p] = "world" /\ \A q \in Players \ {p} : place'[q] = place[q]
      /\ QueueTypes' /\ Lists' /\ Grouped'
  BY <1>1, <1>2 DEF PlayerTypes, QueueTypes, IInv, Lists, Listed, Grouped
<1>7. CASE back
  <2>1. /\ slots' = slots \cup {p} /\ slotInvite' = [slotInvite EXCEPT ![p] = c]
        /\ offlineQueue' = [offlineQueue EXCEPT ![c] = RemoveFirst(@, p)]
        /\ UNCHANGED <<bgInstanceID, inside, invited, freeSlotQueue>>
    BY <1>7 DEF Login, EventPlayerLoggedIn
  <2>2. c \in Instances /\ status[c] \in Running
    BY <1>2, <1>3, <1>7 DEF BgTypes
  <2> HIDE DEF c, at, back
  <2>3. /\ PlayerTypes' /\ p \in slots' /\ slotInvite'[p] = c
        /\ \A q \in Players \ {p} : slotInvite'[q] = slotInvite[q]
    BY <1>1, <1>2, <2>1 DEF PlayerTypes
  <2>4. \A q \in Players \ {p} : SameFor(q)
    BY <1>1, <1>6, <2>1, <2>3 DEF SameFor
  <2>5. Journey(p)'
    BY <1>1, <1>4, <1>5, <1>6, <1>7, <2>1, <2>2, <2>3 DEF Journey, c, back
  <2>6. \A b \in Instances : Holds(p, b)' => Holds(p, b)
    BY <1>1, <1>4, <1>6, <2>1 DEF Holds
  <2>7. InvitedCovers'
    BY <1>1, <2>1, <2>4, <2>6, OnePlayerCovers
  <2>8. \A q \in Players : Journey(q)'
    BY <2>4, <2>5, OnePlayerJourneys
  <2>9. /\ IsInjective(offlineQueue[c]) /\ offlineQueue[c] \in Seq(Players)
        /\ ToSet(offlineQueue[c]) = {q \in inside[c] : place[q] = "offline"}
        /\ \A b \in Instances : inside[b] \subseteq Players
    BY <1>2, <2>2 DEF IInv, OfflineQueueSound, BgTypes, Running
  <2>10. /\ offlineQueue'[c] \in Seq(Players) /\ IsInjective(offlineQueue'[c])
         /\ ToSet(offlineQueue'[c]) = ToSet(offlineQueue[c]) \ {p}
         /\ \A b \in Instances \ {c} : offlineQueue'[b] = offlineQueue[b]
    <3>1. offlineQueue'[c] = RemoveFirst(offlineQueue[c], p)
      BY <1>2, <2>1, <2>2 DEF BgTypes
    <3>2. \A b \in Instances \ {c} : offlineQueue'[b] = offlineQueue[b]
      BY <1>2, <2>1, <2>2 DEF BgTypes
    <3> QED
      BY <2>9, <3>1, <3>2, RemoveList
  <2>11. BgTypes' /\ Gone' /\ FreeSlotsListed'
    <3>1. offlineQueue' \in [Instances -> Seq(Players)]
      BY <1>2, <2>1, <2>2, <2>10 DEF BgTypes
    <3>2. BgTypes'
      BY <1>1, <1>2, <2>1, <3>1 DEF BgTypes
    <3>3. Gone' /\ FreeSlotsListed'
      BY <1>1, <2>1 DEF IInv, Gone, FreeSlotsListed, HasFreeSlots
    <3> QED
      BY <3>2, <3>3
  <2>12. OfflineQueueSound'
    <3>1. ASSUME NEW b \in Instances \ {c}, status[b] \in {"wait_join", "in_progress"}
          PROVE  /\ IsInjective(offlineQueue'[b])
                 /\ ToSet(offlineQueue'[b]) = {q \in inside[b] : place'[q] = "offline"}
      <4>1. {q \in inside[b] : place'[q] = "offline"} = {q \in inside[b] : place[q] = "offline"}
        BY <1>5, <1>6, <2>9, <3>1
      <4> QED
        BY <2>10, <3>1, <4>1 DEF IInv, OfflineQueueSound
    <3>2. ToSet(offlineQueue'[c]) = {q \in inside[c] : place'[q] = "offline"}
      <4>1. {q \in inside[c] : place'[q] = "offline"} = {q \in inside[c] : place[q] = "offline"} \ {p}
        BY <1>6, <2>2, <2>9
      <4> QED
        BY <2>9, <2>10, <4>1
    <3> QED
      BY <1>1, <2>1, <2>10, <3>1, <3>2 DEF OfflineQueueSound
  <2> QED
    BY <1>1, <1>6, <2>3, <2>7, <2>8, <2>11, <2>12, FillingIdle DEF IInv, TypeOK
<1>8. CASE ~back
  <2>1. /\ bgInstanceID' = [bgInstanceID EXCEPT ![p] = 0]
        /\ UNCHANGED <<slots, slotInvite, offlineQueue>>
        /\ IF at THEN RemovePlayersAtLeave(c, {p}) ELSE UNCHANGED <<inside, invited, freeSlotQueue>>
    BY <1>8 DEF Login
  <2>2. at => c \in Instances /\ status[c] = "wait_leave"
    BY <1>2, <1>3, <1>8
  <2> HIDE DEF c, back
  <2>3. /\ PlayerTypes' /\ bgInstanceID'[p] = 0
        /\ \A q \in Players \ {p} : bgInstanceID'[q] = bgInstanceID[q]
    BY <1>1, <1>2, <2>1 DEF PlayerTypes
  <2>4. \A b \in Instances : inside'[b] = inside[b] \ {p}
    <3>1. CASE at
      <4>1. inside' = [inside EXCEPT ![c] = @ \ {p}]
        BY <2>1, <3>1 DEF RemovePlayersAtLeave, RemoveParticipants
      <4>2. \A b \in Instances \ {c} : p \notin inside[b]
        BY <1>5
      <4> QED
        BY <1>2, <2>2, <3>1, <4>1, <4>2 DEF BgTypes
    <3>2. CASE ~at
      BY <1>5, <2>1, <3>2
    <3> QED
      BY <3>1, <3>2
  <2> HIDE DEF at
  <2>5. \A q \in Players \ {p} : SameFor(q)
    BY <1>1, <1>6, <2>1, <2>3, <2>4 DEF SameFor
  <2>6. Journey(p)'
    BY <1>1, <1>4, <1>6, <2>1, <2>3, <2>4 DEF Journey
  <2>7. \A b \in Instances : ~Holds(p, b)'
    BY <1>1, <1>4, <1>6, <2>4 DEF Holds
  <2>8. /\ BgTypes' /\ Gone' /\ InvitedCovers' /\ FreeSlotsListed'
    <3>1. CASE at
      <4>1. /\ RemoveParticipants(c, {p}) /\ {p} \in SUBSET inside[c]
            /\ freeSlotQueue' = IF {p} # {} /\ status[c] # "wait_leave" THEN AddToBGFreeSlotQueue(c)
                                                                        ELSE freeSlotQueue
        BY <1>5, <2>1, <2>2, <3>1 DEF RemovePlayersAtLeave
      <4>2. /\ invited' \in [Instances -> [Teams -> 0..(CounterSize - 1)]]
            /\ inside' \in [Instances -> SUBSET Players]
            /\ inside'[c] = inside[c] \ {p}
            /\ \A b \in Instances \ {c} : inside'[b] = inside[b]
            /\ Gone' /\ InvitedCovers'
        BY <1>1, <1>2, <2>2, <2>5, <2>7, <3>1, <4>1, ParticipantsLeave DEF IInv
      <4>3. freeSlotQueue' \in Seq(Instances) /\ FreeSlotsListed'
        BY <1>1, <1>2, <2>2, <3>1, <4>1, <4>2, ListAfterLeave DEF IInv
      <4> QED
        BY <1>1, <1>2, <2>1, <4>2, <4>3 DEF BgTypes
    <3>2. CASE ~at
      <4>1. UNCHANGED <<inside, invited, freeSlotQueue, offlineQueue, status, undercounted>>
        BY <1>1, <2>1, <3>2
      <4>2. InvitedCovers'
        BY <2>5, <2>7, <4>1, OnePlayerCovers
      <4> QED
        BY <1>2, <4>1, <4>2, BgKept DEF IInv
    <3> QED
      BY <3>1, <3>2
  <2>9. \A q \in Players : Journey(q)'
    BY <2>5, <2>6, OnePlayerJourneys
  <2>10. OfflineQueueSound'
    <3>1. ASSUME NEW b \in Instances, status[b] \in {"wait_join", "in_progress"}
          PROVE  /\ IsInjective(offlineQueue[b])
                 /\ ToSet(offlineQueue[b]) = {q \in inside'[b] : place'[q] = "offline"}
      <4>1. p \notin inside[b] /\ inside[b] \subseteq Players
        BY <1>2, <1>5, <2>2, <3>1 DEF BgTypes
      <4>2. {q \in inside'[b] : place'[q] = "offline"} = {q \in inside[b] : place[q] = "offline"}
        BY <1>6, <2>4, <4>1
      <4> QED
        BY <3>1, <4>2 DEF IInv, OfflineQueueSound
    <3> QED
      BY <1>1, <2>1, <3>1 DEF OfflineQueueSound
  <2> QED
    BY <1>1, <1>6, <2>3, <2>8, <2>9, <2>10, FillingIdle DEF IInv, TypeOK
<1> QED
  BY <1>7, <1>8

-----------------------------------------------------------------------------
(* BattlegroundMgr::Update: the battlegrounds.                              *)

\* A battleground starts or is over.
LEMMA StatusMoves ==
  ASSUME IInv, NEW b \in Instances, status[b] \in Running,
         NEW s \in {"in_progress", "wait_leave"}, status' = [status EXCEPT ![b] = s],
         freeSlotQueue' = IF s = "in_progress" THEN freeSlotQueue ELSE RemoveFirst(freeSlotQueue, b),
         UNCHANGED <<playerVars, queueVars, invited, inside, offlineQueue, undercounted>>,
         Filling'
  PROVE  IInv'
<1>1. TypeOK /\ PlayerTypes /\ QueueTypes /\ BgTypes
  BY DEF IInv, TypeOK
<1>2. /\ UNCHANGED <<place, bgInstanceID, slots, slotInvite>>
      /\ UNCHANGED <<m_QueuedPlayers, members, invitedTo, premade, normal, timed>>
  BY DEF playerVars, queueVars
<1>3. status'[b] = s /\ \A c \in Instances \ {b} : status'[c] = status[c]
  BY <1>1 DEF BgTypes
<1>4. PlayerTypes' /\ QueueTypes' /\ Lists' /\ Grouped'
  BY <1>1, <1>2 DEF PlayerTypes, QueueTypes, IInv, Lists, Listed, Grouped
<1>5. \A q \in Players : SameFor(q)
  BY <1>2 DEF SameFor
<1>6. \A q \in Players : Journey(q)'
  BY <1>1, <1>5, JourneyKept DEF IInv
<1>7. InvitedCovers'
  <2>1. ASSUME NEW c \in Instances, c \notin undercounted', NEW t \in Teams PROVE Covers(c, t)'
    <3>1. Covers(c, t)
      BY <2>1, CoversParts DEF IInv
    <3>2. Exists(c)' <=> Exists(c)
      BY <1>3 DEF Exists, Running
    <3>3. Holders(c, t)' \subseteq Holders(c, t)
      BY <1>5, HoldsKept, CoversParts, CoversPartsNext
    <3> QED
      BY <1>1, <3>1, <3>2, <3>3, CoversSame
  <2> QED
    BY <2>1, CoversPartsNext
<1>8. freeSlotQueue' \in Seq(Instances) /\ FreeSlotsListed'
  <2>1. CASE s = "in_progress"
    <3>1. \A c \in Instances : HasFreeSlots(c)' <=> HasFreeSlots(c)
      BY DEF HasFreeSlots
    <3> QED
      BY <1>1, <1>3, <2>1, <3>1 DEF IInv, FreeSlotsListed, BgTypes, Running
  <2>2. CASE s = "wait_leave"
    <3>1. /\ freeSlotQueue' \in Seq(Instances) /\ IsInjective(freeSlotQueue')
          /\ ToSet(freeSlotQueue') = ToSet(freeSlotQueue) \ {b}
      BY <1>1, <2>2, ListOperations DEF IInv
    <3> QED
      BY <1>3, <2>2, <3>1, ListChanges DEF IInv
  <2> QED
    BY <2>1, <2>2
<1>9. BgTypes'
  <2>1. status' \in [Instances -> {"none", "wait_leave"} \cup Running]
    BY <1>1 DEF BgTypes, Running
  <2> QED
    BY <1>1, <1>8, <2>1 DEF BgTypes
<1>10. Gone'
  BY <1>3 DEF IInv, Gone
<1>11. OfflineQueueSound'
  BY <1>2, <1>3 DEF IInv, OfflineQueueSound, Running
<1> QED
  BY <1>4, <1>6, <1>7, <1>8, <1>9, <1>10, <1>11 DEF IInv, TypeOK

\* The objective of a battleground is reached.
LEMMA EndBattlegroundStep ==
  ASSUME IInv, NEW b \in Instances, EndBattleground(b)
  PROVE  IInv'
<1>1. phase' # "fill"
  BY DEF EndBattleground, mgrVars
<1> QED
  BY <1>1, FillingIdle, StatusMoves DEF EndBattleground, End, Running

\* _ProcessJoin.
LEMMA UpdateWaitJoinStep ==
  ASSUME IInv, NEW b \in Instances, UpdateWaitJoin(b)
  PROVE  IInv'
<1>1. Filling'
  BY FillingIdle DEF UpdateWaitJoin, Visit, Turn
<1>2. /\ status[b] \in Running
      /\ UNCHANGED <<playerVars, queueVars, invited, inside, offlineQueue, undercounted>>
  BY DEF UpdateWaitJoin, Visit, Turn, Running
<1>3. CASE UNCHANGED <<status, freeSlotQueue>>
  <2>1. UNCHANGED <<playerVars, queueVars, bgVars>>
    BY <1>2, <1>3 DEF bgVars
  <2> QED
    BY <1>1, <2>1, Idle
<1>4. CASE status' = [status EXCEPT ![b] = "in_progress"] /\ freeSlotQueue' = freeSlotQueue
  BY <1>1, <1>2, <1>4, StatusMoves
<1>5. CASE End(b)
  BY <1>1, <1>2, <1>5, StatusMoves DEF End
<1> QED
  BY <1>3, <1>4, <1>5 DEF UpdateWaitJoin

\* An empty battleground is deleted only if nobody counts for it any more.
LEMMA UpdateEmptyStep ==
  ASSUME IInv, NEW b \in Instances, UpdateEmpty(b)
  PROVE  IInv'
<1>1. Filling'
  BY FillingIdle DEF UpdateEmpty, Visit, Turn
<1>2. /\ inside[b] = {}
      /\ UNCHANGED <<playerVars, queueVars, invited, inside>>
      /\ IF \A t \in Teams : invited[b][t] = 0
           THEN Delete(b) ELSE UNCHANGED <<status, offlineQueue, freeSlotQueue, undercounted>>
  BY DEF UpdateEmpty, Visit, Turn
<1>3. CASE ~\A t \in Teams : invited[b][t] = 0
  <2>1. UNCHANGED <<playerVars, queueVars, bgVars>>
    BY <1>2, <1>3 DEF bgVars
  <2> QED
    BY <1>1, <2>1, Idle
<1>4. CASE \A t \in Teams : invited[b][t] = 0
  <2>1. /\ status' = [status EXCEPT ![b] = "none"]
        /\ offlineQueue' = [offlineQueue EXCEPT ![b] = <<>>]
        /\ freeSlotQueue' = RemoveFirst(freeSlotQueue, b)
        /\ undercounted' = IF \E p \in Players : slotInvite[p] = b THEN undercounted
                                                                  ELSE undercounted \ {b}
    BY <1>2, <1>4 DEF Delete
  <2>2. TypeOK /\ PlayerTypes /\ QueueTypes /\ BgTypes
    BY DEF IInv, TypeOK
  <2>3. /\ UNCHANGED <<place, bgInstanceID, slots, slotInvite>>
        /\ UNCHANGED <<m_QueuedPlayers, members, invitedTo, premade, normal, timed>>
    BY <1>2 DEF playerVars, queueVars
  <2>4. /\ status'[b] = "none" /\ offlineQueue'[b] = <<>>
        /\ \A c \in Instances \ {b} : status'[c] = status[c] /\ offlineQueue'[c] = offlineQueue[c]
    BY <2>1, <2>2 DEF BgTypes
  <2>5. PlayerTypes' /\ QueueTypes' /\ Lists' /\ Grouped'
    BY <2>2, <2>3 DEF PlayerTypes, QueueTypes, IInv, Lists, Listed, Grouped
  <2>6. \A q \in Players : SameFor(q)
    BY <1>2, <2>3 DEF SameFor
  <2>7. \A q \in Players : Journey(q)'
    BY <2>2, <2>6, JourneyKept DEF IInv
  <2>8. \A c \in Instances, t \in Teams : Holders(c, t)' \subseteq Holders(c, t)
    BY <2>6, HoldsKept, CoversParts, CoversPartsNext
  <2>9. ASSUME NEW t \in Teams, b \notin undercounted' PROVE Covers(b, t)'
    <3>1. Cardinality(Holders(b, t)) = 0
      <4>1. CASE b \in undercounted
        <5>1. \A p \in Players : slotInvite[p] # b
          BY <2>1, <2>9, <4>1
        <5>2. \A p \in Players : ~Holds(p, b)
          <6> SUFFICES ASSUME NEW p \in Players, Holds(p, b) PROVE FALSE
            OBVIOUS
          <6>1. place[p] = "loading" /\ bgInstanceID[p] = b
            BY <1>2, <5>1 DEF Holds
          <6>2. slotInvite[p] = b
            BY <6>1, PlayerFacts DEF Journey
          <6> QED
            BY <5>1, <6>2
        <5>3. Holders(b, t) = {}
          BY <5>2, CoversParts
        <5> QED
          BY <5>3, FS_EmptySet
      <4>2. CASE b \notin undercounted
        <5>1. Covers(b, t)
          BY <4>2, CoversParts DEF IInv
        <5>2. Cardinality(Holders(b, t)) <= 0 /\ Cardinality(Holders(b, t)) \in Nat
          BY <1>4, <5>1, CoversParts, PlayersCount DEF Covers
        <5> QED
          BY <5>2
      <4> QED
        BY <4>1, <4>2
    <3>2. Holders(b, t)' = {}
      BY <2>8, <3>1, CoversParts, PlayersCount
    <3>3. Cardinality(Holders(b, t)') = 0
      BY <3>2, FS_EmptySet
    <3>4. ~Exists(b)'
      BY <2>4 DEF Exists
    <3> QED
      BY <3>3, <3>4 DEF Covers
  <2>10. InvitedCovers'
    <3>1. ASSUME NEW c \in Instances \ {b}, c \notin undercounted', NEW t \in Teams PROVE Covers(c, t)'
      <4>1. Covers(c, t)
        BY <2>1, <3>1, CoversParts DEF IInv
      <4>2. Exists(c)' <=> Exists(c)
        BY <2>4 DEF Exists
      <4> QED
        BY <1>2, <2>2, <2>8, <4>1, <4>2, CoversSame
    <3> QED
      BY <2>9, <3>1, CoversPartsNext
  <2>11. freeSlotQueue' \in Seq(Instances) /\ FreeSlotsListed'
    <3>1. /\ freeSlotQueue' \in Seq(Instances) /\ IsInjective(freeSlotQueue')
          /\ ToSet(freeSlotQueue') = ToSet(freeSlotQueue) \ {b}
      BY <2>1, <2>2, ListOperations DEF IInv
    <3> QED
      BY <1>2, <2>4, <3>1, ListChanges DEF IInv
  <2>12. BgTypes'
    <3>1. status' \in [Instances -> {"none", "wait_leave"} \cup Running]
      BY <2>1, <2>2 DEF BgTypes
    <3>2. offlineQueue' \in [Instances -> Seq(Players)]
      BY <2>1, <2>2, EmptyList DEF BgTypes
    <3> QED
      BY <1>2, <2>2, <2>11, <3>1, <3>2 DEF BgTypes
  <2>13. Gone'
    BY <1>2, <1>4, <2>4 DEF IInv, Gone
  <2>14. OfflineQueueSound'
    BY <1>2, <2>3, <2>4 DEF IInv, OfflineQueueSound
  <2> QED
    BY <1>1, <2>5, <2>7, <2>10, <2>11, <2>12, <2>13, <2>14 DEF IInv, TypeOK
<1> QED
  BY <1>3, <1>4

\* The player who has been away for longest is removed, the battle may end.
LEMMA UpdateInProgressStep ==
  ASSUME IInv, NEW b \in Instances, UpdateInProgress(b)
  PROVE  IInv'
<1>1. Filling'
  BY FillingIdle DEF UpdateInProgress, Visit, Turn
<1>2. /\ status[b] = "in_progress"
      /\ UNCHANGED <<playerVars, queueVars, undercounted>>
  BY DEF UpdateInProgress, Visit, Turn
<1>3. CASE UNCHANGED <<inside, invited, offlineQueue>>
  <2>1. CASE End(b)
    BY <1>1, <1>2, <1>3, <2>1, StatusMoves DEF End, Running
  <2>2. CASE ~End(b)
    <3>1. UNCHANGED <<playerVars, queueVars, bgVars>>
      BY <1>2, <1>3, <2>2 DEF UpdateInProgress, bgVars
    <3> QED
      BY <1>1, <3>1, Idle
  <2> QED
    BY <2>1, <2>2
<1>4. CASE ~UNCHANGED <<inside, invited, offlineQueue>>
  <2>0. /\ offlineQueue[b] # <<>>
        /\ RemoveParticipants(b, {Head(offlineQueue[b])})
        /\ offlineQueue' = [offlineQueue EXCEPT ![b] = Tail(@)]
    BY <1>4 DEF UpdateInProgress
  <2>p. PICK p : p = Head(offlineQueue[b])
    OBVIOUS
  <2>1. /\ offlineQueue[b] # <<>>
        /\ RemoveParticipants(b, {p})
        /\ offlineQueue' = [offlineQueue EXCEPT ![b] = Tail(@)]
    BY <2>0, <2>p
  <2>2. TypeOK /\ PlayerTypes /\ QueueTypes /\ BgTypes
    BY DEF IInv, TypeOK
  <2>3. /\ UNCHANGED <<place, bgInstanceID, slots, slotInvite>>
        /\ UNCHANGED <<m_QueuedPlayers, members, invitedTo, premade, normal, timed>>
    BY <1>2 DEF playerVars, queueVars
  <2>4. /\ IsInjective(offlineQueue[b]) /\ offlineQueue[b] \in Seq(Players)
        /\ ToSet(offlineQueue[b]) = {q \in inside[b] : place[q] = "offline"}
        /\ inside[b] \subseteq Players
    BY <1>2, <2>2 DEF IInv, OfflineQueueSound, BgTypes
  <2>5. /\ p \in inside[b] /\ place[p] = "offline" /\ p \in Players
        /\ offlineQueue'[b] \in Seq(Players) /\ IsInjective(offlineQueue'[b])
        /\ ToSet(offlineQueue'[b]) = ToSet(offlineQueue[b]) \ {p}
        /\ \A c \in Instances \ {b} : offlineQueue'[c] = offlineQueue[c]
    <3>1. p \in ToSet(offlineQueue[b])
      BY <2>1, <2>4, <2>p, TailList
    <3>2. offlineQueue'[b] = Tail(offlineQueue[b])
      BY <2>1, <2>2 DEF BgTypes
    <3>3. /\ Tail(offlineQueue[b]) \in Seq(Players) /\ IsInjective(Tail(offlineQueue[b]))
          /\ ToSet(Tail(offlineQueue[b])) = ToSet(offlineQueue[b]) \ {p}
      BY <2>1, <2>4, <2>p, TailList
    <3>4. \A c \in Instances \ {b} : offlineQueue'[c] = offlineQueue[c]
      BY <2>1, <2>2 DEF BgTypes
    <3> QED
      BY <2>4, <3>1, <3>2, <3>3, <3>4
  <2>6. \A c \in Instances : inside'[c] = IF c = b THEN inside[c] \ {p} ELSE inside[c]
    BY <2>1, <2>2 DEF RemoveParticipants, BgTypes
  <2>7. inside' # inside
    BY <2>5, <2>6
  <2>8. \/ End(b)
        \/ status' = status /\ freeSlotQueue' = AddToBGFreeSlotQueue(b)
    BY <2>7 DEF UpdateInProgress
  <2>9. status'[b] \in {"in_progress", "wait_leave"} /\ \A c \in Instances \ {b} : status'[c] = status[c]
    BY <1>2, <2>2, <2>8 DEF End, BgTypes
  <2>10. PlayerTypes' /\ QueueTypes' /\ Lists' /\ Grouped'
    BY <2>2, <2>3 DEF PlayerTypes, QueueTypes, IInv, Lists, Listed, Grouped
  <2>11. \A q \in Players \ {p} : SameFor(q)
    BY <2>3, <2>6 DEF SameFor
  <2>12. Journey(p) /\ \A c \in Instances : p \notin inside'[c]
    <3>1. Journey(p)
      BY <2>5 DEF IInv
    <3>2. \A c \in Instances \ {b} : p \notin inside[c]
      BY <2>5, <3>1 DEF Journey
    <3> QED
      BY <2>6, <3>1, <3>2
  <2>13. Journey(p)'
    BY <2>3, <2>5, <2>12 DEF Journey
  <2>14. \A q \in Players : Journey(q)'
    BY <2>5, <2>11, <2>13, OnePlayerJourneys
  <2>15. \A c \in Instances : ~Holds(p, c)'
    BY <2>3, <2>5, <2>12 DEF Holds, Journey
  <2>16. /\ invited' \in [Instances -> [Teams -> 0..(CounterSize - 1)]]
         /\ inside' \in [Instances -> SUBSET Players]
         /\ Gone' /\ InvitedCovers'
    <3>1. {p} \in SUBSET inside[b] /\ status[b] # "none"
      BY <1>2, <2>5
    <3>2. \A c \in Instances : status'[c] = "none" <=> status[c] = "none"
      BY <1>2, <2>9
    <3> QED
      BY <1>2, <2>1, <2>2, <2>11, <2>15, <3>1, <3>2, ParticipantsLeave DEF IInv
  <2>17. freeSlotQueue' \in Seq(Instances) /\ FreeSlotsListed'
    <3>1. CASE End(b)
      <4>1. freeSlotQueue' = RemoveFirst(freeSlotQueue, b) /\ status'[b] = "wait_leave"
        BY <2>2, <3>1 DEF End, BgTypes
      <4>2. /\ freeSlotQueue' \in Seq(Instances) /\ IsInjective(freeSlotQueue')
            /\ ToSet(freeSlotQueue') = ToSet(freeSlotQueue) \ {b}
        BY <2>2, <4>1, ListOperations DEF IInv
      <4> QED
        BY <2>6, <2>9, <4>1, <4>2, ListChanges DEF IInv
    <3>2. CASE status' = status /\ freeSlotQueue' = AddToBGFreeSlotQueue(b)
      <4>1. /\ freeSlotQueue' \in Seq(Instances) /\ IsInjective(freeSlotQueue')
            /\ ToSet(freeSlotQueue') = ToSet(freeSlotQueue) \cup {b}
        BY <2>2, <3>2, ListOperations DEF IInv
      <4> QED
        BY <1>2, <2>6, <3>2, <4>1, ListChanges DEF IInv
    <3> QED
      BY <2>8, <3>1, <3>2
  <2>18. OfflineQueueSound'
    <3>1. ASSUME NEW c \in Instances \ {b}, status'[c] \in {"wait_join", "in_progress"}
          PROVE  /\ IsInjective(offlineQueue'[c])
                 /\ ToSet(offlineQueue'[c]) = {q \in inside'[c] : place'[q] = "offline"}
      BY <2>3, <2>5, <2>6, <2>9, <3>1 DEF IInv, OfflineQueueSound
    <3>2. ToSet(offlineQueue'[b]) = {q \in inside'[b] : place'[q] = "offline"}
      <4>1. {q \in inside'[b] : place'[q] = "offline"} = {q \in inside[b] : place[q] = "offline"} \ {p}
        BY <2>3, <2>6
      <4> QED
        BY <2>4, <2>5, <4>1
    <3> QED
      BY <2>5, <3>1, <3>2 DEF OfflineQueueSound
  <2>19. BgTypes'
    <3>1. status' \in [Instances -> {"none", "wait_leave"} \cup Running]
      BY <2>2, <2>8 DEF BgTypes, End, Running
    <3>2. offlineQueue' \in [Instances -> Seq(Players)]
      BY <2>1, <2>2, <2>5 DEF BgTypes
    <3> QED
      BY <2>16, <2>17, <3>1, <3>2 DEF BgTypes
  <2> QED
    BY <1>1, <2>10, <2>14, <2>16, <2>17, <2>18, <2>19 DEF IInv, TypeOK
<1> QED
  BY <1>3, <1>4

\* Everybody is removed; who is in the world is sent back.
LEMMA UpdateWaitLeaveStep ==
  ASSUME IInv, NEW b \in Instances, UpdateWaitLeave(b)
  PROVE  IInv'
<1>1. Filling'
  BY FillingIdle DEF UpdateWaitLeave, Visit, Turn
<1>2. /\ status[b] = "wait_leave"
      /\ UNCHANGED <<queueVars, status, offlineQueue, undercounted>>
  BY DEF UpdateWaitLeave, Visit, Turn
<1>3. CASE UNCHANGED <<playerVars, inside, invited, freeSlotQueue>>
  <2>1. UNCHANGED <<playerVars, queueVars, bgVars>>
    BY <1>2, <1>3 DEF bgVars
  <2> QED
    BY <1>1, <2>1, Idle
<1>4. CASE RemovePlayersAtLeave(b, inside[b]) /\ SendBack(b, inside[b])
  <2> DEFINE there == {p \in inside[b] : place[p] = "world"}
  <2>1. /\ RemoveParticipants(b, inside[b])
        /\ freeSlotQueue' = freeSlotQueue
        /\ slots' = slots \ there
        /\ slotInvite' = [p \in Players |-> IF p \in there THEN 0 ELSE slotInvite[p]]
        /\ bgInstanceID' = [p \in Players |-> IF p \in there THEN 0 ELSE bgInstanceID[p]]
        /\ place' = [p \in Players |-> IF p \in there THEN "loading" ELSE place[p]]
    <3>1. there \cap inside[b] = there
      OBVIOUS
    <3> QED
      BY <1>2, <1>4, <3>1 DEF RemovePlayersAtLeave, SendBack
  <2>2. TypeOK /\ PlayerTypes /\ QueueTypes /\ BgTypes
    BY DEF IInv, TypeOK
  <2>3. UNCHANGED <<m_QueuedPlayers, members, invitedTo, premade, normal, timed>>
    BY <1>2 DEF queueVars
  <2>4. \A c \in Instances : inside'[c] = IF c = b THEN {} ELSE inside[c]
    BY <2>1, <2>2 DEF RemoveParticipants, BgTypes
  <2>5. inside[b] \subseteq Players /\ 0 \in 0..MaxInstance /\ 0 \notin Instances
    <3>1. inside[b] \subseteq Players
      BY <2>2 DEF BgTypes
    <3> QED
      BY <3>1, QueueAssumption DEF Instances
  <2>6. PlayerTypes' /\ QueueTypes' /\ Lists' /\ Grouped'
    BY <2>1, <2>2, <2>3, <2>5 DEF PlayerTypes, QueueTypes, IInv, Lists, Listed, Grouped
  <2>7. \A q \in Players \ inside[b] : SameFor(q)
    BY <2>1, <2>3, <2>4 DEF SameFor
  <2>8. ASSUME NEW p \in inside[b]
        PROVE  Journey(p)' /\ \A c \in Instances : ~Holds(p, c)'
    <3>1. p \in Players /\ Journey(p) /\ place[p] \in {"world", "loading", "offline"}
      BY <2>2, <2>5 DEF IInv, PlayerTypes
    <3>2. m_QueuedPlayers[p] = 0 /\ place[p] # "loading" /\ \A c \in Instances : p \notin inside'[c]
      BY <2>4, <3>1 DEF Journey
    <3>3. p \notin timed /\ p \notin slots' /\ slotInvite'[p] = 0
      BY <2>1, <3>1, <3>2 DEF Journey
    <3>4. CASE place[p] = "world"
      <4>1. place'[p] = "loading" /\ bgInstanceID'[p] = 0
        BY <2>1, <3>1, <3>4
      <4> QED
        BY <2>3, <2>5, <3>2, <3>3, <4>1 DEF Journey, Holds
    <3>5. CASE place[p] = "offline"
      <4>1. place'[p] = "offline"
        BY <2>1, <3>1, <3>5
      <4> QED
        BY <2>3, <3>2, <3>3, <4>1 DEF Journey, Holds
    <3> QED
      BY <3>1, <3>2, <3>4, <3>5
  <2>9. \A q \in Players : Journey(q)'
    BY <2>2, <2>7, <2>8, JourneyKept DEF IInv
  <2>10. /\ invited' \in [Instances -> [Teams -> 0..(CounterSize - 1)]]
         /\ inside' \in [Instances -> SUBSET Players]
         /\ Gone' /\ InvitedCovers'
    <3>1. inside[b] \in SUBSET inside[b] /\ status[b] # "none"
      BY <1>2
    <3> QED
      BY <1>2, <2>1, <2>2, <2>7, <2>8, <3>1, ParticipantsLeave DEF IInv
  <2>11. FreeSlotsListed'
    <3>1. \A c \in Instances \ {b} : HasFreeSlots(c)' <=> HasFreeSlots(c)
      BY <2>4 DEF HasFreeSlots
    <3> QED
      BY <1>2, <2>1, <3>1 DEF IInv, FreeSlotsListed
  <2>12. OfflineQueueSound'
    <3>1. ASSUME NEW c \in Instances, status[c] \in {"wait_join", "in_progress"}
          PROVE  {q \in inside'[c] : place'[q] = "offline"} = {q \in inside[c] : place[q] = "offline"}
      <4>1. inside'[c] = inside[c] /\ inside[c] \subseteq Players
        BY <1>2, <2>2, <2>4, <3>1 DEF BgTypes
      <4>2. \A q \in Players : place'[q] = "offline" <=> place[q] = "offline"
        BY <2>1
      <4> QED
        BY <4>1, <4>2
    <3> QED
      BY <1>2, <3>1 DEF IInv, OfflineQueueSound
  <2>13. BgTypes'
    BY <1>2, <2>1, <2>2, <2>10 DEF BgTypes
  <2> QED
    BY <1>1, <2>6, <2>9, <2>10, <2>11, <2>12, <2>13 DEF IInv, TypeOK
<1> QED
  BY <1>3, <1>4 DEF UpdateWaitLeave

\* The update visits the battlegrounds in order.
LEMMA BeginUpdateStep ==
  ASSUME IInv, BeginUpdate
  PROVE  IInv'
<1>1. UNCHANGED <<playerVars, queueVars, bgVars>> /\ phase' # "fill"
  BY DEF BeginUpdate
<1> QED
  BY <1>1, FillingIdle, Idle

\* The update of the queue starts with the battlegrounds listed then.
LEMMA BeginQueueUpdateStep ==
  ASSUME IInv, BeginQueueUpdate
  PROVE  IInv'
<1>1. UNCHANGED <<playerVars, queueVars, bgVars>> /\ (phase' = "fill" => todo' = freeSlotQueue)
  BY DEF BeginQueueUpdate
<1>2. Filling'
  BY <1>1 DEF IInv, TypeOK, BgTypes, FreeSlotsListed, Filling, Running, bgVars
<1> QED
  BY <1>1, <1>2, Idle

-----------------------------------------------------------------------------
(* Selection pools.                                                         *)

\* A set of naturals has a least element.
LEMMA LeastNatural ==
  ASSUME NEW T \in SUBSET Nat, T # {}
  PROVE  \E x \in T : \A y \in T : x <= y
<1> DEFINE R == {ss \in Nat \X Nat : ss[1] < ss[2]}
<1>1. IsWellFoundedOn(R, Nat)
  BY NatLessThanWellFounded DEF OpToRel
<1>2. \A x, y \in Nat : y < x => <<y, x>> \in R
  OBVIOUS
<1> HIDE DEF R
<1>3. PICK x \in T : \A y \in T : <<y, x>> \notin R
  BY <1>1, WFMin
<1>4. \A y \in T : y \in Nat /\ x \in Nat /\ ~(y < x)
  BY <1>2, <1>3
<1> QED
  BY <1>4

\* Induction over the places of a list, with the set of those that are reached.
LEMMA PlaceInduction ==
  ASSUME NEW n \in Nat, NEW S, 0 \in S, \A k \in 0..(n - 1) : k \in S => k + 1 \in S
  PROVE  \A k \in 0..n : k \in S
<1> DEFINE T == {k \in 0..n : k \notin S}
<1>1. SUFFICES ASSUME T # {} PROVE FALSE
  OBVIOUS
<1>2. T \in SUBSET Nat
  OBVIOUS
<1>3. PICK x \in T : \A y \in T : x <= y
  <2> HIDE DEF T
  <2> QED
    BY <1>1, <1>2, LeastNatural
<1>4. x # 0 /\ x - 1 \in 0..(n - 1) /\ x - 1 \in 0..n /\ ~(x <= x - 1)
  BY <1>3
<1>5. x - 1 \in S /\ (x - 1) + 1 = x
  BY <1>3, <1>4
<1> QED
  BY <1>3, <1>4, <1>5

\* The pools after the first n groups of a list, in SelectAll and in NormalPool.
Chosen(f, n, pool, queue, k) ==
  f = [i \in 0..n |-> IF i = 0 THEN pool ELSE Select(f[i - 1], queue[i], k)]

Taken(f, n, t) ==
  f = [i \in 0..n |-> IF i = 0 THEN {}
                      ELSE IF Size(f[i - 1]) >= MinPlayersPerTeam THEN f[i - 1]
                      ELSE Select(f[i - 1], normal[t][i], MaxPlayersPerTeam)]

\* There are such pools, and the last one is the result.
LEMMA SelectAllLoop ==
  ASSUME NEW pool, NEW queue, Len(queue) \in Nat, NEW k
  PROVE  \E f : Chosen(f, Len(queue), pool, queue, k) /\ SelectAll(pool, queue, k) = f[Len(queue)]
<1> DEFINE N == Len(queue)
           S == {n \in Nat : \E f : Chosen(f, n, pool, queue, k)}
           F == CHOOSE f : Chosen(f, N, pool, queue, k)
<1>1. 0 \in S
  <2> DEFINE f == [i \in 0..0 |-> pool]
  <2>1. Chosen(f, 0, pool, queue, k)
    BY DEF Chosen
  <2> QED
    BY <2>1
<1>2. ASSUME NEW n \in 0..(N - 1), n \in S PROVE n + 1 \in S
  <2>1. PICK f : Chosen(f, n, pool, queue, k)
    BY <1>2
  <2> DEFINE h == [i \in 0..(n + 1) |-> IF i = n + 1 THEN Select(f[n], queue[i], k) ELSE f[i]]
  <2>2. ASSUME NEW i \in 0..(n + 1)
        PROVE  h[i] = IF i = 0 THEN pool ELSE Select(h[i - 1], queue[i], k)
    <3>1. CASE i = n + 1
      <4>1. i # 0 /\ i - 1 = n /\ n \in 0..(n + 1) /\ n # n + 1
        BY <3>1
      <4>2. h[n] = f[n]
        BY <4>1
      <4> QED
        BY <3>1, <4>1, <4>2
    <3>2. CASE i # n + 1
      <4>1. i \in 0..n
        BY <3>2
      <4>2. f[i] = IF i = 0 THEN pool ELSE Select(f[i - 1], queue[i], k)
        BY <2>1, <4>1, Zenon DEF Chosen
      <4>3. h[i] = f[i]
        BY <3>2
      <4>4. i # 0 => i - 1 \in 0..(n + 1) /\ i - 1 # n + 1
        BY <4>1
      <4>5. i # 0 => h[i - 1] = f[i - 1]
        BY <4>4
      <4> QED
        BY <4>2, <4>3, <4>5
    <3> QED
      BY <3>1, <3>2
  <2>3. Chosen(h, n + 1, pool, queue, k)
    BY <2>2, Zenon DEF Chosen
  <2>4. n + 1 \in Nat
    OBVIOUS
  <2> HIDE DEF h
  <2> QED
    BY <2>3, <2>4
<1>3. N \in S
  <2> HIDE DEF S
  <2>1. N \in Nat /\ N \in 0..N
    OBVIOUS
  <2> QED
    BY <1>1, <1>2, <2>1, PlaceInduction
<1>4. Chosen(F, N, pool, queue, k)
  <2>1. \E f : Chosen(f, N, pool, queue, k)
    BY <1>3
  <2> QED
    BY <2>1, Zenon
<1>5. SelectAll(pool, queue, k) = F[N]
  BY Zenon DEF SelectAll, Chosen
<1> QED
  BY <1>4, <1>5, Zenon

\* The loop of CheckNormalMatch, likewise.
LEMMA NormalPoolLoop ==
  ASSUME NEW t, Len(normal[t]) \in Nat
  PROVE  \E f : Taken(f, Len(normal[t]), t) /\ NormalPool(t) = f[Len(normal[t])]
<1> DEFINE N == Len(normal[t])
           S == {n \in Nat : \E f : Taken(f, n, t)}
           F == CHOOSE f : Taken(f, N, t)
           Step(pool, g) == IF Size(pool) >= MinPlayersPerTeam THEN pool
                            ELSE Select(pool, g, MaxPlayersPerTeam)
<1>1. 0 \in S
  <2> DEFINE f == [i \in 0..0 |-> {}]
  <2>1. Taken(f, 0, t)
    BY DEF Taken
  <2> QED
    BY <2>1
<1>2. ASSUME NEW n \in 0..(N - 1), n \in S PROVE n + 1 \in S
  <2>1. PICK f : Taken(f, n, t)
    BY <1>2
  <2> DEFINE h == [i \in 0..(n + 1) |-> IF i = n + 1 THEN Step(f[n], normal[t][i]) ELSE f[i]]
  <2>2. ASSUME NEW i \in 0..(n + 1)
        PROVE  h[i] = IF i = 0 THEN {} ELSE Step(h[i - 1], normal[t][i])
    <3>1. CASE i = n + 1
      <4>1. i # 0 /\ i - 1 = n /\ n \in 0..(n + 1) /\ n # n + 1
        BY <3>1
      <4>2. h[n] = f[n]
        BY <4>1
      <4> QED
        BY <3>1, <4>1, <4>2
    <3>2. CASE i # n + 1
      <4>1. i \in 0..n
        BY <3>2
      <4>2. f[i] = IF i = 0 THEN {} ELSE Step(f[i - 1], normal[t][i])
        BY <2>1, <4>1, Zenon DEF Taken
      <4>3. h[i] = f[i]
        BY <3>2
      <4>4. i # 0 => i - 1 \in 0..(n + 1) /\ i - 1 # n + 1
        BY <4>1
      <4>5. i # 0 => h[i - 1] = f[i - 1]
        BY <4>4
      <4> QED
        BY <4>2, <4>3, <4>5
    <3> QED
      BY <3>1, <3>2
  <2>3. Taken(h, n + 1, t)
    BY <2>2, Zenon DEF Taken
  <2>4. n + 1 \in Nat
    OBVIOUS
  <2> HIDE DEF h
  <2> QED
    BY <2>3, <2>4
<1>3. N \in S
  <2> HIDE DEF S
  <2>1. N \in Nat /\ N \in 0..N
    OBVIOUS
  <2> QED
    BY <1>1, <1>2, <2>1, PlaceInduction
<1>4. Taken(F, N, t)
  <2>1. \E f : Taken(f, N, t)
    BY <1>3
  <2> QED
    BY <2>1, Zenon
<1>5. NormalPool(t) = F[N]
  BY Zenon DEF NormalPool, Taken
<1> QED
  BY <1>4, <1>5, Zenon

\* A pool for the team t: groups of its lists that are invited nowhere, of at most k
\* players together.
PoolSound(pool, t, k) ==
  /\ pool \subseteq Listed(t)
  /\ \A g \in pool : invitedTo[g] = 0
  /\ Size(pool) <= k

\* The players of groups are players; the lists hold groups.
LEMMA PoolPlayers ==
  ASSUME QueueTypes
  PROVE  /\ \A t \in Teams : /\ Listed(t) \subseteq Infos
                             /\ \A n \in 1..Len(normal[t]) : normal[t][n] \in Listed(t)
                             /\ \A n \in DOMAIN premade[t] : premade[t][n] \in Listed(t)
         /\ \A pool \in SUBSET Infos :
              /\ UNION {members[g] : g \in pool} \in SUBSET Players
              /\ Size(pool) \in Nat
         /\ Size({}) = 0
<1>1. \A pool \in SUBSET Infos : UNION {members[g] : g \in pool} \in SUBSET Players
  BY DEF QueueTypes
<1>2. \A pool \in SUBSET Infos : Size(pool) \in Nat
  BY <1>1, PlayersCount DEF Size
<1>3. Size({}) = 0
  <2>1. UNION {members[g] : g \in {}} = {}
    OBVIOUS
  <2> QED
    BY <2>1, FS_EmptySet DEF Size
<1>4. ASSUME NEW t \in Teams
      PROVE  /\ Listed(t) \subseteq Infos
             /\ \A n \in 1..Len(normal[t]) : normal[t][n] \in Listed(t)
             /\ \A n \in DOMAIN premade[t] : premade[t][n] \in Listed(t)
  <2>1. normal[t] \in Seq(Infos) /\ premade[t] \in Seq(Infos)
    BY DEF QueueTypes
  <2> QED
    BY <2>1, SequenceElements DEF Listed
<1> QED
  BY <1>1, <1>2, <1>3, <1>4

\* SelectionPool::AddGroup.
LEMMA SelectSound ==
  ASSUME QueueTypes, NEW t \in Teams, NEW k \in Nat, NEW d \in Nat, d <= k,
         NEW pool, PoolSound(pool, t, k), NEW g \in Listed(t)
  PROVE  PoolSound(Select(pool, g, d), t, k)
<1> DEFINE old == UNION {members[h] : h \in pool}
           new == UNION {members[h] : h \in pool \cup {g}}
<1>1. CASE invitedTo[g] = 0 /\ Size(pool) + Cardinality(members[g]) <= d
  <2>1. Select(pool, g, d) = pool \cup {g}
    BY <1>1 DEF Select
  <2>2. /\ pool \in SUBSET Infos /\ pool \cup {g} \in SUBSET Infos /\ g \in Infos
        /\ members[g] \in SUBSET Players
    BY PoolPlayers DEF PoolSound, QueueTypes
  <2>3. old \in SUBSET Players /\ new \subseteq old \cup members[g]
    BY <2>2, PoolPlayers
  <2>4. Cardinality(new) <= Cardinality(old) + Cardinality(members[g])
    BY <2>2, <2>3, PlayersMore
  <2>5. /\ Size(pool) \in Nat /\ Size(pool \cup {g}) \in Nat /\ Cardinality(members[g]) \in Nat
        /\ Size(pool) = Cardinality(old) /\ Size(pool \cup {g}) = Cardinality(new)
    BY <2>2, PoolPlayers, PlayersCount DEF Size
  <2>6. Size(pool \cup {g}) <= k
    BY <1>1, <2>4, <2>5
  <2> QED
    BY <1>1, <2>1, <2>6 DEF PoolSound
<1>2. CASE ~(invitedTo[g] = 0 /\ Size(pool) + Cardinality(members[g]) <= d)
  BY <1>2 DEF Select
<1> QED
  BY <1>1, <1>2

\* The loops over the normal queue keep a pool sound.
LEMMA SelectAllSound ==
  ASSUME QueueTypes, NEW t \in Teams, NEW k \in Nat, NEW d \in Nat, d <= k,
         NEW pool, PoolSound(pool, t, k)
  PROVE  PoolSound(SelectAll(pool, normal[t], d), t, k)
<1> DEFINE N == Len(normal[t])
<1>1. N \in Nat /\ \A n \in 1..N : normal[t][n] \in Listed(t)
  BY PoolPlayers DEF QueueTypes
<1>2. PICK f : Chosen(f, N, pool, normal[t], d) /\ SelectAll(pool, normal[t], d) = f[N]
  BY <1>1, SelectAllLoop
<1> DEFINE S == {n \in 0..N : PoolSound(f[n], t, k)}
<1> HIDE DEF N
<1>3. \A n \in 0..N : f[n] = IF n = 0 THEN pool ELSE Select(f[n - 1], normal[t][n], d)
  BY <1>2, Zenon DEF Chosen
<1>4. 0 \in S
  BY <1>1, <1>3
<1>5. ASSUME NEW n \in 0..(N - 1), n \in S PROVE n + 1 \in S
  <2>1. n + 1 \in 1..N /\ n + 1 \in 0..N /\ n + 1 # 0 /\ (n + 1) - 1 = n
    BY <1>1
  <2>2. f[n + 1] = Select(f[n], normal[t][n + 1], d)
    BY <1>3, <2>1
  <2>3. PoolSound(f[n], t, k)
    BY <1>5
  <2>4. PoolSound(Select(f[n], normal[t][n + 1], d), t, k)
    BY <1>1, <2>1, <2>3, SelectSound
  <2> QED
    BY <2>1, <2>2, <2>4
<1>6. N \in 0..N /\ \A n \in 0..N : n \in S
  <2> HIDE DEF S
  <2> QED
    BY <1>1, <1>4, <1>5, PlaceInduction
<1> QED
  BY <1>2, <1>6

\* CheckNormalMatch takes pools of the size of a team at most.
LEMMA NormalPoolSound ==
  ASSUME QueueTypes, NEW t \in Teams
  PROVE  PoolSound(NormalPool(t), t, MaxPlayersPerTeam)
<1> DEFINE N == Len(normal[t])
           k == MaxPlayersPerTeam
<1>1. N \in Nat /\ (\A n \in 1..N : normal[t][n] \in Listed(t)) /\ k \in Nat
  BY PoolPlayers, QueueAssumption DEF QueueTypes
<1>2. PICK f : Taken(f, N, t) /\ NormalPool(t) = f[N]
  BY <1>1, NormalPoolLoop
<1> DEFINE S == {n \in 0..N : PoolSound(f[n], t, k)}
<1> HIDE DEF N
<1>3. \A n \in 0..N : f[n] = IF n = 0 THEN {}
                             ELSE IF Size(f[n - 1]) >= MinPlayersPerTeam THEN f[n - 1]
                             ELSE Select(f[n - 1], normal[t][n], MaxPlayersPerTeam)
  BY <1>2, Zenon DEF Taken
<1>4. 0 \in S
  <2>1. 0 \in 0..N /\ f[0] = {}
    BY <1>1, <1>3
  <2>2. PoolSound({}, t, k)
    BY <1>1, PoolPlayers DEF PoolSound
  <2> QED
    BY <2>1, <2>2
<1>5. ASSUME NEW n \in 0..(N - 1), n \in S PROVE n + 1 \in S
  <2>1. n + 1 \in 1..N /\ n + 1 \in 0..N /\ n + 1 # 0 /\ (n + 1) - 1 = n
    BY <1>1
  <2>2. f[n + 1] = IF Size(f[n]) >= MinPlayersPerTeam THEN f[n]
                   ELSE Select(f[n], normal[t][n + 1], k)
    BY <1>3, <2>1
  <2>3. PoolSound(f[n], t, k)
    BY <1>5
  <2>4. PoolSound(Select(f[n], normal[t][n + 1], k), t, k)
    BY <1>1, <2>1, <2>3, SelectSound
  <2> QED
    BY <2>1, <2>2, <2>3, <2>4
<1>6. N \in 0..N /\ \A n \in 0..N : n \in S
  <2> HIDE DEF S
  <2> QED
    BY <1>1, <1>4, <1>5, PlaceInduction
<1> QED
  BY <1>2, <1>6

\* Min of some naturals is one of them, and the least.
LEMMA MinNatural ==
  ASSUME NEW T \in SUBSET Nat, T # {}
  PROVE  Min(T) \in T /\ \A y \in T : Min(T) <= y
BY LeastNatural DEF Min

\* CheckPremadeMatch takes a pool of the size of a team at most for each team.
LEMMA PremadePoolsSound ==
  ASSUME QueueTypes, PremadeMatch
  PROVE  \E P : /\ PremadePools = UNION {P[t] : t \in Teams}
                /\ \A t \in Teams : PoolSound(P[t], t, MaxPlayersPerTeam)
<1> DEFINE first(t) == Select({}, premade[t][Min(Uninvited(premade[t]))], MaxPlayersPerTeam)
           size == Min({Size(first(t)) : t \in Teams})
           P == [t \in Teams |-> SelectAll(first(t), normal[t], size)]
<1>1. MaxPlayersPerTeam \in Nat
  BY QueueAssumption
<1>2. ASSUME NEW t \in Teams PROVE PoolSound(first(t), t, MaxPlayersPerTeam)
  <2> DEFINE n == Min(Uninvited(premade[t]))
  <2>1. premade[t] \in Seq(Infos)
    BY DEF QueueTypes
  <2>2. DOMAIN premade[t] = 1..Len(premade[t]) /\ Len(premade[t]) \in Nat
    BY <2>1, SequenceElements
  <2>3. Uninvited(premade[t]) \in SUBSET Nat /\ Uninvited(premade[t]) # {}
    BY <2>2 DEF Uninvited, PremadeMatch
  <2>4. n \in DOMAIN premade[t]
    <3>1. Uninvited(premade[t]) \subseteq DOMAIN premade[t]
      BY DEF Uninvited
    <3>2. n \in Uninvited(premade[t])
      BY <2>3, MinNatural
    <3> QED
      BY <3>1, <3>2
  <2> HIDE DEF n
  <2>5. premade[t][n] \in Listed(t)
    BY <2>4, PoolPlayers
  <2>6. PoolSound({}, t, MaxPlayersPerTeam)
    BY <1>1, PoolPlayers DEF PoolSound
  <2>7. PoolSound(Select({}, premade[t][n], MaxPlayersPerTeam), t, MaxPlayersPerTeam)
    BY <1>1, <2>5, <2>6, SelectSound
  <2> QED
    BY <2>7 DEF n
<1> HIDE DEF first
<1>3. size \in Nat /\ size <= MaxPlayersPerTeam
  <2> DEFINE sizes == {Size(first(t)) : t \in Teams}
  <2>1. \A t \in Teams : Size(first(t)) \in Nat /\ Size(first(t)) <= MaxPlayersPerTeam
    BY <1>2, PoolPlayers DEF PoolSound
  <2>2. sizes \in SUBSET Nat /\ Size(first("horde")) \in sizes
    BY <2>1 DEF Teams
  <2> HIDE DEF sizes
  <2>3. Min(sizes) \in Nat /\ Min(sizes) <= Size(first("horde"))
    BY <2>2, MinNatural
  <2>4. "horde" \in Teams
    BY DEF Teams
  <2>5. size \in Nat /\ size <= Size(first("horde"))
    BY <2>3 DEF sizes
  <2> QED
    BY <1>1, <2>1, <2>4, <2>5
<1>4. PremadePools = UNION {SelectAll(first(t), normal[t], size) : t \in Teams}
  BY DEF PremadePools, first
<1> HIDE DEF size
<1>5. \A t \in Teams : PoolSound(P[t], t, MaxPlayersPerTeam)
  BY <1>1, <1>2, <1>3, SelectAllSound
<1>6. PremadePools = UNION {P[t] : t \in Teams}
  BY <1>4
<1> HIDE DEF P
<1> QED
  BY <1>5, <1>6

\* GetFreeSlotsForTeam never returns more than the team has room for.
LEMMA FreeSlots ==
  ASSUME TypeOK, InvitedCovers, NEW b \in Instances, status[b] \in Running, NEW t \in Teams
  PROVE  LET free == GetFreeSlotsForTeam(b, t) IN
         /\ free \in Nat
         /\ b \notin undercounted => invited[b][t] + free <= MaxPlayersPerTeam
<1> DEFINE other == CHOOSE u \in Teams : u # t
           mine == invited[b][t]
           theirs == invited[b][other]
           here == OfTeam(inside[b], t)
           there == OfTeam(inside[b], other)
           room == IF mine < MaxPlayersPerTeam THEN MaxPlayersPerTeam - mine ELSE 0
           behind == IF theirs = mine THEN 1 ELSE IF theirs > mine THEN theirs - mine ELSE 0
           fewer == CASE there = here -> 1
                      [] there > here -> there - here
                      [] there < here /\ mine <= MinPlayersPerTeam -> MinPlayersPerTeam - mine + 1
                      [] OTHER -> 0
<1>1. other \in Teams
  <2>1. \E u \in Teams : u # t
    BY DEF Teams
  <2> QED
    BY <2>1
<1> HIDE DEF other
<1>2. mine \in Nat /\ theirs \in Nat /\ MaxPlayersPerTeam \in Nat /\ MinPlayersPerTeam \in Nat
  <2>1. mine \in 0..(CounterSize - 1) /\ theirs \in 0..(CounterSize - 1)
    BY <1>1 DEF TypeOK, BgTypes
  <2> QED
    BY <2>1, QueueAssumption
<1>3. \A u \in Teams : OfTeam(inside[b], u) \in Nat
  <2>1. \A u \in Teams : {p \in inside[b] : Team[p] = u} \in SUBSET Players
    BY DEF TypeOK, BgTypes
  <2> QED
    BY <2>1, PlayersCount DEF OfTeam
<1>4. here \in Nat /\ there \in Nat
  BY <1>1, <1>3
<1>5. b \notin undercounted => mine <= MaxPlayersPerTeam
  BY CoversParts DEF Covers, Exists, Running
<1>6. GetFreeSlotsForTeam(b, t) = IF status[b] = "wait_join" THEN room ELSE Min({room, behind, fewer})
  BY DEF GetFreeSlotsForTeam, Running, other
<1> HIDE DEF mine, theirs, here, there
<1>7. room \in Nat /\ (mine <= MaxPlayersPerTeam => mine + room <= MaxPlayersPerTeam)
  BY <1>2
<1>8. behind \in Nat /\ fewer \in Nat
  BY <1>2, <1>4
<1> HIDE DEF room, behind, fewer
<1>9. Min({room, behind, fewer}) \in Nat /\ Min({room, behind, fewer}) <= room
  <2>1. {room, behind, fewer} \in SUBSET Nat /\ room \in {room, behind, fewer}
    BY <1>7, <1>8
  <2> QED
    BY <2>1, MinNatural
<1>10. GetFreeSlotsForTeam(b, t) \in Nat /\ GetFreeSlotsForTeam(b, t) <= room
  BY <1>6, <1>7, <1>9
<1>11. mine <= MaxPlayersPerTeam => mine + GetFreeSlotsForTeam(b, t) <= MaxPlayersPerTeam
  BY <1>2, <1>7, <1>10
<1> QED
  BY <1>5, <1>10, <1>11 DEF mine

-----------------------------------------------------------------------------
(* The invitations.                                                         *)

\* The players whom InviteGroupToBG finds in the world.
Called(pools) == {p \in UNION {members[g] : g \in pools} : place[p] = "world"}

\* The groups of a sound pool P[t] of k[t] players for each team.
SoundPools(pools, P, k) ==
  /\ pools = UNION {P[t] : t \in Teams}
  /\ \A t \in Teams : k[t] \in Nat /\ PoolSound(P[t], t, k[t])

\* No more players of a team are called than its pool may hold.
LEMMA CalledFits ==
  ASSUME IInv, NEW P, NEW k, NEW pools, SoundPools(pools, P, k)
  PROVE  /\ pools \subseteq Infos
         /\ \A g \in pools : invitedTo[g] = 0 /\ members[g] # {}
         /\ Called(pools) \in SUBSET Players
         /\ \A t \in Teams : OfTeam(Called(pools), t) \in Nat /\ OfTeam(Called(pools), t) <= k[t]
<1>1. QueueTypes /\ Lists /\ Grouped
  BY DEF IInv, TypeOK
<1>2. /\ pools = UNION {P[t] : t \in Teams}
      /\ \A t \in Teams : k[t] \in Nat /\ PoolSound(P[t], t, k[t])
      /\ \A t \in Teams : P[t] \subseteq Listed(t) /\ P[t] \in SUBSET Infos
  BY <1>1, PoolPlayers DEF SoundPools, PoolSound
<1>3. pools \subseteq Infos
  BY <1>2
<1>4. \A g \in pools : invitedTo[g] = 0
  BY <1>2 DEF PoolSound
<1>5. ASSUME NEW g \in pools PROVE members[g] # {}
  <2>1. PICK t \in Teams : g \in P[t]
    BY <1>2
  <2>2. g \in Infos /\ g \in Listed(t)
    BY <1>2, <2>1
  <2>3. \E p \in members[g] : Team[p] = t
    BY <1>1, <2>2 DEF Lists
  <2> QED
    BY <2>3
<1>6. Called(pools) \in SUBSET Players
  BY <1>1, <1>3, PoolPlayers DEF Called
<1>7. ASSUME NEW t \in Teams
      PROVE  OfTeam(Called(pools), t) \in Nat /\ OfTeam(Called(pools), t) <= k[t]
  <2> DEFINE mates == {p \in Called(pools) : Team[p] = t}
             pool == UNION {members[g] : g \in P[t]}
  <2>1. ASSUME NEW p \in Called(pools), Team[p] = t PROVE p \in pool
    <3>1. PICK g \in pools : p \in members[g]
      BY DEF Called
    <3>2. PICK u \in Teams : g \in P[u]
      BY <1>2, <3>1
    <3>3. g \in Infos /\ g \in Listed(u)
      BY <1>2, <3>2
    <3>4. PICK q \in members[g] : Team[q] = u
      BY <1>1, <3>3 DEF Lists
    <3>5. u = t
      BY <1>1, <2>1, <3>1, <3>3, <3>4 DEF Grouped
    <3> QED
      BY <3>1, <3>2, <3>5
  <2>2. mates \in SUBSET pool
    BY <2>1
  <2>3. pool \in SUBSET Players
    BY <1>1, <1>2, PoolPlayers
  <2>4. OfTeam(Called(pools), t) = Cardinality(mates) /\ Size(P[t]) = Cardinality(pool)
    BY DEF OfTeam, Size
  <2> HIDE DEF mates, pool
  <2>5. mates \in SUBSET Players
    BY <2>2, <2>3
  <2>6. Cardinality(mates) <= Cardinality(pool) /\ Cardinality(mates) \in Nat /\ Cardinality(pool) \in Nat
    BY <2>2, <2>3, <2>5, PlayersCount
  <2>7. Size(P[t]) <= k[t] /\ k[t] \in Nat
    BY <1>2 DEF PoolSound
  <2> QED
    BY <2>4, <2>6, <2>7
<1> QED
  BY <1>3, <1>4, <1>5, <1>6, <1>7

\* The invitations of groups that are invited nowhere to the battleground b, where
\* there is room for those who are called: whoever is called counts from now on, and
\* is counted; of the others nobody comes to count.
LEMMA Invitations ==
  ASSUME IInv, NEW b \in Instances, NEW pools \in SUBSET Infos,
         \A g \in pools : invitedTo[g] = 0 /\ members[g] # {},
         InviteGroupsToBG(pools, b),
         \A c \in Instances \ {b} : status'[c] = status[c],
         status'[b] # "none",
         UNCHANGED <<place, bgInstanceID, slots, m_QueuedPlayers, members, premade, normal,
                     inside, undercounted>>,
         b \notin undercounted => \A t \in Teams :
           /\ Cardinality(Holders(b, t)) <= invited[b][t]
           /\ invited[b][t] + OfTeam(Called(pools), t) <= MaxPlayersPerTeam
  PROVE  /\ PlayerTypes' /\ QueueTypes' /\ Lists' /\ Grouped'
         /\ \A q \in Players : Journey(q)'
         /\ invited' \in [Instances -> [Teams -> 0..(CounterSize - 1)]]
         /\ Gone' /\ InvitedCovers'
<1> DEFINE called == Called(pools)
           mates(t) == {p \in called : Team[p] = t}
<1>1. /\ invitedTo' = [g \in Infos |-> IF g \in pools THEN b ELSE invitedTo[g]]
      /\ slotInvite' = [p \in Players |-> IF p \in called THEN b ELSE slotInvite[p]]
      /\ timed' = timed \cup called
      /\ invited' = [invited EXCEPT ![b] = [t \in Teams |-> Up(@[t], OfTeam(called, t))]]
  BY DEF InviteGroupsToBG, Called
<1>2. TypeOK /\ PlayerTypes /\ QueueTypes /\ BgTypes /\ Lists /\ Grouped
  BY DEF IInv, TypeOK
<1>3. b # 0 /\ b \in 0..MaxInstance
  BY QueueAssumption DEF Instances
<1>4. called \in SUBSET Players
  BY <1>2, PoolPlayers DEF Called
<1>5. ASSUME NEW t \in Teams
      PROVE  /\ mates(t) \in SUBSET Players /\ OfTeam(called, t) = Cardinality(mates(t))
             /\ OfTeam(called, t) \in Nat
  BY <1>4, PlayersCount DEF OfTeam
<1>6. ASSUME NEW q \in called
      PROVE  /\ place[q] = "world" /\ q \in Players /\ m_QueuedPlayers[q] \in pools
             /\ m_QueuedPlayers[q] # 0
    <2>1. PICK g \in pools : q \in members[g] /\ place[q] = "world"
      BY DEF Called
    <2>2. g # 0
      BY QueueAssumption DEF Infos
    <2> QED
      BY <1>2, <1>4, <2>1, <2>2 DEF Grouped
<1> HIDE DEF called
<1>7. PlayerTypes'
  BY <1>1, <1>2, <1>3 DEF PlayerTypes
<1>8. QueueTypes'
  BY <1>1, <1>2, <1>3, <1>4 DEF QueueTypes
<1>9. Lists' /\ Grouped'
  <2>1. Lists'
    BY <1>2 DEF Lists, Listed
  <2> QED
    BY <1>1, <1>2, <2>1 DEF Grouped
<1>10. ASSUME NEW q \in Players PROVE Journey(q)'
  <2> DEFINE g == m_QueuedPlayers[q]
  <2>1. Journey(q) /\ (g # 0 => g \in Infos)
    BY <1>2 DEF IInv, QueueTypes
  <2>2. CASE q \in called
    <3>1. /\ place'[q] = "world" /\ g \in pools /\ g # 0 /\ m_QueuedPlayers'[q] = g
          /\ slotInvite'[q] = b /\ invitedTo'[g] = b /\ q \in slots'
      BY <1>1, <1>6, <2>1, <2>2 DEF Journey
    <3>2. \A c \in Instances : q \notin inside'[c]
      BY <2>1, <3>1 DEF Journey
    <3>3. bgInstanceID'[q] # 0 => q \in inside'[bgInstanceID'[q]]
      BY <1>6, <2>1, <2>2 DEF Journey
    <3> QED
      BY <3>1, <3>2, <3>3 DEF Journey
  <2>3. CASE q \notin called /\ g \in pools /\ g # 0
    <3>1. /\ slotInvite'[q] = 0 /\ slotInvite[q] = 0 /\ m_QueuedPlayers'[q] = g
          /\ q \in slots' /\ (q \in timed' => q \in timed)
      BY <1>1, <2>1, <2>3 DEF Journey
    <3>2. place'[q] # "offline" /\ \A c \in Instances : q \notin inside'[c]
      BY <2>1, <2>3 DEF Journey
    <3>3. place[q] \in {"world", "loading", "offline"} /\ place' = place /\ bgInstanceID' = bgInstanceID
      BY <1>2 DEF PlayerTypes
    <3>4. place[q] = "loading" => bgInstanceID[q] = 0
      BY <2>1, <2>3 DEF Journey
    <3>5. place[q] = "world" /\ bgInstanceID[q] # 0 => q \in inside'[bgInstanceID[q]]
      BY <2>1 DEF Journey
    <3> QED
      BY <2>3, <3>1, <3>2, <3>3, <3>4, <3>5 DEF Journey
  <2>4. CASE q \notin called /\ ~(g \in pools /\ g # 0)
    <3>1. SameFor(q)
      BY <1>1, <1>2, <2>1, <2>4 DEF SameFor
    <3> QED
      BY <1>2, <2>1, <3>1, JourneyKept
  <2> QED
    BY <2>2, <2>3, <2>4
<1>11. \A c \in Instances, t \in Teams :
         invited'[c][t] = IF c = b THEN Up(invited[c][t], OfTeam(called, t)) ELSE invited[c][t]
  BY <1>1, <1>2 DEF BgTypes
<1>12. invited' \in [Instances -> [Teams -> 0..(CounterSize - 1)]]
  <2>1. \A t \in Teams : Up(invited[b][t], OfTeam(called, t)) \in 0..(CounterSize - 1)
    BY <1>2, <1>5, Counter DEF BgTypes
  <2>2. [t \in Teams |-> Up(invited[b][t], OfTeam(called, t))] \in [Teams -> 0..(CounterSize - 1)]
    BY <2>1
  <2> QED
    BY <1>1, <1>2, <2>2 DEF BgTypes
<1>13. Gone'
  BY <1>11 DEF IInv, Gone
<1>14. ASSUME NEW c \in Instances, NEW q \in Players, Holds(q, c)'
       PROVE  Holds(q, c) \/ (c = b /\ q \in called)
  BY <1>1, <1>6, <1>14 DEF Holds
<1>15. ASSUME NEW c \in Instances, c \notin undercounted', NEW t \in Teams
       PROVE  Covers(c, t)'
  <2>1. CASE c = b
    <3>1. /\ Cardinality(Holders(b, t)) <= invited[b][t]
          /\ invited[b][t] + Cardinality(mates(t)) <= MaxPlayersPerTeam
      BY <1>5, <1>15, <2>1 DEF called
    <3>2. Holders(b, t)' \subseteq Holders(b, t) \cup mates(t)
      BY <1>14, CoversParts, CoversPartsNext
    <3>3. invited'[b][t] = Up(invited[b][t], Cardinality(mates(t))) /\ mates(t) \in SUBSET Players
      BY <1>5, <1>11
    <3>4. Exists(b)'
      BY DEF Exists
    <3> QED
      BY <1>2, <2>1, <3>1, <3>2, <3>3, <3>4, CoversMore
  <2>2. CASE c # b
    <3>1. Covers(c, t)
      BY <1>15, CoversParts DEF IInv
    <3>2. Holders(c, t)' \subseteq Holders(c, t)
      BY <1>14, <2>2, CoversParts, CoversPartsNext
    <3>3. invited'[c][t] = invited[c][t] /\ (Exists(c)' <=> Exists(c))
      BY <1>11, <2>2 DEF Exists
    <3> QED
      BY <1>2, <3>1, <3>2, <3>3, CoversSame
  <2> QED
    BY <2>1, <2>2
<1> QED
  BY <1>7, <1>8, <1>9, <1>10, <1>12, <1>13, <1>15, CoversPartsNext

\* FillPlayersToBG: nobody is called beyond the size of a team, and a battleground
\* leaves the list only when it is full.
LEMMA FillPlayersToBGStep ==
  ASSUME IInv, FillPlayersToBG
  PROVE  IInv'
<1>1. PICK b : b = Head(todo)
  OBVIOUS
<1>p. PICK P : P = [t \in Teams |-> SelectAll({}, normal[t], GetFreeSlotsForTeam(b, t))]
  OBVIOUS
<1>k. PICK k : k = [t \in Teams |-> GetFreeSlotsForTeam(b, t)]
  OBVIOUS
<1>q. PICK pools : pools = UNION {P[t] : t \in Teams}
  OBVIOUS
<1>2. /\ phase = "fill" /\ phase' = phase /\ todo # <<>> /\ todo' = Tail(todo)
      /\ freeSlotQueue' = IF HasFreeSlots(b) THEN freeSlotQueue ELSE RemoveFirst(freeSlotQueue, b)
      /\ UNCHANGED <<place, bgInstanceID, slots, m_QueuedPlayers, members, premade, normal,
                     status, inside, offlineQueue, undercounted>>
  BY <1>1 DEF FillPlayersToBG
<1>3. InviteGroupsToBG(pools, b)
  <2>1. pools = UNION {SelectAll({}, normal[t], GetFreeSlotsForTeam(b, t)) : t \in Teams}
    BY <1>p, <1>q
  <2> QED
    BY <1>1, <2>1 DEF FillPlayersToBG
<1>4. TypeOK /\ PlayerTypes /\ QueueTypes /\ BgTypes
  BY DEF IInv, TypeOK
<1>5. /\ todo \in Seq(Instances) /\ b \in Instances /\ status[b] \in Running
      /\ Tail(todo) \in Seq(Instances) /\ ToSet(Tail(todo)) \subseteq ToSet(todo)
      /\ \A c \in ToSet(todo) : status[c] \in Running
  <2>1. todo \in Seq(Instances) /\ \A c \in ToSet(todo) : status[c] \in Running
    BY <1>2 DEF IInv, Filling
  <2>2. b \in ToSet(todo) /\ ToSet(todo) \subseteq Instances
    BY <1>1, <1>2, <2>1, TailList, SequenceElements
  <2> QED
    BY <1>2, <2>1, <2>2, TailList
<1>6. ASSUME NEW t \in Teams
      PROVE  /\ GetFreeSlotsForTeam(b, t) \in Nat
             /\ b \notin undercounted => invited[b][t] + GetFreeSlotsForTeam(b, t) <= MaxPlayersPerTeam
             /\ PoolSound(P[t], t, k[t])
  <2>1. /\ GetFreeSlotsForTeam(b, t) \in Nat
        /\ b \notin undercounted => invited[b][t] + GetFreeSlotsForTeam(b, t) <= MaxPlayersPerTeam
    BY <1>4, <1>5, FreeSlots DEF IInv
  <2> DEFINE free == GetFreeSlotsForTeam(b, t)
  <2>2. PoolSound({}, t, free)
    BY <1>4, <2>1, PoolPlayers DEF PoolSound
  <2>3. PoolSound(SelectAll({}, normal[t], free), t, free)
    <3> HIDE DEF free
    <3>1. free \in Nat /\ free <= free
      BY <2>1 DEF free
    <3> QED
      BY <1>4, <2>2, <3>1, SelectAllSound
  <2> QED
    BY <1>p, <1>k, <2>1, <2>3
<1>7. SoundPools(pools, P, k)
  BY <1>k, <1>q, <1>6 DEF SoundPools
<1>8. /\ pools \subseteq Infos
      /\ \A g \in pools : invitedTo[g] = 0 /\ members[g] # {}
      /\ \A t \in Teams : OfTeam(Called(pools), t) \in Nat /\ OfTeam(Called(pools), t) <= k[t]
  BY <1>7, CalledFits, Zenon
<1>9. ASSUME b \notin undercounted, NEW t \in Teams
      PROVE  /\ Cardinality(Holders(b, t)) <= invited[b][t]
             /\ invited[b][t] + OfTeam(Called(pools), t) <= MaxPlayersPerTeam
  <2>1. Covers(b, t) /\ Exists(b)
    BY <1>5, <1>9, CoversParts DEF IInv, Exists, Running
  <2>2. k[t] = GetFreeSlotsForTeam(b, t)
    BY <1>k
  <2>3. invited[b][t] \in Nat /\ MaxPlayersPerTeam \in Nat
    <3>1. invited[b][t] \in 0..(CounterSize - 1)
      BY <1>4, <1>5 DEF BgTypes
    <3> QED
      BY <3>1, QueueAssumption
  <2> QED
    BY <1>6, <1>8, <1>9, <2>1, <2>2, <2>3 DEF Covers
<1>10. /\ PlayerTypes' /\ QueueTypes' /\ Lists' /\ Grouped'
       /\ \A q \in Players : Journey(q)'
       /\ invited' \in [Instances -> [Teams -> 0..(CounterSize - 1)]]
       /\ Gone' /\ InvitedCovers'
  <2>1. status'[b] # "none" /\ \A c \in Instances \ {b} : status'[c] = status[c]
    BY <1>2, <1>5 DEF Running
  <2>2. pools \in SUBSET Infos
    BY <1>8
  <2> QED
    BY <1>2, <1>3, <1>5, <1>8, <1>9, <2>1, <2>2, Invitations
<1>11. freeSlotQueue' \in Seq(Instances) /\ FreeSlotsListed'
  <2>1. CASE HasFreeSlots(b)
    BY <1>2, <1>4, <2>1 DEF IInv, BgTypes, FreeSlotsListed, HasFreeSlots
  <2>2. CASE ~HasFreeSlots(b)
    <3>1. /\ freeSlotQueue' \in Seq(Instances) /\ IsInjective(freeSlotQueue')
          /\ ToSet(freeSlotQueue') = ToSet(freeSlotQueue) \ {b}
      BY <1>2, <1>4, <1>5, <2>2, ListOperations DEF IInv
    <3>2. ~HasFreeSlots(b)' /\ FreeSlotsListed
      BY <1>2, <2>2 DEF HasFreeSlots, IInv
    <3> QED
      BY <1>2, <1>5, <3>1, <3>2, ListChanges
  <2> QED
    BY <2>1, <2>2
<1>12. BgTypes'
  BY <1>2, <1>4, <1>10, <1>11 DEF BgTypes
<1>13. OfflineQueueSound'
  BY <1>2, <1>4, OfflineKept DEF IInv
<1>14. Filling'
  BY <1>2, <1>5 DEF Filling
<1> QED
  BY <1>10, <1>11, <1>12, <1>13, <1>14 DEF IInv, TypeOK

\* A battleground that does not exist has no m_OfflineQueue either.
NobodyOffline == \A b \in Instances : status[b] = "none" => offlineQueue[b] = <<>>

\* A new battleground for pools of the size of a team.
LEMMA StartMatchStep ==
  ASSUME IInv, NobodyOffline, NEW P, \A t \in Teams : PoolSound(P[t], t, MaxPlayersPerTeam),
         NEW pools, pools = UNION {P[t] : t \in Teams},
         NEW next, next # "fill", StartMatch(pools, next)
  PROVE  IInv'
<1> DEFINE k == [t \in Teams |-> MaxPlayersPerTeam]
<1>1. PICK b \in Instances :
        /\ status[b] = "none"
        /\ status' = [status EXCEPT ![b] = "wait_join"]
        /\ freeSlotQueue' = AddToBGFreeSlotQueue(b)
        /\ InviteGroupsToBG(pools, b)
  BY DEF StartMatch, CreateAndStart
<1>2. /\ phase' # "fill"
      /\ UNCHANGED <<place, bgInstanceID, slots, m_QueuedPlayers, members, premade, normal,
                     inside, offlineQueue, undercounted>>
  BY DEF StartMatch
<1>3. TypeOK /\ PlayerTypes /\ QueueTypes /\ BgTypes
  BY DEF IInv, TypeOK
<1>4. k \in [Teams -> Nat] /\ MaxPlayersPerTeam \in Nat /\ \A t \in Teams : k[t] = MaxPlayersPerTeam
  BY QueueAssumption
<1> HIDE DEF k
<1>5. /\ pools \in SUBSET Infos
      /\ \A g \in pools : invitedTo[g] = 0 /\ members[g] # {}
      /\ \A t \in Teams : /\ OfTeam(Called(pools), t) \in Nat
                          /\ OfTeam(Called(pools), t) <= MaxPlayersPerTeam
  <2>1. SoundPools(pools, P, k)
    BY <1>4 DEF SoundPools
  <2>2. /\ pools \subseteq Infos
        /\ \A g \in pools : invitedTo[g] = 0 /\ members[g] # {}
        /\ \A t \in Teams : OfTeam(Called(pools), t) \in Nat /\ OfTeam(Called(pools), t) <= k[t]
    BY <2>1, CalledFits, Zenon
  <2> QED
    BY <1>4, <2>2
<1>6. inside[b] = {} /\ \A t \in Teams : invited[b][t] = 0
  BY <1>1 DEF IInv, Gone
<1>7. ASSUME b \notin undercounted, NEW t \in Teams
      PROVE  /\ Cardinality(Holders(b, t)) <= invited[b][t]
             /\ invited[b][t] + OfTeam(Called(pools), t) <= MaxPlayersPerTeam
  <2>1. Covers(b, t) /\ ~Exists(b)
    BY <1>1, <1>7, CoversParts DEF IInv, Exists
  <2>2. Cardinality(Holders(b, t)) <= 0
    BY <2>1 DEF Covers
  <2> QED
    BY <1>4, <1>5, <1>6, <2>2
<1>8. status'[b] = "wait_join" /\ \A c \in Instances \ {b} : status'[c] = status[c]
  BY <1>1, <1>3 DEF BgTypes
<1>9. /\ PlayerTypes' /\ QueueTypes' /\ Lists' /\ Grouped'
      /\ \A q \in Players : Journey(q)'
      /\ invited' \in [Instances -> [Teams -> 0..(CounterSize - 1)]]
      /\ Gone' /\ InvitedCovers'
  <2>1. status'[b] # "none"
    BY <1>8
  <2> QED
    BY <1>1, <1>2, <1>5, <1>7, <1>8, <2>1, Invitations
<1>10. freeSlotQueue' \in Seq(Instances) /\ FreeSlotsListed'
  <2>1. /\ freeSlotQueue' \in Seq(Instances) /\ IsInjective(freeSlotQueue')
        /\ ToSet(freeSlotQueue') = ToSet(freeSlotQueue) \cup {b}
    BY <1>1, <1>3, ListOperations DEF IInv
  <2> QED
    BY <1>2, <1>8, <2>1, ListChanges DEF IInv
<1>11. OfflineQueueSound'
  <2>1. offlineQueue'[b] = <<>> /\ inside'[b] = {}
    BY <1>1, <1>2, <1>6 DEF NobodyOffline
  <2>2. IsInjective(offlineQueue'[b]) /\ ToSet(offlineQueue'[b]) = {}
    BY <2>1, EmptyList
  <2> QED
    BY <1>2, <1>8, <2>1, <2>2 DEF IInv, OfflineQueueSound
<1>12. BgTypes'
  BY <1>1, <1>2, <1>3, <1>9, <1>10 DEF BgTypes, Running
<1> QED
  BY <1>2, <1>9, <1>10, <1>11, <1>12, FillingIdle DEF IInv, TypeOK

\* A premade group changes to the normal queue of its team, and is in one list still.
LEMMA MovePremadeStep ==
  ASSUME IInv, NEW waited, MovePremade(waited)
  PROVE  IInv'
<1>1. /\ phase' # "fill"
      /\ UNCHANGED <<place, bgInstanceID, slots, slotInvite, m_QueuedPlayers, members, invitedTo,
                     timed, status, invited, inside, offlineQueue, freeSlotQueue, undercounted>>
      /\ premade' = [t \in Teams |-> premade'[t]] /\ normal' = [t \in Teams |-> normal'[t]]
  BY DEF MovePremade, playerVars, bgVars
<1>2. TypeOK /\ PlayerTypes /\ QueueTypes /\ BgTypes
  BY DEF IInv, TypeOK
<1>3. ASSUME NEW t \in Teams
      PROVE  /\ premade'[t] \in Seq(Infos) /\ normal'[t] \in Seq(Infos)
             /\ IsInjective(premade'[t]) /\ IsInjective(normal'[t])
             /\ ToSet(premade'[t]) \cap ToSet(normal'[t]) = {}
             /\ Listed(t)' = Listed(t)
  <2>1. /\ premade[t] \in Seq(Infos) /\ normal[t] \in Seq(Infos)
        /\ IsInjective(premade[t]) /\ IsInjective(normal[t])
        /\ ToSet(premade[t]) \cap ToSet(normal[t]) = {}
    BY <1>2 DEF QueueTypes, IInv, Lists
  <2>2. CASE premade'[t] = premade[t] /\ normal'[t] = normal[t]
    BY <2>1, <2>2 DEF Listed
  <2>3. CASE /\ premade[t] # <<>> /\ premade'[t] = Tail(premade[t])
             /\ normal'[t] = <<Head(premade[t])>> \o normal[t]
    <3>1. PICK g : g = Head(premade[t])
      OBVIOUS
    <3>2. /\ premade'[t] \in Seq(Infos) /\ IsInjective(premade'[t])
          /\ ToSet(premade'[t]) = ToSet(premade[t]) \ {g}
          /\ g \in ToSet(premade[t]) /\ g \in Infos
      <4>1. ToSet(premade[t]) \subseteq Infos
        BY <2>1, SequenceElements
      <4> QED
        BY <2>1, <2>3, <3>1, <4>1, TailList
    <3>3. /\ normal'[t] \in Seq(Infos) /\ IsInjective(normal'[t])
          /\ ToSet(normal'[t]) = ToSet(normal[t]) \cup {g}
      <4>1. g \notin ToSet(normal[t])
        BY <2>1, <3>2
      <4> QED
        BY <2>1, <2>3, <3>1, <3>2, <4>1, PrependList
    <3> QED
      BY <2>1, <3>2, <3>3 DEF Listed
  <2> QED
    BY <2>2, <2>3 DEF MovePremade
<1>4. PlayerTypes' /\ QueueTypes' /\ Lists' /\ Grouped'
  <2>1. premade' \in [Teams -> Seq(Infos)] /\ normal' \in [Teams -> Seq(Infos)]
    BY <1>1, <1>3
  <2>2. PlayerTypes' /\ QueueTypes'
    BY <1>1, <1>2, <2>1 DEF PlayerTypes, QueueTypes
  <2>3. Lists'
    BY <1>1, <1>3 DEF IInv, Lists
  <2> QED
    BY <1>1, <2>2, <2>3 DEF IInv, Grouped
<1>5. \A q \in Players : SameFor(q)
  BY <1>1 DEF SameFor
<1>6. \A q \in Players : Journey(q)'
  BY <1>2, <1>5, JourneyKept DEF IInv
<1>7. \A b \in Instances, t \in Teams : Holders(b, t)' \subseteq Holders(b, t)
  BY <1>5, HoldsKept, CoversParts, CoversPartsNext
<1>8. InvitedCovers'
  BY <1>1, <1>2, <1>7, CoversKept DEF IInv
<1>9. BgTypes' /\ Gone' /\ FreeSlotsListed' /\ OfflineQueueSound'
  BY <1>1, <1>2, BgKept, OfflineKept DEF IInv
<1> QED
  BY <1>1, <1>4, <1>6, <1>8, <1>9, FillingIdle DEF IInv, TypeOK

\* The matches of the update, or none.
LEMMA CheckPremadeMatchStep ==
  ASSUME IInv, NobodyOffline, CheckPremadeMatch
  PROVE  IInv'
<1>1. CASE PremadeMatch
  <2>1. PICK P : /\ PremadePools = UNION {P[t] : t \in Teams}
                 /\ \A t \in Teams : PoolSound(P[t], t, MaxPlayersPerTeam)
    BY <1>1, PremadePoolsSound DEF IInv, TypeOK
  <2>2. PICK pools : pools = PremadePools
    OBVIOUS
  <2>3. StartMatch(pools, "normal")
    BY <1>1, <2>2 DEF CheckPremadeMatch
  <2> QED
    BY <2>1, <2>2, <2>3, StartMatchStep
<1>2. CASE ~PremadeMatch
  BY <1>2, MovePremadeStep DEF CheckPremadeMatch
<1> QED
  BY <1>1, <1>2

\* A match of the normal queues, or none.
LEMMA CheckNormalMatchStep ==
  ASSUME IInv, NobodyOffline, CheckNormalMatch
  PROVE  IInv'
<1>1. CASE \A t \in Teams : Size(NormalPool(t)) >= MinPlayersPerTeam
  <2>1. PICK P : P = [t \in Teams |-> NormalPool(t)]
    OBVIOUS
  <2>2. \A t \in Teams : PoolSound(P[t], t, MaxPlayersPerTeam)
    BY <2>1, NormalPoolSound DEF IInv, TypeOK
  <2>3. PICK pools : pools = UNION {P[t] : t \in Teams}
    OBVIOUS
  <2>4. pools = UNION {NormalPool(t) : t \in Teams}
    BY <2>1, <2>3
  <2>5. StartMatch(pools, "handlers")
    BY <1>1, <2>4 DEF CheckNormalMatch
  <2> QED
    BY <2>2, <2>3, <2>5, StartMatchStep
<1>2. CASE ~\A t \in Teams : Size(NormalPool(t)) >= MinPlayersPerTeam
  <2>1. UNCHANGED <<playerVars, queueVars, bgVars>> /\ phase' # "fill"
    BY <1>2 DEF CheckNormalMatch
  <2> QED
    BY <2>1, FillingIdle, Idle
<1> QED
  BY <1>1, <1>2

-----------------------------------------------------------------------------
(* The invariant.                                                           *)

\* Every step keeps the invariant.
LEMMA Step ==
  ASSUME IInv, NobodyOffline, Next
  PROVE  IInv'
<1>1. CASE \E p \in Players : EnterBattle(p) \/ LeaveQueue(p) \/ LeaveBattleground(p) \/ TeleportTo(p)
  BY <1>1, EnterBattleStep, LeaveQueueStep, LeaveBattlegroundStep, TeleportToStep
<1>2. CASE \E p \in Players : WorldportAck(p) \/ LogoutPlayer(p) \/ Login(p) \/ RemoveEvent(p)
  BY <1>2, WorldportAckStep, LogoutPlayerStep, LoginStep, RemoveEventStep
<1>3. CASE \E p \in Soloists : JoinAlone(p)
  BY <1>3, JoinAloneStep, QueueAssumption
<1>4. CASE \E party \in Parties : \E leader \in party : JoinAsGroup(leader, party)
  BY <1>4, JoinAsGroupStep
<1>5. CASE \E b \in Instances : EndBattleground(b) \/ UpdateEmpty(b) \/ UpdateWaitJoin(b)
  BY <1>5, EndBattlegroundStep, UpdateEmptyStep, UpdateWaitJoinStep
<1>6. CASE \E b \in Instances : UpdateInProgress(b) \/ UpdateWaitLeave(b)
  BY <1>6, UpdateInProgressStep, UpdateWaitLeaveStep
<1>7. CASE BeginUpdate \/ BeginQueueUpdate \/ FillPlayersToBG
  BY <1>7, BeginUpdateStep, BeginQueueUpdateStep, FillPlayersToBGStep
<1>8. CASE CheckPremadeMatch \/ CheckNormalMatch
  BY <1>8, CheckPremadeMatchStep, CheckNormalMatchStep
<1>9. CASE Crashed \/ \E b \in Instances : TrackDeserter(b)
  <2>1. UNCHANGED <<playerVars, queueVars, bgVars>> /\ phase' # "fill"
    BY <1>9 DEF Crashed, TrackDeserter, vars, mgrVars
  <2> QED
    BY <2>1, FillingIdle, Idle
<1> QED
  BY <1>1, <1>2, <1>3, <1>4, <1>5, <1>6, <1>7, <1>8, <1>9 DEF Next

\* A step that changes nothing keeps it too.
LEMMA Stuttering ==
  ASSUME IInv, UNCHANGED vars
  PROVE  IInv'
<1>1. UNCHANGED <<playerVars, queueVars, bgVars>> /\ phase' = phase /\ todo' = todo /\ status' = status
  BY DEF vars, mgrVars, bgVars
<1> QED
  BY <1>1, FillingKept, Idle DEF IInv

\* Only battlegrounds that exist have players to go offline, and the destructor
\* empties the queue.
LEMMA NobodyOfflineStep ==
  ASSUME IInv, NobodyOffline, [Next]_vars
  PROVE  NobodyOffline'
<1>1. BgTypes
  BY DEF IInv, TypeOK
<1>2. CASE /\ offlineQueue' = offlineQueue
           /\ \A b \in Instances : status'[b] = "none" => status[b] = "none"
  BY <1>2 DEF NobodyOffline
<1>3. ASSUME NEW p \in Players, LogoutPlayer(p) \/ Login(p)
      PROVE  NobodyOffline'
  <2>1. PICK c : c = bgInstanceID[p]
    OBVIOUS
  <2>2. status' = status /\ (Exists(c) => c \in Instances /\ status[c] # "none")
    BY <1>3 DEF LogoutPlayer, Login, Exists
  <2>3. /\ ~Exists(c) => offlineQueue' = offlineQueue
        /\ \E s : offlineQueue' \in {offlineQueue, [offlineQueue EXCEPT ![c] = s]}
    <3>1. CASE LogoutPlayer(p)
      BY <2>1, <3>1 DEF LogoutPlayer
    <3>2. CASE Login(p)
      BY <2>1, <3>2 DEF Login, EventPlayerLoggedIn
    <3> QED
      BY <1>3, <3>1, <3>2
  <2>4. \A b \in Instances : status[b] = "none" => offlineQueue'[b] = offlineQueue[b]
    BY <1>1, <2>2, <2>3 DEF BgTypes
  <2> QED
    BY <2>2, <2>4 DEF NobodyOffline
<1>4. ASSUME NEW b \in Instances, UpdateEmpty(b), ~(offlineQueue' = offlineQueue /\ status' = status)
      PROVE  NobodyOffline'
  <2>1. /\ status' = [status EXCEPT ![b] = "none"]
        /\ offlineQueue' = [offlineQueue EXCEPT ![b] = <<>>]
    BY <1>4 DEF UpdateEmpty, Delete
  <2> QED
    BY <1>1, <2>1 DEF NobodyOffline, BgTypes
<1>5. ASSUME NEW b \in Instances, UpdateInProgress(b)
      PROVE  NobodyOffline'
  <2>1. /\ status[b] # "none" /\ status'[b] # "none" /\ \A c \in Instances \ {b} : status'[c] = status[c]
    BY <1>1, <1>5 DEF UpdateInProgress, End, BgTypes
  <2>2. \A c \in Instances \ {b} : offlineQueue'[c] = offlineQueue[c]
    BY <1>1, <1>5 DEF UpdateInProgress, BgTypes
  <2> QED
    BY <2>1, <2>2 DEF NobodyOffline
<1>6. ASSUME NEW b \in Instances, EndBattleground(b) \/ UpdateWaitJoin(b)
      PROVE  NobodyOffline'
  <2>1. offlineQueue' = offlineQueue
    BY <1>6 DEF EndBattleground, UpdateWaitJoin
  <2>2. \A c \in Instances : status'[c] = "none" => status[c] = "none"
    BY <1>1, <1>6 DEF EndBattleground, UpdateWaitJoin, End, BgTypes
  <2> QED
    BY <1>2, <2>1, <2>2
<1>7. ASSUME NEW pools, NEW next, StartMatch(pools, next)
      PROVE  NobodyOffline'
  <2>1. offlineQueue' = offlineQueue
    BY <1>7 DEF StartMatch
  <2>2. \A c \in Instances : status'[c] = "none" => status[c] = "none"
    BY <1>1, <1>7 DEF StartMatch, CreateAndStart, BgTypes
  <2> QED
    BY <1>2, <2>1, <2>2
<1>8. CASE offlineQueue' = offlineQueue /\ status' = status
  BY <1>2, <1>8
<1>9. ASSUME NEW p \in Players,
             \/ EnterBattle(p) \/ LeaveQueue(p) \/ LeaveBattleground(p) \/ TeleportTo(p)
             \/ WorldportAck(p) \/ RemoveEvent(p)
      PROVE  offlineQueue' = offlineQueue /\ status' = status
  BY <1>9 DEF EnterBattle, LeaveQueue, LeaveBattleground, TeleportTo, WorldportAck, RemoveEvent, bgVars
<1>10. ASSUME \/ \E p \in Soloists : JoinAlone(p)
              \/ \E party \in Parties : \E leader \in party : JoinAsGroup(leader, party)
              \/ \E b \in Instances : UpdateWaitLeave(b) \/ TrackDeserter(b)
              \/ BeginUpdate \/ BeginQueueUpdate \/ FillPlayersToBG \/ Crashed
       PROVE  offlineQueue' = offlineQueue /\ status' = status
  BY <1>10 DEF JoinAlone, JoinAsGroup, UpdateWaitLeave, BeginUpdate, BeginQueueUpdate,
               FillPlayersToBG, TrackDeserter, Crashed, vars, bgVars
<1>11. ASSUME CheckPremadeMatch
       PROVE  NobodyOffline'
  <2>1. CASE PremadeMatch
    <3>1. PICK pools : pools = PremadePools
      OBVIOUS
    <3> QED
      BY <1>7, <1>11, <2>1, <3>1 DEF CheckPremadeMatch
  <2>2. CASE ~PremadeMatch
    BY <1>8, <1>11, <2>2 DEF CheckPremadeMatch, MovePremade, bgVars
  <2> QED
    BY <2>1, <2>2
<1>12. ASSUME CheckNormalMatch
       PROVE  NobodyOffline'
  <2>1. CASE \A t \in Teams : Size(NormalPool(t)) >= MinPlayersPerTeam
    <3>1. PICK pools : pools = UNION {NormalPool(t) : t \in Teams}
      OBVIOUS
    <3> QED
      BY <1>7, <1>12, <2>1, <3>1 DEF CheckNormalMatch
  <2>2. CASE ~\A t \in Teams : Size(NormalPool(t)) >= MinPlayersPerTeam
    BY <1>8, <1>12, <2>2 DEF CheckNormalMatch, bgVars
  <2> QED
    BY <2>1, <2>2
<1>13. CASE UNCHANGED vars
  BY <1>8, <1>13 DEF vars, bgVars
<1>14. ASSUME Next PROVE NobodyOffline'
  BY <1>3, <1>4, <1>5, <1>6, <1>8, <1>9, <1>10, <1>11, <1>12, <1>14 DEF Next
<1> QED
  BY <1>13, <1>14

\* The world server starts with it.
LEMMA Beginning ==
  ASSUME Init
  PROVE  IInv /\ NobodyOffline
<1>1. /\ CounterSize \in Nat /\ CounterSize > 0 /\ MaxInstance \in Nat
      /\ 0 \in 0..MaxInstance /\ 0 \in 0..(CounterSize - 1) /\ 0 \notin Instances /\ 0 \notin Infos
      /\ MaxPlayersPerTeam \in Nat
  <2>1. Cardinality(Players) \in Nat
    BY PlayersCount
  <2>2. CounterSize \in Nat /\ CounterSize > 0
    BY <2>1, QueueAssumption
  <2> QED
    BY <2>2, QueueAssumption DEF Instances, Infos
<1>2. \A S : <<>> \in Seq(S)
  OBVIOUS
<1>3. ToSet(<<>>) = {} /\ IsInjective(<<>>)
  BY EmptyList
<1>4. PlayerTypes
  BY <1>1 DEF Init, PlayerTypes
<1>5. QueueTypes
  BY <1>1, <1>2 DEF Init, QueueTypes
<1>6. BgTypes
  BY <1>1, <1>2 DEF Init, BgTypes
<1>7. Lists /\ Grouped
  BY <1>1, <1>3 DEF Init, Lists, Listed, Grouped
<1>8. \A p \in Players : Journey(p)
  BY DEF Init, Journey
<1>9. Gone /\ OfflineQueueSound /\ FreeSlotsListed /\ NobodyOffline
  BY <1>3 DEF Init, Gone, OfflineQueueSound, FreeSlotsListed, NobodyOffline
<1>10. Filling
  BY DEF Init, Filling
<1>11. InvitedCovers
  <2>1. ASSUME NEW b \in Instances, NEW t \in Teams PROVE Covers(b, t)
    <3>1. Holders(b, t) = {} /\ ~Exists(b)
      BY <1>1 DEF Init, Holders, Exists
    <3>2. Cardinality(Holders(b, t)) = 0
      BY <3>1, FS_EmptySet
    <3> QED
      BY <3>1, <3>2 DEF Covers
  <2> QED
    BY <2>1, CoversParts
<1> QED
  BY <1>4, <1>5, <1>6, <1>7, <1>8, <1>9, <1>10, <1>11 DEF IInv, TypeOK

\* The inductive invariant holds in every state of the server.
THEOREM Invariance == Spec => [](IInv /\ NobodyOffline)
<1>1. Init => IInv /\ NobodyOffline
  BY Beginning
<1>2. IInv /\ NobodyOffline /\ [Next]_vars => (IInv /\ NobodyOffline)'
  BY Step, Stuttering, NobodyOfflineStep
<1> QED
  BY <1>1, <1>2, PTL DEF Spec

\* The records of the queue, of its players and of the battlegrounds agree
\* (AddGroup, RemovePlayer, the moves between the lists, logins and logouts).
THEOREM RecordsAgree == Spec => []QueueConsistent
<1>1. ASSUME IInv PROVE QueueConsistent
  <2>1. QueueTypes /\ Lists /\ Grouped /\ TypeOK /\ PlayerTypes
    BY <1>1 DEF IInv, TypeOK
  <2>2. ASSUME NEW t \in Teams
        PROVE  /\ IsInjective(premade[t] \o normal[t])
               /\ \A g \in Infos : g \in ToSet(premade[t] \o normal[t]) <=> g \in Listed(t)
    <3>1. premade[t] \in Seq(Infos) /\ normal[t] \in Seq(Infos)
      BY <2>1 DEF QueueTypes
    <3> QED
      BY <2>1, <3>1, JoinLists DEF Lists, Listed
  <2>3. ASSUME NEW g \in Infos
        PROVE  LET where == {t \in Teams : g \in ToSet(premade[t] \o normal[t])} IN
               IF members[g] = {} THEN where = {} /\ invitedTo[g] = 0
                                  ELSE where = {Team[p] : p \in members[g]}
    <3>1. \A t \in Teams : g \in ToSet(premade[t] \o normal[t]) <=> \E p \in members[g] : Team[p] = t
      BY <2>1, <2>2 DEF Lists
    <3>2. \A p \in members[g] : Team[p] \in Teams
      BY <2>1, QueueAssumption DEF QueueTypes
    <3>3. {t \in Teams : g \in ToSet(premade[t] \o normal[t])} = {Team[p] : p \in members[g]}
      BY <3>1, <3>2
    <3>4. members[g] = {} => invitedTo[g] = 0 /\ {Team[p] : p \in members[g]} = {}
      BY <2>1 DEF Grouped
    <3> QED
      BY <3>3, <3>4
  <2>4. ASSUME NEW p \in Players, m_QueuedPlayers[p] # 0
        PROVE  place[p] # "offline" /\ p \in slots /\ slotInvite[p] \in {0, invitedTo[m_QueuedPlayers[p]]}
    BY <1>1, <2>4 DEF IInv, Journey
  <2>5. ASSUME NEW b \in Instances, NEW p \in inside[b]
        PROVE  /\ bgInstanceID[p] = b /\ m_QueuedPlayers[p] = 0
               /\ IF place[p] = "offline" THEN p \notin slots ELSE p \in slots /\ slotInvite[p] = b
    <3>1. p \in Players /\ place[p] \in {"world", "loading", "offline"}
      BY <2>1 DEF TypeOK, BgTypes, PlayerTypes
    <3>2. Journey(p)
      BY <1>1, <3>1 DEF IInv
    <3> QED
      BY <3>1, <3>2 DEF Journey
  <2> QED
    BY <2>1, <2>2, <2>3, <2>4, <2>5 DEF QueueConsistent, Grouped
<1> QED
  BY <1>1, Invariance, PTL

\* No battleground is deleted under a player who may still enter it, and no team is
\* overfilled (InviteGroupToBG, RemovePlayer, RemovePlayerAtLeave), as long as the
\* battleground has counted out nobody whom it never counted in.
THEOREM InvitedPlayersCounted == Spec => []InvitedCovers
<1>1. IInv => InvitedCovers
  BY DEF IInv
<1> QED
  BY <1>1, Invariance, PTL

\* m_OfflineQueue holds the participants who are offline, each once
\* (EventPlayerLoggedOut, EventPlayerLoggedIn, _ProcessOfflineQueue).
THEOREM OfflinePlayersKnown == Spec => []OfflineQueueSound
<1>1. IInv => OfflineQueueSound
  BY DEF IInv
<1> QED
  BY <1>1, Invariance, PTL

\* BGFreeSlotQueue holds every battleground with free slots, once, and none that is
\* deleted or over (AddToBGFreeSlotQueue, RemoveFromBGFreeSlotQueue).
THEOREM FreeSlotsKnown == Spec => []FreeSlotsListed
<1>1. IInv => FreeSlotsListed
  BY DEF IInv
<1> QED
  BY <1>1, Invariance, PTL
=============================================================================
