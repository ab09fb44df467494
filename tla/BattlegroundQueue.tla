------------------------- MODULE BattlegroundQueue -------------------------
(***************************************************************************)
(* The queue of one type of battleground and one bracket.  Players join it *)
(* alone or as a party; BattlegroundMgr::Update invites them to running    *)
(* battlegrounds with free slots or to a new one.  An invited player       *)
(* enters, declines, or is removed when his time is up.  A battleground    *)
(* counts the players it has invited, and is deleted when nobody is in it  *)
(* and that count is 0.  Everything runs on the world thread; players may  *)
(* at any time be on a loading screen, or disconnect and come back.        *)
(*                                                                         *)
(* BattlegroundMgr.InvitationType is 0, its default; an arena has another  *)
(* queue.  Time is abstract: whatever waits for it may happen.             *)
(***************************************************************************)
EXTENDS Naturals, FiniteSets, SequencesExt

CONSTANTS
  Players,
  Team,        \* the team of each player
  Soloists,    \* players who may join the queue alone
  Parties,     \* groups that may join the queue together
  MaxInstance, \* battlegrounds that may exist at a time
  MinPlayersPerTeam, MaxPlayersPerTeam,
  CounterSize, \* the counters of invited players wrap at this value
  MaxJoins     \* bound of the times that somebody joins the queue

Teams == {"alliance", "horde"}

ASSUME QueueAssumption ==
  /\ Team \in [Players -> Teams] /\ Soloists \subseteq Players
  /\ Parties \subseteq SUBSET Players
  /\ \A party \in Parties : \A p, q \in party : Team[p] = Team[q]
  /\ {MaxInstance, MinPlayersPerTeam, MaxPlayersPerTeam} \subseteq Nat \ {0}
  /\ IsFiniteSet(Players) /\ 0 \notin Players
  /\ CounterSize \in Nat /\ CounterSize > MaxPlayersPerTeam + Cardinality(Players)

Infos == Players                  \* as many GroupQueueInfo objects as are needed
Instances == 1..MaxInstance       \* ids of battlegrounds

VARIABLES
  place,          \* of each player: "world", "loading" a map, or "offline"
  bgInstanceID,   \* the battleground he is in or on the way to, or 0
  slots,          \* players with a m_bgBattlegroundQueueID of this queue ...
  slotInvite,     \* ... and its invitedToInstance
  m_QueuedPlayers, \* the GroupQueueInfo of each player, or 0
  members,        \* Players of each GroupQueueInfo; none if it does not exist
  invitedTo,      \* IsInvitedToBGInstanceGUID of each, or 0
  premade, normal, \* m_QueuedGroups of each team
  timed,          \* players whose invitation has its BGQueueRemoveEvent to come
  status,         \* of each battleground; "none": it does not exist
  invited,        \* m_InvitedAlliance and m_InvitedHorde of each
  inside,         \* its m_Players
  offlineQueue,   \* its m_OfflineQueue
  freeSlotQueue,  \* BGFreeSlotQueue
  scheduled,      \* m_QueueUpdateScheduler has an entry
  phase, todo,    \* where BattlegroundMgr::Update is, and what it has to visit
  undercounted,   \* history: battlegrounds that counted out somebody never counted in
  joins           \* history: how often somebody has joined the queue

playerVars == <<place, bgInstanceID, slots, slotInvite>>
queueVars == <<m_QueuedPlayers, members, invitedTo, premade, normal, timed, joins>>
bgVars == <<status, invited, inside, offlineQueue, freeSlotQueue, undercounted>>
mgrVars == <<scheduled, phase, todo>>
vars == <<playerVars, queueVars, bgVars, mgrVars>>

Exists(b) == b \in Instances /\ status[b] # "none"
Size(pool) == Cardinality(UNION {members[g] : g \in pool})
Down(n, k) == (n + CounterSize - k) % CounterSize
Up(n, k) == (n + k) % CounterSize
OfTeam(S, t) == Cardinality({p \in S : Team[p] = t})

Init ==
  /\ place = [p \in Players |-> "world"]
  /\ bgInstanceID = [p \in Players |-> 0]
  /\ slots = {} /\ slotInvite = [p \in Players |-> 0]
  /\ m_QueuedPlayers = [p \in Players |-> 0]
  /\ members = [g \in Infos |-> {}] /\ invitedTo = [g \in Infos |-> 0]
  /\ premade = [t \in Teams |-> <<>>] /\ normal = [t \in Teams |-> <<>>]
  /\ timed = {} /\ joins = 0
  /\ status = [b \in Instances |-> "none"]
  /\ invited = [b \in Instances |-> [t \in Teams |-> 0]]
  /\ inside = [b \in Instances |-> {}]
  /\ offlineQueue = [b \in Instances |-> <<>>]
  /\ freeSlotQueue = <<>> /\ undercounted = {}
  /\ scheduled = FALSE /\ phase = "handlers" /\ todo = <<>>

-----------------------------------------------------------------------------
(* BattlegroundQueue                                                        *)

\* AddGroup: a new GroupQueueInfo for the leader and his group S, at the end of a
\* queue; the object named like the leader, if it is not in use.
AddGroup(leader, S, isPremade) == \E g \in Infos :
  LET t == Team[leader] IN
  /\ members[g] = {} /\ (members[leader] = {} => g = leader)
  /\ m_QueuedPlayers' = [p \in Players |-> IF p \in S THEN g ELSE m_QueuedPlayers[p]]
  /\ members' = [members EXCEPT ![g] = S]
  /\ premade' = IF isPremade THEN [premade EXCEPT ![t] = Append(@, g)] ELSE premade
  /\ normal' = IF isPremade THEN normal ELSE [normal EXCEPT ![t] = Append(@, g)]
  /\ joins < MaxJoins /\ joins' = joins + 1
  /\ UNCHANGED <<invitedTo, timed>>

\* RemovePlayer of a player in the queue.  Events of invitations that are over
\* find another RemoveInviteTime and do nothing; they are not kept.
RemovePlayer(p, decreaseInvitedCount) ==
  LET g == m_QueuedPlayers[p]
      b == invitedTo[g]
      last == members[g] = {p}
      counts == decreaseInvitedCount /\ Exists(b)
  IN
  /\ m_QueuedPlayers' = [m_QueuedPlayers EXCEPT ![p] = 0]
  /\ members' = [members EXCEPT ![g] = @ \ {p}]
  /\ invitedTo' = [invitedTo EXCEPT ![g] = IF last THEN 0 ELSE @]
  /\ premade' = [t \in Teams |-> IF last THEN RemoveFirst(premade[t], g) ELSE premade[t]]
  /\ normal' = [t \in Teams |-> IF last THEN RemoveFirst(normal[t], g) ELSE normal[t]]
  /\ timed' = timed \ {p} /\ UNCHANGED joins
  /\ invited' = IF counts THEN [invited EXCEPT ![b][Team[p]] = Down(@, 1)] ELSE invited
  /\ undercounted' = IF counts /\ slotInvite[p] # b THEN undercounted \cup {b} ELSE undercounted

\* SelectionPool::AddGroup.
Select(pool, g, desiredCount) ==
  IF invitedTo[g] = 0 /\ Size(pool) + Cardinality(members[g]) <= desiredCount
    THEN pool \cup {g} ELSE pool

SelectAll(pool, queue, desiredCount) ==
  LET chosen[n \in 0..Len(queue)] ==
        IF n = 0 THEN pool ELSE Select(chosen[n - 1], queue[n], desiredCount)
  IN  chosen[Len(queue)]

\* InviteGroupToBG for the groups of the pools: a player who is not in the world
\* is skipped, although his group is invited from now on.
InviteGroupsToBG(pools, b) ==
  LET called == {p \in UNION {members[g] : g \in pools} : place[p] = "world"} IN
  /\ invitedTo' = [g \in Infos |-> IF g \in pools THEN b ELSE invitedTo[g]]
  /\ slotInvite' = [p \in Players |-> IF p \in called THEN b ELSE slotInvite[p]]
  /\ timed' = timed \cup called
  /\ invited' = [invited EXCEPT ![b] = [t \in Teams |-> Up(@[t], OfTeam(called, t))]]

GetFreeSlotsForTeam(b, t) ==
  LET other == CHOOSE u \in Teams : u # t
      mine == invited[b][t]
      theirs == invited[b][other]
      here == OfTeam(inside[b], t)
      there == OfTeam(inside[b], other)
      room == IF mine < MaxPlayersPerTeam THEN MaxPlayersPerTeam - mine ELSE 0
      behind == IF theirs = mine THEN 1 ELSE IF theirs > mine THEN theirs - mine ELSE 0
      fewer == CASE there = here -> 1
                 [] there > here -> there - here
                 [] there < here /\ mine <= MinPlayersPerTeam -> MinPlayersPerTeam - mine + 1
                 [] OTHER -> 0
  IN  CASE status[b] = "wait_join" -> room
        [] status[b] = "in_progress" -> Min({room, behind, fewer})
        [] OTHER -> 0

HasFreeSlots(b) == Cardinality(inside[b]) < 2 * MaxPlayersPerTeam

-----------------------------------------------------------------------------
(* Battleground                                                             *)

\* RemovePlayerAtLeave for players of m_Players: the battleground's side, without
\* the queue of battlegrounds with free slots and with it ...
RemoveParticipants(b, S) ==
  /\ inside' = [inside EXCEPT ![b] = @ \ S]
  /\ invited' = [invited EXCEPT ![b] = [t \in Teams |-> Down(@[t], OfTeam(S, t))]]
  /\ scheduled' = (scheduled \/ (S # {} /\ status[b] # "wait_leave"))

\* Mutant: m_InBGFreeSlotQueue is not tested.
AddToBGFreeSlotQueueAgain(b) == <<b>> \o freeSlotQueue

AddToBGFreeSlotQueue(b) ==
  IF b \in ToSet(freeSlotQueue) THEN freeSlotQueue ELSE <<b>> \o freeSlotQueue

RemovePlayersAtLeave(b, S) ==
  /\ RemoveParticipants(b, S)
  /\ freeSlotQueue' = IF S # {} /\ status[b] # "wait_leave" THEN AddToBGFreeSlotQueue(b)
                                                           ELSE freeSlotQueue

\* ... and that of the players who are in the world: they are sent back, and those of
\* m_Players lose their slot of the queue.
SendBack(b, S) ==
  LET there == {p \in S : place[p] = "world"}
      participants == there \cap inside[b]
  IN
  /\ slots' = slots \ participants
  /\ slotInvite' = [p \in Players |-> IF p \in participants THEN 0 ELSE slotInvite[p]]
  /\ bgInstanceID' = [p \in Players |-> IF p \in there THEN 0 ELSE bgInstanceID[p]]
  /\ place' = [p \in Players |-> IF p \in there THEN "loading" ELSE place[p]]

\* CreateNewBattleground, the invitations, and StartBattleground.
CreateAndStart(pools) ==
  \E b \in Instances :
    /\ status[b] = "none" /\ \A c \in 1..(b - 1) : status[c] # "none"
    /\ status' = [status EXCEPT ![b] = "wait_join"]
    /\ freeSlotQueue' = AddToBGFreeSlotQueue(b)
    /\ InviteGroupsToBG(pools, b)

\* EndBattleground and EndNow.
End(b) ==
  /\ status' = [status EXCEPT ![b] = "wait_leave"]
  /\ freeSlotQueue' = RemoveFirst(freeSlotQueue, b)

\* The destructor.  While a slot names the instance, its next user inherits it.
Delete(b) ==
  /\ status' = [status EXCEPT ![b] = "none"]
  /\ offlineQueue' = [offlineQueue EXCEPT ![b] = <<>>]
  /\ freeSlotQueue' = RemoveFirst(freeSlotQueue, b)
  /\ undercounted' = IF \E p \in Players : slotInvite[p] = b THEN undercounted
                                                            ELSE undercounted \ {b}

-----------------------------------------------------------------------------
(* Packets, logins and logouts, in WorldSession::Update                     *)

Handling(p) == phase = "handlers" /\ place[p] = "world"

\* HandleBattlemasterJoinOpcode without a group.
JoinAlone(p) ==
  /\ Handling(p)
  /\ bgInstanceID[p] = 0 /\ p \notin slots
  /\ AddGroup(p, {p}, FALSE)
  /\ slots' = slots \cup {p}
  /\ slotInvite' = [slotInvite EXCEPT ![p] = 0]
  /\ scheduled' = TRUE
  /\ UNCHANGED <<place, bgInstanceID, bgVars, phase, todo>>

\* The leader joins with his group; CanJoinBattlegroundQueue wants every member
\* online and outside this queue.  An update is scheduled also if it refuses.
JoinAsGroup(leader, party) ==
  /\ Handling(leader) /\ leader \in party
  /\ bgInstanceID[leader] = 0
  /\ scheduled' = TRUE
  /\ IF \A p \in party : place[p] # "offline" /\ p \notin slots
       THEN /\ AddGroup(leader, party, Cardinality(party) >= MinPlayersPerTeam)
            /\ slots' = slots \cup party
            /\ slotInvite' = [p \in Players |-> IF p \in party THEN 0 ELSE slotInvite[p]]
       ELSE UNCHANGED <<queueVars, slots, slotInvite>>
  /\ UNCHANGED <<place, bgInstanceID, bgVars, phase, todo>>

\* Mutant: who enters gives his place back.
EnterBattleCounts(p) ==
  LET b == invitedTo[m_QueuedPlayers[p]] IN
  /\ Handling(p)
  /\ p \in slots /\ m_QueuedPlayers[p] # 0
  /\ Exists(b) /\ slotInvite[p] # 0
  /\ RemovePlayer(p, TRUE)
  /\ bgInstanceID' = [bgInstanceID EXCEPT ![p] = b]
  /\ place' = [place EXCEPT ![p] = "loading"]
  /\ UNCHANGED <<slots, slotInvite, status, inside, offlineQueue, freeSlotQueue, mgrVars>>

\* HandleBattleFieldPortOpcode, enter: IsInvitedForBattlegroundQueueType.
EnterBattle(p) ==
  LET b == invitedTo[m_QueuedPlayers[p]] IN
  /\ Handling(p)
  /\ p \in slots /\ m_QueuedPlayers[p] # 0
  /\ Exists(b) /\ slotInvite[p] # 0
  /\ RemovePlayer(p, FALSE)
  /\ bgInstanceID' = [bgInstanceID EXCEPT ![p] = b]
  /\ place' = [place EXCEPT ![p] = "loading"]
  /\ UNCHANGED <<slots, slotInvite, status, inside, offlineQueue, freeSlotQueue, mgrVars>>

\* The same opcode, leave queue; also for a deserter who wants to enter.
LeaveQueue(p) ==
  /\ Handling(p)
  /\ p \in slots /\ m_QueuedPlayers[p] # 0
  /\ RemovePlayer(p, TRUE)
  /\ slots' = slots \ {p}
  /\ slotInvite' = [slotInvite EXCEPT ![p] = 0]
  /\ scheduled' = TRUE
  /\ UNCHANGED <<place, bgInstanceID, status, inside, offlineQueue, freeSlotQueue, phase, todo>>

\* HandleLeaveBattlefieldOpcode, or a far teleport out of the battleground.
LeaveBattleground(p) ==
  LET b == bgInstanceID[p] IN
  /\ Handling(p)
  /\ Exists(b)
  /\ RemovePlayersAtLeave(b, {p} \cap inside[b])
  /\ SendBack(b, {p})
  /\ UNCHANGED <<queueVars, status, offlineQueue, undercounted, phase, todo>>

\* A far teleport: the player is not in the world until his client has loaded
\* the map.
TeleportTo(p) ==
  /\ Handling(p)
  /\ bgInstanceID[p] = 0
  /\ place' = [place EXCEPT ![p] = "loading"]
  /\ UNCHANGED <<bgInstanceID, slots, slotInvite, queueVars, bgVars, mgrVars>>

\* HandleMoveWorldportAckOpcode: AddPlayer if the player was invited; without the
\* battleground he ends up at home.
WorldportAck(p) ==
  LET b == bgInstanceID[p] IN
  /\ phase = "handlers" /\ place[p] = "loading"
  /\ place' = [place EXCEPT ![p] = "world"]
  /\ inside' = IF Exists(b) /\ slotInvite[p] = b THEN [inside EXCEPT ![b] = @ \cup {p}] ELSE inside
  /\ bgInstanceID' = [bgInstanceID EXCEPT ![p] = IF Exists(b) THEN b ELSE 0]
  /\ UNCHANGED <<slots, slotInvite, queueVars, status, invited, offlineQueue, freeSlotQueue,
                 undercounted, mgrVars>>

\* LogoutPlayer: EventPlayerLoggedOut, the slots, then the pending far teleport,
\* which does not add the player to the battleground any more.
LogoutPlayer(p) ==
  LET b == bgInstanceID[p] IN
  /\ phase = "handlers" /\ place[p] # "offline"
  /\ offlineQueue' = IF Exists(b) /\ p \in inside[b]
                       THEN [offlineQueue EXCEPT ![b] = Append(@, p)] ELSE offlineQueue
  /\ slots' = slots \ {p}
  /\ slotInvite' = [slotInvite EXCEPT ![p] = 0]
  /\ IF p \in slots /\ m_QueuedPlayers[p] # 0
       THEN RemovePlayer(p, TRUE) ELSE UNCHANGED <<queueVars, invited, undercounted>>
  /\ place' = [place EXCEPT ![p] = "offline"]
  /\ bgInstanceID' = [bgInstanceID EXCEPT ![p] = IF Exists(b) THEN b ELSE 0]
  /\ UNCHANGED <<status, inside, freeSlotQueue, mgrVars>>

\* Mutant: the player stays in the queue of those offline.
EventPlayerLoggedInKeeps(b, p) == offlineQueue

EventPlayerLoggedIn(b, p) == [offlineQueue EXCEPT ![b] = RemoveFirst(@, p)]

\* LoadFromDB: back into the battleground, or to its entry point.
Login(p) ==
  LET b == bgInstanceID[p]
      player_at_bg == Exists(b) /\ p \in inside[b]
  IN
  /\ phase = "handlers" /\ place[p] = "offline"
  /\ place' = [place EXCEPT ![p] = "world"]
  /\ IF player_at_bg /\ status[b] # "wait_leave"
       THEN /\ slots' = slots \cup {p}
            /\ slotInvite' = [slotInvite EXCEPT ![p] = b]
            /\ offlineQueue' = EventPlayerLoggedIn(b, p)
            /\ UNCHANGED <<bgInstanceID, inside, invited, freeSlotQueue, scheduled>>
       ELSE /\ IF player_at_bg THEN RemovePlayersAtLeave(b, {p})
                               ELSE UNCHANGED <<inside, invited, freeSlotQueue, scheduled>>
            /\ bgInstanceID' = [bgInstanceID EXCEPT ![p] = 0]
            /\ UNCHANGED <<slots, slotInvite, offlineQueue>>
  /\ UNCHANGED <<queueVars, status, undercounted, phase, todo>>

\* An objective is reached, by a packet or in the update of the map.
EndBattleground(b) ==
  /\ phase = "handlers"
  /\ status[b] = "in_progress"
  /\ End(b)
  /\ UNCHANGED <<playerVars, queueVars, invited, inside, offlineQueue, undercounted, mgrVars>>

-----------------------------------------------------------------------------
(* BattlegroundMgr::Update                                                  *)

BeginUpdate ==
  /\ phase = "handlers" /\ phase' = "battlegrounds"
  /\ todo' = SetToSortSeq({b \in Instances : Exists(b)}, <)
  /\ UNCHANGED <<playerVars, queueVars, bgVars, scheduled>>

\* Battleground::Update comes to the battleground b ...
Turn(b) == phase = "battlegrounds" /\ todo # <<>> /\ b = Head(todo)

Visit(b) ==
  /\ Turn(b)
  /\ todo' = Tail(todo)
  /\ UNCHANGED <<queueVars, phase>>

\* ... and nobody is in it: it is deleted if nobody is invited.
UpdateEmpty(b) ==
  /\ Visit(b) /\ inside[b] = {}
  /\ IF \A t \in Teams : invited[b][t] = 0
       THEN Delete(b) ELSE UNCHANGED <<status, offlineQueue, freeSlotQueue, undercounted>>
  /\ UNCHANGED <<playerVars, invited, inside, scheduled>>

\* ... _ProcessJoin: it waits, starts, or cannot be set up and ends.
UpdateWaitJoin(b) ==
  /\ Visit(b) /\ inside[b] # {} /\ status[b] = "wait_join"
  /\ \/ UNCHANGED <<status, freeSlotQueue>>
     \/ /\ status' = [status EXCEPT ![b] = "in_progress"]
        /\ UNCHANGED freeSlotQueue
     \/ End(b)
  /\ UNCHANGED <<playerVars, invited, inside, offlineQueue, undercounted, scheduled>>

\* ... _ProcessOfflineQueue finds that the time of a player is up and tracks him as a
\* deserter (CONFIG_BATTLEGROUND_TRACK_DESERTERS, which a reload may set at any time),
\* with the pointer of a player who is not in the world.
TrackDeserter(b) ==
  /\ Turn(b) /\ inside[b] # {} /\ status[b] = "in_progress"
  /\ offlineQueue[b] # <<>> /\ place[Head(offlineQueue[b])] # "world"
  /\ phase' = "crashed"
  /\ UNCHANGED <<playerVars, queueVars, bgVars, scheduled, todo>>

\* ... _ProcessOfflineQueue removes the player who has been away for longest, or his
\* time is not up; then the battle may end, in _ProcessProgress for want of players
\* or in PostUpdateImpl.
UpdateInProgress(b) ==
  /\ Visit(b) /\ inside[b] # {} /\ status[b] = "in_progress"
  /\ \/ UNCHANGED <<inside, invited, offlineQueue, scheduled>>
     \/ /\ offlineQueue[b] # <<>>
        /\ RemoveParticipants(b, {Head(offlineQueue[b])})
        /\ offlineQueue' = [offlineQueue EXCEPT ![b] = Tail(@)]
  /\ \/ End(b)
     \/ /\ freeSlotQueue' = IF inside' = inside THEN freeSlotQueue ELSE AddToBGFreeSlotQueue(b)
        /\ UNCHANGED status
  /\ UNCHANGED <<playerVars, undercounted>>

\* ... _ProcessLeave: when the time is up everybody is removed.
UpdateWaitLeave(b) ==
  /\ Visit(b) /\ inside[b] # {} /\ status[b] = "wait_leave"
  /\ \/ RemovePlayersAtLeave(b, inside[b]) /\ SendBack(b, inside[b])
     \/ UNCHANGED <<playerVars, inside, invited, freeSlotQueue, scheduled>>
  /\ UNCHANGED <<status, offlineQueue, undercounted>>

\* BGQueueRemoveEvent::Execute: nothing happens to a player who is not in the world,
\* and the event does not come again.  bg->isBattleground() is called also when the
\* battleground does not exist.
RemoveEvent(p) ==
  LET b == invitedTo[m_QueuedPlayers[p]] IN
  /\ phase = "battlegrounds" /\ todo = <<>> /\ p \in timed
  /\ UNCHANGED <<place, bgInstanceID, status, inside, offlineQueue, freeSlotQueue, todo>>
  /\ CASE place[p] # "world" ->
            /\ timed' = timed \ {p}
            /\ UNCHANGED <<slots, slotInvite, m_QueuedPlayers, members, invitedTo, premade, normal,
                           joins, invited, undercounted, scheduled, phase>>
       [] place[p] = "world" /\ ~Exists(b) ->
            /\ phase' = "crashed"
            /\ UNCHANGED <<slots, slotInvite, queueVars, invited, undercounted, scheduled>>
       [] place[p] = "world" /\ Exists(b) ->
            /\ slots' = slots \ {p}
            /\ slotInvite' = [slotInvite EXCEPT ![p] = 0]
            /\ RemovePlayer(p, TRUE)
            /\ scheduled' = (scheduled \/ status[b] # "wait_leave")
            /\ UNCHANGED phase

\* The scheduled update of the queue, which ends at once if nobody is queued.
BeginQueueUpdate ==
  /\ phase = "battlegrounds" /\ todo = <<>>
  /\ scheduled' = FALSE
  /\ IF scheduled /\ \E t \in Teams : premade[t] \o normal[t] # <<>>
       THEN phase' = "fill" /\ todo' = freeSlotQueue
       ELSE phase' = "handlers" /\ UNCHANGED todo
  /\ UNCHANGED <<playerVars, queueVars, bgVars>>

\* FillPlayersToBG and the invitations, for the next battleground with free slots.
FillPlayersToBG ==
  LET b == Head(todo)
      pool(t) == SelectAll({}, normal[t], GetFreeSlotsForTeam(b, t))
  IN
  /\ phase = "fill" /\ todo # <<>>
  /\ todo' = Tail(todo)
  /\ InviteGroupsToBG(UNION {pool(t) : t \in Teams}, b)
  /\ freeSlotQueue' = IF HasFreeSlots(b) THEN freeSlotQueue ELSE RemoveFirst(freeSlotQueue, b)
  /\ UNCHANGED <<place, bgInstanceID, slots, m_QueuedPlayers, members, premade, normal, joins,
                 status, inside, offlineQueue, undercounted, scheduled, phase>>

\* A new battleground for the pools.  CreateNewBattleground does not fail for a type
\* that has a template; a behaviour with more than MaxInstance is not modelled.
StartMatch(pools, next) ==
  /\ CreateAndStart(pools)
  /\ phase' = next
  /\ UNCHANGED <<place, bgInstanceID, slots, m_QueuedPlayers, members, premade, normal, joins,
                 inside, offlineQueue, undercounted, scheduled, todo>>

Uninvited(queue) == {n \in DOMAIN queue : invitedTo[queue[n]] = 0}

PremadeMatch == \A t \in Teams : Uninvited(premade[t]) # {}

\* CheckPremadeMatch: the first premade groups, and others up to the size of the
\* smaller one.
PremadePools ==
  LET first(t) == Select({}, premade[t][Min(Uninvited(premade[t]))], MaxPlayersPerTeam)
      size == Min({Size(first(t)) : t \in Teams})
  IN  UNION {SelectAll(first(t), normal[t], size) : t \in Teams}

\* Mutant: the group is not erased from the premade queue.
MovePremadeCopies(waited) ==
  LET moves(t) == /\ premade[t] # <<>> /\ invitedTo[Head(premade[t])] = 0
                  /\ \/ t \in waited
                     \/ Cardinality(members[Head(premade[t])]) < MinPlayersPerTeam
  IN
  /\ phase' = "normal"
  /\ normal' = [t \in Teams |-> IF moves(t) THEN <<Head(premade[t])>> \o normal[t] ELSE normal[t]]
  /\ UNCHANGED <<playerVars, m_QueuedPlayers, members, invitedTo, premade, timed, joins, bgVars,
                 scheduled, todo>>

\* Otherwise the first premade group of a team is moved to the normal queue if it
\* has waited for long or has become too small.
MovePremade(waited) ==
  LET moves(t) == /\ premade[t] # <<>> /\ invitedTo[Head(premade[t])] = 0
                  /\ \/ t \in waited
                     \/ Cardinality(members[Head(premade[t])]) < MinPlayersPerTeam
  IN
  /\ phase' = "normal"
  /\ premade' = [t \in Teams |-> IF moves(t) THEN Tail(premade[t]) ELSE premade[t]]
  /\ normal' = [t \in Teams |-> IF moves(t) THEN <<Head(premade[t])>> \o normal[t] ELSE normal[t]]
  /\ UNCHANGED <<playerVars, m_QueuedPlayers, members, invitedTo, timed, joins, bgVars, scheduled,
                 todo>>

CheckPremadeMatch ==
  /\ phase = "fill" /\ todo = <<>>
  /\ IF PremadeMatch THEN StartMatch(PremadePools, "normal")
                     ELSE \E waited \in SUBSET Teams : MovePremade(waited)

\* CheckNormalMatch: groups up to MinPlayersPerTeam.
NormalPool(t) ==
  LET pool[n \in 0..Len(normal[t])] ==
        IF n = 0 THEN {}
        ELSE IF Size(pool[n - 1]) >= MinPlayersPerTeam THEN pool[n - 1]
        ELSE Select(pool[n - 1], normal[t][n], MaxPlayersPerTeam)
  IN  pool[Len(normal[t])]

CheckNormalMatch ==
  /\ phase = "normal"
  /\ IF \A t \in Teams : Size(NormalPool(t)) >= MinPlayersPerTeam
       THEN StartMatch(UNION {NormalPool(t) : t \in Teams}, "handlers")
       ELSE /\ phase' = "handlers"
            /\ UNCHANGED <<playerVars, queueVars, bgVars, scheduled, todo>>

Crashed == phase = "crashed" /\ UNCHANGED vars

-----------------------------------------------------------------------------
Next ==
  \/ \E p \in Players :
       \/ EnterBattle(p) \/ LeaveQueue(p) \/ LeaveBattleground(p)
       \/ TeleportTo(p) \/ WorldportAck(p) \/ LogoutPlayer(p) \/ Login(p) \/ RemoveEvent(p)
  \/ \E p \in Soloists : JoinAlone(p)
  \/ \E party \in Parties : \E leader \in party : JoinAsGroup(leader, party)
  \/ \E b \in Instances :
       \/ EndBattleground(b) \/ UpdateEmpty(b) \/ UpdateWaitJoin(b)
       \/ UpdateInProgress(b) \/ UpdateWaitLeave(b) \/ TrackDeserter(b)
  \/ BeginUpdate \/ BeginQueueUpdate \/ FillPlayersToBG
  \/ CheckPremadeMatch \/ CheckNormalMatch \/ Crashed

Spec == Init /\ [][Next]_vars

-----------------------------------------------------------------------------
\* The three records of the queue agree, whatever joins, logouts, expiries and
\* moves between the lists come together: a GroupQueueInfo that exists is in one
\* list of the team of its players, once; m_QueuedPlayers points to the info that
\* lists the player; a queued player is online and has a slot of the queue, whose
\* invitation is the one of his group; a player in a battleground is in no queue and
\* knows his battleground.  Otherwise RemovePlayer would give up half way or use a
\* deleted GroupQueueInfo.
QueueConsistent ==
  /\ \A g \in Infos :
       LET where == {t \in Teams : g \in ToSet(premade[t] \o normal[t])} IN
       IF members[g] = {} THEN where = {} /\ invitedTo[g] = 0
                          ELSE where = {Team[p] : p \in members[g]}
  /\ \A t \in Teams : IsInjective(premade[t] \o normal[t])
  /\ \A p \in Players, g \in Infos : (m_QueuedPlayers[p] = g) <=> (p \in members[g])
  /\ \A p \in Players : m_QueuedPlayers[p] # 0 =>
       /\ place[p] # "offline" /\ p \in slots
       /\ slotInvite[p] \in {0, invitedTo[m_QueuedPlayers[p]]}
  /\ \A b \in Instances : \A p \in inside[b] :
       /\ bgInstanceID[p] = b /\ m_QueuedPlayers[p] = 0
       /\ IF place[p] = "offline" THEN p \notin slots ELSE p \in slots /\ slotInvite[p] = b

\* Who counts for the battleground b: invited, on the way to it, or in it.
Holders(b, t) ==
  {p \in Players : /\ Team[p] = t
                   /\ \/ m_QueuedPlayers[p] # 0 /\ slotInvite[p] = b
                      \/ place[p] = "loading" /\ bgInstanceID[p] = b /\ p \in slots
                      \/ p \in inside[b]}

\* A battleground's counters cover everybody who was invited and has not refused,
\* and never exceed MaxPlayersPerTeam: neither is the battleground deleted under
\* somebody who may still enter it, nor is a team overfilled.  (But see
\* InvitationHasBattleground for the battlegrounds in undercounted.)
InvitedCovers ==
  \A b \in Instances : b \notin undercounted =>
    \A t \in Teams :
      /\ Exists(b) => invited[b][t] <= MaxPlayersPerTeam
      /\ Cardinality(Holders(b, t)) <= IF Exists(b) THEN invited[b][t] ELSE 0

\* While a battleground waits for players or runs, m_OfflineQueue holds the players
\* of m_Players who are offline, each once: _ProcessOfflineQueue uses the result of
\* m_Players.find before it compares it with end().
OfflineQueueSound ==
  \A b \in Instances : status[b] \in {"wait_join", "in_progress"} =>
    /\ IsInjective(offlineQueue[b])
    /\ ToSet(offlineQueue[b]) = {p \in inside[b] : place[p] = "offline"}

\* BGFreeSlotQueue holds pointers of battlegrounds that exist and are not over, each
\* once, and a battleground with room is never missing: nobody else would fill it.
FreeSlotsListed ==
  /\ IsInjective(freeSlotQueue)
  /\ \A b \in ToSet(freeSlotQueue) : status[b] \in {"wait_join", "in_progress"}
  /\ \A b \in Instances :
       status[b] \in {"wait_join", "in_progress"} /\ HasFreeSlots(b) => b \in ToSet(freeSlotQueue)

\* A battleground is not deleted while a player has an invitation to it.
InvitationHasBattleground ==
  \A p \in Players : m_QueuedPlayers[p] # 0 /\ slotInvite[p] # 0 => Exists(slotInvite[p])
=============================================================================
