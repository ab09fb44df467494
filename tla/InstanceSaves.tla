---------------------------- MODULE InstanceSaves ----------------------------
(***************************************************************************)
(* Who is bound to which instance of a dungeon: the saves of               *)
(* InstanceSaveManager, the binds of the players and of a group, their     *)
(* rows in the database, the instance maps, and the schedule of resets.    *)
(*                                                                         *)
(* There is one dungeon map, either normal (heroic = FALSE: an instance    *)
(* resets some time after the last player left) or raid/heroic (binds      *)
(* become permanent at a boss, all instances reset together).  A handler   *)
(* is one step; what a login read from the database is applied in a later  *)
(* step, and a restart may come at any time.  Instance ids come from an    *)
(* allocator that hands out the lowest free id (InstanceIds is its model). *)
(***************************************************************************)
EXTENDS Integers, FiniteSetsExt

CONSTANTS
  Players, Ids,
  NoSave, NoBind, NoGroup, NoId,
  Outside,  \* the player is not in the dungeon
  Saved     \* the player is offline, his position is inside the dungeon

ASSUME IdsAssumption == Ids \subseteq Nat \ {0} /\ IsFiniteSet(Ids)

ASSUME PlayersAssumption == IsFiniteSet(Players)

VARIABLES
  heroic,   \* IsRaidOrHeroicDungeon()
  b,        \* saves, binds and their rows in the database, see TypeOK
  used,     \* instance ids the allocator has handed out
  events,   \* reset events of type 0 in m_resetTimeQueue, for each id
  where,    \* the instance each player is in
  status,   \* a player is offline, loading (rows read, not applied) or online
  read,     \* the rows of character_instance a loading player's holder got
  group,    \* the group, if there is one
  pending   \* Player::_pendingBindId

vars == <<heroic, b, used, events, where, status, read, group, pending>>

Rows == [id : Ids, perm : BOOLEAN]
Saves == [players : SUBSET Players, group : BOOLEAN, canReset : BOOLEAN]
Groups == [members : SUBSET Players, leader : Players]

\* The null pointers, and the places outside of the dungeon, are nothing else.
ASSUME NullAssumption ==
  /\ NoSave \notin Saves /\ NoBind \notin Rows /\ NoGroup \notin Groups /\ NoId \notin Ids
  /\ Ids \cap {Outside, Saved} = {} /\ Outside # Saved

TypeOK ==
  /\ heroic \in BOOLEAN
  /\ b.save \in [Ids -> Saves \cup {NoSave}]      \* m_instanceSaveById with both lists
  /\ b.pbind \in [Players -> Rows \cup {NoBind}]  \* Player::m_boundInstances
  /\ b.gbind \in Rows \cup {NoBind}               \* Group::m_boundInstances
  /\ b.irow \subseteq Ids                         \* instance
  /\ b.crow \in [Players -> SUBSET Rows]          \* character_instance
  /\ b.grow \subseteq Rows                        \* group_instance
  /\ b.doubled \subseteq Ids                      \* history, see Doubled
  /\ b.stale \subseteq Ids                        \* history, see DeleteFromDB
  /\ used \subseteq Ids
  /\ events \in [Ids -> Nat]
  /\ where \in [Players -> Ids \cup {Outside, Saved}]
  /\ status \in [Players -> {"offline", "loading", "online"}]
  /\ read \in [Players -> SUBSET Rows]
  /\ group \in Groups \cup {NoGroup}
  /\ pending \in [Players -> Ids \cup {NoId}]

Init ==
  /\ heroic \in BOOLEAN
  /\ b = [save |-> [i \in Ids |-> NoSave], pbind |-> [p \in Players |-> NoBind], gbind |-> NoBind,
          irow |-> {}, crow |-> [p \in Players |-> {}], grow |-> {}, doubled |-> {}, stale |-> {}]
  /\ used = {}
  /\ events = [i \in Ids |-> 0]
  /\ where = [p \in Players |-> Outside]
  /\ status = [p \in Players |-> "offline"]
  /\ read = [p \in Players |-> {}]
  /\ group = NoGroup
  /\ pending = [p \in Players |-> NoId]

Online(p) == status[p] = "online"
Inside(i) == {p \in Players : where[p] = i}
InGroup(p) == group # NoGroup /\ p \in group.members
IsLeader(p) == group # NoGroup /\ group.leader = p

-----------------------------------------------------------------------------
(* InstanceSave and InstanceSaveManager.  x stands for the variable b       *)

IsRead(i) == \E p \in Players : \E r \in read[p] : r.id = i

DeleteSave(x, i) ==
  [x EXCEPT !.save[i] = NoSave, !.doubled = @ \ {i}, !.stale = IF IsRead(i) THEN @ ELSE @ \ {i}]

UnloadIfEmpty(x, i) ==
  IF x.save[i].players = {} /\ ~x.save[i].group THEN DeleteSave(x, i) ELSE x

\* Mutant: the save stays when its last player is gone.
RemovePlayerNoUnload(x, p, i) == [x EXCEPT !.save[i].players = @ \ {p}]

RemovePlayer(x, p, i) == UnloadIfEmpty([x EXCEPT !.save[i].players = @ \ {p}], i)

RemoveGroup(x, i) == UnloadIfEmpty([x EXCEPT !.save[i].group = FALSE], i)

\* Deletes the rows of the instances in all three tables.  A login that has read them
\* goes on with them: stale records that.
DeleteFromDB(x, ids) ==
  [x EXCEPT !.irow = @ \ ids, !.grow = {r \in @ : r.id \notin ids},
            !.crow = [p \in Players |-> {r \in x.crow[p] : r.id \notin ids}],
            !.stale = @ \cup {i \in ids : IsRead(i)}]

AddInstanceSave(x, i, canReset, load) ==
  IF x.save[i] # NoSave THEN x
  ELSE [x EXCEPT !.save[i] = [players |-> {}, group |-> FALSE, canReset |-> canReset],
                 !.irow = IF load THEN @ ELSE @ \cup {i}]

\* _ResetSave unbinds every player and the group from a save and deletes it.
ResetSave(x, i) ==
  IF x.save[i] = NoSave THEN x
  ELSE [DeleteSave(x, i) EXCEPT
                 !.pbind = [p \in Players |-> IF p \in x.save[i].players THEN NoBind ELSE @[p]],
                 !.gbind = IF x.save[i].group THEN NoBind ELSE @]

\* The instance is bound to the group and to a player who is not bound permanently, or
\* a player comes to it from such an instance: doubled records that.
Doubled(x, i, fromDoubled) ==
  IF fromDoubled \/ (x.save[i].group /\ \E p \in x.save[i].players : ~x.pbind[p].perm)
  THEN [x EXCEPT !.doubled = @ \cup {i}] ELSE x

\* Player::BindToInstance.  load: the bind comes from the row, which stays as it is.
BindPlayer(x, p, i, perm, load) ==
  LET old == x.pbind[p]
      row == [id |-> i, perm |-> perm]
      rows == CASE load -> x.crow[p]
                [] ~load /\ old # NoBind -> {IF r.id = old.id THEN row ELSE r : r \in x.crow[p]}
                [] OTHER -> x.crow[p] \cup
                            {r \in {row} : \A c \in x.crow[p] : c.id # i}
      left == IF old # NoBind /\ old.id # i THEN RemovePlayer(x, p, old.id) ELSE x
  IN  Doubled([left EXCEPT !.crow[p] = rows, !.pbind[p] = row, !.save[i].canReset = @ /\ ~perm,
                           !.save[i].players = @ \cup {p}],
              i, old # NoBind /\ old.id \in x.doubled \cup x.stale)

UnbindPlayer(x, p) == RemovePlayer([x EXCEPT !.pbind[p] = NoBind,
  !.crow[p] = {r \in @ : r.id # x.pbind[p].id}], p, x.pbind[p].id)

\* Group::BindToInstance: REPLACE leaves the row of an earlier instance in place.
BindGroup(x, i, perm, load) ==
  LET old == x.gbind
      row == [id |-> i, perm |-> perm]
      left == IF old # NoBind /\ old.id # i THEN RemoveGroup(x, old.id) ELSE x
      rows == IF load \/ old = row THEN x.grow ELSE {r \in x.grow : r.id # i} \cup {row}
  IN  Doubled([left EXCEPT !.grow = rows, !.gbind = row, !.save[i].group = TRUE], i, FALSE)

\* InstanceMap::Reset returns TRUE, or there is no map to reset.
CanResetMap(i) == Inside(i) = {}

\* Player::ResetInstances, with INSTANCE_RESET_ALL or INSTANCE_RESET_GROUP_JOIN.
ResetPlayer(x, p, all) ==
  LET i == x.pbind[p].id
  IN  IF \/ x.pbind[p] = NoBind
         \/ ~x.save[i].canReset
         \/ all /\ heroic
         \/ ~CanResetMap(i)
      THEN x
      ELSE RemovePlayer([DeleteFromDB(x, {i}) EXCEPT !.pbind[p] = NoBind], p, i)

\* Group::ResetInstances, with INSTANCE_RESET_ALL or INSTANCE_RESET_GROUP_DISBAND.
ResetGroup(x, disband) ==
  LET i == x.gbind.id
      rows == IF x.save[i].canReset THEN DeleteFromDB(x, {i})
              ELSE [x EXCEPT !.grow = {r \in @ : r.id # i}]
  IN  IF \/ x.gbind = NoBind
         \/ ~disband /\ (~x.save[i].canReset \/ heroic \/ ~CanResetMap(i))
      THEN x
      ELSE RemoveGroup([rows EXCEPT !.gbind = NoBind], i)

-----------------------------------------------------------------------------
(* Entering and leaving                                                     *)

\* Where CreateInstanceForPlayer sends p: a permanent bind first, then the group's, then his own.
BoundTo(x, p) ==
  LET own == x.pbind[p]
  IN  IF (own = NoBind \/ ~own.perm) /\ InGroup(p) /\ x.gbind # NoBind THEN x.gbind.id
      ELSE IF own # NoBind THEN own.id ELSE NoId

LowestFree == CHOOSE i \in Ids \ used : \A j \in Ids \ used : i <= j

\* The instance p gets, in the states where the bounded set of ids has one left for him.
HasTarget(x, p) == BoundTo(x, p) # NoId \/ used # Ids
Target(x, p) == IF BoundTo(x, p) # NoId THEN BoundTo(x, p) ELSE LowestFree

\* Somebody else inside must be of p's own group (the code looks at one of them).
CanEnter(p, i) == Inside(i) = {} \/ (InGroup(p) /\ \E q \in Inside(i) : InGroup(q))

\* The binds AddPlayerToMap finds allow p into i.
BindsAllow(x, p, i) ==
  LET own == x.pbind[p]
  IN  IF own # NoBind /\ own.perm THEN own.id = i
      ELSE InGroup(p) => /\ own # NoBind => own.id = i
                         /\ x.gbind # NoBind => x.gbind.id = i

BindOnEntry(x, p, i) ==
  LET own == x.pbind[p]
  IN  CASE ~InGroup(p) /\ own = NoBind -> BindPlayer(x, p, i, FALSE, FALSE)
        [] InGroup(p) /\ x.gbind = NoBind /\ ~(own # NoBind /\ own.perm) ->
             BindGroup(x, i, FALSE, FALSE)
        [] OTHER -> x

\* ScheduleReset(false) erases one event of the instance, if there is one.
Cancel(ev, i) == [ev EXCEPT ![i] = IF @ > 0 THEN @ - 1 ELSE 0]
Schedule(ev, i) == [ev EXCEPT ![i] = @ + 1]

\* InstanceMap::AddPlayerToMap into i.  x is b with p's binds loaded; stay is FALSE if
\* CheckInstanceLoginValid sends p away again.  A refusal leaves the new save behind.
AddPlayerToMap(x, p, i, stay) ==
  LET y == AddInstanceSave(x, i, TRUE, FALSE)
      new == IF x.save[i] = NoSave /\ ~heroic THEN Schedule(events, i) ELSE events
      first == ~heroic /\ Inside(i) = {}
      entered == IF first THEN Cancel(new, i) ELSE new
      permGroup == InGroup(p) /\ y.gbind # NoBind /\ y.gbind.perm
      permOwn == y.pbind[p] # NoBind /\ y.pbind[p].perm
  IN  IF BindsAllow(y, p, i)
      THEN /\ b' = BindOnEntry(y, p, i)
           /\ events' = IF first /\ ~stay THEN Schedule(entered, i) ELSE entered
           /\ where' = [where EXCEPT ![p] = IF stay THEN i ELSE Outside]
           /\ pending' = [pending EXCEPT ![p] = IF permGroup /\ ~permOwn THEN i ELSE @]
      ELSE /\ b' = y /\ events' = new
           /\ where' = [where EXCEPT ![p] = Outside]
           /\ UNCHANGED pending

\* HandleMoveWorldportAck into the dungeon.
Enter(p) ==
  /\ Online(p) /\ where[p] = Outside
  /\ HasTarget(b, p)
  /\ LET i == Target(b, p)
     IN  /\ used' = used \cup {i}
         /\ IF CanEnter(p, i) THEN AddPlayerToMap(b, p, i, TRUE)
            ELSE UNCHANGED <<b, events, where, pending>>
  /\ UNCHANGED <<heroic, status, read, group>>

\* Mutant: the reset is scheduled although others are still inside.
LeftAlways(x, p) ==
  IF ~heroic /\ x.save[where[p]] # NoSave THEN Schedule(events, where[p]) ELSE events

\* RemovePlayerFromMap, with the binds as in x.
Left(x, p) ==
  LET i == where[p]
  IN  IF ~heroic /\ Inside(i) = {p} /\ x.save[i] # NoSave THEN Schedule(events, i) ELSE events

Leave(p) ==
  /\ Online(p) /\ where[p] \in Ids
  /\ events' = Left(b, p)
  /\ where' = [where EXCEPT ![p] = Outside]
  /\ UNCHANGED <<heroic, b, used, status, read, group, pending>>

-----------------------------------------------------------------------------
(* The group                                                                *)

\* HandleGroupAccept on an invitation by p who has no group: Create and AddMember.
CreateGroup(p, q) ==
  LET own == b.pbind[p]
      y == IF own = NoBind THEN b ELSE BindGroup(b, own.id, own.perm, FALSE)
  IN  /\ p # q /\ Online(p) /\ Online(q) /\ group = NoGroup
      /\ group' = [members |-> {p, q}, leader |-> p]
      /\ b' = ResetPlayer(y, q, FALSE)
      /\ UNCHANGED <<heroic, used, events, where, status, read, pending>>

AddMember(q) ==
  /\ group # NoGroup /\ Online(q) /\ ~InGroup(q)
  /\ group' = [group EXCEPT !.members = @ \cup {q}]
  /\ b' = ResetPlayer(b, q, FALSE)
  /\ UNCHANGED <<heroic, used, events, where, status, read, pending>>

\* Rows of a group that is gone belong to nobody; LoadInstances deletes them.
Disband(x) == [b |-> [ResetGroup(x, TRUE) EXCEPT !.grow = {}], group |-> NoGroup]

\* Mutant: all rows of the group are deleted.
DeletePermBindingAll(x, q) == [x EXCEPT !.grow = {}]

\* CHAR_DEL_GROUP_INSTANCE_PERM_BINDING
DeletePermBinding(x, q) ==
  [x EXCEPT !.grow = {r \in @ : ~r.perm /\ \A c \in x.crow[q] : c.id # r.id}]

\* ChangeLeader to q drops the group's permanent bind and takes over those of q,
\* with ConvertInstancesToGroup(q, group, true).
ChangeLeader(x, g, q) ==
  LET old == x.gbind
      dropped == IF old # NoBind /\ old.perm THEN RemoveGroup([x EXCEPT !.gbind = NoBind], old.id)
                 ELSE x
      cleaned == DeletePermBinding(dropped, q)
      own == x.pbind[q]
      taken == IF own = NoBind THEN cleaned ELSE BindGroup(cleaned, own.id, own.perm, FALSE)
  IN  [b |-> IF own # NoBind /\ ~own.perm THEN UnbindPlayer(taken, q) ELSE taken,
       group |-> [g EXCEPT !.leader = q]]

\* The possible results of RemoveMember: the first online member becomes the leader.
RemoveMember(x, p) ==
  LET rest == [group EXCEPT !.members = @ \ {p}]
      online == {q \in rest.members : Online(q)}
      led == IF group.leader = p /\ online # {} THEN {ChangeLeader(x, rest, q) : q \in online}
             ELSE {[b |-> x, group |-> rest]}
  IN  IF Cardinality(group.members) <= 2 THEN {Disband(x)}
      ELSE {IF Cardinality(online) < 2 THEN Disband(r.b) ELSE r : r \in led}

LeaveGroup(p) ==
  /\ InGroup(p)
  /\ \E r \in RemoveMember(b, p) : b' = r.b /\ group' = r.group
  /\ UNCHANGED <<heroic, used, events, where, status, read, pending>>

HandleGroupSetLeader(q) ==
  /\ InGroup(q) /\ ~IsLeader(q) /\ Online(q)
  /\ LET r == ChangeLeader(b, group, q) IN b' = r.b /\ group' = r.group
  /\ UNCHANGED <<heroic, used, events, where, status, read, pending>>

\* CMSG_RESET_INSTANCES
HandleResetInstances(p) ==
  /\ Online(p)
  /\ InGroup(p) => IsLeader(p)
  /\ b' = IF InGroup(p) THEN ResetGroup(b, FALSE) ELSE ResetPlayer(b, p, TRUE)
  /\ UNCHANGED <<heroic, used, events, where, status, read, group, pending>>

-----------------------------------------------------------------------------
(* Permanent binds                                                          *)

\* The loop of PermBindAllPlayers over those who are not bound permanently yet.
BindUnbound(x, i, unbound) == FoldSet(LAMBDA q, y : BindPlayer(y, q, i, TRUE, FALSE), x, unbound)

\* PermBindAllPlayers, at the death of a boss in p's instance.
PermBindAllPlayers(p) ==
  LET i == where[p]
      bound == BindUnbound(b, i, {q \in Inside(i) : b.pbind[q] = NoBind \/ ~b.pbind[q].perm})
  IN  /\ heroic /\ i \in Ids /\ b.save[i] # NoSave
      /\ b' = IF InGroup(p) /\ group.leader \in Inside(i) THEN BindGroup(bound, i, TRUE, FALSE)
               ELSE bound
      /\ UNCHANGED <<heroic, used, events, where, status, read, group, pending>>

\* The lock is accepted by HandleInstanceLockResponse, wherever p is by now, or by
\* Player::Update after a minute, which drops it if p has left.
AcceptLock(p, byTimer) ==
  LET i == pending[p]
  IN  /\ i # NoId /\ Online(p)
      /\ byTimer => where[p] # i  \* otherwise as if accepted
      /\ b' = IF b.save[i] = NoSave \/ byTimer THEN b ELSE BindPlayer(b, p, i, TRUE, FALSE)
      /\ pending' = [pending EXCEPT ![p] = NoId]
      /\ UNCHANGED <<heroic, used, events, where, status, read, group>>

DeclineLock(p) ==
  /\ pending[p] # NoId /\ Online(p)
  /\ where' = [where EXCEPT ![p] = Outside]
  /\ pending' = [pending EXCEPT ![p] = NoId]
  /\ UNCHANGED <<heroic, b, used, events, status, read, group>>

-----------------------------------------------------------------------------
(* Resets                                                                   *)

\* Update finds an event of type 0 whose time has come.
ResetInstance(i) ==
  /\ events[i] > 0
  /\ b' = DeleteFromDB(ResetSave(b, i), {i})
  /\ events' = [events EXCEPT ![i] = @ - 1]
  /\ used' = used \ {i}
  /\ UNCHANGED <<heroic, where, status, read, group, pending>>

ResetSaves(x) == FoldSet(LAMBDA i, y : ResetSave(y, i), x, Ids)

\* _ResetOrWarnAll: the deletes join instance, and the ids stay in use until a restart.
ResetAll ==
  /\ heroic
  /\ b' = DeleteFromDB(ResetSaves(b), b.irow)
  /\ UNCHANGED <<heroic, used, events, where, status, read, group, pending>>

-----------------------------------------------------------------------------
(* Login, logout and restart                                                *)

\* The holder reads character_instance LEFT JOIN instance.
LoginQuery(p) ==
  /\ status[p] = "offline"
  /\ status' = [status EXCEPT ![p] = "loading"]
  /\ read' = [read EXCEPT ![p] = {r \in b.crow[p] : r.id \in b.irow}]
  /\ UNCHANGED <<heroic, b, used, events, where, group, pending>>

\* _LoadBoundInstances: a member of a group loses his non-permanent binds; of several
\* binds to the dungeon the last one stays.
LoadBoundInstances(p) ==
  LET kept == {r \in read[p] : r.perm \/ ~InGroup(p)}
      x == [b EXCEPT !.crow[p] = {r \in @ : \A d \in read[p] \ kept : d.id # r.id}]
  IN  IF kept = {} THEN {x}
      ELSE {BindPlayer(AddInstanceSave(x, r.id, ~r.perm, TRUE), p, r.id, r.perm, TRUE) : r \in kept}

HandlePlayerLogin(p) ==
  /\ status[p] = "loading"
  /\ status' = [status EXCEPT ![p] = "online"]
  /\ read' = [read EXCEPT ![p] = {}]
  /\ \E x \in LoadBoundInstances(p) :
       \/ /\ where[p] = Saved
          /\ HasTarget(x, p)
          /\ LET i == Target(x, p)
             IN  /\ used' = used \cup {i}
                 /\ \E stay \in {FALSE, InGroup(p) \/ Inside(i) = {}} :
                      AddPlayerToMap(x, p, i, stay)
       \/ /\ where[p] = Outside
          /\ b' = x
          /\ UNCHANGED <<used, events, where, pending>>
  /\ UNCHANGED <<heroic, group>>

\* LogoutPlayer.  inParty: p leaves a party that is not a raid, his socket being open.
\* CleanupsBeforeDelete takes p off his save before RemovePlayerFromMap.
LogoutPlayer(p, inParty) ==
  /\ Online(p)
  /\ inParty => InGroup(p)
  /\ \E r \in (IF inParty THEN RemoveMember(b, p) ELSE {[b |-> b, group |-> group]}) :
       LET own == r.b.pbind[p]
           x == IF own = NoBind THEN r.b
                ELSE RemovePlayer([r.b EXCEPT !.pbind[p] = NoBind], p, own.id)
       IN  /\ b' = x /\ group' = r.group
           /\ events' = IF where[p] \in Ids THEN Left(x, p) ELSE events
  /\ where' = [where EXCEPT ![p] = IF @ \in Ids /\ pending[p] = NoId THEN Saved ELSE Outside]
  /\ status' = [status EXCEPT ![p] = "offline"]
  /\ pending' = [pending EXCEPT ![p] = NoId]
  /\ UNCHANGED <<heroic, used, read>>

\* Mutant: only the instances of players are registered.
RegisteredIdsOfPlayers(irow, crow) ==
  {i \in irow : \E p \in Players : \E r \in crow[p] : r.id = i}

\* LoadResetTimes registers every instance that has a row.
RegisteredIds(irow, crow) == irow

\* A crash or shutdown, then LoadInstances and LoadGroups.  expired: instances whose
\* reset time is past.
Restart(expired) ==
  LET current == b.irow \ expired
      grow == {r \in b.grow : r.id \in current}
      irow == {i \in current : \/ \E r \in grow : r.id = i
                               \/ \E p \in Players : \E r \in b.crow[p] : r.id = i}
      clean == [save |-> [i \in Ids |-> NoSave], pbind |-> [p \in Players |-> NoBind],
                gbind |-> NoBind, irow |-> irow, grow |-> grow, doubled |-> {}, stale |-> {},
                crow |-> [p \in Players |-> {r \in b.crow[p] : r.id \in irow}]]
      canReset(i) == \E r \in clean.crow[group.leader] : r.id = i /\ r.perm
  IN  /\ b' \in IF grow = {} THEN {clean}
                ELSE {BindGroup(AddInstanceSave(clean, r.id, canReset(r.id), TRUE),
                                r.id, r.perm, TRUE) : r \in grow}
      /\ used' = RegisteredIds(irow, clean.crow)
      /\ events' = [i \in Ids |-> IF i \in irow /\ ~heroic THEN 1 ELSE 0]
      /\ where' = [p \in Players |-> IF where[p] = Outside THEN Outside ELSE Saved]
      /\ status' = [p \in Players |-> "offline"]
      /\ read' = [p \in Players |-> {}]
      /\ pending' = [p \in Players |-> NoId]
      /\ UNCHANGED <<heroic, group>>

Next ==
  \/ \E p \in Players :
       \/ Enter(p) \/ Leave(p)
       \/ \E q \in Players : CreateGroup(p, q)
       \/ AddMember(p) \/ LeaveGroup(p) \/ HandleGroupSetLeader(p) \/ HandleResetInstances(p)
       \/ PermBindAllPlayers(p)
       \/ \E byTimer \in BOOLEAN : AcceptLock(p, byTimer)
       \/ DeclineLock(p)
       \/ LoginQuery(p) \/ HandlePlayerLogin(p)
       \/ \E inParty \in BOOLEAN : LogoutPlayer(p, inParty)
  \/ \E i \in Ids : ResetInstance(i)
  \/ ResetAll
  \/ \E expired \in SUBSET b.irow : Restart(expired)

Spec == Init /\ [][Next]_vars

-----------------------------------------------------------------------------
(* Properties                                                               *)

\* The lists of a save and the binds of players and group agree in both directions, and
\* a save nobody is bound to is gone: otherwise the assertion of ~InstanceSave fails,
\* _ResetSave never ends, or a bind points to a deleted save.
SavesLinked ==
  /\ TypeOK
  /\ \A i \in Ids : b.save[i] # NoSave => b.save[i].players # {} \/ b.save[i].group
  /\ \A i \in Ids, p \in Players :
       (b.save[i] # NoSave /\ p \in b.save[i].players) <=>
       (b.pbind[p] # NoBind /\ b.pbind[p].id = i)
  /\ \A i \in Ids : (b.save[i] # NoSave /\ b.save[i].group) <=>
                    (b.gbind # NoBind /\ b.gbind.id = i)

\* As SetResetSchedule says, a reset is only scheduled while nobody is inside, and it is
\* scheduled once, so that entering cancels it: _ResetInstance never takes the id and
\* the binds away from players in the instance.
ResetOnlyWhenEmpty == \A i \in Ids : events[i] > 0 => events[i] = 1 /\ Inside(i) = {}

\* The id of a save and of an instance with players in it is not handed out again by
\* GenerateInstanceId, over resets, disbanded groups, logouts and restarts.  The one way
\* to such an id is a login that has read its rows before the reset.
IdsInUse ==
  \A i \in Ids : b.save[i] # NoSave \/ Inside(i) # {} => i \in used \cup b.stale

SurvivesRestart(bind, rows) ==
  bind # NoBind => \/ bind \in rows /\ bind.id \in b.irow
                   \/ bind.id \in b.doubled \cup b.stale

\* Every bind in memory has its rows in the database, so that a restart gives it back,
\* unless the instance was bound to a group and to one of its players at once (the
\* leader keeps his bind when he forms the group, and a reset through one bind deletes
\* the rows of both), or a login applied rows deleted meanwhile.
BindsDurable ==
  /\ \A p \in Players : SurvivesRestart(b.pbind[p], b.crow[p])
  /\ SurvivesRestart(b.gbind, b.grow)

\* InstanceSaveMgr.h says that an instance cannot be reset if players are permanently
\* bound to it, which m_canReset caches for the case that they are offline.
PermanentNotReset ==
  \A i \in Ids : b.save[i] # NoSave /\ b.save[i].canReset =>
    \A p \in Players : [id |-> i, perm |-> TRUE] \notin b.crow[p]
=============================================================================
