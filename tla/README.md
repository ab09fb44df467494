# A verification project for the world server

The repository is a game server in the TrinityCore tradition: `src/src/server/`
holds an authentication server (`authserver`), a world server (`worldserver`,
`game`, `shared`, `collision`) and content (`scripts`); `src/dep/` is vendored.
There are no tests. What the code promises is said in comments and in
`worldserver.conf.dist`.

The project models the parts of the world server in which several threads work
on shared objects, or in which a long sequence of legal calls has to keep
books: the parallel update of the maps, the sessions and their login queue, the
life of a connection, the packet queue of a session, the allocator of instance
ids and the books of who is bound to which instance, the pool of database
connections, the trade window, and the queue of a battleground. Every module is
translated from the code; `PROJECT.json` maps each definition to the lines it
stands for.

## 1. The system

One process, four kinds of threads:

| Thread | Code | What it owns |
|---|---|---|
| world thread | `worldserver/WorldThread/WorldRunnable.cpp` | `World::m_sessions`, `m_QueuedPlayer`, all maps between two map ticks |
| map workers | `Maps/MapUpdater.cpp`, `Threading/DelayExecutor.cpp` | the map of the request they are running |
| network threads | `Server/WorldSocketMgr.cpp`, `Server/WorldSocket.cpp` | their set of sockets; they append to `addSessQueue` and to the `_recvQueue` of sessions |
| database workers | `shared/Database/` | the statements they have taken from a queue |

A tick of the world thread (`World::Update`) is: `UpdateSessions` (take new
sessions, run the packets of every session on this thread, delete closed ones),
the timers and events, then `MapManager::Update`, which hands every map to the
workers and waits. A worker runs the thread-safe packets of the players of its
map, and the map itself.

### Components

| Component | State | Operations | Interacts with | What is hard |
|---|---|---|---|---|
| Map update pool | request queue, `pending_requests`, condition | `schedule_update`, `wait`, `update_finished`, `activate`, `deactivate` | world thread and workers schedule; workers finish | requests scheduled from inside requests while the world thread waits; a queue that refuses; shutdown |
| Maps | `i_maps`, `m_InstancedMaps` | create, update, `DestroyInstance`, `UnloadAll` | pool, sessions, instance saves | instances deleted on worker threads |
| Instance ids | `_instanceIds`, `_nextInstanceId` | register, generate, free | instance saves, battlegrounds, workers | no lock; sizes rounded to words |
| Session map and login queue | `m_sessions`, `m_QueuedPlayer`, `addSessQueue`, `m_disconnects`, limit | `AddSession_`, `UpdateSessions`, `RemoveQueuedPlayer`, `KickAll` | network threads | reconnects of an account that waits or loads; places given back twice |
| Session | `_recvQueue`, `_player`, `m_playerLoading`, `m_playerRecentlyLogout`, `_logoutTime` | `QueuePacket`, `Update` on two threads, `LogoutPlayer`, destructor | sockets, maps, database callbacks | packets put back, two filters, packets that outlive a logout |
| Socket | `closing_`, `m_Session`, reference count | open, input, close, send | all threads | objects deleted on one thread and used on another |
| Database pool | request queue, connections, their sessions on the server | enqueue, execute directly, transactions, reconnect, `Close` | everybody | order between workers, retries, connections lost inside a transaction, requests queued at the shutdown |
| Instance saves | saves with their lists, binds of players and groups, rows of three tables, reset events | enter, leave, form and leave groups, bind permanently, reset, log in, restart | maps, groups, instance ids, database | the same bind kept in three places; a login that applies old rows; restarts |
| Trade | `TradeData` of both partners, bags, gold | offer, accept, cancel, exchange | inventory, flights, logout | an offer that changes between the two accepts; an exchange that fails half way |
| Battleground queue | `GroupQueueInfo`s in four lists, slots of players, invitation counters, `BGFreeSlotQueue` | join, invite, enter, decline, expire, leave, delete | players, timers, loading screens | late answers, players that are away when they are invited |
| Auth server | socket status, realm list | challenge, proof, realm list | accounts | order of messages |
| Auction house, mail | offers, items, money | bid, expire, send, take | players, database | an item in two tables |
| Dungeon finder, group loot | queues, proposals, rolls | join, vote, expire, leave | players, timers | late answers, players that leave |

`PROJECT.json` lists every other component too, with the reason it is not modelled.

### What makes it correct

* The world thread touches maps only when no worker does; no request refers to a
  deleted map; every map is updated once per tick; ticks and shutdown end.
* A `WorldSession` has exactly one owner until it is deleted; the login queue
  lets in the first one when a place is free and never more than the limit.
* A packet has one owner, is handled once, on a thread its handler allows, for
  the character it was sent for, and in order.
* A socket and its session are deleted after their last use, and are deleted.
* An instance id belongs to one instance at a time. Saves, binds and their rows
  agree, also after a restart, and nobody is reset out of the instance he is in.
* A trade has two partners who are both there; it loses and mints nothing, and
  gives each what his window showed when he accepted.
* Queue, players and battleground agree on who waits, who is invited and who is
  in; a battleground lives as long as somebody may enter it.
* A transaction is in the database as a whole or not at all; statements are
  executed once and in order; what has returned without an error is there.

`PROJECT.json` lists under `hazards` where each of these can go wrong, by line,
and the properties that look there.

## 2. Modules

| Module | Models | Lines of control |
|---|---|---|
| `MapUpdate` | `MapManager::Update/UnloadAll`, `MapUpdater`, `DelayExecutor`, `MapInstanced::Update/DestroyInstance` | world thread `main`, one program counter per worker |
| `WorldSessions` | `World::AddSession_`, `UpdateSessions`, `RemoveQueuedPlayer`, `HasRecentlyDisconnected`, `KickAll` | world thread `phase`; network threads add and close |
| `WorldSocketLife` | `WorldSocket`, `ReactorRunnable`, constructor and destructor of `WorldSession` | acceptor, network thread, world thread, map threads |
| `SessionPackets` | `WorldSession::Update` with both `PacketFilter`s, `LockedQueue`, login, logout, worldport handlers | position `updater` in the tick; the client |
| `InstanceIds` | `MapManager::InitInstanceIds/RegisterInstanceId/GenerateInstanceId/FreeInstanceId` | one program counter per thread in `FreeInstanceId` |
| `DatabasePool` | `DatabaseWorkerPool`, `DatabaseWorker`, `TransactionTask`, `MySQLConnection` | one program counter per connection; the main thread in `Close` |
| `MapTick` | what `MapManager::Update` and `UnloadAll` promise, without queue and threads | abstract; `MapUpdate` implements it |
| `InstanceSaves` | `InstanceSaveManager`, binds of `Player` and `Group`, `InstanceMap::AddPlayerToMap/RemovePlayerFromMap`, `GroupMgr::LoadGroups` | handlers on the world thread; loads in two steps; restart |
| `Trade` | `TradeHandler.cpp`, `TradeData`, `Player::TradeCancel`, the storing of items as the exchange uses it | handlers on the world thread |
| `BattlegroundQueue` | `BattlegroundQueue`, `BattlegroundMgr::Update`, `Battleground::Update/RemovePlayerAtLeave`, `BattleGroundHandler.cpp` | handlers and events; `phase` and `todo` inside `BattlegroundMgr::Update` |
| `MCMapUpdate`, `MCWorldSessions`, `MCDatabasePool`, `MCTrade`, `MCInstanceSaves`, `MCBattlegroundQueue` | model values, symmetry and the limits of an instance for TLC | |
| `MapUpdateProofs`, `WorldSessionsProofs`, `SessionProofs`, `InstanceIdsProofs`, `DatabasePoolProofs`, `InstanceSavesProofs`, `TradeProofs`, `BattlegroundQueueProofs` | theorems and proofs; `SessionProofs` has those of `SessionPackets` and of `WorldSocketLife` | |

Definitions keep the names of the code. A definition whose comment begins with
"Mutant" is not part of the model: it is a form of its neighbour with a plausible
mistake, used to see that a property notices.

### MapUpdate

`exists` are the `Map` objects that are allocated, `queue` the requests of the
`ACE_Activation_Queue`, `wpc/wmap/wtodo` a worker: where it is in `svc()`, the map
of its request, and the instances its `MapInstanced::Update` has still to visit.
`m_mutex` is held for the whole of `schedule_update` and `update_finished`, so each
is one step. `wait()` is two: it looks at `pending_requests` and falls asleep
(atomically, as `ACE_Condition` does), and is woken by every `update_finished`.
`updated`, `refused` and `kept` record what happened to each map in the tick.
`Init` starts any number of the threads, also none: then `MapManager::Update` runs
each map in place. That a map can be unloaded, and that it could be emptied, are
free choices. Maps are created by the world thread between two ticks.

`MapTick` is the same seen from the rest of the world thread: between ticks maps are
created; in a tick each map that was there at its start is settled once, an instance
never before its parent; the tick ends when none is left. `MapUpdate!Tick` maps the
detailed state to it: the maps are the allocated objects, the maps left are those
neither updated, refused nor kept (`Unsettled`), the phase follows from `main`.
`ImplementsTick` is the specification of `MapTick` with its fairness: that ticks and
the shutdown end is part of it.

### WorldSessions

A session is an object of `Sess`, whose size bounds the sessions alive at a time,
not those over a run: a deleted one is used again. `AddSession_` is `RejectSession`
(`RemoveSession` returns false because a character is loading) or `ReplaceSession`.
`RemoveQueuedPlayer` is a function of the queue and the number of listed sessions,
because `UpdateSessions` calls it, erases the session, and the code's second call
sees the changed queue. `HasRecentlyDisconnected` has the code's swapped arguments
of `difftime`: an entry never gets old. `CONFIG_INTERVAL_DISCONNECT_TOLERANCE` is the
constant `Tolerance` (zero or not). Battleground and ban checks before `AddSession`
are not modelled: such a session never gets here.

### WorldSocketLife

Each critical section of `m_OutBufferLock` (which guards `closing_`) and
`m_SessionLock` (which guards `m_Session`) is one step, so that `CloseSocket` and
`handle_close` are two with anything in between. `refs` is ACE's reference count.
Sending is the step in which it fails; a success changes nothing the properties
see. Assumptions: a client sends `CMSG_AUTH_SESSION` once (the code refuses a
second one by reading `m_Session` without the lock, see the hazard); pings, and the
unlocked test of `closing_` at the top of `handle_input`'s helpers, are stutters.
`ReceivePacket` is `WorldSession::QueuePacket` and `HandleReceived` the handling of what it
added; they, and the names that begin with `Life`, differ from those of `SessionPackets`
so that one module can hold the proofs of both.

### SessionPackets

`recvQueue` holds packets of the set `Packets`, which bounds those waiting at a time.
`op` is one opcode of each status and processing that has an effect of its own;
`char` is the login the packet was sent after. The client is external and well
behaved: it logs in, sends packets of a character in the game without waiting for
the server, and asks for its characters after a logout. `updater` is the position
in a tick: the loop of `Update` on the world thread, its end, the map phase, the
loop on a map thread. `NextPacket` tests the head only, as `LockedQueue::next` does.
Database callbacks come back ready or not at the end of each `Update`. `arrived`,
`delayed` and `again` record the order of arrival and the packets put back. Left
out: opcodes past `NUM_MSG_TYPES` (logged and deleted), a `LoginQueryHolder` that
cannot be initialised (it leaves `m_playerLoading` set), and the recruiting and
anti-cheat branches, which do not touch the queue.

### InstanceIds

`bits` are the ids whose bit in `_instanceIds` is set, `live` the ids that are
registered or handed out and not given back. `Word` is 32 in the code and
`CellBits` the 64 bits a `vector<bool>` reads and writes at once; the models use
2 and 4 so that several words fit under `MaxId`. The capacity the library chooses
is any multiple of `Word` from the size on. A write past the end is undefined; the
model takes the mildest outcome, that it is lost, and records it in `oob`.
`FreeInstanceId` is four steps, because it has no lock: the comparison, the
assignment, the read and the write of the cell. It runs concurrently with itself
and not with `GenerateInstanceId`, because instances are created by the world
thread while no worker runs: that is `MapUpdate!WorldThreadAlone`. An id is freed
only while it is in use, once. The wrap-around at 2^32 is not reached.

### DatabasePool

A request has a kind (one-way statement, query or query holder, transaction), a
number of statements, and is queued or executed by its caller on a synchronous
connection. `cur/pc/next` say where a connection is: `begin`, `run`, `commit` and
`rollback` are the calls of the client library, `aborted` is `TransactionTask::Execute`
after `ExecuteTransaction` has returned false. Each call has the outcomes the code
tells apart: `Answered`, `Refused`, `Deadlock`, `Reconnect`, `ReconnectFails`, `NoHandle`.
The server is external: `inTx` and `pend` are its session (autocommit is on, 1213 rolls
the whole transaction back, a lost connection rolls back and may or may not have
executed the call), and `mysql_errno` is that of the last call, 0 after a success. Any
call but ROLLBACK may be refused; a refused START TRANSACTION, whose result nobody looks
at, leaves the statements to be committed one by one (`unbegun`). `faults` records what
each request has met, and the properties say which of these they except.
`log` is what became durable, together with the queries that were answered. A
queue at its high water mark makes the caller wait. `crashed` is the assertion of
`~MySQLConnection` on a connection that could not be opened again. Left out: `KeepAlive`,
the preparation of statements, errors 1054 and 1146 (the process is ended on
purpose), and requests made before `Open` has returned (there are none).

### InstanceSaves

One dungeon map; `Init` chooses whether it is a normal dungeon (an instance is reset
some time after the last player left) or a raid or heroic one (binds become permanent
at a boss, all instances are reset together). `b` holds saves, binds and rows, because
most operations go through several of them; its parts are listed in `TypeOK`. Handlers
are steps of the world thread. Writes to the database take effect at once; what a
login has read (`read`) is applied in a later step, and that is where it gets stale. A
restart keeps the rows and the group and drops everything else, as `LoadInstances` and
`LoadGroups` do. `CanEnter` looks at somebody inside, as the code looks at one player.
`doubled` and `stale` record the two histories after which a bind need not have its
rows, see the deviations below. Left out: changes of difficulty, the limit of
instances per hour (at a login it is the free choice `stay`), the limit of players,
game masters, the dungeon finder, and keeping an unloaded map's state.

### Trade

All trade opcodes are handled on the world thread, so that a handler is one step.
`TradeData` holds GUIDs: an item counts as offered as long as it is found in its owner's
bags, and between two handlers items are used up, leave and come, gold changes, and
players fly off or log out. `shown` and `agreed` record what a partner's window shows
and what it showed at his accept. `AcceptTooFar` to `Exchange` are the ways out of
`HandleAcceptTradeOpcode`, in its order. `CanStoreItems` counts bag slots and the limit of a
template; `moveItems` stores slot by slot, and what it does when an item is refused is
modelled to the end, the second copy made by `StoreItem` included (`clones`). Why an item
may not be traded and why a spell fails are free choices. Stacks move whole: merging
into another stack is not modelled.

### BattlegroundQueue

One type of battleground and one bracket. A player is in the world, on a loading
screen or offline; the code's `FindPlayer` finds him only in the world. A `GroupQueueInfo` is named by one of
the players and is used again when it was deleted. `BattlegroundMgr::Update` is several
steps (`BeginUpdate`, one for each battleground, the events of invitations whose time is up,
`FillPlayersToBG` and the two matches for a scheduled update), between which nothing else runs. Time is abstract: whatever waits
for it may happen. The counters of invited players wrap at `CounterSize`. Where the code
uses a null pointer the phase is `crashed`. An id of a deleted battleground is free at
once. Left out: arenas (another queue), `InvitationType` other than 0, deserters (but
for the one `_ProcessOfflineQueue` tracks through a null pointer, `TrackDeserter`), levels
and the dungeon finder, reminders, events of invitations that are over (they find another
`RemoveInviteTime` and do nothing), and failures of `CreateNewBattleground` and `TeleportTo`.
`undercounted` records the battlegrounds of finding 3.

## 3. Runs

| Run | Instance | Checks |
|---|---|---|
| `map_update` | two continents, dungeon with 2 instances, 0 to 2 workers, room for two requests | `PendingExact`, `NoDanglingRequest`, `OneRequestPerMap`, `WorldThreadAlone`, `ImplementsTick` |
| `world_sessions` | 2 players, a game master, 3 sessions, limit 0 or 1 changing | `SessionsOwned`, `QueueSound`, `NoFreePlaceWhileWaiting`, `LimitKept`, `FirstComeFirstServed`, `ClosedSessionsGo` |
| `world_socket_life` | 2 map threads, 2 packets | `NoDeletedSessionUsed`, `RefsExact`, `NoDeletedSocketUsed`, `ClosedSocketGoes` |
| `session_packets` | 2 packets at a time, 2 logins | `PacketsOwned`, `NoPacketTwicePerUpdate`, `RightCharacter`, `OvertakesOnlyDelayed`, `PacketsConsumed` |
| `instance_ids` | ids to 4, words of 2 bits, cells of 4, 2 threads | `NextIsLowestUnlessRaced`, `FreedIdsReusable`, `NextIsAvailableOffWords` |
| `database_pool` | 1 or 2 workers, a synchronous connection, 2 requests, one lost connection | `AllOrNothing`, `ExecutedOnce`, `InOrder`, `FinishedIsDurable`, `RequestsFinish`, `CloseEnds` |
| `instance_saves` | 3 players, one group, 2 ids | `SavesLinked`, `ResetOnlyWhenEmpty`, `IdsInUse`, `BindsDurable` |
| `instance_saves_restart` | 2 players, 2 ids | `PermanentNotReset`, violated |
| `trade` | 2 players, a stack of two and an item, bags of 2 and 1 slots, gold up to a limit of 3 | `TradesPaired`, `ExchangeConserves`, `ExchangeAsAgreed` |
| `trade_limit` | 2 players, 4 items, 3 of a template of which one may carry 2 | `ExchangeConserves`, violated |
| `battleground_queue` | 2 players of each team, alone and in parties, 1 battleground, 1 to 2 players per team | `QueueConsistent`, `InvitedCovers`, `OfflineQueueSound`, `FreeSlotsListed` |
| `battleground_queue_deleted` | the same | `InvitationHasBattleground`, violated |

Why the bounds are enough. *Maps*: base maps without instances, one with two
(one scheduled while the other is destroyed), and two workers give every overlap
of a parent's request, a child's and the waiting world thread; with room for two
requests both the world thread and the workers meet a full queue. The proofs
remove the bounds.
*Sessions*: three accounts, so that somebody waits behind somebody who waits, or
staff stand above the limit; one session more than the places and the queue need,
so that an account reconnects; limit 0 is the value that turns the limit off.
*Socket*: one socket, because sockets share nothing but the network thread; two
map threads, so that two sends fail at once. *Packets*: two packets waiting at a
time are enough for one to be put back behind another and for the loop to meet
the first one again, and packets are reused without bound; two logins, so that a
packet of the first character can meet the second. *Ids*: the ids fill two words
and cross two of their boundaries. *Database*: two requests of any two of `MCRequests`, one
behind the other on a connection or side by side on two, transactions of two
statements or none, and a connection lost at any call; the proofs remove the
bounds. *Saves*: two in a group and one who is not, so that an instance is full of
strangers; a second id, so that binds of one player and his group differ. The
constraint `Small` follows three players with one instance and two with two: three
with two adds only combinations of the same. *Trade*: the smallest bags in which an
item fits only because another leaves, and a limit that two purses exceed
together. *Battleground*: two players per team are a party whose members part ways,
and a match that starts with one per team and is filled up later; three joins let a
party be invited, dissolve and queue again. One player is away at a time
(`MaxAway`); wider instances were explored once, without a violation: three
players without a bound on joins and absences, four with two joins and two away, and
four with three joins and one away also after an undercount. The sessions with
`Tolerance` on were explored in the same way.

Deadlock is checked in every run: the states in which the code has stopped have an
explicit stutter (`Terminated`, `Stopped`, `Gone`, `Crashed`), and nothing else may stop.

### Violations

Three runs state what a comment says, and show that the code does something else.

1. `trade_limit`. `TradeHandler.cpp:149` says that everything is checked before the
   exchange because "a roll back is not possible". `CanStoreItems` looks at the limit of
   a template for each incoming item alone; with one of the limited items carried and
   two offered, `moveItems` is refused the second one, and the item it takes back is
   stored with a destination vector that still holds the partner's position
   (`TradeHandler.cpp:196`, `Player.cpp:12660`): it is stored twice, or not at all.
2. `instance_saves_restart`. `InstanceSaveMgr.h:89` says that an instance with players
   permanently bound to it cannot be reset. `GroupMgr.cpp:242` passes the number of
   permanent binds of the leader as `canReset`: after a restart exactly those can.
3. `battleground_queue_deleted`. A member on a loading screen is skipped when his group
   is invited (`BattlegroundQueue.cpp:454`: "this should not happen"), but `RemovePlayer`
   counts him out when he logs out. The counter reaches 0 one player early, the
   battleground is deleted while another member has an invitation, and his
   `BGQueueRemoveEvent` calls a method on a null pointer (`BattlegroundQueue.cpp:1073`).

### Known deviations

The models have these behaviours too, or leave them out for the reason given in
section 2; no run is spent on them. The properties above are stated so that they hold
next to them.

* *Sessions.* `worldserver.conf.dist:247` says the limit excludes staff; `AddSession_`
  counts all sessions (`World.cpp:249`). `difftime` has its arguments swapped
  (`World.cpp:290`), so that an account counts as recently disconnected for ever.
  `m_Session` is read without its lock when a client authenticates
  (`WorldSocket.cpp:684`).
* *Packets.* `deletePacket` stays false after a packet was put back
  (`WorldSession.cpp:291`): what is handled after it in the same `Update` is leaked.
* *Maps.* `FindBaseMap` is not repeated under the lock (`MapManager.cpp:99`). The bit of an
  id that is a multiple of 32 is written past the end of the vector
  (`MapManager.cpp:436`, `:397`), and the id is handed out again.
* *Database.* The callers of `ExecuteTransaction` look for error 1213 after `ROLLBACK`
  has succeeded on the connection (`MySQLConnection.cpp:392`, `Transaction.cpp:80`): a
  deadlock is never retried. The results of START TRANSACTION and COMMIT are not looked at
  (`MySQLConnection.cpp:358`, `:377`, `:417`): a transaction that was not begun is committed
  statement by statement, and one that was not committed counts as executed. A connection
  lost in a transaction is opened again and the statement repeated there
  (`MySQLConnection.cpp:170`, `:491`): what came before is rolled back, what follows is
  committed one by one, and a statement the server had executed is executed twice. `Close` closes the queue before the workers have emptied it
  (`DatabaseWorkerPool.h:106`), although `WorldRunnable.cpp:86` counts on the saves.
* *Instance saves.* The leader keeps his own bind when he forms a group
  (`Player.cpp:19171`), so that one instance has two binds with rows of their own, and a
  reset through one deletes the rows of both. A login that has read its rows before a
  reset makes a save again for an id that is free. Who logs out inside alone takes his
  save with him before the map asks it for the reset time: the reset is not
  scheduled and the id stays in use until a restart; so do the ids of global resets. A
  group that disbands strands its members who are inside. A lock accepted after leaving
  binds from outside. A new instance may find the map of an old one still loaded
  (`MapInstanced.cpp:176`). `RemovePlayer` deletes the save while it holds the save's own
  lock (`InstanceSaveMgr.h:84`).
* *Trade.* `TradeCancel` is reached from `CMSG_ACTIVATETAXI` on map threads
  (`Player.cpp:21522`), where two of them could delete the same `TradeData`.
* *Battlegrounds.* Who logs out on the way to a battleground leaves his count behind, and
  it is never deleted. A logout does not schedule an update of the queue. An invitation
  whose event comes while the player is on a loading screen never expires, and a member
  skipped by the invitation waits in a group that is invited. `_ProcessOfflineQueue`
  tracks a deserter through a null pointer (`Battleground.cpp:323`), if the option is on:
  it is off by default, `.reload config` may set it, and `TrackDeserter` is that step.
  `ScheduleQueueUpdate` has no lock (`BattlegroundMgr.cpp:1066`). A player on the way to a
  battleground that is gone keeps his slot in the queue.

### Fairness

* `MapUpdate`: weak fairness of each worker and of the world thread inside a tick
  and inside the shutdown. These are operating system threads that block only on
  the mutex, the condition and the queue, all modelled. Nothing makes the world
  thread start a tick or shut down. This is what gives `MapTick` its fairness.
* `WorldSessions`: the world loop keeps running (`WF` of `UpdateSessions`). The loop
  that takes new sessions ends only when it finds `addSessQueue` empty, so that it
  could run for ever against a flood; `HandleAuthSession` sleeps
  `CONFIG_SESSION_ADD_DELAY` before each `AddSession`, which is the assumption
  `Throttled`, with `SF(EndAdd)` for a queue found empty again and again.
* `WorldSocketLife`: weak fairness for the second halves of closing and for the
  threads in general; strong fairness for the steps that a turn of a loop reaches
  again and again while other steps of the loop come in between: `AddNewSockets`,
  the sweep of closing sockets, the input upcall of a closing socket (the peer
  closes its end after `close_writer`), `AcceptSession` and `RemoveClosed`.
* `SessionPackets`: the tick goes on (`WF` of `Tick`). Nothing is assumed of the
  client.
* `DatabasePool`: weak fairness of each worker, of each call (it ends in one of its
  outcomes: the client library has time-outs), and of the main thread inside
  `Close`. Connections are lost finitely often.
* `InstanceSaves`, `Trade`, `BattlegroundQueue`: none. What comes next is up to the
  players and the clock; only safety is checked.

## 4. Proofs

Every theorem holds for all values of the constants that satisfy the assumptions of
its module. The inductive invariants were checked with TLC on the runs' instances
before they were proved. Several modules have a `NullAssumption`: what the model uses
for a null pointer, or for a place outside of the bags and instances, is none of the
values it stands beside. Where finiteness is assumed (items, players, ids, workers) it
is because the code keeps them in memory and counts them.

`MapUpdateProofs` proves, for every set of maps, instances and workers and every
high water mark, under `MapsAssumption` (instances are not base maps, and have an
instanceable parent) and `PoolAssumption` (finitely many workers, room for at least
one request):

* `TypeCorrect`: `[]TypeOK`;
* `PendingIsExact`: `[]PendingExact`. The count is the number of requests, so that
  `wait()` returns exactly when nothing is queued or running, and the branch of
  `update_finished` that reports a bug is never taken;
* `RequestsAreLive`, `OneUpdateAtATime`, `WorldThreadHasMaps`: `[]NoDanglingRequest`,
  `[]OneRequestPerMap`, `[]WorldThreadAlone`;
* `TickIsComplete`: `[]TickComplete`.

None of these is inductive. A request could be added twice if an instance were
scheduled while its parent's request, which will schedule it, is still ahead. The
inductive invariant `IInv` therefore also says where requests come from: base maps
still to be scheduled are not busy (`TodoFresh`), instances still to be visited
exist, belong to the map the worker is updating and are not busy (`VisitsFresh`), an
instance is busy only after its parent's visit has begun (`ParentFirst`), nothing is
queued without a pool (`PoolOff`), and an instance does not outlive its parent
(`ParentExists`). The lemmas `ScheduleMoves`, `DequeueMoves`, `WorkKeepsHand` and
`FinishMoves` say how a step moves requests between the queue and the workers, and
the step of the induction has one lemma per action. `TickIsComplete` needs a
second invariant over the tick, `NoneForgotten`: every map was updated, refused or
kept, or is ahead, or will be visited by its parent.

* `RefinesTick`: `Spec => Tick!Spec`, the safety half of `ImplementsTick`. That every map
  has its turn is `NoneForgotten`; that it has only one needs its converse, `TickFresh`:
  what is ahead or still to be visited was not settled yet, a parent that is being
  visited was updated, and during the shutdown nothing is left of the maps the loop
  has passed. `NextTickStep` takes each step of the threads to one of eight abstract
  moves, `TickStepMaps` these to the actions of `MapTick`. The fairness of `MapTick`
  stays with TLC.

`SessionProofs` has two parts. About `WorldSocketLife` it proves, for any number of map
threads and waiting packets:

* `ReferencesExact`: `[]RefsExact`; `SessionsNotUsedDeleted`, `SocketsNotUsedDeleted`:
  `[]NoDeletedSessionUsed`, `[]NoDeletedSocketUsed`.

The count is kept as a sum of one reference for each holder (`RefsCounted`), and
`RefsSum` turns it into the cardinality of the set of holders. The rest of `LifeInv` says
which thread may be where: the network thread works on a socket that is in its set or
in the reactor (`NetworkHolds`), the world and map threads on a session that is not
deleted (`WorldHolds`). The clause that carries the safety of the session is
`ClearOwed`: once the socket is closing, whoever set `closing_` still owes the reset of
`m_Session`, and the world thread waits for it before it deletes.

`WorldSessionsProofs` proves, for any accounts, staff, sessions and limits:

* `NoSessionLostOrTwice`, `LoginQueueSound`: `[]SessionsOwned`, `[]QueueSound`;
* `QueueServesInOrder`, `PlacesGivenOn`, `LimitOnlyLowered`: the action properties
  `FirstComeFirstServed`, `NoFreePlaceWhileWaiting`, `LimitKept`.

`IInv` says who owns a session (`Owned`), that it is listed under its own account
(`Accounted`), that `UpdateSessions` has only listed sessions left (`Updating`), and who
waits (`Waiting`). The sequence lemmas say what `RemoveQueuedPlayer` leaves of a queue
when the session is in it and when it is not. The three action properties compare
numbers of sessions before and after a step: `Counts` and `StepCounts` count the listed,
waiting and playing sessions across each operation, the second call of
`RemoveQueuedPlayer` for the same session (`RemovedTwice`) included, which is the
place where a free place could be given away twice or not at all.

About `SessionPackets`, `SessionProofs` proves, for any bound on the packets and any number
of logins:

* `NoPacketLostOrTwice`, `LoopEndsAtDelayed`, `PacketsReachTheirCharacter`:
  `[]PacketsOwned`, `[]NoPacketTwicePerUpdate`, `[]RightCharacter`;
* `HandledInOrder`: the action property `OvertakesOnlyDelayed`.

The packet in the handler and those behind it form one `Line`, and `Before` is its
order. `DelayedBehind` (what this `Update` has put back waits behind
`firstDelayedPacket`) ends the loop; `OrderKept` compares the line with the order of
arrival. `RightCharacter` depends on the whole conversation: the last login in line is
the last one the client sent (`LoginPending`); packets of a character the client has
left stand in front of its request for the characters (`StalePending`); and that
request stands in front of the next login, while the server remembers the logout
(`EnumPending`). So `m_playerRecentlyLogout` is cleared only when nothing stale is
left. `Stage` says how far the server is with the last login.

`InstanceIdsProofs` proves, for every word size, cell size, bound and set of threads:

* `TypeCorrect`, with no bit set at or past the end;
* `LiveIdsAreRecorded`, `NextIdIsAvailable`: with any number of threads inside
  `FreeInstanceId`, an id that is not a multiple of the word size keeps its bit
  while it is in use, and is not handed out again. The invariant says that the
  vector ends at a multiple of `Word` not below any id in use (`Sized`: this is why
  only the multiples are lost), that saved ids are registered in ascending order
  (`Starting`), and that the copy of a cell a thread is about to write back has the
  bits of all ids in use (`Freeing`: ids in use only become fewer meanwhile);
* `NextIdIsLowest`, `FreedIdsAreReusable`: while calls do not overlap, nothing is
  lost (`Serial`). The condition is needed: two threads inside `FreeInstanceId` can
  lose each other's assignment to `_nextInstanceId`.

`DatabasePoolProofs` proves, for every number of connections, requests, statements
and lost connections, under `PoolAssumption` and `RequestsAssumption` (a one-way
statement is one call; a query holder is not empty):

* `TypeCorrect`: `[]TypeOK`, which includes that nothing is tried more often than
  `loopBreaker` allows;
* `TransactionsAreWhole`, `StatementsOnce`, `EffectsInOrder`, `ReturnedIsDurable`:
  `[]AllOrNothing`, `[]ExecutedOnce`, `[]InOrder`, `[]FinishedIsDurable`.

These speak of what the server has written, and are kept only because of where each
thread is in its request and what its session on the server holds. The inductive
invariant has five layers, each kept with the help of those before it: where a
connection can be in its request (`Cursor`); queued requests wait in the order in
which they were made, behind every queued request that was begun, and no request is
on two connections (`Places`); a session inside a transaction holds exactly the
statements executed so far (`Session`); a transaction that was begun, on a connection
that was not lost (not `Loose`), is inside one on the server whenever a statement or COMMIT can be answered
(`Guarded`); and what a request has written is what lies behind its cursor, nothing
before COMMIT (`Written`). `FirstAttempt`, a part of `Session`, is also the proof that a
deadlock is never retried: ROLLBACK has always replaced the error before the code
looks at it, so that a transaction with statements is tried once whatever the
constants are. `NextCases` reduces the next-state relation to three
kinds of steps (a request begins, a step inside a request, everything else), and the
frame lemmas say that a step concerns its own connection alone.

`TradeProofs` proves, for any players, finite set of items, stacks, bags, purses and
limits of gold:

* `PartnersExact`: `[]TradesPaired`;
* `NothingLostOrMinted`, `AcceptedIsReceived`: the action properties `ExchangeConserves`
  and `ExchangeAsAgreed`, when no item has a limit (`Limited = {}`). The hypothesis is
  needed: the run `trade_limit` refutes the first without it.

`Sound` says that trades come in pairs, that an item lies in one slot, that a window
shows only what the partner offers at this moment (`ShownTo`), and that who has accepted
agrees with what his window shows now (`AgreedBy`). Bags and stacks change behind the
trade's back, so that a window may show less than is offered, but never more, and never
another stack count. `moveItems` is a function of the slots done so far; what it
has moved after n slots is proved by the least slot at which it could fail
(`SlotInduction`). `RoomForNext` is the counting argument: `CanStoreItems` has compared
the bag slots with the incoming items less the outgoing ones, so that no single item
is refused, whichever slots come first, and the branch that gives it back is not taken.

`InstanceSavesProofs` proves, for any finite sets of players and ids:

* `ListsAndBindsAgree`, `ResetsFindNobody`, `IdsNotReused`, `BindsSurvive`: `[]SavesLinked`,
  `[]ResetOnlyWhenEmpty`, `[]IdsInUse`, `[]BindsDurable`.

`BindsDurable` alone is far from inductive: a bind keeps its rows only because nobody
else's reset may delete them. `Sound` therefore adds who is bound beside whom.
`ResetsSafe`: two players are bound to one save only if one of them is bound
permanently, and a save that `canReset` has no permanent player; where this fails the
id is in `Lost`, the ids of the two histories `BindsDurable` excepts (`doubled` and `stale`).
`RowsSound`: who is online has no row of an existing instance beside that of his bind,
and who is offline one at most, so that a login gives back one bind. `ReadSound`: what
a login has read is still there, or marked `stale`. `Covered`: rows, saves and readings
concern ids in use. `NormalBinds`: nothing is permanent in a normal dungeon. `Schedules`
says that resets are scheduled for empty instances with an id in use, `LocksSound`
that a lock waits for its answer in a heroic dungeon.

The handlers are compositions, and so are the proofs: each operation on `b` has one
lemma that says what it does to the fields and one that it keeps `Sound`, also for a
save that is still empty in the middle of a handler (the parameter `new`), and for a
player whose login or logout is under way (`on`). Loops over players and ids are
`FoldSet`s; they are followed round by round (`RoundsDefined`, `SubsetInduction`). The
restart is `CleanedSound`, for the rows the startup deletes, and `RestartStep`, for the
group that is read again.

`BattlegroundQueueProofs` proves, for any players, parties, battlegrounds and sizes of a
team, under `QueueAssumption` (a party is of one side, players are finitely many, none of
them is the 0 that stands for "no group", and the counters of a battleground can hold a team
and all the players: they are 32 bits wide, and may still wrap below zero):

* `RecordsAgree`, `InvitedPlayersCounted`, `OfflinePlayersKnown`, `FreeSlotsKnown`:
  `[]QueueConsistent`, `[]InvitedCovers`, `[]OfflineQueueSound`, `[]FreeSlotsListed`.

These hold only together. A counter is lowered for a group when it leaves, so it stays right
only if group, slot and invitation agree; the list of offline players is right only if a
player is in one battleground. `IInv` keeps the four with what they rest on. `Lists`
and `Grouped` are the queue: each group is listed once, for the team of its
players. `Journey` follows one player: what his place (in the world, on a loading screen,
offline) says of his slot, his group, his invitation and the battleground that lists him.
It is the part that logouts, returns and refused teleports could break, since each of them
changes only some of these records. `Gone` says that a battleground that was deleted has
nobody and no count, and `NobodyOffline` (a second invariant, over `IInv`) that nobody waits
in its list of offline players, so that the next one with its id inherits nothing. `Filling`
says that the copy of `BGFreeSlotQueue` that `FillPlayersToBG` walks over holds only
battlegrounds that still run.

The counters are followed by three lemmas: nobody comes (`CoversSame`), the count goes down by
those who leave (`CoversLess`), or up by those who come and fit (`CoversMore`). That they fit is
`FreeSlots` (`GetFreeSlotsForTeam` never returns more than the team has room for, in any
of its branches) with `SelectSound`: a selection pool is a set of listed groups without an
invitation (`PoolSound`), with no more players than it was allowed. The loops
that fill the pools are recursive functions over a list, followed place by place
(`SelectAllLoop`, `NormalPoolLoop`); `PlaceInduction` gets the induction from the least place
that is not reached.

`InvitedCovers` leaves out the battlegrounds in `undercounted`, which counted out a player
they had never counted in; `battleground_queue_deleted` shows where that ends (finding 3).

Lemmas about sequences appear in `WorldSessionsProofs`, `SessionProofs` and
`BattlegroundQueueProofs`, and `LeastNatural` in several modules, because each module of
proofs extends the components it is about and nothing else.

Theorems without a run of their own: the type and inductive invariants, `TickIsComplete`,
`RefinesTick` (every part of `ImplementsTick` but its fairness) and `LiveIdsAreRecorded`.

Every invariant and every action property of the passing runs is the subject of a theorem.
Only model-checked is liveness: the fairness in `ImplementsTick`, and `ClosedSessionsGo`,
`ClosedSocketGoes`, `PacketsConsumed`, `RequestsFinish` and `CloseEnds`. It rests on the
fairness of steps, that is on `ENABLED`, which the proof system does not handle. The runs
that expect a violation are TLC's by nature.

## 5. Plan

In this order; each step is a module with its runs, and theorems where the
invariant is worth it.

1. *Done*: `MapUpdate` with `MapTick`, `WorldSessions`, `WorldSocketLife`, `SessionPackets`,
   `InstanceIds`, `DatabasePool`, `InstanceSaves`, `Trade`, `BattlegroundQueue`; proofs of the
   safety of all of them, and that `MapUpdate` refines `MapTick`.
2. `DatabasePool` composed with login and logout: whether a character can be loaded
   before it was saved.
3. Auction house and mail: nothing is duplicated or lost between tables.
4. Dungeon finder and group loot: answers that come late.
5. Event processor, movement generators, grid states: deletion inside iteration.
6. Auth server: order of challenge, proof and realm list.

## 6. Not modelled

Game rules (entities, spells, combat, AI, loot), data stores, chat, guilds,
calendar, tickets and achievements are tables and arithmetic changed by one thread
at a time; content scripts are written against the interfaces above; collision is
geometry in floating point; cryptography, configuration and logging are I/O and
arithmetic on bytes. Of the modelled parts: packet framing and encryption, the
output buffer, transports, entry checks of maps other than those that decide about
instances, arenas and the scores of battlegrounds, and what the handlers of other
opcodes do to game state. Auction house, mail, dungeon finder, group loot, event
processor, movement and the auth server have state worth a model and are in the plan.
