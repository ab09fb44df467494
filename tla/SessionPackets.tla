--------------------------- MODULE SessionPackets ---------------------------
(***************************************************************************)
(* The packet queue of one WorldSession.  The client sends packets over a  *)
(* character selection, a login, a stay in the world and a logout; the     *)
(* network thread appends them to _recvQueue.  WorldSession::Update takes  *)
(* them out in two places of every tick: on the world thread, in           *)
(* UpdateSessions, and on a map thread, in Map::Update, while the player   *)
(* is in the world.  Each place leaves to the other the packets its        *)
(* PacketFilter refuses.  A packet for a player that is not loaded yet is  *)
(* put back at the end of the queue.                                       *)
(***************************************************************************)
EXTENDS Naturals, FiniteSets, SequencesExt

CONSTANTS
  Packets,    \* WorldPacket objects; the bound on those waiting at a time
  None,       \* no packet
  MaxLogins   \* bound on the characters the client logs in with

ASSUME PacketsAssumption == None \notin Packets /\ MaxLogins \in Nat

\* One opcode for every status and processing with effects of its own.
LoggedIn == {"CMSG_CAST_SPELL", "CMSG_SETSHEATHED", "CMSG_LOGOUT_REQUEST"}
Authed == {"CMSG_CHAR_ENUM", "CMSG_PLAYER_LOGIN"}
Opcodes == LoggedIn \cup Authed \cup {"MSG_MOVE_WORLDPORT_ACK", "CMSG_LOGOUT_CANCEL"}

packetProcessing(o) ==
  CASE o = "CMSG_SETSHEATHED" -> "PROCESS_INPLACE"
    [] o = "CMSG_CAST_SPELL"  -> "PROCESS_THREADSAFE"
    [] OTHER                  -> "PROCESS_THREADUNSAFE"

VARIABLES
  recvQueue,      \* _recvQueue
  allocated,      \* packets not deleted
  op, char,       \* opcode of each packet, and the login it was sent after
  updater,        \* where in the tick the server is; "world" and "map": in the loop of Update
  cur,            \* the packet taken out of the queue, or None
  firstDelayedPacket,
  player,         \* _player: "none", "world" or "transfer" (not IsInWorld)
  playerChar,     \* the login _player belongs to
  loading,        \* the login _charLoginCallback waits for (m_playerLoading), or 0
  m_playerRecentlyLogout, m_inQueue,
  logoutTime,     \* _logoutTime is set
  closed,         \* the socket is closed
  screen, logins, \* the client: what it shows, logins so far
  logoutComplete, \* SMSG_LOGOUT_COMPLETE is on its way to the client
  arrived,        \* packets not consumed yet, in the order they came
  delayed, again  \* packets put back ever, and in this Update

queueVars == <<recvQueue, allocated, op, char, arrived, delayed, again>>
loopVars == <<updater, cur, firstDelayedPacket>>
playerVars == <<player, playerChar, loading, m_playerRecentlyLogout, logoutTime, logoutComplete>>
clientVars == <<screen, logins>>
vars == <<queueVars, loopVars, playerVars, clientVars, m_inQueue, closed>>

Elements(q) == {q[k] : k \in 1..Len(q)}
Without(q, p) == RemoveFirst(q, p)

TypeOK ==
  /\ recvQueue \in Seq(Packets) /\ arrived \in Seq(Packets)
  /\ allocated \subseteq Packets /\ delayed \subseteq Packets /\ again \subseteq Packets
  /\ op \in [Packets -> Opcodes] /\ char \in [Packets -> 0..MaxLogins]
  /\ updater \in {"idle", "world", "logout", "maps", "map", "gone"}
  /\ cur \in Packets \cup {None} /\ firstDelayedPacket \in Packets \cup {None}
  /\ player \in {"none", "world", "transfer"}
  /\ playerChar \in 0..MaxLogins /\ loading \in 0..MaxLogins /\ logins \in 0..MaxLogins
  /\ screen \in {"select", "game", "left"}
  /\ {m_playerRecentlyLogout, m_inQueue, logoutTime, closed, logoutComplete} \subseteq BOOLEAN

\* A session just added to the world, perhaps waiting in the login queue.
Init ==
  /\ recvQueue = <<>> /\ arrived = <<>>
  /\ allocated = {} /\ delayed = {} /\ again = {}
  /\ op = [p \in Packets |-> "CMSG_CHAR_ENUM"] /\ char = [p \in Packets |-> 0]
  /\ updater = "idle" /\ cur = None
  /\ firstDelayedPacket = None
  /\ player = "none" /\ playerChar = 0 /\ loading = 0
  /\ m_playerRecentlyLogout = FALSE /\ logoutTime = FALSE /\ logoutComplete = FALSE
  /\ m_inQueue \in BOOLEAN
  /\ closed = FALSE
  /\ screen = "select" /\ logins = 0

-----------------------------------------------------------------------------
(* The client and the network thread                                        *)

QueuePacket(p, o, c) ==
  /\ p \notin allocated /\ updater # "gone" /\ ~closed
  /\ allocated' = allocated \cup {p}
  /\ op' = [op EXCEPT ![p] = o]
  /\ char' = [char EXCEPT ![p] = c]
  /\ recvQueue' = Append(recvQueue, p)
  /\ arrived' = Append(arrived, p)
  /\ UNCHANGED <<delayed, again, loopVars, playerVars, m_inQueue, closed>>

\* A character is chosen; the client does not wait for the server to load it.
SendLogin(p) ==
  /\ screen = "select" /\ logins < MaxLogins
  /\ QueuePacket(p, "CMSG_PLAYER_LOGIN", logins + 1)
  /\ screen' = "game" /\ logins' = logins + 1

SendInGame(p) ==
  /\ screen = "game"
  /\ \E o \in Opcodes \ Authed : QueuePacket(p, o, logins)
  /\ UNCHANGED clientVars

\* Back at the character selection the client first asks for its characters.
ReceiveLogoutComplete ==
  /\ logoutComplete /\ screen = "game"
  /\ screen' = "left"
  /\ logoutComplete' = FALSE
  /\ UNCHANGED <<queueVars, loopVars, player, playerChar, loading, m_playerRecentlyLogout,
                 logoutTime, logins, m_inQueue, closed>>

SendCharEnum(p) ==
  /\ screen = "left"
  /\ QueuePacket(p, "CMSG_CHAR_ENUM", logins)
  /\ screen' = "select"
  /\ UNCHANGED logins

CloseSocket ==
  /\ ~closed
  /\ closed' = TRUE
  /\ UNCHANGED <<queueVars, loopVars, playerVars, clientVars, m_inQueue>>

Client ==
  \/ \E p \in Packets : SendLogin(p) \/ SendInGame(p) \/ SendCharEnum(p)
  \/ ReceiveLogoutComplete \/ CloseSocket

-----------------------------------------------------------------------------
(* The loop of WorldSession::Update                                         *)

\* Mutant: neither filter takes a thread-safe packet while a transfer lasts.
ProcessNotInTransfer(p) ==
  CASE packetProcessing(op[p]) = "PROCESS_INPLACE"      -> TRUE
    [] packetProcessing(op[p]) = "PROCESS_THREADUNSAFE" -> updater = "world"
    [] OTHER -> IF updater = "map" THEN player = "world" ELSE player = "none"

\* MapSessionFilter::Process and WorldSessionFilter::Process.
Process(p) ==
  CASE packetProcessing(op[p]) = "PROCESS_INPLACE"      -> TRUE
    [] packetProcessing(op[p]) = "PROCESS_THREADUNSAFE" -> updater = "world"
    [] OTHER -> IF updater = "map" THEN player = "world" ELSE player # "world"

LoopGoesOn ==
  /\ ~closed
  /\ recvQueue # <<>>
  /\ Head(recvQueue) # firstDelayedPacket
  /\ Process(Head(recvQueue))

BeginUpdate ==
  /\ \/ updater = "idle" /\ updater' = "world"
     \/ updater = "maps" /\ player = "world" /\ updater' = "map"
  /\ firstDelayedPacket' = None
  /\ again' = {}
  /\ UNCHANGED <<recvQueue, allocated, op, char, arrived, delayed, cur, playerVars, clientVars,
                 m_inQueue, closed>>

\* Mutant: next() looks past a packet the filter refuses.
NextPacketSkips ==
  /\ updater \in {"world", "map"} /\ cur = None /\ ~closed
  /\ \E k \in 1..Len(recvQueue) :
       /\ Process(recvQueue[k]) /\ \A j \in 1..(k - 1) : ~Process(recvQueue[j])
       /\ \A j \in 1..k : recvQueue[j] # firstDelayedPacket
       /\ cur' = recvQueue[k]
       /\ recvQueue' = Without(recvQueue, recvQueue[k])
  /\ UNCHANGED <<allocated, op, char, arrived, delayed, again, updater, firstDelayedPacket,
                 playerVars, clientVars, m_inQueue, closed>>

\* LockedQueue::next: only the first packet is ever looked at.
NextPacket ==
  /\ updater \in {"world", "map"} /\ cur = None
  /\ LoopGoesOn
  /\ cur' = Head(recvQueue)
  /\ recvQueue' = Tail(recvQueue)
  /\ UNCHANGED <<allocated, op, char, arrived, delayed, again, updater, firstDelayedPacket,
                 playerVars, clientVars, m_inQueue, closed>>

\* Mutant: the packet is deleted although it is back in the queue.
DelayPacketDeletes ==
  /\ cur # None /\ op[cur] \in LoggedIn
  /\ player = "none" /\ ~m_playerRecentlyLogout
  /\ firstDelayedPacket' = IF firstDelayedPacket = None THEN cur ELSE firstDelayedPacket
  /\ recvQueue' = Append(recvQueue, cur)
  /\ allocated' = allocated \ {cur}
  /\ delayed' = delayed \cup {cur} /\ again' = again \cup {cur}
  /\ cur' = None
  /\ UNCHANGED <<op, char, arrived, updater, playerVars, clientVars, m_inQueue, closed>>

\* Mutant: only the last packet put back is remembered.
DelayPacketLast ==
  /\ cur # None /\ op[cur] \in LoggedIn
  /\ player = "none" /\ ~m_playerRecentlyLogout
  /\ firstDelayedPacket' = cur
  /\ recvQueue' = Append(recvQueue, cur)
  /\ delayed' = delayed \cup {cur} /\ again' = again \cup {cur}
  /\ cur' = None
  /\ UNCHANGED <<allocated, op, char, arrived, updater, playerVars, clientVars, m_inQueue, closed>>

\* Mutant: packets are put back after a logout too.
DelayPacketAfterLogout ==
  /\ cur # None /\ op[cur] \in LoggedIn
  /\ player = "none"
  /\ firstDelayedPacket' = IF firstDelayedPacket = None THEN cur ELSE firstDelayedPacket
  /\ recvQueue' = Append(recvQueue, cur)
  /\ delayed' = delayed \cup {cur} /\ again' = again \cup {cur}
  /\ cur' = None
  /\ UNCHANGED <<allocated, op, char, arrived, updater, playerVars, clientVars, m_inQueue, closed>>

\* STATUS_LOGGEDIN without a player, who has not just logged out: the packet is
\* put back and not deleted.
DelayPacket ==
  /\ cur # None /\ op[cur] \in LoggedIn
  /\ player = "none" /\ ~m_playerRecentlyLogout
  /\ firstDelayedPacket' = IF firstDelayedPacket = None THEN cur ELSE firstDelayedPacket
  /\ recvQueue' = Append(recvQueue, cur)
  /\ delayed' = delayed \cup {cur} /\ again' = again \cup {cur}
  /\ cur' = None
  /\ UNCHANGED <<allocated, op, char, arrived, updater, playerVars, clientVars, m_inQueue, closed>>

\* The end of the loop body for every other packet.  deletePacket stays false once
\* a packet has been put back; the packet is then gone without being freed.
Consume ==
  /\ allocated' = allocated \ {cur}
  /\ arrived' = Without(arrived, cur)
  /\ delayed' = delayed \ {cur}
  /\ cur' = None
  /\ UNCHANGED <<recvQueue, op, char, again, updater, firstDelayedPacket, clientVars, m_inQueue>>

\* LogoutPlayer: a pending far teleport is finished first.
LogoutPlayer ==
  /\ player' = "none"
  /\ m_playerRecentlyLogout' = TRUE
  /\ logoutTime' = FALSE
  /\ logoutComplete' = (logoutComplete \/ (player # "none" /\ ~closed))
  /\ UNCHANGED <<playerChar, loading>>

\* The handler of the packet is not called, or it has no effect here.
DropPacket ==
  /\ cur # None
  /\ \/ op[cur] \in LoggedIn /\ player = "none" /\ m_playerRecentlyLogout
     \/ op[cur] \in LoggedIn /\ player = "transfer"
     \/ op[cur] = "CMSG_LOGOUT_CANCEL" /\ player = "none" /\ ~m_playerRecentlyLogout
     \/ op[cur] = "MSG_MOVE_WORLDPORT_ACK" /\ player # "transfer"
     \/ op[cur] \in Authed /\ m_inQueue
  /\ Consume
  /\ UNCHANGED <<playerVars, closed>>

\* Any handler may also be given a malformed packet or kick the client, and a
\* spell may teleport the player to another map.
HandleInWorld ==
  /\ cur # None /\ op[cur] \in LoggedIn \ {"CMSG_LOGOUT_REQUEST"}
  /\ player = "world"
  /\ player' \in IF op[cur] = "CMSG_CAST_SPELL" THEN {"world", "transfer"} ELSE {"world"}
  /\ closed' \in {closed, TRUE}
  /\ Consume
  /\ UNCHANGED <<playerChar, loading, m_playerRecentlyLogout, logoutTime, logoutComplete>>

\* The logout is refused, takes place at once, or in 20 seconds.
HandleLogoutRequestOpcode ==
  /\ cur # None /\ op[cur] = "CMSG_LOGOUT_REQUEST"
  /\ player = "world"
  /\ \/ /\ logoutTime' \in BOOLEAN
        /\ UNCHANGED <<player, playerChar, loading, m_playerRecentlyLogout, logoutComplete>>
     \/ LogoutPlayer
  /\ Consume
  /\ UNCHANGED closed

HandleLogoutCancelOpcode ==
  /\ cur # None /\ op[cur] = "CMSG_LOGOUT_CANCEL"
  /\ player # "none" \/ m_playerRecentlyLogout
  /\ logoutTime' = (logoutTime /\ player = "none")
  /\ Consume
  /\ UNCHANGED <<player, playerChar, loading, m_playerRecentlyLogout, logoutComplete, closed>>

\* The player arrives, is sent on to his home, or is logged out because the
\* destination is invalid.
HandleMoveWorldportAckOpcode ==
  /\ cur # None /\ op[cur] = "MSG_MOVE_WORLDPORT_ACK"
  /\ player = "transfer"
  /\ \/ /\ player' \in {"world", "transfer"}
        /\ UNCHANGED <<playerChar, loading, m_playerRecentlyLogout, logoutTime, logoutComplete>>
     \/ LogoutPlayer
  /\ Consume
  /\ UNCHANGED closed

HandleCharEnumOpcode ==
  /\ cur # None /\ op[cur] = "CMSG_CHAR_ENUM"
  /\ ~m_inQueue
  /\ m_playerRecentlyLogout' = FALSE
  /\ Consume
  /\ UNCHANGED <<player, playerChar, loading, logoutTime, logoutComplete, closed>>

\* The query of the login is sent, or the client is kicked: then m_playerLoading
\* stays set without a query, until this very Update gets to the closed socket.
HandlePlayerLoginOpcode ==
  /\ cur # None /\ op[cur] = "CMSG_PLAYER_LOGIN"
  /\ ~m_inQueue
  /\ \/ /\ loading # 0 \/ player # "none"
        /\ UNCHANGED <<loading, closed>>
     \/ /\ loading = 0 /\ player = "none"
        /\ \/ loading' = char[cur] /\ UNCHANGED closed
           \/ closed' = TRUE /\ UNCHANGED loading
  /\ Consume
  /\ UNCHANGED <<player, playerChar, m_playerRecentlyLogout, logoutTime, logoutComplete>>

-----------------------------------------------------------------------------
(* The rest of the tick                                                     *)

LoopEnds == updater \in {"world", "map"} /\ cur = None /\ ~LoopGoesOn

\* ProcessQueryCallbacks: the query of a login is ready, or not.
HandlePlayerLogin ==
  /\ LoopEnds
  /\ updater' = IF updater = "world" THEN "logout" ELSE "idle"
  /\ \/ UNCHANGED <<player, playerChar, loading, closed>>
     \/ /\ loading # 0
        /\ loading' = 0
        /\ \/ /\ player' \in {"world", "transfer"}
              /\ playerChar' = loading
              /\ UNCHANGED closed
           \/ /\ closed' = TRUE
              /\ UNCHANGED <<player, playerChar>>
  /\ UNCHANGED <<queueVars, cur, firstDelayedPacket, m_playerRecentlyLogout, logoutTime,
                 logoutComplete, clientVars, m_inQueue>>

\* The end of Update on the world thread: a logout whose time has come, then the
\* destructor if the socket is closed.
EndWorldUpdate ==
  /\ updater = "logout"
  /\ \/ /\ (logoutTime /\ loading = 0) \/ (closed /\ player # "none")
        /\ LogoutPlayer
     \/ /\ ~closed \/ player = "none"
        /\ UNCHANGED playerVars
  /\ IF closed
       THEN /\ updater' = "gone"
            /\ recvQueue' = <<>> /\ arrived' = <<>> /\ delayed' = {}
            /\ allocated' = allocated \ Elements(recvQueue)
       ELSE /\ updater' = "maps"
            /\ UNCHANGED <<recvQueue, arrived, delayed, allocated>>
  /\ UNCHANGED <<op, char, again, cur, firstDelayedPacket, clientVars, m_inQueue, closed>>

\* The session has no player in the world: no map updates it.
NoMapUpdate ==
  /\ updater = "maps" /\ player # "world"
  /\ updater' = "idle"
  /\ UNCHANGED <<queueVars, cur, firstDelayedPacket, playerVars, clientVars, m_inQueue, closed>>

\* Another player, a script or a command teleports the player to another map.
TeleportTo ==
  /\ updater \in {"idle", "maps"} /\ player = "world"
  /\ player' = "transfer"
  /\ UNCHANGED <<queueVars, loopVars, playerChar, loading, m_playerRecentlyLogout, logoutTime,
                 logoutComplete, clientVars, m_inQueue, closed>>

\* World::RemoveQueuedPlayer lets the session in.
LeaveQueue ==
  /\ m_inQueue /\ updater = "idle"
  /\ m_inQueue' = FALSE
  /\ UNCHANGED <<queueVars, loopVars, playerVars, clientVars, closed>>

Gone == updater = "gone" /\ UNCHANGED vars

HandlePacket ==
  \/ DelayPacket \/ DropPacket \/ HandleInWorld
  \/ HandleLogoutRequestOpcode \/ HandleLogoutCancelOpcode
  \/ HandleMoveWorldportAckOpcode \/ HandleCharEnumOpcode \/ HandlePlayerLoginOpcode

Tick ==
  \/ BeginUpdate \/ NextPacket \/ HandlePacket \/ HandlePlayerLogin \/ EndWorldUpdate \/ NoMapUpdate

Next == Client \/ Tick \/ TeleportTo \/ LeaveQueue \/ Gone

Spec == Init /\ [][Next]_vars

\* The world thread and the map threads keep running.
FairSpec == Spec /\ WF_vars(Tick)

-----------------------------------------------------------------------------
(* Properties                                                               *)

\* A packet in the queue or in a handler is not deleted, and is in one place
\* once, although packets are put back into the queue they came from.
PacketsOwned ==
  /\ TypeOK
  /\ Elements(recvQueue) \cup ({cur} \ {None}) \subseteq allocated
  /\ cur \notin Elements(recvQueue)
  /\ Cardinality(Elements(recvQueue)) = Len(recvQueue)

\* "To prevent an infinite loop": no packet that was put back is taken out a
\* second time by the same Update, also when new packets arrive in between.
NoPacketTwicePerUpdate == cur \notin again

\* Packets of a session are handled in the order they came, whichever of the two
\* threads handles them; only a packet that was put back can be overtaken.
OvertakesOnlyDelayed ==
  [][\A k \in 1..Len(arrived) :
       arrived[k] \notin Elements(arrived') /\ updater' # "gone" =>
         \A j \in 1..(k - 1) : arrived[j] \in delayed \/ arrived[j] \notin Elements(arrived')]_vars

\* A packet the client sent while it played one character is never handled for
\* another one, although packets wait for a player to be loaded.
RightCharacter ==
  cur # None /\ op[cur] \in LoggedIn /\ player # "none" => char[cur] = playerChar

\* Every packet is consumed in the end, unless it waits for a player or the
\* socket closes: neither filter leaves a packet to the other for ever.
PacketsConsumed ==
  \A p \in Packets :
    p \in Elements(recvQueue) ~> (p \notin Elements(recvQueue) \/ closed \/ player = "none")
=============================================================================
