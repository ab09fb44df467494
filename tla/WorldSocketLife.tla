--------------------------- MODULE WorldSocketLife ---------------------------
(***************************************************************************)
(* The life of one WorldSocket and of the WorldSession on top of it.  The  *)
(* acceptor thread opens the socket, one network thread (ReactorRunnable)  *)
(* reads from it, the world thread updates, kicks and deletes the session, *)
(* and map threads send through it while maps are updated.                 *)
(*                                                                         *)
(* Each critical section of m_OutBufferLock (closing_) and m_SessionLock   *)
(* (m_Session) is one step, so CloseSocket and handle_close are two steps  *)
(* with anything in between.  The socket is reference counted: it is       *)
(* deleted when refs gets to 0.                                            *)
(***************************************************************************)
EXTENDS Naturals, FiniteSets

CONSTANTS
  Senders,     \* map threads that may send to the session
  MaxPackets   \* bound on the packets waiting in _recvQueue

ASSUME LifeAssumption == MaxPackets \in Nat \ {0}

VARIABLES
  closing_, m_Session,  \* of the socket; m_Session is TRUE when not NULL
  refs,                 \* reference count of the socket
  apc,                  \* the acceptor thread in WorldSocket::open
  npc,                  \* the network thread
  listed,               \* the socket is in m_NewSockets ("new"), m_Sockets ("active"), or neither
  registered,           \* the reactor holds the socket
  sess,                 \* the session's life
  recv,                 \* packets in _recvQueue
  wpc,                  \* the world thread
  spc                   \* each map thread

sockVars == <<closing_, m_Session, refs>>
lifeVars == <<closing_, m_Session, refs, apc, npc, listed, registered, sess, recv, wpc, spc>>

\* The session exists and its m_Socket is not NULL.
SessionAlive == sess \in {"created", "added", "in world"}

LifeTypeOK ==
  /\ closing_ \in BOOLEAN
  /\ m_Session \in BOOLEAN
  /\ refs \in 0..4
  /\ apc \in {"open", "added", "registered", "done"}
  /\ npc \in {"loop", "input", "auth", "close", "clear", "sweep", "drop"}
  /\ listed \in {"none", "new", "active"}
  /\ registered \in BOOLEAN
  /\ sess \in {"none", "created", "added", "in world", "deleted"}
  /\ recv \in 0..MaxPackets
  /\ wpc \in {"sessions", "maps", "kick", "destroy", "delete"}
  /\ spc \in [Senders -> {"idle", "clear"}]

\* The acceptor has made the handler, which starts with one reference.
LifeInit ==
  /\ closing_ = FALSE
  /\ m_Session = FALSE
  /\ refs = 1
  /\ apc = "open"
  /\ npc = "loop"
  /\ listed = "none"
  /\ registered = FALSE
  /\ sess = "none"
  /\ recv = 0
  /\ wpc = "sessions"
  /\ spc = [t \in Senders |-> "idle"]

-----------------------------------------------------------------------------
(* The acceptor thread: WorldSocket::open                                   *)

\* OnSocketOpen ends in ReactorRunnable::AddSocket.
OnSocketOpen ==
  /\ apc = "open"
  /\ apc' = "added"
  /\ listed' = "new"
  /\ refs' = refs + 1
  /\ UNCHANGED <<closing_, m_Session, npc, registered, sess, recv, wpc, spc>>

RegisterHandler ==
  /\ apc = "added"
  /\ apc' = "registered"
  /\ registered' = TRUE
  /\ refs' = refs + 1
  /\ UNCHANGED <<closing_, m_Session, npc, listed, sess, recv, wpc, spc>>

\* Mutant: open() returns without remove_reference().
OpenReturnsKeepsReference ==
  /\ apc = "registered"
  /\ apc' = "done"
  /\ UNCHANGED <<sockVars, npc, listed, registered, sess, recv, wpc, spc>>

OpenReturns ==
  /\ apc = "registered"
  /\ apc' = "done"
  /\ refs' = refs - 1
  /\ UNCHANGED <<closing_, m_Session, npc, listed, registered, sess, recv, wpc, spc>>

\* open() returned -1 before or after AddSocket: the acceptor calls close().
OpenFails ==
  /\ apc \in {"open", "added"}
  /\ apc' = "done"
  /\ closing_' = TRUE
  /\ refs' = refs - 1
  /\ UNCHANGED <<m_Session, npc, listed, registered, sess, recv, wpc, spc>>

-----------------------------------------------------------------------------
(* The network thread: ReactorRunnable::svc and the reactor's upcalls       *)

AddNewSockets ==
  /\ npc = "loop"
  /\ listed = "new"
  /\ IF closing_ THEN listed' = "none" /\ refs' = refs - 1
                 ELSE listed' = "active" /\ UNCHANGED refs
  /\ UNCHANGED <<closing_, m_Session, apc, npc, registered, sess, recv, wpc, spc>>

\* Update() returns -1, because the socket is closing or the peer has gone while
\* sending: svc() calls CloseSocket, whose second half is SweepClear.  While
\* open() runs, m_OutActive keeps Update() from sending.
Sweep ==
  /\ npc = "loop"
  /\ listed = "active"
  /\ IF closing_ THEN npc' = "drop"
                 ELSE apc \notin {"open", "added"} /\ npc' = "sweep"
  /\ closing_' = TRUE
  /\ UNCHANGED <<m_Session, refs, apc, listed, registered, sess, recv, wpc, spc>>

SweepClear ==
  /\ npc = "sweep"
  /\ m_Session' = FALSE
  /\ npc' = "drop"
  /\ UNCHANGED <<closing_, refs, apc, listed, registered, sess, recv, wpc, spc>>

SweepDrop ==
  /\ npc = "drop"
  /\ refs' = refs - 1
  /\ listed' = "none"
  /\ npc' = "loop"
  /\ UNCHANGED <<closing_, m_Session, apc, registered, sess, recv, wpc, spc>>

\* handle_input: a closing socket or a lost peer ends in handle_close.
handle_input ==
  /\ npc = "loop"
  /\ registered
  /\ npc' \in IF closing_ THEN {"close"} ELSE {"input", "close"}
  /\ UNCHANGED <<sockVars, apc, listed, registered, sess, recv, wpc, spc>>

\* CMSG_AUTH_SESSION is the first packet of a client.
HandleAuthSession ==
  /\ npc = "input"
  /\ ~closing_ /\ sess = "none"
  /\ \/ /\ m_Session' = TRUE
        /\ sess' = "created"
        /\ refs' = refs + 1
        /\ npc' = "auth"
     \/ /\ npc' = "close"
        /\ UNCHANGED <<m_Session, sess, refs>>
  /\ UNCHANGED <<closing_, apc, listed, registered, recv, wpc, spc>>

\* After its delay the network thread gives the session to the world.
AddSession ==
  /\ npc = "auth"
  /\ sess' = "added"
  /\ npc' = "loop"
  /\ UNCHANGED <<sockVars, apc, listed, registered, recv, wpc, spc>>

\* The other packets are queued while m_SessionLock is held.
ReceivePacket ==
  /\ npc = "input"
  /\ m_Session
  /\ recv' = IF recv < MaxPackets THEN recv + 1 ELSE recv
  /\ npc' = "loop"
  /\ UNCHANGED <<sockVars, apc, listed, registered, sess, wpc, spc>>

\* ProcessIncoming finds the socket closing, or no session.
InputRefused ==
  /\ npc = "input"
  /\ closing_ \/ (~m_Session /\ sess # "none")
  /\ npc' = "close"
  /\ UNCHANGED <<sockVars, apc, listed, registered, sess, recv, wpc, spc>>

\* handle_close, first critical section.
handle_close ==
  /\ npc = "close"
  /\ closing_' = TRUE
  /\ npc' = "clear"
  /\ UNCHANGED <<m_Session, refs, apc, listed, registered, sess, recv, wpc, spc>>

\* handle_close, second critical section and remove_handler.
HandleCloseClear ==
  /\ npc = "clear"
  /\ m_Session' = FALSE
  /\ registered' = FALSE
  /\ refs' = refs - 1
  /\ npc' = "loop"
  /\ UNCHANGED <<closing_, apc, listed, sess, recv, wpc, spc>>

-----------------------------------------------------------------------------
(* The world thread and the map threads                                     *)

\* World::AddSession_ accepts the session, or rejects it as in Destroy.
AcceptSession ==
  /\ wpc = "sessions"
  /\ sess = "added"
  /\ sess' = "in world"
  /\ UNCHANGED <<sockVars, apc, npc, listed, registered, recv, wpc, spc>>

\* WorldSession::Update handles a packet of an open socket.
HandleReceived ==
  /\ wpc = "sessions"
  /\ sess = "in world"
  /\ ~closing_ /\ recv > 0
  /\ recv' = recv - 1
  /\ UNCHANGED <<sockVars, apc, npc, listed, registered, sess, wpc, spc>>

\* Update finds the connection idle, a packet could not be sent, or a command
\* kicks the player: first half of CloseSocket.
Kick ==
  /\ wpc = "sessions"
  /\ sess = "in world"
  /\ ~closing_
  /\ closing_' = TRUE
  /\ wpc' = "kick"
  /\ UNCHANGED <<m_Session, refs, apc, npc, listed, registered, sess, recv, spc>>

KickClear ==
  /\ wpc = "kick"
  /\ m_Session' = FALSE
  /\ wpc' = "sessions"
  /\ UNCHANGED <<closing_, refs, apc, npc, listed, registered, sess, recv, spc>>

\* Mutant: Update returns true as long as packets are waiting.
RemoveClosedWhenDrained ==
  /\ wpc = "sessions"
  /\ sess = "in world"
  /\ closing_ /\ recv = 0
  /\ sess' = "deleted"
  /\ refs' = refs - 1
  /\ UNCHANGED <<closing_, m_Session, apc, npc, listed, registered, recv, wpc, spc>>

\* Update cleans up the pointer to a closed socket and returns false; the
\* destructor has nothing more to close and empties _recvQueue.
RemoveClosed ==
  /\ wpc = "sessions"
  /\ sess = "in world"
  /\ closing_
  /\ sess' = "deleted"
  /\ refs' = refs - 1
  /\ recv' = 0
  /\ UNCHANGED <<closing_, m_Session, apc, npc, listed, registered, wpc, spc>>

\* Mutant: the session is deleted, but its socket not closed first.
DestroyOpen ==
  /\ wpc = "sessions"
  /\ sess \in {"added", "in world"}
  /\ wpc' = "delete"
  /\ UNCHANGED <<sockVars, apc, npc, listed, registered, sess, recv, spc>>

\* Mutant: the destructor drops its reference before it closes the socket.
DestroyDropsFirst ==
  /\ wpc = "sessions"
  /\ sess \in {"added", "in world"}
  /\ wpc' = "destroy"
  /\ sess' = "deleted"
  /\ recv' = 0
  /\ refs' = refs - 1
  /\ UNCHANGED <<closing_, m_Session, apc, npc, listed, registered, spc>>

\* AddSession_ rejects the session, or a newer one of the account replaces it:
\* KickPlayer and the destructor call CloseSocket.
Destroy ==
  /\ wpc = "sessions"
  /\ sess \in {"added", "in world"}
  /\ wpc' = IF closing_ THEN "delete" ELSE "destroy"
  /\ closing_' = TRUE
  /\ UNCHANGED <<m_Session, refs, apc, npc, listed, registered, sess, recv, spc>>

DestroyClear ==
  /\ wpc = "destroy"
  /\ m_Session' = FALSE
  /\ wpc' = "delete"
  /\ UNCHANGED <<closing_, refs, apc, npc, listed, registered, sess, recv, spc>>

DestroySession ==
  /\ wpc = "delete"
  /\ sess' = "deleted"
  /\ refs' = refs - 1
  /\ recv' = 0
  /\ wpc' = "sessions"
  /\ UNCHANGED <<closing_, m_Session, apc, npc, listed, registered, spc>>

\* World::Update goes on to MapManager::Update, which waits for the map threads.
UpdateMaps ==
  /\ wpc = "sessions"
  /\ wpc' = "maps"
  /\ UNCHANGED <<sockVars, apc, npc, listed, registered, sess, recv, spc>>

MapsUpdated ==
  /\ wpc = "maps"
  /\ \A t \in Senders : spc[t] = "idle"
  /\ wpc' = "sessions"
  /\ UNCHANGED <<sockVars, apc, npc, listed, registered, sess, recv, spc>>

\* WorldSession::SendPacket failed: first half of CloseSocket.
SendFails(t) ==
  /\ wpc = "maps"
  /\ spc[t] = "idle"
  /\ sess = "in world"
  /\ ~closing_
  /\ closing_' = TRUE
  /\ spc' = [spc EXCEPT ![t] = "clear"]
  /\ UNCHANGED <<m_Session, refs, apc, npc, listed, registered, sess, recv, wpc>>

SendFailsClear(t) ==
  /\ spc[t] = "clear"
  /\ m_Session' = FALSE
  /\ spc' = [spc EXCEPT ![t] = "idle"]
  /\ UNCHANGED <<closing_, refs, apc, npc, listed, registered, sess, recv, wpc>>

-----------------------------------------------------------------------------

Acceptor == OnSocketOpen \/ RegisterHandler \/ OpenReturns \/ OpenFails

Network ==
  \/ AddNewSockets \/ Sweep \/ SweepClear \/ SweepDrop
  \/ handle_input \/ HandleAuthSession \/ AddSession \/ ReceivePacket \/ InputRefused
  \/ handle_close \/ HandleCloseClear

World ==
  \/ AcceptSession \/ HandleReceived \/ Kick \/ KickClear \/ RemoveClosed
  \/ Destroy \/ DestroyClear \/ DestroySession \/ UpdateMaps \/ MapsUpdated

MapThread(t) == SendFails(t) \/ SendFailsClear(t)

LifeNext == Acceptor \/ Network \/ World \/ \E t \in Senders : MapThread(t)

LifeSpec == LifeInit /\ [][LifeNext]_lifeVars

\* Every thread runs; UpdateSessions visits the session in every turn of the
\* world loop, svc() sweeps the sockets in every turn of its own, and the peer
\* of a socket whose writer is closed closes its end, which wakes the reactor.
Fairness ==
  /\ WF_lifeVars(Acceptor)
  /\ SF_lifeVars(AddNewSockets) /\ SF_lifeVars(closing_ /\ Sweep) /\ SF_lifeVars(closing_ /\ handle_input)
  /\ WF_lifeVars(\/ SweepClear \/ SweepDrop \/ AddSession \/ InputRefused
             \/ handle_close \/ HandleCloseClear)
  /\ WF_lifeVars(KickClear \/ DestroyClear \/ DestroySession \/ MapsUpdated)
  /\ SF_lifeVars(AcceptSession) /\ SF_lifeVars(RemoveClosed)
  /\ \A t \in Senders : WF_lifeVars(SendFailsClear(t))

FairLifeSpec == LifeSpec /\ Fairness

-----------------------------------------------------------------------------
(* Properties                                                               *)

\* When the network thread takes m_SessionLock to hand over a packet, m_Session
\* is NULL or a session that is not deleted, although the world thread deletes
\* sessions without that lock; so nothing gets into the queue of a deleted one.
NoDeletedSessionUsed ==
  /\ LifeTypeOK
  /\ npc \in {"input", "auth"} /\ m_Session => SessionAlive
  /\ sess = "deleted" => recv = 0

\* The reference count is the number of holders: the acceptor, the sets of the
\* network thread, the reactor and the session.
RefsExact ==
  refs = Cardinality({h \in {"acceptor", "sockets", "reactor", "session"} :
           \/ h = "acceptor" /\ apc # "done"
           \/ h = "sockets" /\ listed # "none"
           \/ h = "reactor" /\ registered
           \/ h = "session" /\ SessionAlive})

\* No thread is about to touch a WorldSocket that has been deleted.
NoDeletedSocketUsed ==
  \/ npc # "loop" \/ SessionAlive \/ registered \/ listed # "none"
  \/ wpc \in {"kick", "destroy", "delete"} \/ \E t \in Senders : spc[t] = "clear"
  => refs > 0

\* A closing socket is deleted in the end, and its session before it.
ClosedSocketGoes == closing_ ~> (refs = 0 /\ sess \in {"none", "deleted"})
=============================================================================
