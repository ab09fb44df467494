---------------------------- MODULE WorldSessions ----------------------------
(***************************************************************************)
(* The session map of the world and its login queue.  Network threads      *)
(* create a WorldSession when a client has authenticated and hand it to    *)
(* the world thread through addSessQueue; connections may drop at any      *)
(* time.  The world thread alone changes m_sessions and m_QueuedPlayer, in *)
(* World::UpdateSessions: it adds the new sessions, then updates every     *)
(* session and deletes those whose socket is closed.  When PlayerLimit     *)
(* sessions are in the world, a player account waits in m_QueuedPlayer.    *)
(***************************************************************************)
EXTENDS Naturals, FiniteSets, SequencesExt

CONSTANTS
  Accounts,
  Staff,      \* accounts for which AccountMgr::IsPlayerAccount is false
  Sess,       \* WorldSession objects; the bound on those alive at a time
  None,       \* no session
  Limits,     \* values PlayerLimit is set to
  Tolerance   \* CONFIG_INTERVAL_DISCONNECT_TOLERANCE is not 0

ASSUME SessionsAssumption ==
  /\ Staff \subseteq Accounts
  /\ None \notin Sess
  /\ Limits \subseteq Nat
  /\ Tolerance \in BOOLEAN

VARIABLES
  alive,          \* WorldSession objects not yet deleted
  account,        \* _accountId of a session that is alive
  closed,         \* m_Socket is closing
  loading,        \* m_playerLoading
  m_inQueue,
  addSessQueue,   \* authenticated sessions the world has not taken yet
  m_sessions,     \* the session of each account, or None
  m_QueuedPlayer, \* sessions waiting for a place
  m_disconnects,  \* accounts with an entry in m_disconnects
  m_playerLimit,
  phase,          \* where the world thread is
  stopping,       \* KickAll has been called
  todo            \* sessions UpdateSessions has not updated yet

netVars == <<account, addSessQueue>>
vars == <<alive, account, closed, loading, m_inQueue, addSessQueue, m_sessions,
          m_QueuedPlayer, m_disconnects, m_playerLimit, phase, stopping, todo>>

Elements(q) == {q[k] : k \in 1..Len(q)}

Listed == {m_sessions[a] : a \in Accounts} \ {None}
Queued == Elements(m_QueuedPlayer)
InWorld == Listed \ Queued

\* GetActiveAndQueuedSessionCount
SessionCount == Cardinality({a \in Accounts : m_sessions[a] # None})

TypeOK ==
  /\ alive \subseteq Sess
  /\ account \in [Sess -> Accounts \cup {None}]
  /\ closed \in [Sess -> BOOLEAN]
  /\ loading \in [Sess -> BOOLEAN]
  /\ m_inQueue \in [Sess -> BOOLEAN]
  /\ addSessQueue \in Seq(Sess)
  /\ m_sessions \in [Accounts -> Sess \cup {None}]
  /\ m_QueuedPlayer \in Seq(Sess)
  /\ m_disconnects \subseteq Accounts
  /\ m_playerLimit \in Limits
  /\ phase \in {"idle", "add", "update", "stopped"}
  /\ stopping \in BOOLEAN
  /\ todo \subseteq Sess

Init ==
  /\ alive = {}
  /\ account = [s \in Sess |-> None]
  /\ closed = [s \in Sess |-> FALSE]
  /\ loading = [s \in Sess |-> FALSE]
  /\ m_inQueue = [s \in Sess |-> FALSE]
  /\ addSessQueue = <<>>
  /\ m_sessions = [a \in Accounts |-> None]
  /\ m_QueuedPlayer = <<>>
  /\ m_disconnects = {}
  /\ m_playerLimit \in Limits
  /\ phase = "idle"
  /\ stopping = FALSE
  /\ todo = {}

-----------------------------------------------------------------------------
(* Network threads                                                          *)

\* WorldSocket::HandleAuthSession creates the session and World::AddSession
\* queues it; the network is stopped once the last UpdateSessions is over.
HandleAuthSession(a) ==
  LET s == CHOOSE x \in Sess : x \notin alive IN
  /\ phase # "stopped"
  /\ alive # Sess
  /\ alive' = alive \cup {s}
  /\ account' = [account EXCEPT ![s] = a]
  /\ m_inQueue' = [m_inQueue EXCEPT ![s] = FALSE]
  /\ addSessQueue' = Append(addSessQueue, s)
  /\ UNCHANGED <<closed, loading, m_sessions, m_QueuedPlayer, m_disconnects,
                 m_playerLimit, phase, stopping, todo>>

\* The connection drops, or the session is kicked (WorldSocket::CloseSocket).
CloseSocket(s) ==
  /\ s \in alive
  /\ ~closed[s]
  /\ closed' = [closed EXCEPT ![s] = TRUE]
  /\ UNCHANGED <<alive, netVars, loading, m_inQueue, m_sessions, m_QueuedPlayer,
                 m_disconnects, m_playerLimit, phase, stopping, todo>>

-----------------------------------------------------------------------------
(* The login queue                                                          *)

\* Mutant: the place of a leaving session is not given back.
RemoveQueuedPlayerKeepsPlace(q, count, s) ==
  LET rest == RemoveFirst(q, s)
  IN  IF (m_playerLimit = 0 \/ count - Len(q) < m_playerLimit) /\ rest # <<>>
        THEN Tail(rest)
        ELSE rest

\* Mutant: one place too many.
RemoveQueuedPlayerOffByOne(q, count, s) ==
  LET found == s \in Elements(q)
      active == count - Len(q)
      rest == RemoveFirst(q, s)
      sessions == IF ~found /\ active > 0 THEN active - 1 ELSE active
  IN  IF (m_playerLimit = 0 \/ sessions <= m_playerLimit) /\ rest # <<>>
        THEN Tail(rest)
        ELSE rest

\* Mutant: the last of the queue is let in.
RemoveQueuedPlayerBack(q, count, s) ==
  LET found == s \in Elements(q)
      active == count - Len(q)
      rest == RemoveFirst(q, s)
      sessions == IF ~found /\ active > 0 THEN active - 1 ELSE active
  IN  IF (m_playerLimit = 0 \/ sessions < m_playerLimit) /\ rest # <<>>
        THEN SubSeq(rest, 1, Len(rest) - 1)
        ELSE rest

\* What RemoveQueuedPlayer(s) leaves of the queue q, with count sessions listed:
\* s goes, and the first one waiting is let in if there is a place.  A session
\* that was not queued is about to leave its own place.
RemoveQueuedPlayer(q, count, s) ==
  LET found == s \in Elements(q)
      active == count - Len(q)
      rest == RemoveFirst(q, s)
      sessions == IF ~found /\ active > 0 THEN active - 1 ELSE active
  IN  IF (m_playerLimit = 0 \/ sessions < m_playerLimit) /\ rest # <<>>
        THEN Tail(rest)
        ELSE rest

\* Mutant: the session let in keeps m_inQueue.
SetInQueueOnly(q) == [s \in Sess |-> m_inQueue[s] \/ s \in Elements(q)]

\* m_inQueue of the sessions that leave or enter the queue.
SetInQueue(q) ==
  [s \in Sess |-> IF s \in Queued \cup Elements(q) THEN s \in Elements(q) ELSE m_inQueue[s]]

\* difftime(i->second, time(NULL)) is never positive, so that an entry counts
\* as recent for ever.
HasRecentlyDisconnected(a) == Tolerance /\ a \in m_disconnects

\* RemoveSession refuses: the account's session is loading its character.
RejectSession(s) ==
  LET old == m_sessions[account[s]] IN
  /\ old # None
  /\ loading[old]
  /\ alive' = alive \ {s}
  /\ closed' = [closed EXCEPT ![s] = FALSE]
  /\ UNCHANGED <<m_inQueue, m_sessions, m_QueuedPlayer>>

\* Mutant: the replaced session is kicked and never deleted.
ReplaceSessionLeaks(s) ==
  LET a == account[s]
      old == m_sessions[a]
  IN
  /\ old # None => ~loading[old]
  /\ m_sessions' = [m_sessions EXCEPT ![a] = s]
  /\ closed' = [x \in Sess |-> closed[x] \/ x = old]
  /\ UNCHANGED <<alive, m_QueuedPlayer, m_inQueue>>

\* The old session of the account, if any, is kicked, dequeued and deleted.
ReplaceSession(s) ==
  LET a == account[s]
      old == m_sessions[a]
      rest == IF old = None THEN m_QueuedPlayer
                            ELSE RemoveQueuedPlayer(m_QueuedPlayer, SessionCount, old)
      count == IF old = None THEN SessionCount + 1 ELSE SessionCount
      others == IF old \in Queued THEN count ELSE count - 1
      wait == /\ m_playerLimit > 0
              /\ others >= m_playerLimit
              /\ a \notin Staff
              /\ ~HasRecentlyDisconnected(a)
  IN
  /\ old # None => ~loading[old]
  /\ m_sessions' = [m_sessions EXCEPT ![a] = s]
  /\ alive' = alive \ {old}
  /\ closed' = [x \in Sess |-> closed[x] /\ x # old]
  /\ m_QueuedPlayer' = IF wait THEN Append(rest, s) ELSE rest
  /\ m_inQueue' = SetInQueue(m_QueuedPlayer')

-----------------------------------------------------------------------------
(* The world thread                                                         *)

BeginUpdateSessions ==
  /\ phase = "idle"
  /\ phase' = "add"
  /\ UNCHANGED <<alive, netVars, closed, loading, m_inQueue, m_sessions,
                 m_QueuedPlayer, m_disconnects, m_playerLimit, stopping, todo>>

AddSession_ ==
  /\ phase = "add"
  /\ addSessQueue # <<>>
  /\ RejectSession(Head(addSessQueue)) \/ ReplaceSession(Head(addSessQueue))
  /\ addSessQueue' = Tail(addSessQueue)
  /\ account' = [s \in Sess |-> IF s \in alive' THEN account[s] ELSE None]
  /\ UNCHANGED <<loading, m_disconnects, m_playerLimit, phase, stopping, todo>>

EndAdd ==
  /\ phase = "add"
  /\ addSessQueue = <<>>
  /\ phase' = "update"
  /\ todo' = Listed
  /\ UNCHANGED <<alive, netVars, closed, loading, m_inQueue, m_sessions,
                 m_QueuedPlayer, m_disconnects, m_playerLimit, stopping>>

\* Mutant: Update returns true for a session that is loading, socket or not.
KeepSessionLoading(s) ==
  /\ phase = "update"
  /\ s \in todo
  /\ ~closed[s] \/ loading[s]
  /\ \/ ~m_inQueue[s] /\ loading' = [loading EXCEPT ![s] = ~loading[s]]
     \/ UNCHANGED loading
  /\ todo' = todo \ {s}
  /\ UNCHANGED <<alive, netVars, closed, m_inQueue, m_sessions, m_QueuedPlayer,
                 m_disconnects, m_playerLimit, phase, stopping>>

\* WorldSession::Update returns true: it may begin to load a character, which
\* STATUS_AUTHED allows only outside the queue, or finish loading it.
KeepSession(s) ==
  /\ phase = "update"
  /\ s \in todo
  /\ ~closed[s]
  /\ \/ ~m_inQueue[s] /\ loading' = [loading EXCEPT ![s] = ~loading[s]]
     \/ UNCHANGED loading
  /\ todo' = todo \ {s}
  /\ UNCHANGED <<alive, netVars, closed, m_inQueue, m_sessions, m_QueuedPlayer,
                 m_disconnects, m_playerLimit, phase, stopping>>

\* WorldSession::Update returns false: the socket is closed, or is closed now
\* because the connection was idle outside the queue.
DropSession(s) ==
  LET a == account[s]
      once == RemoveQueuedPlayer(m_QueuedPlayer, SessionCount, s)
      twice == RemoveQueuedPlayer(once, SessionCount, s)
  IN
  /\ phase = "update"
  /\ s \in todo
  /\ closed[s] \/ ~m_inQueue[s]
  /\ m_QueuedPlayer' = twice
  /\ m_inQueue' = SetInQueue(twice)
  /\ m_disconnects' = IF s \notin Queued /\ Tolerance THEN m_disconnects \cup {a} ELSE m_disconnects
  /\ m_sessions' = [m_sessions EXCEPT ![a] = None]
  /\ alive' = alive \ {s}
  /\ closed' = [closed EXCEPT ![s] = FALSE]
  /\ loading' = [loading EXCEPT ![s] = FALSE]
  /\ account' = [account EXCEPT ![s] = None]
  /\ todo' = todo \ {s}
  /\ UNCHANGED <<addSessQueue, m_playerLimit, phase, stopping>>

EndUpdateSessions ==
  /\ phase = "update"
  /\ todo = {}
  /\ phase' = IF stopping THEN "stopped" ELSE "idle"
  /\ UNCHANGED <<alive, netVars, closed, loading, m_inQueue, m_sessions,
                 m_QueuedPlayer, m_disconnects, m_playerLimit, stopping, todo>>

\* A console command or a reload of the configuration.
SetPlayerAmountLimit(l) ==
  /\ phase = "idle"
  /\ l # m_playerLimit
  /\ m_playerLimit' = l
  /\ UNCHANGED <<alive, netVars, closed, loading, m_inQueue, m_sessions,
                 m_QueuedPlayer, m_disconnects, phase, stopping, todo>>

\* WorldRunnable::run has left its loop; a last UpdateSessions follows.
KickAll ==
  /\ phase = "idle"
  /\ m_QueuedPlayer' = <<>>
  /\ closed' = [s \in Sess |-> closed[s] \/ s \in Listed]
  /\ stopping' = TRUE
  /\ phase' = "add"
  /\ UNCHANGED <<alive, netVars, loading, m_inQueue, m_sessions, m_disconnects,
                 m_playerLimit, todo>>

Stopped == phase = "stopped" /\ UNCHANGED vars

-----------------------------------------------------------------------------

Network == (\E s \in Sess : CloseSocket(s)) \/ (\E a \in Accounts : HandleAuthSession(a))

UpdateSessions ==
  \/ BeginUpdateSessions \/ AddSession_ \/ EndAdd \/ EndUpdateSessions
  \/ \E s \in Sess : KeepSession(s) \/ DropSession(s)

Next == Network \/ UpdateSessions \/ KickAll \/ Stopped \/ \E l \in Limits : SetPlayerAmountLimit(l)

Spec == Init /\ [][Next]_vars

\* The world thread keeps running its loop.
Fairness == WF_vars(UpdateSessions) /\ SF_vars(EndAdd)

\* A network thread sleeps CONFIG_SESSION_ADD_DELAY before each AddSession, so
\* that the world thread catches up with addSessQueue again and again.
Throttled == []<>(addSessQueue = <<>>)

FairSpec == Spec /\ Fairness /\ Throttled

-----------------------------------------------------------------------------
(* Properties                                                               *)

\* m_QueuedPlayer holds each waiting session once and never a deleted or
\* replaced one, and until KickAll a session has m_inQueue exactly while it waits.
QueueSound ==
  /\ \A j, k \in 1..Len(m_QueuedPlayer) : j # k => m_QueuedPlayer[j] # m_QueuedPlayer[k]
  /\ Queued \subseteq Listed \cap alive
  /\ ~stopping => \A s \in Listed : m_inQueue[s] <=> s \in Queued

\* Each account has one session, alive, and a session waits in addSessQueue or
\* is listed, never both: no WorldSession is deleted twice or leaked.
SessionsOwned ==
  /\ TypeOK
  /\ Listed \cup Elements(addSessQueue) = alive
  /\ Listed \cap Elements(addSessQueue) = {}
  /\ \A a \in Accounts : m_sessions[a] # None => account[m_sessions[a]] = a

\* The places left, when a limit is set.
FreePlaces == IF Cardinality(InWorld) < m_playerLimit
                THEN m_playerLimit - Cardinality(InWorld) ELSE 0

\* Players above the limit, which a lowered limit leaves in the world.
Excess == LET players == Cardinality({s \in InWorld : account[s] \notin Staff})
          IN  IF players > m_playerLimit THEN players - m_playerLimit ELSE 0

\* Nobody is kept waiting by a place that falls free: while somebody waits, only
\* a change of the limit adds to the free places.  The two calls of
\* RemoveQueuedPlayer for a leaving session do not let in too few.
NoFreePlaceWhileWaiting ==
  [][(m_QueuedPlayer' # <<>> /\ m_playerLimit' = m_playerLimit)
       => FreePlaces' <= FreePlaces]_vars

\* "Maximum number of players in the world. Excluding Mods, GMs and Admins.": when
\* nobody is let in as recently disconnected, only a change of the limit brings
\* more players over it, however sessions are replaced, dropped and let in.
LimitKept ==
  [][(m_playerLimit > 0 /\ m_playerLimit' = m_playerLimit /\ m_disconnects = {} /\ ~stopping')
       => Excess' <= Excess]_vars

\* Only the first of the queue is let in: whoever waits in front of a session
\* that enters the world has entered too, or left.
FirstComeFirstServed ==
  [][\A j, k \in 1..Len(m_QueuedPlayer) :
       (j < k /\ m_QueuedPlayer[k] \in InWorld') => m_QueuedPlayer[j] \notin Queued']_vars

\* A session whose socket is closed is deleted, whatever state it is in.
ClosedSessionsGo ==
  \A s \in Sess : (s \in alive /\ closed[s]) ~> (s \notin alive \/ phase = "stopped")
=============================================================================
