----------------------------- MODULE SessionManager -----------------------------
(***************************************************************************)
(* GameSessionManager over its Lock: the set of sessions every worker       *)
(* thread adds to (Listener::ProcessAccept -> OnConnected), removes from    *)
(* (OnDisconnected) and iterates over (BroadcastToAll, the room list).  The *)
(* lock operations are RWLock's; this module says what each thread does     *)
(* between them, and composes them with the part of Session::Send and       *)
(* Session::Disconnect that can call back into the manager.                 *)
(***************************************************************************)
EXTENDS RWLock

CONSTANTS
    Sessions,               \* the connections that may be accepted
    NoSession,
    MaxBroadcasts           \* bound: calls of BroadcastToAll

ASSUME NoSessionAssumption == NoSession \notin Sessions
ASSUME BroadcastsAssumption == MaxBroadcasts \in Nat

VARIABLES
    sessions,               \* GameSessionManager::_sessions
    status,                 \* "new", "accepted", "receiving" or "closed", per session:
                            \* _connected is TRUE in the middle two
    closing,                \* sessions whose DisconnectEx completion is pending
    task,                   \* what each thread is doing
    target,                 \* the session a thread adds or removes
    cursor,                 \* the sessions a broadcast has not reached yet
    broadcasts              \* calls of BroadcastToAll so far

vars == <<lockVars, sessions, status, closing, task, target, cursor, broadcasts>>

Connected(s) == status[s] \in {"accepted", "receiving"}

SMInit ==
    /\ Init
    /\ sessions = {}
    /\ status = [s \in Sessions |-> "new"]
    /\ closing = {}
    /\ task = [t \in Threads |-> "idle"]
    /\ target = [t \in Threads |-> NoSession]
    /\ cursor = [t \in Threads |-> {}]
    /\ broadcasts = 0

Begin(t, from, to, s) ==
    /\ task[t] = from
    /\ Running(t)
    /\ task' = [task EXCEPT ![t] = to]
    /\ target' = [target EXCEPT ![t] = s]

(***************************************************************************)
(* Accepting: connected, Add under WRITE_LOCK, and only then RegisterRecv.  *)
(***************************************************************************)

\* Slips: the receive is registered before OnConnected is called; OnConnected
\* adds a reference that was not set yet.
Accept_ReceivesFirst(t, s) ==
    /\ Begin(t, "idle", "add", s)
    /\ status[s] = "new"
    /\ status' = [status EXCEPT ![s] = "receiving"]
    /\ WriteLock(t)
    /\ UNCHANGED <<sessions, closing, cursor, broadcasts>>

Accept_NullReference(t, s) ==
    /\ Begin(t, "idle", "add", NoSession)
    /\ status[s] = "new"
    /\ status' = [status EXCEPT ![s] = "accepted"]
    /\ WriteLock(t)
    /\ UNCHANGED <<sessions, closing, cursor, broadcasts>>

Accept(t, s) ==
    /\ Begin(t, "idle", "add", s)
    /\ status[s] = "new"
    /\ status' = [status EXCEPT ![s] = "accepted"]
    /\ WriteLock(t)
    /\ UNCHANGED <<sessions, closing, cursor, broadcasts>>

AddInsert(t) ==
    /\ Begin(t, "add", "added", target[t])
    /\ Innermost(t, "W")
    /\ sessions' = sessions \cup {target[t]}
    /\ WriteUnlock(t)
    /\ UNCHANGED <<status, closing, cursor, broadcasts>>

\* RegisterRecv returns at once when the session is no longer connected.
AddReceive(t) ==
    /\ Begin(t, "added", "idle", NoSession)
    /\ LET s == target[t] IN
       status' = IF Connected(s) THEN [status EXCEPT ![s] = "receiving"] ELSE status
    /\ UNCHANGED <<lockVars, sessions, closing, cursor, broadcasts>>

\* WSARecv fails, and HandleError only logs it.
AddReceiveFails(t) ==
    /\ Begin(t, "added", "idle", NoSession)
    /\ Connected(target[t])
    /\ UNCHANGED <<lockVars, sessions, status, closing, cursor, broadcasts>>

(***************************************************************************)
(* Disconnecting: _connected.exchange(false), then DisconnectEx.  When that *)
(* is pending, its completion removes the session on some thread; when it   *)
(* fails at once, OnDisconnected runs on the caller's thread.               *)
(***************************************************************************)

DisconnectLater(s) ==
    /\ status' = [status EXCEPT ![s] = "closed"]
    /\ closing' = closing \cup {s}

\* Remove begins: WRITE_LOCK.
RemoveNow(t, from, to, s) ==
    /\ Begin(t, from, to, s)
    /\ WriteLock(t)
    /\ UNCHANGED <<sessions, broadcasts>>

\* A receive ends with no bytes or with an error.
PeerCloses(t, s) ==
    /\ task[t] = "idle" /\ Running(t)
    /\ status[s] = "receiving"
    /\ DisconnectLater(s)
    /\ UNCHANGED <<lockVars, sessions, task, target, cursor, broadcasts>>

PeerResets(t, s) ==
    /\ status[s] = "receiving"
    /\ status' = [status EXCEPT ![s] = "closed"]
    /\ RemoveNow(t, "idle", "remove", s)
    /\ UNCHANGED <<closing, cursor>>

ProcessDisconnect(t, s) ==
    /\ s \in closing
    /\ closing' = closing \ {s}
    /\ RemoveNow(t, "idle", "remove", s)
    /\ UNCHANGED <<status, cursor>>

\* Slip: the session is erased before the lock is taken.
RemoveErase_Unlocked(t, from, to) ==
    /\ task[t] = from
    /\ pc[t] = "spinWrite" /\ crash = "none"
    /\ target[t] \in sessions
    /\ sessions' = sessions \ {target[t]}
    /\ UNCHANGED <<lockVars, task, target, status, closing, cursor, broadcasts>>

\* The erase, and the end of Remove.
RemoveErase(t, from, to) ==
    /\ Begin(t, from, to, NoSession)
    /\ Innermost(t, "W")
    /\ sessions' = sessions \ {target[t]}
    /\ WriteUnlock(t)
    /\ UNCHANGED <<status, closing, cursor, broadcasts>>

\* The WSARecv of a new session fails with a reset.
AddReceiveResets(t) ==
    /\ Begin(t, "added", "idle", NoSession)
    /\ Connected(target[t])
    /\ DisconnectLater(target[t])
    /\ UNCHANGED <<lockVars, sessions, cursor, broadcasts>>

AddReceiveResetsTwice(t) ==
    /\ task[t] = "added" /\ Connected(target[t])
    /\ status' = [status EXCEPT ![target[t]] = "closed"]
    /\ RemoveNow(t, "added", "remove", target[t])
    /\ UNCHANGED <<closing, cursor>>

(***************************************************************************)
(* BroadcastToAll: every Send happens under READ_LOCK.                      *)
(***************************************************************************)

Broadcast(t) ==
    /\ Begin(t, "idle", "broadcast", NoSession)
    /\ broadcasts < MaxBroadcasts
    /\ broadcasts' = broadcasts + 1
    /\ ReadLock(t)
    /\ UNCHANGED <<sessions, status, closing, cursor>>

BroadcastLoop(t) ==
    /\ Begin(t, "broadcast", "loop", NoSession)
    /\ cursor' = [cursor EXCEPT ![t] = sessions]
    /\ UNCHANGED <<lockVars, sessions, status, closing, broadcasts>>

Advance(t, s) ==
    /\ Running(t)
    /\ s \in cursor[t]
    /\ cursor' = [cursor EXCEPT ![t] = cursor[t] \ {s}]

\* Send returns: the session is not connected, or the buffer is on its way.
SendDone(t, s) ==
    /\ task[t] = "loop"
    /\ Advance(t, s)
    /\ UNCHANGED <<lockVars, sessions, status, closing, task, target, broadcasts>>

\* WSASend fails with WSAECONNRESET or WSAECONNABORTED: HandleError
\* disconnects, and DisconnectEx is pending.
SendFails(t, s) ==
    /\ task[t] = "loop"
    /\ Advance(t, s)
    /\ Connected(s)
    /\ DisconnectLater(s)
    /\ UNCHANGED <<lockVars, sessions, task, target, broadcasts>>

\* WSASend fails and DisconnectEx fails too (Session.cpp:77-84).
SendFailsTwice(t, s) ==
    /\ Advance(t, s)
    /\ Connected(s)
    /\ status' = [status EXCEPT ![s] = "closed"]
    /\ RemoveNow(t, "loop", "cleanup", s)
    /\ UNCHANGED closing

\* Slip: the read lock is not released.
BroadcastEnd_KeepsLock(t) ==
    /\ Begin(t, "loop", "idle", NoSession)
    /\ cursor[t] = {}
    /\ UNCHANGED <<lockVars, sessions, status, closing, cursor, broadcasts>>

BroadcastEnd(t) ==
    /\ Begin(t, "loop", "idle", NoSession)
    /\ cursor[t] = {}
    /\ ReadUnlock(t)
    /\ UNCHANGED <<sessions, status, closing, cursor, broadcasts>>

\* Every critical section here is short next to ACQUIRE_TIMEOUT_TICK (10 s):
\* a wait lasts so long only when some thread waits for itself.
WaitsForever == \E t \in Threads : Upgrading(t)

LockStep(t) ==
    /\ Acquire(t) \/ (WaitsForever /\ Timeout(t))
    /\ UNCHANGED <<sessions, status, closing, task, target, cursor, broadcasts>>

\* What the kernel or a room makes an idle thread do.
Starts(t) ==
    \/ \E s \in Sessions : PeerCloses(t, s) \/ PeerResets(t, s) \/ ProcessDisconnect(t, s)
    \/ Broadcast(t)

\* What a thread does once it is in the manager.
Removes(t) == RemoveErase(t, "remove", "idle") \/ RemoveErase(t, "cleanup", "loop")
Continues(t) ==
    \/ AddInsert(t) \/ AddReceive(t)
    \/ AddReceiveFails(t) \/ AddReceiveResets(t) \/ AddReceiveResetsTwice(t)
    \/ BroadcastLoop(t) \/ BroadcastEnd(t)
    \/ \E s \in Sessions : SendDone(t, s) \/ SendFails(t, s) \/ SendFailsTwice(t, s)
Proceed(t) == Removes(t) \/ Continues(t)

SMNext == \E t \in Threads :
    \/ \E s \in Sessions : Accept(t, s)
    \/ Starts(t) \/ Proceed(t) \/ LockStep(t)

\* A thread in the manager is run, a spin for a free lock succeeds, and the
\* completion of DisconnectEx is delivered.  Nothing is asked of the peers.
SMFairness ==
    /\ \A t \in Threads : /\ WF_vars(Proceed(t))
                          /\ WF_vars(Acquire(t) /\ LockStep(t))
    /\ \A s \in Sessions : WF_vars(\E t \in Threads : ProcessDisconnect(t, s))

SMSpec == SMInit /\ [][SMNext]_vars /\ SMFairness

-------------------------------------------------------------------------------

\* Every variable has its type.
SMTypeOK ==
    /\ TypeOK
    /\ sessions \subseteq Sessions
    /\ status \in [Sessions -> {"new", "accepted", "receiving", "closed"}]
    /\ closing \subseteq Sessions
    /\ task \in [Threads -> {"idle", "add", "added", "remove", "broadcast", "loop", "cleanup"}]
    /\ target \in [Threads -> Sessions \cup {NoSession}]
    /\ cursor \in [Threads -> SUBSET Sessions]
    /\ broadcasts \in 0..MaxBroadcasts

\* While a thread iterates over _sessions nothing is inserted or erased, by
\* whatever Send calls back into: no iterator is ever left dangling.
IterationUndisturbed ==
    [][(\E t \in Threads : task[t] \in {"loop", "cleanup"}) => UNCHANGED sessions]_vars

\* A closed session is listed only while someone is on the way to erase it:
\* Add always comes before the event that can close the session.
ClosedIsOnItsWayOut ==
    \A s \in sessions :
        status[s] = "closed" =>
            s \in closing \/ \E t \in Threads : target[t] = s /\ task[t] \in {"remove", "cleanup"}

\* Session.cpp:79: when DisconnectEx fails at once, the session is cleaned up
\* directly.  So a closed session is removed, however it was closed.
ClosedIsRemoved ==
    \A s \in Sessions : (s \in sessions /\ status[s] = "closed") ~> s \notin sessions

===============================================================================
