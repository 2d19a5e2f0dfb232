------------------------------- MODULE Listener -------------------------------
(***************************************************************************)
(* Listener and Service around GameSessionManager.  The listener owns a few *)
(* accept events; each is with the kernel (AcceptEx is pending) or with the *)
(* thread that handles its completion, which creates a session in Service,  *)
(* lets SessionManager add it, and gives the event back.  A session leaves  *)
(* Service when its OnDisconnected has returned.                            *)
(*                                                                          *)
(* Service's lock protects nothing but its own set, so AddSession and       *)
(* ReleaseSession are one step each; _sessionCount is the size of the set.  *)
(* CreateSession never compares it with _maxSessionCount.  Nothing closes   *)
(* the listener while the worker threads run.                               *)
(***************************************************************************)
EXTENDS SessionManager

CONSTANTS
    Events,                 \* Listener::_acceptEvents
    NoEvent,
    MaxRetries              \* bound: calls of AcceptEx that fail at once

ASSUME NoEventAssumption == NoEvent \notin Events
ASSUME RetriesAssumption == MaxRetries \in Nat

VARIABLES
    pending,                \* events whose AcceptEx is pending
    accepting,              \* the event a thread handles
    stage,                  \* where ProcessAccept is: "none", "attach" before the
                            \* session is registered with the IOCP, "session" in
                            \* OnConnected and RegisterRecv, "register" after them
    creating,               \* the session ProcessAccept has made
    serviced,               \* Service::_sessions
    releasing,              \* the session a thread will release from Service
    retries                 \* calls of AcceptEx that failed so far

listenVars == <<pending, accepting, stage, creating, retries>>
serviceVars == <<serviced, releasing>>
lvars == <<vars, listenVars, serviceVars>>

\* StartAccept has registered every event before there is a worker thread.
LInit ==
    /\ SMInit
    /\ pending = Events
    /\ accepting = [t \in Threads |-> NoEvent]
    /\ stage = [t \in Threads |-> "none"]
    /\ creating = [t \in Threads |-> NoSession]
    /\ serviced = {}
    /\ releasing = [t \in Threads |-> NoSession]
    /\ retries = 0

\* The thread is in no call of SessionManager's.
Idle(t) == Running(t) /\ task[t] = "idle" /\ releasing[t] = NoSession
Fresh(s) == status[s] = "new" /\ s \notin serviced

AcceptStage(t, from, to) ==
    /\ stage[t] = from
    /\ Idle(t)
    /\ stage' = [stage EXCEPT ![t] = to]

TakesEvent(t, e) ==
    /\ e \in pending
    /\ pending' = pending \ {e}
    /\ accepting' = [accepting EXCEPT ![t] = e]

(***************************************************************************)
(* ProcessAccept.                                                           *)
(***************************************************************************)

\* The socket is good: CreateSession, which adds the session to Service.
ProcessAccept(t, e, s) ==
    /\ AcceptStage(t, "none", "attach")
    /\ TakesEvent(t, e)
    /\ Fresh(s)
    /\ creating' = [creating EXCEPT ![t] = s]
    /\ serviced' = serviced \cup {s}
    /\ UNCHANGED <<vars, releasing, retries>>

\* No socket, SetUpdateAcceptSocket or getpeername fails: no session is made.
ProcessAcceptFails(t, e) ==
    /\ AcceptStage(t, "none", "register")
    /\ TakesEvent(t, e)
    /\ UNCHANGED <<vars, creating, serviceVars, retries>>

\* IocpCore::Register succeeds: connected, and OnConnected adds it.
Attach(t) ==
    /\ AcceptStage(t, "attach", "session")
    /\ Accept(t, creating[t])
    /\ creating' = [creating EXCEPT ![t] = NoSession]
    /\ UNCHANGED <<pending, accepting, serviceVars, retries>>

\* Slip: the early return that forgets the event.
AttachFails_Returns(t) ==
    /\ AcceptStage(t, "attach", "none")
    /\ creating' = [creating EXCEPT ![t] = NoSession]
    /\ accepting' = [accepting EXCEPT ![t] = NoEvent]
    /\ serviced' = serviced \ {creating[t]}
    /\ UNCHANGED <<vars, pending, releasing, retries>>

AttachFails(t) ==
    /\ AcceptStage(t, "attach", "register")
    /\ creating' = [creating EXCEPT ![t] = NoSession]
    /\ serviced' = serviced \ {creating[t]}
    /\ UNCHANGED <<vars, pending, accepting, releasing, retries>>

\* OnConnected and RegisterRecv have returned.
SessionStarted(t) ==
    /\ AcceptStage(t, "session", "register")
    /\ UNCHANGED <<vars, pending, accepting, creating, serviceVars, retries>>

RegisterAccept(t) ==
    /\ AcceptStage(t, "register", "none")
    /\ pending' = pending \cup {accepting[t]}
    /\ accepting' = [accepting EXCEPT ![t] = NoEvent]
    /\ UNCHANGED <<vars, creating, serviceVars, retries>>

\* AcceptEx fails at once: RegisterAccept calls itself.
RegisterAcceptRetries(t) ==
    /\ AcceptStage(t, "register", "register")
    /\ retries < MaxRetries
    /\ retries' = retries + 1
    /\ UNCHANGED <<vars, pending, accepting, creating, serviceVars>>

(***************************************************************************)
(* The end of a session: OnDisconnected, then ReleaseSession.               *)
(***************************************************************************)

\* Slip: a session that fails in its first RegisterRecv is not released.
OnDisconnectedEnds_NotInAccept(t) ==
    /\ releasing[t] = NoSession
    /\ Removes(t)
    /\ releasing' = IF stage[t] = "none" THEN [releasing EXCEPT ![t] = target[t]] ELSE releasing
    /\ UNCHANGED <<listenVars, serviced>>

OnDisconnectedEnds(t) ==
    /\ releasing[t] = NoSession
    /\ Removes(t)
    /\ releasing' = [releasing EXCEPT ![t] = target[t]]
    /\ UNCHANGED <<listenVars, serviced>>

ReleaseSession(t) ==
    /\ Running(t)
    /\ releasing[t] # NoSession
    /\ releasing' = [releasing EXCEPT ![t] = NoSession]
    /\ serviced' = serviced \ {releasing[t]}
    /\ UNCHANGED <<vars, listenVars>>

Listens(t) ==
    \/ Attach(t) \/ AttachFails(t) \/ SessionStarted(t) \/ RegisterAccept(t)
    \/ RegisterAcceptRetries(t)
    \/ ReleaseSession(t) \/ OnDisconnectedEnds(t)

\* A thread that accepts handles no other completion before it is done.
Handles(t) ==
    /\ stage[t] = "none" /\ releasing[t] = NoSession
    /\ Starts(t)
    /\ UNCHANGED <<listenVars, serviceVars>>

Manages(t) ==
    /\ releasing[t] = NoSession
    /\ Continues(t)
    /\ UNCHANGED <<listenVars, serviceVars>>

Locks(t) == LockStep(t) /\ UNCHANGED <<listenVars, serviceVars>>

LNext == \E t \in Threads :
    \/ \E e \in Events : \/ ProcessAcceptFails(t, e)
                         \/ \E s \in Sessions : ProcessAccept(t, e, s)
    \/ Listens(t) \/ Handles(t) \/ Manages(t) \/ Locks(t)

\* Threads are run, locks are taken and DisconnectEx completes, as in
\* SessionManager; AcceptEx does not fail for ever.  Completions are taken from
\* the port in the order they came, so accepts, however many there are, do not
\* keep a disconnect waiting for ever: strong fairness.
LFairness ==
    /\ \A t \in Threads : /\ WF_lvars(Listens(t))
                          /\ WF_lvars(Manages(t))
                          /\ WF_lvars(Acquire(t) /\ Locks(t))
    /\ \A s \in Sessions :
          SF_lvars(\E t \in Threads : Handles(t) /\ ProcessDisconnect(t, s))

LSpec == LInit /\ [][LNext]_lvars /\ LFairness

-------------------------------------------------------------------------------

\* Every variable has its type.
LTypeOK ==
    /\ SMTypeOK
    /\ pending \subseteq Events
    /\ accepting \in [Threads -> Events \cup {NoEvent}]
    /\ stage \in [Threads -> {"none", "attach", "session", "register"}]
    /\ creating \in [Threads -> Sessions \cup {NoSession}]
    /\ serviced \subseteq Sessions
    /\ releasing \in [Threads -> Sessions \cup {NoSession}]
    /\ retries \in 0..MaxRetries

\* No path through ProcessAccept and its failures loses an accept event or
\* gives it away twice: the kernel has it, or one thread.
EventHasOneOwner ==
    \A e \in Events :
        Cardinality({t \in Threads : accepting[t] = e}) = IF e \in pending THEN 0 ELSE 1

\* PLAN.md:42: after an accept, RegisterAccept again.  The listener is never
\* deaf for good, whatever fails, unless a broadcast waits for itself.
AcceptComesBack ==
    \A e \in Events : e \notin pending ~> (e \in pending \/ WaitsForever)

\* A session that somebody holds and that is not connected becomes connected or
\* leaves both sets that hold it, unless a broadcast waits for itself: whether it
\* was closed, on whatever path and thread, or never registered with the IOCP.
UnconnectedIsReleased ==
    \A s \in Sessions :
        (s \in sessions \cup serviced /\ ~Connected(s))
            ~> (Connected(s) \/ s \notin sessions \cup serviced \/ WaitsForever)

===============================================================================
