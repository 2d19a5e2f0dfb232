-------------------------------- MODULE Session --------------------------------
(***************************************************************************)
(* ServerCore/Session.cpp: what any number of threads that call Send, the   *)
(* completions of WSASend and of WSARecv, and Disconnect do to one session. *)
(* A session of a server begins when it was accepted (Listener); one of a   *)
(* client begins with ClientService::Start.  A completion is handled by any *)
(* thread that is idle.  The connect and the receives form a chain with one *)
(* thread at a time in it, which is the actor Receiver here; what arrives   *)
(* is RecvBuffer's subject.  A send buffer is its number in the order of    *)
(* the pushes.                                                              *)
(***************************************************************************)
EXTENDS Integers, Sequences, FiniteSets

CONSTANTS
    Threads,                \* threads that send and handle completions
    Receiver,               \* whichever thread handles the session's receive
    MaxSends                \* bound: calls of Send

ASSUME ReceiverAssumption == Receiver \notin Threads
ASSUME SendsAssumption == MaxSends \in Nat

VARIABLES
    connected,              \* _connected
    queue,                  \* _sendQueue
    sendRegistered,         \* _sendRegistered
    event,                  \* _sendEvent.sendBuffers
    posted,                 \* the kernel has the send event
    wire,                   \* the buffers that WSASend accepted, in order
    sends, pushed,          \* calls of Send, and pushes, so far
    failed,                 \* ConnectEx failed, which nobody looks at; a WSASend
                            \* or a WSARecv failed with an error that HandleError
                            \* only logs
    disconnecting,          \* the kernel has the disconnect event
    notified,               \* calls of OnDisconnected
    pc, ret                 \* where each actor is, and where Disconnect returns

sendVars == <<queue, sendRegistered, event, posted, wire, sends, pushed>>
closeVars == <<connected, disconnecting, notified, ret>>
vars == <<sendVars, closeVars, failed, pc>>

Actors == Threads \cup {Receiver}

Init ==
    /\ \/ connected = TRUE  /\ pc = [a \in Actors |-> IF a = Receiver THEN "register" ELSE "idle"]
       \/ connected = FALSE /\ pc = [a \in Actors |-> IF a = Receiver THEN "new" ELSE "idle"]
    /\ queue = <<>> /\ event = <<>> /\ wire = <<>>
    /\ sendRegistered = FALSE
    /\ posted = FALSE
    /\ sends = 0 /\ pushed = 0
    /\ failed = [connect |-> FALSE, send |-> FALSE, recv |-> FALSE]
    /\ disconnecting = FALSE
    /\ notified = 0
    /\ ret = [a \in Actors |-> "idle"]

At(a, from)   == pc[a] = from
GoTo(a, to)   == pc' = [pc EXCEPT ![a] = to]
Step(a, from, to) == At(a, from) /\ GoTo(a, to)

(***************************************************************************)
(* Connect, of a client.                                                    *)
(***************************************************************************)

\* ConnectEx is pending.
RegisterConnect ==
    /\ Step(Receiver, "new", "connecting")
    /\ UNCHANGED <<sendVars, closeVars, failed>>

\* No socket, or ConnectEx fails at once: Start releases the session.
RegisterConnectFails ==
    /\ Step(Receiver, "new", "refused")
    /\ UNCHANGED <<sendVars, closeVars, failed>>

\* The result of the connect is not looked at.  OnConnected may send, as any
\* thread may.
ProcessConnect ==
    /\ Step(Receiver, "connecting", "register")
    /\ connected' = TRUE
    /\ \E error \in BOOLEAN : failed' = [failed EXCEPT !.connect = error]
    /\ UNCHANGED <<sendVars, disconnecting, notified, ret>>

(***************************************************************************)
(* Disconnect.                                                              *)
(***************************************************************************)

\* Slips: _connected is not exchanged but stored; the thread does not return.
Disconnect_Stores(a, next) ==
    /\ connected' = FALSE
    /\ ret' = [ret EXCEPT ![a] = next]
    /\ GoTo(a, "close")
Disconnect_Ends(a, next) ==
    /\ connected' = FALSE
    /\ ret' = [ret EXCEPT ![a] = "none"]
    /\ GoTo(a, IF connected THEN "close" ELSE next)

\* Only the thread that finds _connected TRUE goes on to RegisterDisconnect.
Disconnect(a, next) ==
    /\ connected' = FALSE
    /\ IF connected
       THEN ret' = [ret EXCEPT ![a] = next] /\ GoTo(a, "close")
       ELSE GoTo(a, next) /\ UNCHANGED ret

\* DisconnectEx is pending.
RegisterDisconnect(a) ==
    /\ Step(a, "close", ret[a])
    /\ disconnecting' = TRUE
    /\ UNCHANGED <<sendVars, connected, notified, ret, failed>>

\* Slip: nothing is cleaned up when DisconnectEx fails at once.
DisconnectDirectly_Silent(a) ==
    /\ Step(a, "close", ret[a])
    /\ UNCHANGED <<sendVars, closeVars, failed>>

\* DisconnectEx failed: OnDisconnected is called here.
DisconnectDirectly(a) ==
    /\ Step(a, "close", ret[a])
    /\ notified' = notified + 1
    /\ UNCHANGED <<sendVars, connected, disconnecting, ret, failed>>

ProcessDisconnect(t) ==
    /\ At(t, "idle")
    /\ disconnecting
    /\ disconnecting' = FALSE
    /\ notified' = notified + 1
    /\ UNCHANGED <<sendVars, connected, ret, failed, pc>>

(***************************************************************************)
(* Send and RegisterSend.                                                   *)
(***************************************************************************)

Send(t) ==
    /\ sends < MaxSends
    /\ connected
    /\ Step(t, "idle", "push")
    /\ sends' = sends + 1
    /\ UNCHANGED <<queue, sendRegistered, event, posted, wire, pushed, closeVars, failed>>

\* Slip: _sendRegistered is tested but not set.
SendPush_NotSet(t) ==
    /\ At(t, "push")
    /\ pushed' = pushed + 1
    /\ queue' = Append(queue, pushed')
    /\ GoTo(t, IF sendRegistered THEN "idle" ELSE "register")
    /\ UNCHANGED <<sendRegistered, event, posted, wire, sends, closeVars, failed>>

\* Under WRITE_LOCK.
SendPush(t) ==
    /\ At(t, "push")
    /\ pushed' = pushed + 1
    /\ queue' = Append(queue, pushed')
    /\ sendRegistered' = TRUE
    /\ GoTo(t, IF sendRegistered THEN "idle" ELSE "register")
    /\ UNCHANGED <<event, posted, wire, sends, closeVars, failed>>

RegisterSend(t) ==
    /\ Step(t, "register", IF connected THEN "drain" ELSE "unset")
    /\ UNCHANGED <<sendVars, closeVars, failed>>

\* Under WRITE_LOCK.
Drain(t) ==
    /\ Step(t, "drain", "post")
    /\ event' = event \o queue
    /\ queue' = <<>>
    /\ UNCHANGED <<sendRegistered, posted, wire, sends, pushed, closeVars, failed>>

WSASend(t) ==
    /\ ~failed.connect
    /\ Step(t, "post", "idle")
    /\ posted' = TRUE
    /\ wire' = wire \o event
    /\ UNCHANGED <<queue, sendRegistered, event, sends, pushed, closeVars, failed>>

\* HandleError disconnects for WSAECONNRESET and WSAECONNABORTED ...
WSASendReset(t) ==
    /\ ~failed.connect
    /\ At(t, "post")
    /\ Disconnect(t, "clear")
    /\ UNCHANGED <<sendVars, disconnecting, notified, failed>>

\* ... and logs any other error, such as WSAENOTCONN.
WSASendFails(t) ==
    /\ Step(t, "post", "clear")
    /\ failed' = [failed EXCEPT !.send = TRUE]
    /\ UNCHANGED <<sendVars, closeVars>>

Clear(t) ==
    /\ Step(t, "clear", "unset")
    /\ event' = <<>>
    /\ UNCHANGED <<queue, sendRegistered, posted, wire, sends, pushed, closeVars, failed>>

\* Under WRITE_LOCK.
Unset(t) ==
    /\ Step(t, "unset", "idle")
    /\ sendRegistered' = FALSE
    /\ UNCHANGED <<queue, event, posted, wire, sends, pushed, closeVars, failed>>

(***************************************************************************)
(* ProcessSend.                                                             *)
(***************************************************************************)

Completes(t) ==
    /\ At(t, "idle")
    /\ posted
    /\ posted' = FALSE
    /\ UNCHANGED <<queue, sendRegistered, wire, sends, pushed, failed>>

\* Slip: the buffers that were sent stay in the event.
ProcessSend_KeepsBuffers(t) ==
    /\ Completes(t)
    /\ GoTo(t, "check")
    /\ UNCHANGED <<event, closeVars>>

ProcessSend(t) ==
    /\ Completes(t)
    /\ event' = <<>>
    /\ GoTo(t, "check")
    /\ UNCHANGED closeVars

\* The send failed: it completes with no bytes.
ProcessSendZero(t) ==
    /\ Completes(t)
    /\ event' = <<>>
    /\ Disconnect(t, "idle")
    /\ UNCHANGED <<disconnecting, notified>>

\* Slip: what was queued meanwhile is not seen.
CheckQueue_NotTested(t) ==
    /\ Step(t, "check", "idle")
    /\ sendRegistered' = FALSE
    /\ UNCHANGED <<queue, event, posted, wire, sends, pushed, closeVars, failed>>

\* Under WRITE_LOCK.
CheckQueue(t) ==
    /\ Step(t, "check", IF queue = <<>> THEN "idle" ELSE "register")
    /\ sendRegistered' = (queue # <<>>)
    /\ UNCHANGED <<queue, event, posted, wire, sends, pushed, closeVars, failed>>

(***************************************************************************)
(* The chain of receives: RegisterRecv, WSARecv, ProcessRecv, OnRecv.       *)
(***************************************************************************)

RegisterRecv ==
    /\ Step(Receiver, "register", IF connected THEN "recv" ELSE "none")
    /\ UNCHANGED <<sendVars, closeVars, failed>>

WSARecv ==
    /\ ~failed.connect
    /\ Step(Receiver, "recv", "pending")
    /\ UNCHANGED <<sendVars, closeVars, failed>>

WSARecvReset ==
    /\ ~failed.connect
    /\ At(Receiver, "recv")
    /\ Disconnect(Receiver, "none")
    /\ UNCHANGED <<sendVars, disconnecting, notified, failed>>

WSARecvFails ==
    /\ Step(Receiver, "recv", "none")
    /\ failed' = [failed EXCEPT !.recv = TRUE]
    /\ UNCHANGED <<sendVars, closeVars>>

ProcessRecv ==
    /\ Step(Receiver, "pending", "dispatch")
    /\ UNCHANGED <<sendVars, closeVars, failed>>

\* No bytes: the peer closed, or the receive failed.
ProcessRecvZero ==
    /\ At(Receiver, "pending")
    /\ Disconnect(Receiver, "none")
    /\ UNCHANGED <<sendVars, disconnecting, notified, failed>>

\* OnRecv returns what it used ...
RecvHandled ==
    /\ Step(Receiver, "dispatch", "register")
    /\ UNCHANGED <<sendVars, closeVars, failed>>

\* ... or finds a header that cannot be.
RecvRefused ==
    /\ At(Receiver, "dispatch")
    /\ Disconnect(Receiver, "none")
    /\ UNCHANGED <<sendVars, disconnecting, notified, failed>>

Sending(t) ==
    \/ SendPush(t) \/ RegisterSend(t) \/ Drain(t)
    \/ WSASend(t) \/ WSASendReset(t) \/ WSASendFails(t)
    \/ Clear(t) \/ Unset(t)
    \/ ProcessSend(t) \/ ProcessSendZero(t) \/ CheckQueue(t)

Connecting == RegisterConnect \/ RegisterConnectFails \/ ProcessConnect

Receiving ==
    \/ RegisterRecv \/ WSARecv \/ WSARecvReset \/ WSARecvFails
    \/ ProcessRecv \/ ProcessRecvZero \/ RecvHandled \/ RecvRefused

Closing(a) == RegisterDisconnect(a) \/ DisconnectDirectly(a)

Next ==
    \/ \E t \in Threads : Send(t) \/ Sending(t) \/ ProcessDisconnect(t)
    \/ \E a \in Actors : Closing(a)
    \/ Connecting \/ Receiving

\* Threads are run, and the kernel completes a send (the peer reads, or TCP
\* gives up) and a disconnect.  Nothing is asked of connects and receives.
Fairness ==
    /\ \A t \in Threads : WF_vars(Sending(t))
    /\ \A a \in Actors : WF_vars(Closing(a))
    /\ WF_vars(\E t \in Threads : ProcessSend(t) \/ ProcessSendZero(t))
    /\ WF_vars(\E t \in Threads : ProcessDisconnect(t))

Spec == Init /\ [][Next]_vars /\ Fairness

-------------------------------------------------------------------------------

Numbers == 1..MaxSends

\* Every variable has its type.
TypeOK ==
    /\ connected \in BOOLEAN
    /\ {queue, event, wire} \subseteq Seq(Numbers)
    /\ sendRegistered \in BOOLEAN /\ posted \in BOOLEAN
    /\ sends \in 0..MaxSends /\ pushed \in 0..sends
    /\ failed \in [connect : BOOLEAN, send : BOOLEAN, recv : BOOLEAN]
    /\ disconnecting \in BOOLEAN
    /\ notified \in Nat
    /\ \A t \in Threads : pc[t] \in {"idle", "push", "register", "drain", "post", "clear",
                                     "unset", "check", "close"}
    /\ pc[Receiver] \in {"new", "connecting", "refused", "register", "recv", "pending",
                         "dispatch", "none", "close"}

\* The thread is between its claim of _sendRegistered and what gives it up.
Owns(t) ==
    \/ pc[t] \in {"register", "drain", "post", "clear", "unset", "check"}
    \/ pc[t] = "close" /\ ret[t] = "clear"

\* _sendEvent has one owner at a time, the kernel or one thread, although no
\* lock is held from the claim to the completion: WSASend is never called on
\* an event that is in use.
SendEventHasOneOwner ==
    /\ \A t, u \in Threads : Owns(t) /\ Owns(u) => t = u
    /\ \A t \in Threads : Owns(t) => sendRegistered /\ ~posted
    /\ posted => sendRegistered

Unposted == IF \E t \in Threads : pc[t] = "post" THEN event ELSE <<>>

\* As long as no WSASend failed, the peer gets every buffer once and in the
\* order of the pushes: those sent, those in the event and those queued are
\* all there are.
SendsInOrder ==
    connected /\ ~failed.send =>
        wire \o Unposted \o queue = [i \in 1..pushed |-> i]

\* A queued buffer of a connected session has a thread or a completion that
\* will see it.  The exception is in the code: a WSASend that fails with a
\* logged error leaves what was queued meanwhile to the next Send.
QueueIsWatched ==
    connected /\ queue # <<>> /\ ~failed.send =>
        posted \/ \E t \in Threads : Owns(t)

\* Not connected any more; rather than not yet, or never.
Closed == ~connected /\ pc[Receiver] \notin {"new", "connecting", "refused"}

\* OnDisconnected is called once at most, however many threads disconnect, and
\* only for a session that was connected and is closed.
NotifiedOnce == notified <= (IF Closed THEN 1 ELSE 0)

\* Session.cpp:79: every disconnected session is cleaned up, by the completion
\* of DisconnectEx or directly.
ClosedIsNotified == Closed ~> notified = 1

\* What is queued is handed to WSASend, or the session ends, or a WSASend
\* failed with an error that is only logged.
QueuedIsSent ==
    \A n \in Numbers :
        (\E i \in 1..Len(queue) : queue[i] = n)
            ~> (Closed \/ failed.send \/ \E i \in 1..Len(wire) : wire[i] = n)

-------------------------------------------------------------------------------

\* What was given to the session and waits: the buffers of the event, until they
\* are the kernel's or are cleared, and those of the queue.
Filled(t) == pc[t] \in {"post", "clear"} \/ (pc[t] = "close" /\ ret[t] = "clear")
Taken     == IF \E t \in Threads : Filled(t) THEN event ELSE <<>>
Waiting   == Taken \o queue

Status == IF connected THEN "open" ELSE IF Closed THEN "closed" ELSE "new"

Channel == INSTANCE OrderedChannel WITH
    status <- Status, given <- pushed, waiting <- Waiting, sent <- wire,
    broken <- failed.send, told <- notified

\* Nothing is sent twice, out of order, or dropped without a reason, and
\* OnDisconnected comes once and after the end, whatever threads, completions,
\* failures and disconnects do to the session.
ImplementsChannel == Channel!Spec

===============================================================================
