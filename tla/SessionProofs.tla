----------------------------- MODULE SessionProofs -----------------------------
(***************************************************************************)
(* Theorems about Session for any threads and any number of sends.          *)
(***************************************************************************)
EXTENDS Session, FiniteSetTheorems, SequenceTheorems, TLAPS

ThreadLocations == {"idle", "push", "register", "drain", "post", "clear",
                    "unset", "check", "close"}
Connectings == {"new", "connecting", "refused"}
ReceiverLocations == Connectings \cup {"register", "recv", "pending", "dispatch",
                                       "none", "close"}

\* The types, as functions on the actors.
Types ==
    /\ connected \in BOOLEAN
    /\ queue \in Seq(Numbers) /\ event \in Seq(Numbers) /\ wire \in Seq(Numbers)
    /\ sendRegistered \in BOOLEAN /\ posted \in BOOLEAN
    /\ sends \in 0..MaxSends /\ pushed \in Nat
    /\ failed \in [connect : BOOLEAN, send : BOOLEAN, recv : BOOLEAN]
    /\ disconnecting \in BOOLEAN
    /\ notified \in {0, 1}
    /\ pc \in [Actors -> ThreadLocations \cup ReceiverLocations]
    /\ ret \in [Actors -> {"idle", "clear", "none"}]
    /\ \A t \in Threads : pc[t] \in ThreadLocations
    /\ pc[Receiver] \in ReceiverLocations

\* A call of Send that was let in and has not pushed yet.
Pushing == {t \in Threads : pc[t] = "push"}
PushesCounted ==
    /\ IsFiniteSet(Pushing)
    /\ sends = pushed + Cardinality(Pushing)

\* Where Disconnect returns; who gives _sendRegistered up unsent.
Local ==
    /\ \A t \in Threads : pc[t] = "close" => ret[t] \in {"idle", "clear"}
    /\ \A t \in Threads : pc[t] \in {"clear", "unset"} => ~connected \/ failed.send
    /\ pc[Receiver] = "close" => ret[Receiver] = "none"

\* Nothing happens before the session is connected.
Untouched ==
    pc[Receiver] \in Connectings =>
        /\ ~connected /\ ~disconnecting /\ notified = 0
        /\ \A t \in Threads : pc[t] = "idle"
        /\ queue = <<>> /\ event = <<>> /\ wire = <<>> /\ pushed = 0
        /\ ~sendRegistered /\ ~posted

\* One token: the exchange of _connected makes it, and it passes from the thread
\* in Disconnect to the kernel or to OnDisconnected.
OneCloser ==
    /\ \A a \in Actors : pc[a] = "close" => ~connected /\ ~disconnecting /\ notified = 0
    /\ \A a, b \in Actors : pc[a] = "close" /\ pc[b] = "close" => a = b
    /\ disconnecting => ~connected /\ notified = 0
    /\ notified = 1 => ~connected

\* The event holds buffers only while somebody is about to send them, is sending
\* them or gives them up.
EventInUse == event # <<>> => posted \/ \E t \in Threads : Filled(t)

\* _sendRegistered of a connected session is set for an owner, and for the queue.
RegisteredHasOwner == connected /\ sendRegistered => posted \/ \E t \in Threads : Owns(t)
QueuedIsRegistered == connected /\ queue # <<>> /\ ~failed.send => sendRegistered

IInv ==
    /\ Types
    /\ PushesCounted
    /\ Local
    /\ Untouched
    /\ OneCloser
    /\ SendEventHasOneOwner
    /\ EventInUse
    /\ RegisteredHasOwner
    /\ QueuedIsRegistered
    /\ SendsInOrder

-------------------------------------------------------------------------------

\* The threads are not the receiver, and what a type says of a location.
LEMMA ActorsApart ==
    /\ Receiver \in Actors /\ Receiver \notin Threads
    /\ \A t \in Threads : t \in Actors /\ t # Receiver
BY ReceiverAssumption DEF Actors

Names == ThreadLocations \cup ReceiverLocations

\* A step to a location keeps pc a function on the actors.
LEMMA GoToType ==
    ASSUME Types, NEW a \in Actors, NEW to \in Names, GoTo(a, to),
           a \in Threads => to \in ThreadLocations,
           a = Receiver => to \in ReceiverLocations
    PROVE  /\ pc' \in [Actors -> Names]
           /\ \A t \in Threads : pc'[t] \in ThreadLocations
           /\ pc'[Receiver] \in ReceiverLocations
BY ActorsApart DEF Types, GoTo, Names

\* Disconnect leaves _connected FALSE and keeps the types of pc and ret.
LEMMA DisconnectTypes ==
    ASSUME Types, NEW a \in Actors, NEW next \in {"idle", "clear", "none"},
           Disconnect(a, next),
           a \in Threads => next # "none", a = Receiver => next = "none"
    PROVE  /\ connected' = FALSE
           /\ pc' \in [Actors -> Names]
           /\ \A t \in Threads : pc'[t] \in ThreadLocations
           /\ pc'[Receiver] \in ReceiverLocations
           /\ ret' \in [Actors -> {"idle", "clear", "none"}]
<1>1. PICK to \in {next, "close"} : GoTo(a, to)
  BY DEF Disconnect
<1>2. to \in Names /\ (a \in Threads => to \in ThreadLocations)
                   /\ (a = Receiver => to \in ReceiverLocations)
  BY DEF Names, ThreadLocations, ReceiverLocations
<1>3. connected' = FALSE
  BY DEF Disconnect
<1>4. ret' \in [Actors -> {"idle", "clear", "none"}]
  <2>1. CASE connected
    BY <2>1 DEF Disconnect, Types
  <2>2. CASE ~connected
    BY <2>2 DEF Disconnect, Types
  <2> QED
    BY <2>1, <2>2
<1> QED
  BY <1>1, <1>2, <1>3, <1>4, GoToType

\* The pushes are counted as long as nobody enters or leaves "push".
LEMMA PushingUnchanged ==
    ASSUME PushesCounted, sends' = sends, pushed' = pushed, Pushing' = Pushing
    PROVE  PushesCounted'
BY DEF PushesCounted

\* The first n pushes, in order.
Upto(n) == [i \in 1..n |-> i]

\* One push more is appended to the first n.
LEMMA UptoGrows ==
    ASSUME NEW n \in Nat
    PROVE  /\ Upto(n) \in Seq(Nat)
           /\ Append(Upto(n), n + 1) = Upto(n + 1)
           /\ Upto(0) = <<>>
<1>1. \A k \in Nat : Upto(k) \in Seq(Nat) /\ Len(Upto(k)) = k
  BY DEF Upto
<1>2. Append(Upto(n), n + 1) = Upto(n + 1)
  <2>1. /\ Append(Upto(n), n + 1) \in Seq(Nat)
        /\ Len(Append(Upto(n), n + 1)) = n + 1
        /\ \A i \in 1..n : Append(Upto(n), n + 1)[i] = Upto(n)[i]
        /\ Append(Upto(n), n + 1)[n + 1] = n + 1
    BY <1>1, AppendProperties
  <2>2. \A i \in 1..(n + 1) : Append(Upto(n), n + 1)[i] = Upto(n + 1)[i]
    BY <2>1 DEF Upto
  <2> QED
    BY <1>1, <2>1, <2>2, SeqEqual
<1>3. Upto(0) = <<>>
  BY <1>1, EmptySeq
<1> QED
  BY <1>1, <1>2, <1>3

\* Appending to the last of three is appending to their concatenation.
LEMMA AppendToLast ==
    ASSUME NEW S, NEW r \in Seq(S), NEW s \in Seq(S), NEW u \in Seq(S), NEW x \in S
    PROVE  r \o s \o Append(u, x) = Append(r \o s \o u, x)
<1>1. r \o s \in Seq(S) /\ r \o s \o u \in Seq(S) /\ <<x>> \in Seq(S)
  BY ConcatProperties
<1>2. Append(u, x) = u \o <<x>> /\ Append(r \o s \o u, x) = (r \o s \o u) \o <<x>>
  BY <1>1, AppendIsConcat
<1> QED
  BY <1>1, <1>2, ConcatAssociative

\* A step of the receiver that disconnects nothing moves the receiver only.
LEMMA ReceiverMoves ==
    ASSUME IInv, NEW to \in ReceiverLocations, GoTo(Receiver, to),
           to # "close", pc[Receiver] # "close",
           to \in Connectings => pc[Receiver] \in Connectings,
           UNCHANGED <<sendVars, closeVars>>,
           failed' \in [connect : BOOLEAN, send : BOOLEAN, recv : BOOLEAN],
           failed'.send = failed.send
    PROVE  IInv'
<1> USE ActorsApart DEF IInv, GoTo, sendVars, closeVars
<1>1. Types'
  BY GoToType DEF Types, ThreadLocations, ReceiverLocations, Connectings, Names
<1>2. Local' /\ Untouched' /\ OneCloser'
  BY DEF Types, Local, Untouched, OneCloser, Connectings
<1>3. SendEventHasOneOwner'
  BY DEF Types, OneCloser, Untouched, SendEventHasOneOwner, Owns
<1>4. EventInUse'
  BY DEF Types, OneCloser, Untouched, EventInUse, Filled
<1>5. RegisteredHasOwner' /\ QueuedIsRegistered'
  BY DEF Types, Local, OneCloser, Untouched, RegisteredHasOwner, QueuedIsRegistered,
       SendEventHasOneOwner, Owns
<1>6. SendsInOrder'
  BY DEF Types, Local, OneCloser, SendsInOrder, Unposted
<1>7. PushesCounted'
  BY PushingUnchanged DEF Types, Pushing, OneCloser
<1> QED
  BY <1>1, <1>2, <1>3, <1>4, <1>5, <1>6, <1>7

\* A receive that disconnects leaves everything to do with sends alone.
LEMMA ReceiverDisconnects ==
    ASSUME IInv, Disconnect(Receiver, "none"),
           pc[Receiver] \notin Connectings \cup {"close"},
           UNCHANGED <<sendVars, disconnecting, notified, failed>>
    PROVE  IInv'
<1> USE ActorsApart DEF IInv, sendVars
<1>1. /\ connected' = FALSE
      /\ pc' \in [Actors -> Names]
      /\ \A t \in Threads : pc'[t] \in ThreadLocations
      /\ pc'[Receiver] \in ReceiverLocations
      /\ ret' \in [Actors -> {"idle", "clear", "none"}]
  BY DisconnectTypes
<1>2. Types'
  BY <1>1 DEF Types, Names
<1>3. \A t \in Threads : pc'[t] = pc[t] /\ ret'[t] = ret[t]
  BY DEF Disconnect, GoTo, Types
<1>4. Local' /\ Untouched' /\ OneCloser'
  BY <1>1, <1>3 DEF Types, Local, Untouched, OneCloser, Connectings, Disconnect, GoTo
<1>5. SendEventHasOneOwner'
  BY <1>1, <1>3 DEF Types, OneCloser, Untouched, SendEventHasOneOwner, Owns
<1>6. EventInUse'
  BY <1>1, <1>3 DEF Types, OneCloser, Untouched, EventInUse, Filled
<1>7. RegisteredHasOwner' /\ QueuedIsRegistered' /\ SendsInOrder'
  BY <1>1 DEF RegisteredHasOwner, QueuedIsRegistered, SendsInOrder
<1>8. PushesCounted'
  BY <1>3, PushingUnchanged DEF Types, Pushing, OneCloser
<1> QED
  BY <1>1, <1>2, <1>3, <1>4, <1>5, <1>6, <1>7, <1>8

\* OnConnected is the first thing that happens to a session of a client.
LEMMA ProcessConnectStep ==
    ASSUME IInv, ProcessConnect
    PROVE  IInv'
<1> USE ActorsApart DEF IInv, ProcessConnect, Step, At, GoTo, sendVars
<1>1. /\ \A t \in Threads : pc[t] = "idle" /\ pc'[t] = "idle"
      /\ pc'[Receiver] = "register" /\ queue' = <<>> /\ ~sendRegistered'
  BY DEF Untouched, Connectings, Types
<1>2. Types'
  BY GoToType DEF Types, ThreadLocations, ReceiverLocations, Connectings, Names
<1>3. Local' /\ Untouched' /\ OneCloser'
  BY <1>1 DEF Types, Local, Untouched, OneCloser, Connectings, Actors
<1>4. SendEventHasOneOwner'
  BY DEF Types, OneCloser, Untouched, SendEventHasOneOwner, Owns
<1>5. EventInUse'
  BY DEF Types, OneCloser, Untouched, EventInUse, Filled
<1>6. RegisteredHasOwner' /\ QueuedIsRegistered'
  BY <1>1 DEF RegisteredHasOwner, QueuedIsRegistered
<1>7. SendsInOrder'
  <2>1. wire' = <<>> /\ Unposted' = <<>> /\ queue' = <<>> /\ pushed' = 0
    BY DEF Untouched, Connectings, Unposted, Types
  <2>2. <<>> \o <<>> \o <<>> = <<>>
    BY EmptySeq, ConcatEmptySeq
  <2> QED
    BY <2>1, <2>2, UptoGrows DEF SendsInOrder, Upto
<1>8. PushesCounted'
  BY PushingUnchanged DEF Types, Pushing, OneCloser
<1> QED
  BY <1>1, <1>2, <1>3, <1>4, <1>5, <1>6, <1>7, <1>8

\* One more call of Send is let in.
LEMMA SendStep ==
    ASSUME IInv, NEW t \in Threads, Send(t)
    PROVE  IInv'
<1> USE ActorsApart DEF IInv, Send, Step, At, GoTo, closeVars
<1>1. Types'
  <2>1. sends' \in 0..MaxSends
    BY SendsAssumption DEF Types
  <2>2. /\ pc' \in [Actors -> Names]
        /\ \A u \in Threads : pc'[u] \in ThreadLocations
        /\ pc'[Receiver] \in ReceiverLocations
    BY GoToType DEF ThreadLocations, Names
  <2> QED
    BY <2>1, <2>2 DEF Types, Names
<1>2. Local' /\ Untouched' /\ OneCloser'
  BY DEF Types, Local, Untouched, OneCloser, Connectings
<1>3. SendEventHasOneOwner'
  BY DEF Types, OneCloser, Untouched, SendEventHasOneOwner, Owns
<1>4. EventInUse'
  BY DEF Types, OneCloser, Untouched, EventInUse, Filled
<1>5. RegisteredHasOwner' /\ QueuedIsRegistered'
  BY DEF Types, Local, OneCloser, Untouched, RegisteredHasOwner, QueuedIsRegistered,
       SendEventHasOneOwner, Owns
<1>6. SendsInOrder'
  BY DEF Types, Local, OneCloser, SendsInOrder, Unposted
<1>7. PushesCounted'
  <2>1. Pushing' = Pushing \cup {t} /\ t \notin Pushing
    BY DEF Types, Pushing
  <2>2. IsFiniteSet(Pushing') /\ Cardinality(Pushing') = Cardinality(Pushing) + 1
    BY <2>1, FS_AddElement DEF PushesCounted
  <2>3. Cardinality(Pushing) \in Nat
    BY FS_CardinalityType DEF PushesCounted
  <2> QED
    BY <2>2, <2>3 DEF PushesCounted, Types
<1> QED
  BY <1>1, <1>2, <1>3, <1>4, <1>5, <1>6, <1>7

\* A push: there was a call that had not pushed, so its number is in range.
LEMMA SendPushStep ==
    ASSUME IInv, NEW t \in Threads, SendPush(t)
    PROVE  IInv'
<1> USE ActorsApart DEF IInv, SendPush, At, GoTo, closeVars
<1>1. PushesCounted' /\ pushed + 1 <= sends
  <2>1. Pushing' = Pushing \ {t} /\ t \in Pushing
    BY DEF Types, Pushing
  <2>2. IsFiniteSet(Pushing') /\ Cardinality(Pushing') = Cardinality(Pushing) - 1
    BY <2>1, FS_RemoveElement DEF PushesCounted
  <2>3. Cardinality(Pushing) \in Nat /\ Cardinality(Pushing') \in Nat
    BY <2>2, FS_CardinalityType DEF PushesCounted
  <2> QED
    BY <2>2, <2>3 DEF PushesCounted, Types
<1>2. pushed + 1 \in Numbers
  BY <1>1, SendsAssumption DEF Types, Numbers
<1>3. Types'
  <2>1. queue' \in Seq(Numbers)
    BY <1>2, AppendProperties DEF Types
  <2>2. PICK to \in {"idle", "register"} : GoTo(t, to)
    OBVIOUS
  <2>3. /\ pc' \in [Actors -> Names]
        /\ \A u \in Threads : pc'[u] \in ThreadLocations
        /\ pc'[Receiver] \in ReceiverLocations
    BY <2>2, GoToType DEF ThreadLocations, Names
  <2> QED
    BY <1>2, <2>1, <2>3 DEF Types, Names, Numbers
<1>4. Local' /\ Untouched' /\ OneCloser'
  BY DEF Types, Local, Untouched, OneCloser, Connectings
<1>5. SendEventHasOneOwner'
  BY DEF Types, OneCloser, Untouched, SendEventHasOneOwner, Owns
<1>6. EventInUse'
  BY DEF Types, OneCloser, Untouched, EventInUse, Filled
<1>7. RegisteredHasOwner' /\ QueuedIsRegistered'
  BY DEF Types, Local, OneCloser, Untouched, RegisteredHasOwner, QueuedIsRegistered,
       SendEventHasOneOwner, Owns
<1>8. SendsInOrder'
  <2>1. Unposted' = Unposted /\ Unposted \in Seq(Numbers)
    BY EmptySeq DEF Types, Unposted
  <2>2. wire \o Unposted \o queue' = Append(wire \o Unposted \o queue, pushed + 1)
    BY <1>2, <2>1, AppendToLast DEF Types
  <2> QED
    BY <2>1, <2>2, UptoGrows DEF SendsInOrder, Upto, Types
<1> QED
  BY <1>1, <1>2, <1>3, <1>4, <1>5, <1>6, <1>7, <1>8

\* RegisterSend goes on only for a connected session.
LEMMA RegisterSendStep ==
    ASSUME IInv, NEW t \in Threads, RegisterSend(t)
    PROVE  IInv'
<1> USE ActorsApart DEF IInv, RegisterSend, Step, At, GoTo, sendVars, closeVars
<1>1. Types'
  BY GoToType DEF Types, ThreadLocations, ReceiverLocations, Connectings, Names
<1>2. Local' /\ Untouched' /\ OneCloser'
  BY DEF Types, Local, Untouched, OneCloser, Connectings
<1>3. SendEventHasOneOwner'
  BY DEF Types, OneCloser, Untouched, SendEventHasOneOwner, Owns
<1>4. EventInUse'
  BY DEF Types, OneCloser, Untouched, EventInUse, Filled
<1>5. RegisteredHasOwner' /\ QueuedIsRegistered'
  BY DEF Types, Local, OneCloser, Untouched, RegisteredHasOwner, QueuedIsRegistered,
       SendEventHasOneOwner, Owns
<1>6. SendsInOrder'
  BY DEF Types, Local, OneCloser, SendsInOrder, Unposted
<1>7. PushesCounted'
  BY PushingUnchanged DEF Types, Pushing, OneCloser
<1> QED
  BY <1>1, <1>2, <1>3, <1>4, <1>5, <1>6, <1>7

\* The owner moves the queue to the event, which is empty and which it owns.
LEMMA DrainStep ==
    ASSUME IInv, NEW t \in Threads, Drain(t)
    PROVE  IInv'
<1> USE ActorsApart DEF IInv, Drain, Step, At, GoTo, closeVars
<1>1. event = <<>> /\ Unposted = <<>>
  BY DEF EventInUse, Filled, SendEventHasOneOwner, Owns, Unposted
<1>2. event' = queue
  BY <1>1, ConcatEmptySeq DEF Types
<1>3. Types'
  BY <1>2, EmptySeq, GoToType DEF Types, ThreadLocations, ReceiverLocations, Connectings, Names
<1>4. Local' /\ Untouched' /\ OneCloser'
  BY DEF Types, Local, Untouched, OneCloser, Connectings
<1>5. SendEventHasOneOwner'
  BY DEF Types, OneCloser, Untouched, SendEventHasOneOwner, Owns
<1>6. EventInUse'
  BY DEF Types, OneCloser, Untouched, EventInUse, Filled
<1>7. RegisteredHasOwner' /\ QueuedIsRegistered'
  BY DEF Types, Local, OneCloser, Untouched, RegisteredHasOwner, QueuedIsRegistered,
       SendEventHasOneOwner, Owns
<1>8. SendsInOrder'
  <2>1. Unposted' = queue
    BY <1>2 DEF Unposted, Types
  <2>2. wire \o queue \in Seq(Numbers)
    BY ConcatProperties DEF Types
  <2>3. wire \o queue \o <<>> = wire \o <<>> \o queue
    BY <2>2, ConcatEmptySeq DEF Types
  <2> QED
    BY <1>1, <2>1, <2>3 DEF SendsInOrder
<1>9. PushesCounted'
  BY PushingUnchanged DEF Types, Pushing, OneCloser
<1> QED
  BY <1>1, <1>2, <1>3, <1>4, <1>5, <1>6, <1>7, <1>8, <1>9

\* WSASend hands the event to the kernel, from the only thread that had it.
LEMMA WSASendStep ==
    ASSUME IInv, NEW t \in Threads, WSASend(t)
    PROVE  IInv'
<1> USE ActorsApart DEF IInv, WSASend, Step, At, GoTo, closeVars
<1>1. Types'
  BY ConcatProperties, GoToType DEF Types, ThreadLocations, ReceiverLocations, Connectings,
       Names
<1>2. Local' /\ Untouched' /\ OneCloser'
  BY DEF Types, Local, Untouched, OneCloser, Connectings
<1>3. SendEventHasOneOwner'
  BY DEF Types, OneCloser, Untouched, SendEventHasOneOwner, Owns
<1>4. EventInUse'
  BY DEF Types, OneCloser, Untouched, EventInUse, Filled
<1>5. RegisteredHasOwner' /\ QueuedIsRegistered'
  BY DEF Types, Local, OneCloser, Untouched, RegisteredHasOwner, QueuedIsRegistered,
       SendEventHasOneOwner, Owns
<1>6. SendsInOrder'
  <2>1. Unposted = event /\ Unposted' = <<>>
    BY DEF Unposted, SendEventHasOneOwner, Owns, Types
  <2>2. wire' \o <<>> \o queue = wire \o event \o queue
    BY ConcatProperties, ConcatEmptySeq DEF Types
  <2> QED
    BY <2>1, <2>2 DEF SendsInOrder
<1>7. PushesCounted'
  BY PushingUnchanged DEF Types, Pushing, OneCloser
<1> QED
  BY <1>1, <1>2, <1>3, <1>4, <1>5, <1>6, <1>7

\* A reset at the send: the thread keeps the event through Disconnect.
LEMMA WSASendResetStep ==
    ASSUME IInv, NEW t \in Threads, WSASendReset(t)
    PROVE  IInv'
<1> USE ActorsApart DEF IInv, WSASendReset, At
<1>1. /\ connected' = FALSE
      /\ pc' \in [Actors -> Names]
      /\ \A u \in Threads : pc'[u] \in ThreadLocations
      /\ pc'[Receiver] \in ReceiverLocations
      /\ ret' \in [Actors -> {"idle", "clear", "none"}]
  BY DisconnectTypes
<1>2. Types'
  BY <1>1 DEF Types, Names, sendVars
<1>3. Local' /\ Untouched' /\ OneCloser'
  BY <1>1 DEF Types, Local, Untouched, OneCloser, Connectings, Disconnect, GoTo
<1>4. SendEventHasOneOwner'
  BY <1>1 DEF Types, OneCloser, Untouched, SendEventHasOneOwner, Owns, Disconnect, GoTo,
       sendVars
<1>5. EventInUse'
  BY <1>1 DEF Types, OneCloser, Untouched, EventInUse, Filled, Disconnect, GoTo, sendVars
<1>6. RegisteredHasOwner' /\ QueuedIsRegistered' /\ SendsInOrder'
  BY <1>1 DEF RegisteredHasOwner, QueuedIsRegistered, SendsInOrder
<1>7. PushesCounted'
  BY PushingUnchanged DEF Types, Pushing, OneCloser, Disconnect, GoTo, sendVars
<1> QED
  BY <1>1, <1>2, <1>3, <1>4, <1>5, <1>6, <1>7

\* An error that is logged only: the order is given up with it.
LEMMA WSASendFailsStep ==
    ASSUME IInv, NEW t \in Threads, WSASendFails(t)
    PROVE  IInv'
<1> USE ActorsApart DEF IInv, WSASendFails, Step, At, GoTo, sendVars, closeVars
<1>1. Types'
  BY GoToType DEF Types, ThreadLocations, ReceiverLocations, Connectings, Names
<1>2. Local' /\ Untouched' /\ OneCloser'
  BY DEF Types, Local, Untouched, OneCloser, Connectings
<1>3. SendEventHasOneOwner'
  BY DEF Types, OneCloser, Untouched, SendEventHasOneOwner, Owns
<1>4. EventInUse'
  BY DEF Types, OneCloser, Untouched, EventInUse, Filled
<1>5. RegisteredHasOwner' /\ QueuedIsRegistered'
  BY DEF Types, Local, OneCloser, Untouched, RegisteredHasOwner, QueuedIsRegistered,
       SendEventHasOneOwner, Owns
<1>6. SendsInOrder'
  BY DEF Types, Local, OneCloser, SendsInOrder, Unposted
<1>7. PushesCounted'
  BY PushingUnchanged DEF Types, Pushing, OneCloser
<1> QED
  BY <1>1, <1>2, <1>3, <1>4, <1>5, <1>6, <1>7

\* The owner drops what it could not send.
LEMMA ClearStep ==
    ASSUME IInv, NEW t \in Threads, Clear(t)
    PROVE  IInv'
<1> USE ActorsApart DEF IInv, Clear, Step, At, GoTo, closeVars
<1>1. Types'
  BY EmptySeq, GoToType DEF Types, ThreadLocations, ReceiverLocations, Connectings, Names
<1>2. Local' /\ Untouched' /\ OneCloser'
  BY DEF Types, Local, Untouched, OneCloser, Connectings
<1>3. SendEventHasOneOwner'
  BY DEF Types, OneCloser, Untouched, SendEventHasOneOwner, Owns
<1>4. EventInUse'
  BY DEF Types, OneCloser, Untouched, EventInUse, Filled
<1>5. RegisteredHasOwner' /\ QueuedIsRegistered'
  BY DEF Types, Local, OneCloser, Untouched, RegisteredHasOwner, QueuedIsRegistered,
       SendEventHasOneOwner, Owns
<1>6. SendsInOrder'
  BY DEF Types, Local, OneCloser, SendsInOrder, Unposted
<1>7. PushesCounted'
  BY PushingUnchanged DEF Types, Pushing, OneCloser
<1> QED
  BY <1>1, <1>2, <1>3, <1>4, <1>5, <1>6, <1>7

\* The owner gives _sendRegistered up, of a session that is closed or failed.
LEMMA UnsetStep ==
    ASSUME IInv, NEW t \in Threads, Unset(t)
    PROVE  IInv'
<1> USE ActorsApart DEF IInv, Unset, Step, At, GoTo, closeVars
<1>1. Types'
  BY GoToType DEF Types, ThreadLocations, ReceiverLocations, Connectings, Names
<1>2. Local' /\ Untouched' /\ OneCloser'
  BY DEF Types, Local, Untouched, OneCloser, Connectings
<1>3. SendEventHasOneOwner'
  BY DEF Types, OneCloser, Untouched, SendEventHasOneOwner, Owns
<1>4. EventInUse'
  BY DEF Types, OneCloser, Untouched, EventInUse, Filled
<1>5. RegisteredHasOwner' /\ QueuedIsRegistered'
  BY DEF Types, Local, OneCloser, Untouched, RegisteredHasOwner, QueuedIsRegistered,
       SendEventHasOneOwner, Owns
<1>6. SendsInOrder'
  BY DEF Types, Local, OneCloser, SendsInOrder, Unposted
<1>7. PushesCounted'
  BY PushingUnchanged DEF Types, Pushing, OneCloser
<1> QED
  BY <1>1, <1>2, <1>3, <1>4, <1>5, <1>6, <1>7

\* The completion passes the event from the kernel to the thread.
LEMMA ProcessSendStep ==
    ASSUME IInv, NEW t \in Threads, ProcessSend(t)
    PROVE  IInv'
<1> USE ActorsApart DEF IInv, ProcessSend, Completes, At, GoTo, closeVars
<1>1. Types'
  BY EmptySeq, GoToType DEF Types, ThreadLocations, ReceiverLocations, Connectings, Names
<1>2. Local' /\ Untouched' /\ OneCloser'
  BY DEF Types, Local, Untouched, OneCloser, Connectings
<1>3. SendEventHasOneOwner'
  BY DEF Types, OneCloser, Untouched, SendEventHasOneOwner, Owns
<1>4. EventInUse'
  BY DEF Types, OneCloser, Untouched, EventInUse, Filled
<1>5. RegisteredHasOwner' /\ QueuedIsRegistered'
  BY DEF Types, Local, OneCloser, Untouched, RegisteredHasOwner, QueuedIsRegistered,
       SendEventHasOneOwner, Owns
<1>6. SendsInOrder'
  BY DEF Types, SendsInOrder, Unposted, SendEventHasOneOwner, Owns
<1>7. PushesCounted'
  BY PushingUnchanged DEF Types, Pushing, OneCloser
<1> QED
  BY <1>1, <1>2, <1>3, <1>4, <1>5, <1>6, <1>7

\* After a send that failed nobody owns the event: the session is closed.
LEMMA ProcessSendZeroStep ==
    ASSUME IInv, NEW t \in Threads, ProcessSendZero(t)
    PROVE  IInv'
<1> USE ActorsApart DEF IInv, ProcessSendZero, Completes, At
<1>1. /\ connected' = FALSE
      /\ pc' \in [Actors -> Names]
      /\ \A u \in Threads : pc'[u] \in ThreadLocations
      /\ pc'[Receiver] \in ReceiverLocations
      /\ ret' \in [Actors -> {"idle", "clear", "none"}]
  BY DisconnectTypes
<1>2. Types'
  BY <1>1, EmptySeq DEF Types, Names
<1>3. Local' /\ Untouched' /\ OneCloser'
  BY <1>1 DEF Types, Local, Untouched, OneCloser, Connectings, Disconnect, GoTo
<1>4. SendEventHasOneOwner'
  BY <1>1 DEF Types, OneCloser, Untouched, SendEventHasOneOwner, Owns, Disconnect, GoTo
<1>5. EventInUse'
  BY <1>1 DEF Types, OneCloser, Untouched, EventInUse, Filled, Disconnect, GoTo
<1>6. RegisteredHasOwner' /\ QueuedIsRegistered' /\ SendsInOrder'
  BY <1>1 DEF RegisteredHasOwner, QueuedIsRegistered, SendsInOrder
<1>7. PushesCounted'
  BY PushingUnchanged DEF Types, Pushing, OneCloser, Disconnect, GoTo
<1> QED
  BY <1>1, <1>2, <1>3, <1>4, <1>5, <1>6, <1>7

\* The thread stays the owner if something was queued meanwhile.
LEMMA CheckQueueStep ==
    ASSUME IInv, NEW t \in Threads, CheckQueue(t)
    PROVE  IInv'
<1> USE ActorsApart DEF IInv, CheckQueue, Step, At, GoTo, closeVars
<1>1. Types'
  BY GoToType DEF Types, ThreadLocations, ReceiverLocations, Connectings, Names
<1>2. Local' /\ Untouched' /\ OneCloser'
  BY DEF Types, Local, Untouched, OneCloser, Connectings
<1>3. SendEventHasOneOwner'
  BY DEF Types, OneCloser, Untouched, SendEventHasOneOwner, Owns
<1>4. EventInUse'
  BY DEF Types, OneCloser, Untouched, EventInUse, Filled
<1>5. RegisteredHasOwner' /\ QueuedIsRegistered'
  BY DEF Types, Local, OneCloser, Untouched, RegisteredHasOwner, QueuedIsRegistered,
       SendEventHasOneOwner, Owns
<1>6. SendsInOrder'
  BY DEF Types, Local, OneCloser, SendsInOrder, Unposted
<1>7. PushesCounted'
  BY PushingUnchanged DEF Types, Pushing, OneCloser
<1> QED
  BY <1>1, <1>2, <1>3, <1>4, <1>5, <1>6, <1>7

\* The kernel passes the token to OnDisconnected.
LEMMA ProcessDisconnectStep ==
    ASSUME IInv, NEW t \in Threads, ProcessDisconnect(t)
    PROVE  IInv'
<1> USE ActorsApart DEF IInv, ProcessDisconnect, sendVars
<1>1. notified' = 1
  BY DEF OneCloser
<1>2. Types'
  BY <1>1 DEF Types
<1>3. Local' /\ Untouched' /\ OneCloser'
  BY <1>1 DEF Types, Local, Untouched, OneCloser, Connectings
<1>4. SendEventHasOneOwner'
  BY DEF Types, OneCloser, Untouched, SendEventHasOneOwner, Owns
<1>5. EventInUse'
  BY DEF Types, OneCloser, Untouched, EventInUse, Filled
<1>6. RegisteredHasOwner' /\ QueuedIsRegistered'
  BY DEF Types, Local, OneCloser, Untouched, RegisteredHasOwner, QueuedIsRegistered,
       SendEventHasOneOwner, Owns
<1>7. SendsInOrder'
  BY DEF Types, Local, OneCloser, SendsInOrder, Unposted
<1>8. PushesCounted'
  BY PushingUnchanged DEF Types, Pushing, OneCloser
<1> QED
  BY <1>1, <1>2, <1>3, <1>4, <1>5, <1>6, <1>7, <1>8

\* The token passes to the kernel, and the thread returns.
LEMMA RegisterDisconnectStep ==
    ASSUME IInv, NEW a \in Actors, RegisterDisconnect(a)
    PROVE  IInv'
<1> USE ActorsApart DEF IInv, RegisterDisconnect, Step, At, GoTo, sendVars
<1>1. /\ a \in Threads => ret[a] \in {"idle", "clear"}
      /\ a = Receiver => ret[a] = "none"
      /\ ret[a] \in Names
  BY DEF Local, Types, ThreadLocations, ReceiverLocations, Connectings, Names, Actors
<1>2. Types'
  BY <1>1, GoToType DEF Types, ThreadLocations, ReceiverLocations, Connectings, Names
<1>3. Local' /\ Untouched' /\ OneCloser'
  BY <1>1 DEF Types, Local, Untouched, OneCloser, Connectings, Actors
<1>4. SendEventHasOneOwner'
  BY <1>1 DEF Types, OneCloser, Untouched, SendEventHasOneOwner, Owns
<1>5. EventInUse'
  BY <1>1 DEF Types, OneCloser, Untouched, EventInUse, Filled
<1>6. RegisteredHasOwner' /\ QueuedIsRegistered'
  BY <1>1 DEF Types, Local, OneCloser, Untouched, RegisteredHasOwner, QueuedIsRegistered,
       SendEventHasOneOwner, Owns
<1>7. SendsInOrder'
  BY <1>1 DEF Types, Local, OneCloser, SendsInOrder, Unposted
<1>8. PushesCounted'
  BY <1>1, PushingUnchanged DEF Types, Pushing, OneCloser
<1> QED
  BY <1>1, <1>2, <1>3, <1>4, <1>5, <1>6, <1>7, <1>8

\* DisconnectEx failed: OnDisconnected is called here, for the only token.
LEMMA DisconnectDirectlyStep ==
    ASSUME IInv, NEW a \in Actors, DisconnectDirectly(a)
    PROVE  IInv'
<1> USE ActorsApart DEF IInv, DisconnectDirectly, Step, At, GoTo, sendVars
<1>1. /\ a \in Threads => ret[a] \in {"idle", "clear"}
      /\ a = Receiver => ret[a] = "none"
      /\ ret[a] \in Names /\ notified' = 1
  BY DEF Local, Types, OneCloser, ThreadLocations, ReceiverLocations, Connectings, Names, Actors
<1>2. Types'
  BY <1>1, GoToType DEF Types, ThreadLocations, ReceiverLocations, Connectings, Names
<1>3. Local' /\ Untouched' /\ OneCloser'
  BY <1>1 DEF Types, Local, Untouched, OneCloser, Connectings, Actors
<1>4. SendEventHasOneOwner'
  BY <1>1 DEF Types, OneCloser, Untouched, SendEventHasOneOwner, Owns
<1>5. EventInUse'
  BY <1>1 DEF Types, OneCloser, Untouched, EventInUse, Filled
<1>6. RegisteredHasOwner' /\ QueuedIsRegistered'
  BY <1>1 DEF Types, Local, OneCloser, Untouched, RegisteredHasOwner, QueuedIsRegistered,
       SendEventHasOneOwner, Owns
<1>7. SendsInOrder'
  BY <1>1 DEF Types, Local, OneCloser, SendsInOrder, Unposted
<1>8. PushesCounted'
  BY <1>1, PushingUnchanged DEF Types, Pushing, OneCloser
<1> QED
  BY <1>1, <1>2, <1>3, <1>4, <1>5, <1>6, <1>7, <1>8

\* No call, no push, no disconnect: the invariant holds at the start.
LEMMA InitInv == Init => IInv
<1> SUFFICES ASSUME Init
             PROVE  IInv
  OBVIOUS
<1> USE ActorsApart DEF Init
<1>1. Types
  <2>1. pc \in [Actors -> ThreadLocations \cup ReceiverLocations]
    BY DEF ThreadLocations, ReceiverLocations, Connectings
  <2>2. /\ \A t \in Threads : pc[t] \in ThreadLocations
        /\ pc[Receiver] \in ReceiverLocations
    BY DEF ThreadLocations, ReceiverLocations, Connectings
  <2>3. sends \in 0..MaxSends /\ pushed \in Nat
    BY SendsAssumption
  <2>4. /\ failed \in [connect : BOOLEAN, send : BOOLEAN, recv : BOOLEAN]
        /\ ret \in [Actors -> {"idle", "clear", "none"}]
    OBVIOUS
  <2> QED
    BY EmptySeq, <2>1, <2>2, <2>3, <2>4 DEF Types
<1>2. PushesCounted
  <2>1. Pushing = {}
    BY DEF Pushing
  <2> QED
    BY <2>1, FS_EmptySet DEF PushesCounted
<1>3. Local /\ Untouched /\ OneCloser
  BY DEF Local, Untouched, OneCloser, Connectings, Actors
<1>4. SendEventHasOneOwner /\ EventInUse /\ RegisteredHasOwner /\ QueuedIsRegistered
  BY DEF SendEventHasOneOwner, Owns, EventInUse, RegisteredHasOwner, QueuedIsRegistered
<1>5. SendsInOrder
  <2>1. Unposted = <<>> /\ <<>> \o <<>> \o <<>> = <<>>
    BY EmptySeq, ConcatEmptySeq DEF Unposted
  <2> QED
    BY <2>1, UptoGrows DEF SendsInOrder, Upto
<1> QED
  BY <1>1, <1>2, <1>3, <1>4, <1>5 DEF IInv

\* The steps of the receiver, of the connect and of the chain of receives.
LEMMA ReceiverStep ==
    ASSUME IInv, Connecting \/ Receiving
    PROVE  IInv'
<1>1. CASE RegisterConnect \/ RegisterConnectFails
  BY <1>1, ReceiverMoves DEF RegisterConnect, RegisterConnectFails, Step, At, IInv, Types,
                             ReceiverLocations, Connectings
<1>2. CASE ProcessConnect
  BY <1>2, ProcessConnectStep
<1>3. CASE RegisterRecv \/ WSARecv \/ ProcessRecv \/ RecvHandled
  <2>1. PICK to \in {"recv", "none", "pending", "dispatch", "register"} : GoTo(Receiver, to)
    BY <1>3 DEF RegisterRecv, WSARecv, ProcessRecv, RecvHandled, Step
  <2>2. /\ UNCHANGED <<sendVars, closeVars, failed>>
        /\ pc[Receiver] # "close"
    BY <1>3 DEF RegisterRecv, WSARecv, ProcessRecv, RecvHandled, Step, At
  <2> QED
    BY <2>1, <2>2, ReceiverMoves DEF IInv, Types, ReceiverLocations, Connectings
<1>4. CASE WSARecvFails
  <2>1. /\ failed' \in [connect : BOOLEAN, send : BOOLEAN, recv : BOOLEAN]
        /\ failed'.send = failed.send
    BY <1>4 DEF WSARecvFails, IInv, Types
  <2> QED
    BY <1>4, <2>1, ReceiverMoves DEF WSARecvFails, Step, At, ReceiverLocations, Connectings
<1>5. CASE WSARecvReset \/ ProcessRecvZero \/ RecvRefused
  BY <1>5, ReceiverDisconnects
    DEF WSARecvReset, ProcessRecvZero, RecvRefused, At, Connectings
<1> QED
  BY <1>1, <1>2, <1>3, <1>4, <1>5 DEF Connecting, Receiving

\* Every step preserves the invariant.
LEMMA NextInv == IInv /\ [Next]_vars => IInv'
<1> SUFFICES ASSUME IInv, [Next]_vars
             PROVE  IInv'
  OBVIOUS
<1>1. ASSUME NEW t \in Threads, Send(t) \/ Sending(t) \/ ProcessDisconnect(t)
      PROVE  IInv'
  BY <1>1, SendStep, SendPushStep, RegisterSendStep, DrainStep, WSASendStep, WSASendResetStep,
     WSASendFailsStep, ClearStep, UnsetStep, ProcessSendStep, ProcessSendZeroStep,
     CheckQueueStep, ProcessDisconnectStep DEF Sending
<1>2. ASSUME NEW a \in Actors, Closing(a)
      PROVE  IInv'
  BY <1>2, RegisterDisconnectStep, DisconnectDirectlyStep DEF Closing
<1>3. CASE Connecting \/ Receiving
  BY <1>3, ReceiverStep
<1>4. CASE UNCHANGED vars
  <2>1. Types' /\ PushesCounted' /\ Local' /\ Untouched' /\ OneCloser'
    BY <1>4 DEF vars, sendVars, closeVars, IInv, Types, PushesCounted, Pushing, Local,
       Untouched, OneCloser
  <2>2. /\ SendEventHasOneOwner' /\ EventInUse' /\ RegisteredHasOwner'
        /\ QueuedIsRegistered' /\ SendsInOrder'
    BY <1>4 DEF vars, sendVars, closeVars, IInv, SendEventHasOneOwner, Owns, EventInUse, Filled,
       RegisteredHasOwner, QueuedIsRegistered, SendsInOrder, Unposted
  <2> QED
    BY <2>1, <2>2 DEF IInv
<1> QED
  BY <1>1, <1>2, <1>3, <1>4 DEF Next

\* What the invariant says of the properties.
LEMMA InvImplies ==
    ASSUME IInv
    PROVE  TypeOK /\ NotifiedOnce /\ QueueIsWatched
<1> USE DEF IInv
<1>1. TypeOK
  <2>1. Cardinality(Pushing) \in Nat
    BY FS_CardinalityType DEF PushesCounted
  <2>2. pushed \in 0..sends
    BY <2>1 DEF PushesCounted, Types
  <2> QED
    BY <2>2 DEF TypeOK, Types, ThreadLocations, ReceiverLocations, Connectings
<1>2. NotifiedOnce
  BY DEF NotifiedOnce, Closed, OneCloser, Untouched, Connectings, Types
<1>3. QueueIsWatched
  BY DEF QueueIsWatched, QueuedIsRegistered, RegisteredHasOwner
<1> QED
  BY <1>1, <1>2, <1>3

\* The invariant holds in every state of every behaviour.
LEMMA Always == Spec => []IInv
BY InitInv, NextInv, PTL DEF Spec

-------------------------------------------------------------------------------

\* Every variable of a session keeps its type: no push has a number that was not
\* given out.
THEOREM TypeCorrect == Spec => []TypeOK
<1>1. IInv => TypeOK
  BY InvImplies
<1> QED
  BY <1>1, Always, PTL

\* However many threads send, complete and disconnect, _sendEvent has one owner:
\* WSASend is never called on an event that is in use (RegisterSend, ProcessSend).
THEOREM OneOwner == Spec => []SendEventHasOneOwner
<1>1. IInv => SendEventHasOneOwner
  BY DEF IInv
<1> QED
  BY <1>1, Always, PTL

\* As long as no WSASend fails, the peer gets every buffer once, in the order in
\* which Send pushed them.
THEOREM InOrder == Spec => []SendsInOrder
<1>1. IInv => SendsInOrder
  BY DEF IInv
<1> QED
  BY <1>1, Always, PTL

\* A buffer queued while a send is under way is not forgotten: somebody is on the
\* way to it.
THEOREM Watched == Spec => []QueueIsWatched
<1>1. IInv => QueueIsWatched
  BY InvImplies
<1> QED
  BY <1>1, Always, PTL

\* Disconnects from three sides lead to one OnDisconnected at most.
THEOREM Once == Spec => []NotifiedOnce
<1>1. IInv => NotifiedOnce
  BY InvImplies
<1> QED
  BY <1>1, Always, PTL

\* The end of a session is in one place: an actor's between the exchange of
\* _connected and its DisconnectEx, the kernel's, or behind it.
EndIsInOnePlace ==
    /\ Closed => \/ \E a \in Actors : pc[a] = "close"
                 \/ disconnecting
                 \/ notified = 1
    /\ \A a \in Actors : pc[a] = "close" => ~disconnecting /\ notified = 0
    /\ \A a, b \in Actors : pc[a] = "close" /\ pc[b] = "close" => a = b
    /\ disconnecting => notified = 0

\* A session that has just closed is in the hands of whoever closed it.
LEMMA DisconnectTakesOver ==
    ASSUME Types, NEW a \in Actors, NEW next \in Names, Disconnect(a, next), connected
    PROVE  \E b \in Actors : pc'[b] = "close"
BY DEF Disconnect, GoTo, Types

\* What makes the place: the end is passed on, and never dropped.
Placed == Closed => (\E a \in Actors : pc[a] = "close") \/ disconnecting \/ notified = 1

\* An actor that is not in Disconnect passes nothing on.
LEMMA PlacedKept ==
    ASSUME IInv, Placed, Closed, NEW a \in Actors, pc[a] # "close", NEW to, GoTo(a, to),
           UNCHANGED <<disconnecting, notified>>
    PROVE  Placed'
<1>1. \A b \in Actors \ {a} : pc'[b] = pc[b]
  BY DEF GoTo, IInv, Types
<1> QED
  BY <1>1 DEF Placed

\* Every step passes it on.
LEMMA PlacedStep ==
    ASSUME IInv, Placed, [Next]_vars
    PROVE  Placed'
<1> USE DEF IInv
<1>1. CASE UNCHANGED vars
  BY <1>1 DEF vars, closeVars, Placed, Closed
<1>2. ASSUME NEW a \in Actors, Closing(a)
      PROVE  Placed'
  BY <1>2 DEF Closing, RegisterDisconnect, DisconnectDirectly, closeVars, Step, At,
              OneCloser, Placed
<1>3. ASSUME NEW t \in Threads, ProcessDisconnect(t)
      PROVE  Placed'
  BY <1>3 DEF ProcessDisconnect, OneCloser, Placed
<1>4. ASSUME NEW t \in Threads, Send(t) \/ Sending(t)
      PROVE  Placed'
  <2>1. /\ t \in Actors /\ pc[t] # "close" /\ UNCHANGED <<disconnecting, notified>>
        /\ \E to : GoTo(t, to)
    BY <1>4, ActorsApart DEF Send, Sending, SendPush, RegisterSend, Drain, WSASend, WSASendReset,
       WSASendFails, Clear, Unset, ProcessSend, ProcessSendZero, CheckQueue, Completes,
       Disconnect, Step, At, closeVars
  <2>2. pc'[Receiver] = pc[Receiver]
    BY <2>1, ActorsApart DEF GoTo, Types
  <2>3. CASE connected /\ ~connected'
    <3>1. \E next \in {"clear", "idle"} : Disconnect(t, next)
      BY <1>4, <2>3 DEF Send, Sending, SendPush, RegisterSend, Drain, WSASend, WSASendReset,
         WSASendFails, Clear, Unset, ProcessSend, ProcessSendZero, CheckQueue, closeVars
    <3> QED
      BY <2>1, <2>3, <3>1, DisconnectTakesOver DEF Placed, Names, ThreadLocations
  <2>4. CASE connected'
    BY <2>4 DEF Placed, Closed
  <2>5. CASE ~connected /\ ~connected'
    <3>1. Closed' => Closed
      BY <2>2, <2>5 DEF Closed
    <3> QED
      BY <2>1, <3>1, PlacedKept DEF Placed
  <2> QED
    BY <2>3, <2>4, <2>5
<1>5. CASE Receiving
  <2>1. /\ Receiver \in Actors /\ pc[Receiver] \notin Connectings \cup {"close"}
        /\ UNCHANGED <<disconnecting, notified>>
        /\ \E to : GoTo(Receiver, to)
    BY <1>5, ActorsApart DEF Receiving, RegisterRecv, WSARecv, WSARecvReset, WSARecvFails,
       ProcessRecv, ProcessRecvZero, RecvHandled, RecvRefused, Disconnect, Step, At, closeVars,
       Connectings
  <2>2. CASE connected /\ ~connected'
    <3>1. Disconnect(Receiver, "none")
      BY <1>5, <2>2 DEF Receiving, RegisterRecv, WSARecv, WSARecvReset, WSARecvFails,
         ProcessRecv, ProcessRecvZero, RecvHandled, RecvRefused, closeVars
    <3> QED
      BY <2>1, <2>2, <3>1, DisconnectTakesOver DEF Placed, Names, ReceiverLocations
  <2>3. CASE connected'
    BY <2>3 DEF Placed, Closed
  <2>4. CASE ~connected /\ ~connected'
    <3>1. Closed
      BY <2>1, <2>4 DEF Closed, Connectings
    <3> QED
      BY <2>1, <3>1, PlacedKept
  <2> QED
    BY <2>2, <2>3, <2>4
<1>6. CASE Connecting
  <2>1. ~Closed'
    BY <1>6 DEF Connecting, RegisterConnect, RegisterConnectFails, ProcessConnect, Step, At,
       GoTo, closeVars, Closed, Untouched, Connectings, Types, Actors
  <2> QED
    BY <2>1 DEF Placed
<1> QED
  BY <1>1, <1>2, <1>3, <1>4, <1>5, <1>6 DEF Next

\* Wherever a session is disconnected from, and whatever DisconnectEx does, its end
\* is under way in one place until OnDisconnected was called.
THEOREM EndIsUnderWay == Spec => []EndIsInOnePlace
<1>1. Init => Placed
  BY ActorsApart DEF Init, Placed, Closed
<1>2. IInv /\ Placed => EndIsInOnePlace
  BY DEF IInv, OneCloser, Placed, EndIsInOnePlace
<1> QED
  BY <1>1, <1>2, PlacedStep, Always, PTL DEF Spec

-------------------------------------------------------------------------------

\* Two sequences that were concatenated can be cut where they meet.
LEMMA CutConcat ==
    ASSUME NEW S, NEW s \in Seq(S), NEW u \in Seq(S)
    PROVE  /\ SubSeq(s \o u, 1, Len(s)) = s
           /\ SubSeq(s \o u, Len(s) + 1, Len(s \o u)) = u
<1>1. /\ s \o u \in Seq(S) /\ Len(s \o u) = Len(s) + Len(u)
      /\ \A i \in 1..Len(s) : (s \o u)[i] = s[i]
      /\ \A i \in 1..Len(u) : (s \o u)[Len(s) + i] = u[i]
  BY ConcatProperties
<1>2. Len(s) \in Nat /\ Len(u) \in Nat
  BY LenProperties
<1>3. SubSeq(s \o u, 1, Len(s)) = s
  BY <1>1, <1>2
<1>4. SubSeq(s \o u, Len(s) + 1, Len(s \o u)) = u
  BY <1>1, <1>2
<1> QED
  BY <1>3, <1>4

\* The channel is open, new or closed as it was, unless the session is connected
\* or disconnected.
LEMMA StatusKept ==
    ASSUME connected' = connected,
           pc'[Receiver] \in Connectings <=> pc[Receiver] \in Connectings
    PROVE  Status' = Status
BY DEF Status, Closed, Connectings

\* Who has filled the event owns it, and is the only one; once anybody has it,
\* the session is past its connect.
LEMMA FilledOwns ==
    ASSUME IInv, NEW t \in Threads, Owns(t)
    PROVE  /\ \A u \in Threads : u # t => ~Filled(u)
           /\ pc[Receiver] \notin Connectings
           /\ ~posted
BY DEF IInv, SendEventHasOneOwner, Owns, Filled, Untouched

\* A session begins as a channel that is open, or new, and empty.
LEMMA InitChannel == Init => Channel!Init
<1> SUFFICES ASSUME Init
             PROVE  Channel!Init
  OBVIOUS
<1>1. Taken = <<>> /\ Waiting = <<>>
  <2>1. \A t \in Threads : ~Filled(t)
    BY ActorsApart DEF Init, Filled
  <2> QED
    BY <2>1, EmptySeq, ConcatEmptySeq DEF Init, Taken, Waiting
<1>2. Status \in {"new", "open"}
  BY ActorsApart DEF Init, Status, Closed
<1> QED
  BY <1>1, <1>2 DEF Init, Channel!Init

\* A step that changes neither the buffers nor who has filled the event.
LEMMA Idles ==
    ASSUME IInv, UNCHANGED <<connected, queue, event, wire, pushed>>,
           failed'.send = failed.send, notified' = notified,
           pc'[Receiver] \in Connectings <=> pc[Receiver] \in Connectings,
           (\E t \in Threads : Filled(t)') <=> (\E t \in Threads : Filled(t))
    PROVE  UNCHANGED Channel!vars
BY StatusKept DEF Channel!vars, Taken, Waiting

\* The buffers are numbers.
LEMMA SendsAreInts ==
    ASSUME IInv
    PROVE  queue \in Seq(Int) /\ event \in Seq(Int)
<1>1. Numbers \subseteq Int
  BY DEF Numbers
<1>2. queue \in Seq(Numbers) /\ event \in Seq(Numbers)
  BY DEF IInv, Types
<1> QED
  BY <1>1, <1>2, SeqMonotonic

\* The push under WRITE_LOCK is what gives a buffer to the channel.
LEMMA PushGives ==
    ASSUME IInv, NEW t \in Threads, SendPush(t)
    PROVE  Channel!Give
<1> USE ActorsApart DEF IInv, SendPush, At, GoTo, closeVars
<1>1. pc[Receiver] \notin Connectings /\ pc'[Receiver] = pc[Receiver]
  BY DEF Untouched, Types
<1>2. Status # "new" /\ Status' = Status
  BY <1>1, StatusKept DEF Status, Closed, Connectings
<1>3. Taken' = Taken /\ Taken \in Seq(Int)
  <2>1. \A u \in Threads : Filled(u)' <=> Filled(u)
    BY DEF Filled, Types
  <2>2. event \in Seq(Int) /\ <<>> \in Seq(Int)
    BY SendsAreInts, EmptySeq
  <2> QED
    BY <2>1, <2>2 DEF Taken
<1>4. Waiting' = Append(Waiting, pushed')
  <2>1. queue \in Seq(Int) /\ <<pushed'>> \in Seq(Int) /\ pushed' \in Int
    BY SendsAreInts DEF Types
  <2>2. Taken \o (queue \o <<pushed'>>) = (Taken \o queue) \o <<pushed'>>
    BY <1>3, <2>1, ConcatAssociative
  <2>3. Taken \o queue \in Seq(Int)
    BY <1>3, <2>1, ConcatProperties
  <2>4. /\ Append(queue, pushed') = queue \o <<pushed'>>
        /\ Append(Taken \o queue, pushed') = (Taken \o queue) \o <<pushed'>>
    BY <2>1, <2>3, AppendIsConcat
  <2> QED
    BY <1>3, <2>2, <2>4 DEF Waiting
<1> QED
  BY <1>2, <1>4 DEF Channel!Give

\* Moving the queue to the event is not seen.
LEMMA DrainIdles ==
    ASSUME IInv, NEW t \in Threads, Drain(t)
    PROVE  UNCHANGED Channel!vars
<1> USE ActorsApart DEF IInv, Drain, Step, At, GoTo, closeVars
<1>1. ~posted /\ \A u \in Threads : ~Filled(u)
  BY FilledOwns DEF Owns, Filled
<1>2. Taken = <<>> /\ event = <<>>
  BY <1>1 DEF Taken, EventInUse
<1>3. Filled(t)'
  BY DEF Filled, Types
<1>4. Taken' = queue
  BY <1>2, <1>3, ConcatEmptySeq DEF Taken, Types
<1>5. Waiting' = Waiting
  BY <1>2, <1>4, ConcatEmptySeq DEF Waiting, Types
<1>6. Status' = Status
  BY StatusKept DEF Types
<1> QED
  BY <1>5, <1>6 DEF Channel!vars

\* What the thread that has filled the event takes from the channel.
LEMMA TakenIsFirst ==
    ASSUME IInv, NEW t \in Threads, Filled(t)
    PROVE  /\ Taken = event
           /\ Channel!First(Len(event)) = event
           /\ Channel!Rest(Len(event)) = queue
           /\ event # <<>> => Len(event) \in 1..Len(Waiting)
           /\ event = <<>> => Waiting = queue
<1>1. Taken = event
  BY DEF Taken
<1>2. event \in Seq(Numbers) /\ queue \in Seq(Numbers)
  BY DEF IInv, Types
<1>3. Len(Waiting) = Len(event) + Len(queue)
  BY <1>1, <1>2, ConcatProperties DEF Waiting
<1>4. event # <<>> => Len(event) \in 1..Len(Waiting)
  BY <1>2, <1>3, EmptySeq, LenProperties
<1>5. event = <<>> => Waiting = queue
  BY <1>1, <1>2, ConcatEmptySeq DEF Waiting
<1> QED
  BY <1>1, <1>2, <1>4, <1>5, CutConcat DEF Waiting, Channel!First, Channel!Rest

\* WSASend hands the event to the kernel, in front of what is queued.
LEMMA WSASendHands ==
    ASSUME IInv, NEW t \in Threads, WSASend(t)
    PROVE  [Channel!Next]_(Channel!vars)
<1> USE ActorsApart DEF IInv, WSASend, Step, At, GoTo, closeVars
<1>1. Filled(t)
  BY DEF Filled
<1>2. \A u \in Threads : ~Filled(u)'
  BY FilledOwns DEF Owns, Filled, Types
<1>3. Waiting' = queue
  BY <1>2, ConcatEmptySeq DEF Taken, Waiting, Types
<1>4. Status' = Status
  BY StatusKept DEF Types
<1>5. CASE event = <<>>
  <2>1. wire' = wire
    BY <1>5, ConcatEmptySeq DEF Types
  <2> QED
    BY <1>1, <1>3, <1>4, <1>5, <2>1, TakenIsFirst DEF Channel!vars
<1>6. CASE event # <<>>
  <2>1. Channel!Hand(Len(event))
    BY <1>1, <1>3, <1>4, TakenIsFirst DEF Channel!Hand
  <2> QED
    BY <1>1, <1>6, <2>1, TakenIsFirst DEF Channel!Next
<1> QED
  BY <1>5, <1>6

\* The owner clears the event only of a session that ended, or after a failure.
LEMMA ClearDrops ==
    ASSUME IInv, NEW t \in Threads, Clear(t)
    PROVE  [Channel!Next]_(Channel!vars)
<1> USE ActorsApart DEF IInv, Clear, Step, At, GoTo, closeVars
<1>1. Filled(t)
  BY DEF Filled
<1>2. Waiting' = queue
  BY EmptySeq, ConcatEmptySeq DEF Taken, Waiting, Types
<1>3. Status' = Status
  BY StatusKept DEF Types
<1>4. Status = "closed" \/ failed.send
  BY FilledOwns DEF Local, Status, Closed, Owns, Connectings
<1>5. CASE event = <<>>
  BY <1>1, <1>2, <1>3, <1>5, TakenIsFirst DEF Channel!vars
<1>6. CASE event # <<>>
  <2>1. Channel!Drop(Len(event))
    BY <1>1, <1>2, <1>3, <1>4, TakenIsFirst DEF Channel!Drop
  <2> QED
    BY <1>1, <1>6, <2>1, TakenIsFirst DEF Channel!Next
<1> QED
  BY <1>5, <1>6

\* Whatever disconnects a connected session closes the channel, once.
LEMMA DisconnectCloses ==
    ASSUME IInv, NEW a \in Actors, NEW next, Disconnect(a, next),
           UNCHANGED <<queue, pushed, wire, notified, failed>>, Waiting' = Waiting,
           pc[Receiver] \notin Connectings, pc'[Receiver] \notin Connectings
    PROVE  [Channel!Next]_(Channel!vars)
<1>1. Status' = "closed"
  BY DEF Disconnect, Status, Closed, Connectings
<1>2. CASE connected
  <2>1. Channel!Close
    BY <1>1, <1>2 DEF Channel!Close, Status
  <2> QED
    BY <2>1 DEF Channel!Next
<1>3. CASE ~connected
  BY <1>1, <1>3 DEF Channel!vars, Status, Closed, Connectings
<1> QED
  BY <1>2, <1>3

\* A reset at the send leaves the event to the thread that clears it.
LEMMA ResetCloses ==
    ASSUME IInv, NEW t \in Threads, WSASendReset(t)
    PROVE  [Channel!Next]_(Channel!vars)
<1> USE ActorsApart DEF IInv, WSASendReset, At
<1>1. Filled(t) /\ Filled(t)'
  BY DEF Filled, Disconnect, GoTo, Types
<1>2. Waiting' = Waiting
  BY <1>1 DEF Waiting, Taken, sendVars
<1>3. pc[Receiver] \notin Connectings /\ pc'[Receiver] = pc[Receiver]
  BY FilledOwns DEF Owns, Disconnect, GoTo, Types
<1> QED
  BY <1>2, <1>3, DisconnectCloses DEF sendVars

\* What the kernel could not send was handed on before; nobody has filled the event.
LEMMA ZeroCloses ==
    ASSUME IInv, NEW t \in Threads, ProcessSendZero(t)
    PROVE  [Channel!Next]_(Channel!vars)
<1> USE ActorsApart DEF IInv, ProcessSendZero, Completes, At
<1>1. \A u \in Threads : ~Filled(u)
  BY DEF SendEventHasOneOwner, Owns, Filled
<1>2. \A u \in Threads : ~Filled(u)'
  BY <1>1 DEF Filled, Disconnect, GoTo, Types
<1>3. Waiting' = Waiting
  BY <1>1, <1>2 DEF Waiting, Taken
<1>4. pc[Receiver] \notin Connectings /\ pc'[Receiver] = pc[Receiver]
  BY DEF Untouched, Disconnect, GoTo, Types
<1> QED
  BY <1>3, <1>4, DisconnectCloses

\* Where the receiver is does not matter to the buffers.
LEMMA ReceiverFillsNothing ==
    ASSUME IInv, UNCHANGED sendVars,
           \A t \in Threads : pc'[t] = pc[t] /\ ret'[t] = ret[t]
    PROVE  /\ Waiting' = Waiting
           /\ (\E t \in Threads : Filled(t)') <=> (\E t \in Threads : Filled(t))
BY DEF Waiting, Taken, Filled, sendVars

\* The connect opens the channel; a receive may close it, and does nothing else.
LEMMA ReceiverImplements ==
    ASSUME IInv, Connecting \/ Receiving
    PROVE  [Channel!Next]_(Channel!vars)
<1> USE ActorsApart DEF IInv, Step, At, closeVars
<1>1. CASE ProcessConnect
  <2>1. Waiting' = Waiting
    BY <1>1, ReceiverFillsNothing DEF ProcessConnect, GoTo, Types
  <2>2. Status = "new" /\ Status' = "open"
    BY <1>1 DEF ProcessConnect, Status, Closed, Untouched, Connectings
  <2>3. Channel!Open
    BY <1>1, <2>1, <2>2 DEF ProcessConnect, Channel!Open, sendVars, Types
  <2> QED
    BY <2>3 DEF Channel!Next
<1>2. CASE RegisterConnect \/ RegisterConnectFails
  <2>1. /\ pc[Receiver] \in Connectings /\ pc'[Receiver] \in Connectings
        /\ \A t \in Threads : pc'[t] = pc[t] /\ ret'[t] = ret[t]
        /\ UNCHANGED <<sendVars, closeVars, failed>>
    BY <1>2 DEF RegisterConnect, RegisterConnectFails, GoTo, Types, Connectings
  <2> QED
    BY <2>1, ReceiverFillsNothing, Idles DEF sendVars
<1>3. CASE RegisterRecv \/ WSARecv \/ WSARecvFails \/ ProcessRecv \/ RecvHandled
  <2>1. /\ pc[Receiver] \notin Connectings /\ pc'[Receiver] \notin Connectings
        /\ \A t \in Threads : pc'[t] = pc[t] /\ ret'[t] = ret[t]
        /\ UNCHANGED <<sendVars, closeVars>> /\ failed'.send = failed.send
    BY <1>3 DEF RegisterRecv, WSARecv, WSARecvFails, ProcessRecv, RecvHandled, GoTo, Types,
                Connectings
  <2> QED
    BY <2>1, ReceiverFillsNothing, Idles DEF sendVars
<1>4. CASE WSARecvReset \/ ProcessRecvZero \/ RecvRefused
  <2>1. /\ Disconnect(Receiver, "none") /\ pc[Receiver] \notin Connectings
        /\ UNCHANGED <<sendVars, disconnecting, notified, failed>>
    BY <1>4 DEF WSARecvReset, ProcessRecvZero, RecvRefused, Connectings
  <2>2. /\ pc'[Receiver] \notin Connectings
        /\ \A t \in Threads : pc'[t] = pc[t] /\ ret'[t] = ret[t]
    BY <2>1 DEF Disconnect, GoTo, Types, Connectings
  <2> QED
    BY <2>1, <2>2, ReceiverFillsNothing, DisconnectCloses DEF sendVars
<1> QED
  BY <1>1, <1>2, <1>3, <1>4 DEF Connecting, Receiving

\* OnDisconnected is called with the only token, so it is the first call.
LEMMA ClosingImplements ==
    ASSUME IInv, NEW a \in Actors, Closing(a)
    PROVE  [Channel!Next]_(Channel!vars)
<1> USE ActorsApart DEF IInv, Step, At, GoTo
<1>1. /\ pc[a] = "close" /\ pc' = [pc EXCEPT ![a] = ret[a]]
      /\ UNCHANGED <<sendVars, connected, ret, failed>>
  BY DEF Closing, RegisterDisconnect, DisconnectDirectly
<1>2. Waiting' = Waiting /\ Status' = Status
  <2>1. \A t \in Threads : Filled(t)' <=> Filled(t)
    BY <1>1 DEF Filled, Local, Types
  <2>2. pc'[Receiver] \in Connectings <=> pc[Receiver] \in Connectings
    BY <1>1 DEF Local, Types, Connectings
  <2> QED
    BY <1>1, <2>1, <2>2, StatusKept DEF Waiting, Taken, sendVars
<1>3. Status = "closed"
  BY <1>1 DEF OneCloser, Untouched, Status, Closed, Connectings, Actors
<1>4. CASE RegisterDisconnect(a)
  BY <1>1, <1>2, <1>4 DEF RegisterDisconnect, Channel!vars, sendVars
<1>5. CASE DisconnectDirectly(a)
  <2>1. notified = 0 /\ notified' = 1
    BY <1>1, <1>5 DEF OneCloser, DisconnectDirectly
  <2>2. Channel!Tell
    BY <1>1, <1>2, <1>3, <2>1 DEF Channel!Tell, sendVars
  <2> QED
    BY <2>2 DEF Channel!Next
<1> QED
  BY <1>4, <1>5 DEF Closing

\* So it is in the completion of DisconnectEx.
LEMMA ProcessDisconnectTells ==
    ASSUME IInv, NEW t \in Threads, ProcessDisconnect(t)
    PROVE  [Channel!Next]_(Channel!vars)
<1> USE DEF IInv, ProcessDisconnect
<1>1. notified = 0 /\ notified' = 1 /\ Status = "closed"
  BY DEF OneCloser, Untouched, Status, Closed, Connectings
<1>2. Waiting' = Waiting /\ Status' = Status
  BY ReceiverFillsNothing, StatusKept
<1>3. Channel!Tell
  BY <1>1, <1>2 DEF Channel!Tell, sendVars
<1> QED
  BY <1>3 DEF Channel!Next

\* The steps of Send, RegisterSend and ProcessSend that the channel does not see.
LEMMA SendingIdles ==
    ASSUME IInv, NEW t \in Threads,
           Send(t) \/ RegisterSend(t) \/ Unset(t) \/ ProcessSend(t) \/ CheckQueue(t)
    PROVE  UNCHANGED Channel!vars
<1> USE ActorsApart DEF IInv, Step, At, GoTo, Completes, sendVars, closeVars
<1>1. /\ UNCHANGED <<connected, queue, wire, pushed, failed, notified>>
      /\ pc'[Receiver] = pc[Receiver]
  BY DEF Send, RegisterSend, Unset, ProcessSend, CheckQueue, Types
<1>2. \A u \in Threads : Filled(u)' <=> Filled(u)
  BY DEF Send, RegisterSend, Unset, ProcessSend, CheckQueue, Filled, Types
<1>3. Taken' = Taken
  <2>1. CASE ProcessSend(t)
    <3>1. \A u \in Threads : ~Filled(u)
      BY <2>1 DEF ProcessSend, SendEventHasOneOwner, Owns, Filled
    <3> QED
      BY <1>2, <3>1 DEF Taken
  <2>2. CASE event' = event
    BY <1>2, <2>2 DEF Taken
  <2> QED
    BY <2>1, <2>2 DEF Send, RegisterSend, Unset, CheckQueue
<1> QED
  BY <1>1, <1>3, StatusKept DEF Channel!vars, Waiting

\* A WSASend that fails with a logged error breaks the channel and keeps it open.
LEMMA FailureBreaks ==
    ASSUME IInv, NEW t \in Threads, WSASendFails(t)
    PROVE  [Channel!Next]_(Channel!vars)
<1> USE ActorsApart DEF IInv, WSASendFails, Step, At, GoTo, sendVars, closeVars
<1>1. Filled(t) /\ Filled(t)'
  BY DEF Filled, Types
<1>2. Waiting' = Waiting /\ failed'.send = TRUE
  BY <1>1 DEF Waiting, Taken, Types
<1>3. Status' = Status
  BY StatusKept DEF Types
<1>4. Channel!Break
  BY <1>2, <1>3 DEF Channel!Break
<1> QED
  BY <1>4 DEF Channel!Next

\* A session implements the ordered channel: whatever its threads, completions,
\* failures and disconnects do, buffers go out once and in the order of the pushes,
\* none is dropped but after an end or a failure, and OnDisconnected is called once
\* and after the end.
THEOREM Refinement == Spec => ImplementsChannel
<1>1. IInv /\ [Next]_vars => [Channel!Next]_(Channel!vars)
  <2> SUFFICES ASSUME IInv, [Next]_vars
               PROVE  [Channel!Next]_(Channel!vars)
    OBVIOUS
  <2>1. ASSUME NEW t \in Threads, Send(t) \/ Sending(t) \/ ProcessDisconnect(t)
        PROVE  [Channel!Next]_(Channel!vars)
    <3>1. CASE SendPush(t)
      BY <3>1, PushGives DEF Channel!Next
    <3>2. CASE ~SendPush(t)
      BY <2>1, <3>2, SendingIdles, DrainIdles, WSASendHands, ResetCloses, FailureBreaks,
         ClearDrops, ZeroCloses, ProcessDisconnectTells DEF Sending
    <3> QED
      BY <3>1, <3>2
  <2>2. CASE UNCHANGED vars
    BY <2>2, ReceiverFillsNothing, StatusKept DEF vars, sendVars, closeVars, Channel!vars
  <2> QED
    BY <2>1, <2>2, ClosingImplements, ReceiverImplements DEF Next
<1> QED
  BY <1>1, InitChannel, Always, PTL DEF Spec, ImplementsChannel, Channel!Spec

===============================================================================
