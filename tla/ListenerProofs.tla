----------------------------- MODULE ListenerProofs -----------------------------
(***************************************************************************)
(* Theorems about Listener and the session manager it drives, for any       *)
(* threads, sessions, accept events, broadcasts, failures and depth of      *)
(* guards: first what every step of SessionManager preserves, then the      *)
(* behaviours of Listener, which take these steps.                          *)
(***************************************************************************)
EXTENDS Listener, RWLockProofs

(***************************************************************************)
(* The session manager.                                                     *)
(***************************************************************************)

\* Where a thread is in the lock, by what it does in the manager.
Place(t) ==
    /\ task[t] \in {"idle", "added"} => held[t] = <<>> /\ pc[t] \in {"run", "store"}
    /\ task[t] \in {"add", "remove"} => \/ held[t] = <<>> /\ pc[t] = "spinWrite"
                                        \/ held[t] = <<"W">> /\ pc[t] = "run"
    /\ task[t] = "broadcast" => \/ held[t] = <<>> /\ pc[t] = "spinRead"
                                \/ held[t] = <<"R">> /\ pc[t] = "run"
    /\ task[t] = "loop" => held[t] = <<"R">> /\ pc[t] = "run"
    /\ task[t] = "cleanup" => held[t] = <<"R">> /\ pc[t] = "spinWrite"

\* The word names only a thread that is under WRITE_LOCK or about to leave it.
Named(t) == writer = t => held[t] = <<"W">> \/ pc[t] = "store"

\* As long as the process runs.
Orderly == crash = "none" => \A t \in Threads : Place(t) /\ Named(t)

\* A broadcast walks over listed sessions, and only while it is in its loop.
CursorListed ==
    \A t \in Threads :
        /\ cursor[t] \subseteq sessions
        /\ task[t] \notin {"loop", "cleanup"} => cursor[t] = {}

\* DisconnectEx is pending only for a session that is not connected any more.
ClosingClosed == \A s \in closing : status[s] = "closed"

\* A session is listed by one thread, once, and nobody closes it before.
AddedOnce ==
    /\ \A s \in sessions : status[s] # "new"
    /\ \A t \in Threads :
         /\ task[t] \in {"add", "added", "remove", "cleanup"} =>
                target[t] \in Sessions /\ status[target[t]] # "new"
         /\ task[t] = "add" => target[t] \notin sessions /\ status[target[t]] = "accepted"
    /\ \A t, u \in Threads :
         task[t] \in {"add", "added"} /\ task[u] \in {"add", "added"} /\ target[t] = target[u]
            => t = u

SMIInv ==
    /\ IInv
    /\ SMTypeOK
    /\ Orderly
    /\ CursorListed
    /\ AddedOnce
    /\ ClosingClosed
    /\ ClosedIsOnItsWayOut

-------------------------------------------------------------------------------

\* Every step of the manager is a step of its lock, or leaves the lock alone.
LEMMA StepOfLock == SMNext => [Next]_lockVars
BY DEF SMNext, Starts, Proceed, Removes, Continues, LockStep, Accept, AddInsert, AddReceive,
       AddReceiveFails, AddReceiveResets, AddReceiveResetsTwice, PeerCloses, PeerResets,
       ProcessDisconnect, RemoveNow, RemoveErase, Broadcast, BroadcastLoop, BroadcastEnd,
       SendDone, SendFails, SendFailsTwice, Next

\* Nobody holds more than one guard.
LEMMA Shallow ==
    ASSUME SMTypeOK, Orderly, crash = "none", NEW t \in Threads
    PROVE  held[t] \in {<<>>, <<"R">>, <<"W">>}
BY DEF SMTypeOK, Orderly, Place

\* So there is no write guard inside a read guard, and no unlock crashes.
LEMMA NeverNested ==
    ASSUME SMTypeOK, Orderly, crash = "none", IInv', held' = held
    PROVE  crash' \in {"none", "LOCK_TIMEOUT"}
<1>1. ASSUME NEW t \in Threads, WriteInsideRead(t)'
      PROVE  FALSE
  <2>1. PICK i \in 1..Len(held[t]), j \in 1..Len(held[t]) : i < j
    BY <1>1 DEF WriteInsideRead
  <2>2. held[t] \in {<<>>, <<"R">>, <<"W">>}
    BY Shallow
  <2>3. CASE held[t] = <<>>
    BY <2>1, <2>3
  <2>4. CASE held[t] # <<>>
    <3>1. Len(held[t]) = 1
      BY <2>2, <2>4
    <3>2. i = 1 /\ j = 1
      BY <3>1
    <3> QED
      BY <2>1, <3>2
  <2> QED
    BY <2>3, <2>4
<1> QED
  BY <1>1 DEF IInv, TypeOK, UnlockCrashesOnlyNested

\* A thread under WRITE_LOCK has locked once.
LEMMA WritesOnce ==
    ASSUME SMTypeOK, IInv, Orderly, crash = "none", NEW t \in Threads, held[t] = <<"W">>
    PROVE  writeCount = 1
<1>1. \A u \in Threads : u # t => held[u] = <<>>
  <2>1. Holds(t, "W")
    <3>1. 1 \in 1..Len(held[t]) /\ held[t][1] = "W"
      OBVIOUS
    <3> QED
      BY <3>1 DEF Holds
  <2> QED
    BY <2>1 DEF IInv, GuardNamesWriter, WriterAlone
<1>2. 1 \in 1..MaxDepth
  <2>1. Len(held[t]) <= MaxDepth
    BY DEF IInv, Bounded
  <2>2. Len(held[t]) = 1
    OBVIOUS
  <2> QED
    BY <2>1, <2>2, DepthAssumption
<1>3. Guards("W") = {<<t, 1>>}
  <2>1. ASSUME NEW g \in Guards("W")
        PROVE  g = <<t, 1>>
    <3>1. g \in Threads \X (1..MaxDepth) /\ g[2] <= Len(held[g[1]])
      BY DEF Guards
    <3>2. g[1] = t
      BY <1>1, <3>1, DepthAssumption
    <3>3. Len(held[g[1]]) = 1
      BY <3>2
    <3>4. g[2] \in 1..MaxDepth /\ g[2] <= 1
      BY <3>1, <3>3
    <3>5. g[2] = 1
      BY <3>4, DepthAssumption
    <3> QED
      BY <3>1, <3>2, <3>5
  <2>2. <<t, 1>> \in Guards("W")
    BY <1>2 DEF Guards
  <2> QED
    BY <2>1, <2>2
<1> QED
  BY <1>3, FS_Singleton DEF IInv, Counted

\* Asking for the write lock is the beginning of a spin: the word does not name
\* a thread that holds no write.
LEMMA AsksToWrite ==
    ASSUME SMTypeOK, Orderly, NEW t \in Threads, held[t] # <<"W">>, WriteLock(t)
    PROVE  /\ pc' = [pc EXCEPT ![t] = "spinWrite"]
           /\ UNCHANGED <<writer, held, crash>>
BY DEF Orderly, Named, WriteLock, Running, GoTo

\* A call of READ_LOCK too is the beginning of a spin: the thread holds no write.
LEMMA AsksToRead ==
    ASSUME SMTypeOK, Orderly, NEW t \in Threads, held[t] # <<"W">>, ReadLock(t)
    PROVE  /\ pc' = [pc EXCEPT ![t] = "spinRead"]
           /\ UNCHANGED <<writer, held, crash>>
BY DEF Orderly, Named, ReadLock, Running, GoTo

\* The end of a critical section is in order, and goes on to the store.
LEMMA EndsWrite ==
    ASSUME SMTypeOK, IInv, IInv', Orderly, NEW t \in Threads, held[t] = <<"W">>, WriteUnlock(t)
    PROVE  /\ pc' = [pc EXCEPT ![t] = "store"]
           /\ held' = [held EXCEPT ![t] = <<>>]
           /\ UNCHANGED <<writer, crash>>
<1>1. crash = "none"
  BY DEF WriteUnlock, Running
<1>2. readers = 0
  <2> SUFFICES ASSUME readers # 0
               PROVE  FALSE
    OBVIOUS
  <2>1. held' = held /\ crash' = "INVALID_UNLOCK_ORDER"
    BY DEF WriteUnlock
  <2> QED
    BY <1>1, <2>1, NeverNested
<1>3. writeCount = 1
  BY <1>1, WritesOnce
<1>4. Front(<<"W">>) = <<>>
  BY DEF Front
<1> QED
  BY <1>2, <1>3, <1>4 DEF WriteUnlock, Drop, GoTo

\* The end of a read section is in order too: the reader was counted.
LEMMA EndsRead ==
    ASSUME SMTypeOK, IInv, NEW t \in Threads, held[t] = <<"R">>, ReadUnlock(t)
    PROVE  /\ held' = [held EXCEPT ![t] = <<>>]
           /\ UNCHANGED <<writer, pc, crash>>
<1>1. readers # 0
  BY HolderCounted DEF Holds, Kinds, IInv, Counted
<1>2. Front(<<"R">>) = <<>>
  BY DEF Front
<1> QED
  BY <1>1, <1>2 DEF ReadUnlock, Drop

-------------------------------------------------------------------------------

\* What is left to show of a step, once the lock has made its own: a thread in
\* the manager, or in a loop, and what the others see of it.
Rest == /\ SMTypeOK /\ Orderly /\ CursorListed /\ AddedOnce
        /\ ClosingClosed /\ ClosedIsOnItsWayOut

\* A section under WRITE_LOCK, and a loop, are not open at the same time.
LEMMA NoLoopBeside ==
    ASSUME SMIInv, crash = "none", NEW t \in Threads, held[t] = <<"W">>, NEW u \in Threads
    PROVE  task[u] \notin {"loop", "cleanup"} /\ cursor[u] = {}
<1>1. u # t => held[u] = <<>>
  <2>1. Holds(t, "W")
    BY DEF Holds
  <2> QED
    BY <2>1 DEF SMIInv, IInv, GuardNamesWriter, WriterAlone
<1>2. held[u] # <<"R">>
  BY <1>1
<1> QED
  BY <1>2 DEF SMIInv, Orderly, Place, CursorListed

\* Accept: a new session gets a thread that adds it.
LEMMA AcceptStep ==
    ASSUME SMIInv, IInv', NEW t \in Threads, NEW s \in Sessions, Accept(t, s)
    PROVE  Rest' /\ UNCHANGED sessions
<1> USE DEF SMIInv
<1>1. task[t] = "idle" /\ held[t] = <<>> /\ crash = "none" /\ pc[t] = "run"
  BY DEF Accept, Begin, Running, Orderly, Place
<1>2. pc' = [pc EXCEPT ![t] = "spinWrite"] /\ UNCHANGED <<writer, held, crash>>
  BY <1>1, AsksToWrite DEF Accept
<1>3. SMTypeOK'
  BY DEF SMTypeOK, IInv, Accept, Begin
<1>4. Orderly'
  BY <1>1, <1>2 DEF Orderly, Place, Named, Accept, Begin, SMTypeOK, TypeOK
<1>5. CursorListed'
  BY DEF CursorListed, Accept, Begin, SMTypeOK
<1>6. AddedOnce'
  BY DEF AddedOnce, Accept, Begin, SMTypeOK
<1>7. ClosingClosed' /\ ClosedIsOnItsWayOut'
  BY <1>1 DEF ClosingClosed, ClosedIsOnItsWayOut, Accept, Begin, SMTypeOK
<1> QED
  BY <1>3, <1>4, <1>5, <1>6, <1>7 DEF Rest, Accept

\* The insert: the session was not listed and is connected.
LEMMA AddInsertStep ==
    ASSUME SMIInv, IInv', NEW t \in Threads, AddInsert(t)
    PROVE  Rest'
<1> USE DEF SMIInv
<1>1. task[t] = "add" /\ held[t] = <<"W">> /\ crash = "none"
  BY DEF AddInsert, Begin, Running, Orderly, Place
<1>2. /\ pc' = [pc EXCEPT ![t] = "store"]
      /\ held' = [held EXCEPT ![t] = <<>>]
      /\ UNCHANGED <<writer, crash>>
  BY <1>1, EndsWrite DEF AddInsert
<1>3. SMTypeOK'
  BY <1>1 DEF SMTypeOK, IInv, AddInsert, Begin, AddedOnce
<1>4. Orderly'
  BY <1>1, <1>2 DEF Orderly, Place, Named, AddInsert, Begin, SMTypeOK, TypeOK
<1>5. CursorListed'
  BY <1>1 DEF CursorListed, AddInsert, Begin, SMTypeOK
<1>6. AddedOnce'
  BY <1>1 DEF AddedOnce, AddInsert, Begin, SMTypeOK
<1>7. ClosingClosed' /\ ClosedIsOnItsWayOut'
  BY <1>1 DEF ClosingClosed, ClosedIsOnItsWayOut, AddInsert, Begin, SMTypeOK, AddedOnce
<1> QED
  BY <1>3, <1>4, <1>5, <1>6, <1>7 DEF Rest

\* The end of an accept: it may close its own session at once.
LEMMA AddedStep ==
    ASSUME SMIInv, IInv', NEW t \in Threads,
           AddReceive(t) \/ AddReceiveFails(t) \/ AddReceiveResets(t)
    PROVE  Rest' /\ UNCHANGED sessions
<1> USE DEF SMIInv
<1>1. /\ task[t] = "added" /\ UNCHANGED <<lockVars, sessions, cursor, broadcasts>>
      /\ task' = [task EXCEPT ![t] = "idle"] /\ target' = [target EXCEPT ![t] = NoSession]
  BY DEF AddReceive, AddReceiveFails, AddReceiveResets, Begin
<1>2. PICK s \in Sessions : target[t] = s /\ status[s] # "new"
  BY <1>1 DEF AddedOnce
<1>3. /\ \/ status' = status /\ closing' = closing
         \/ /\ status[s] # "closed" /\ closing' = closing
            /\ status' = [status EXCEPT ![s] = "receiving"]
         \/ /\ closing' = closing \cup {s}
            /\ status' = [status EXCEPT ![s] = "closed"]
  BY <1>2 DEF AddReceive, AddReceiveFails, AddReceiveResets, DisconnectLater, Connected
<1>4. SMTypeOK'
  BY <1>1, <1>3 DEF SMTypeOK, IInv
<1>5. Orderly'
  BY <1>1 DEF Orderly, Place, Named, lockVars, SMTypeOK
<1>6. CursorListed'
  BY <1>1 DEF CursorListed, SMTypeOK
<1>7. AddedOnce'
  BY <1>1, <1>2, <1>3 DEF AddedOnce, SMTypeOK
<1>8. ClosingClosed' /\ ClosedIsOnItsWayOut'
  BY <1>1, <1>2, <1>3 DEF ClosingClosed, ClosedIsOnItsWayOut, SMTypeOK
<1> QED
  BY <1>1, <1>4, <1>5, <1>6, <1>7, <1>8 DEF Rest

\* Remove asks for the lock: of a session whose disconnect was pending, or which
\* this thread closes now.
LEMMA RemoveStep ==
    ASSUME SMIInv, IInv', NEW t \in Threads, NEW s \in Sessions,
           NEW from \in {"idle", "added", "loop"}, NEW to \in {"remove", "cleanup"},
           RemoveNow(t, from, to, s), from = "loop" <=> to = "cleanup",
           status' \in {status, [status EXCEPT ![s] = "closed"]}, status'[s] = "closed",
           closing' \in {closing, closing \ {s}},
           IF from = "loop" THEN Advance(t, s) ELSE cursor' = cursor,
           status[s] = "accepted" => \/ from = "loop"
                                     \/ from = "added" /\ target[t] = s
    PROVE  Rest' /\ UNCHANGED sessions
<1> USE DEF SMIInv
<1>1. task[t] = from /\ held[t] # <<"W">> /\ crash = "none" /\ pc[t] = "run"
  BY DEF RemoveNow, Begin, Running, Orderly, Place
<1>2. pc' = [pc EXCEPT ![t] = "spinWrite"] /\ UNCHANGED <<writer, held, crash>>
  BY <1>1, AsksToWrite DEF RemoveNow
<1>3. SMTypeOK'
  BY DEF SMTypeOK, IInv, RemoveNow, Begin, Advance
<1>4. Orderly'
  BY <1>1, <1>2 DEF Orderly, Place, Named, RemoveNow, Begin, SMTypeOK, TypeOK
<1>5. CursorListed'
  BY <1>1 DEF CursorListed, RemoveNow, Begin, SMTypeOK, Advance
<1>6. AddedOnce'
  BY <1>1 DEF AddedOnce, RemoveNow, Begin, SMTypeOK, CursorListed, Advance
<1>7. ClosingClosed' /\ ClosedIsOnItsWayOut'
  BY <1>1 DEF ClosingClosed, ClosedIsOnItsWayOut, RemoveNow, Begin, SMTypeOK
<1> QED
  BY <1>3, <1>4, <1>5, <1>6, <1>7 DEF Rest, RemoveNow

\* The erase, and the end of Remove.  It never comes in the middle of a loop: there
\* the thread would have to get the lock from itself.
LEMMA RemoveEraseStep ==
    ASSUME SMIInv, IInv', NEW t \in Threads, Removes(t)
    PROVE  Rest'
<1> USE DEF SMIInv
<1>1. /\ task[t] = "remove" /\ held[t] = <<"W">> /\ crash = "none"
      /\ RemoveErase(t, "remove", "idle")
  BY DEF Removes, RemoveErase, Begin, Running, Orderly, Place
<1>2. /\ pc' = [pc EXCEPT ![t] = "store"]
      /\ held' = [held EXCEPT ![t] = <<>>]
      /\ UNCHANGED <<writer, crash>>
  BY <1>1, EndsWrite DEF RemoveErase
<1>3. SMTypeOK'
  BY <1>1 DEF SMTypeOK, IInv, RemoveErase, Begin
<1>4. Orderly'
  BY <1>1, <1>2 DEF Orderly, Place, Named, RemoveErase, Begin, SMTypeOK, TypeOK
<1>5. CursorListed'
  BY <1>1, NoLoopBeside DEF CursorListed, RemoveErase, Begin, SMTypeOK
<1>6. AddedOnce'
  BY <1>1 DEF AddedOnce, RemoveErase, Begin, SMTypeOK
<1>7. ClosingClosed' /\ ClosedIsOnItsWayOut'
  BY <1>1 DEF ClosingClosed, ClosedIsOnItsWayOut, RemoveErase, Begin, SMTypeOK
<1> QED
  BY <1>3, <1>4, <1>5, <1>6, <1>7 DEF Rest

\* A disconnect that the kernel will complete, from an idle thread or in a loop.
LEMMA ClosesLater ==
    ASSUME SMIInv, IInv', NEW t \in Threads, NEW s \in Sessions,
           \/ PeerCloses(t, s)
           \/ SendFails(t, s)
    PROVE  Rest' /\ UNCHANGED sessions
<1> USE DEF SMIInv
<1>1. /\ UNCHANGED <<lockVars, sessions, task, target, broadcasts>>
      /\ DisconnectLater(s) /\ crash = "none"
      /\ \/ status[s] = "receiving" /\ cursor' = cursor
         \/ /\ s \in cursor[t] /\ cursor' = [cursor EXCEPT ![t] = cursor[t] \ {s}]
            /\ task[t] = "loop" /\ status[s] # "new"
  BY DEF PeerCloses, SendFails, Advance, Running, Connected
<1>2. SMTypeOK'
  BY <1>1 DEF SMTypeOK, IInv, DisconnectLater
<1>3. Orderly'
  BY <1>1 DEF Orderly, Place, Named, lockVars
<1>4. CursorListed'
  BY <1>1 DEF CursorListed, SMTypeOK
<1>5. AddedOnce'
  BY <1>1 DEF AddedOnce, SMTypeOK, DisconnectLater, CursorListed
<1>6. ClosingClosed' /\ ClosedIsOnItsWayOut'
  BY <1>1 DEF ClosingClosed, ClosedIsOnItsWayOut, SMTypeOK, DisconnectLater
<1> QED
  BY <1>1, <1>2, <1>3, <1>4, <1>5, <1>6 DEF Rest

\* A broadcast begins, takes its cursor, sends, and ends.
LEMMA BroadcastStep ==
    ASSUME SMIInv, IInv', NEW t \in Threads, Broadcast(t)
    PROVE  Rest' /\ UNCHANGED sessions
<1> USE DEF SMIInv
<1>1. task[t] = "idle" /\ held[t] = <<>> /\ crash = "none" /\ pc[t] = "run"
  BY DEF Broadcast, Begin, Running, Orderly, Place
<1>2. pc' = [pc EXCEPT ![t] = "spinRead"] /\ UNCHANGED <<writer, held, crash>>
  BY <1>1, AsksToRead DEF Broadcast
<1>3. broadcasts' \in 0..MaxBroadcasts
  BY BroadcastsAssumption DEF Broadcast, SMTypeOK
<1>4. SMTypeOK'
  BY <1>3 DEF SMTypeOK, IInv, Broadcast, Begin
<1>5. Orderly'
  BY <1>1, <1>2 DEF Orderly, Place, Named, Broadcast, Begin, SMTypeOK, TypeOK
<1>6. CursorListed' /\ AddedOnce' /\ ClosingClosed' /\ ClosedIsOnItsWayOut'
  BY <1>1 DEF CursorListed, AddedOnce, ClosingClosed, ClosedIsOnItsWayOut,
             Broadcast, Begin, SMTypeOK
<1> QED
  BY <1>4, <1>5, <1>6 DEF Rest, Broadcast

\* Under READ_LOCK the broadcast starts with the sessions listed now.
LEMMA BroadcastLoopStep ==
    ASSUME SMIInv, IInv', NEW t \in Threads, BroadcastLoop(t)
    PROVE  Rest' /\ UNCHANGED sessions
<1> USE DEF SMIInv
<1>1. task[t] = "broadcast" /\ held[t] = <<"R">> /\ crash = "none" /\ pc[t] = "run"
  BY DEF BroadcastLoop, Begin, Running, Orderly, Place
<1>2. SMTypeOK'
  BY DEF SMTypeOK, IInv, BroadcastLoop, Begin
<1>3. Orderly'
  BY <1>1 DEF Orderly, Place, Named, BroadcastLoop, Begin, SMTypeOK, lockVars
<1>4. CursorListed' /\ AddedOnce' /\ ClosingClosed' /\ ClosedIsOnItsWayOut'
  BY <1>1 DEF CursorListed, AddedOnce, ClosingClosed, ClosedIsOnItsWayOut,
             BroadcastLoop, Begin, SMTypeOK
<1> QED
  BY <1>2, <1>3, <1>4 DEF Rest, BroadcastLoop

\* A send that succeeds, or finds its session closed, only moves the cursor.
LEMMA SendDoneStep ==
    ASSUME SMIInv, IInv', NEW t \in Threads, NEW s \in Sessions, SendDone(t, s)
    PROVE  Rest' /\ UNCHANGED sessions
<1> USE DEF SMIInv
<1>1. SMTypeOK'
  BY DEF SMTypeOK, IInv, SendDone, Advance
<1>2. Orderly'
  BY DEF Orderly, Place, Named, SendDone, lockVars
<1>3. CursorListed' /\ AddedOnce' /\ ClosingClosed' /\ ClosedIsOnItsWayOut'
  BY DEF CursorListed, AddedOnce, ClosingClosed, ClosedIsOnItsWayOut, SendDone, Advance, SMTypeOK
<1> QED
  BY <1>1, <1>2, <1>3 DEF Rest, SendDone

\* The cursor has passed every session: READ_LOCK is released.
LEMMA BroadcastEndStep ==
    ASSUME SMIInv, IInv', NEW t \in Threads, BroadcastEnd(t)
    PROVE  Rest' /\ UNCHANGED sessions
<1> USE DEF SMIInv
<1>1. task[t] = "loop" /\ held[t] = <<"R">> /\ crash = "none" /\ pc[t] = "run"
  BY DEF BroadcastEnd, Begin, Running, Orderly, Place
<1>2. held' = [held EXCEPT ![t] = <<>>] /\ UNCHANGED <<writer, pc, crash>>
  BY <1>1, EndsRead DEF BroadcastEnd
<1>3. SMTypeOK'
  BY DEF SMTypeOK, IInv, BroadcastEnd, Begin
<1>4. Orderly'
  <2>1. writer # t
    BY <1>1 DEF Orderly, Named
  <2> QED
    BY <1>1, <1>2, <2>1 DEF Orderly, Place, Named, BroadcastEnd, Begin, SMTypeOK, TypeOK
<1>5. CursorListed' /\ AddedOnce' /\ ClosingClosed' /\ ClosedIsOnItsWayOut'
  BY <1>1 DEF CursorListed, AddedOnce, ClosingClosed, ClosedIsOnItsWayOut,
             BroadcastEnd, Begin, SMTypeOK
<1> QED
  BY <1>3, <1>4, <1>5 DEF Rest, BroadcastEnd

\* The lock is had, or given up, or waited for too long.  A thread that waits for
\* itself in a loop never has it.
LEMMA LockStepStep ==
    ASSUME SMIInv, IInv', NEW t \in Threads, LockStep(t)
    PROVE  Rest' /\ UNCHANGED sessions
<1> USE DEF SMIInv
<1>1. UNCHANGED <<sessions, status, closing, task, target, cursor, broadcasts>>
  BY DEF LockStep
<1>2. SMTypeOK'
  BY <1>1 DEF SMTypeOK, IInv
<1>3. CursorListed' /\ AddedOnce' /\ ClosingClosed' /\ ClosedIsOnItsWayOut'
  BY <1>1 DEF CursorListed, AddedOnce, ClosingClosed, ClosedIsOnItsWayOut
<1>4. Orderly'
  <2>1. CASE WriteAcquire(t)
    <3>1. crash = "none" /\ pc[t] = "spinWrite" /\ readers = 0
      BY <2>1 DEF WriteAcquire, WriteTake
    <3>2. held[t] # <<"R">>
      <4> SUFFICES ASSUME held[t] = <<"R">>
                   PROVE  FALSE
        OBVIOUS
      <4>1. Holds(t, "R")
        BY DEF Holds
      <4> QED
        BY <3>1, <4>1, HolderCounted DEF Kinds, IInv, Counted
    <3>3. task[t] \in {"add", "remove"} /\ held[t] = <<>>
      BY <3>1, <3>2 DEF Orderly, Place, SMTypeOK
    <3>4. /\ held' = [held EXCEPT ![t] = <<"W">>] /\ pc' = [pc EXCEPT ![t] = "run"]
          /\ writer' = t /\ writer = NoThread /\ crash' = crash
      BY <2>1, <3>3 DEF WriteAcquire, WriteTake, Hold, GoTo
    <3> QED
      BY <1>1, <3>1, <3>3, <3>4 DEF Orderly, Place, Named, SMTypeOK, TypeOK
  <2>2. CASE ReadAcquire(t)
    <3>1. crash = "none" /\ pc[t] = "spinRead" /\ writer = NoThread
      BY <2>2 DEF ReadAcquire, ReadTake
    <3>2. task[t] = "broadcast" /\ held[t] = <<>>
      BY <3>1 DEF Orderly, Place, SMTypeOK
    <3>3. /\ held' = [held EXCEPT ![t] = <<"R">>] /\ pc' = [pc EXCEPT ![t] = "run"]
          /\ writer' = NoThread /\ crash' = crash
      BY <2>2, <3>1, <3>2 DEF ReadAcquire, ReadTake, Hold, GoTo
    <3> QED
      BY <1>1, <3>1, <3>2, <3>3, NoThreadAssumption
      DEF Orderly, Place, Named, SMTypeOK, TypeOK
  <2>3. CASE StoreEmpty(t)
    BY <1>1, <2>3, NoThreadAssumption DEF StoreEmpty, GoTo, Orderly, Place, Named, SMTypeOK, TypeOK
  <2>4. CASE Timeout(t)
    BY <2>4 DEF Timeout, Orderly
  <2> QED
    BY <2>1, <2>2, <2>3, <2>4 DEF LockStep, Acquire
<1> QED
  BY <1>1, <1>2, <1>3, <1>4 DEF Rest

\* Only an insert and an erase change _sessions, each under WRITE_LOCK.
LEMMA StepKeeps ==
    ASSUME SMIInv, IInv', NEW t \in Threads,
           \/ \E s \in Sessions : Accept(t, s)
           \/ Starts(t) \/ Proceed(t) \/ LockStep(t)
    PROVE  Rest' /\ (UNCHANGED sessions \/ AddInsert(t) \/ Removes(t))
<1> USE DEF SMIInv
<1>1. ASSUME NEW s \in Sessions, PeerResets(t, s) \/ ProcessDisconnect(t, s)
      PROVE  Rest' /\ UNCHANGED sessions
  <2>1. CASE PeerResets(t, s)
    <3>1. /\ RemoveNow(t, "idle", "remove", s) /\ status[s] = "receiving"
          /\ status' = [status EXCEPT ![s] = "closed"] /\ UNCHANGED <<closing, cursor>>
      BY <2>1 DEF PeerResets
    <3>2. status'[s] = "closed"
      BY <3>1 DEF SMTypeOK
    <3> QED
      BY <3>1, <3>2, RemoveStep
  <2>2. CASE ProcessDisconnect(t, s)
    <3>1. /\ RemoveNow(t, "idle", "remove", s) /\ s \in closing
          /\ closing' = closing \ {s} /\ UNCHANGED <<status, cursor>>
      BY <2>2 DEF ProcessDisconnect
    <3>2. status[s] = "closed"
      BY <3>1 DEF ClosingClosed
    <3> QED
      BY <3>1, <3>2, RemoveStep
  <2> QED
    BY <1>1, <2>1, <2>2
<1>2. ASSUME AddReceiveResetsTwice(t)
      PROVE  Rest' /\ UNCHANGED sessions
  <2>1. /\ RemoveNow(t, "added", "remove", target[t]) /\ task[t] = "added"
        /\ status' = [status EXCEPT ![target[t]] = "closed"] /\ UNCHANGED <<closing, cursor>>
    BY <1>2 DEF AddReceiveResetsTwice
  <2>2. target[t] \in Sessions
    BY <2>1 DEF AddedOnce
  <2>3. status'[target[t]] = "closed"
    BY <2>1, <2>2 DEF SMTypeOK
  <2> QED
    BY <2>1, <2>2, <2>3, RemoveStep
<1>3. ASSUME NEW s \in Sessions, SendFailsTwice(t, s)
      PROVE  Rest' /\ UNCHANGED sessions
  <2>1. /\ RemoveNow(t, "loop", "cleanup", s) /\ Advance(t, s)
        /\ status' = [status EXCEPT ![s] = "closed"] /\ UNCHANGED closing
    BY <1>3 DEF SendFailsTwice
  <2>2. status'[s] = "closed"
    BY <2>1 DEF SMTypeOK
  <2> QED
    BY <2>1, <2>2, RemoveStep
<1>4. CASE Starts(t)
  BY <1>1, <1>4, ClosesLater, BroadcastStep DEF Starts
<1>5. CASE Proceed(t)
  BY <1>2, <1>3, <1>5, RemoveEraseStep, AddInsertStep, AddedStep, BroadcastLoopStep,
     BroadcastEndStep, SendDoneStep, ClosesLater DEF Proceed, Continues
<1> QED
  BY <1>4, <1>5, AcceptStep, LockStepStep

\* The invariant is inductive.
LEMMA SMInductive == SMIInv /\ [SMNext]_vars => SMIInv'
<1> SUFFICES ASSUME SMIInv, [SMNext]_vars
             PROVE  SMIInv'
  OBVIOUS
<1>1. IInv'
  <2>1. [Next]_lockVars
    BY StepOfLock DEF vars
  <2> QED
    BY <2>1, Inductive DEF SMIInv
<1>2. CASE UNCHANGED vars
  BY <1>1, <1>2 DEF vars, SMIInv, SMTypeOK, IInv, Orderly, Place, Named, CursorListed, AddedOnce,
                    ClosedIsOnItsWayOut, ClosingClosed, lockVars
<1>3. CASE SMNext
  BY <1>1, <1>3, StepKeeps DEF SMNext, SMIInv, Rest
<1> QED
  BY <1>2, <1>3

\* It holds at the start.
LEMMA SMInitially == SMInit => SMIInv
BY Initially, BroadcastsAssumption, NoThreadAssumption
DEF SMInit, Init, SMIInv, SMTypeOK, IInv, Orderly, Place, Named, CursorListed, AddedOnce,
    ClosedIsOnItsWayOut, ClosingClosed

\* No step disturbs a thread in its loop: what it would take is the write lock,
\* and Exclusion has given that away.
LEMMA LoopUndisturbed ==
    ASSUME SMIInv, [SMNext]_vars, \E t \in Threads : task[t] \in {"loop", "cleanup"}
    PROVE  UNCHANGED sessions
<1>1. IInv'
  BY StepOfLock, Inductive DEF SMIInv, vars
<1>2. ASSUME NEW t \in Threads, AddInsert(t) \/ Removes(t)
      PROVE  FALSE
  <2>1. held[t] = <<"W">> /\ crash = "none"
    BY <1>2 DEF AddInsert, Removes, RemoveErase, Begin, Running, SMIInv, Orderly, Place
  <2> QED
    BY <2>1, NoLoopBeside
<1> QED
  BY <1>1, <1>2, StepKeeps DEF SMNext, vars

(***************************************************************************)
(* The listener.                                                            *)
(***************************************************************************)

\* Which locals of ProcessAccept a stage uses; an event that a thread has is not
\* pending, and no two threads have it.
StageLocals ==
    \A t \in Threads :
        /\ stage[t] = "none" <=> accepting[t] = NoEvent
        /\ stage[t] = "attach" <=> creating[t] # NoSession
        /\ accepting[t] \notin pending
        /\ \A u \in Threads : accepting[t] = accepting[u] /\ t # u => accepting[t] = NoEvent

\* An event that is not pending is in some thread's hands.
EventHeld == \A e \in Events : e \notin pending => \E t \in Threads : accepting[t] = e

LIInv ==
    /\ SMIInv
    /\ LTypeOK
    /\ StageLocals
    /\ EventHeld

-------------------------------------------------------------------------------

\* A step of the listener is a step of the session manager, or leaves it alone.
LEMMA StepOfManager ==
    ASSUME LTypeOK, StageLocals, LNext
    PROVE  [SMNext]_vars
<1>1. PICK t \in Threads :
        \/ \E e \in Events : \/ ProcessAcceptFails(t, e)
                             \/ \E s \in Sessions : ProcessAccept(t, e, s)
        \/ Listens(t) \/ Handles(t) \/ Manages(t) \/ Locks(t)
  BY DEF LNext
<1>2. CASE Attach(t)
  <2>1. creating[t] \in Sessions
    BY <1>2 DEF Attach, AcceptStage, StageLocals, LTypeOK
  <2> QED
    BY <1>2, <2>1 DEF Attach, SMNext
<1>3. CASE OnDisconnectedEnds(t)
  BY <1>3 DEF OnDisconnectedEnds, SMNext, Proceed
<1>4. CASE AttachFails(t) \/ SessionStarted(t) \/ RegisterAccept(t)
           \/ RegisterAcceptRetries(t) \/ ReleaseSession(t)
  BY <1>4 DEF AttachFails, SessionStarted, RegisterAccept, RegisterAcceptRetries, ReleaseSession
<1>5. CASE Handles(t) \/ Manages(t) \/ Locks(t)
  BY <1>5 DEF Handles, Manages, Locks, SMNext, Proceed
<1>6. ASSUME NEW e \in Events,
             ProcessAcceptFails(t, e) \/ \E s \in Sessions : ProcessAccept(t, e, s)
      PROVE  UNCHANGED vars
  BY <1>6 DEF ProcessAcceptFails, ProcessAccept
<1> QED
  BY <1>1, <1>2, <1>3, <1>4, <1>5, <1>6 DEF Listens

\* The types of what the listener and Service add to the session manager.
LTypes ==
    /\ pending \subseteq Events
    /\ accepting \in [Threads -> Events \cup {NoEvent}]
    /\ stage \in [Threads -> {"none", "attach", "session", "register"}]
    /\ creating \in [Threads -> Sessions \cup {NoSession}]
    /\ serviced \subseteq Sessions
    /\ releasing \in [Threads -> Sessions \cup {NoSession}]
    /\ retries \in 0..MaxRetries

Accepts == LTypes /\ StageLocals /\ EventHeld

\* The thread takes a pending event: from the kernel's hands into its own.
LEMMA TakesStep ==
    ASSUME Accepts, NEW t \in Threads, NEW e \in Events,
           ProcessAcceptFails(t, e) \/ \E s \in Sessions : ProcessAccept(t, e, s)
    PROVE  Accepts'
<1> USE DEF Accepts
<1>1. /\ stage[t] = "none" /\ e \in pending /\ pending' = pending \ {e}
      /\ accepting' = [accepting EXCEPT ![t] = e]
  BY DEF ProcessAcceptFails, ProcessAccept, AcceptStage, TakesEvent
<1>2. \/ /\ stage' = [stage EXCEPT ![t] = "register"] /\ UNCHANGED <<creating, serviced>>
      \/ \E s \in Sessions : /\ stage' = [stage EXCEPT ![t] = "attach"]
                             /\ creating' = [creating EXCEPT ![t] = s]
                             /\ serviced' = serviced \cup {s}
  BY DEF ProcessAcceptFails, ProcessAccept, AcceptStage, serviceVars
<1>3. UNCHANGED <<releasing, retries>>
  BY DEF ProcessAcceptFails, ProcessAccept, serviceVars
<1>4. LTypes'
  BY <1>1, <1>2, <1>3 DEF LTypes
<1>5. StageLocals'
  BY <1>1, <1>2, NoEventAssumption, NoSessionAssumption DEF StageLocals, LTypes
<1>6. EventHeld'
  BY <1>1, NoEventAssumption DEF EventHeld, LTypes, StageLocals
<1> QED
  BY <1>4, <1>5, <1>6

\* In the middle of ProcessAccept the thread keeps its event, whatever fails.
LEMMA KeepsStep ==
    ASSUME Accepts, NEW t \in Threads,
           \/ Attach(t) \/ AttachFails(t) \/ SessionStarted(t) \/ RegisterAcceptRetries(t)
    PROVE  Accepts'
<1> USE DEF Accepts
<1>1. /\ UNCHANGED <<pending, accepting, releasing>>
      /\ stage[t] # "none"
      /\ \E to \in {"session", "register"} : stage' = [stage EXCEPT ![t] = to]
      /\ IF stage[t] = "attach" THEN creating' = [creating EXCEPT ![t] = NoSession]
                                ELSE creating' = creating
      /\ serviced' \subseteq serviced
  BY DEF Attach, AttachFails, SessionStarted, RegisterAcceptRetries, AcceptStage, serviceVars
<1>2. retries' \in 0..MaxRetries
  BY RetriesAssumption
  DEF Attach, AttachFails, SessionStarted, RegisterAcceptRetries, LTypes
<1>3. LTypes'
  BY <1>1, <1>2 DEF LTypes
<1>4. StageLocals' /\ EventHeld'
  BY <1>1 DEF StageLocals, EventHeld, LTypes
<1> QED
  BY <1>3, <1>4

\* RegisterAccept gives the thread's event back, and no other.
LEMMA RegisterAcceptStep ==
    ASSUME Accepts, NEW t \in Threads, RegisterAccept(t)
    PROVE  Accepts'
<1> USE DEF Accepts
<1>1. /\ stage[t] = "register" /\ stage' = [stage EXCEPT ![t] = "none"]
      /\ pending' = pending \cup {accepting[t]}
      /\ accepting' = [accepting EXCEPT ![t] = NoEvent]
      /\ UNCHANGED <<creating, serviced, releasing, retries>>
  BY DEF RegisterAccept, AcceptStage, serviceVars
<1>2. accepting[t] \in Events
  BY <1>1 DEF StageLocals, LTypes
<1>3. LTypes'
  BY <1>1, <1>2 DEF LTypes
<1>4. StageLocals'
  BY <1>1, <1>2, NoEventAssumption DEF StageLocals, LTypes
<1>5. EventHeld'
  BY <1>1 DEF EventHeld, LTypes
<1> QED
  BY <1>3, <1>4, <1>5

\* Outside of ProcessAccept no event changes hands.
LEMMA ElsewhereStep ==
    ASSUME Accepts, SMTypeOK, NEW t \in Threads,
           \/ OnDisconnectedEnds(t) \/ ReleaseSession(t)
           \/ Handles(t) \/ Manages(t) \/ Locks(t)
    PROVE  Accepts'
<1> USE DEF Accepts
<1>1. /\ UNCHANGED listenVars /\ serviced' \subseteq serviced
      /\ \/ releasing' = releasing
         \/ \E s \in Sessions \cup {NoSession} : releasing' = [releasing EXCEPT ![t] = s]
  BY DEF OnDisconnectedEnds, ReleaseSession, Handles, Manages, Locks, serviceVars, SMTypeOK
<1>2. LTypes'
  BY <1>1 DEF LTypes, listenVars
<1>3. StageLocals' /\ EventHeld'
  BY <1>1 DEF StageLocals, EventHeld, listenVars
<1> QED
  BY <1>2, <1>3

\* The invariant is inductive.
LEMMA LInductive == LIInv /\ [LNext]_lvars => LIInv'
<1> SUFFICES ASSUME LIInv, [LNext]_lvars
             PROVE  LIInv'
  OBVIOUS
<1>1. Accepts /\ SMTypeOK
  BY DEF LIInv, Accepts, LTypeOK, LTypes
<1>2. SMIInv'
  <2>1. [SMNext]_vars
    BY StepOfManager DEF LIInv, lvars
  <2> QED
    BY <2>1, SMInductive DEF LIInv
<1>3. ASSUME UNCHANGED lvars
      PROVE  Accepts'
  BY <1>1, <1>3 DEF lvars, listenVars, serviceVars, Accepts, LTypes, StageLocals, EventHeld
<1>4. ASSUME LNext
      PROVE  Accepts'
  BY <1>1, <1>4, TakesStep, KeepsStep, RegisterAcceptStep, ElsewhereStep DEF LNext, Listens
<1>5. Accepts'
  BY <1>3, <1>4
<1> QED
  BY <1>2, <1>5 DEF LIInv, Accepts, LTypeOK, LTypes, SMIInv

\* It holds when StartAccept has registered every event.
LEMMA LInitially == LInit => LIInv
<1> SUFFICES ASSUME LInit
             PROVE  LIInv
  OBVIOUS
<1>1. SMIInv
  BY SMInitially DEF LInit
<1>2. LTypes /\ StageLocals /\ EventHeld
  BY RetriesAssumption, NoEventAssumption DEF LInit, LTypes, StageLocals, EventHeld
<1> QED
  BY <1>1, <1>2 DEF LIInv, LTypeOK, LTypes, SMIInv

\* It holds in every behaviour.
LEMMA LInvariance == LSpec => []LIInv
BY LInitially, LInductive, PTL DEF LSpec

-------------------------------------------------------------------------------

\* Every variable of the listener, of Service and of the session manager keeps
\* its type.
THEOREM LTypeCorrect == LSpec => []LTypeOK
<1>1. LIInv => LTypeOK
  BY DEF LIInv
<1> QED
  BY <1>1, LInvariance, PTL

\* However many threads accept and whatever fails in ProcessAccept, every accept
\* event is with the kernel or with exactly one thread.
THEOREM EventsKept == LSpec => []EventHasOneOwner
<1>1. ASSUME LIInv, NEW e \in Events
      PROVE  Cardinality({t \in Threads : accepting[t] = e}) = IF e \in pending THEN 0 ELSE 1
  <2>1. CASE e \in pending
    <3>1. {t \in Threads : accepting[t] = e} = {}
      BY <1>1, <2>1 DEF LIInv, StageLocals
    <3> QED
      BY <2>1, <3>1, FS_EmptySet
  <2>2. CASE e \notin pending
    <3>1. PICK t \in Threads : accepting[t] = e
      BY <1>1, <2>2 DEF LIInv, EventHeld
    <3>2. {u \in Threads : accepting[u] = e} = {t}
      BY <1>1, <3>1, NoEventAssumption DEF LIInv, StageLocals
    <3> QED
      BY <2>2, <3>2, FS_Singleton
  <2> QED
    BY <2>1, <2>2
<1>2. LIInv => EventHasOneOwner
  BY <1>1 DEF EventHasOneOwner
<1> QED
  BY <1>2, LInvariance, PTL

\* While a broadcast iterates over _sessions no thread inserts or erases, not even
\* the one that calls back into Remove from Send.
THEOREM LoopsUndisturbed == LSpec => IterationUndisturbed
<1>1. LIInv /\ [LNext]_lvars =>
        [(\E t \in Threads : task[t] \in {"loop", "cleanup"}) => UNCHANGED sessions]_vars
  <2> SUFFICES ASSUME LIInv, [LNext]_lvars, \E t \in Threads : task[t] \in {"loop", "cleanup"}
               PROVE  UNCHANGED sessions
    OBVIOUS
  <2>1. [SMNext]_vars
    BY StepOfManager DEF LIInv, lvars
  <2> QED
    BY <2>1, LoopUndisturbed DEF LIInv
<1> QED
  BY <1>1, LInvariance, PTL DEF LSpec, IterationUndisturbed

\* A closed session is listed only while its disconnect is pending or a thread is
\* on its way to erase it.
THEOREM ClosedGoes == LSpec => []ClosedIsOnItsWayOut
<1>1. LIInv => ClosedIsOnItsWayOut
  BY DEF LIInv, SMIInv
<1> QED
  BY <1>1, LInvariance, PTL

===============================================================================
