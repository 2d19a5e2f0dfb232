-------------------------------- MODULE RWLock --------------------------------
(***************************************************************************)
(* ServerCore/Lock.cpp: the spin lock behind READ_LOCK and WRITE_LOCK.  One *)
(* 32-bit word holds the writer's thread id in its high half and the number *)
(* of readers in its low half; EMPTY_FLAG is both of them zero.  A writer   *)
(* may lock again, for writing (_writeCount) or for reading (its reads are  *)
(* added to its own word).  Locks are only taken by ReadLockGuard and       *)
(* WriteLockGuard, so a thread releases them in the reverse order.          *)
(*                                                                          *)
(* A failed compare-exchange changes nothing, so a spin is one step, the    *)
(* exchange that succeeds.  CRASH writes through a null pointer: the        *)
(* process is gone, and no thread takes a further step.                     *)
(***************************************************************************)
EXTENDS Integers, Sequences, SequencesExt, FiniteSets

CONSTANTS
    Threads,                \* threads; LThreadId is unique and not 0
    NoThread,               \* the id 0
    MaxDepth                \* bound: the guards one thread holds at once

ASSUME NoThreadAssumption == NoThread \notin Threads
ASSUME DepthAssumption == MaxDepth \in Nat

VARIABLES
    writer, readers,        \* the two halves of _lockFlag
    writeCount,             \* _writeCount
    held,                   \* the guards each thread holds, innermost last
    pc,                     \* "run", "spinRead", "spinWrite" or "store"
    crash                   \* the CRASH that ended the process, or "none"

lockVars == <<writer, readers, writeCount, held, pc, crash>>

Init ==
    /\ writer = NoThread
    /\ readers = 0
    /\ writeCount = 0
    /\ held = [t \in Threads |-> <<>>]
    /\ pc = [t \in Threads |-> "run"]
    /\ crash = "none"

Running(t) == crash = "none" /\ pc[t] = "run"

Hold(t, kind) == held' = [held EXCEPT ![t] = Append(held[t], kind)]
Drop(t)       == held' = [held EXCEPT ![t] = Front(held[t])]
Innermost(t, kind) == held[t] # <<>> /\ Last(held[t]) = kind
GoTo(t, l)    == pc' = [pc EXCEPT ![t] = l]

(***************************************************************************)
(* WriteLock and WriteUnlock.                                               *)
(***************************************************************************)

\* The word names this thread: count once more.  Otherwise spin.
WriteLock(t) ==
    /\ Running(t)
    /\ Len(held[t]) < MaxDepth
    /\ IF writer = t
       THEN /\ writeCount' = writeCount + 1
            /\ Hold(t, "W")
            /\ UNCHANGED pc
       ELSE /\ GoTo(t, "spinWrite")
            /\ UNCHANGED <<writeCount, held>>
    /\ UNCHANGED <<writer, readers, crash>>

\* The exchange that puts this thread's id into the word, counted or not.
WriteTake(t, count) ==
    /\ crash = "none" /\ pc[t] = "spinWrite"
    /\ writer = NoThread
    /\ writer' = t
    /\ writeCount' = writeCount + count
    /\ Hold(t, "W")
    /\ GoTo(t, "run")
    /\ UNCHANGED <<readers, crash>>

\* Slips: the exchange compares the writer's half only; the first lock is not
\* counted.
WriteAcquire_IgnoresReaders(t) == WriteTake(t, 1)
WriteAcquire_NotCounted(t)     == readers = 0 /\ WriteTake(t, 0)

\* compare_exchange_strong from EMPTY_FLAG to this thread's id.
WriteAcquire(t) == readers = 0 /\ WriteTake(t, 1)

\* The word must count no reader; the last of the nested unlocks goes on to
\* store EMPTY_FLAG.
WriteUnlock(t) ==
    /\ Running(t)
    /\ Innermost(t, "W")
    /\ IF readers # 0
       THEN /\ crash' = "INVALID_UNLOCK_ORDER"
            /\ UNCHANGED <<writeCount, held, pc>>
       ELSE /\ writeCount' = writeCount - 1
            /\ Drop(t)
            /\ IF writeCount = 1 THEN GoTo(t, "store") ELSE UNCHANGED pc
            /\ UNCHANGED crash
    /\ UNCHANGED <<writer, readers>>

\* Slip: the last unlock leaves the thread's id in the word.
StoreEmpty_KeepsId(t) ==
    /\ crash = "none" /\ pc[t] = "store"
    /\ readers' = 0
    /\ GoTo(t, "run")
    /\ UNCHANGED <<writer, writeCount, held, crash>>

StoreEmpty(t) ==
    /\ crash = "none" /\ pc[t] = "store"
    /\ writer' = NoThread
    /\ readers' = 0
    /\ GoTo(t, "run")
    /\ UNCHANGED <<writeCount, held, crash>>

(***************************************************************************)
(* ReadLock and ReadUnlock.                                                 *)
(***************************************************************************)

\* The word names this thread: add a read to it.  Otherwise spin.
ReadLock(t) ==
    /\ Running(t)
    /\ Len(held[t]) < MaxDepth
    /\ IF writer = t
       THEN /\ readers' = readers + 1
            /\ Hold(t, "R")
            /\ UNCHANGED pc
       ELSE /\ GoTo(t, "spinRead")
            /\ UNCHANGED <<readers, held>>
    /\ UNCHANGED <<writer, writeCount, crash>>

ReadTake(t, count) ==
    /\ crash = "none" /\ pc[t] = "spinRead"
    /\ writer = NoThread
    /\ readers' = readers + count
    /\ Hold(t, "R")
    /\ GoTo(t, "run")
    /\ UNCHANGED <<writer, writeCount, crash>>

\* Slip: a second reader does not count itself.
ReadAcquire_NotCounted(t) == ReadTake(t, IF readers = 0 THEN 1 ELSE 0)

\* compare_exchange_strong from (0, readers) to (0, readers + 1).
ReadAcquire(t) == ReadTake(t, 1)

ReadUnlock(t) ==
    /\ Running(t)
    /\ Innermost(t, "R")
    /\ IF readers = 0
       THEN /\ crash' = "MULTIPLE_UNLOCK"
            /\ UNCHANGED <<readers, held>>
       ELSE /\ readers' = readers - 1
            /\ Drop(t)
            /\ UNCHANGED crash
    /\ UNCHANGED <<writer, writeCount, pc>>

\* ACQUIRE_TIMEOUT_TICK passed while the exchange kept failing.
Timeout(t) ==
    /\ crash = "none"
    /\ \/ pc[t] = "spinWrite" /\ (writer # NoThread \/ readers # 0)
       \/ pc[t] = "spinRead" /\ writer # NoThread
    /\ crash' = "LOCK_TIMEOUT"
    /\ UNCHANGED <<writer, readers, writeCount, held, pc>>

Acquire(t) == WriteAcquire(t) \/ ReadAcquire(t) \/ StoreEmpty(t)

Next == \E t \in Threads :
    \/ WriteLock(t) \/ WriteUnlock(t)
    \/ ReadLock(t) \/ ReadUnlock(t)
    \/ Acquire(t) \/ Timeout(t)

\* A thread that is about to store is run, and of the threads that spin for a
\* lock they can have, some exchange succeeds; which one is not promised, and
\* nobody must lock or unlock.
Fairness ==
    /\ \A t \in Threads : WF_lockVars(StoreEmpty(t))
    /\ WF_lockVars(\E t \in Threads : WriteAcquire(t) \/ ReadAcquire(t))

Spec == Init /\ [][Next]_lockVars /\ Fairness

-------------------------------------------------------------------------------

\* Every variable has its type.
TypeOK ==
    /\ writer \in Threads \cup {NoThread}
    /\ readers \in Nat
    /\ writeCount \in Nat
    /\ held \in [Threads -> Seq({"R", "W"})]
    /\ pc \in [Threads -> {"run", "spinRead", "spinWrite", "store"}]
    /\ crash \in {"none", "LOCK_TIMEOUT", "INVALID_UNLOCK_ORDER", "MULTIPLE_UNLOCK"}

Holds(t, kind) == \E i \in 1..Len(held[t]) : held[t][i] = kind

\* A thread with a WriteLockGuard is alone: no other thread holds a guard of
\* either kind.  Everything under WRITE_LOCK relies on it.
Exclusion ==
    \A t, u \in Threads : Holds(t, "W") /\ t # u => held[u] = <<>>

\* One element for each guard of a kind.
Guards(kind) == {g \in Threads \X (1..MaxDepth) :
                    g[2] <= Len(held[g[1]]) /\ held[g[1]][g[2]] = kind}

\* The word and _writeCount say what the guards say: no read is lost by the
\* plain store of EMPTY_FLAG, and no reader is counted that does not hold.
WordMatchesGuards ==
    /\ readers = Cardinality(Guards("R"))
    /\ writeCount = Cardinality(Guards("W"))
    /\ \A t \in Threads : Holds(t, "W") => writer = t

\* A write guard that was opened inside a read guard.
WriteInsideRead(t) ==
    \E i, j \in 1..Len(held[t]) : i < j /\ held[t][i] = "R" /\ held[t][j] = "W"

\* Guards never unlock too often, and they crash on the order of their unlocks
\* only where a writer that reads locks for writing again: the inner unlock is
\* in order, but finds its own thread's read in the word.
UnlockCrashesOnlyNested ==
    /\ crash # "MULTIPLE_UNLOCK"
    /\ crash = "INVALID_UNLOCK_ORDER" => \E t \in Threads : WriteInsideRead(t)

\* A thread that holds a read and waits for the write lock.
Upgrading(t) == pc[t] = "spinWrite" /\ Holds(t, "R")

\* Lock has no upgrade: a thread that asks for the write lock while it holds
\* a read waits for itself, until LOCK_TIMEOUT ends the process.
UpgradeNeverReturns ==
    [][\A t \in Threads : Upgrading(t) => Upgrading(t)']_lockVars

\* A lock that nobody holds is taken by one of the threads that spin for it.
FreeLockIsTaken ==
    (\E t \in Threads : pc[t] \in {"spinRead", "spinWrite"})
        ~> (crash # "none" \/ \E t \in Threads : held[t] # <<>>)

===============================================================================
