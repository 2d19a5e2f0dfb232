----------------------------- MODULE RWLockProofs -----------------------------
(***************************************************************************)
(* Theorems about RWLock for any threads, and any number of guards that one *)
(* thread holds at once.                                                    *)
(***************************************************************************)
EXTENDS RWLock, FiniteSetTheorems, SequenceTheorems, TLAPS

Kinds == {"R", "W"}

\* A thread that spins has room for the guard it is about to get.
Bounded ==
    \A t \in Threads :
        /\ Len(held[t]) <= MaxDepth
        /\ pc[t] \in {"spinRead", "spinWrite"} => Len(held[t]) < MaxDepth

\* The counters are the numbers of guards, which are finitely many.
Counted ==
    /\ \A k \in Kinds : IsFiniteSet(Guards(k))
    /\ readers = Cardinality(Guards("R"))
    /\ writeCount = Cardinality(Guards("W"))

\* A write guard is its thread's name in the word.
GuardNamesWriter == \A t \in Threads : Holds(t, "W") => writer = t

\* While the word names a thread, no other holds a guard.
WriterAlone == \A t, u \in Threads : writer = t /\ t # u => held[u] = <<>>

\* The thread about to store EMPTY_FLAG is the writer, and stores what is true.
StoreReady ==
    \A t \in Threads :
        pc[t] = "store" => writer = t /\ readers = 0 /\ writeCount = 0

IInv ==
    /\ TypeOK
    /\ Bounded
    /\ Counted
    /\ GuardNamesWriter
    /\ WriterAlone
    /\ StoreReady
    /\ UnlockCrashesOnlyNested

-------------------------------------------------------------------------------

\* One guard more, as held sees it.
LEMMA HeldMore ==
    ASSUME TypeOK, NEW t \in Threads, NEW k \in Kinds, Hold(t, k)
    PROVE  /\ held' \in [Threads -> Seq(Kinds)]
           /\ Len(held'[t]) = Len(held[t]) + 1
           /\ held'[t][Len(held[t]) + 1] = k
           /\ \A i \in 1..Len(held[t]) : held'[t][i] = held[t][i]
           /\ \A u \in Threads \ {t} : held'[u] = held[u]
BY DEF TypeOK, Hold, Kinds

\* One guard less, as held sees it.
LEMMA HeldLess ==
    ASSUME TypeOK, NEW t \in Threads, held[t] # <<>>, Drop(t)
    PROVE  /\ held' \in [Threads -> Seq(Kinds)]
           /\ Len(held[t]) \in Nat \ {0}
           /\ Len(held'[t]) = Len(held[t]) - 1
           /\ \A i \in 1..(Len(held[t]) - 1) : held'[t][i] = held[t][i]
           /\ \A u \in Threads \ {t} : held'[u] = held[u]
<1>1. held \in [Threads -> Seq(Kinds)] /\ Len(held[t]) \in Nat \ {0}
  BY DEF TypeOK, Kinds
<1>2. held' = [held EXCEPT ![t] = SubSeq(held[t], 1, Len(held[t]) - 1)]
  BY DEF Drop, Front
<1>3. /\ SubSeq(held[t], 1, Len(held[t]) - 1) \in Seq(Kinds)
      /\ Len(SubSeq(held[t], 1, Len(held[t]) - 1)) = Len(held[t]) - 1
      /\ \A i \in 1..(Len(held[t]) - 1) :
            SubSeq(held[t], 1, Len(held[t]) - 1)[i] = held[t][i]
  <2>1. \A i \in 1..(Len(held[t]) - 1) : held[t][i] \in Kinds
    BY <1>1
  <2> DEFINE n == Len(held[t]) - 1
  <2>2. n \in Nat
    BY <1>1
  <2> HIDE DEF n
  <2>3. \A i \in 1..n : held[t][i] \in Kinds
    BY <2>1 DEF n
  <2>4. /\ SubSeq(held[t], 1, n) \in Seq(Kinds)
        /\ Len(SubSeq(held[t], 1, n)) = IF 1 <= n THEN n - 1 + 1 ELSE 0
        /\ \A i \in 1..(n - 1 + 1) : SubSeq(held[t], 1, n)[i] = held[t][1 + i - 1]
    BY <2>2, <2>3, SubSeqProperties
  <2>5. Len(SubSeq(held[t], 1, n)) = n /\ \A i \in 1..n : SubSeq(held[t], 1, n)[i] = held[t][i]
    BY <2>2, <2>4
  <2> QED
    BY <2>4, <2>5 DEF n
<1> QED
  BY <1>1, <1>2, <1>3

\* A new guard is one more of its kind, and none of the other.
LEMMA GuardAdded ==
    ASSUME IInv, NEW t \in Threads, NEW k \in Kinds, Hold(t, k),
           Len(held[t]) < MaxDepth, NEW o \in Kinds
    PROVE  /\ IsFiniteSet(Guards(o)')
           /\ Cardinality(Guards(o)') = Cardinality(Guards(o)) + (IF o = k THEN 1 ELSE 0)
           /\ \A u \in Threads : Holds(u, o)' => Holds(u, o) \/ (u = t /\ o = k)
<1>1. TypeOK /\ IsFiniteSet(Guards(o)) /\ Cardinality(Guards(o)) \in Nat
  BY FS_CardinalityType DEF IInv, Counted
<1>2. held \in [Threads -> Seq(Kinds)] /\ MaxDepth \in Nat
  BY <1>1, DepthAssumption DEF TypeOK, Kinds
<1> DEFINE g == <<t, Len(held[t]) + 1>>
<1>3. g \notin Guards(o)
  BY <1>2 DEF Guards
<1>4. Guards(o)' = IF o = k THEN Guards(o) \cup {g} ELSE Guards(o)
  <2>1. ASSUME NEW u \in Threads, NEW i \in 1..MaxDepth
        PROVE  <<u, i>> \in Guards(o)' <=>
                   <<u, i>> \in Guards(o) \/ (o = k /\ <<u, i>> = g)
    <3>1. CASE u # t
      BY <3>1, <1>1, HeldMore DEF Guards
    <3>2. CASE u = t /\ i <= Len(held[t])
      BY <3>2, <1>1, <1>2, HeldMore DEF Guards
    <3>3. CASE u = t /\ i = Len(held[t]) + 1
      BY <3>3, <1>1, <1>2, HeldMore DEF Guards
    <3>4. CASE u = t /\ i > Len(held[t]) + 1
      BY <3>4, <1>1, <1>2, HeldMore DEF Guards
    <3> QED
      BY <3>1, <3>2, <3>3, <3>4, <1>2
  <2>2. g \in Threads \X (1..MaxDepth)
    BY <1>2
  <2> HIDE DEF g
  <2>3. Guards(o) \subseteq Threads \X (1..MaxDepth)
        /\ Guards(o)' \subseteq Threads \X (1..MaxDepth)
    BY DEF Guards
  <2> QED
    BY <2>1, <2>2, <2>3
<1>5. ASSUME NEW u \in Threads, Holds(u, o)'
      PROVE  Holds(u, o) \/ (u = t /\ o = k)
  BY <1>1, <1>2, <1>5, HeldMore DEF Holds
<1> HIDE DEF g
<1>6. /\ IsFiniteSet(Guards(o) \cup {g})
      /\ Cardinality(Guards(o) \cup {g}) =
            IF g \in Guards(o) THEN Cardinality(Guards(o)) ELSE Cardinality(Guards(o)) + 1
  BY <1>1, FS_AddElement
<1> QED
  BY <1>1, <1>3, <1>4, <1>5, <1>6

\* The guard that is dropped is one of its kind.
LEMMA GuardDropped ==
    ASSUME IInv, NEW t \in Threads, NEW k \in Kinds, Innermost(t, k), Drop(t),
           NEW o \in Kinds
    PROVE  /\ IsFiniteSet(Guards(o)')
           /\ Cardinality(Guards(o)') = Cardinality(Guards(o)) - (IF o = k THEN 1 ELSE 0)
           /\ \A u \in Threads : Holds(u, o)' => Holds(u, o)
<1>1. /\ TypeOK /\ IsFiniteSet(Guards(o)) /\ Cardinality(Guards(o)) \in Nat
      /\ Len(held[t]) <= MaxDepth /\ held[t] # <<>> /\ held[t][Len(held[t])] = k
  BY FS_CardinalityType DEF IInv, Counted, Bounded, Innermost, Last
<1>2. held \in [Threads -> Seq(Kinds)] /\ MaxDepth \in Nat
  BY <1>1, DepthAssumption DEF TypeOK, Kinds
<1> DEFINE g == <<t, Len(held[t])>>
<1>3. g \in Guards(o) <=> o = k
  BY <1>1, <1>2, HeldLess DEF Guards
<1>4. Guards(o)' = Guards(o) \ {g}
  <2>1. ASSUME NEW u \in Threads, NEW i \in 1..MaxDepth
        PROVE  <<u, i>> \in Guards(o)' <=> <<u, i>> \in Guards(o) /\ <<u, i>> # g
    <3>1. CASE u # t
      BY <3>1, <1>1, HeldLess DEF Guards
    <3>2. CASE u = t /\ i < Len(held[t])
      BY <3>2, <1>1, <1>2, HeldLess DEF Guards
    <3>3. CASE u = t /\ i >= Len(held[t])
      BY <3>3, <1>1, <1>2, HeldLess DEF Guards
    <3> QED
      BY <3>1, <3>2, <3>3, <1>2
  <2> HIDE DEF g
  <2>2. Guards(o) \subseteq Threads \X (1..MaxDepth)
        /\ Guards(o)' \subseteq Threads \X (1..MaxDepth)
    BY DEF Guards
  <2> QED
    BY <2>1, <2>2
<1>5. ASSUME NEW u \in Threads, Holds(u, o)' PROVE Holds(u, o)
  BY <1>1, <1>2, <1>5, HeldLess DEF Holds
<1> HIDE DEF g
<1>6. /\ IsFiniteSet(Guards(o) \ {g})
      /\ Cardinality(Guards(o) \ {g}) =
            IF g \in Guards(o) THEN Cardinality(Guards(o)) - 1 ELSE Cardinality(Guards(o))
  BY <1>1, FS_RemoveElement
<1> QED
  BY <1>1, <1>3, <1>4, <1>5, <1>6

\* A step that leaves held alone leaves the guards alone.
LEMMA GuardsKept ==
    ASSUME UNCHANGED held
    PROVE  \A k \in Kinds : /\ Guards(k)' = Guards(k)
                            /\ \A u \in Threads : Holds(u, k)' <=> Holds(u, k)
BY DEF Guards, Holds

\* A thread that holds a guard is counted.
LEMMA HolderCounted ==
    ASSUME IInv, NEW t \in Threads, NEW k \in Kinds, Holds(t, k)
    PROVE  Cardinality(Guards(k)) # 0
<1>1. PICK i \in 1..Len(held[t]) : held[t][i] = k
  BY DEF Holds
<1>2. held[t] \in Seq(Kinds) /\ Len(held[t]) <= MaxDepth
  BY DEF IInv, TypeOK, Bounded, Kinds
<1>3. <<t, i>> \in Guards(k)
  BY <1>1, <1>2, DepthAssumption DEF Guards
<1> QED
  BY <1>3, FS_EmptySet DEF IInv, Counted

\* Whoever holds a guard holds a read or a write.
LEMMA SomeKind ==
    ASSUME TypeOK, NEW t \in Threads, held[t] # <<>>
    PROVE  Holds(t, "R") \/ Holds(t, "W")
<1>1. held[t] \in Seq(Kinds)
  BY DEF TypeOK, Kinds
<1>2. 1 \in 1..Len(held[t]) /\ held[t][1] \in Kinds
  BY <1>1
<1> QED
  BY <1>2 DEF Holds, Kinds

\* The innermost guard is one of those the thread holds.
LEMMA InnermostHeld ==
    ASSUME TypeOK, NEW t \in Threads, NEW k \in Kinds, Innermost(t, k)
    PROVE  Holds(t, k)
<1>1. held[t] \in Seq(Kinds) /\ held[t] # <<>>
  BY DEF TypeOK, Kinds, Innermost
<1>2. Len(held[t]) \in 1..Len(held[t])
  BY <1>1
<1> QED
  BY <1>2 DEF Holds, Innermost, Last

\* A word that names nobody and counts nobody: no thread holds anything.
LEMMA FreeMeansFree ==
    ASSUME IInv, writer = NoThread, readers = 0, NEW t \in Threads
    PROVE  held[t] = <<>>
<1>1. ~Holds(t, "W")
  BY NoThreadAssumption DEF IInv, GuardNamesWriter
<1>2. ~Holds(t, "R")
  BY HolderCounted DEF IInv, Counted, Kinds
<1> QED
  BY <1>1, <1>2, SomeKind DEF IInv

-------------------------------------------------------------------------------

\* The initial state: nothing is held, and nothing is counted.
LEMMA Initially == Init => IInv
<1> SUFFICES ASSUME Init PROVE IInv
  OBVIOUS
<1>1. TypeOK
  BY DEF Init, TypeOK
<1>2. \A k \in Kinds : Guards(k) = {}
  BY DEF Init, Guards
<1>3. Counted
  BY <1>2, FS_EmptySet DEF Init, Counted, Kinds
<1> QED
  BY <1>1, <1>3, DepthAssumption, NoThreadAssumption
  DEF Init, IInv, Bounded, GuardNamesWriter, Holds, WriterAlone, StoreReady,
      UnlockCrashesOnlyNested

\* Steps that take and drop no guard: the thread spins, or the process crashes.
LEMMA NoGuardStep ==
    ASSUME IInv, UNCHANGED <<writer, readers, writeCount, held>>, TypeOK',
           Bounded', StoreReady', UnlockCrashesOnlyNested'
    PROVE  IInv'
<1>1. /\ \A k \in Kinds : Guards(k)' = Guards(k)
      /\ \A u \in Threads : Holds(u, "W")' <=> Holds(u, "W")
  BY GuardsKept DEF Kinds
<1>2. Counted'
  BY <1>1 DEF IInv, Counted, Kinds
<1>3. GuardNamesWriter' /\ WriterAlone'
  BY <1>1 DEF IInv, GuardNamesWriter, WriterAlone
<1> QED
  BY <1>2, <1>3 DEF IInv

\* The word names this thread, which locks once more for reading or writing.
LEMMA NestedStep ==
    ASSUME IInv, NEW t \in Threads, writer = t, WriteLock(t) \/ ReadLock(t)
    PROVE  IInv'
<1> DEFINE k == IF writeCount' = writeCount THEN "R" ELSE "W"
<1> USE DEF Kinds
<1>0. readers \in Nat /\ writeCount \in Nat
  BY DEF IInv, TypeOK
<1>1. /\ Running(t) /\ Len(held[t]) < MaxDepth
      /\ k \in Kinds /\ Hold(t, k)
      /\ readers' = readers + (IF k = "R" THEN 1 ELSE 0)
      /\ writeCount' = writeCount + (IF k = "W" THEN 1 ELSE 0)
      /\ UNCHANGED <<writer, pc, crash>>
  BY <1>0 DEF WriteLock, ReadLock
<1> HIDE DEF k
<1>2. \A o \in Kinds :
         /\ IsFiniteSet(Guards(o)')
         /\ Cardinality(Guards(o)') = Cardinality(Guards(o)) + (IF o = k THEN 1 ELSE 0)
         /\ \A u \in Threads : Holds(u, o)' => Holds(u, o) \/ (u = t /\ o = k)
  BY <1>1, GuardAdded
<1>3. /\ held' \in [Threads -> Seq(Kinds)]
      /\ Len(held'[t]) = Len(held[t]) + 1
      /\ \A u \in Threads \ {t} : held'[u] = held[u]
  BY <1>1, HeldMore DEF IInv
<1>4. TypeOK'
  BY <1>0, <1>1, <1>3 DEF IInv, TypeOK
<1>5. Bounded'
  <2>1. Len(held[t]) \in Nat /\ MaxDepth \in Nat
    BY DepthAssumption DEF IInv, TypeOK
  <2> QED
    BY <1>1, <1>3, <2>1 DEF IInv, Bounded, Running
<1>6. Counted'
  BY <1>0, <1>1, <1>2 DEF IInv, Counted
<1>7. GuardNamesWriter'
  BY <1>1, <1>2 DEF IInv, GuardNamesWriter
<1>8. WriterAlone'
  BY <1>1, <1>3 DEF IInv, WriterAlone
<1>9. StoreReady'
  BY <1>1 DEF IInv, StoreReady, Running
<1>10. UnlockCrashesOnlyNested'
  BY <1>1 DEF IInv, UnlockCrashesOnlyNested, Running
<1> QED
  BY <1>4, <1>5, <1>6, <1>7, <1>8, <1>9, <1>10 DEF IInv

\* The word names another thread or nobody: the thread begins to spin.
LEMMA SpinStep ==
    ASSUME IInv, NEW t \in Threads, writer # t, WriteLock(t) \/ ReadLock(t)
    PROVE  IInv'
<1>1. /\ Running(t) /\ Len(held[t]) < MaxDepth
      /\ pc' = [pc EXCEPT ![t] = "spinWrite"] \/ pc' = [pc EXCEPT ![t] = "spinRead"]
      /\ UNCHANGED <<writer, readers, writeCount, held, crash>>
  BY DEF WriteLock, ReadLock, GoTo
<1>2. TypeOK'
  BY <1>1 DEF IInv, TypeOK
<1>3. Bounded' /\ StoreReady'
  BY <1>1 DEF IInv, TypeOK, Bounded, StoreReady
<1>4. UnlockCrashesOnlyNested'
  BY <1>1 DEF IInv, UnlockCrashesOnlyNested, Running
<1> QED
  BY <1>1, <1>2, <1>3, <1>4, NoGuardStep

\* The exchange of a writer succeeds: nobody held anything.
LEMMA WriteAcquireStep ==
    ASSUME IInv, NEW t \in Threads, WriteAcquire(t)
    PROVE  IInv'
<1> USE DEF Kinds
<1>0. readers \in Nat /\ writeCount \in Nat
  BY DEF IInv, TypeOK
<1>1. /\ crash = "none" /\ pc[t] = "spinWrite" /\ readers = 0 /\ writer = NoThread
      /\ writer' = t /\ writeCount' = writeCount + 1 /\ Hold(t, "W")
      /\ pc' = [pc EXCEPT ![t] = "run"]
      /\ UNCHANGED <<readers, crash>>
  BY DEF WriteAcquire, WriteTake, GoTo
<1>2. Len(held[t]) < MaxDepth
  BY <1>1 DEF IInv, Bounded
<1>3. \A o \in Kinds :
         /\ IsFiniteSet(Guards(o)')
         /\ Cardinality(Guards(o)') = Cardinality(Guards(o)) + (IF o = "W" THEN 1 ELSE 0)
         /\ \A u \in Threads : Holds(u, o)' => Holds(u, o) \/ (u = t /\ o = "W")
  BY <1>1, <1>2, GuardAdded
<1>4. /\ held' \in [Threads -> Seq(Kinds)]
      /\ Len(held'[t]) = Len(held[t]) + 1
      /\ \A u \in Threads \ {t} : held'[u] = held[u]
  BY <1>1, HeldMore DEF IInv
<1>5. TypeOK'
  <2>1. pc' \in [Threads -> {"run", "spinRead", "spinWrite", "store"}]
    BY <1>1 DEF IInv, TypeOK
  <2>2. readers' \in Nat /\ writeCount' \in Nat
    BY <1>0, <1>1
  <2>3. writer' \in Threads \cup {NoThread} /\ crash' = "none"
    BY <1>1 DEF IInv, TypeOK
  <2> QED
    BY <1>4, <2>1, <2>2, <2>3 DEF TypeOK
<1>6. Bounded'
  <2>1. Len(held[t]) \in Nat /\ MaxDepth \in Nat
    BY DepthAssumption DEF IInv, TypeOK
  <2> QED
    BY <1>1, <1>2, <1>4, <2>1 DEF IInv, Bounded, TypeOK
<1>7. Counted'
  BY <1>0, <1>1, <1>3 DEF IInv, Counted
<1>8. GuardNamesWriter'
  BY <1>1, <1>3, NoThreadAssumption DEF IInv, GuardNamesWriter
<1>9. WriterAlone'
  BY <1>1, <1>4, FreeMeansFree DEF WriterAlone
<1>10. StoreReady'
  BY <1>1, NoThreadAssumption DEF IInv, StoreReady, TypeOK
<1>11. UnlockCrashesOnlyNested'
  BY <1>1 DEF UnlockCrashesOnlyNested
<1> QED
  BY <1>5, <1>6, <1>7, <1>8, <1>9, <1>10, <1>11 DEF IInv

\* The exchange of a reader succeeds: there was no writer.
LEMMA ReadAcquireStep ==
    ASSUME IInv, NEW t \in Threads, ReadAcquire(t)
    PROVE  IInv'
<1> USE DEF Kinds
<1>0. readers \in Nat /\ writeCount \in Nat
  BY DEF IInv, TypeOK
<1>1. /\ crash = "none" /\ pc[t] = "spinRead" /\ writer = NoThread
      /\ readers' = readers + 1 /\ Hold(t, "R")
      /\ pc' = [pc EXCEPT ![t] = "run"]
      /\ UNCHANGED <<writer, writeCount, crash>>
  BY DEF ReadAcquire, ReadTake, GoTo
<1>2. Len(held[t]) < MaxDepth
  BY <1>1 DEF IInv, Bounded
<1>3. \A o \in Kinds :
         /\ IsFiniteSet(Guards(o)')
         /\ Cardinality(Guards(o)') = Cardinality(Guards(o)) + (IF o = "R" THEN 1 ELSE 0)
         /\ \A u \in Threads : Holds(u, o)' => Holds(u, o) \/ (u = t /\ o = "R")
  BY <1>1, <1>2, GuardAdded
<1>4. /\ held' \in [Threads -> Seq(Kinds)]
      /\ Len(held'[t]) = Len(held[t]) + 1
      /\ \A u \in Threads \ {t} : held'[u] = held[u]
  BY <1>1, HeldMore DEF IInv
<1>5. TypeOK'
  <2>1. pc' \in [Threads -> {"run", "spinRead", "spinWrite", "store"}]
    BY <1>1 DEF IInv, TypeOK
  <2>2. readers' \in Nat /\ writeCount' \in Nat
    BY <1>0, <1>1
  <2>3. writer' \in Threads \cup {NoThread} /\ crash' = "none"
    BY <1>1 DEF IInv, TypeOK
  <2> QED
    BY <1>4, <2>1, <2>2, <2>3 DEF TypeOK
<1>6. Bounded'
  <2>1. Len(held[t]) \in Nat /\ MaxDepth \in Nat
    BY DepthAssumption DEF IInv, TypeOK
  <2> QED
    BY <1>1, <1>2, <1>4, <2>1 DEF IInv, Bounded, TypeOK
<1>7. Counted'
  BY <1>0, <1>1, <1>3 DEF IInv, Counted
<1>8. GuardNamesWriter'
  BY <1>1, <1>3 DEF IInv, GuardNamesWriter
<1>9. WriterAlone'
  BY <1>1, NoThreadAssumption DEF WriterAlone
<1>10. StoreReady'
  BY <1>1, NoThreadAssumption DEF IInv, StoreReady, TypeOK
<1>11. UnlockCrashesOnlyNested'
  BY <1>1 DEF UnlockCrashesOnlyNested
<1> QED
  BY <1>5, <1>6, <1>7, <1>8, <1>9, <1>10, <1>11 DEF IInv

\* An inner write unlock that crashes did so on its own thread's read.
LEMMA WriteUnlockCrash ==
    ASSUME IInv, NEW t \in Threads, WriteUnlock(t), readers # 0
    PROVE  IInv'
<1>1. /\ Running(t) /\ Innermost(t, "W") /\ crash' = "INVALID_UNLOCK_ORDER"
      /\ UNCHANGED <<writer, readers, writeCount, held, pc>>
  BY DEF WriteUnlock
<1>2. Holds(t, "W") /\ writer = t
  BY <1>1, InnermostHeld DEF IInv, GuardNamesWriter, Kinds
<1>3. PICK g \in Guards("R") : TRUE
  BY FS_EmptySet DEF IInv, Counted, Kinds
<1>4. g[1] \in Threads /\ g[2] \in 1..Len(held[g[1]]) /\ held[g[1]][g[2]] = "R"
  BY <1>3, DepthAssumption DEF Guards, IInv, TypeOK
<1>5. g[1] = t
  <2>1. held[g[1]] # <<>>
    BY <1>4
  <2> QED
    BY <1>2, <1>4, <2>1 DEF IInv, WriterAlone
<1>6. Len(held[t]) \in Nat /\ held[t][Len(held[t])] = "W"
  BY <1>1 DEF Innermost, Last, IInv, TypeOK
<1>7. /\ g[2] \in 1..Len(held[t]) /\ Len(held[t]) \in 1..Len(held[t])
      /\ g[2] < Len(held[t])
  BY <1>4, <1>5, <1>6
<1>8. WriteInsideRead(t)
  BY <1>4, <1>5, <1>6, <1>7 DEF WriteInsideRead
<1>9. UnlockCrashesOnlyNested'
  BY <1>1, <1>8 DEF UnlockCrashesOnlyNested, WriteInsideRead
<1>10. TypeOK' /\ Bounded' /\ StoreReady'
  BY <1>1 DEF IInv, TypeOK, Bounded, StoreReady
<1> QED
  BY <1>1, <1>9, <1>10, NoGuardStep

\* A write guard is dropped; the last one leaves nothing to count.
LEMMA WriteUnlockStep ==
    ASSUME IInv, NEW t \in Threads, WriteUnlock(t), readers = 0
    PROVE  IInv'
<1> USE DEF Kinds
<1>1. /\ Running(t) /\ Innermost(t, "W") /\ Drop(t)
      /\ writeCount' = writeCount - 1
      /\ IF writeCount = 1 THEN pc' = [pc EXCEPT ![t] = "store"] ELSE pc' = pc
      /\ UNCHANGED <<writer, readers, crash>>
  BY DEF WriteUnlock, GoTo
<1>2. Holds(t, "W") /\ writer = t /\ held[t] # <<>>
  BY <1>1, InnermostHeld DEF IInv, GuardNamesWriter, Innermost
<1>3. writeCount \in Nat \ {0}
  BY <1>2, HolderCounted DEF IInv, TypeOK, Counted
<1>4. \A o \in Kinds :
         /\ IsFiniteSet(Guards(o)')
         /\ Cardinality(Guards(o)') = Cardinality(Guards(o)) - (IF o = "W" THEN 1 ELSE 0)
         /\ \A u \in Threads : Holds(u, o)' => Holds(u, o)
  BY <1>1, GuardDropped
<1>5. /\ held' \in [Threads -> Seq(Kinds)]
      /\ Len(held[t]) \in Nat \ {0}
      /\ Len(held'[t]) = Len(held[t]) - 1
      /\ \A u \in Threads \ {t} : held'[u] = held[u]
  BY <1>1, <1>2, HeldLess DEF IInv
<1>6. TypeOK'
  <2>1. pc' \in [Threads -> {"run", "spinRead", "spinWrite", "store"}]
    BY <1>1 DEF IInv, TypeOK
  <2>2. writeCount' \in Nat
    BY <1>1, <1>3
  <2> QED
    BY <1>1, <1>5, <2>1, <2>2 DEF IInv, TypeOK
<1>7. Bounded'
  BY <1>1, <1>5, DepthAssumption DEF IInv, Bounded, TypeOK, Running
<1>8. Counted'
  BY <1>1, <1>3, <1>4, FS_CardinalityType DEF IInv, Counted
<1>9. GuardNamesWriter'
  BY <1>1, <1>4 DEF IInv, GuardNamesWriter
<1>10. WriterAlone'
  BY <1>1, <1>2, <1>5 DEF IInv, WriterAlone
<1>11. StoreReady'
  BY <1>1, <1>2, <1>3 DEF IInv, StoreReady, TypeOK, Running
<1>12. UnlockCrashesOnlyNested'
  BY <1>1 DEF UnlockCrashesOnlyNested, Running
<1> QED
  BY <1>6, <1>7, <1>8, <1>9, <1>10, <1>11, <1>12 DEF IInv

\* A read guard is dropped; it was counted, so the unlock does not crash.
LEMMA ReadUnlockStep ==
    ASSUME IInv, NEW t \in Threads, ReadUnlock(t)
    PROVE  IInv'
<1> USE DEF Kinds
<1>1. Running(t) /\ Innermost(t, "R") /\ Holds(t, "R") /\ held[t] # <<>>
  BY InnermostHeld DEF ReadUnlock, IInv, Innermost
<1>2. readers \in Nat \ {0} /\ writeCount \in Nat
  BY <1>1, HolderCounted DEF IInv, TypeOK, Counted
<1>3. Drop(t) /\ readers' = readers - 1 /\ UNCHANGED <<writer, writeCount, pc, crash>>
  BY <1>2 DEF ReadUnlock
<1>4. \A o \in Kinds :
         /\ IsFiniteSet(Guards(o)')
         /\ Cardinality(Guards(o)') = Cardinality(Guards(o)) - (IF o = "R" THEN 1 ELSE 0)
         /\ \A u \in Threads : Holds(u, o)' => Holds(u, o)
  BY <1>1, <1>3, GuardDropped
<1>5. /\ held' \in [Threads -> Seq(Kinds)]
      /\ Len(held[t]) \in Nat \ {0}
      /\ Len(held'[t]) = Len(held[t]) - 1
      /\ \A u \in Threads \ {t} : held'[u] = held[u]
  BY <1>1, <1>3, HeldLess DEF IInv
<1>6. TypeOK'
  <2>1. readers' \in Nat
    BY <1>2, <1>3
  <2> QED
    BY <1>3, <1>5, <2>1 DEF IInv, TypeOK
<1>7. Bounded'
  <2>1. ASSUME NEW u \in Threads, u # t
        PROVE  /\ Len(held'[u]) <= MaxDepth
               /\ pc'[u] \in {"spinRead", "spinWrite"} => Len(held'[u]) < MaxDepth
    BY <1>3, <1>5, <2>1 DEF IInv, Bounded
  <2>2. Len(held'[t]) <= MaxDepth /\ pc'[t] = "run"
    BY <1>1, <1>3, <1>5, DepthAssumption DEF IInv, Bounded, Running
  <2> QED
    BY <2>1, <2>2 DEF Bounded
<1>8. Counted'
  BY <1>2, <1>3, <1>4, FS_CardinalityType DEF IInv, Counted
<1>9. GuardNamesWriter'
  BY <1>3, <1>4 DEF IInv, GuardNamesWriter
<1>10. WriterAlone'
  BY <1>1, <1>3, <1>5 DEF IInv, WriterAlone
<1>11. StoreReady'
  BY <1>1, <1>3 DEF IInv, StoreReady, WriterAlone, Running
<1>12. UnlockCrashesOnlyNested'
  BY <1>1, <1>3 DEF UnlockCrashesOnlyNested, Running
<1> QED
  BY <1>6, <1>7, <1>8, <1>9, <1>10, <1>11, <1>12 DEF IInv

\* EMPTY_FLAG is stored over a word that counts nothing: nothing is lost.
LEMMA StoreEmptyStep ==
    ASSUME IInv, NEW t \in Threads, StoreEmpty(t)
    PROVE  IInv'
<1>1. /\ crash = "none" /\ pc[t] = "store" /\ writer = t /\ readers = 0 /\ writeCount = 0
      /\ writer' = NoThread /\ readers' = readers
      /\ pc' = [pc EXCEPT ![t] = "run"]
      /\ UNCHANGED <<writeCount, held, crash>>
  BY DEF StoreEmpty, GoTo, IInv, StoreReady
<1>2. /\ \A k \in Kinds : Guards(k)' = Guards(k)
      /\ \A u \in Threads : Holds(u, "W")' <=> Holds(u, "W")
  BY <1>1, GuardsKept DEF Kinds
<1>3. TypeOK' /\ Bounded'
  BY <1>1 DEF IInv, TypeOK, Bounded
<1>4. Counted'
  BY <1>1, <1>2 DEF IInv, Counted, Kinds
<1>5. \A u \in Threads : ~Holds(u, "W")
  BY <1>1, HolderCounted DEF IInv, Counted, Kinds
<1>6. GuardNamesWriter' /\ WriterAlone'
  BY <1>1, <1>2, <1>5, NoThreadAssumption DEF GuardNamesWriter, WriterAlone
<1>7. StoreReady'
  BY <1>1 DEF IInv, StoreReady, TypeOK
<1>8. UnlockCrashesOnlyNested'
  BY <1>1 DEF UnlockCrashesOnlyNested
<1> QED
  BY <1>3, <1>4, <1>6, <1>7, <1>8 DEF IInv

\* A spin that lasted too long.
LEMMA TimeoutStep ==
    ASSUME IInv, NEW t \in Threads, Timeout(t)
    PROVE  IInv'
<1>1. crash' = "LOCK_TIMEOUT" /\ UNCHANGED <<writer, readers, writeCount, held, pc>>
  BY DEF Timeout
<1>2. TypeOK' /\ Bounded' /\ StoreReady' /\ UnlockCrashesOnlyNested'
  BY <1>1 DEF IInv, TypeOK, Bounded, StoreReady, UnlockCrashesOnlyNested
<1> QED
  BY <1>1, <1>2, NoGuardStep

\* A step that is not a step of the lock.
LEMMA Stutter ==
    ASSUME IInv, UNCHANGED lockVars
    PROVE  IInv'
<1>1. UNCHANGED <<writer, readers, writeCount, held, pc, crash>>
  BY DEF lockVars
<1>2. TypeOK' /\ Bounded' /\ StoreReady'
  BY <1>1 DEF IInv, TypeOK, Bounded, StoreReady
<1>3. UnlockCrashesOnlyNested'
  BY <1>1 DEF IInv, UnlockCrashesOnlyNested, WriteInsideRead
<1> QED
  BY <1>1, <1>2, <1>3, NoGuardStep

\* IInv is inductive.
LEMMA Inductive == IInv /\ [Next]_lockVars => IInv'
<1> SUFFICES ASSUME IInv, [Next]_lockVars PROVE IInv'
  OBVIOUS
<1>1. CASE UNCHANGED lockVars
  BY <1>1, Stutter
<1>2. ASSUME NEW t \in Threads, WriteLock(t) \/ ReadLock(t) PROVE IInv'
  BY <1>2, NestedStep, SpinStep
<1>3. ASSUME NEW t \in Threads, WriteUnlock(t) PROVE IInv'
  BY <1>3, WriteUnlockCrash, WriteUnlockStep
<1>4. ASSUME NEW t \in Threads, ReadUnlock(t) PROVE IInv'
  BY <1>4, ReadUnlockStep
<1>5. ASSUME NEW t \in Threads, Acquire(t) PROVE IInv'
  BY <1>5, WriteAcquireStep, ReadAcquireStep, StoreEmptyStep DEF Acquire
<1>6. ASSUME NEW t \in Threads, Timeout(t) PROVE IInv'
  BY <1>6, TimeoutStep
<1> QED
  BY <1>1, <1>2, <1>3, <1>4, <1>5, <1>6 DEF Next

\* IInv holds in every behaviour.
LEMMA Invariance == Spec => []IInv
BY Initially, Inductive, PTL DEF Spec

-------------------------------------------------------------------------------

\* Every variable of the lock keeps its type: _writeCount and the readers'
\* half of the word never go below zero.
THEOREM TypeCorrect == Spec => []TypeOK
BY Invariance, PTL DEF IInv

\* A thread under WRITE_LOCK is alone, however many threads and nested guards.
THEOREM Excluded == Spec => []Exclusion
<1>1. IInv => Exclusion
  BY DEF IInv, GuardNamesWriter, WriterAlone, Exclusion
<1> QED
  BY <1>1, Invariance, PTL

\* The word and _writeCount are exact: the store of EMPTY_FLAG loses no read.
THEOREM WordExact == Spec => []WordMatchesGuards
<1>1. IInv => WordMatchesGuards
  BY DEF IInv, Counted, GuardNamesWriter, WordMatchesGuards
<1> QED
  BY <1>1, Invariance, PTL

\* Guards never crash MULTIPLE_UNLOCK, and INVALID_UNLOCK_ORDER only where a
\* thread opened a write guard inside a read guard of its own.
THEOREM CrashesOnlyNested == Spec => []UnlockCrashesOnlyNested
BY Invariance, PTL DEF IInv

\* A thread that asks for the write lock under its own read never gets it.
THEOREM NoUpgrade == Spec => UpgradeNeverReturns
<1>1. ASSUME IInv, [Next]_lockVars, NEW t \in Threads, Upgrading(t)
      PROVE  Upgrading(t)'
  <2>1. readers # 0 /\ pc[t] = "spinWrite" /\ t # NoThread
    BY <1>1, HolderCounted, NoThreadAssumption DEF Upgrading, IInv, Counted, Kinds
  <2>2. CASE UNCHANGED lockVars
    BY <1>1, <2>2 DEF lockVars, Upgrading, Holds
  <2>3. ASSUME NEW u \in Threads, u # t,
               \/ WriteLock(u) \/ WriteUnlock(u) \/ ReadLock(u) \/ ReadUnlock(u)
               \/ Acquire(u) \/ Timeout(u)
        PROVE  pc'[t] = pc[t] /\ held'[t] = held[t]
    BY <1>1, <2>3
    DEF IInv, TypeOK, WriteLock, WriteUnlock, ReadLock, ReadUnlock, Acquire,
        WriteAcquire, WriteTake, ReadAcquire, ReadTake, StoreEmpty, Timeout,
        Hold, Drop, GoTo
  <2>4. CASE Timeout(t)
    BY <1>1, <2>4 DEF Timeout, Upgrading, Holds
  <2>5. ~(WriteLock(t) \/ WriteUnlock(t) \/ ReadLock(t) \/ ReadUnlock(t) \/ Acquire(t))
    BY <2>1 DEF WriteLock, WriteUnlock, ReadLock, ReadUnlock, Running, Acquire,
                WriteAcquire, ReadAcquire, ReadTake, StoreEmpty
  <2> QED
    BY <1>1, <2>2, <2>3, <2>4, <2>5 DEF Next, Upgrading, Holds
<1>2. IInv /\ [Next]_lockVars => [\A t \in Threads : Upgrading(t) => Upgrading(t)']_lockVars
  BY <1>1
<1> QED
  BY <1>2, Invariance, PTL DEF Spec, UpgradeNeverReturns

===============================================================================
