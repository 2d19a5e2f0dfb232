---------------------------- MODULE DeadLockProfiler ----------------------------
(***************************************************************************)
(* ServerCore/DeadLockProfiler.cpp, which debug builds call before every    *)
(* lock and unlock.  It gives each name of a lock an id, keeps the ids a    *)
(* thread holds or waits for on a stack of that thread, remembers which id  *)
(* was asked for on top of which, and crashes when that history gets a      *)
(* cycle.  The name is typeid(this).name(): all objects of a class have one.*)
(*                                                                          *)
(* Every call is under the profiler's own mutex: it is one step, but for    *)
(* the search for a cycle, in whose steps Dfs calls itself.  The locks are  *)
(* RWLock's, for writing: a thread waits for a lock that another one holds, *)
(* and may take its own again.                                              *)
(***************************************************************************)
EXTENDS Integers, Sequences, SequencesExt, FiniteSetsExt

CONSTANTS
    Threads, Locks,
    NameOf,                 \* the name each lock is given
    NoLock,
    MaxDepth                \* bound: the guards one thread holds or waits for

ASSUME NoLockAssumption == NoLock \notin Locks
ASSUME NameAssumption == DOMAIN NameOf = Locks
ASSUME DepthAssumption == MaxDepth \in Nat

VARIABLES
    names,                  \* _idToName: the name with id i is names[i + 1]
    lockHistory,            \* _lockHistory, as the pairs <<prevId, lockId>>
    lockStack,              \* _lockStack, per thread, its top last
    guards,                 \* the locks each thread holds, innermost last
    asked,                  \* the lock each thread waits for
    crash,                  \* the CRASH that ended the process, or "none"
    searching,              \* the lock for which each thread is in CheckCycle
    discoveredOrder, discoveredCount, finished, parent,
    path,                   \* the calls of Dfs under way, innermost last
    looked,                 \* the pairs that their loops have passed
    walk                    \* the ids that the crash prints

lockVars == <<lockStack, guards, asked>>
searchVars == <<discoveredOrder, discoveredCount, finished, parent, path, looked, walk>>
vars == <<names, lockHistory, lockVars, crash, searching, searchVars>>

Init ==
    /\ names = <<>>
    /\ lockHistory = {}
    /\ lockStack = [t \in Threads |-> <<>>]
    /\ guards = [t \in Threads |-> <<>>]
    /\ asked = [t \in Threads |-> NoLock]
    /\ crash = "none"
    /\ searching = [t \in Threads |-> NoLock]
    /\ discoveredOrder = <<>> /\ discoveredCount = 0 /\ finished = {} /\ parent = <<>>
    /\ path = <<>> /\ looked = {} /\ walk = <<>>

\* Between two calls nobody has the mutex.
Unlocked == \A t \in Threads : searching[t] = NoLock

Ids(known) == 0..(Len(known) - 1)

(***************************************************************************)
(* PushLock.                                                                *)
(***************************************************************************)

\* Slip: a name is given an id each time.
Known_Repeats(l) == Append(names, NameOf[l])

\* _nameToId; a new name gets the next id.
IdOf(known, l) == (CHOOSE i \in 1..Len(known) : known[i] = NameOf[l]) - 1
Known(l) == IF NameOf[l] \in ToSet(names) THEN names ELSE Append(names, NameOf[l])

\* Slips: a lock with the name on top is not pushed; the edge goes from the
\* outermost lock.
Pushed_SkipsSame(stack, id) ==
    IF stack # <<>> /\ Last(stack) = id THEN stack ELSE Append(stack, id)
NewEdges_FromOutermost(stack, id) ==
    IF stack = <<>> \/ Head(stack) = id THEN {} ELSE {<<Head(stack), id>>}

Pushed(stack, id) == Append(stack, id)

\* From the id on top to one that differs from it.
NewEdges(stack, id) ==
    IF stack = <<>> \/ Last(stack) = id THEN {} ELSE {<<Last(stack), id>>}

\* The end of PushLock: the thread goes on to wait for the lock.
Ask(t, l) ==
    /\ lockStack' = [lockStack EXCEPT ![t] = Pushed(lockStack[t], IdOf(names', l))]
    /\ asked' = [asked EXCEPT ![t] = l]
    /\ UNCHANGED guards

PushLock(t, l) ==
    /\ crash = "none" /\ Unlocked
    /\ asked[t] = NoLock
    /\ Len(guards[t]) < MaxDepth
    /\ names' = Known(l)
    /\ LET edges == NewEdges(lockStack[t], IdOf(names', l)) IN
       /\ lockHistory' = lockHistory \cup edges
       /\ \/ /\ edges \subseteq lockHistory
             /\ Ask(t, l)
             /\ UNCHANGED <<searching, searchVars>>
          \/ /\ ~(edges \subseteq lockHistory)
             /\ searching' = [searching EXCEPT ![t] = l]
             /\ discoveredOrder' = [i \in Ids(names') |-> -1]
             /\ parent' = [i \in Ids(names') |-> -1]
             /\ UNCHANGED <<lockVars, discoveredCount, finished, path, looked, walk>>
    /\ UNCHANGED crash

(***************************************************************************)
(* CheckCycle: Dfs of every id, in ascending order.                         *)
(***************************************************************************)

Search(t) ==
    /\ crash = "none"
    /\ searching[t] # NoLock
    /\ UNCHANGED <<names, lockHistory, guards>>

\* A call of Dfs, up to its loop.
Dfs(here) ==
    /\ discoveredOrder' = [discoveredOrder EXCEPT ![here] = discoveredCount]
    /\ discoveredCount' = discoveredCount + 1
    /\ path' = Append(path, here)

\* An id that was discovered is returned from at once.
Undiscovered == {i \in Ids(names) : discoveredOrder[i] = -1}

DfsFromHere(t) ==
    /\ Search(t)
    /\ path = <<>> /\ Undiscovered # {}
    /\ Dfs(Min(Undiscovered))
    /\ UNCHANGED <<lockStack, asked, crash, searching, finished, parent, looked, walk>>

\* The call that runs, and what its loop has yet to look at, in ascending order.
Here == Last(path)
Left == {e[2] : e \in {f \in lockHistory \ looked : f[1] = Here}}
There == Min(Left)

LookAtThere(t) ==
    /\ Search(t)
    /\ path # <<>> /\ Left # {} /\ walk = <<>>
    /\ UNCHANGED <<lockStack, asked, crash, searching, finished>>

\* Slip: whether the search of `there` has ended is not asked.
BackEdge_AnyEarlier(here, there) == discoveredOrder[here] >= discoveredOrder[there]

\* A discovered id closes a cycle when it was discovered earlier and is not finished.
BackEdge(here, there) ==
    discoveredOrder[here] >= discoveredOrder[there] /\ there \notin finished

DfsThere(t) ==
    /\ LookAtThere(t)
    /\ discoveredOrder[There] = -1
    /\ parent' = [parent EXCEPT ![There] = Here]
    /\ looked' = looked \cup {<<Here, There>>}
    /\ Dfs(There)
    /\ UNCHANGED walk

Continue(t) ==
    /\ LookAtThere(t)
    /\ discoveredOrder[There] # -1 /\ ~BackEdge(Here, There)
    /\ looked' = looked \cup {<<Here, There>>}
    /\ UNCHANGED <<discoveredOrder, discoveredCount, parent, path, walk>>

FindCycle(t) ==
    /\ LookAtThere(t)
    /\ discoveredOrder[There] # -1 /\ BackEdge(Here, There)
    /\ walk' = <<Here>>
    /\ UNCHANGED <<discoveredOrder, discoveredCount, parent, path, looked>>

\* The loop that prints: from each id to its parent, as far as `there`.
PrintCycle(t) ==
    /\ Search(t)
    /\ walk # <<>>
    /\ LET now == parent[Last(walk)] IN
       /\ walk' = Append(walk, now)
       /\ crash' = IF now = There THEN "DEADLOCK_DETECTED" ELSE "none"
    /\ UNCHANGED <<lockStack, asked, searching, discoveredOrder, discoveredCount, finished,
                   parent, path, looked>>

Finish(t) ==
    /\ Search(t)
    /\ path # <<>> /\ Left = {}
    /\ finished' = finished \cup {Here}
    /\ path' = Front(path)
    /\ UNCHANGED <<lockStack, asked, crash, searching, discoveredOrder, discoveredCount, parent,
                   looked, walk>>

\* No cycle: the thread goes on to wait for its lock.  _discoveredCount is set to 0
\* here; the code does so when the next search begins.
EndSearch(t) ==
    /\ Search(t)
    /\ path = <<>> /\ Undiscovered = {}
    /\ Ask(t, searching[t])
    /\ searching' = [searching EXCEPT ![t] = NoLock]
    /\ discoveredOrder' = <<>> /\ discoveredCount' = 0 /\ finished' = {} /\ parent' = <<>>
    /\ looked' = {}
    /\ UNCHANGED <<path, walk>>
    /\ UNCHANGED crash

(***************************************************************************)
(* The lock itself, and PopLock.                                            *)
(***************************************************************************)

HoldsLock(t, l) == l \in ToSet(guards[t])

\* The lock is free, or the thread's own.
Acquire(t) ==
    /\ crash = "none"
    /\ asked[t] # NoLock
    /\ \A u \in Threads \ {t} : ~HoldsLock(u, asked[t])
    /\ guards' = [guards EXCEPT ![t] = Append(guards[t], asked[t])]
    /\ asked' = [asked EXCEPT ![t] = NoLock]
    /\ UNCHANGED <<names, lockHistory, lockStack, crash, searching, searchVars>>

\* The innermost guard ends: PopLock, then the unlock.
PopLock(t) ==
    /\ crash = "none" /\ Unlocked
    /\ asked[t] = NoLock
    /\ guards[t] # <<>>
    /\ IF lockStack[t] = <<>>
       THEN crash' = "MULTIPLE_UNLOCK" /\ UNCHANGED <<lockStack, guards>>
       ELSE IF Last(lockStack[t]) # IdOf(names, Last(guards[t]))
       THEN crash' = "INVALID_UNLOCK" /\ UNCHANGED <<lockStack, guards>>
       ELSE /\ lockStack' = [lockStack EXCEPT ![t] = Front(lockStack[t])]
            /\ guards' = [guards EXCEPT ![t] = Front(guards[t])]
            /\ UNCHANGED crash
    /\ UNCHANGED <<names, lockHistory, asked, searching, searchVars>>

Next == \E t \in Threads :
    \/ \E l \in Locks : PushLock(t, l)
    \/ DfsFromHere(t) \/ DfsThere(t) \/ Continue(t) \/ Finish(t) \/ EndSearch(t)
    \/ FindCycle(t) \/ PrintCycle(t)
    \/ Acquire(t)
    \/ PopLock(t)

Spec == Init /\ [][Next]_vars

-------------------------------------------------------------------------------

\* Every variable has its type: the printing never leaves the ids.
TypeOK ==
    /\ ToSet(names) \subseteq {NameOf[l] : l \in Locks}
    /\ \A i, j \in 1..Len(names) : names[i] = names[j] => i = j
    /\ lockHistory \subseteq Ids(names) \X Ids(names)
    /\ lockStack \in [Threads -> Seq(Ids(names))]
    /\ guards \in [Threads -> Seq(Locks)]
    /\ asked \in [Threads -> Locks \cup {NoLock}]
    /\ crash \in {"none", "DEADLOCK_DETECTED", "MULTIPLE_UNLOCK", "INVALID_UNLOCK"}
    /\ searching \in [Threads -> Locks \cup {NoLock}]
    /\ Unlocked \/ {discoveredOrder, parent} \subseteq [Ids(names) -> Ids(names) \cup {-1}]
    /\ discoveredCount \in 0..Len(names)
    /\ finished \subseteq Ids(names)
    /\ path \in Seq(Ids(names)) /\ walk \in Seq(Ids(names))
    /\ looked \subseteq lockHistory

\* Each of these ids has another of them asked for on top.
Cycle(S, history) == S # {} /\ \A i \in S : \E j \in S : <<i, j>> \in history
Cyclic(history) == \E S \in SUBSET {e[1] : e \in history} : Cycle(S, history)

\* The search, which stops at whatever was discovered before and looks at the
\* history only when it has grown, finds a cycle exactly when there is one, and
\* what the crash has printed is one.
CycleIsFound ==
    /\ Unlocked => ~Cyclic(lockHistory)
    /\ walk # <<>> => Cyclic(lockHistory)
    /\ crash = "DEADLOCK_DETECTED" => Cycle(ToSet(walk), lockHistory)

\* PopLock finds the stack as the guards left it, however names are shared and
\* locks are taken again: it never crashes.
PopsItsOwn == crash \notin {"MULTIPLE_UNLOCK", "INVALID_UNLOCK"}

\* Each of these threads waits for a lock that another of them holds.
Deadlocked(D) ==
    D # {} /\ \A t \in D : asked[t] # NoLock
                           /\ \E u \in D \ {t} : HoldsLock(u, asked[t])

\* What the profiler is for: threads that wait for each other did not get so
\* far without DEADLOCK_DETECTED, unless all they wait for has one name.
DeadlockIsForeseen ==
    \A D \in SUBSET Threads :
        Deadlocked(D) =>
            \E C \in SUBSET D :
                Deadlocked(C) /\ \A t, u \in C : NameOf[asked[t]] = NameOf[asked[u]]

===============================================================================
