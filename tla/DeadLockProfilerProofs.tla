------------------------- MODULE DeadLockProfilerProofs -------------------------
(***************************************************************************)
(* Theorems about DeadLockProfiler, for any threads, locks, names and depth *)
(* of the guards.                                                           *)
(***************************************************************************)
EXTENDS DeadLockProfiler, SequenceTheorems, FiniteSetTheorems, WellFoundedInduction, TLAPS

Names == {NameOf[l] : l \in Locks}
Crashes == {"none", "DEADLOCK_DETECTED", "MULTIPLE_UNLOCK", "INVALID_UNLOCK"}

Types ==
    /\ names \in Seq(Names)
    /\ \A i, j \in 1..Len(names) : names[i] = names[j] => i = j
    /\ lockHistory \subseteq Ids(names) \X Ids(names)
    /\ lockStack \in [Threads -> Seq(Ids(names))]
    /\ guards \in [Threads -> Seq(Locks)]
    /\ asked \in [Threads -> Locks \cup {NoLock}]
    /\ crash \in Crashes
    /\ searching \in [Threads -> Locks \cup {NoLock}]
    /\ discoveredCount \in Nat
    /\ path \in Seq(Ids(names)) /\ walk \in Seq(Ids(names))

(***************************************************************************)
(* The stacks, between the calls.                                           *)
(***************************************************************************)

\* The id i is that of the lock l.
IsIdOf(known, i, l) == i \in Ids(known) /\ known[i + 1] = NameOf[l]

\* A thread's stack has the ids of its guards, and of what it waits for.
StackMatches(t) ==
    /\ Len(lockStack[t]) = Len(guards[t]) + (IF asked[t] = NoLock THEN 0 ELSE 1)
    /\ \A k \in 1..Len(guards[t]) : IsIdOf(names, lockStack[t][k], guards[t][k])
    /\ asked[t] # NoLock => IsIdOf(names, lockStack[t][Len(lockStack[t])], asked[t])

\* The pair that a search is about is new.
NewEdge(t) == <<Last(lockStack[t]), IdOf(names, searching[t])>>
Pending == {NewEdge(t) : t \in {u \in Threads : searching[u] # NoLock}}
OldHistory == lockHistory \ Pending

\* One id is asked for on top of another, or of itself.
StackIsHistory(t) ==
    \A k \in 1..(Len(lockStack[t]) - 1) :
        \/ lockStack[t][k] = lockStack[t][k + 1]
        \/ <<lockStack[t][k], lockStack[t][k + 1]>> \in OldHistory

Stacks == \A t \in Threads : StackMatches(t) /\ StackIsHistory(t)

\* One thread searches at a time, for a lock that it neither holds nor waits for.
OneSearcher ==
    /\ \A t, u \in Threads : searching[t] # NoLock /\ searching[u] # NoLock => t = u
    /\ \A t \in Threads : searching[t] # NoLock =>
          /\ asked[t] = NoLock
          /\ lockStack[t] # <<>>
          /\ IsIdOf(names, IdOf(names, searching[t]), searching[t])
          /\ NewEdge(t) \in lockHistory

\* No search has missed a cycle, and an id is not asked for on top of itself.
History ==
    /\ ~Cyclic(OldHistory)
    /\ \A e \in lockHistory : e[1] # e[2]

(***************************************************************************)
(* The search.                                                              *)
(***************************************************************************)

Idle ==
    /\ discoveredCount = 0 /\ finished = {}
    /\ path = <<>> /\ looked = {} /\ walk = <<>>

OnPath == ToSet(path)

SearchTypes ==
    /\ discoveredOrder \in [Ids(names) -> Nat \cup {-1}]
    /\ \A i \in Ids(names) : discoveredOrder[i] < discoveredCount
    /\ parent \in [Ids(names) -> Ids(names) \cup {-1}]
    /\ looked \subseteq lockHistory
    /\ discoveredCount = Cardinality(finished \cup OnPath)

\* An id is discovered when its call of Dfs runs or has ended.
Discovered ==
    /\ \A i \in Ids(names) : discoveredOrder[i] # -1 <=> i \in finished \cup OnPath
    /\ finished \subseteq Ids(names) \ OnPath

\* Each call was made by the one before it in the path.
PathIsChain ==
    /\ \A j, k \in 1..Len(path) : j < k => discoveredOrder[path[j]] < discoveredOrder[path[k]]
    /\ \A k \in 1..(Len(path) - 1) : /\ <<path[k], path[k + 1]>> \in looked
                                     /\ parent[path[k + 1]] = path[k]

\* What a loop has passed has ended, or is the call that it made.
Passed ==
    \A e \in looked :
        \/ e[2] \in finished
        \/ \E k \in 1..(Len(path) - 1) : e = <<path[k], path[k + 1]>>

\* There is no cycle among the ids whose calls have ended.
FinishedAcyclic ==
    /\ \A e \in lockHistory : e[1] \in finished => e[2] \in finished
    /\ \A S \in SUBSET finished : ~Cycle(S, lockHistory)

\* The printing goes back along the path, not yet as far as `there`.
WalkOnPath ==
    walk # <<>> =>
        /\ path # <<>> /\ Left # {}
        /\ \E g \in 1..(Len(path) - 1) :
              /\ path[g] = There
              /\ IF crash = "none" THEN Len(walk) <= Len(path) - g
                                   ELSE Len(walk) = Len(path) - g + 1
              /\ \A k \in 1..Len(walk) : walk[k] = path[Len(path) + 1 - k]

Searches ==
    /\ SearchTypes /\ Discovered /\ PathIsChain /\ Passed /\ FinishedAcyclic /\ WalkOnPath

Crashed ==
    /\ crash \in {"none", "DEADLOCK_DETECTED"}
    /\ crash = "DEADLOCK_DETECTED" => walk # <<>>

IInv ==
    /\ Types /\ Stacks /\ OneSearcher /\ History /\ Crashed
    /\ IF Unlocked THEN Idle ELSE Searches

-------------------------------------------------------------------------------

\* A set of naturals has a least element.
LEMMA LeastIn ==
    ASSUME NEW S \in SUBSET Nat, S # {}
    PROVE  \E x \in S : \A y \in S : x <= y
<1>1. OpToRel(<, Nat) = {ss \in Nat \X Nat : ss[1] < ss[2]}
  BY DEF OpToRel
<1>2. PICK x \in S : \A y \in S : ~ (<<y, x>> \in OpToRel(<, Nat))
  BY NatLessThanWellFounded, WFMin
<1>3. ASSUME NEW y \in S
      PROVE  x <= y
  <2>1. ~ (<<y, x>> \in {ss \in Nat \X Nat : ss[1] < ss[2]})
    BY <1>1, <1>2
  <2>2. ~ (y < x)
    BY <2>1
  <2> QED
    BY <2>2
<1> QED
  BY <1>3

\* Min of a set of naturals is one of them.
LEMMA MinIsIn ==
    ASSUME NEW S \in SUBSET Nat, S # {}
    PROVE  Min(S) \in S
BY LeastIn DEF Min

\* What Append and Front do to the places of a sequence.
LEMMA Appended ==
    ASSUME NEW S, NEW s \in Seq(S), NEW x \in S
    PROVE  /\ Append(s, x) \in Seq(S)
           /\ Len(Append(s, x)) = Len(s) + 1
           /\ Append(s, x)[Len(s) + 1] = x
           /\ \A k \in 1..Len(s) : Append(s, x)[k] = s[k]
           /\ ToSet(Append(s, x)) = ToSet(s) \cup {x}
<1>1. /\ Append(s, x) \in Seq(S)
      /\ Len(Append(s, x)) = Len(s) + 1
      /\ Append(s, x)[Len(s) + 1] = x
      /\ \A k \in 1..Len(s) : Append(s, x)[k] = s[k]
  OBVIOUS
<1>2. DOMAIN s = 1..Len(s) /\ DOMAIN Append(s, x) = 1..(Len(s) + 1) /\ Len(s) \in Nat
  BY <1>1
<1>3. ToSet(Append(s, x)) = ToSet(s) \cup {x}
  BY <1>1, <1>2 DEF ToSet
<1> QED
  BY <1>1, <1>3

\* The same of Front.
LEMMA Shortened ==
    ASSUME NEW S, NEW s \in Seq(S), s # <<>>
    PROVE  /\ Front(s) \in Seq(S)
           /\ Len(Front(s)) = Len(s) - 1
           /\ \A k \in 1..(Len(s) - 1) : Front(s)[k] = s[k]
           /\ Last(s) \in S /\ Len(s) \in Nat \ {0}
           /\ \A x \in ToSet(s) : x = Last(s) \/ x \in ToSet(Front(s))
           /\ ToSet(Front(s)) \subseteq ToSet(s)
<1>1. Len(s) \in Nat \ {0} /\ DOMAIN s = 1..Len(s)
  BY EmptySeq
<1>2. /\ Front(s) \in Seq(S)
      /\ Len(Front(s)) = Len(s) - 1
      /\ \A k \in 1..(Len(s) - 1) : Front(s)[k] = s[k]
  BY <1>1 DEF Front
<1>3. DOMAIN Front(s) = 1..(Len(s) - 1)
  BY <1>1, <1>2
<1>4. Last(s) \in S
  BY <1>1 DEF Last
<1>5. \A x \in ToSet(s) : x = Last(s) \/ x \in ToSet(Front(s))
  BY <1>1, <1>2, <1>3 DEF ToSet, Last
<1>6. ToSet(Front(s)) \subseteq ToSet(s)
  BY <1>1, <1>2, <1>3 DEF ToSet
<1> QED
  BY <1>1, <1>2, <1>4, <1>5, <1>6

\* The id that a name has.
LEMMA IdOfKnown ==
    ASSUME NEW known \in Seq(Names), NEW l \in Locks, NameOf[l] \in ToSet(known)
    PROVE  IdOf(known, l) \in Ids(known) /\ known[IdOf(known, l) + 1] = NameOf[l]
<1> DEFINE c == CHOOSE i \in 1..Len(known) : known[i] = NameOf[l]
<1>1. \E i \in 1..Len(known) : known[i] = NameOf[l]
  BY DEF ToSet
<1>2. c \in 1..Len(known) /\ known[c] = NameOf[l]
  BY <1>1
<1> HIDE DEF c
<1>3. c - 1 \in 0..(Len(known) - 1) /\ (c - 1) + 1 = c
  BY <1>2
<1>4. IdOf(known, l) = c - 1
  BY DEF IdOf, c
<1> QED
  BY <1>2, <1>3, <1>4 DEF Ids

(***************************************************************************)
(* The steps of the search.                                                 *)
(***************************************************************************)

\* There are as many ids as names.
LEMMA IdsFinite ==
    ASSUME NEW known, Len(known) \in Nat
    PROVE  IsFiniteSet(Ids(known)) /\ Cardinality(Ids(known)) = Len(known)
<1>1. 0 \in Int /\ Len(known) - 1 \in Int
  OBVIOUS
<1>2. IsFiniteSet(0..(Len(known) - 1))
      /\ Cardinality(0..(Len(known) - 1)) = IF 0 > Len(known) - 1 THEN 0 ELSE (Len(known) - 1) - 0 + 1
  BY <1>1, FS_Interval
<1> QED
  BY <1>2 DEF Ids

\* What they all leave alone.
LEMMA SearchStep ==
    ASSUME IInv, NEW t \in Threads, searching[t] # NoLock,
           UNCHANGED <<names, lockHistory, lockVars, searching>>,
           discoveredCount' \in Nat, path' \in Seq(Ids(names)), walk' \in Seq(Ids(names)),
           Crashed', Searches'
    PROVE  IInv'
<1> USE DEF IInv, lockVars
<1>1. Types'
  BY DEF Types, Crashed, Crashes
<1>2. Stacks' /\ OneSearcher' /\ History'
  <2>1. Pending' = Pending /\ OldHistory' = OldHistory
    BY DEF Pending, OldHistory, NewEdge
  <2> QED
    BY <2>1 DEF Stacks, StackMatches, StackIsHistory, IsIdOf, OneSearcher, NewEdge, History
<1>3. ~Unlocked'
  BY DEF Unlocked
<1> QED
  BY <1>1, <1>2, <1>3

\* During a search its state has the types it should have.
LEMMA InSearch ==
    ASSUME IInv, NEW t \in Threads, Search(t)
    PROVE  /\ Searches /\ crash = "none" /\ searching[t] # NoLock
           /\ path \in Seq(Ids(names)) /\ walk \in Seq(Ids(names)) /\ discoveredCount \in Nat
           /\ lockHistory \subseteq Ids(names) \X Ids(names)
           /\ Ids(names) \subseteq Nat /\ Len(names) \in Nat
BY DEF IInv, Search, Unlocked, Types, Ids

\* The call that runs is the last in the path, which has no id twice.
LEMMA PathFacts ==
    ASSUME path \in Seq(Ids(names)), SearchTypes, PathIsChain
    PROVE  /\ Len(path) \in Nat
           /\ \A k \in 1..Len(path) : path[k] \in Ids(names) /\ path[k] \in OnPath
           /\ \A x \in OnPath : \E k \in 1..Len(path) : x = path[k]
           /\ \A j, k \in 1..Len(path) : path[j] = path[k] => j = k
           /\ path # <<>> => /\ Len(path) \in 1..Len(path) /\ Here = path[Len(path)]
                             /\ Here \in Ids(names) /\ Here \in OnPath
<1>1. Len(path) \in Nat /\ DOMAIN path = 1..Len(path)
  OBVIOUS
<1>2. \A k \in 1..Len(path) : path[k] \in Ids(names) /\ path[k] \in OnPath
  BY <1>1 DEF OnPath, ToSet
<1>3. \A x \in OnPath : \E k \in 1..Len(path) : x = path[k]
  BY <1>1 DEF OnPath, ToSet
<1>4. ASSUME NEW j \in 1..Len(path), NEW k \in 1..Len(path), path[j] = path[k]
      PROVE  j = k
  <2>1. discoveredOrder[path[j]] \in Int
    BY <1>2 DEF SearchTypes
  <2> QED
    BY <1>1, <1>4, <2>1 DEF PathIsChain
<1>5. path # <<>> => Len(path) \in 1..Len(path) /\ Here = path[Len(path)]
  BY <1>1, EmptySeq DEF Here, Last
<1> QED
  BY <1>1, <1>2, <1>3, <1>4, <1>5

\* The next id that a loop looks at is a successor of its id, and another one.
LEMMA ThereFacts ==
    ASSUME path \in Seq(Ids(names)), path # <<>>, Left # {},
           lockHistory \subseteq Ids(names) \X Ids(names), Ids(names) \subseteq Nat
    PROVE  /\ <<Here, There>> \in lockHistory \ looked
           /\ Here \in Ids(names) /\ There \in Ids(names)
<1>1. Left \in SUBSET Nat
  BY DEF Left
<1>2. There \in Left
  BY <1>1, MinIsIn DEF There
<1>3. PICK e \in lockHistory \ looked : e[1] = Here /\ e[2] = There
  BY <1>2 DEF Left
<1>4. e = <<Here, There>>
  BY <1>3
<1> QED
  BY <1>3, <1>4

\* A call of Dfs: its id becomes the last of the path, and its caller has passed it.
LEMMA CallOfDfs ==
    ASSUME IInv, NEW t \in Threads, Search(t), NEW h \in Ids(names), discoveredOrder[h] = -1,
           Dfs(h), UNCHANGED <<finished, walk>>, walk = <<>>, crash' = crash,
           \/ path = <<>> /\ UNCHANGED <<parent, looked>>
           \/ /\ path # <<>>
              /\ <<Here, h>> \in lockHistory
              /\ parent' = [parent EXCEPT ![h] = Here]
              /\ looked' = looked \cup {<<Here, h>>}
    PROVE  Searches' /\ discoveredCount' \in Nat /\ path' \in Seq(Ids(names))
<1> USE DEF Dfs, Search
<1> DEFINE n == Len(path)
<1>1. /\ Searches
      /\ path \in Seq(Ids(names)) /\ discoveredCount \in Nat
      /\ SearchTypes /\ PathIsChain /\ Discovered /\ Passed
      /\ Len(names) \in Nat
  BY InSearch DEF Searches
<1>2. /\ n \in Nat /\ path' \in Seq(Ids(names)) /\ Len(path') = n + 1 /\ path'[n + 1] = h
      /\ \A k \in 1..n : path'[k] = path[k]
      /\ OnPath' = OnPath \cup {h}
  BY <1>1, Appended DEF OnPath
<1>3. /\ \A k \in 1..n : path[k] \in Ids(names) /\ path[k] # h
      /\ path # <<>> => n \in 1..n /\ Here = path[n] /\ Here \in Ids(names) /\ Here # h
      /\ h \notin finished
      /\ \A j, k \in 1..n : path[j] = path[k] => j = k
  BY <1>1, PathFacts DEF Discovered
<1>4. /\ discoveredOrder'[h] = discoveredCount
      /\ \A i \in Ids(names) : i # h => discoveredOrder'[i] = discoveredOrder[i]
      /\ discoveredOrder' \in [Ids(names) -> Nat \cup {-1}]
  BY <1>1 DEF SearchTypes
<1> DEFINE count == discoveredCount
<1>11. /\ count \in Nat /\ discoveredCount' = count + 1
       /\ \A i \in Ids(names) : discoveredOrder[i] \in Int /\ discoveredOrder[i] < count
  <2>1. /\ discoveredOrder \in [Ids(names) -> Nat \cup {-1}]
        /\ \A i \in Ids(names) : discoveredOrder[i] < discoveredCount
    BY <1>1 DEF SearchTypes
  <2>2. \A i \in Ids(names) : discoveredOrder[i] \in Int
    BY <2>1
  <2> QED
    BY <1>1, <2>1, <2>2
<1>5. SearchTypes'
  <2>1. \A i \in Ids(names) : discoveredOrder'[i] < discoveredCount'
    BY <1>4, <1>11
  <2>2. parent' \in [Ids(names) -> Ids(names) \cup {-1}] /\ looked' \subseteq lockHistory
    BY <1>1, <1>3 DEF SearchTypes
  <2>3. discoveredCount' = Cardinality(finished' \cup OnPath')
    <3>1. finished' \cup OnPath' = (finished \cup OnPath) \cup {h}
      BY <1>2
    <3>2. finished \cup OnPath \subseteq Ids(names) /\ h \notin finished \cup OnPath
      BY <1>1, PathFacts DEF Discovered
    <3>3. IsFiniteSet(Ids(names))
      BY <1>1, IdsFinite
    <3>4. IsFiniteSet(finished \cup OnPath)
      BY <3>2, <3>3, FS_Subset
    <3> QED
      BY <1>1, <3>1, <3>2, <3>4, FS_AddElement DEF SearchTypes
  <2> QED
    BY <1>1, <1>4, <2>1, <2>2, <2>3 DEF SearchTypes, Search
<1>6. Discovered'
  BY <1>1, <1>2, <1>3, <1>4 DEF Discovered
<1>7. PathIsChain'
  <2>1. ASSUME NEW j \in 1..(n + 1), NEW k \in 1..(n + 1), j < k
        PROVE  discoveredOrder'[path'[j]] < discoveredOrder'[path'[k]]
    <3>1. j \in 1..n /\ path'[j] = path[j] /\ discoveredOrder'[path'[j]] = discoveredOrder[path[j]]
      BY <1>2, <1>3, <1>4, <2>1
    <3>2. CASE k = n + 1
      BY <1>2, <1>3, <1>4, <1>11, <3>1, <3>2
    <3>3. CASE k \in 1..n
      BY <1>1, <1>2, <1>3, <1>4, <2>1, <3>1, <3>3 DEF PathIsChain
    <3> QED
      BY <1>2, <3>2, <3>3
  <2>2. ASSUME NEW k \in 1..n
        PROVE  <<path'[k], path'[k + 1]>> \in looked' /\ parent'[path'[k + 1]] = path'[k]
    <3>1. path # <<>>
      BY <2>2
    <3>2. CASE k = n
      BY <1>1, <1>2, <1>3, <3>1, <3>2 DEF SearchTypes
    <3>3. CASE k # n
      <4>1. k \in 1..(n - 1) /\ k + 1 \in 1..n
        BY <1>2, <3>3
      <4>2. <<path[k], path[k + 1]>> \in looked /\ parent[path[k + 1]] = path[k]
        BY <1>1, <4>1 DEF PathIsChain
      <4>3. parent'[path[k + 1]] = parent[path[k + 1]]
        BY <1>1, <1>3, <3>1, <4>1 DEF SearchTypes
      <4> QED
        BY <1>2, <3>1, <4>1, <4>2, <4>3
    <3> QED
      BY <3>2, <3>3
  <2> QED
    BY <1>2, <2>1, <2>2 DEF PathIsChain
<1>8. Passed'
  <2>1. ASSUME NEW e \in looked
        PROVE  e[2] \in finished \/ \E k \in 1..n : e = <<path'[k], path'[k + 1]>>
    <3>1. CASE e[2] \in finished
      BY <3>1
    <3>2. CASE e[2] \notin finished
      <4>1. PICK k \in 1..(n - 1) : e = <<path[k], path[k + 1]>>
        BY <1>1, <3>2 DEF Passed
      <4>2. k \in 1..n /\ k + 1 \in 1..n
        BY <1>2, <4>1
      <4> QED
        BY <1>2, <4>1, <4>2
    <3> QED
      BY <3>1, <3>2
  <2>2. path # <<>> => n \in 1..n /\ <<Here, h>> = <<path'[n], path'[n + 1]>>
    BY <1>2, <1>3
  <2> QED
    BY <1>2, <2>1, <2>2 DEF Passed
<1>9. FinishedAcyclic' /\ WalkOnPath'
  BY <1>1 DEF Searches, FinishedAcyclic, WalkOnPath
<1> QED
  BY <1>1, <1>2, <1>5, <1>6, <1>7, <1>8, <1>9 DEF Searches

\* The loop of CheckCycle calls Dfs of an id that was not discovered.
LEMMA DfsFromHereStep ==
    ASSUME IInv, NEW t \in Threads, DfsFromHere(t)
    PROVE  IInv'
<1> USE DEF DfsFromHere
<1>1. /\ Searches /\ crash = "none" /\ searching[t] # NoLock /\ Search(t)
      /\ Ids(names) \subseteq Nat
  BY InSearch
<1>2. walk = <<>>
  BY <1>1 DEF Searches, WalkOnPath
<1>3. Undiscovered \in SUBSET Nat
  BY <1>1 DEF Undiscovered
<1>4. Min(Undiscovered) \in Ids(names) /\ discoveredOrder[Min(Undiscovered)] = -1
  BY <1>3, MinIsIn DEF Undiscovered
<1>5. Searches' /\ discoveredCount' \in Nat /\ path' \in Seq(Ids(names))
  BY <1>1, <1>2, <1>4, CallOfDfs
<1>6. Crashed' /\ walk' \in Seq(Ids(names))
  BY <1>1, InSearch DEF IInv, Crashed
<1> QED
  BY <1>1, <1>5, <1>6, SearchStep DEF Search, lockVars

\* The loop of Dfs calls Dfs of an id that was not discovered.
LEMMA DfsThereStep ==
    ASSUME IInv, NEW t \in Threads, DfsThere(t)
    PROVE  IInv'
<1> USE DEF DfsThere, LookAtThere
<1>1. /\ Searches /\ crash = "none" /\ searching[t] # NoLock /\ Search(t)
  BY InSearch
<1>2. <<Here, There>> \in lockHistory /\ There \in Ids(names)
  BY InSearch, ThereFacts
<1>3. Searches' /\ discoveredCount' \in Nat /\ path' \in Seq(Ids(names))
  BY <1>1, <1>2, CallOfDfs
<1>4. Crashed' /\ walk' \in Seq(Ids(names))
  BY <1>1, InSearch DEF IInv, Crashed
<1> QED
  BY <1>1, <1>3, <1>4, SearchStep DEF Search, lockVars

\* An id that is discovered and closes no cycle has ended: one that was discovered
\* later than the id that runs is not on the path, which is in the order of discovery.
LEMMA ContinueStep ==
    ASSUME IInv, NEW t \in Threads, Continue(t)
    PROVE  IInv'
<1> USE DEF Continue, LookAtThere
<1>1. /\ Searches /\ crash = "none" /\ searching[t] # NoLock /\ Search(t)
      /\ path \in Seq(Ids(names)) /\ discoveredCount \in Nat /\ walk \in Seq(Ids(names))
      /\ SearchTypes /\ PathIsChain /\ Discovered /\ Passed
  BY InSearch DEF Searches
<1>2. <<Here, There>> \in lockHistory /\ There \in Ids(names) /\ Here \in Ids(names)
  BY InSearch, ThereFacts
<1>3. There \in finished
  <2> SUFFICES ASSUME There \notin finished
               PROVE  FALSE
    OBVIOUS
  <2>1. There \in OnPath
    BY <1>1, <1>2 DEF Discovered
  <2>2. PICK k \in 1..Len(path) : There = path[k]
    BY <1>1, <2>1, PathFacts
  <2>3. Len(path) \in 1..Len(path) /\ Here = path[Len(path)]
    BY <1>1, PathFacts
  <2>4. k = Len(path) \/ discoveredOrder[There] < discoveredOrder[Here]
    BY <1>1, <2>2, <2>3 DEF PathIsChain
  <2>5. discoveredOrder[There] \in Int /\ discoveredOrder[Here] \in Int
    BY <1>1, <1>2 DEF SearchTypes
  <2> QED
    BY <2>2, <2>3, <2>4, <2>5 DEF BackEdge
<1>4. SearchTypes' /\ Discovered' /\ PathIsChain'
  BY <1>1, <1>2 DEF SearchTypes, Discovered, PathIsChain, Search, OnPath
<1>5. Passed'
  BY <1>1, <1>3 DEF Passed
<1>6. FinishedAcyclic' /\ WalkOnPath'
  BY <1>1 DEF Searches, FinishedAcyclic, WalkOnPath, Search
<1>7. Searches' /\ Crashed'
  BY <1>1, <1>4, <1>5, <1>6 DEF Searches, IInv, Crashed
<1> QED
  BY <1>1, <1>7, SearchStep DEF Search, lockVars

\* What is found on the path is `there`, before the id that runs.
LEMMA FindCycleStep ==
    ASSUME IInv, NEW t \in Threads, FindCycle(t)
    PROVE  IInv'
<1> USE DEF FindCycle, LookAtThere
<1>1. /\ Searches /\ crash = "none" /\ searching[t] # NoLock /\ Search(t)
      /\ path \in Seq(Ids(names)) /\ discoveredCount \in Nat
      /\ SearchTypes /\ PathIsChain /\ Discovered /\ Passed
  BY InSearch DEF Searches
<1>2. <<Here, There>> \in lockHistory /\ There \in Ids(names) /\ Here \in Ids(names)
  BY InSearch, ThereFacts
<1>3. Here # There
  BY <1>2 DEF IInv, History
<1>4. Len(path) \in 1..Len(path) /\ Here = path[Len(path)]
  BY <1>1, PathFacts
<1>5. PICK g \in 1..Len(path) : There = path[g]
  <2>1. There \in OnPath
    BY <1>1, <1>2 DEF Discovered, BackEdge
  <2> QED
    BY <1>1, <2>1, PathFacts
<1>6. g \in 1..(Len(path) - 1)
  BY <1>3, <1>4, <1>5
<1>7. WalkOnPath'
  <2>1. Left' = Left /\ There' = There
    BY DEF Left, There, Here, Search
  <2>2. Len(walk') = 1 /\ walk'[1] = path[Len(path)]
    BY <1>4
  <2>3. /\ path[g] = There
        /\ Len(walk') <= Len(path) - g
        /\ \A k \in 1..Len(walk') : walk'[k] = path[Len(path) + 1 - k]
    BY <1>4, <1>5, <1>6, <2>2
  <2> QED
    BY <1>1, <1>6, <2>1, <2>3 DEF WalkOnPath
<1>8. SearchTypes' /\ Discovered' /\ PathIsChain' /\ Passed' /\ FinishedAcyclic'
  BY <1>1 DEF Searches, SearchTypes, Discovered, PathIsChain, Passed, FinishedAcyclic, Search,
              OnPath
<1>9. Crashed' /\ walk' \in Seq(Ids(names))
  BY <1>1, <1>2 DEF Crashed
<1> QED
  BY <1>1, <1>7, <1>8, <1>9, SearchStep DEF Searches, Search, lockVars

\* The parent of an id on the path, after `there`, is the id before it.
LEMMA PrintCycleStep ==
    ASSUME IInv, NEW t \in Threads, PrintCycle(t)
    PROVE  IInv'
<1> USE DEF PrintCycle
<1> DEFINE n == Len(path)
           w == Len(walk)
           now == parent[Last(walk)]
<1>1. /\ Searches /\ crash = "none" /\ searching[t] # NoLock /\ Search(t)
      /\ path \in Seq(Ids(names)) /\ walk \in Seq(Ids(names)) /\ discoveredCount \in Nat
      /\ SearchTypes /\ PathIsChain
  BY InSearch DEF Searches
<1>2. PICK g \in 1..(n - 1) : /\ path[g] = There
                              /\ w <= n - g
                              /\ \A k \in 1..w : walk[k] = path[n + 1 - k]
  BY <1>1 DEF Searches, WalkOnPath
<1>3. n \in Nat /\ w \in Nat \ {0} /\ Last(walk) = path[n + 1 - w]
  <2>1. n \in Nat /\ w \in Nat \ {0}
    BY <1>1, EmptySeq
  <2>2. w \in 1..w
    BY <2>1
  <2> QED
    BY <1>2, <2>1, <2>2 DEF Last
<1>4. n - w \in 1..(n - 1) /\ n - w >= g /\ n + 1 - w = (n - w) + 1
  BY <1>2, <1>3
<1>5. now = path[n - w] /\ now \in Ids(names)
  <2>1. parent[path[(n - w) + 1]] = path[n - w]
    BY <1>1, <1>4 DEF PathIsChain
  <2>2. path[n - w] \in Ids(names)
    BY <1>1, <1>4, PathFacts
  <2> QED
    BY <1>3, <1>4, <2>1, <2>2
<1>6. now = There <=> n - w = g
  <2>1. g \in 1..n /\ n - w \in 1..n
    BY <1>3, <1>4
  <2> QED
    BY <1>1, <1>2, <1>5, <2>1, PathFacts
<1> HIDE DEF now
<1>7. /\ walk' = Append(walk, now) /\ walk' \in Seq(Ids(names)) /\ Len(walk') = w + 1
      /\ crash' = IF now = There THEN "DEADLOCK_DETECTED" ELSE "none"
      /\ \A k \in 1..(w + 1) : walk'[k] = path[n + 1 - k]
  <2>1. walk' = Append(walk, now) /\ crash' = IF now = There THEN "DEADLOCK_DETECTED" ELSE "none"
    BY DEF now
  <2>2. /\ walk' \in Seq(Ids(names)) /\ Len(walk') = w + 1 /\ walk'[w + 1] = now
        /\ \A k \in 1..w : walk'[k] = walk[k]
    BY <1>1, <1>5, <2>1, Appended
  <2>3. n + 1 - (w + 1) = n - w
    BY <1>3
  <2>4. ASSUME NEW k \in 1..(w + 1)
        PROVE  walk'[k] = path[n + 1 - k]
    <3>1. CASE k = w + 1
      BY <1>5, <2>2, <2>3, <3>1
    <3>2. CASE k \in 1..w
      BY <1>2, <2>2, <3>2
    <3> QED
      BY <1>3, <3>1, <3>2
  <2> QED
    BY <2>1, <2>2, <2>4
<1>8. WalkOnPath'
  <2>1. Left' = Left /\ There' = There /\ path' = path
    BY DEF Left, There, Here, Search
  <2>2. IF crash' = "none" THEN Len(walk') <= n - g ELSE Len(walk') = n - g + 1
    BY <1>2, <1>3, <1>4, <1>6, <1>7
  <2>3. path # <<>> /\ Left # {}
    BY <1>1 DEF Searches, WalkOnPath
  <2> QED
    BY <1>2, <1>7, <2>1, <2>2, <2>3 DEF WalkOnPath
<1>9. SearchTypes' /\ Discovered' /\ PathIsChain' /\ Passed' /\ FinishedAcyclic'
  BY <1>1 DEF Searches, SearchTypes, Discovered, PathIsChain, Passed, FinishedAcyclic, Search,
              OnPath
<1>10. Crashed'
  BY <1>3, <1>7, EmptySeq DEF Crashed
<1> QED
  BY <1>1, <1>7, <1>8, <1>9, <1>10, SearchStep DEF Searches, Search, lockVars

\* An id is added to those that have ended: its successors had, so it closes no cycle.
LEMMA AddFinished ==
    ASSUME NEW F, NEW h, h \notin F,
           \A e \in lockHistory : e[1] \in F \cup {h} => e[2] \in F,
           \A S \in SUBSET F : ~Cycle(S, lockHistory)
    PROVE  \A S \in SUBSET (F \cup {h}) : ~Cycle(S, lockHistory)
<1> SUFFICES ASSUME NEW S \in SUBSET (F \cup {h}), Cycle(S, lockHistory)
             PROVE  FALSE
  OBVIOUS
<1>1. ASSUME NEW i \in S
      PROVE  \E j \in S \ {h} : <<i, j>> \in lockHistory
  <2>1. PICK j \in S : <<i, j>> \in lockHistory
    BY DEF Cycle
  <2>2. j \in F
    BY <2>1
  <2> QED
    BY <2>1, <2>2
<1>2. S \ {h} # {}
  BY <1>1 DEF Cycle
<1>3. S \ {h} \in SUBSET F
  OBVIOUS
<1> QED
  BY <1>1, <1>2, <1>3 DEF Cycle

\* A call of Dfs ends when all the successors of its id have ended.
LEMMA FinishStep ==
    ASSUME IInv, NEW t \in Threads, Finish(t)
    PROVE  IInv'
<1> USE DEF Finish
<1> DEFINE n == Len(path)
<1>1. /\ Searches /\ crash = "none" /\ searching[t] # NoLock /\ Search(t)
      /\ path \in Seq(Ids(names)) /\ discoveredCount \in Nat /\ walk \in Seq(Ids(names))
      /\ SearchTypes /\ PathIsChain /\ Discovered /\ Passed
      /\ lockHistory' = lockHistory /\ names' = names
  BY InSearch DEF Searches, Search
<1>2. /\ n \in Nat /\ n \in 1..n /\ Here = path[n] /\ Here \in Ids(names) /\ Here \in OnPath
      /\ \A k \in 1..n : path[k] \in Ids(names)
      /\ \A j, k \in 1..n : path[j] = path[k] => j = k
      /\ Here \notin finished
  BY <1>1, PathFacts DEF Discovered
<1>3. /\ path' \in Seq(Ids(names)) /\ Len(path') = n - 1
      /\ \A k \in 1..(n - 1) : path'[k] = path[k]
  BY <1>1, Shortened
<1>4. OnPath' = OnPath \ {Here}
  <2>1. DOMAIN path' = 1..(n - 1)
    BY <1>3
  <2>2. \A x \in OnPath' : \E k \in 1..(n - 1) : x = path[k]
    BY <1>3, <2>1 DEF OnPath, ToSet
  <2>3. \A k \in 1..(n - 1) : k \in 1..n /\ path[k] # Here
    BY <1>2
  <2>4. Here \notin OnPath'
    BY <2>2, <2>3
  <2>5. OnPath' \subseteq OnPath /\ \A x \in OnPath : x = Here \/ x \in OnPath'
    BY <1>1, Shortened DEF OnPath, Here
  <2> QED
    BY <2>4, <2>5
<1>5. walk = <<>> /\ WalkOnPath'
  BY <1>1 DEF Searches, WalkOnPath
<1>6. SearchTypes' /\ Discovered'
  <2>1. finished' \cup OnPath' = finished \cup OnPath
    BY <1>2, <1>4
  <2> QED
    BY <1>1, <1>2, <1>4, <2>1 DEF SearchTypes, Discovered
<1>7. PathIsChain'
  <2>1. \A k \in 1..(n - 1) : k \in 1..n
    BY <1>2
  <2>2. \A k \in 1..(n - 1 - 1) : k \in 1..(n - 1) /\ k + 1 \in 1..(n - 1)
    BY <1>2
  <2> QED
    BY <1>1, <1>3, <2>1, <2>2 DEF PathIsChain
<1>8. Passed'
  <2>1. ASSUME NEW e \in looked, e[2] \notin finished'
        PROVE  \E k \in 1..(n - 1 - 1) : e = <<path'[k], path'[k + 1]>>
    <3>1. PICK k \in 1..(n - 1) : e = <<path[k], path[k + 1]>>
      BY <1>1, <2>1 DEF Passed
    <3>2. k + 1 # n
      BY <1>2, <2>1, <3>1
    <3>3. k \in 1..(n - 1 - 1) /\ k + 1 \in 1..(n - 1)
      BY <1>2, <3>1, <3>2
    <3> QED
      BY <1>3, <3>1, <3>3
  <2> QED
    BY <1>3, <2>1 DEF Passed
<1>9. ASSUME NEW e \in lockHistory, e[1] \in finished \cup {Here}
      PROVE  e[2] \in finished
  <2>1. CASE e[1] \in finished
    BY <1>1, <2>1 DEF Searches, FinishedAcyclic
  <2>2. CASE e[1] = Here
    <3>1. e \in looked
      BY <2>2 DEF Left
    <3>2. ASSUME NEW k \in 1..(n - 1), e = <<path[k], path[k + 1]>>
          PROVE  FALSE
      BY <1>2, <2>2, <3>2
    <3> QED
      BY <1>1, <3>1, <3>2 DEF Passed
  <2> QED
    BY <1>9, <2>1, <2>2
<1>10. FinishedAcyclic'
  <2>1. \A S \in SUBSET finished : ~Cycle(S, lockHistory)
    BY <1>1 DEF Searches, FinishedAcyclic
  <2>2. \A S \in SUBSET (finished \cup {Here}) : ~Cycle(S, lockHistory)
    BY <1>2, <1>9, <2>1, AddFinished
  <2> QED
    BY <1>1, <1>9, <2>2 DEF FinishedAcyclic
<1>11. Crashed'
  BY <1>1 DEF Crashed
<1> QED
  BY <1>1, <1>3, <1>5, <1>6, <1>7, <1>8, <1>10, <1>11, SearchStep DEF Searches, Search, lockVars

(***************************************************************************)
(* The steps between the searches.                                          *)
(***************************************************************************)

\* The names and the history that is no longer searched grow.
Grows ==
    /\ Ids(names) \subseteq Ids(names')
    /\ \A i \in Ids(names) : names'[i + 1] = names[i + 1]
    /\ OldHistory \subseteq OldHistory'

\* A name that is known keeps its id, and a new one gets the next.
LEMMA KnownFacts ==
    ASSUME Types, NEW l \in Locks, names' = Known(l)
    PROVE  /\ names' \in Seq(Names)
           /\ \A i, j \in 1..Len(names') : names'[i] = names'[j] => i = j
           /\ IsIdOf(names', IdOf(names', l), l)
           /\ Ids(names) \subseteq Ids(names')
           /\ \A i \in Ids(names) : names'[i + 1] = names[i + 1]
<1>1. /\ names \in Seq(Names) /\ Len(names) \in Nat
      /\ \A i, j \in 1..Len(names) : names[i] = names[j] => i = j
      /\ NameOf[l] \in Names
      /\ DOMAIN names = 1..Len(names)
  BY DEF Types, Names
<1>4. \A i \in Ids(names) : i + 1 \in 1..Len(names)
  BY <1>1 DEF Ids
<1>2. CASE NameOf[l] \in ToSet(names)
  <2>1. names' = names
    BY <1>2 DEF Known
  <2> QED
    BY <1>1, <1>2, <1>4, <2>1, IdOfKnown DEF IsIdOf
<1>3. CASE NameOf[l] \notin ToSet(names)
  <2>1. /\ names' \in Seq(Names) /\ Len(names') = Len(names) + 1
        /\ names'[Len(names) + 1] = NameOf[l]
        /\ \A k \in 1..Len(names) : names'[k] = names[k]
        /\ NameOf[l] \in ToSet(names')
    BY <1>1, <1>3, Appended DEF Known
  <2>2. \A k \in 1..Len(names) : names[k] # NameOf[l]
    BY <1>1, <1>3 DEF ToSet
  <2>3. \A k \in 1..Len(names') : k = Len(names) + 1 \/ k \in 1..Len(names)
    BY <1>1, <2>1
  <2>4. \A i, j \in 1..Len(names') : names'[i] = names'[j] => i = j
    BY <1>1, <2>1, <2>2, <2>3
  <2>5. Ids(names) \subseteq Ids(names')
    BY <1>1, <2>1 DEF Ids
  <2> QED
    BY <1>1, <1>4, <2>1, <2>4, <2>5, IdOfKnown DEF IsIdOf
<1> QED
  BY <1>2, <1>3

\* A thread that does nothing keeps a stack that matches.
LEMMA StackKept ==
    ASSUME Types, Stacks, Grows, NEW t \in Threads,
           lockStack'[t] = lockStack[t], guards'[t] = guards[t], asked'[t] = asked[t]
    PROVE  StackMatches(t)' /\ StackIsHistory(t)'
<1>1. StackMatches(t) /\ StackIsHistory(t)
  BY DEF Stacks
<1>2. \A i, l : IsIdOf(names, i, l) => IsIdOf(names', i, l)
  BY DEF Grows, IsIdOf
<1>3. StackMatches(t)'
  BY <1>1, <1>2 DEF StackMatches
<1>4. StackIsHistory(t)'
  BY <1>1 DEF StackIsHistory, Grows
<1> QED
  BY <1>3, <1>4

\* The id of a lock is pushed on top of itself, or of one that it was found to follow.
LEMMA AskStep ==
    ASSUME Types, Stacks, Grows, NEW t \in Threads, NEW l \in Locks,
           asked[t] = NoLock, Ask(t, l), IsIdOf(names', IdOf(names', l), l),
           \/ lockStack[t] = <<>>
           \/ Last(lockStack[t]) = IdOf(names', l)
           \/ <<Last(lockStack[t]), IdOf(names', l)>> \in OldHistory'
    PROVE  /\ Stacks'
           /\ lockStack' \in [Threads -> Seq(Ids(names'))]
           /\ guards' \in [Threads -> Seq(Locks)]
           /\ asked' \in [Threads -> Locks \cup {NoLock}]
<1> DEFINE id == IdOf(names', l)
           stack == lockStack[t]
           n == Len(stack)
<1>1. id \in Ids(names') /\ IsIdOf(names', id, l)
  BY DEF IsIdOf
<1> HIDE DEF id
<1>2. /\ lockStack \in [Threads -> Seq(Ids(names))]
      /\ guards \in [Threads -> Seq(Locks)] /\ guards' = guards
      /\ asked \in [Threads -> Locks \cup {NoLock}]
      /\ lockStack' = [lockStack EXCEPT ![t] = Append(stack, id)]
      /\ asked' = [asked EXCEPT ![t] = l]
      /\ l # NoLock
  BY NoLockAssumption DEF Types, Ask, Pushed, id
<1>3. \A u \in Threads : lockStack[u] \in Seq(Ids(names'))
  BY <1>2, SeqMonotonic DEF Grows
<1>4. /\ Append(stack, id) \in Seq(Ids(names'))
      /\ n \in Nat /\ Len(Append(stack, id)) = n + 1 /\ Append(stack, id)[n + 1] = id
      /\ \A k \in 1..n : Append(stack, id)[k] = stack[k]
  BY <1>1, <1>3, Appended
<1>5. lockStack' \in [Threads -> Seq(Ids(names'))]
  BY <1>2, <1>3, <1>4
<1>6. ASSUME NEW u \in Threads, u # t
      PROVE  StackMatches(u)' /\ StackIsHistory(u)'
  BY <1>2, <1>6, StackKept
<1>7. \A i, m : IsIdOf(names, i, m) => IsIdOf(names', i, m)
  BY DEF Grows, IsIdOf
<1>8. StackMatches(t)'
  <2>1. n = Len(guards[t]) /\ \A k \in 1..n : IsIdOf(names, stack[k], guards[t][k])
    BY <1>2 DEF Stacks, StackMatches
  <2>2. lockStack'[t] = Append(stack, id) /\ asked'[t] = l /\ guards'[t] = guards[t]
    BY <1>2
  <2>3. \A k \in 1..n : IsIdOf(names', Append(stack, id)[k], guards'[t][k])
    BY <1>2, <1>4, <1>7, <2>1
  <2> QED
    BY <1>1, <1>2, <1>4, <2>1, <2>2, <2>3 DEF StackMatches
<1>9. StackIsHistory(t)'
  <2>1. lockStack'[t] = Append(stack, id)
    BY <1>2
  <2>2. \A k \in 1..(n - 1) : stack[k] = stack[k + 1] \/ <<stack[k], stack[k + 1]>> \in OldHistory'
    BY DEF Stacks, StackIsHistory, Grows
  <2>3. ASSUME NEW k \in 1..n
        PROVE  LET s == Append(stack, id) IN s[k] = s[k + 1] \/ <<s[k], s[k + 1]>> \in OldHistory'
    <3>1. CASE k = n
      <4>1. stack # <<>> /\ Last(stack) = stack[n]
        BY <1>4, <2>3, EmptySeq DEF Last
      <4>2. stack[n] = id \/ <<stack[n], id>> \in OldHistory'
        BY <4>1 DEF id
      <4> QED
        BY <1>4, <3>1, <4>2
    <3>2. CASE k # n
      <4>1. k \in 1..(n - 1) /\ k + 1 \in 1..n
        BY <1>4, <3>2
      <4> QED
        BY <1>4, <2>2, <4>1
    <3> QED
      BY <3>1, <3>2
  <2> QED
    BY <1>4, <2>1, <2>3 DEF StackIsHistory
<1>10. Stacks'
  BY <1>6, <1>8, <1>9 DEF Stacks
<1> QED
  BY <1>2, <1>5, <1>10

\* Nothing is pending between the searches.
LEMMA NothingPending ==
    ASSUME Unlocked
    PROVE  Pending = {} /\ OldHistory = lockHistory
BY DEF Unlocked, Pending, OldHistory

\* PushLock of a lock that makes no new pair.
LEMMA PushKnownStep ==
    ASSUME IInv, NEW t \in Threads, NEW l \in Locks, PushLock(t, l), Ask(t, l),
           NewEdges(lockStack[t], IdOf(names', l)) \subseteq lockHistory,
           UNCHANGED <<searching, searchVars>>
    PROVE  IInv'
<1> DEFINE id == IdOf(names', l)
<1>1. /\ Types /\ Stacks /\ OneSearcher /\ History /\ Crashed /\ Unlocked /\ Idle
      /\ asked[t] = NoLock /\ names' = Known(l) /\ crash' = crash
      /\ lockHistory' = lockHistory /\ crash = "none"
  BY DEF IInv, PushLock
<1>2. Unlocked' /\ Idle'
  BY <1>1 DEF Unlocked, Idle, searchVars
<1>3. OldHistory' = lockHistory' /\ OldHistory = lockHistory
  <2>1. Pending' = {} /\ Pending = {}
    BY <1>1, <1>2 DEF Pending, Unlocked
  <2> QED
    BY <2>1 DEF OldHistory
<1>4. /\ names' \in Seq(Names)
      /\ \A i, j \in 1..Len(names') : names'[i] = names'[j] => i = j
      /\ IsIdOf(names', id, l)
      /\ Ids(names) \subseteq Ids(names')
      /\ Grows
  BY <1>1, <1>3, KnownFacts DEF Grows
<1>5. \/ lockStack[t] = <<>> \/ Last(lockStack[t]) = id
      \/ <<Last(lockStack[t]), id>> \in OldHistory'
  BY <1>1, <1>3 DEF NewEdges
<1>6. /\ Stacks'
      /\ lockStack' \in [Threads -> Seq(Ids(names'))]
      /\ guards' \in [Threads -> Seq(Locks)]
      /\ asked' \in [Threads -> Locks \cup {NoLock}]
  BY <1>1, <1>4, <1>5, AskStep
<1>7. Types'
  <2>1. path' = <<>> /\ walk' = <<>> /\ discoveredCount' = 0
    BY <1>2 DEF Idle
  <2>2. path' \in Seq(Ids(names')) /\ walk' \in Seq(Ids(names'))
    BY <2>1
  <2>3. lockHistory' \subseteq Ids(names') \X Ids(names')
    BY <1>1, <1>4 DEF Types
  <2> QED
    BY <1>1, <1>4, <1>6, <2>1, <2>2, <2>3 DEF Types, Crashes
<1>8. OneSearcher' /\ History' /\ Crashed'
  BY <1>1, <1>2, <1>3 DEF OneSearcher, Unlocked, History, Crashed
<1> QED
  BY <1>2, <1>6, <1>7, <1>8 DEF IInv

\* PushLock of a lock that makes a new pair starts a search.
LEMMA PushNewStep ==
    ASSUME IInv, NEW t \in Threads, NEW l \in Locks, PushLock(t, l),
           ~(NewEdges(lockStack[t], IdOf(names', l)) \subseteq lockHistory),
           searching' = [searching EXCEPT ![t] = l],
           discoveredOrder' = [i \in Ids(names') |-> -1],
           parent' = [i \in Ids(names') |-> -1],
           UNCHANGED <<lockVars, discoveredCount, finished, path, looked, walk>>
    PROVE  IInv'
<1> DEFINE id == IdOf(names', l)
           top == Last(lockStack[t])
<1>1. /\ Types /\ Stacks /\ OneSearcher /\ History /\ Crashed /\ Unlocked /\ Idle
      /\ asked[t] = NoLock /\ names' = Known(l) /\ crash' = crash /\ crash = "none"
      /\ UNCHANGED <<lockStack, guards, asked>>
  BY DEF IInv, PushLock, lockVars
<1>2. /\ lockStack[t] # <<>> /\ top # id /\ <<top, id>> \notin lockHistory
      /\ lockHistory' = lockHistory \cup {<<top, id>>}
  BY DEF PushLock, NewEdges
<1>3. /\ searching' \in [Threads -> Locks \cup {NoLock}]
      /\ \A u \in Threads : searching'[u] # NoLock <=> u = t
      /\ searching'[t] = l
  BY <1>1, NoLockAssumption DEF Types, Unlocked
<1>4. OldHistory' = lockHistory /\ OldHistory = lockHistory
  <2>1. Pending' = {NewEdge(u)' : u \in {t}}
    BY <1>3 DEF Pending
  <2>2. NewEdge(t)' = <<top, id>>
    BY <1>1, <1>3 DEF NewEdge
  <2>3. Pending' = {<<top, id>>}
    BY <2>1, <2>2
  <2> QED
    BY <1>1, <1>2, <2>3, NothingPending DEF OldHistory
<1>5. /\ names' \in Seq(Names)
      /\ \A i, j \in 1..Len(names') : names'[i] = names'[j] => i = j
      /\ IsIdOf(names', id, l)
      /\ Ids(names) \subseteq Ids(names')
      /\ Grows
  BY <1>1, <1>4, KnownFacts DEF Grows
<1>6. /\ lockStack' \in [Threads -> Seq(Ids(names'))]
      /\ guards' \in [Threads -> Seq(Locks)]
      /\ asked' \in [Threads -> Locks \cup {NoLock}]
  <2>1. lockStack \in [Threads -> Seq(Ids(names))] /\ \A u \in Threads : lockStack[u] \in Seq(Ids(names'))
    BY <1>1, <1>5, SeqMonotonic DEF Types
  <2> QED
    BY <1>1, <2>1 DEF Types
<1>7. top \in Ids(names')
  <2>1. lockStack[t] \in Seq(Ids(names'))
    BY <1>1, <1>6
  <2> QED
    BY <1>2, <2>1, Shortened
<1>8. Types'
  <2>1. path' = <<>> /\ walk' = <<>> /\ discoveredCount' = 0
    BY <1>1 DEF Idle
  <2>2. path' \in Seq(Ids(names')) /\ walk' \in Seq(Ids(names'))
    BY <2>1
  <2>3. id \in Ids(names')
    BY <1>5 DEF IsIdOf
  <2>4. lockHistory' \subseteq Ids(names') \X Ids(names')
    BY <1>1, <1>2, <1>5, <1>7, <2>3 DEF Types
  <2> QED
    BY <1>1, <1>3, <1>5, <1>6, <2>1, <2>2, <2>4 DEF Types, Crashes
<1>9. Stacks'
  BY <1>1, <1>5, StackKept DEF Stacks
<1>10. OneSearcher'
  <2>1. NewEdge(t)' \in lockHistory'
    BY <1>1, <1>2, <1>3 DEF NewEdge
  <2> QED
    BY <1>1, <1>2, <1>3, <1>5, <2>1 DEF OneSearcher
<1>11. History'
  BY <1>1, <1>2, <1>4 DEF History
<1>12. Searches'
  <2>1. /\ path' = <<>> /\ walk' = <<>> /\ discoveredCount' = 0 /\ finished' = {} /\ looked' = {}
    BY <1>1 DEF Idle
  <2>2. OnPath' = {} /\ Len(path') = 0
    BY <2>1 DEF OnPath, ToSet
  <2>3. discoveredCount' = Cardinality(finished' \cup OnPath')
    BY <2>1, <2>2, FS_EmptySet
  <2>4. /\ discoveredOrder' \in [Ids(names') -> Nat \cup {-1}]
        /\ \A i \in Ids(names') : discoveredOrder'[i] = -1
        /\ parent' \in [Ids(names') -> Ids(names') \cup {-1}]
    OBVIOUS
  <2>5. SearchTypes' /\ Discovered'
    BY <2>1, <2>2, <2>3, <2>4 DEF SearchTypes, Discovered
  <2>6. PathIsChain' /\ Passed' /\ WalkOnPath'
    BY <2>1, <2>2 DEF PathIsChain, Passed, WalkOnPath
  <2>7. FinishedAcyclic'
    BY <2>1 DEF FinishedAcyclic, Cycle
  <2> QED
    BY <2>5, <2>6, <2>7 DEF Searches
<1>13. ~Unlocked' /\ Crashed'
  BY <1>1, <1>3 DEF Unlocked, Crashed
<1> QED
  BY <1>8, <1>9, <1>10, <1>11, <1>12, <1>13 DEF IInv

\* The search ends with all ids, so that there is no cycle.
LEMMA EndSearchStep ==
    ASSUME IInv, NEW t \in Threads, EndSearch(t)
    PROVE  IInv'
<1> DEFINE l == searching[t]
           id == IdOf(names, l)
<1>1. /\ Types /\ Stacks /\ OneSearcher /\ History /\ Crashed /\ Searches
      /\ crash = "none" /\ l # NoLock /\ l \in Locks
      /\ Undiscovered = {} /\ Ask(t, l)
      /\ UNCHANGED <<names, lockHistory, guards, crash, path, walk>>
      /\ searching' = [searching EXCEPT ![t] = NoLock]
      /\ path = <<>>
  <2>1. Search(t) /\ Searches
    BY InSearch DEF EndSearch
  <2> QED
    BY <2>1 DEF IInv, Types, Search, EndSearch
<1>2. asked[t] = NoLock /\ IsIdOf(names, id, l) /\ lockStack[t] # <<>>
      /\ <<Last(lockStack[t]), id>> \in lockHistory
  BY <1>1 DEF OneSearcher, NewEdge
<1>3. Unlocked' /\ Idle'
  <2>1. \A u \in Threads : searching'[u] = NoLock
    BY <1>1 DEF OneSearcher, Types
  <2>2. walk = <<>>
    BY <1>1 DEF Searches, WalkOnPath
  <2> QED
    BY <1>1, <2>1, <2>2 DEF Unlocked, Idle, EndSearch
<1>4. OldHistory' = lockHistory
  <2>1. Pending' = {}
    BY <1>3 DEF Pending, Unlocked
  <2> QED
    BY <1>1, <2>1 DEF OldHistory
<1>5. Grows
  BY <1>1, <1>4 DEF Grows, OldHistory
<1>6. /\ Stacks'
      /\ lockStack' \in [Threads -> Seq(Ids(names'))]
      /\ guards' \in [Threads -> Seq(Locks)]
      /\ asked' \in [Threads -> Locks \cup {NoLock}]
  BY <1>1, <1>2, <1>4, <1>5, AskStep
<1>7. Types'
  <2>1. discoveredCount' = 0 /\ searching' \in [Threads -> Locks \cup {NoLock}]
    BY <1>1, <1>3 DEF Types, Idle
  <2> QED
    BY <1>1, <1>6, <2>1 DEF Types
<1>8. ~Cyclic(lockHistory)
  <2>1. Ids(names) \subseteq finished
    <3>1. OnPath = {}
      BY <1>1 DEF OnPath, ToSet
    <3> QED
      BY <1>1, <3>1 DEF Undiscovered, Searches, Discovered
  <2>2. {e[1] : e \in lockHistory} \subseteq finished
    BY <1>1, <2>1 DEF Types
  <2> QED
    BY <1>1, <2>2 DEF Cyclic, Searches, FinishedAcyclic
<1>9. OneSearcher' /\ History' /\ Crashed'
  BY <1>1, <1>3, <1>4, <1>8 DEF OneSearcher, Unlocked, History, Crashed
<1> QED
  BY <1>3, <1>6, <1>7, <1>9 DEF IInv

\* What is said of a search is said of the names, the history and its own variables.
LEMMA SearchKept ==
    ASSUME UNCHANGED <<names, lockHistory, searching, searchVars, crash>>
    PROVE  Unlocked' = Unlocked /\ (Idle => Idle') /\ (Searches => Searches')
<1>1. OnPath' = OnPath /\ Left' = Left /\ There' = There
  BY DEF OnPath, Left, There, Here, searchVars
<1>2. Unlocked' = Unlocked /\ (Idle => Idle')
  BY DEF Unlocked, Idle, searchVars
<1>3. SearchTypes => SearchTypes'
  BY <1>1 DEF SearchTypes, searchVars
<1>4. (Discovered => Discovered') /\ (PathIsChain => PathIsChain')
  BY <1>1 DEF Discovered, PathIsChain, searchVars
<1>5. (Passed => Passed') /\ (FinishedAcyclic => FinishedAcyclic')
  BY DEF Passed, FinishedAcyclic, searchVars
<1>6. WalkOnPath => WalkOnPath'
  BY <1>1 DEF WalkOnPath, searchVars
<1> QED
  BY <1>2, <1>3, <1>4, <1>5, <1>6 DEF Searches

\* A step of a thread that touches neither the history nor a search keeps the rest.
LEMMA LockStep ==
    ASSUME IInv, NEW t \in Threads, asked'[t] = NoLock,
           UNCHANGED <<names, lockHistory, searching, searchVars, crash>>,
           \A u \in Threads \ {t} : /\ lockStack'[u] = lockStack[u]
                                    /\ guards'[u] = guards[u] /\ asked'[u] = asked[u],
           searching[t] # NoLock => lockStack'[t] = lockStack[t],
           lockStack' \in [Threads -> Seq(Ids(names))],
           guards' \in [Threads -> Seq(Locks)],
           asked' \in [Threads -> Locks \cup {NoLock}],
           Grows => StackMatches(t)' /\ StackIsHistory(t)'
    PROVE  IInv'
<1>1. Types /\ Stacks /\ OneSearcher /\ History /\ Crashed
  BY DEF IInv
<1>2. Types'
  BY <1>1 DEF Types, searchVars
<1>3. \A u \in Threads : searching[u] # NoLock => lockStack'[u] = lockStack[u] /\ asked'[u] = NoLock
  BY <1>1 DEF OneSearcher
<1>4. \A u \in Threads : searching[u] # NoLock => NewEdge(u)' = NewEdge(u)
  BY <1>3 DEF NewEdge
<1>5. Pending' = Pending
  BY <1>4 DEF Pending
<1>6. OldHistory' = OldHistory /\ Grows
  BY <1>5 DEF OldHistory, Grows
<1>7. Stacks'
  BY <1>1, <1>6, StackKept DEF Stacks
<1>8. OneSearcher' /\ History' /\ Crashed'
  BY <1>1, <1>3, <1>4, <1>6 DEF OneSearcher, History, Crashed, searchVars
<1>9. (IF Unlocked THEN Idle ELSE Searches)'
  BY SearchKept DEF IInv
<1> QED
  BY <1>2, <1>7, <1>8, <1>9 DEF IInv

\* The lock that was waited for is held: the stack stays.
LEMMA AcquireStep ==
    ASSUME IInv, NEW t \in Threads, Acquire(t)
    PROVE  IInv'
<1> DEFINE n == Len(guards[t])
<1>1. /\ guards \in [Threads -> Seq(Locks)] /\ asked \in [Threads -> Locks \cup {NoLock}]
      /\ lockStack \in [Threads -> Seq(Ids(names))]
      /\ asked[t] \in Locks /\ guards[t] \in Seq(Locks)
      /\ asked' = [asked EXCEPT ![t] = NoLock] /\ lockStack' = lockStack
      /\ guards' = [guards EXCEPT ![t] = Append(guards[t], asked[t])]
      /\ UNCHANGED <<names, lockHistory, searching, searchVars, crash>>
  BY DEF IInv, Types, Acquire
<1>2. /\ n \in Nat /\ guards'[t] = Append(guards[t], asked[t])
      /\ guards'[t] \in Seq(Locks) /\ Len(guards'[t]) = n + 1
      /\ guards'[t][n + 1] = asked[t] /\ \A k \in 1..n : guards'[t][k] = guards[t][k]
  BY <1>1, Appended
<1>3. guards' \in [Threads -> Seq(Locks)]
  BY <1>1, <1>2
<1>4. StackMatches(t)'
  <2>1. /\ Len(lockStack[t]) = n + 1
        /\ \A k \in 1..n : IsIdOf(names, lockStack[t][k], guards[t][k])
        /\ IsIdOf(names, lockStack[t][n + 1], asked[t])
    <3>1. StackMatches(t) /\ asked[t] # NoLock
      BY <1>1, NoLockAssumption DEF IInv, Stacks
    <3> QED
      BY <3>1 DEF StackMatches
  <2>2. asked'[t] = NoLock /\ names' = names
    BY <1>1
  <2>3. \A k \in 1..(n + 1) : IsIdOf(names, lockStack[t][k], guards'[t][k])
    <3>1. \A k \in 1..(n + 1) : k = n + 1 \/ k \in 1..n
      BY <1>2
    <3> QED
      BY <1>2, <2>1, <3>1
  <2> QED
    BY <1>1, <1>2, <2>1, <2>2, <2>3 DEF StackMatches
<1>5. Grows => StackIsHistory(t)'
  BY <1>1 DEF IInv, Stacks, StackIsHistory, Grows
<1> QED
  BY <1>1, <1>3, <1>4, <1>5, LockStep

\* The innermost guard's id is on top of the stack.
LEMMA PopLockStep ==
    ASSUME IInv, NEW t \in Threads, PopLock(t)
    PROVE  IInv'
<1> DEFINE n == Len(guards[t])
           l == Last(guards[t])
<1>1. /\ Types /\ asked[t] = NoLock /\ guards[t] # <<>> /\ Unlocked
      /\ guards[t] \in Seq(Locks) /\ lockStack[t] \in Seq(Ids(names))
      /\ StackMatches(t) /\ StackIsHistory(t)
      /\ UNCHANGED <<names, lockHistory, asked, searching, searchVars>>
  BY DEF IInv, Types, PopLock, Stacks
<1>2. /\ n \in Nat \ {0} /\ l = guards[t][n] /\ l \in Locks /\ n \in 1..n
      /\ Len(lockStack[t]) = n
      /\ \A k \in 1..n : IsIdOf(names, lockStack[t][k], guards[t][k])
  BY <1>1, Shortened DEF StackMatches, Last
<1>3. lockStack[t] # <<>> /\ Last(lockStack[t]) = lockStack[t][n]
  BY <1>2 DEF Last
<1>4. Last(lockStack[t]) = IdOf(names, l)
  <2> DEFINE i == Last(lockStack[t])
             j == IdOf(names, l)
  <2>1. i \in Ids(names) /\ names[i + 1] = NameOf[l]
    BY <1>2, <1>3 DEF IsIdOf
  <2>2. names \in Seq(Names) /\ Len(names) \in Nat /\ DOMAIN names = 1..Len(names)
    BY <1>1 DEF Types
  <2>3. \A m \in Ids(names) : m + 1 \in 1..Len(names) /\ m \in Int
    BY <2>2 DEF Ids
  <2>4. NameOf[l] \in ToSet(names)
    BY <2>1, <2>2, <2>3 DEF ToSet
  <2>5. j \in Ids(names) /\ names[j + 1] = NameOf[l]
    BY <1>2, <2>2, <2>4, IdOfKnown
  <2>6. i + 1 = j + 1
    BY <1>1, <2>1, <2>3, <2>5 DEF Types
  <2> QED
    BY <2>1, <2>3, <2>5, <2>6
<1>5. /\ lockStack' = [lockStack EXCEPT ![t] = Front(lockStack[t])]
      /\ guards' = [guards EXCEPT ![t] = Front(guards[t])]
      /\ UNCHANGED crash
  BY <1>3, <1>4 DEF PopLock
<1>6. /\ Front(guards[t]) \in Seq(Locks) /\ Len(Front(guards[t])) = n - 1
      /\ \A k \in 1..(n - 1) : Front(guards[t])[k] = guards[t][k]
      /\ Front(lockStack[t]) \in Seq(Ids(names)) /\ Len(Front(lockStack[t])) = n - 1
      /\ \A k \in 1..(n - 1) : Front(lockStack[t])[k] = lockStack[t][k]
  BY <1>1, <1>2, <1>3, Shortened
<1>7. /\ guards' \in [Threads -> Seq(Locks)] /\ guards'[t] = Front(guards[t])
      /\ lockStack' \in [Threads -> Seq(Ids(names))] /\ lockStack'[t] = Front(lockStack[t])
      /\ asked' \in [Threads -> Locks \cup {NoLock}] /\ asked'[t] = NoLock
      /\ \A u \in Threads \ {t} : /\ lockStack'[u] = lockStack[u]
                                  /\ guards'[u] = guards[u] /\ asked'[u] = asked[u]
  BY <1>1, <1>5, <1>6 DEF Types
<1>8. \A k \in 1..(n - 1) : k \in 1..n
  BY <1>2
<1>9. StackMatches(t)'
  <2>1. \A k \in 1..(n - 1) : IsIdOf(names, lockStack'[t][k], guards'[t][k])
    BY <1>2, <1>6, <1>7, <1>8
  <2> QED
    BY <1>1, <1>2, <1>6, <1>7, <2>1 DEF StackMatches
<1>10. Grows => StackIsHistory(t)'
  <2>1. ASSUME Grows, NEW k \in 1..(n - 1 - 1)
        PROVE  LET s == lockStack'[t] IN s[k] = s[k + 1] \/ <<s[k], s[k + 1]>> \in OldHistory'
    <3>1. k \in 1..(n - 1) /\ k + 1 \in 1..(n - 1)
      BY <1>2
    <3>2. lockStack[t][k] = lockStack[t][k + 1] \/ <<lockStack[t][k], lockStack[t][k + 1]>> \in OldHistory
      BY <1>1, <1>2, <3>1 DEF StackIsHistory
    <3> QED
      BY <1>6, <1>7, <2>1, <3>1, <3>2 DEF Grows
  <2> QED
    BY <1>6, <1>7, <2>1 DEF StackIsHistory
<1>11. searching[t] = NoLock
  BY <1>1 DEF Unlocked
<1> QED
  BY <1>1, <1>5, <1>7, <1>9, <1>10, <1>11, LockStep

\* At first nothing is known, held or searched.
LEMMA InitInv == Init => IInv
<1> SUFFICES ASSUME Init
             PROVE  IInv
  OBVIOUS
<1>1. Unlocked /\ Idle
  BY DEF Init, Unlocked, Idle
<1>2. Types
  <2>1. \A S : <<>> \in Seq(S)
    OBVIOUS
  <2> QED
    BY <2>1 DEF Init, Types, Crashes
<1>3. Stacks
  BY DEF Init, Stacks, StackMatches, StackIsHistory
<1>4. OneSearcher /\ History /\ Crashed
  BY DEF Init, OneSearcher, History, OldHistory, Cyclic, Cycle, Crashed
<1> QED
  BY <1>1, <1>2, <1>3, <1>4 DEF IInv

\* Every step keeps the invariant.
LEMMA NextInv == IInv /\ [Next]_vars => IInv'
<1> SUFFICES ASSUME IInv, [Next]_vars
             PROVE  IInv'
  OBVIOUS
<1>1. CASE UNCHANGED vars
  <2>1. Types' /\ Crashed'
    BY <1>1 DEF IInv, Types, Crashed, vars, lockVars, searchVars
  <2>2. Pending' = Pending /\ OldHistory' = OldHistory
    BY <1>1 DEF Pending, NewEdge, OldHistory, vars, lockVars
  <2>3. Stacks' /\ OneSearcher' /\ History'
    BY <1>1, <2>2 DEF IInv, Stacks, StackMatches, StackIsHistory, OneSearcher, NewEdge, History,
                      vars, lockVars
  <2>4. (IF Unlocked THEN Idle ELSE Searches)'
    BY <1>1, SearchKept DEF IInv, vars
  <2> QED
    BY <2>1, <2>3, <2>4 DEF IInv
<1>2. ASSUME NEW t \in Threads, NEW l \in Locks, PushLock(t, l)
      PROVE  IInv'
  BY <1>2, PushKnownStep, PushNewStep DEF PushLock
<1>3. ASSUME NEW t \in Threads, DfsFromHere(t) \/ DfsThere(t) \/ Continue(t) \/ Finish(t)
      PROVE  IInv'
  BY <1>3, DfsFromHereStep, DfsThereStep, ContinueStep, FinishStep
<1>4. ASSUME NEW t \in Threads, EndSearch(t) \/ FindCycle(t) \/ PrintCycle(t)
      PROVE  IInv'
  BY <1>4, EndSearchStep, FindCycleStep, PrintCycleStep
<1>5. ASSUME NEW t \in Threads, Acquire(t) \/ PopLock(t)
      PROVE  IInv'
  BY <1>5, AcquireStep, PopLockStep
<1> QED
  BY <1>1, <1>2, <1>3, <1>4, <1>5 DEF Next

\* The invariant holds in every state.
THEOREM Inductive == Spec => []IInv
BY InitInv, NextInv, PTL DEF Spec

-------------------------------------------------------------------------------

(***************************************************************************)
(* What the invariant says of the properties.                               *)
(***************************************************************************)

\* A thread's state has its type, the printing stays among the ids, and no more
\* ids are discovered than there are.
THEOREM TypeCorrect == Spec => []TypeOK
<1>1. ASSUME IInv
      PROVE  TypeOK
  <2>1. Types /\ Crashed
    BY <1>1 DEF IInv
  <2>2. Len(names) \in Nat /\ ToSet(names) \subseteq Names
    BY <2>1 DEF Types, ToSet
  <2>3. CASE Unlocked
    <3>1. Idle
      BY <1>1, <2>3 DEF IInv
    <3>2. discoveredCount \in 0..Len(names)
      BY <2>2, <3>1 DEF Idle
    <3>3. finished \subseteq Ids(names) /\ looked \subseteq lockHistory
      BY <3>1 DEF Idle
    <3> QED
      BY <2>1, <2>2, <2>3, <3>2, <3>3 DEF TypeOK, Types, Names, Crashes
  <2>4. CASE ~Unlocked
    <3>1. SearchTypes /\ Discovered /\ PathIsChain
      BY <1>1, <2>4 DEF IInv, Searches
    <3>2. finished \cup OnPath \subseteq Ids(names)
      BY <2>1, <3>1, PathFacts DEF Discovered, Types
    <3>3. IsFiniteSet(Ids(names)) /\ Cardinality(Ids(names)) = Len(names)
      BY <2>2, IdsFinite
    <3>4. discoveredCount \in Nat /\ discoveredCount <= Len(names)
      BY <2>1, <3>1, <3>2, <3>3, FS_Subset DEF SearchTypes, Types
    <3>5. discoveredOrder \in [Ids(names) -> Ids(names) \cup {-1}]
      <4>1. \A i \in Ids(names) : discoveredOrder[i] \in Nat \cup {-1} /\ discoveredOrder[i] < discoveredCount
        BY <3>1 DEF SearchTypes
      <4>2. \A i \in Ids(names) : discoveredOrder[i] \in Ids(names) \cup {-1}
        BY <2>2, <3>4, <4>1 DEF Ids
      <4> QED
        BY <3>1, <4>2 DEF SearchTypes
    <3>6. discoveredCount \in 0..Len(names)
      BY <2>2, <3>4
    <3> QED
      BY <2>1, <2>2, <3>1, <3>2, <3>5, <3>6 DEF TypeOK, Types, Names, Crashes, SearchTypes
  <2> QED
    BY <2>3, <2>4
<1> QED
  BY <1>1, Inductive, PTL

\* The path from `there` on, and the pair that leads back to it, are a cycle.
LEMMA PathCycle ==
    ASSUME IInv, walk # <<>>
    PROVE  \E S : /\ Cycle(S, lockHistory)
                  /\ crash = "DEADLOCK_DETECTED" => ToSet(walk) = S
<1> DEFINE n == Len(path)
<1>1. /\ Searches /\ path \in Seq(Ids(names)) /\ SearchTypes /\ PathIsChain
      /\ lockHistory \subseteq Ids(names) \X Ids(names) /\ Ids(names) \subseteq Nat
      /\ walk \in Seq(Ids(names))
  BY DEF IInv, Idle, Searches, Types, Ids
<1>2. PICK g \in 1..(n - 1) : /\ path[g] = There
                              /\ crash = "DEADLOCK_DETECTED" => Len(walk) = n - g + 1
                              /\ \A k \in 1..Len(walk) : walk[k] = path[n + 1 - k]
  BY <1>1 DEF Searches, WalkOnPath
<1> DEFINE S == {path[k] : k \in g..n}
<1>3. n \in Nat /\ g \in g..n /\ path # <<>> /\ Left # {}
  BY <1>1, <1>2 DEF Searches, WalkOnPath
<1>4. <<path[n], path[g]>> \in lockHistory
  <2>1. Here = path[n]
    BY DEF Here, Last
  <2> QED
    BY <1>1, <1>2, <1>3, <2>1, ThereFacts
<1>5. ASSUME NEW i \in S
      PROVE  \E j \in S : <<i, j>> \in lockHistory
  <2>1. PICK k \in g..n : i = path[k]
    OBVIOUS
  <2>2. CASE k = n
    BY <1>3, <1>4, <2>1, <2>2
  <2>3. CASE k # n
    <3>1. k \in 1..(n - 1) /\ k + 1 \in g..n
      BY <1>2, <1>3, <2>3
    <3>2. <<path[k], path[k + 1]>> \in lockHistory
      BY <1>1, <3>1 DEF PathIsChain, SearchTypes
    <3> QED
      BY <2>1, <3>1, <3>2
  <2> QED
    BY <2>2, <2>3
<1>6. Cycle(S, lockHistory)
  BY <1>3, <1>5 DEF Cycle
<1>7. ASSUME crash = "DEADLOCK_DETECTED"
      PROVE  ToSet(walk) = S
  <2>1. Len(walk) = n - g + 1 /\ DOMAIN walk = 1..(n - g + 1)
    BY <1>1, <1>2, <1>7
  <2>2. \A k \in 1..(n - g + 1) : walk[k] = path[n + 1 - k] /\ n + 1 - k \in g..n
    BY <1>2, <1>3, <2>1
  <2>3. \A k \in g..n : n + 1 - k \in 1..(n - g + 1) /\ n + 1 - (n + 1 - k) = k
    BY <1>2, <1>3
  <2>4. \A x \in ToSet(walk) : x \in S
    BY <2>1, <2>2 DEF ToSet
  <2>5. \A k \in g..n : path[k] \in ToSet(walk)
    <3>1. \A k \in g..n : path[k] = walk[n + 1 - k]
      BY <2>2, <2>3
    <3> QED
      BY <2>1, <2>3, <3>1 DEF ToSet
  <2> QED
    BY <2>4, <2>5
<1> QED
  BY <1>6, <1>7

\* The search finds a cycle exactly when the history has one, and the crash prints it.
THEOREM Found == Spec => []CycleIsFound
<1>1. ASSUME IInv
      PROVE  CycleIsFound
  <2>1. Unlocked => ~Cyclic(lockHistory)
    BY <1>1, NothingPending DEF IInv, History
  <2>2. ASSUME walk # <<>>
        PROVE  Cyclic(lockHistory)
    <3>1. PICK S : Cycle(S, lockHistory)
      BY <1>1, <2>2, PathCycle
    <3>2. S \subseteq {e[1] : e \in lockHistory}
      <4>1. ASSUME NEW i \in S
            PROVE  i \in {e[1] : e \in lockHistory}
        <5>1. PICK j \in S : <<i, j>> \in lockHistory
          BY <3>1 DEF Cycle
        <5> QED
          BY <5>1
      <4> QED
        BY <4>1
    <3> QED
      BY <3>1, <3>2 DEF Cyclic
  <2>3. ASSUME crash = "DEADLOCK_DETECTED"
        PROVE  Cycle(ToSet(walk), lockHistory)
    BY <1>1, <2>3, PathCycle DEF IInv, Crashed
  <2> QED
    BY <2>1, <2>2, <2>3 DEF CycleIsFound
<1> QED
  BY <1>1, Inductive, PTL

\* PopLock never finds another id on top of the stack, nor an empty stack.
THEOREM PopsOwn == Spec => []PopsItsOwn
<1>1. IInv => PopsItsOwn
  BY DEF IInv, Crashed, PopsItsOwn
<1> QED
  BY <1>1, Inductive, PTL

\* A thread of D that has, at the place k of its stack, a lock that another one waits for.
Blocks(D, u, k) ==
    /\ k \in 1..Len(guards[u])
    /\ \E t \in D \ {u} : guards[u][k] = asked[t]

\* The ids that are on the stacks from such a place on.
Above(D) ==
    UNION {{lockStack[u][j] : j \in {i \in 1..Len(lockStack[u]) :
                                        \E k \in 1..i : Blocks(D, u, k)}} : u \in D}

Top(t) == lockStack[t][Len(lockStack[t])]

\* What is held is below what is waited for.
LEMMA BlocksOnStack ==
    ASSUME Types, Stacks, NEW D \in SUBSET Threads, NEW u \in D, NEW k \in Nat, Blocks(D, u, k)
    PROVE  k \in 1..Len(lockStack[u]) /\ k \in 1..k
<1>1. /\ Len(guards[u]) \in Nat /\ Len(lockStack[u]) \in Nat
      /\ Len(lockStack[u]) >= Len(guards[u])
  BY DEF Types, Stacks, StackMatches
<1> QED
  BY <1>1 DEF Blocks

\* Above an id that no other of them follows a stack has only that id.
LEMMA NothingFollows ==
    ASSUME Types, Stacks, NEW D \in SUBSET Threads, NEW u \in D,
           NEW k \in 1..Len(lockStack[u]), \E m \in 1..k : Blocks(D, u, m),
           NEW x, x = lockStack[u][k],
           \A y \in Above(D) : <<x, y>> \notin OldHistory
    PROVE  Top(u) = x
<1> DEFINE s == lockStack[u]
           n == Len(s)
           Other == {i \in k..n : s[i] # x}
<1>1. /\ n \in Nat
      /\ \A i \in 1..(n - 1) : s[i] = s[i + 1] \/ <<s[i], s[i + 1]>> \in OldHistory
  BY DEF Types, Stacks, StackIsHistory
<1>2. k \in 1..n /\ n \in k..n
  BY <1>1
<1>3. \A i \in k..n : s[i] \in Above(D)
  <2>1. \A i \in k..n : i \in 1..n /\ 1..k \subseteq 1..i
    BY <1>2
  <2> QED
    BY <2>1 DEF Above
<1>4. Other = {}
  <2> SUFFICES ASSUME Other # {}
               PROVE  FALSE
    OBVIOUS
  <2>1. Other \in SUBSET Nat
    BY <1>2
  <2>2. PICK m \in Other : \A i \in Other : m <= i
    BY <2>1, LeastIn
  <2>3. m # k
    OBVIOUS
  <2>4. m - 1 \in k..n /\ m - 1 \in 1..(n - 1) /\ m \in k..n /\ (m - 1) + 1 = m
    BY <1>1, <1>2, <2>2, <2>3
  <2>5. s[m - 1] = x
    BY <2>2, <2>4
  <2>6. <<x, s[m]>> \in OldHistory
    BY <1>1, <2>2, <2>4, <2>5
  <2> QED
    BY <1>3, <2>4, <2>6
<1> QED
  BY <1>2, <1>4 DEF Top

\* What a deadlocked thread waits for is on the stack of another one.
LEMMA WaitsForBlocked ==
    ASSUME Types, Stacks, NEW D \in SUBSET Threads, Deadlocked(D), NEW t \in D
    PROVE  \E u \in D \ {t}, k \in Nat :
              /\ Blocks(D, u, k) /\ asked[t] = guards[u][k]
              /\ lockStack[u][k] = Top(t)
<1>1. PICK u \in D \ {t} : HoldsLock(u, asked[t])
  BY DEF Deadlocked
<1>2. guards[u] \in Seq(Locks) /\ asked[t] # NoLock /\ names \in Seq(Names)
  BY DEF Types, Deadlocked
<1>3. PICK k \in 1..Len(guards[u]) : asked[t] = guards[u][k]
  BY <1>1, <1>2 DEF HoldsLock, ToSet
<1>4. k \in Nat /\ Blocks(D, u, k)
  BY <1>2, <1>3 DEF Blocks
<1>5. /\ IsIdOf(names, lockStack[u][k], asked[t])
      /\ IsIdOf(names, Top(t), asked[t])
  BY <1>2, <1>3 DEF Stacks, StackMatches, Top
<1>6. \A i \in Ids(names) : i \in Int /\ i + 1 \in 1..Len(names)
  BY <1>2 DEF Ids
<1>7. lockStack[u][k] + 1 = Top(t) + 1
  BY <1>5, <1>6 DEF IsIdOf, Types
<1>8. lockStack[u][k] = Top(t)
  BY <1>5, <1>6, <1>7 DEF IsIdOf
<1> QED
  BY <1>3, <1>4, <1>8

\* Threads that wait for each other would close a cycle of the history, unless some
\* of them wait for each other under one name.
LEMMA OneNameOrCycle ==
    ASSUME Types, Stacks, ~Cyclic(OldHistory), NEW D \in SUBSET Threads, Deadlocked(D)
    PROVE  \E C \in SUBSET D :
              Deadlocked(C) /\ \A t, u \in C : NameOf[asked[t]] = NameOf[asked[u]]
<1>1. \A t \in D : asked[t] # NoLock
  BY DEF Deadlocked
<1>2. ASSUME NEW t \in D
      PROVE  Top(t) \in Above(D)
  <2>1. PICK u \in D \ {t}, k \in Nat : Blocks(D, u, k) /\ lockStack[u][k] = Top(t)
    BY WaitsForBlocked
  <2>2. k \in 1..Len(lockStack[u]) /\ k \in 1..k
    BY <1>1, <2>1, BlocksOnStack
  <2> QED
    BY <2>1, <2>2 DEF Above
<1>3. Above(D) # {}
  BY <1>2 DEF Deadlocked
<1>4. PICK x \in Above(D) : \A y \in Above(D) : <<x, y>> \notin OldHistory
  <2> SUFFICES ASSUME \A x \in Above(D) : \E y \in Above(D) : <<x, y>> \in OldHistory
               PROVE  FALSE
    OBVIOUS
  <2>1. Cycle(Above(D), OldHistory)
    BY <1>3 DEF Cycle
  <2>2. ASSUME NEW x \in Above(D)
        PROVE  x \in {e[1] : e \in OldHistory}
    <3>1. PICK y \in Above(D) : <<x, y>> \in OldHistory
      OBVIOUS
    <3> QED
      BY <3>1
  <2>3. Above(D) \in SUBSET {e[1] : e \in OldHistory}
    BY <2>2
  <2> QED
    BY <2>1, <2>3 DEF Cyclic
<1> DEFINE C == {t \in D : Top(t) = x}
<1>5. ASSUME NEW u \in D, NEW k \in Nat, Blocks(D, u, k), lockStack[u][k] = x
      PROVE  u \in C
  <2>1. k \in 1..Len(lockStack[u]) /\ k \in 1..k
    BY <1>1, <1>5, BlocksOnStack
  <2> QED
    BY <1>4, <1>5, <2>1, NothingFollows
<1>6. C # {}
  \* x is on the stack of u at a place from which on it can be followed only by itself.
  <2>1. PICK u \in D : \E j \in 1..Len(lockStack[u]) :
                          x = lockStack[u][j] /\ \E k \in 1..j : Blocks(D, u, k)
    BY <1>4 DEF Above
  <2>2. Top(u) = x
    BY <1>4, <2>1, NothingFollows
  <2> QED
    BY <2>2
<1>7. ASSUME NEW t \in C
      PROVE  asked[t] # NoLock /\ \E u \in C \ {t} : HoldsLock(u, asked[t])
  <2>1. PICK u \in D \ {t}, k \in Nat :
            Blocks(D, u, k) /\ asked[t] = guards[u][k] /\ lockStack[u][k] = Top(t)
    BY WaitsForBlocked
  <2>2. u \in C
    BY <1>5, <2>1
  <2>3. HoldsLock(u, asked[t])
    <3>1. guards[u] \in Seq(Locks)
      BY DEF Types
    <3> QED
      BY <2>1, <3>1 DEF HoldsLock, Blocks, ToSet
  <2> QED
    BY <1>1, <2>1, <2>2, <2>3
<1>8. Deadlocked(C)
  BY <1>6, <1>7 DEF Deadlocked
<1>9. \A t \in C : NameOf[asked[t]] = names[x + 1]
  BY <1>1 DEF Stacks, StackMatches, IsIdOf, Top
<1> QED
  BY <1>8, <1>9

\* Threads that wait for each other all wait for locks of one name, or a cycle was
\* found before they could.
THEOREM Foreseen == Spec => []DeadlockIsForeseen
<1>1. IInv => DeadlockIsForeseen
  BY OneNameOrCycle DEF IInv, History, DeadlockIsForeseen
<1> QED
  BY <1>1, Inductive, PTL

-------------------------------------------------------------------------------

(***************************************************************************)
(* PushLock returns, or crashes: nothing else may run while the profiler    *)
(* has its mutex.                                                           *)
(***************************************************************************)

\* What a search has done so far, the printing included ...
Work == discoveredCount + Cardinality(finished) + Cardinality(looked) + Len(walk)

\* ... and what there can be to do.
Enough == Work \in Nat /\ Work <= 3 * Len(names) + Cardinality(lockHistory)

\* Every step of a search adds to its work, or is its last.
SearchAdvances ==
    [][~Unlocked => \/ Work' > Work /\ UNCHANGED <<names, lockHistory, searching>>
                    \/ Unlocked'
                    \/ UNCHANGED <<names, lockHistory, searching, searchVars>>]_vars

\* The history, what was looked at and what has ended are finite.
LEMMA SearchFinite ==
    ASSUME IInv
    PROVE  /\ Len(names) \in Nat /\ Len(walk) \in Nat /\ discoveredCount \in Nat
           /\ IsFiniteSet(finished) /\ Cardinality(finished) \in Nat
           /\ Cardinality(finished) <= Len(names)
           /\ IsFiniteSet(looked) /\ Cardinality(looked) \in Nat
           /\ Cardinality(lockHistory) \in Nat /\ Cardinality(looked) <= Cardinality(lockHistory)
<1>1. /\ Len(names) \in Nat /\ Len(walk) \in Nat /\ discoveredCount \in Nat
      /\ lockHistory \in SUBSET (Ids(names) \X Ids(names))
  BY DEF IInv, Types
<1>2. finished \in SUBSET Ids(names) /\ looked \in SUBSET lockHistory
  BY DEF IInv, Idle, Searches, SearchTypes, Discovered
<1>3. IsFiniteSet(Ids(names)) /\ Cardinality(Ids(names)) = Len(names)
  BY <1>1, IdsFinite
<1>4. IsFiniteSet(lockHistory)
  <2>1. IsFiniteSet(Ids(names) \X Ids(names))
    BY <1>3, FS_Product
  <2> QED
    BY <1>1, <2>1, FS_Subset
<1>5. IsFiniteSet(finished) /\ Cardinality(finished) <= Len(names)
  BY <1>2, <1>3, FS_Subset
<1>6. IsFiniteSet(looked) /\ Cardinality(looked) <= Cardinality(lockHistory)
  BY <1>2, <1>4, FS_Subset
<1> QED
  BY <1>1, <1>4, <1>5, <1>6, FS_CardinalityType

\* No id is in the path, or printed, twice, so there is enough work for neither to
\* go on for ever.
LEMMA WorkIsBounded ==
    ASSUME IInv
    PROVE  Enough
<1>1. discoveredCount <= Len(names) /\ Len(walk) <= Len(names)
  <2>1. CASE Unlocked
    BY <2>1, SearchFinite DEF IInv, Idle
  <2>2. CASE ~Unlocked
    <3>1. /\ Searches /\ SearchTypes /\ PathIsChain /\ Discovered /\ WalkOnPath
          /\ path \in Seq(Ids(names)) /\ walk \in Seq(Ids(names))
      BY <2>2 DEF IInv, Types, Searches
    <3>2. IsFiniteSet(Ids(names)) /\ Cardinality(Ids(names)) = Len(names)
      BY SearchFinite, IdsFinite
    <3>3. /\ Len(path) \in Nat /\ path \in [1..Len(path) -> Ids(names)]
          /\ \A j, k \in 1..Len(path) : path[j] = path[k] => j = k
      BY <3>1, PathFacts
    <3>4. Len(path) <= Len(names)
      <4>1. path \in Injection(1..Len(path), Ids(names))
        BY <3>3 DEF Injection, IsInjective
      <4>2. Cardinality(1..Len(path)) <= Len(names)
        BY <3>2, <4>1, FS_Injection
      <4>3. Cardinality(1..Len(path)) = Len(path)
        BY <3>3, FS_Interval
      <4> QED
        BY <4>2, <4>3
    <3>5. Len(walk) <= Len(path)
      <4>1. Len(walk) \in Nat
        BY <3>1
      <4>2. CASE walk = <<>>
        BY <3>3, <4>2
      <4>3. CASE walk # <<>>
        BY <3>1, <3>3, <4>1, <4>3 DEF WalkOnPath
      <4> QED
        BY <4>2, <4>3
    <3>6. discoveredCount <= Len(names)
      <4>1. finished \cup OnPath \in SUBSET Ids(names)
        BY <3>1 DEF Discovered, OnPath, ToSet
      <4>2. discoveredCount = Cardinality(finished \cup OnPath)
        BY <3>1 DEF SearchTypes
      <4> QED
        BY <3>2, <4>1, <4>2, FS_Subset
    <3> QED
      BY <3>3, <3>4, <3>5, <3>6, SearchFinite
  <2> QED
    BY <2>1, <2>2
<1> QED
  BY <1>1, SearchFinite DEF Enough, Work

\* Each step of the search is a call, a look, an end, or an id that is printed, and
\* none of these was there before.
LEMMA StepAddsWork ==
    ASSUME IInv, NEW t \in Threads,
           DfsFromHere(t) \/ DfsThere(t) \/ Continue(t) \/ Finish(t)
             \/ FindCycle(t) \/ PrintCycle(t)
    PROVE  Work' > Work /\ UNCHANGED <<names, lockHistory, searching>>
<1>1. Search(t) /\ UNCHANGED <<names, lockHistory, searching>>
  BY DEF DfsFromHere, DfsThere, Continue, Finish, FindCycle, PrintCycle, LookAtThere, Search
<1>2. /\ Searches /\ SearchTypes /\ PathIsChain /\ Discovered
      /\ path \in Seq(Ids(names)) /\ walk \in Seq(Ids(names))
      /\ lockHistory \subseteq Ids(names) \X Ids(names) /\ Ids(names) \subseteq Nat
  BY <1>1, InSearch DEF Searches
<1>3. ASSUME path # <<>>, Left # {}
      PROVE  Cardinality(looked \cup {<<Here, There>>}) = Cardinality(looked) + 1
  <2>1. <<Here, There>> \notin looked
    BY <1>2, <1>3, ThereFacts
  <2> QED
    BY <2>1, SearchFinite, FS_AddElement
<1>4. CASE DfsFromHere(t)
  <2>1. discoveredCount' = discoveredCount + 1 /\ UNCHANGED <<finished, looked, walk>>
    BY <1>4 DEF DfsFromHere, Dfs
  <2> QED
    BY <1>1, <2>1, SearchFinite DEF Work
<1>5. CASE DfsThere(t)
  <2>1. /\ discoveredCount' = discoveredCount + 1 /\ UNCHANGED <<finished, walk>>
        /\ Cardinality(looked') = Cardinality(looked) + 1
    BY <1>3, <1>5 DEF DfsThere, LookAtThere, Dfs
  <2> QED
    BY <1>1, <2>1, SearchFinite DEF Work
<1>6. CASE Continue(t)
  <2>1. /\ UNCHANGED <<discoveredCount, finished, walk>>
        /\ Cardinality(looked') = Cardinality(looked) + 1
    BY <1>3, <1>6 DEF Continue, LookAtThere
  <2> QED
    BY <1>1, <2>1, SearchFinite DEF Work
<1>7. CASE Finish(t)
  <2>1. Here \notin finished
    BY <1>2, <1>7, PathFacts DEF Finish, Discovered
  <2>2. Cardinality(finished') = Cardinality(finished) + 1
    BY <1>7, <2>1, SearchFinite, FS_AddElement DEF Finish
  <2>3. UNCHANGED <<discoveredCount, looked, walk>>
    BY <1>7 DEF Finish
  <2> QED
    BY <1>1, <2>2, <2>3, SearchFinite DEF Work
<1>8. CASE FindCycle(t)
  <2>1. /\ walk = <<>> /\ walk' = <<Here>>
        /\ UNCHANGED <<discoveredCount, finished, looked>>
    BY <1>8 DEF FindCycle, LookAtThere
  <2>2. Len(walk) = 0 /\ Len(walk') = 1
    BY <2>1
  <2> QED
    BY <1>1, <2>1, <2>2, SearchFinite DEF Work
<1>9. CASE PrintCycle(t)
  <2>1. /\ walk' = Append(walk, parent[Last(walk)])
        /\ UNCHANGED <<discoveredCount, finished, looked>>
    BY <1>9 DEF PrintCycle
  <2>2. Len(walk') = Len(walk) + 1
    BY <1>2, <2>1
  <2> QED
    BY <1>1, <2>1, <2>2, SearchFinite DEF Work
<1> QED
  BY <1>4, <1>5, <1>6, <1>7, <1>8, <1>9

\* However the names hang together, a search and its printing end: each of their
\* steps adds to their work, of which there is never more than enough.
THEOREM SearchEnds == Spec => []Enough /\ SearchAdvances
<1>1. IInv => Enough
  BY WorkIsBounded
<1>2. IInv /\ [Next]_vars =>
        [~Unlocked => \/ Work' > Work /\ UNCHANGED <<names, lockHistory, searching>>
                      \/ Unlocked'
                      \/ UNCHANGED <<names, lockHistory, searching, searchVars>>]_vars
  <2> SUFFICES ASSUME IInv, Next, ~Unlocked
               PROVE  \/ Work' > Work /\ UNCHANGED <<names, lockHistory, searching>>
                      \/ Unlocked'
                      \/ UNCHANGED <<names, lockHistory, searching, searchVars>>
    OBVIOUS
  <2>1. ASSUME NEW t \in Threads,
               DfsFromHere(t) \/ DfsThere(t) \/ Continue(t) \/ Finish(t)
                 \/ FindCycle(t) \/ PrintCycle(t)
        PROVE  Work' > Work /\ UNCHANGED <<names, lockHistory, searching>>
    BY <2>1, StepAddsWork
  <2>2. ASSUME NEW t \in Threads, EndSearch(t)
        PROVE  Unlocked'
    <3>1. \A u \in Threads \ {t} : searching[u] = NoLock
      BY <2>2 DEF EndSearch, Search, IInv, OneSearcher
    <3> QED
      BY <2>2, <3>1 DEF EndSearch, Unlocked, IInv, Types
  <2>3. ASSUME NEW t \in Threads, Acquire(t)
        PROVE  UNCHANGED <<names, lockHistory, searching, searchVars>>
    BY <2>3 DEF Acquire
  <2>4. \A t \in Threads : ~PopLock(t) /\ \A l \in Locks : ~PushLock(t, l)
    BY DEF PopLock, PushLock
  <2> QED
    BY <2>1, <2>2, <2>3, <2>4 DEF Next
<1> QED
  BY <1>1, <1>2, Inductive, PTL DEF Spec, SearchAdvances

===============================================================================
