---------------------------- MODULE JobQueueProofs ----------------------------
(***************************************************************************)
(* Theorems about JobQueue for any finite set of threads and any jobs.      *)
(***************************************************************************)
EXTENDS JobQueue, FiniteSetTheorems, SequenceTheorems, TLAPS

\* What a thread's location says of its local variables.
Local(t) ==
    /\ pc[t] \in {"enqueue", "nested"} => \E j \in Jobs : pending[t] = <<j>>
    /\ first[t] => pc[t] = "enqueue"
    /\ pc[t] \in {"run", "job", "nested"} => taken[t] > 0
    /\ pc[t] \in {"job", "nested"} => batch[t] # <<>>
    /\ pc[t] # "reenter"

\* The executor keeps the counter above 0 as long as it is the executor.
ExecutorCounted == Executors # {} => jobCount > 0

\* Election by the counter and the exactness of the counter need each other:
\* one executor makes the sum a sum over one vector, and the exact sum is what
\* makes the executor leave only when no push is under way.
IInv ==
    /\ TypeOK
    /\ \A t \in Threads : Local(t)
    /\ SerialExecution
    /\ CountExact
    /\ ExecutorCounted

-------------------------------------------------------------------------------

\* A set with one member is its CHOOSE.
LEMMA ChooseOnly ==
    ASSUME NEW S, NEW t \in S, \A u, v \in S : u = v
    PROVE  (CHOOSE u \in S : TRUE) = t
  OBVIOUS

\* With one executor, the count in hand is that of the thread that holds jobs.
LEMMA TakenByHolder ==
    ASSUME SerialExecution, NEW t \in Holders
    PROVE  TakenNow = taken[t]
<1>1. \A u, v \in Holders : u = v
  BY DEF SerialExecution, Executors, Holders
<1> QED
  BY <1>1, ChooseOnly DEF TakenNow

\* The count in hand is a natural number.
LEMMA TakenNat ==
    ASSUME TypeOK
    PROVE  TakenNow \in Nat
BY DEF TypeOK, TakenNow, Holders

\* Only a step that changes the holders or their counts changes it.
LEMMA TakenUnchanged ==
    ASSUME Holders' = Holders, taken' = taken
    PROVE  TakenNow' = TakenNow
BY DEF TakenNow

\* The pushers are finitely many, so their number is a natural number.
LEMMA PushersFinite ==
    IsFiniteSet(Pushers) /\ Cardinality(Pushers) \in Nat
BY ThreadsFinite, FS_Subset, FS_CardinalityType DEF Pushers

\* The fetch_add of a push, from outside a job or from inside one.
LEMMA FetchAddStep ==
    ASSUME IInv, NEW t \in Threads, NEW j \in Jobs,
           PushAdd(t, j) \/ NestedAdd(t, j)
    PROVE  IInv'
<1> USE DEF IInv
<1>1. PICK from \in {"idle", "job"}, to \in {"enqueue", "nested"} :
        /\ FetchAdd(t, j, from, to)
        /\ from = "idle" <=> to = "enqueue"
  BY DEF PushAdd, NestedAdd
<1>2. TypeOK'
  BY <1>1 DEF TypeOK, FetchAdd, Locations
<1>3. from = "job" => jobCount > 0
  BY <1>1 DEF FetchAdd, ExecutorCounted, Executors
<1>4. \A u \in Threads : Local(u)'
  BY <1>1, <1>3 DEF Local, FetchAdd, TypeOK
<1>5. Holders' = Holders
  BY <1>1 DEF Holders, FetchAdd, TypeOK
<1>6. Executors' = IF jobCount = 0 THEN Executors \cup {t} ELSE Executors
  BY <1>1, <1>3 DEF Executors, FetchAdd, TypeOK, Local
<1>7. SerialExecution'
  BY <1>6 DEF SerialExecution, ExecutorCounted, TypeOK
<1>8. Pushers' = Pushers \cup {t} /\ t \notin Pushers
  BY <1>1 DEF Pushers, FetchAdd, TypeOK
<1>9. Cardinality(Pushers') = Cardinality(Pushers) + 1
  BY <1>8, PushersFinite, FS_AddElement
<1>10. CountExact'
  <2>1. TakenNow' = TakenNow /\ TakenNow \in Int
    BY <1>1, <1>5, TakenNat, TakenUnchanged DEF FetchAdd
  <2>2. Len(jobs') = Len(jobs) /\ Len(jobs) \in Nat
    BY <1>1, LenProperties DEF FetchAdd, TypeOK
  <2>3. jobCount' = jobCount + 1
    BY <1>1 DEF FetchAdd
  <2> QED
    BY ONLY CountExact, <1>9, <2>1, <2>2, <2>3, PushersFinite DEF CountExact
<1>11. ExecutorCounted'
  BY <1>1 DEF ExecutorCounted, FetchAdd, TypeOK
<1> QED
  BY <1>2, <1>4, <1>7, <1>10, <1>11

\* The locked append of a push, from outside a job or from inside one.
LEMMA AppendStep ==
    ASSUME IInv, NEW t \in Threads,
           PushEnqueue(t) \/ NestedEnqueue(t)
    PROVE  IInv'
<1> USE DEF IInv
<1>1. PICK from \in {"enqueue", "nested"}, exec \in {"take", "reenter"},
           other \in {"idle", "job"} :
        /\ AppendPending(t, from, exec, other)
        /\ from = "enqueue" => exec = "take" /\ other = "idle"
        /\ from = "nested" => exec = "reenter" /\ other = "job"
  BY DEF PushEnqueue, NestedEnqueue
<1>2. PICK j \in Jobs : pending[t] = <<j>>
  BY <1>1 DEF Local, AppendPending
<1>3. /\ jobs' \in Seq(Jobs) /\ Len(jobs') = Len(jobs) + 1
      /\ Len(jobs) \in Nat
  BY <1>1, <1>2, ConcatProperties, LenProperties DEF AppendPending, TypeOK
<1>4. TypeOK'
  BY <1>1, <1>3, EmptySeq DEF TypeOK, AppendPending, Locations
<1>5. \A u \in Threads : Local(u)'
  BY <1>1 DEF Local, AppendPending, TypeOK
<1>6. Executors' = Executors
  BY <1>1 DEF Executors, AppendPending, TypeOK, Local
<1>7. Holders' = Holders
  BY <1>1 DEF Holders, AppendPending, TypeOK, Local
<1>8. Pushers' = Pushers \ {t} /\ t \in Pushers
  BY <1>1 DEF Pushers, AppendPending, TypeOK, Local
<1>9. Cardinality(Pushers') = Cardinality(Pushers) - 1
  BY <1>8, PushersFinite, FS_RemoveElement
<1>10. SerialExecution'
  BY <1>6 DEF SerialExecution
<1>11. CountExact'
  <2>1. TakenNow' = TakenNow /\ TakenNow \in Int
    BY <1>1, <1>7, TakenNat, TakenUnchanged DEF AppendPending
  <2>2. jobCount' = jobCount
    BY <1>1 DEF AppendPending
  <2> QED
    BY ONLY CountExact, <1>3, <1>9, <2>1, <2>2, PushersFinite DEF CountExact
<1>12. ExecutorCounted'
  BY <1>1, <1>6 DEF ExecutorCounted, AppendPending
<1> QED
  BY <1>4, <1>5, <1>10, <1>11, <1>12

\* The executor finds the queue empty and leaves.
LEMMA TakeNothingStep ==
    ASSUME IInv, NEW t \in Threads, TakeNothing(t)
    PROVE  IInv'
<1> USE DEF IInv, TakeNothing
<1>1. TypeOK'
  BY DEF TypeOK, Locations
<1>2. \A u \in Threads : Local(u)'
  BY DEF Local, TypeOK
<1>3. Executors' = Executors \ {t} /\ t \in Executors
  BY DEF Executors, TypeOK, Local
<1>4. Holders' = Holders /\ Pushers' = Pushers
  BY DEF Holders, Pushers, TypeOK
<1>5. TakenNow' = TakenNow
  BY <1>4, TakenUnchanged
<1>6. CountExact'
  BY <1>4, <1>5 DEF CountExact
<1> QED
  BY <1>1, <1>2, <1>3, <1>6 DEF SerialExecution, ExecutorCounted

\* The executor takes everything: what was queued is now in hand.
LEMMA TakeAllStep ==
    ASSUME IInv, NEW t \in Threads, TakeAll(t)
    PROVE  IInv'
<1> USE DEF IInv, TakeAll, Take
<1>0. Len(jobs) \in Nat /\ Len(jobs) > 0 /\ jobs' = <<>> /\ Len(jobs') = 0
      /\ jobCount' = jobCount
  BY LenProperties, EmptySeq DEF TypeOK
<1>1. TypeOK'
  BY <1>0, EmptySeq DEF TypeOK, Locations
<1>2. \A u \in Threads : Local(u)'
  BY <1>0 DEF Local, TypeOK
<1>3. Executors' = Executors /\ t \in Executors
  BY DEF Executors, TypeOK, Local
<1>4. SerialExecution'
  BY <1>3 DEF SerialExecution
<1>5. Holders = {} /\ Holders' = {t}
  BY <1>3 DEF Holders, TypeOK, SerialExecution, Executors
<1>6. TakenNow = 0 /\ TakenNow' = taken'[t]
  BY <1>5 DEF TakenNow
<1>7. taken'[t] = Len(jobs)
  BY <1>0 DEF TypeOK
<1>8. Pushers' = Pushers
  BY DEF Pushers, TypeOK
<1>9. CountExact'
  BY <1>0, <1>6, <1>7, <1>8, PushersFinite DEF CountExact
<1> QED
  BY <1>0, <1>1, <1>2, <1>3, <1>4, <1>9 DEF ExecutorCounted

\* A job begins or ends: the counter and the elected executor stay.
LEMMA JobStep ==
    ASSUME IInv, NEW t \in Threads, StartJob(t) \/ FinishJob(t)
    PROVE  IInv'
<1> USE DEF IInv, StartJob, FinishJob
<1>1. TypeOK'
  <2>1. CASE StartJob(t)
    BY <2>1 DEF TypeOK, Locations
  <2>2. CASE FinishJob(t)
    <3>1. batch[t] \in Seq(Jobs) /\ batch[t] # <<>>
      BY <2>2 DEF TypeOK, Local
    <3>2. Tail(batch[t]) \in Seq(Jobs) /\ Append(done, Head(batch[t])) \in Seq(Jobs)
      BY <3>1, HeadTailProperties, AppendProperties DEF TypeOK
    <3> QED
      BY <2>2, <3>2 DEF TypeOK, Locations
  <2> QED
    BY <2>1, <2>2
<1>2. \A u \in Threads : Local(u)'
  BY DEF Local, TypeOK
<1>3. Executors' = Executors /\ Holders' = Holders /\ Pushers' = Pushers
  <2>1. \A u \in Threads : u # t => pc'[u] = pc[u]
    BY DEF TypeOK
  <2>2. pc[t] \in {"run", "job"} /\ pc'[t] \in {"run", "job"}
    BY DEF TypeOK
  <2>3. first' = first
    OBVIOUS
  <2> QED
    BY ONLY <2>1, <2>2, <2>3 DEF Executors, Holders, Pushers
<1>4. TakenNow' = TakenNow
  BY <1>3, TakenUnchanged
<1>5. CountExact'
  BY <1>3, <1>4 DEF CountExact
<1> QED
  BY <1>1, <1>2, <1>3, <1>5 DEF SerialExecution, ExecutorCounted

\* The executor counts its vector out, and leaves only at 0.
LEMMA FetchSubStep ==
    ASSUME IInv, NEW t \in Threads, FetchSub(t)
    PROVE  IInv'
<1> USE DEF IInv, FetchSub, CountOut
<1>0. t \in Holders /\ taken[t] \in Nat /\ Len(jobs) \in Nat
  BY LenProperties DEF Holders, TypeOK
<1>1. TakenNow = taken[t]
  BY <1>0, TakenByHolder
<1>2. jobCount' = Len(jobs) + Cardinality(Pushers) /\ jobCount' \in Nat
  <2>1. jobCount' = jobCount - taken[t]
    OBVIOUS
  <2>2. jobCount = Len(jobs) + TakenNow + Cardinality(Pushers)
    BY DEF CountExact
  <2> QED
    BY ONLY <1>0, <1>1, <2>1, <2>2, PushersFinite
<1>3. TypeOK'
  BY <1>2 DEF TypeOK, Locations
<1>4. \A u \in Threads : Local(u)'
  BY DEF Local, TypeOK
<1>5. Executors' = (IF jobCount = taken[t] THEN Executors \ {t} ELSE Executors)
      /\ t \in Executors
  BY DEF Executors, TypeOK, Local
<1>6. SerialExecution'
  BY <1>5 DEF SerialExecution
<1>7. Holders' = {}
  BY <1>5 DEF Holders, TypeOK, SerialExecution, Executors
<1>8. Pushers' = Pushers
  BY DEF Pushers, TypeOK
<1>9. CountExact'
  <2>1. TakenNow' = 0
    BY <1>7 DEF TakenNow
  <2> QED
    BY <1>0, <1>2, <1>8, <2>1, PushersFinite DEF CountExact
<1>10. ExecutorCounted'
  <2>1. CASE jobCount = taken[t]
    BY <1>5, <2>1 DEF SerialExecution, ExecutorCounted
  <2>2. CASE jobCount # taken[t]
    BY <1>0, <1>2, <2>2 DEF ExecutorCounted, TypeOK
  <2> QED
    BY <2>1, <2>2
<1> QED
  BY <1>3, <1>4, <1>6, <1>9, <1>10

\* One fetch_add, append, take, job or fetch_sub at a time, IInv is kept.
LEMMA NextStep == IInv /\ [Next]_vars => IInv'
<1> SUFFICES ASSUME IInv, [Next]_vars PROVE IInv'
  OBVIOUS
<1>1. ASSUME NEW t \in Threads, Begin(t) PROVE IInv'
  BY <1>1, FetchAddStep DEF Begin
<1>2. ASSUME NEW t \in Threads, Continue(t) PROVE IInv'
  BY <1>2, AppendStep, TakeNothingStep, TakeAllStep, JobStep, FetchSubStep
     DEF Continue
<1>3. CASE UNCHANGED vars
  <2>1. TypeOK' /\ SerialExecution' /\ CountExact' /\ ExecutorCounted'
    BY <1>3 DEF IInv, vars, TypeOK, SerialExecution, CountExact, ExecutorCounted,
                Executors, TakenNow, Holders, Pushers
  <2>2. \A u \in Threads : Local(u)'
    BY <1>3 DEF IInv, vars, Local
  <2> QED
    BY <2>1, <2>2 DEF IInv
<1> QED
  BY <1>1, <1>2, <1>3 DEF Next

\* Nothing is pushed, so nothing is counted and nobody executes.
LEMMA InitStep == Init => IInv
<1> SUFFICES ASSUME Init PROVE IInv
  OBVIOUS
<1>1. Executors = {} /\ Holders = {} /\ Pushers = {}
  BY DEF Init, Executors, Holders, Pushers
<1>2. TypeOK
  BY EmptySeq DEF Init, TypeOK, Locations
<1>3. CountExact
  BY <1>1, EmptySeq, FS_EmptySet DEF Init, CountExact, TakenNow
<1> QED
  BY <1>1, <1>2, <1>3 DEF IInv, Init, Local, SerialExecution, ExecutorCounted

-------------------------------------------------------------------------------

\* The inductive invariant of Push and Execute.
THEOREM Invariance == Spec => []IInv
BY InitStep, NextStep, PTL DEF Spec

\* Every variable of the queue keeps its type; the counter never goes below 0.
THEOREM TypeCorrect == Spec => []TypeOK
<1>1. IInv => TypeOK
  BY DEF IInv
<1> QED
  BY <1>1, Invariance, PTL

\* Jobs of one room never run on two threads at once.
THEOREM Serial == Spec => []SerialExecution
<1>1. IInv => SerialExecution
  BY DEF IInv
<1> QED
  BY <1>1, Invariance, PTL

\* Execute is never called from inside Execute.
THEOREM NeverReentered == Spec => []NoReentrancy
<1>1. IInv => NoReentrancy
  BY DEF IInv, NoReentrancy, Local
<1> QED
  BY <1>1, Invariance, PTL

\* _jobCount is queued + taken + between fetch_add and append.
THEOREM Counted == Spec => []CountExact
<1>1. IInv => CountExact
  BY DEF IInv
<1> QED
  BY <1>1, Invariance, PTL

-------------------------------------------------------------------------------

\* Once the counter is above 0 with no executor, it stays so: a later Push
\* finds it above 0, appends and returns, and no job runs any more.
THEOREM AbandonedStays == Spec => AbandonedForever
<1>1. IInv /\ [Next]_vars => (Abandoned => Abandoned' /\ UNCHANGED done)
  <2> SUFFICES ASSUME IInv, [Next]_vars, Abandoned
               PROVE  Abandoned' /\ UNCHANGED done
    OBVIOUS
  <2>1. CASE UNCHANGED vars
    BY <2>1 DEF vars, Abandoned, Executors
  <2>2. ASSUME NEW t \in Threads, Begin(t) PROVE Abandoned' /\ UNCHANGED done
    <3>1. pc[t] # "job"
      BY DEF Abandoned, Executors
    <3>2. PICK j \in Jobs : PushAdd(t, j)
      BY <2>2, <3>1 DEF Begin, NestedAdd, FetchAdd
    <3>3. jobCount' > 0
      BY <3>2 DEF PushAdd, FetchAdd, IInv, TypeOK, Abandoned
    <3>4. Executors' = {}
      <4>1. jobCount # 0
        BY DEF IInv, TypeOK, Abandoned
      <4>2. first'[t] = FALSE /\ \A u \in Threads : u # t => first'[u] = first[u]
        BY <3>2, <4>1 DEF PushAdd, FetchAdd, IInv, TypeOK
      <4>3. pc'[t] = "enqueue" /\ \A u \in Threads : u # t => pc'[u] = pc[u]
        BY <3>2 DEF PushAdd, FetchAdd, IInv, TypeOK
      <4> QED
        BY ONLY <4>2, <4>3, Abandoned DEF Abandoned, Executors
    <3> QED
      BY <3>2, <3>3, <3>4 DEF PushAdd, FetchAdd, Abandoned
  <2>3. ASSUME NEW t \in Threads, Continue(t) PROVE Abandoned' /\ UNCHANGED done
    <3>1. /\ pc[t] \notin {"take", "run", "job", "nested"}
          /\ ~(pc[t] = "enqueue" /\ first[t])
      BY DEF Abandoned, Executors
    <3>2. PushEnqueue(t) /\ ~first[t]
      BY <2>3, <3>1 DEF Continue, PushEnqueue, NestedEnqueue, AppendPending,
         TakeNothing, TakeAll, Take, StartJob, FinishJob, FetchSub, CountOut,
         IInv, TypeOK
    <3>3. Executors' = {}
      BY <3>2 DEF PushEnqueue, AppendPending, IInv, TypeOK, Abandoned, Executors
    <3> QED
      BY <3>2, <3>3 DEF PushEnqueue, AppendPending, Abandoned
  <2> QED
    BY <2>1, <2>2, <2>3 DEF Next
<1> QED
  BY <1>1, Invariance, PTL DEF Spec, AbandonedForever

\* Execute's return from an empty _jobs is the one step that abandons a queue; it
\* always does, for it is taken only while a push is between its fetch_add and its
\* append.
AbandonedInTheGap ==
    [][/\ (~Abandoned /\ Abandoned') <=> (\E t \in Threads : TakeNothing(t))
       /\ (\E t \in Threads : TakeNothing(t)) => \E u \in Threads : pc[u] = "enqueue" /\ ~first[u]
      ]_vars

\* The executor that finds nothing is the only one, and the counter is not 0.
LEMMA TakeNothingAbandons ==
    ASSUME IInv, NEW t \in Threads, TakeNothing(t)
    PROVE  /\ ~Abandoned /\ Abandoned'
           /\ \E u \in Threads : pc[u] = "enqueue" /\ ~first[u]
<1> USE DEF IInv
<1>1. t \in Executors /\ pc[t] = "take" /\ jobs = <<>> /\ jobCount > 0 /\ jobCount' = jobCount
  BY DEF TakeNothing, Executors, ExecutorCounted
<1>2. \A u \in Executors : u = t
  BY <1>1 DEF SerialExecution
<1>3. Executors' = {}
  <2>1. pc' = [pc EXCEPT ![t] = "idle"] /\ first' = first
    BY DEF TakeNothing
  <2>2. pc'[t] = "idle" /\ \A u \in Threads : u # t => pc'[u] = pc[u]
    BY <2>1 DEF TypeOK
  <2> QED
    BY <1>2, <2>1, <2>2 DEF Executors
<1>4. Holders = {}
  BY <1>1, <1>2 DEF Holders, Executors
<1>5. Pushers # {}
  <2>1. Len(jobs) = 0 /\ TakenNow = 0
    BY <1>1, <1>4 DEF TakenNow
  <2>2. Cardinality(Pushers) # 0
    BY <1>1, <2>1, PushersFinite DEF CountExact
  <2> QED
    BY <2>2, FS_EmptySet
<1>6. PICK u \in Threads : pc[u] \in {"enqueue", "nested"}
  BY <1>5 DEF Pushers
<1>7. pc[u] = "enqueue" /\ ~first[u]
  BY <1>1, <1>2, <1>6 DEF Executors
<1> QED
  BY <1>1, <1>3, <1>7 DEF Abandoned

\* A push leaves a queue with the executor that it had, or with the pusher.
LEMMA BeginKeepsExecutor ==
    ASSUME IInv, NEW t \in Threads, Begin(t), ~Abandoned
    PROVE  ~Abandoned'
<1> USE DEF IInv
<1>1. CASE \E j \in Jobs : NestedAdd(t, j)
  BY <1>1 DEF NestedAdd, FetchAdd, TypeOK, Abandoned, Executors
<1>2. CASE \E j \in Jobs : PushAdd(t, j)
  <2>1. /\ pc[t] = "idle" /\ pc' = [pc EXCEPT ![t] = "enqueue"]
        /\ first' = [first EXCEPT ![t] = (jobCount = 0)]
    BY <1>2 DEF PushAdd, FetchAdd
  <2>2. CASE jobCount = 0
    BY <2>1, <2>2 DEF TypeOK, Abandoned, Executors
  <2>3. CASE jobCount # 0
    <3>1. PICK u \in Executors : TRUE
      BY <2>3 DEF TypeOK, Abandoned
    <3>2. u \in Threads /\ u # t
      BY <2>1, <3>1 DEF Executors
    <3>3. pc'[u] = pc[u] /\ first'[u] = first[u]
      BY <2>1, <3>2 DEF TypeOK
    <3>4. u \in Executors'
      BY <3>1, <3>2, <3>3 DEF Executors
    <3> QED
      BY <3>4 DEF Abandoned
  <2> QED
    BY <2>2, <2>3
<1> QED
  BY <1>1, <1>2 DEF Begin

\* Inside Push and Execute an executor stays one, or leaves a counter of 0.
LEMMA ContinueKeepsExecutor ==
    ASSUME IInv, NEW t \in Threads, Continue(t), ~TakeNothing(t), ~Abandoned
    PROVE  ~Abandoned'
<1> USE DEF IInv
<1>1. CASE PushEnqueue(t)
  <2>1. /\ pc[t] = "enqueue" /\ jobCount' = jobCount
        /\ pc' = [pc EXCEPT ![t] = IF first[t] THEN "take" ELSE "idle"]
        /\ first' = [first EXCEPT ![t] = FALSE]
    BY <1>1 DEF PushEnqueue, AppendPending
  <2>2. CASE first[t]
    BY <2>1, <2>2 DEF TypeOK, Abandoned, Executors
  <2>3. CASE ~first[t]
    <3>1. CASE jobCount = 0
      BY <2>1, <3>1 DEF Abandoned
    <3>2. CASE jobCount # 0
      <4>1. PICK u \in Executors : TRUE
        BY <3>2 DEF TypeOK, Abandoned
      <4>2. u \in Threads /\ u # t
        BY <2>1, <2>3, <4>1 DEF Executors
      <4>3. pc'[u] = pc[u] /\ first'[u] = first[u]
        BY <2>1, <4>2 DEF TypeOK
      <4>4. u \in Executors'
        BY <4>1, <4>2, <4>3 DEF Executors
      <4> QED
        BY <4>4 DEF Abandoned
    <3> QED
      BY <3>1, <3>2
  <2> QED
    BY <2>2, <2>3
<1>2. CASE NestedEnqueue(t)
  BY <1>2 DEF NestedEnqueue, AppendPending, TypeOK, Abandoned, Executors
<1>3. CASE TakeAll(t)
  BY <1>3 DEF TakeAll, Take, TypeOK, Abandoned, Executors
<1>4. CASE StartJob(t) \/ FinishJob(t)
  BY <1>4 DEF StartJob, FinishJob, TypeOK, Abandoned, Executors
<1>5. CASE FetchSub(t)
  <2>1. CASE jobCount = taken[t]
    BY <1>5, <2>1 DEF FetchSub, CountOut, TypeOK, Abandoned
  <2>2. CASE jobCount # taken[t]
    BY <1>5, <2>2 DEF FetchSub, CountOut, TypeOK, Abandoned, Executors
  <2> QED
    BY <2>1, <2>2
<1> QED
  BY <1>1, <1>2, <1>3, <1>4, <1>5 DEF Continue

\* A queue loses its executor only in that gap, and whenever an executor meets it:
\* the job whose push is under way is then counted and never run.
THEOREM AbandonedOnlyInTheGap == Spec => AbandonedInTheGap
<1>1. IInv /\ [Next]_vars =>
        [/\ (~Abandoned /\ Abandoned') <=> (\E t \in Threads : TakeNothing(t))
         /\ (\E t \in Threads : TakeNothing(t)) => \E u \in Threads : pc[u] = "enqueue" /\ ~first[u]
        ]_vars
  BY TakeNothingAbandons, BeginKeepsExecutor, ContinueKeepsExecutor DEF Next
<1> QED
  BY <1>1, Invariance, PTL DEF Spec, AbandonedInTheGap

-------------------------------------------------------------------------------

\* With one executor, what is in hand is what its vector has left.
LEMMA InHandOfHolder ==
    ASSUME SerialExecution, NEW t \in Holders
    PROVE  InHand = batch[t]
<1>1. \A u, v \in Holders : u = v
  BY DEF SerialExecution, Executors, Holders
<1> QED
  BY <1>1, ChooseOnly DEF InHand

\* Appending to the queue appends to what waits behind the vector.
LEMMA AppendBehind ==
    ASSUME NEW S, NEW a \in Seq(S), NEW b \in Seq(S), NEW j \in S
    PROVE  a \o (b \o <<j>>) = Append(a \o b, j)
<1>1. a \o b \in Seq(S) /\ <<j>> \in Seq(S)
  BY ConcatProperties
<1>2. Append(a \o b, j) = (a \o b) \o <<j>>
  BY <1>1, AppendIsConcat
<1> QED
  BY <1>1, <1>2, ConcatAssociative

\* The head and the tail of a nonempty vector and a queue are the vector's.
LEMMA HeadOfConcat ==
    ASSUME NEW S, NEW a \in Seq(S), NEW b \in Seq(S), a # <<>>
    PROVE  /\ a \o b # <<>>
           /\ Head(a \o b) = Head(a)
           /\ Tail(a \o b) = Tail(a) \o b
<1>1. a \o b \in Seq(S) /\ Len(a \o b) = Len(a) + Len(b) /\ Len(a) > 0
      /\ Len(a) \in Nat /\ Len(b) \in Nat
  BY ConcatProperties, LenProperties, EmptySeq
<1>2. a \o b # <<>>
  BY <1>1, EmptySeq
<1>3. Head(a \o b) = Head(a)
  BY <1>1, ConcatProperties
<1>4. /\ Tail(a) \in Seq(S) /\ Len(Tail(a)) = Len(a) - 1
      /\ \A i \in 1..Len(Tail(a)) : Tail(a)[i] = a[i + 1]
  BY HeadTailProperties
<1>5. /\ Tail(a \o b) \in Seq(S) /\ Len(Tail(a \o b)) = Len(a) + Len(b) - 1
      /\ \A i \in 1..Len(Tail(a \o b)) : Tail(a \o b)[i] = (a \o b)[i + 1]
  BY <1>1, <1>2, HeadTailProperties
<1>6. /\ Tail(a) \o b \in Seq(S) /\ Len(Tail(a) \o b) = Len(a) - 1 + Len(b)
      /\ \A i \in 1..(Len(a) - 1 + Len(b)) : (Tail(a) \o b)[i] =
            IF i <= Len(a) - 1 THEN Tail(a)[i] ELSE b[i - (Len(a) - 1)]
  BY <1>1, <1>4, ConcatProperties
<1>7. \A i \in 1..(Len(a) + Len(b)) : (a \o b)[i] =
            IF i <= Len(a) THEN a[i] ELSE b[i - Len(a)]
  BY <1>1, ConcatProperties
<1>8. \A i \in 1..Len(Tail(a \o b)) : Tail(a \o b)[i] = (Tail(a) \o b)[i]
  BY <1>1, <1>4, <1>5, <1>6, <1>7
<1>9. Tail(a \o b) = Tail(a) \o b
  BY <1>1, <1>5, <1>6, <1>8, SeqEqual
<1> QED
  BY <1>2, <1>3, <1>9

\* What is in hand is a sequence of jobs, and so is what waits.
LEMMA WaitingType ==
    ASSUME IInv
    PROVE  /\ InHand \in Seq(Jobs)
           /\ Inside => InHand # <<>>
           /\ (IF Inside THEN Tail(InHand) ELSE InHand) \in Seq(Jobs)
<1>1. InHand \in Seq(Jobs)
  BY EmptySeq DEF InHand, Holders, IInv, TypeOK
<1>2. Inside => InHand # <<>>
  BY InHandOfHolder DEF Inside, Holders, IInv, Local
<1> QED
  BY <1>1, <1>2, HeadTailProperties

\* A push between fetch_add and append is not visible in the mailbox.
LEMMA FetchAddStutters ==
    ASSUME IInv, NEW t \in Threads, NEW j \in Jobs,
           PushAdd(t, j) \/ NestedAdd(t, j)
    PROVE  UNCHANGED <<Waiting, RunningNow, done>>
<1>1. PICK from \in {"idle", "job"}, to \in {"enqueue", "nested"} :
        /\ FetchAdd(t, j, from, to)
        /\ from = "idle" <=> to = "enqueue"
  BY DEF PushAdd, NestedAdd
<1>2. Holders' = Holders /\ Inside' = Inside
  <2>1. \A u \in Threads : u # t => pc'[u] = pc[u]
    BY <1>1 DEF FetchAdd, IInv, TypeOK
  <2>2. pc[t] = from /\ pc'[t] = to
    BY <1>1 DEF FetchAdd, IInv, TypeOK
  <2> QED
    BY ONLY <1>1, <2>1, <2>2 DEF Holders, Inside
<1>3. InHand' = InHand
  BY <1>1, <1>2 DEF InHand, FetchAdd
<1> QED
  BY <1>1, <1>2, <1>3 DEF FetchAdd, Waiting, RunningNow

\* The append of a push posts its job.
LEMMA AppendPosts ==
    ASSUME IInv, NEW t \in Threads, PushEnqueue(t) \/ NestedEnqueue(t)
    PROVE  \E j \in Jobs : Mailbox!Post(j)
<1>1. PICK from \in {"enqueue", "nested"}, exec \in {"take", "reenter"},
           other \in {"idle", "job"} :
        /\ AppendPending(t, from, exec, other)
        /\ from = "enqueue" => exec = "take" /\ other = "idle"
        /\ from = "nested" => exec = "reenter" /\ other = "job"
  BY DEF PushEnqueue, NestedEnqueue
<1>2. PICK j \in Jobs : pending[t] = <<j>>
  BY <1>1 DEF IInv, Local, AppendPending
<1>3. Holders' = Holders /\ Inside' = Inside
  BY <1>1 DEF Holders, Inside, AppendPending, IInv, TypeOK, Local
<1>4. InHand' = InHand
  BY <1>1, <1>3 DEF InHand, AppendPending
<1>5. jobs' = jobs \o <<j>> /\ jobs \in Seq(Jobs) /\ done' = done
  BY <1>1, <1>2 DEF AppendPending, IInv, TypeOK
<1>6. Waiting' = Append(Waiting, j)
  <2> DEFINE ahead == IF Inside THEN Tail(InHand) ELSE InHand
  <2>1. ahead \in Seq(Jobs)
    BY WaitingType
  <2>2. Waiting = ahead \o jobs /\ Waiting' = ahead \o (jobs \o <<j>>)
    BY <1>3, <1>4, <1>5 DEF Waiting
  <2> HIDE DEF ahead
  <2> QED
    BY <1>5, <2>1, <2>2, AppendBehind
<1> QED
  BY <1>3, <1>4, <1>5, <1>6 DEF RunningNow, Mailbox!Post

\* Taking and counting out move jobs between vector and queue only.
LEMMA TakeStutters ==
    ASSUME IInv, NEW t \in Threads, TakeNothing(t) \/ TakeAll(t) \/ FetchSub(t)
    PROVE  UNCHANGED <<Waiting, RunningNow, done>>
<1>1. t \in Executors /\ Executors \subseteq {t}
  BY DEF TakeNothing, TakeAll, Take, FetchSub, CountOut, Executors, IInv, SerialExecution
<1>2. ~Inside /\ ~Inside'
  <2>1. pc[t] \in {"take", "run"} /\ pc'[t] \in {"take", "run", "idle"}
        /\ \A u \in Threads : u # t => pc'[u] = pc[u]
    BY DEF TakeNothing, TakeAll, Take, FetchSub, CountOut, IInv, TypeOK
  <2> QED
    BY <1>1, <2>1 DEF Inside, Executors
<1>3. Waiting = InHand \o jobs /\ Waiting' = InHand' \o jobs'
  BY <1>2 DEF Waiting
<1>4. RunningNow' = RunningNow /\ done' = done
  BY <1>2 DEF RunningNow, TakeNothing, TakeAll, Take, FetchSub, CountOut
<1>5. CASE TakeNothing(t)
  <2>1. Holders' = Holders
    BY <1>5 DEF TakeNothing, Holders, IInv, TypeOK
  <2> QED
    BY <1>3, <1>4, <1>5, <2>1 DEF InHand, TakeNothing
<1>6. CASE TakeAll(t)
  <2>1. Holders = {} /\ Holders' = {t}
    BY <1>1, <1>6 DEF TakeAll, Take, Holders, Executors, IInv, TypeOK
  <2>2. InHand = <<>> /\ InHand' = batch'[t]
    BY <2>1 DEF InHand
  <2>3. batch'[t] = jobs /\ jobs' = <<>> /\ jobs \in Seq(Jobs)
    BY <1>6 DEF TakeAll, Take, IInv, TypeOK
  <2> QED
    BY <1>3, <1>4, <2>2, <2>3, ConcatEmptySeq
<1>7. CASE FetchSub(t)
  <2>1. t \in Holders /\ Holders' = {}
    BY <1>1, <1>7 DEF FetchSub, CountOut, Holders, Executors, IInv, TypeOK
  <2>2. InHand = <<>> /\ InHand' = <<>>
    BY <1>7, <2>1, InHandOfHolder DEF IInv, InHand, FetchSub, CountOut
  <2> QED
    BY <1>3, <1>4, <1>7, <2>2 DEF FetchSub, CountOut
<1> QED
  BY <1>5, <1>6, <1>7

\* A job begins or ends where the mailbox starts or finishes one.
LEMMA JobImplements ==
    ASSUME IInv, NEW t \in Threads, StartJob(t) \/ FinishJob(t)
    PROVE  Mailbox!Start \/ Mailbox!Finish
<1>1. t \in Holders /\ Executors \subseteq {t}
  BY DEF StartJob, FinishJob, Holders, Executors, IInv, SerialExecution
<1>2. Holders' = {t} /\ Holders = {t}
  BY <1>1 DEF StartJob, FinishJob, Holders, Executors, IInv, TypeOK
<1>3. InHand = batch[t] /\ InHand' = batch'[t] /\ jobs' = jobs
  BY <1>2 DEF InHand, StartJob, FinishJob
<1>4. batch[t] \in Seq(Jobs) /\ jobs \in Seq(Jobs) /\ batch[t] # <<>>
  BY DEF IInv, TypeOK, Local, StartJob, FinishJob
<1>5. CASE StartJob(t)
  <2>1. ~Inside /\ Inside'
    BY <1>1, <1>5 DEF StartJob, Inside, Executors, IInv, TypeOK
  <2>2. Waiting = batch[t] \o jobs /\ Waiting' = Tail(batch[t]) \o jobs
    BY <1>3, <1>5, <2>1 DEF Waiting, StartJob
  <2>3. RunningNow = <<>> /\ RunningNow' = <<Head(batch[t])>> /\ done' = done
    BY <1>3, <1>5, <2>1 DEF RunningNow, StartJob
  <2> QED
    BY <1>4, <2>2, <2>3, HeadOfConcat DEF Mailbox!Start
<1>6. CASE FinishJob(t)
  <2>1. Inside /\ ~Inside'
    BY <1>1, <1>6 DEF FinishJob, Inside, Executors, IInv, TypeOK
  <2>2. batch'[t] = Tail(batch[t])
    BY <1>6 DEF FinishJob, IInv, TypeOK
  <2>3. Waiting' = Waiting
    BY <1>3, <2>1, <2>2 DEF Waiting
  <2>4. RunningNow = <<Head(batch[t])>> /\ RunningNow' = <<>>
    BY <1>3, <2>1 DEF RunningNow
  <2> QED
    BY <1>6, <2>3, <2>4 DEF FinishJob, Mailbox!Finish
<1> QED
  BY <1>5, <1>6

\* JobQueue implements the serial mailbox: jobs run one at a time, in the
\* order of their append, none twice.
THEOREM Refinement == Spec => ImplementsMailbox
<1>1. Init => Mailbox!Init
  <2> SUFFICES ASSUME Init PROVE Mailbox!Init
    OBVIOUS
  <2>1. Holders = {} /\ ~Inside /\ jobs = <<>> /\ done = <<>>
    BY DEF Init, Holders, Inside
  <2>2. Waiting = <<>> \o <<>> /\ RunningNow = <<>>
    BY <2>1 DEF Waiting, InHand, RunningNow
  <2> QED
    BY <2>1, <2>2, EmptySeq, ConcatEmptySeq DEF Mailbox!Init
<1>2. IInv /\ [Next]_vars => [Mailbox!Next]_(Mailbox!vars)
  <2> SUFFICES ASSUME IInv, [Next]_vars
               PROVE  [Mailbox!Next]_(Mailbox!vars)
    OBVIOUS
  <2> USE DEF Mailbox!vars
  <2>1. ASSUME NEW t \in Threads, Begin(t) PROVE UNCHANGED Mailbox!vars
    BY <2>1, FetchAddStutters DEF Begin
  <2>2. ASSUME NEW t \in Threads, Continue(t)
        PROVE  [Mailbox!Next]_(Mailbox!vars)
    BY <2>2, AppendPosts, TakeStutters, JobImplements DEF Continue, Mailbox!Next
  <2>3. CASE UNCHANGED vars
    BY <2>3 DEF vars, Waiting, RunningNow, InHand, Inside, Holders
  <2> QED
    BY <2>1, <2>2, <2>3 DEF Next
<1> QED
  BY <1>1, <1>2, Invariance, PTL DEF Spec, ImplementsMailbox, Mailbox!Spec

===============================================================================
