------------------------------- MODULE JobQueue -------------------------------
(***************************************************************************)
(* ServerCore/JobQueue.cpp: the mailbox every Room is built on.  Push       *)
(* counts the job in with an atomic fetch_add, appends it to _jobs under    *)
(* WRITE_LOCK, and the pusher that found the counter at 0 becomes the       *)
(* executor.  The executor takes all of _jobs under the lock, runs what it  *)
(* took, counts it out with fetch_sub, and stays while the counter says     *)
(* that more was pushed meanwhile.                                          *)
(*                                                                          *)
(* One action is one atomic access: the fetch_add, the locked append, the   *)
(* locked take, the begin and the end of a job, the fetch_sub.  The two     *)
(* critical sections touch nothing else, so each is one step.  A job may    *)
(* itself push to the queue that runs it (a failed send inside a room job   *)
(* ends in GameSession::OnDisconnected, which pushes Room::Leave).  No      *)
(* caller passes pushOnly, so it is FALSE throughout.                       *)
(***************************************************************************)
EXTENDS Integers, Sequences, FiniteSets, SequencesExt

CONSTANTS
    Threads,                \* the IOCP worker threads
    Jobs                    \* the jobs that may be created; each is pushed once

ASSUME ThreadsFinite == IsFiniteSet(Threads)

VARIABLES
    jobCount,               \* JobQueue::_jobCount
    jobs,                   \* JobQueue::_jobs
    pc,                     \* where each thread is inside Push or Execute
    pending,                \* the argument of the Push a thread is in (<<j>>)
    first,                  \* prevCount == 0 in the Push a thread is in
    batch,                  \* what is left to run of Execute's local vector
    taken,                  \* jobs.size() of that vector
    fresh,                  \* jobs no one has pushed yet
    done                    \* history: the jobs that ran, in order

vars == <<jobCount, jobs, pc, pending, first, batch, taken, fresh, done>>

Locations == {"idle", "enqueue", "take", "run", "job", "nested", "reenter"}

Init ==
    /\ jobCount = 0
    /\ jobs = <<>>
    /\ pc = [t \in Threads |-> "idle"]
    /\ pending = [t \in Threads |-> <<>>]
    /\ first = [t \in Threads |-> FALSE]
    /\ batch = [t \in Threads |-> <<>>]
    /\ taken = [t \in Threads |-> 0]
    /\ fresh = Jobs
    /\ done = <<>>

(***************************************************************************)
(* Push.                                                                    *)
(***************************************************************************)

\* prevCount = _jobCount.fetch_add(1), by a thread that runs no job ("idle")
\* or from inside the job it runs ("job").
FetchAdd(t, j, from, to) ==
    /\ pc[t] = from
    /\ j \in fresh
    /\ fresh' = fresh \ {j}
    /\ jobCount' = jobCount + 1
    /\ first' = [first EXCEPT ![t] = (jobCount = 0)]
    /\ pending' = [pending EXCEPT ![t] = <<j>>]
    /\ pc' = [pc EXCEPT ![t] = to]
    /\ UNCHANGED <<jobs, batch, taken, done>>

\* The locked _jobs.push, then the choice to call Execute or to return.
AppendPending(t, from, execute, otherwise) ==
    /\ pc[t] = from
    /\ jobs' = jobs \o pending[t]
    /\ pending' = [pending EXCEPT ![t] = <<>>]
    /\ first' = [first EXCEPT ![t] = FALSE]
    /\ pc' = [pc EXCEPT ![t] = IF first[t] THEN execute ELSE otherwise]
    /\ UNCHANGED <<jobCount, batch, taken, fresh, done>>

\* Slip: the executor is whoever finds _jobs, not the counter, at zero.
PushEnqueue_EmptyTest(t) ==
    /\ pc[t] = "enqueue"
    /\ jobs' = jobs \o pending[t]
    /\ pending' = [pending EXCEPT ![t] = <<>>]
    /\ first' = [first EXCEPT ![t] = FALSE]
    /\ pc' = [pc EXCEPT ![t] = IF jobs = <<>> THEN "take" ELSE "idle"]
    /\ UNCHANGED <<jobCount, batch, taken, fresh, done>>

PushAdd(t, j)   == FetchAdd(t, j, "idle", "enqueue")
PushEnqueue(t)  == AppendPending(t, "enqueue", "take", "idle")

\* A job pushes to its own queue.  Were prevCount 0 here, the thread would
\* call Execute inside Execute: "reenter" stands for that call.
NestedAdd(t, j)  == FetchAdd(t, j, "job", "nested")
NestedEnqueue(t) == AppendPending(t, "nested", "reenter", "job")

(***************************************************************************)
(* Execute.                                                                 *)
(***************************************************************************)

\* Under the lock _jobs is empty: leave the loop, the counter as it is.
TakeNothing(t) ==
    /\ pc[t] = "take"
    /\ jobs = <<>>
    /\ pc' = [pc EXCEPT ![t] = "idle"]
    /\ UNCHANGED <<jobCount, jobs, pending, first, batch, taken, fresh, done>>

\* What every take does: `vector` is run, and `count` is counted out at once.
Take(t, vector, count) ==
    /\ pc[t] = "take"
    /\ jobs # <<>>
    /\ batch' = [batch EXCEPT ![t] = vector]
    /\ taken' = [taken EXCEPT ![t] = Len(jobs) - count]
    /\ jobs' = <<>>
    /\ jobCount' = jobCount - count
    /\ pc' = [pc EXCEPT ![t] = "run"]
    /\ UNCHANGED <<pending, first, fresh, done>>

\* Slips: the counter goes down when the jobs are taken, not when they have
\* run; the last job is dropped; _jobs is used as a stack.
TakeAll_CountsOut(t)  == Take(t, jobs, Len(jobs))
TakeAll_DropsLast(t)  == Take(t, Front(jobs), 0)
TakeAll_Reversed(t)   == Take(t, Reverse(jobs), 0)

\* Under the lock everything in _jobs moves to the local vector.
TakeAll(t) == Take(t, jobs, 0)

\* job->Execute() begins; it is Head(batch[t]) until it ends.
StartJob(t) ==
    /\ pc[t] = "run"
    /\ batch[t] # <<>>
    /\ pc' = [pc EXCEPT ![t] = "job"]
    /\ UNCHANGED <<jobCount, jobs, pending, first, batch, taken, fresh, done>>

FinishJob(t) ==
    /\ pc[t] = "job"
    /\ done' = Append(done, Head(batch[t]))
    /\ batch' = [batch EXCEPT ![t] = Tail(batch[t])]
    /\ pc' = [pc EXCEPT ![t] = "run"]
    /\ UNCHANGED <<jobCount, jobs, pending, first, taken, fresh>>

\* remaining = _jobCount.fetch_sub(n); leave if that made the counter 0.
CountOut(t, n) ==
    /\ pc[t] = "run"
    /\ batch[t] = <<>>
    /\ jobCount' = jobCount - n
    /\ taken' = [taken EXCEPT ![t] = 0]
    /\ pc' = [pc EXCEPT ![t] = IF jobCount = n THEN "idle" ELSE "take"]
    /\ UNCHANGED <<jobs, pending, first, batch, fresh, done>>

\* Slips: one is subtracted for the whole vector; what was queued since the
\* take is subtracted too.
FetchSub_One(t)    == CountOut(t, 1)
FetchSub_Queued(t) == CountOut(t, taken[t] + Len(jobs))

FetchSub(t) == CountOut(t, taken[t])

\* Steps a thread must take once it is inside Push or Execute.
Continue(t) ==
    \/ PushEnqueue(t)
    \/ NestedEnqueue(t)
    \/ TakeNothing(t)
    \/ TakeAll(t)
    \/ StartJob(t)
    \/ FinishJob(t)
    \/ FetchSub(t)

\* Steps that depend on a packet arriving, or on what the job does.
Begin(t) == \E j \in Jobs : PushAdd(t, j) \/ NestedAdd(t, j)

Next == \E t \in Threads : Begin(t) \/ Continue(t)

\* The operating system runs every thread that is inside the queue; nobody
\* is obliged to push.
Fairness == \A t \in Threads : WF_vars(Continue(t))

Spec == Init /\ [][Next]_vars /\ Fairness

-------------------------------------------------------------------------------

\* Every variable has its type.
TypeOK ==
    /\ jobCount \in Nat
    /\ jobs \in Seq(Jobs)
    /\ pc \in [Threads -> Locations]
    /\ pending \in [Threads -> Seq(Jobs)]
    /\ first \in [Threads -> BOOLEAN]
    /\ batch \in [Threads -> Seq(Jobs)]
    /\ taken \in [Threads -> Nat]
    /\ fresh \subseteq Jobs
    /\ done \in Seq(Jobs)

\* The threads that are the executor, or are about to be.
Executors ==
    {t \in Threads : \/ pc[t] \in {"take", "run", "job", "nested", "reenter"}
                     \/ pc[t] = "enqueue" /\ first[t]}

\* The threads between their fetch_add and their append.
Pushers == {t \in Threads : pc[t] \in {"enqueue", "nested"}}

\* The threads that hold jobs they took.
Holders == {t \in Threads : pc[t] \in {"run", "job", "nested"}}

\* The jobs of one queue never run on two threads at once, although nothing
\* but _jobCount elects the executor: this is what lets Room's members go
\* without a lock (Room.h: jobs run serially).
SerialExecution == \A t, u \in Executors : t = u

\* A job that pushes to its own queue never finds _jobCount at 0, so Push
\* never calls Execute from inside Execute.
NoReentrancy == \A t \in Threads : pc[t] # "reenter"

\* jobs.size() of the vector being run, 0 when there is none.
TakenNow == IF Holders = {} THEN 0 ELSE taken[CHOOSE t \in Holders : TRUE]

\* _jobCount counts the jobs queued, the jobs taken and the pushes between
\* their fetch_add and their append: nothing is counted out twice or never.
CountExact == jobCount = Len(jobs) + TakenNow + Cardinality(Pushers)

\* The counter says there is work, and no thread is or will be its executor.
Abandoned == jobCount > 0 /\ Executors = {}

\* Once a queue is abandoned it stays so whatever is pushed to it, and it
\* never runs a job again: no later Push can find the counter at 0.
AbandonedForever == [][Abandoned => Abandoned' /\ UNCHANGED done]_vars

\* A pushed job is run, unless the queue is abandoned first.
EveryJobRunsUnlessAbandoned ==
    \A j \in Jobs : (j \notin fresh) ~> (Abandoned \/ \E i \in 1..Len(done) : done[i] = j)

\* JobQueue.cpp:42 and PLAN.md:67: the executor keeps popping until the queue
\* is empty and leaves when the counter is 0.  So when no thread is inside
\* Push or Execute, every job that was pushed has run.
DrainedWhenIdle == (\A t \in Threads : pc[t] = "idle") => jobs = <<>>

-------------------------------------------------------------------------------

\* A queue with one executor is a serial mailbox: the job being run is the head
\* of the vector, and what waits is the vector's rest followed by _jobs.
InHand     == IF Holders = {} THEN <<>> ELSE batch[CHOOSE t \in Holders : TRUE]
Inside     == \E t \in Threads : pc[t] \in {"job", "nested"}
Waiting    == (IF Inside THEN Tail(InHand) ELSE InHand) \o jobs
RunningNow == IF Inside THEN <<Head(InHand)>> ELSE <<>>

Mailbox == INSTANCE SerialMailbox WITH
    mail <- Waiting, running <- RunningNow, done <- done

\* Jobs run one at a time, in the order they were appended, each once.
ImplementsMailbox == Mailbox!Spec

===============================================================================
