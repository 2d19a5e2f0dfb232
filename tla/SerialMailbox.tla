---------------------------- MODULE SerialMailbox ----------------------------
(***************************************************************************)
(* What the rest of the server expects of a JobQueue: the jobs posted to    *)
(* it are kept in the order they were posted, they are run one at a time    *)
(* and every job is run at most once.  Nothing is said of which thread runs *)
(* them, nor that they are run at all.                                      *)
(***************************************************************************)
EXTENDS Sequences

CONSTANT Jobs               \* the jobs that may be posted

VARIABLES
    mail,                   \* posted and not yet started, oldest first
    running,                \* the job being run, as a sequence of length 0 or 1
    done                    \* the jobs that ran, in the order they ended

vars == <<mail, running, done>>

Init ==
    /\ mail = <<>>
    /\ running = <<>>
    /\ done = <<>>

\* A job is posted by a handler, or by the job being run.
Post(j) ==
    /\ mail' = Append(mail, j)
    /\ UNCHANGED <<running, done>>

Start ==
    /\ running = <<>>
    /\ mail # <<>>
    /\ running' = <<Head(mail)>>
    /\ mail' = Tail(mail)
    /\ UNCHANGED done

Finish ==
    /\ running # <<>>
    /\ done' = Append(done, Head(running))
    /\ running' = <<>>
    /\ UNCHANGED mail

Next ==
    \/ \E j \in Jobs : Post(j)
    \/ Start
    \/ Finish

Spec == Init /\ [][Next]_vars

=============================================================================
