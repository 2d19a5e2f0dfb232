----------------------------- MODULE OrderedChannel -----------------------------
(***************************************************************************)
(* What the rest of the server expects of a Session: what it is given to    *)
(* send goes to the peer in the order it was given and each buffer once; a  *)
(* buffer is dropped only when the session ended or a send failed before;   *)
(* the session ends once, and its end is told once, and only then.  Nothing *)
(* is said of threads, of who owns the send event, nor that anything is     *)
(* sent at all.                                                             *)
(***************************************************************************)
EXTENDS Integers, Sequences

VARIABLES
    status,                 \* "new", "open" or "closed"
    given,                  \* how many buffers were given: their numbers
    waiting,                \* given, and neither handed on nor dropped, oldest first
    sent,                   \* handed to the kernel, in that order
    broken,                 \* a send failed, and the session stayed open
    told                    \* how often the game was told of the end

vars == <<status, given, waiting, sent, broken, told>>

Init ==
    /\ status \in {"new", "open"}
    /\ given = 0
    /\ waiting = <<>>
    /\ sent = <<>>
    /\ broken = FALSE
    /\ told = 0

First(n) == SubSeq(waiting, 1, n)
Rest(n)  == SubSeq(waiting, n + 1, Len(waiting))

Open ==
    /\ status = "new"
    /\ status' = "open"
    /\ UNCHANGED <<given, waiting, sent, broken, told>>

\* A sender may find the session ended under its hands.
Give ==
    /\ status # "new"
    /\ given' = given + 1
    /\ waiting' = Append(waiting, given')
    /\ UNCHANGED <<status, sent, broken, told>>

Hand(n) ==
    /\ sent' = sent \o First(n)
    /\ waiting' = Rest(n)
    /\ UNCHANGED <<status, given, broken, told>>

Break ==
    /\ broken' = TRUE
    /\ UNCHANGED <<status, given, waiting, sent, told>>

Drop(n) ==
    /\ status = "closed" \/ broken
    /\ waiting' = Rest(n)
    /\ UNCHANGED <<status, given, sent, broken, told>>

Close ==
    /\ status = "open"
    /\ status' = "closed"
    /\ UNCHANGED <<given, waiting, sent, broken, told>>

Tell ==
    /\ status = "closed" /\ told = 0
    /\ told' = 1
    /\ UNCHANGED <<status, given, waiting, sent, broken>>

Next ==
    \/ Open \/ Give \/ Break \/ Close \/ Tell
    \/ \E n \in 1..Len(waiting) : Hand(n) \/ Drop(n)

Spec == Init /\ [][Next]_vars

===============================================================================
