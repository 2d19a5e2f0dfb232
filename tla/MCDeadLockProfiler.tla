-------------------------- MODULE MCDeadLockProfiler --------------------------
(***************************************************************************)
(* Four locks with three names: two sessions, a job queue and the session   *)
(* manager.                                                                 *)
(***************************************************************************)
EXTENDS DeadLockProfiler, TLC

MCNameOf == ("session1" :> "Session" @@ "session2" :> "Session"
             @@ "queue" :> "JobQueue" @@ "manager" :> "GameSessionManager")

MCLocks == DOMAIN MCNameOf

\* Threads are alike.
Symmetry == Permutations(Threads)

===============================================================================
