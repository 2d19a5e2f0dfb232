\* Three worker threads and four jobs: two pushers can meet between fetch_add
\* and append while a third executes, and a job can still be pushed afterwards.
\* No symmetry: a liveness property is checked.
CONSTANTS
    Threads = {t1, t2, t3}
    Jobs = {j1, j2, j3, j4}
SPECIFICATION Spec
INVARIANTS TypeOK SerialExecution CountExact
PROPERTIES AbandonedForever EveryJobRunsUnlessAbandoned ImplementsMailbox
\* The system stops when every job was pushed, or is abandoned.
CHECK_DEADLOCK FALSE
