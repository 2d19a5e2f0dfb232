\* Two threads and two jobs are enough for the executor to meet an empty queue.
CONSTANTS
    Threads = {t1, t2}
    Jobs = {j1, j2}
SPECIFICATION Spec
INVARIANTS DrainedWhenIdle
CHECK_DEADLOCK FALSE
