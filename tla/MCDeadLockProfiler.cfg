\* Two threads that hold or wait for up to three guards: cycles of two and of three
\* names, and threads that wait for each other's sessions.
CONSTANTS
    Threads = {t1, t2}
    Locks <- MCLocks
    NameOf <- MCNameOf
    NoLock = NoLock
    MaxDepth = 3
SYMMETRY Symmetry
SPECIFICATION Spec
INVARIANTS TypeOK CycleIsFound PopsItsOwn DeadlockIsForeseen
\* Threads can wait for each other forever, and a crash is the end.
CHECK_DEADLOCK FALSE
