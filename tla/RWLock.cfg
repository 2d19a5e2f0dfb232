\* Three threads with up to three guards each: two readers against a writer,
\* and a writer that locks again for writing and for reading.
CONSTANTS
    Threads = {t1, t2, t3}
    NoThread = NoThread
    MaxDepth = 3
SPECIFICATION Spec
INVARIANTS TypeOK Exclusion WordMatchesGuards UnlockCrashesOnlyNested
PROPERTIES FreeLockIsTaken
\* A crash is the end of the process.
CHECK_DEADLOCK FALSE
