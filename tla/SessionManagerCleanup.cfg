\* Two worker threads and two sessions; the first broadcast is enough.
CONSTANTS
    Threads = {t1, t2}
    NoThread = NoThread
    MaxDepth = 2
    Sessions = {s1, s2}
    NoSession = NoSession
    MaxBroadcasts = 2
SPECIFICATION SMSpec
PROPERTIES ClosedIsRemoved
\* A crash is the end of the process.
CHECK_DEADLOCK FALSE
