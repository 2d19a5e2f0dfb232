\* Two worker threads, two sessions and two accept events: an accept against another
\* one, a removal or a broadcast, with a failure on each path.
CONSTANTS
    Threads = {t1, t2}
    NoThread = NoThread
    MaxDepth = 2
    Sessions = {s1, s2}
    NoSession = NoSession
    MaxBroadcasts = 2
    Events = {e1, e2}
    NoEvent = NoEvent
    MaxRetries = 1
SPECIFICATION LSpec
INVARIANTS LTypeOK EventHasOneOwner ClosedIsOnItsWayOut
PROPERTIES IterationUndisturbed AcceptComesBack UnconnectedIsReleased
\* A crash is the end of the process.
CHECK_DEADLOCK FALSE
