\* Three threads that send and complete, and the receiver; three sends: two can
\* be queued while the first is with the kernel.
CONSTANTS
    Threads = {t1, t2, t3}
    Receiver = Receiver
    MaxSends = 3
SPECIFICATION Spec
INVARIANTS TypeOK SendEventHasOneOwner SendsInOrder
PROPERTIES ImplementsChannel ClosedIsNotified QueuedIsSent
\* The sends are bounded, and a closed session does nothing more.
CHECK_DEADLOCK FALSE
