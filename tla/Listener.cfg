SPECIFICATION FairSpec
CONSTANTS
    Client = {c1, c2, c3}
    MaxFd = 3
    Backlog = 2
    MaxStarts = 2
    MaxOther = 2
INVARIANT TypeOK
INVARIANT NoFdLeak
INVARIANT PortIsReleased
PROPERTY StopReturns
PROPERTY QueueIsServed
CHECK_DEADLOCK FALSE
