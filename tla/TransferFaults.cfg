SPECIFICATION Spec
CONSTANTS
    x1 = x1
    x2 = x2
    f1 = f1
    f2 = f2
    a = a
    b = b
    p1 = p1
    Block = {a, b}
    RetryLimit = 2
    MaxConcurrent = 1
    Listener = TRUE
    Xfer = {x1}
    Name = {f1}
    Proc = {p1}
    FileName <- OneFile
    ProcOf <- OneProc
    Contents <- ShortFiles
    Faults <- RowFaults
INVARIANT TypeOK
INVARIANT CompletedIntact
INVARIANT FailureIsHonest
INVARIANT StorageIsReal
PROPERTY KeepsPromise
CHECK_DEADLOCK FALSE
