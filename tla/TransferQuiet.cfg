SPECIFICATION FairSpec
CONSTANTS
    x1 = x1
    x2 = x2
    f1 = f1
    f2 = f2
    a = a
    b = b
    p1 = p1
    Block = {a, b}
    RetryLimit = 2
    MaxConcurrent = 2
    Listener = TRUE
    Xfer = {x1, x2}
    Name = {f1, f2}
    Proc = {p1}
    FileName <- TwoFiles
    ProcOf <- OneProc
    Contents <- Files
    Faults <- NoFaults
PROPERTY Delivered
CHECK_DEADLOCK FALSE
