SPECIFICATION Spec
CONSTANTS
    n1 = n1
    n2 = n2
    m1 = m1
    m2 = m2
    m3 = m3
    Node = {n1, n2}
    Msg = {m1, m2, m3}
    Sender <- From
    Rcpt <- To
    Stamp = {1, 2}
    PageSize = 1
    RetryLimit = 2
    Reader = {n1}
    Faults <- AllFaults
INVARIANT TypeOK
INVARIANT FailureIsFinal
INVARIANT ReadWasShown
INVARIANT WalkSeesAll
PROPERTY ReadSticks
CHECK_DEADLOCK FALSE
SYMMETRY Alike
