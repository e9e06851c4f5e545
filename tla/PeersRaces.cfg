SPECIFICATION Spec
CONSTANTS
    Peer = {p1, p2}
    Addr = {a1, a2}
    NoIp = NoIp
    Cmd = {c1, c2}
    Thread = {h1}
    MaxNow = 1
    Inputs <- RaceInputs
INVARIANT TypeOK
INVARIANT OnlineWasSeen
INVARIANT AddressWasGiven
CHECK_DEADLOCK FALSE
