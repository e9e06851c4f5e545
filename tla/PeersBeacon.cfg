SPECIFICATION FairSpec
CONSTANTS
    Peer = {p1}
    Addr = {a1, a2}
    NoIp = NoIp
    Cmd = {c1}
    Thread = {h1}
    MaxNow = 2
    Inputs <- BeaconInputs
PROPERTY DeadGoesOffline
CHECK_DEADLOCK FALSE
