SPECIFICATION Spec
CONSTANTS
    i1 = i1
    i2 = i2
    g1 = g1
    Cmd = {i1, i2}
    Kind <- Kinds
    Port = {60000}
    DefaultPort = 60000
    Faults <- JustCrash
INVARIANT InstalledHasKeys
CHECK_DEADLOCK FALSE
