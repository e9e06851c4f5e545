SPECIFICATION Spec
CONSTANTS
    i1 = i1
    i2 = i2
    g1 = g1
    Cmd = {i1, i2, g1}
    Kind <- Kinds
    Port = {60000, 9000}
    DefaultPort = 60000
    Faults <- FaultKinds
INVARIANT TypeOK
INVARIANT ShownIsStored
INVARIANT KeysBelong
INVARIANT EnvWins
PROPERTY KeysStayPut
SYMMETRY Alike
CHECK_DEADLOCK FALSE
