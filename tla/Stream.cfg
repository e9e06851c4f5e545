SPECIFICATION FairSpec
CONSTANTS
    Size <- Sizes
    Attempts <- Tries
INVARIANT TypeOK
INVARIANT UntouchedIsExact
PROPERTY DeliversInOrder
PROPERTY AllArrive
PROPERTY ReaderEnds
CHECK_DEADLOCK FALSE
