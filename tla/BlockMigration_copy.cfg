SPECIFICATION Spec
CONSTANTS
    MaxRoom = 1
    BLOCK_SIZE = 2
    HeaderSize = 1
    NChunks = 3
    DiskStarts = {0, 1}
    PartialChunks = {2}
    Allocated = {0}
    WordBits = 2
    IntBits = 1
    Rates = {0, 3}
    MaxWrites = 2
    MaxErrors = 1
    MaxStarts = 1
CHECK_DEADLOCK FALSE
INVARIANTS TypeOK CopyComplete NothingForgotten OneGuest HealthyRunIsSound
