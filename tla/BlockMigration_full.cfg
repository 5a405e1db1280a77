SPECIFICATION Spec
CONSTANTS
    MaxRoom = 1
    BLOCK_SIZE = 2
    HeaderSize = 1
    NChunks = 3
    DiskStarts = {0}
    PartialChunks = {}
    Allocated = {0}
    WordBits = 2
    IntBits = 2
    Rates = {3}
    MaxWrites = 0
    MaxErrors = 0
    MaxStarts = 1
CHECK_DEADLOCK FALSE
INVARIANT FullCopy
