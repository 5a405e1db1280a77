SPECIFICATION Spec
CONSTANTS
    MaxRoom = 1
    BLOCK_SIZE = 2
    HeaderSize = 1
    NChunks = 2
    DiskStarts = {0}
    PartialChunks = {}
    Allocated = {0}
    WordBits = 2
    IntBits = 2
    Rates = {2}
    MaxWrites = 0
    MaxErrors = 0
    MaxStarts = 2
CHECK_DEADLOCK FALSE
INVARIANT AssertionsHold
