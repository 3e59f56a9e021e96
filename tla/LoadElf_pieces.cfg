\* Files of up to two program headers, in pieces of 1, 3 and all bytes.
CONSTANTS
    Off = {0, 6, 8, 10}
    Len1 = {5, 10, 11, 13}
    File <- MCFile
    EhSize = 2
    PhSize = 2
    MaxSegments = 2
    Piece = {1, 3, 100}
    Address = {0, 1, 2}
    Word = 1000
SPECIFICATION Spec
INVARIANTS MemoryRight StartedIffLong StartedIsLoaded
PROPERTIES ProcessReturns
CHECK_DEADLOCK FALSE
