\* Two tasks bring the interface up, with either stack, failures and few mbufs.
CONSTANTS
    Caller = {"c1", "c2"}
    MuramSize = 16384
    Word = 1073741824
    SnumCount = 12
    Sdma <- MCSdma
    Request <- MCRequest
    Bytes <- MCBytes
    Threads <- MCThreads
    Fifos = 2
    Configured = {0, 48, 64}
    HeapSize = 4400
    Mbufs = 200
    Others = {0, 48}
SPECIFICATION FairSpec
INVARIANTS RegionsRight AssertsHold
PROPERTIES InitReturns
CHECK_DEADLOCK FALSE
