\* The ring: safety, no call is stuck, and the refinement of FrameQueue.
CONSTANTS
    N = 4
    FrameFragmentsMax = 0
    Mbuf = {1, 2, 3, 4, 5, 6}
    None = None
    MaxFrame = 5
    Tags = 3
SPECIFICATION LiveSpec
INVARIANTS TypeOK WholeFrames MbufsOwnedOnce OpenFrameKept RingInv
PROPERTIES CallReturns ImplementsFairQueue
