\* The receive ring: once around and half around again, one mbuf to spare.
CONSTANTS
    N = 4
    Mbuf = {m1, m2, m3, m4, m5}
    None = None
    MaxFrames = 6
SPECIFICATION Spec
SYMMETRY MbufSymmetry
INVARIANTS TypeOK ClosedInOrder MbufsOwnedOnce InputIntact
PROPERTIES StackDataKept
CHECK_DEADLOCK FALSE
