\* As many fragments per frame as there are BDs, which the assertion admits.
CONSTANTS
    N = 4
    FrameFragmentsMax = 4
    Mbuf = {m1, m2, m3, m4, m5, m6}
    None = None
    MaxFrame = 6
    Tags = 3
SPECIFICATION Spec
SYMMETRY MbufSymmetry
INVARIANTS NoWaitCycle
