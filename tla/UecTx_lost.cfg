\* The rest of a packet is lost when the ring is full in the middle of it.
CONSTANTS
    N = 4
    Sender = {"s1"}
    NewStack = FALSE
    MaxPackets = 3
    MaxFrags = 3
SPECIFICATION Spec
INVARIANTS FramesArePackets
CHECK_DEADLOCK FALSE
