\* The new stack with one or two senders.
CONSTANTS
    N = 4
    Sender = {"s1", "s2"}
    NewStack = TRUE
    MaxPackets = 4
    MaxFrags = 4
SPECIFICATION Spec
INVARIANTS NotMixed CurrentIsFree SenderNeverWaits ActiveServed
CHECK_DEADLOCK FALSE
