\* The old stack: two senders and the task under the network semaphore.
CONSTANTS
    N = 4
    Sender = {"s1", "s2"}
    NewStack = FALSE
    MaxPackets = 3
    MaxFrags = 4
SPECIFICATION FairSpec
INVARIANTS TypeOK NotMixed OneSubmitter CurrentIsFree
PROPERTIES ActiveEnds QueueServed
CHECK_DEADLOCK FALSE
