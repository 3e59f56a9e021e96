\* Both tasks, the handler and the controller: no wakeup is lost.
CONSTANTS
    Ring = 1
SPECIFICATION LiveSpec
INVARIANTS NoLostWakeup WaitInv
PROPERTIES Wakes
