\* Where the update puts an image when a block cannot be erased.
CONSTANTS
    Image = {"fits", "big"}
    Size <- MCSize
    None = None
    PagesPerBlock = 3
    BlockCount = 3
    FirstPage = 2
SPECIFICATION Spec
INVARIANTS SkipsBadBlocks
CHECK_DEADLOCK FALSE
