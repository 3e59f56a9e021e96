\* Interrupted updates, bad blocks, images that do not fit.
CONSTANTS
    Image = {"fits", "big"}
    Size <- MCSize
    None = None
    PagesPerBlock = 3
    BlockCount = 3
    FirstPage = 2
SPECIFICATION FairSpec
INVARIANTS StageInv BootsStored
PROPERTIES ImplementsStore Ends
CHECK_DEADLOCK FALSE
