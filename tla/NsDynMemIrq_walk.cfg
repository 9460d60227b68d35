SPECIFICATION IrqSpec
CONSTANTS
    MemWords = 32
    HOLE_T_SIZE = 2
    REGION_COUNT = 3
    BookWords = 2
    DataWord <- MinusOne
    LinkWord = 0
    UInt32 = 2
    Heaps <- SmallHeap
    Regions <- OneRegion
    AllocSizes = {4, 12}
    Thresholds = {}
    Foreign = {1}
    ReAddAnyTime = FALSE
    InterruptRegionAdd = TRUE
INVARIANT WalkOnListedHoles
