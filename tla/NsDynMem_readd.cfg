SPECIFICATION Spec
CONSTANTS
    MemWords = 21
    HOLE_T_SIZE = 2
    REGION_COUNT = 3
    BookWords = 2
    DataWord <- MinusOne
    LinkWord = 0
    UInt32 = 1
    Heaps <- SmallHeap
    Regions <- OneRegion
    AllocSizes = {4, 12}
    Thresholds = {}
    Foreign = {}
    ReAddAnyTime = TRUE
INVARIANT RegionAddedOnce
