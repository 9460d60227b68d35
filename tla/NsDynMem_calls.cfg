SPECIFICATION Spec
CONSTANTS
    MemWords = 28
    HOLE_T_SIZE = 2
    REGION_COUNT = 3
    BookWords = 2
    DataWord <- MinusOne
    LinkWord = 0
    UInt32 = 1
    Heaps <- MiddleHeap
    Regions <- SideRegions
    AllocSizes = {0, 3, 7}
    Thresholds = {}
    Foreign = {1}
    ReAddAnyTime = FALSE
INVARIANTS Tiled HeldBlocks HolesListed Coalesced StatsExact HeapSizeExact WholeAgain NoFalseAlarm DoubleFreeDetected
PROPERTY HeldWordsUntouched
