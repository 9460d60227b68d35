SPECIFICATION IrqSpec
CONSTANTS
    MemWords = 59
    HOLE_T_SIZE = 4
    REGION_COUNT = 2
    BookWords = 2
    DataWord <- MinusOne
    LinkWord = 0
    UInt32 = 1
    Heaps <- LargeHeap
    Regions <- LargeRegion
    AllocSizes = {40}
    Thresholds <- SomeThresholds
    Foreign = {}
    ReAddAnyTime = FALSE
    InterruptRegionAdd = FALSE
INVARIANT IrqInv
PROPERTIES TemporaryNeedsFreeHeap ImplementsHeap
