SPECIFICATION Spec
CONSTANTS
    Block = {b1, b2, b3}
    Caller = {c1, c2}
    Null = Null
    Sizes = {1, 3}
    MemBlocksMax = 2
    ExtBlocksMax = 2
    top_allocators_count = 1
    permanent_allocators_count = 1
    to_permanent_allocators_count = 1
    max_snap_shot_allocators_count = 2
    to_permanent_steps_count = 0
    UInt32 = 4
    UInt8 = 2
    MaxAge = 3
SYMMETRY TrackerSymmetry
INVARIANTS RecordsExact TotalsExact OneEntryPerCaller YoungestBlockCounts ListsHoldLargest
PROPERTY FreeFindsRecord
