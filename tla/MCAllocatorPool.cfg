SPECIFICATION AllocatorSpec
CONSTANTS
    Threads = {t1, t2}
    NoThread = NoThread
    Timelines = {q1, q2}
    NoTimeline = NoTimeline
    Heaps = {h1}
    HeapSizes = {2, 4, 6, 8, 10, 12, 14}
    RequestSizes = {0, 3}
    SizeRange = 16
    MaxAlignment = 2
    LargeAllocation = 6
    MinHeap = 5
    MaxHeap = 5
    MaxCommands = 1
    CallsMayThrow = TRUE
    DeferMayFail = FALSE
    DestructorMayThrow = FALSE
SYMMETRY Symmetry
INVARIANTS
    FreeBlocksMerged
    OutOfMemoryIsReal
    BlockHoldsRequest
PROPERTIES
    PoolSpec
