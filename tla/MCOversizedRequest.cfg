SPECIFICATION AllocatorSpec
CONSTANTS
    Threads = {t1}
    NoThread = NoThread
    Timelines = {q1}
    NoTimeline = NoTimeline
    Heaps = {h1}
    HeapSizes = {2, 4, 6}
    RequestSizes = {3, 15}
    SizeRange = 16
    MaxAlignment = 2
    LargeAllocation = 6
    MinHeap = 5
    MaxHeap = 5
    MaxCommands = 1
    CallsMayThrow = FALSE
    DeferMayFail = FALSE
    DestructorMayThrow = FALSE
INVARIANTS
    BlockHoldsRequest
