SPECIFICATION AllocatorSpec
CONSTANTS
    Threads = {t1}
    NoThread = NoThread
    Timelines = {q1}
    NoTimeline = NoTimeline
    Heaps = {h1, h2, h3}
    HeapSizes = {1, 2, 3, 4}
    RequestSizes = {1, 3}
    SizeRange = 16
    MaxAlignment = 1
    LargeAllocation = 3
    MinHeap = 2
    MaxHeap = 4
    MaxCommands = 0
    CallsMayThrow = FALSE
    DeferMayFail = FALSE
    DestructorMayThrow = FALSE
SYMMETRY Symmetry
INVARIANTS
    LargeAllocationsOwnTheirHeap
