SPECIFICATION AllocatorSpec
CONSTANTS
    Threads = {t1, t2}
    NoThread = NoThread
    Timelines = {q1, q2}
    NoTimeline = NoTimeline
    Heaps = {h1}
    HeapSizes = {1, 2}
    RequestSizes = {1}
    SizeRange = 16
    MaxAlignment = 1
    LargeAllocation = 3
    MinHeap = 2
    MaxHeap = 2
    MaxCommands = 2
    CallsMayThrow = TRUE
    DeferMayFail = TRUE
    DestructorMayThrow = TRUE
SYMMETRY Symmetry
INVARIANTS
    AllocatorTypeOK
    BlocksHaveOneOwner
    OwnersCoverUses
    FreeBlocksCovered
