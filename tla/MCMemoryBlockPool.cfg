SPECIFICATION PoolSpec
CONSTANTS
    Timelines = {q1, q2}
    NoTimeline = NoTimeline
    Heaps = {h1, h2}
    HeapSizes = {1, 2, 3}
    MaxCommands = 2
SYMMETRY Symmetry
INVARIANTS
    PoolTypeOK
    BlocksTileHeaps
    FreeBlocksCovered
    WalkedPartMerged
    NoCommandOnReturnedMemory
PROPERTIES
    LendsMemory
CONSTRAINT DriverHasRoom
