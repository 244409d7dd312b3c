SPECIFICATION DeviceSpec
CONSTANTS
    Threads = {t1, t2}
    DeviceCount = 2
    Handles = {h1, h2}
    NoHandle = NoHandle
    Host = Host
    Ids = {7, 8}
    IntRange = 8
    SizeRange = 16
    MaxAlignment = 4
    BaseAlignment = 2
    LargeAllocation = 4
    MinHeap = 4
    MaxHeap = 4
    HeapSizes = {4}
    MaxHeaps = 2
SYMMETRY Symmetry
INVARIANTS DeviceTypeOK MadeWhereItBelongs SelectionIsRestored HeapsFitTheirRegions RegionsHaveOneHeap 
