---- MODULE MemoryHeap ----
(***************************************************************************)
(* memory_heap and the sources heaps are taken from.  A source returns a   *)
(* region at its base alignment, and the heap starts where its own, maybe  *)
(* stricter, one lets it.  Addresses are as wide as std::size_t.           *)
(***************************************************************************)
EXTENDS HeapSizing

CONSTANTS
    BaseAlignment,      \* REXLIB_CUDA_ALLOCATION_ALIGN_BYTES
    HeapSizes           \* what the allocators ask for

ASSUME BaseAlignmentAssumption ==
    /\ BaseAlignment \in Nat \ {0}
    /\ MaxAlignment % BaseAlignment = 0 \/ BaseAlignment % MaxAlignment = 0
    /\ SizeRange % BaseAlignment = 0

VARIABLES
    regions,        \* of the driver: what it gave away, where, and of whose memory
    heaps           \* the heaps there are

heapVars == <<regions, heaps>>

\* A slip: none is ever needed.
NoPadding == 0

\* Whatever the source aligns more loosely has to be paid for up front.
Padding == IF MaxAlignment > BaseAlignment THEN MaxAlignment - BaseAlignment ELSE 0

RegionSize(size) == (size + Padding) % SizeRange

\* No heap is empty, or as big as all memory.
ASSUME HeapSizesAssumption ==
    \A size \in HeapSizes : size \in Nat \ {0} /\ size + Padding < SizeRange

Region(start, size, device, mapped) ==
    [start |-> start, size |-> size, device |-> device, mapped |-> mapped]

Disjoint(a, b) == a.start + a.size <= b.start \/ b.start + b.size <= a.start

\* cudaMalloc and cudaHostAlloc: anywhere but at null, and not in use.
FreshRegions(size, device, mapped) ==
    {region \in {Region(start, size, device, mapped) : start \in 1..SizeRange - size} :
        /\ region.start % BaseAlignment = 0
        /\ \A other \in regions : Disjoint(region, other)}

Heap(source, region, size) ==
    [m_source |-> source, m_allocation |-> region.start,
     m_data |-> AlignCeil(region.start), m_size |-> size]

MemoryInit == regions = {} /\ heaps = {}

\* The region comes from the device that is current, whatever the source meant.
TakeHeap(source, size, device, mapped) ==
    \E region \in FreshRegions(RegionSize(size), device, mapped) :
        /\ regions' = regions \cup {region}
        /\ heaps' = heaps \cup {Heap(source, region, size)}

\* cudaFree and cudaFreeHost
Deallocate(data) == regions' = {region \in regions : region.start # data}

\* A slip: what is given back is where the heap starts.
GiveBackData(heap) ==
    /\ heaps' = heaps \ {heap}
    /\ Deallocate(heap.m_data)

GiveBack(heap) ==
    /\ heaps' = heaps \ {heap}
    /\ Deallocate(heap.m_allocation)

----------------------------------------------------------------------------
(* Properties.                                                             *)

FitsIn(heap, region) ==
    /\ region.start <= heap.m_data
    /\ heap.m_data + heap.m_size <= region.start + region.size

\* A heap starts where its alignment allows and ends before its region does,
\* however much the source's alignment had to be corrected, and no two heaps
\* share memory (memory_heap::memory_heap).
HeapsFitTheirRegions ==
    /\ \A heap \in heaps :
          /\ heap.m_data % MaxAlignment = 0
          /\ \E region \in regions : region.start = heap.m_allocation /\ FitsIn(heap, region)
    /\ \A a, b \in heaps :
          a = b \/ a.m_data + a.m_size <= b.m_data \/ b.m_data + b.m_size <= a.m_data

\* What the driver gave away is of exactly one heap, so that it is given back
\* once, and as soon as the heap goes (memory_heap::~memory_heap).
RegionsHaveOneHeap ==
    \A region \in regions : \E heap \in heaps :
        /\ heap.m_allocation = region.start
        /\ \A other \in heaps : other.m_allocation = region.start => other = heap
====
