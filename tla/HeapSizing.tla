---- MODULE HeapSizing ----
(***************************************************************************)
(* The sizes the caching allocators work out, in bytes: what a request is  *)
(* rounded up to, how big a heap is asked for, what it is asked for once   *)
(* the driver refused.  std::size_t wraps.                                 *)
(***************************************************************************)
EXTENDS Integers

CONSTANTS
    SizeRange,          \* how many values std::size_t has
    MaxAlignment,       \* REXLIB_CUDA_CACHING_ALLOCATOR_MAX_ALIGNMENT_BYTES
    LargeAllocation,    \* ..._LARGE_ALLOCATION_BYTES
    MinHeap, MaxHeap    \* ..._MIN_HEAP_BYTES and ..._MAX_HEAP_BYTES

\* Both are powers of two, so one divides the other.
ASSUME AlignmentAssumption ==
    /\ MaxAlignment \in Nat \ {0}
    /\ SizeRange \in Nat \ {0}
    /\ SizeRange % MaxAlignment = 0
ASSUME SizesAssumption ==
    {LargeAllocation, MinHeap, MaxHeap} \subseteq 1..SizeRange - MaxAlignment

\* std::max and std::min
Larger(a, b) == IF a < b THEN b ELSE a
Smaller(a, b) == IF b < a THEN b ELSE a

\* A slip: down instead of up.
AlignFloor(size) == size - (size % MaxAlignment)

AlignCeil(size) ==
    LET up == (size + MaxAlignment - 1) % SizeRange
    IN  up - (up % MaxAlignment)

\* An empty block would have no address of its own.
RequestSize(asked) == AlignCeil(Larger(asked, 1))

\* Doubles what the pool holds, within bounds that never refuse a request.
GetHeapSize(size, pool_size) ==
    IF size >= LargeAllocation
    THEN size
    ELSE LET grown == Smaller(Larger(Larger(pool_size, size), MinHeap), MaxHeap)
         IN  Larger(AlignCeil(grown), size)

\* Slips: a heap smaller than the request; a size that rounds back up to itself.
HalvedBelow(heap_size, size) == heap_size \div 2
HalvedNever(heap_size, size) == Larger(size, AlignCeil(heap_size \div 2 + 1))

\* What is asked for after a refusal.
HalvedHeapSize(heap_size, size) == Larger(size, AlignCeil(heap_size \div 2))
====
