---- MODULE HeapSizingProofs ----
(***************************************************************************)
(* What the sizes of HeapSizing are, for every alignment, every threshold  *)
(* and every width of std::size_t.  The lemmas on multiples are what the   *)
(* masks of align_ceil rely on.                                            *)
(***************************************************************************)
EXTENDS HeapSizing, TLAPS

----------------------------------------------------------------------------
(* Multiples.                                                              *)

LEMMA Division ==
    ASSUME NEW a \in Int, NEW m \in Nat \ {0}
    PROVE  /\ a \div m \in Int /\ a % m \in Int
           /\ a = m * (a \div m) + (a % m)
           /\ 0 <= a % m /\ a % m < m
  OBVIOUS

LEMMA Multiple ==
    ASSUME NEW q \in Int, NEW m \in Nat \ {0}
    PROVE  (m * q) % m = 0
  OBVIOUS

LEMMA SmallRemainder ==
    ASSUME NEW a \in Nat, NEW m \in Nat \ {0}, a < m
    PROVE  a % m = a
  OBVIOUS

IsMultiple(a, m) == a % m = 0

\* Two multiples are at least one step apart.
LEMMA NextMultiple ==
    ASSUME NEW a \in Int, NEW b \in Int, NEW m \in Nat \ {0},
           IsMultiple(a, m), IsMultiple(b, m), a < b
    PROVE  a + m <= b
<1> DEFINE i == a \div m
           j == b \div m
<1>1. i \in Int /\ j \in Int /\ a = m * i /\ b = m * j
  BY Division DEF IsMultiple
<1> HIDE DEF i, j
<1>2. i < j
  BY <1>1
<1>3. m * (i + 1) <= m * j
  BY <1>1, <1>2
<1> QED
  BY <1>1, <1>3

LEMMA SumOfMultiples ==
    ASSUME NEW a \in Int, NEW b \in Int, NEW m \in Nat \ {0}, IsMultiple(a, m), IsMultiple(b, m)
    PROVE  IsMultiple(a + b, m) /\ IsMultiple(a - b, m)
<1> DEFINE i == a \div m
           j == b \div m
<1>1. i \in Int /\ j \in Int /\ a = m * i /\ b = m * j
  BY Division DEF IsMultiple
<1> HIDE DEF i, j
<1>2. a + b = m * (i + j) /\ a - b = m * (i - j)
  BY <1>1
<1>3. (m * (i + j)) % m = 0 /\ (m * (i - j)) % m = 0
  BY <1>1, Multiple
<1> QED
  BY <1>2, <1>3 DEF IsMultiple

LEMMA MultipleOfMultiple ==
    ASSUME NEW a \in Int, NEW m \in Nat \ {0}, NEW n \in Nat \ {0}, IsMultiple(a, m), IsMultiple(m, n)
    PROVE  IsMultiple(a, n)
<1> DEFINE i == a \div m
           k == m \div n
<1>1. i \in Int /\ k \in Int /\ a = m * i /\ m = n * k
  BY Division DEF IsMultiple
<1> HIDE DEF i, k
<1>2. a = n * (k * i) /\ k * i \in Int
  BY <1>1
<1> QED
  BY <1>2, Multiple DEF IsMultiple

----------------------------------------------------------------------------
(* Rounding up.                                                            *)

\* As long as the rounding does not wrap, it gives the next multiple.
LEMMA AlignCeilIsNext ==
    ASSUME NEW size \in Nat, size + MaxAlignment - 1 < SizeRange
    PROVE  /\ AlignCeil(size) \in Nat
           /\ AlignCeil(size) % MaxAlignment = 0
           /\ size <= AlignCeil(size) /\ AlignCeil(size) < size + MaxAlignment
<1> DEFINE up == size + MaxAlignment - 1
           q == up \div MaxAlignment
<1>1. up \in Nat /\ up % SizeRange = up
  BY SmallRemainder, AlignmentAssumption
<1>2. AlignCeil(size) = up - (up % MaxAlignment)
  BY <1>1 DEF AlignCeil
<1>3. /\ q \in Int /\ up % MaxAlignment \in 0..MaxAlignment - 1
      /\ up = MaxAlignment * q + (up % MaxAlignment)
  BY <1>1, Division, AlignmentAssumption
<1>4. AlignCeil(size) = MaxAlignment * q
  BY <1>1, <1>2, <1>3, AlignmentAssumption
<1> HIDE DEF up, q
<1>5. AlignCeil(size) \in Int /\ size <= AlignCeil(size) /\ AlignCeil(size) < size + MaxAlignment
  BY <1>1, <1>2, <1>3, AlignmentAssumption DEF up
<1>6. AlignCeil(size) % MaxAlignment = 0
  BY <1>3, <1>4, Multiple, AlignmentAssumption
<1> QED
  BY <1>5, <1>6

\* What allocate asks the pool for holds what it was asked for, and leaves a
\* remainder that is aligned, unless the request is within an alignment of the
\* largest std::size_t (memory_block_allocator::allocate).
THEOREM RequestIsHeld ==
    ASSUME NEW asked \in Nat, asked <= SizeRange - MaxAlignment
    PROVE  /\ RequestSize(asked) \in Nat \ {0}
           /\ asked <= RequestSize(asked)
           /\ RequestSize(asked) % MaxAlignment = 0
<1> DEFINE least == Larger(asked, 1)
<1>1. /\ least \in Nat /\ 1 <= least /\ asked <= least
      /\ least + MaxAlignment - 1 < SizeRange
  BY AlignmentAssumption, SizesAssumption DEF Larger
<1> HIDE DEF least
<1>2. RequestSize(asked) = AlignCeil(least)
  BY DEF RequestSize, least
<1> QED
  BY <1>1, <1>2, AlignCeilIsNext

\* It is not held within an alignment of the largest std::size_t: what is left
\* of the sum is less than one alignment, and rounded down to nothing.
THEOREM LargestRequestIsLost ==
    ASSUME NEW asked \in 1..SizeRange - 1, SizeRange - MaxAlignment < asked
    PROVE  RequestSize(asked) = 0
<1> DEFINE sum == asked + MaxAlignment - 1
           left == sum - SizeRange
<1>1. Larger(asked, 1) = asked
  BY AlignmentAssumption DEF Larger
<1>2. left \in Nat /\ left < MaxAlignment /\ left < SizeRange /\ sum = SizeRange + left
  BY AlignmentAssumption, SizesAssumption
<1>3. sum % SizeRange = left
  BY <1>2, AlignmentAssumption
<1>4. left % MaxAlignment = left
  BY <1>2, SmallRemainder, AlignmentAssumption
<1> QED
  BY <1>1, <1>2, <1>3, <1>4, AlignmentAssumption DEF RequestSize, AlignCeil

----------------------------------------------------------------------------
(* Heaps.                                                                  *)

\* However big the pool is, a heap is never asked for that could not hold the
\* request, and its size leaves aligned remainders (memory_block_allocator::get_heap_size).
THEOREM HeapHoldsRequest ==
    ASSUME NEW size \in Nat \ {0}, NEW pool_size \in Int, size % MaxAlignment = 0
    PROVE  /\ GetHeapSize(size, pool_size) \in Nat
           /\ size <= GetHeapSize(size, pool_size)
           /\ GetHeapSize(size, pool_size) % MaxAlignment = 0
<1> DEFINE grown == Smaller(Larger(Larger(pool_size, size), MinHeap), MaxHeap)
<1>1. grown \in Nat /\ grown <= SizeRange - MaxAlignment
  BY AlignmentAssumption, SizesAssumption DEF Smaller, Larger
<1> HIDE DEF grown
<1>2. AlignCeil(grown) \in Nat /\ AlignCeil(grown) % MaxAlignment = 0
  BY <1>1, AlignCeilIsNext, AlignmentAssumption
<1>3. GetHeapSize(size, pool_size) \in {size, Larger(AlignCeil(grown), size)}
  BY DEF GetHeapSize, grown
<1> QED
  BY <1>2, <1>3 DEF Larger, GetHeapSize, grown

\* The heap that is asked for is one that std::size_t can name.
LEMMA HeapSizeInRange ==
    ASSUME NEW size \in Nat \ {0}, NEW pool_size \in Int, size < SizeRange
    PROVE  GetHeapSize(size, pool_size) < SizeRange
<1> DEFINE grown == Smaller(Larger(Larger(pool_size, size), MinHeap), MaxHeap)
<1>1. grown \in Nat /\ grown <= SizeRange - MaxAlignment
  BY AlignmentAssumption, SizesAssumption DEF Smaller, Larger
<1> HIDE DEF grown
<1>2. AlignCeil(grown) \in Nat /\ AlignCeil(grown) < SizeRange
  BY <1>1, AlignCeilIsNext, AlignmentAssumption
<1>3. GetHeapSize(size, pool_size) \in {size, Larger(AlignCeil(grown), size)}
  BY DEF GetHeapSize, grown
<1> QED BY <1>2, <1>3 DEF Larger

LEMMA RequestSizeInRange ==
    ASSUME NEW asked \in Nat, asked <= SizeRange - MaxAlignment
    PROVE  RequestSize(asked) < SizeRange
<1> DEFINE least == Larger(asked, 1)
<1>1. /\ least \in Nat /\ least + MaxAlignment - 1 < SizeRange
      /\ MaxAlignment \in Nat \ {0} /\ SizeRange \in Nat
  BY AlignmentAssumption, SizesAssumption DEF Larger
<1> HIDE DEF least
<1>2. AlignCeil(least) \in Nat /\ AlignCeil(least) < least + MaxAlignment
  BY <1>1, AlignCeilIsNext
<1>3. RequestSize(asked) = AlignCeil(least)
  BY DEF RequestSize, least
<1> QED BY <1>1, <1>2, <1>3

\* After a refusal the next heap still holds the request and is smaller, so
\* that the driver is asked until it is asked for the request itself
\* (memory_block_allocator::grow).
THEOREM HalvingEnds ==
    ASSUME NEW heap_size \in Nat, NEW size \in Nat \ {0},
           size % MaxAlignment = 0, heap_size % MaxAlignment = 0,
           size < heap_size, heap_size < SizeRange
    PROVE  /\ HalvedHeapSize(heap_size, size) \in Nat
           /\ size <= HalvedHeapSize(heap_size, size)
           /\ HalvedHeapSize(heap_size, size) < heap_size
           /\ HalvedHeapSize(heap_size, size) % MaxAlignment = 0
<1>0. /\ MaxAlignment \in Nat \ {0} /\ IsMultiple(0, MaxAlignment)
      /\ IsMultiple(size, MaxAlignment) /\ IsMultiple(heap_size, MaxAlignment)
  BY AlignmentAssumption, SmallRemainder DEF IsMultiple
<1>1. MaxAlignment <= size
  BY <1>0, NextMultiple
<1>2. size + MaxAlignment <= heap_size
  BY <1>0, NextMultiple
<1> DEFINE half == heap_size \div 2
<1>3. half \in Nat /\ half + half <= heap_size /\ heap_size <= half + half + 1
  OBVIOUS
<1> HIDE DEF half
<1>4. half + MaxAlignment <= heap_size
  BY <1>1, <1>2, <1>3, AlignmentAssumption
<1>5. AlignCeil(half) \in Nat /\ AlignCeil(half) % MaxAlignment = 0 /\ AlignCeil(half) < heap_size
  BY <1>3, <1>4, AlignCeilIsNext, AlignmentAssumption
<1>6. HalvedHeapSize(heap_size, size) = Larger(size, AlignCeil(half))
  BY DEF HalvedHeapSize, half
<1> QED
  BY <1>5, <1>6 DEF Larger
====
