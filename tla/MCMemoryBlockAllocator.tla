---- MODULE MCMemoryBlockAllocator ----
EXTENDS MemoryBlockAllocator

Symmetry == Permutations(Threads) \cup Permutations(Heaps) \cup Permutations(Timelines)
====
