---- MODULE MCMemoryBlockPool ----
(* An instance of the pool: one heap cut in three, so that a block has a  *)
(* free neighbour on each side and every mix of tokens, or two heaps that  *)
(* add up to as much, whose blocks are neighbours in the list without      *)
(* being so in memory.                                                     *)
EXTENDS MemoryBlockPool

\* Nothing tells one queue, or one heap address, from another.
Symmetry == Permutations(Heaps) \cup Permutations(Timelines)

\* The device has three units of memory: a state with more is checked, but
\* what follows it is not explored.
DriverHasRoom == MapThenSumSet(LAMBDA heap : m_heaps[heap], Heaps) <= 3
====
