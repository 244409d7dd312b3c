---- MODULE MCCudaCommandQueue ----
EXTENDS CudaCommandQueue, TLC

Symmetry == Permutations(Threads) \cup Permutations(Streams) \cup Permutations(Buffers)
====
