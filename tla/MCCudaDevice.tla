---- MODULE MCCudaDevice ----
EXTENDS CudaDevice, TLC

Symmetry == Permutations(Threads) \cup Permutations(Handles)
====
