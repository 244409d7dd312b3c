---- MODULE MCStreamTimeline ----
EXTENDS StreamTimeline, TLC

Symmetry == Permutations(Threads) \cup Permutations(Streams)
====
