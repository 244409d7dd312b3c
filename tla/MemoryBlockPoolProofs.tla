---- MODULE MemoryBlockPoolProofs ----
(***************************************************************************)
(* The pool's type invariant, that its blocks tile its heaps, that the     *)
(* token of a free block covers every unfinished use of its memory, and    *)
(* that no heap is given back under a command: for every set of queues,    *)
(* heaps and sizes, and every caller that keeps to the preconditions.      *)
(***************************************************************************)
EXTENDS MemoryBlockPool, SequenceTheorems, WellFoundedInduction, TLAPS

PendingTokens == Tokens \cup {NoToken}

----------------------------------------------------------------------------
(* Lists: what is where after an insertion and after a removal.            *)

\* memory_block_list_type::insert moves the blocks after the position by one.
LEMMA InsertAtIndex ==
    ASSUME NEW S, NEW s \in Seq(S), NEW i \in 1..Len(s), NEW e \in S
    PROVE  /\ InsertAt(s, i, e) \in Seq(S)
           /\ Len(InsertAt(s, i, e)) = Len(s) + 1
           /\ \A j \in 1..Len(s) + 1 :
                 InsertAt(s, i, e)[j] =
                     IF j < i THEN s[j] ELSE IF j = i THEN e ELSE s[j - 1]
BY DEF InsertAt

\* memory_block_list_type::erase moves them back.
LEMMA RemoveAtIndex ==
    ASSUME NEW S, NEW s \in Seq(S), NEW i \in 1..Len(s)
    PROVE  /\ RemoveAt(s, i) \in Seq(S)
           /\ Len(RemoveAt(s, i)) = Len(s) - 1
           /\ \A j \in 1..Len(s) - 1 :
                 RemoveAt(s, i)[j] = IF j < i THEN s[j] ELSE s[j + 1]
<1> DEFINE a == SubSeq(s, 1, i - 1)
           b == SubSeq(s, i + 1, Len(s))
<1>0. Len(s) \in Nat /\ \A j \in 1..Len(s) : s[j] \in S
  OBVIOUS
<1>1. a \in Seq(S) /\ Len(a) = i - 1 /\ \A j \in 1..i - 1 : a[j] = s[j]
  BY <1>0
<1>2. b \in Seq(S) /\ Len(b) = Len(s) - i
  <2>1. \A j \in i + 1..Len(s) : s[j] \in S
    BY <1>0
  <2> QED BY <1>0, <2>1, SubSeqProperties
<1>3. \A j \in 1..Len(s) - i : b[j] = s[j + i]
  <2>1. \A j \in i + 1..Len(s) : s[j] \in S
    BY <1>0
  <2>2. \A j \in 1..Len(s) - (i + 1) + 1 : b[j] = s[i + 1 + j - 1]
    BY <1>0, <2>1, SubSeqProperties
  <2> QED BY <1>0, <2>2
<1> HIDE DEF a, b
<1>4. /\ a \o b \in Seq(S)
      /\ Len(a \o b) = Len(a) + Len(b)
      /\ \A j \in 1..Len(a) + Len(b) : (a \o b)[j] = IF j <= Len(a) THEN a[j] ELSE b[j - Len(a)]
  BY <1>1, <1>2, ConcatProperties
<1>5. RemoveAt(s, i) = a \o b
  BY DEF RemoveAt, a, b
<1>6. ASSUME NEW j \in 1..Len(s) - 1
      PROVE  (a \o b)[j] = IF j < i THEN s[j] ELSE s[j + 1]
  <2>1. CASE j < i
    BY <2>1, <1>0, <1>1, <1>2, <1>4
  <2>2. CASE ~(j < i)
    <3>1. j \in 1..Len(a) + Len(b) /\ ~(j <= Len(a)) /\ j - Len(a) \in 1..Len(s) - i
      BY <2>2, <1>0, <1>1, <1>2
    <3>2. (a \o b)[j] = b[j - Len(a)]
      BY <3>1, <1>4
    <3>3. b[j - Len(a)] = s[j - Len(a) + i]
      BY <3>1, <1>3
    <3>4. j - Len(a) + i = j + 1
      BY <1>0, <1>1
    <3> QED BY <2>2, <3>2, <3>3, <3>4
  <2> QED BY <2>1, <2>2
<1>7. Len(a \o b) = Len(s) - 1
  BY <1>0, <1>1, <1>2, <1>4
<1>8. \A j \in 1..Len(s) - 1 : RemoveAt(s, i)[j] = IF j < i THEN s[j] ELSE s[j + 1]
  BY <1>5, <1>6
<1> QED BY <1>4, <1>5, <1>7, <1>8

\* A list of blocks has blocks at its positions.
LEMMA BlocksAreBlocks ==
    ASSUME NEW s \in Seq(Blocks), NEW i \in 1..Len(s)
    PROVE  /\ s[i] \in Blocks
           /\ s[i].heap \in Heaps
           /\ s[i].offset \in Nat
           /\ s[i].size \in Nat
           /\ s[i].pending \in PendingTokens
           /\ s[i].free \in BOOLEAN
<1>1. s[i] \in Blocks
  OBVIOUS
<1> QED BY <1>1 DEF Blocks, PendingTokens

\* Joining two blocks leaves the others as they are.
LEMMA JoinIndex ==
    ASSUME NEW s \in Seq(Blocks), NEW i \in 1..Len(s) - 1, NEW pending \in PendingTokens
    PROVE  /\ Join(s, i, pending) \in Seq(Blocks)
           /\ Len(Join(s, i, pending)) = Len(s) - 1
           /\ \A j \in 1..Len(s) - 1 :
                 Join(s, i, pending)[j] =
                     IF j < i THEN s[j]
                     ELSE IF j = i
                     THEN [s[i] EXCEPT !.size = s[i].size + s[i + 1].size, !.pending = pending]
                     ELSE s[j + 1]
<1> DEFINE joined == [s[i] EXCEPT !.size = s[i].size + s[i + 1].size, !.pending = pending]
           w == [s EXCEPT ![i] = joined]
<1>1. i \in 1..Len(s) /\ i + 1 \in 1..Len(s) /\ Len(s) \in Nat
  OBVIOUS
<1>2. joined \in Blocks
  <2>1. s[i] \in Blocks /\ s[i].size \in Nat /\ s[i + 1].size \in Nat
    BY <1>1, BlocksAreBlocks
  <2>2. s[i].size + s[i + 1].size \in Nat
    BY <2>1
  <2> QED BY <2>1, <2>2 DEF Blocks, PendingTokens
<1>3. /\ w \in Seq(Blocks)
      /\ Len(w) = Len(s)
      /\ \A j \in 1..Len(s) : w[j] = IF j = i THEN joined ELSE s[j]
  BY <1>1, <1>2
<1>4. Join(s, i, pending) = RemoveAt(w, i + 1)
  BY DEF Join
<1> HIDE DEF w, joined
<1>5. /\ RemoveAt(w, i + 1) \in Seq(Blocks)
      /\ Len(RemoveAt(w, i + 1)) = Len(s) - 1
      /\ \A j \in 1..Len(s) - 1 :
            RemoveAt(w, i + 1)[j] = IF j < i + 1 THEN w[j] ELSE w[j + 1]
  <2>1. i + 1 \in 1..Len(w)
    BY <1>1, <1>3
  <2> QED BY <1>3, <2>1, RemoveAtIndex
<1>6. ASSUME NEW j \in 1..Len(s) - 1
      PROVE  RemoveAt(w, i + 1)[j] = IF j < i THEN s[j] ELSE IF j = i THEN joined ELSE s[j + 1]
  <2>1. j \in 1..Len(s) /\ j + 1 \in 1..Len(s) /\ (j < i + 1 <=> j < i \/ j = i)
    BY <1>1
  <2>2. w[j + 1] = IF j + 1 = i THEN joined ELSE s[j + 1]
    BY <2>1, <1>3
  <2>3. w[j] = IF j = i THEN joined ELSE s[j]
    BY <2>1, <1>3
  <2> QED BY <1>1, <2>1, <2>2, <2>3, <1>5
<1> QED BY <1>4, <1>5, <1>6 DEF joined

\* The same, for a list and a position that are only known to be ones.
LEMMA JoinIndexAll ==
    \A s \in Seq(Blocks) : \A i \in 1..Len(s) - 1, pending \in PendingTokens :
        /\ Join(s, i, pending) \in Seq(Blocks)
        /\ Len(Join(s, i, pending)) = Len(s) - 1
        /\ \A j \in 1..Len(s) - 1 :
              Join(s, i, pending)[j] =
                  IF j < i THEN s[j]
                  ELSE IF j = i
                  THEN [s[i] EXCEPT !.size = s[i].size + s[i + 1].size, !.pending = pending]
                  ELSE s[j + 1]
BY JoinIndex

\* Joining makes the list one shorter.
LEMMA JoinLength ==
    \A s \in Seq(Blocks) : \A i \in 1..Len(s) - 1, pending \in PendingTokens :
        Join(s, i, pending) \in Seq(Blocks) /\ Len(Join(s, i, pending)) = Len(s) - 1
BY JoinIndexAll

\* The joined block is free if the first of the two was.
LEMMA JoinFree ==
    ASSUME NEW s \in Seq(Blocks), NEW i \in 1..Len(s) - 1, NEW pending \in PendingTokens
    PROVE  Join(s, i, pending)[i].free = s[i].free
<1> DEFINE joined == [s[i] EXCEPT !.size = s[i].size + s[i + 1].size, !.pending = pending]
<1>1. i \in 1..Len(s) - 1 /\ ~(i < i)
  OBVIOUS
<1>2. Join(s, i, pending)[i] = joined
  <2>1. /\ Join(s, i, pending) \in Seq(Blocks)
        /\ Len(Join(s, i, pending)) = Len(s) - 1
        /\ \A j \in 1..Len(s) - 1 :
              Join(s, i, pending)[j] = IF j < i THEN s[j] ELSE IF j = i THEN joined ELSE s[j + 1]
    BY JoinIndex
  <2> HIDE DEF joined
  <2> QED BY <1>1, <2>1
<1>3. joined.free = s[i].free
  <2>1. s[i] \in Blocks
    BY <1>1
  <2> QED BY <2>1 DEF Blocks
<1> QED BY <1>2, <1>3

\* The same, quantified.
LEMMA JoinFreeAll ==
    \A s \in Seq(Blocks) : \A i \in 1..Len(s) - 1, pending \in PendingTokens :
        Join(s, i, pending)[i].free = s[i].free
BY JoinFree

\* The blocks that are not joined.
LEMMA JoinOthers ==
    \A s \in Seq(Blocks) : \A i \in 1..Len(s) - 1, pending \in PendingTokens :
        \A j \in 1..Len(s) - 1 : /\ j < i => Join(s, i, pending)[j] = s[j]
                                 /\ j > i => Join(s, i, pending)[j] = s[j + 1]
<1> SUFFICES ASSUME NEW s \in Seq(Blocks), NEW i \in 1..Len(s) - 1,
                    NEW pending \in PendingTokens
             PROVE  \A j \in 1..Len(s) - 1 : /\ j < i => Join(s, i, pending)[j] = s[j]
                                             /\ j > i => Join(s, i, pending)[j] = s[j + 1]
  OBVIOUS
<1>1. \A k \in 1..Len(s) - 1 :
          Join(s, i, pending)[k] =
              IF k < i THEN s[k]
              ELSE IF k = i
              THEN [s[i] EXCEPT !.size = s[i].size + s[i + 1].size, !.pending = pending]
              ELSE s[k + 1]
  BY JoinIndex
<1> QED BY <1>1

----------------------------------------------------------------------------
(* Tiling: each way a list of blocks changes keeps the heaps tiled.        *)

\* Where the blocks of a list that was joined at i start and end.
LEMMA JoinBounds ==
    ASSUME NEW s \in Seq(Blocks), NEW i \in 1..Len(s) - 1, NEW pending \in PendingTokens,
           s[i].heap = s[i + 1].heap,
           s[i + 1].offset = End(s[i]),
           NEW t, t = Join(s, i, pending)
    PROVE  \A j \in 1..Len(s) - 1 :
              LET lo == IF j <= i THEN j ELSE j + 1
                  hi == IF j < i THEN j ELSE j + 1
              IN  /\ t[j].heap = s[lo].heap /\ t[j].heap = s[hi].heap
                  /\ t[j].offset = s[lo].offset
                  /\ End(t[j]) = End(s[hi])
                  /\ t[j].size >= s[lo].size
<1> SUFFICES ASSUME NEW j \in 1..Len(s) - 1
             PROVE  LET lo == IF j <= i THEN j ELSE j + 1
                        hi == IF j < i THEN j ELSE j + 1
                    IN  /\ t[j].heap = s[lo].heap /\ t[j].heap = s[hi].heap
                        /\ t[j].offset = s[lo].offset
                        /\ End(t[j]) = End(s[hi])
                        /\ t[j].size >= s[lo].size
  OBVIOUS
<1>0. t[j] = IF j < i THEN s[j]
             ELSE IF j = i
             THEN [s[i] EXCEPT !.size = s[i].size + s[i + 1].size, !.pending = pending]
             ELSE s[j + 1]
  <2>1. \A k \in 1..Len(s) - 1 :
           Join(s, i, pending)[k] =
               IF k < i THEN s[k]
               ELSE IF k = i
               THEN [s[i] EXCEPT !.size = s[i].size + s[i + 1].size, !.pending = pending]
               ELSE s[k + 1]
    BY JoinIndex
  <2> QED BY <2>1
<1>1. /\ j \in 1..Len(s) /\ j + 1 \in 1..Len(s)
      /\ i \in 1..Len(s) /\ i + 1 \in 1..Len(s)
  OBVIOUS
<1>2. /\ s[j].size \in Nat /\ s[j + 1].size \in Nat
      /\ s[j].offset \in Nat /\ s[j + 1].offset \in Nat
      /\ s[i] \in Blocks
  BY <1>1, BlocksAreBlocks
<1>3. CASE j < i
  <2>1. t[j] = s[j]
    BY <1>3, <1>0
  <2> QED BY <1>2, <1>3, <2>1
<1>4. CASE j = i
  <2>1. t[j] = [s[i] EXCEPT !.size = s[i].size + s[i + 1].size, !.pending = pending]
    BY <1>4, <1>0
  <2>2. /\ t[j].heap = s[i].heap
        /\ t[j].offset = s[i].offset
        /\ t[j].size = s[i].size + s[i + 1].size
    BY <1>2, <2>1 DEF Blocks
  <2> QED BY <1>2, <1>4, <2>2 DEF End
<1>5. CASE j > i
  <2>1. t[j] = s[j + 1]
    BY <1>5, <1>0
  <2> QED BY <1>2, <1>5, <2>1
<1> QED BY <1>3, <1>4, <1>5

\* Two neighbours of one heap that become one leave the heaps tiled.
LEMMA JoinKeepsTiles ==
    ASSUME NEW s \in Seq(Blocks), NEW heaps \in [Heaps -> Nat], Tiles(s, heaps),
           NEW i \in 1..Len(s) - 1, s[i].heap = s[i + 1].heap,
           NEW pending \in PendingTokens
    PROVE  Tiles(Join(s, i, pending), heaps)
<1> DEFINE t == Join(s, i, pending)
           lo(j) == IF j <= i THEN j ELSE j + 1
           hi(j) == IF j < i THEN j ELSE j + 1
<1>0. t \in Seq(Blocks) /\ Len(t) = Len(s) - 1
  BY JoinIndex
<1>1. /\ i \in 1..Len(s) /\ i + 1 \in 1..Len(s)
      /\ Len(t) = Len(s) - 1
      /\ Len(s) \in Nat
  BY <1>0
<1>2. s[i + 1].offset = End(s[i])
  BY DEF Tiles, NeighboursMeet
<1>3. \A j \in 1..Len(s) - 1 :
          /\ t[j].heap = s[lo(j)].heap /\ t[j].heap = s[hi(j)].heap
          /\ t[j].offset = s[lo(j)].offset
          /\ End(t[j]) = End(s[hi(j)])
          /\ t[j].size >= s[lo(j)].size
  BY <1>2, JoinBounds
<1> HIDE DEF t
<1>4. \A j \in 1..Len(s) - 1 : lo(j) \in 1..Len(s) /\ hi(j) \in 1..Len(s)
  BY <1>1
<1>5. InHeaps(t, heaps)
  <2> SUFFICES ASSUME NEW j \in 1..Len(s) - 1
               PROVE  t[j].size > 0 /\ End(t[j]) <= heaps[t[j].heap]
    BY <1>1 DEF InHeaps
  <2>1. s[lo(j)].size > 0 /\ End(s[hi(j)]) <= heaps[s[hi(j)].heap]
    BY <1>4 DEF Tiles, InHeaps
  <2>2. s[lo(j)].size \in Nat
    BY <1>4, BlocksAreBlocks
  <2>3. t[j].size >= s[lo(j)].size /\ t[j].size \in Nat
    BY <1>0, <1>1, <1>3, BlocksAreBlocks
  <2>4. t[j].size > 0
    BY <2>1, <2>2, <2>3
  <2>5. End(t[j]) = End(s[hi(j)]) /\ t[j].heap = s[hi(j)].heap
    BY <1>3
  <2> QED BY <2>1, <2>4, <2>5
<1>6. InAddressOrder(t)
  <2> SUFFICES ASSUME NEW j \in 1..Len(s) - 1, NEW k \in 1..Len(s) - 1,
                      j < k, t[j].heap = t[k].heap
               PROVE  End(t[j]) <= t[k].offset
    BY <1>1 DEF InAddressOrder
  <2>1. hi(j) < lo(k)
    OBVIOUS
  <2>2. s[hi(j)].heap = s[lo(k)].heap
    BY <1>3
  <2>3. End(s[hi(j)]) <= s[lo(k)].offset
    BY <1>4, <2>1, <2>2 DEF Tiles, InAddressOrder
  <2> QED BY <1>3, <2>3
<1>7. NeighboursMeet(t, heaps)
  <2> SUFFICES ASSUME NEW j \in 1..Len(s) - 2
               PROVE  IF t[j].heap = t[j + 1].heap
                      THEN t[j + 1].offset = End(t[j])
                      ELSE EndsHeap(t[j], heaps) /\ StartsHeap(t[j + 1])
    BY <1>1 DEF NeighboursMeet
  <2>1. /\ j \in 1..Len(s) - 1 /\ j + 1 \in 1..Len(s) - 1
        /\ lo(j + 1) = hi(j) + 1
        /\ hi(j) \in 1..Len(s) - 1
    BY <1>1
  <2>2. IF s[hi(j)].heap = s[hi(j) + 1].heap
        THEN s[hi(j) + 1].offset = End(s[hi(j)])
        ELSE EndsHeap(s[hi(j)], heaps) /\ StartsHeap(s[hi(j) + 1])
    BY <2>1 DEF Tiles, NeighboursMeet
  <2>3. /\ t[j].heap = s[hi(j)].heap /\ End(t[j]) = End(s[hi(j)])
        /\ t[j + 1].heap = s[hi(j) + 1].heap /\ t[j + 1].offset = s[hi(j) + 1].offset
    BY <1>3, <2>1
  <2> QED BY <2>2, <2>3 DEF EndsHeap, StartsHeap
<1>8. EndsMeet(t, heaps)
  <2>1. /\ 1 \in 1..Len(s) - 1 /\ Len(s) - 1 \in 1..Len(s) - 1
        /\ lo(1) = 1 /\ hi(Len(s) - 1) = Len(s)
    BY <1>1
  <2>2. StartsHeap(s[1]) /\ EndsHeap(s[Len(s)], heaps)
    BY <1>1 DEF Tiles, EndsMeet
  <2>3. /\ t[1].offset = s[1].offset
        /\ t[Len(s) - 1].heap = s[Len(s)].heap
        /\ End(t[Len(s) - 1]) = End(s[Len(s)])
    BY <1>3, <2>1
  <2> QED BY <1>1, <2>2, <2>3 DEF EndsMeet, EndsHeap, StartsHeap
<1>9. HeapsHaveBlocks(t, heaps)
  <2> SUFFICES ASSUME NEW heap \in Heaps, heaps[heap] > 0
               PROVE  \E j \in 1..Len(t) : t[j].heap = heap
    BY DEF HeapsHaveBlocks
  <2>1. PICK k \in 1..Len(s) : s[k].heap = heap
    BY DEF Tiles, HeapsHaveBlocks
  <2>2. CASE k <= i
    <3>1. k \in 1..Len(s) - 1 /\ lo(k) = k
      BY <1>1, <2>2
    <3> QED BY <1>1, <1>3, <2>1, <3>1
  <2>3. CASE k > i
    <3>1. k - 1 \in 1..Len(s) - 1 /\ hi(k - 1) = k
      BY <1>1, <2>3
    <3> QED BY <1>1, <1>3, <2>1, <3>1
  <2> QED BY <1>1, <2>2, <2>3
<1> QED BY <1>5, <1>6, <1>7, <1>8, <1>9 DEF Tiles, t

\* Tokens and who holds a block say nothing about where it is.
LEMMA SameSpansTile ==
    ASSUME NEW s \in Seq(Blocks), NEW t \in Seq(Blocks), NEW heaps \in [Heaps -> Nat],
           Tiles(s, heaps), Len(t) = Len(s),
           \A j \in 1..Len(s) : SpanOf(t[j]) = SpanOf(s[j])
    PROVE  Tiles(t, heaps)
<1>1. \A j \in 1..Len(s) : /\ t[j].heap = s[j].heap
                           /\ t[j].offset = s[j].offset
                           /\ t[j].size = s[j].size
                           /\ End(t[j]) = End(s[j])
  BY DEF SpanOf, End
<1>2. InHeaps(t, heaps)
  BY <1>1 DEF Tiles, InHeaps
<1>3. InAddressOrder(t)
  BY <1>1 DEF Tiles, InAddressOrder
<1>4. NeighboursMeet(t, heaps)
  <2> SUFFICES ASSUME NEW j \in 1..Len(s) - 1
               PROVE  IF t[j].heap = t[j + 1].heap
                      THEN t[j + 1].offset = End(t[j])
                      ELSE EndsHeap(t[j], heaps) /\ StartsHeap(t[j + 1])
    BY DEF NeighboursMeet
  <2>1. j \in 1..Len(s) /\ j + 1 \in 1..Len(s)
    OBVIOUS
  <2>2. IF s[j].heap = s[j + 1].heap
        THEN s[j + 1].offset = End(s[j])
        ELSE EndsHeap(s[j], heaps) /\ StartsHeap(s[j + 1])
    BY DEF Tiles, NeighboursMeet
  <2> QED BY <1>1, <2>1, <2>2 DEF EndsHeap, StartsHeap
<1>5. EndsMeet(t, heaps)
  <2> SUFFICES ASSUME Len(s) > 0
               PROVE  StartsHeap(t[1]) /\ EndsHeap(t[Len(s)], heaps)
    BY DEF EndsMeet
  <2>1. 1 \in 1..Len(s) /\ Len(s) \in 1..Len(s)
    OBVIOUS
  <2>2. StartsHeap(s[1]) /\ EndsHeap(s[Len(s)], heaps)
    BY DEF Tiles, EndsMeet
  <2> QED BY <1>1, <2>1, <2>2 DEF EndsHeap, StartsHeap
<1>6. HeapsHaveBlocks(t, heaps)
  BY <1>1 DEF Tiles, HeapsHaveBlocks
<1> QED BY <1>2, <1>3, <1>4, <1>5, <1>6 DEF Tiles

----------------------------------------------------------------------------
(* Coverage: what merging keeps of it.                                     *)

\* What TLC calls well-formed of the device, with no use of nothing.
UsesOK ==
    \A use \in running : /\ use.timeline \in Timelines
                         /\ use.id \in Nat
                         /\ use.offset \in Nat
                         /\ use.size \in Nat \ {0}

\* What uses part of two adjoining blocks uses part of one of them.
LEMMA OverlapsOneHalf ==
    ASSUME UsesOK, NEW use \in running, NEW a \in Spans, NEW b \in Spans, NEW c \in Spans,
           a.heap = b.heap, b.offset = a.offset + a.size,
           c.heap = a.heap, c.offset = a.offset, c.size = a.size + b.size,
           Overlaps(use, c)
    PROVE  Overlaps(use, a) \/ Overlaps(use, b)
BY DEF UsesOK, Spans, Overlaps

\* The later of two tokens of a timeline waits for what either waits for.
LEMMA LaterPendingCovers ==
    ASSUME UsesOK, NEW use \in running, NEW block \in Blocks, NEW other \in Blocks,
           block.pending.timeline = other.pending.timeline,
           Covers(block.pending, use) \/ Covers(other.pending, use)
    PROVE  /\ Covers(KeepLaterPending(block, other), use)
           /\ KeepLaterPending(block, other) \in PendingTokens
<1>1. /\ block.pending \in PendingTokens /\ other.pending \in PendingTokens
      /\ block.pending.id \in Nat /\ other.pending.id \in Nat
  BY DEF Blocks, PendingTokens, Tokens, NoToken
<1>2. use.timeline # NoTimeline /\ use.id \in Nat
  BY NoTimelineAssumption DEF UsesOK
<1> QED BY <1>1, <1>2 DEF Covers, KeepLaterPending, IsEmpty

\* keep_later_pending gives one of the two tokens.
LEMMA LaterPendingType ==
    ASSUME NEW block \in Blocks, NEW other \in Blocks
    PROVE  KeepLaterPending(block, other) \in PendingTokens
BY DEF KeepLaterPending, Blocks, PendingTokens

\* A block that is put together of two is covered by a token that covers both.
LEMMA JoinKeepsCovered ==
    ASSUME UsesOK, NEW s \in Seq(Blocks), Covered(s),
           NEW i \in 1..Len(s) - 1, NEW pending \in PendingTokens,
           s[i].heap = s[i + 1].heap, s[i + 1].offset = End(s[i]),
           \A use \in running :
               Overlaps(use, SpanOf(s[i])) \/ Overlaps(use, SpanOf(s[i + 1]))
               => Covers(pending, use)
    PROVE  Covered(Join(s, i, pending))
<1> DEFINE t == Join(s, i, pending)
           joined == [s[i] EXCEPT !.size = s[i].size + s[i + 1].size, !.pending = pending]
<1>1. /\ Len(t) = Len(s) - 1
      /\ \A j \in 1..Len(s) - 1 :
            t[j] = IF j < i THEN s[j] ELSE IF j = i THEN joined ELSE s[j + 1]
  BY JoinIndex
<1>2. i \in 1..Len(s) /\ i + 1 \in 1..Len(s)
  OBVIOUS
<1>3. s[i] \in Blocks /\ s[i + 1] \in Blocks
  BY <1>2
<1> HIDE DEF t
<1> SUFFICES ASSUME NEW j \in 1..Len(s) - 1, t[j].free
             PROVE  AllUsesCovered({t[j].pending}, SpanOf(t[j]))
  BY <1>1 DEF Covered, t
<1>4. CASE j < i
  <2>1. t[j] = s[j] /\ j \in 1..Len(s)
    BY <1>1, <1>4
  <2> QED BY <2>1 DEF Covered
<1>5. CASE j > i
  <2>1. t[j] = s[j + 1] /\ j + 1 \in 1..Len(s)
    BY <1>1, <1>5
  <2> QED BY <2>1 DEF Covered
<1>6. CASE j = i
  <2>1. t[j] = joined
    BY <1>1, <1>6
  <2>2. /\ joined.pending = pending
        /\ joined.heap = s[i].heap
        /\ joined.offset = s[i].offset
        /\ joined.size = s[i].size + s[i + 1].size
    BY <1>3 DEF Blocks
  <2>3. /\ SpanOf(s[i]) \in Spans /\ SpanOf(s[i + 1]) \in Spans
        /\ SpanOf(joined) \in Spans
    <3>1. /\ s[i].heap \in Heaps /\ s[i].offset \in Nat /\ s[i].size \in Nat
          /\ s[i + 1].heap \in Heaps /\ s[i + 1].offset \in Nat /\ s[i + 1].size \in Nat
          /\ s[i].size + s[i + 1].size \in Nat
      BY <1>2, BlocksAreBlocks
    <3> HIDE DEF joined
    <3>2. SpanOf(s[i]) \in Spans
      BY <3>1 DEF SpanOf, Spans
    <3>3. SpanOf(s[i + 1]) \in Spans
      BY <3>1 DEF SpanOf, Spans
    <3>4. SpanOf(joined) \in Spans
      BY <2>2, <3>1 DEF SpanOf, Spans
    <3> QED BY <3>2, <3>3, <3>4
  <2> HIDE DEF joined
  <2>4. ASSUME NEW use \in running, Overlaps(use, SpanOf(joined))
        PROVE  Covers(pending, use)
    <3>1. Overlaps(use, SpanOf(s[i])) \/ Overlaps(use, SpanOf(s[i + 1]))
      <4> DEFINE a == SpanOf(s[i])
                 b == SpanOf(s[i + 1])
                 c == SpanOf(joined)
      <4>1. /\ a.heap = b.heap /\ b.offset = a.offset + a.size
            /\ c.heap = a.heap /\ c.offset = a.offset /\ c.size = a.size + b.size
        BY <2>2 DEF SpanOf, End
      <4>2. a \in Spans /\ b \in Spans /\ c \in Spans /\ Overlaps(use, c)
        BY <2>3, <2>4
      <4> HIDE DEF a, b, c
      <4>3. Overlaps(use, a) \/ Overlaps(use, b)
        BY <4>1, <4>2, OverlapsOneHalf
      <4> QED BY <4>3 DEF a, b
    <3> QED BY <3>1
  <2> QED BY <2>1, <2>2, <2>4 DEF AllUsesCovered
<1> QED BY <1>4, <1>5, <1>6

\* No token of a list is of a command that was not issued.
TokensIssued(s) ==
    \A i \in 1..Len(s) :
        ~IsEmpty(s[i].pending) => s[i].pending.id < issued[s[i].pending.timeline]

\* The token of each block of a list that was joined at i.
LEMMA JoinPending ==
    \A s \in Seq(Blocks) : \A i \in 1..Len(s) - 1, pending \in PendingTokens :
        \A j \in 1..Len(s) - 1 :
            Join(s, i, pending)[j].pending =
                IF j < i THEN s[j].pending ELSE IF j = i THEN pending ELSE s[j + 1].pending
<1> SUFFICES ASSUME NEW s \in Seq(Blocks), NEW i \in 1..Len(s) - 1,
                    NEW pending \in PendingTokens, NEW j \in 1..Len(s) - 1
             PROVE  Join(s, i, pending)[j].pending =
                        IF j < i THEN s[j].pending
                        ELSE IF j = i THEN pending ELSE s[j + 1].pending
  OBVIOUS
<1>1. Join(s, i, pending)[j] =
          IF j < i THEN s[j]
          ELSE IF j = i
          THEN [s[i] EXCEPT !.size = s[i].size + s[i + 1].size, !.pending = pending]
          ELSE s[j + 1]
  <2>1. \A k \in 1..Len(s) - 1 :
            Join(s, i, pending)[k] =
                IF k < i THEN s[k]
                ELSE IF k = i
                THEN [s[i] EXCEPT !.size = s[i].size + s[i + 1].size, !.pending = pending]
                ELSE s[k + 1]
    BY JoinIndex
  <2> QED BY <2>1
<1>2. s[i] \in Blocks
  OBVIOUS
<1>3. [s[i] EXCEPT !.size = s[i].size + s[i + 1].size, !.pending = pending].pending = pending
  BY <1>2 DEF Blocks
<1> QED BY <1>1, <1>3

\* Joining two blocks under a token that was issued brings no other in.
LEMMA JoinKeepsTokens ==
    ASSUME NEW s \in Seq(Blocks), TokensIssued(s),
           NEW i \in 1..Len(s) - 1, NEW pending \in PendingTokens,
           ~IsEmpty(pending) => pending.id < issued[pending.timeline]
    PROVE  TokensIssued(Join(s, i, pending))
<1> DEFINE t == Join(s, i, pending)
<1>1. Len(t) = Len(s) - 1
  BY JoinIndexAll
<1>2. \A j \in 1..Len(s) - 1 : t[j].pending =
          IF j < i THEN s[j].pending ELSE IF j = i THEN pending ELSE s[j + 1].pending
  BY JoinPending
<1> HIDE DEF t
<1> SUFFICES ASSUME NEW j \in 1..Len(s) - 1, ~IsEmpty(t[j].pending)
             PROVE  t[j].pending.id < issued[t[j].pending.timeline]
  BY <1>1 DEF TokensIssued, t
<1>3. t[j].pending =
          IF j < i THEN s[j].pending ELSE IF j = i THEN pending ELSE s[j + 1].pending
  BY <1>2
<1>4. j \in 1..Len(s) /\ j + 1 \in 1..Len(s)
  OBVIOUS
<1> QED BY <1>3, <1>4 DEF TokensIssued

\* What the pool keeps true of its list.
ListOK(s, heaps) ==
    /\ s \in Seq(Blocks)
    /\ Tiles(s, heaps)
    /\ Covered(s)
    /\ TokensIssued(s)

\* Joining two free neighbours under a token that covers both keeps the list.
LEMMA JoinKeepsList ==
    ASSUME UsesOK, NEW heaps \in [Heaps -> Nat], NEW s, ListOK(s, heaps),
           NEW i \in 1..Len(s) - 1, NEW pending \in PendingTokens,
           s[i].heap = s[i + 1].heap,
           ~IsEmpty(pending) => pending.id < issued[pending.timeline],
           \A use \in running :
               Overlaps(use, SpanOf(s[i])) \/ Overlaps(use, SpanOf(s[i + 1]))
               => Covers(pending, use)
    PROVE  ListOK(Join(s, i, pending), heaps)
<1>0. s \in Seq(Blocks)
  BY DEF ListOK
<1>1. s \in Seq(Blocks) /\ Tiles(s, heaps) /\ Covered(s) /\ TokensIssued(s)
  BY DEF ListOK
<1>2. s[i + 1].offset = End(s[i])
  BY <1>1 DEF Tiles, NeighboursMeet
<1>3. Tiles(Join(s, i, pending), heaps)
  BY <1>1, JoinKeepsTiles
<1>4. Covered(Join(s, i, pending))
  BY <1>1, <1>2, JoinKeepsCovered
<1>5. Join(s, i, pending) \in Seq(Blocks) /\ Len(Join(s, i, pending)) = Len(s) - 1
  BY <1>0, JoinLength, Zenon
<1>6. TokensIssued(Join(s, i, pending))
  BY <1>1, JoinKeepsTokens
<1> QED BY <1>3, <1>4, <1>5, <1>6 DEF ListOK

\* Two free neighbours a block may be merged with become one free block.
LEMMA MergeKeepsList ==
    ASSUME UsesOK, NEW heaps \in [Heaps -> Nat], NEW s, ListOK(s, heaps),
           NEW i \in 1..Len(s) - 1, s[i].free, s[i + 1].free,
           NEW a \in {s[i], s[i + 1]}, NEW b \in {s[i], s[i + 1]},
           {a, b} = {s[i], s[i + 1]},
           a.pending.timeline = b.pending.timeline, s[i].heap = s[i + 1].heap
    PROVE  /\ ListOK(Join(s, i, KeepLaterPending(a, b)), heaps)
           /\ Len(Join(s, i, KeepLaterPending(a, b))) = Len(s) - 1
           /\ Join(s, i, KeepLaterPending(a, b))[i].free
<1> DEFINE pending == KeepLaterPending(a, b)
<1>0. s \in Seq(Blocks)
  BY DEF ListOK
<1>1. s \in Seq(Blocks) /\ Covered(s) /\ TokensIssued(s)
  BY DEF ListOK
<1>2. s[i] \in Blocks /\ s[i + 1] \in Blocks /\ a \in Blocks /\ b \in Blocks
  BY <1>1
<1>3. pending \in PendingTokens
  BY <1>2, LaterPendingType
<1>4. ~IsEmpty(pending) => pending.id < issued[pending.timeline]
  <2>1. /\ ~IsEmpty(s[i].pending) => s[i].pending.id < issued[s[i].pending.timeline]
        /\ ~IsEmpty(s[i + 1].pending) => s[i + 1].pending.id < issued[s[i + 1].pending.timeline]
    BY <1>1 DEF TokensIssued
  <2> QED BY <2>1 DEF KeepLaterPending
<1>5. ASSUME NEW use \in running,
             Overlaps(use, SpanOf(s[i])) \/ Overlaps(use, SpanOf(s[i + 1]))
      PROVE  Covers(pending, use)
  <2>1. /\ Overlaps(use, SpanOf(s[i])) => Covers(s[i].pending, use)
        /\ Overlaps(use, SpanOf(s[i + 1])) => Covers(s[i + 1].pending, use)
    BY <1>1 DEF Covered, AllUsesCovered
  <2>2. Covers(a.pending, use) \/ Covers(b.pending, use)
    BY <1>5, <2>1
  <2> QED BY <1>2, <2>2, LaterPendingCovers
<1> HIDE DEF pending
<1>6. ListOK(Join(s, i, pending), heaps)
  BY <1>3, <1>4, <1>5, JoinKeepsList
<1>8. Len(Join(s, i, pending)) = Len(s) - 1
  BY <1>0, <1>3, JoinLength, Zenon
<1>9. Join(s, i, pending)[i].free
  BY <1>0, <1>3, JoinFreeAll, Zenon
<1> QED BY <1>6, <1>8, <1>9 DEF pending

\* consider_merging_forwards keeps the list, and its block is still at i.
LEMMA ForwardsKeepsList ==
    ASSUME UsesOK, NEW heaps \in [Heaps -> Nat], NEW s, ListOK(s, heaps),
           NEW i \in 1..Len(s), s[i].free
    PROVE  /\ ListOK(ConsiderMergingForwards(s, i), heaps)
           /\ i \in 1..Len(ConsiderMergingForwards(s, i))
           /\ ConsiderMergingForwards(s, i)[i].free
<1>1. Len(s) \in Nat
  BY DEF ListOK
<1>2. CASE i < Len(s) /\ IsMergeable(s[i], s[i + 1])
  <2>1. i \in 1..Len(s) - 1
    BY <1>1, <1>2
  <2>2. s[i + 1].free /\ s[i].pending.timeline = s[i + 1].pending.timeline
        /\ s[i].heap = s[i + 1].heap
    BY <1>2 DEF IsMergeable
  <2>3. ConsiderMergingForwards(s, i) = Join(s, i, KeepLaterPending(s[i], s[i + 1]))
    BY <1>2 DEF ConsiderMergingForwards
  <2>4. /\ ListOK(Join(s, i, KeepLaterPending(s[i], s[i + 1])), heaps)
        /\ Len(Join(s, i, KeepLaterPending(s[i], s[i + 1]))) = Len(s) - 1
        /\ Join(s, i, KeepLaterPending(s[i], s[i + 1]))[i].free
    BY <2>1, <2>2, MergeKeepsList
  <2> QED BY <1>1, <2>1, <2>3, <2>4
<1>3. CASE ~(i < Len(s) /\ IsMergeable(s[i], s[i + 1]))
  BY <1>3 DEF ConsiderMergingForwards
<1> QED BY <1>2, <1>3

\* consider_merging_backwards keeps the list.
LEMMA BackwardsKeepsList ==
    ASSUME UsesOK, NEW heaps \in [Heaps -> Nat], NEW s, ListOK(s, heaps),
           NEW i \in 1..Len(s), s[i].free
    PROVE  ListOK(ConsiderMergingBackwards(s, i), heaps)
<1>1. Len(s) \in Nat
  BY DEF ListOK
<1>2. CASE i > 1 /\ IsMergeable(s[i], s[i - 1])
  <2> DEFINE k == i - 1
  <2>1. k \in 1..Len(s) - 1 /\ k + 1 = i
    BY <1>1, <1>2
  <2> HIDE DEF k
  <2>2. /\ s[k].free /\ s[k + 1].free
        /\ s[k + 1].pending.timeline = s[k].pending.timeline
        /\ s[k].heap = s[k + 1].heap
    BY <1>2, <2>1 DEF IsMergeable, k
  <2>3. ConsiderMergingBackwards(s, i) = Join(s, k, KeepLaterPending(s[k + 1], s[k]))
    BY <1>2, <2>1 DEF ConsiderMergingBackwards, k
  <2>4. ListOK(Join(s, k, KeepLaterPending(s[k + 1], s[k])), heaps)
    BY <2>1, <2>2, MergeKeepsList
  <2> QED BY <2>3, <2>4
<1>3. CASE ~(i > 1 /\ IsMergeable(s[i], s[i - 1]))
  BY <1>3 DEF ConsiderMergingBackwards
<1> QED BY <1>2, <1>3

\* A block that is given back with a token that covers its uses keeps the list.
LEMMA ReleaseKeepsList ==
    ASSUME UsesOK, NEW heaps \in [Heaps -> Nat], NEW s, ListOK(s, heaps),
           NEW i \in 1..Len(s), NEW pending \in PendingTokens,
           ~IsEmpty(pending) => pending.id < issued[pending.timeline],
           AllUsesCovered({pending}, SpanOf(s[i]))
    PROVE  ListOK(ConsiderMergingBlock(s, i, pending), heaps)
<1> DEFINE mine == [s[i] EXCEPT !.pending = pending, !.free = TRUE]
           t == [s EXCEPT ![i].pending = pending, ![i].free = TRUE]
<1>1. s \in Seq(Blocks) /\ Tiles(s, heaps) /\ Covered(s) /\ TokensIssued(s)
  BY DEF ListOK
<1>2. s[i] \in Blocks
  BY <1>1
<1>3. /\ mine \in Blocks /\ mine.free /\ mine.pending = pending
      /\ SpanOf(mine) = SpanOf(s[i])
  BY <1>2 DEF Blocks, PendingTokens, SpanOf
<1>4. t = [s EXCEPT ![i] = mine]
  BY <1>1, <1>2 DEF Blocks
<1> HIDE DEF mine, t
<1>5. /\ t \in Seq(Blocks) /\ Len(t) = Len(s)
      /\ \A j \in 1..Len(s) : t[j] = IF j = i THEN mine ELSE s[j]
  BY <1>1, <1>3, <1>4
<1>6. Tiles(t, heaps)
  <2>1. \A j \in 1..Len(s) : SpanOf(t[j]) = SpanOf(s[j])
    BY <1>3, <1>5
  <2> QED BY <1>1, <1>5, <2>1, SameSpansTile
<1>7. Covered(t)
  BY <1>1, <1>3, <1>5 DEF Covered
<1>8. TokensIssued(t)
  BY <1>1, <1>3, <1>5 DEF TokensIssued
<1>9. ListOK(t, heaps) /\ i \in 1..Len(t) /\ t[i].free
  BY <1>3, <1>5, <1>6, <1>7, <1>8 DEF ListOK
<1> DEFINE u == ConsiderMergingForwards(t, i)
<1>10. ListOK(u, heaps) /\ i \in 1..Len(u) /\ u[i].free
  BY <1>9, ForwardsKeepsList
<1> HIDE DEF u
<1>11. ListOK(ConsiderMergingBackwards(u, i), heaps)
  BY <1>10, BackwardsKeepsList
<1> QED BY <1>11 DEF ConsiderMergingBlock, u, t

\* What partition_block makes of the list: the halves of a block lie in it and
\* meet, and keep its token.
LEMMA PartitionIndex ==
    ASSUME NEW s \in Seq(Blocks), NEW i \in 1..Len(s), NEW first_size \in 1..s[i].size - 1,
           NEW t, t = Partition(s, i, first_size)
    PROVE  /\ t \in Seq(Blocks)
           /\ Len(t) = Len(s) + 1
           /\ t[i + 1].offset = End(t[i])
           /\ \A j \in 1..Len(s) + 1 :
                 LET o == IF j <= i THEN j ELSE j - 1
                 IN  /\ t[j].heap = s[o].heap
                     /\ t[j].pending = s[o].pending
                     /\ t[j].free = s[o].free
                     /\ s[o].size > 0 => t[j].size > 0
                     /\ t[j].offset >= s[o].offset
                     /\ End(t[j]) <= End(s[o])
                     /\ j # i => End(t[j]) = End(s[o])
                     /\ j # i + 1 => t[j].offset = s[o].offset
<1> DEFINE second == [s[i] EXCEPT !.size = @ - first_size, !.offset = @ + first_size]
           first == [s[i] EXCEPT !.size = first_size]
           w == [s EXCEPT ![i] = second]
<1>1. s[i] \in Blocks /\ s[i].size \in Nat /\ s[i].offset \in Nat /\ Len(s) \in Nat
  BY BlocksAreBlocks
<1>2. first_size \in Nat /\ first_size > 0 /\ first_size < s[i].size
  BY <1>1
<1>3. /\ first \in Blocks /\ first.size = first_size /\ first.offset = s[i].offset
      /\ first.heap = s[i].heap /\ first.pending = s[i].pending /\ first.free = s[i].free
  BY <1>1, <1>2 DEF Blocks
<1>4. /\ second \in Blocks
      /\ second.size = s[i].size - first_size /\ second.offset = s[i].offset + first_size
      /\ second.heap = s[i].heap /\ second.pending = s[i].pending /\ second.free = s[i].free
  <2>1. s[i].size - first_size \in Nat /\ s[i].offset + first_size \in Nat
    BY <1>1, <1>2
  <2> QED BY <1>1, <2>1 DEF Blocks
<1> HIDE DEF first, second
<1>5. w \in Seq(Blocks) /\ Len(w) = Len(s)
      /\ \A j \in 1..Len(s) : w[j] = IF j = i THEN second ELSE s[j]
  BY <1>4
<1>6. t = InsertAt(w, i, first)
  BY DEF Partition, w, first, second
<1> HIDE DEF w
<1>7. /\ t \in Seq(Blocks) /\ Len(t) = Len(s) + 1
      /\ \A j \in 1..Len(s) + 1 :
            t[j] = IF j < i THEN w[j] ELSE IF j = i THEN first ELSE w[j - 1]
  <2>1. i \in 1..Len(w) /\ w \in Seq(Blocks) /\ Len(w) = Len(s)
    BY <1>5
  <2>2. first \in Blocks
    BY <1>3
  <2>3. /\ InsertAt(w, i, first) \in Seq(Blocks)
        /\ Len(InsertAt(w, i, first)) = Len(w) + 1
        /\ \A j \in 1..Len(w) + 1 :
              InsertAt(w, i, first)[j] =
                  IF j < i THEN w[j] ELSE IF j = i THEN first ELSE w[j - 1]
    BY <2>1, <2>2, InsertAtIndex
  <2> QED BY <1>6, <2>1, <2>3
<1>8. ASSUME NEW j \in 1..Len(s) + 1
      PROVE  t[j] = IF j < i THEN s[j]
                    ELSE IF j = i THEN first
                    ELSE IF j = i + 1 THEN second ELSE s[j - 1]
  <2>1. t[j] = IF j < i THEN w[j] ELSE IF j = i THEN first ELSE w[j - 1]
    BY <1>7
  <2>2. j < i => j \in 1..Len(s)
    BY <1>1
  <2>3. j > i => j - 1 \in 1..Len(s)
    BY <1>1
  <2> QED BY <1>1, <1>5, <2>1, <2>2, <2>3
<1>9. t[i] = first /\ t[i + 1] = second
  <2>1. i \in 1..Len(s) + 1 /\ i + 1 \in 1..Len(s) + 1 /\ ~(i < i) /\ ~(i + 1 < i) /\ i + 1 # i
    BY <1>1
  <2>2. t[i] = first
    BY <1>8, <2>1
  <2>3. t[i + 1] = second
    BY <1>8, <2>1
  <2> QED BY <2>2, <2>3
<1>10. t[i + 1].offset = End(t[i])
  BY <1>3, <1>4, <1>9 DEF End
<1>11. ASSUME NEW j \in 1..Len(s) + 1
       PROVE  LET o == IF j <= i THEN j ELSE j - 1
              IN  /\ t[j].heap = s[o].heap
                  /\ t[j].pending = s[o].pending
                  /\ t[j].free = s[o].free
                  /\ s[o].size > 0 => t[j].size > 0
                  /\ t[j].offset >= s[o].offset
                  /\ End(t[j]) <= End(s[o])
                  /\ j # i => End(t[j]) = End(s[o])
                  /\ j # i + 1 => t[j].offset = s[o].offset
  <2>1. CASE j < i
    <3>1. j \in 1..Len(s)
      BY <1>1, <2>1
    <3>2. t[j] = s[j] /\ s[j].offset \in Nat /\ s[j].size \in Nat
      BY <1>8, <2>1, <3>1, BlocksAreBlocks
    <3> QED BY <2>1, <3>2 DEF End
  <2>2. CASE j = i
    BY <1>1, <1>2, <1>3, <1>9, <2>2 DEF End
  <2>3. CASE j = i + 1
    <3>1. ~(j <= i) /\ j - 1 = i
      BY <1>1, <2>3
    <3>2. /\ t[j].heap = s[i].heap /\ t[j].pending = s[i].pending /\ t[j].free = s[i].free
          /\ s[i].size > 0 => t[j].size > 0
          /\ t[j].offset >= s[i].offset
          /\ End(t[j]) = End(s[i])
          /\ End(s[i]) \in Int
      <4>1. t[j] = second
        BY <1>9, <2>3
      <4>2. End(second) = s[i].offset + s[i].size
        <5>1. End(second) = (s[i].offset + first_size) + (s[i].size - first_size)
          BY <1>4 DEF End
        <5> QED BY <1>1, <1>2, <5>1
      <4> QED BY <1>1, <1>2, <1>4, <4>1, <4>2 DEF End
    <3>3. j # i /\ ~(j # i + 1)
      BY <1>1, <2>3
    <3> QED BY <3>1, <3>2, <3>3
  <2>4. CASE j > i + 1
    <3>1. j - 1 \in 1..Len(s)
      BY <1>1, <2>4
    <3>2. t[j] = s[j - 1]
      BY <1>8, <2>4
    <3>3. s[j - 1].offset \in Nat /\ s[j - 1].size \in Nat
      BY <3>1, BlocksAreBlocks
    <3> QED BY <2>4, <3>2, <3>3 DEF End
  <2> QED BY <2>1, <2>2, <2>3, <2>4
<1> QED BY <1>7, <1>10, <1>11

\* Cutting a block in two leaves the heaps tiled.
LEMMA PartitionKeepsTiles ==
    ASSUME NEW s \in Seq(Blocks), NEW heaps \in [Heaps -> Nat], Tiles(s, heaps),
           NEW i \in 1..Len(s), NEW first_size \in 1..s[i].size - 1
    PROVE  Tiles(Partition(s, i, first_size), heaps)
<1> DEFINE t == Partition(s, i, first_size)
           o(j) == IF j <= i THEN j ELSE j - 1
<1>1. /\ t \in Seq(Blocks)
      /\ Len(t) = Len(s) + 1
      /\ t[i + 1].offset = End(t[i])
      /\ \A j \in 1..Len(s) + 1 :
            /\ t[j].heap = s[o(j)].heap
            /\ s[o(j)].size > 0 => t[j].size > 0
            /\ t[j].offset >= s[o(j)].offset
            /\ End(t[j]) <= End(s[o(j)])
            /\ j # i => End(t[j]) = End(s[o(j)])
            /\ j # i + 1 => t[j].offset = s[o(j)].offset
  BY PartitionIndex
<1>2. Len(s) \in Nat /\ \A j \in 1..Len(s) + 1 : o(j) \in 1..Len(s)
  OBVIOUS
<1>3. /\ \A j \in 1..Len(s) + 1 : t[j].offset \in Int /\ End(t[j]) \in Int
      /\ \A j \in 1..Len(s) : s[j].offset \in Int /\ End(s[j]) \in Int
  <2>1. \A j \in 1..Len(s) : s[j].offset \in Int /\ End(s[j]) \in Int
    BY BlocksAreBlocks DEF End
  <2>2. t \in Seq(Blocks) /\ Len(t) = Len(s) + 1
    BY <1>1
  <2>3. ASSUME NEW j \in 1..Len(s) + 1
        PROVE  t[j].offset \in Int /\ End(t[j]) \in Int
    <3> HIDE DEF t
    <3>1. t[j].offset \in Nat /\ t[j].size \in Nat
      BY <2>2, BlocksAreBlocks
    <3> QED BY <3>1 DEF End
  <2> QED BY <2>1, <2>3
<1>4. /\ \A j, k \in 1..Len(s) + 1 : j < k /\ o(j) = o(k) => j = i /\ k = i + 1
      /\ \A j, k \in 1..Len(s) + 1 : j < k /\ o(j) # o(k) => o(j) < o(k)
      /\ \A j \in 1..Len(s) : j # i => o(j) \in 1..Len(s) - 1 /\ o(j + 1) = o(j) + 1
      /\ o(i + 1) = o(i)
      /\ o(1) = 1 /\ o(Len(s) + 1) = Len(s)
      /\ \A k \in 1..Len(s) : \E j \in 1..Len(s) + 1 : o(j) = k
  <2>1. \A j, k \in 1..Len(s) + 1 : j < k /\ o(j) = o(k) => j = i /\ k = i + 1
    OBVIOUS
  <2>2. \A j, k \in 1..Len(s) + 1 : j < k /\ o(j) # o(k) => o(j) < o(k)
    OBVIOUS
  <2>3. \A j \in 1..Len(s) : j # i => o(j) \in 1..Len(s) - 1 /\ o(j + 1) = o(j) + 1
    OBVIOUS
  <2>4. o(i + 1) = o(i) /\ o(1) = 1 /\ o(Len(s) + 1) = Len(s)
    OBVIOUS
  <2>5. ASSUME NEW k \in 1..Len(s)
        PROVE  \E j \in 1..Len(s) + 1 : o(j) = k
    <3>1. CASE k <= i
      <4>1. k \in 1..Len(s) + 1 /\ o(k) = k
        BY <3>1
      <4> QED BY <4>1
    <3>2. CASE k > i
      <4>1. k + 1 \in 1..Len(s) + 1 /\ o(k + 1) = k
        BY <3>2
      <4> QED BY <4>1
    <3> QED BY <3>1, <3>2
  <2> QED BY <2>1, <2>2, <2>3, <2>4, <2>5
<1> HIDE DEF t, o
<1>5. InHeaps(t, heaps)
  <2> SUFFICES ASSUME NEW j \in 1..Len(s) + 1
               PROVE  t[j].size > 0 /\ End(t[j]) <= heaps[t[j].heap]
    BY <1>1 DEF InHeaps
  <2>1. s[o(j)].size > 0 /\ End(s[o(j)]) <= heaps[s[o(j)].heap]
    BY <1>2 DEF Tiles, InHeaps
  <2>2. heaps[s[o(j)].heap] \in Int
    BY <1>2, BlocksAreBlocks
  <2>3. t[j].heap = s[o(j)].heap /\ t[j].size > 0 /\ End(t[j]) <= End(s[o(j)])
    BY <1>1, <2>1
  <2> QED BY <1>2, <1>3, <2>1, <2>2, <2>3
<1>6. InAddressOrder(t)
  <2> SUFFICES ASSUME NEW j \in 1..Len(s) + 1, NEW k \in 1..Len(s) + 1,
                      j < k, t[j].heap = t[k].heap
               PROVE  End(t[j]) <= t[k].offset
    BY <1>1 DEF InAddressOrder
  <2>1. CASE o(j) = o(k)
    <3>1. j = i /\ k = i + 1
      BY <1>4, <2>1
    <3> QED BY <1>1, <1>3, <3>1
  <2>2. CASE o(j) # o(k)
    <3>1. o(j) < o(k) /\ s[o(j)].heap = s[o(k)].heap
      BY <1>4, <1>1, <2>2
    <3>2. End(s[o(j)]) <= s[o(k)].offset
      BY <1>2, <3>1 DEF Tiles, InAddressOrder
    <3>3. End(t[j]) <= End(s[o(j)]) /\ t[k].offset >= s[o(k)].offset
      BY <1>1
    <3>4. /\ End(t[j]) \in Int /\ t[k].offset \in Int
          /\ End(s[o(j)]) \in Int /\ s[o(k)].offset \in Int
      BY <1>2, <1>3
    <3> QED BY <3>2, <3>3, <3>4
  <2> QED BY <2>1, <2>2
<1>7. NeighboursMeet(t, heaps)
  <2> SUFFICES ASSUME NEW j \in 1..Len(s)
               PROVE  IF t[j].heap = t[j + 1].heap
                      THEN t[j + 1].offset = End(t[j])
                      ELSE EndsHeap(t[j], heaps) /\ StartsHeap(t[j + 1])
    BY <1>1 DEF NeighboursMeet
  <2>1. j \in 1..Len(s) + 1 /\ j + 1 \in 1..Len(s) + 1
    BY <1>2
  <2>2. CASE j = i
    <3>1. t[j].heap = s[o(j)].heap /\ t[j + 1].heap = s[o(j + 1)].heap /\ o(j) = o(j + 1)
      BY <1>4, <1>1, <2>1, <2>2
    <3> QED BY <1>1, <2>2, <3>1
  <2>3. CASE j # i
    <3>1. o(j) \in 1..Len(s) - 1 /\ o(j + 1) = o(j) + 1
      BY <1>4, <2>3
    <3>2. IF s[o(j)].heap = s[o(j) + 1].heap
          THEN s[o(j) + 1].offset = End(s[o(j)])
          ELSE EndsHeap(s[o(j)], heaps) /\ StartsHeap(s[o(j) + 1])
      BY <3>1 DEF Tiles, NeighboursMeet
    <3>3. /\ t[j].heap = s[o(j)].heap /\ End(t[j]) = End(s[o(j)])
          /\ t[j + 1].heap = s[o(j) + 1].heap /\ t[j + 1].offset = s[o(j) + 1].offset
      BY <1>1, <2>1, <2>3, <3>1
    <3> QED BY <3>2, <3>3 DEF EndsHeap, StartsHeap
  <2> QED BY <2>2, <2>3
<1>8. EndsMeet(t, heaps)
  <2>1. /\ 1 \in 1..Len(s) + 1 /\ Len(s) + 1 \in 1..Len(s) + 1
        /\ o(1) = 1 /\ o(Len(s) + 1) = Len(s)
        /\ 1 # i + 1 /\ Len(s) + 1 # i
    BY <1>4, <1>2
  <2>2. StartsHeap(s[1]) /\ EndsHeap(s[Len(s)], heaps)
    BY <1>2 DEF Tiles, EndsMeet
  <2>3. /\ t[1].offset = s[1].offset
        /\ t[Len(s) + 1].heap = s[Len(s)].heap
        /\ End(t[Len(s) + 1]) = End(s[Len(s)])
    BY <1>1, <2>1
  <2> QED BY <1>1, <2>2, <2>3 DEF EndsMeet, EndsHeap, StartsHeap
<1>9. HeapsHaveBlocks(t, heaps)
  <2> SUFFICES ASSUME NEW heap \in Heaps, heaps[heap] > 0
               PROVE  \E j \in 1..Len(t) : t[j].heap = heap
    BY DEF HeapsHaveBlocks
  <2>1. PICK k \in 1..Len(s) : s[k].heap = heap
    BY DEF Tiles, HeapsHaveBlocks
  <2>3. PICK j \in 1..Len(s) + 1 : o(j) = k
    BY <1>4
  <2>4. t[j].heap = s[o(j)].heap
    BY <1>1
  <2> QED BY <1>1, <2>1, <2>3, <2>4
<1> QED BY <1>5, <1>6, <1>7, <1>8, <1>9 DEF Tiles, t

\* A use of part of a block's half is a use of part of the block.
LEMMA OverlapsWhole ==
    ASSUME UsesOK, NEW use \in running, NEW a \in Spans, NEW c \in Spans,
           a.heap = c.heap, a.offset >= c.offset, a.offset + a.size <= c.offset + c.size,
           Overlaps(use, a)
    PROVE  Overlaps(use, c)
BY DEF UsesOK, Spans, Overlaps

\* Cutting a block in two keeps the list: both halves carry its token.
LEMMA PartitionKeepsList ==
    ASSUME UsesOK, NEW heaps \in [Heaps -> Nat], NEW s, ListOK(s, heaps),
           NEW i \in 1..Len(s), NEW first_size \in 1..s[i].size - 1
    PROVE  ListOK(Partition(s, i, first_size), heaps)
<1> DEFINE t == Partition(s, i, first_size)
           o(j) == IF j <= i THEN j ELSE j - 1
<1>0. s \in Seq(Blocks)
  BY DEF ListOK
<1>1. Tiles(s, heaps) /\ Covered(s) /\ TokensIssued(s)
  BY DEF ListOK
<1>2. /\ t \in Seq(Blocks)
      /\ Len(t) = Len(s) + 1
      /\ \A j \in 1..Len(s) + 1 :
            /\ t[j].heap = s[o(j)].heap
            /\ t[j].pending = s[o(j)].pending
            /\ t[j].free = s[o(j)].free
            /\ t[j].offset >= s[o(j)].offset
            /\ End(t[j]) <= End(s[o(j)])
  BY <1>0, PartitionIndex
<1>3. Tiles(t, heaps)
  BY <1>0, <1>1, PartitionKeepsTiles
<1>4. \A j \in 1..Len(s) + 1 : o(j) \in 1..Len(s)
  BY <1>0
<1> HIDE DEF t, o
<1>5. TokensIssued(t)
  BY <1>1, <1>2, <1>4 DEF TokensIssued
<1>6. Covered(t)
  <2> SUFFICES ASSUME NEW j \in 1..Len(s) + 1, t[j].free,
                      NEW use \in running, Overlaps(use, SpanOf(t[j]))
               PROVE  Covers(t[j].pending, use)
    BY <1>2 DEF Covered, AllUsesCovered
  <2>1. SpanOf(t[j]) \in Spans /\ SpanOf(s[o(j)]) \in Spans
    BY <1>0, <1>2, <1>4, BlocksAreBlocks DEF SpanOf, Spans
  <2> DEFINE a == SpanOf(t[j])
             c == SpanOf(s[o(j)])
  <2>2. /\ a.heap = c.heap /\ a.offset >= c.offset
        /\ a.offset + a.size <= c.offset + c.size
    BY <1>2 DEF SpanOf, End
  <2>3. a \in Spans /\ c \in Spans /\ Overlaps(use, a)
    BY <2>1
  <2> HIDE DEF a, c
  <2>4. Overlaps(use, c)
    BY <2>2, <2>3, OverlapsWhole
  <2>5. s[o(j)].free
    BY <1>2
  <2>6. Covers(s[o(j)].pending, use)
    BY <1>1, <1>4, <2>4, <2>5 DEF Covered, AllUsesCovered, c
  <2> QED BY <1>2, <2>6
<1> QED BY <1>2, <1>3, <1>5, <1>6 DEF ListOK, t

\* A heap the pool did not hold goes at the end of the list.
LEMMA RegisterKeepsTiles ==
    ASSUME NEW s \in Seq(Blocks), NEW heaps \in [Heaps -> Nat], Tiles(s, heaps),
           NEW heap \in Heaps, heaps[heap] = 0, NEW size \in Nat \ {0},
           NEW block \in Blocks,
           block.heap = heap, block.offset = 0, block.size = size
    PROVE  Tiles(Append(s, block), [heaps EXCEPT ![heap] = size])
<1> DEFINE t == Append(s, block)
           h == [heaps EXCEPT ![heap] = size]
<1>1. /\ Len(t) = Len(s) + 1 /\ Len(s) \in Nat
      /\ \A j \in 1..Len(s) : t[j] = s[j]
      /\ t[Len(s) + 1] = block
  OBVIOUS
<1>2. h \in [Heaps -> Nat] /\ h[heap] = size /\ \A k \in Heaps : k # heap => h[k] = heaps[k]
  OBVIOUS
<1>3. \A j \in 1..Len(s) : s[j].heap \in Heaps /\ s[j].offset \in Nat /\ s[j].size \in Nat
  BY BlocksAreBlocks
<1>4. ASSUME NEW j \in 1..Len(s)
      PROVE  s[j].heap # heap
  <2>1. s[j].size > 0 /\ End(s[j]) <= heaps[s[j].heap]
    BY DEF Tiles, InHeaps
  <2> QED BY <1>3, <2>1 DEF End
<1>5. End(block) = size
  BY DEF End
<1> HIDE DEF t, h
<1>6. InHeaps(t, h)
  <2> SUFFICES ASSUME NEW j \in 1..Len(s) + 1
               PROVE  t[j].size > 0 /\ End(t[j]) <= h[t[j].heap]
    BY <1>1 DEF InHeaps
  <2>1. CASE j \in 1..Len(s)
    <3>1. s[j].size > 0 /\ End(s[j]) <= heaps[s[j].heap]
      BY <2>1 DEF Tiles, InHeaps
    <3> QED BY <1>1, <1>2, <1>3, <1>4, <2>1, <3>1
  <2>2. CASE j = Len(s) + 1
    BY <1>1, <1>2, <1>5, <2>2
  <2> QED BY <1>1, <2>1, <2>2
<1>7. InAddressOrder(t)
  <2> SUFFICES ASSUME NEW j \in 1..Len(s) + 1, NEW k \in 1..Len(s) + 1,
                      j < k, t[j].heap = t[k].heap
               PROVE  End(t[j]) <= t[k].offset
    BY <1>1 DEF InAddressOrder
  <2>1. j \in 1..Len(s)
    BY <1>1
  <2>2. k \in 1..Len(s)
    BY <1>1, <1>4, <2>1
  <2>3. s[j].heap = s[k].heap
    BY <1>1, <2>1, <2>2
  <2>4. End(s[j]) <= s[k].offset
    BY <2>1, <2>2, <2>3 DEF Tiles, InAddressOrder
  <2> QED BY <1>1, <2>1, <2>2, <2>4
<1>8. ASSUME NEW j \in 1..Len(s)
      PROVE  EndsHeap(s[j], heaps) <=> EndsHeap(s[j], h)
  BY <1>2, <1>3, <1>4 DEF EndsHeap
<1>9. NeighboursMeet(t, h)
  <2> SUFFICES ASSUME NEW j \in 1..Len(s)
               PROVE  IF t[j].heap = t[j + 1].heap
                      THEN t[j + 1].offset = End(t[j])
                      ELSE EndsHeap(t[j], h) /\ StartsHeap(t[j + 1])
    BY <1>1 DEF NeighboursMeet
  <2>1. CASE j < Len(s)
    <3>1. j \in 1..Len(s) - 1 /\ j + 1 \in 1..Len(s)
      BY <1>1, <2>1
    <3>2. IF s[j].heap = s[j + 1].heap
          THEN s[j + 1].offset = End(s[j])
          ELSE EndsHeap(s[j], heaps) /\ StartsHeap(s[j + 1])
      BY <3>1 DEF Tiles, NeighboursMeet
    <3> QED BY <1>1, <1>8, <3>1, <3>2
  <2>2. CASE j = Len(s)
    <3>1. t[j] = s[j] /\ t[j + 1] = block
      BY <1>1, <2>2
    <3>2. EndsHeap(s[j], heaps)
      BY <1>1, <2>2 DEF Tiles, EndsMeet
    <3> QED BY <1>4, <1>8, <3>1, <3>2 DEF StartsHeap
  <2> QED BY <1>1, <2>1, <2>2
<1>10. EndsMeet(t, h)
  <2>1. EndsHeap(block, h)
    BY <1>2, <1>5 DEF EndsHeap
  <2>2. StartsHeap(t[1])
    <3>1. CASE Len(s) = 0
      BY <1>1, <3>1 DEF StartsHeap
    <3>2. CASE Len(s) > 0
      <4>1. StartsHeap(s[1]) /\ 1 \in 1..Len(s)
        BY <1>1, <3>2 DEF Tiles, EndsMeet
      <4> QED BY <1>1, <4>1
    <3> QED BY <1>1, <3>1, <3>2
  <2> QED BY <1>1, <2>1, <2>2 DEF EndsMeet
<1>11. HeapsHaveBlocks(t, h)
  <2> SUFFICES ASSUME NEW k \in Heaps, h[k] > 0
               PROVE  \E j \in 1..Len(s) + 1 : t[j].heap = k
    BY <1>1 DEF HeapsHaveBlocks
  <2>1. CASE k = heap
    <3>1. Len(s) + 1 \in 1..Len(s) + 1
      BY <1>1
    <3> QED BY <1>1, <2>1, <3>1
  <2>2. CASE k # heap
    <3>1. PICK j \in 1..Len(s) : s[j].heap = k
      BY <1>2, <2>2 DEF Tiles, HeapsHaveBlocks
    <3>2. j \in 1..Len(s) + 1
      BY <1>1
    <3> QED BY <1>1, <3>1, <3>2
  <2> QED BY <2>1, <2>2
<1> QED BY <1>6, <1>7, <1>9, <1>10, <1>11 DEF Tiles, t, h

\* A new heap's block is free and nothing uses it.
LEMMA RegisterKeepsList ==
    ASSUME UsesOK, NEW heaps \in [Heaps -> Nat], NEW s, ListOK(s, heaps),
           NEW heap \in Heaps, heaps[heap] = 0, NEW size \in Nat \ {0},
           \A use \in running : use.size > 0 /\ use.offset + use.size <= heaps[use.heap]
    PROVE  ListOK(Append(s, [heap |-> heap, offset |-> 0, size |-> size,
                             pending |-> NoToken, free |-> TRUE]),
                  [heaps EXCEPT ![heap] = size])
<1> DEFINE block == [heap |-> heap, offset |-> 0, size |-> size,
                     pending |-> NoToken, free |-> TRUE]
           t == Append(s, block)
<1>0. s \in Seq(Blocks)
  BY DEF ListOK
<1>1. Tiles(s, heaps) /\ Covered(s) /\ TokensIssued(s)
  BY DEF ListOK
<1>2. block \in Blocks
  BY DEF Blocks
<1>3. /\ block.heap = heap /\ block.offset = 0 /\ block.size = size
      /\ IsEmpty(block.pending)
  BY DEF NoToken, IsEmpty
<1>4. SpanOf(block).heap = heap
  BY DEF SpanOf
<1> HIDE DEF block
<1>5. /\ t \in Seq(Blocks) /\ Len(t) = Len(s) + 1
      /\ \A j \in 1..Len(s) : t[j] = s[j]
      /\ t[Len(s) + 1] = block
  BY <1>0, <1>2
<1>6. \A j \in 1..Len(s) + 1 : j \in 1..Len(s) \/ j = Len(s) + 1
  BY <1>0
<1>7. Tiles(t, [heaps EXCEPT ![heap] = size])
  BY <1>0, <1>1, <1>2, <1>3, RegisterKeepsTiles
<1> HIDE DEF t
<1>8. TokensIssued(t)
  BY <1>1, <1>3, <1>5, <1>6 DEF TokensIssued
<1>9. AllUsesCovered({block.pending}, SpanOf(block))
  <2> SUFFICES ASSUME NEW use \in running, Overlaps(use, SpanOf(block))
               PROVE  FALSE
    BY DEF AllUsesCovered
  <2>1. use.heap = heap
    BY <1>4 DEF Overlaps
  <2>2. use.offset \in Nat /\ use.size \in Nat
    BY DEF UsesOK
  <2> QED BY <2>1, <2>2
<1>10. Covered(t)
  BY <1>1, <1>5, <1>6, <1>9 DEF Covered
<1> QED BY <1>5, <1>7, <1>8, <1>10 DEF ListOK, t, block

\* A block that is_partition says is none is all of its heap.
LEMMA UnpartitionedIsWhole ==
    ASSUME NEW s \in Seq(Blocks), NEW heaps \in [Heaps -> Nat], Tiles(s, heaps),
           NEW i \in 1..Len(s), ~IsPartition(s, i)
    PROVE  /\ s[i].offset = 0
           /\ End(s[i]) = heaps[s[i].heap]
           /\ s[i].size = heaps[s[i].heap]
           /\ \A j \in 1..Len(s) : j # i => s[j].heap # s[i].heap
<1>1. \A j \in 1..Len(s) : s[j].heap \in Heaps /\ s[j].offset \in Nat /\ s[j].size \in Nat
  BY BlocksAreBlocks
<1>2. Len(s) \in Nat
  OBVIOUS
<1>3. s[i].offset = 0
  <2>1. CASE i = 1
    BY <1>2, <2>1 DEF Tiles, EndsMeet, StartsHeap
  <2>2. CASE i > 1
    <3> DEFINE k == i - 1
    <3>1. k \in 1..Len(s) - 1 /\ k + 1 = i
      BY <1>2, <2>2
    <3>2. s[k].heap # s[i].heap
      BY <2>2 DEF IsPartition
    <3> HIDE DEF k
    <3>3. StartsHeap(s[k + 1])
      BY <3>1, <3>2 DEF Tiles, NeighboursMeet
    <3> QED BY <3>1, <3>3 DEF StartsHeap
  <2> QED BY <1>2, <2>1, <2>2
<1>4. End(s[i]) = heaps[s[i].heap]
  <2>1. CASE i = Len(s)
    BY <1>2, <2>1 DEF Tiles, EndsMeet, EndsHeap
  <2>2. CASE i < Len(s)
    <3>1. i \in 1..Len(s) - 1 /\ s[i].heap # s[i + 1].heap
      BY <1>2, <2>2 DEF IsPartition
    <3>2. EndsHeap(s[i], heaps)
      BY <3>1 DEF Tiles, NeighboursMeet
    <3> QED BY <3>2 DEF EndsHeap
  <2> QED BY <1>2, <2>1, <2>2
<1>5. s[i].size = heaps[s[i].heap]
  BY <1>1, <1>3, <1>4 DEF End
<1>6. ASSUME NEW j \in 1..Len(s), j # i, s[j].heap = s[i].heap
      PROVE  FALSE
  <2>1. s[j].size > 0 /\ End(s[j]) <= heaps[s[j].heap]
    BY DEF Tiles, InHeaps
  <2>2. CASE j < i
    <3>1. End(s[j]) <= s[i].offset
      BY <1>6, <2>2 DEF Tiles, InAddressOrder
    <3> QED BY <1>1, <1>3, <2>1, <3>1 DEF End
  <2>3. CASE i < j
    <3>1. End(s[i]) <= s[j].offset
      BY <1>6, <2>3 DEF Tiles, InAddressOrder
    <3>2. End(s[j]) <= End(s[i])
      BY <1>4, <1>6, <2>1
    <3>3. End(s[j]) = s[j].offset + s[j].size
      BY DEF End
    <3>4. End(s[i]) \in Nat
      BY <1>1 DEF End
    <3> QED BY <1>1, <2>1, <3>1, <3>2, <3>3, <3>4
  <2> QED BY <1>6, <2>2, <2>3
<1> QED BY <1>3, <1>4, <1>5, <1>6

\* Without the one block of a heap, the others tile the other heaps.
LEMMA ReleaseHeapKeepsTiles ==
    ASSUME NEW s \in Seq(Blocks), NEW heaps \in [Heaps -> Nat], Tiles(s, heaps),
           NEW i \in 1..Len(s), ~IsPartition(s, i)
    PROVE  Tiles(RemoveAt(s, i), [heaps EXCEPT ![s[i].heap] = 0])
<1> DEFINE t == RemoveAt(s, i)
           h == [heaps EXCEPT ![s[i].heap] = 0]
           o(j) == IF j < i THEN j ELSE j + 1
<1>1. /\ t \in Seq(Blocks) /\ Len(t) = Len(s) - 1
      /\ \A j \in 1..Len(s) - 1 : t[j] = s[o(j)]
  <2>1. /\ RemoveAt(s, i) \in Seq(Blocks)
        /\ Len(RemoveAt(s, i)) = Len(s) - 1
        /\ \A j \in 1..Len(s) - 1 :
              RemoveAt(s, i)[j] = IF j < i THEN s[j] ELSE s[j + 1]
    BY RemoveAtIndex
  <2> QED BY <2>1
<1>2. \A j \in 1..Len(s) : s[j].heap \in Heaps /\ s[j].offset \in Nat /\ s[j].size \in Nat
  BY BlocksAreBlocks
<1>3. \A k \in Heaps : h[k] = IF k = s[i].heap THEN 0 ELSE heaps[k]
  BY <1>2
<1>4. \A j \in 1..Len(s) : j # i => s[j].heap # s[i].heap
  BY UnpartitionedIsWhole
<1>5. /\ Len(s) \in Nat
      /\ \A j \in 1..Len(s) - 1 : o(j) \in 1..Len(s) /\ o(j) # i
      /\ \A j, k \in 1..Len(s) - 1 : j < k => o(j) < o(k)
      /\ \A k \in 1..Len(s) : k # i => \E j \in 1..Len(s) - 1 : o(j) = k
  <2>1. Len(s) \in Nat
    OBVIOUS
  <2>2. \A j \in 1..Len(s) - 1 : o(j) \in 1..Len(s) /\ o(j) # i
    OBVIOUS
  <2>3. \A j, k \in 1..Len(s) - 1 : j < k => o(j) < o(k)
    OBVIOUS
  <2>4. ASSUME NEW k \in 1..Len(s), k # i
        PROVE  \E j \in 1..Len(s) - 1 : o(j) = k
    <3>1. CASE k < i
      <4>1. k \in 1..Len(s) - 1 /\ o(k) = k
        BY <3>1
      <4> QED BY <4>1
    <3>2. CASE k > i
      <4>1. k - 1 \in 1..Len(s) - 1 /\ o(k - 1) = k
        BY <3>2
      <4> QED BY <4>1
    <3> QED BY <2>4, <3>1, <3>2
  <2> QED BY <2>1, <2>2, <2>3, <2>4
<1>6. /\ \A j \in 1..Len(s) - 2 : j # i - 1 => o(j + 1) = o(j) + 1
      /\ \A j \in 1..Len(s) - 2 : j = i - 1 => o(j) = i - 1 /\ o(j + 1) = i + 1
      /\ Len(s) > 1 => o(1) = (IF i = 1 THEN 2 ELSE 1)
      /\ Len(s) > 1 => o(Len(s) - 1) = (IF i = Len(s) THEN Len(s) - 1 ELSE Len(s))
  OBVIOUS
<1> HIDE DEF t, h, o
<1>7. \A j \in 1..Len(s) : j # i => h[s[j].heap] = heaps[s[j].heap]
  BY <1>2, <1>3, <1>4
<1>8. InHeaps(t, h)
  <2> SUFFICES ASSUME NEW j \in 1..Len(s) - 1
               PROVE  t[j].size > 0 /\ End(t[j]) <= h[t[j].heap]
    BY <1>1 DEF InHeaps
  <2>1. s[o(j)].size > 0 /\ End(s[o(j)]) <= heaps[s[o(j)].heap]
    BY <1>5 DEF Tiles, InHeaps
  <2> QED BY <1>1, <1>5, <1>7, <2>1
<1>9. InAddressOrder(t)
  <2> SUFFICES ASSUME NEW j \in 1..Len(s) - 1, NEW k \in 1..Len(s) - 1,
                      j < k, t[j].heap = t[k].heap
               PROVE  End(t[j]) <= t[k].offset
    BY <1>1 DEF InAddressOrder
  <2>1. o(j) < o(k) /\ s[o(j)].heap = s[o(k)].heap
    BY <1>1, <1>5
  <2>2. End(s[o(j)]) <= s[o(k)].offset
    BY <1>5, <2>1 DEF Tiles, InAddressOrder
  <2> QED BY <1>1, <2>2
<1>10. ASSUME NEW j \in 1..Len(s) - 1
       PROVE  IF s[j].heap = s[j + 1].heap
              THEN s[j + 1].offset = End(s[j])
              ELSE EndsHeap(s[j], heaps) /\ StartsHeap(s[j + 1])
  BY DEF Tiles, NeighboursMeet
<1>11. NeighboursMeet(t, h)
  <2> SUFFICES ASSUME NEW j \in 1..Len(s) - 2
               PROVE  IF t[j].heap = t[j + 1].heap
                      THEN t[j + 1].offset = End(t[j])
                      ELSE EndsHeap(t[j], h) /\ StartsHeap(t[j + 1])
    <3>1. 1..Len(t) - 1 = 1..Len(s) - 2
      BY <1>1, <1>5
    <3> QED BY <3>1 DEF NeighboursMeet
  <2>1. /\ j \in 1..Len(s) - 1 /\ j + 1 \in 1..Len(s) - 1
        /\ t[j] = s[o(j)] /\ t[j + 1] = s[o(j + 1)]
    BY <1>1, <1>5
  <2>2. EndsHeap(s[o(j)], heaps) <=> EndsHeap(t[j], h)
    BY <1>5, <1>7, <2>1 DEF EndsHeap
  <2>3. CASE j # i - 1
    <3> DEFINE k == o(j)
    <3>1. k + 1 = o(j + 1) /\ k \in 1..Len(s) - 1
      BY <1>5, <1>6, <2>1, <2>3
    <3>2. t[j] = s[k] /\ t[j + 1] = s[k + 1]
      BY <2>1, <3>1
    <3>3. EndsHeap(s[k], heaps) <=> EndsHeap(t[j], h)
      BY <2>2
    <3> HIDE DEF k
    <3> QED BY <1>10, <3>1, <3>2, <3>3
  <2>4. CASE j = i - 1
    <3> DEFINE k == i - 1
    <3>1. /\ k \in 1..Len(s) - 1 /\ k + 1 = i /\ i \in 1..Len(s) - 1
          /\ t[j] = s[k] /\ t[j + 1] = s[i + 1]
      <4>1. o(j) = k /\ o(j + 1) = i + 1
        BY <1>6, <2>4
      <4>2. k \in 1..Len(s) - 1 /\ k + 1 = i /\ i \in 1..Len(s) - 1
        BY <1>5, <2>4
      <4> QED BY <2>1, <4>1, <4>2
    <3>2. EndsHeap(s[k], heaps) <=> EndsHeap(t[j], h)
      <4>1. o(j) = k
        BY <1>6, <2>4
      <4> HIDE DEF k
      <4> QED BY <2>2, <4>1
    <3> HIDE DEF k
    <3>3. s[k].heap # s[k + 1].heap /\ s[i].heap # s[i + 1].heap
      <4>1. k \in 1..Len(s) /\ k # i /\ i + 1 \in 1..Len(s) /\ i + 1 # i /\ k + 1 = i
        BY <1>5, <3>1
      <4>2. s[k].heap # s[i].heap /\ s[i + 1].heap # s[i].heap
        BY <1>4, <4>1
      <4> QED BY <4>1, <4>2
    <3>4. EndsHeap(s[k], heaps) /\ StartsHeap(s[i + 1])
      BY <1>10, <3>1, <3>3
    <3>5. s[k].heap # s[i + 1].heap
      <4> SUFFICES ASSUME s[k].heap = s[i + 1].heap
                   PROVE  FALSE
        OBVIOUS
      <4>1. k \in 1..Len(s) /\ i + 1 \in 1..Len(s) /\ k < i + 1
        BY <1>5, <3>1
      <4>2. End(s[k]) <= s[i + 1].offset /\ s[k].size > 0
        BY <4>1 DEF Tiles, InAddressOrder, InHeaps
      <4> QED BY <1>2, <3>4, <4>1, <4>2 DEF StartsHeap, End
    <3> QED BY <3>1, <3>2, <3>4, <3>5
  <2> QED BY <2>3, <2>4
<1>12. EndsMeet(t, h)
  <2> SUFFICES ASSUME Len(s) > 1
               PROVE  StartsHeap(t[1]) /\ EndsHeap(t[Len(s) - 1], h)
    BY <1>1, <1>5 DEF EndsMeet
  <2>1. 1 \in 1..Len(s) - 1 /\ Len(s) - 1 \in 1..Len(s) - 1
    BY <1>5
  <2>2. StartsHeap(s[1]) /\ EndsHeap(s[Len(s)], heaps)
    BY <1>5 DEF Tiles, EndsMeet
  <2>3. StartsHeap(s[o(1)])
    <3>1. CASE i = 1
      <4>1. s[1].heap # s[1 + 1].heap
        BY <1>4, <1>5, <3>1
      <4>2. StartsHeap(s[1 + 1])
        BY <1>10, <2>1, <4>1
      <4> QED BY <1>6, <3>1, <4>2
    <3>2. CASE i # 1
      BY <1>6, <2>2, <3>2
    <3> QED BY <3>1, <3>2
  <2>4. EndsHeap(s[o(Len(s) - 1)], heaps)
    <3>1. CASE i = Len(s)
      <4> DEFINE k == Len(s) - 1
      <4>1. k \in 1..Len(s) - 1 /\ k + 1 = i
        BY <2>1, <3>1
      <4> HIDE DEF k
      <4>2. s[k].heap # s[k + 1].heap
        BY <1>4, <1>5, <4>1
      <4>3. EndsHeap(s[k], heaps)
        BY <1>10, <4>1, <4>2
      <4> QED BY <1>6, <3>1, <4>3 DEF k
    <3>2. CASE i # Len(s)
      BY <1>6, <2>2, <3>2
    <3> QED BY <3>1, <3>2
  <2>5. EndsHeap(s[o(Len(s) - 1)], h)
    BY <1>5, <1>7, <2>1, <2>4 DEF EndsHeap
  <2> QED BY <1>1, <2>1, <2>3, <2>5
<1>13. HeapsHaveBlocks(t, h)
  <2> SUFFICES ASSUME NEW k \in Heaps, h[k] > 0
               PROVE  \E j \in 1..Len(s) - 1 : t[j].heap = k
    BY <1>1 DEF HeapsHaveBlocks
  <2>1. k # s[i].heap /\ heaps[k] > 0
    BY <1>3
  <2>2. PICK n \in 1..Len(s) : s[n].heap = k
    BY <2>1 DEF Tiles, HeapsHaveBlocks
  <2>3. PICK j \in 1..Len(s) - 1 : o(j) = n
    BY <1>5, <2>1, <2>2
  <2> QED BY <1>1, <2>2, <2>3
<1> QED BY <1>8, <1>9, <1>11, <1>12, <1>13 DEF Tiles, t, h

\* Giving a heap back leaves nothing of what was on it in the list.
LEMMA ReleaseHeapKeepsList ==
    ASSUME NEW heaps \in [Heaps -> Nat], NEW s, ListOK(s, heaps),
           NEW i \in 1..Len(s), ~IsPartition(s, i)
    PROVE  ListOK(RemoveAt(s, i), [heaps EXCEPT ![s[i].heap] = 0])
<1> DEFINE t == RemoveAt(s, i)
<1>0. s \in Seq(Blocks)
  BY DEF ListOK
<1>1. Tiles(s, heaps) /\ Covered(s) /\ TokensIssued(s)
  BY DEF ListOK
<1>2. /\ t \in Seq(Blocks) /\ Len(t) = Len(s) - 1
      /\ \A j \in 1..Len(s) - 1 : t[j] = IF j < i THEN s[j] ELSE s[j + 1]
  BY <1>0, RemoveAtIndex
<1>3. \A j \in 1..Len(s) - 1 : \E k \in 1..Len(s) : t[j] = s[k]
  <2> SUFFICES ASSUME NEW j \in 1..Len(s) - 1
               PROVE  \E k \in 1..Len(s) : t[j] = s[k]
    OBVIOUS
  <2>1. j \in 1..Len(s) /\ j + 1 \in 1..Len(s)
    BY <1>0
  <2> QED BY <1>2, <2>1
<1>4. Tiles(t, [heaps EXCEPT ![s[i].heap] = 0])
  BY <1>0, <1>1, ReleaseHeapKeepsTiles
<1> HIDE DEF t
<1>5. Covered(t)
  BY <1>1, <1>2, <1>3 DEF Covered
<1>6. TokensIssued(t)
  BY <1>1, <1>2, <1>3 DEF TokensIssued
<1> QED BY <1>2, <1>4, <1>5, <1>6 DEF ListOK, t

\* A set of numbers that is not empty has a least element.
LEMMA LeastNumber ==
    ASSUME NEW T \in SUBSET Nat, T # {}
    PROVE  \E n \in T : \A m \in T : n <= m
<1>1. \E n \in T : \A m \in T : ~(<<m, n>> \in OpToRel(<, Nat))
  BY NatLessThanWellFounded, WFMin
<1>2. PICK n \in T : \A m \in T : ~(<<m, n>> \in OpToRel(<, Nat))
  BY <1>1
<1>3. \A m \in T : ~(m < n)
  BY <1>2 DEF OpToRel
<1> QED BY <1>3

\* enumerate_pending reports a latest token of each timeline, so when all it
\* reports has finished, so has the token of every free block.
LEMMA ReportedAreEnough ==
    ASSUME DeviceTypeOK, m_blocks \in Seq(Blocks), TokensIssued(m_blocks),
           \A token \in EnumeratePending : IsComplete(token)
    PROVE  \A i \in Positions : m_blocks[i].free => IsComplete(m_blocks[i].pending)
<1> SUFFICES ASSUME NEW i \in Positions, m_blocks[i].free, ~IsEmpty(m_blocks[i].pending)
             PROVE  m_blocks[i].pending.id < finished[m_blocks[i].pending.timeline]
  BY DEF IsComplete
<1> DEFINE timeline == m_blocks[i].pending.timeline
           same == {k \in Positions : m_blocks[k].free /\ m_blocks[k].pending.timeline = timeline}
           T == {n \in Nat : \A k \in same : m_blocks[k].pending.id <= n}
<1>1. \A k \in Positions : m_blocks[k].pending.id \in Nat
  BY BlocksAreBlocks DEF Positions, PendingTokens, Tokens, NoToken
<1>2. timeline \in Timelines
  BY BlocksAreBlocks DEF Positions, PendingTokens, Tokens, NoToken, IsEmpty
<1>3. i \in same /\ same \subseteq Positions
  OBVIOUS
<1>4. \A k \in same : /\ m_blocks[k].free
                      /\ m_blocks[k].pending.timeline = timeline
                      /\ ~IsEmpty(m_blocks[k].pending)
  BY DEF IsEmpty
<1>5. \A k \in Positions :
         m_blocks[k].free /\ m_blocks[k].pending.timeline = timeline => k \in same
  OBVIOUS
<1>6. issued[timeline] \in T
  <2>1. issued[timeline] \in Nat
    BY <1>2 DEF DeviceTypeOK
  <2>2. ASSUME NEW k \in same
        PROVE  m_blocks[k].pending.id <= issued[timeline]
    <3>1. m_blocks[k].pending.id < issued[timeline]
      BY <1>3, <1>4 DEF TokensIssued, Positions
    <3> QED BY <1>1, <1>3, <2>1, <3>1
  <2> QED BY <2>1, <2>2
<1>7. PICK n \in T : \A m \in T : n <= m
  BY <1>6, LeastNumber
<1>8. n \in Nat /\ \A k \in same : m_blocks[k].pending.id <= n
  OBVIOUS
<1>9. \E k \in same : m_blocks[k].pending.id = n
  <2> SUFFICES ASSUME \A k \in same : m_blocks[k].pending.id # n
               PROVE  FALSE
    OBVIOUS
  <2> HIDE DEF same
  <2>1. \A k \in same : m_blocks[k].pending.id <= n - 1
    BY <1>1, <1>3, <1>8
  <2>2. n - 1 \in Nat
    BY <1>1, <1>3, <1>8, <2>1
  <2>3. n - 1 \in T
    BY <2>1, <2>2
  <2> QED BY <1>7, <1>8, <2>3
<1> HIDE DEF same, T
<1>10. PICK k \in same : m_blocks[k].pending.id = n
  BY <1>9
<1>11. m_blocks[k].pending \in EnumeratePending
  <2>1. \A l \in Positions :
            m_blocks[l].free /\ m_blocks[l].pending.timeline = m_blocks[k].pending.timeline
            => m_blocks[l].pending.id <= m_blocks[k].pending.id
    BY <1>4, <1>5, <1>8, <1>10
  <2> QED BY <1>3, <1>4, <2>1 DEF EnumeratePending
<1>12. n < finished[timeline]
  BY <1>4, <1>10, <1>11 DEF IsComplete
<1>13. m_blocks[i].pending.id <= n
  BY <1>3, <1>8
<1> QED BY <1>1, <1>2, <1>8, <1>12, <1>13 DEF DeviceTypeOK

----------------------------------------------------------------------------
(* The inductive invariant.                                                *)

\* What reset_pending is still to walk past has been emptied of tokens.
EmptiedWhileResetting ==
    call = "reset_pending" =>
        \A i \in 1..Len(m_blocks) : m_blocks[i].free => m_blocks[i].pending = NoToken

\* Nothing runs against a free block while heaps are given back.
IdleWhileGivingBack ==
    call = "release_unused_heaps" =>
        \A i \in 1..Len(m_blocks) : m_blocks[i].free => IsComplete(m_blocks[i].pending)

IInv ==
    /\ PoolTypeOK
    /\ ListOK(m_blocks, m_heaps)
    /\ NoCommandOnReturnedMemory
    /\ EmptiedWhileResetting
    /\ IdleWhileGivingBack

\* Every use the device has is of some memory, of a queue there is.
LEMMA UsesAreOK ==
    ASSUME IInv
    PROVE  UsesOK
<1> SUFFICES ASSUME NEW use \in running
             PROVE  /\ use.timeline \in Timelines
                    /\ use.id \in Nat
                    /\ use.offset \in Nat
                    /\ use.size \in Nat \ {0}
  BY DEF UsesOK
<1>1. use \in [timeline : Timelines, id : Nat, heap : Heaps, offset : Nat, size : Nat]
  BY DEF IInv, PoolTypeOK, DeviceTypeOK
<1>2. use.size > 0
  BY DEF IInv, NoCommandOnReturnedMemory
<1> QED BY <1>1, <1>2

\* What a step of the pool has to show when the device does nothing in it.
LEMMA PoolStep ==
    ASSUME IInv, UNCHANGED deviceVars,
           ListOK(m_blocks', m_heaps'),
           m_heaps' \in [Heaps -> Nat],
           m_size' \in Int,
           call' \in {"none", "reset_pending", "release_unused_heaps"},
           ite' \in Nat,
           call' = "reset_pending" => ite' >= 1,
           \A use \in running : use.size > 0 /\ use.offset + use.size <= m_heaps'[use.heap],
           call' = "reset_pending" =>
               \A i \in 1..Len(m_blocks') : m_blocks'[i].free => m_blocks'[i].pending = NoToken,
           call' = "release_unused_heaps" =>
               \A i \in 1..Len(m_blocks') : m_blocks'[i].free => IsComplete(m_blocks'[i].pending)
    PROVE  IInv'
<1>1. ListOK(m_blocks, m_heaps)'
  BY DEF ListOK, Covered, AllUsesCovered, TokensIssued, deviceVars
<1>2. PoolTypeOK'
  BY DEF PoolTypeOK, IInv, DeviceTypeOK, deviceVars, ListOK
<1>3. NoCommandOnReturnedMemory'
  BY DEF NoCommandOnReturnedMemory, deviceVars
<1>4. EmptiedWhileResetting'
  BY DEF EmptiedWhileResetting
<1>5. IdleWhileGivingBack'
  BY DEF IdleWhileGivingBack, IsComplete, deviceVars
<1> QED BY <1>1, <1>2, <1>3, <1>4, <1>5 DEF IInv

\* The same, for a call that runs no loop and leaves the heaps alone.
LEMMA ListStep ==
    ASSUME IInv, call = "none",
           UNCHANGED <<m_heaps, m_size, call, ite, deviceVars>>,
           ListOK(m_blocks', m_heaps)
    PROVE  IInv'
<1>1. /\ m_heaps' \in [Heaps -> Nat] /\ m_size' \in Int /\ ite' \in Nat
      /\ call' = "none" /\ m_heaps' = m_heaps
  BY DEF IInv, PoolTypeOK
<1>2. \A use \in running : use.size > 0 /\ use.offset + use.size <= m_heaps'[use.heap]
  BY DEF IInv, NoCommandOnReturnedMemory
<1>3. ListOK(m_blocks', m_heaps')
  BY <1>1
<1>4. UNCHANGED deviceVars
  OBVIOUS
<1> QED BY <1>1, <1>2, <1>3, <1>4, PoolStep

\* register_heap, of a heap of any size
LEMMA NewHeapKeepsIInv ==
    ASSUME IInv, call = "none", UNCHANGED deviceVars,
           NEW heap \in Heaps, NEW size \in Nat \ {0}, m_heaps[heap] = 0,
           RegisterHeap(heap, size)
    PROVE  IInv'
<1>3. /\ UsesOK /\ ListOK(m_blocks, m_heaps) /\ m_heaps \in [Heaps -> Nat]
      /\ \A use \in running : use.size > 0 /\ use.offset + use.size <= m_heaps[use.heap]
  BY UsesAreOK DEF IInv, PoolTypeOK, NoCommandOnReturnedMemory
<1>4. ListOK(m_blocks', m_heaps')
  BY <1>3, RegisterKeepsList DEF RegisterHeap
<1>5. /\ m_heaps' \in [Heaps -> Nat] /\ m_size' \in Int /\ ite' \in Nat /\ call' = "none"
  BY <1>3 DEF RegisterHeap, IInv, PoolTypeOK
<1>6. ASSUME NEW use \in running
      PROVE  use.size > 0 /\ use.offset + use.size <= m_heaps'[use.heap]
  <2>1. use.heap \in Heaps /\ use.offset \in Nat /\ use.size \in Nat
    BY DEF IInv, PoolTypeOK, DeviceTypeOK
  <2>2. use.size > 0 /\ use.offset + use.size <= m_heaps[use.heap]
    BY <1>3
  <2>3. use.heap # heap
    BY <2>1, <2>2
  <2>4. m_heaps'[use.heap] = m_heaps[use.heap]
    BY <1>3, <2>1, <2>3 DEF RegisterHeap
  <2> QED BY <2>2, <2>4
<1> QED BY <1>4, <1>5, <1>6, PoolStep

LEMMA RegisterHeapKeepsIInv ==
    ASSUME IInv, CallRegisterHeap
    PROVE  IInv'
<1>1. PICK heap \in Heaps, size \in HeapSizes : m_heaps[heap] = 0 /\ RegisterHeap(heap, size)
  BY DEF CallRegisterHeap
<1>2. size \in Nat \ {0}
  BY HeapSizesAssumption
<1>3. call = "none" /\ UNCHANGED deviceVars
  BY DEF CallRegisterHeap
<1> QED BY <1>1, <1>2, <1>3, NewHeapKeepsIInv

\* partition_block
LEMMA PartitionBlockKeepsIInv ==
    ASSUME IInv, CallPartitionBlock
    PROVE  IInv'
<1>1. PICK i \in Positions : \E first_size \in 1..m_blocks[i].size - 1 :
          PartitionBlock(i, first_size)
  BY DEF CallPartitionBlock
<1>2. PICK first_size \in 1..m_blocks[i].size - 1 : PartitionBlock(i, first_size)
  BY <1>1
<1>3. UsesOK /\ ListOK(m_blocks, m_heaps) /\ m_heaps \in [Heaps -> Nat]
  BY UsesAreOK DEF IInv, PoolTypeOK
<1>4. i \in 1..Len(m_blocks)
  BY DEF Positions
<1>5. ListOK(m_blocks', m_heaps)
  BY <1>2, <1>3, <1>4, PartitionKeepsList DEF PartitionBlock
<1>6. call = "none" /\ UNCHANGED <<m_heaps, m_size, call, ite, deviceVars>>
  BY <1>2 DEF CallPartitionBlock, PartitionBlock
<1> QED BY <1>5, <1>6, ListStep

\* A list with other tokens and other holders, whose free blocks are no others
\* than before and carry the tokens they carried.
LEMMA RetokenKeepsList ==
    ASSUME NEW heaps \in [Heaps -> Nat], NEW s, ListOK(s, heaps),
           NEW t \in Seq(Blocks), Len(t) = Len(s),
           \A j \in 1..Len(s) : SpanOf(t[j]) = SpanOf(s[j]),
           \A j \in 1..Len(s) : t[j].free => s[j].free /\ t[j].pending = s[j].pending,
           \A j \in 1..Len(s) : t[j].pending = s[j].pending \/ IsEmpty(t[j].pending)
    PROVE  ListOK(t, heaps)
<1>1. s \in Seq(Blocks) /\ Tiles(s, heaps) /\ Covered(s) /\ TokensIssued(s)
  BY DEF ListOK
<1>2. Tiles(t, heaps)
  BY <1>1, SameSpansTile
<1>3. Covered(t)
  BY <1>1 DEF Covered
<1>4. TokensIssued(t)
  BY <1>1 DEF TokensIssued
<1> QED BY <1>2, <1>3, <1>4 DEF ListOK

\* acquire
LEMMA AcquireKeepsIInv ==
    ASSUME IInv, CallAcquire
    PROVE  IInv'
<1>1. PICK i \in Positions : m_blocks[i].free /\ Acquire(i)
  BY DEF CallAcquire
<1>2. /\ ListOK(m_blocks, m_heaps) /\ m_heaps \in [Heaps -> Nat]
      /\ m_blocks \in Seq(Blocks) /\ i \in 1..Len(m_blocks)
  BY DEF IInv, PoolTypeOK, Positions
<1>3. m_blocks[i] \in Blocks
  BY <1>2
<1> DEFINE held == [m_blocks[i] EXCEPT !.free = FALSE]
<1>4. /\ held \in Blocks /\ ~held.free /\ held.pending = m_blocks[i].pending
      /\ SpanOf(held) = SpanOf(m_blocks[i])
  BY <1>3 DEF Blocks, SpanOf
<1>5. m_blocks' = [m_blocks EXCEPT ![i] = held]
  BY <1>1 DEF Acquire
<1> HIDE DEF held
<1>6. /\ m_blocks' \in Seq(Blocks) /\ Len(m_blocks') = Len(m_blocks)
      /\ \A j \in 1..Len(m_blocks) : m_blocks'[j] = IF j = i THEN held ELSE m_blocks[j]
  BY <1>2, <1>4, <1>5
<1>7. ListOK(m_blocks', m_heaps)
  <2>1. \A j \in 1..Len(m_blocks) : SpanOf(m_blocks'[j]) = SpanOf(m_blocks[j])
    BY <1>4, <1>6
  <2>2. \A j \in 1..Len(m_blocks) :
            /\ m_blocks'[j].free =>
                   m_blocks[j].free /\ m_blocks'[j].pending = m_blocks[j].pending
            /\ m_blocks'[j].pending = m_blocks[j].pending
    BY <1>4, <1>6
  <2> QED BY <1>2, <1>6, <2>1, <2>2, RetokenKeepsList
<1>8. call = "none" /\ UNCHANGED <<m_heaps, m_size, call, ite, deviceVars>>
  BY <1>1 DEF CallAcquire, Acquire
<1> QED BY <1>7, <1>8, ListStep

\* release
LEMMA ReleaseKeepsIInv ==
    ASSUME IInv, CallRelease
    PROVE  IInv'
<1>1. PICK i \in Positions, pending \in IssuedTokens \cup {NoToken} :
          /\ ~IsEmpty(pending) => pending.id < issued[pending.timeline]
          /\ AllUsesCovered({pending}, SpanOf(m_blocks[i]))
          /\ Release(i, pending)
  BY DEF CallRelease
<1>2. pending \in PendingTokens
  BY MaxCommandsAssumption DEF PendingTokens, Tokens, IssuedTokens
<1>3. UsesOK /\ ListOK(m_blocks, m_heaps) /\ m_heaps \in [Heaps -> Nat]
  BY UsesAreOK DEF IInv, PoolTypeOK
<1>4. i \in 1..Len(m_blocks)
  BY DEF Positions
<1>5. ListOK(m_blocks', m_heaps)
  BY <1>1, <1>2, <1>3, <1>4, ReleaseKeepsList DEF Release
<1>6. call = "none" /\ UNCHANGED <<m_heaps, m_size, call, ite, deviceVars>>
  BY <1>1 DEF CallRelease, Release
<1> QED BY <1>5, <1>6, ListStep

\* A free block whose token has finished is used by nothing.
LEMMA CompleteIsIdle ==
    ASSUME IInv, NEW i \in 1..Len(m_blocks), m_blocks[i].free, IsComplete(m_blocks[i].pending),
           NEW use \in running, Overlaps(use, SpanOf(m_blocks[i]))
    PROVE  FALSE
<1>1. /\ m_blocks \in Seq(Blocks) /\ Covered(m_blocks)
      /\ finished \in [Timelines -> Nat]
      /\ use \in [timeline : Timelines, id : Nat, heap : Heaps, offset : Nat, size : Nat]
      /\ finished[use.timeline] <= use.id
  BY DEF IInv, ListOK, PoolTypeOK, DeviceTypeOK
<1>2. Covers(m_blocks[i].pending, use)
  BY <1>1 DEF Covered, AllUsesCovered
<1>3. m_blocks[i].pending.timeline = use.timeline /\ use.id <= m_blocks[i].pending.id
  BY <1>2 DEF Covers
<1>4. ~IsEmpty(m_blocks[i].pending)
  BY <1>1, <1>3, NoTimelineAssumption DEF IsEmpty
<1>5. m_blocks[i].pending.id < finished[use.timeline]
  BY <1>3, <1>4 DEF IsComplete
<1>6. m_blocks[i].pending.id \in Nat /\ finished[use.timeline] \in Nat /\ use.id \in Nat
  <2>1. m_blocks[i].pending \in PendingTokens
    BY <1>1, BlocksAreBlocks
  <2> QED BY <1>1, <2>1 DEF PendingTokens, Tokens, NoToken
<1> QED BY <1>1, <1>3, <1>5, <1>6

\* The uses of a block that is in the list lie in a heap, so a step that leaves
\* the heaps alone leaves them where they are.
LEMMA HeapsUnchanged ==
    ASSUME IInv, UNCHANGED m_heaps
    PROVE  \A use \in running : use.size > 0 /\ use.offset + use.size <= m_heaps'[use.heap]
BY DEF IInv, NoCommandOnReturnedMemory

\* reset_pending, as far as it empties the tokens.
LEMMA ResetPendingKeepsIInv ==
    ASSUME IInv, CallResetPending
    PROVE  IInv'
<1>1. /\ \A token \in EnumeratePending : IsComplete(token)
      /\ ResetPending /\ UNCHANGED deviceVars
  BY DEF CallResetPending
<1>2. /\ ListOK(m_blocks, m_heaps) /\ m_heaps \in [Heaps -> Nat] /\ DeviceTypeOK
      /\ m_blocks \in Seq(Blocks) /\ TokensIssued(m_blocks)
  BY DEF IInv, PoolTypeOK, ListOK
<1>3. \A i \in 1..Len(m_blocks) : m_blocks[i].free => IsComplete(m_blocks[i].pending)
  BY <1>1, <1>2, ReportedAreEnough DEF Positions
<1> DEFINE emptied(i) == [m_blocks[i] EXCEPT !.pending = NoToken]
<1>4. ASSUME NEW i \in 1..Len(m_blocks)
      PROVE  /\ emptied(i) \in Blocks
             /\ emptied(i).pending = NoToken
             /\ emptied(i).free = m_blocks[i].free
             /\ SpanOf(emptied(i)) = SpanOf(m_blocks[i])
  <2>1. m_blocks[i] \in Blocks
    BY <1>2
  <2> QED BY <2>1 DEF Blocks, SpanOf
<1>5. m_blocks' = [i \in 1..Len(m_blocks) |->
                      IF m_blocks[i].free THEN emptied(i) ELSE m_blocks[i]]
  BY <1>1 DEF ResetPending, Positions
<1> HIDE DEF emptied
<1>6. /\ m_blocks' \in Seq(Blocks) /\ Len(m_blocks') = Len(m_blocks)
      /\ \A i \in 1..Len(m_blocks) :
            m_blocks'[i] = IF m_blocks[i].free THEN emptied(i) ELSE m_blocks[i]
  <2>1. Len(m_blocks) \in Nat /\ \A i \in 1..Len(m_blocks) : m_blocks[i] \in Blocks
    BY <1>2
  <2>2. m_blocks' \in [1..Len(m_blocks) -> Blocks]
    BY <1>4, <1>5, <2>1
  <2>3. m_blocks' \in Seq(Blocks)
    BY <2>1, <2>2
  <2> QED BY <1>5, <2>1, <2>2, <2>3
<1>7. Tiles(m_blocks', m_heaps)
  <2>1. \A i \in 1..Len(m_blocks) : SpanOf(m_blocks'[i]) = SpanOf(m_blocks[i])
    BY <1>4, <1>6
  <2> QED BY <1>2, <1>6, <2>1, SameSpansTile DEF ListOK
<1>8. Covered(m_blocks')
  <2> SUFFICES ASSUME NEW i \in 1..Len(m_blocks), m_blocks'[i].free,
                      NEW use \in running, Overlaps(use, SpanOf(m_blocks'[i]))
               PROVE  FALSE
    BY <1>6 DEF Covered, AllUsesCovered
  <2>1. m_blocks[i].free /\ SpanOf(m_blocks'[i]) = SpanOf(m_blocks[i])
    BY <1>4, <1>6
  <2> QED BY <1>3, <2>1, CompleteIsIdle
<1>9. TokensIssued(m_blocks')
  BY <1>2, <1>4, <1>6 DEF TokensIssued, IsEmpty, NoToken
<1>10. ListOK(m_blocks', m_heaps')
  BY <1>1, <1>6, <1>7, <1>8, <1>9 DEF ListOK, ResetPending
<1>11. /\ m_heaps' \in [Heaps -> Nat] /\ m_size' \in Int /\ ite' \in Nat /\ ite' >= 1
       /\ call' = "reset_pending" /\ UNCHANGED deviceVars /\ UNCHANGED m_heaps
  BY <1>1 DEF ResetPending, IInv, PoolTypeOK
<1>12. \A i \in 1..Len(m_blocks') : m_blocks'[i].free => m_blocks'[i].pending = NoToken
  BY <1>4, <1>6
<1>13. \A use \in running : use.size > 0 /\ use.offset + use.size <= m_heaps'[use.heap]
  BY <1>11, HeapsUnchanged
<1> QED BY <1>10, <1>11, <1>12, <1>13, PoolStep

Emptied(s) == \A j \in 1..Len(s) : s[j].free => s[j].pending = NoToken

\* Free blocks without tokens stay without them when two are joined.
LEMMA JoinKeepsEmptied ==
    ASSUME NEW s \in Seq(Blocks), NEW i \in 1..Len(s) - 1,
           Emptied(s)
    PROVE  Emptied(Join(s, i, NoToken))
<1> DEFINE t == Join(s, i, NoToken)
<1>1. NoToken \in PendingTokens
  BY DEF PendingTokens
<1>2. Len(t) = Len(s) - 1
  BY <1>1, JoinIndexAll
<1>3. \A j \in 1..Len(s) - 1 : /\ j < i => t[j] = s[j]
                               /\ j > i => t[j] = s[j + 1]
  BY <1>1, JoinOthers
<1>4. \A j \in 1..Len(s) - 1 : t[j].pending =
          IF j < i THEN s[j].pending ELSE IF j = i THEN NoToken ELSE s[j + 1].pending
  BY <1>1, JoinPending
<1> HIDE DEF t
<1> SUFFICES ASSUME NEW j \in 1..Len(s) - 1, t[j].free
             PROVE  t[j].pending = NoToken
  BY <1>2 DEF Emptied, t
<1>5. j \in 1..Len(s) /\ j + 1 \in 1..Len(s) /\ (j < i \/ j = i \/ j > i)
  OBVIOUS
<1>6. /\ s[j].free => s[j].pending = NoToken
      /\ s[j + 1].free => s[j + 1].pending = NoToken
  BY <1>5 DEF Emptied
<1>7. CASE j < i
  <2>1. t[j] = s[j]
    BY <1>3, <1>7
  <2> QED BY <1>6, <2>1
<1>8. CASE j = i
  <2>1. t[j].pending = NoToken
    BY <1>4, <1>8
  <2> QED BY <2>1
<1>9. CASE j > i
  <2>1. t[j] = s[j + 1]
    BY <1>3, <1>9
  <2> QED BY <1>6, <2>1
<1> QED BY <1>5, <1>7, <1>8, <1>9

\* reset_pending, as far as it absorbs a free neighbour.
LEMMA AbsorbNextKeepsIInv ==
    ASSUME IInv, AbsorbNext, UNCHANGED deviceVars
    PROVE  IInv'
<1>1. /\ call = "reset_pending" /\ CanAbsorb
      /\ m_blocks' = Join(m_blocks, ite, m_blocks[ite].pending)
      /\ UNCHANGED <<m_heaps, m_size, call, ite>>
  BY DEF AbsorbNext
<1>2. /\ ListOK(m_blocks, m_heaps) /\ m_heaps \in [Heaps -> Nat]
      /\ m_blocks \in Seq(Blocks) /\ UsesOK
  BY UsesAreOK DEF IInv, PoolTypeOK
<1>3. ite \in Nat /\ ite >= 1
  BY <1>1 DEF IInv, PoolTypeOK
<1>4. ite \in 1..Len(m_blocks) - 1 /\ ite \in 1..Len(m_blocks) /\ ite + 1 \in 1..Len(m_blocks)
  BY <1>1, <1>2, <1>3 DEF CanAbsorb
<1>5. /\ m_blocks[ite].free /\ m_blocks[ite + 1].free
      /\ m_blocks[ite].heap = m_blocks[ite + 1].heap
  BY <1>1 DEF CanAbsorb
<1>6. \A i \in 1..Len(m_blocks) : m_blocks[i].free => m_blocks[i].pending = NoToken
  BY <1>1 DEF IInv, EmptiedWhileResetting
<1>7. m_blocks[ite].pending = NoToken /\ m_blocks[ite + 1].pending = NoToken
  BY <1>4, <1>5, <1>6
<1>8. NoToken \in PendingTokens /\ IsEmpty(NoToken) /\ IsComplete(NoToken)
  BY DEF PendingTokens, IsEmpty, NoToken, IsComplete
<1>9. ASSUME NEW use \in running,
             \/ Overlaps(use, SpanOf(m_blocks[ite]))
             \/ Overlaps(use, SpanOf(m_blocks[ite + 1]))
      PROVE  FALSE
  BY <1>4, <1>5, <1>7, <1>8, <1>9, CompleteIsIdle
<1>10. m_blocks' = Join(m_blocks, ite, NoToken)
  BY <1>1, <1>7
<1>11. ListOK(Join(m_blocks, ite, NoToken), m_heaps)
  BY <1>2, <1>4, <1>5, <1>8, <1>9, JoinKeepsList
<1>12. ListOK(m_blocks', m_heaps')
  BY <1>1, <1>10, <1>11
<1>13. \A i \in 1..Len(m_blocks') : m_blocks'[i].free => m_blocks'[i].pending = NoToken
  <2>1. Emptied(m_blocks)
    BY <1>6 DEF Emptied
  <2>2. Emptied(Join(m_blocks, ite, NoToken))
    BY <1>2, <1>4, <2>1, JoinKeepsEmptied
  <2> QED BY <1>10, <2>2 DEF Emptied
<1>14. \A use \in running : use.size > 0 /\ use.offset + use.size <= m_heaps'[use.heap]
  BY <1>1, HeapsUnchanged
<1>15. /\ m_heaps' \in [Heaps -> Nat] /\ m_size' \in Int /\ ite' \in Nat /\ ite' >= 1
       /\ call' = "reset_pending"
  BY <1>1, <1>2, <1>3 DEF IInv, PoolTypeOK
<1> QED BY <1>12, <1>13, <1>14, <1>15, PoolStep

\* The loops' other steps.
LEMMA LoopKeepsIInv ==
    ASSUME IInv, StepOver \/ EndReset \/ EndReleaseUnusedHeaps, UNCHANGED deviceVars
    PROVE  IInv'
<1>1. UNCHANGED <<m_blocks, m_heaps, m_size>>
  BY DEF StepOver, EndReset, EndReleaseUnusedHeaps, poolState
<1>2. /\ call' \in {"none", call} /\ ite' \in Nat
      /\ call' = "reset_pending" => ite' >= 1
  BY DEF StepOver, EndReset, EndReleaseUnusedHeaps, IInv, PoolTypeOK
<1>3. /\ ListOK(m_blocks', m_heaps') /\ m_heaps' \in [Heaps -> Nat] /\ m_size' \in Int
      /\ call' \in {"none", "reset_pending", "release_unused_heaps"}
  BY <1>1, <1>2 DEF IInv, PoolTypeOK
<1>4. \A use \in running : use.size > 0 /\ use.offset + use.size <= m_heaps'[use.heap]
  BY <1>1, HeapsUnchanged
<1>5. call' = "reset_pending" =>
          \A i \in 1..Len(m_blocks') : m_blocks'[i].free => m_blocks'[i].pending = NoToken
  BY <1>1, <1>2 DEF IInv, EmptiedWhileResetting
<1>6. call' = "release_unused_heaps" =>
          \A i \in 1..Len(m_blocks') : m_blocks'[i].free => IsComplete(m_blocks'[i].pending)
  BY <1>1, <1>2 DEF IInv, IdleWhileGivingBack
<1> QED BY <1>2, <1>3, <1>4, <1>5, <1>6, PoolStep

\* release_unused_heaps, as far as it starts.
LEMMA CallReleaseUnusedHeapsKeepsIInv ==
    ASSUME IInv, CallReleaseUnusedHeaps
    PROVE  IInv'
<1>1. /\ \A i \in Positions : m_blocks[i].free => IsComplete(m_blocks[i].pending)
      /\ call' = "release_unused_heaps"
      /\ UNCHANGED <<m_blocks, m_heaps, m_size, ite>>
      /\ UNCHANGED deviceVars
  BY DEF CallReleaseUnusedHeaps, ReleaseUnusedHeaps
<1>2. /\ ListOK(m_blocks', m_heaps') /\ m_heaps' \in [Heaps -> Nat] /\ m_size' \in Int
      /\ ite' \in Nat
  BY <1>1 DEF IInv, PoolTypeOK
<1>3. \A use \in running : use.size > 0 /\ use.offset + use.size <= m_heaps'[use.heap]
  BY <1>1, HeapsUnchanged
<1>4. \A i \in 1..Len(m_blocks') : m_blocks'[i].free => IsComplete(m_blocks'[i].pending)
  BY <1>1 DEF Positions
<1> QED BY <1>1, <1>2, <1>3, <1>4, PoolStep

\* release_unused_heaps, as far as it gives one heap back.
LEMMA ReleaseUnusedHeapKeepsIInv ==
    ASSUME IInv, NEW i \in Positions, ReleaseUnusedHeap(i), UNCHANGED deviceVars
    PROVE  IInv'
<1> DEFINE heap == m_blocks[i].heap
<1>1. /\ call = "release_unused_heaps"
      /\ m_blocks[i].free /\ ~IsPartition(m_blocks, i)
      /\ m_blocks' = RemoveAt(m_blocks, i)
      /\ m_heaps' = [m_heaps EXCEPT ![m_blocks[i].heap] = 0]
      /\ m_size' = m_size - m_heaps[m_blocks[i].heap]
      /\ UNCHANGED <<call, ite>>
  BY DEF ReleaseUnusedHeap
<1>2. /\ ListOK(m_blocks, m_heaps) /\ m_heaps \in [Heaps -> Nat]
      /\ m_blocks \in Seq(Blocks) /\ Tiles(m_blocks, m_heaps)
      /\ i \in 1..Len(m_blocks)
  BY DEF IInv, PoolTypeOK, ListOK, Positions
<1>3. /\ heap \in Heaps
      /\ m_blocks[i].offset = 0 /\ m_blocks[i].size = m_heaps[heap]
  BY <1>1, <1>2, UnpartitionedIsWhole, BlocksAreBlocks
<1>4. ListOK(m_blocks', m_heaps')
  BY <1>1, <1>2, ReleaseHeapKeepsList
<1>5. /\ m_heaps' \in [Heaps -> Nat] /\ m_size' \in Int /\ ite' \in Nat
      /\ call' = "release_unused_heaps"
  <2>1. m_heaps[heap] \in Nat
    BY <1>2, <1>3
  <2> QED BY <1>1, <1>2, <1>3, <2>1 DEF IInv, PoolTypeOK
<1>6. \A j \in 1..Len(m_blocks) : m_blocks[j].free => IsComplete(m_blocks[j].pending)
  BY <1>1 DEF IInv, IdleWhileGivingBack
<1>7. \A j \in 1..Len(m_blocks') : m_blocks'[j].free => IsComplete(m_blocks'[j].pending)
  <2>1. /\ Len(m_blocks') = Len(m_blocks) - 1
        /\ \A j \in 1..Len(m_blocks) - 1 :
              m_blocks'[j] = IF j < i THEN m_blocks[j] ELSE m_blocks[j + 1]
    BY <1>1, <1>2, RemoveAtIndex
  <2>2. \A j \in 1..Len(m_blocks) - 1 : j \in 1..Len(m_blocks) /\ j + 1 \in 1..Len(m_blocks)
    BY <1>2
  <2> QED BY <1>6, <2>1, <2>2
<1>8. ASSUME NEW use \in running
      PROVE  use.size > 0 /\ use.offset + use.size <= m_heaps'[use.heap]
  <2>1. use.heap \in Heaps /\ use.offset \in Nat /\ use.size \in Nat
    BY DEF IInv, PoolTypeOK, DeviceTypeOK
  <2>2. use.size > 0 /\ use.offset + use.size <= m_heaps[use.heap]
    BY DEF IInv, NoCommandOnReturnedMemory
  <2>3. use.heap # heap
    <3> SUFFICES ASSUME use.heap = heap
                 PROVE  FALSE
      OBVIOUS
    <3>1. m_heaps[heap] \in Nat
      BY <1>2, <1>3
    <3>2. Overlaps(use, SpanOf(m_blocks[i]))
      BY <1>3, <2>1, <2>2, <3>1 DEF Overlaps, SpanOf
    <3> QED BY <1>1, <1>2, <1>6, <3>2, CompleteIsIdle
  <2> QED BY <1>1, <1>2, <2>1, <2>2, <2>3
<1> QED BY <1>4, <1>5, <1>7, <1>8, PoolStep

\* ~memory_block_pool
LEMMA DestroyPoolKeepsIInv ==
    ASSUME IInv, CallDestroyPool
    PROVE  IInv'
<1>1. /\ call = "none" /\ running = {}
      /\ m_blocks' = <<>>
      /\ m_heaps' = [heap \in Heaps |-> 0]
      /\ m_size' = 0
      /\ UNCHANGED <<call, ite>> /\ UNCHANGED deviceVars
  BY DEF CallDestroyPool, DestroyPool
<1>2. m_blocks' \in Seq(Blocks) /\ Len(m_blocks') = 0
  BY <1>1
<1>3. Tiles(m_blocks', m_heaps')
  BY <1>1, <1>2 DEF Tiles, InHeaps, InAddressOrder, NeighboursMeet, EndsMeet, HeapsHaveBlocks
<1>4. ListOK(m_blocks', m_heaps')
  BY <1>2, <1>3 DEF ListOK, Covered, TokensIssued
<1>5. m_heaps' \in [Heaps -> Nat] /\ m_size' \in Int /\ ite' \in Nat /\ call' = "none"
  BY <1>1 DEF IInv, PoolTypeOK
<1> QED BY <1>1, <1>4, <1>5, PoolStep

\* memory_block::set_pending by whoever holds the block.
LEMMA HolderKeepsIInv ==
    ASSUME IInv, HolderSetsPending
    PROVE  IInv'
<1>1. PICK i \in Positions : ~m_blocks[i].free /\ SetPending(i, NoToken)
  BY DEF HolderSetsPending
<1>2. /\ ListOK(m_blocks, m_heaps) /\ m_heaps \in [Heaps -> Nat]
      /\ m_blocks \in Seq(Blocks) /\ i \in 1..Len(m_blocks)
  BY DEF IInv, PoolTypeOK, Positions
<1> DEFINE held == [m_blocks[i] EXCEPT !.pending = NoToken]
<1>3. /\ held \in Blocks /\ ~held.free /\ held.pending = NoToken
      /\ SpanOf(held) = SpanOf(m_blocks[i])
  <2>1. m_blocks[i] \in Blocks
    BY <1>2
  <2> QED BY <1>1, <2>1 DEF Blocks, SpanOf
<1>4. m_blocks' = [m_blocks EXCEPT ![i] = held]
  BY <1>1 DEF SetPending
<1> HIDE DEF held
<1>5. /\ m_blocks' \in Seq(Blocks) /\ Len(m_blocks') = Len(m_blocks)
      /\ \A j \in 1..Len(m_blocks) : m_blocks'[j] = IF j = i THEN held ELSE m_blocks[j]
  BY <1>2, <1>3, <1>4
<1>6. IsEmpty(NoToken)
  BY DEF IsEmpty, NoToken
<1>7. \A j \in 1..Len(m_blocks) :
          m_blocks'[j].free => m_blocks[j].free /\ m_blocks'[j] = m_blocks[j]
  BY <1>3, <1>5
<1>8. ListOK(m_blocks', m_heaps)
  <2>1. \A j \in 1..Len(m_blocks) : SpanOf(m_blocks'[j]) = SpanOf(m_blocks[j])
    BY <1>3, <1>5
  <2>2. \A j \in 1..Len(m_blocks) :
            m_blocks'[j].pending = m_blocks[j].pending \/ IsEmpty(m_blocks'[j].pending)
    BY <1>3, <1>5, <1>6
  <2>3. \A j \in 1..Len(m_blocks) : m_blocks'[j].free =>
            m_blocks[j].free /\ m_blocks'[j].pending = m_blocks[j].pending
    BY <1>7
  <2> QED BY <1>2, <1>5, <2>1, <2>2, <2>3, RetokenKeepsList
<1>9. UNCHANGED <<m_heaps, m_size, call, ite>> /\ UNCHANGED deviceVars
  BY <1>1 DEF HolderSetsPending, SetPending
<1>10. /\ ListOK(m_blocks', m_heaps') /\ m_heaps' \in [Heaps -> Nat] /\ m_size' \in Int
       /\ call' \in {"none", "reset_pending", "release_unused_heaps"}
       /\ ite' \in Nat /\ (call' = "reset_pending" => ite' >= 1)
  BY <1>8, <1>9 DEF IInv, PoolTypeOK
<1>11. \A use \in running : use.size > 0 /\ use.offset + use.size <= m_heaps'[use.heap]
  BY <1>9, HeapsUnchanged
<1>12. call' = "reset_pending" =>
           \A j \in 1..Len(m_blocks') : m_blocks'[j].free => m_blocks'[j].pending = NoToken
  BY <1>5, <1>7, <1>9 DEF IInv, EmptiedWhileResetting
<1>13. call' = "release_unused_heaps" =>
           \A j \in 1..Len(m_blocks') : m_blocks'[j].free => IsComplete(m_blocks'[j].pending)
  BY <1>5, <1>7, <1>9 DEF IInv, IdleWhileGivingBack
<1> QED BY <1>9, <1>10, <1>11, <1>12, <1>13, PoolStep

\* No two blocks of a list share memory.
LEMMA BlocksAreApart ==
    ASSUME NEW s \in Seq(Blocks), NEW heaps \in [Heaps -> Nat], Tiles(s, heaps),
           NEW i \in 1..Len(s), NEW j \in 1..Len(s), i # j
    PROVE  ~Overlaps(SpanOf(s[i]), SpanOf(s[j]))
<1>1. /\ s[i].offset \in Nat /\ s[i].size \in Nat
      /\ s[j].offset \in Nat /\ s[j].size \in Nat
  BY BlocksAreBlocks
<1>2. s[i].heap = s[j].heap => End(s[i]) <= s[j].offset \/ End(s[j]) <= s[i].offset
  BY DEF Tiles, InAddressOrder
<1> QED BY <1>1, <1>2 DEF Overlaps, SpanOf, End

\* A command starts to use a block that is handed out.
LEMMA UseBlockKeepsIInv ==
    ASSUME IInv, UseBlock
    PROVE  IInv'
<1>1. PICK i \in Positions, timeline \in Timelines :
          ~m_blocks[i].free /\ Issue(timeline, {SpanOf(m_blocks[i])})
  BY DEF UseBlock
<1> DEFINE new == [timeline |-> timeline, id |-> issued[timeline], heap |-> m_blocks[i].heap,
                   offset |-> m_blocks[i].offset, size |-> m_blocks[i].size]
<1>2. /\ DeviceTypeOK /\ m_blocks \in Seq(Blocks) /\ i \in 1..Len(m_blocks)
      /\ m_heaps \in [Heaps -> Nat]
      /\ Tiles(m_blocks, m_heaps) /\ Covered(m_blocks) /\ TokensIssued(m_blocks)
  BY DEF IInv, PoolTypeOK, ListOK, Positions
<1>3. /\ issued' = [issued EXCEPT ![timeline] = issued[timeline] + 1]
      /\ finished' = finished
      /\ running' = running \cup {new}
      /\ UNCHANGED <<m_blocks, m_heaps, m_size, call, ite>>
  <2>1. UNCHANGED poolVars
    BY DEF UseBlock
  <2> QED BY <1>1, <2>1 DEF Issue, SpanOf, poolVars
<1>4. /\ m_blocks[i].heap \in Heaps /\ m_blocks[i].offset \in Nat /\ m_blocks[i].size \in Nat
      /\ m_blocks[i].size > 0
      /\ m_blocks[i].offset + m_blocks[i].size <= m_heaps[m_blocks[i].heap]
  BY <1>2, BlocksAreBlocks DEF Tiles, InHeaps, End
<1>5. issued \in [Timelines -> Nat] /\ finished \in [Timelines -> Nat]
  BY <1>2 DEF DeviceTypeOK
<1>6. /\ new \in [timeline : Timelines, id : Nat, heap : Heaps, offset : Nat, size : Nat]
      /\ new.timeline = timeline /\ new.id = issued[timeline]
      /\ new.heap = m_blocks[i].heap
      /\ new.offset = m_blocks[i].offset /\ new.size = m_blocks[i].size
  BY <1>4, <1>5
<1> HIDE DEF new
<1>7. /\ issued' \in [Timelines -> Nat]
      /\ \A l \in Timelines : issued[l] <= issued'[l]
      /\ issued[timeline] < issued'[timeline]
  BY <1>3, <1>5
<1>8. DeviceTypeOK'
  <2>1. \A l \in Timelines : finished[l] <= issued'[l]
    BY <1>2, <1>5, <1>7 DEF DeviceTypeOK
  <2>2. ASSUME NEW use \in running'
        PROVE  finished[use.timeline] <= use.id /\ use.id < issued'[use.timeline]
    <3>1. CASE use = new
      BY <1>2, <1>5, <1>6, <1>7, <3>1 DEF DeviceTypeOK
    <3>2. CASE use \in running
      <4>1. use.timeline \in Timelines /\ use.id \in Nat
        BY <1>2, <3>2 DEF DeviceTypeOK
      <4>2. finished[use.timeline] <= use.id /\ use.id < issued[use.timeline]
        BY <1>2, <3>2 DEF DeviceTypeOK
      <4> QED BY <1>5, <1>7, <4>1, <4>2
    <3> QED BY <1>3, <3>1, <3>2
  <2>3. running' \subseteq
            [timeline : Timelines, id : Nat, heap : Heaps, offset : Nat, size : Nat]
    BY <1>2, <1>3, <1>6 DEF DeviceTypeOK
  <2> QED BY <1>3, <1>5, <1>7, <2>1, <2>2, <2>3 DEF DeviceTypeOK
<1>9. PoolTypeOK'
  BY <1>3, <1>8 DEF IInv, PoolTypeOK
<1>10. Covered(m_blocks)'
  <2> SUFFICES ASSUME NEW j \in 1..Len(m_blocks), m_blocks[j].free,
                      NEW use \in running', Overlaps(use, SpanOf(m_blocks[j]))
               PROVE  Covers(m_blocks[j].pending, use)
    BY <1>3 DEF Covered, AllUsesCovered, SpanOf
  <2>1. CASE use = new
    <3>1. Overlaps(SpanOf(m_blocks[i]), SpanOf(m_blocks[j]))
      BY <1>6, <2>1 DEF Overlaps, SpanOf
    <3> QED BY <1>1, <1>2, <3>1, BlocksAreApart
  <2>2. CASE use \in running
    BY <1>2, <2>2 DEF Covered, AllUsesCovered
  <2> QED BY <1>3, <2>1, <2>2
<1>11. TokensIssued(m_blocks)'
  <2> SUFFICES ASSUME NEW j \in 1..Len(m_blocks), ~IsEmpty(m_blocks[j].pending)
               PROVE  m_blocks[j].pending.id < issued'[m_blocks[j].pending.timeline]
    BY <1>3 DEF TokensIssued, IsEmpty
  <2>1. m_blocks[j].pending \in Tokens
    BY <1>2, BlocksAreBlocks DEF PendingTokens, IsEmpty, NoToken
  <2>2. m_blocks[j].pending.id < issued[m_blocks[j].pending.timeline]
    BY <1>2 DEF TokensIssued
  <2> QED BY <1>5, <1>7, <2>1, <2>2 DEF Tokens
<1>12. ListOK(m_blocks, m_heaps)'
  BY <1>2, <1>3, <1>10, <1>11 DEF ListOK
<1>13. NoCommandOnReturnedMemory'
  <2> SUFFICES ASSUME NEW use \in running'
               PROVE  use.size > 0 /\ use.offset + use.size <= m_heaps[use.heap]
    BY <1>3 DEF NoCommandOnReturnedMemory
  <2>1. CASE use = new
    BY <1>4, <1>6, <2>1
  <2>2. CASE use \in running
    BY <2>2 DEF IInv, NoCommandOnReturnedMemory
  <2> QED BY <1>3, <2>1, <2>2
<1>14. EmptiedWhileResetting' /\ IdleWhileGivingBack'
  BY <1>3 DEF IInv, EmptiedWhileResetting, IdleWhileGivingBack, IsComplete, IsEmpty
<1> QED BY <1>9, <1>12, <1>13, <1>14 DEF IInv

\* A command finishes.
LEMMA FinishKeepsIInv ==
    ASSUME IInv, FinishCommand
    PROVE  IInv'
<1>1. PICK timeline \in Timelines : Finish(timeline)
  BY DEF FinishCommand
<1>2. /\ DeviceTypeOK /\ m_blocks \in Seq(Blocks)
      /\ issued \in [Timelines -> Nat] /\ finished \in [Timelines -> Nat]
      /\ Tiles(m_blocks, m_heaps) /\ Covered(m_blocks) /\ TokensIssued(m_blocks)
  BY DEF IInv, PoolTypeOK, DeviceTypeOK, ListOK
<1>3. /\ finished[timeline] < issued[timeline]
      /\ finished' = [finished EXCEPT ![timeline] = finished[timeline] + 1]
      /\ running' = {use \in running :
                        ~(use.timeline = timeline /\ use.id = finished[timeline])}
      /\ issued' = issued
      /\ UNCHANGED <<m_blocks, m_heaps, m_size, call, ite>>
  <2>1. UNCHANGED poolVars
    BY DEF FinishCommand
  <2> QED BY <1>1, <2>1 DEF Finish, poolVars
<1>4. /\ finished' \in [Timelines -> Nat]
      /\ \A l \in Timelines : finished[l] <= finished'[l] /\ finished'[l] <= issued[l]
      /\ finished'[timeline] = finished[timeline] + 1
      /\ \A l \in Timelines : l # timeline => finished'[l] = finished[l]
  BY <1>2, <1>3 DEF DeviceTypeOK
<1>5. DeviceTypeOK'
  <2>1. ASSUME NEW use \in running'
        PROVE  finished'[use.timeline] <= use.id /\ use.id < issued[use.timeline]
    <3>1. use \in running /\ ~(use.timeline = timeline /\ use.id = finished[timeline])
      BY <1>3
    <3>2. use.timeline \in Timelines /\ use.id \in Nat
      BY <1>2, <3>1 DEF DeviceTypeOK
    <3>3. finished[use.timeline] <= use.id /\ use.id < issued[use.timeline]
      BY <1>2, <3>1 DEF DeviceTypeOK
    <3> QED BY <1>2, <1>4, <3>1, <3>2, <3>3
  <2>2. running' \subseteq
            [timeline : Timelines, id : Nat, heap : Heaps, offset : Nat, size : Nat]
    BY <1>2, <1>3 DEF DeviceTypeOK
  <2> QED BY <1>2, <1>3, <1>4, <2>1, <2>2 DEF DeviceTypeOK
<1>6. PoolTypeOK'
  BY <1>3, <1>5 DEF IInv, PoolTypeOK
<1>7. ListOK(m_blocks, m_heaps)'
  BY <1>2, <1>3 DEF ListOK, Covered, AllUsesCovered, TokensIssued
<1>8. NoCommandOnReturnedMemory'
  BY <1>3 DEF IInv, NoCommandOnReturnedMemory
<1>9. EmptiedWhileResetting'
  BY <1>3 DEF IInv, EmptiedWhileResetting
<1>10. IdleWhileGivingBack'
  <2> SUFFICES ASSUME call = "release_unused_heaps",
                      NEW i \in 1..Len(m_blocks), m_blocks[i].free,
                      ~IsEmpty(m_blocks[i].pending)
               PROVE  m_blocks[i].pending.id < finished'[m_blocks[i].pending.timeline]
    BY <1>3 DEF IdleWhileGivingBack, IsComplete, IsEmpty
  <2>1. m_blocks[i].pending \in Tokens
    BY <1>2, BlocksAreBlocks DEF PendingTokens, IsEmpty, NoToken
  <2>2. m_blocks[i].pending.id < finished[m_blocks[i].pending.timeline]
    BY DEF IInv, IdleWhileGivingBack, IsComplete
  <2> QED BY <1>2, <1>4, <2>1, <2>2 DEF Tokens
<1> QED BY <1>6, <1>7, <1>8, <1>9, <1>10 DEF IInv

----------------------------------------------------------------------------
(* The theorems.                                                           *)

\* A pool without heaps, on a device that was given nothing to do.
LEMMA InitIInv ==
    ASSUME Init
    PROVE  IInv
<1>1. /\ m_blocks = <<>> /\ Len(m_blocks) = 0 /\ m_blocks \in Seq(Blocks)
      /\ m_heaps = [heap \in Heaps |-> 0] /\ m_size = 0 /\ call = "none" /\ ite = 0
      /\ running = {}
  BY DEF Init, PoolInit, DeviceInit
<1>2. DeviceTypeOK
  BY DEF Init, DeviceInit, DeviceTypeOK
<1>3. PoolTypeOK
  BY <1>1, <1>2 DEF PoolTypeOK
<1>4. ListOK(m_blocks, m_heaps)
  BY <1>1 DEF ListOK, Tiles, InHeaps, InAddressOrder, NeighboursMeet, EndsMeet,
              HeapsHaveBlocks, Covered, TokensIssued
<1> QED BY <1>1, <1>3, <1>4 DEF IInv, NoCommandOnReturnedMemory, EmptiedWhileResetting,
                                IdleWhileGivingBack

\* A step in which nothing changes.
LEMMA StutterKeepsIInv ==
    ASSUME IInv, UNCHANGED vars
    PROVE  IInv'
BY DEF vars, poolVars, deviceVars, IInv, PoolTypeOK, DeviceTypeOK, ListOK, Covered,
       AllUsesCovered, TokensIssued, NoCommandOnReturnedMemory, EmptiedWhileResetting,
       IdleWhileGivingBack, IsComplete, IsEmpty

\* Every call a caller that keeps to the preconditions may make, every step of
\* the pool's loops and everything the device does keeps the invariant.
LEMMA NextKeepsIInv ==
    ASSUME IInv, [PoolNext]_vars
    PROVE  IInv'
<1>1. CASE CallRegisterHeap
  BY <1>1, RegisterHeapKeepsIInv
<1>2. CASE CallPartitionBlock
  BY <1>2, PartitionBlockKeepsIInv
<1>3. CASE CallAcquire
  BY <1>3, AcquireKeepsIInv
<1>4. CASE CallRelease
  BY <1>4, ReleaseKeepsIInv
<1>5. CASE CallResetPending
  BY <1>5, ResetPendingKeepsIInv
<1>6. CASE CallReleaseUnusedHeaps
  BY <1>6, CallReleaseUnusedHeapsKeepsIInv
<1>7. CASE CallDestroyPool
  BY <1>7, DestroyPoolKeepsIInv
<1>8. CASE HolderSetsPending
  BY <1>8, HolderKeepsIInv
<1>9. CASE PoolLoopStep
  <2>1. UNCHANGED deviceVars
    BY <1>9 DEF PoolLoopStep
  <2>2. CASE AbsorbNext
    BY <2>1, <2>2, AbsorbNextKeepsIInv
  <2>3. CASE StepOver \/ EndReset \/ EndReleaseUnusedHeaps
    BY <2>1, <2>3, LoopKeepsIInv
  <2>4. CASE \E i \in Positions : ReleaseUnusedHeap(i)
    BY <2>1, <2>4, ReleaseUnusedHeapKeepsIInv
  <2> QED BY <1>9, <2>2, <2>3, <2>4 DEF PoolLoopStep
<1>10. CASE UseBlock
  BY <1>10, UseBlockKeepsIInv
<1>11. CASE FinishCommand
  BY <1>11, FinishKeepsIInv
<1>12. CASE UNCHANGED vars
  BY <1>12, StutterKeepsIInv
<1> QED BY <1>1, <1>2, <1>3, <1>4, <1>5, <1>6, <1>7, <1>8, <1>9, <1>10, <1>11, <1>12
        DEF PoolNext

\* The invariant holds in every state the pool can reach.
THEOREM PoolInvariant == PoolSpec => []IInv
<1>1. Init => IInv
  BY InitIInv
<1>2. IInv /\ [PoolNext]_vars => IInv'
  BY NextKeepsIInv
<1> QED BY <1>1, <1>2, PTL DEF PoolSpec

\* The state of the pool is made of what the code can hold.
THEOREM PoolTypeCorrect == PoolSpec => []PoolTypeOK
<1>1. IInv => PoolTypeOK
  BY DEF IInv
<1> QED BY <1>1, PoolInvariant, PTL

\* Through every partition, merge and heap given back, the blocks cut every
\* heap up without gaps and without overlaps, in address order
\* (memory_block_pool::partition_block, consider_merging_*, reset_pending,
\* release_unused_heaps).
THEOREM PoolTilesItsHeaps == PoolSpec => []BlocksTileHeaps
<1>1. IInv => BlocksTileHeaps
  BY DEF IInv, ListOK, BlocksTileHeaps
<1> QED BY <1>1, PoolInvariant, PTL

\* However a free block was put together, waiting for the one token it carries
\* is waiting for everything that uses its memory (release, keep_later_pending,
\* partition_block, reset_pending).
THEOREM PoolTokensCover == PoolSpec => []FreeBlocksCovered
<1>1. IInv => FreeBlocksCovered
  BY DEF IInv, ListOK, FreeBlocksCovered
<1> QED BY <1>1, PoolInvariant, PTL

\* No heap is given back to the driver under a command that has not finished
\* (release_unused_heaps, ~memory_block_pool).
THEOREM PoolReturnsIdleHeaps == PoolSpec => []NoCommandOnReturnedMemory
<1>1. IInv => NoCommandOnReturnedMemory
  BY DEF IInv
<1> QED BY <1>1, PoolInvariant, PTL

----------------------------------------------------------------------------
(* The walk of reset_pending.                                              *)

\* No two neighbours of one heap among the first `last` of a list are free.
NoneApartUpTo(s, last) ==
    \A i \in 1..Len(s) :
        i < last /\ i < Len(s) /\ s[i].heap = s[i + 1].heap => ~s[i].free \/ ~s[i + 1].free

LEMMA WalkedIsNoneApart ==
    /\ WalkedPartMerged <=> (call = "reset_pending" => NoneApartUpTo(m_blocks, ite))
    /\ WalkedPartMerged' <=> (call' = "reset_pending" => NoneApartUpTo(m_blocks', ite'))
BY DEF WalkedPartMerged, NoneApartUpTo, Positions

\* Absorbing the neighbour after the walk's block leaves what was walked merged.
LEMMA JoinKeepsNoneApart ==
    ASSUME NEW s \in Seq(Blocks), NEW i \in 1..Len(s) - 1, NEW pending \in PendingTokens,
           s[i].free, NoneApartUpTo(s, i)
    PROVE  NoneApartUpTo(Join(s, i, pending), i)
<1> DEFINE t == Join(s, i, pending)
<1>1. Len(t) = Len(s) - 1
  BY JoinIndexAll
<1>2. \A j \in 1..Len(s) - 1 : j < i => t[j] = s[j]
  BY JoinOthers
<1>3. t[i].free = s[i].free /\ t[i].heap = s[i].heap
  <2> DEFINE joined == [s[i] EXCEPT !.size = s[i].size + s[i + 1].size, !.pending = pending]
  <2>1. t[i] = joined
    <3>1. \A j \in 1..Len(s) - 1 :
             t[j] = IF j < i THEN s[j] ELSE IF j = i THEN joined ELSE s[j + 1]
      BY JoinIndex
    <3>2. i \in 1..Len(s) - 1 /\ ~(i < i)
      OBVIOUS
    <3> HIDE DEF joined, t
    <3> QED BY <3>1, <3>2
  <2>2. s[i] \in Blocks
    OBVIOUS
  <2> QED BY <2>1, <2>2 DEF Blocks
<1> HIDE DEF t
<1> SUFFICES ASSUME NEW j \in 1..Len(s) - 1, j < i, t[j].heap = t[j + 1].heap
             PROVE  ~t[j].free \/ ~t[j + 1].free
  BY <1>1 DEF NoneApartUpTo, t
<1>4. s[j].heap = s[j + 1].heap => ~s[j].free \/ ~s[j + 1].free
  BY DEF NoneApartUpTo
<1>5. CASE j + 1 < i
  BY <1>2, <1>4, <1>5
<1>6. CASE j + 1 = i
  BY <1>2, <1>3, <1>4, <1>6
<1> QED BY <1>5, <1>6

\* Nothing the pool's callers do while it walks, and no step of the walk,
\* leaves free neighbours behind.
LEMMA StepKeepsWalked ==
    ASSUME IInv, WalkedPartMerged, [PoolNext]_vars
    PROVE  WalkedPartMerged'
<1>1. /\ m_blocks \in Seq(Blocks) /\ ite \in Nat
      /\ call = "reset_pending" => ite >= 1 /\ NoneApartUpTo(m_blocks, ite)
  BY WalkedIsNoneApart DEF IInv, PoolTypeOK
<1>2. CASE \/ CallRegisterHeap \/ CallPartitionBlock \/ CallAcquire \/ CallRelease
           \/ CallReleaseUnusedHeaps \/ CallDestroyPool
  <2>1. call' # "reset_pending"
    BY <1>2 DEF CallRegisterHeap, CallPartitionBlock, CallAcquire, CallRelease,
                CallReleaseUnusedHeaps, CallDestroyPool, RegisterHeap, PartitionBlock, Acquire,
                Release, ReleaseUnusedHeaps, DestroyPool
  <2> QED BY <2>1, WalkedIsNoneApart
<1>3. CASE CallResetPending
  <2>1. ite' = 1
    BY <1>3 DEF CallResetPending, ResetPending
  <2>2. NoneApartUpTo(m_blocks', ite')
    BY <2>1 DEF NoneApartUpTo
  <2> QED BY <2>2, WalkedIsNoneApart
<1>4. CASE HolderSetsPending
  <2>1. PICK i \in Positions : SetPending(i, NoToken)
    BY <1>4 DEF HolderSetsPending
  <2>2. m_blocks' = [m_blocks EXCEPT ![i].pending = NoToken] /\ UNCHANGED <<call, ite>>
    BY <2>1 DEF SetPending
  <2>3. /\ Len(m_blocks') = Len(m_blocks)
        /\ \A j \in 1..Len(m_blocks) : /\ m_blocks'[j].heap = m_blocks[j].heap
                                       /\ m_blocks'[j].free = m_blocks[j].free
    <3>1. m_blocks[i] \in Blocks
      BY <1>1 DEF Positions
    <3> QED BY <1>1, <2>2, <3>1 DEF Positions, Blocks
  <2>4. NoneApartUpTo(m_blocks, ite) => NoneApartUpTo(m_blocks', ite)
    BY <1>1, <2>3 DEF NoneApartUpTo
  <2> QED BY <1>1, <2>2, <2>4, WalkedIsNoneApart
<1>5. CASE AbsorbNext
  <2>1. /\ call = "reset_pending" /\ CanAbsorb
        /\ m_blocks' = Join(m_blocks, ite, m_blocks[ite].pending)
        /\ UNCHANGED <<call, ite>>
    BY <1>5 DEF AbsorbNext
  <2>2. ite \in 1..Len(m_blocks) - 1 /\ ite \in 1..Len(m_blocks) /\ m_blocks[ite].free
    BY <1>1, <2>1 DEF CanAbsorb
  <2>3. m_blocks[ite].pending \in PendingTokens
    BY <1>1, <2>2, BlocksAreBlocks
  <2>4. NoneApartUpTo(m_blocks', ite)
    BY <1>1, <2>1, <2>2, <2>3, JoinKeepsNoneApart
  <2> QED BY <2>1, <2>4, WalkedIsNoneApart
<1>6. CASE StepOver
  <2>1. /\ call = "reset_pending" /\ ~CanAbsorb /\ ite' = ite + 1
        /\ UNCHANGED <<m_blocks, call>>
    BY <1>6 DEF StepOver
  <2>2. NoneApartUpTo(m_blocks, ite + 1)
    <3> SUFFICES ASSUME NEW i \in 1..Len(m_blocks), i < ite + 1, i < Len(m_blocks),
                        m_blocks[i].heap = m_blocks[i + 1].heap
                 PROVE  ~m_blocks[i].free \/ ~m_blocks[i + 1].free
      BY DEF NoneApartUpTo
    <3>1. CASE i < ite
      BY <1>1, <2>1, <3>1 DEF NoneApartUpTo
    <3>2. CASE i = ite
      BY <2>1, <3>2 DEF CanAbsorb
    <3> QED BY <1>1, <3>1, <3>2
  <2> QED BY <2>1, <2>2, WalkedIsNoneApart
<1>7. CASE EndReset \/ EndReleaseUnusedHeaps \/ \E i \in Positions : ReleaseUnusedHeap(i)
  <2>1. call' # "reset_pending"
    BY <1>7 DEF EndReset, EndReleaseUnusedHeaps, ReleaseUnusedHeap
  <2> QED BY <2>1, WalkedIsNoneApart
<1>8. CASE UseBlock \/ FinishCommand \/ UNCHANGED vars
  <2>1. UNCHANGED <<m_blocks, call, ite>>
    BY <1>8 DEF UseBlock, FinishCommand, vars, poolVars
  <2> QED BY <1>1, <2>1, WalkedIsNoneApart
<1> QED BY <1>2, <1>3, <1>4, <1>5, <1>6, <1>7, <1>8 DEF PoolNext, PoolLoopStep

\* What reset_pending has walked past holds no free neighbours apart, whatever
\* the holders of the blocks in use and the device do meanwhile.
THEOREM PoolWalkMerges == PoolSpec => []WalkedPartMerged
<1>1. Init => IInv /\ WalkedPartMerged
  <2> SUFFICES ASSUME Init PROVE IInv /\ WalkedPartMerged
    OBVIOUS
  <2>1. call = "none"
    BY DEF Init, PoolInit
  <2> QED BY <2>1, InitIInv DEF WalkedPartMerged
<1>2. IInv /\ WalkedPartMerged /\ [PoolNext]_vars => IInv' /\ WalkedPartMerged'
  BY NextKeepsIInv, StepKeepsWalked
<1> QED BY <1>1, <1>2, PTL DEF PoolSpec
====
