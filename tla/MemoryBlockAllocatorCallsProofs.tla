---- MODULE MemoryBlockAllocatorCallsProofs ----
(***************************************************************************)
(* The allocator and the pool it calls, whoever calls it and however the   *)
(* calls interleave: free neighbours are merged, memory only runs out when *)
(* there is none, what is handed out holds what was asked for, and as long *)
(* as nothing is lost the pool is called as memory_block_pool asks to be.  *)
(* Rests on the invariant of MemoryBlockAllocatorProofs.                   *)
(***************************************************************************)
EXTENDS MemoryBlockAllocatorProofs

----------------------------------------------------------------------------
(* What each step does to the pool is a call the pool allows.              *)

\* What is held back goes back to the pool with a token that covers it.
LEMMA HeldIsReleased ==
    ASSUME AllocatorInv, NEW th \in Threads, pc[th] \in {"process", "wait_all"},
           NEW k \in 1..Len(m_pending), NEW i, i = PositionOf(m_pending[k].block),
           NEW pending \in PendingTokens, Given(pending, issued),
           CoversUses({pending}, SpanOf(m_blocks[i]), running), Release(i, pending),
           UNCHANGED deviceVars
    PROVE  CallRelease /\ i \in Positions /\ ~m_blocks[i].free
<1>1. /\ ListTypes /\ CommandsBounded /\ IInv /\ OwnersInv /\ call = "none"
  BY InDrain
<1> DEFINE c == EntryClaim("held", m_pending[k])
<1>2. c \in Claims /\ c.kind = "held" /\ c.block = m_pending[k].block
  BY <1>1, HeldClaimIs
<1> HIDE DEF c
<1>3. i \in Positions /\ ~m_blocks[i].free
  BY <1>1, <1>2, ClaimedPosition
<1>4. CallRelease
  BY <1>1, <1>2, ClaimReturned
<1> QED BY <1>3, <1>4

\* process
LEMMA ReadyIsReleased ==
    ASSUME AllocatorInv, NEW th \in Threads, pc[th] = "process", ReleaseReady,
           UNCHANGED deviceVars
    PROVE  /\ CallRelease
           /\ \E i \in Positions, pending \in PendingTokens :
                 ~m_blocks[i].free /\ Release(i, pending)
<1>1. PICK k \in 1..Len(m_pending) :
          /\ Ready(m_pending[k])
          /\ Release(PositionOf(m_pending[k].block), TokenOf(m_pending[k].tokens))
  BY DEF ReleaseReady
<1>2. /\ ListTypes /\ IInv /\ OwnersInv
  BY InDrain
<1> DEFINE c == EntryClaim("held", m_pending[k])
           i == PositionOf(m_pending[k].block)
<1>3. /\ c.tokens = m_pending[k].tokens /\ ClaimOK(c, issued)
      /\ CoversUses(c.tokens, SpanOf(m_blocks[i]), running)
  BY <1>2, HeldClaimIs
<1> HIDE DEF c
<1>4. /\ TokenOf(c.tokens) \in PendingTokens /\ Given(TokenOf(c.tokens), issued)
      /\ CoversUses({TokenOf(c.tokens)}, SpanOf(m_blocks[i]), running)
  BY <1>1, <1>3, FewTokensCover DEF Ready
<1> HIDE DEF i
<1>5. Release(i, TokenOf(c.tokens)) /\ i = PositionOf(m_pending[k].block)
  BY <1>1, <1>3 DEF i
<1>6. CallRelease /\ i \in Positions /\ ~m_blocks[i].free
  BY <1>4, <1>5, HeldIsReleased
<1> QED BY <1>4, <1>5, <1>6

\* wait_all
LEMMA OldestIsReleased ==
    ASSUME AllocatorInv, NEW th \in Threads, pc[th] = "wait_all", WaitOldest,
           UNCHANGED deviceVars
    PROVE  /\ CallRelease
           /\ \E i \in Positions, pending \in PendingTokens :
                 ~m_blocks[i].free /\ Release(i, pending)
<1>1. /\ m_pending # <<>>
      /\ \A token \in Head(m_pending).tokens : IsComplete(token)
      /\ Release(PositionOf(Head(m_pending).block), NoToken)
  BY DEF WaitOldest
<1>2. /\ ListTypes /\ IInv /\ OwnersInv
  BY InDrain
<1>3. m_pending \in Seq(Entries) /\ Len(m_pending) \in Nat
  BY <1>2 DEF ListTypes
<1>4. 1 \in 1..Len(m_pending) /\ Head(m_pending) = m_pending[1]
  BY <1>1, <1>3
<1> DEFINE c == EntryClaim("held", m_pending[1])
           i == PositionOf(m_pending[1].block)
<1>5. /\ m_pending[1] \in Entries
      /\ c.tokens = m_pending[1].tokens
      /\ CoversUses(c.tokens, SpanOf(m_blocks[i]), running)
  BY <1>2, <1>4, HeldClaimIs
<1>6. m_pending[1].tokens \in SUBSET PendingTokens /\ DeviceTypeOK
  BY <1>2, <1>5 DEF Entries, PendingTokens, IInv, PoolTypeOK
<1>7. CoversUses({NoToken}, SpanOf(m_blocks[i]), running)
  BY <1>1, <1>4, <1>5, <1>6, CompleteCoverNothing DEF CoversUses
<1>8. NoToken \in PendingTokens /\ Given(NoToken, issued)
  BY DEF PendingTokens, Given, IsEmpty, NoToken
<1> HIDE DEF i, c
<1>9. Release(i, NoToken) /\ i = PositionOf(m_pending[1].block)
  BY <1>1, <1>4 DEF i
<1>10. CallRelease /\ i \in Positions /\ ~m_blocks[i].free
  BY <1>4, <1>7, <1>8, <1>9, HeldIsReleased
<1> QED BY <1>8, <1>9, <1>10

\* recycle, when at most one token is left.
LEMMA RecycledIsReleased ==
    ASSUME AllocatorInv, NEW th \in Threads, RecycleReleases(th)
    PROVE  /\ CallRelease
           /\ \E i \in Positions, pending \in PendingTokens :
                 ~m_blocks[i].free /\ Release(i, pending)
<1> DEFINE c == HandClaim(th, pc[th], frame[th])
           i == BlockOf(th)
           pending == TokenOf(frame[th].tokens)
<1>1. /\ pc[th] = "recycle" /\ Cardinality(frame[th].tokens) < 2
      /\ Release(i, pending) /\ UNCHANGED deviceVars
  BY DEF RecycleReleases
<1>2. /\ CommandsBounded /\ IInv /\ OwnersInv /\ call = "none"
      /\ c \in Claims /\ c.kind = "recycled"
      /\ c.tokens = frame[th].tokens /\ i = PositionOf(c.block)
      /\ ClaimOK(c, issued)
      /\ CoversUses(c.tokens, SpanOf(m_blocks[i]), running)
  BY <1>1, InRecycle
<1> HIDE DEF c, i
<1>3. /\ pending \in PendingTokens /\ Given(pending, issued)
      /\ CoversUses({pending}, SpanOf(m_blocks[i]), running)
  BY <1>1, <1>2, FewTokensCover
<1> HIDE DEF pending
<1>4. i \in Positions /\ ~m_blocks[i].free
  BY <1>2, ClaimedPosition
<1>5. CallRelease
  BY <1>1, <1>2, <1>3, ClaimReturned
<1> QED BY <1>1, <1>3, <1>4, <1>5

\* The block that was found is acquired while it is free.
LEMMA AcquireIsPoolStep ==
    ASSUME AllocatorInv, NEW th \in Threads, AcquireBlock(th)
    PROVE  CallAcquire
<1>1. /\ pc[th] = "acquire" /\ Acquire(BlockOf(th)) /\ UNCHANGED deviceVars
  BY DEF AcquireBlock, Goto
<1>2. pc[th] \in LockedSteps /\ frame[th].trim_for \in {"none", "allocate"} /\ call = "none"
  BY <1>1, LiveRequest
<1>3. IInv /\ TakenBy(pc[th], frame[th], FreeIn(m_blocks))
  BY <1>2, LiveInPool
<1>4. BlockOf(th) \in Positions /\ m_blocks[BlockOf(th)].free
  BY <1>1, <1>3, TakenPosition
<1> QED BY <1>1, <1>2, <1>4 DEF CallAcquire

\* The thread forgets a token that it saw complete, of a block in its hands.
LEMMA ForgetIsPoolStep ==
    ASSUME AllocatorInv, NEW th \in Threads, ForgetPending(th)
    PROVE  HolderSetsPending
<1> DEFINE i == BlockOf(th)
           loan == LoanOf(m_blocks[i])
<1>1. pc[th] = "set_pending" /\ SetPending(i, NoToken) /\ UNCHANGED deviceVars
  BY DEF ForgetPending, Goto
<1>2. IInv /\ OwnersInv /\ ThreadsKnow
  BY <1>1, LiveOutside
<1>3. pc[th] \in HandSteps
  BY <1>1 DEF HandSteps
<1>4. /\ i \in Positions /\ ~m_blocks[i].free /\ loan \in LentBlocks
      /\ AddressOf(loan) = frame[th].block
  BY <1>2, <1>3, BlockInHand
<1>5. Given(loan.pending, finished)
  BY <1>1, <1>2, <1>4 DEF ThreadsKnow, SeenBy
<1>6. IsComplete(m_blocks[i].pending)
  BY <1>5, LoanParts DEF Given, IsComplete
<1> QED BY <1>1, <1>4, <1>6 DEF HolderSetsPending

\* A command uses the memory of a buffer, which is handed out.
LEMMA SubmitIsPoolStep ==
    ASSUME AllocatorInv, NEW th \in Threads, Submit(th)
    PROVE  UseBlock
<1>1. PICK buffer \in buffers, timeline \in Timelines :
          /\ issued[timeline] < MaxCommands
          /\ Issue(timeline, {SpanOf(m_blocks[PositionOf(buffer.block)])})
  BY DEF Submit
<1> DEFINE i == PositionOf(buffer.block)
           c == EntryClaim("buffer", buffer)
<1>2. IInv /\ OwnersInv
  <2>1. Standing
    BY DEF AllocatorInv, EndInv
  <2> QED BY <2>1 DEF AllocatorInv, StandingInv
<1>3. c \in Claims /\ c.block = buffer.block
  BY ClaimsByKind, ClaimParts DEF BufferClaims, EntryClaims
<1> HIDE DEF c
<1>4. i \in Positions /\ ~m_blocks[i].free
  BY <1>2, <1>3, ClaimedPosition
<1> QED BY <1>1, <1>4 DEF UseBlock, Submit

----------------------------------------------------------------------------
(* Free neighbours that one token could speak for: lists of blocks.        *)

\* The neighbours at i and i + 1 are not both free, or no token covers both.
Apart(s, i) ==
    s[i].free /\ s[i + 1].free /\ s[i].heap = s[i + 1].heap
    => s[i].pending.timeline # s[i + 1].pending.timeline

\* A block that was put together of two is to its neighbours as they were.
LEMMA JoinStaysApart ==
    ASSUME NEW s \in Seq(Blocks), NEW i \in 1..Len(s) - 1, NEW pending \in PendingTokens,
           s[i].free = s[i + 1].free, s[i].heap = s[i + 1].heap,
           pending.timeline = s[i].pending.timeline,
           pending.timeline = s[i + 1].pending.timeline,
           NEW t, t = Join(s, i, pending)
    PROVE  \A j \in 1..Len(t) - 1 : /\ j < i /\ Apart(s, j) => Apart(t, j)
                                    /\ j >= i /\ Apart(s, j + 1) => Apart(t, j)
<1> DEFINE joined == [s[i] EXCEPT !.size = s[i].size + s[i + 1].size, !.pending = pending]
<1>0. /\ Join(s, i, pending) \in Seq(Blocks)
      /\ Len(Join(s, i, pending)) = Len(s) - 1
      /\ \A j \in 1..Len(s) - 1 :
            Join(s, i, pending)[j] = IF j < i THEN s[j] ELSE IF j = i THEN joined ELSE s[j + 1]
  BY JoinIndex
<1>1. /\ Len(t) = Len(s) - 1 /\ Len(s) \in Nat
      /\ \A j \in 1..Len(s) - 1 : t[j] = IF j < i THEN s[j] ELSE IF j = i THEN joined ELSE s[j + 1]
  BY <1>0
<1>2. s[i] \in Blocks
  OBVIOUS
<1>3. /\ joined.free = s[i].free /\ joined.heap = s[i].heap
      /\ joined.pending.timeline = s[i].pending.timeline
  BY <1>2 DEF Blocks
<1> HIDE DEF joined
<1> SUFFICES ASSUME NEW j \in 1..Len(t) - 1
             PROVE  /\ j < i /\ Apart(s, j) => Apart(t, j)
                    /\ j >= i /\ Apart(s, j + 1) => Apart(t, j)
  OBVIOUS
<1>4. j \in 1..Len(s) - 1 /\ j + 1 \in 1..Len(s) - 1 /\ j \in Int /\ i \in Int
  BY <1>1
<1>5. CASE j < i - 1
  <2>1. t[j] = s[j] /\ t[j + 1] = s[j + 1]
    BY <1>1, <1>4, <1>5
  <2> QED BY <1>4, <1>5, <2>1 DEF Apart
<1>6. CASE j = i - 1
  <2>1. t[j] = s[j] /\ t[j + 1] = joined /\ j + 1 = i
    BY <1>1, <1>4, <1>6
  <2> QED BY <1>3, <1>4, <1>6, <2>1 DEF Apart
<1>7. CASE j = i
  <2>1. t[j] = joined /\ t[j + 1] = s[j + 2] /\ j + 1 = i + 1 /\ (j + 1) + 1 = j + 2
    BY <1>1, <1>4, <1>7
  <2> QED BY <1>3, <1>4, <1>7, <2>1 DEF Apart
<1>8. CASE j > i
  <2>1. t[j] = s[j + 1] /\ t[j + 1] = s[j + 2] /\ (j + 1) + 1 = j + 2
    BY <1>1, <1>4, <1>8
  <2> QED BY <1>4, <1>8, <2>1 DEF Apart
<1> QED BY <1>4, <1>5, <1>6, <1>7, <1>8

\* The token that is kept is of the timeline that the two have.
LEMMA LaterPendingTimeline ==
    ASSUME NEW block, NEW other, block.pending.timeline = other.pending.timeline
    PROVE  KeepLaterPending(block, other).timeline = block.pending.timeline
BY DEF KeepLaterPending

\* consider_merging_forwards
LEMMA ForwardsStaysApart ==
    ASSUME NEW s \in Seq(Blocks), NEW i \in 1..Len(s), s[i].free,
           \A j \in 1..Len(s) - 1 : j \notin {i - 1, i} => Apart(s, j),
           NEW t, t = ConsiderMergingForwards(s, i)
    PROVE  \A j \in 1..Len(t) - 1 : j # i - 1 => Apart(t, j)
<1>1. CASE i < Len(s) /\ IsMergeable(s[i], s[i + 1])
  <2> DEFINE pending == KeepLaterPending(s[i], s[i + 1])
  <2>1. t = Join(s, i, pending)
    BY <1>1 DEF ConsiderMergingForwards
  <2>2. /\ i \in 1..Len(s) - 1 /\ s[i] \in Blocks /\ s[i + 1] \in Blocks /\ Len(s) \in Nat
        /\ s[i + 1].free /\ s[i].heap = s[i + 1].heap
        /\ s[i].pending.timeline = s[i + 1].pending.timeline
    BY <1>1 DEF IsMergeable
  <2>3. pending \in PendingTokens /\ pending.timeline = s[i].pending.timeline
    BY <2>2, LaterPendingType, LaterPendingTimeline
  <2> HIDE DEF pending
  <2>4. Len(t) = Len(s) - 1
    BY <2>1, <2>2, <2>3, JoinLength
  <2>5. s[i].free = s[i + 1].free
    BY <2>2, BlocksAreBlocks
  <2>6. \A j \in 1..Len(t) - 1 : /\ j < i /\ Apart(s, j) => Apart(t, j)
                                 /\ j >= i /\ Apart(s, j + 1) => Apart(t, j)
    BY <2>1, <2>2, <2>3, <2>5, JoinStaysApart
  <2>7. \A j \in 1..Len(t) - 1 : /\ j < i /\ j # i - 1 => Apart(s, j)
                                 /\ j >= i => Apart(s, j + 1)
    BY <2>2, <2>4
  <2> QED BY <2>2, <2>4, <2>6, <2>7
<1>2. CASE ~(i < Len(s) /\ IsMergeable(s[i], s[i + 1]))
  <2>1. t = s
    BY <1>2 DEF ConsiderMergingForwards
  <2>2. ASSUME i \in 1..Len(s) - 1
        PROVE  Apart(s, i)
    BY <1>2, <2>2 DEF Apart, IsMergeable
  <2> QED BY <2>1, <2>2
<1> QED BY <1>1, <1>2

\* consider_merging_backwards
LEMMA BackwardsStaysApart ==
    ASSUME NEW s \in Seq(Blocks), NEW i \in 1..Len(s), s[i].free,
           \A j \in 1..Len(s) - 1 : j # i - 1 => Apart(s, j),
           NEW t, t = ConsiderMergingBackwards(s, i)
    PROVE  \A j \in 1..Len(t) - 1 : Apart(t, j)
<1>1. CASE i > 1 /\ IsMergeable(s[i], s[i - 1])
  <2> DEFINE pending == KeepLaterPending(s[i], s[i - 1])
             k == i - 1
  <2>1. t = Join(s, k, pending)
    BY <1>1 DEF ConsiderMergingBackwards
  <2>2. /\ k \in 1..Len(s) - 1 /\ k + 1 = i /\ s[k] \in Blocks /\ s[k + 1] \in Blocks
        /\ Len(s) \in Nat
        /\ s[k].free /\ s[k].heap = s[k + 1].heap
        /\ s[k].pending.timeline = s[k + 1].pending.timeline
    BY <1>1 DEF IsMergeable
  <2>3. pending \in PendingTokens /\ pending.timeline = s[k + 1].pending.timeline
    BY <2>2, LaterPendingType, LaterPendingTimeline
  <2> HIDE DEF pending, k
  <2>4. Len(t) = Len(s) - 1
    BY <2>1, <2>2, <2>3, JoinLength
  <2>5. s[k].free = s[k + 1].free
    BY <2>2, BlocksAreBlocks
  <2>6. \A j \in 1..Len(t) - 1 : /\ j < k /\ Apart(s, j) => Apart(t, j)
                                 /\ j >= k /\ Apart(s, j + 1) => Apart(t, j)
    BY <2>1, <2>2, <2>3, <2>5, JoinStaysApart
  <2>7. \A j \in 1..Len(t) - 1 : /\ j < k => Apart(s, j)
                                 /\ j >= k => Apart(s, j + 1)
    BY <2>2, <2>4
  <2> QED BY <2>2, <2>4, <2>6, <2>7
<1>2. CASE ~(i > 1 /\ IsMergeable(s[i], s[i - 1]))
  <2>1. t = s
    BY <1>2 DEF ConsiderMergingBackwards
  <2>2. ASSUME i - 1 \in 1..Len(s) - 1
        PROVE  Apart(s, i - 1)
    <3>1. (i - 1) + 1 = i /\ i > 1
      BY <2>2
    <3> QED BY <1>2, <3>1 DEF Apart, IsMergeable
  <2> QED BY <2>1, <2>2
<1> QED BY <1>1, <1>2

\* release merges whatever the block that comes back can be merged with.
LEMMA ReleaseStaysApart ==
    ASSUME NEW s \in Seq(Blocks), NEW i \in 1..Len(s), NEW pending \in PendingTokens,
           \A j \in 1..Len(s) - 1 : Apart(s, j),
           NEW t, t = ConsiderMergingBlock(s, i, pending)
    PROVE  \A j \in 1..Len(t) - 1 : Apart(t, j)
<1> DEFINE back == [s[i] EXCEPT !.pending = pending, !.free = TRUE]
           r == [s EXCEPT ![i].pending = pending, ![i].free = TRUE]
           f == ConsiderMergingForwards(r, i)
<1>1. s[i] \in Blocks
  OBVIOUS
<1>2. back \in Blocks /\ back.free
  BY <1>1 DEF Blocks, PendingTokens
<1>3. r = [s EXCEPT ![i] = back]
  BY <1>1 DEF Blocks
<1> HIDE DEF back, r
<1>4. /\ r \in Seq(Blocks) /\ Len(r) = Len(s) /\ i \in 1..Len(r) /\ r[i].free
      /\ \A j \in 1..Len(s) : j # i => r[j] = s[j]
  BY <1>2, <1>3
<1>5. t = ConsiderMergingBackwards(f, i)
  BY DEF ConsiderMergingBlock, r
<1>6. \A j \in 1..Len(r) - 1 : j \notin {i - 1, i} => Apart(r, j)
  BY <1>4 DEF Apart
<1> HIDE DEF f
<1>7. f = ConsiderMergingForwards(r, i)
  BY DEF f
<1>8. f \in Seq(Blocks) /\ i \in 1..Len(f) /\ f[i].free
  BY <1>4, <1>7, ForwardsLendsTheSame
<1>9. \A j \in 1..Len(f) - 1 : j # i - 1 => Apart(f, j)
  BY <1>4, <1>6, <1>7, ForwardsStaysApart
<1> QED BY <1>5, <1>8, <1>9, BackwardsStaysApart

\* A heap that goes takes its one block out from between blocks of others.
LEMMA RemoveStaysApart ==
    ASSUME NEW s \in Seq(Blocks), NEW heaps \in [Heaps -> Nat], Tiles(s, heaps),
           NEW i \in 1..Len(s), ~IsPartition(s, i), \A j \in 1..Len(s) - 1 : Apart(s, j),
           NEW t, t = RemoveAt(s, i)
    PROVE  \A j \in 1..Len(t) - 1 : Apart(t, j)
<1>1. /\ Len(t) = Len(s) - 1 /\ Len(s) \in Nat /\ i \in Int
      /\ \A j \in 1..Len(s) - 1 : t[j] = IF j < i THEN s[j] ELSE s[j + 1]
  BY RemoveAtIndex
<1> SUFFICES ASSUME NEW j \in 1..Len(t) - 1 PROVE Apart(t, j)
  OBVIOUS
<1>2. j \in 1..Len(s) - 1 /\ j + 1 \in 1..Len(s) - 1 /\ j \in Int /\ (j + 1) + 1 = j + 2
  BY <1>1
<1>3. CASE j + 1 < i
  <2>1. t[j] = s[j] /\ t[j + 1] = s[j + 1]
    BY <1>1, <1>2, <1>3
  <2> QED BY <1>2, <2>1 DEF Apart
<1>4. CASE j + 1 = i
  <2>1. t[j] = s[j] /\ t[j + 1] = s[i + 1]
    BY <1>1, <1>2, <1>4
  <2>2. j \in 1..Len(s) /\ i + 1 \in 1..Len(s) /\ j < i /\ i < i + 1
    BY <1>1, <1>2, <1>4
  <2>3. s[j].heap # s[i + 1].heap
    <3> SUFFICES ASSUME s[j].heap = s[i + 1].heap PROVE FALSE
      OBVIOUS
    <3>1. End(s[j]) <= s[i + 1].offset
      BY <2>2 DEF Tiles, InAddressOrder
    <3>2. s[i + 1].offset = 0
      <4>1. s[i].heap # s[i + 1].heap
        BY <2>2 DEF IsPartition
      <4> QED BY <1>2, <1>4, <4>1 DEF Tiles, NeighboursMeet, StartsHeap
    <3>3. s[j].offset \in Nat /\ s[j].size \in Nat /\ s[j].size > 0
      BY <2>2, BlocksAreBlocks DEF Tiles, InHeaps
    <3> QED BY <3>1, <3>2, <3>3 DEF End
  <2> QED BY <2>1, <2>3 DEF Apart
<1>5. CASE j + 1 > i
  <2>1. t[j] = s[j + 1] /\ t[j + 1] = s[j + 2]
    BY <1>1, <1>2, <1>5
  <2> QED BY <1>2, <2>1 DEF Apart
<1> QED BY <1>1, <1>2, <1>3, <1>4, <1>5

\* A new heap is no neighbour's.
LEMMA AppendStaysApart ==
    ASSUME NEW s \in Seq(Blocks), NEW heaps \in [Heaps -> Nat], Tiles(s, heaps),
           NEW b \in Blocks, heaps[b.heap] = 0, \A j \in 1..Len(s) - 1 : Apart(s, j),
           NEW t, t = Append(s, b)
    PROVE  \A j \in 1..Len(t) - 1 : Apart(t, j)
<1>1. /\ Len(t) = Len(s) + 1 /\ Len(s) \in Nat /\ t[Len(s) + 1] = b
      /\ \A j \in 1..Len(s) : t[j] = s[j]
  OBVIOUS
<1> SUFFICES ASSUME NEW j \in 1..Len(t) - 1 PROVE Apart(t, j)
  OBVIOUS
<1>2. CASE j < Len(s)
  <2>1. t[j] = s[j] /\ t[j + 1] = s[j + 1] /\ j \in 1..Len(s) - 1
    BY <1>1, <1>2
  <2> QED BY <2>1 DEF Apart
<1>3. CASE j = Len(s)
  <2>1. t[j] = s[j] /\ t[j + 1] = b /\ j \in 1..Len(s)
    BY <1>1, <1>3
  <2>2. /\ s[j].size > 0 /\ End(s[j]) <= heaps[s[j].heap]
        /\ s[j].offset \in Nat /\ s[j].size \in Nat
    BY <2>1, BlocksAreBlocks DEF Tiles, InHeaps
  <2>3. heaps[s[j].heap] # 0
    BY <2>2 DEF End
  <2> QED BY <2>1, <2>3 DEF Apart
<1> QED BY <1>1, <1>2, <1>3

----------------------------------------------------------------------------
(* Free neighbours in the allocator's pool.                                *)

\* The walk of reset_pending has yet to look at the pair, or it is about to
\* come apart: the block that was cut off is the one that is acquired next.
Excused(i) ==
    \/ call = "reset_pending" /\ ite <= i
    \/ \E th \in Threads : pc[th] = "acquire" /\ frame[th].block = AddressOf(m_blocks[i])

MergedInv == \A i \in 1..Len(m_blocks) - 1 : Apart(m_blocks, i) \/ Excused(i)

\* A step of one thread leaves the others where they were.
LEMMA OthersStay ==
    ASSUME NEW th \in Threads, Starts(th) \/ Locks(th) \/ Continues(th), ThreadTypes
    PROVE  \A other \in Threads : other # th => pc'[other] = pc[other]
                                                /\ frame'[other] = frame[other]
<1>1. pc \in [Threads -> Steps] /\ frame \in [Threads -> Frames]
  BY DEF ThreadTypes
<1> DEFINE PcStays == pc' = pc \/ \E to : pc' = [pc EXCEPT ![th] = to]
           FrameStays == frame' = frame \/ \E locals : frame' = [frame EXCEPT ![th] = locals]
<1>2. PcStays /\ FrameStays
  <2>1. CASE Starts(th)
    BY <2>1 DEF Starts, StartAllocate, Submit, DestroyBuffer, StartTrim, StartDestroy, Begin, Goto
  <2>2. CASE Locks(th)
    BY <2>2 DEF Locks, LockAllocate, LockRecycle, LockTrim, Goto
  <2>3. CASE Process(th) \/ Search(th) \/ SearchAgain(th)
    BY <2>3 DEF Process, Search, SearchAgain, TakeOrGrow, Goto, Keep
  <2>4. CASE Grow(th) \/ Halve(th) \/ TrimToRetry(th) \/ ThrowBadAlloc(th) \/ Cut(th)
             \/ AcquireBlock(th)
    BY <2>4 DEF Grow, Halve, TrimToRetry, ThrowBadAlloc, Cut, AcquireBlock, Goto, Keep, Return
  <2>5. CASE AskPending(th) \/ ForgetPending(th) \/ MakeBuffer(th) \/ SettleFails(th)
             \/ RecordUse(th)
    BY <2>5 DEF AskPending, ForgetPending, MakeBuffer, SettleFails, RecordUse, Goto, Keep, Return
  <2>6. CASE RecycleReleases(th) \/ RecycleDefers(th) \/ RecycleLoses(th)
             \/ DestroyAllocator(th) \/ CallThrows(th) \/ DestructorThrows(th)
    BY <2>6 DEF RecycleReleases, RecycleDefers, RecycleLoses, DestroyAllocator, CallThrows,
                DestructorThrows, Return
  <2>7. CASE WaitAll(th) \/ WaitPending(th) \/ Reset(th) \/ StartGiveBack(th) \/ GiveBack(th)
             \/ EndTrim(th)
    BY <2>7 DEF WaitAll, WaitPending, Reset, StartGiveBack, GiveBack, EndTrim, Goto, Return
  <2> QED BY <2>1, <2>2, <2>3, <2>4, <2>5, <2>6, <2>7 DEF Continues
<1> QED BY <1>1, <1>2

\* Whoever is in the pool sees no pair it could merge, between two walks.
LEMMA AllApart ==
    ASSUME ThreadTypes, LockInv, MergedInv, NEW th \in Threads, pc[th] \in PoolSteps,
           pc[th] # "acquire", call # "reset_pending"
    PROVE  \A i \in 1..Len(m_blocks) - 1 : Apart(m_blocks, i)
<1>1. Alone(th)
  BY InPoolIsAlone
<1>2. "acquire" \in PoolSteps
  BY StepsOfPool
<1> QED BY <1>1, <1>2 DEF MergedInv, Excused, Alone

\* The pool stays as it is, and whoever is about to acquire a block still is.
LEMMA QuietStaysMerged ==
    ASSUME MergedInv, NEW th, UNCHANGED poolVars, th \in Threads => pc[th] # "acquire",
           \A other \in Threads : other # th => pc'[other] = pc[other]
                                                /\ frame'[other] = frame[other]
    PROVE  MergedInv'
<1>1. UNCHANGED <<m_blocks, call, ite>>
  BY DEF poolVars
<1> SUFFICES ASSUME NEW i \in 1..Len(m_blocks) - 1
             PROVE  Apart(m_blocks', i) \/ Excused(i)'
  BY <1>1 DEF MergedInv, Apart
<1>2. CASE Apart(m_blocks, i)
  BY <1>1, <1>2
<1>3. CASE Excused(i)
  BY <1>1, <1>3 DEF Excused, AddressOf
<1> QED BY <1>2, <1>3 DEF MergedInv

\* Every pair of the next list of blocks is apart.
LEMMA ApartIsMerged ==
    ASSUME NEW t, m_blocks' = t, \A i \in 1..Len(t) - 1 : Apart(t, i)
    PROVE  MergedInv'
BY DEF MergedInv, Apart

LEMMA ReleaseStaysMerged ==
    ASSUME AllocatorInv, MergedInv, NEW th \in Threads,
           pc[th] \in {"process", "wait_all", "recycle"},
           NEW i \in Positions, NEW pending \in PendingTokens, Release(i, pending)
    PROVE  MergedInv'
<1>1. pc[th] \in PoolSteps /\ pc[th] # "acquire" /\ pc[th] # "idle"
  BY StepsOfPool, StepsOfTrim DEF TrimSteps
<1>2. ThreadTypes /\ LockInv /\ IInv
  BY <1>1, BusyStands
<1>3. call = "none"
  BY InDrain, InRecycle
<1>4. \A j \in 1..Len(m_blocks) - 1 : Apart(m_blocks, j)
  BY <1>1, <1>2, <1>3, AllApart
<1>5. m_blocks \in Seq(Blocks) /\ i \in 1..Len(m_blocks)
  BY <1>2 DEF IInv, ListOK, Positions
<1>6. m_blocks' = ConsiderMergingBlock(m_blocks, i, pending)
  BY DEF Release
<1> QED BY <1>4, <1>5, <1>6, ReleaseStaysApart, ApartIsMerged

LEMMA GrowStaysMerged ==
    ASSUME RequestsFit, AllocatorInv, MergedInv, NEW th \in Threads, Grow(th)
    PROVE  MergedInv'
<1>1. pc[th] = "grow"
  BY DEF Grow, Goto
<1>2. PICK heap \in Heaps : m_heaps[heap] = 0 /\ RegisterHeap(heap, frame[th].heap_size)
  BY DEF Grow
<1> DEFINE size == frame[th].heap_size
           new == [heap |-> heap, offset |-> 0, size |-> size, pending |-> NoToken, free |-> TRUE]
<1>3. ThreadTypes /\ LockInv /\ IInv
  BY <1>1, BusyStands
<1>4. call = "none" /\ pc[th] \in PoolSteps
  BY <1>1, LiveRequest, StepsOfPool
<1>5. \A j \in 1..Len(m_blocks) - 1 : Apart(m_blocks, j)
  BY <1>1, <1>3, <1>4, AllApart
<1>6. m_blocks \in Seq(Blocks) /\ m_heaps \in [Heaps -> Nat] /\ Tiles(m_blocks, m_heaps)
  BY <1>3 DEF IInv, ListOK, PoolTypeOK
<1>7. size \in Nat
  BY <1>3 DEF ThreadTypes, Frames
<1>8. new \in Blocks /\ m_heaps[new.heap] = 0
  BY <1>2, <1>7 DEF Blocks
<1>9. m_blocks' = Append(m_blocks, new)
  BY <1>2 DEF RegisterHeap
<1> HIDE DEF new
<1> QED BY <1>5, <1>6, <1>8, <1>9, AppendStaysApart, ApartIsMerged

\* What is cut off is apart from its remainder as soon as it is acquired.
LEMMA CutStaysMerged ==
    ASSUME RequestsFit, AllocatorInv, MergedInv, NEW th \in Threads, Cut(th)
    PROVE  MergedInv'
<1>1. pc[th] = "cut" /\ pc' = [pc EXCEPT ![th] = "acquire"] /\ frame' = frame
  BY DEF Cut, Goto
<1>2. /\ pc[th] \in LockedSteps /\ frame[th].trim_for \in {"none", "allocate"}
      /\ frame[th].asked \in RequestSizes /\ frame[th].size = RequestSize(frame[th].asked)
      /\ call = "none"
  BY <1>1, LiveRequest
<1>3. ThreadTypes /\ LockInv /\ IInv /\ TakenBy(pc[th], frame[th], FreeIn(m_blocks))
  BY <1>2, LiveInPool
<1> DEFINE size == frame[th].size
<1>4. PICK i \in Positions :
          i = BlockOf(th) /\ m_blocks[i].free /\ AddressOf(m_blocks[i]) = frame[th].block
  BY <1>1, <1>3, TakenPosition
<1>5. m_blocks \in Seq(Blocks) /\ i \in 1..Len(m_blocks)
  BY <1>3, <1>4 DEF IInv, ListOK, Positions
<1>6. m_blocks[i].size \in Nat /\ size \in Nat \ {0}
  BY <1>2, <1>5, BlocksAreBlocks, RequestFits
<1>7. \A j \in 1..Len(m_blocks) - 1 : Apart(m_blocks, j)
  BY <1>1, <1>3, StepsOfPool, AllApart, <1>2
<1>8. CASE m_blocks[i].size > size
  <2>1. m_blocks' = Partition(m_blocks, i, size)
    BY <1>4, <1>8 DEF Cut, PartitionBlock
  <2>2. size \in 1..m_blocks[i].size - 1
    BY <1>6, <1>8
  <2> DEFINE t == Partition(m_blocks, i, size)
  <2>7. m_blocks' = t
    BY <2>1
  <2>10. t = Partition(m_blocks, i, size)
    OBVIOUS
  <2> HIDE DEF t, size
  <2>3. t[i].heap = m_blocks[i].heap /\ t[i].offset = m_blocks[i].offset
    BY <1>5, <2>2, <2>10, FirstPart
  <2>4. /\ Len(t) = Len(m_blocks) + 1
        /\ \A j \in 1..Len(m_blocks) + 1 :
              LET o == IF j <= i THEN j ELSE j - 1
              IN  /\ t[j].heap = m_blocks[o].heap
                  /\ t[j].pending = m_blocks[o].pending
                  /\ t[j].free = m_blocks[o].free
    BY <1>5, <2>2, <2>10, PartitionIndex
  <2>5. AddressOf(t[i]) = frame[th].block
    BY <1>4, <2>3 DEF AddressOf
  <2>6. pc'[th] = "acquire" /\ frame'[th] = frame[th]
    BY <1>1, <1>3 DEF ThreadTypes
  <2>8. Excused(i)'
    BY <2>5, <2>6, <2>7 DEF Excused, AddressOf
  <2>9. ASSUME NEW j \in 1..Len(t) - 1, j # i
        PROVE  Apart(t, j)
    <3>1. j \in 1..Len(m_blocks) + 1 /\ j + 1 \in 1..Len(m_blocks) + 1 /\ j \in Int /\ i \in Int
          /\ Len(m_blocks) \in Nat
      BY <1>5, <2>4
    <3>2. CASE j < i
      <4>1. /\ t[j].heap = m_blocks[j].heap /\ t[j].pending = m_blocks[j].pending
            /\ t[j].free = m_blocks[j].free
        BY <2>4, <3>1, <3>2
      <4>2. /\ t[j + 1].heap = m_blocks[j + 1].heap /\ t[j + 1].pending = m_blocks[j + 1].pending
            /\ t[j + 1].free = m_blocks[j + 1].free
        BY <2>4, <3>1, <3>2
      <4>3. j \in 1..Len(m_blocks) - 1
        BY <1>5, <3>1, <3>2
      <4> QED BY <1>7, <4>1, <4>2, <4>3 DEF Apart
    <3>3. CASE j > i
      <4> DEFINE k == j - 1
      <4>1. /\ t[j].heap = m_blocks[k].heap /\ t[j].pending = m_blocks[k].pending
            /\ t[j].free = m_blocks[k].free
        BY <2>4, <3>1, <3>3
      <4>2. /\ t[j + 1].heap = m_blocks[j].heap /\ t[j + 1].pending = m_blocks[j].pending
            /\ t[j + 1].free = m_blocks[j].free
        BY <2>4, <3>1, <3>3
      <4>3. k \in 1..Len(m_blocks) - 1 /\ k + 1 = j
        BY <1>5, <2>4, <3>1, <3>3
      <4> QED BY <1>7, <4>1, <4>2, <4>3 DEF Apart
    <3> QED BY <2>9, <3>1, <3>2, <3>3
  <2> QED BY <2>7, <2>8, <2>9 DEF MergedInv, Apart
<1>9. CASE ~(m_blocks[i].size > size)
  <2>1. m_blocks' = m_blocks
    BY <1>4, <1>9 DEF Cut, poolVars
  <2> QED BY <1>7, <2>1, ApartIsMerged
<1> QED BY <1>8, <1>9

LEMMA AcquireStaysMerged ==
    ASSUME AllocatorInv, MergedInv, NEW th \in Threads, AcquireBlock(th)
    PROVE  MergedInv'
<1>1. pc[th] = "acquire" /\ Acquire(BlockOf(th))
  BY DEF AcquireBlock, Goto
<1>2. pc[th] \in LockedSteps /\ frame[th].trim_for \in {"none", "allocate"} /\ call = "none"
  BY <1>1, LiveRequest
<1>3. IInv /\ TakenBy(pc[th], frame[th], FreeIn(m_blocks)) /\ Alone(th)
  BY <1>2, LiveInPool
<1> DEFINE i == BlockOf(th)
           t == [m_blocks EXCEPT ![i].free = FALSE]
<1>4. i \in Positions /\ AddressOf(m_blocks[i]) = frame[th].block
  BY <1>1, <1>3, TakenPosition
<1>5. m_blocks \in Seq(Blocks) /\ i \in 1..Len(m_blocks) /\ m_blocks[i] \in Blocks
  BY <1>3, <1>4, BlocksAreBlocks DEF IInv, ListOK, Positions
<1>6. m_blocks' = t
  BY <1>1 DEF Acquire
<1>7. /\ Len(t) = Len(m_blocks) /\ ~t[i].free
      /\ \A j \in 1..Len(m_blocks) : j # i => t[j] = m_blocks[j]
  BY <1>5 DEF Blocks
<1> HIDE DEF t, i
<1>8. ASSUME NEW j \in 1..Len(t) - 1
      PROVE  Apart(t, j)
  <2>1. j \in 1..Len(m_blocks) /\ j + 1 \in 1..Len(m_blocks) /\ j \in 1..Len(m_blocks) - 1
    BY <1>5, <1>7
  <2>2. CASE j = i \/ j + 1 = i
    BY <1>7, <2>2 DEF Apart
  <2>3. CASE j # i /\ j + 1 # i
    <3>1. ~Excused(j)
      <4>1. SUFFICES ASSUME NEW other \in Threads, pc[other] = "acquire",
                            frame[other].block = AddressOf(m_blocks[j])
                     PROVE  FALSE
        BY <1>2 DEF Excused
      <4>2. other = th
        BY <1>3, <4>1, StepsOfPool DEF Alone
      <4>3. j \in Positions /\ AddressOf(m_blocks[j]) = AddressOf(m_blocks[i])
        BY <1>4, <2>1, <4>1, <4>2 DEF Positions
      <4> QED BY <1>3, <1>4, <2>3, <4>3, AddressNames
    <3>2. Apart(m_blocks, j)
      BY <2>1, <3>1 DEF MergedInv
    <3> QED BY <1>7, <2>1, <2>3, <3>2 DEF Apart
  <2> QED BY <2>2, <2>3
<1> QED BY <1>6, <1>8, ApartIsMerged

\* The token of a block in hand is nothing to its neighbours.
LEMMA ForgetStaysMerged ==
    ASSUME AllocatorInv, MergedInv, NEW th \in Threads, ForgetPending(th)
    PROVE  MergedInv'
<1> DEFINE i == BlockOf(th)
           t == [m_blocks EXCEPT ![i].pending = NoToken]
<1>1. pc[th] = "set_pending" /\ SetPending(i, NoToken)
  BY DEF ForgetPending, Goto
<1>2. ThreadTypes /\ IInv /\ OwnersInv
  BY <1>1, LiveOutside
<1>3. pc[th] \in HandSteps
  BY <1>1 DEF HandSteps
<1>4. i \in Positions /\ ~m_blocks[i].free
  BY <1>2, <1>3, BlockInHand
<1>5. m_blocks \in Seq(Blocks) /\ i \in 1..Len(m_blocks) /\ m_blocks[i] \in Blocks
  BY <1>2, <1>4, BlocksAreBlocks DEF IInv, ListOK, Positions
<1>6. m_blocks' = t /\ call' = call /\ ite' = ite
  BY <1>1 DEF SetPending
<1>7. /\ Len(t) = Len(m_blocks) /\ ~t[i].free
      /\ t[i].heap = m_blocks[i].heap /\ t[i].offset = m_blocks[i].offset
      /\ \A j \in 1..Len(m_blocks) : j # i => t[j] = m_blocks[j]
  BY <1>4, <1>5 DEF Blocks
<1>8. \A other \in Threads : other # th => pc'[other] = pc[other] /\ frame'[other] = frame[other]
  BY <1>2, OthersStay DEF Continues
<1> HIDE DEF t, i
<1>9. ASSUME NEW j \in 1..Len(t) - 1
      PROVE  Apart(t, j) \/ Excused(j)'
  <2>1. j \in 1..Len(m_blocks) /\ j + 1 \in 1..Len(m_blocks) /\ j \in 1..Len(m_blocks) - 1
    BY <1>5, <1>7
  <2>2. CASE j = i \/ j + 1 = i
    BY <1>7, <2>2 DEF Apart
  <2>3. CASE j # i /\ j + 1 # i
    <3>1. CASE Apart(m_blocks, j)
      BY <1>7, <2>1, <2>3, <3>1 DEF Apart
    <3>2. CASE Excused(j)
      <4>1. AddressOf(m_blocks'[j]) = AddressOf(m_blocks[j])
        BY <1>6, <1>7, <2>1, <2>3 DEF AddressOf
      <4> QED BY <1>1, <1>6, <1>8, <3>2, <4>1 DEF Excused, AddressOf
    <3> QED BY <2>1, <3>1, <3>2 DEF MergedInv
  <2> QED BY <2>2, <2>3
<1> QED BY <1>6, <1>9 DEF MergedInv, Apart

\* reset_pending leaves no pair behind the place its walk is at.
LEMMA ResetStaysMerged ==
    ASSUME AllocatorInv, MergedInv, NEW th \in Threads, Reset(th)
    PROVE  MergedInv'
<1>1. pc[th] = "reset_pending" /\ (AbsorbNext \/ StepOver \/ EndReset)
  BY DEF Reset
<1>2. pc[th] \in TrimSteps
  BY <1>1 DEF TrimSteps
<1>3. IInv /\ Alone(th)
  BY <1>2, InTrim
<1>4. call = "reset_pending"
  BY <1>1, <1>2, InTrim
<1>5. m_blocks \in Seq(Blocks) /\ Len(m_blocks) \in Nat /\ ite \in Nat /\ ite >= 1
  BY <1>3, <1>4 DEF IInv, ListOK, PoolTypeOK
<1>6. ASSUME NEW j \in 1..Len(m_blocks) - 1, j < ite
      PROVE  Apart(m_blocks, j)
  <2>1. ~Excused(j)
    <3>1. ~(ite <= j)
      BY <1>5, <1>6
    <3>2. \A other \in Threads : pc[other] # "acquire"
      BY <1>1, <1>3, StepsOfPool DEF Alone
    <3> QED BY <3>1, <3>2 DEF Excused
  <2> QED BY <2>1 DEF MergedInv
<1>7. CASE AbsorbNext
  <2>1. /\ ite < Len(m_blocks) /\ m_blocks[ite].free /\ m_blocks[ite + 1].free
        /\ m_blocks[ite + 1].heap = m_blocks[ite].heap
        /\ m_blocks' = Join(m_blocks, ite, m_blocks[ite].pending)
        /\ UNCHANGED <<call, ite>>
    BY <1>7 DEF AbsorbNext, CanAbsorb
  <2>2. ite \in 1..Len(m_blocks) - 1 /\ ite + 1 \in 1..Len(m_blocks) /\ ite \in 1..Len(m_blocks)
    BY <1>5, <2>1
  <2>3. m_blocks[ite].pending = NoToken /\ m_blocks[ite + 1].pending = NoToken
    BY <1>3, <1>4, <2>1, <2>2 DEF IInv, EmptiedWhileResetting
  <2> DEFINE t == Join(m_blocks, ite, NoToken)
  <2>4. m_blocks' = t
    BY <2>1, <2>3
  <2>5. t = Join(m_blocks, ite, NoToken) /\ NoToken \in PendingTokens
    BY DEF PendingTokens
  <2> HIDE DEF t
  <2>6. Len(t) = Len(m_blocks) - 1
    BY <1>5, <2>2, <2>5, JoinLength
  <2>7. m_blocks[ite].free = m_blocks[ite + 1].free
    BY <2>1, <2>2, <1>5, BlocksAreBlocks
  <2>8. \A j \in 1..Len(t) - 1 : j < ite /\ Apart(m_blocks, j) => Apart(t, j)
    BY <1>5, <2>1, <2>2, <2>3, <2>5, <2>7, JoinStaysApart
  <2>9. ASSUME NEW j \in 1..Len(t) - 1
        PROVE  Apart(t, j) \/ Excused(j)'
    <3>1. CASE j < ite
      <4>1. j \in 1..Len(m_blocks) - 1
        BY <1>5, <2>6
      <4> QED BY <1>6, <2>8, <3>1, <4>1
    <3>2. CASE j >= ite
      BY <1>4, <1>5, <2>1, <3>2 DEF Excused
    <3> QED BY <1>5, <3>1, <3>2
  <2> QED BY <2>4, <2>9 DEF MergedInv, Apart
<1>8. CASE StepOver
  <2>1. ite <= Len(m_blocks) /\ ~CanAbsorb /\ ite' = ite + 1 /\ UNCHANGED <<m_blocks, call>>
    BY <1>8 DEF StepOver
  <2>2. ASSUME NEW j \in 1..Len(m_blocks) - 1
        PROVE  Apart(m_blocks, j) \/ Excused(j)'
    <3>1. CASE j < ite
      BY <1>6, <3>1
    <3>2. CASE j = ite
      <4>1. m_blocks[ite + 1].heap # m_blocks[ite].heap \/ ~m_blocks[ite].free
            \/ ~m_blocks[ite + 1].free
        BY <1>5, <2>1, <3>2 DEF CanAbsorb
      <4> QED BY <3>2, <4>1 DEF Apart
    <3>3. CASE j > ite
      <4>1. ite' <= j
        BY <1>5, <2>1, <3>3
      <4> QED BY <1>4, <2>1, <4>1 DEF Excused
    <3> QED BY <1>5, <3>1, <3>2, <3>3
  <2> QED BY <2>1, <2>2 DEF MergedInv, Apart
<1>9. CASE EndReset
  <2>1. ite > Len(m_blocks) /\ m_blocks' = m_blocks
    BY <1>9 DEF EndReset, poolState
  <2>2. \A j \in 1..Len(m_blocks) - 1 : Apart(m_blocks, j)
    BY <1>5, <1>6, <2>1
  <2> QED BY <2>1, <2>2, ApartIsMerged
<1> QED BY <1>1, <1>7, <1>8, <1>9

\* release_unused_heaps only takes blocks out from between heaps.
LEMMA GiveBackStaysMerged ==
    ASSUME AllocatorInv, MergedInv, NEW th \in Threads,
           StartGiveBack(th) \/ GiveBack(th) \/ EndTrim(th)
    PROVE  MergedInv'
<1>1. pc[th] \in {"give_back", "giving_back"}
  BY DEF StartGiveBack, GiveBack, EndTrim, Goto
<1>2. pc[th] \in TrimSteps /\ pc[th] # "acquire" /\ pc[th] # "reset_pending"
  BY <1>1 DEF TrimSteps
<1>3. IInv /\ ThreadTypes /\ LockInv /\ call # "reset_pending" /\ pc[th] \in PoolSteps
  BY <1>2, InTrim, StepsOfTrim
<1>4. \A j \in 1..Len(m_blocks) - 1 : Apart(m_blocks, j)
  BY <1>2, <1>3, AllApart
<1>5. m_blocks \in Seq(Blocks) /\ m_heaps \in [Heaps -> Nat] /\ Tiles(m_blocks, m_heaps)
  BY <1>3 DEF IInv, ListOK, PoolTypeOK
<1>6. CASE m_blocks' = m_blocks
  BY <1>4, <1>6, ApartIsMerged
<1>7. CASE GiveBack(th)
  <2>1. PICK i \in Positions : ReleaseUnusedHeap(i)
    BY <1>7 DEF GiveBack
  <2>2. i \in 1..Len(m_blocks) /\ ~IsPartition(m_blocks, i) /\ m_blocks' = RemoveAt(m_blocks, i)
    BY <2>1 DEF ReleaseUnusedHeap, Positions
  <2> QED BY <1>4, <1>5, <2>2, RemoveStaysApart, ApartIsMerged
<1> QED BY <1>6, <1>7 DEF StartGiveBack, EndTrim, ReleaseUnusedHeaps, EndReleaseUnusedHeaps

LEMMA AllocatorNextStaysMerged ==
    ASSUME RequestsFit, AllocatorInv, MergedInv, AllocatorNext
    PROVE  MergedInv'
<1>1. ThreadTypes
  BY DEF AllocatorInv, ControlInv
<1>2. ASSUME NEW th \in Threads, Starts(th) \/ Locks(th) \/ Continues(th),
             UNCHANGED poolVars, pc[th] # "acquire"
      PROVE  MergedInv'
  BY <1>1, <1>2, OthersStay, QuietStaysMerged
<1>3. ASSUME NEW th \in Threads, Starts(th)
      PROVE  MergedInv'
  <2>1. UNCHANGED poolVars /\ pc[th] = "idle"
    BY <1>3 DEF Starts, StartAllocate, Submit, DestroyBuffer, StartTrim, StartDestroy, Begin, Goto
  <2> QED BY <1>2, <1>3, <2>1
<1>4. ASSUME NEW th \in Threads, Locks(th)
      PROVE  MergedInv'
  <2>1. UNCHANGED poolVars /\ pc[th] \in {"lock_allocate", "lock_recycle", "lock_trim"}
    BY <1>4 DEF Locks, LockAllocate, LockRecycle, LockTrim, Goto
  <2> QED BY <1>2, <1>4, <2>1
<1>5. ASSUME NEW th \in Threads, Continues(th)
      PROVE  MergedInv'
  <2>1. CASE Search(th) \/ SearchAgain(th) \/ Halve(th) \/ TrimToRetry(th) \/ ThrowBadAlloc(th)
    <3>1. UNCHANGED poolVars /\ pc[th] \in {"search", "search_again", "grow"}
      BY <2>1 DEF Search, SearchAgain, Halve, TrimToRetry, ThrowBadAlloc, Goto
    <3> QED BY <1>2, <1>5, <3>1
  <2>2. CASE AskPending(th) \/ MakeBuffer(th) \/ SettleFails(th) \/ RecordUse(th)
             \/ RecycleDefers(th) \/ RecycleLoses(th)
    <3>1. UNCHANGED poolVars /\ pc[th] \in {"settle", "make_buffer", "record_use", "recycle"}
      BY <2>2 DEF AskPending, MakeBuffer, SettleFails, RecordUse, RecycleDefers, RecycleLoses, Goto
    <3> QED BY <1>2, <1>5, <3>1
  <2>3. CASE CallThrows(th) \/ DestructorThrows(th)
    <3>1. UNCHANGED poolVars /\ pc[th] # "acquire"
      BY <2>3 DEF CallThrows, DestructorThrows, MayThrowAt
    <3> QED BY <1>2, <1>5, <3>1
  <2>4. CASE Process(th)
    <3>1. pc[th] = "process" /\ UNCHANGED deviceVars /\ (ReleaseReady \/ UNCHANGED poolVars)
      BY <2>4 DEF Process, EndProcess
    <3>2. CASE ReleaseReady
      <4>1. PICK i \in Positions, pending \in PendingTokens : Release(i, pending)
        BY <3>1, <3>2, ReadyIsReleased
      <4> QED BY <3>1, <4>1, ReleaseStaysMerged
    <3>3. CASE UNCHANGED poolVars
      BY <1>2, <1>5, <3>1, <3>3
    <3> QED BY <3>1, <3>2, <3>3
  <2>5. CASE WaitAll(th)
    <3>1. pc[th] = "wait_all" /\ UNCHANGED deviceVars /\ (WaitOldest \/ UNCHANGED poolVars)
      BY <2>5 DEF WaitAll
    <3>2. CASE WaitOldest
      <4>1. PICK i \in Positions, pending \in PendingTokens : Release(i, pending)
        BY <3>1, <3>2, OldestIsReleased
      <4> QED BY <3>1, <4>1, ReleaseStaysMerged
    <3>3. CASE UNCHANGED poolVars
      BY <1>2, <1>5, <3>1, <3>3
    <3> QED BY <3>1, <3>2, <3>3
  <2>6. CASE RecycleReleases(th)
    <3>1. PICK i \in Positions, pending \in PendingTokens : Release(i, pending)
      BY <2>6, RecycledIsReleased
    <3>2. pc[th] = "recycle"
      BY <2>6 DEF RecycleReleases
    <3> QED BY <3>1, <3>2, ReleaseStaysMerged
  <2>7. CASE WaitPending(th)
    <3>1. pc[th] = "wait_pending" /\ call' = "reset_pending" /\ ite' = 1
      BY <2>7 DEF WaitPending, ResetPending, Goto
    <3>2. \A j \in 1..Len(m_blocks') - 1 : Excused(j)'
      BY <3>1 DEF Excused
    <3> QED BY <3>2 DEF MergedInv
  <2>8. CASE DestroyAllocator(th)
    <3>1. m_blocks' = <<>>
      BY <2>8 DEF DestroyAllocator, DestroyPool
    <3> QED BY <3>1 DEF MergedInv
  <2> QED BY <1>5, <2>1, <2>2, <2>3, <2>4, <2>5, <2>6, <2>7, <2>8, GrowStaysMerged, CutStaysMerged,
             AcquireStaysMerged, ForgetStaysMerged, ResetStaysMerged, GiveBackStaysMerged
          DEF Continues
<1>6. ASSUME UNCHANGED <<poolVars, pc, frame>>
      PROVE  MergedInv'
  BY <1>6, ThreadsAssumption, QuietStaysMerged
<1>7. ASSUME NEW timeline \in Timelines, DeviceStep(timeline)
      PROVE  MergedInv'
  BY <1>6, <1>7 DEF DeviceStep, allocatorVars
<1>8. ASSUME Terminated
      PROVE  MergedInv'
  BY <1>6, <1>8 DEF Terminated, allVars, allocatorVars
<1> QED BY <1>3, <1>4, <1>5, <1>7, <1>8 DEF AllocatorNext

\* Between calls no two free neighbours that one token could speak for are
\* left apart: whatever was asked of the allocator, and whatever of it failed
\* on the way, has merged what it gave back (release, reset_pending).
THEOREM AllocatorBlocksMerged == ASSUME RequestsFit PROVE AllocatorSpec => []FreeBlocksMerged
<1>1. AllocatorInit => AllocatorInv /\ MergedInv
  <2>1. AllocatorInit => m_blocks = <<>>
    BY DEF AllocatorInit, PoolInit
  <2> QED BY <2>1, InitInv DEF MergedInv
<1>2. AllocatorInv /\ MergedInv /\ [AllocatorNext]_allVars => (AllocatorInv /\ MergedInv)'
  <2>1. ASSUME MergedInv, UNCHANGED allVars
        PROVE  MergedInv'
    BY <2>1, ThreadsAssumption, QuietStaysMerged DEF allVars, allocatorVars
  <2> QED BY <2>1, AllocatorNextKeepsInv, AllocatorNextStaysMerged, StutterKeepsInv
<1>3. AllocatorInv /\ MergedInv => FreeBlocksMerged
  <2> SUFFICES ASSUME AllocatorInv, MergedInv, m_mutex = NoThread, alive,
                      NEW i \in 1..Len(m_blocks) - 1
               PROVE  Apart(m_blocks, i)
    BY DEF FreeBlocksMerged, Apart
  <2>1. ThreadTypes /\ LockInv /\ LoopInv
    BY DEF AllocatorInv, ControlInv
  <2>2. \A th \in Threads : pc[th] \notin PoolSteps
    BY <2>1, UnlockedIsEmpty
  <2>3. "acquire" \in PoolSteps /\ "reset_pending" \in PoolSteps
    BY StepsOfPool, StepsOfTrim DEF TrimSteps
  <2>4. call # "reset_pending" /\ \A th \in Threads : pc[th] # "acquire"
    BY <2>1, <2>2, <2>3 DEF LoopInv
  <2> QED BY <2>4 DEF MergedInv, Excused
<1> QED BY <1>1, <1>2, <1>3, PTL DEF AllocatorSpec

----------------------------------------------------------------------------
(* The least of a set of numbers: the smallest of some blocks.             *)

\* Of the intervals that end in the set, one has no other inside it.
LEMMA LeastNatural ==
    ASSUME NEW S \in SUBSET Nat, S # {}
    PROVE  \E n \in S : \A m \in S : n <= m
<1> DEFINE R == StrictSubsetOrdering(Nat)
           F == FiniteSubsetsOf(Nat)
           T == {0..n : n \in S}
<1>1. T \subseteq F /\ T # {}
  <2>1. \A n \in S : 0..n \in SUBSET Nat /\ IsFiniteSet(0..n)
    BY FS_Interval
  <2> QED BY <2>1 DEF FiniteSubsetsOf
<1>2. IsWellFoundedOn(R, F)
  BY FS_StrictSubsetOrderingWellFounded
<1> HIDE DEF T, R, F
<1>3. PICK x \in T : \A y \in T : <<y, x>> \notin R
  BY <1>1, <1>2, WFMin, Zenon
<1>4. PICK n \in S : x = 0..n
  BY <1>3 DEF T
<1>5. ASSUME NEW m \in S, m < n
      PROVE  FALSE
  <2>1. 0..m \in T /\ 0..m \in SUBSET Nat /\ 0..n \in SUBSET Nat
    BY DEF T
  <2>2. 0..m \subseteq 0..n /\ n \in 0..n /\ n \notin 0..m
    BY <1>5
  <2>3. <<0..m, x>> \in R
    BY <1>4, <2>1, <2>2 DEF R, StrictSubsetOrdering
  <2> QED BY <1>3, <2>1, <2>3
<1> QED BY <1>5

LEMMA SmallestIsThere ==
    ASSUME m_blocks \in Seq(Blocks), NEW positions \in SUBSET Positions, positions # {}
    PROVE  Smallest(positions) # {}
<1> DEFINE sizes == {m_blocks[i].size : i \in positions}
<1>1. \A i \in positions : m_blocks[i].size \in Nat
  BY BlocksAreBlocks DEF Positions
<1>2. sizes \in SUBSET Nat /\ sizes # {}
  BY <1>1
<1>3. PICK n \in sizes : \A m \in sizes : n <= m
  BY <1>2, LeastNatural
<1>4. PICK i \in positions : m_blocks[i].size = n
  BY <1>3
<1>5. i \in Smallest(positions)
  BY <1>3, <1>4 DEF Smallest
<1> QED BY <1>5

\* A search that finds nothing has looked at every block that waits for nobody.
LEMMA NothingSuitable ==
    ASSUME m_blocks \in Seq(Blocks), NEW size \in Int, NEW timeline,
           FindSuitableBlock(size, timeline) = {},
           NEW i \in Positions, m_blocks[i].free, m_blocks[i].pending = NoToken
    PROVE  m_blocks[i].size < size
<1> DEFINE found == {j \in Positions : /\ m_blocks[j].free
                                       /\ m_blocks[j].pending.timeline = NoTimeline
                                       /\ m_blocks[j].size >= size}
<1>1. FindInTimeline(size, NoTimeline) = {}
  BY DEF FindSuitableBlock
<1>2. Smallest(found) = {}
  BY <1>1 DEF FindInTimeline
<1>3. found \in SUBSET Positions
  OBVIOUS
<1>4. i \notin found
  BY <1>2, <1>3, SmallestIsThere
<1>5. m_blocks[i].size \in Nat
  BY BlocksAreBlocks DEF Positions
<1> QED BY <1>4, <1>5 DEF NoToken

----------------------------------------------------------------------------
(* What a thread that trims has found out by the time it asks again.       *)

LastTry(step, locals) == step = "grow" /\ locals.trim_for = "allocate"

DrainedSteps == {"wait_pending", "reset_pending", "give_back", "giving_back", "search_again"}

NoTokenLeft == \A i \in Positions : m_blocks[i].free => m_blocks[i].pending = NoToken

HeapsInUse ==
    \A heap \in Heaps : m_heaps[heap] > 0 =>
        \E i \in Positions : m_blocks[i].heap = heap /\ ~m_blocks[i].free

Trimmed(step, locals) ==
    /\ step \in DrainedSteps \/ LastTry(step, locals) => m_pending = <<>>
    /\ step \in {"give_back", "giving_back", "search_again"} => NoTokenLeft
    /\ step = "search_again" \/ LastTry(step, locals) => HeapsInUse
    /\ LastTry(step, locals) =>
          \A i \in Positions : m_blocks[i].free => m_blocks[i].size < locals.size

TrimmedInv == \A th \in Threads : Trimmed(pc[th], frame[th])

\* At the other steps there is nothing to know.
LEMMA NothingTrimmed ==
    ASSUME NEW step, NEW locals, step \notin DrainedSteps, ~LastTry(step, locals)
    PROVE  Trimmed(step, locals) /\ Trimmed(step, locals)'
BY DEF Trimmed, DrainedSteps, LastTry

LEMMA DrainedInPool ==
    ASSUME NEW step, NEW locals, step \in DrainedSteps \/ LastTry(step, locals)
    PROVE  step \in PoolSteps
BY DEF DrainedSteps, LastTry, PoolSteps, LockedSteps, TrimSteps

\* Whoever is in the pool has it to itself.
LEMMA TrimmedAfterPoolStep ==
    ASSUME ThreadTypes, LockInv, NEW th \in Threads, pc[th] \in PoolSteps,
           Starts(th) \/ Locks(th) \/ Continues(th),
           Trimmed(pc[th], frame[th])'
    PROVE  TrimmedInv'
<1> SUFFICES ASSUME NEW other \in Threads, other # th
             PROVE  Trimmed(pc[other], frame[other])'
  BY DEF TrimmedInv
<1>1. pc[other] \notin PoolSteps
  BY InPoolIsAlone DEF Alone
<1>2. pc'[other] = pc[other] /\ frame'[other] = frame[other]
  BY OthersStay
<1>3. pc[other] \notin DrainedSteps /\ ~LastTry(pc[other], frame[other])
  BY <1>1, DrainedInPool
<1> QED BY <1>2, <1>3 DEF Trimmed, DrainedSteps, LastTry

\* Neither the pool nor the list of what is held back changes.
LEMMA TrimmedAfterQuietStep ==
    ASSUME ThreadTypes, TrimmedInv, NEW th \in Threads,
           Starts(th) \/ Locks(th) \/ Continues(th),
           UNCHANGED <<m_pending, m_blocks, m_heaps>>,
           pc'[th] \notin DrainedSteps, ~LastTry(pc'[th], frame'[th])
    PROVE  TrimmedInv'
<1> SUFFICES ASSUME NEW other \in Threads
             PROVE  Trimmed(pc[other], frame[other])'
  BY DEF TrimmedInv
<1>1. CASE other = th
  BY <1>1 DEF Trimmed, DrainedSteps, LastTry
<1>2. CASE other # th
  <2>1. pc'[other] = pc[other] /\ frame'[other] = frame[other]
    BY <1>2, OthersStay
  <2>2. Trimmed(pc[other], frame[other])
    BY DEF TrimmedInv
  <2> QED BY <2>1, <2>2 DEF Trimmed, DrainedSteps, LastTry, NoTokenLeft, HeapsInUse, Positions
<1> QED BY <1>1, <1>2

LEMMA TrimmedAfterLeaving ==
    ASSUME ThreadTypes, LockInv, NEW th \in Threads, pc[th] \in PoolSteps,
           Starts(th) \/ Locks(th) \/ Continues(th),
           pc'[th] \notin DrainedSteps, ~LastTry(pc'[th], frame'[th])
    PROVE  TrimmedInv'
<1>1. Trimmed(pc[th], frame[th])'
  BY DEF Trimmed, DrainedSteps, LastTry
<1> QED BY <1>1, TrimmedAfterPoolStep

LEMMA OutsideStaysTrimmed ==
    ASSUME ThreadTypes, TrimmedInv, NEW th \in Threads,
           \/ Starts(th) \/ Locks(th)
           \/ AskPending(th) \/ MakeBuffer(th) \/ SettleFails(th) \/ RecordUse(th)
    PROVE  TrimmedInv'
<1>1. pc \in [Threads -> Steps]
  BY DEF ThreadTypes
<1>2. CASE Starts(th)
  <2>1. UNCHANGED <<m_pending, m_blocks, m_heaps>>
    BY <1>2 DEF Starts, StartAllocate, Submit, DestroyBuffer, StartTrim, StartDestroy,
                deferredVars, poolVars
  <2>2. pc'[th] \in {"lock_allocate", "record_use", "lock_recycle", "lock_trim", "wait_all"}
    BY <1>1, <1>2 DEF Starts, StartAllocate, Submit, DestroyBuffer, StartTrim, StartDestroy,
                      Begin, Goto
  <2> QED BY <1>2, <2>1, <2>2, TrimmedAfterQuietStep DEF DrainedSteps, LastTry
<1>3. CASE Locks(th)
  <2>1. UNCHANGED <<m_pending, m_blocks, m_heaps>>
    BY <1>3 DEF Locks, LockAllocate, LockRecycle, LockTrim, StartProcess, deferredVars, poolVars
  <2>2. pc'[th] \in {"process", "recycle", "wait_all"}
    BY <1>1, <1>3 DEF Locks, LockAllocate, LockRecycle, LockTrim, Goto
  <2> QED BY <1>3, <2>1, <2>2, TrimmedAfterQuietStep DEF DrainedSteps, LastTry
<1>4. CASE AskPending(th) \/ MakeBuffer(th) \/ SettleFails(th) \/ RecordUse(th)
  <2>1. UNCHANGED <<m_pending, m_blocks, m_heaps>>
    BY <1>4 DEF AskPending, MakeBuffer, SettleFails, RecordUse, deferredVars, poolVars
  <2>2. pc'[th] \in {"set_pending", "make_buffer", "lock_recycle", "idle"}
    BY <1>1, <1>4 DEF AskPending, MakeBuffer, SettleFails, RecordUse, Goto, Return
  <2>3. Continues(th)
    BY <1>4 DEF Continues
  <2> QED BY <2>1, <2>2, <2>3, TrimmedAfterQuietStep DEF DrainedSteps, LastTry
<1> QED BY <1>2, <1>3, <1>4

\* A block in hand is not free, whatever its token.
LEMMA ForgetStaysTrimmed ==
    ASSUME AllocatorInv, TrimmedInv, NEW th \in Threads, ForgetPending(th)
    PROVE  TrimmedInv'
<1>1. /\ pc[th] = "set_pending" /\ pc' = [pc EXCEPT ![th] = "make_buffer"]
      /\ SetPending(BlockOf(th), NoToken) /\ m_pending' = m_pending
  BY DEF ForgetPending, Goto, deferredVars
<1>2. ThreadTypes /\ IInv /\ OwnersInv
  BY <1>1, LiveOutside
<1>3. pc[th] \in HandSteps
  BY <1>1 DEF HandSteps
<1>4. PICK i \in Positions : i = BlockOf(th) /\ ~m_blocks[i].free
  BY <1>2, <1>3, BlockInHand
<1>5. m_blocks \in Seq(Blocks) /\ i \in 1..Len(m_blocks) /\ m_blocks[i] \in Blocks
  BY <1>2, <1>4, BlocksAreBlocks DEF IInv, ListOK, Positions
<1>6. m_blocks' = [m_blocks EXCEPT ![i].pending = NoToken] /\ m_heaps' = m_heaps
  BY <1>1, <1>4 DEF SetPending
<1>7. /\ Positions' = Positions
      /\ \A j \in Positions : /\ m_blocks'[j].free = m_blocks[j].free
                              /\ m_blocks'[j].heap = m_blocks[j].heap
                              /\ m_blocks'[j].size = m_blocks[j].size
                              /\ m_blocks[j].free => m_blocks'[j] = m_blocks[j]
  BY <1>4, <1>5, <1>6 DEF Positions, Blocks
<1>8. /\ NoTokenLeft => NoTokenLeft'
      /\ HeapsInUse => HeapsInUse'
  BY <1>6, <1>7 DEF NoTokenLeft, HeapsInUse
<1>9. ASSUME NEW other \in Threads
      PROVE  Trimmed(pc[other], frame[other])'
  <2>1. CASE other = th
    <3>1. pc'[th] = "make_buffer"
      BY <1>1, <1>2 DEF ThreadTypes
    <3> QED BY <2>1, <3>1 DEF Trimmed, DrainedSteps, LastTry
  <2>2. CASE other # th
    <3>1. pc'[other] = pc[other] /\ frame'[other] = frame[other]
      BY <1>2, <2>2, OthersStay DEF Continues
    <3>2. Trimmed(pc[other], frame[other])
      BY DEF TrimmedInv
    <3> QED BY <1>1, <1>7, <1>8, <3>1, <3>2 DEF Trimmed, DrainedSteps, LastTry
  <2> QED BY <2>1, <2>2
<1> QED BY <1>9 DEF TrimmedInv

\* The steps after which nothing has been found out, or no longer matters.
LEMMA LeavesTrimmed ==
    ASSUME AllocatorInv, NEW th \in Threads,
           \/ Process(th) \/ Search(th) \/ Grow(th) \/ TrimToRetry(th) \/ ThrowBadAlloc(th)
           \/ Cut(th) \/ AcquireBlock(th)
           \/ RecycleReleases(th) \/ RecycleDefers(th) \/ RecycleLoses(th)
           \/ DestroyAllocator(th) \/ CallThrows(th) \/ DestructorThrows(th)
    PROVE  TrimmedInv'
<1>1. /\ ThreadTypes /\ LockInv /\ pc \in [Threads -> Steps] /\ frame \in [Threads -> Frames]
      /\ frame[th] \in Frames
  BY DEF AllocatorInv, ControlInv, ThreadTypes
<1>2. Continues(th)
  BY DEF Continues
<1>3. CASE Search(th)
  <2>1. pc[th] = "search"
    BY <1>3 DEF Search
  <2>2. frame[th].trim_for = "none"
    BY <1>1, <2>1, StepsOfPool DEF LockInv
  <2>3. CASE pc' = [pc EXCEPT ![th] = "cut"]
    <3>1. pc'[th] = "cut" /\ pc[th] \in PoolSteps
      BY <1>1, <2>1, <2>3, StepsOfPool
    <3> QED BY <1>1, <1>2, <3>1, TrimmedAfterLeaving DEF DrainedSteps, LastTry
  <2>4. CASE /\ pc' = [pc EXCEPT ![th] = "grow"]
             /\ Keep(th, [frame[th] EXCEPT !.heap_size = GetHeapSize(frame[th].size, m_size)])
    <3>1. pc'[th] = "grow" /\ pc[th] \in PoolSteps
      BY <1>1, <2>1, <2>4, StepsOfPool
    <3>2. frame'[th].trim_for = "none"
      BY <1>1, <2>2, <2>4 DEF Keep, Frames
    <3> QED BY <1>1, <1>2, <3>1, <3>2, TrimmedAfterLeaving DEF DrainedSteps, LastTry
  <2> QED BY <1>3, <2>3, <2>4 DEF Search, TakeOrGrow
<1>4. CASE Process(th) \/ Grow(th) \/ TrimToRetry(th) \/ ThrowBadAlloc(th) \/ Cut(th)
           \/ AcquireBlock(th)
  <2>1. pc[th] \in {"process", "grow", "cut", "acquire"}
    BY <1>4 DEF Process, Grow, TrimToRetry, ThrowBadAlloc, Cut, AcquireBlock, Goto
  <2>2. pc'[th] \in {"process", "search", "cut", "wait_all", "idle", "acquire", "settle"}
    BY <1>1, <1>4 DEF Process, Grow, TrimToRetry, ThrowBadAlloc, Cut, AcquireBlock, Goto, Return
  <2> QED BY <1>1, <1>2, <2>1, <2>2, StepsOfPool, TrimmedAfterLeaving DEF DrainedSteps, LastTry
<1>5. CASE RecycleReleases(th) \/ RecycleDefers(th) \/ RecycleLoses(th) \/ DestroyAllocator(th)
           \/ CallThrows(th) \/ DestructorThrows(th)
  <2>1. pc[th] \in {"recycle", "destroy_pool", "process", "wait_all", "wait_pending", "grow", "cut"}
    BY <1>5 DEF RecycleReleases, RecycleDefers, RecycleLoses, DestroyAllocator, CallThrows,
                DestructorThrows, MayThrowAt
  <2>2. pc'[th] \in {"idle", "destroy_pool"}
    BY <1>1, <1>5 DEF RecycleReleases, RecycleDefers, RecycleLoses, DestroyAllocator, CallThrows,
                      DestructorThrows, Return
  <2>3. pc[th] \in PoolSteps
    BY <2>1 DEF PoolSteps, LockedSteps, TrimSteps
  <2> QED BY <1>1, <1>2, <2>2, <2>3, TrimmedAfterLeaving DEF DrainedSteps, LastTry
<1> QED BY <1>3, <1>4, <1>5

LEMMA DrainStaysTrimmed ==
    ASSUME AllocatorInv, TrimmedInv, NEW th \in Threads,
           WaitAll(th) \/ WaitPending(th) \/ Reset(th)
    PROVE  TrimmedInv'
<1>1. /\ ThreadTypes /\ LockInv /\ pc \in [Threads -> Steps]
      /\ Trimmed(pc[th], frame[th])
  BY DEF AllocatorInv, ControlInv, ThreadTypes, TrimmedInv
<1>2. Continues(th)
  BY DEF Continues
<1>3. pc[th] \in {"wait_all", "wait_pending", "reset_pending"}
  BY DEF WaitAll, WaitPending, Reset, Goto
<1>4. pc[th] \in PoolSteps /\ pc[th] \in TrimSteps
  BY <1>3, StepsOfTrim DEF TrimSteps
<1>5. CASE WaitAll(th) /\ UNCHANGED pc
  <2>1. pc'[th] = "wait_all"
    BY <1>5 DEF WaitAll
  <2> QED BY <1>1, <1>2, <1>4, <2>1, TrimmedAfterLeaving DEF DrainedSteps, LastTry
<1>6. CASE /\ WaitAll(th) /\ NothingHeldBack /\ Goto(th, "wait_all", "wait_pending")
           /\ UNCHANGED deferredVars
  <2>1. pc'[th] = "wait_pending" /\ m_pending' = <<>>
    BY <1>1, <1>6 DEF Goto, NothingHeldBack, deferredVars
  <2>2. Trimmed(pc[th], frame[th])'
    BY <2>1 DEF Trimmed, LastTry
  <2> QED BY <1>1, <1>2, <1>4, <2>2, TrimmedAfterPoolStep
<1>7. CASE WaitPending(th)
  <2>1. pc[th] = "wait_pending" /\ pc'[th] = "reset_pending" /\ m_pending' = m_pending
    BY <1>1, <1>7 DEF WaitPending, Goto, deferredVars
  <2>2. m_pending = <<>>
    BY <1>1, <2>1 DEF Trimmed, DrainedSteps
  <2>3. Trimmed(pc[th], frame[th])'
    BY <2>1, <2>2 DEF Trimmed, LastTry
  <2> QED BY <1>1, <1>2, <1>4, <2>3, TrimmedAfterPoolStep
<1>8. CASE Reset(th)
  <2>1. pc[th] = "reset_pending" /\ m_pending' = m_pending
    BY <1>8 DEF Reset, deferredVars
  <2>2. m_pending' = <<>>
    BY <1>1, <2>1 DEF Trimmed, DrainedSteps
  <2>3. CASE UNCHANGED pc
    <3>1. pc'[th] = "reset_pending"
      BY <2>1, <2>3
    <3>2. Trimmed(pc[th], frame[th])'
      BY <2>2, <3>1 DEF Trimmed, LastTry
    <3> QED BY <1>1, <1>2, <1>4, <3>2, TrimmedAfterPoolStep
  <2>4. CASE EndReset /\ Goto(th, "reset_pending", "give_back")
    <3>1. pc'[th] = "give_back" /\ m_blocks' = m_blocks
      BY <1>1, <2>4 DEF Goto, EndReset, poolState
    <3>2. IInv /\ call = "reset_pending"
      BY <1>4, <2>1, InTrim
    <3>3. NoTokenLeft'
      BY <3>1, <3>2 DEF IInv, EmptiedWhileResetting, NoTokenLeft, Positions
    <3>4. Trimmed(pc[th], frame[th])'
      BY <2>2, <3>1, <3>3 DEF Trimmed, LastTry
    <3> QED BY <1>1, <1>2, <1>4, <3>4, TrimmedAfterPoolStep
  <2> QED BY <1>8, <2>3, <2>4 DEF Reset
<1> QED BY <1>5, <1>6, <1>7, <1>8 DEF WaitAll

\* What release_unused_heaps leaves free has a neighbour of its heap, and of
\* two neighbours without a token one is in use.
LEMMA KeptHeapsInUse ==
    ASSUME IInv, NoTokenLeft, \A i \in 1..Len(m_blocks) - 1 : Apart(m_blocks, i),
           \A i \in Positions : m_blocks[i].free => IsPartition(m_blocks, i)
    PROVE  HeapsInUse
<1> SUFFICES ASSUME NEW heap \in Heaps, m_heaps[heap] > 0,
                    \A i \in Positions : m_blocks[i].heap = heap => m_blocks[i].free
             PROVE  FALSE
  BY DEF HeapsInUse
<1>1. m_blocks \in Seq(Blocks) /\ Len(m_blocks) \in Nat /\ Tiles(m_blocks, m_heaps)
  BY DEF IInv, ListOK
<1>2. PICK i \in 1..Len(m_blocks) : m_blocks[i].heap = heap
  BY <1>1 DEF Tiles, HeapsHaveBlocks
<1>3. i \in Positions /\ m_blocks[i].free
  BY <1>2 DEF Positions
<1>4. IsPartition(m_blocks, i)
  BY <1>3
<1>5. PICK k \in 1..Len(m_blocks) - 1 : m_blocks[k].heap = heap /\ m_blocks[k + 1].heap = heap
  <2>1. CASE i < Len(m_blocks) /\ m_blocks[i + 1].heap = m_blocks[i].heap
    BY <1>1, <1>2, <2>1
  <2>2. CASE i > 1 /\ m_blocks[i - 1].heap = m_blocks[i].heap
    <3>1. i - 1 \in 1..Len(m_blocks) - 1 /\ (i - 1) + 1 = i
      BY <1>1, <2>2
    <3> QED BY <1>2, <2>2, <3>1
  <2> QED BY <1>4, <2>1, <2>2 DEF IsPartition
<1>6. k \in Positions /\ k + 1 \in Positions
  BY <1>1 DEF Positions
<1>7. m_blocks[k].free /\ m_blocks[k + 1].free
  BY <1>5, <1>6
<1>8. m_blocks[k].pending = NoToken /\ m_blocks[k + 1].pending = NoToken
  BY <1>6, <1>7 DEF NoTokenLeft
<1>9. Apart(m_blocks, k)
  OBVIOUS
<1> QED BY <1>5, <1>7, <1>8, <1>9 DEF Apart

LEMMA GiveBackStaysTrimmed ==
    ASSUME AllocatorInv, MergedInv, TrimmedInv, NEW th \in Threads,
           StartGiveBack(th) \/ GiveBack(th) \/ EndTrim(th)
    PROVE  TrimmedInv'
<1>1. /\ ThreadTypes /\ LockInv /\ pc \in [Threads -> Steps] /\ frame \in [Threads -> Frames]
      /\ Trimmed(pc[th], frame[th])
  BY DEF AllocatorInv, ControlInv, ThreadTypes, TrimmedInv
<1>2. Continues(th)
  BY DEF Continues
<1>3. pc[th] \in {"give_back", "giving_back"} /\ m_pending' = m_pending
  BY DEF StartGiveBack, GiveBack, EndTrim, Goto, deferredVars
<1>4. pc[th] \in PoolSteps /\ pc[th] \in TrimSteps /\ pc[th] # "acquire"
  BY <1>3, StepsOfTrim DEF TrimSteps
<1>5. m_pending' = <<>> /\ NoTokenLeft
  BY <1>1, <1>3 DEF Trimmed, DrainedSteps
<1>6. IInv /\ call # "reset_pending"
  BY <1>3, <1>4, InTrim
<1>7. CASE StartGiveBack(th)
  <2>1. pc'[th] = "giving_back" /\ m_blocks' = m_blocks
    BY <1>1, <1>7 DEF StartGiveBack, ReleaseUnusedHeaps, Goto
  <2>2. NoTokenLeft'
    BY <1>5, <2>1 DEF NoTokenLeft, Positions
  <2>3. Trimmed(pc[th], frame[th])'
    BY <1>5, <2>1, <2>2 DEF Trimmed, LastTry
  <2> QED BY <1>1, <1>2, <1>4, <2>3, TrimmedAfterPoolStep
<1>8. CASE GiveBack(th)
  <2>1. pc'[th] = "giving_back"
    BY <1>8 DEF GiveBack
  <2>2. PICK i \in Positions : m_blocks' = RemoveAt(m_blocks, i)
    BY <1>8 DEF GiveBack, ReleaseUnusedHeap
  <2>3. /\ m_blocks \in Seq(Blocks) /\ i \in 1..Len(m_blocks) /\ Len(m_blocks) \in Nat
    BY <1>6 DEF IInv, ListOK, Positions
  <2>4. /\ Len(m_blocks') = Len(m_blocks) - 1
        /\ \A j \in 1..Len(m_blocks) - 1 :
              m_blocks'[j] = IF j < i THEN m_blocks[j] ELSE m_blocks[j + 1]
    BY <2>2, <2>3, RemoveAtIndex
  <2>5. ASSUME NEW j \in 1..Len(m_blocks'), m_blocks'[j].free
        PROVE  m_blocks'[j].pending = NoToken
    <3>1. j \in Positions /\ j + 1 \in Positions /\ j \in 1..Len(m_blocks) - 1
      BY <2>3, <2>4 DEF Positions
    <3>2. m_blocks'[j] = m_blocks[j] \/ m_blocks'[j] = m_blocks[j + 1]
      BY <2>4, <3>1
    <3> QED BY <1>5, <2>5, <3>1, <3>2 DEF NoTokenLeft
  <2>6. NoTokenLeft'
    BY <2>5 DEF NoTokenLeft, Positions
  <2>7. Trimmed(pc[th], frame[th])'
    BY <1>5, <2>1, <2>6 DEF Trimmed, LastTry
  <2> QED BY <1>1, <1>2, <1>4, <2>7, TrimmedAfterPoolStep
<1>9. CASE EndTrim(th)
  <2>1. /\ UNCHANGED <<m_blocks, m_heaps>>
        /\ \A i \in Positions : m_blocks[i].free => IsPartition(m_blocks, i)
    BY <1>9 DEF EndTrim, EndReleaseUnusedHeaps
  <2>2. pc'[th] \in {"idle", "search_again", "destroy_pool"}
    BY <1>1, <1>9 DEF EndTrim, Goto, Return
  <2>3. CASE pc'[th] = "search_again"
    <3>1. \A i \in 1..Len(m_blocks) - 1 : Apart(m_blocks, i)
      BY <1>1, <1>4, <1>6, AllApart
    <3>2. HeapsInUse
      BY <1>5, <1>6, <2>1, <3>1, KeptHeapsInUse
    <3>3. NoTokenLeft' /\ HeapsInUse'
      BY <1>5, <2>1, <3>2 DEF NoTokenLeft, HeapsInUse, Positions
    <3>4. Trimmed(pc[th], frame[th])'
      BY <1>5, <2>3, <3>3 DEF Trimmed, LastTry
    <3> QED BY <1>1, <1>2, <1>4, <3>4, TrimmedAfterPoolStep
  <2>4. CASE pc'[th] # "search_again"
    BY <1>1, <1>2, <1>4, <2>2, <2>4, TrimmedAfterLeaving DEF DrainedSteps, LastTry
  <2> QED BY <2>3, <2>4
<1> QED BY <1>7, <1>8, <1>9

\* The search after trimming, and halving what is asked of the driver.
LEMMA RetryStaysTrimmed ==
    ASSUME AllocatorInv, TrimmedInv, NEW th \in Threads, SearchAgain(th) \/ Halve(th)
    PROVE  TrimmedInv'
<1>1. /\ ThreadTypes /\ LockInv /\ pc \in [Threads -> Steps] /\ frame \in [Threads -> Frames]
      /\ frame[th] \in Frames /\ Trimmed(pc[th], frame[th])
  BY DEF AllocatorInv, ControlInv, ThreadTypes, TrimmedInv
<1>2. Continues(th)
  BY DEF Continues
<1>3. pc[th] \in {"search_again", "grow"}
  BY DEF SearchAgain, Halve
<1>4. pc[th] \in PoolSteps /\ pc[th] # "idle"
  BY <1>3, StepsOfPool
<1>5. IInv
  BY <1>4, BusyStands
<1>6. m_blocks \in Seq(Blocks) /\ frame[th].size \in Nat
  BY <1>1, <1>5 DEF IInv, ListOK, Frames
<1>7. UNCHANGED <<m_pending, m_blocks, m_heaps>>
  BY DEF SearchAgain, Halve, deferredVars, poolVars
<1>8. NoTokenLeft' = NoTokenLeft /\ HeapsInUse' = HeapsInUse /\ Positions' = Positions
  BY <1>7 DEF NoTokenLeft, HeapsInUse, Positions
<1>9. CASE SearchAgain(th)
  <2>1. pc[th] = "search_again"
    BY <1>9 DEF SearchAgain
  <2>2. m_pending = <<>> /\ NoTokenLeft /\ HeapsInUse
    BY <1>1, <2>1 DEF Trimmed, DrainedSteps
  <2> DEFINE candidates == FindSuitableBlock(frame[th].size, frame[th].timeline)
  <2>3. CASE candidates # {}
    <3>1. pc'[th] = "cut"
      BY <1>1, <1>9, <2>3 DEF SearchAgain, TakeOrGrow
    <3> QED BY <1>1, <1>2, <1>4, <3>1, TrimmedAfterLeaving DEF DrainedSteps, LastTry
  <2>4. CASE candidates = {}
    <3>1. /\ pc' = [pc EXCEPT ![th] = "grow"]
          /\ frame' = [frame EXCEPT ![th] =
                 [frame[th] EXCEPT !.heap_size = GetHeapSize(frame[th].size, m_size)]]
      BY <1>9, <2>4 DEF SearchAgain, TakeOrGrow, Keep
    <3>2. pc'[th] = "grow" /\ frame'[th].size = frame[th].size
      BY <1>1, <3>1 DEF Frames
    <3>3. \A i \in Positions : m_blocks[i].free => m_blocks[i].size < frame[th].size
      <4>1. FindSuitableBlock(frame[th].size, frame[th].timeline) = {}
        BY <2>4
      <4>2. SUFFICES ASSUME NEW i \in Positions, m_blocks[i].free
                     PROVE  m_blocks[i].size < frame[th].size
        OBVIOUS
      <4>3. m_blocks[i].pending = NoToken /\ frame[th].size \in Int
        BY <1>6, <2>2, <4>2 DEF NoTokenLeft
      <4> QED BY <1>6, <4>1, <4>2, <4>3, NothingSuitable
    <3>4. Trimmed(pc[th], frame[th])'
      BY <1>7, <1>8, <2>2, <3>2, <3>3 DEF Trimmed
    <3> QED BY <1>1, <1>2, <1>4, <3>4, TrimmedAfterPoolStep
  <2> QED BY <2>3, <2>4
<1>10. CASE Halve(th)
  <2>1. /\ pc[th] = "grow" /\ pc' = pc
        /\ frame' = [frame EXCEPT ![th] =
               [frame[th] EXCEPT !.heap_size = HalvedHeapSize(frame[th].heap_size, frame[th].size)]]
    BY <1>10 DEF Halve, Keep
  <2>2. frame'[th].size = frame[th].size /\ frame'[th].trim_for = frame[th].trim_for
    BY <1>1, <2>1 DEF Frames
  <2>3. Trimmed(pc[th], frame[th])'
    BY <1>1, <1>7, <1>8, <2>1, <2>2 DEF Trimmed, LastTry
  <2> QED BY <1>1, <1>2, <1>4, <2>3, TrimmedAfterPoolStep
<1> QED BY <1>9, <1>10

LEMMA AllocatorNextStaysTrimmed ==
    ASSUME AllocatorInv, MergedInv, TrimmedInv, AllocatorNext
    PROVE  TrimmedInv'
<1>1. ASSUME UNCHANGED <<m_pending, m_blocks, m_heaps, pc, frame>>
      PROVE  TrimmedInv'
  BY <1>1 DEF TrimmedInv, Trimmed, DrainedSteps, LastTry, NoTokenLeft, HeapsInUse, Positions
<1>2. ASSUME NEW timeline \in Timelines, DeviceStep(timeline)
      PROVE  TrimmedInv'
  BY <1>1, <1>2 DEF DeviceStep, allocatorVars, deferredVars, poolVars
<1>3. ASSUME Terminated
      PROVE  TrimmedInv'
  BY <1>1, <1>3 DEF Terminated, allVars, allocatorVars, deferredVars, poolVars
<1>4. ASSUME NEW th \in Threads, Starts(th) \/ Locks(th)
      PROVE  TrimmedInv'
  BY <1>4, OutsideStaysTrimmed DEF AllocatorInv, ControlInv
<1>5. ASSUME NEW th \in Threads, Continues(th)
      PROVE  TrimmedInv'
  BY <1>5, OutsideStaysTrimmed, ForgetStaysTrimmed, LeavesTrimmed, DrainStaysTrimmed,
     GiveBackStaysTrimmed, RetryStaysTrimmed DEF Continues, AllocatorInv, ControlInv
<1> QED BY <1>2, <1>3, <1>4, <1>5 DEF AllocatorNext

\* By the time allocate asks the driver for the last time it holds nothing
\* back, no free block would do, and it keeps no heap that nobody uses:
\* the std::bad_alloc of a driver that refuses is the truth, whatever other
\* threads did before the lock was taken, and whatever threw in earlier calls
\* (acquire_block's catch, trim_locked, release_unused_heaps).
THEOREM AllocatorOutOfMemoryIsReal ==
    ASSUME RequestsFit PROVE AllocatorSpec => []OutOfMemoryIsReal
<1> DEFINE Inv == AllocatorInv /\ MergedInv /\ TrimmedInv
<1>1. AllocatorInit => Inv
  <2>1. AllocatorInit => m_blocks = <<>> /\ \A th \in Threads : pc[th] = "idle"
    BY DEF AllocatorInit, PoolInit
  <2> QED BY <2>1, InitInv DEF MergedInv, TrimmedInv, Trimmed, DrainedSteps, LastTry
<1>2. Inv /\ [AllocatorNext]_allVars => Inv'
  <2>1. ASSUME MergedInv, UNCHANGED allVars
        PROVE  MergedInv'
    BY <2>1, ThreadsAssumption, QuietStaysMerged DEF allVars, allocatorVars
  <2>2. ASSUME TrimmedInv, UNCHANGED allVars
        PROVE  TrimmedInv'
    BY <2>2 DEF TrimmedInv, Trimmed, DrainedSteps, LastTry, NoTokenLeft, HeapsInUse, Positions,
                allVars, allocatorVars, deferredVars, poolVars
  <2> QED BY <2>1, <2>2, AllocatorNextKeepsInv, AllocatorNextStaysMerged,
             AllocatorNextStaysTrimmed, StutterKeepsInv
<1>3. Inv => OutOfMemoryIsReal
  BY DEF TrimmedInv, Trimmed, LastTry, HeapsInUse, OutOfMemoryIsReal, MemoryIsExhausted
<1> QED BY <1>1, <1>2, <1>3, PTL DEF AllocatorSpec

----------------------------------------------------------------------------
(* The allocator calls its pool as memory_block_pool asks to be called.    *)

\* But for a new heap, and the end of the allocator, whatever happens is a
\* call the pool allows for.
LEMMA StepIsPoolStep ==
    ASSUME RequestsFit, AllocatorInv, AllocatorNext
    PROVE  \/ PoolNext
           \/ UNCHANGED vars
           \/ \E th \in Threads : Grow(th)
           \/ \E th \in Threads : DestroyAllocator(th)
<1>1. UNCHANGED poolVars /\ UNCHANGED deviceVars => UNCHANGED vars
  BY DEF vars
<1>2. ASSUME NEW th \in Threads, Starts(th)
      PROVE  PoolNext \/ UNCHANGED vars
  <2>1. CASE Submit(th)
    BY <2>1, SubmitIsPoolStep DEF PoolNext
  <2>2. CASE StartAllocate(th) \/ DestroyBuffer(th) \/ StartTrim(th) \/ StartDestroy(th)
    BY <1>1, <2>2 DEF StartAllocate, DestroyBuffer, StartTrim, StartDestroy
  <2> QED BY <1>2, <2>1, <2>2 DEF Starts
<1>3. ASSUME NEW th \in Threads, Locks(th)
      PROVE  UNCHANGED vars
  BY <1>1, <1>3 DEF Locks, LockAllocate, LockRecycle, LockTrim
<1>4. ASSUME NEW th \in Threads, Continues(th), ~Grow(th), ~DestroyAllocator(th)
      PROVE  PoolNext \/ UNCHANGED vars
  <2>1. CASE Search(th) \/ SearchAgain(th) \/ Halve(th) \/ TrimToRetry(th) \/ ThrowBadAlloc(th)
             \/ AskPending(th) \/ MakeBuffer(th) \/ SettleFails(th) \/ RecordUse(th)
    BY <1>1, <2>1 DEF Search, SearchAgain, Halve, TrimToRetry, ThrowBadAlloc, AskPending,
                      MakeBuffer, SettleFails, RecordUse
  <2>2. CASE RecycleDefers(th) \/ RecycleLoses(th) \/ CallThrows(th) \/ DestructorThrows(th)
    BY <1>1, <2>2 DEF RecycleDefers, RecycleLoses, CallThrows, DestructorThrows
  <2>3. CASE Process(th)
    <3>1. pc[th] = "process" /\ UNCHANGED deviceVars /\ (ReleaseReady \/ UNCHANGED poolVars)
      BY <2>3 DEF Process, EndProcess
    <3> QED BY <1>1, <3>1, ReadyIsReleased DEF PoolNext
  <2>4. CASE WaitAll(th)
    <3>1. pc[th] = "wait_all" /\ UNCHANGED deviceVars /\ (WaitOldest \/ UNCHANGED poolVars)
      BY <2>4 DEF WaitAll
    <3> QED BY <1>1, <3>1, OldestIsReleased DEF PoolNext
  <2>5. CASE Cut(th)
    BY <1>1, <2>5, CutIsPoolStep DEF PoolNext
  <2>6. CASE AcquireBlock(th) \/ ForgetPending(th) \/ RecycleReleases(th)
    BY <2>6, AcquireIsPoolStep, ForgetIsPoolStep, RecycledIsReleased DEF PoolNext
  <2>7. CASE WaitPending(th) \/ Reset(th) \/ StartGiveBack(th) \/ GiveBack(th)
    BY <2>7, TrimIsPoolStep DEF PoolNext
  <2>8. CASE EndTrim(th)
    BY <2>8 DEF EndTrim, PoolLoopStep, PoolNext
  <2> QED BY <1>4, <2>1, <2>2, <2>3, <2>4, <2>5, <2>6, <2>7, <2>8 DEF Continues
<1>5. ASSUME NEW timeline \in Timelines, DeviceStep(timeline)
      PROVE  PoolNext
  BY <1>5 DEF DeviceStep, FinishCommand, PoolNext
<1>6. ASSUME Terminated
      PROVE  UNCHANGED vars
  BY <1>1, <1>6 DEF Terminated, allVars
<1> QED BY <1>2, <1>3, <1>4, <1>5, <1>6 DEF AllocatorNext

\* A heap is asked for in a size that is aligned and that std::size_t holds.
GrowsInRange(step, locals) ==
    step = "grow" => locals.heap_size < SizeRange /\ locals.heap_size % MaxAlignment = 0

LEMMA NewHeapFits ==
    ASSUME RequestsFit, NEW asked \in RequestSizes, NEW pool_size \in Int,
           NEW size, size = RequestSize(asked)
    PROVE  GetHeapSize(size, pool_size) < SizeRange /\ GetHeapSize(size, pool_size) % MaxAlignment = 0
<1>1. asked \in Nat /\ asked <= SizeRange - MaxAlignment
  BY AlignmentAssumption DEF RequestsFit
<1>2. size < SizeRange /\ size \in Nat \ {0}
  BY <1>1, RequestFits, RequestSizeInRange
<1> QED BY <1>2, HeapSizeInRange, NewHeapHolds

RangeInv == \A th \in Threads : GrowsInRange(pc[th], frame[th])

LEMMA RangeStays ==
    ASSUME RequestsFit, AllocatorInv, RangeInv, NEW th \in Threads,
           Starts(th) \/ Locks(th) \/ Continues(th)
    PROVE  RangeInv'
<1>1. /\ ThreadTypes /\ LockInv /\ pc \in [Threads -> Steps] /\ frame \in [Threads -> Frames]
      /\ frame[th] \in Frames
  BY DEF AllocatorInv, ControlInv, ThreadTypes
<1> SUFFICES GrowsInRange(pc'[th], frame'[th])
  <2> SUFFICES ASSUME NEW other \in Threads, other # th
               PROVE  GrowsInRange(pc'[other], frame'[other])
    BY DEF RangeInv, GrowsInRange
  <2>1. pc'[other] = pc[other] /\ frame'[other] = frame[other]
    BY <1>1, OthersStay
  <2> QED BY <2>1 DEF RangeInv
<1>2. CASE pc'[th] # "grow"
  BY <1>2 DEF GrowsInRange
<1>3. CASE pc'[th] = "grow" /\ (Search(th) \/ SearchAgain(th))
  <2>1. /\ pc[th] \in {"search", "search_again"}
        /\ frame' = [frame EXCEPT ![th] =
               [frame[th] EXCEPT !.heap_size = GetHeapSize(frame[th].size, m_size)]]
    BY <1>1, <1>3 DEF Search, SearchAgain, TakeOrGrow, Keep
  <2>2. frame'[th].heap_size = GetHeapSize(frame[th].size, m_size)
    BY <1>1, <2>1 DEF Frames
  <2>3. pc[th] # "idle" /\ pc[th] \in RequestSteps
    BY <2>1, StepsOfPool
  <2>4. ThreadsKnow /\ IInv
    BY <2>3, BusyStands
  <2>5. m_size \in Int /\ AskedBy(pc[th], frame[th])
    BY <2>4 DEF ThreadsKnow, IInv, PoolTypeOK
  <2>6. frame[th].asked \in RequestSizes /\ frame[th].size = RequestSize(frame[th].asked)
    BY <2>3, <2>5 DEF AskedBy
  <2>7. /\ GetHeapSize(frame[th].size, m_size) < SizeRange
        /\ GetHeapSize(frame[th].size, m_size) % MaxAlignment = 0
    BY <2>5, <2>6, NewHeapFits
  <2> QED BY <2>2, <2>7 DEF GrowsInRange
<1>4. CASE pc'[th] = "grow" /\ Halve(th)
  <2>1. /\ pc[th] = "grow" /\ frame[th].heap_size > frame[th].size
        /\ frame' = [frame EXCEPT ![th] =
               [frame[th] EXCEPT !.heap_size = HalvedHeapSize(frame[th].heap_size, frame[th].size)]]
    BY <1>4 DEF Halve, Keep
  <2>2. frame'[th].heap_size = HalvedHeapSize(frame[th].heap_size, frame[th].size)
    BY <1>1, <2>1 DEF Frames
  <2>3. frame[th].heap_size < SizeRange /\ frame[th].heap_size % MaxAlignment = 0
        /\ frame[th].heap_size \in Nat
    BY <1>1, <2>1 DEF RangeInv, GrowsInRange, Frames
  <2>4. frame[th].asked \in RequestSizes /\ frame[th].size = RequestSize(frame[th].asked)
    BY <2>1, LiveRequest
  <2>5. frame[th].size \in Nat \ {0} /\ frame[th].size % MaxAlignment = 0
    BY <2>4, RequestFits
  <2> DEFINE halved == HalvedHeapSize(frame[th].heap_size, frame[th].size)
  <2>6. halved \in Nat /\ halved < frame[th].heap_size /\ halved % MaxAlignment = 0
    BY <2>1, <2>3, <2>5, HalvingEnds
  <2> HIDE DEF halved
  <2>7. frame'[th].heap_size = halved /\ SizeRange \in Nat
    BY <2>2, AlignmentAssumption DEF halved
  <2> QED BY <2>3, <2>6, <2>7 DEF GrowsInRange
<1>5. CASE pc'[th] = "grow" /\ ~Search(th) /\ ~SearchAgain(th) /\ ~Halve(th)
  <2>2. ~Starts(th) /\ ~Locks(th)
    BY <1>1, <1>5 DEF Starts, StartAllocate, Submit, DestroyBuffer, StartTrim, StartDestroy,
                      Begin, Locks, LockAllocate, LockRecycle, LockTrim, Goto
  <2>3. ~(Grow(th) \/ TrimToRetry(th) \/ ThrowBadAlloc(th) \/ Cut(th) \/ AcquireBlock(th))
    BY <1>1, <1>5 DEF Grow, TrimToRetry, ThrowBadAlloc, Cut, AcquireBlock, Goto, Return
  <2>4. ~(\/ AskPending(th) \/ ForgetPending(th) \/ MakeBuffer(th) \/ SettleFails(th)
          \/ RecordUse(th) \/ RecycleReleases(th) \/ RecycleDefers(th) \/ RecycleLoses(th))
    BY <1>1, <1>5 DEF AskPending, ForgetPending, MakeBuffer, SettleFails, RecordUse,
                      RecycleReleases, RecycleDefers, RecycleLoses, Goto, Return
  <2>5. ~(WaitPending(th) \/ StartGiveBack(th) \/ EndTrim(th) \/ DestroyAllocator(th)
          \/ CallThrows(th) \/ DestructorThrows(th))
    BY <1>1, <1>5 DEF WaitPending, StartGiveBack, EndTrim, DestroyAllocator, CallThrows,
                      DestructorThrows, Goto, Return
  <2>6. ~(Process(th) \/ WaitAll(th) \/ Reset(th) \/ GiveBack(th))
    BY <1>1, <1>5 DEF Process, WaitAll, Reset, GiveBack, Goto
  <2> QED BY <1>5, <2>2, <2>3, <2>4, <2>5, <2>6 DEF Continues
<1> QED BY <1>2, <1>3, <1>4, <1>5

----------------------------------------------------------------------------
(* The end of the allocator: nothing is left, unless a block was lost or   *)
(* the destructor gave up waiting.                                         *)

NothingLost == ~DeferMayFail => lost = {}

QuietEnd ==
    ~DeferMayFail /\ ~DestructorMayThrow =>
        \A th \in Threads : pc[th] = "destroy_pool" => running = {}

\* Every block is owned, and once the owners are gone every heap has been
\* given back: no command can be left that uses one.
LEMMA EndIsQuiet ==
    ASSUME AllocatorInv, MergedInv, TrimmedInv, lost = {}, NEW th \in Threads, EndTrim(th),
           frame[th].trim_for = "destructor"
    PROVE  running = {}
<1>1. /\ pc[th] = "giving_back"
      /\ \A i \in Positions : m_blocks[i].free => IsPartition(m_blocks, i)
  BY DEF EndTrim, EndReleaseUnusedHeaps
<1>2. /\ pc[th] \in TrimSteps /\ pc[th] \in PoolSteps /\ pc[th] # "acquire"
      /\ pc[th] \notin HandSteps
  BY <1>1, StepsOfTrim DEF TrimSteps
<1>3. /\ ThreadTypes /\ LockInv /\ IInv /\ OwnersInv /\ call # "reset_pending"
  BY <1>1, <1>2, InTrim
<1>4. buffers = {} /\ \A other \in Threads \ {th} : pc[other] = "idle"
  BY <1>3 DEF LockInv, Destroys
<1>5. m_pending = <<>> /\ NoTokenLeft
  BY <1>1 DEF TrimmedInv, Trimmed, DrainedSteps
<1>6. Claims = {}
  <2>1. \A other \in Threads : pc[other] \notin HandSteps
    BY <1>2, <1>4, StepsOutside
  <2>2. BufferClaims = {} /\ LostClaims = {} /\ InHand = {}
    BY <1>4, <2>1 DEF BufferClaims, LostClaims, InHand, EntryClaims, HandClaims
  <2>3. EntriesOf(m_pending) = {}
    BY <1>5 DEF EntriesOf
  <2>4. HeldClaims = {}
    BY <2>3 DEF HeldClaims, EntryClaims
  <2> QED BY <2>2, <2>4, ClaimsByKind
<1>7. LentBlocks = {}
  BY <1>3, <1>6 DEF OwnersInv, Owned
<1>8. \A i \in Positions : m_blocks[i].free
  BY <1>7 DEF LentBlocks
<1>9. \A i \in 1..Len(m_blocks) - 1 : Apart(m_blocks, i)
  BY <1>2, <1>3, AllApart
<1>10. HeapsInUse
  BY <1>1, <1>3, <1>5, <1>9, KeptHeapsInUse
<1>11. \A heap \in Heaps : ~(m_heaps[heap] > 0)
  BY <1>8, <1>10 DEF HeapsInUse
<1>12. ASSUME NEW use \in running
       PROVE  FALSE
  <2>1. /\ use.heap \in Heaps /\ use.offset \in Nat /\ use.size \in Nat
        /\ m_heaps \in [Heaps -> Nat]
    BY <1>3 DEF IInv, PoolTypeOK, DeviceTypeOK
  <2> QED BY <1>3, <1>11, <2>1 DEF IInv, NoCommandOnReturnedMemory, End
<1> QED BY <1>12

\* The destructor is the last thread there is.
LEMMA DestructorIsLast ==
    ASSUME AllocatorInv, NEW other \in Threads, pc[other] = "destroy_pool",
           NEW th \in Threads, Starts(th) \/ Locks(th) \/ Continues(th)
    PROVE  th = other
<1> SUFFICES ASSUME th # other PROVE FALSE
  OBVIOUS
<1>1. LockInv
  BY DEF AllocatorInv, ControlInv
<1>2. Destroys(other)
  BY <1>1 DEF LockInv, Destroys, PurposesAt, TrimSteps
<1>3. ~alive /\ buffers = {} /\ pc[th] = "idle"
  BY <1>1, <1>2 DEF LockInv
<1>4. ~Starts(th)
  BY <1>3 DEF Starts, StartAllocate, Submit, DestroyBuffer, StartTrim, StartDestroy
<1>5. ~Locks(th)
  BY <1>3 DEF Locks, LockAllocate, LockRecycle, LockTrim, Goto
<1>6. ~(\/ Process(th) \/ Search(th) \/ SearchAgain(th) \/ Grow(th) \/ Halve(th)
        \/ TrimToRetry(th) \/ ThrowBadAlloc(th) \/ Cut(th) \/ AcquireBlock(th))
  BY <1>3 DEF Process, Search, SearchAgain, Grow, Halve, TrimToRetry, ThrowBadAlloc, Cut,
              AcquireBlock, Goto
<1>7. ~(\/ AskPending(th) \/ ForgetPending(th) \/ MakeBuffer(th) \/ SettleFails(th)
        \/ RecordUse(th) \/ RecycleReleases(th) \/ RecycleDefers(th) \/ RecycleLoses(th))
  BY <1>3 DEF AskPending, ForgetPending, MakeBuffer, SettleFails, RecordUse, RecycleReleases,
              RecycleDefers, RecycleLoses, Goto
<1>8. ~(\/ WaitAll(th) \/ WaitPending(th) \/ Reset(th) \/ StartGiveBack(th) \/ GiveBack(th)
        \/ EndTrim(th) \/ DestroyAllocator(th) \/ CallThrows(th) \/ DestructorThrows(th))
  BY <1>3 DEF WaitAll, WaitPending, Reset, StartGiveBack, GiveBack, EndTrim, DestroyAllocator,
              CallThrows, DestructorThrows, MayThrowAt, Goto
<1> QED BY <1>4, <1>5, <1>6, <1>7, <1>8 DEF Continues

LEMMA NothingMoreLost ==
    ASSUME NothingLost, AllocatorNext
    PROVE  NothingLost'
<1> SUFFICES ASSUME ~DeferMayFail, lost = {} PROVE lost' \subseteq lost
  BY DEF NothingLost
<1>1. ASSUME NEW th \in Threads, Starts(th)
      PROVE  lost' = lost
  BY <1>1 DEF Starts, StartAllocate, Submit, DestroyBuffer, StartTrim, StartDestroy, ownersVars
<1>2. ASSUME NEW th \in Threads, Locks(th)
      PROVE  lost' = lost
  BY <1>2 DEF Locks, LockAllocate, LockRecycle, LockTrim, ownersVars
<1>3. ASSUME NEW th \in Threads, Continues(th)
      PROVE  lost' \subseteq lost
  <2>1. CASE \/ Process(th) \/ Search(th) \/ SearchAgain(th) \/ Grow(th) \/ Halve(th)
             \/ TrimToRetry(th) \/ ThrowBadAlloc(th) \/ Cut(th) \/ AcquireBlock(th)
    BY <2>1 DEF Process, Search, SearchAgain, Grow, Halve, TrimToRetry, ThrowBadAlloc, Cut,
                AcquireBlock, ownersVars
  <2>2. CASE \/ AskPending(th) \/ ForgetPending(th) \/ MakeBuffer(th) \/ SettleFails(th)
             \/ RecordUse(th) \/ RecycleReleases(th) \/ RecycleDefers(th) \/ RecycleLoses(th)
    BY <2>2 DEF AskPending, ForgetPending, MakeBuffer, SettleFails, RecordUse, RecycleReleases,
                RecycleDefers, RecycleLoses, ownersVars
  <2>3. CASE \/ WaitAll(th) \/ WaitPending(th) \/ Reset(th) \/ StartGiveBack(th) \/ GiveBack(th)
             \/ EndTrim(th) \/ DestroyAllocator(th) \/ CallThrows(th) \/ DestructorThrows(th)
    BY <2>3 DEF WaitAll, WaitPending, Reset, StartGiveBack, GiveBack, EndTrim, DestroyAllocator,
                CallThrows, DestructorThrows, ownersVars
  <2> QED BY <1>3, <2>1, <2>2, <2>3 DEF Continues
<1>4. ASSUME NEW timeline \in Timelines, DeviceStep(timeline)
      PROVE  lost' = lost
  BY <1>4 DEF DeviceStep, allocatorVars
<1>5. ASSUME Terminated
      PROVE  lost' = lost
  BY <1>5 DEF Terminated, allVars, allocatorVars
<1> QED BY <1>1, <1>2, <1>3, <1>4, <1>5 DEF AllocatorNext

LEMMA EndStaysQuiet ==
    ASSUME AllocatorInv, MergedInv, TrimmedInv, NothingLost, QuietEnd, AllocatorNext
    PROVE  QuietEnd'
<1> SUFFICES ASSUME ~DeferMayFail, ~DestructorMayThrow, NEW other \in Threads,
                    pc'[other] = "destroy_pool"
             PROVE  running' = {}
  BY DEF QuietEnd
<1>1. pc \in [Threads -> Steps] /\ ThreadTypes
  BY DEF AllocatorInv, ControlInv, ThreadTypes
<1>2. CASE pc[other] = "destroy_pool"
  <2>1. running = {}
    BY <1>2 DEF QuietEnd
  <2>2. ASSUME NEW th \in Threads, Starts(th) \/ Locks(th) \/ Continues(th)
        PROVE  running' = {}
    <3>1. th = other
      BY <1>2, <2>2, DestructorIsLast
    <3>2. CASE DestroyAllocator(th)
      BY <2>1, <3>2 DEF DestroyAllocator, deviceVars
    <3>3. ~DestroyAllocator(th) => FALSE
      BY <1>2, <2>2, <3>1 DEF Starts, StartAllocate, Submit, DestroyBuffer, StartTrim,
           StartDestroy, Begin, Locks, LockAllocate, LockRecycle, LockTrim, Goto, Continues,
           Process, Search, SearchAgain, Grow, Halve, TrimToRetry, ThrowBadAlloc, Cut,
           AcquireBlock, AskPending, ForgetPending, MakeBuffer, SettleFails, RecordUse,
           RecycleReleases, RecycleDefers, RecycleLoses, WaitAll, WaitPending, Reset,
           StartGiveBack, GiveBack, EndTrim, CallThrows, DestructorThrows, MayThrowAt
    <3> QED BY <3>2, <3>3
  <2>3. ASSUME NEW timeline \in Timelines, DeviceStep(timeline)
        PROVE  running' = {}
    BY <2>1, <2>3 DEF DeviceStep, Finish
  <2>4. ASSUME Terminated
        PROVE  running' = {}
    BY <2>1, <2>4 DEF Terminated, allVars, deviceVars
  <2> QED BY <2>2, <2>3, <2>4 DEF AllocatorNext
<1>3. CASE pc[other] # "destroy_pool"
  <2>1. pc' # pc
    BY <1>3
  <2>2. PICK th \in Threads : Starts(th) \/ Locks(th) \/ Continues(th)
    BY <2>1 DEF AllocatorNext, DeviceStep, Terminated, allVars, allocatorVars
  <2>3. th = other
    BY <1>1, <1>3, <2>2, OthersStay
  <2>4. EndTrim(th) /\ frame[th].trim_for = "destructor"
    <3>1. ~Starts(th) /\ ~Locks(th)
      BY <1>1, <2>3 DEF Starts, StartAllocate, Submit, DestroyBuffer, StartTrim,
           StartDestroy, Begin, Locks, LockAllocate, LockRecycle, LockTrim, Goto
    <3>2. ~(\/ Process(th) \/ Search(th) \/ SearchAgain(th) \/ Grow(th) \/ Halve(th)
            \/ TrimToRetry(th) \/ ThrowBadAlloc(th) \/ Cut(th) \/ AcquireBlock(th))
      BY <1>1, <2>3 DEF Process, Search, SearchAgain, TakeOrGrow, Grow, Halve, TrimToRetry,
           ThrowBadAlloc, Cut, AcquireBlock, Goto, Return
    <3>3. ~(\/ AskPending(th) \/ ForgetPending(th) \/ MakeBuffer(th) \/ SettleFails(th)
            \/ RecordUse(th) \/ RecycleReleases(th) \/ RecycleDefers(th) \/ RecycleLoses(th))
      BY <1>1, <2>3 DEF AskPending, ForgetPending, MakeBuffer, SettleFails, RecordUse,
           RecycleReleases, RecycleDefers, RecycleLoses, Goto, Return
    <3>4. ~(\/ WaitAll(th) \/ WaitPending(th) \/ Reset(th) \/ StartGiveBack(th) \/ GiveBack(th)
            \/ DestroyAllocator(th) \/ CallThrows(th) \/ DestructorThrows(th))
      BY <1>1, <2>3 DEF WaitAll, WaitPending, Reset, StartGiveBack, GiveBack, DestroyAllocator,
           CallThrows, DestructorThrows, Goto, Return
    <3>5. EndTrim(th)
      BY <2>2, <3>1, <3>2, <3>3, <3>4 DEF Continues
    <3> QED BY <1>1, <2>3, <3>5 DEF EndTrim, Goto, Return
  <2>5. running' = running
    BY <2>4 DEF EndTrim, deviceVars
  <2> QED BY <2>4, <2>5, EndIsQuiet DEF NothingLost
<1> QED BY <1>2, <1>3

----------------------------------------------------------------------------
(* The whole of it: the allocator is a caller that the pool allows for.    *)

\* The pool may be given a heap of any size that get_heap_size works out.
HeapsOfAnySize ==
    \A size \in 1..SizeRange - 1 : size % MaxAlignment = 0 => size \in HeapSizes

LEMMA GrowIsPoolStep ==
    ASSUME RequestsFit, HeapsOfAnySize, AllocatorInv, RangeInv, NEW th \in Threads, Grow(th)
    PROVE  CallRegisterHeap
<1>1. pc[th] = "grow" /\ UNCHANGED deviceVars
  BY DEF Grow, Goto
<1>2. PICK heap \in Heaps : m_heaps[heap] = 0 /\ RegisterHeap(heap, frame[th].heap_size)
  BY DEF Grow
<1>3. /\ frame[th].asked \in RequestSizes /\ frame[th].size = RequestSize(frame[th].asked)
      /\ frame[th].heap_size >= frame[th].size
      /\ call = "none"
  BY <1>1, LiveRequest
<1>4. frame[th].size \in Nat \ {0}
  BY <1>3, RequestFits
<1>5. frame[th].heap_size \in Nat
  BY DEF AllocatorInv, ControlInv, ThreadTypes, Frames
<1>6. frame[th].heap_size < SizeRange /\ frame[th].heap_size % MaxAlignment = 0
  BY <1>1 DEF RangeInv, GrowsInRange
<1>7. frame[th].heap_size \in 1..SizeRange - 1
  BY <1>3, <1>4, <1>5, <1>6, AlignmentAssumption
<1>8. frame[th].heap_size \in HeapSizes
  BY <1>6, <1>7 DEF HeapsOfAnySize
<1> QED BY <1>1, <1>2, <1>3, <1>8 DEF CallRegisterHeap

LEMMA DestroyIsPoolStep ==
    ASSUME AllocatorInv, ~DeferMayFail, ~DestructorMayThrow, QuietEnd,
           NEW th \in Threads, DestroyAllocator(th)
    PROVE  CallDestroyPool
<1>1. pc[th] = "destroy_pool" /\ DestroyPool /\ UNCHANGED deviceVars
  BY DEF DestroyAllocator
<1>2. pc[th] \in PoolSteps /\ pc[th] \notin {"reset_pending", "giving_back", "idle"}
  BY <1>1 DEF PoolSteps
<1>3. ControlInv /\ IInv
  BY <1>2, BusyStands
<1>4. call = "none"
  BY <1>2, <1>3, LoopOfThread, PoolIsQuiet
<1>5. running = {}
  BY <1>1 DEF QuietEnd
<1> QED BY <1>1, <1>4, <1>5 DEF CallDestroyPool

LEMMA AllocatorNextKeepsRange ==
    ASSUME RequestsFit, AllocatorInv, RangeInv, AllocatorNext
    PROVE  RangeInv'
<1>1. ASSUME UNCHANGED <<pc, frame>>
      PROVE  RangeInv'
  BY <1>1 DEF RangeInv, GrowsInRange
<1>2. ASSUME NEW timeline \in Timelines, DeviceStep(timeline)
      PROVE  RangeInv'
  BY <1>1, <1>2 DEF DeviceStep, allocatorVars
<1>3. ASSUME Terminated
      PROVE  RangeInv'
  BY <1>1, <1>3 DEF Terminated, allVars, allocatorVars
<1> QED BY <1>2, <1>3, RangeStays DEF AllocatorNext

\* What holds of every step, when neither holding a block back nor the
\* destructor's waits fail.
CallerInv == AllocatorInv /\ MergedInv /\ TrimmedInv /\ RangeInv /\ NothingLost /\ QuietEnd

LEMMA InitCallerInv == ASSUME AllocatorInit PROVE CallerInv
<1>1. m_blocks = <<>> /\ lost = {} /\ \A th \in Threads : pc[th] = "idle"
  BY DEF AllocatorInit, PoolInit
<1> QED BY <1>1, InitInv DEF CallerInv, MergedInv, TrimmedInv, Trimmed, DrainedSteps, LastTry,
           RangeInv, GrowsInRange, NothingLost, QuietEnd

LEMMA NextKeepsCallerInv ==
    ASSUME RequestsFit, CallerInv, [AllocatorNext]_allVars
    PROVE  CallerInv'
<1>1. CASE AllocatorNext
  BY <1>1, AllocatorNextKeepsInv, AllocatorNextStaysMerged, AllocatorNextStaysTrimmed,
     AllocatorNextKeepsRange, NothingMoreLost, EndStaysQuiet DEF CallerInv
<1>2. CASE UNCHANGED allVars
  <2>1. MergedInv'
    BY <1>2, ThreadsAssumption, QuietStaysMerged DEF allVars, allocatorVars, CallerInv
  <2>2. TrimmedInv'
    BY <1>2 DEF CallerInv, TrimmedInv, Trimmed, DrainedSteps, LastTry, NoTokenLeft, HeapsInUse,
                Positions, allVars, allocatorVars, deferredVars, poolVars
  <2>3. RangeInv' /\ NothingLost' /\ QuietEnd'
    BY <1>2 DEF CallerInv, RangeInv, GrowsInRange, NothingLost, QuietEnd, allVars,
                allocatorVars, deviceVars
  <2> QED BY <1>2, <2>1, <2>2, <2>3, StutterKeepsInv DEF CallerInv
<1> QED BY <1>1, <1>2

\* As long as memory to hold a block back is found and the destructor's waits
\* do not fail, every call the allocator makes is one that memory_block_pool
\* allows for, in whatever order threads call, a trim drains and the device
\* finishes: what the pool promises its callers is a promise to this one
\* ("every command reported by enumerate_pending must have finished", "every
\* command has to be done with a block before the heap under it is handed to
\* the driver", "token of the last command that used the block").
THEOREM AllocatorCallsPoolRightly ==
    ASSUME RequestsFit, HeapsOfAnySize, ~DeferMayFail, ~DestructorMayThrow
    PROVE  AllocatorSpec => PoolSpec
<1>1. AllocatorInit => CallerInv
  BY InitCallerInv
<1>2. CallerInv /\ [AllocatorNext]_allVars => CallerInv'
  BY NextKeepsCallerInv
<1>3. AllocatorInit => Init
  BY DEF AllocatorInit, Init
<1>4. CallerInv /\ [AllocatorNext]_allVars => [PoolNext]_vars
  <2>1. ASSUME CallerInv, AllocatorNext
        PROVE  [PoolNext]_vars
    <3>1. AllocatorInv /\ RangeInv /\ QuietEnd
      BY <2>1 DEF CallerInv
    <3>2. (\E th \in Threads : Grow(th)) => PoolNext
      BY <3>1, GrowIsPoolStep DEF PoolNext
    <3>3. (\E th \in Threads : DestroyAllocator(th)) => PoolNext
      BY <3>1, DestroyIsPoolStep DEF PoolNext
    <3> QED BY <2>1, <3>1, <3>2, <3>3, StepIsPoolStep
  <2>2. UNCHANGED allVars => UNCHANGED vars
    BY DEF allVars, vars
  <2> QED BY <2>1, <2>2
<1> QED BY <1>1, <1>2, <1>3, <1>4, PTL DEF AllocatorSpec, PoolSpec

\* So the allocator lends memory as LentMemory says: what threads are handed
\* never overlaps, comes with the one token that has to be waited for, stays
\* where it is until it is given back, and its heap is not freed before.
THEOREM AllocatorLendsMemory ==
    ASSUME RequestsFit, HeapsOfAnySize, ~DeferMayFail, ~DestructorMayThrow
    PROVE  AllocatorSpec => LendsMemory
<1>1. AllocatorSpec => PoolSpec
  BY AllocatorCallsPoolRightly
<1> QED BY <1>1, PoolLendsMemory, PTL

\* And no unfinished command uses memory whose heap was given back to the
\* driver, by a trim or at the end of the allocator.
THEOREM AllocatorReturnsIdleHeaps ==
    ASSUME RequestsFit, HeapsOfAnySize, ~DeferMayFail, ~DestructorMayThrow
    PROVE  AllocatorSpec => []NoCommandOnReturnedMemory
<1>1. AllocatorSpec => PoolSpec
  BY AllocatorCallsPoolRightly
<1> QED BY <1>1, PoolReturnsIdleHeaps, PTL

----------------------------------------------------------------------------
(* Every block is aligned.                                                 *)

AlignedBlocks(s) == \A i \in 1..Len(s) : s[i].offset % MaxAlignment = 0

LEMMA JoinStaysAligned ==
    ASSUME NEW s \in Seq(Blocks), NEW i \in 1..Len(s) - 1, NEW pending \in PendingTokens,
           AlignedBlocks(s)
    PROVE  AlignedBlocks(Join(s, i, pending))
<1> DEFINE t == Join(s, i, pending)
<1>1. /\ Len(t) = Len(s) - 1
      /\ \A j \in 1..Len(s) - 1 :
            t[j] = IF j < i THEN s[j]
                   ELSE IF j = i
                   THEN [s[i] EXCEPT !.size = s[i].size + s[i + 1].size, !.pending = pending]
                   ELSE s[j + 1]
  BY JoinIndexAll
<1> HIDE DEF t
<1>2. Len(s) \in Nat /\ s[i] \in Blocks
  OBVIOUS
<1> SUFFICES ASSUME NEW j \in 1..Len(s) - 1
             PROVE  t[j].offset % MaxAlignment = 0
  BY <1>1 DEF AlignedBlocks, t
<1>3. CASE j < i
  BY <1>1, <1>2, <1>3 DEF AlignedBlocks
<1>4. CASE j = i
  <2>1. t[j].offset = s[i].offset
    BY <1>1, <1>2, <1>4 DEF Blocks
  <2> QED BY <1>2, <2>1 DEF AlignedBlocks
<1>5. CASE j > i
  <2>1. t[j] = s[j + 1] /\ j + 1 \in 1..Len(s)
    BY <1>1, <1>2, <1>5
  <2> QED BY <2>1 DEF AlignedBlocks
<1> QED BY <1>3, <1>4, <1>5

LEMMA ForwardsStaysAligned ==
    ASSUME NEW s \in Seq(Blocks), NEW i \in 1..Len(s), AlignedBlocks(s)
    PROVE  AlignedBlocks(ConsiderMergingForwards(s, i))
<1>1. Len(s) \in Nat
  OBVIOUS
<1>2. CASE i < Len(s) /\ IsMergeable(s[i], s[i + 1])
  <2> DEFINE pending == KeepLaterPending(s[i], s[i + 1])
  <2>1. i \in 1..Len(s) - 1 /\ s[i] \in Blocks /\ s[i + 1] \in Blocks
    BY <1>1, <1>2
  <2>2. ConsiderMergingForwards(s, i) = Join(s, i, pending)
    BY <1>2 DEF ConsiderMergingForwards
  <2>3. pending \in PendingTokens
    BY <2>1, LaterPendingType
  <2> HIDE DEF pending
  <2> QED BY <2>1, <2>2, <2>3, JoinStaysAligned
<1>3. CASE ~(i < Len(s) /\ IsMergeable(s[i], s[i + 1]))
  BY <1>3 DEF ConsiderMergingForwards
<1> QED BY <1>2, <1>3

LEMMA BackwardsStaysAligned ==
    ASSUME NEW s \in Seq(Blocks), NEW i \in 1..Len(s), AlignedBlocks(s)
    PROVE  AlignedBlocks(ConsiderMergingBackwards(s, i))
<1>1. Len(s) \in Nat
  OBVIOUS
<1>2. CASE i > 1 /\ IsMergeable(s[i], s[i - 1])
  <2> DEFINE k == i - 1
             pending == KeepLaterPending(s[i], s[i - 1])
  <2>1. k \in 1..Len(s) - 1 /\ s[i] \in Blocks /\ s[k] \in Blocks
    BY <1>1, <1>2
  <2>2. ConsiderMergingBackwards(s, i) = Join(s, k, pending)
    BY <1>2 DEF ConsiderMergingBackwards
  <2>3. pending \in PendingTokens
    BY <2>1, LaterPendingType
  <2> HIDE DEF pending, k
  <2> QED BY <2>1, <2>2, <2>3, JoinStaysAligned
<1>3. CASE ~(i > 1 /\ IsMergeable(s[i], s[i - 1]))
  BY <1>3 DEF ConsiderMergingBackwards
<1> QED BY <1>2, <1>3

\* One block becomes another that starts where it did.
LEMMA ChangeStaysAligned ==
    ASSUME NEW s \in Seq(Blocks), NEW i \in 1..Len(s), AlignedBlocks(s),
           NEW b \in Blocks, b.offset = s[i].offset
    PROVE  AlignedBlocks([s EXCEPT ![i] = b])
<1> DEFINE t == [s EXCEPT ![i] = b]
<1>1. Len(t) = Len(s) /\ \A j \in 1..Len(s) : t[j] = IF j = i THEN b ELSE s[j]
  OBVIOUS
<1> HIDE DEF t
<1>2. \A j \in 1..Len(s) : t[j].offset = s[j].offset
  BY <1>1
<1> QED BY <1>1, <1>2 DEF AlignedBlocks, t

LEMMA ReleaseStaysAligned ==
    ASSUME NEW s \in Seq(Blocks), NEW i \in 1..Len(s), NEW pending \in PendingTokens,
           AlignedBlocks(s)
    PROVE  AlignedBlocks(ConsiderMergingBlock(s, i, pending))
<1> DEFINE mine == [s[i] EXCEPT !.pending = pending, !.free = TRUE]
           t == [s EXCEPT ![i].pending = pending, ![i].free = TRUE]
           u == ConsiderMergingForwards(t, i)
<1>1. s[i] \in Blocks
  OBVIOUS
<1>2. mine \in Blocks /\ mine.free /\ mine.offset = s[i].offset
  BY <1>1 DEF Blocks, PendingTokens
<1>3. t = [s EXCEPT ![i] = mine]
  BY <1>1 DEF Blocks
<1>4. u = ConsiderMergingForwards(t, i)
      /\ ConsiderMergingBlock(s, i, pending) = ConsiderMergingBackwards(u, i)
  BY DEF ConsiderMergingBlock
<1> HIDE DEF mine, t, u
<1>5. t \in Seq(Blocks) /\ i \in 1..Len(t) /\ t[i].free
  BY <1>2, <1>3
<1>6. AlignedBlocks(t)
  BY <1>2, <1>3, ChangeStaysAligned
<1>7. u \in Seq(Blocks) /\ i \in 1..Len(u)
  BY <1>4, <1>5, ForwardsLendsTheSame
<1>8. AlignedBlocks(u)
  BY <1>4, <1>5, <1>6, ForwardsStaysAligned
<1> QED BY <1>4, <1>7, <1>8, BackwardsStaysAligned

LEMMA RemoveStaysAligned ==
    ASSUME NEW s \in Seq(Blocks), NEW i \in 1..Len(s), AlignedBlocks(s)
    PROVE  AlignedBlocks(RemoveAt(s, i))
<1> DEFINE t == RemoveAt(s, i)
<1>1. /\ Len(t) = Len(s) - 1 /\ Len(s) \in Nat
      /\ \A j \in 1..Len(s) - 1 : t[j] = IF j < i THEN s[j] ELSE s[j + 1]
  <2>1. /\ RemoveAt(s, i) \in Seq(Blocks) /\ Len(RemoveAt(s, i)) = Len(s) - 1
        /\ \A j \in 1..Len(s) - 1 : RemoveAt(s, i)[j] = IF j < i THEN s[j] ELSE s[j + 1]
    BY RemoveAtIndex
  <2> QED BY <2>1
<1> HIDE DEF t
<1>2. \A j \in 1..Len(s) - 1 : j \in 1..Len(s) /\ j + 1 \in 1..Len(s)
  BY <1>1
<1>3. \A j \in 1..Len(t) : t[j].offset % MaxAlignment = 0
  BY <1>1, <1>2 DEF AlignedBlocks
<1> QED BY <1>3 DEF AlignedBlocks, t

LEMMA PartitionStaysAligned ==
    ASSUME NEW s \in Seq(Blocks), NEW i \in 1..Len(s), NEW first_size \in 1..s[i].size - 1,
           first_size % MaxAlignment = 0, AlignedBlocks(s), NEW t, t = Partition(s, i, first_size)
    PROVE  AlignedBlocks(t)
<1>1. /\ Len(t) = Len(s) + 1 /\ Len(s) \in Nat
      /\ t[i + 1].offset = End(t[i])
      /\ \A j \in 1..Len(s) + 1 :
            j # i + 1 => t[j].offset = s[IF j <= i THEN j ELSE j - 1].offset
  BY PartitionIndex
<1>2. t[i].offset = s[i].offset /\ t[i].size = first_size
  BY FirstPart
<1>3. s[i].offset \in Nat /\ s[i].size \in Nat
  BY BlocksAreBlocks
<1> SUFFICES ASSUME NEW j \in 1..Len(s) + 1
             PROVE  t[j].offset % MaxAlignment = 0
  BY <1>1 DEF AlignedBlocks
<1>4. CASE j = i + 1
  <2>1. t[j].offset = s[i].offset + first_size
    BY <1>1, <1>2, <1>4 DEF End
  <2>2. s[i].offset % MaxAlignment = 0
    BY DEF AlignedBlocks
  <2>3. s[i].offset \in Int /\ first_size \in Int /\ MaxAlignment \in Nat \ {0}
    BY <1>3, AlignmentAssumption
  <2>4. (s[i].offset + first_size) % MaxAlignment = 0
    BY <2>2, <2>3, SumOfMultiples DEF IsMultiple
  <2> QED BY <2>1, <2>4
<1>5. CASE j # i + 1
  <2>1. (IF j <= i THEN j ELSE j - 1) \in 1..Len(s)
    BY <1>1, <1>5
  <2> QED BY <1>1, <1>5, <2>1 DEF AlignedBlocks
<1> QED BY <1>4, <1>5

\* What the pool's calls do to the list of blocks.
LEMMA PoolStaysAligned ==
    ASSUME IInv, AlignedBlocks(m_blocks),
           \/ UNCHANGED m_blocks
           \/ \E heap \in Heaps, size \in Nat : RegisterHeap(heap, size)
           \/ \E i \in Positions, pending \in PendingTokens : Release(i, pending)
           \/ \E i \in Positions : Acquire(i) \/ SetPending(i, NoToken) \/ ReleaseUnusedHeap(i)
           \/ ResetPending \/ AbsorbNext
    PROVE  AlignedBlocks(m_blocks')
<1>1. m_blocks \in Seq(Blocks) /\ Positions = 1..Len(m_blocks) /\ ite \in Nat
      /\ Len(m_blocks) \in Nat
  BY DEF IInv, PoolTypeOK, Positions
<1>2. ASSUME NEW heap \in Heaps, NEW size \in Nat, RegisterHeap(heap, size)
      PROVE  AlignedBlocks(m_blocks')
  <2> DEFINE new == [heap |-> heap, offset |-> 0, size |-> size, pending |-> NoToken, free |-> TRUE]
  <2>1. new \in Blocks /\ m_blocks' = Append(m_blocks, new) /\ new.offset = 0
    BY <1>2 DEF RegisterHeap, Blocks
  <2> HIDE DEF new
  <2>2. /\ Len(m_blocks') = Len(m_blocks) + 1
        /\ \A j \in 1..Len(m_blocks) : m_blocks'[j] = m_blocks[j]
        /\ m_blocks'[Len(m_blocks) + 1] = new
    BY <1>1, <2>1
  <2>3. 0 % MaxAlignment = 0
    BY AlignmentAssumption, SmallRemainder
  <2>4. \A j \in 1..Len(m_blocks) + 1 : j \in 1..Len(m_blocks) \/ j = Len(m_blocks) + 1
    BY <1>1
  <2> QED BY <2>1, <2>2, <2>3, <2>4 DEF AlignedBlocks
<1>3. ASSUME NEW i \in Positions, NEW pending \in PendingTokens, Release(i, pending)
      PROVE  AlignedBlocks(m_blocks')
  <2>1. m_blocks' = ConsiderMergingBlock(m_blocks, i, pending)
    BY <1>3 DEF Release
  <2> QED BY <1>1, <2>1, ReleaseStaysAligned
<1>4. ASSUME NEW i \in Positions, Acquire(i)
      PROVE  AlignedBlocks(m_blocks')
  <2> DEFINE b == [m_blocks[i] EXCEPT !.free = FALSE]
  <2>1. m_blocks[i] \in Blocks
    BY <1>1
  <2>2. b \in Blocks /\ b.offset = m_blocks[i].offset
    BY <2>1 DEF Blocks
  <2>3. m_blocks' = [m_blocks EXCEPT ![i] = b]
    BY <1>4 DEF Acquire
  <2> HIDE DEF b
  <2> QED BY <1>1, <2>2, <2>3, ChangeStaysAligned
<1>5. ASSUME NEW i \in Positions, SetPending(i, NoToken)
      PROVE  AlignedBlocks(m_blocks')
  <2> DEFINE b == [m_blocks[i] EXCEPT !.pending = NoToken]
  <2>1. m_blocks[i] \in Blocks
    BY <1>1
  <2>2. b \in Blocks /\ b.offset = m_blocks[i].offset
    BY <2>1 DEF Blocks
  <2>3. m_blocks' = [m_blocks EXCEPT ![i] = b]
    BY <1>5 DEF SetPending
  <2> HIDE DEF b
  <2> QED BY <1>1, <2>2, <2>3, ChangeStaysAligned
<1>6. ASSUME NEW i \in Positions, ReleaseUnusedHeap(i)
      PROVE  AlignedBlocks(m_blocks')
  <2>1. m_blocks' = RemoveAt(m_blocks, i)
    BY <1>6 DEF ReleaseUnusedHeap
  <2> QED BY <1>1, <2>1, RemoveStaysAligned
<1>7. ASSUME ResetPending
      PROVE  AlignedBlocks(m_blocks')
  <2> DEFINE emptied(i) == [m_blocks[i] EXCEPT !.pending = NoToken]
  <2>1. ASSUME NEW i \in 1..Len(m_blocks)
        PROVE  emptied(i).offset = m_blocks[i].offset
    <3>1. m_blocks[i] \in Blocks
      BY <1>1
    <3> QED BY <3>1 DEF Blocks
  <2>2. m_blocks' = [i \in 1..Len(m_blocks) |->
                        IF m_blocks[i].free THEN emptied(i) ELSE m_blocks[i]]
    BY <1>7 DEF ResetPending, Positions
  <2> HIDE DEF emptied
  <2>3. Len(m_blocks') = Len(m_blocks)
    BY <1>1, <2>2
  <2>4. \A i \in 1..Len(m_blocks) : m_blocks'[i].offset = m_blocks[i].offset
    BY <2>1, <2>2
  <2> QED BY <2>3, <2>4 DEF AlignedBlocks
<1>8. ASSUME AbsorbNext
      PROVE  AlignedBlocks(m_blocks')
  <2>1. call = "reset_pending" /\ CanAbsorb
        /\ m_blocks' = Join(m_blocks, ite, m_blocks[ite].pending)
    BY <1>8 DEF AbsorbNext
  <2>2. ite >= 1
    BY <2>1 DEF IInv, PoolTypeOK
  <2>3. ite \in 1..Len(m_blocks) - 1 /\ ite \in 1..Len(m_blocks)
    BY <1>1, <2>1, <2>2 DEF CanAbsorb
  <2>4. m_blocks[ite].pending \in PendingTokens
    BY <1>1, <2>3, BlocksAreBlocks
  <2> QED BY <1>1, <2>1, <2>3, <2>4, JoinStaysAligned
<1>9. CASE UNCHANGED m_blocks
  BY <1>9
<1> QED BY <1>2, <1>3, <1>4, <1>5, <1>6, <1>7, <1>8, <1>9

LEMMA CutStaysAligned ==
    ASSUME RequestsFit, AllocatorInv, AlignedBlocks(m_blocks), NEW th \in Threads, Cut(th)
    PROVE  AlignedBlocks(m_blocks')
<1>1. pc[th] = "cut"
  BY DEF Cut, Goto
<1>2. /\ pc[th] \in LockedSteps /\ frame[th].trim_for \in {"none", "allocate"}
      /\ frame[th].asked \in RequestSizes /\ frame[th].size = RequestSize(frame[th].asked)
  BY <1>1, LiveRequest
<1>3. IInv /\ TakenBy(pc[th], frame[th], FreeIn(m_blocks))
  BY <1>2, LiveInPool
<1> DEFINE size == frame[th].size
<1>4. PICK i \in Positions : i = BlockOf(th)
  BY <1>1, <1>3, TakenPosition
<1>5. m_blocks \in Seq(Blocks) /\ i \in 1..Len(m_blocks)
  BY <1>3 DEF IInv, ListOK, Positions
<1>6. m_blocks[i].size \in Nat /\ size \in Nat \ {0} /\ size % MaxAlignment = 0
  BY <1>2, <1>5, BlocksAreBlocks, RequestFits
<1>7. CASE m_blocks[i].size > size
  <2>1. m_blocks' = Partition(m_blocks, i, size)
    BY <1>4, <1>7 DEF Cut, PartitionBlock
  <2>2. size \in 1..m_blocks[i].size - 1
    BY <1>6, <1>7
  <2> HIDE DEF size
  <2> QED BY <1>5, <1>6, <2>1, <2>2, PartitionStaysAligned
<1>8. CASE ~(m_blocks[i].size > size)
  BY <1>4, <1>8 DEF Cut, poolVars
<1> QED BY <1>7, <1>8

LEMMA AllocatorStaysAligned ==
    ASSUME RequestsFit, AllocatorInv, AlignedBlocks(m_blocks), AllocatorNext
    PROVE  AlignedBlocks(m_blocks')
<1>1. ASSUME NEW th \in Threads, Starts(th) \/ Locks(th)
      PROVE  UNCHANGED m_blocks
  BY <1>1 DEF Starts, StartAllocate, Submit, DestroyBuffer, StartTrim, StartDestroy, Locks,
              LockAllocate, LockRecycle, LockTrim, poolVars
<1>2. ASSUME NEW th \in Threads, Continues(th)
      PROVE  AlignedBlocks(m_blocks')
  <2>1. CASE Search(th) \/ SearchAgain(th) \/ Halve(th) \/ TrimToRetry(th) \/ ThrowBadAlloc(th)
             \/ AskPending(th) \/ MakeBuffer(th) \/ SettleFails(th) \/ RecordUse(th)
             \/ RecycleDefers(th) \/ RecycleLoses(th) \/ CallThrows(th) \/ DestructorThrows(th)
             \/ StartGiveBack(th) \/ EndTrim(th)
    BY <2>1 DEF Search, SearchAgain, Halve, TrimToRetry, ThrowBadAlloc, AskPending, MakeBuffer,
                SettleFails, RecordUse, RecycleDefers, RecycleLoses, CallThrows, DestructorThrows,
                StartGiveBack, ReleaseUnusedHeaps, EndTrim, EndReleaseUnusedHeaps, poolVars
  <2>2. pc[th] # "idle" => IInv
    BY BusyStands
  <2>3. CASE Process(th)
    <3>1. pc[th] = "process" /\ UNCHANGED deviceVars /\ (ReleaseReady \/ UNCHANGED poolVars)
      BY <2>3 DEF Process, EndProcess
    <3>2. \/ UNCHANGED m_blocks
          \/ \E i \in Positions, pending \in PendingTokens : Release(i, pending)
      BY <3>1, ReadyIsReleased DEF poolVars
    <3> QED BY <2>2, <3>1, <3>2, PoolStaysAligned
  <2>4. CASE WaitAll(th)
    <3>1. pc[th] = "wait_all" /\ UNCHANGED deviceVars /\ (WaitOldest \/ UNCHANGED poolVars)
      BY <2>4 DEF WaitAll
    <3>2. \/ UNCHANGED m_blocks
          \/ \E i \in Positions, pending \in PendingTokens : Release(i, pending)
      BY <3>1, OldestIsReleased DEF poolVars
    <3> QED BY <2>2, <3>1, <3>2, PoolStaysAligned
  <2>5. CASE RecycleReleases(th)
    <3>1. pc[th] # "idle"
      BY <2>5 DEF RecycleReleases
    <3>2. \E i \in Positions, pending \in PendingTokens : Release(i, pending)
      BY <2>5, RecycledIsReleased
    <3> QED BY <2>2, <3>1, <3>2, PoolStaysAligned
  <2>6. CASE Grow(th)
    <3>1. pc[th] # "idle" /\ frame[th].heap_size \in Nat
      BY <2>6 DEF Grow, Goto, AllocatorInv, ControlInv, ThreadTypes, Frames
    <3>2. \E heap \in Heaps, size \in Nat : RegisterHeap(heap, size)
      BY <2>6, <3>1 DEF Grow
    <3> QED BY <2>2, <3>1, <3>2, PoolStaysAligned
  <2>7. CASE Cut(th)
    BY <2>7, CutStaysAligned
  <2>8. CASE AcquireBlock(th)
    <3>1. pc[th] = "acquire" /\ Acquire(BlockOf(th))
      BY <2>8 DEF AcquireBlock, Goto
    <3>2. pc[th] \in LockedSteps /\ frame[th].trim_for # "destructor"
      BY <3>1, LiveRequest
    <3>3. IInv /\ TakenBy(pc[th], frame[th], FreeIn(m_blocks))
      BY <3>2, LiveInPool
    <3>4. BlockOf(th) \in Positions
      BY <3>1, <3>3, TakenPosition
    <3> QED BY <3>1, <3>3, <3>4, PoolStaysAligned
  <2>9. CASE ForgetPending(th)
    <3>1. pc[th] = "set_pending" /\ SetPending(BlockOf(th), NoToken)
      BY <2>9 DEF ForgetPending, Goto
    <3>2. IInv /\ OwnersInv /\ pc[th] \in HandSteps
      BY <3>1, BusyStands DEF HandSteps
    <3>3. BlockOf(th) \in Positions
      BY <3>2, BlockInHand
    <3> QED BY <3>1, <3>2, <3>3, PoolStaysAligned
  <2>10. CASE WaitPending(th) \/ Reset(th) \/ GiveBack(th)
    <3>1. /\ pc[th] # "idle"
          /\ \/ UNCHANGED m_blocks \/ ResetPending \/ AbsorbNext
             \/ \E i \in Positions : ReleaseUnusedHeap(i)
      BY <2>10 DEF WaitPending, Reset, GiveBack, Goto, StepOver, EndReset, poolState
    <3> QED BY <2>2, <3>1, PoolStaysAligned
  <2>11. CASE DestroyAllocator(th)
    <3>1. m_blocks' = <<>>
      BY <2>11 DEF DestroyAllocator, DestroyPool
    <3> QED BY <3>1 DEF AlignedBlocks
  <2> QED BY <1>2, <2>1, <2>3, <2>4, <2>5, <2>6, <2>7, <2>8, <2>9, <2>10, <2>11 DEF Continues
<1>3. ASSUME NEW timeline \in Timelines, DeviceStep(timeline)
      PROVE  UNCHANGED m_blocks
  BY <1>3 DEF DeviceStep, poolVars
<1>4. ASSUME Terminated
      PROVE  UNCHANGED m_blocks
  BY <1>4 DEF Terminated, allVars, poolVars
<1> QED BY <1>1, <1>2, <1>3, <1>4 DEF AllocatorNext

----------------------------------------------------------------------------
(* What is handed out holds what was asked for.                            *)

\* Whoever holds a block, nothing changes its size.
LEMMA LoansKeepTheirSize ==
    ASSUME IInv, [PoolNext]_vars, NEW loan \in LentBlocks', NEW old \in LentBlocks,
           AddressOf(loan) = AddressOf(old)
    PROVE  loan.size = old.size
<1>1. [LM!LentNext]_(LM!lentVars)
  BY NextLends
<1>2. loan \in LentBlocks => loan = old
  BY LoansNamed
<1>3. CASE LentBlocks' \subseteq LentBlocks
  BY <1>2, <1>3
<1>4. ASSUME NEW heap \in Heaps, NEW offset \in 0..m_heaps[heap] - 1,
             NEW size \in 1..m_heaps[heap] - offset, NEW pending,
             LM!Lend(LM!Loan(heap, offset, size, pending))
      PROVE  loan.size = old.size
  <2> DEFINE new == LM!Loan(heap, offset, size, pending)
  <2>1. ~Overlaps(new, old) /\ LentBlocks' = LentBlocks \cup {new}
    BY <1>4 DEF LM!Lend, LM!Overlaps, Overlaps
  <2>2. CASE loan = new
    <3>1. PICK i \in Positions : old = LoanOf(m_blocks[i])
      BY DEF LentBlocks
    <3>2. old.heap = new.heap /\ old.offset = new.offset
      BY <2>2 DEF AddressOf
    <3>3. old.offset \in Nat /\ old.size \in Nat /\ old.size > 0
      BY <3>1, BlocksAreBlocks, LoanParts DEF IInv, ListOK, Tiles, InHeaps, Positions
    <3>4. new.size >= 1 /\ new.size \in Int
      BY DEF LM!Loan, IInv, PoolTypeOK
    <3>5. Overlaps(new, old)
      BY <3>2, <3>3, <3>4 DEF Overlaps
    <3> QED BY <2>1, <3>5
  <2> QED BY <1>2, <2>1, <2>2
<1>5. ASSUME NEW lent \in LentBlocks, LM!Forget(lent)
      PROVE  loan.size = old.size
  <2> DEFINE new == [lent EXCEPT !.pending = NoToken]
  <2>1. LentBlocks' = (LentBlocks \ {lent}) \cup {new}
    BY <1>5 DEF LM!Forget, LM!NoToken, NoToken
  <2>2. CASE loan = new
    <3>1. PICK i \in Positions : lent = LoanOf(m_blocks[i])
      BY DEF LentBlocks
    <3>2. new.heap = lent.heap /\ new.offset = lent.offset /\ new.size = lent.size
      BY <3>1 DEF LoanOf
    <3>3. lent = old
      BY <2>2, <3>2, LoansNamed DEF AddressOf
    <3> QED BY <2>2, <3>2, <3>3
  <2> QED BY <1>2, <2>1, <2>2
<1>6. \/ LentBlocks' \subseteq LentBlocks
      \/ \E heap \in Heaps : \E offset \in 0..m_heaps[heap] - 1 :
            \E size \in 1..m_heaps[heap] - offset, pending \in LM!KnownTokens :
                LM!Lend(LM!Loan(heap, offset, size, pending))
      \/ \E lent \in LentBlocks : LM!Forget(lent)
  <2>1. CASE UNCHANGED LM!lentVars
    BY <2>1 DEF LM!lentVars
  <2>2. CASE LM!LentNext
    BY <2>2 DEF LM!LentNext, LM!TakeHeap, LM!TakeBack, LM!GiveHeapBack, LM!GiveAllBack, LM!Use,
                LM!FinishUse
  <2> QED BY <1>1, <2>1, <2>2
<1> QED BY <1>3, <1>4, <1>5, <1>6

\* What a thread is about to hand out is at least as large as what was asked.
Sized(step, locals, loans) ==
    step \in FreshSteps =>
        \A loan \in loans : AddressOf(loan) = locals.block => loan.size >= locals.asked

SizedInv == \A th \in Threads : Sized(pc[th], frame[th], LentBlocks)

\* A thread keeps what it holds while any thread makes a step.
LEMMA FreshStaysSized ==
    ASSUME RequestsFit, AllocatorInv, SizedInv, AllocatorNext, NEW th \in Threads,
           pc[th] \in FreshSteps, frame'[th] = frame[th]
    PROVE  Sized(pc'[th], frame'[th], LentBlocks')
<1>1. pc[th] \in HandSteps /\ pc[th] # "idle"
  BY DEF FreshSteps, HandSteps
<1>2. IInv /\ OwnersInv /\ LockInv /\ ThreadTypes
  BY <1>1, BusyStands
<1>3. PICK i \in Positions : i = BlockOf(th)
  BY <1>1, <1>2, BlockInHand
<1> DEFINE old == LoanOf(m_blocks[i])
<1>4. old \in LentBlocks /\ AddressOf(old) = frame[th].block
  BY <1>1, <1>2, <1>3, BlockInHand
<1> HIDE DEF old
<1>5. old.size >= frame[th].asked
  BY <1>4 DEF SizedInv, Sized
<1> SUFFICES ASSUME NEW loan \in LentBlocks', AddressOf(loan) = frame[th].block
             PROVE  loan.size >= frame[th].asked
  BY DEF Sized
<1>6. CASE PoolNext \/ UNCHANGED vars
  <2>1. loan.size = old.size
    BY <1>2, <1>4, <1>6, LoansKeepTheirSize
  <2> QED BY <1>5, <2>1
<1>7. ASSUME NEW other \in Threads, Grow(other)
      PROVE  loan \in LentBlocks
  <2>1. PICK heap \in Heaps : RegisterHeap(heap, frame[other].heap_size)
    BY <1>7 DEF Grow
  <2> DEFINE new == [heap |-> heap, offset |-> 0, size |-> frame[other].heap_size,
                     pending |-> NoToken, free |-> TRUE]
  <2>2. frame[other].heap_size \in Nat
    BY <1>2 DEF ThreadTypes, Frames
  <2>3. new \in Blocks /\ new.free /\ m_blocks' = Append(m_blocks, new)
    BY <2>1, <2>2 DEF RegisterHeap, Blocks
  <2> HIDE DEF new
  <2>4. m_blocks \in Seq(Blocks)
    BY <1>2 DEF IInv, ListOK
  <2>5. LentBlocks' = LentBlocks
    BY <2>3, <2>4, AppendLendsTheSame, LentOfPool
  <2> QED BY <2>5
<1>8. ASSUME NEW other \in Threads, DestroyAllocator(other)
      PROVE  FALSE
  <2>1. m_blocks' = <<>>
    BY <1>8 DEF DestroyAllocator, DestroyPool
  <2> QED BY <2>1 DEF LentBlocks, Positions
<1>9. CASE loan \in LentBlocks
  BY <1>9 DEF SizedInv, Sized
<1> QED BY <1>6, <1>7, <1>8, <1>9, StepIsPoolStep

LEMMA AcquireStaysSized ==
    ASSUME RequestsFit, AllocatorInv, NEW th \in Threads, AcquireBlock(th)
    PROVE  Sized(pc'[th], frame'[th], LentBlocks')
<1>1. /\ pc[th] = "acquire" /\ Acquire(BlockOf(th))
      /\ frame' = [frame EXCEPT ![th] =
             [EmptyFrame EXCEPT !.asked = frame[th].asked, !.block = frame[th].block]]
  BY DEF AcquireBlock, Goto, Keep
<1>2. /\ pc[th] \in LockedSteps /\ frame[th].trim_for # "destructor"
      /\ frame[th].asked \in RequestSizes /\ frame[th].size = RequestSize(frame[th].asked)
  BY <1>1, LiveRequest
<1>3. IInv /\ ThreadTypes /\ TakenBy(pc[th], frame[th], FreeIn(m_blocks))
  BY <1>2, LiveInPool
<1>4. PICK i \in Positions : /\ i = BlockOf(th) /\ m_blocks[i].free
                             /\ AddressOf(m_blocks[i]) = frame[th].block
                             /\ m_blocks[i].size >= frame[th].size
  BY <1>1, <1>3, TakenPosition
<1> DEFINE new == LoanOf(m_blocks[i])
<1>5. frame'[th].asked = frame[th].asked /\ frame'[th].block = frame[th].block
  BY <1>1, <1>3 DEF ThreadTypes, EmptyFrame
<1>6. /\ LentBlocks' = LentBlocks \cup {new}
      /\ \A other \in LentBlocks : AddressOf(other) # AddressOf(new)
  BY <1>1, <1>3, <1>4, AcquireLendsIt
<1>7. AddressOf(new) = frame[th].block /\ new.size = m_blocks[i].size
  BY <1>4, LoanAddress, LoanParts
<1>8. m_blocks[i].size \in Nat
  BY <1>3, BlocksAreBlocks DEF IInv, ListOK, Positions
<1>9. frame[th].asked \in Nat /\ frame[th].size \in Nat /\ frame[th].asked <= frame[th].size
  BY <1>2, RequestFits
<1>10. new.size >= frame[th].asked
  BY <1>4, <1>7, <1>8, <1>9
<1> HIDE DEF new
<1> QED BY <1>5, <1>6, <1>7, <1>10 DEF Sized

LEMMA AllocatorStaysSized ==
    ASSUME RequestsFit, AllocatorInv, SizedInv, AllocatorNext
    PROVE  SizedInv'
<1>1. ThreadTypes /\ pc \in [Threads -> Steps] /\ frame \in [Threads -> Frames]
  BY DEF AllocatorInv, ControlInv, ThreadTypes
<1> SUFFICES ASSUME NEW th \in Threads, pc'[th] \in FreshSteps
             PROVE  Sized(pc'[th], frame'[th], LentBlocks')
  BY DEF SizedInv, Sized
<1>2. CASE pc[th] \in FreshSteps /\ frame'[th] = frame[th]
  BY <1>2, FreshStaysSized
<1>3. CASE pc[th] \notin FreshSteps \/ frame'[th] # frame[th]
  <2>1. pc'[th] # pc[th] \/ frame'[th] # frame[th]
    BY <1>3
  <2>2. PICK mover \in Threads : Starts(mover) \/ Locks(mover) \/ Continues(mover)
    BY <2>1 DEF AllocatorNext, DeviceStep, Terminated, allVars, allocatorVars
  <2>3. mover = th
    BY <1>1, <2>1, <2>2, OthersStay
  <2>4. ~Starts(th) /\ ~Locks(th)
    BY <1>1 DEF Starts, StartAllocate, Submit, DestroyBuffer, StartTrim, StartDestroy, Begin,
                Locks, LockAllocate, LockRecycle, LockTrim, Goto, FreshSteps
  <2>5. ~(\/ Process(th) \/ Search(th) \/ SearchAgain(th) \/ Grow(th) \/ Halve(th)
          \/ TrimToRetry(th) \/ ThrowBadAlloc(th) \/ Cut(th))
    BY <1>1 DEF Process, Search, SearchAgain, TakeOrGrow, Grow, Halve, TrimToRetry,
                ThrowBadAlloc, Cut, Goto, Return, FreshSteps
  <2>6. ~(\/ AskPending(th) \/ ForgetPending(th) \/ MakeBuffer(th) \/ SettleFails(th)
          \/ RecordUse(th) \/ RecycleReleases(th) \/ RecycleDefers(th) \/ RecycleLoses(th))
    BY <1>1, <1>3 DEF AskPending, ForgetPending, MakeBuffer, SettleFails, RecordUse,
                RecycleReleases, RecycleDefers, RecycleLoses, Goto, Return, FreshSteps
  <2>7. ~(\/ WaitAll(th) \/ WaitPending(th) \/ Reset(th) \/ StartGiveBack(th) \/ GiveBack(th)
          \/ EndTrim(th) \/ DestroyAllocator(th) \/ CallThrows(th) \/ DestructorThrows(th))
    BY <1>1 DEF WaitAll, WaitPending, Reset, StartGiveBack, GiveBack, EndTrim, DestroyAllocator,
                CallThrows, DestructorThrows, Goto, Return, FreshSteps
  <2>8. AcquireBlock(th)
    BY <2>2, <2>3, <2>4, <2>5, <2>6, <2>7 DEF Continues
  <2> QED BY <2>8, AcquireStaysSized
<1> QED BY <1>2, <1>3

\* Every block that is handed out is aligned and holds what was asked for, and
\* what is cut off it is never negative, for every set of sizes and thresholds:
\* rounding up, both searches, halving after a refusal and the thread that
\* settles the block without the lock all keep to the request (allocate, grow,
\* get_heap_size, find_in_timeline, partition_block).
THEOREM AllocatorHoldsRequests ==
    ASSUME RequestsFit PROVE AllocatorSpec => []BlockHoldsRequest
<1> DEFINE Inv == AllocatorInv /\ AlignedBlocks(m_blocks) /\ SizedInv
<1>1. AllocatorInit => Inv
  <2>1. AllocatorInit => m_blocks = <<>> /\ \A th \in Threads : pc[th] = "idle"
    BY DEF AllocatorInit, PoolInit
  <2> QED BY <2>1, InitInv DEF AlignedBlocks, SizedInv, Sized, FreshSteps
<1>2. Inv /\ [AllocatorNext]_allVars => Inv'
  <2>1. ASSUME AlignedBlocks(m_blocks), SizedInv, UNCHANGED allVars
        PROVE  AlignedBlocks(m_blocks') /\ SizedInv'
    BY <2>1 DEF SizedInv, Sized, LentBlocks, Positions, LoanOf, allVars, allocatorVars, poolVars
  <2> QED BY <2>1, AllocatorNextKeepsInv, AllocatorStaysAligned, AllocatorStaysSized,
             StutterKeepsInv
<1>3. Inv => BlockHoldsRequest
  <2> SUFFICES ASSUME Inv, NEW th \in Threads
               PROVE  /\ pc[th] = "grow" => frame[th].heap_size >= frame[th].size
                      /\ pc[th] = "cut" => m_blocks[BlockOf(th)].size >= frame[th].size
                      /\ HoldsFresh(th) =>
                            /\ m_blocks[BlockOf(th)].size >= frame[th].asked
                            /\ m_blocks[BlockOf(th)].offset % MaxAlignment = 0
    BY DEF BlockHoldsRequest
  <2>1. pc[th] = "grow" => frame[th].heap_size >= frame[th].size
    BY LiveRequest
  <2>2. ASSUME pc[th] = "cut"
        PROVE  m_blocks[BlockOf(th)].size >= frame[th].size
    <3>1. pc[th] \in LockedSteps /\ frame[th].trim_for # "destructor"
      BY <2>2, LiveRequest
    <3>2. IInv /\ TakenBy(pc[th], frame[th], FreeIn(m_blocks))
      BY <3>1, LiveInPool
    <3> QED BY <2>2, <3>2, TakenPosition
  <2>3. ASSUME HoldsFresh(th)
        PROVE  /\ m_blocks[BlockOf(th)].size >= frame[th].asked
               /\ m_blocks[BlockOf(th)].offset % MaxAlignment = 0
    <3>1. pc[th] \in FreshSteps /\ pc[th] \in HandSteps /\ pc[th] # "idle"
      BY <2>3 DEF HoldsFresh, FreshSteps, HandSteps
    <3>2. IInv /\ OwnersInv
      BY <3>1, BusyStands
    <3>3. PICK i \in Positions : i = BlockOf(th)
      BY <3>1, <3>2, BlockInHand
    <3>4. LoanOf(m_blocks[i]) \in LentBlocks /\ AddressOf(LoanOf(m_blocks[i])) = frame[th].block
      BY <3>1, <3>2, <3>3, BlockInHand
    <3>5. LoanOf(m_blocks[i]).size >= frame[th].asked
      BY <3>1, <3>4 DEF SizedInv, Sized
    <3> QED BY <3>3, <3>5, LoanParts DEF AlignedBlocks, Positions
  <2> QED BY <2>1, <2>2, <2>3
<1> QED BY <1>1, <1>2, <1>3, PTL DEF AllocatorSpec
====
