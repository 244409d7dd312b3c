---- MODULE LentMemoryProofs ----
(***************************************************************************)
(* The pool implements LentMemory: for every set of queues, heaps and      *)
(* sizes, each step of the pool is a step of the lender, or one it cannot  *)
(* see.  Rests on the pool's inductive invariant.                          *)
(***************************************************************************)
EXTENDS MemoryBlockPoolProofs

----------------------------------------------------------------------------
(* What is lent, as a function of the list of blocks.                      *)

Lent(s) == {LoanOf(s[i]) : i \in {j \in 1..Len(s) : ~s[j].free}}

LEMMA LentOfPool == LentBlocks = Lent(m_blocks) /\ LentBlocks' = Lent(m_blocks')
BY DEF LentBlocks, Lent, Positions

\* The blocks of s that are lent are in t, and are lent.
LentIn(s, t) ==
    \A i \in 1..Len(s) : ~s[i].free => \E j \in 1..Len(t) : ~t[j].free /\ t[j] = s[i]

\* Who is lent what does not depend on where in the list its block is.
LEMMA SameLent ==
    ASSUME NEW s, NEW t, LentIn(s, t), LentIn(t, s)
    PROVE  Lent(t) = Lent(s)
<1>1. \A loan \in Lent(s) : loan \in Lent(t)
  BY DEF Lent, LentIn
<1>2. \A loan \in Lent(t) : loan \in Lent(s)
  BY DEF Lent, LentIn
<1> QED BY <1>1, <1>2

\* The parts of a block that a lender shows.
LEMMA LoanParts ==
    ASSUME NEW b
    PROVE  /\ LoanOf(b).heap = b.heap /\ LoanOf(b).offset = b.offset
           /\ LoanOf(b).size = b.size /\ LoanOf(b).pending = b.pending
           /\ SpanOf(LoanOf(b)) = SpanOf(b)
BY DEF LoanOf, SpanOf

\* Two blocks of a list are never lent as the same loan.
LEMMA LoansAreApart ==
    ASSUME NEW s \in Seq(Blocks), NEW heaps \in [Heaps -> Nat], Tiles(s, heaps),
           NEW i \in 1..Len(s), NEW j \in 1..Len(s), i # j
    PROVE  LoanOf(s[i]) # LoanOf(s[j])
<1> SUFFICES ASSUME LoanOf(s[i]) = LoanOf(s[j]) PROVE FALSE
  OBVIOUS
<1>1. s[i].heap = s[j].heap /\ s[i].offset = s[j].offset /\ s[i].size = s[j].size
  BY LoanParts
<1>2. s[i].offset \in Nat /\ s[i].size \in Nat /\ s[i].size > 0
  BY BlocksAreBlocks DEF Tiles, InHeaps
<1>3. Overlaps(SpanOf(s[i]), SpanOf(s[j]))
  BY <1>1, <1>2 DEF Overlaps, SpanOf
<1> QED BY <1>3, BlocksAreApart

----------------------------------------------------------------------------
(* Steps of the pool that do not show.                                     *)

\* Joining two free blocks.
LEMMA JoinLendsTheSame ==
    ASSUME NEW s \in Seq(Blocks), NEW i \in 1..Len(s) - 1, NEW pending \in PendingTokens,
           s[i].free, s[i + 1].free
    PROVE  Lent(Join(s, i, pending)) = Lent(s)
<1> DEFINE t == Join(s, i, pending)
<1>1. /\ t \in Seq(Blocks) /\ Len(t) = Len(s) - 1 /\ t[i].free
      /\ \A j \in 1..Len(s) - 1 : (j < i => t[j] = s[j]) /\ (j > i => t[j] = s[j + 1])
  BY JoinLength, JoinFree, JoinOthers
<1>2. Len(s) \in Nat
  OBVIOUS
<1> HIDE DEF t
<1>3. ASSUME NEW k \in 1..Len(s), ~s[k].free
      PROVE  \E j \in 1..Len(t) : ~t[j].free /\ t[j] = s[k]
  <2>1. CASE k < i
    BY <1>1, <1>2, <1>3, <2>1
  <2>2. CASE k > i + 1
    <3>1. k - 1 \in 1..Len(s) - 1 /\ k - 1 > i /\ k - 1 + 1 = k
      BY <1>2, <2>2
    <3> QED BY <1>1, <1>3, <3>1
  <2>3. CASE k = i \/ k = i + 1
    BY <1>3, <2>3
  <2> QED BY <1>2, <2>1, <2>2, <2>3
<1>4. ASSUME NEW k \in 1..Len(t), ~t[k].free
      PROVE  \E j \in 1..Len(s) : ~s[j].free /\ s[j] = t[k]
  <2>1. CASE k < i
    BY <1>1, <1>2, <1>4, <2>1
  <2>2. CASE k > i
    <3>1. k + 1 \in 1..Len(s) /\ t[k] = s[k + 1]
      BY <1>1, <1>2, <2>2
    <3> QED BY <1>4, <3>1
  <2> QED BY <1>1, <1>2, <1>4, <2>1, <2>2
<1>5. LentIn(s, t) /\ LentIn(t, s)
  BY <1>3, <1>4 DEF LentIn
<1> QED BY <1>5, SameLent DEF t

\* A list whose lent blocks are those of another at the same positions.
LEMMA RetokenLendsTheSame ==
    ASSUME NEW s, NEW t, Len(t) = Len(s),
           \A j \in 1..Len(s) : t[j].free = s[j].free /\ (~s[j].free => t[j] = s[j])
    PROVE  Lent(t) = Lent(s)
<1>1. LentIn(s, t) /\ LentIn(t, s)
  BY DEF LentIn
<1> QED BY <1>1, SameLent

\* A free block that is cut in two.
LEMMA PartitionLendsTheSame ==
    ASSUME NEW s \in Seq(Blocks), NEW i \in 1..Len(s), NEW first_size \in 1..s[i].size - 1,
           s[i].free,
           NEW t, t = Partition(s, i, first_size)
    PROVE  Lent(t) = Lent(s)
<1> DEFINE second == [s[i] EXCEPT !.size = @ - first_size, !.offset = @ + first_size]
           first == [s[i] EXCEPT !.size = first_size]
           w == [s EXCEPT ![i] = second]
<1>1. s[i] \in Blocks /\ s[i].size \in Nat /\ s[i].offset \in Nat /\ Len(s) \in Nat
  BY BlocksAreBlocks
<1>2. first \in Blocks /\ second \in Blocks /\ first.free /\ second.free
  <2>1. first_size \in Nat /\ s[i].size - first_size \in Nat /\ s[i].offset + first_size \in Nat
    BY <1>1
  <2>2. first \in Blocks /\ first.free
    BY <1>1, <2>1 DEF Blocks
  <2>3. second \in Blocks /\ second.free
    BY <1>1, <2>1 DEF Blocks
  <2> QED BY <2>2, <2>3
<1>3. t = InsertAt(w, i, first)
  BY DEF Partition
<1> HIDE DEF first, second
<1>4. /\ w \in Seq(Blocks) /\ Len(w) = Len(s)
      /\ \A j \in 1..Len(s) : w[j] = IF j = i THEN second ELSE s[j]
  BY <1>2
<1> HIDE DEF w
<1>5. /\ Len(t) = Len(s) + 1
      /\ \A j \in 1..Len(s) + 1 :
            t[j] = IF j < i THEN w[j] ELSE IF j = i THEN first ELSE w[j - 1]
  <2>1. i \in 1..Len(w)
    BY <1>4
  <2>2. /\ Len(InsertAt(w, i, first)) = Len(w) + 1
        /\ \A j \in 1..Len(w) + 1 :
              InsertAt(w, i, first)[j] =
                  IF j < i THEN w[j] ELSE IF j = i THEN first ELSE w[j - 1]
    BY <1>2, <1>4, <2>1, InsertAtIndex
  <2> QED BY <1>3, <1>4, <2>2
<1>6. ASSUME NEW k \in 1..Len(s), ~s[k].free
      PROVE  \E j \in 1..Len(t) : ~t[j].free /\ t[j] = s[k]
  <2>0. k # i
    BY <1>6
  <2>1. CASE k < i
    <3>1. k \in 1..Len(t) /\ t[k] = s[k]
      BY <1>1, <1>4, <1>5, <2>1
    <3> QED BY <1>6, <3>1
  <2>2. CASE k > i
    <3>1. k + 1 \in 1..Len(t) /\ t[k + 1] = s[k]
      BY <1>1, <1>4, <1>5, <2>2
    <3> QED BY <1>6, <3>1
  <2> QED BY <1>1, <2>0, <2>1, <2>2
<1>7. ASSUME NEW k \in 1..Len(t), ~t[k].free
      PROVE  \E j \in 1..Len(s) : ~s[j].free /\ s[j] = t[k]
  <2>1. CASE k < i
    <3>1. k \in 1..Len(s) /\ t[k] = s[k]
      BY <1>1, <1>4, <1>5, <2>1
    <3> QED BY <1>7, <3>1
  <2>2. CASE k > i + 1
    <3>1. k - 1 \in 1..Len(s) /\ t[k] = s[k - 1]
      BY <1>1, <1>4, <1>5, <2>2
    <3> QED BY <1>7, <3>1
  <2>3. CASE k = i
    BY <1>1, <1>2, <1>5, <1>7, <2>3
  <2>4. CASE k = i + 1
    <3>1. t[k] = second
      BY <1>1, <1>4, <1>5, <2>4
    <3> QED BY <1>2, <1>7, <3>1
  <2> QED BY <1>1, <2>1, <2>2, <2>3, <2>4
<1>8. LentIn(s, t)
  BY <1>6 DEF LentIn
<1>9. LentIn(t, s)
  BY <1>7 DEF LentIn
<1> QED BY <1>8, <1>9, SameLent

\* A free block that leaves the list.
LEMMA RemoveLendsTheSame ==
    ASSUME NEW s \in Seq(Blocks), NEW i \in 1..Len(s), s[i].free
    PROVE  Lent(RemoveAt(s, i)) = Lent(s)
<1> DEFINE t == RemoveAt(s, i)
<1>1. /\ Len(t) = Len(s) - 1 /\ Len(s) \in Nat
      /\ \A j \in 1..Len(s) - 1 : t[j] = IF j < i THEN s[j] ELSE s[j + 1]
  <2>1. /\ RemoveAt(s, i) \in Seq(Blocks) /\ Len(RemoveAt(s, i)) = Len(s) - 1
        /\ \A j \in 1..Len(s) - 1 : RemoveAt(s, i)[j] = IF j < i THEN s[j] ELSE s[j + 1]
    BY RemoveAtIndex
  <2> QED BY <2>1
<1> HIDE DEF t
<1>2. ASSUME NEW k \in 1..Len(s), ~s[k].free
      PROVE  \E j \in 1..Len(t) : ~t[j].free /\ t[j] = s[k]
  <2>0. k # i
    BY <1>2
  <2>1. CASE k < i
    BY <1>1, <1>2, <2>1
  <2>2. CASE k > i
    <3>1. k - 1 \in 1..Len(t) /\ t[k - 1] = s[k]
      BY <1>1, <2>2
    <3> QED BY <1>2, <3>1
  <2> QED BY <1>1, <2>0, <2>1, <2>2
<1>3. ASSUME NEW k \in 1..Len(t), ~t[k].free
      PROVE  \E j \in 1..Len(s) : ~s[j].free /\ s[j] = t[k]
  <2>1. CASE k < i
    BY <1>1, <1>3, <2>1
  <2>2. CASE k >= i
    <3>1. k + 1 \in 1..Len(s) /\ t[k] = s[k + 1]
      BY <1>1, <2>2
    <3> QED BY <1>3, <3>1
  <2> QED BY <1>1, <2>1, <2>2
<1>4. LentIn(s, t) /\ LentIn(t, s)
  BY <1>2, <1>3 DEF LentIn
<1> QED BY <1>4, SameLent DEF t

\* A heap that joins the pool as one free block.
LEMMA AppendLendsTheSame ==
    ASSUME NEW s \in Seq(Blocks), NEW b \in Blocks, b.free
    PROVE  Lent(Append(s, b)) = Lent(s)
<1> DEFINE t == Append(s, b)
<1>1. /\ Len(t) = Len(s) + 1 /\ Len(s) \in Nat
      /\ \A j \in 1..Len(s) : t[j] = s[j]
      /\ t[Len(s) + 1] = b
  OBVIOUS
<1> HIDE DEF t
<1>2. LentIn(s, t)
  BY <1>1 DEF LentIn
<1>3. LentIn(t, s)
  <2> SUFFICES ASSUME NEW k \in 1..Len(t), ~t[k].free
               PROVE  \E j \in 1..Len(s) : ~s[j].free /\ s[j] = t[k]
    BY DEF LentIn
  <2>1. k \in 1..Len(s)
    BY <1>1
  <2> QED BY <1>1, <2>1
<1> QED BY <1>2, <1>3, SameLent DEF t

\* consider_merging_forwards.
LEMMA ForwardsLendsTheSame ==
    ASSUME NEW s \in Seq(Blocks), NEW i \in 1..Len(s), s[i].free,
           NEW t, t = ConsiderMergingForwards(s, i)
    PROVE  t \in Seq(Blocks) /\ i \in 1..Len(t) /\ t[i].free /\ Lent(t) = Lent(s)
<1>1. Len(s) \in Nat
  OBVIOUS
<1>2. CASE i < Len(s) /\ IsMergeable(s[i], s[i + 1])
  <2> DEFINE pending == KeepLaterPending(s[i], s[i + 1])
  <2>1. i \in 1..Len(s) - 1 /\ s[i] \in Blocks /\ s[i + 1] \in Blocks
    BY <1>1, <1>2
  <2>2. s[i + 1].free /\ t = Join(s, i, pending)
    BY <1>2 DEF IsMergeable, ConsiderMergingForwards
  <2>3. pending \in PendingTokens
    BY <2>1, LaterPendingType
  <2> HIDE DEF pending
  <2>4. /\ Join(s, i, pending) \in Seq(Blocks) /\ Len(Join(s, i, pending)) = Len(s) - 1
        /\ Join(s, i, pending)[i].free
    BY <2>1, <2>3, JoinLength, JoinFree
  <2>5. Lent(Join(s, i, pending)) = Lent(s)
    BY <2>1, <2>2, <2>3, JoinLendsTheSame
  <2> QED BY <2>1, <2>2, <2>4, <2>5
<1>3. CASE ~(i < Len(s) /\ IsMergeable(s[i], s[i + 1]))
  BY <1>3 DEF ConsiderMergingForwards
<1> QED BY <1>2, <1>3

\* consider_merging_backwards.
LEMMA BackwardsLendsTheSame ==
    ASSUME NEW s \in Seq(Blocks), NEW i \in 1..Len(s), s[i].free
    PROVE  Lent(ConsiderMergingBackwards(s, i)) = Lent(s)
<1>1. Len(s) \in Nat
  OBVIOUS
<1>2. CASE i > 1 /\ IsMergeable(s[i], s[i - 1])
  <2> DEFINE k == i - 1
             pending == KeepLaterPending(s[i], s[i - 1])
  <2>1. k \in 1..Len(s) - 1 /\ k + 1 = i /\ s[i] \in Blocks /\ s[k] \in Blocks
    BY <1>1, <1>2
  <2>2. s[k].free /\ ConsiderMergingBackwards(s, i) = Join(s, k, pending)
    BY <1>2 DEF IsMergeable, ConsiderMergingBackwards
  <2>3. pending \in PendingTokens
    BY <2>1, LaterPendingType
  <2> HIDE DEF pending, k
  <2>4. Lent(Join(s, k, pending)) = Lent(s)
    BY <2>1, <2>2, <2>3, JoinLendsTheSame
  <2> QED BY <2>2, <2>4
<1>3. CASE ~(i > 1 /\ IsMergeable(s[i], s[i - 1]))
  BY <1>3 DEF ConsiderMergingBackwards
<1> QED BY <1>2, <1>3

----------------------------------------------------------------------------
(* Steps of the pool that do show.                                         *)

\* t is s with b in the place of the block at i.
ChangedAt(s, t, i, b) ==
    Len(t) = Len(s) /\ \A j \in 1..Len(s) : t[j] = IF j = i THEN b ELSE s[j]

\* One block of the list becomes another: only its own loan changes.
LEMMA LentAfterChange ==
    ASSUME NEW s \in Seq(Blocks), NEW heaps \in [Heaps -> Nat], Tiles(s, heaps),
           NEW i \in 1..Len(s), NEW b, NEW t, ChangedAt(s, t, i, b)
    PROVE  /\ b.free => Lent(t) = Lent(s) \ {LoanOf(s[i])}
           /\ ~b.free => Lent(t) = (Lent(s) \ {LoanOf(s[i])}) \cup {LoanOf(b)}
<1>0. Len(t) = Len(s) /\ \A j \in 1..Len(s) : t[j] = IF j = i THEN b ELSE s[j]
  BY DEF ChangedAt
<1>1. ASSUME NEW loan \in Lent(t)
      PROVE  \/ ~b.free /\ loan = LoanOf(b)
             \/ loan \in Lent(s) /\ loan # LoanOf(s[i])
  <2>1. PICK j \in 1..Len(s) : ~t[j].free /\ loan = LoanOf(t[j])
    BY <1>0 DEF Lent
  <2>2. CASE j = i
    BY <1>0, <2>1, <2>2
  <2>3. CASE j # i
    <3>1. t[j] = s[j] /\ LoanOf(s[j]) # LoanOf(s[i])
      BY <1>0, <2>3, LoansAreApart
    <3>2. loan \in Lent(s)
      BY <2>1, <3>1 DEF Lent
    <3> QED BY <2>1, <3>1, <3>2
  <2> QED BY <2>2, <2>3
<1>2. ASSUME NEW loan \in Lent(s), loan # LoanOf(s[i])
      PROVE  loan \in Lent(t)
  <2>1. PICK j \in 1..Len(s) : ~s[j].free /\ loan = LoanOf(s[j])
    BY DEF Lent
  <2>2. t[j] = s[j]
    BY <1>0, <1>2, <2>1
  <2> QED BY <1>0, <2>1, <2>2 DEF Lent
<1>3. ~b.free => LoanOf(b) \in Lent(t)
  <2>1. t[i] = b
    BY <1>0
  <2> QED BY <1>0, <2>1 DEF Lent
<1> QED BY <1>1, <1>2, <1>3

\* A free block is not lent.
LEMMA FreeIsNotLent ==
    ASSUME NEW s \in Seq(Blocks), NEW heaps \in [Heaps -> Nat], Tiles(s, heaps),
           NEW i \in 1..Len(s), s[i].free
    PROVE  LoanOf(s[i]) \notin Lent(s)
<1> SUFFICES ASSUME LoanOf(s[i]) \in Lent(s) PROVE FALSE
  OBVIOUS
<1>1. PICK j \in 1..Len(s) : ~s[j].free /\ LoanOf(s[i]) = LoanOf(s[j])
  BY DEF Lent
<1> QED BY <1>1, LoansAreApart

\* release: the block is lent no more, and nothing else changes hands.
LEMMA ReleaseTakesBack ==
    ASSUME NEW s \in Seq(Blocks), NEW heaps \in [Heaps -> Nat], Tiles(s, heaps),
           NEW i \in 1..Len(s), NEW pending \in PendingTokens
    PROVE  Lent(ConsiderMergingBlock(s, i, pending)) = Lent(s) \ {LoanOf(s[i])}
<1> DEFINE mine == [s[i] EXCEPT !.pending = pending, !.free = TRUE]
           t == [s EXCEPT ![i].pending = pending, ![i].free = TRUE]
<1>1. s[i] \in Blocks
  OBVIOUS
<1>2. mine \in Blocks /\ mine.free
  BY <1>1 DEF Blocks, PendingTokens
<1>3. t = [s EXCEPT ![i] = mine]
  BY <1>1 DEF Blocks
<1> HIDE DEF mine, t
<1>4. /\ t \in Seq(Blocks) /\ Len(t) = Len(s)
      /\ \A j \in 1..Len(s) : t[j] = IF j = i THEN mine ELSE s[j]
  BY <1>2, <1>3
<1>5. Lent(t) = Lent(s) \ {LoanOf(s[i])}
  <2>1. ChangedAt(s, t, i, mine)
    BY <1>4 DEF ChangedAt
  <2> QED BY <1>2, <2>1, LentAfterChange
<1> DEFINE u == ConsiderMergingForwards(t, i)
<1>6. t \in Seq(Blocks) /\ i \in 1..Len(t) /\ t[i].free
  BY <1>2, <1>4
<1>10. u = ConsiderMergingForwards(t, i)
  OBVIOUS
<1> HIDE DEF u
<1>7. u \in Seq(Blocks) /\ i \in 1..Len(u) /\ u[i].free /\ Lent(u) = Lent(t)
  BY <1>6, <1>10, ForwardsLendsTheSame
<1>8. Lent(ConsiderMergingBackwards(u, i)) = Lent(u)
  BY <1>7, BackwardsLendsTheSame
<1>9. ConsiderMergingBlock(s, i, pending) = ConsiderMergingBackwards(u, i)
  BY <1>10 DEF ConsiderMergingBlock, t
<1> QED BY <1>5, <1>7, <1>8, <1>9

----------------------------------------------------------------------------
(* Each step of the pool, as a step of the lender.                         *)

\* Nothing a lender shows changes.
LEMMA Hidden ==
    ASSUME UNCHANGED <<m_heaps, m_size, deviceVars>>, Lent(m_blocks') = Lent(m_blocks)
    PROVE  UNCHANGED LM!lentVars
<1>1. LentBlocks' = LentBlocks
  BY LentOfPool
<1> QED BY <1>1 DEF LM!lentVars, LM!deviceVars, deviceVars

\* The tokens of the pool's blocks are of commands that were issued.
LEMMA BlockTokensKnown ==
    ASSUME IInv, NEW i \in 1..Len(m_blocks)
    PROVE  m_blocks[i].pending \in LM!KnownTokens
<1>1. /\ m_blocks \in Seq(Blocks) /\ TokensIssued(m_blocks) /\ issued \in [Timelines -> Nat]
  BY DEF IInv, ListOK, PoolTypeOK, DeviceTypeOK
<1>2. m_blocks[i].pending \in PendingTokens
  BY <1>1, BlocksAreBlocks
<1>3. CASE m_blocks[i].pending = NoToken
  BY <1>3 DEF LM!KnownTokens, LM!NoToken, NoToken
<1>4. CASE m_blocks[i].pending \in Tokens
  <2> DEFINE token == m_blocks[i].pending
  <2>1. token.timeline \in Timelines /\ token.id \in Nat
        /\ token = [timeline |-> token.timeline, id |-> token.id]
    BY <1>4 DEF Tokens
  <2>2. token.id < issued[token.timeline]
    BY <1>1, <2>1, NoTimelineAssumption DEF TokensIssued, IsEmpty
  <2>3. token.id \in 0..issued[token.timeline] - 1
    BY <1>1, <2>1, <2>2
  <2> QED BY <2>1, <2>3 DEF LM!KnownTokens
<1> QED BY <1>2, <1>3, <1>4 DEF PendingTokens

LEMMA RegisterTakesHeap ==
    ASSUME IInv, CallRegisterHeap
    PROVE  LM!LentNext
<1>1. PICK heap \in Heaps, size \in HeapSizes : m_heaps[heap] = 0 /\ RegisterHeap(heap, size)
  BY DEF CallRegisterHeap
<1> DEFINE new == [heap |-> heap, offset |-> 0, size |-> size, pending |-> NoToken,
                   free |-> TRUE]
<1>2. new \in Blocks /\ new.free
  BY HeapSizesAssumption DEF Blocks
<1>3. m_blocks \in Seq(Blocks) /\ m_blocks' = Append(m_blocks, new)
  BY <1>1 DEF IInv, PoolTypeOK, RegisterHeap
<1> HIDE DEF new
<1>4. LentBlocks' = LentBlocks
  BY <1>2, <1>3, AppendLendsTheSame, LentOfPool
<1>5. /\ m_heaps' = [m_heaps EXCEPT ![heap] = size] /\ m_size' = m_size + size
      /\ UNCHANGED <<issued, finished, running>>
  BY <1>1 DEF RegisterHeap, CallRegisterHeap, deviceVars
<1>6. LM!TakeHeap(heap, size)
  BY <1>1, <1>4, <1>5 DEF LM!TakeHeap, LM!deviceVars
<1> QED BY <1>6 DEF LM!LentNext

LEMMA AcquireLends ==
    ASSUME IInv, CallAcquire
    PROVE  LM!LentNext
<1>1. PICK i \in Positions : m_blocks[i].free /\ Acquire(i)
  BY DEF CallAcquire
<1>2. /\ m_blocks \in Seq(Blocks) /\ Tiles(m_blocks, m_heaps) /\ Covered(m_blocks)
      /\ m_heaps \in [Heaps -> Nat] /\ i \in 1..Len(m_blocks)
  BY DEF IInv, ListOK, PoolTypeOK, Positions
<1> DEFINE b == m_blocks[i]
           mine == [b EXCEPT !.free = FALSE]
           loan == LoanOf(b)
<1>3. /\ b \in Blocks /\ b.heap \in Heaps /\ b.offset \in Nat /\ b.size \in Nat
      /\ b.size > 0 /\ b.offset + b.size <= m_heaps[b.heap]
  BY <1>2, BlocksAreBlocks DEF Tiles, InHeaps, End
<1>4. ~mine.free /\ LoanOf(mine) = loan
  BY <1>3 DEF Blocks, LoanOf
<1>5. LentBlocks' = LentBlocks \cup {loan}
  <2>1. m_blocks' = [m_blocks EXCEPT ![i] = mine]
    BY <1>1 DEF Acquire
  <2> HIDE DEF mine, loan
  <2>2. ChangedAt(m_blocks, m_blocks', i, mine)
    BY <1>2, <2>1 DEF ChangedAt
  <2>3. Lent(m_blocks') = (Lent(m_blocks) \ {LoanOf(b)}) \cup {LoanOf(mine)}
    BY <1>2, <1>4, <2>2, LentAfterChange
  <2>4. LoanOf(b) \notin Lent(m_blocks)
    BY <1>1, <1>2, FreeIsNotLent
  <2> QED BY <1>4, <2>3, <2>4, LentOfPool DEF loan
<1>6. \A other \in LentBlocks : ~LM!Overlaps(loan, other)
  <2> SUFFICES ASSUME NEW other \in LentBlocks PROVE ~LM!Overlaps(loan, other)
    OBVIOUS
  <2>1. PICK j \in 1..Len(m_blocks) : ~m_blocks[j].free /\ other = LoanOf(m_blocks[j])
    BY DEF LentBlocks, Positions
  <2>2. ~Overlaps(SpanOf(b), SpanOf(m_blocks[j]))
    BY <1>1, <1>2, <2>1, BlocksAreApart
  <2> QED BY <2>1, <2>2, LoanParts DEF Overlaps, LM!Overlaps, SpanOf
<1>7. LM!AllUsesCovered({loan.pending}, LM!SpanOf(loan))
  <2>1. AllUsesCovered({b.pending}, SpanOf(b))
    BY <1>1, <1>2 DEF Covered
  <2>2. loan.pending = b.pending /\ LM!SpanOf(loan) = SpanOf(b)
    BY LoanParts DEF LM!SpanOf, SpanOf
  <2> QED BY <2>1, <2>2 DEF AllUsesCovered, LM!AllUsesCovered, Overlaps, LM!Overlaps, Covers,
                            LM!Covers
<1>8. UNCHANGED <<m_heaps, m_size, issued, finished, running>>
  BY <1>1 DEF CallAcquire, Acquire, deviceVars
<1>9. LM!Lend(loan)
  BY <1>5, <1>6, <1>7, <1>8 DEF LM!Lend, LM!deviceVars
<1>10. loan = LM!Loan(b.heap, b.offset, b.size, b.pending)
  BY DEF LoanOf, LM!Loan
<1>11. /\ b.heap \in Heaps /\ b.offset \in 0..m_heaps[b.heap] - 1
       /\ b.size \in 1..m_heaps[b.heap] - b.offset /\ b.pending \in LM!KnownTokens
  <2>1. m_heaps[b.heap] \in Nat
    BY <1>2, <1>3
  <2>2. b.pending \in LM!KnownTokens
    BY <1>2, BlockTokensKnown
  <2> QED BY <1>3, <2>1, <2>2
<1> HIDE DEF b, loan
<1> QED BY <1>9, <1>10, <1>11 DEF LM!LentNext

LEMMA ReleaseIsTakenBack ==
    ASSUME IInv, CallRelease
    PROVE  LM!LentNext
<1>1. PICK i \in Positions, pending \in IssuedTokens \cup {NoToken} :
          /\ ~m_blocks[i].free
          /\ ~IsEmpty(pending) => pending.id < issued[pending.timeline]
          /\ AllUsesCovered({pending}, SpanOf(m_blocks[i]))
          /\ Release(i, pending)
  BY DEF CallRelease
<1>2. /\ m_blocks \in Seq(Blocks) /\ Tiles(m_blocks, m_heaps)
      /\ m_heaps \in [Heaps -> Nat] /\ i \in 1..Len(m_blocks)
      /\ issued \in [Timelines -> Nat]
  BY DEF IInv, ListOK, PoolTypeOK, DeviceTypeOK, Positions
<1>3. pending \in PendingTokens
  BY MaxCommandsAssumption DEF PendingTokens, Tokens, IssuedTokens
<1> DEFINE loan == LoanOf(m_blocks[i])
<1>4. loan \in LentBlocks
  BY <1>1, <1>2 DEF LentBlocks
<1>5. LentBlocks' = LentBlocks \ {loan}
  <2>1. m_blocks' = ConsiderMergingBlock(m_blocks, i, pending)
    BY <1>1 DEF Release
  <2>2. Lent(ConsiderMergingBlock(m_blocks, i, pending)) = Lent(m_blocks) \ {loan}
    BY <1>2, <1>3, ReleaseTakesBack
  <2> QED BY <2>1, <2>2, LentOfPool
<1>6. LM!AllUsesCovered({pending}, LM!SpanOf(loan))
  <2>1. LM!SpanOf(loan) = SpanOf(m_blocks[i])
    BY LoanParts DEF LM!SpanOf, SpanOf
  <2> QED BY <1>1, <2>1 DEF AllUsesCovered, LM!AllUsesCovered, Overlaps, LM!Overlaps, Covers,
                            LM!Covers
<1>7. UNCHANGED <<m_heaps, m_size, issued, finished, running>>
  BY <1>1 DEF CallRelease, Release, deviceVars
<1>8. LM!TakeBack(loan, pending)
  BY <1>5, <1>6, <1>7 DEF LM!TakeBack, LM!deviceVars
<1>9. pending \in LM!KnownTokens
  <2>1. CASE pending = NoToken
    BY <2>1 DEF LM!KnownTokens, LM!NoToken, NoToken
  <2>2. CASE pending \in Tokens
    <3>1. /\ pending.timeline \in Timelines /\ pending.id \in Nat
          /\ pending = [timeline |-> pending.timeline, id |-> pending.id]
      BY <2>2 DEF Tokens
    <3>2. pending.id < issued[pending.timeline]
      BY <1>1, <3>1, NoTimelineAssumption DEF IsEmpty
    <3>3. pending.id \in 0..issued[pending.timeline] - 1
      BY <1>2, <3>1, <3>2
    <3> QED BY <3>1, <3>3 DEF LM!KnownTokens
  <2> QED BY <1>3, <2>1, <2>2 DEF PendingTokens
<1> HIDE DEF loan
<1> QED BY <1>4, <1>8, <1>9 DEF LM!LentNext

LEMMA PartitionIsHidden ==
    ASSUME IInv, CallPartitionBlock
    PROVE  UNCHANGED LM!lentVars
<1>1. PICK i \in Positions :
          m_blocks[i].free /\ \E first_size \in 1..m_blocks[i].size - 1 :
                                  PartitionBlock(i, first_size)
  BY DEF CallPartitionBlock
<1>2. PICK first_size \in 1..m_blocks[i].size - 1 : PartitionBlock(i, first_size)
  BY <1>1
<1>3. m_blocks \in Seq(Blocks) /\ i \in 1..Len(m_blocks)
  BY DEF IInv, PoolTypeOK, Positions
<1>4. m_blocks' = Partition(m_blocks, i, first_size)
  BY <1>2 DEF PartitionBlock
<1>5. Lent(m_blocks') = Lent(m_blocks)
  BY <1>1, <1>3, <1>4, PartitionLendsTheSame
<1>6. UNCHANGED <<m_heaps, m_size, deviceVars>>
  BY <1>2 DEF PartitionBlock, CallPartitionBlock
<1> QED BY <1>5, <1>6, Hidden

LEMMA ResetPendingIsHidden ==
    ASSUME IInv, CallResetPending
    PROVE  UNCHANGED LM!lentVars
<1>1. m_blocks \in Seq(Blocks)
  BY DEF IInv, PoolTypeOK
<1>2. m_blocks' = [i \in Positions |->
          IF m_blocks[i].free THEN [m_blocks[i] EXCEPT !.pending = NoToken] ELSE m_blocks[i]]
  BY DEF CallResetPending, ResetPending
<1>3. Len(m_blocks') = Len(m_blocks)
  BY <1>1, <1>2 DEF Positions
<1>4. ASSUME NEW j \in 1..Len(m_blocks)
      PROVE  /\ m_blocks'[j].free = m_blocks[j].free
             /\ ~m_blocks[j].free => m_blocks'[j] = m_blocks[j]
  <2>1. m_blocks[j] \in Blocks
    BY <1>1
  <2> QED BY <1>2, <2>1 DEF Positions, Blocks
<1>5. Lent(m_blocks') = Lent(m_blocks)
  BY <1>3, <1>4, RetokenLendsTheSame
<1>6. UNCHANGED <<m_heaps, m_size, deviceVars>>
  BY DEF CallResetPending, ResetPending
<1> QED BY <1>5, <1>6, Hidden

LEMMA LoopIsHidden ==
    ASSUME IInv, AbsorbNext \/ StepOver \/ EndReset \/ EndReleaseUnusedHeaps,
           UNCHANGED deviceVars
    PROVE  UNCHANGED LM!lentVars
<1>1. CASE AbsorbNext
  <2>1. /\ m_blocks \in Seq(Blocks) /\ ite \in Nat /\ ite >= 1
        /\ call = "reset_pending" /\ CanAbsorb
        /\ m_blocks' = Join(m_blocks, ite, m_blocks[ite].pending)
        /\ UNCHANGED <<m_heaps, m_size>>
    BY <1>1 DEF AbsorbNext, IInv, PoolTypeOK
  <2>2. /\ ite \in 1..Len(m_blocks) - 1 /\ ite \in 1..Len(m_blocks)
        /\ m_blocks[ite].free /\ m_blocks[ite + 1].free
    BY <2>1 DEF CanAbsorb
  <2>3. m_blocks[ite].pending \in PendingTokens
    BY <2>1, <2>2, BlocksAreBlocks
  <2>4. Lent(m_blocks') = Lent(m_blocks)
    BY <2>1, <2>2, <2>3, JoinLendsTheSame
  <2> QED BY <2>1, <2>4, Hidden
<1>2. CASE StepOver \/ EndReset \/ EndReleaseUnusedHeaps
  <2>1. UNCHANGED <<m_blocks, m_heaps, m_size>>
    BY <1>2 DEF StepOver, EndReset, EndReleaseUnusedHeaps, poolState
  <2> QED BY <2>1, Hidden
<1> QED BY <1>1, <1>2

LEMMA UnusedHeapIsGivenBack ==
    ASSUME IInv, NEW i \in Positions, ReleaseUnusedHeap(i), UNCHANGED deviceVars
    PROVE  LM!LentNext
<1> DEFINE heap == m_blocks[i].heap
<1>1. /\ call = "release_unused_heaps"
      /\ m_blocks[i].free /\ ~IsPartition(m_blocks, i)
      /\ m_blocks' = RemoveAt(m_blocks, i)
      /\ m_heaps' = [m_heaps EXCEPT ![heap] = 0]
      /\ m_size' = m_size - m_heaps[heap]
      /\ UNCHANGED <<issued, finished, running>>
  BY DEF ReleaseUnusedHeap, deviceVars
<1>2. /\ m_heaps \in [Heaps -> Nat] /\ m_blocks \in Seq(Blocks)
      /\ Tiles(m_blocks, m_heaps) /\ i \in 1..Len(m_blocks)
  BY DEF IInv, PoolTypeOK, ListOK, Positions
<1>3. /\ heap \in Heaps /\ m_blocks[i].offset = 0 /\ m_blocks[i].size = m_heaps[heap]
      /\ \A j \in 1..Len(m_blocks) : j # i => m_blocks[j].heap # heap
  BY <1>1, <1>2, UnpartitionedIsWhole, BlocksAreBlocks
<1>4. m_heaps[heap] > 0
  BY <1>2, <1>3 DEF Tiles, InHeaps
<1>5. \A loan \in LentBlocks : loan.heap # heap
  <2> SUFFICES ASSUME NEW loan \in LentBlocks PROVE loan.heap # heap
    OBVIOUS
  <2>1. PICK j \in 1..Len(m_blocks) : ~m_blocks[j].free /\ loan = LoanOf(m_blocks[j])
    BY DEF LentBlocks, Positions
  <2> QED BY <1>1, <1>3, <2>1, LoanParts
<1>6. ASSUME NEW use \in running
      PROVE  use.heap # heap
  <2> SUFFICES ASSUME use.heap = heap PROVE FALSE
    OBVIOUS
  <2>1. use.offset \in Nat /\ use.size \in Nat /\ m_heaps[heap] \in Nat
    BY <1>2, <1>3 DEF IInv, PoolTypeOK, DeviceTypeOK
  <2>2. use.size > 0 /\ use.offset + use.size <= m_heaps[use.heap]
    BY DEF IInv, NoCommandOnReturnedMemory
  <2>3. Overlaps(use, SpanOf(m_blocks[i]))
    BY <1>3, <2>1, <2>2 DEF Overlaps, SpanOf
  <2>4. IsComplete(m_blocks[i].pending)
    BY <1>1, <1>2 DEF IInv, IdleWhileGivingBack
  <2> QED BY <1>1, <1>2, <2>3, <2>4, CompleteIsIdle
<1>7. LentBlocks' = LentBlocks
  BY <1>1, <1>2, RemoveLendsTheSame, LentOfPool
<1>8. LM!GiveHeapBack(heap)
  BY <1>1, <1>4, <1>5, <1>6, <1>7 DEF LM!GiveHeapBack, LM!deviceVars
<1> HIDE DEF heap
<1> QED BY <1>3, <1>8 DEF LM!LentNext

LEMMA DestroyGivesAllBack ==
    ASSUME CallDestroyPool
    PROVE  LM!LentNext
<1>1. /\ running = {} /\ m_blocks' = <<>>
      /\ m_heaps' = [heap \in Heaps |-> 0] /\ m_size' = 0
      /\ UNCHANGED <<issued, finished, running>>
  BY DEF CallDestroyPool, DestroyPool, deviceVars
<1>2. LentBlocks' = {}
  <2>1. 1..Len(m_blocks') = {}
    BY <1>1
  <2>2. Lent(m_blocks') = {}
    BY <2>1 DEF Lent
  <2> QED BY <2>2, LentOfPool
<1>3. LM!GiveAllBack
  BY <1>1, <1>2 DEF LM!GiveAllBack, LM!deviceVars
<1> QED BY <1>3 DEF LM!LentNext

LEMMA HolderForgets ==
    ASSUME IInv, HolderSetsPending
    PROVE  LM!LentNext
<1>1. PICK i \in Positions :
          ~m_blocks[i].free /\ IsComplete(m_blocks[i].pending) /\ SetPending(i, NoToken)
  BY DEF HolderSetsPending
<1>2. /\ m_blocks \in Seq(Blocks) /\ Tiles(m_blocks, m_heaps)
      /\ m_heaps \in [Heaps -> Nat] /\ i \in 1..Len(m_blocks)
  BY DEF IInv, ListOK, PoolTypeOK, Positions
<1> DEFINE b == m_blocks[i]
           mine == [b EXCEPT !.pending = NoToken]
           loan == LoanOf(b)
<1>3. b \in Blocks
  BY <1>2
<1>4. ~mine.free /\ LoanOf(mine) = [loan EXCEPT !.pending = LM!NoToken]
  BY <1>1, <1>3 DEF Blocks, LoanOf, NoToken, LM!NoToken
<1>5. loan \in LentBlocks
  BY <1>1, <1>2 DEF LentBlocks
<1>6. LentBlocks' = (LentBlocks \ {loan}) \cup {[loan EXCEPT !.pending = LM!NoToken]}
  <2>1. m_blocks' = [m_blocks EXCEPT ![i] = mine]
    BY <1>1 DEF SetPending
  <2> HIDE DEF mine, loan
  <2>2. ChangedAt(m_blocks, m_blocks', i, mine)
    BY <1>2, <2>1 DEF ChangedAt
  <2>3. Lent(m_blocks') = (Lent(m_blocks) \ {LoanOf(b)}) \cup {LoanOf(mine)}
    BY <1>2, <1>4, <2>2, LentAfterChange
  <2> QED BY <1>4, <2>3, LentOfPool DEF loan
<1>7. LM!IsComplete(loan.pending)
  <2>1. loan.pending = b.pending
    BY LoanParts
  <2> QED BY <1>1, <2>1 DEF IsComplete, LM!IsComplete, IsEmpty, LM!IsEmpty
<1>8. UNCHANGED <<m_heaps, m_size, issued, finished, running>>
  BY <1>1 DEF HolderSetsPending, SetPending, deviceVars
<1>9. LM!Forget(loan)
  BY <1>6, <1>7, <1>8 DEF LM!Forget, LM!deviceVars
<1> HIDE DEF loan
<1> QED BY <1>5, <1>9 DEF LM!LentNext

LEMMA UseBlockUsesLoan ==
    ASSUME UseBlock
    PROVE  LM!LentNext
<1>1. PICK i \in Positions, timeline \in Timelines :
          ~m_blocks[i].free /\ Issue(timeline, {SpanOf(m_blocks[i])})
  BY DEF UseBlock
<1> DEFINE loan == LoanOf(m_blocks[i])
<1>2. loan \in LentBlocks
  BY <1>1 DEF LentBlocks
<1>3. LM!SpanOf(loan) = SpanOf(m_blocks[i])
  BY LoanParts DEF LM!SpanOf, SpanOf
<1>4. LM!Issue(timeline, {LM!SpanOf(loan)})
  BY <1>1, <1>3 DEF Issue, LM!Issue
<1>5. UNCHANGED <<m_heaps, m_size, LentBlocks>>
  BY LentOfPool DEF UseBlock, poolVars
<1>6. LM!Use(loan, timeline)
  BY <1>4, <1>5 DEF LM!Use
<1> HIDE DEF loan
<1> QED BY <1>2, <1>6 DEF LM!LentNext

LEMMA FinishEndsUse ==
    ASSUME FinishCommand
    PROVE  LM!LentNext
<1>1. PICK timeline \in Timelines : Finish(timeline)
  BY DEF FinishCommand
<1>2. LM!Finish(timeline)
  BY <1>1 DEF Finish, LM!Finish
<1>3. UNCHANGED <<m_heaps, m_size, LentBlocks>>
  BY LentOfPool DEF FinishCommand, poolVars
<1>4. LM!FinishUse(timeline)
  BY <1>2, <1>3 DEF LM!FinishUse
<1> QED BY <1>4 DEF LM!LentNext

----------------------------------------------------------------------------
(* The theorem.                                                            *)

LEMMA InitLends ==
    ASSUME Init
    PROVE  LM!LentInit
<1>1. m_blocks = <<>> /\ m_heaps = [heap \in Heaps |-> 0] /\ m_size = 0
  BY DEF Init, PoolInit
<1>2. LentBlocks = {}
  <2>1. Positions = {}
    BY <1>1 DEF Positions
  <2> QED BY <2>1 DEF LentBlocks
<1>3. LM!DeviceInit
  BY DEF Init, DeviceInit, LM!DeviceInit
<1> QED BY <1>1, <1>2, <1>3 DEF LM!LentInit

LEMMA NextLends ==
    ASSUME IInv, [PoolNext]_vars
    PROVE  [LM!LentNext]_(LM!lentVars)
<1>1. CASE CallRegisterHeap
  BY <1>1, RegisterTakesHeap
<1>2. CASE CallPartitionBlock
  BY <1>2, PartitionIsHidden
<1>3. CASE CallAcquire
  BY <1>3, AcquireLends
<1>4. CASE CallRelease
  BY <1>4, ReleaseIsTakenBack
<1>5. CASE CallResetPending
  BY <1>5, ResetPendingIsHidden
<1>6. CASE CallReleaseUnusedHeaps
  <2>1. UNCHANGED <<m_blocks, m_heaps, m_size, deviceVars>>
    BY <1>6 DEF CallReleaseUnusedHeaps, ReleaseUnusedHeaps
  <2> QED BY <2>1, Hidden
<1>7. CASE CallDestroyPool
  BY <1>7, DestroyGivesAllBack
<1>8. CASE HolderSetsPending
  BY <1>8, HolderForgets
<1>9. CASE PoolLoopStep
  <2>1. UNCHANGED deviceVars
    BY <1>9 DEF PoolLoopStep
  <2>2. CASE AbsorbNext \/ StepOver \/ EndReset \/ EndReleaseUnusedHeaps
    BY <2>1, <2>2, LoopIsHidden
  <2>3. CASE \E i \in Positions : ReleaseUnusedHeap(i)
    BY <2>1, <2>3, UnusedHeapIsGivenBack
  <2> QED BY <1>9, <2>2, <2>3 DEF PoolLoopStep
<1>10. CASE UseBlock
  BY <1>10, UseBlockUsesLoan
<1>11. CASE FinishCommand
  BY <1>11, FinishEndsUse
<1>12. CASE UNCHANGED vars
  BY <1>12, Hidden DEF vars, poolVars
<1> QED BY <1>1, <1>2, <1>3, <1>4, <1>5, <1>6, <1>7, <1>8, <1>9, <1>10, <1>11, <1>12
        DEF PoolNext

\* However it cuts, merges, resets and gives back, the pool lends memory as
\* LentMemory does (acquire, release, partition_block, reset_pending,
\* release_unused_heaps).
THEOREM PoolLendsMemory == PoolSpec => LendsMemory
<1>1. Init => LM!LentInit
  BY InitLends
<1>2. IInv /\ [PoolNext]_vars => [LM!LentNext]_(LM!lentVars)
  BY NextLends
<1> QED BY <1>1, <1>2, PoolInvariant, PTL DEF PoolSpec, LendsMemory, LM!LentSpec
====
