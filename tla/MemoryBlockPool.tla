---- MODULE MemoryBlockPool ----
(***************************************************************************)
(* memory_block_pool: the heaps a caching allocator holds, cut into blocks *)
(* that are free or handed out.  Sizes and offsets are in bytes; nothing   *)
(* here depends on how they are aligned.                                   *)
(*                                                                         *)
(* m_blocks is the list of every block; a block's `free` field says        *)
(* whether it is linked into m_free_blocks, which the code too asks the    *)
(* block (memory_block::is_free).  The set's order, by timeline and then   *)
(* by size, is in the definitions that search it.  The pool has no lock of *)
(* its own: its calls run one at a time, under the lock of its owner.  The *)
(* loops of reset_pending and release_unused_heaps take a step per         *)
(* iteration, and commands may finish on the device in between.            *)
(***************************************************************************)
EXTENDS CommandTokens

CONSTANTS
    HeapSizes,      \* sizes of the heaps the pool may be given
    MaxCommands     \* bound on the commands a timeline is given

ASSUME HeapSizesAssumption == HeapSizes \subseteq Nat \ {0}
ASSUME MaxCommandsAssumption == MaxCommands \in Nat

VARIABLES
    m_blocks,       \* blocks in list order
    m_heaps,        \* size of the heap at each address, 0 where the pool holds none
    m_size,         \* total size of the heaps
    call,           \* which looping call runs: "none" or the name of the method
    ite             \* the position in m_blocks that reset_pending's loop is at

poolState == <<m_blocks, m_heaps, m_size>>
poolVars == <<m_blocks, m_heaps, m_size, call, ite>>

Blocks ==
    [heap : Heaps, offset : Nat, size : Nat, pending : Tokens \cup {NoToken}, free : BOOLEAN]

Positions == 1..Len(m_blocks)

----------------------------------------------------------------------------
(* Searching the free blocks.                                              *)

\* Free blocks are ordered by timeline, then by size: of those with one key,
\* the code takes whichever its set has first.
Smallest(positions) ==
    {i \in positions : \A j \in positions : m_blocks[i].size <= m_blocks[j].size}

\* The best fits among the free blocks of one timeline: the lower bound of
\* (timeline, size) is one of them.
FindInTimeline(size, timeline) ==
    Smallest({i \in Positions : /\ m_blocks[i].free
                                /\ m_blocks[i].pending.timeline = timeline
                                /\ m_blocks[i].size >= size})

FindSuitableBlock(size, timeline) ==
    LET own == FindInTimeline(size, timeline)
    IN  IF own # {} THEN own ELSE FindInTimeline(size, NoTimeline)

\* The timelines that have free blocks, which the set is walked by.
FreeTimelines == {m_blocks[i].pending.timeline : i \in {j \in Positions : m_blocks[j].free}}

FindForeignBlock(size, timeline) ==
    Smallest(UNION {FindInTimeline(size, other) :
                       other \in FreeTimelines \ {timeline, NoTimeline}})

\* The latest token of each timeline among the free blocks.
EnumeratePending ==
    {m_blocks[i].pending : i \in
        {j \in Positions :
            /\ m_blocks[j].free
            /\ ~IsEmpty(m_blocks[j].pending)
            /\ \A k \in Positions :
                  m_blocks[k].free /\ m_blocks[k].pending.timeline = m_blocks[j].pending.timeline
                  => m_blocks[k].pending.id <= m_blocks[j].pending.id}}

----------------------------------------------------------------------------
(* Merging.  A block is the one at a position of a list of blocks.         *)

\* Slips: nothing is asked of the timeline, or of the neighbour being in use.
IsMergeableAcrossTimelines(block, neighbour) == neighbour.heap = block.heap /\ neighbour.free
IsMergeableInUse(block, neighbour) ==
    neighbour.heap = block.heap /\ neighbour.pending.timeline = block.pending.timeline

IsMergeable(block, neighbour) ==
    /\ neighbour.heap = block.heap
    /\ neighbour.pending.timeline = block.pending.timeline
    /\ neighbour.free

\* A slip: the comparison is the wrong way round.
KeepEarlierPending(block, other) ==
    IF ~IsEmpty(other.pending) /\ other.pending.id < block.pending.id
    THEN other.pending ELSE block.pending

KeepLaterPending(block, other) ==
    IF ~IsEmpty(other.pending) /\ other.pending.id > block.pending.id
    THEN other.pending ELSE block.pending

\* The blocks at i and i + 1 become one, which carries `pending`.
Join(blocks, i, pending) ==
    LET joined == [blocks[i] EXCEPT !.size = @ + blocks[i + 1].size, !.pending = pending]
    IN  RemoveAt([blocks EXCEPT ![i] = joined], i + 1)

ConsiderMergingForwards(blocks, i) ==
    IF i < Len(blocks) /\ IsMergeable(blocks[i], blocks[i + 1])
    THEN Join(blocks, i, KeepLaterPending(blocks[i], blocks[i + 1]))
    ELSE blocks

ConsiderMergingBackwards(blocks, i) ==
    IF i > 1 /\ IsMergeable(blocks[i], blocks[i - 1])
    THEN Join(blocks, i - 1, KeepLaterPending(blocks[i], blocks[i - 1]))
    ELSE blocks

\* A slip: only the neighbour after the block is looked at.
MergeForwardsOnly(blocks, i, pending) ==
    ConsiderMergingForwards([blocks EXCEPT ![i].pending = pending, ![i].free = TRUE], i)

\* Merging asks nothing of the block itself but its token, so the block may
\* join the free ones first.
ConsiderMergingBlock(blocks, i, pending) ==
    LET returned == [blocks EXCEPT ![i].pending = pending, ![i].free = TRUE]
    IN  ConsiderMergingBackwards(ConsiderMergingForwards(returned, i), i)

\* A slip: the neighbour before the block is not looked at.
IsPartitionForwards(blocks, i) == i < Len(blocks) /\ blocks[i + 1].heap = blocks[i].heap

\* Whether a neighbour of the block belongs to its heap.
IsPartition(blocks, i) ==
    \/ i < Len(blocks) /\ blocks[i + 1].heap = blocks[i].heap
    \/ i > 1 /\ blocks[i - 1].heap = blocks[i].heap

----------------------------------------------------------------------------
(* The operations.                                                         *)

PoolInit ==
    /\ m_blocks = <<>>
    /\ m_heaps = [heap \in Heaps |-> 0]
    /\ m_size = 0
    /\ call = "none"
    /\ ite = 0

RegisterHeap(heap, size) ==
    /\ m_blocks' = Append(m_blocks, [heap |-> heap, offset |-> 0, size |-> size,
                                     pending |-> NoToken, free |-> TRUE])
    /\ m_heaps' = [m_heaps EXCEPT ![heap] = size]
    /\ m_size' = m_size + size
    /\ UNCHANGED <<call, ite>>

\* Slips: the new block is put after the tracked one; the remainder is negative.
PartitionAfter(blocks, i, first_size) ==
    LET second == [blocks[i] EXCEPT !.size = @ - first_size, !.offset = @ + first_size]
    IN  InsertAt([blocks EXCEPT ![i] = second], i + 1, [blocks[i] EXCEPT !.size = first_size])
PartitionBackwards(blocks, i, first_size) ==
    LET second == [blocks[i] EXCEPT !.size = first_size - @, !.offset = @ + first_size]
    IN  InsertAt([blocks EXCEPT ![i] = second], i, [blocks[i] EXCEPT !.size = first_size])

\* The tracked block becomes the second half; the new one goes before it.
Partition(blocks, i, first_size) ==
    LET second == [blocks[i] EXCEPT !.size = @ - first_size, !.offset = @ + first_size]
        first == [blocks[i] EXCEPT !.size = first_size]
    IN  InsertAt([blocks EXCEPT ![i] = second], i, first)

PartitionBlock(i, first_size) ==
    /\ m_blocks' = Partition(m_blocks, i, first_size)
    /\ UNCHANGED <<m_heaps, m_size, call, ite>>

Acquire(i) ==
    /\ m_blocks' = [m_blocks EXCEPT ![i].free = FALSE]
    /\ UNCHANGED <<m_heaps, m_size, call, ite>>

Release(i, pending) ==
    /\ m_blocks' = ConsiderMergingBlock(m_blocks, i, pending)
    /\ UNCHANGED <<m_heaps, m_size, call, ite>>

\* reset_pending empties every free block's token first ...
ResetPending ==
    /\ m_blocks' = [i \in Positions |->
           IF m_blocks[i].free THEN [m_blocks[i] EXCEPT !.pending = NoToken] ELSE m_blocks[i]]
    /\ call' = "reset_pending"
    /\ ite' = 1
    /\ UNCHANGED <<m_heaps, m_size>>

\* ... and then walks the blocks, absorbing free neighbours into the block the
\* walk is at, whatever their tokens were.
CanAbsorb ==
    /\ ite < Len(m_blocks)
    /\ m_blocks[ite].free
    /\ m_blocks[ite + 1].free
    /\ m_blocks[ite + 1].heap = m_blocks[ite].heap

\* A slip: the walk moves on after one neighbour.
AbsorbOne ==
    /\ call = "reset_pending"
    /\ CanAbsorb
    /\ m_blocks' = Join(m_blocks, ite, m_blocks[ite].pending)
    /\ ite' = ite + 1
    /\ UNCHANGED <<m_heaps, m_size, call>>

AbsorbNext ==
    /\ call = "reset_pending"
    /\ CanAbsorb
    /\ m_blocks' = Join(m_blocks, ite, m_blocks[ite].pending)
    /\ UNCHANGED <<m_heaps, m_size, call, ite>>

StepOver ==
    /\ call = "reset_pending"
    /\ ite <= Len(m_blocks)
    /\ ~CanAbsorb
    /\ ite' = ite + 1
    /\ UNCHANGED <<m_blocks, m_heaps, m_size, call>>

EndReset ==
    /\ call = "reset_pending"
    /\ ite > Len(m_blocks)
    /\ call' = "none"
    /\ ite' = 0
    /\ UNCHANGED poolState

ReleaseUnusedHeaps ==
    /\ call' = "release_unused_heaps"
    /\ UNCHANGED <<m_blocks, m_heaps, m_size, ite>>

\* A slip: the size of the heap is not taken off the total.
ReleaseHeapOnly(i) ==
    /\ call = "release_unused_heaps"
    /\ m_blocks[i].free
    /\ ~IsPartition(m_blocks, i)
    /\ m_blocks' = RemoveAt(m_blocks, i)
    /\ m_heaps' = [m_heaps EXCEPT ![m_blocks[i].heap] = 0]
    /\ UNCHANGED <<m_size, call, ite>>

\* The walk is over the set of free blocks, whose order nothing here depends on.
ReleaseUnusedHeap(i) ==
    /\ call = "release_unused_heaps"
    /\ m_blocks[i].free
    /\ ~IsPartition(m_blocks, i)
    /\ m_blocks' = RemoveAt(m_blocks, i)
    /\ m_heaps' = [m_heaps EXCEPT ![m_blocks[i].heap] = 0]
    /\ m_size' = m_size - m_heaps[m_blocks[i].heap]
    /\ UNCHANGED <<call, ite>>

EndReleaseUnusedHeaps ==
    /\ call = "release_unused_heaps"
    /\ \A i \in Positions : m_blocks[i].free => IsPartition(m_blocks, i)
    /\ call' = "none"
    /\ UNCHANGED <<m_blocks, m_heaps, m_size, ite>>

\* ~memory_block_pool frees the heaps, whatever their blocks are.
DestroyPool ==
    /\ m_blocks' = <<>>
    /\ m_heaps' = [heap \in Heaps |-> 0]
    /\ m_size' = 0
    /\ UNCHANGED <<call, ite>>

\* memory_block::set_pending, which whoever was handed a block may call.
SetPending(i, pending) ==
    /\ m_blocks' = [m_blocks EXCEPT ![i].pending = pending]
    /\ UNCHANGED <<m_heaps, m_size, call, ite>>

----------------------------------------------------------------------------
(* Any caller that keeps to the preconditions the pool documents, with the *)
(* device at work: what the pool has to be correct for.                    *)

IssuedTokens ==
    {[timeline |-> timeline, id |-> id] : timeline \in Timelines, id \in 0..MaxCommands - 1}

CallRegisterHeap ==
    /\ call = "none"
    /\ \E heap \in Heaps, size \in HeapSizes : m_heaps[heap] = 0 /\ RegisterHeap(heap, size)
    /\ UNCHANGED deviceVars

CallPartitionBlock ==
    /\ call = "none"
    /\ \E i \in Positions :
          /\ m_blocks[i].free
          /\ \E first_size \in 1..m_blocks[i].size - 1 : PartitionBlock(i, first_size)
    /\ UNCHANGED deviceVars

CallAcquire ==
    /\ call = "none"
    /\ \E i \in Positions : m_blocks[i].free /\ Acquire(i)
    /\ UNCHANGED deviceVars

\* "Token of the last command that used the block.  Empty if nothing uses it."
CallRelease ==
    /\ call = "none"
    /\ \E i \in Positions, pending \in IssuedTokens \cup {NoToken} :
          /\ ~m_blocks[i].free
          /\ ~IsEmpty(pending) => pending.id < issued[pending.timeline]
          /\ AllUsesCovered({pending}, SpanOf(m_blocks[i]))
          /\ Release(i, pending)
    /\ UNCHANGED deviceVars

\* "Every command reported by enumerate_pending must have finished."
CallResetPending ==
    /\ call = "none"
    /\ \A token \in EnumeratePending : IsComplete(token)
    /\ ResetPending
    /\ UNCHANGED deviceVars

\* The owner only gives heaps back once nothing runs against what is free.
CallReleaseUnusedHeaps ==
    /\ call = "none"
    /\ \A i \in Positions : m_blocks[i].free => IsComplete(m_blocks[i].pending)
    /\ ReleaseUnusedHeaps
    /\ UNCHANGED deviceVars

\* "Every command has to be done with a block before the heap under it is
\* handed to the driver."
CallDestroyPool ==
    /\ call = "none"
    /\ running = {}
    /\ DestroyPool
    /\ UNCHANGED deviceVars

\* Whoever holds a block may forget a command it has seen finish.
HolderSetsPending ==
    /\ \E i \in Positions :
          /\ ~m_blocks[i].free
          /\ IsComplete(m_blocks[i].pending)
          /\ SetPending(i, NoToken)
    /\ UNCHANGED deviceVars

PoolLoopStep ==
    /\ \/ AbsorbNext
       \/ StepOver
       \/ EndReset
       \/ \E i \in Positions : ReleaseUnusedHeap(i)
       \/ EndReleaseUnusedHeaps
    /\ UNCHANGED deviceVars

\* A command that uses a block that is handed out.
UseBlock ==
    /\ \E i \in Positions, timeline \in Timelines :
          /\ ~m_blocks[i].free
          /\ issued[timeline] < MaxCommands
          /\ Issue(timeline, {SpanOf(m_blocks[i])})
    /\ UNCHANGED poolVars

FinishCommand ==
    /\ \E timeline \in Timelines : Finish(timeline)
    /\ UNCHANGED poolVars

PoolNext ==
    \/ CallRegisterHeap
    \/ CallPartitionBlock
    \/ CallAcquire
    \/ CallRelease
    \/ CallResetPending
    \/ CallReleaseUnusedHeaps
    \/ CallDestroyPool
    \/ HolderSetsPending
    \/ PoolLoopStep
    \/ UseBlock
    \/ FinishCommand

vars == <<poolVars, deviceVars>>

Init == DeviceInit /\ PoolInit

PoolSpec == Init /\ [][PoolNext]_vars

----------------------------------------------------------------------------
(* What the pool promises.                                                 *)

\* The state is made of what the code can hold.
PoolTypeOK ==
    /\ DeviceTypeOK
    /\ m_blocks \in Seq(Blocks)
    /\ m_heaps \in [Heaps -> Nat]
    /\ m_size \in Int
    /\ call \in {"none", "reset_pending", "release_unused_heaps"}
    /\ ite \in Nat
    /\ call = "reset_pending" => ite >= 1

End(block) == block.offset + block.size

\* Blocks are not empty and lie inside a heap the pool holds.
InHeaps(blocks, heaps) ==
    \A i \in 1..Len(blocks) : blocks[i].size > 0 /\ End(blocks[i]) <= heaps[blocks[i].heap]

\* The blocks of a heap are in address order and share no memory.
InAddressOrder(blocks) ==
    \A i, j \in 1..Len(blocks) :
        i < j /\ blocks[i].heap = blocks[j].heap => End(blocks[i]) <= blocks[j].offset

\* List neighbours meet, or end one heap and start another.
StartsHeap(block) == block.offset = 0
EndsHeap(block, heaps) == End(block) = heaps[block.heap]

NeighboursMeet(blocks, heaps) ==
    \A i \in 1..Len(blocks) - 1 :
        IF blocks[i].heap = blocks[i + 1].heap
        THEN blocks[i + 1].offset = End(blocks[i])
        ELSE EndsHeap(blocks[i], heaps) /\ StartsHeap(blocks[i + 1])

EndsMeet(blocks, heaps) ==
    Len(blocks) > 0 => StartsHeap(blocks[1]) /\ EndsHeap(blocks[Len(blocks)], heaps)

\* No heap is held without a block to find it by.
HeapsHaveBlocks(blocks, heaps) ==
    \A heap \in Heaps : heaps[heap] > 0 => \E i \in 1..Len(blocks) : blocks[i].heap = heap

Tiles(blocks, heaps) ==
    /\ InHeaps(blocks, heaps)
    /\ InAddressOrder(blocks)
    /\ NeighboursMeet(blocks, heaps)
    /\ EndsMeet(blocks, heaps)
    /\ HeapsHaveBlocks(blocks, heaps)

\* The blocks cut every heap up without gaps and without overlaps, in the
\* order of the list, through every partition, merge and heap given back
\* (memory_block_pool::partition_block, consider_merging_*, reset_pending,
\* release_unused_heaps).  Merging by list neighbours is only right if so.
BlocksTileHeaps == Tiles(m_blocks, m_heaps)

Covered(blocks) ==
    \A i \in 1..Len(blocks) :
        blocks[i].free => AllUsesCovered({blocks[i].pending}, SpanOf(blocks[i]))

\* Every unfinished command that uses memory of a free block is waited for by
\* waiting for the one token the block carries, however the block was put
\* together (release, keep_later_pending, partition_block, reset_pending).
FreeBlocksCovered == Covered(m_blocks)

\* No unfinished command uses memory whose heap was given back to the driver
\* (release_unused_heaps).
NoCommandOnReturnedMemory ==
    \A use \in running : use.size > 0 /\ use.offset + use.size <= m_heaps[use.heap]

\* What reset_pending has walked past has no free neighbours left apart.
WalkedPartMerged ==
    call = "reset_pending" =>
        \A i \in Positions :
            i < ite /\ i < Len(m_blocks) /\ m_blocks[i].heap = m_blocks[i + 1].heap
            => ~m_blocks[i].free \/ ~m_blocks[i + 1].free

----------------------------------------------------------------------------
(* The pool as whoever it lends memory to sees it.                         *)

\* A block that is not among the free ones is lent to whoever acquired it.
LoanOf(block) ==
    [heap |-> block.heap, offset |-> block.offset, size |-> block.size,
     pending |-> block.pending]

LentBlocks == {LoanOf(m_blocks[i]) : i \in {j \in Positions : ~m_blocks[j].free}}

LM == INSTANCE LentMemory WITH held <- m_heaps, total <- m_size, lent <- LentBlocks

\* However it cuts, merges and resets its blocks, the pool lends memory as
\* LentMemory does: what is handed out never overlaps, comes with a token that
\* covers what still runs in it, stays where it is until its owner, who reads
\* its address and size without a lock (cuda_buffer::get_device_ptr, get_size),
\* returns it, and its heap is never given back before; and get_size, which
\* decides how big the next heap is, counts every heap once (acquire, release,
\* partition_block, reset_pending, release_unused_heaps).
LendsMemory == LM!LentSpec
====
