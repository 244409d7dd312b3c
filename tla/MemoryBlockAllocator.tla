---- MODULE MemoryBlockAllocator ----
(***************************************************************************)
(* memory_block_allocator with what runs above it: the allocations of      *)
(* caching_memory_allocator, the buffers that own the blocks               *)
(* (cuda_buffer) and the queues that use and record them.  Threads call    *)
(* it concurrently; m_mutex orders their calls, and the device finishes    *)
(* commands in between.  A thread takes one step per call that can block,  *)
(* fail, or be observed by another thread.                                 *)
(***************************************************************************)
EXTENDS DeferredRelease, HeapSizing

CONSTANTS
    Threads,
    NoThread,           \* what m_mutex holds while it is not locked
    RequestSizes,       \* sizes asked for, in bytes
    CallsMayThrow,      \* whether queries, waits, and host memory may fail
    DeferMayFail,       \* whether holding a block back may
    DestructorMayThrow  \* whether the waits of the destructor may

ASSUME ThreadsAssumption == NoThread \notin Threads
ASSUME RequestSizesAssumption == RequestSizes \subseteq 0..SizeRange - 1

VARIABLES
    m_mutex,    \* the thread that holds it
    pc,         \* what each thread is about to do
    frame,      \* the local variables of its call
    buffers,    \* cuda_buffer objects: their block and m_uses
    lost,       \* blocks that recycle could neither release nor hold back
    alive       \* whether the allocator was not destroyed yet

allocatorVars == <<m_mutex, pc, frame, buffers, lost, alive>>

NoBlock == <<>>

\* The locals of a thread that is in no call.
EmptyFrame ==
    [asked |-> 0, size |-> 0, timeline |-> NoTimeline, heap_size |-> 0, block |-> NoBlock,
     tokens |-> {}, trim_for |-> "none"]

AllocatorInit ==
    /\ DeviceInit /\ PoolInit /\ DeferredInit
    /\ m_mutex = NoThread
    /\ pc = [th \in Threads |-> "idle"]
    /\ frame = [th \in Threads |-> EmptyFrame]
    /\ buffers = {}
    /\ lost = {}
    /\ alive = TRUE

----------------------------------------------------------------------------
(* The moves of a thread.                                                  *)

Goto(th, from, to) == pc[th] = from /\ pc' = [pc EXCEPT ![th] = to]

\* A slip: the lock is taken whoever has it.
LockUnchecked(th) == m_mutex' = th

Lock(th) == m_mutex = NoThread /\ m_mutex' = th

Unlock == m_mutex' = NoThread

\* A call starts with these locals; a call that ends leaves none behind.
Begin(th, to, locals) == Goto(th, "idle", to) /\ frame' = [frame EXCEPT ![th] = locals]

Return(th) ==
    /\ pc' = [pc EXCEPT ![th] = "idle"]
    /\ frame' = [frame EXCEPT ![th] = EmptyFrame]

Keep(th, locals) == frame' = [frame EXCEPT ![th] = locals]

BlockOf(th) == PositionOf(frame[th].block)

ownersVars == <<buffers, lost, alive>>

----------------------------------------------------------------------------
(* allocate                                                                *)

StartAllocate(th) ==
    /\ alive
    /\ \E asked \in RequestSizes, timeline \in Timelines \cup {NoTimeline} :
          Begin(th, "lock_allocate",
                [EmptyFrame EXCEPT !.asked = asked, !.size = RequestSize(asked),
                     !.timeline = timeline])
    /\ UNCHANGED <<m_mutex, ownersVars, deferredVars, poolVars, deviceVars>>

LockAllocate(th) ==
    /\ Goto(th, "lock_allocate", "process")
    /\ Lock(th)
    /\ StartProcess
    /\ UNCHANGED <<frame, ownersVars, poolVars, deviceVars>>

Process(th) ==
    /\ pc[th] = "process"
    /\ \/ DropCompleteTokens /\ UNCHANGED <<pc, poolVars>>
       \/ ReleaseReady /\ UNCHANGED pc
       \/ EndProcess /\ Goto(th, "process", "search")
    /\ UNCHANGED <<m_mutex, frame, ownersVars, deviceVars>>

\* Either a free block that fits, or the driver has to be asked.
TakeOrGrow(th, candidates) ==
    IF candidates # {}
    THEN /\ pc' = [pc EXCEPT ![th] = "cut"]
         /\ \E i \in candidates : Keep(th, [frame[th] EXCEPT !.block = AddressOf(m_blocks[i])])
    ELSE /\ pc' = [pc EXCEPT ![th] = "grow"]
         /\ Keep(th, [frame[th] EXCEPT !.heap_size = GetHeapSize(frame[th].size, m_size)])

Search(th) ==
    /\ pc[th] = "search"
    /\ LET suitable == FindSuitableBlock(frame[th].size, frame[th].timeline)
       IN  TakeOrGrow(th, IF suitable # {} THEN suitable
                          ELSE FindForeignBlock(frame[th].size, frame[th].timeline))
    /\ UNCHANGED <<m_mutex, ownersVars, deferredVars, poolVars, deviceVars>>

\* After trimming, what carried a token of any timeline carries none.
SearchAgain(th) ==
    /\ pc[th] = "search_again"
    /\ TakeOrGrow(th, FindSuitableBlock(frame[th].size, frame[th].timeline))
    /\ UNCHANGED <<m_mutex, ownersVars, deferredVars, poolVars, deviceVars>>

\* grow: the driver hands over a heap ...
Grow(th) ==
    /\ Goto(th, "grow", "cut")
    /\ \E heap \in Heaps :
          /\ m_heaps[heap] = 0
          /\ RegisterHeap(heap, frame[th].heap_size)
          /\ Keep(th, [frame[th] EXCEPT !.block = <<heap, 0>>, !.heap_size = 0])
    /\ UNCHANGED <<m_mutex, ownersVars, deferredVars, deviceVars>>

\* ... or refuses, and is asked for half of it.
Halve(th) ==
    /\ pc[th] = "grow"
    /\ frame[th].heap_size > frame[th].size
    /\ Keep(th, [frame[th] EXCEPT !.heap_size = HalvedHeapSize(@, frame[th].size)])
    /\ UNCHANGED <<m_mutex, pc, ownersVars, deferredVars, poolVars, deviceVars>>

\* A slip: what is held back is not drained before the pool is trimmed.
TrimPoolToRetry(th) ==
    /\ Goto(th, "grow", "wait_pending")
    /\ frame[th].heap_size <= frame[th].size
    /\ frame[th].trim_for = "none"
    /\ Keep(th, [frame[th] EXCEPT !.heap_size = 0, !.trim_for = "allocate"])
    /\ UNCHANGED <<m_mutex, ownersVars, deferredVars, poolVars, deviceVars>>

\* Refused even that much, the first time: what is not used is given back.
TrimToRetry(th) ==
    /\ Goto(th, "grow", "wait_all")
    /\ frame[th].heap_size <= frame[th].size
    /\ frame[th].trim_for = "none"
    /\ Keep(th, [frame[th] EXCEPT !.heap_size = 0, !.trim_for = "allocate"])
    /\ UNCHANGED <<m_mutex, ownersVars, deferredVars, poolVars, deviceVars>>

\* Refused again: std::bad_alloc leaves allocate.
ThrowBadAlloc(th) ==
    /\ pc[th] = "grow"
    /\ frame[th].heap_size <= frame[th].size
    /\ frame[th].trim_for = "allocate"
    /\ Return(th)
    /\ Unlock
    /\ UNCHANGED <<ownersVars, deferredVars, poolVars, deviceVars>>

\* Whatever the request did not ask for stays in the pool.
Cut(th) ==
    /\ Goto(th, "cut", "acquire")
    /\ LET i == BlockOf(th)
       IN  IF m_blocks[i].size > frame[th].size
           THEN PartitionBlock(i, frame[th].size)
           ELSE UNCHANGED poolVars
    /\ UNCHANGED <<m_mutex, frame, ownersVars, deferredVars, deviceVars>>

AcquireBlock(th) ==
    /\ Goto(th, "acquire", "settle")
    /\ Acquire(BlockOf(th))
    /\ Unlock
    /\ Keep(th, [EmptyFrame EXCEPT !.asked = frame[th].asked, !.block = frame[th].block])
    /\ UNCHANGED <<ownersVars, deferredVars, deviceVars>>

----------------------------------------------------------------------------
(* allocate_for_timeline, once it has its block, without the lock.         *)

AskPending(th) ==
    /\ Goto(th, "settle", IF IsComplete(m_blocks[BlockOf(th)].pending)
                          THEN "set_pending" ELSE "make_buffer")
    /\ UNCHANGED <<m_mutex, frame, ownersVars, deferredVars, poolVars, deviceVars>>

ForgetPending(th) ==
    /\ Goto(th, "set_pending", "make_buffer")
    /\ SetPending(BlockOf(th), NoToken)
    /\ UNCHANGED <<m_mutex, frame, ownersVars, deferredVars, deviceVars>>

\* A buffer that is never used still gives the block back with what it came with.
MakeBuffer(th) ==
    /\ pc[th] = "make_buffer"
    /\ LET pending == m_blocks[BlockOf(th)].pending
       IN  buffers' = buffers \cup
               {Held(frame[th].block, IF IsEmpty(pending) THEN {} ELSE {pending})}
    /\ Return(th)
    /\ UNCHANGED <<m_mutex, lost, alive, deferredVars, poolVars, deviceVars>>

\* A slip: the exception leaves without giving the block back.
SettleLeaks(th) ==
    /\ CallsMayThrow
    /\ pc[th] \in {"settle", "make_buffer"}
    /\ Return(th)
    /\ UNCHANGED <<m_mutex, ownersVars, deferredVars, poolVars, deviceVars>>

\* Asking failed, or there was no memory for the buffer.
SettleFails(th) ==
    /\ CallsMayThrow
    /\ pc[th] \in {"settle", "make_buffer"}
    /\ pc' = [pc EXCEPT ![th] = "lock_recycle"]
    /\ Keep(th, [EmptyFrame EXCEPT !.block = frame[th].block,
                     !.tokens = {m_blocks[BlockOf(th)].pending}])
    /\ UNCHANGED <<m_mutex, ownersVars, deferredVars, poolVars, deviceVars>>

----------------------------------------------------------------------------
(* A buffer in use: a queue submits a command and records it afterwards.   *)

Submit(th) ==
    /\ \E buffer \in buffers, timeline \in Timelines :
          /\ issued[timeline] < MaxCommands
          /\ Issue(timeline, {SpanOf(m_blocks[PositionOf(buffer.block)])})
          /\ Begin(th, "record_use",
                   [EmptyFrame EXCEPT !.block = buffer.block,
                        !.tokens = {[timeline |-> timeline, id |-> issued[timeline]]}])
    /\ UNCHANGED <<m_mutex, ownersVars, deferredVars, poolVars>>

\* A slip: the token recorded last is taken for the latest.
RecordedLast(uses, token) == {use \in uses : use.timeline # token.timeline} \cup {token}

\* One token per timeline, the latest: threads may record out of order.
Recorded(uses, token) ==
    IF \E use \in uses : use.timeline = token.timeline /\ use.id >= token.id
    THEN uses
    ELSE {use \in uses : use.timeline # token.timeline} \cup {token}

RecordUse(th) ==
    /\ pc[th] = "record_use"
    /\ buffers' = {IF buffer.block = frame[th].block
                   THEN [buffer EXCEPT !.tokens = Recorded(@, TokenOf(frame[th].tokens))]
                   ELSE buffer : buffer \in buffers}
    /\ Return(th)
    /\ UNCHANGED <<m_mutex, lost, alive, deferredVars, poolVars, deviceVars>>

\* The last reference to a buffer goes: nobody is submitting it any more.
DestroyBuffer(th) ==
    /\ \E buffer \in buffers :
          /\ \A other \in Threads :
                pc[other] = "record_use" => frame[other].block # buffer.block
          /\ buffers' = buffers \ {buffer}
          /\ Begin(th, "lock_recycle",
                   [EmptyFrame EXCEPT !.block = buffer.block, !.tokens = buffer.tokens])
    /\ UNCHANGED <<m_mutex, lost, alive, deferredVars, poolVars, deviceVars>>

----------------------------------------------------------------------------
(* recycle                                                                 *)

LockRecycle(th) ==
    /\ Goto(th, "lock_recycle", "recycle")
    /\ Lock(th)
    /\ UNCHANGED <<frame, ownersVars, deferredVars, poolVars, deviceVars>>

RecycleReleases(th) ==
    /\ pc[th] = "recycle"
    /\ Cardinality(frame[th].tokens) < 2
    /\ Release(BlockOf(th), TokenOf(frame[th].tokens))
    /\ Return(th)
    /\ Unlock
    /\ UNCHANGED <<ownersVars, deferredVars, deviceVars>>

RecycleDefers(th) ==
    /\ pc[th] = "recycle"
    /\ Cardinality(frame[th].tokens) >= 2
    /\ Defer(frame[th].block, frame[th].tokens)
    /\ Return(th)
    /\ Unlock
    /\ UNCHANGED <<ownersVars, poolVars, deviceVars>>

RecycleLoses(th) ==
    /\ DeferMayFail
    /\ pc[th] = "recycle"
    /\ Cardinality(frame[th].tokens) >= 2
    /\ lost' = lost \cup {Held(frame[th].block, frame[th].tokens)}
    /\ Return(th)
    /\ Unlock
    /\ UNCHANGED <<buffers, alive, deferredVars, poolVars, deviceVars>>

----------------------------------------------------------------------------
(* trim, and the destructor, which trims without the lock.                 *)

StartTrim(th) ==
    /\ alive
    /\ Begin(th, "lock_trim", [EmptyFrame EXCEPT !.trim_for = "trim"])
    /\ UNCHANGED <<m_mutex, ownersVars, deferredVars, poolVars, deviceVars>>

LockTrim(th) ==
    /\ Goto(th, "lock_trim", "wait_all")
    /\ Lock(th)
    /\ UNCHANGED <<frame, ownersVars, deferredVars, poolVars, deviceVars>>

\* The buffers and the users of the allocator share it: it goes after them.
StartDestroy(th) ==
    /\ alive
    /\ buffers = {}
    /\ \A other \in Threads : pc[other] = "idle"
    /\ alive' = FALSE
    /\ Begin(th, "wait_all", [EmptyFrame EXCEPT !.trim_for = "destructor"])
    /\ UNCHANGED <<m_mutex, buffers, lost, deferredVars, poolVars, deviceVars>>

WaitAll(th) ==
    /\ pc[th] = "wait_all"
    /\ \/ WaitOldest /\ UNCHANGED pc
       \/ /\ NothingHeldBack
          /\ Goto(th, "wait_all", "wait_pending")
          /\ UNCHANGED <<deferredVars, poolVars>>
    /\ UNCHANGED <<m_mutex, frame, ownersVars, deviceVars>>

\* A slip: the tokens are listed but not waited for.
WaitForNothing(th) ==
    /\ Goto(th, "wait_pending", "reset_pending")
    /\ ResetPending
    /\ UNCHANGED <<m_mutex, frame, ownersVars, deferredVars, deviceVars>>

\* Every token the pool lists was waited for.
WaitPending(th) ==
    /\ Goto(th, "wait_pending", "reset_pending")
    /\ \A token \in EnumeratePending : IsComplete(token)
    /\ ResetPending
    /\ UNCHANGED <<m_mutex, frame, ownersVars, deferredVars, deviceVars>>

Reset(th) ==
    /\ pc[th] = "reset_pending"
    /\ \/ (AbsorbNext \/ StepOver) /\ UNCHANGED pc
       \/ EndReset /\ Goto(th, "reset_pending", "give_back")
    /\ UNCHANGED <<m_mutex, frame, ownersVars, deferredVars, deviceVars>>

StartGiveBack(th) ==
    /\ Goto(th, "give_back", "giving_back")
    /\ ReleaseUnusedHeaps
    /\ UNCHANGED <<m_mutex, frame, ownersVars, deferredVars, deviceVars>>

GiveBack(th) ==
    /\ pc[th] = "giving_back"
    /\ \E i \in Positions : ReleaseUnusedHeap(i)
    /\ UNCHANGED <<m_mutex, pc, frame, ownersVars, deferredVars, deviceVars>>

EndTrim(th) ==
    /\ pc[th] = "giving_back"
    /\ EndReleaseUnusedHeaps
    /\ \/ /\ frame[th].trim_for = "trim" /\ Return(th) /\ Unlock
       \/ /\ frame[th].trim_for = "allocate"
          /\ Goto(th, "giving_back", "search_again")
          /\ UNCHANGED <<m_mutex, frame>>
       \/ /\ frame[th].trim_for = "destructor"
          /\ Goto(th, "giving_back", "destroy_pool")
          /\ UNCHANGED <<m_mutex, frame>>
    /\ UNCHANGED <<ownersVars, deferredVars, deviceVars>>

\* The members go: the list of what is held back, then the pool and its heaps.
DestroyAllocator(th) ==
    /\ pc[th] = "destroy_pool"
    /\ DestroyPool
    /\ m_pending' = <<>>
    /\ lost' = {}
    /\ Return(th)
    /\ UNCHANGED <<m_mutex, item, buffers, alive, deviceVars>>

----------------------------------------------------------------------------
(* A query, a wait or an allocation of host memory throws: the lock is     *)
(* released on the way out, and nothing else is undone.                    *)

MayThrowAt(th) ==
    \/ pc[th] = "process" /\ item \in 1..Len(m_pending)
    \/ pc[th] = "wait_all" /\ m_pending # <<>>
    \/ pc[th] = "wait_pending"
    \/ pc[th] = "grow"
    \/ pc[th] = "cut" /\ m_blocks[BlockOf(th)].size > frame[th].size

CallThrows(th) ==
    /\ CallsMayThrow
    /\ MayThrowAt(th)
    /\ frame[th].trim_for # "destructor"
    /\ item' = 0
    /\ Return(th)
    /\ Unlock
    /\ UNCHANGED <<m_pending, ownersVars, poolVars, deviceVars>>

\* The destructor catches it, and goes on to destroy the pool.
DestructorThrows(th) ==
    /\ DestructorMayThrow
    /\ MayThrowAt(th)
    /\ frame[th].trim_for = "destructor"
    /\ pc' = [pc EXCEPT ![th] = "destroy_pool"]
    /\ UNCHANGED <<m_mutex, frame, ownersVars, deferredVars, poolVars, deviceVars>>

----------------------------------------------------------------------------
\* What a thread does of its own accord, and what it goes on to do.
Starts(th) ==
    \/ StartAllocate(th) \/ Submit(th) \/ DestroyBuffer(th) \/ StartTrim(th) \/ StartDestroy(th)

Locks(th) == LockAllocate(th) \/ LockRecycle(th) \/ LockTrim(th)

Continues(th) ==
    \/ Process(th) \/ Search(th) \/ SearchAgain(th)
    \/ Grow(th) \/ Halve(th) \/ TrimToRetry(th) \/ ThrowBadAlloc(th)
    \/ Cut(th) \/ AcquireBlock(th)
    \/ AskPending(th) \/ ForgetPending(th) \/ MakeBuffer(th) \/ SettleFails(th)
    \/ RecordUse(th)
    \/ RecycleReleases(th) \/ RecycleDefers(th) \/ RecycleLoses(th)
    \/ WaitAll(th) \/ WaitPending(th) \/ Reset(th)
    \/ StartGiveBack(th) \/ GiveBack(th) \/ EndTrim(th)
    \/ DestroyAllocator(th)
    \/ CallThrows(th) \/ DestructorThrows(th)

DeviceStep(timeline) ==
    /\ Finish(timeline)
    /\ UNCHANGED <<allocatorVars, deferredVars, poolVars>>

allVars == <<allocatorVars, deferredVars, poolVars, deviceVars>>

\* Nothing is left to do once the allocator is gone and the device is done.
Terminated ==
    /\ ~alive
    /\ \A th \in Threads : pc[th] = "idle"
    /\ UNCHANGED allVars

AllocatorNext ==
    \/ \E th \in Threads : Starts(th) \/ Locks(th) \/ Continues(th)
    \/ \E timeline \in Timelines : DeviceStep(timeline)
    \/ Terminated

AllocatorSpec == AllocatorInit /\ [][AllocatorNext]_allVars
\* A thread that runs goes on running, and the device works through its queues.
\* Nothing is assumed of the mutex: std::mutex is not fair.
AllocatorFairSpec ==
    /\ AllocatorSpec
    /\ \A th \in Threads : WF_allVars(Continues(th))
    /\ \A timeline \in Timelines : WF_allVars(DeviceStep(timeline))

----------------------------------------------------------------------------
(* What the allocator promises.                                            *)

HoldsFresh(th) == pc[th] \in {"settle", "set_pending", "make_buffer"}
HoldsRecycled(th) == pc[th] \in {"lock_recycle", "recycle"}

\* The state is made of what the code can hold.
AllocatorTypeOK ==
    /\ PoolTypeOK
    /\ item \in 0..Len(m_pending) + 1
    /\ \A k \in 1..Len(m_pending) : m_pending[k] \in [block : Addresses, tokens : SUBSET Tokens]
    /\ m_mutex \in Threads \cup {NoThread}
    /\ frame \in [Threads ->
           [asked : Nat, size : Nat, timeline : Timelines \cup {NoTimeline}, heap_size : Nat,
            block : Addresses \cup {NoBlock}, tokens : SUBSET (Tokens \cup {NoToken}),
            trim_for : {"none", "allocate", "trim", "destructor"}]]
    /\ buffers \cup lost \subseteq [block : Addresses, tokens : SUBSET Tokens]
    /\ \A th \in Threads :
          pc[th] \in {"process", "search", "search_again", "grow", "cut", "acquire", "recycle"}
          => m_mutex = th

\* The owners of a block: a buffer, the list of what is held back, the log
\* entry of a lost one, or the thread in whose hands it is.
OwnerCount(address) ==
      Cardinality({buffer \in buffers : buffer.block = address})
    + Cardinality({k \in 1..Len(m_pending) : m_pending[k].block = address})
    + Cardinality({held \in lost : held.block = address})
    + Cardinality({th \in Threads : /\ HoldsFresh(th) \/ HoldsRecycled(th)
                                    /\ frame[th].block = address})

\* A block that is handed out has one owner, which will give it back, and a
\* free one has none: no error path leaks a block or gives one back twice
\* (allocate_for_timeline's catch, process, wait_all, recycle).
BlocksHaveOneOwner ==
    \A i \in Positions : OwnerCount(AddressOf(m_blocks[i])) = IF m_blocks[i].free THEN 0 ELSE 1

\* Whoever owns a block has a token for every unfinished command that uses its
\* memory: its uses (cuda_buffer::record_use), those about to be recorded,
\* and those of the block's earlier lives, which the token it came with covers.
OwnersCoverUses ==
    \A i \in Positions :
        LET block == m_blocks[i]
            kept == UNION {held.tokens : held \in
                        {h \in buffers \cup lost \cup ToSet(m_pending) :
                            h.block = AddressOf(block)}}
            inHand == UNION {IF HoldsFresh(th) THEN {block.pending} ELSE frame[th].tokens :
                        th \in {t \in Threads :
                            /\ HoldsFresh(t) \/ HoldsRecycled(t) \/ pc[t] = "record_use"
                            /\ frame[t].block = AddressOf(block)}}
        IN  ~block.free => AllUsesCovered(kept \cup inHand, SpanOf(block))

\* Outside of the lock, no two free neighbours that one token could speak for
\* are left apart (release, reset_pending), even after a call that threw.
FreeBlocksMerged ==
    m_mutex = NoThread /\ alive =>
        \A i \in 1..Len(m_blocks) - 1 :
            /\ m_blocks[i].free
            /\ m_blocks[i + 1].free
            /\ m_blocks[i].heap = m_blocks[i + 1].heap
            => m_blocks[i].pending.timeline # m_blocks[i + 1].pending.timeline

\* By the time allocate asks the driver once more, nothing is held back, no
\* free block would do, and every heap that is kept has a block in use.
MemoryIsExhausted(th) ==
    /\ m_pending = <<>>
    /\ \A i \in Positions : m_blocks[i].free => m_blocks[i].size < frame[th].size
    /\ \A heap \in Heaps : m_heaps[heap] > 0 =>
          \E i \in Positions : m_blocks[i].heap = heap /\ ~m_blocks[i].free

\* When the driver refuses a heap, its std::bad_alloc only leaves allocate once
\* there was nothing left to reuse or to give back (acquire_block's catch,
\* trim_locked).  A host allocation that fails in between is not about memory of
\* the device, and leaves at once.
OutOfMemoryIsReal ==
    \A th \in Threads :
        pc[th] = "grow" /\ frame[th].trim_for = "allocate" => MemoryIsExhausted(th)

\* A block that is handed out is aligned and holds what was asked for, and the
\* remainder that is cut off is never negative: every rounding, every search
\* and every halved heap keeps to the request (allocate, grow, get_heap_size,
\* find_in_timeline).
BlockHoldsRequest ==
    \A th \in Threads :
        /\ pc[th] = "grow" => frame[th].heap_size >= frame[th].size
        /\ pc[th] = "cut" => m_blocks[BlockOf(th)].size >= frame[th].size
        /\ HoldsFresh(th) =>
              /\ m_blocks[BlockOf(th)].size >= frame[th].asked
              /\ m_blocks[BlockOf(th)].offset % MaxAlignment = 0

\* "Thread safe": a thread that gives a block back reads the tokens of its
\* neighbours, under the lock (is_mergeable), and no thread is about to write
\* one of them without it (allocate_for_timeline's set_pending).
ReadsTokenOf(th, i) ==
    /\ pc[th] = "recycle"
    /\ Cardinality(frame[th].tokens) < 2
    /\ i \in {BlockOf(th) - 1, BlockOf(th) + 1}
    /\ m_blocks[i].heap = m_blocks[BlockOf(th)].heap

NoUnsynchronisedTokenAccess ==
    \A reader, writer \in Threads :
        pc[writer] = "set_pending" => ~ReadsTokenOf(reader, BlockOf(writer))

\* "Allocations of at least this size get a heap of their own, sized exactly to
\* the request.  They are never split" (config.hpp, of LARGE_ALLOCATION_BYTES).
LargeAllocationsOwnTheirHeap ==
    \A buffer \in buffers :
        LET block == m_blocks[PositionOf(buffer.block)]
        IN  block.size >= LargeAllocation => block.size = m_heaps[block.heap]

HasPool(th) == m_mutex = th \/ frame[th].trim_for = "destructor"

\* Whoever has the pool to itself lets go of it: halving ends, the loops of
\* process, reset_pending and release_unused_heaps end, and trim_locked, which
\* waits with the lock held, only waits for commands the device will finish.
PoolIsLetGo == \A th \in Threads : HasPool(th) ~> ~HasPool(th)
====
