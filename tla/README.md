# Specifications of rexlib-cuda

rexlib-cuda is the CUDA backend of rexlib: it allocates device and pinned host
memory, submits programs to CUDA streams, and hands out *command tokens* that
say when a submitted command has finished. Memory is reused before the commands
that used it have finished, as long as whoever gets it waits for the right
token. That is what makes the backend fast and what makes it delicate, and it
is what these specifications are about: **no memory is reused, or given back to
the driver, under a command that still uses it, and no wait is for the wrong
command or for ever.**

The specifications are TLA+ modules. TLC checks them on small instances, and
TLAPS proves the most important of their properties for every instance. `PROJECT.json`
lists the runs, the theorems, the hazards each property is for, and, for every
definition, the lines it was translated from. Paths below are relative to
`src/src/hardware/` of the repository, `CA/` standing for `caching_allocator/`.

## 1. The system

| component | state | operations | called by |
|---|---|---|---|
| `CA/memory_block_pool` | list of blocks (heap, offset, size, token, free or not), set of free ones by (timeline, size), heaps, total size | `register_heap`, `partition_block`, `acquire`, `release`, `find_*`, `enumerate_pending`, `reset_pending`, `release_unused_heaps`, destructor | the allocator, under its lock |
| `CA/deferred_release` | blocks held back, each with the tokens it waits for | `defer`, `process`, `wait_all` | the allocator, under its lock |
| `CA/memory_block_allocator` | the two above, `m_mutex`, the source of heaps | `allocate`, `recycle`, `trim`, destructor | any thread |
| `CA/caching_memory_allocator` | none of its own | `allocate`, `allocate_for_timeline`, `trim` | any thread |
| `CA/cuda_buffer` | its block, `m_uses` (a token per timeline), a mutex | `record_use`, destructor | any thread, queues |
| `stream_timeline` | `m_points`, `m_first_id`, `m_waiter_count`, a mutex | `record`, `wait`, `is_complete`, `enqueue_wait`, destructor | queues, and whoever holds a token |
| `pooled_event_recorder` | every event, the available ones, a mutex | `record`, `release`, `is_complete`, `wait`, `enqueue_wait` | the timelines of one device |
| `cuda_command_queue` | a stream and its timeline | `submit` (`wait_for`, launch, `track`), `synchronize` | any thread |
| `CA/memory_heap`, `CA/*_memory_source` | one driver allocation each, and where in it the heap starts | take it, give it back | the allocator, the pool |
| `cuda_device`, `*_memory_resource`, `cuda_device_backend` | an ordinal, a recorder, perhaps a resource; the kind of the one pinned resource | `create_device`, `create_command_queue`, `get_memory_resource`, `create_allocator` | the host program, any thread |
| `device_guard` | the device a thread had selected | constructor, destructor | whatever creates streams, events and device memory |
| errors, plugin, logging, configuration | nothing that changes | | |

How they meet:

- A **queue** makes its stream wait for the points of a command's dependencies,
  launches the work, has its **timeline** capture a point of the stream through
  the **recorder**, and records the resulting token in every **buffer** the
  command uses.
- A **buffer** that dies gives its **block** to the **allocator** with the
  tokens of its uses. A block can carry one token. With more it goes to
  **deferred_release** until at most one command still runs.
- The **pool** merges a free block with its neighbours in address order when
  one token can speak for both: they belong to one timeline, and the later
  command is kept. `trim` waits for everything, empties every token, merges
  what is left and returns idle heaps to the driver.
- A **device** hands out queues and memory resources. Streams, events and device memory
  belong to whichever device the calling thread has selected, so each of
  them is created under a **guard**.
- A **new buffer** comes with the token its block carries, which its user has
  to wait for unless it submits to the queue that the token is of.

What is hard:

- *Concurrency.* Four kinds of locks (the allocator's, the buffer's, the
  timeline's, and the recorder's inside that one), and the steps that matter are
  taken between them: a point is waited for without any lock, work is launched before it
  is recorded, and the token of a new block is settled after the lock was let go.
- *Failure.* Nearly every CUDA call and every host allocation may throw, half
  way through `process`, `wait_all`, `record`, `track` or `allocate_for_timeline`.
  Destructors swallow exceptions.
- *Ordering.* Two threads may record uses of one timeline out of order. Ids are
  answered by position in a queue whose front moves. Streams wait for each other.
- *Numbers.* Sizes and addresses are rounded up to alignments, halved and doubled, and
  ids become ints, in types that wrap.
- *Long sequences.* The list of blocks has to survive any mix of cuts, merges
  in both directions, and heaps that come and go.

What makes each component correct:

- pool: blocks tile their heaps; the one token of a free block stands for every
  unfinished command that uses any of its memory; a heap goes back only idle.
- deferred release and allocator: a block has exactly one owner, which knows
  every command that still uses it, whatever throws; out of memory is reported
  only when it is true; whoever has the lock lets go of it.
- timeline and recorder: an id stands for its command, the event behind it is
  not captured again under somebody who waits; events are neither lost nor
  shared; every call answers as an atomic one would; waits end.
- queue: work starts after what it depends on; memory is kept until the work
  that uses it is over, also after a failure; every `submit` ends.
- device, guard, heaps and sources: everything is made on the device its owner names;
  threads are left on the device they had selected; heaps are aligned, inside
  regions of their own, each given back once; memory asked for as the device's can
  be reached by it.

## 2. Modules

```
CommandTokens <- MemoryBlockPool <- DeferredRelease <- MemoryBlockAllocator
CommandTokens <- LentMemory         (MemoryBlockPool INSTANCEs it)
HeapSizing    <- MemoryBlockAllocator, MemoryHeap
DeviceStreams <- CommandTimeline, PooledEventRecorder <- StreamTimeline
DeviceStreams <- CudaCommandQueue
DeviceGuard, MemoryHeap <- CudaDevice

MemoryBlockPool  <- MemoryBlockPoolProofs <- LentMemoryProofs
HeapSizing       <- HeapSizingProofs <- CudaDeviceProofs
LentMemoryProofs, HeapSizingProofs <- MemoryBlockAllocatorProofs <- MemoryBlockAllocatorCallsProofs
CudaCommandQueue <- CudaCommandQueueProofs
StreamTimeline   <- StreamTimelineProofs
```

`A <- B` says that B extends A. `MC*` modules add symmetry sets, and the bound on memory of
the pool's instance; nothing in them replaces a definition.

**`CommandTokens`** (external) is the device as the allocator sees it: how many
commands each timeline was given (`issued`) and has finished (`finished`), and
the memory that unfinished ones use (`running`). `running` is not state of the
program: it is what the properties are about.

**`MemoryBlockPool`** is `m_blocks` as a sequence of records in list order,
`m_heaps` as the size of the heap at each address (0: none), and `m_size`. The
set of free blocks is derived from `free` flags, since its order is only used
to search: `FindInTimeline` returns the set of best fits, any of which the code
may take. `register_heap`, `partition_block`, `acquire`, `release` (which
merges) and the destructor are one step each. The loops of `reset_pending` and
`release_unused_heaps` edit what they walk, so each iteration is a step
(`AbsorbNext`, `StepOver`, `EndReset`; `ReleaseUnusedHeap`,
`EndReleaseUnusedHeaps`). `PoolSpec` is the pool with *any* caller that keeps to
the preconditions its header documents, and the device at work: it is both what
is proved correct and what the allocator is shown to respect.

**`LentMemory`** is the abstract specification of the pool: memory is lent a span at
a time, with the one token to wait for. What is lent does not overlap or move, and
its heap stays. `LendsMemory` is the refinement: `m_heaps` and `m_size` are what is
held, and the blocks that are not free are what is lent. The cutting, merging and
resetting of the rest is a stutter.

**`DeferredRelease`** keeps the list of held-back blocks. `process` asks about
every entry, one entry per step because a query may throw in between, and only
then releases those with at most one token left. `wait_all` takes the entries
one by one.

**`HeapSizing`** is the arithmetic of the allocator in bytes, with a `std::size_t` that
wraps: `align_ceil`, the size of the next heap, and the halving after a refusal.

**`MemoryBlockAllocator`** puts the two under `m_mutex` and adds what runs above:
the second half of `allocate_for_timeline`, buffers with their recorded uses,
commands that use them, and the destructor. A thread has a program counter and
a `frame` of locals, and takes one step per call that can block, fail or be
seen by another thread. The blocks that `recycle` could neither release nor
hold back are in `lost`; they are what the log line there is about.

**`DeviceStreams`** (external) is the CUDA stream: items that run in order, each
after the points it was told to wait for. A point is a stream and how much of it
has to be done.

**`CommandTimeline`** is the abstract specification of the timelines. A call is
asked, takes effect in one step, and is answered; a `record` gives the next id, for
the work its stream had been given at some moment of the call. Ids never given
are refused, any call may throw. There are no events, locks, counts or dropped
points in it.

**`PooledEventRecorder`** is the recorder: `m_events` with what each captured,
`m_available`, and the room reserved in it (`m_room`), because `release` is
`noexcept` and pushes into a vector. A critical section of its mutex is one step.

**`StreamTimeline`** is the implementation: `record` in steps for locking,
dropping each reached point, acquiring an event, capturing, and keeping the
ticket; `wait` in three (look up, wait with no lock, count down), each of which
may throw. The caller-side variables are those of `CommandTimeline`, so the
refinement mapping is the identity on them and
`PROPERTY CommandTimelineSpec` is the refinement.

**`CudaCommandQueue`** is `submit`: a dependency is of the queue itself, of
another queue of this backend, of another backend, or empty; then launch, track, record
in each buffer, and the catch that synchronizes. Several threads submit to
several queues. Timelines are used here as `CommandTimeline` promises, which
`StreamTimeline` keeps: an id is given, and a point told to a stream, in one step.
A queue may be destroyed whenever no call is inside it. Its stream runs to its
end, and its tokens go on being waited for.

**`DeviceGuard`** is the device each thread has selected, and the one its open guard
will restore. `selected` is not in the program: it is where the thread's owner
last put it, or where a guard had to leave it, which is only reported.

**`MemoryHeap`** is the driver's regions and the heaps in them: a region is taken
anywhere its source's alignment allows, with the padding to align the heap's base, and is
given back by its own address.

**`CudaDevice`** puts the two together. Threads select devices as they like, open
handles by ids that are cast to `int`, make queues, events (whichever thread is the one whose
record finds the recorder empty) and heaps of either kind, and let them go. A call is
select, make, restore, each of which the runtime may refuse. The kind of
the pinned resource is asked for once, of devices that may not answer.

## 3. What is checked

Every run finishes: the instance is explored completely.

| run | what it asks | bounds |
|---|---|---|
| `pool` | `BlocksTileHeaps`, `FreeBlocksCovered`, `WalkedPartMerged`, `NoCommandOnReturnedMemory`, `LendsMemory`, types | up to 3 bytes of memory in one heap or two, 2 timelines, 2 commands each |
| `allocator_pool` | the allocator keeps to the pool's preconditions (`PoolSpec`); `FreeBlocksMerged`, `OutOfMemoryIsReal`, `BlockHoldsRequest` | 2 threads, 1 heap of up to 6 bytes at an alignment of 2, requests of 0 and 3 bytes, 2 timelines, 1 command each, calls may throw; the pool may be given a heap of any aligned size (`HeapsOfAnySize`) |
| `allocator_failures` | `BlocksHaveOneOwner`, `OwnersCoverUses`, `FreeBlocksCovered`, types | 2 threads, 1 heap of up to 2 bytes, 2 timelines of 2 commands, everything may throw, blocks may be lost, the destructor may give up waiting |
| `allocator_progress` | `PoolIsLetGo` | as above with 1 command each, no failures, no symmetry |
| `timeline_failures` | `CommandTimelineSpec`, `PointsStandForCommands`, `WaitersKeepTheirPoint`, `EventsHaveOneOwner`, `GivingBackNeverAllocates`, `WaiterCountIsWaiters`, types | 1 stream of 2 items, 3 threads, 2 commands, everything may throw |
| `timeline_progress` | `WaitsEnd`, `CommandTimelineSpec` | 2 streams of 1 item, 2 threads, 1 command each, nothing throws |
| `queue` | `WorkFollowsDependencies`, `WorkKeepsItsMemory`, `SubmitsEnd`, types | 2 queues, 2 threads, 1 buffer, 2 submissions of up to 2 dependencies, everything may throw, queues are destroyed |
| `device_objects` | `MadeWhereItBelongs`, `SelectionIsRestored`, `HeapsFitTheirRegions`, `RegionsHaveOneHeap`, `LocalMemoryIsReachable`, types | 2 threads, 2 handles, 2 devices, 2 heaps in 16 bytes of addresses, alignments of 2 and 4, ids 7 and 8 where an int has 8 values (they become -1 and 0), everything may fail |
| `token_race`, `large_allocation`, `oversized_request`, `lost_block` | see section 4 | |

What the important ones say:

- `FreeBlocksCovered`: waiting for the one token a free block carries is waiting
  for everything that uses its memory, through every merge and reset.
- `PoolSpec` of `allocator_pool`: every step of the allocator, of the buffers
  and of the threads is, for the pool, a call whose precondition holds, a step
  of a loop, or nothing. Memory is emptied of tokens only once its commands
  finished; a heap is freed only then. This also holds when calls throw. It does
  not hold once a block may be lost, which is the fourth finding below.
- `OwnersCoverUses`: whoever holds a block that is handed out (a buffer, the
  held-back list, a thread between two calls) has a token for every command that
  uses it, including those of the block's earlier lives.
- `CommandTimelineSpec`: the points that are dropped, the events that are
  captured again and the lock that is let go in the middle of a wait cannot be
  told from outside. `timeline_failures` has the drops and the failures, and
  `timeline_progress` has `enqueue_wait` between two timelines; all of it at once is
  in the theorem `TimelinesKeepTheirPromise`, as two timelines that drop points over one
  recorder are in `NoEventIsLostOrShared`.
- `EventsHaveOneOwner`: points that are reached are dropped, and their events captured again,
  perhaps by another thread; a ticket goes back when its capture, or keeping it, fails.
- `WorkKeepsItsMemory`: between the launch and the last `record_use`, and after
  a failure of launch or track, either the submitting call is still there, or every
  buffer knows the command, or the work is over. The synchronization in the catch
  is assumed to work (section 6).
- `OutOfMemoryIsReal`: about the driver's refusals. A host allocation that fails inside
  `allocate` leaves at once, with the same exception and whatever memory there is.
- `MadeWhereItBelongs`: also after a guard could not restore what it found. It compares with
  the ordinal of the handle, which need not be the id that was asked for (section 4). A handle of a
  negative ordinal makes nothing, because no guard can select it.
- `SelectionIsRestored`: what a guard could not restore is reported, and counts as the
  thread's selection from then on; that the calls after it do not rely on where the thread is
  is `MadeWhereItBelongs`.
- `LocalMemoryIsReachable`: the device's choice between its own and pinned memory, and
  the mapping of the latter, follow one answer that was kept.

**Bounds.** Three bytes of memory are the fewest for a block with a free
neighbour on each side, and two heaps the fewest for list neighbours that are not
memory neighbours; the list is edited only around one block at a time. Two
timelines are the fewest for tokens that cannot be merged, and two commands on
each for tokens of which one is later. Two threads race for each lock, and
three are used where one records, one waits and one waits or asks besides. Two
submissions make a dependency on each side; longer chains, with any number of
queues and threads, are what the theorems of section 5 add. Two heaps of 4 bytes
with padding fill the addresses of `device_objects`, so that they meet in every way.
`MaxCommands`, `MaxHeaps`,
`MaxStreamLength`, `MaxSubmits`, and the sets of heaps and sizes are bounds of the
models; the constraint `DriverHasRoom` bounds the memory of the pool's run (a
state beyond it is checked and not continued). The thresholds of `config.hpp`
are constants of a few bytes, and so is the range of `std::size_t`.

**Symmetry** is used for safety runs only, over identities the code never
compares by order: threads, heaps, timelines or streams, buffers. (The set of
free blocks orders timelines by address, but only to group them: the searches
are translated without that order.)

**Deadlock.** The pool's and the allocator's runs check it: the pool can always go
on, as can the devices, and the allocator's threads only stop once it is destroyed and the device idle
(`Terminated`). In the
timeline and queue runs, a bounded stream or number of commands runs out, so these
say `CHECK_DEADLOCK FALSE`; that calls end is what `WaitsEnd` and `SubmitsEnd`
are for.

**Fairness.** A thread inside a call goes on (the allocator's `Continues`, the
queue's `SubmitStep`), a wait whose point was reached returns (`WaitReturns`), and the device
runs what it can (`DeviceStep`, `RunStream`). The operating system and the CUDA runtime
give that. Nothing is assumed of who gets a mutex next, because
`std::mutex` promises nothing; liveness is therefore stated of whoever has the
lock (`PoolIsLetGo`) or is past it (`WaitsEnd`). For `SubmitsEnd` locks are not
in the model, and the other backend's command is assumed to finish.

## 4. What was found

1. **`token_race`** (code): `is_mergeable` compares the timelines of two
   neighbours before it asks whether the other one is free
   (`CA/memory_block_pool.cpp:444`). A thread that releases a block, under the lock,
   can thus read the token of a block that was just handed to a thread which is
   about to write it, without the lock (`CA/caching_memory_allocator.cpp:86`). The
   answer does not depend on what is read, but the token holds a `shared_ptr` and the
   race is undefined behaviour. In the other runs the comparison comes out either
   way without a difference, since the neighbour is not free.
2. **`large_allocation`** (documentation): `config.hpp:39` says large allocations get a
   heap of their own and are never split; `acquire_block` first looks for any free
   block that fits, and cuts it.
3. **`oversized_request`** (code): `allocate` rounds a request up to the alignment without
   asking whether the sum fits (`CA/memory_block_allocator.cpp:96`). Within 255 bytes of
   the largest `std::size_t` it wraps to 0, any free block will do, and a block of no
   bytes is handed out where the header promises the size or `std::bad_alloc`.
   `LargestRequestIsLost` proves it for every width.
4. **`lost_block`** (code): a block that `recycle` fails to hold back keeps no token, so
   the destructor waits for nothing and the pool frees its heap while a command may use it,
   which `CA/memory_block_allocator.cpp:45` says must not happen.

Read off the model, without a run of its own: `create_device` casts the id to an `int` and only then
compares it with the number of devices (`cuda_device_backend.cpp:132`; `ToInt`, `AcceptsId`). An
id whose `int` is negative opens a handle to no device, and one that no `int` holds may open another
device's, where the test at `tests/unitary/src/hardware/test_cuda_device_backend.cpp:95`
expects a refusal of the first id after the last device. The ids of `device_objects` are of these two kinds.

## 5. What is proved

Every theorem is about the specification the runs check, for every value of its
constants: any number of heaps, sizes, timelines, threads, queues, devices,
commands, and any width of the integers.

| module | theorem | property |
|---|---|---|
| `MemoryBlockPoolProofs` | `PoolTypeCorrect` | `PoolTypeOK` |
| | `PoolTilesItsHeaps` | `BlocksTileHeaps` |
| | `PoolTokensCover` | `FreeBlocksCovered` |
| | `PoolReturnsIdleHeaps` | `NoCommandOnReturnedMemory` |
| | `PoolWalkMerges` | `WalkedPartMerged` |
| `LentMemoryProofs` | `PoolLendsMemory` | `LendsMemory` (refinement) |
| `HeapSizingProofs` | `RequestIsHeld`, `LargestRequestIsLost`, `HeapHoldsRequest`, `HalvingEnds` | of the operators |
| `MemoryBlockAllocatorProofs` | `AllocatorInvariant` | the inductive invariant |
| | `AllocatorTypeCorrect` | `AllocatorTypeOK` |
| | `AllocatorBlocksOwned` | `BlocksHaveOneOwner` |
| | `AllocatorUsesCovered` | `OwnersCoverUses` |
| | `AllocatorFreeBlocksCovered` | `FreeBlocksCovered` |
| `MemoryBlockAllocatorCallsProofs` | `AllocatorBlocksMerged` | `FreeBlocksMerged` |
| | `AllocatorOutOfMemoryIsReal` | `OutOfMemoryIsReal` |
| | `AllocatorHoldsRequests` | `BlockHoldsRequest` |
| | `AllocatorCallsPoolRightly` | `PoolSpec` (refinement) |
| | `AllocatorLendsMemory` | `LendsMemory` (refinement) |
| | `AllocatorReturnsIdleHeaps` | `NoCommandOnReturnedMemory` |
| `CudaDeviceProofs` | `DeviceTypesHold` | `DeviceTypeOK` |
| | `EverythingIsMadeWhereItBelongs` | `MadeWhereItBelongs` |
| | `SelectionIsAlwaysRestored` | `SelectionIsRestored` |
| | `HeapsAlwaysFit` | `HeapsFitTheirRegions` |
| | `RegionsAlwaysHaveOneHeap` | `RegionsHaveOneHeap` |
| | `LocalMemoryIsAlwaysReachable` | `LocalMemoryIsReachable` |
| `CudaCommandQueueProofs` | `QueueTypesHold` | `QueueTypeOK` |
| | `WorkAlwaysFollowsDependencies` | `WorkFollowsDependencies` |
| | `WorkAlwaysKeepsItsMemory` | `WorkKeepsItsMemory` |
| `StreamTimelineProofs` | `TimelinesKeepTheirPromise` | `CommandTimelineSpec` (refinement) |
| | `StreamTimelineHasTypes` | `StreamTimelineTypeOK` |
| | `TimelinesStandForCommands` | `PointsStandForCommands` |
| | `WaitersAreKept` | `WaitersKeepTheirPoint` |
| | `WaitersAreCounted` | `WaiterCountIsWaiters` |
| | `NoEventIsLostOrShared` | `EventsHaveOneOwner` |
| | `EveryEventHasRoom` | `GivingBackNeverAllocates` |

### The pool

The assumptions are the named ones of the modules: an empty token's timeline is
not a timeline (`NoTimelineAssumption`), heaps have a positive size
(`HeapSizesAssumption`), and the bound on commands is a number
(`MaxCommandsAssumption`).

None of the properties is inductive alone. The invariant `IInv` is

- `PoolTypeOK`, and `ListOK`: the list is a sequence of blocks that *tiles* the
  heaps, every free block is *covered*, and tokens are of commands that were
  *issued* (or a later command could be taken for an earlier one);
- `NoCommandOnReturnedMemory`: every unfinished command uses memory of a heap
  that is there, so that a new heap at an old address is not in use;
- `EmptiedWhileResetting`: while `reset_pending` walks, no free block carries
  a token, which is why it may merge any free neighbours;
- `IdleWhileGivingBack`: while `release_unused_heaps` walks, what free blocks
  carry has finished, which with the cover makes the heap that goes idle.

`Tiles` is stated by neighbours (the next block of a heap starts where the last one ends,
the first at 0, the last at the heap's size, heaps in runs) rather than as a sum
over the list, so that it is kept by local arguments without induction. The
argument then goes operator by operator:

- `JoinKeepsTiles` and `JoinKeepsCovered`: one block for two neighbours;
  `LaterPendingCovers` says the later of two tokens of a timeline covers for both.
- `ReleaseKeepsList` follows through `ForwardsKeepsList` and
  `BackwardsKeepsList`, the merges in either direction.
- `PartitionKeepsTiles`, `RegisterKeepsTiles`, `ReleaseHeapKeepsTiles`: a cut, a
  new heap, a heap given back.
- `UnpartitionedIsWhole`: a block without list neighbours in its heap is all of it,
  which is why `is_partition` may decide that a heap goes.
- `ReportedAreEnough`: once the tokens `enumerate_pending` reports have
  finished, every free block's has. This uses that ids of naturals have a greatest
  below a bound (`LeastNumber`), where the code has `std::max_element`.
- one lemma per action (`...KeepsIInv`), and `NextKeepsIInv`, which puts them together.

`PoolLendsMemory` takes every action of the pool to a step of `LentMemory` or to a
stutter, from `IInv`: a partition or a merge does not touch what is lent, `acquire` lends what the tiling
keeps apart from every other loan, and a heap that goes has no loan in it.

`PoolWalkMerges` is a conjunct more, over `IInv`: while `reset_pending` walks, no pair of free
neighbours of one heap lies behind its iterator. A step over keeps that because the walk only moves
on when one of the two blocks is not free or they are of different heaps, and a merge with the next block does because
the block that was there is still the one looked at.

The allocator is a caller of the kind `PoolSpec` describes, for every instance
(`AllocatorCallsPoolRightly`), so that all of this is about it too.

### The allocator

The theorems assume `RequestsFit`: no request is within an alignment of the largest `std::size_t`.
`LargestRequestIsLost` shows that beyond it the request is lost, which is the third finding. Whatever
throws is left open: calls of the driver and of the recorder, the waits of the destructor, the
`defer` in `recycle` that loses a block. `AllocatorInv` is

- `ControlInv`: what a thread is doing, for which purpose it trims, who has `m_mutex`, and that the
  loops of the pool and of `process` run exactly while a thread is in them. A thread in the pool
  has the lock or is the destructor, beside which there is nobody (`OneInThePool`);
- `ListTypes` and `CommandsBounded`: the types of the lists, and no more commands than were bounded;
- as long as the allocator stands (`Standing`): `IInv` of the pool; `OwnersInv`; and
  `ThreadsKnow`, what a thread takes along from one step to the next: the request it looks for, the free
  block it has found, and that the token it is about to forget was complete;
- afterwards `EndInv`: nothing is left.

`OwnersInv` is the heart of it. A *claim* is one record for each place a block can be: a
buffer, the held-back list, the hands of a thread between two calls, or lost; a *note* is a command that was
submitted and whose use a buffer is about to be told. `Owned` says that claims and the blocks that
are not free correspond one to one, and that the tokens of a claim, with the
notes of its block and, while a block is new, the token it came with, cover every unfinished command
that uses it. Both properties are read off it (`ClaimedOnce`,
`TokensAreKept`). A step is shown to hand a claim over, to add one with a
block from the pool, to take one away with a block that goes back, or to
leave the claims alone.

Four invariants are shown over it:

- `MergedInv`: two free neighbours of one heap have tokens of different timelines (`Apart`), except where
  the walk of `reset_pending` has yet to come, or between the cut of a block and its acquisition
  (`Excused`). It gives `FreeBlocksMerged` when nobody is in the pool.
- `TrimmedInv`: what a trim has found out so far, step by step: nothing is held back any more, no token is
  left, every heap that stays has a block in use. What is left for
  `OutOfMemoryIsReal` is that with these the last search sees every free byte there is.
- `AlignedBlocks` with `SizedInv`: sizes and offsets are multiples of the alignment, and the block a
  thread has in its hands is as large as it was asked for.
- `RangeInv`, `NothingLost` and `QuietEnd`: a heap that is asked for has a size below the range of
  `std::size_t`; without failures of `defer` nothing is lost, and then nothing runs any more when
  the destructor destroys the pool.

`AllocatorCallsPoolRightly` maps each step to a call of the pool whose precondition holds, to an
iteration of one of its loops, to a step of the device, or to nothing. Its three other hypotheses are
conditions on the instance: the pool may be given heaps of any size
(`HeapsOfAnySize`; `PoolSpec` has a set of them, the code none), `defer` finds memory, and the
destructor's waits do not fail. Without `defer`'s memory it is false: that is the fourth finding.
`AllocatorLendsMemory` and `AllocatorReturnsIdleHeaps` follow from it and the pool's theorems.
The `allocator_pool` run is an instance of all the hypotheses.

### Sizes and heaps

`HeapSizingProofs` rests on `AlignCeilIsNext`: as long as the sum does not wrap, rounding up
gives the least multiple that is not smaller. The first part of `CudaDeviceProofs` builds on it: with the
padding, the aligned base leaves room for the heap in its region
(`PaddedHeapFits`), and heaps in disjoint regions are disjoint. It assumes that one
alignment divides the other and the range of `std::size_t`
(`AlignmentAssumption`, `BaseAlignmentAssumption`) and that no heap is as big as memory
(`HeapSizesAssumption`).

### Devices

`DeviceInv` relates the program counter of a thread to the device it is on: inside a call, after
its guard opened, it is on the device its call is for (`CallInv`), and the guard knows the way back
(`SelectionInv`). What was made carries the ordinal of the handle its recorder belongs to
(`MadeInv`, without which two handles of one recorder could differ), heaps come from sources whose
device is that of the region (`SourcesInv`), and the kind of pinned memory, once known,
is what the handles chose by (`KindInv`).

### The queue

`QueueInv` speaks of tokens, points and the order of a stream at once:

- `WorldInv`: streams run in order (`RanInOrder`: an item that has run had its points reached), and ids
  stand for growing lengths (`IdsGrow`), so that a later token covers an earlier one
  (`LaterTokenCovers`), which is why a buffer may keep one token per timeline;
- `CommandOK`: for each command that was launched, each dependency is either of the same queue and
  earlier in it, or has finished, or is waited for by an item of the stream before the work;
- `MemoryOK`: each command is over, or a thread is still submitting it, or every one of its buffers
  holds a token whose point is not before its work;
- `ThreadInv`: what a thread has already waited for, launched and recorded, by its program counter.

Each step is first shown to only add to streams, ids and commands (`Grows`) and uses
(`KeepsUses`), which every thread's part of the invariant survives (`Others`); what is left is the
part of the thread that moved, one lemma per action.

### The timelines

`TimelinesInv` is shown of every step, with every call of the recorder free to throw. Beside the
assumptions about locks and bounds it needs that there are finitely many threads
(`ThreadsAssumption`), since they are counted.

- `LockInv` and `CallInv` tie a program counter to the lock a thread holds and to the call it is in; a
  timeline is not destroyed inside a call.
- `OwnersInv` says of tickets what `EventsHaveOneOwner` says in one breath: none is twice in
  `m_available`, in the points or in hands (`GivenOnce`), none is in two of these
  (`HeldOnce`), and each is in one (`AllHeld`). `PointsGivenBack`, `TicketGivenBack`,
  `TicketTaken` and `PointKept` are the four ways a ticket moves.
- `PointsInv` is `PointsStandForCommands`, of the timelines that are left.
- `CaptureInv`: what a thread has captured, but not yet kept, is no less than any command before, nor
  than what the stream held when the call began. This is why ids stand for growing lengths, and why
  the id that `record` gives is one `CommandTimeline` may give (`LeastIsCaptured`).
- `WaitInv`: while a thread waits, no other thread is dropping points of that timeline, so that
  the ticket it looked up stays its command's (`WaiterHasItsPoint`). This needs `CountInv`, that
  the count is right, and the other way round a thread starts to drop only when the count says that
  nobody waits, and holds the lock that a new waiter needs.

`StepIsAllowed` then takes each step to one of `CommandTimeline`, with the identity as the
mapping: `record` takes effect when the point is kept, a wait when it is counted down, the others under the
lock.

### What is not proved

Every invariant and every refinement that a passing run checks is a theorem. `PoolIsLetGo`, `WaitsEnd` and
`SubmitsEnd` stay with TLC: liveness needs fairness, and ENABLED and WF are beyond the prover,
as is what a recursive definition computes for every input. No module uses RECURSIVE operators. The
refinements map steps; that the implementations are also fair as their abstract specifications
would like is not claimed, and those state no fairness.

## 6. What is not modelled

- *Arguments and casts*: what `allocate`, `submit` and the constructors refuse
  before they change anything.
- *Destruction of a recorder under its timelines*: the timelines own it together.
- *The failure of the synchronization in `submit`'s catch*: it is only logged, and
  the model assumes it works; `WorkKeepsItsMemory` and its theorem say nothing of a `submit` in which it
  fails. `cudaStreamSynchronize` fails when the context is lost, and the work with it.
- *`command_token`, `command`, the other backends, programs*: these are in rexlib core,
  which is a submodule; they are modelled from how the code here uses them.
- *Queries of the backend, names of devices, errors' texts, plugin, logging*: they change
  nothing, or are input and output. An error code is the failing action of the module whose
  call it is in.
- *The device a thread has selected when it launches*: `submit` opens no guard, unlike
  every other path to the runtime (`device_guard.hpp:14`). Whether a launch on a stream needs that
  is up to the program and to CUDA, which are not in this repository.
- *Guards under guards*: no path of the code opens one.
- *Growth of `m_points` while waits overlap*: the code lets it grow, and whether it
  stops depends on how callers overlap their waits.

## 7. Plan

1. Two heaps under the allocator with two threads, and two buffers per command in the queue's
   run, on instances TLC finishes.
2. The queue over `StreamTimeline` instead of `CommandTimeline`: `TimelinesKeepTheirPromise` says
   that the former may stand for the latter, and the queue's module relies on it without stating the
   composition.
3. Growth of `m_points` under overlapping waits, once the code says what it should be.
