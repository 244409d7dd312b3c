---- MODULE CudaDevice ----
(***************************************************************************)
(* The device backend: threads open handles to devices, and by them make   *)
(* queues, the events these record with, and heaps of device or of pinned  *)
(* memory.  What is made belongs to the device the thread selected, so     *)
(* every path selects its own (device_guard) and restores what was there.  *)
(***************************************************************************)
EXTENDS DeviceGuard, MemoryHeap, FiniteSets

CONSTANTS
    Handles,            \* cuda_device objects
    NoHandle,
    Host,               \* where pinned memory is
    Ids,                \* what create_device is asked for
    IntRange,           \* how many values int has
    MaxHeaps            \* bound: heaps at a time

ASSUME HandlesAssumption == NoHandle \notin Handles /\ Host \notin Int
ASSUME IdsAssumption ==
    /\ Ids \subseteq Nat
    /\ IntRange \in Nat /\ IntRange % 2 = 0 /\ IntRange > 2 * DeviceCount

VARIABLES
    integrated,     \* the devices that share the host's memory
    m_kind,         \* of the one pinned_memory_resource, "unknown" until it is built
    handle,         \* each handle: its ordinal, and whether it has memory of its own
    made,           \* the queues, and the events of each recorder, that were made
    pc, frame       \* what each thread is about to do, and its locals

deviceVars == <<guardVars, heapVars, integrated, m_kind, handle, made, pc, frame>>

NoFrame == [what |-> "nothing", by |-> NoHandle, ordinal |-> NoSelection, mapped |-> FALSE]

DeviceInit ==
    /\ GuardInit
    /\ MemoryInit
    /\ integrated \in SUBSET Ordinals
    /\ m_kind = "unknown"
    /\ handle = [h \in Handles |-> NoHandle]
    /\ made = {}
    /\ pc = [th \in Threads |-> "idle"]
    /\ frame = [th \in Threads |-> NoFrame]

Goto(th, from, to) == pc[th] = from /\ pc' = [pc EXCEPT ![th] = to]

IsOpen(h) == handle[h] # NoHandle

----------------------------------------------------------------------------
(* Handles.                                                                *)

\* static_cast<int>
ToInt(id) == ((id + IntRange \div 2) % IntRange) - IntRange \div 2

\* No more is asked of an id, so one that an int cannot hold may pass as well.
AcceptsId(id, count) == ToInt(id) < count

\* The devices that say what they are are asked in turn; one that does not, or
\* does not share the host's memory, settles it.
QueriedKind(answering) ==
    IF Ordinals # {} /\ Ordinals \subseteq answering \cap integrated
    THEN "unified" ELSE "host_staging"

\* A slip: every use of pinned memory asks again.
AskedAgain(answering) == QueriedKind(answering)

\* Asked for the first time, and then known for good.
AskedKind(answering) == IF m_kind = "unknown" THEN QueriedKind(answering) ELSE m_kind

RecorderIsFree(h) == ~IsOpen(h) /\ \A object \in made : object.recorder # h

CreateDevice(th) ==
    /\ pc[th] = "idle"
    /\ \E h \in Handles, id \in Ids, count \in {0, DeviceCount}, answering \in SUBSET Ordinals :
          /\ RecorderIsFree(h)
          /\ AcceptsId(id, count)
          /\ m_kind' = AskedKind(answering)
          /\ handle' = [handle EXCEPT
                            ![h] = [ordinal |-> ToInt(id), has_memory |-> m_kind' # "unified"]]
    /\ UNCHANGED <<guardVars, heapVars, integrated, made, pc, frame>>

\* The queues and the tokens share the recorder, and may keep it.
DestroyDevice(th) ==
    /\ pc[th] = "idle"
    /\ \E h \in Handles :
          /\ IsOpen(h) /\ \A other \in Threads : frame[other].by # h
          /\ handle' = [handle EXCEPT ![h] = NoHandle]
    /\ UNCHANGED <<guardVars, heapVars, integrated, m_kind, made, pc, frame>>

Queue(h, ordinal, device) ==
    [what |-> "queue", recorder |-> h, ordinal |-> ordinal, device |-> device]
Event(h, ordinal, device) ==
    [what |-> "event", recorder |-> h, ordinal |-> ordinal, device |-> device]

DestroyQueue(th) ==
    /\ pc[th] = "idle"
    /\ \E object \in made :
          /\ object.what = "queue" /\ \A other \in Threads : frame[other].by # object.recorder
          /\ made' = made \ {object}
    /\ UNCHANGED <<guardVars, heapVars, integrated, m_kind, handle, pc, frame>>

\* The last token of the last queue goes, and the recorder with it.
DestroyRecorder(h) ==
    /\ ~IsOpen(h) /\ \A object \in made : ~(object.recorder = h /\ object.what = "queue")
    /\ made' = {object \in made : object.recorder # h}
    /\ UNCHANGED <<guardVars, heapVars, integrated, m_kind, handle, pc, frame>>

----------------------------------------------------------------------------
(* What is made.                                                           *)

\* A slip: an event is made on whatever device is current.
IsGuardedQueue(what, ordinal) == what # "event" /\ ordinal # Host

\* Pinned memory is portable, and taken under any device.
IsGuarded(what, ordinal) == ordinal # Host

Call(th, what, h, ordinal, mapped) ==
    /\ pc[th] = "idle"
    /\ pc' = [pc EXCEPT ![th] = IF IsGuarded(what, ordinal) THEN "select" ELSE "make"]
    /\ frame' = [frame EXCEPT
            ![th] = [what |-> what, by |-> h, ordinal |-> ordinal, mapped |-> mapped]]
    /\ UNCHANGED <<guardVars, heapVars, integrated, m_kind, handle, made>>

CreateCommandQueue(th) ==
    \E h \in Handles : IsOpen(h) /\ Call(th, "queue", h, handle[h].ordinal, FALSE)

\* A queue records a command, and its recorder has no event left.
CreateEvent(th) ==
    \E object \in made :
        object.what = "queue" /\ Call(th, "event", object.recorder, object.ordinal, FALSE)

HasOwnMemory(h) == handle[h].has_memory

\* An allocator of memory with an affinity for the device takes a heap: from
\* the device, or from pinned memory where that is the same.
AllocateLocal(th) ==
    \E h \in Handles :
        /\ IsOpen(h)
        /\ IF HasOwnMemory(h)
           THEN Call(th, "local", h, handle[h].ordinal, FALSE)
           ELSE Call(th, "local", h, Host, m_kind = "unified")

AllocatePinned(th) ==
    \E h \in Handles : IsOpen(h) /\ Call(th, "pinned", h, Host, m_kind = "unified")

Select(th) ==
    /\ Goto(th, "select", "make")
    /\ OpenGuard(th, frame[th].ordinal)
    /\ UNCHANGED <<heapVars, integrated, m_kind, handle, made, frame>>

\* The guard's constructor throws.
SelectFails(th) ==
    /\ Goto(th, "select", "idle")
    /\ frame' = [frame EXCEPT ![th] = NoFrame]
    /\ UNCHANGED <<guardVars, heapVars, integrated, m_kind, handle, made>>

DeviceOf(th) == IF frame[th].ordinal = Host THEN Host ELSE current[th]

MakeObject(th) ==
    /\ Goto(th, "make", "restore")
    /\ \/ frame[th].what = "queue"
          /\ made' = made \cup {Queue(frame[th].by, frame[th].ordinal, current[th])}
       \/ frame[th].what = "event"
          /\ made' = made \cup {Event(frame[th].by, frame[th].ordinal, current[th])}
    /\ UNCHANGED <<guardVars, heapVars, integrated, m_kind, handle, frame>>

MakeHeap(th) ==
    /\ Goto(th, "make", "restore")
    /\ frame[th].what \in {"local", "pinned"} /\ Cardinality(heaps) < MaxHeaps
    /\ \E size \in HeapSizes :
          TakeHeap([by |-> frame[th].what, ordinal |-> frame[th].ordinal], size, DeviceOf(th),
                   frame[th].mapped)
    /\ UNCHANGED <<guardVars, integrated, m_kind, handle, made, frame>>

\* The runtime refuses, for want of memory or otherwise, and the call throws.
MakeFails(th) ==
    /\ Goto(th, "make", "restore")
    /\ UNCHANGED <<guardVars, heapVars, integrated, m_kind, handle, made, frame>>

\* The guard ends, with the call or with what it threw.
Restore(th) ==
    /\ Goto(th, "restore", "idle")
    /\ CloseGuard(th) \/ CloseGuardFails(th)
    /\ frame' = [frame EXCEPT ![th] = NoFrame]
    /\ UNCHANGED <<heapVars, integrated, m_kind, handle, made>>

\* A pool lets an idle heap go; no device has to be selected for that.
GiveHeapBack(th) ==
    /\ pc[th] = "idle"
    /\ \E heap \in heaps : GiveBack(heap)
    /\ UNCHANGED <<guardVars, integrated, m_kind, handle, made, pc, frame>>

----------------------------------------------------------------------------
OwnerSelects(th) ==
    /\ pc[th] = "idle" /\ SelectDevice(th)
    /\ UNCHANGED <<heapVars, integrated, m_kind, handle, made, pc, frame>>

DeviceNext ==
    \/ \E th \in Threads :
          \/ CreateDevice(th) \/ DestroyDevice(th) \/ DestroyQueue(th) \/ CreateCommandQueue(th)
          \/ CreateEvent(th) \/ AllocateLocal(th) \/ AllocatePinned(th) \/ Select(th)
          \/ SelectFails(th) \/ MakeObject(th) \/ MakeHeap(th) \/ MakeFails(th) \/ Restore(th)
          \/ GiveHeapBack(th) \/ OwnerSelects(th)
    \/ \E h \in Handles : DestroyRecorder(h)

DeviceSpec == DeviceInit /\ [][DeviceNext]_deviceVars

----------------------------------------------------------------------------
(* Properties.                                                             *)

Ints == -(IntRange \div 2)..IntRange \div 2 - 1

DeviceTypeOK ==
    /\ current \in [Threads -> Ordinals] /\ selected \in [Threads -> Ordinals]
    /\ m_previous \in [Threads -> Ordinals \cup {NoSelection}]
    /\ \A region \in regions : region.start \in 1..SizeRange - region.size
    /\ \A heap \in heaps : heap.m_data \in 1..SizeRange - 1 /\ heap.m_size \in HeapSizes
    /\ m_kind \in {"unknown", "host_staging", "unified"}
    /\ \A h \in Handles : IsOpen(h) =>
          handle[h].ordinal \in Ints /\ handle[h].has_memory \in BOOLEAN /\ m_kind # "unknown"
    /\ \A object \in made : object.recorder \in Handles /\ object.what \in {"queue", "event"}
    /\ \A th \in Threads :
          /\ pc[th] \in {"idle", "select", "make", "restore"}
          /\ HasSelection(th) => pc[th] \in {"make", "restore"}

RegionsOf(heap) == {region \in regions : region.start = heap.m_allocation}

\* Whatever was made is on the device that its owner's ordinal names, whichever
\* devices the threads had selected, or were left on by a guard that could not
\* restore them; so a recorder's events fit every queue that records with it
\* (event, cuda_command_queue and device_memory_source under device_guard).
MadeWhereItBelongs ==
    /\ \A object \in made : object.device = object.ordinal
    /\ \A a, b \in made : a.recorder = b.recorder => a.device = b.device
    /\ \A heap \in heaps : \A region \in RegionsOf(heap) : region.device = heap.m_source.ordinal

\* A call of the backend, failed or not, leaves its thread on the device it had
\* selected, unless the runtime refused just that; while it runs, the guard
\* knows the way back (device_guard).
SelectionIsRestored ==
    \A th \in Threads :
        /\ pc[th] \in {"idle", "select"} => current[th] = selected[th]
        /\ HasSelection(th) => m_previous[th] = selected[th]

\* Memory that was asked for as the device's is on the device, or pinned,
\* mapped, and of a machine all of whose devices share the host's memory,
\* however often the runtime could not say so
\* (cuda_device::cuda_device, pinned_memory_resource::create_allocator).
LocalMemoryIsReachable ==
    \A heap \in heaps : \A region \in RegionsOf(heap) :
        heap.m_source.by = "local" /\ region.device = Host =>
            region.mapped /\ integrated = Ordinals
====
