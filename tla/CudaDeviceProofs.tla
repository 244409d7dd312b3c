---- MODULE CudaDeviceProofs ----
(***************************************************************************)
(* For every number of threads, devices and handles, and every width of    *)
(* int: what is made is where it belongs, the threads are left where they  *)
(* were, heaps fit their regions, and local memory is reachable.           *)
(***************************************************************************)
EXTENDS CudaDevice, HeapSizingProofs

----------------------------------------------------------------------------
(* The padding.                                                            *)

LEMMA PaddingType == Padding \in Nat
  BY AlignmentAssumption, BaseAlignmentAssumption DEF Padding

LEMMA RegionSizeIsPadded ==
    ASSUME NEW size \in HeapSizes
    PROVE  /\ size \in Nat \ {0}
           /\ RegionSize(size) = size + Padding
<1>1. size \in Nat \ {0} /\ size + Padding < SizeRange /\ SizeRange \in Nat \ {0}
  BY HeapSizesAssumption, AlignmentAssumption
<1> QED
  BY <1>1, PaddingType, SmallRemainder DEF RegionSize

LEMMA OneStepIsMultiple ==
    ASSUME NEW m \in Nat \ {0}
    PROVE  IsMultiple(m, m)
<1>1. (m * 1) % m = 0
  BY Multiple
<1> QED
  BY <1>1 DEF IsMultiple

\* Of two powers of two the bigger is a multiple of the other.
LEMMA StricterIsMultiple ==
    ASSUME NEW a \in Nat \ {0}, NEW b \in Nat \ {0}, a % b = 0 \/ b % a = 0, b <= a
    PROVE  IsMultiple(a, b)
<1>1. CASE a = b
  BY <1>1, OneStepIsMultiple
<1>2. CASE b < a
  BY <1>2, SmallRemainder DEF IsMultiple
<1> QED
  BY <1>1, <1>2

\* A multiple below the next one after a is not above a.
LEMMA NotPast ==
    ASSUME NEW a \in Int, NEW c \in Int, NEW m \in Nat \ {0}, NEW step \in Int,
           IsMultiple(a, m), IsMultiple(step, m), IsMultiple(c, m), c < a + step
    PROVE  c + m <= a + step
  BY SumOfMultiples, NextMultiple

\* The padding is enough: wherever the source put the region, the next place
\* the heap may start at leaves room for all of it.
LEMMA PaddedHeapFits ==
    ASSUME NEW start \in Nat, NEW size \in Nat \ {0},
           start % BaseAlignment = 0, start + (size + Padding) <= SizeRange
    PROVE  /\ AlignCeil(start) \in Nat
           /\ AlignCeil(start) % MaxAlignment = 0
           /\ start <= AlignCeil(start)
           /\ AlignCeil(start) + size <= start + (size + Padding)
<1>1. /\ MaxAlignment \in Nat \ {0} /\ BaseAlignment \in Nat \ {0} /\ SizeRange \in Nat \ {0}
      /\ IsMultiple(SizeRange, MaxAlignment) /\ IsMultiple(SizeRange, BaseAlignment)
      /\ IsMultiple(start, BaseAlignment)
  BY AlignmentAssumption, BaseAlignmentAssumption DEF IsMultiple
<1>2. start + MaxAlignment <= SizeRange =>
          /\ AlignCeil(start) \in Nat /\ IsMultiple(AlignCeil(start), MaxAlignment)
          /\ start <= AlignCeil(start) /\ AlignCeil(start) < start + MaxAlignment
  BY <1>1, AlignCeilIsNext DEF IsMultiple
<1>3. CASE MaxAlignment > BaseAlignment
  <2>1. IsMultiple(MaxAlignment, BaseAlignment)
    BY <1>1, <1>3, StricterIsMultiple, BaseAlignmentAssumption
  <2>2. Padding = MaxAlignment - BaseAlignment
    BY <1>3 DEF Padding
  <2>3. start + MaxAlignment <= SizeRange
    <3> DEFINE less == MaxAlignment - BaseAlignment
               last == start + less
    <3>1. less \in Int /\ IsMultiple(less, BaseAlignment)
      BY <1>1, <2>1, OneStepIsMultiple, SumOfMultiples
    <3>2. last \in Int /\ IsMultiple(last, BaseAlignment) /\ last < SizeRange
      BY <1>1, <2>2, <3>1, SumOfMultiples
    <3> HIDE DEF last
    <3>3. last + BaseAlignment <= SizeRange
      BY <1>1, <3>2, NextMultiple
    <3> QED
      BY <1>1, <3>3 DEF last
  <2>4. IsMultiple(AlignCeil(start), BaseAlignment)
    BY <1>1, <1>2, <2>1, <2>3, MultipleOfMultiple
  <2>5. AlignCeil(start) + BaseAlignment <= start + MaxAlignment
    BY <1>1, <1>2, <2>1, <2>3, <2>4, NotPast
  <2> QED
    BY <1>1, <1>2, <2>2, <2>3, <2>5 DEF IsMultiple
<1>4. CASE ~(MaxAlignment > BaseAlignment)
  <2>1. IsMultiple(BaseAlignment, MaxAlignment)
    BY <1>1, <1>4, StricterIsMultiple, BaseAlignmentAssumption
  <2>2. Padding = 0
    BY <1>4 DEF Padding
  <2>3. IsMultiple(start, MaxAlignment)
    BY <1>1, <2>1, MultipleOfMultiple
  <2>4. start + MaxAlignment <= SizeRange
    BY <1>1, <2>2, <2>3, NextMultiple
  <2>5. AlignCeil(start) + MaxAlignment <= start + MaxAlignment
    BY <1>1, <1>2, <2>3, <2>4, OneStepIsMultiple, NotPast
  <2> QED
    BY <1>1, <1>2, <2>2, <2>4, <2>5 DEF IsMultiple
<1> QED
  BY <1>3, <1>4

----------------------------------------------------------------------------
(* Regions and heaps.                                                      *)

RegionOK(region) ==
    /\ region.start \in Nat \ {0} /\ region.size \in Nat \ {0}
    /\ region.start + region.size <= SizeRange
    /\ region.start % BaseAlignment = 0

\* The heap was taken as this region.
TakenAs(heap, region) ==
    /\ heap.m_size \in HeapSizes
    /\ region.start = heap.m_allocation
    /\ region.size = heap.m_size + Padding
    /\ heap.m_data = AlignCeil(region.start)

HeapsInv ==
    /\ \A region \in regions : RegionOK(region) /\ \E heap \in heaps : TakenAs(heap, region)
    /\ \A heap \in heaps : \E region \in regions : TakenAs(heap, region)
    /\ \A a, b \in regions : a = b \/ Disjoint(a, b)
    /\ \A a, b \in heaps : a.m_allocation = b.m_allocation => a = b

LEMMA SameStartSameRegion ==
    ASSUME HeapsInv, NEW a \in regions, NEW b \in regions, a.start = b.start
    PROVE  a = b
  BY DEF HeapsInv, RegionOK, Disjoint

LEMMA TakenHeapFits ==
    ASSUME NEW heap, NEW region, RegionOK(region), TakenAs(heap, region)
    PROVE  /\ heap.m_size \in Nat \ {0} /\ heap.m_data \in Nat
           /\ heap.m_data % MaxAlignment = 0 /\ FitsIn(heap, region)
<1>1. heap.m_size \in Nat \ {0}
  BY RegionSizeIsPadded DEF TakenAs
<1> QED
  BY <1>1, PaddedHeapFits DEF TakenAs, RegionOK, FitsIn

\* The two properties of the heaps follow from the invariant.
LEMMA HeapsInvImplies == HeapsInv => HeapsFitTheirRegions /\ RegionsHaveOneHeap
<1> SUFFICES ASSUME HeapsInv
             PROVE  HeapsFitTheirRegions /\ RegionsHaveOneHeap
  OBVIOUS
<1>1. ASSUME NEW heap \in heaps
      PROVE  /\ heap.m_data % MaxAlignment = 0
             /\ \E region \in regions : region.start = heap.m_allocation /\ FitsIn(heap, region)
  <2>1. PICK region \in regions : TakenAs(heap, region)
    BY DEF HeapsInv
  <2>2. RegionOK(region)
    BY DEF HeapsInv
  <2>3. heap.m_data % MaxAlignment = 0 /\ FitsIn(heap, region)
    BY <2>1, <2>2, TakenHeapFits
  <2> QED
    BY <2>1, <2>3 DEF TakenAs
<1>2. ASSUME NEW a \in heaps, NEW b \in heaps
      PROVE  a = b \/ a.m_data + a.m_size <= b.m_data \/ b.m_data + b.m_size <= a.m_data
  <2>1. PICK r \in regions : TakenAs(a, r)
    BY DEF HeapsInv
  <2>2. PICK s \in regions : TakenAs(b, s)
    BY DEF HeapsInv
  <2>3. RegionOK(r) /\ RegionOK(s)
    BY DEF HeapsInv
  <2>4. /\ a.m_size \in Nat /\ a.m_data \in Nat /\ FitsIn(a, r)
        /\ b.m_size \in Nat /\ b.m_data \in Nat /\ FitsIn(b, s)
    BY <2>1, <2>2, <2>3, TakenHeapFits
  <2>5. CASE r = s
    BY <2>1, <2>2, <2>5 DEF HeapsInv, TakenAs
  <2>6. CASE Disjoint(r, s)
    BY <2>3, <2>4, <2>6 DEF Disjoint, FitsIn, RegionOK
  <2> QED
    BY <2>5, <2>6 DEF HeapsInv
<1>3. RegionsHaveOneHeap
  BY DEF HeapsInv, TakenAs, RegionsHaveOneHeap
<1> QED
  BY <1>1, <1>2, <1>3 DEF HeapsFitTheirRegions

\* What is taken is at no address that was given away before.
LEMMA FreshRegionIsFresh ==
    ASSUME HeapsInv, NEW size \in HeapSizes, NEW device, NEW mapped,
           NEW region \in FreshRegions(RegionSize(size), device, mapped)
    PROVE  /\ RegionOK(region) /\ region.size = size + Padding
           /\ region.device = device /\ region.mapped = mapped
           /\ \A other \in regions : Disjoint(region, other) /\ other.start # region.start
<1>1. size \in Nat \ {0} /\ RegionSize(size) = size + Padding /\ Padding \in Nat
  BY RegionSizeIsPadded, PaddingType
<1>2. PICK start \in 1..SizeRange - RegionSize(size) :
          region = Region(start, RegionSize(size), device, mapped)
  BY DEF FreshRegions
<1>3. /\ region.start % BaseAlignment = 0
      /\ \A other \in regions : Disjoint(region, other)
  BY DEF FreshRegions
<1>4. /\ region.start = start /\ region.size = size + Padding
      /\ region.device = device /\ region.mapped = mapped
  BY <1>1, <1>2 DEF Region
<1>5. RegionOK(region)
  BY <1>1, <1>3, <1>4, AlignmentAssumption DEF RegionOK
<1>6. ASSUME NEW other \in regions
      PROVE  other.start # region.start
  BY <1>3, <1>5, <1>6 DEF HeapsInv, RegionOK, Disjoint
<1> QED
  BY <1>3, <1>4, <1>5, <1>6

LEMMA TakeHeapKeepsInv ==
    ASSUME HeapsInv, NEW source, NEW size \in HeapSizes, NEW device, NEW mapped,
           TakeHeap(source, size, device, mapped)
    PROVE  HeapsInv'
<1>1. PICK region \in FreshRegions(RegionSize(size), device, mapped) :
          /\ regions' = regions \cup {region}
          /\ heaps' = heaps \cup {Heap(source, region, size)}
  BY DEF TakeHeap
<1> DEFINE heap == Heap(source, region, size)
<1>2. /\ RegionOK(region) /\ region.size = size + Padding
      /\ \A other \in regions : Disjoint(region, other) /\ other.start # region.start
  BY FreshRegionIsFresh
<1>3. TakenAs(heap, region) /\ heap.m_allocation = region.start
  BY <1>2 DEF TakenAs, Heap
<1> HIDE DEF heap
<1>4. \A other \in heaps : other.m_allocation # heap.m_allocation
  BY <1>2, <1>3 DEF HeapsInv, TakenAs
<1>5. regions' = regions \cup {region} /\ heaps' = heaps \cup {heap}
  BY <1>1 DEF heap
<1>6. \A r \in regions' : RegionOK(r) /\ \E h \in heaps' : TakenAs(h, r)
  BY <1>2, <1>3, <1>5 DEF HeapsInv
<1>7. \A h \in heaps' : \E r \in regions' : TakenAs(h, r)
  BY <1>3, <1>5 DEF HeapsInv
<1>8. \A a, b \in regions' : a = b \/ Disjoint(a, b)
  BY <1>2, <1>5 DEF HeapsInv, Disjoint
<1>9. \A a, b \in heaps' : a.m_allocation = b.m_allocation => a = b
  BY <1>4, <1>5 DEF HeapsInv
<1> QED
  BY <1>6, <1>7, <1>8, <1>9 DEF HeapsInv

LEMMA GiveBackKeepsInv ==
    ASSUME HeapsInv, NEW heap \in heaps, GiveBack(heap)
    PROVE  HeapsInv'
<1>1. /\ heaps' = heaps \ {heap}
      /\ regions' = {region \in regions : region.start # heap.m_allocation}
  BY DEF GiveBack, Deallocate
<1>2. \A r \in regions' : RegionOK(r) /\ \E h \in heaps' : TakenAs(h, r)
  BY <1>1 DEF HeapsInv, TakenAs
<1>3. ASSUME NEW h \in heaps'
      PROVE  \E r \in regions' : TakenAs(h, r)
  <2>1. h \in heaps /\ h.m_allocation # heap.m_allocation
    BY <1>1 DEF HeapsInv
  <2> QED
    BY <1>1, <2>1 DEF HeapsInv, TakenAs
<1> QED
  BY <1>1, <1>2, <1>3 DEF HeapsInv

----------------------------------------------------------------------------
(* The inductive invariant.                                                *)

Objects == {"queue", "event"}
HeapCalls == {"local", "pinned"}

\* Each thread's selection is its own, or its guard knows it, and what a call
\* needed selected is.
SelectionInv ==
    /\ current \in [Threads -> Ordinals] /\ selected \in [Threads -> Ordinals]
    /\ m_previous \in [Threads -> Ordinals \cup {NoSelection}]
    /\ \A th \in Threads :
          /\ pc[th] \in {"idle", "select"} => ~HasSelection(th)
          /\ ~HasSelection(th) => current[th] = selected[th]
          /\ HasSelection(th) => m_previous[th] = selected[th]
          /\ pc[th] = "make" /\ frame[th].ordinal # Host => current[th] = frame[th].ordinal

\* The kind is asked before the first handle is there, and for good.
KindInv ==
    /\ integrated \subseteq Ordinals
    /\ m_kind \in {"unknown", "host_staging", "unified"}
    /\ m_kind = "unified" => integrated = Ordinals
    /\ handle \in [Handles -> {NoHandle} \cup [ordinal : Ints, has_memory : BOOLEAN]]
    /\ \A h \in Handles : IsOpen(h) =>
          /\ ~handle[h].has_memory => m_kind = "unified"
          /\ m_kind # "unknown"

Frames ==
    [what : {"nothing"} \cup Objects \cup HeapCalls, by : Handles \cup {NoHandle},
     ordinal : Int \cup {Host}, mapped : BOOLEAN]

ThreadsInv ==
    /\ pc \in [Threads -> {"idle", "select", "make", "restore"}]
    /\ frame \in [Threads -> Frames]

\* What a call is about is kept until it returns.
CallInv(th) ==
    /\ pc[th] # "idle" =>
          /\ frame[th].by \in Handles
          /\ frame[th].what \in Objects \cup HeapCalls
          /\ pc[th] = "select" => frame[th].ordinal # Host
          /\ frame[th].what \in Objects => frame[th].ordinal # Host
          /\ frame[th].what = "queue" =>
                IsOpen(frame[th].by) /\ frame[th].ordinal = handle[frame[th].by].ordinal
          /\ frame[th].what = "event" => \E object \in made :
                /\ object.what = "queue" /\ object.recorder = frame[th].by
                /\ object.ordinal = frame[th].ordinal
          /\ frame[th].what = "local" /\ frame[th].ordinal = Host =>
                frame[th].mapped /\ m_kind = "unified"

MadeInv ==
    /\ \A object \in made :
          /\ object.what \in Objects /\ object.recorder \in Handles
          /\ object.ordinal \in Int
          /\ object.device = object.ordinal
          /\ IsOpen(object.recorder) => object.ordinal = handle[object.recorder].ordinal
    /\ \A a, b \in made : a.recorder = b.recorder => a.ordinal = b.ordinal

\* Each heap is of the memory it was asked for.
SourceOK(heap, region) ==
    /\ region.device = heap.m_source.ordinal
    /\ heap.m_source.by = "local" /\ region.device = Host => region.mapped /\ integrated = Ordinals

SourcesInv ==
    \A heap \in heaps : \A region \in regions :
        region.start = heap.m_allocation => SourceOK(heap, region)

DeviceInv ==
    /\ SelectionInv /\ ThreadsInv /\ KindInv /\ MadeInv /\ HeapsInv /\ SourcesInv
    /\ \A th \in Threads : CallInv(th)

LEMMA NoSelectionIsNone == NoSelection \notin Ordinals /\ Ordinals \subseteq Int
  BY DeviceCountAssumption DEF NoSelection, Ordinals

LEMMA ToIntIsInt ==
    ASSUME NEW id \in Ids
    PROVE  ToInt(id) \in Ints
<1> DEFINE half == IntRange \div 2
           sum == id + half
<1>1. /\ IntRange \in Nat \ {0} /\ half \in Nat /\ IntRange = half + half /\ id \in Nat
  BY IdsAssumption, DeviceCountAssumption
<1>2. sum % IntRange \in 0..IntRange - 1
  BY <1>1, Division
<1>3. ToInt(id) = (sum % IntRange) - half /\ Ints = -half..half - 1
  BY DEF ToInt, Ints
<1> HIDE DEF half, sum
<1> QED
  BY <1>1, <1>2, <1>3

LEMMA IntIsNotHost ==
    ASSUME NEW ordinal \in Ints
    PROVE  ordinal # Host
  BY HandlesAssumption, IdsAssumption DEF Ints

LEMMA InitDeviceInv == DeviceInit => DeviceInv
<1> SUFFICES ASSUME DeviceInit
             PROVE  DeviceInv
  OBVIOUS
<1> USE DEF DeviceInit, GuardInit, MemoryInit
<1>1. SelectionInv
  BY NoSelectionIsNone DEF SelectionInv, HasSelection
<1>2. KindInv
  BY DEF KindInv, IsOpen
<1>3. MadeInv /\ HeapsInv /\ SourcesInv
  BY DEF MadeInv, HeapsInv, SourcesInv
<1>4. \A th \in Threads : CallInv(th)
  BY DEF CallInv
<1>5. ThreadsInv
  BY DEF ThreadsInv, Frames, NoFrame, NoSelection
<1> QED
  BY <1>1, <1>2, <1>3, <1>4, <1>5 DEF DeviceInv

----------------------------------------------------------------------------
(* What a step does not touch.                                             *)

LEMMA HeapsUntouched ==
    ASSUME HeapsInv, SourcesInv, UNCHANGED <<heapVars, integrated>>
    PROVE  HeapsInv' /\ SourcesInv'
  BY DEF heapVars, HeapsInv, SourcesInv, RegionOK, TakenAs, Disjoint, SourceOK

LEMMA SelectionUntouched ==
    ASSUME SelectionInv, UNCHANGED <<guardVars, pc, frame>>
    PROVE  SelectionInv'
  BY DEF guardVars, SelectionInv, HasSelection

LEMMA ObjectsUntouched ==
    ASSUME KindInv, MadeInv, UNCHANGED <<integrated, m_kind, handle, made>>
    PROVE  KindInv' /\ MadeInv'
  BY DEF KindInv, MadeInv, IsOpen

\* A thread whose call did not move, while the objects of its handle stay.
LEMMA CallUntouched ==
    ASSUME NEW th \in Threads, CallInv(th),
           pc'[th] = pc[th], frame'[th] = frame[th],
           UNCHANGED <<m_kind, handle, made>>
    PROVE  CallInv(th)'
  BY DEF CallInv, IsOpen

----------------------------------------------------------------------------
(* Handles, queues and recorders come and go.                              *)

LEMMA CreateDeviceKeepsInv ==
    ASSUME DeviceInv, NEW th \in Threads, CreateDevice(th)
    PROVE  DeviceInv'
<1>1. PICK h \in Handles, id \in Ids, count \in {0, DeviceCount}, answering \in SUBSET Ordinals :
          /\ RecorderIsFree(h)
          /\ m_kind' = AskedKind(answering)
          /\ handle' = [handle EXCEPT
                            ![h] = [ordinal |-> ToInt(id), has_memory |-> m_kind' # "unified"]]
  BY DEF CreateDevice
<1>2. UNCHANGED <<guardVars, heapVars, integrated, made, pc, frame>>
  BY DEF CreateDevice
<1>3. /\ m_kind' \in {"host_staging", "unified"}
      /\ m_kind = "unified" => m_kind' = "unified"
      /\ m_kind' = "unified" => integrated = Ordinals
  BY <1>1 DEF DeviceInv, KindInv, AskedKind, QueriedKind
<1>4. /\ ToInt(id) \in Ints /\ ~IsOpen(h)
      /\ \A object \in made : object.recorder # h
      /\ handle'[h] = [ordinal |-> ToInt(id), has_memory |-> m_kind' # "unified"]
      /\ \A g \in Handles : g # h => handle'[g] = handle[g]
  BY <1>1, ToIntIsInt DEF RecorderIsFree, DeviceInv, KindInv
<1>5. SelectionInv' /\ HeapsInv' /\ SourcesInv' /\ ThreadsInv'
  BY <1>2, SelectionUntouched, HeapsUntouched DEF DeviceInv, ThreadsInv
<1>6. KindInv'
  BY <1>1, <1>2, <1>3, <1>4 DEF DeviceInv, KindInv, IsOpen
<1>7. MadeInv'
  BY <1>2, <1>4 DEF DeviceInv, MadeInv, IsOpen
<1>8. ASSUME NEW other \in Threads
      PROVE  CallInv(other)'
  BY <1>2, <1>3, <1>4 DEF DeviceInv, CallInv, IsOpen, Objects, HeapCalls
<1> QED
  BY <1>5, <1>6, <1>7, <1>8 DEF DeviceInv

LEMMA DestroyDeviceKeepsInv ==
    ASSUME DeviceInv, NEW th \in Threads, DestroyDevice(th)
    PROVE  DeviceInv'
<1>1. PICK h \in Handles :
          /\ \A other \in Threads : frame[other].by # h
          /\ handle' = [handle EXCEPT ![h] = NoHandle]
  BY DEF DestroyDevice
<1>2. UNCHANGED <<guardVars, heapVars, integrated, m_kind, made, pc, frame>>
  BY DEF DestroyDevice
<1>3. handle'[h] = NoHandle /\ \A g \in Handles : g # h => handle'[g] = handle[g]
  BY <1>1 DEF DeviceInv, KindInv
<1>4. SelectionInv' /\ HeapsInv' /\ SourcesInv' /\ ThreadsInv'
  BY <1>2, SelectionUntouched, HeapsUntouched DEF DeviceInv, ThreadsInv
<1>5. KindInv'
  BY <1>1, <1>2, <1>3 DEF DeviceInv, KindInv, IsOpen
<1>6. MadeInv'
  BY <1>2, <1>3 DEF DeviceInv, MadeInv, IsOpen
<1>7. ASSUME NEW other \in Threads
      PROVE  CallInv(other)'
  BY <1>1, <1>2, <1>3 DEF DeviceInv, CallInv, IsOpen
<1> QED
  BY <1>4, <1>5, <1>6, <1>7 DEF DeviceInv

\* Objects may go as long as the queues that calls are for stay.
LEMMA FewerObjectsKeepInv ==
    ASSUME DeviceInv, made' \subseteq made,
           UNCHANGED <<guardVars, heapVars, integrated, m_kind, handle, pc, frame>>,
           \A th \in Threads, object \in made :
               pc[th] # "idle" /\ object.what = "queue" /\ object.recorder = frame[th].by =>
                   object \in made'
    PROVE  DeviceInv'
<1>1. SelectionInv' /\ HeapsInv' /\ SourcesInv' /\ ThreadsInv'
  BY SelectionUntouched, HeapsUntouched DEF DeviceInv, ThreadsInv
<1>2. KindInv'
  BY DEF DeviceInv, KindInv, IsOpen
<1>3. MadeInv'
  BY DEF DeviceInv, MadeInv, IsOpen
<1>4. ASSUME NEW th \in Threads
      PROVE  CallInv(th)'
  BY DEF DeviceInv, CallInv, IsOpen
<1> QED
  BY <1>1, <1>2, <1>3, <1>4 DEF DeviceInv

LEMMA DestroyQueueKeepsInv ==
    ASSUME DeviceInv, NEW th \in Threads, DestroyQueue(th)
    PROVE  DeviceInv'
<1>1. PICK object \in made :
          /\ \A other \in Threads : frame[other].by # object.recorder
          /\ made' = made \ {object}
  BY DEF DestroyQueue
<1> QED
  BY <1>1, FewerObjectsKeepInv DEF DestroyQueue

LEMMA DestroyRecorderKeepsInv ==
    ASSUME DeviceInv, NEW h \in Handles, DestroyRecorder(h)
    PROVE  DeviceInv'
<1>1. /\ \A object \in made : ~(object.recorder = h /\ object.what = "queue")
      /\ made' = {object \in made : object.recorder # h}
  BY DEF DestroyRecorder
<1> QED
  BY <1>1, FewerObjectsKeepInv DEF DestroyRecorder

----------------------------------------------------------------------------
(* Calls.                                                                  *)

LEMMA CallKeepsInv ==
    ASSUME DeviceInv, NEW th \in Threads, NEW what \in Objects \cup HeapCalls,
           NEW h \in Handles, NEW ordinal \in Int \cup {Host}, NEW mapped \in BOOLEAN,
           Call(th, what, h, ordinal, mapped),
           what \in Objects => ordinal # Host,
           what = "queue" => IsOpen(h) /\ ordinal = handle[h].ordinal,
           what = "event" => \E object \in made :
               object.what = "queue" /\ object.recorder = h /\ object.ordinal = ordinal,
           what = "local" /\ ordinal = Host => mapped /\ m_kind = "unified"
    PROVE  DeviceInv'
<1>1. /\ pc[th] = "idle"
      /\ pc' = [pc EXCEPT ![th] = IF ordinal # Host THEN "select" ELSE "make"]
      /\ frame' = [frame EXCEPT
            ![th] = [what |-> what, by |-> h, ordinal |-> ordinal, mapped |-> mapped]]
      /\ UNCHANGED <<guardVars, heapVars, integrated, m_kind, handle, made>>
  BY DEF Call, IsGuarded
<1>2. /\ pc'[th] = IF ordinal # Host THEN "select" ELSE "make"
      /\ frame'[th] = [what |-> what, by |-> h, ordinal |-> ordinal, mapped |-> mapped]
      /\ \A other \in Threads : other # th => pc'[other] = pc[other] /\ frame'[other] = frame[other]
  BY <1>1 DEF DeviceInv, ThreadsInv
<1>3. HeapsInv' /\ SourcesInv' /\ KindInv' /\ MadeInv'
  BY <1>1, HeapsUntouched, ObjectsUntouched DEF DeviceInv
<1>4. ThreadsInv'
  BY <1>1 DEF DeviceInv, ThreadsInv, Frames
<1>5. SelectionInv'
  BY <1>1, <1>2 DEF DeviceInv, SelectionInv, HasSelection, guardVars
<1>6. CallInv(th)'
  BY <1>1, <1>2 DEF CallInv, IsOpen
<1>7. ASSUME NEW other \in Threads, other # th
      PROVE  CallInv(other)'
  BY <1>1, <1>2, <1>7, CallUntouched DEF DeviceInv
<1> QED
  BY <1>3, <1>4, <1>5, <1>6, <1>7 DEF DeviceInv

LEMMA CreateCommandQueueKeepsInv ==
    ASSUME DeviceInv, NEW th \in Threads, CreateCommandQueue(th)
    PROVE  DeviceInv'
<1>1. PICK h \in Handles : IsOpen(h) /\ Call(th, "queue", h, handle[h].ordinal, FALSE)
  BY DEF CreateCommandQueue
<1>2. handle[h].ordinal \in Int \cup {Host} /\ handle[h].ordinal # Host
  BY <1>1, IntIsNotHost, IdsAssumption DEF DeviceInv, KindInv, IsOpen, Ints
<1> QED
  BY <1>1, <1>2, CallKeepsInv DEF Objects

LEMMA CreateEventKeepsInv ==
    ASSUME DeviceInv, NEW th \in Threads, CreateEvent(th)
    PROVE  DeviceInv'
<1>1. PICK object \in made :
          object.what = "queue" /\ Call(th, "event", object.recorder, object.ordinal, FALSE)
  BY DEF CreateEvent
<1>2. object.recorder \in Handles /\ object.ordinal \in Int \cup {Host} /\ object.ordinal # Host
  BY HandlesAssumption DEF DeviceInv, MadeInv
<1> QED
  BY <1>1, <1>2, CallKeepsInv DEF Objects

LEMMA AllocateLocalKeepsInv ==
    ASSUME DeviceInv, NEW th \in Threads, AllocateLocal(th)
    PROVE  DeviceInv'
<1>1. PICK h \in Handles :
          /\ IsOpen(h)
          /\ IF HasOwnMemory(h)
             THEN Call(th, "local", h, handle[h].ordinal, FALSE)
             ELSE Call(th, "local", h, Host, m_kind = "unified")
  BY DEF AllocateLocal
<1>2. handle[h].ordinal \in Int \cup {Host} /\ handle[h].ordinal # Host
  BY <1>1, IntIsNotHost, IdsAssumption DEF DeviceInv, KindInv, IsOpen, Ints
<1>3. ~HasOwnMemory(h) => m_kind = "unified"
  BY <1>1 DEF DeviceInv, KindInv, HasOwnMemory
<1>4. CASE HasOwnMemory(h)
  BY <1>1, <1>2, <1>4, CallKeepsInv DEF Objects, HeapCalls
<1>5. CASE ~HasOwnMemory(h)
  BY <1>1, <1>3, <1>5, CallKeepsInv DEF Objects, HeapCalls
<1> QED
  BY <1>4, <1>5

LEMMA AllocatePinnedKeepsInv ==
    ASSUME DeviceInv, NEW th \in Threads, AllocatePinned(th)
    PROVE  DeviceInv'
<1>1. PICK h \in Handles : Call(th, "pinned", h, Host, m_kind = "unified")
  BY DEF AllocatePinned
<1> QED
  BY <1>1, CallKeepsInv DEF Objects, HeapCalls

----------------------------------------------------------------------------
(* The steps of a call.                                                    *)

\* A call moves on: what it is about, and what there is, stay.
LEMMA MovingOn ==
    ASSUME DeviceInv, NEW th \in Threads, NEW from, NEW to \in {"make", "restore"}, from # "idle",
           Goto(th, from, to), UNCHANGED <<m_kind, handle, frame>>, made \subseteq made'
    PROVE  ThreadsInv' /\ \A other \in Threads : CallInv(other)'
<1>1. ThreadsInv'
  BY DEF DeviceInv, ThreadsInv, Goto
<1>2. ASSUME NEW other \in Threads
      PROVE  CallInv(other)'
  BY DEF DeviceInv, ThreadsInv, CallInv, Goto, IsOpen
<1> QED
  BY <1>1, <1>2

LEMMA SelectKeepsInv ==
    ASSUME DeviceInv, NEW th \in Threads, Select(th)
    PROVE  DeviceInv'
<1>1. /\ Goto(th, "select", "make") /\ OpenGuard(th, frame[th].ordinal)
      /\ UNCHANGED <<heapVars, integrated, m_kind, handle, made, frame>>
  BY DEF Select
<1>2. ThreadsInv' /\ \A other \in Threads : CallInv(other)'
  BY <1>1, MovingOn
<1>3. HeapsInv' /\ SourcesInv' /\ KindInv' /\ MadeInv'
  BY <1>1, HeapsUntouched, ObjectsUntouched DEF DeviceInv
<1>4. pc'[th] = "make" /\ \A other \in Threads : other # th => pc'[other] = pc[other]
  BY <1>1 DEF DeviceInv, ThreadsInv, Goto
<1>5. ~HasSelection(th) /\ current[th] = selected[th]
  BY <1>1 DEF DeviceInv, SelectionInv, Goto
<1>6. SelectionInv'
  <2>1. CASE frame[th].ordinal = current[th] /\ UNCHANGED guardVars
    BY <1>1, <1>4, <1>5, <2>1 DEF DeviceInv, SelectionInv, HasSelection, guardVars
  <2>2. CASE /\ frame[th].ordinal \in Ordinals
             /\ current' = [current EXCEPT ![th] = frame[th].ordinal]
             /\ m_previous' = [m_previous EXCEPT ![th] = current[th]]
             /\ UNCHANGED selected
    <3>1. /\ current'[th] = frame[th].ordinal /\ m_previous'[th] = selected[th]
          /\ current'[th] \in Ordinals /\ m_previous'[th] \in Ordinals
          /\ \A other \in Threads : other # th =>
                current'[other] = current[other] /\ m_previous'[other] = m_previous[other]
      BY <1>5, <2>2 DEF DeviceInv, SelectionInv
    <3>2. HasSelection(th)'
      BY <3>1, NoSelectionIsNone DEF HasSelection
    <3>3. /\ current' \in [Threads -> Ordinals] /\ selected' \in [Threads -> Ordinals]
          /\ m_previous' \in [Threads -> Ordinals \cup {NoSelection}]
      BY <2>2 DEF DeviceInv, SelectionInv
    <3>4. ASSUME NEW other \in Threads
          PROVE  /\ pc'[other] \in {"idle", "select"} => ~HasSelection(other)'
                 /\ ~HasSelection(other)' => current'[other] = selected'[other]
                 /\ HasSelection(other)' => m_previous'[other] = selected'[other]
                 /\ pc'[other] = "make" /\ frame'[other].ordinal # Host =>
                        current'[other] = frame'[other].ordinal
      <4>1. CASE other = th
        BY <1>1, <1>4, <2>2, <3>1, <3>2, <4>1
      <4>2. CASE other # th
        BY <1>1, <1>4, <2>2, <3>1, <4>2 DEF DeviceInv, SelectionInv, HasSelection
      <4> QED
        BY <4>1, <4>2
    <3> QED
      BY <3>3, <3>4 DEF SelectionInv
  <2> QED
    BY <1>1, <2>1, <2>2 DEF OpenGuard
<1> QED
  BY <1>2, <1>3, <1>6 DEF DeviceInv

\* The call is over, with the thread back on its device.
LEMMA ReturnKeepsCalls ==
    ASSUME DeviceInv, NEW th \in Threads, NEW from, Goto(th, from, "idle"),
           frame' = [frame EXCEPT ![th] = NoFrame], UNCHANGED <<m_kind, handle, made>>
    PROVE  ThreadsInv' /\ \A other \in Threads : CallInv(other)'
<1>1. ThreadsInv'
  BY DEF DeviceInv, ThreadsInv, Goto, Frames, NoFrame, NoSelection
<1>2. /\ pc'[th] = "idle"
      /\ \A other \in Threads : other # th => pc'[other] = pc[other] /\ frame'[other] = frame[other]
  BY DEF DeviceInv, ThreadsInv, Goto
<1>3. ASSUME NEW other \in Threads
      PROVE  CallInv(other)'
  BY <1>2, CallUntouched DEF DeviceInv, CallInv
<1> QED
  BY <1>1, <1>3

LEMMA SelectFailsKeepsInv ==
    ASSUME DeviceInv, NEW th \in Threads, SelectFails(th)
    PROVE  DeviceInv'
<1>1. /\ Goto(th, "select", "idle")
      /\ frame' = [frame EXCEPT ![th] = NoFrame]
      /\ UNCHANGED <<guardVars, heapVars, integrated, m_kind, handle, made>>
  BY DEF SelectFails
<1>2. ThreadsInv' /\ \A other \in Threads : CallInv(other)'
  BY <1>1, ReturnKeepsCalls
<1>3. HeapsInv' /\ SourcesInv' /\ KindInv' /\ MadeInv'
  BY <1>1, HeapsUntouched, ObjectsUntouched DEF DeviceInv
<1>4. /\ pc[th] = "select" /\ pc'[th] = "idle"
      /\ \A other \in Threads : other # th => pc'[other] = pc[other] /\ frame'[other] = frame[other]
  BY <1>1 DEF DeviceInv, ThreadsInv, Goto
<1>5. SelectionInv'
  BY <1>1, <1>4 DEF DeviceInv, SelectionInv, HasSelection, guardVars
<1> QED
  BY <1>2, <1>3, <1>5 DEF DeviceInv

\* While the guard is open the selection is not looked at again.
LEMMA MadeKeepsSelection ==
    ASSUME DeviceInv, NEW th \in Threads, Goto(th, "make", "restore"), UNCHANGED <<guardVars, frame>>
    PROVE  SelectionInv'
<1>1. /\ pc[th] = "make" /\ pc'[th] = "restore"
      /\ \A other \in Threads : other # th => pc'[other] = pc[other]
  BY DEF DeviceInv, ThreadsInv, Goto
<1> QED
  BY <1>1 DEF DeviceInv, SelectionInv, HasSelection, guardVars

LEMMA MakeObjectKeepsInv ==
    ASSUME DeviceInv, NEW th \in Threads, MakeObject(th)
    PROVE  DeviceInv'
<1> DEFINE h == frame[th].by
           object == [what |-> frame[th].what, recorder |-> h, ordinal |-> frame[th].ordinal,
                      device |-> current[th]]
<1>1. /\ Goto(th, "make", "restore") /\ frame[th].what \in Objects
      /\ made' = made \cup {object}
      /\ UNCHANGED <<guardVars, heapVars, integrated, m_kind, handle, frame>>
  BY DEF MakeObject, Queue, Event, Objects
<1>2. pc[th] = "make"
  BY <1>1 DEF Goto
<1>3. h \in Handles /\ frame[th].ordinal \in Int /\ frame[th].ordinal # Host
  BY <1>1, <1>2 DEF DeviceInv, CallInv, ThreadsInv, Frames, Objects
<1>4. current[th] = frame[th].ordinal
  BY <1>2, <1>3 DEF DeviceInv, SelectionInv
<1>5. /\ IsOpen(h) => frame[th].ordinal = handle[h].ordinal
      /\ \A other \in made : other.recorder = h => other.ordinal = frame[th].ordinal
  <2>1. CASE frame[th].what = "queue"
    BY <1>2, <2>1 DEF DeviceInv, CallInv, MadeInv
  <2>2. CASE frame[th].what = "event"
    <3>1. PICK queue \in made : queue.recorder = h /\ queue.ordinal = frame[th].ordinal
      BY <1>2, <2>2 DEF DeviceInv, CallInv
    <3> QED
      BY <3>1 DEF DeviceInv, MadeInv
  <2> QED
    BY <1>1, <2>1, <2>2 DEF Objects
<1>6. /\ object.what \in Objects /\ object.recorder = h /\ object.device = object.ordinal
      /\ object.ordinal = frame[th].ordinal
  BY <1>1, <1>4
<1> HIDE DEF object
<1>7. MadeInv'
  BY <1>1, <1>3, <1>5, <1>6 DEF DeviceInv, MadeInv, IsOpen
<1>8. KindInv' /\ HeapsInv' /\ SourcesInv'
  BY <1>1, HeapsUntouched DEF DeviceInv, KindInv, IsOpen
<1>9. ThreadsInv' /\ \A other \in Threads : CallInv(other)'
  BY <1>1, MovingOn
<1>10. SelectionInv'
  BY <1>1, MadeKeepsSelection
<1> QED
  BY <1>7, <1>8, <1>9, <1>10 DEF DeviceInv

LEMMA MakeHeapKeepsInv ==
    ASSUME DeviceInv, NEW th \in Threads, MakeHeap(th)
    PROVE  DeviceInv'
<1> DEFINE source == [by |-> frame[th].what, ordinal |-> frame[th].ordinal]
<1>1. /\ Goto(th, "make", "restore")
      /\ UNCHANGED <<guardVars, integrated, m_kind, handle, made, frame>>
  BY DEF MakeHeap
<1>2. PICK size \in HeapSizes : TakeHeap(source, size, DeviceOf(th), frame[th].mapped)
  BY DEF MakeHeap
<1>3. pc[th] = "make"
  BY <1>1 DEF Goto
<1>4. DeviceOf(th) = frame[th].ordinal
  BY <1>3 DEF DeviceInv, SelectionInv, DeviceOf
<1>5. frame[th].what = "local" /\ frame[th].ordinal = Host =>
          frame[th].mapped /\ integrated = Ordinals
  BY <1>3 DEF DeviceInv, CallInv, KindInv
<1>6. PICK region \in FreshRegions(RegionSize(size), DeviceOf(th), frame[th].mapped) :
          /\ regions' = regions \cup {region}
          /\ heaps' = heaps \cup {Heap(source, region, size)}
  BY <1>2 DEF TakeHeap
<1> DEFINE heap == Heap(source, region, size)
<1>7. /\ region.device = frame[th].ordinal /\ region.mapped = frame[th].mapped
      /\ \A other \in regions : other.start # region.start
  BY <1>4, FreshRegionIsFresh DEF DeviceInv
<1>8. /\ heap.m_allocation = region.start
      /\ heap.m_source.by = frame[th].what /\ heap.m_source.ordinal = frame[th].ordinal
  BY DEF Heap
<1>9. heaps' = heaps \cup {heap}
  BY <1>6
<1> HIDE DEF heap, source
<1>10. SourceOK(heap, region)
  BY <1>5, <1>7, <1>8 DEF SourceOK
<1>11. \A other \in heaps : \E taken \in regions : taken.start = other.m_allocation
  BY DEF DeviceInv, HeapsInv, TakenAs
<1>12. ASSUME NEW other \in heaps', NEW taken \in regions', taken.start = other.m_allocation
       PROVE  SourceOK(other, taken)
  <2>1. CASE other = heap
    BY <1>6, <1>7, <1>8, <1>10, <1>12, <2>1
  <2>2. CASE other # heap
    BY <1>6, <1>7, <1>9, <1>11, <1>12, <2>2 DEF DeviceInv, SourcesInv
  <2> QED
    BY <2>1, <2>2
<1>13. SourcesInv'
  BY <1>1, <1>12 DEF SourcesInv, SourceOK
<1>14. HeapsInv'
  BY <1>2, TakeHeapKeepsInv DEF DeviceInv
<1>15. KindInv' /\ MadeInv'
  BY <1>1, ObjectsUntouched DEF DeviceInv
<1>16. ThreadsInv' /\ \A other \in Threads : CallInv(other)'
  BY <1>1, MovingOn
<1>17. SelectionInv'
  BY <1>1, MadeKeepsSelection
<1> QED
  BY <1>13, <1>14, <1>15, <1>16, <1>17 DEF DeviceInv

LEMMA MakeFailsKeepsInv ==
    ASSUME DeviceInv, NEW th \in Threads, MakeFails(th)
    PROVE  DeviceInv'
<1>1. /\ Goto(th, "make", "restore")
      /\ UNCHANGED <<guardVars, heapVars, integrated, m_kind, handle, made, frame>>
  BY DEF MakeFails
<1>2. ThreadsInv' /\ \A other \in Threads : CallInv(other)'
  BY <1>1, MovingOn
<1>3. HeapsInv' /\ SourcesInv' /\ KindInv' /\ MadeInv' /\ SelectionInv'
  BY <1>1, HeapsUntouched, ObjectsUntouched, MadeKeepsSelection DEF DeviceInv
<1> QED
  BY <1>2, <1>3 DEF DeviceInv

LEMMA RestoreKeepsInv ==
    ASSUME DeviceInv, NEW th \in Threads, Restore(th)
    PROVE  DeviceInv'
<1>1. /\ Goto(th, "restore", "idle") /\ (CloseGuard(th) \/ CloseGuardFails(th))
      /\ frame' = [frame EXCEPT ![th] = NoFrame]
      /\ UNCHANGED <<heapVars, integrated, m_kind, handle, made>>
  BY DEF Restore
<1>2. ThreadsInv' /\ \A other \in Threads : CallInv(other)'
  BY <1>1, ReturnKeepsCalls
<1>3. HeapsInv' /\ SourcesInv' /\ KindInv' /\ MadeInv'
  BY <1>1, HeapsUntouched, ObjectsUntouched DEF DeviceInv
<1>4. /\ pc'[th] = "idle"
      /\ \A other \in Threads : other # th => pc'[other] = pc[other] /\ frame'[other] = frame[other]
  BY <1>1 DEF DeviceInv, ThreadsInv, Goto
<1>5. /\ current' \in [Threads -> Ordinals] /\ selected' \in [Threads -> Ordinals]
      /\ m_previous' \in [Threads -> Ordinals \cup {NoSelection}]
      /\ m_previous'[th] = NoSelection /\ current'[th] = selected'[th]
      /\ \A other \in Threads : other # th =>
            /\ m_previous'[other] = m_previous[other]
            /\ current'[other] = current[other] /\ selected'[other] = selected[other]
  <2>1. CASE CloseGuard(th)
    BY <2>1 DEF CloseGuard, DeviceInv, SelectionInv, HasSelection
  <2>2. CASE CloseGuardFails(th)
    BY <2>2 DEF CloseGuardFails, DeviceInv, SelectionInv, HasSelection
  <2> QED
    BY <1>1, <2>1, <2>2
<1>6. SelectionInv'
  BY <1>4, <1>5 DEF DeviceInv, SelectionInv, HasSelection
<1> QED
  BY <1>2, <1>3, <1>6 DEF DeviceInv

LEMMA GiveHeapBackKeepsInv ==
    ASSUME DeviceInv, NEW th \in Threads, GiveHeapBack(th)
    PROVE  DeviceInv'
<1>1. PICK heap \in heaps : GiveBack(heap)
  BY DEF GiveHeapBack
<1>2. UNCHANGED <<guardVars, integrated, m_kind, handle, made, pc, frame>>
  BY DEF GiveHeapBack
<1>3. HeapsInv'
  BY <1>1, GiveBackKeepsInv DEF DeviceInv
<1>4. SourcesInv'
  BY <1>1, <1>2 DEF GiveBack, Deallocate, DeviceInv, SourcesInv, SourceOK
<1>5. SelectionInv' /\ KindInv' /\ MadeInv' /\ ThreadsInv'
  BY <1>2, SelectionUntouched, ObjectsUntouched DEF DeviceInv, ThreadsInv
<1>6. ASSUME NEW other \in Threads
      PROVE  CallInv(other)'
  BY <1>2, CallUntouched DEF DeviceInv
<1> QED
  BY <1>3, <1>4, <1>5, <1>6 DEF DeviceInv

LEMMA OwnerSelectsKeepsInv ==
    ASSUME DeviceInv, NEW th \in Threads, OwnerSelects(th)
    PROVE  DeviceInv'
<1>1. pc[th] = "idle" /\ UNCHANGED <<heapVars, integrated, m_kind, handle, made, pc, frame>>
  BY DEF OwnerSelects
<1>2. PICK ordinal \in Ordinals :
          /\ current' = [current EXCEPT ![th] = ordinal]
          /\ selected' = [selected EXCEPT ![th] = ordinal]
          /\ UNCHANGED m_previous
  BY DEF OwnerSelects, SelectDevice
<1>3. HeapsInv' /\ SourcesInv' /\ KindInv' /\ MadeInv' /\ ThreadsInv'
  BY <1>1, HeapsUntouched, ObjectsUntouched DEF DeviceInv, ThreadsInv
<1>4. SelectionInv'
  BY <1>1, <1>2 DEF DeviceInv, SelectionInv, HasSelection
<1>5. ASSUME NEW other \in Threads
      PROVE  CallInv(other)'
  BY <1>1, CallUntouched DEF DeviceInv
<1> QED
  BY <1>3, <1>4, <1>5 DEF DeviceInv

----------------------------------------------------------------------------
LEMMA DeviceNextKeepsInv == DeviceInv /\ [DeviceNext]_deviceVars => DeviceInv'
<1> SUFFICES ASSUME DeviceInv, [DeviceNext]_deviceVars
             PROVE  DeviceInv'
  OBVIOUS
<1>1. ASSUME NEW th \in Threads, CreateDevice(th) PROVE DeviceInv'
  BY <1>1, CreateDeviceKeepsInv
<1>2. ASSUME NEW th \in Threads, DestroyDevice(th) PROVE DeviceInv'
  BY <1>2, DestroyDeviceKeepsInv
<1>3. ASSUME NEW th \in Threads, DestroyQueue(th) PROVE DeviceInv'
  BY <1>3, DestroyQueueKeepsInv
<1>4. ASSUME NEW th \in Threads, CreateCommandQueue(th) PROVE DeviceInv'
  BY <1>4, CreateCommandQueueKeepsInv
<1>5. ASSUME NEW th \in Threads, CreateEvent(th) PROVE DeviceInv'
  BY <1>5, CreateEventKeepsInv
<1>6. ASSUME NEW th \in Threads, AllocateLocal(th) PROVE DeviceInv'
  BY <1>6, AllocateLocalKeepsInv
<1>7. ASSUME NEW th \in Threads, AllocatePinned(th) PROVE DeviceInv'
  BY <1>7, AllocatePinnedKeepsInv
<1>8. ASSUME NEW th \in Threads, Select(th) PROVE DeviceInv'
  BY <1>8, SelectKeepsInv
<1>9. ASSUME NEW th \in Threads, SelectFails(th) PROVE DeviceInv'
  BY <1>9, SelectFailsKeepsInv
<1>10. ASSUME NEW th \in Threads, MakeObject(th) PROVE DeviceInv'
  BY <1>10, MakeObjectKeepsInv
<1>11. ASSUME NEW th \in Threads, MakeHeap(th) PROVE DeviceInv'
  BY <1>11, MakeHeapKeepsInv
<1>12. ASSUME NEW th \in Threads, MakeFails(th) PROVE DeviceInv'
  BY <1>12, MakeFailsKeepsInv
<1>13. ASSUME NEW th \in Threads, Restore(th) PROVE DeviceInv'
  BY <1>13, RestoreKeepsInv
<1>14. ASSUME NEW th \in Threads, GiveHeapBack(th) PROVE DeviceInv'
  BY <1>14, GiveHeapBackKeepsInv
<1>15. ASSUME NEW th \in Threads, OwnerSelects(th) PROVE DeviceInv'
  BY <1>15, OwnerSelectsKeepsInv
<1>16. ASSUME NEW h \in Handles, DestroyRecorder(h) PROVE DeviceInv'
  BY <1>16, DestroyRecorderKeepsInv
<1>17. CASE UNCHANGED deviceVars
  <2>1. UNCHANGED <<guardVars, heapVars, integrated, m_kind, handle, made, pc, frame>>
    BY <1>17 DEF deviceVars
  <2> QED
    BY <2>1, FewerObjectsKeepInv
<1> QED
  BY <1>1, <1>2, <1>3, <1>4, <1>5, <1>6, <1>7, <1>8, <1>9, <1>10, <1>11, <1>12, <1>13, <1>14,
     <1>15, <1>16, <1>17 DEF DeviceNext

LEMMA AlwaysDeviceInv == DeviceSpec => []DeviceInv
  BY InitDeviceInv, DeviceNextKeepsInv, PTL DEF DeviceSpec

----------------------------------------------------------------------------
(* What follows from it.                                                   *)

\* Types: a thread is on a device, guards are open only inside calls, and
\* heaps and regions lie in the address space (device_guard, memory_heap).
THEOREM DeviceTypesHold == DeviceSpec => []DeviceTypeOK
<1>1. DeviceInv => DeviceTypeOK
  <2> SUFFICES ASSUME DeviceInv PROVE DeviceTypeOK
    OBVIOUS
  <2>1. \A region \in regions : region.start \in 1..SizeRange - region.size
    BY AlignmentAssumption DEF DeviceInv, HeapsInv, RegionOK
  <2>2. ASSUME NEW heap \in heaps
        PROVE  heap.m_data \in 1..SizeRange - 1 /\ heap.m_size \in HeapSizes
    <3>1. PICK region \in regions : TakenAs(heap, region) /\ RegionOK(region)
      BY DEF DeviceInv, HeapsInv
    <3>2. heap.m_size \in Nat \ {0} /\ heap.m_data \in Nat /\ FitsIn(heap, region)
      BY <3>1, TakenHeapFits
    <3> QED
      BY <3>1, <3>2, AlignmentAssumption DEF FitsIn, RegionOK, TakenAs
  <2>3. \A h \in Handles : IsOpen(h) =>
          handle[h].ordinal \in Ints /\ handle[h].has_memory \in BOOLEAN /\ m_kind # "unknown"
    BY DEF DeviceInv, KindInv, IsOpen
  <2> QED
    BY <2>1, <2>2, <2>3 DEF DeviceTypeOK, DeviceInv, SelectionInv, KindInv, MadeInv, ThreadsInv, Objects
<1> QED
  BY <1>1, AlwaysDeviceInv, PTL

\* For every number of threads, devices and handles, and every width of int:
\* queues, events and heaps are on the device their owner names
\* (device_guard around cuda_command_queue, event, device_memory_source).
THEOREM EverythingIsMadeWhereItBelongs == DeviceSpec => []MadeWhereItBelongs
<1>1. DeviceInv => MadeWhereItBelongs
  BY DEF DeviceInv, MadeInv, SourcesInv, SourceOK, MadeWhereItBelongs, RegionsOf
<1> QED
  BY <1>1, AlwaysDeviceInv, PTL

\* A call leaves its thread on the device it was on, or on the one the runtime
\* left it on (device_guard::~device_guard).
THEOREM SelectionIsAlwaysRestored == DeviceSpec => []SelectionIsRestored
<1>1. DeviceInv => SelectionIsRestored
  BY DEF DeviceInv, SelectionInv, SelectionIsRestored
<1> QED
  BY <1>1, AlwaysDeviceInv, PTL

\* For every pair of alignments of which one divides the other, heaps are
\* aligned, lie in their region and share no memory (memory_heap::memory_heap).
THEOREM HeapsAlwaysFit == DeviceSpec => []HeapsFitTheirRegions
<1>1. DeviceInv => HeapsFitTheirRegions
  BY HeapsInvImplies DEF DeviceInv
<1> QED
  BY <1>1, AlwaysDeviceInv, PTL

\* No region is leaked or given back twice (memory_heap::~memory_heap).
THEOREM RegionsAlwaysHaveOneHeap == DeviceSpec => []RegionsHaveOneHeap
<1>1. DeviceInv => RegionsHaveOneHeap
  BY HeapsInvImplies DEF DeviceInv
<1> QED
  BY <1>1, AlwaysDeviceInv, PTL

\* Memory asked for as a device's is on it, or is host memory it can reach
\* (cuda_device, pinned_memory_resource).
THEOREM LocalMemoryIsAlwaysReachable == DeviceSpec => []LocalMemoryIsReachable
<1>1. DeviceInv => LocalMemoryIsReachable
  BY DEF DeviceInv, SourcesInv, SourceOK, LocalMemoryIsReachable, RegionsOf
<1> QED
  BY <1>1, AlwaysDeviceInv, PTL
====
