---- MODULE StreamTimelineProofs ----
(***************************************************************************)
(* For every number of threads and streams, and with every call of the     *)
(* recorder free to throw: the points of a timeline stand for its commands *)
(* in order, no event is lost, shared or captured again under a thread     *)
(* that waits, and what the callers see is CommandTimeline.                *)
(***************************************************************************)
EXTENDS StreamTimeline, FiniteSetTheorems, FunctionTheorems, SequenceTheorems, TLAPS

Waiting == {"waiting", "end_wait", "end_failed_wait"}

ProgramCounters == Holding \cup Waiting \cup {"idle", "lock_record", "look_up"}

----------------------------------------------------------------------------
(* The invariant.                                                          *)

\* Ids stand for work that was given to the stream, in order.
WorldInv ==
    /\ stream \in [Streams -> Seq(SUBSET Points)] /\ done \in [Streams -> Nat]
    /\ \A s \in Streams : done[s] <= Len(stream[s])
    /\ commands \in [Streams -> Seq(Nat)]
    /\ \A s \in Streams : \A k \in 1..Len(commands[s]) : commands[s][k] <= Len(stream[s])
    /\ \A s \in Streams : \A j, k \in 1..Len(commands[s]) :
          j <= k => commands[s][j] <= commands[s][k]

\* What a thread is doing is what it was asked for, of a timeline that is there.
CallInv ==
    /\ asked \in [Threads -> Calls \cup {NoCall}]
    /\ answer \in [Threads -> Answers]
    /\ alive \subseteq Streams
    /\ pc \in [Threads -> ProgramCounters]
    /\ \A th \in Threads :
          /\ pc[th] = "idle" <=> asked[th] = NoCall
          /\ pc[th] # "idle" => TimelineOf(th) \in alive
          /\ pc[th] \in Holding \cup {"lock_record"} => asked[th].op = "record"
          /\ pc[th] = "look_up" => asked[th].op \in {"wait", "is_complete", "enqueue_wait"}
          /\ pc[th] \in Waiting => asked[th].op = "wait"

\* A lock is held by the one thread that is inside its critical section.
LockInv ==
    /\ m_mutex \in [Streams -> Threads \cup {NoThread}]
    /\ \A th \in Threads : pc[th] \in Holding => m_mutex[TimelineOf(th)] = th
    /\ \A s \in Streams :
          m_mutex[s] # NoThread => pc[m_mutex[s]] \in Holding /\ TimelineOf(m_mutex[s]) = s

IsAvailable(ticket) == \E i \in 1..Len(m_available) : m_available[i] = ticket

IsPoint(s, ticket) == \E i \in 1..Len(m_points[s]) : m_points[s][i] = ticket

IsInHands(ticket) == \E th \in Recorders : point[th] = ticket

Tickets == 1..Len(m_events)

OwnerTypes ==
    /\ m_events \in Seq(SUBSET Points) /\ m_room \in Nat /\ Len(m_events) <= m_room
    /\ m_available \in Seq(Tickets) /\ m_points \in [Streams -> Seq(Tickets)]
    /\ point \in [Threads -> Tickets \cup {NoTicket}]
    /\ \A th \in Threads : pc[th] \in {"capture", "keep"} \cup Waiting => point[th] \in Tickets

\* No ticket is twice in places of one kind.
GivenOnce ==
    /\ \A i, j \in 1..Len(m_available) : m_available[i] = m_available[j] => i = j
    /\ \A s \in Streams : \A i, j \in 1..Len(m_points[s]) : m_points[s][i] = m_points[s][j] => i = j
    /\ \A s, t \in Streams : s # t =>
          \A i \in 1..Len(m_points[s]), j \in 1..Len(m_points[t]) : m_points[s][i] # m_points[t][j]
    /\ \A th, other \in Recorders : point[th] = point[other] => th = other

\* None is in places of two kinds.
HeldOnce ==
    /\ \A s \in Streams : \A i \in 1..Len(m_points[s]) :
          ~IsAvailable(m_points[s][i]) /\ ~IsInHands(m_points[s][i])
    /\ \A th \in Recorders : ~IsAvailable(point[th])

AllHeld ==
    \A ticket \in Tickets :
        IsAvailable(ticket) \/ IsInHands(ticket) \/ \E s \in Streams : IsPoint(s, ticket)

OwnersInv == OwnerTypes /\ GivenOnce /\ HeldOnce /\ AllHeld

\* The points a timeline holds are those of its last commands.
PointsInv ==
    /\ m_first_id \in [Streams -> Nat]
    /\ \A s \in Streams \ alive : m_points[s] = <<>>
    /\ \A s \in alive :
          /\ m_first_id[s] + Len(m_points[s]) = Len(commands[s])
          /\ \A i \in 1..Len(m_points[s]) :
                m_events[m_points[s][i]] = {PointOf(s, m_first_id[s] + i - 1)}
          /\ \A id \in 0..m_first_id[s] - 1 : Reached(PointOf(s, id))

\* What was captured is no less than what was there when the call began, or
\* what any earlier command stands for.
HasCaptured(th, after) ==
    LET s == TimelineOf(th)
    IN  /\ m_events[point[th]] = {[stream |-> s, after |-> after]}
        /\ asked[th].since <= after /\ after <= Len(stream[s])
        /\ \A k \in 1..Len(commands[s]) : commands[s][k] <= after

CaptureOK(th) ==
    /\ asked[th].op = "record" => asked[th].since <= Len(stream[TimelineOf(th)])
    /\ pc[th] = "keep" => \E after \in Nat : HasCaptured(th, after)

CaptureInv == \A th \in Threads : CaptureOK(th)

\* Nothing is dropped while a thread waits, so what it looked up stays.
WaitOK(th) ==
    LET s == TimelineOf(th)
        id == IdOf(th)
    IN  /\ pc[th] \in Waiting => m_first_id[s] <= id /\ HasPoint(s, id)
        /\ pc[th] = "waiting" => point[th] = GetPoint(s, id)
        /\ pc[th] = "end_wait" => Reached(PointAsked(th))
        /\ pc[th] = "drop" => Waiters(s) = {}

WaitInv == \A th \in Threads : WaitOK(th)

CountInv ==
    /\ m_waiter_count \in [Streams -> Nat]
    /\ WaiterCountIsWaiters

TimelinesInv ==
    /\ WorldInv /\ CallInv /\ LockInv /\ OwnersInv
    /\ PointsInv /\ CaptureInv /\ WaitInv /\ CountInv

----------------------------------------------------------------------------
(* Calls.                                                                  *)

LEMMA CallFields ==
    ASSUME NEW call \in Calls
    PROVE  /\ call # NoCall /\ call.timeline \in Streams
           /\ call.op \in {"record", "wait", "is_complete", "enqueue_wait"}
           /\ call.op = "record" => call.since \in Nat
           /\ call.op # "record" => call.id \in Nat
           /\ call.op = "enqueue_wait" => call.waiter \in Streams
<1>1. CASE call \in [op : {"record"}, timeline : Streams, since : Nat]
  BY <1>1 DEF NoCall
<1>2. CASE call \in [op : {"wait", "is_complete"}, timeline : Streams, id : Nat]
  BY <1>2 DEF NoCall
<1>3. CASE call \in [op : {"enqueue_wait"}, timeline : Streams, id : Nat, waiter : Streams]
  BY <1>3 DEF NoCall
<1> QED
  BY <1>1, <1>2, <1>3 DEF Calls

LEMMA NoCallFields == NoCall.op = "none"
  BY DEF NoCall

\* What a thread that is in a call was asked for.
LEMMA ThreadIsAsked ==
    ASSUME CallInv, NEW th \in Threads, pc[th] # "idle"
    PROVE  asked[th] \in Calls /\ TimelineOf(th) \in Streams
  BY CallFields DEF CallInv, TimelineOf

----------------------------------------------------------------------------
(* What a step leaves alone.                                               *)

StreamsGrow == \A s \in Streams : Len(stream[s]) <= Len(stream'[s])

LEMMA WorldStays ==
    ASSUME WorldInv, UNCHANGED <<stream, done, commands>>
    PROVE  WorldInv' /\ StreamsGrow
  BY DEF WorldInv, StreamsGrow

LEMMA EnqueueKeepsWorld ==
    ASSUME WorldInv, NEW s \in Streams, NEW item \in SUBSET Points, Enqueue(s, item),
           UNCHANGED commands
    PROVE  WorldInv' /\ StreamsGrow
<1>1. /\ stream' = [stream EXCEPT ![s] = Append(stream[s], item)] /\ UNCHANGED done
      /\ stream[s] \in Seq(SUBSET Points)
  BY DEF Enqueue, WorldInv
<1>2. stream'[s] \in Seq(SUBSET Points) /\ Len(stream'[s]) = Len(stream[s]) + 1
  BY <1>1 DEF WorldInv
<1>3. stream' \in [Streams -> Seq(SUBSET Points)]
  BY <1>1, <1>2 DEF WorldInv
<1>4. \A t \in Streams : Len(stream[t]) \in Nat /\ Len(stream'[t]) \in Nat
                         /\ Len(stream[t]) <= Len(stream'[t])
  BY <1>1, <1>2 DEF WorldInv
<1> QED
  BY <1>1, <1>3, <1>4 DEF WorldInv, StreamsGrow

\* Nothing the owners are known by changed.
LEMMA OwnersStay ==
    ASSUME OwnersInv, m_events' \in Seq(SUBSET Points), Len(m_events') = Len(m_events),
           UNCHANGED <<m_available, m_points>>, Recorders' = Recorders,
           m_room' \in Nat, m_room <= m_room',
           point' \in [Threads -> Tickets \cup {NoTicket}],
           \A th \in Recorders : point'[th] = point[th],
           \A th \in Threads : pc'[th] \in {"capture", "keep"} \cup Waiting => point'[th] \in Tickets
    PROVE  OwnersInv'
<1>1. Tickets' = Tickets
  BY DEF Tickets
<1>2. OwnerTypes'
  BY <1>1 DEF OwnersInv, OwnerTypes
<1>3. GivenOnce'
  <2>1. m_available' = m_available /\ m_points' = m_points
    OBVIOUS
  <2>2. \A th, other \in Recorders : point'[th] = point'[other] => th = other
    BY DEF OwnersInv, GivenOnce
  <2> QED
    BY <2>1, <2>2 DEF OwnersInv, GivenOnce
<1>4. HeldOnce'
  BY <1>2 DEF OwnersInv, HeldOnce, IsAvailable, IsInHands, OwnerTypes
<1>5. AllHeld'
  BY <1>1 DEF OwnersInv, AllHeld, IsAvailable, IsInHands, IsPoint
<1> QED
  BY <1>2, <1>3, <1>4, <1>5 DEF OwnersInv

LEMMA PointsStay ==
    ASSUME PointsInv,
           UNCHANGED <<done, commands, alive, m_points, m_first_id, m_events>>
    PROVE  PointsInv'
  BY DEF PointsInv, PointOf, Reached

LEMMA CountStays ==
    ASSUME CountInv, UNCHANGED m_waiter_count, \A s \in Streams : Waiters(s)' = Waiters(s)
    PROVE  CountInv'
  BY DEF CountInv, WaiterCountIsWaiters

\* A thread that goes on with its call, and is no waiter before or after.
LEMMA WaitersStay ==
    ASSUME CallInv, NEW th \in Threads, UNCHANGED asked, pc[th] \notin Waiting,
           NEW to \in ProgramCounters \ Waiting, pc' = [pc EXCEPT ![th] = to]
    PROVE  \A s \in Streams : Waiters(s)' = Waiters(s)
  BY DEF Waiters, Calling, CallInv, Waiting

LEMMA NoWaitersAreNone ==
    ASSUME CountInv, NEW s \in Streams, m_waiter_count[s] = 0
    PROVE  Waiters(s) = {}
<1>1. Waiters(s) \subseteq Threads
  BY DEF Waiters, Calling
<1>2. IsFiniteSet(Waiters(s))
  BY <1>1, ThreadsAssumption, FS_Subset
<1> QED
  BY <1>2, FS_EmptySet DEF CountInv, WaiterCountIsWaiters

\* The end of a call, with or without the lock.
LEMMA ReturnKeepsCallInv ==
    ASSUME CallInv, NEW th \in Threads, pc' = [pc EXCEPT ![th] = "idle"],
           asked' = [asked EXCEPT ![th] = NoCall], UNCHANGED alive,
           NEW what \in Answers, answer' = [answer EXCEPT ![th] = what]
    PROVE  CallInv'
  BY NoCallFields DEF CallInv, ProgramCounters, Holding, Waiting, TimelineOf

LEMMA UnlockKeepsLockInv ==
    ASSUME CallInv, LockInv, NEW th \in Threads, pc[th] \in Holding,
           pc' = [pc EXCEPT ![th] = "idle"], asked' = [asked EXCEPT ![th] = NoCall],
           m_mutex' = [m_mutex EXCEPT ![TimelineOf(th)] = NoThread]
    PROVE  LockInv'
<1>1. TimelineOf(th) \in Streams /\ m_mutex[TimelineOf(th)] = th
  BY DEF CallInv, LockInv, Holding
<1> QED
  BY <1>1, NoThreadAssumption DEF LockInv, CallInv, TimelineOf, Holding

LEMMA ReturnKeepsLockInv ==
    ASSUME CallInv, LockInv, NEW th \in Threads, pc[th] \notin Holding,
           pc' = [pc EXCEPT ![th] = "idle"], asked' = [asked EXCEPT ![th] = NoCall],
           UNCHANGED m_mutex
    PROVE  LockInv'
  BY NoThreadAssumption DEF LockInv, CallInv, TimelineOf, Holding

LEMMA ReturnKeepsWaiters ==
    ASSUME CallInv, NEW th \in Threads, pc[th] \notin Waiting,
           pc' = [pc EXCEPT ![th] = "idle"], asked' = [asked EXCEPT ![th] = NoCall]
    PROVE  \A s \in Streams : Waiters(s)' = Waiters(s)
  BY NoCallFields DEF Waiters, Calling, CallInv, Waiting

\* The other threads' parts.
LEMMA OthersKeepCaptureOK ==
    ASSUME WorldInv, WorldInv', StreamsGrow, CallInv, CaptureInv, NEW other \in Threads,
           pc'[other] = pc[other], asked'[other] = asked[other],
           pc[other] = "keep" =>
               /\ m_events'[point'[other]] = m_events[point[other]]
               /\ commands'[TimelineOf(other)] = commands[TimelineOf(other)]
    PROVE  CaptureOK(other)'
<1> DEFINE s == TimelineOf(other)
<1>1. CASE asked[other].op # "record"
  BY <1>1 DEF CallInv, Holding, CaptureOK
<1>2. CASE asked[other].op = "record"
  <2>1. asked[other] \in Calls
    BY <1>2, NoCallFields DEF CallInv
  <2>2. asked[other].since \in Nat /\ s \in Streams
    BY <1>2, <2>1, CallFields DEF TimelineOf
  <2>3. Len(stream[s]) \in Nat /\ Len(stream'[s]) \in Nat /\ Len(stream[s]) <= Len(stream'[s])
    BY <2>2 DEF WorldInv, StreamsGrow
  <2>4. \A after \in Nat : pc[other] = "keep" /\ HasCaptured(other, after) => HasCaptured(other, after)'
    BY <2>2, <2>3 DEF HasCaptured, TimelineOf
  <2> QED
    BY <1>2, <2>2, <2>3, <2>4 DEF CaptureInv, CaptureOK, TimelineOf
<1> QED
  BY <1>1, <1>2

\* What a waiting thread knows of its timeline.
LEMMA WaiterKnows ==
    ASSUME WorldInv, CallInv, PointsInv, OwnersInv, WaitInv, NEW th \in Threads, pc[th] \in Waiting
    PROVE  LET s == TimelineOf(th)
               id == IdOf(th)
           IN  /\ s \in alive /\ s \in Streams /\ id \in Nat /\ m_first_id[s] \in Nat
               /\ asked[th] \in Calls
               /\ id - m_first_id[s] + 1 \in 1..Len(m_points[s])
               /\ id + 1 \in 1..Len(commands[s])
<1> DEFINE s == TimelineOf(th)
           id == IdOf(th)
<1>1. asked[th] \in Calls /\ s \in alive /\ asked[th].op = "wait"
  BY ThreadIsAsked DEF CallInv, Waiting
<1>2. s \in Streams /\ id \in Nat
  BY <1>1, CallFields DEF TimelineOf, IdOf
<1>3. m_first_id[s] \in Nat /\ Len(m_points[s]) \in Nat
      /\ m_first_id[s] + Len(m_points[s]) = Len(commands[s])
  BY <1>1, <1>2 DEF PointsInv, OwnersInv, OwnerTypes
<1>4. m_first_id[s] <= id /\ id - m_first_id[s] < Len(m_points[s])
  BY DEF WaitInv, WaitOK, HasPoint
<1> QED
  BY <1>1, <1>2, <1>3, <1>4

LEMMA OthersKeepWaitOK ==
    ASSUME WorldInv, WorldInv', CallInv, PointsInv, OwnersInv, OwnersInv', WaitInv,
           NEW other \in Threads,
           pc'[other] = pc[other], asked'[other] = asked[other],
           NEW s, s = TimelineOf(other),
           pc[other] \in Waiting =>
               /\ point'[other] = point[other] /\ m_first_id'[s] = m_first_id[s]
               /\ Len(m_points[s]) <= Len(m_points'[s])
               /\ \A i \in 1..Len(m_points[s]) : m_points'[s][i] = m_points[s][i]
               /\ \A k \in 1..Len(commands[s]) : commands'[s][k] = commands[s][k]
               /\ done[s] <= done'[s],
           pc[other] = "drop" => Waiters(s)' = {}
    PROVE  WaitOK(other)'
<1>1. PICK id : id = IdOf(other)
  OBVIOUS
<1>2. TimelineOf(other)' = s /\ IdOf(other)' = id
  BY <1>1 DEF TimelineOf, IdOf
<1>3. CASE pc[other] \in Waiting
  <2>1. /\ s \in alive /\ s \in Streams /\ id \in Nat /\ m_first_id[s] \in Nat
        /\ id - m_first_id[s] + 1 \in 1..Len(m_points[s])
        /\ id + 1 \in 1..Len(commands[s])
    BY <1>1, <1>3, WaiterKnows
  <2>2. Len(m_points[s]) \in Nat /\ Len(m_points'[s]) \in Nat
    BY <2>1 DEF OwnersInv, OwnerTypes
  <2>3. m_first_id[s] <= id /\ HasPoint(s, id) /\ HasPoint(s, id)'
    BY <1>1, <1>3, <2>1, <2>2 DEF HasPoint
  <2>4. GetPoint(s, id)' = GetPoint(s, id)
    BY <1>3, <2>1 DEF GetPoint
  <2>5. PointAsked(other) = PointOf(s, id) /\ PointAsked(other)' = PointOf(s, id)
    BY <1>1, <1>2, <1>3, <2>1 DEF PointAsked, PointOf, TimelineOf, IdOf
  <2>6. done[s] \in Nat /\ done'[s] \in Nat /\ commands[s][id + 1] \in Nat
    <3>1. done[s] \in Nat /\ done'[s] \in Nat /\ commands[s] \in Seq(Nat)
      BY <2>1 DEF WorldInv
    <3> QED
      BY <2>1, <3>1, ElementOfSeq
  <2>7. Reached(PointOf(s, id)) => PointOf(s, id).after <= done'[PointOf(s, id).stream]
    BY <1>3, <2>1, <2>6 DEF Reached, PointOf
  <2>8. pc[other] # "drop"
    BY <1>3 DEF Waiting
  <2>9. pc[other] = "waiting" => point[other] = GetPoint(s, id)
    BY <1>1 DEF WaitInv, WaitOK
  <2>10. pc[other] = "end_wait" => PointAsked(other)'.after <= done'[PointAsked(other)'.stream]
    BY <2>5, <2>7 DEF WaitInv, WaitOK, Reached
  <2> QED
    BY <1>1, <1>2, <1>3, <2>3, <2>4, <2>8, <2>9, <2>10 DEF WaitOK, Reached
<1>4. CASE pc[other] \notin Waiting
  BY <1>2, <1>4 DEF WaitOK, Waiting
<1> QED
  BY <1>3, <1>4

\* The other threads' parts, when none of what they know changed.
LEMMA UnchangedKeepsOK ==
    ASSUME WorldInv, WorldInv', StreamsGrow, CallInv, CaptureInv, PointsInv, OwnersInv,
           OwnersInv', WaitInv, NEW other \in Threads,
           pc'[other] = pc[other], asked'[other] = asked[other], point'[other] = point[other],
           pc[other] = "keep" => m_events'[point[other]] = m_events[point[other]],
           UNCHANGED <<done, commands, m_points, m_first_id>>,
           \A s \in Streams : Waiters(s)' = Waiters(s)
    PROVE  CaptureOK(other)' /\ WaitOK(other)'
<1> PICK s : s = TimelineOf(other)
  OBVIOUS
<1>1. CaptureOK(other)'
  BY OthersKeepCaptureOK
<1>2. pc[other] \in Waiting \/ pc[other] = "drop" => s \in Streams
  BY ThreadIsAsked DEF Waiting
<1>3. pc[other] = "drop" => Waiters(s)' = {}
  BY <1>2 DEF WaitInv, WaitOK
<1>4. pc[other] \in Waiting => Len(m_points[s]) \in Nat /\ done[s] \in Nat
  BY <1>2 DEF OwnersInv, OwnerTypes, WorldInv
<1>5. WaitOK(other)'
  BY <1>3, <1>4, OthersKeepWaitOK
<1> QED
  BY <1>1, <1>5

LEMMA IdleIsOK ==
    ASSUME NEW th \in Threads, pc'[th] = "idle", asked'[th] = NoCall
    PROVE  CaptureOK(th)' /\ WaitOK(th)'
  BY NoCallFields DEF CaptureOK, WaitOK, Waiting

\* A thread that goes on with its call.
LEMMA MoveKeepsCallInv ==
    ASSUME CallInv, NEW th \in Threads, UNCHANGED <<asked, answer, alive>>, pc[th] # "idle",
           NEW to, pc' = [pc EXCEPT ![th] = to],
           \/ to \in Holding /\ asked[th].op = "record"
           \/ to \in Waiting /\ asked[th].op = "wait"
    PROVE  CallInv'
<1>1. TimelineOf(th)' = TimelineOf(th) /\ \A other \in Threads : TimelineOf(other)' = TimelineOf(other)
  BY DEF TimelineOf
<1> QED
  BY <1>1 DEF CallInv, ProgramCounters, Holding, Waiting

LEMMA MoveKeepsLockInv ==
    ASSUME CallInv, LockInv, NEW th \in Threads, UNCHANGED <<asked, m_mutex>>,
           NEW to, pc' = [pc EXCEPT ![th] = to], pc[th] \in Holding <=> to \in Holding
    PROVE  LockInv'
<1>1. \A other \in Threads : TimelineOf(other)' = TimelineOf(other)
  BY DEF TimelineOf
<1> QED
  BY <1>1, NoThreadAssumption DEF LockInv, CallInv

\* No other thread is in a critical section of the timeline.
LEMMA HolderIsAlone ==
    ASSUME LockInv, NEW th \in Threads, NEW other \in Threads, pc[th] \in Holding,
           pc[other] \in Holding, TimelineOf(other) = TimelineOf(th)
    PROVE  other = th
  BY DEF LockInv

----------------------------------------------------------------------------
(* Calls that end without having changed anything.                         *)

PlainReturn(th) ==
    /\ pc[th] \in {"drop", "acquire", "look_up"}
    /\ pc' = [pc EXCEPT ![th] = "idle"] /\ point' = [point EXCEPT ![th] = NoTicket]
    /\ asked' = [asked EXCEPT ![th] = NoCall]
    /\ \E what \in Answers : answer' = [answer EXCEPT ![th] = what]
    /\ UNCHANGED <<alive, done, commands, m_points, m_first_id, m_waiter_count,
                   m_events, m_available>>
    /\ m_room' \in Nat /\ m_room <= m_room'
    /\ \/ pc[th] \in Holding /\ m_mutex' = [m_mutex EXCEPT ![TimelineOf(th)] = NoThread]
       \/ pc[th] \notin Holding /\ UNCHANGED m_mutex

LEMMA PlainReturnKeepsInv ==
    ASSUME TimelinesInv, WorldInv', StreamsGrow, NEW th \in Threads, PlainReturn(th)
    PROVE  TimelinesInv'
<1> USE DEF TimelinesInv, PlainReturn
<1>1. CallInv'
  BY ReturnKeepsCallInv
<1>2. LockInv'
  BY UnlockKeepsLockInv, ReturnKeepsLockInv
<1>3. Recorders' = Recorders
  BY DEF Recorders, CallInv
<1>4. OwnersInv'
  <2>1. point' \in [Threads -> Tickets \cup {NoTicket}]
    BY DEF OwnersInv, OwnerTypes
  <2>2. \A other \in Recorders : point'[other] = point[other]
    BY DEF Recorders, OwnersInv, OwnerTypes
  <2>3. \A other \in Threads : pc'[other] \in {"capture", "keep"} \cup Waiting
                                => point'[other] \in Tickets
    BY DEF OwnersInv, OwnerTypes, CallInv, Waiting
  <2>4. m_events' \in Seq(SUBSET Points) /\ Len(m_events') = Len(m_events)
    BY DEF OwnersInv, OwnerTypes
  <2> QED
    BY <1>3, <2>1, <2>2, <2>3, <2>4, OwnersStay
<1>5. PointsInv'
  BY PointsStay
<1>6. \A s \in Streams : Waiters(s)' = Waiters(s)
  BY ReturnKeepsWaiters DEF Waiting
<1>7. \A other \in Threads \ {th} : point'[other] = point[other]
  BY DEF OwnersInv, OwnerTypes
<1>8. \A other \in Threads \ {th} : pc'[other] = pc[other] /\ asked'[other] = asked[other]
  BY DEF CallInv
<1>9. \A other \in Threads \ {th} : CaptureOK(other)' /\ WaitOK(other)'
  BY <1>4, <1>6, <1>7, <1>8, UnchangedKeepsOK
<1>10. CaptureOK(th)' /\ WaitOK(th)'
  BY IdleIsOK DEF CallInv
<1>11. CaptureInv' /\ WaitInv'
  BY <1>9, <1>10 DEF CaptureInv, WaitInv
<1>12. CountInv'
  BY <1>6, CountStays
<1> QED
  BY <1>1, <1>2, <1>4, <1>5, <1>11, <1>12

LEMMA LargestOfTwo ==
    ASSUME NEW a \in Nat, NEW b \in Nat
    PROVE  Max({a, b}) \in Nat /\ a <= Max({a, b}) /\ b <= Max({a, b})
<1>1. \E x \in {a, b} : \A y \in {a, b} : x >= y
  <2>1. CASE a <= b
    BY <2>1
  <2>2. CASE b <= a
    BY <2>2
  <2> QED
    BY <2>1, <2>2
<1>2. Max({a, b}) \in {a, b} /\ \A y \in {a, b} : Max({a, b}) >= y
  BY <1>1 DEF Max
<1> QED
  BY <1>2

LEMMA AnswersAre ==
    /\ \A kind \in {"none", "done", "true", "false", "unknown id", "error"} : Is(kind) \in Answers
    /\ \A id \in Nat : [kind |-> "id", id |-> id] \in Answers
  BY DEF Is, Answers

LEMMA RecordFailsKeepsInv ==
    ASSUME TimelinesInv, NEW th \in Threads, RecordFails(th)
    PROVE  TimelinesInv'
<1>1. m_room' \in Nat /\ m_room <= m_room' /\ UNCHANGED <<m_events, m_available>>
  <2>1. m_room \in Nat /\ Len(m_events) + 1 \in Nat
    BY DEF TimelinesInv, OwnersInv, OwnerTypes
  <2> QED
    BY <2>1, LargestOfTwo DEF RecordFails, ReserveFails, CreateFails, Reserve, recorderVars
<1>2. WorldInv' /\ StreamsGrow
  BY WorldStays DEF RecordFails, streamVars, TimelinesInv
<1>3. PlainReturn(th)
  BY <1>1, AnswersAre
     DEF RecordFails, Return, Goto, Hold, Reply, Unlock, Holding, PlainReturn, streamVars
<1> QED
  BY <1>2, <1>3, PlainReturnKeepsInv

LEMMA LookedUpKeepsInv ==
    ASSUME TimelinesInv, NEW th \in Threads,
           \/ WaitKnownComplete(th) \/ TellIsComplete(th) \/ RefuseId(th) \/ AskingFails(th)
    PROVE  TimelinesInv'
<1>1. /\ pc[th] = "look_up" /\ pc' = [pc EXCEPT ![th] = "idle"]
      /\ point' = [point EXCEPT ![th] = NoTicket] /\ asked' = [asked EXCEPT ![th] = NoCall]
      /\ \E what \in Answers : answer' = [answer EXCEPT ![th] = what]
      /\ UNCHANGED <<alive, commands, membersVars, recorderVars, streamVars>>
  BY AnswersAre DEF WaitKnownComplete, TellIsComplete, RefuseId, AskingFails, Return, Goto, Hold,
                    Reply
<1>2. WorldInv' /\ StreamsGrow
  BY <1>1, WorldStays DEF streamVars, TimelinesInv
<1>3. m_room \in Nat
  BY DEF TimelinesInv, OwnersInv, OwnerTypes
<1>4. m_room' \in Nat /\ m_room <= m_room'
  BY <1>1, <1>3 DEF recorderVars
<1>5. PlainReturn(th)
  BY <1>1, <1>4 DEF membersVars, recorderVars, streamVars, Holding, PlainReturn
<1> QED
  BY <1>2, <1>5, PlainReturnKeepsInv

LEMMA EnqueueWaitKeepsInv ==
    ASSUME TimelinesInv, NEW th \in Threads, EnqueueWait(th), pc[th] = "look_up"
    PROVE  TimelinesInv'
<1> DEFINE s == TimelineOf(th)
           item == m_events[GetPoint(s, IdOf(th))]
<1>1. /\ pc' = [pc EXCEPT ![th] = "idle"]
      /\ point' = [point EXCEPT ![th] = NoTicket] /\ asked' = [asked EXCEPT ![th] = NoCall]
      /\ Is("done") \in Answers /\ answer' = [answer EXCEPT ![th] = Is("done")]
      /\ UNCHANGED <<alive, commands, membersVars, recorderVars>>
  BY AnswersAre DEF EnqueueWait, Return, Goto, Hold, Reply
<1>2. asked[th] \in Calls /\ s \in Streams /\ asked[th].op = "enqueue_wait"
  BY ThreadIsAsked DEF EnqueueWait, TimelinesInv
<1>3. asked[th].waiter \in Streams /\ IdOf(th) \in Nat
  BY <1>2, CallFields DEF IdOf
<1>4. ASSUME UNCHANGED streamVars
      PROVE  WorldInv' /\ StreamsGrow /\ UNCHANGED done
  BY <1>1, <1>4, WorldStays DEF streamVars, TimelinesInv
<1>5. ASSUME Enqueue(asked[th].waiter, item), ~IsKnownComplete(s, IdOf(th)), Tells(s, IdOf(th))
      PROVE  WorldInv' /\ StreamsGrow /\ UNCHANGED done
  <2>1. m_first_id[s] \in Nat /\ m_points[s] \in Seq(Tickets)
    BY <1>2 DEF TimelinesInv, PointsInv, OwnersInv, OwnerTypes
  <2>2. GetPoint(s, IdOf(th)) \in Tickets
    BY <1>3, <1>5, <2>1 DEF Tells, HasPoint, IsKnownComplete, GetPoint
  <2>3. item \in SUBSET Points
    BY <2>2 DEF TimelinesInv, OwnersInv, OwnerTypes, Tickets
  <2> HIDE DEF item
  <2>4. WorldInv' /\ StreamsGrow
    BY <1>1, <1>3, <1>5, <2>3, EnqueueKeepsWorld DEF TimelinesInv
  <2> QED
    BY <1>5, <2>4 DEF Enqueue
<1>6. WorldInv' /\ StreamsGrow /\ UNCHANGED done
  BY <1>4, <1>5 DEF EnqueueWait
<1>7. m_room \in Nat
  BY DEF TimelinesInv, OwnersInv, OwnerTypes
<1>8. m_room' \in Nat /\ m_room <= m_room'
  BY <1>1, <1>7 DEF recorderVars
<1>9. PlainReturn(th)
  BY <1>1, <1>6, <1>8 DEF membersVars, recorderVars, Holding, PlainReturn
<1> QED
  BY <1>6, <1>9, PlainReturnKeepsInv

----------------------------------------------------------------------------
(* Calls that begin, and the locks.                                        *)

LEMMA StartKeepsInv ==
    ASSUME TimelinesInv, NEW th \in Threads,
           StartRecord(th) \/ StartWait(th) \/ StartIsComplete(th) \/ StartEnqueueWait(th)
    PROVE  TimelinesInv'
<1> USE DEF TimelinesInv
<1>1. PICK call, to :
         /\ call \in Calls /\ call.timeline \in alive /\ asked[th] = NoCall
         /\ asked' = [asked EXCEPT ![th] = call]
         /\ answer' = [answer EXCEPT ![th] = Is("none")]
         /\ pc[th] = "idle" /\ pc' = [pc EXCEPT ![th] = to]
         /\ \/ to = "lock_record" /\ call.op = "record" /\ call.since <= Len(stream[call.timeline])
            \/ to = "look_up" /\ call.op \in {"wait", "is_complete", "enqueue_wait"}
         /\ UNCHANGED <<point, membersVars, recorderVars, commands, alive, stream, done>>
  <2>1. \A s \in Streams : Len(stream[s]) \in Nat /\ Len(commands[s]) \in Nat
    BY DEF WorldInv
  <2>2. ASSUME NEW s \in Streams, AskRecord(th, s), Begin(th, "lock_record")
        PROVE  [op |-> "record", timeline |-> s, since |-> Len(stream[s])] \in Calls
    BY <2>1 DEF Calls
  <2>3. \A s \in Streams : \A id \in AskedIds(s) :
            /\ [op |-> "wait", timeline |-> s, id |-> id] \in Calls
            /\ [op |-> "is_complete", timeline |-> s, id |-> id] \in Calls
            /\ \A waiter \in Streams :
                  [op |-> "enqueue_wait", timeline |-> s, id |-> id, waiter |-> waiter] \in Calls
    BY <2>1 DEF Calls, AskedIds
  <2>4. CASE StartRecord(th)
    <3> PICK s \in Streams : AskRecord(th, s) /\ Begin(th, "lock_record")
      BY <2>4 DEF StartRecord
    <3> DEFINE call == [op |-> "record", timeline |-> s, since |-> Len(stream[s])]
    <3>1. call \in Calls
      BY <2>2
    <3>2. call.op = "record" /\ call.timeline = s /\ call.since <= Len(stream[call.timeline])
      BY <2>1
    <3>3. Ask(th, call)
      BY DEF AskRecord
    <3> HIDE DEF call
    <3> QED
      BY <3>1, <3>2, <3>3 DEF Ask, Begin, Goto, streamVars
  <2>5. CASE StartWait(th)
    BY <2>3, <2>5 DEF StartWait, AskWait, Ask, Begin, Goto, streamVars
  <2>6. CASE StartIsComplete(th)
    BY <2>3, <2>6 DEF StartIsComplete, AskIsComplete, Ask, Begin, Goto, streamVars
  <2>7. CASE StartEnqueueWait(th)
    BY <2>3, <2>7 DEF StartEnqueueWait, AskEnqueueWait, Ask, Begin, Goto, streamVars
  <2> QED
    BY <2>4, <2>5, <2>6, <2>7
<1>2. UNCHANGED <<m_mutex, m_points, m_first_id, m_waiter_count, m_events, m_available, m_room>>
  BY <1>1 DEF membersVars, recorderVars
<1>3. WorldInv' /\ StreamsGrow
  BY <1>1, WorldStays
<1>4. CallInv'
  BY <1>1, AnswersAre, CallFields
     DEF CallInv, ProgramCounters, Holding, Waiting, TimelineOf
<1>5. LockInv'
  BY <1>1, <1>2, NoThreadAssumption DEF LockInv, CallInv, TimelineOf, Holding
<1>6. OwnersInv'
  <2>1. Recorders' = Recorders
    BY <1>1 DEF Recorders, CallInv
  <2>2. \A other \in Threads : pc'[other] \in {"capture", "keep"} \cup Waiting
                                => point'[other] \in Tickets
    BY <1>1 DEF OwnersInv, OwnerTypes, CallInv, Waiting
  <2>3. /\ point' \in [Threads -> Tickets \cup {NoTicket}] /\ m_room \in Nat
        /\ m_events' \in Seq(SUBSET Points) /\ Len(m_events') = Len(m_events)
    BY <1>1, <1>2 DEF OwnersInv, OwnerTypes
  <2> QED
    BY <1>1, <1>2, <2>1, <2>2, <2>3, OwnersStay
<1>7. PointsInv'
  BY <1>1, <1>2, PointsStay
<1>8. \A s \in Streams : Waiters(s)' = Waiters(s)
  BY <1>1, CallFields, NoCallFields DEF Waiters, Calling, CallInv
<1>9. CountInv'
  BY <1>2, <1>8, CountStays
<1>10. \A other \in Threads \ {th} : pc'[other] = pc[other] /\ asked'[other] = asked[other]
  BY <1>1 DEF CallInv
<1>11. \A other \in Threads \ {th} : CaptureOK(other)' /\ WaitOK(other)'
  BY <1>1, <1>2, <1>3, <1>6, <1>8, <1>10, UnchangedKeepsOK
<1>12. CaptureOK(th)' /\ WaitOK(th)'
  BY <1>1 DEF CaptureOK, WaitOK, CallInv, TimelineOf, Waiting
<1> QED
  BY <1>3, <1>4, <1>5, <1>6, <1>7, <1>9, <1>11, <1>12 DEF CaptureInv, WaitInv

LEMMA LockRecordKeepsInv ==
    ASSUME TimelinesInv, NEW th \in Threads, LockRecord(th)
    PROVE  TimelinesInv'
<1> PICK s : s = TimelineOf(th)
  OBVIOUS
<1> USE DEF TimelinesInv
<1>1. PICK to \in {"drop", "acquire"} :
         /\ pc[th] = "lock_record" /\ pc' = [pc EXCEPT ![th] = to]
         /\ to = "drop" => m_waiter_count[s] = 0
         /\ m_mutex[s] = NoThread /\ m_mutex' = [m_mutex EXCEPT ![s] = th]
         /\ UNCHANGED <<point, m_points, m_first_id, m_waiter_count, commands, asked, answer, alive,
                        m_events, m_available, m_room, stream, done>>
  BY DEF LockRecord, Goto, Lock, Unlocked, MayDrop, callerVars, recorderVars, streamVars
<1>2. /\ asked[th] \in Calls /\ s \in Streams /\ asked[th].op = "record"
      /\ \A other \in Threads : TimelineOf(other)' = TimelineOf(other)
  BY <1>1, ThreadIsAsked DEF CallInv, TimelineOf
<1>3. WorldInv' /\ StreamsGrow
  BY <1>1, WorldStays
<1>4. CallInv'
  BY <1>1, <1>2, MoveKeepsCallInv DEF Holding
<1>5. LockInv'
  BY <1>1, <1>2, NoThreadAssumption DEF LockInv, CallInv, Holding
<1>6. OwnersInv'
  <2>1. Recorders' = Recorders
    BY <1>1 DEF Recorders, CallInv
  <2>2. \A other \in Threads : pc'[other] \in {"capture", "keep"} \cup Waiting
                                => point'[other] \in Tickets
    BY <1>1 DEF OwnersInv, OwnerTypes, CallInv, Waiting
  <2>3. /\ point' \in [Threads -> Tickets \cup {NoTicket}] /\ m_room \in Nat
        /\ m_events' \in Seq(SUBSET Points) /\ Len(m_events') = Len(m_events)
    BY <1>1 DEF OwnersInv, OwnerTypes
  <2> QED
    BY <1>1, <2>1, <2>2, <2>3, OwnersStay
<1>7. PointsInv'
  BY <1>1, PointsStay
<1>8. \A t \in Streams : Waiters(t)' = Waiters(t)
  BY <1>1, WaitersStay DEF ProgramCounters, Holding, Waiting
<1>9. CountInv'
  BY <1>1, <1>8, CountStays
<1>10. \A other \in Threads \ {th} : CaptureOK(other)' /\ WaitOK(other)'
  BY <1>1, <1>3, <1>6, <1>8, UnchangedKeepsOK DEF CallInv
<1>11. to = "drop" => Waiters(s)' = {}
  BY <1>1, <1>2, <1>8, NoWaitersAreNone
<1>12. CaptureOK(th)' /\ WaitOK(th)'
  BY <1>1, <1>2, <1>11 DEF CaptureInv, CaptureOK, WaitOK, CallInv, Waiting
<1> QED
  BY <1>3, <1>4, <1>5, <1>6, <1>7, <1>9, <1>10, <1>12 DEF CaptureInv, WaitInv

LEMMA EndDropKeepsInv ==
    ASSUME TimelinesInv, NEW th \in Threads, EndDrop(th)
    PROVE  TimelinesInv'
<1> USE DEF TimelinesInv
<1>1. /\ pc[th] = "drop" /\ pc' = [pc EXCEPT ![th] = "acquire"]
      /\ UNCHANGED <<point, m_mutex, m_points, m_first_id, m_waiter_count, commands, asked, answer,
                     alive, m_events, m_available, m_room, stream, done>>
  BY DEF EndDrop, Goto, callerVars, recorderVars, streamVars, membersVars
<1>2. /\ asked[th].op = "record" /\ \A other \in Threads : TimelineOf(other)' = TimelineOf(other)
  BY <1>1 DEF CallInv, TimelineOf, Holding
<1>3. WorldInv' /\ StreamsGrow
  BY <1>1, WorldStays
<1>4. CallInv'
  BY <1>1, <1>2, MoveKeepsCallInv DEF Holding
<1>5. LockInv'
  BY <1>1, MoveKeepsLockInv DEF Holding
<1>6. OwnersInv'
  <2>1. Recorders' = Recorders
    BY <1>1 DEF Recorders, CallInv
  <2>2. \A other \in Threads : pc'[other] \in {"capture", "keep"} \cup Waiting
                                => point'[other] \in Tickets
    BY <1>1 DEF OwnersInv, OwnerTypes, CallInv, Waiting
  <2>3. /\ point' \in [Threads -> Tickets \cup {NoTicket}] /\ m_room \in Nat
        /\ m_events' \in Seq(SUBSET Points) /\ Len(m_events') = Len(m_events)
    BY <1>1 DEF OwnersInv, OwnerTypes
  <2> QED
    BY <1>1, <2>1, <2>2, <2>3, OwnersStay
<1>7. PointsInv'
  BY <1>1, PointsStay
<1>8. \A t \in Streams : Waiters(t)' = Waiters(t)
  BY <1>1, WaitersStay DEF ProgramCounters, Holding, Waiting
<1>9. CountInv'
  BY <1>1, <1>8, CountStays
<1>10. \A other \in Threads \ {th} : CaptureOK(other)' /\ WaitOK(other)'
  BY <1>1, <1>3, <1>6, <1>8, UnchangedKeepsOK DEF CallInv
<1>11. CaptureOK(th)' /\ WaitOK(th)'
  BY <1>1, <1>2 DEF CaptureInv, CaptureOK, WaitOK, CallInv, Waiting
<1> QED
  BY <1>3, <1>4, <1>5, <1>6, <1>7, <1>9, <1>10, <1>11 DEF CaptureInv, WaitInv
----------------------------------------------------------------------------
(* Waiting without a lock.                                                 *)

LEMMA WaitReturnsKeepsInv ==
    ASSUME TimelinesInv, NEW th \in Threads, WaitReturns(th)
    PROVE  TimelinesInv'
<1> PICK s : s = TimelineOf(th)
  OBVIOUS
<1> PICK id : id = IdOf(th)
  OBVIOUS
<1> USE DEF TimelinesInv
<1>1. PICK to \in {"end_wait", "end_failed_wait"} :
         /\ pc[th] = "waiting" /\ pc' = [pc EXCEPT ![th] = to]
         /\ to = "end_wait" => IsReached(point[th])
         /\ UNCHANGED <<point, m_mutex, m_points, m_first_id, m_waiter_count, commands, asked,
                        answer, alive, m_events, m_available, m_room, stream, done>>
  BY DEF WaitReturns, Goto, callerVars, recorderVars, streamVars, membersVars
<1>2. /\ asked[th].op = "wait" /\ pc'[th] = to
      /\ \A other \in Threads : TimelineOf(other)' = TimelineOf(other)
  BY <1>1 DEF CallInv, TimelineOf, Waiting
<1>3. WorldInv' /\ StreamsGrow
  BY <1>1, WorldStays
<1>4. CallInv'
  BY <1>1, <1>2, MoveKeepsCallInv DEF Waiting
<1>5. LockInv'
  BY <1>1, MoveKeepsLockInv DEF Holding
<1>6. OwnersInv'
  <2>1. Recorders' = Recorders
    BY <1>1 DEF Recorders, CallInv
  <2>2. \A other \in Threads : pc'[other] \in {"capture", "keep"} \cup Waiting
                                => point'[other] \in Tickets
    BY <1>1 DEF OwnersInv, OwnerTypes, CallInv, Waiting
  <2>3. /\ point' \in [Threads -> Tickets \cup {NoTicket}] /\ m_room \in Nat
        /\ m_events' \in Seq(SUBSET Points) /\ Len(m_events') = Len(m_events)
    BY <1>1 DEF OwnersInv, OwnerTypes
  <2> QED
    BY <1>1, <2>1, <2>2, <2>3, OwnersStay
<1>7. PointsInv'
  BY <1>1, PointsStay
<1>8. \A t \in Streams : Waiters(t)' = Waiters(t)
  BY <1>1 DEF Waiters, Calling, CallInv
<1>9. CountInv'
  BY <1>1, <1>8, CountStays
<1>10. \A other \in Threads \ {th} : CaptureOK(other)' /\ WaitOK(other)'
  BY <1>1, <1>3, <1>6, <1>8, UnchangedKeepsOK DEF CallInv
<1>11. /\ s \in alive /\ s \in Streams /\ id \in Nat /\ m_first_id[s] \in Nat
       /\ id - m_first_id[s] + 1 \in 1..Len(m_points[s])
  BY <1>1, WaiterKnows DEF Waiting
<1>12. /\ m_first_id[s] <= id /\ HasPoint(s, id) /\ point[th] = GetPoint(s, id)
  BY <1>1 DEF WaitInv, WaitOK, Waiting
<1>13. m_events[point[th]] = {PointAsked(th)}
  <2>1. m_events[GetPoint(s, id)] = {PointOf(s, m_first_id[s] + (id - m_first_id[s] + 1) - 1)}
    BY <1>11 DEF GetPoint, PointsInv
  <2>2. m_first_id[s] + (id - m_first_id[s] + 1) - 1 = id
    BY <1>11
  <2> QED
    BY <1>12, <2>1, <2>2 DEF PointAsked, TimelineOf, IdOf
<1>14. to = "end_wait" => Reached(PointAsked(th))
  BY <1>1, <1>13 DEF IsReached
<1>15. Reached(PointAsked(th))' <=> Reached(PointAsked(th))
  BY <1>1 DEF Reached, PointAsked, PointOf
<1>16. WaitOK(th)'
  <2>1. TimelineOf(th)' = s /\ IdOf(th)' = id
    BY <1>1 DEF TimelineOf, IdOf
  <2>2. HasPoint(s, id)' <=> HasPoint(s, id)
    BY <1>1 DEF HasPoint
  <2> QED
    BY <1>1, <1>2, <1>12, <1>14, <1>15, <2>1, <2>2 DEF WaitOK
<1>17. CaptureOK(th)'
  BY <1>1, <1>2 DEF CaptureOK
<1> QED
  BY <1>3, <1>4, <1>5, <1>6, <1>7, <1>9, <1>10, <1>16, <1>17 DEF CaptureInv, WaitInv

----------------------------------------------------------------------------
(* What the streams are given, and what they run.                          *)

\* Only the streams changed.
LEMMA StreamsOnlyKeepsInv ==
    ASSUME TimelinesInv, WorldInv', StreamsGrow, \A s \in Streams : done[s] <= done'[s],
           UNCHANGED <<membersVars, recorderVars, threadVars, callerVars>>
    PROVE  TimelinesInv'
<1> USE DEF TimelinesInv
<1>1. UNCHANGED <<point, pc, m_mutex, m_points, m_first_id, m_waiter_count, commands, asked,
                  answer, alive, m_events, m_available, m_room>>
  BY DEF membersVars, recorderVars, threadVars, callerVars
<1>2. CallInv'
  BY <1>1 DEF CallInv, TimelineOf
<1>3. LockInv'
  BY <1>1 DEF LockInv, TimelineOf
<1>4. OwnersInv'
  <2>1. Recorders' = Recorders
    BY <1>1 DEF Recorders
  <2>2. /\ point' \in [Threads -> Tickets \cup {NoTicket}] /\ m_room \in Nat
        /\ m_events' \in Seq(SUBSET Points) /\ Len(m_events') = Len(m_events)
        /\ \A th \in Threads : pc'[th] \in {"capture", "keep"} \cup Waiting => point'[th] \in Tickets
    BY <1>1 DEF OwnersInv, OwnerTypes
  <2> QED
    BY <1>1, <2>1, <2>2, OwnersStay
<1>5. \A s \in Streams : Waiters(s)' = Waiters(s)
  BY <1>1 DEF Waiters, Calling
<1>6. CountInv'
  BY <1>1, <1>5, CountStays
<1>7. PointsInv'
  <2>1. \A s \in alive : \A id \in 0..m_first_id[s] - 1 : Reached(PointOf(s, id))'
    <3> TAKE s \in alive
    <3> TAKE id \in 0..m_first_id[s] - 1
    <3>1. s \in Streams /\ m_first_id[s] \in Nat
      BY DEF CallInv, PointsInv
    <3>2. Len(commands[s]) \in Nat /\ commands[s] \in Seq(Nat) /\ Len(m_points[s]) \in Nat
          /\ done[s] \in Nat /\ done'[s] \in Nat
      BY <3>1 DEF WorldInv, OwnersInv, OwnerTypes
    <3>3. id + 1 \in 1..Len(commands[s])
      BY <3>1, <3>2 DEF PointsInv
    <3>4. commands[s][id + 1] \in Nat /\ commands[s][id + 1] <= done[s]
      BY <3>2, <3>3, ElementOfSeq DEF PointsInv, Reached, PointOf
    <3> QED
      BY <1>1, <3>1, <3>2, <3>4 DEF Reached, PointOf
  <2> QED
    BY <1>1, <2>1 DEF PointsInv, PointOf
<1>8. \A th \in Threads : CaptureOK(th)'
  BY <1>1, OthersKeepCaptureOK
<1>9. \A th \in Threads : WaitOK(th)'
  <2> TAKE th \in Threads
  <2> PICK s : s = TimelineOf(th)
    OBVIOUS
  <2>1. pc[th] \in Waiting \/ pc[th] = "drop" => s \in Streams
    BY ThreadIsAsked DEF Waiting
  <2>2. pc[th] = "drop" => Waiters(s)' = {}
    BY <1>5, <2>1 DEF WaitInv, WaitOK
  <2>3. pc[th] \in Waiting => Len(m_points[s]) \in Nat /\ done[s] <= done'[s]
    BY <2>1 DEF OwnersInv, OwnerTypes, WorldInv
  <2> QED
    BY <1>1, <1>4, <2>2, <2>3, OthersKeepWaitOK
<1> QED
  BY <1>2, <1>3, <1>4, <1>6, <1>7, <1>8, <1>9 DEF CaptureInv, WaitInv

LEMMA StreamsStepKeepsInv ==
    ASSUME TimelinesInv, NEW s \in Streams, LaunchWork(s) \/ RunStream(s)
    PROVE  TimelinesInv'
<1>1. ASSUME LaunchWork(s)
      PROVE  /\ WorldInv' /\ StreamsGrow /\ \A t \in Streams : done[t] <= done'[t]
             /\ UNCHANGED <<membersVars, recorderVars, threadVars, callerVars>>
  <2>1. Enqueue(s, Work) /\ UNCHANGED <<membersVars, recorderVars, threadVars, callerVars>>
    BY <1>1 DEF LaunchWork, Launch, callerVars
  <2>2. Work \in SUBSET Points
    BY DEF Work
  <2>3. WorldInv' /\ StreamsGrow
    BY <2>1, <2>2, EnqueueKeepsWorld DEF TimelinesInv, callerVars
  <2>4. \A t \in Streams : done[t] \in Nat
    BY DEF TimelinesInv, WorldInv
  <2> QED
    BY <2>1, <2>3, <2>4 DEF Enqueue
<1>2. ASSUME RunStream(s)
      PROVE  /\ WorldInv' /\ StreamsGrow /\ \A t \in Streams : done[t] <= done'[t]
             /\ UNCHANGED <<membersVars, recorderVars, threadVars, callerVars>>
  <2>1. /\ done[s] < Len(stream[s]) /\ done' = [done EXCEPT ![s] = @ + 1]
        /\ UNCHANGED <<stream, commands>>
        /\ UNCHANGED <<membersVars, recorderVars, threadVars, callerVars>>
    BY <1>2 DEF RunStream, Run, Advance, callerVars
  <2>2. \A t \in Streams : done[t] \in Nat /\ Len(stream[t]) \in Nat
    BY DEF TimelinesInv, WorldInv
  <2>3. done' \in [Streams -> Nat]
    BY <2>1, <2>2 DEF TimelinesInv, WorldInv
  <2>4. \A t \in Streams : done'[t] <= Len(stream[t]) /\ done[t] <= done'[t]
    BY <2>1, <2>2 DEF TimelinesInv, WorldInv
  <2>5. WorldInv'
    BY <2>1, <2>3, <2>4 DEF TimelinesInv, WorldInv
  <2> QED
    BY <2>1, <2>2, <2>4, <2>5 DEF StreamsGrow
<1> QED
  BY <1>1, <1>2, StreamsOnlyKeepsInv

LEMMA LookUpKeepsInv ==
    ASSUME TimelinesInv, NEW th \in Threads, LookUp(th)
    PROVE  TimelinesInv'
<1> PICK s : s = TimelineOf(th)
  OBVIOUS
<1> PICK id : id = IdOf(th)
  OBVIOUS
<1> USE DEF TimelinesInv
<1>1. /\ pc[th] = "look_up" /\ pc' = [pc EXCEPT ![th] = "waiting"]
      /\ asked[th].op = "wait" /\ m_mutex[s] = NoThread
      /\ ~IsKnownComplete(s, id) /\ HasPoint(s, id)
      /\ point' = [point EXCEPT ![th] = GetPoint(s, id)]
      /\ m_waiter_count' = [m_waiter_count EXCEPT ![s] = @ + 1]
      /\ UNCHANGED <<m_mutex, m_points, m_first_id, commands, asked, answer, alive, m_events,
                     m_available, m_room, stream, done>>
  BY DEF LookUp, Goto, Hold, Unlocked, callerVars, recorderVars, streamVars
<1>2. /\ asked[th] \in Calls /\ s \in Streams /\ s \in alive
      /\ \A other \in Threads : TimelineOf(other)' = TimelineOf(other)
  BY <1>1, ThreadIsAsked DEF CallInv, TimelineOf
<1>3. id \in Nat /\ m_first_id[s] \in Nat /\ m_points[s] \in Seq(Tickets)
  BY <1>1, <1>2, CallFields DEF IdOf, PointsInv, OwnersInv, OwnerTypes
<1>4. m_first_id[s] <= id /\ GetPoint(s, id) \in Tickets
  <2>1. m_first_id[s] <= id
    BY <1>1, <1>3 DEF IsKnownComplete
  <2>2. id - m_first_id[s] + 1 \in 1..Len(m_points[s])
    BY <1>1, <1>3, <2>1 DEF HasPoint
  <2> QED
    BY <1>3, <2>1, <2>2, ElementOfSeq DEF GetPoint
<1>5. WorldInv' /\ StreamsGrow
  BY <1>1, WorldStays
<1>6. CallInv'
  BY <1>1, MoveKeepsCallInv DEF Waiting
<1>7. LockInv'
  BY <1>1, MoveKeepsLockInv DEF Holding
<1>8. OwnersInv'
  <2>1. Recorders' = Recorders /\ th \notin Recorders
    BY <1>1 DEF Recorders, CallInv
  <2>2. \A other \in Threads : pc'[other] \in {"capture", "keep"} \cup Waiting
                                => point'[other] \in Tickets
    BY <1>1, <1>4 DEF OwnersInv, OwnerTypes, CallInv, Waiting
  <2>3. /\ point' \in [Threads -> Tickets \cup {NoTicket}] /\ m_room \in Nat
        /\ m_events' \in Seq(SUBSET Points) /\ Len(m_events') = Len(m_events)
        /\ \A other \in Threads \ {th} : point'[other] = point[other]
    BY <1>1, <1>4 DEF OwnersInv, OwnerTypes
  <2>4. \A other \in Recorders : point'[other] = point[other]
    BY <2>1, <2>3 DEF Recorders
  <2> QED
    BY <1>1, <2>1, <2>2, <2>3, <2>4, OwnersStay
<1>9. PointsInv'
  BY <1>1, PointsStay
<1>10. Waiters(s)' = Waiters(s) \cup {th} /\ th \notin Waiters(s)
  BY <1>1, <1>2, CallFields DEF Waiters, Calling, CallInv, TimelineOf
<1>11. \A t \in Streams \ {s} : Waiters(t)' = Waiters(t)
  BY <1>1 DEF Waiters, Calling, CallInv, TimelineOf
<1>12. CountInv'
  <2>1. IsFiniteSet(Waiters(s))
    <3>1. Waiters(s) \subseteq Threads
      BY DEF Waiters, Calling
    <3> QED
      BY <3>1, ThreadsAssumption, FS_Subset
  <2>2. Cardinality(Waiters(s)') = Cardinality(Waiters(s)) + 1
    BY <1>10, <2>1, FS_AddElement
  <2>3. m_waiter_count[s] \in Nat /\ m_waiter_count[s] = Cardinality(Waiters(s))
    BY <1>2 DEF CountInv, WaiterCountIsWaiters
  <2>4. m_waiter_count' \in [Streams -> Nat]
    BY <1>1, <1>2, <2>3 DEF CountInv
  <2>5. \A t \in Streams : m_waiter_count'[t] = Cardinality(Waiters(t)')
    BY <1>1, <1>2, <1>11, <2>2, <2>3 DEF CountInv, WaiterCountIsWaiters
  <2> QED
    BY <2>4, <2>5 DEF CountInv, WaiterCountIsWaiters
<1>13. \A other \in Threads \ {th} : CaptureOK(other)' /\ WaitOK(other)'
  <2> TAKE other \in Threads \ {th}
  <2>1. pc'[other] = pc[other] /\ asked'[other] = asked[other] /\ point'[other] = point[other]
    BY <1>1 DEF CallInv, OwnersInv, OwnerTypes
  <2>2. CaptureOK(other)'
    BY <1>1, <1>5, <2>1, OthersKeepCaptureOK
  <2> PICK t : t = TimelineOf(other)
    OBVIOUS
  <2>3. pc[other] \in Waiting \/ pc[other] = "drop" => t \in Streams
    BY ThreadIsAsked DEF Waiting
  <2>4. ASSUME pc[other] = "drop"
        PROVE  t # s
    BY <1>1, <2>4, NoThreadAssumption DEF LockInv, Holding
  <2>5. pc[other] = "drop" => Waiters(t)' = {}
    BY <1>11, <2>3, <2>4 DEF WaitInv, WaitOK
  <2>6. pc[other] \in Waiting => Len(m_points[t]) \in Nat /\ done[t] \in Nat
    BY <2>3 DEF OwnersInv, OwnerTypes, WorldInv
  <2>7. WaitOK(other)'
    BY <1>1, <1>5, <1>8, <2>1, <2>5, <2>6, OthersKeepWaitOK
  <2> QED
    BY <2>2, <2>7
<1>14. CaptureOK(th)'
  BY <1>1 DEF CaptureOK, CallInv
<1>15. WaitOK(th)'
  <2>1. TimelineOf(th)' = s /\ IdOf(th)' = id
    BY <1>1 DEF TimelineOf, IdOf
  <2>2. pc'[th] = "waiting" /\ point'[th] = GetPoint(s, id)
    BY <1>1 DEF CallInv, OwnersInv, OwnerTypes
  <2>3. HasPoint(s, id)' /\ GetPoint(s, id)' = GetPoint(s, id)
    BY <1>1 DEF HasPoint, GetPoint
  <2>4. m_first_id'[s] <= id
    BY <1>1, <1>4
  <2> QED
    BY <2>1, <2>2, <2>3, <2>4 DEF WaitOK
<1> QED
  BY <1>5, <1>6, <1>7, <1>8, <1>9, <1>12, <1>13, <1>14, <1>15 DEF CaptureInv, WaitInv

LEMMA EndWaitKeepsInv ==
    ASSUME TimelinesInv, NEW th \in Threads, EndWait(th)
    PROVE  TimelinesInv'
<1> PICK s : s = TimelineOf(th)
  OBVIOUS
<1> USE DEF TimelinesInv
<1>1. PICK what \in Answers :
         /\ pc[th] \in Waiting /\ pc' = [pc EXCEPT ![th] = "idle"]
         /\ point' = [point EXCEPT ![th] = NoTicket] /\ asked' = [asked EXCEPT ![th] = NoCall]
         /\ answer' = [answer EXCEPT ![th] = what]
         /\ m_waiter_count' = [m_waiter_count EXCEPT ![s] = m_waiter_count[s] - 1]
         /\ m_mutex[s] = NoThread
         /\ UNCHANGED <<m_mutex, m_points, m_first_id, commands, alive, m_events,
                        m_available, m_room, stream, done>>
  BY AnswersAre DEF EndWait, Return, Reply, Goto, Hold, Unlocked, CountWithout, recorderVars, streamVars, Waiting
<1>2. /\ asked[th] \in Calls /\ s \in Streams /\ th \notin Recorders /\ asked[th] # NoCall
  BY <1>1, ThreadIsAsked, CallFields DEF Recorders, Waiting
<1>3. WorldInv' /\ StreamsGrow
  BY <1>1, WorldStays
<1>4. CallInv'
  BY <1>1, ReturnKeepsCallInv
<1>5. LockInv'
  BY <1>1, ReturnKeepsLockInv DEF Holding, Waiting
<1>6. \A other \in Threads \ {th} :
         pc'[other] = pc[other] /\ asked'[other] = asked[other] /\ point'[other] = point[other]
  BY <1>1 DEF CallInv, OwnersInv, OwnerTypes
<1>7. OwnersInv'
  <2>1. Recorders' = Recorders
    BY <1>1, <1>2 DEF Recorders, CallInv
  <2>2. \A other \in Threads : pc'[other] \in {"capture", "keep"} \cup Waiting
                                => point'[other] \in Tickets
    BY <1>1 DEF OwnersInv, OwnerTypes, CallInv, Waiting
  <2>3. /\ point' \in [Threads -> Tickets \cup {NoTicket}] /\ m_room \in Nat
        /\ m_events' \in Seq(SUBSET Points) /\ Len(m_events') = Len(m_events)
    BY <1>1 DEF OwnersInv, OwnerTypes
  <2>4. \A other \in Recorders : point'[other] = point[other]
    BY <1>2, <1>6 DEF Recorders
  <2> QED
    BY <1>1, <2>1, <2>2, <2>3, <2>4, OwnersStay
<1>8. PointsInv'
  BY <1>1, PointsStay
<1>9. Waiters(s)' = Waiters(s) \ {th} /\ th \in Waiters(s)
  BY <1>1, <1>2, <1>6, NoCallFields DEF Waiters, Calling, CallInv, TimelineOf, Waiting
<1>10. \A t \in Streams \ {s} : Waiters(t)' = Waiters(t)
  BY <1>1, <1>2, <1>6 DEF Waiters, Calling, CallInv, TimelineOf, Waiting
<1>11. CountInv'
  <2>1. IsFiniteSet(Waiters(s))
    <3>1. Waiters(s) \subseteq Threads
      BY DEF Waiters, Calling
    <3> QED
      BY <3>1, ThreadsAssumption, FS_Subset
  <2>2. Cardinality(Waiters(s)') = Cardinality(Waiters(s)) - 1 /\ Cardinality(Waiters(s)') \in Nat
    BY <1>9, <2>1, FS_RemoveElement, FS_CardinalityType
  <2>3. m_waiter_count[s] = Cardinality(Waiters(s))
    BY <1>2 DEF CountInv, WaiterCountIsWaiters
  <2>4. m_waiter_count' \in [Streams -> Nat]
    BY <1>1, <1>2, <2>2, <2>3 DEF CountInv
  <2>5. \A t \in Streams : m_waiter_count'[t] = Cardinality(Waiters(t)')
    BY <1>1, <1>2, <1>10, <2>2, <2>3 DEF CountInv, WaiterCountIsWaiters
  <2> QED
    BY <2>4, <2>5 DEF CountInv, WaiterCountIsWaiters
<1>12. \A other \in Threads \ {th} : CaptureOK(other)' /\ WaitOK(other)'
  <2> TAKE other \in Threads \ {th}
  <2>1. CaptureOK(other)'
    BY <1>1, <1>3, <1>6, OthersKeepCaptureOK
  <2> PICK t : t = TimelineOf(other)
    OBVIOUS
  <2>2. pc[other] \in Waiting \/ pc[other] = "drop" => t \in Streams
    BY ThreadIsAsked DEF Waiting
  <2>3. ASSUME pc[other] = "drop"
        PROVE  t # s
    BY <1>1, <2>3, NoThreadAssumption DEF LockInv, Holding
  <2>4. pc[other] = "drop" => Waiters(t)' = {}
    BY <1>10, <2>2, <2>3 DEF WaitInv, WaitOK
  <2>5. pc[other] \in Waiting => Len(m_points[t]) \in Nat /\ done[t] \in Nat
    BY <2>2 DEF OwnersInv, OwnerTypes, WorldInv
  <2>6. WaitOK(other)'
    BY <1>1, <1>3, <1>6, <1>7, <2>4, <2>5, OthersKeepWaitOK
  <2> QED
    BY <2>1, <2>6
<1>13. CaptureOK(th)' /\ WaitOK(th)'
  BY <1>1, IdleIsOK DEF CallInv
<1> QED
  BY <1>3, <1>4, <1>5, <1>7, <1>8, <1>11, <1>12, <1>13 DEF CaptureInv, WaitInv

----------------------------------------------------------------------------
(* Events that are given back.                                             *)

LEMMA ReleaseAdds ==
    ASSUME OwnersInv, NEW tickets \in Seq(Tickets), ReleaseEvents(tickets),
           \A i, j \in 1..Len(tickets) : tickets[i] = tickets[j] => i = j,
           \A i \in 1..Len(tickets) : ~IsAvailable(tickets[i])
    PROVE  /\ m_available' \in Seq(Tickets)
           /\ \A i, j \in 1..Len(m_available') : m_available'[i] = m_available'[j] => i = j
           /\ \A ticket : IsAvailable(ticket)' <=>
                 IsAvailable(ticket) \/ \E i \in 1..Len(tickets) : tickets[i] = ticket
<1> DEFINE a == Len(m_available)
           t == Len(tickets)
           all == m_available'
<1>1. m_available \in Seq(Tickets) /\ a \in Nat /\ t \in Nat
  BY DEF OwnersInv, OwnerTypes
<1>2. /\ all \in Seq(Tickets) /\ Len(all) = a + t
      /\ \A i \in 1..a : all[i] = m_available[i]
      /\ \A i \in a + 1..a + t : all[i] = tickets[i - a]
  BY <1>1 DEF ReleaseEvents
<1>3. \A i \in a + 1..a + t : i - a \in 1..t
  BY <1>1
<1>4. \A i, j \in 1..Len(all) : all[i] = all[j] => i = j
  <2> SUFFICES ASSUME NEW i \in 1..a + t, NEW j \in 1..a + t, all[i] = all[j]
               PROVE  i = j
    BY <1>2
  <2>1. CASE i \in 1..a /\ j \in 1..a
    BY <1>2, <2>1 DEF OwnersInv, GivenOnce
  <2>2. CASE i \in 1..a /\ j \in a + 1..a + t
    BY <1>2, <1>3, <2>2 DEF IsAvailable
  <2>3. CASE i \in a + 1..a + t /\ j \in 1..a
    BY <1>2, <1>3, <2>3 DEF IsAvailable
  <2>4. CASE i \in a + 1..a + t /\ j \in a + 1..a + t
    <3>1. tickets[i - a] = tickets[j - a] /\ i - a \in 1..t /\ j - a \in 1..t
      BY <1>2, <1>3, <2>4
    <3>2. i - a = j - a
      BY <3>1
    <3> QED
      BY <1>1, <3>2
  <2> QED
    BY <1>1, <2>1, <2>2, <2>3, <2>4
<1>5. ASSUME NEW ticket
      PROVE  IsAvailable(ticket)' <=> IsAvailable(ticket) \/ \E i \in 1..t : tickets[i] = ticket
  <2>1. ASSUME IsAvailable(ticket)'
        PROVE  IsAvailable(ticket) \/ \E i \in 1..t : tickets[i] = ticket
    <3>1. PICK i \in 1..a + t : all[i] = ticket
      BY <1>2, <2>1 DEF IsAvailable
    <3>2. CASE i \in 1..a
      BY <1>2, <3>1, <3>2 DEF IsAvailable
    <3>3. CASE i \in a + 1..a + t
      BY <1>2, <1>3, <3>1, <3>3
    <3> QED
      BY <1>1, <3>2, <3>3
  <2>2. ASSUME IsAvailable(ticket)
        PROVE  IsAvailable(ticket)'
    <3>1. PICK i \in 1..a : m_available[i] = ticket
      BY <2>2 DEF IsAvailable
    <3>2. i \in 1..Len(all) /\ all[i] = ticket
      BY <1>1, <1>2, <3>1
    <3> QED
      BY <3>2 DEF IsAvailable
  <2>3. ASSUME NEW i \in 1..t, tickets[i] = ticket
        PROVE  IsAvailable(ticket)'
    <3>1. i + a \in a + 1..a + t /\ i + a \in 1..Len(all) /\ (i + a) - a = i
      BY <1>1, <1>2
    <3>2. all[i + a] = ticket
      BY <1>2, <2>3, <3>1
    <3> QED
      BY <3>1, <3>2 DEF IsAvailable
  <2> QED
    BY <2>1, <2>2, <2>3
<1> QED
  BY <1>2, <1>4, <1>5

\* A timeline gives back the first `n` of its points.
LEMMA PointsGivenBack ==
    ASSUME OwnersInv, NEW s \in Streams, NEW n \in 0..Len(m_points[s]),
           NEW tickets \in Seq(Tickets), Len(tickets) = n,
           \A i \in 1..n : tickets[i] = m_points[s][i],
           m_points' \in [Streams -> Seq(Tickets)],
           \A t \in Streams \ {s} : m_points'[t] = m_points[t],
           Len(m_points'[s]) = Len(m_points[s]) - n,
           \A i \in 1..Len(m_points'[s]) : m_points'[s][i] = m_points[s][i + n],
           ReleaseEvents(tickets), UNCHANGED <<point, pc>>
    PROVE  OwnersInv'
<1> USE DEF OwnersInv
<1>1. m_points[s] \in Seq(Tickets) /\ Len(m_points[s]) \in Nat /\ n \in Nat
  BY DEF OwnerTypes
<1>2. /\ \A i \in 1..n : i \in 1..Len(m_points[s])
      /\ \A i \in 1..Len(m_points'[s]) : i + n \in 1..Len(m_points[s]) /\ i + n \notin 1..n
  BY <1>1
<1>3. /\ \A i, j \in 1..Len(tickets) : tickets[i] = tickets[j] => i = j
      /\ \A i \in 1..Len(tickets) : ~IsAvailable(tickets[i])
  <2>1. \A i, j \in 1..Len(m_points[s]) : m_points[s][i] = m_points[s][j] => i = j
    BY DEF GivenOnce
  <2>2. \A i \in 1..Len(m_points[s]) : ~IsAvailable(m_points[s][i])
    BY DEF HeldOnce
  <2>3. \A i \in 1..Len(tickets) : i \in 1..n /\ tickets[i] = m_points[s][i]
    OBVIOUS
  <2>4. ASSUME NEW i \in 1..Len(tickets), NEW j \in 1..Len(tickets), tickets[i] = tickets[j]
        PROVE  i = j
    BY <1>2, <2>1, <2>3, <2>4
  <2> QED
    BY <1>2, <2>2, <2>3, <2>4
<1>4. /\ m_available' \in Seq(Tickets)
      /\ \A i, j \in 1..Len(m_available') : m_available'[i] = m_available'[j] => i = j
      /\ \A ticket : IsAvailable(ticket)' <=>
            IsAvailable(ticket) \/ \E i \in 1..n : m_points[s][i] = ticket
  <2>1. /\ m_available' \in Seq(Tickets)
        /\ \A i, j \in 1..Len(m_available') : m_available'[i] = m_available'[j] => i = j
        /\ \A ticket : IsAvailable(ticket)' <=>
              IsAvailable(ticket) \/ \E i \in 1..Len(tickets) : tickets[i] = ticket
    BY <1>3, ReleaseAdds
  <2>2. \A ticket : (\E i \in 1..Len(tickets) : tickets[i] = ticket)
                     <=> \E i \in 1..n : m_points[s][i] = ticket
    OBVIOUS
  <2> QED
    BY <2>1, <2>2
<1>5. /\ Tickets' = Tickets /\ Recorders' = Recorders /\ UNCHANGED <<m_events, m_room>>
      /\ \A ticket : IsInHands(ticket)' = IsInHands(ticket)
  BY DEF Tickets, Recorders, IsInHands, ReleaseEvents
<1>6. OwnerTypes'
  BY <1>4, <1>5 DEF OwnerTypes
<1>7. \A t \in Streams : \A i \in 1..Len(m_points'[t]) :
         \E k \in 1..Len(m_points[t]) :
             m_points'[t][i] = m_points[t][k] /\ (t = s => k \notin 1..n)
  <2> TAKE t \in Streams
  <2>1. CASE t = s
    BY <1>2, <2>1
  <2>2. CASE t # s
    BY <2>2
  <2> QED
    BY <2>1, <2>2
<1>8. GivenOnce'
  <2>1. ASSUME NEW t \in Streams, NEW i \in 1..Len(m_points'[t]), NEW j \in 1..Len(m_points'[t]),
               m_points'[t][i] = m_points'[t][j]
        PROVE  i = j
    <3>1. CASE t = s
      <4>1. m_points[s][i + n] = m_points[s][j + n]
            /\ i + n \in 1..Len(m_points[s]) /\ j + n \in 1..Len(m_points[s])
        BY <1>2, <2>1, <3>1
      <4>2. i + n = j + n
        BY <4>1 DEF GivenOnce
      <4> QED
        BY <1>1, <4>2
    <3>2. CASE t # s
      BY <2>1, <3>2 DEF GivenOnce
    <3> QED
      BY <3>1, <3>2
  <2>2. ASSUME NEW t \in Streams, NEW u \in Streams, t # u,
               NEW i \in 1..Len(m_points'[t]), NEW j \in 1..Len(m_points'[u])
        PROVE  m_points'[t][i] # m_points'[u][j]
    <3>0. \A v \in Streams : \A h \in 1..Len(m_points'[v]) :
             \E k \in 1..Len(m_points[v]) : m_points'[v][h] = m_points[v][k]
      BY ONLY <1>7
    <3>1. PICK k \in 1..Len(m_points[t]) : m_points'[t][i] = m_points[t][k]
      <4> t \in Streams /\ i \in 1..Len(m_points'[t])
        BY <2>2
      <4> QED
        BY ONLY <3>0, t \in Streams, i \in 1..Len(m_points'[t])
    <3>2. PICK l \in 1..Len(m_points[u]) : m_points'[u][j] = m_points[u][l]
      <4> u \in Streams /\ j \in 1..Len(m_points'[u])
        BY <2>2
      <4> QED
        BY ONLY <3>0, u \in Streams, j \in 1..Len(m_points'[u])
    <3>3. m_points[t][k] # m_points[u][l]
      <4>1. \A v, w \in Streams : v # w =>
                \A h \in 1..Len(m_points[v]), g \in 1..Len(m_points[w]) :
                    m_points[v][h] # m_points[w][g]
        BY Zenon DEF GivenOnce
      <4>2. t \in Streams /\ u \in Streams /\ t # u
        BY <2>2
      <4> QED
        BY Zenon, <4>1, <4>2
    <3> QED
      BY <3>1, <3>2, <3>3
  <2>3. \A th, other \in Recorders' : point'[th] = point'[other] => th = other
    BY <1>5 DEF GivenOnce
  <2> QED
    BY <1>4, <2>1, <2>2, <2>3 DEF GivenOnce
<1>9. HeldOnce'
  <2>1. ASSUME NEW t \in Streams, NEW i \in 1..Len(m_points'[t]), NEW ticket,
               ticket = m_points'[t][i]
        PROVE  ~IsAvailable(ticket)' /\ ~IsInHands(ticket)'
    <3>1. PICK k \in 1..Len(m_points[t]) :
             m_points'[t][i] = m_points[t][k] /\ (t = s => k \notin 1..n)
      BY <1>7
    <3>2. ~IsAvailable(m_points[t][k]) /\ ~IsInHands(m_points[t][k])
      BY <3>1 DEF HeldOnce
    <3>3. \A j \in 1..n : m_points[s][j] # m_points[t][k]
      BY <1>2, <3>1 DEF GivenOnce
    <3> QED
      BY <1>4, <1>5, <2>1, <3>1, <3>2, <3>3
  <2>2. ASSUME NEW th \in Recorders, NEW ticket, ticket = point[th]
        PROVE  ~IsAvailable(ticket)'
    <3>1. ~IsAvailable(point[th]) /\ \A i \in 1..n : m_points[s][i] # point[th]
      BY <1>2 DEF HeldOnce, IsInHands
    <3> QED
      BY <1>4, <2>2, <3>1
  <2>3. \A th \in Recorders' : ~IsAvailable(point[th])'
    BY <1>5, <2>2 DEF IsAvailable
  <2>4. \A t \in Streams : \A i \in 1..Len(m_points'[t]) :
            ~IsAvailable(m_points[t][i])' /\ ~IsInHands(m_points[t][i])'
    BY <2>1 DEF IsAvailable, IsInHands
  <2> QED
    BY <2>3, <2>4 DEF HeldOnce
<1>10. AllHeld'
  <2> SUFFICES ASSUME NEW ticket \in Tickets
               PROVE  (IsAvailable(ticket) \/ IsInHands(ticket) \/ \E t \in Streams : IsPoint(t, ticket))'
    BY <1>5 DEF AllHeld
  <2>1. CASE IsAvailable(ticket) \/ IsInHands(ticket)
    BY <1>4, <1>5, <2>1
  <2>2. ASSUME NEW t \in Streams, NEW k \in 1..Len(m_points[t]), m_points[t][k] = ticket
        PROVE  IsAvailable(ticket)' \/ IsPoint(t, ticket)'
    <3>1. CASE t # s
      BY <2>2, <3>1 DEF IsPoint
    <3>2. CASE t = s /\ k \in 1..n
      BY <1>4, <2>2, <3>2
    <3>3. CASE t = s /\ k \notin 1..n
      <4>1. k - n \in 1..Len(m_points'[s]) /\ (k - n) + n = k
        BY <1>1, <2>2, <3>3
      <4> QED
        BY <2>2, <3>3, <4>1 DEF IsPoint
    <3> QED
      BY <3>1, <3>2, <3>3
  <2> QED
    BY <2>1, <2>2 DEF AllHeld, IsPoint
<1> QED
  BY <1>6, <1>8, <1>9, <1>10

\* A thread that waits for a command of a timeline is one of its waiters.
LEMMA WaitingIsWaiter ==
    ASSUME CallInv, NEW th \in Threads, pc[th] \in Waiting
    PROVE  th \in Waiters(TimelineOf(th))
  BY ThreadIsAsked, CallFields DEF Waiters, Calling, Waiting, TimelineOf

LEMMA DropReachedPointKeepsInv ==
    ASSUME TimelinesInv, NEW th \in Threads, DropReachedPoint(th)
    PROVE  TimelinesInv'
<1> PICK s : s = TimelineOf(th)
  OBVIOUS
<1> USE DEF TimelinesInv
<1>1. /\ pc[th] = "drop" /\ m_points[s] # <<>> /\ IsReached(Head(m_points[s]))
      /\ ReleaseEvents(<<Head(m_points[s])>>)
      /\ m_points' = [m_points EXCEPT ![s] = Tail(@)]
      /\ m_first_id' = [m_first_id EXCEPT ![s] = m_first_id[s] + 1]
      /\ UNCHANGED <<m_mutex, m_waiter_count, point, pc, commands, asked, answer, alive,
                     m_events, m_room, stream, done>>
  BY DEF DropReachedPoint, FirstIsReached, NextFirstId, ReleaseEvents, threadVars, callerVars,
         streamVars
<1>2. s \in Streams /\ s \in alive
  BY <1>1, ThreadIsAsked DEF CallInv
<1>3. /\ m_points[s] \in Seq(Tickets) /\ Len(m_points[s]) \in Nat \ {0}
      /\ m_points \in [Streams -> Seq(Tickets)]
      /\ m_first_id[s] \in Nat /\ m_first_id \in [Streams -> Nat]
  BY <1>1, <1>2 DEF OwnersInv, OwnerTypes, PointsInv
<1>4. /\ Head(m_points[s]) = m_points[s][1] /\ Head(m_points[s]) \in Tickets
      /\ m_points'[s] \in Seq(Tickets) /\ Len(m_points'[s]) = Len(m_points[s]) - 1
      /\ \A i \in 1..Len(m_points'[s]) : m_points'[s][i] = m_points[s][i + 1]
  BY <1>1, <1>2, <1>3, HeadTailProperties
<1>5. m_points' \in [Streams -> Seq(Tickets)] /\ \A t \in Streams \ {s} : m_points'[t] = m_points[t]
  BY <1>1, <1>3, <1>4
<1>6. WorldInv' /\ StreamsGrow
  BY <1>1, WorldStays
<1>7. CallInv'
  BY <1>1 DEF CallInv, TimelineOf
<1>8. LockInv'
  BY <1>1 DEF LockInv, TimelineOf
<1>9. OwnersInv'
  <2> DEFINE tickets == <<Head(m_points[s])>>
  <2>1. tickets \in Seq(Tickets) /\ Len(tickets) = 1 /\ \A i \in 1..1 : tickets[i] = m_points[s][i]
    BY <1>4
  <2>2. 1 \in 0..Len(m_points[s])
    BY <1>3
  <2>3. ReleaseEvents(tickets)
    BY <1>1
  <2> HIDE DEF tickets
  <2> QED
    BY <1>1, <1>2, <1>4, <1>5, <2>1, <2>2, <2>3, PointsGivenBack
<1>10. PointsInv'
  <2>1. m_first_id' \in [Streams -> Nat] /\ m_first_id'[s] = m_first_id[s] + 1
    BY <1>1, <1>2, <1>3
  <2>2. \A t \in alive \ {s} : /\ t \in Streams
                               /\ m_first_id'[t] = m_first_id[t] /\ m_points'[t] = m_points[t]
    BY <1>1, <1>5 DEF CallInv, PointsInv
  <2>4. m_first_id'[s] + Len(m_points'[s]) = Len(commands[s])
    <3>1. m_first_id[s] + Len(m_points[s]) = Len(commands[s])
      BY <1>2 DEF PointsInv
    <3> QED
      BY <1>3, <1>4, <2>1, <3>1
  <2>5. ASSUME NEW i \in 1..Len(m_points'[s])
        PROVE  m_events[m_points'[s][i]] = {PointOf(s, m_first_id'[s] + i - 1)}
    <3>1. i + 1 \in 1..Len(m_points[s]) /\ m_first_id[s] + (i + 1) - 1 = m_first_id'[s] + i - 1
      BY <1>3, <1>4, <2>1
    <3>2. m_events[m_points[s][i + 1]] = {PointOf(s, m_first_id[s] + (i + 1) - 1)}
      BY <1>2, <3>1 DEF PointsInv
    <3> QED
      BY <1>4, <3>1, <3>2
  <2>6. ASSUME NEW id \in 0..m_first_id'[s] - 1
        PROVE  Reached(PointOf(s, id))
    <3>1. CASE id \in 0..m_first_id[s] - 1
      BY <1>2, <3>1 DEF PointsInv
    <3>2. CASE id = m_first_id[s]
      <4>1. 1 \in 1..Len(m_points[s]) /\ m_first_id[s] + 1 - 1 = id
        BY <1>3, <3>2
      <4>2. m_events[m_points[s][1]] = {PointOf(s, m_first_id[s] + 1 - 1)}
        BY <1>2, <4>1 DEF PointsInv
      <4> QED
        BY <1>1, <1>4, <4>1, <4>2 DEF IsReached
    <3> QED
      BY <1>3, <2>1, <3>1, <3>2
  <2>7. \A t \in Streams \ alive : m_points'[t] = <<>>
    BY <1>2, <1>5 DEF PointsInv
  <2>8. ASSUME NEW t \in alive, t # s
        PROVE  /\ m_first_id'[t] + Len(m_points'[t]) = Len(commands[t])
               /\ \A i \in 1..Len(m_points'[t]) :
                     m_events[m_points'[t][i]] = {PointOf(t, m_first_id'[t] + i - 1)}
               /\ \A id \in 0..m_first_id'[t] - 1 : Reached(PointOf(t, id))
    <3> PICK first, points : first = m_first_id[t] /\ points = m_points[t]
      OBVIOUS
    <3>1. m_first_id'[t] = first /\ m_points'[t] = points
      BY <2>2, <2>8
    <3>2. /\ first + Len(points) = Len(commands[t])
          /\ \A i \in 1..Len(points) : m_events[points[i]] = {PointOf(t, first + i - 1)}
          /\ \A id \in 0..first - 1 : Reached(PointOf(t, id))
      BY DEF PointsInv
    <3> QED
      BY <3>1, <3>2
  <2>9. \A t \in alive :
            /\ m_first_id'[t] + Len(m_points'[t]) = Len(commands[t])
            /\ \A i \in 1..Len(m_points'[t]) :
                  m_events[m_points'[t][i]] = {PointOf(t, m_first_id'[t] + i - 1)}
            /\ \A id \in 0..m_first_id'[t] - 1 : Reached(PointOf(t, id))
    BY <2>4, <2>5, <2>6, <2>8
  <2> HIDE DEF TimelinesInv
  <2> QED
    BY <1>1, <2>1, <2>7, <2>9 DEF PointsInv, PointOf, Reached
<1>11. \A t \in Streams : Waiters(t)' = Waiters(t)
  BY <1>1 DEF Waiters, Calling
<1>12. CountInv'
  BY <1>1, <1>11, CountStays
<1>13. \A other \in Threads : CaptureOK(other)'
  BY <1>1, <1>6, OthersKeepCaptureOK
<1>14. \A other \in Threads : WaitOK(other)'
  <2> TAKE other \in Threads
  <2> PICK t : t = TimelineOf(other)
    OBVIOUS
  <2>1. pc[other] \in Waiting \/ pc[other] = "drop" => t \in Streams
    BY ThreadIsAsked DEF Waiting
  <2>2. pc[other] = "drop" => Waiters(t)' = {}
    BY <1>11, <2>1 DEF WaitInv, WaitOK
  <2>3. ASSUME pc[other] \in Waiting
        PROVE  t # s
    <3>1. other \in Waiters(t)
      BY <2>3, WaitingIsWaiter
    <3>2. Waiters(s) = {}
      BY <1>1 DEF WaitInv, WaitOK
    <3> QED
      BY <3>1, <3>2
  <2>4. pc[other] \in Waiting =>
           /\ m_first_id'[t] = m_first_id[t] /\ m_points'[t] = m_points[t]
           /\ Len(m_points[t]) \in Nat /\ done[t] \in Nat
    BY <1>1, <1>3, <1>5, <2>1, <2>3 DEF WorldInv
  <2>5. pc[other] \in Waiting =>
           /\ point'[other] = point[other] /\ m_first_id'[t] = m_first_id[t]
           /\ Len(m_points[t]) <= Len(m_points'[t])
           /\ \A i \in 1..Len(m_points[t]) : m_points'[t][i] = m_points[t][i]
           /\ \A k \in 1..Len(commands[t]) : commands'[t][k] = commands[t][k]
           /\ done[t] <= done'[t]
    <3> SUFFICES ASSUME pc[other] \in Waiting
                 PROVE  /\ point'[other] = point[other] /\ m_first_id'[t] = m_first_id[t]
                        /\ m_points'[t] = m_points[t] /\ Len(m_points[t]) \in Nat
                        /\ commands'[t] = commands[t] /\ done[t] <= done'[t]
      OBVIOUS
    <3> QED
      BY <1>1, <2>4
  <2> QED
    BY <1>1, <1>6, <1>9, <2>2, <2>5, OthersKeepWaitOK
<1> QED
  BY <1>6, <1>7, <1>8, <1>9, <1>10, <1>12, <1>13, <1>14 DEF CaptureInv, WaitInv

LEMMA DestroyKeepsInv ==
    ASSUME TimelinesInv, NEW s \in Streams, Destroy(s)
    PROVE  TimelinesInv'
<1> USE DEF TimelinesInv
<1>1. /\ s \in alive /\ Calling(s) = {} /\ alive' = alive \ {s}
      /\ ReleaseEvents(m_points[s]) /\ m_points' = [m_points EXCEPT ![s] = <<>>]
      /\ UNCHANGED <<m_mutex, m_first_id, m_waiter_count, point, pc, commands, asked, answer,
                     m_events, m_room, stream, done>>
  BY DEF Destroy, Forget, ReleaseEvents, threadVars, streamVars
<1>2. \A th \in Threads : pc[th] # "idle" => TimelineOf(th) # s /\ TimelineOf(th) \in Streams
  BY <1>1, ThreadIsAsked DEF Calling, CallInv, TimelineOf
<1>3. m_points[s] \in Seq(Tickets) /\ Len(m_points[s]) \in Nat /\ m_points \in [Streams -> Seq(Tickets)]
  BY DEF OwnersInv, OwnerTypes
<1>4. /\ m_points' \in [Streams -> Seq(Tickets)] /\ m_points'[s] = <<>> /\ Len(m_points'[s]) = 0
      /\ \A t \in Streams \ {s} : m_points'[t] = m_points[t]
  BY <1>1, <1>3
<1>5. WorldInv' /\ StreamsGrow
  BY <1>1, WorldStays
<1>6. CallInv'
  BY <1>1, <1>2 DEF CallInv, TimelineOf
<1>7. LockInv'
  BY <1>1 DEF LockInv, TimelineOf
<1>8. OwnersInv'
  <2> PICK n : n = Len(m_points[s])
    OBVIOUS
  <2>1. n \in 0..Len(m_points[s]) /\ Len(m_points'[s]) = Len(m_points[s]) - n
    BY <1>3, <1>4
  <2>2. \A i \in 1..Len(m_points'[s]) : m_points'[s][i] = m_points[s][i + n]
    BY <1>4
  <2> QED
    BY <1>1, <1>3, <1>4, <2>1, <2>2, PointsGivenBack
<1>9. PointsInv'
  <2>1. alive \subseteq Streams
    BY DEF CallInv
  <2>2. ASSUME NEW t \in alive, t # s
        PROVE  /\ m_first_id[t] + Len(m_points'[t]) = Len(commands[t])
               /\ \A i \in 1..Len(m_points'[t]) :
                     m_events[m_points'[t][i]] = {PointOf(t, m_first_id[t] + i - 1)}
               /\ \A id \in 0..m_first_id[t] - 1 : Reached(PointOf(t, id))
    <3> PICK points : points = m_points[t]
      OBVIOUS
    <3>1. m_points'[t] = points
      BY <1>4, <2>1, <2>2
    <3>2. /\ m_first_id[t] + Len(points) = Len(commands[t])
          /\ \A i \in 1..Len(points) : m_events[points[i]] = {PointOf(t, m_first_id[t] + i - 1)}
          /\ \A id \in 0..m_first_id[t] - 1 : Reached(PointOf(t, id))
      BY DEF PointsInv
    <3> QED
      BY <3>1, <3>2
  <2>3. \A t \in Streams \ (alive \ {s}) : m_points'[t] = <<>>
    BY <1>4 DEF PointsInv
  <2>4. m_first_id \in [Streams -> Nat]
    BY DEF PointsInv
  <2> HIDE DEF TimelinesInv
  <2> QED
    BY <1>1, <2>2, <2>3, <2>4 DEF PointsInv, PointOf, Reached
<1>10. \A t \in Streams : Waiters(t)' = Waiters(t)
  BY <1>1 DEF Waiters, Calling
<1>11. CountInv'
  BY <1>1, <1>10, CountStays
<1>12. \A th \in Threads : CaptureOK(th)'
  BY <1>1, <1>5, OthersKeepCaptureOK
<1>13. \A th \in Threads : WaitOK(th)'
  <2> TAKE th \in Threads
  <2> PICK t : t = TimelineOf(th)
    OBVIOUS
  <2>1. pc[th] \in Waiting \/ pc[th] = "drop" => t \in Streams /\ t # s
    BY <1>2 DEF Waiting
  <2>2. pc[th] = "drop" => Waiters(t)' = {}
    BY <1>10, <2>1 DEF WaitInv, WaitOK
  <2>3. pc[th] \in Waiting => m_points'[t] = m_points[t] /\ Len(m_points[t]) \in Nat /\ done[t] \in Nat
    BY <1>3, <1>4, <2>1 DEF WorldInv
  <2>4. pc[th] \in Waiting =>
           /\ point'[th] = point[th] /\ m_first_id'[t] = m_first_id[t]
           /\ Len(m_points[t]) <= Len(m_points'[t])
           /\ \A i \in 1..Len(m_points[t]) : m_points'[t][i] = m_points[t][i]
           /\ \A k \in 1..Len(commands[t]) : commands'[t][k] = commands[t][k]
           /\ done[t] <= done'[t]
    <3> SUFFICES ASSUME pc[th] \in Waiting
                 PROVE  /\ m_points'[t] = m_points[t] /\ Len(m_points[t]) \in Nat
                        /\ done[t] <= done'[t]
      BY <1>1
    <3> QED
      BY <1>1, <2>3
  <2> QED
    BY <1>1, <1>5, <1>8, <2>2, <2>4, OthersKeepWaitOK
<1> QED
  BY <1>5, <1>6, <1>7, <1>8, <1>9, <1>11, <1>12, <1>13 DEF CaptureInv, WaitInv

LEMMA TicketGivenBack ==
    ASSUME OwnersInv, CallInv, NEW th \in Recorders, ReleaseEvents(<<point[th]>>), UNCHANGED m_points,
           pc' = [pc EXCEPT ![th] = "idle"], point' = [point EXCEPT ![th] = NoTicket]
    PROVE  OwnersInv'
<1> USE DEF OwnersInv
<1>1. th \in Threads /\ point[th] \in Tickets /\ point \in [Threads -> Tickets \cup {NoTicket}]
      /\ pc \in [Threads -> ProgramCounters]
  BY DEF Recorders, OwnerTypes, CallInv
<1>2. PICK mine \in Tickets : mine = point[th]
  BY <1>1
<1>3. /\ <<mine>> \in Seq(Tickets) /\ Len(<<mine>>) = 1 /\ <<mine>>[1] = mine
      /\ ~IsAvailable(mine) /\ IsInHands(mine)
  BY <1>2 DEF HeldOnce, IsInHands
<1>4. /\ m_available' \in Seq(Tickets)
      /\ \A i, j \in 1..Len(m_available') : m_available'[i] = m_available'[j] => i = j
      /\ \A ticket : IsAvailable(ticket)' <=> IsAvailable(ticket) \/ ticket = mine
  <2> DEFINE tickets == <<mine>>
  <2>1. tickets \in Seq(Tickets) /\ Len(tickets) = 1 /\ tickets[1] = mine /\ ReleaseEvents(tickets)
    BY <1>2, <1>3
  <2> HIDE DEF tickets
  <2>2. /\ \A i, j \in 1..Len(tickets) : tickets[i] = tickets[j] => i = j
        /\ \A i \in 1..Len(tickets) : ~IsAvailable(tickets[i])
    BY <1>3, <2>1
  <2> QED
    BY <2>1, <2>2, ReleaseAdds
<1>5. /\ Tickets' = Tickets /\ Recorders' = Recorders \ {th} /\ UNCHANGED <<m_events, m_room>>
      /\ \A other \in Recorders' : other \in Threads /\ point'[other] = point[other]
      /\ point' \in [Threads -> Tickets \cup {NoTicket}]
  BY <1>1 DEF Tickets, Recorders, ReleaseEvents
<1>6. \A ticket : IsInHands(ticket)' <=> IsInHands(ticket) /\ ticket # mine
  BY <1>2, <1>5 DEF IsInHands, GivenOnce
<1>7. OwnerTypes'
  <2>1. \A other \in Threads : pc'[other] \in {"capture", "keep"} \cup Waiting => point'[other] \in Tickets
    BY <1>1 DEF OwnerTypes, Waiting
  <2> QED
    BY <1>4, <1>5, <2>1 DEF OwnerTypes
<1>8. GivenOnce'
  <2>1. \A one, other \in Recorders' : point'[one] = point'[other] => one = other
    BY <1>5 DEF GivenOnce
  <2> QED
    BY <1>4, <2>1 DEF GivenOnce
<1>9. HeldOnce'
  <2>1. ASSUME NEW t \in Streams, NEW i \in 1..Len(m_points[t]), NEW ticket, ticket = m_points[t][i]
        PROVE  ~IsAvailable(ticket)' /\ ~IsInHands(ticket)'
    BY <1>3, <1>4, <1>6, <2>1 DEF HeldOnce
  <2>2. ASSUME NEW other \in Recorders \ {th}, NEW ticket, ticket = point[other]
        PROVE  ~IsAvailable(ticket)'
    BY <1>2, <1>4, <2>2 DEF HeldOnce, GivenOnce
  <2>3. \A other \in Recorders' : ~IsAvailable(point[other])'
    BY <1>5, <2>2 DEF IsAvailable
  <2>4. \A t \in Streams : \A i \in 1..Len(m_points'[t]) :
            ~IsAvailable(m_points[t][i])' /\ ~IsInHands(m_points[t][i])'
    BY <2>1 DEF IsAvailable, IsInHands
  <2> QED
    BY <2>3, <2>4 DEF HeldOnce
<1>10. AllHeld'
  BY <1>4, <1>5, <1>6 DEF AllHeld, IsPoint
<1> QED
  BY <1>7, <1>8, <1>9, <1>10

LEMMA GiveTicketBackKeepsInv ==
    ASSUME TimelinesInv, NEW th \in Threads, GiveTicketBack(th)
    PROVE  TimelinesInv'
<1> USE DEF TimelinesInv
<1>1. PICK what \in Answers :
         /\ pc[th] \in {"capture", "keep"} /\ pc' = [pc EXCEPT ![th] = "idle"]
         /\ ReleaseEvents(<<point[th]>>)
         /\ point' = [point EXCEPT ![th] = NoTicket] /\ asked' = [asked EXCEPT ![th] = NoCall]
         /\ answer' = [answer EXCEPT ![th] = what]
         /\ m_mutex' = [m_mutex EXCEPT ![TimelineOf(th)] = NoThread]
         /\ UNCHANGED <<m_points, m_first_id, m_waiter_count, commands, alive, m_events, m_room,
                        stream, done>>
  BY AnswersAre DEF GiveTicketBack, Return, Reply, Goto, Hold, Unlock, ReleaseEvents, streamVars
<1>2. pc[th] \in Holding /\ pc[th] \notin Waiting /\ th \in Recorders
  BY <1>1 DEF Holding, Waiting, Recorders
<1>3. WorldInv' /\ StreamsGrow
  BY <1>1, WorldStays
<1>4. CallInv'
  BY <1>1, ReturnKeepsCallInv
<1>5. LockInv'
  BY <1>1, <1>2, UnlockKeepsLockInv
<1>6. OwnersInv'
  BY <1>1, <1>2, TicketGivenBack
<1>7. PointsInv'
  BY <1>1, PointsStay
<1>8. \A s \in Streams : Waiters(s)' = Waiters(s)
  BY <1>1, <1>2, ReturnKeepsWaiters
<1>9. CountInv'
  BY <1>1, <1>8, CountStays
<1>10. \A other \in Threads \ {th} :
          pc'[other] = pc[other] /\ asked'[other] = asked[other] /\ point'[other] = point[other]
  BY <1>1 DEF CallInv, OwnersInv, OwnerTypes
<1>11. \A other \in Threads \ {th} : CaptureOK(other)' /\ WaitOK(other)'
  BY <1>1, <1>3, <1>6, <1>8, <1>10, UnchangedKeepsOK
<1>12. CaptureOK(th)' /\ WaitOK(th)'
  BY <1>1, IdleIsOK DEF CallInv
<1> QED
  BY <1>3, <1>4, <1>5, <1>6, <1>7, <1>9, <1>11, <1>12 DEF CaptureInv, WaitInv

----------------------------------------------------------------------------
(* Capturing, and keeping what was captured.                               *)

LEMMA CaptureKeepsInv ==
    ASSUME TimelinesInv, NEW th \in Threads, Capture(th)
    PROVE  TimelinesInv'
<1> PICK s : s = TimelineOf(th)
  OBVIOUS
<1> PICK ticket : ticket = point[th]
  OBVIOUS
<1> USE DEF TimelinesInv
<1>1. /\ pc[th] = "capture" /\ pc' = [pc EXCEPT ![th] = "keep"]
      /\ m_events' = [m_events EXCEPT ![ticket] = {Now(s)}]
      /\ UNCHANGED <<point, m_mutex, m_points, m_first_id, m_waiter_count, commands, asked, answer,
                     alive, m_available, m_room, stream, done>>
  BY DEF Capture, Goto, RecordEvent, callerVars, streamVars, membersVars
<1>2. /\ s \in Streams /\ th \in Recorders /\ asked[th].op = "record" /\ ticket \in Tickets
      /\ asked[th] \in Calls /\ pc'[th] = "keep"
      /\ \A other \in Threads : TimelineOf(other)' = TimelineOf(other)
  BY <1>1, ThreadIsAsked DEF Recorders, CallInv, TimelineOf, Holding, OwnersInv, OwnerTypes
<1>3. Len(stream[s]) \in Nat /\ asked[th].since \in Nat
  BY <1>2, CallFields DEF WorldInv
<1>4. /\ m_events \in Seq(SUBSET Points) /\ {Now(s)} \in SUBSET Points
      /\ Now(s) = [stream |-> s, after |-> Len(stream[s])]
  BY <1>2, <1>3 DEF OwnersInv, OwnerTypes, Now, Points
<1>5. /\ m_events' \in Seq(SUBSET Points) /\ Len(m_events') = Len(m_events)
      /\ m_events'[ticket] = {Now(s)} /\ \A t \in Tickets \ {ticket} : m_events'[t] = m_events[t]
  <2> HIDE DEF TimelinesInv
  <2> QED
    BY <1>1, <1>2, <1>4, ExceptSeq DEF Tickets
<1>6. WorldInv' /\ StreamsGrow
  BY <1>1, WorldStays
<1>7. CallInv'
  BY <1>1, <1>2, MoveKeepsCallInv DEF Holding
<1>8. LockInv'
  BY <1>1, MoveKeepsLockInv DEF Holding
<1>9. OwnersInv'
  <2>1. Recorders' = Recorders
    BY <1>1 DEF Recorders, CallInv
  <2>2. \A other \in Threads : pc'[other] \in {"capture", "keep"} \cup Waiting
                                => point'[other] \in Tickets
    BY <1>1, <1>2 DEF OwnersInv, OwnerTypes, CallInv, Waiting
  <2>3. point' \in [Threads -> Tickets \cup {NoTicket}] /\ m_room \in Nat
    BY <1>1 DEF OwnersInv, OwnerTypes
  <2> QED
    BY <1>1, <1>5, <2>1, <2>2, <2>3, OwnersStay
<1>10. \A t \in Streams : \A i \in 1..Len(m_points[t]) : m_events'[m_points[t][i]] = m_events[m_points[t][i]]
  <2> TAKE t \in Streams
  <2> TAKE i \in 1..Len(m_points[t])
  <2>1. m_points[t] \in Seq(Tickets)
    BY DEF OwnersInv, OwnerTypes
  <2>2. m_points[t][i] \in Tickets
    BY <2>1, ElementOfSeq
  <2>3. m_points[t][i] # ticket
    BY <1>2 DEF OwnersInv, HeldOnce, IsInHands
  <2> QED
    BY <1>5, <2>2, <2>3
<1>11. PointsInv'
  <2>1. \A t \in alive : t \in Streams
    BY DEF CallInv
  <2>2. \A t \in alive : \A i \in 1..Len(m_points[t]) :
            m_events'[m_points[t][i]] = {PointOf(t, m_first_id[t] + i - 1)}
    <3> TAKE t \in alive
    <3> TAKE i \in 1..Len(m_points[t])
    <3>1. m_events'[m_points[t][i]] = m_events[m_points[t][i]]
      BY <1>10, <2>1
    <3>2. m_events[m_points[t][i]] = {PointOf(t, m_first_id[t] + i - 1)}
      BY DEF PointsInv
    <3> QED
      BY <3>1, <3>2
  <2>3. PointsInv
    OBVIOUS
  <2> HIDE DEF TimelinesInv
  <2> QED
    BY <1>1, <2>2, <2>3 DEF PointsInv, PointOf, Reached
<1>12. \A t \in Streams : Waiters(t)' = Waiters(t)
  BY <1>1, WaitersStay DEF ProgramCounters, Holding, Waiting
<1>13. CountInv'
  BY <1>1, <1>12, CountStays
<1>14. \A other \in Threads \ {th} : CaptureOK(other)' /\ WaitOK(other)'
  <2> TAKE other \in Threads \ {th}
  <2>1. pc[other] = "keep" => m_events'[point[other]] = m_events[point[other]]
    <3> SUFFICES ASSUME pc[other] = "keep"
                 PROVE  point[other] \in Tickets /\ point[other] # ticket
      BY <1>5
    <3> QED
      BY <1>2 DEF Recorders, OwnersInv, OwnerTypes, GivenOnce
  <2> QED
    BY <1>1, <1>6, <1>9, <1>12, <2>1, UnchangedKeepsOK DEF CallInv
<1>15. CaptureOK(th)'
  <2> PICK after \in Nat : after = Len(stream[s])
    BY <1>3
  <2>1. asked[th].since <= after
    BY <1>2 DEF CaptureInv, CaptureOK
  <2>2. \A k \in 1..Len(commands[s]) : commands[s][k] <= after
    BY <1>2 DEF WorldInv
  <2>3. HasCaptured(th, after)'
    <3>1. m_events'[point'[th]] = {[stream |-> s, after |-> after]}
      BY <1>1, <1>4, <1>5
    <3>2. TimelineOf(th)' = s
      BY <1>2
    <3> QED
      BY <1>1, <1>3, <2>1, <2>2, <3>1, <3>2 DEF HasCaptured
  <2> QED
    BY <1>1, <1>2, <2>1, <2>3 DEF CaptureOK
<1>16. WaitOK(th)'
  BY <1>2 DEF WaitOK, Waiting
<1> QED
  BY <1>6, <1>7, <1>8, <1>9, <1>11, <1>13, <1>14, <1>15, <1>16 DEF CaptureInv, WaitInv

\* The new point leaves the hands of the thread that captured it.
LEMMA PointKept ==
    ASSUME OwnersInv, CallInv, NEW th \in Recorders, NEW s \in Streams,
           m_points' = [m_points EXCEPT ![s] = Append(@, point[th])],
           pc' = [pc EXCEPT ![th] = "idle"], point' = [point EXCEPT ![th] = NoTicket],
           UNCHANGED <<m_events, m_available, m_room>>
    PROVE  OwnersInv'
<1> USE DEF OwnersInv
<1>1. th \in Threads /\ point[th] \in Tickets /\ point \in [Threads -> Tickets \cup {NoTicket}]
      /\ pc \in [Threads -> ProgramCounters]
  BY DEF Recorders, OwnerTypes, CallInv
<1>2. PICK mine \in Tickets : mine = point[th]
  BY <1>1
<1>3. ~IsAvailable(mine) /\ IsInHands(mine)
  BY <1>2 DEF HeldOnce, IsInHands
<1>4. m_points \in [Streams -> Seq(Tickets)] /\ m_points[s] \in Seq(Tickets) /\ Len(m_points[s]) \in Nat
  BY DEF OwnerTypes
<1>5. /\ m_points' \in [Streams -> Seq(Tickets)] /\ Len(m_points'[s]) = Len(m_points[s]) + 1
      /\ \A i \in 1..Len(m_points[s]) : m_points'[s][i] = m_points[s][i]
      /\ m_points'[s][Len(m_points[s]) + 1] = mine
      /\ \A t \in Streams \ {s} : m_points'[t] = m_points[t]
  BY <1>2, <1>4, AppendProperties
<1>6. /\ Tickets' = Tickets /\ Recorders' = Recorders \ {th}
      /\ \A other \in Recorders' : other \in Threads /\ point'[other] = point[other]
      /\ point' \in [Threads -> Tickets \cup {NoTicket}]
  BY <1>1 DEF Tickets, Recorders
<1>7. \A ticket : IsInHands(ticket)' <=> IsInHands(ticket) /\ ticket # mine
  BY <1>2, <1>6 DEF IsInHands, GivenOnce
<1>8. \A t \in Streams : \A i \in 1..Len(m_points'[t]) :
         \/ t = s /\ i = Len(m_points[s]) + 1 /\ m_points'[t][i] = mine
         \/ i \in 1..Len(m_points[t]) /\ m_points'[t][i] = m_points[t][i]
  <2> TAKE t \in Streams
  <2>1. CASE t = s
    BY <1>4, <1>5, <2>1
  <2>2. CASE t # s
    BY <1>5, <2>2
  <2> QED
    BY <2>1, <2>2
<1>9. \A t \in Streams : \A i \in 1..Len(m_points[t]) :
         /\ i \in 1..Len(m_points'[t]) /\ m_points'[t][i] = m_points[t][i]
         /\ m_points[t][i] # mine
  <2> TAKE t \in Streams
  <2> TAKE i \in 1..Len(m_points[t])
  <2>1. m_points[t][i] # mine
    BY <1>3 DEF HeldOnce
  <2>2. CASE t = s
    BY <1>4, <1>5, <2>1, <2>2
  <2>3. CASE t # s
    BY <1>5, <2>1, <2>3
  <2> QED
    BY <2>2, <2>3
<1>10. OwnerTypes'
  <2>1. \A other \in Threads : pc'[other] \in {"capture", "keep"} \cup Waiting => point'[other] \in Tickets
    BY <1>1 DEF OwnerTypes, Waiting
  <2> QED
    BY <1>5, <1>6, <2>1 DEF OwnerTypes
<1>11. GivenOnce'
  <2>1. \A one, other \in Recorders' : point'[one] = point'[other] => one = other
    BY <1>6 DEF GivenOnce
  <2>2. ASSUME NEW t \in Streams, NEW i \in 1..Len(m_points'[t]), NEW j \in 1..Len(m_points'[t]),
               m_points'[t][i] = m_points'[t][j]
        PROVE  i = j
    <3>1. CASE i \in 1..Len(m_points[t]) /\ j \in 1..Len(m_points[t])
      <4>1. m_points[t][i] = m_points[t][j]
        BY <1>9, <2>2, <3>1
      <4> QED
        BY <3>1, <4>1 DEF GivenOnce
    <3>2. CASE i \notin 1..Len(m_points[t]) \/ j \notin 1..Len(m_points[t])
      BY <1>8, <1>9, <2>2, <3>2
    <3> QED
      BY <3>1, <3>2
  <2>3. ASSUME NEW t \in Streams, NEW u \in Streams, t # u,
               NEW i \in 1..Len(m_points'[t]), NEW j \in 1..Len(m_points'[u])
        PROVE  m_points'[t][i] # m_points'[u][j]
    <3>1. CASE i \in 1..Len(m_points[t]) /\ j \in 1..Len(m_points[u])
      <4>1. m_points[t][i] # m_points[u][j]
        BY <2>3, <3>1 DEF GivenOnce
      <4> QED
        BY <1>9, <3>1, <4>1
    <3>2. CASE i \notin 1..Len(m_points[t])
      <4>1. t = s /\ m_points'[t][i] = mine
        BY <1>8, <3>2
      <4>2. j \in 1..Len(m_points[u])
        BY <1>8, <2>3, <4>1
      <4> QED
        BY <1>9, <4>1, <4>2
    <3>3. CASE j \notin 1..Len(m_points[u])
      <4>1. u = s /\ m_points'[u][j] = mine
        BY <1>8, <3>3
      <4>2. i \in 1..Len(m_points[t])
        BY <1>8, <2>3, <4>1
      <4> QED
        BY <1>9, <4>1, <4>2
    <3> QED
      BY <3>1, <3>2, <3>3
  <2> QED
    BY <2>1, <2>2, <2>3 DEF GivenOnce
<1>12. HeldOnce'
  <2>1. ASSUME NEW t \in Streams, NEW i \in 1..Len(m_points'[t]), NEW ticket, ticket = m_points'[t][i]
        PROVE  ~IsAvailable(ticket) /\ ~(IsInHands(ticket) /\ ticket # mine)
    <3>1. CASE i \in 1..Len(m_points[t])
      <4>1. ~IsAvailable(m_points[t][i]) /\ ~IsInHands(m_points[t][i])
        BY <3>1 DEF HeldOnce
      <4> QED
        BY <1>9, <2>1, <3>1, <4>1
    <3>2. CASE i \notin 1..Len(m_points[t])
      BY <1>3, <1>8, <2>1, <3>2
    <3> QED
      BY <3>1, <3>2
  <2>4. ASSUME NEW t \in Streams, NEW i \in 1..Len(m_points'[t]), NEW ticket, ticket = m_points'[t][i]
        PROVE  ~IsAvailable(ticket)' /\ ~IsInHands(ticket)'
    <3>1. IsAvailable(ticket)' <=> IsAvailable(ticket)
      BY DEF IsAvailable
    <3> QED
      BY <1>7, <2>1, <2>4, <3>1
  <2>2. \A t \in Streams : \A i \in 1..Len(m_points'[t]) :
            ~IsAvailable(m_points[t][i])' /\ ~IsInHands(m_points[t][i])'
    BY <2>4 DEF IsAvailable, IsInHands
  <2>3. \A other \in Recorders' : ~IsAvailable(point[other])'
    BY <1>6 DEF HeldOnce, IsAvailable
  <2> QED
    BY <2>2, <2>3 DEF HeldOnce
<1>13. AllHeld'
  <2> SUFFICES ASSUME NEW ticket \in Tickets
               PROVE  (IsAvailable(ticket) \/ IsInHands(ticket) \/ \E t \in Streams : IsPoint(t, ticket))'
    BY <1>6 DEF AllHeld
  <2>1. CASE IsAvailable(ticket)
    BY <2>1 DEF IsAvailable
  <2>2. CASE IsInHands(ticket) /\ ticket # mine
    BY <1>7, <2>2
  <2>3. CASE ticket = mine
    <3>1. Len(m_points[s]) + 1 \in 1..Len(m_points'[s])
      BY <1>4, <1>5
    <3>2. IsPoint(s, ticket)'
      BY <1>5, <2>3, <3>1 DEF IsPoint
    <3> QED
      BY <3>2
  <2>4. ASSUME NEW t \in Streams, NEW k \in 1..Len(m_points[t]), m_points[t][k] = ticket
        PROVE  IsPoint(t, ticket)'
    BY <1>9, <2>4 DEF IsPoint
  <2> QED
    BY <2>1, <2>2, <2>3, <2>4 DEF AllHeld, IsPoint
<1> QED
  BY <1>10, <1>11, <1>12, <1>13

LEMMA KeepPointKeepsInv ==
    ASSUME TimelinesInv, NEW th \in Threads, KeepPoint(th)
    PROVE  TimelinesInv'
<1> PICK s : s = TimelineOf(th)
  OBVIOUS
<1> PICK ticket : ticket = point[th]
  OBVIOUS
<1> PICK given : given = Len(commands[s])
  OBVIOUS
<1> USE DEF TimelinesInv
<1>1. /\ pc[th] = "keep" /\ pc' = [pc EXCEPT ![th] = "idle"]
      /\ point' = [point EXCEPT ![th] = NoTicket] /\ asked' = [asked EXCEPT ![th] = NoCall]
      /\ answer' = [answer EXCEPT ![th] = [kind |-> "id", id |-> NewId(s)]]
      /\ m_points' = [m_points EXCEPT ![s] = Append(@, ticket)]
      /\ m_mutex' = [m_mutex EXCEPT ![s] = NoThread]
      /\ UNCHANGED <<m_first_id, m_waiter_count, alive, m_events, m_available, m_room, stream, done>>
  BY DEF KeepPoint, Return, Goto, Hold, Reply, Unlock, recorderVars, streamVars
<1>2. /\ s \in Streams /\ s \in alive /\ th \in Recorders /\ ticket \in Tickets
      /\ asked[th] \in Calls /\ pc[th] \in Holding /\ pc[th] \notin Waiting
  BY <1>1, ThreadIsAsked DEF Recorders, CallInv, Holding, Waiting, OwnersInv, OwnerTypes
<1>3. PICK after \in Nat : HasCaptured(th, after)
  BY <1>1 DEF CaptureInv, CaptureOK
<1>4. /\ m_events[ticket] = {[stream |-> s, after |-> after]} /\ after <= Len(stream[s])
      /\ \A k \in 1..Len(commands[s]) : commands[s][k] <= after
  BY <1>3 DEF HasCaptured
<1>5. commands' = [commands EXCEPT ![s] = Append(@, after)]
  <2>1. PICK now \in m_events[ticket] : commands' = [commands EXCEPT ![s] = Append(@, now.after)]
    BY DEF KeepPoint
  <2>2. now.after = after
    BY <1>4
  <2> QED
    BY <2>1, <2>2
<1>6. commands[s] \in Seq(Nat) /\ commands \in [Streams -> Seq(Nat)] /\ given \in Nat
  BY <1>2 DEF WorldInv
<1>7. /\ commands' \in [Streams -> Seq(Nat)] /\ Len(commands'[s]) = given + 1
      /\ \A k \in 1..given : commands'[s][k] = commands[s][k]
      /\ commands'[s][given + 1] = after
      /\ \A t \in Streams \ {s} : commands'[t] = commands[t]
  BY <1>2, <1>5, <1>6, AppendProperties
<1>8. WorldInv' /\ StreamsGrow
  <2>1. \A t \in Streams : \A k \in 1..Len(commands'[t]) : commands'[t][k] <= Len(stream[t])
    <3> TAKE t \in Streams
    <3> TAKE k \in 1..Len(commands'[t])
    <3>1. CASE t # s
      BY <1>7, <3>1 DEF WorldInv
    <3>2. CASE t = s
      <4>1. k \in 1..given \/ k = given + 1
        BY <1>6, <1>7, <3>2
      <4> QED
        BY <1>4, <1>7, <3>2, <4>1 DEF WorldInv
    <3> QED
      BY <3>1, <3>2
  <2>2. \A t \in Streams : \A j, k \in 1..Len(commands'[t]) :
            j <= k => commands'[t][j] <= commands'[t][k]
    <3> TAKE t \in Streams
    <3> TAKE j, k \in 1..Len(commands'[t])
    <3>1. CASE t # s
      BY <1>7, <3>1 DEF WorldInv
    <3>2. CASE t = s
      <4>1. /\ k \in 1..given \/ k = given + 1
            /\ j \in 1..given \/ j = given + 1
        BY <1>6, <1>7, <3>2
      <4>2. CASE j \in 1..given /\ k \in 1..given
        BY <1>7, <3>2, <4>2 DEF WorldInv
      <4>3. CASE j \in 1..given /\ k = given + 1
        BY <1>4, <1>7, <3>2, <4>3
      <4>4. CASE j = given + 1
        BY <1>3, <1>6, <1>7, <3>2, <4>1, <4>4
      <4> QED
        BY <4>1, <4>2, <4>3, <4>4
    <3> QED
      BY <3>1, <3>2
  <2>3. WorldInv
    OBVIOUS
  <2> HIDE DEF TimelinesInv
  <2>4. \A t \in Streams : Len(stream[t]) \in Nat
    BY <2>3 DEF WorldInv
  <2> QED
    BY <1>1, <1>7, <2>1, <2>2, <2>3, <2>4 DEF WorldInv, StreamsGrow
<1>9. /\ m_first_id[s] \in Nat /\ m_points[s] \in Seq(Tickets) /\ Len(m_points[s]) \in Nat
      /\ m_points \in [Streams -> Seq(Tickets)] /\ m_first_id[s] + Len(m_points[s]) = given
  BY <1>2 DEF PointsInv, OwnersInv, OwnerTypes
<1>10. CallInv'
  <2>1. [kind |-> "id", id |-> NewId(s)] \in Answers
    BY <1>6, <1>9, AnswersAre DEF NewId
  <2> QED
    BY <1>1, <2>1, ReturnKeepsCallInv
<1>11. LockInv'
  BY <1>1, <1>2, UnlockKeepsLockInv
<1>12. OwnersInv'
  BY <1>1, <1>2, PointKept
<1>13. /\ Len(m_points'[s]) = Len(m_points[s]) + 1
       /\ \A i \in 1..Len(m_points[s]) : m_points'[s][i] = m_points[s][i]
       /\ m_points'[s][Len(m_points[s]) + 1] = ticket
       /\ \A t \in Streams \ {s} : m_points'[t] = m_points[t]
  BY <1>1, <1>2, <1>9, AppendProperties
<1>14. PointsInv'
  <2>1. \A t \in alive : t \in Streams
    BY DEF CallInv
  <2>2. ASSUME NEW t \in alive, t # s
        PROVE  /\ m_first_id[t] + Len(m_points'[t]) = Len(commands'[t])
               /\ \A i \in 1..Len(m_points'[t]) :
                     m_events[m_points'[t][i]]
                         = {[stream |-> t, after |-> commands'[t][m_first_id[t] + i - 1 + 1]]}
               /\ \A id \in 0..m_first_id[t] - 1 : commands'[t][id + 1] <= done[t]
    <3> PICK points, ids : points = m_points[t] /\ ids = commands[t]
      OBVIOUS
    <3>1. m_points'[t] = points /\ commands'[t] = ids
      BY <1>7, <1>13, <2>1, <2>2
    <3>2. /\ m_first_id[t] + Len(points) = Len(ids)
          /\ \A i \in 1..Len(points) :
                m_events[points[i]] = {[stream |-> t, after |-> ids[m_first_id[t] + i - 1 + 1]]}
          /\ \A id \in 0..m_first_id[t] - 1 : ids[id + 1] <= done[t]
      BY DEF PointsInv, PointOf, Reached
    <3> QED
      BY <3>1, <3>2
  <2>3. m_first_id[s] + Len(m_points'[s]) = Len(commands'[s])
    <3> PICK first, held : first = m_first_id[s] /\ held = Len(m_points[s])
      OBVIOUS
    <3>1. held \in Nat /\ first \in Nat /\ first + held = given
      BY <1>9
    <3>2. first + (held + 1) = given + 1
      BY <3>1
    <3>3. Len(m_points'[s]) = held + 1 /\ Len(commands'[s]) = given + 1
      BY <1>7, <1>13
    <3> QED
      BY <3>2, <3>3
  <2>4. ASSUME NEW i \in 1..Len(m_points'[s])
        PROVE  m_events[m_points'[s][i]]
                   = {[stream |-> s, after |-> commands'[s][m_first_id[s] + i - 1 + 1]]}
    <3>1. CASE i \in 1..Len(m_points[s])
      <4>1. m_first_id[s] + i - 1 + 1 \in 1..given
        BY <1>9, <3>1
      <4>2. m_events[m_points[s][i]]
                = {[stream |-> s, after |-> commands[s][m_first_id[s] + i - 1 + 1]]}
        BY <1>2, <3>1 DEF PointsInv, PointOf
      <4> QED
        BY <1>7, <1>13, <3>1, <4>1, <4>2
    <3>2. CASE i = Len(m_points[s]) + 1
      <4>1. m_first_id[s] + i - 1 + 1 = given + 1
        BY <1>9, <3>2
      <4> QED
        BY <1>4, <1>7, <1>13, <3>2, <4>1
    <3> QED
      BY <1>9, <1>13, <3>1, <3>2
  <2>5. ASSUME NEW id \in 0..m_first_id[s] - 1
        PROVE  commands'[s][id + 1] <= done[s]
    <3>1. id + 1 \in 1..given
      BY <1>9
    <3>2. commands[s][id + 1] <= done[s]
      BY <1>2 DEF PointsInv, PointOf, Reached
    <3> QED
      BY <1>7, <3>1, <3>2
  <2>6. m_first_id \in [Streams -> Nat] /\ \A t \in Streams \ alive : m_points'[t] = <<>>
    BY <1>2, <1>13 DEF PointsInv
  <2> HIDE DEF TimelinesInv
  <2>7. \A t \in alive :
           /\ m_first_id[t] + Len(m_points'[t]) = Len(commands'[t])
           /\ \A i \in 1..Len(m_points'[t]) :
                 m_events[m_points'[t][i]]
                     = {[stream |-> t, after |-> commands'[t][m_first_id[t] + i - 1 + 1]]}
           /\ \A id \in 0..m_first_id[t] - 1 : commands'[t][id + 1] <= done[t]
    BY <2>2, <2>3, <2>4, <2>5
  <2> QED
    BY <1>1, <2>6, <2>7 DEF PointsInv, PointOf, Reached
<1>15. \A t \in Streams : Waiters(t)' = Waiters(t)
  BY <1>1, <1>2, ReturnKeepsWaiters
<1>16. CountInv'
  BY <1>1, <1>15, CountStays
<1>17. \A other \in Threads \ {th} :
          pc'[other] = pc[other] /\ asked'[other] = asked[other] /\ point'[other] = point[other]
  BY <1>1 DEF CallInv, OwnersInv, OwnerTypes
<1>18. \A other \in Threads \ {th} : CaptureOK(other)'
  <2> TAKE other \in Threads \ {th}
  <2>1. ASSUME pc[other] = "keep"
        PROVE  commands'[TimelineOf(other)] = commands[TimelineOf(other)]
    <3>1. TimelineOf(other) # s /\ TimelineOf(other) \in Streams
      BY <1>2, <2>1, HolderIsAlone, ThreadIsAsked DEF Holding
    <3> QED
      BY <1>7, <3>1
  <2> QED
    BY <1>1, <1>8, <1>17, <2>1, OthersKeepCaptureOK
<1>19. \A other \in Threads \ {th} : WaitOK(other)'
  <2> TAKE other \in Threads \ {th}
  <2> PICK t : t = TimelineOf(other)
    OBVIOUS
  <2>1. pc[other] \in Waiting \/ pc[other] = "drop" => t \in Streams
    BY ThreadIsAsked DEF Waiting
  <2>2. pc[other] = "drop" => Waiters(t)' = {}
    BY <1>15, <2>1 DEF WaitInv, WaitOK
  <2>3. ASSUME pc[other] \in Waiting
        PROVE  /\ Len(m_points[t]) <= Len(m_points'[t])
               /\ \A i \in 1..Len(m_points[t]) : m_points'[t][i] = m_points[t][i]
               /\ \A k \in 1..Len(commands[t]) : commands'[t][k] = commands[t][k]
               /\ done[t] \in Nat
    <3>1. done[t] \in Nat /\ Len(m_points[t]) \in Nat
      BY <2>1, <2>3 DEF WorldInv, OwnersInv, OwnerTypes
    <3>2. CASE t = s
      BY <1>7, <1>9, <1>13, <3>1, <3>2
    <3>3. CASE t # s
      <4>1. m_points'[t] = m_points[t] /\ commands'[t] = commands[t]
        BY <1>7, <1>13, <2>1, <2>3, <3>3
      <4> QED
        BY <3>1, <4>1
    <3> QED
      BY <3>2, <3>3
  <2>4. pc[other] \in Waiting =>
           /\ point'[other] = point[other] /\ m_first_id'[t] = m_first_id[t]
           /\ Len(m_points[t]) <= Len(m_points'[t])
           /\ \A i \in 1..Len(m_points[t]) : m_points'[t][i] = m_points[t][i]
           /\ \A k \in 1..Len(commands[t]) : commands'[t][k] = commands[t][k]
           /\ done[t] <= done'[t]
    BY <1>1, <1>17, <2>3
  <2> QED
    BY <1>8, <1>12, <1>17, <2>2, <2>4, OthersKeepWaitOK
<1>20. CaptureOK(th)' /\ WaitOK(th)'
  BY <1>1, IdleIsOK DEF CallInv
<1> QED
  BY <1>8, <1>10, <1>11, <1>12, <1>14, <1>16, <1>18, <1>19, <1>20 DEF CaptureInv, WaitInv

----------------------------------------------------------------------------
(* A ticket for a thread that is about to capture.                         *)

LEMMA TicketTaken ==
    ASSUME OwnersInv, CallInv, NEW th \in Threads, pc[th] = "acquire",
           pc' = [pc EXCEPT ![th] = "capture"],
           NEW mine, point' = [point EXCEPT ![th] = mine], UNCHANGED m_points,
           Tickets' = Tickets \cup {mine},
           m_events' \in Seq(SUBSET Points), m_room' \in Nat, Len(m_events') <= m_room',
           m_available' \in Seq(Tickets'),
           \A i, j \in 1..Len(m_available') : m_available'[i] = m_available'[j] => i = j,
           \A ticket : IsAvailable(ticket)' <=> IsAvailable(ticket) /\ ticket # mine,
           ~IsInHands(mine), \A s \in Streams : ~IsPoint(s, mine)
    PROVE  OwnersInv'
<1> USE DEF OwnersInv
<1>1. /\ Recorders' = Recorders \cup {th} /\ th \notin Recorders
      /\ \A other \in Recorders : other \in Threads /\ point'[other] = point[other]
      /\ point'[th] = mine
      /\ point' \in [Threads -> Tickets' \cup {NoTicket}]
  BY DEF Recorders, CallInv, OwnerTypes
<1>2. \A ticket : IsInHands(ticket)' <=> IsInHands(ticket) \/ ticket = mine
  BY <1>1 DEF IsInHands
<1>3. \A s \in Streams : \A i \in 1..Len(m_points[s]) : m_points[s][i] # mine
  BY DEF IsPoint
<1>4. OwnerTypes'
  <2>1. \A other \in Threads : pc'[other] \in {"capture", "keep"} \cup Waiting => point'[other] \in Tickets'
    BY <1>1 DEF OwnerTypes, CallInv
  <2>2. \A s \in Streams : m_points[s] \in Seq(Tickets')
    <3> TAKE s \in Streams
    <3>1. m_points[s] \in Seq(Tickets) /\ Tickets \subseteq Tickets'
      BY DEF OwnerTypes
    <3> QED
      BY <3>1, SeqMonotonic
  <2>3. m_points' \in [Streams -> Seq(Tickets')]
    BY <2>2 DEF OwnerTypes
  <2> QED
    BY <1>1, <2>1, <2>3 DEF OwnerTypes
<1>5. GivenOnce'
  <2>1. ASSUME NEW one \in Recorders', NEW other \in Recorders', point'[one] = point'[other]
        PROVE  one = other
    <3>1. CASE one = th /\ other # th
      BY <1>1, <2>1, <3>1 DEF IsInHands
    <3>2. CASE one # th /\ other = th
      BY <1>1, <2>1, <3>2 DEF IsInHands
    <3>3. CASE one # th /\ other # th
      BY <1>1, <2>1, <3>3 DEF GivenOnce
    <3> QED
      BY <3>1, <3>2, <3>3
  <2> QED
    BY <2>1 DEF GivenOnce
<1>6. HeldOnce'
  <2>1. ASSUME NEW s \in Streams, NEW i \in 1..Len(m_points[s]), NEW ticket, ticket = m_points[s][i]
        PROVE  ~IsAvailable(ticket)' /\ ~IsInHands(ticket)'
    BY <1>2, <1>3, <2>1 DEF HeldOnce
  <2>2. ASSUME NEW other \in Recorders', NEW ticket, ticket = point'[other]
        PROVE  ~IsAvailable(ticket)'
    BY <1>1, <2>2 DEF HeldOnce
  <2>3. \A other \in Recorders' : ~IsAvailable(point[other])'
    BY <2>2 DEF IsAvailable
  <2>4. \A s \in Streams : \A i \in 1..Len(m_points'[s]) :
            ~IsAvailable(m_points[s][i])' /\ ~IsInHands(m_points[s][i])'
    BY <2>1 DEF IsAvailable, IsInHands
  <2> QED
    BY <2>3, <2>4 DEF HeldOnce
<1>7. AllHeld'
  BY <1>2 DEF AllHeld, IsPoint
<1> QED
  BY <1>4, <1>5, <1>6, <1>7

LEMMA AcquireKeepsOwners ==
    ASSUME TimelinesInv, NEW th \in Threads, Acquire(th)
    PROVE  /\ OwnersInv'
           /\ \A ticket \in Tickets : ticket \in 1..Len(m_events') /\ m_events'[ticket] = m_events[ticket]
<1> PICK mine : mine = NextTicket
  OBVIOUS
<1> USE DEF TimelinesInv
<1>1. /\ pc[th] = "acquire" /\ pc' = [pc EXCEPT ![th] = "capture"]
      /\ point' = [point EXCEPT ![th] = mine] /\ UNCHANGED m_points
  BY DEF Acquire, Goto, Hold, membersVars
<1>2. /\ m_events \in Seq(SUBSET Points) /\ Len(m_events) \in Nat /\ m_room \in Nat
      /\ Len(m_events) <= m_room /\ m_available \in Seq(Tickets) /\ Len(m_available) \in Nat
  BY DEF OwnersInv, OwnerTypes
<1>3. ASSUME CreateEvent
      PROVE  /\ OwnersInv'
             /\ \A ticket \in Tickets : ticket \in 1..Len(m_events') /\ m_events'[ticket] = m_events[ticket]
  <2>1. /\ m_available = <<>> /\ m_room' = Max({m_room, Len(m_events) + 1})
        /\ m_events' = Append(m_events, {}) /\ UNCHANGED m_available /\ mine = Len(m_events) + 1
    BY <1>3 DEF CreateEvent, Reserve, NextTicket
  <2>2. m_room' \in Nat /\ Len(m_events) + 1 <= m_room'
    BY <1>2, <2>1, LargestOfTwo
  <2>3. /\ m_events' \in Seq(SUBSET Points) /\ Len(m_events') = Len(m_events) + 1
        /\ \A i \in 1..Len(m_events) : m_events'[i] = m_events[i]
    BY <1>2, <2>1, AppendProperties
  <2>4. Tickets' = Tickets \cup {mine} /\ mine \notin Tickets
    BY <1>2, <2>1, <2>3 DEF Tickets
  <2>5. /\ m_available' \in Seq(Tickets') /\ Len(m_available') = 0
        /\ \A ticket : ~IsAvailable(ticket)' /\ ~IsAvailable(ticket)
    BY <2>1 DEF IsAvailable
  <2>6. ~IsInHands(mine)
    BY <2>4 DEF IsInHands, Recorders, OwnersInv, OwnerTypes
  <2>7. \A s \in Streams : ~IsPoint(s, mine)
    <3> TAKE s \in Streams
    <3>1. m_points[s] \in Seq(Tickets)
      BY DEF OwnersInv, OwnerTypes
    <3> QED
      BY <2>4, <3>1, ElementOfSeq DEF IsPoint
  <2>8. /\ \A i, j \in 1..Len(m_available') : m_available'[i] = m_available'[j] => i = j
        /\ \A ticket : IsAvailable(ticket)' <=> IsAvailable(ticket) /\ ticket # mine
        /\ Len(m_events') <= m_room'
    BY <2>2, <2>3, <2>5
  <2>9. OwnersInv'
    BY <1>1, <2>2, <2>3, <2>4, <2>5, <2>6, <2>7, <2>8, TicketTaken
  <2> QED
    BY <1>2, <2>3, <2>9 DEF Tickets
<1>4. ASSUME ReuseEvent
      PROVE  /\ OwnersInv'
             /\ \A ticket \in Tickets : ticket \in 1..Len(m_events') /\ m_events'[ticket] = m_events[ticket]
  <2> PICK last : last = Len(m_available)
    OBVIOUS
  <2>1. /\ m_available # <<>> /\ m_available' = SubSeq(m_available, 1, last - 1)
        /\ UNCHANGED <<m_events, m_room>> /\ mine = m_available[last]
    BY <1>4 DEF ReuseEvent, NextTicket, Front, Last
  <2>2. last \in 1..Len(m_available) /\ last \in Nat \ {0}
    BY <1>2, <2>1, EmptySeq
  <2>3. mine \in Tickets /\ IsAvailable(mine)
    BY <1>2, <2>1, <2>2, ElementOfSeq DEF IsAvailable
  <2>4. /\ m_available' \in Seq(Tickets) /\ Len(m_available') = last - 1
        /\ \A i \in 1..last - 1 : m_available'[i] = m_available[i]
    BY <1>2, <2>1, <2>2
  <2>5. \A i, j \in 1..Len(m_available) : m_available[i] = m_available[j] => i = j
    BY DEF OwnersInv, GivenOnce
  <2>6. \A i, j \in 1..Len(m_available') : m_available'[i] = m_available'[j] => i = j
    BY <2>2, <2>4, <2>5
  <2>7. \A ticket : IsAvailable(ticket)' <=> IsAvailable(ticket) /\ ticket # mine
    <3> SUFFICES ASSUME NEW ticket
                 PROVE  IsAvailable(ticket)' <=> IsAvailable(ticket) /\ ticket # mine
      OBVIOUS
    <3>1. ASSUME NEW i \in 1..last - 1, m_available'[i] = ticket
          PROVE  IsAvailable(ticket) /\ ticket # mine
      <4>1. i \in 1..Len(m_available) /\ i # last /\ m_available[i] = ticket
        BY <2>2, <2>4, <3>1
      <4> QED
        BY <2>1, <2>2, <2>5, <4>1 DEF IsAvailable
    <3>2. ASSUME NEW i \in 1..Len(m_available), m_available[i] = ticket, ticket # mine
          PROVE  IsAvailable(ticket)'
      <4>1. i \in 1..last - 1
        BY <2>1, <2>2, <3>2
      <4>2. i \in 1..Len(m_available') /\ m_available'[i] = ticket
        BY <2>4, <3>2, <4>1
      <4> QED
        BY <4>2 DEF IsAvailable
    <3> QED
      BY <2>4, <3>1, <3>2 DEF IsAvailable
  <2>8. ~IsInHands(mine)
    BY <2>3 DEF IsInHands, OwnersInv, HeldOnce
  <2>9. \A s \in Streams : ~IsPoint(s, mine)
    BY <2>3 DEF IsPoint, OwnersInv, HeldOnce
  <2>10. Tickets' = Tickets /\ Tickets' = Tickets \cup {mine}
    BY <2>1, <2>3 DEF Tickets
  <2>11. m_events' \in Seq(SUBSET Points) /\ m_room' \in Nat /\ Len(m_events') <= m_room'
         /\ m_available' \in Seq(Tickets')
    BY <1>2, <2>1, <2>4, <2>10
  <2>12. OwnersInv'
    BY <1>1, <2>6, <2>7, <2>8, <2>9, <2>10, <2>11, TicketTaken
  <2> QED
    BY <2>1, <2>12 DEF Tickets
<1> QED
  BY <1>3, <1>4 DEF Acquire, AcquireEvent

LEMMA AcquireKeepsInv ==
    ASSUME TimelinesInv, NEW th \in Threads, Acquire(th)
    PROVE  TimelinesInv'
<1> USE DEF TimelinesInv
<1>1. /\ pc[th] = "acquire" /\ pc' = [pc EXCEPT ![th] = "capture"]
      /\ point' = [point EXCEPT ![th] = NextTicket]
      /\ UNCHANGED <<m_mutex, m_points, m_first_id, m_waiter_count, commands, asked, answer, alive,
                     stream, done>>
  BY DEF Acquire, Goto, Hold, callerVars, streamVars, membersVars
<1>2. /\ asked[th].op = "record" /\ pc'[th] = "capture"
      /\ \A other \in Threads : TimelineOf(other)' = TimelineOf(other)
  BY <1>1 DEF CallInv, TimelineOf, Holding
<1>3. OwnersInv' /\ \A ticket \in Tickets : m_events'[ticket] = m_events[ticket]
  BY AcquireKeepsOwners
<1>4. WorldInv' /\ StreamsGrow
  BY <1>1, WorldStays
<1>5. CallInv'
  BY <1>1, <1>2, MoveKeepsCallInv DEF Holding
<1>6. LockInv'
  BY <1>1, MoveKeepsLockInv DEF Holding
<1>7. PointsInv'
  <2>1. \A t \in alive : \A i \in 1..Len(m_points[t]) :
            m_events'[m_points[t][i]] = {PointOf(t, m_first_id[t] + i - 1)}
    <3> TAKE t \in alive
    <3> TAKE i \in 1..Len(m_points[t])
    <3>1. m_points[t] \in Seq(Tickets)
      BY DEF CallInv, OwnersInv, OwnerTypes
    <3>2. m_points[t][i] \in Tickets
      BY <3>1, ElementOfSeq
    <3>3. m_events'[m_points[t][i]] = m_events[m_points[t][i]]
      BY <1>3, <3>2
    <3>4. m_events[m_points[t][i]] = {PointOf(t, m_first_id[t] + i - 1)}
      BY DEF PointsInv
    <3> QED
      BY <3>3, <3>4
  <2>2. PointsInv
    OBVIOUS
  <2> HIDE DEF TimelinesInv
  <2> QED
    BY <1>1, <2>1, <2>2 DEF PointsInv, PointOf, Reached
<1>8. \A t \in Streams : Waiters(t)' = Waiters(t)
  BY <1>1, WaitersStay DEF ProgramCounters, Holding, Waiting
<1>9. CountInv'
  BY <1>1, <1>8, CountStays
<1>10. \A other \in Threads \ {th} : CaptureOK(other)' /\ WaitOK(other)'
  <2> TAKE other \in Threads \ {th}
  <2>1. pc[other] = "keep" => m_events'[point[other]] = m_events[point[other]]
    BY <1>3 DEF OwnersInv, OwnerTypes
  <2>2. pc'[other] = pc[other] /\ asked'[other] = asked[other] /\ point'[other] = point[other]
    BY <1>1 DEF CallInv, OwnersInv, OwnerTypes
  <2> QED
    BY <1>1, <1>3, <1>4, <1>8, <2>1, <2>2, UnchangedKeepsOK
<1>11. CaptureOK(th)' /\ WaitOK(th)'
  BY <1>1, <1>2 DEF CaptureInv, CaptureOK, WaitOK, Waiting
<1> QED
  BY <1>3, <1>4, <1>5, <1>6, <1>7, <1>9, <1>10, <1>11 DEF CaptureInv, WaitInv

----------------------------------------------------------------------------
(* Every step.                                                             *)

LEMMA InitHasInv == StreamTimelineInit => TimelinesInv
<1> SUFFICES ASSUME StreamTimelineInit
             PROVE  TimelinesInv
  OBVIOUS
<1>1. /\ stream = [s \in Streams |-> <<>>] /\ done = [s \in Streams |-> 0]
      /\ commands = [s \in Streams |-> <<>>] /\ asked = [th \in Threads |-> NoCall]
      /\ answer = [th \in Threads |-> Is("none")] /\ alive = Streams
      /\ m_events = <<>> /\ m_available = <<>> /\ m_room = 0
      /\ m_mutex = [s \in Streams |-> NoThread] /\ m_points = [s \in Streams |-> <<>>]
      /\ m_first_id = [s \in Streams |-> 0] /\ m_waiter_count = [s \in Streams |-> 0]
      /\ pc = [th \in Threads |-> "idle"] /\ point = [th \in Threads |-> NoTicket]
  BY DEF StreamTimelineInit, TimelineInit, StreamsInit, RecorderInit
<1>2. WorldInv
  BY <1>1 DEF WorldInv
<1>3. CallInv
  BY <1>1, AnswersAre, NoCallFields DEF CallInv, ProgramCounters, Holding, Waiting
<1>4. LockInv
  BY <1>1 DEF LockInv, Holding
<1>5. Recorders = {} /\ Tickets = {}
  BY <1>1 DEF Recorders, Tickets
<1>6. OwnersInv
  <2>1. OwnerTypes
    BY <1>1, <1>5 DEF OwnerTypes, Waiting
  <2> QED
    BY <1>1, <1>5, <2>1 DEF OwnersInv, GivenOnce, HeldOnce, AllHeld
<1>7. PointsInv
  BY <1>1 DEF PointsInv
<1>8. CaptureInv /\ WaitInv
  BY <1>1, NoCallFields DEF CaptureInv, CaptureOK, WaitInv, WaitOK, Waiting
<1>9. \A s \in Streams : Waiters(s) = {}
  BY <1>1 DEF Waiters, Calling
<1>10. CountInv
  BY <1>1, <1>9, FS_EmptySet DEF CountInv, WaiterCountIsWaiters
<1> QED
  BY <1>2, <1>3, <1>4, <1>6, <1>7, <1>8, <1>10 DEF TimelinesInv

LEMMA StutterKeepsInv ==
    ASSUME TimelinesInv, UNCHANGED allVars
    PROVE  TimelinesInv'
<1>1. UNCHANGED <<membersVars, recorderVars, threadVars, callerVars, stream, done>>
  BY DEF allVars, timelineVars, streamVars, callerVars
<1>2. UNCHANGED commands /\ \A s \in Streams : done[s] \in Nat
  BY <1>1 DEF callerVars, TimelinesInv, WorldInv
<1>3. WorldInv' /\ StreamsGrow
  BY <1>1, <1>2, WorldStays DEF TimelinesInv
<1> QED
  BY <1>1, <1>2, <1>3, StreamsOnlyKeepsInv

LEMMA NextKeepsInv ==
    ASSUME TimelinesInv, [StreamTimelineNext]_allVars
    PROVE  TimelinesInv'
<1>1. ASSUME NEW th \in Threads,
             StartRecord(th) \/ StartWait(th) \/ StartIsComplete(th) \/ StartEnqueueWait(th)
      PROVE  TimelinesInv'
  BY <1>1, StartKeepsInv
<1>2. ASSUME NEW th \in Threads, RecordStep(th)
      PROVE  TimelinesInv'
  BY <1>2, LockRecordKeepsInv, DropReachedPointKeepsInv, EndDropKeepsInv, AcquireKeepsInv,
     CaptureKeepsInv, KeepPointKeepsInv, RecordFailsKeepsInv, GiveTicketBackKeepsInv DEF RecordStep
<1>3. ASSUME NEW th \in Threads, LookUpStep(th)
      PROVE  TimelinesInv'
  BY <1>3, LookedUpKeepsInv, LookUpKeepsInv, EnqueueWaitKeepsInv DEF LookUpStep
<1>4. ASSUME NEW th \in Threads, WaitReturns(th) \/ EndWait(th)
      PROVE  TimelinesInv'
  BY <1>4, WaitReturnsKeepsInv, EndWaitKeepsInv
<1>5. ASSUME NEW s \in Streams, Destroy(s) \/ LaunchWork(s) \/ RunStream(s)
      PROVE  TimelinesInv'
  BY <1>5, DestroyKeepsInv, StreamsStepKeepsInv
<1>6. CASE UNCHANGED allVars
  BY <1>6, StutterKeepsInv
<1> QED
  BY <1>1, <1>2, <1>3, <1>4, <1>5, <1>6 DEF StreamTimelineNext, CallStep

\* The timelines' inductive invariant holds in every state, whatever the calls
\* to allocate, free and wait and however their threads interleave.
THEOREM TimelinesInvHolds == StreamTimelineSpec => []TimelinesInv
  BY InitHasInv, NextKeepsInv, PTL DEF StreamTimelineSpec

----------------------------------------------------------------------------
(* What the invariant says of the points that are looked up.               *)

\* The point an id has is the one its command stands for.
LEMMA PointOfId ==
    ASSUME TimelinesInv, NEW s \in alive, NEW id \in Nat, ~IsKnownComplete(s, id), HasPoint(s, id)
    PROVE  m_events[GetPoint(s, id)] = {PointOf(s, id)} /\ IsGiven(s, id)
<1> PICK first, held : first = m_first_id[s] /\ held = Len(m_points[s])
  OBVIOUS
<1>1. s \in Streams
  BY DEF TimelinesInv, CallInv
<1>2. first \in Nat /\ held \in Nat /\ first + held = Len(commands[s])
  BY <1>1 DEF TimelinesInv, PointsInv, OwnersInv, OwnerTypes
<1>3. first <= id /\ id - first < held
  BY <1>1, <1>2 DEF IsKnownComplete, HasPoint, TimelinesInv, PointsInv
<1>4. id - first + 1 \in 1..held /\ first + (id - first + 1) - 1 = id /\ id < first + held
  <2> HIDE DEF TimelinesInv
  <2>1. id \in Nat /\ first \in Nat /\ held \in Nat
    BY <1>2
  <2> QED
    BY ONLY <1>3, <2>1
<1>5. m_events[m_points[s][id - first + 1]] = {PointOf(s, first + (id - first + 1) - 1)}
  BY <1>4 DEF TimelinesInv, PointsInv
<1> QED
  BY <1>2, <1>4, <1>5 DEF GetPoint, IsGiven

\* An id below the first was given, and its command has finished.
LEMMA KnownCompleteIsReached ==
    ASSUME TimelinesInv, NEW s \in alive, NEW id \in Nat, IsKnownComplete(s, id)
    PROVE  Reached(PointOf(s, id)) /\ IsGiven(s, id)
<1> PICK first, held : first = m_first_id[s] /\ held = Len(m_points[s])
  OBVIOUS
<1>1. s \in Streams
  BY DEF TimelinesInv, CallInv
<1>2. first \in Nat /\ held \in Nat /\ first + held = Len(commands[s])
  BY <1>1 DEF TimelinesInv, PointsInv, OwnersInv, OwnerTypes
<1>3. id \in 0..first - 1 /\ id < first + held
  BY <1>2 DEF IsKnownComplete
<1> QED
  BY <1>2, <1>3 DEF TimelinesInv, PointsInv, IsGiven

\* An id that is neither below the first nor has a point was not given.
LEMMA UntoldIsNotGiven ==
    ASSUME TimelinesInv, NEW s \in alive, NEW id \in Nat, ~Tells(s, id)
    PROVE  ~IsGiven(s, id)
<1> PICK first, held : first = m_first_id[s] /\ held = Len(m_points[s])
  OBVIOUS
<1>1. s \in Streams
  BY DEF TimelinesInv, CallInv
<1>2. first \in Nat /\ held \in Nat /\ first + held = Len(commands[s])
  BY <1>1 DEF TimelinesInv, PointsInv, OwnersInv, OwnerTypes
<1>3. ~(id < first) /\ ~(id - first < held)
  BY DEF Tells, IsKnownComplete, HasPoint
<1>4. ~(id < first + held)
  BY <1>2, <1>3
<1> QED
  BY <1>2, <1>4 DEF IsGiven

LEMMA WaiterHasItsPoint ==
    ASSUME TimelinesInv, NEW th \in Threads, pc[th] \in Waiting
    PROVE  /\ Names(th)
           /\ pc[th] = "waiting" => m_events[point[th]] = {PointAsked(th)}
<1> PICK s, id : s = TimelineOf(th) /\ id = IdOf(th)
  OBVIOUS
<1>1. s \in alive /\ s \in Streams /\ id \in Nat /\ m_first_id[s] \in Nat
  BY WaiterKnows DEF TimelinesInv
<1>2. m_first_id[s] <= id /\ HasPoint(s, id)
  BY DEF TimelinesInv, WaitInv, WaitOK
<1>3. ~IsKnownComplete(s, id)
  BY <1>1, <1>2 DEF IsKnownComplete
<1>4. m_events[GetPoint(s, id)] = {PointOf(s, id)} /\ IsGiven(s, id)
  BY <1>1, <1>2, <1>3, PointOfId
<1>5. asked[th].op = "wait" /\ PointAsked(th) = PointOf(s, id)
  BY DEF TimelinesInv, CallInv, PointAsked, TimelineOf, IdOf
<1>6. pc[th] = "waiting" => point[th] = GetPoint(s, id)
  BY DEF TimelinesInv, WaitInv, WaitOK
<1> QED
  BY <1>4, <1>5, <1>6 DEF Names, TimelineOf, IdOf

----------------------------------------------------------------------------
(* The properties.                                                         *)

\* Every variable keeps its type, and each lock is held by exactly the thread
\* that is inside its critical section (stream_timeline::m_mutex).
THEOREM StreamTimelineHasTypes == StreamTimelineSpec => []StreamTimelineTypeOK
<1>1. ASSUME TimelinesInv
      PROVE  StreamTimelineTypeOK
  <2> USE <1>1 DEF TimelinesInv
  <2>1. DOMAIN m_events = Tickets /\ RecorderTypeOK
    BY DEF OwnersInv, OwnerTypes, Tickets, RecorderTypeOK
  <2>2. StreamsTypeOK
    BY DEF WorldInv, StreamsTypeOK
  <2>3. ASSUME NEW s \in Streams
        PROVE  {th \in Calling(s) : pc[th] \in Holding} = {m_mutex[s]} \ {NoThread}
    <3>1. ASSUME NEW th \in Calling(s), pc[th] \in Holding
          PROVE  th = m_mutex[s] /\ th # NoThread
      BY <3>1, NoThreadAssumption DEF Calling, LockInv, TimelineOf
    <3>2. ASSUME m_mutex[s] # NoThread
          PROVE  m_mutex[s] \in Calling(s) /\ pc[m_mutex[s]] \in Holding
      <4>1. PICK th \in Threads : th = m_mutex[s]
        BY <3>2 DEF LockInv
      <4>2. pc[th] \in Holding /\ TimelineOf(th) = s
        BY <3>2, <4>1 DEF LockInv
      <4>3. asked[th] # NoCall
        BY <4>2 DEF CallInv, Holding
      <4> QED
        BY <4>1, <4>2, <4>3 DEF Calling, TimelineOf
    <3> QED
      BY <3>1, <3>2
  <2>4. /\ commands \in [Streams -> Seq(Nat)] /\ asked \in [Threads -> Calls \cup {NoCall}]
        /\ answer \in [Threads -> Answers] /\ alive \subseteq Streams
    BY DEF WorldInv, CallInv
  <2>5. /\ m_first_id \in [Streams -> Nat] /\ m_waiter_count \in [Streams -> Nat]
        /\ m_mutex \in [Streams -> Threads \cup {NoThread}]
        /\ m_points \in [Streams -> Seq(DOMAIN m_events)]
        /\ point \in [Threads -> {NoTicket} \cup DOMAIN m_events]
    BY <2>1 DEF PointsInv, CountInv, LockInv, OwnersInv, OwnerTypes
  <2>6. pc \in [Threads -> Holding \cup {"idle", "lock_record", "look_up", "waiting", "end_wait",
                                        "end_failed_wait"}]
    <3>1. ProgramCounters = Holding \cup {"idle", "lock_record", "look_up", "waiting", "end_wait",
                                          "end_failed_wait"}
      BY DEF ProgramCounters, Waiting
    <3> QED
      BY <3>1 DEF CallInv
  <2> QED
    BY <2>1, <2>2, <2>3, <2>4, <2>5, <2>6 DEF StreamTimelineTypeOK
<1> QED
  BY <1>1, TimelinesInvHolds, PTL

\* The points a timeline holds are those of its last commands, in order, and
\* all the commands before have finished (stream_timeline::m_points,
\* m_first_id).
THEOREM TimelinesStandForCommands == StreamTimelineSpec => []PointsStandForCommands
<1>1. TimelinesInv => PointsStandForCommands
  BY DEF TimelinesInv, PointsInv, PointsStandForCommands
<1> QED
  BY <1>1, TimelinesInvHolds, PTL

\* The event under a thread that waits, with no lock, is not given back and
\* captured again (stream_timeline::wait, drop_reached_points).
THEOREM WaitersAreKept == StreamTimelineSpec => []WaitersKeepTheirPoint
<1>1. TimelinesInv => WaitersKeepTheirPoint
  BY WaiterHasItsPoint DEF WaitersKeepTheirPoint, Waiting
<1> QED
  BY <1>1, TimelinesInvHolds, PTL

\* The count of the threads that wait is right, whatever throws
\* (stream_timeline::wait, end_wait).
THEOREM WaitersAreCounted == StreamTimelineSpec => []WaiterCountIsWaiters
<1>1. TimelinesInv => WaiterCountIsWaiters
  BY DEF TimelinesInv, CountInv
<1> QED
  BY <1>1, TimelinesInvHolds, PTL

\* No event is lost, and none is shared, whatever throws
\* (pooled_event_recorder::acquire, release; stream_timeline::record,
\* drop_reached_points, ~stream_timeline).
THEOREM NoEventIsLostOrShared == StreamTimelineSpec => []EventsHaveOneOwner
<1>1. ASSUME TimelinesInv
      PROVE  EventsHaveOneOwner
  <2> SUFFICES ASSUME NEW ticket \in DOMAIN m_events
               PROVE  \E owner \in Owners(ticket) : Owners(ticket) = {owner}
    BY DEF EventsHaveOneOwner
  <2> USE <1>1 DEF TimelinesInv, OwnersInv
  <2>1. /\ ticket \in Tickets /\ DOMAIN m_available = 1..Len(m_available)
        /\ \A s \in Streams : DOMAIN m_points[s] = 1..Len(m_points[s])
    BY DEF OwnerTypes, Tickets
  <2>2. /\ Places(ticket, m_available) # {} <=> IsAvailable(ticket)
        /\ \A s \in Streams : Places(ticket, m_points[s]) # {} <=> IsPoint(s, ticket)
        /\ {th \in Recorders : point[th] = ticket} # {} <=> IsInHands(ticket)
    BY <2>1 DEF Places, IsAvailable, IsPoint, IsInHands
  <2>3. CASE IsAvailable(ticket)
    <3>1. PICK i : Places(ticket, m_available) = {i}
      BY <2>1, <2>3 DEF Places, IsAvailable, GivenOnce
    <3>2. ~IsInHands(ticket) /\ \A s \in Streams : ~IsPoint(s, ticket)
      BY <2>3 DEF HeldOnce, IsInHands, IsPoint
    <3>3. Owners(ticket) = {[kind |-> "available", at |-> i]}
      BY <2>2, <3>1, <3>2 DEF Owners
    <3> QED
      BY <3>3
  <2>4. CASE IsInHands(ticket)
    <3>1. PICK th : {other \in Recorders : point[other] = ticket} = {th}
      <4>1. PICK th \in Recorders : point[th] = ticket
        BY <2>4 DEF IsInHands
      <4>2. \A other \in Recorders : point[other] = ticket => other = th
        BY <4>1 DEF GivenOnce
      <4>3. {other \in Recorders : point[other] = ticket} = {th}
        BY <4>1, <4>2
      <4> QED
        BY <4>3
    <3>2. ~IsAvailable(ticket) /\ \A s \in Streams : ~IsPoint(s, ticket)
      BY <2>4 DEF HeldOnce, IsInHands, IsPoint
    <3>3. Owners(ticket) = {[kind |-> "recorder", of |-> th]}
      BY <2>2, <3>1, <3>2 DEF Owners
    <3> QED
      BY <3>3
  <2>5. ASSUME NEW s \in Streams, IsPoint(s, ticket)
        PROVE  \E owner \in Owners(ticket) : Owners(ticket) = {owner}
    <3>1. PICK i : Places(ticket, m_points[s]) = {i}
      <4>1. PICK i \in 1..Len(m_points[s]) : m_points[s][i] = ticket
        BY <2>5 DEF IsPoint
      <4>2. \A j \in 1..Len(m_points[s]) : m_points[s][j] = ticket => j = i
        BY <4>1 DEF GivenOnce
      <4>3. Places(ticket, m_points[s]) = {i}
        BY <2>1, <4>1, <4>2 DEF Places
      <4> QED
        BY <4>3
    <3>2. ~IsAvailable(ticket) /\ ~IsInHands(ticket)
      BY <2>5 DEF HeldOnce, IsPoint
    <3>3. \A t \in Streams \ {s} : ~IsPoint(t, ticket)
      BY <2>5 DEF GivenOnce, IsPoint
    <3>4. Owners(ticket) = {[kind |-> "point", of |-> s, at |-> i]}
      BY <2>2, <3>1, <3>2, <3>3 DEF Owners
    <3> QED
      BY <3>4
  <2> QED
    BY <2>1, <2>3, <2>4, <2>5 DEF AllHeld
<1> QED
  BY <1>1, TimelinesInvHolds, PTL

LEMMA UpToIsCounted ==
    ASSUME NEW n \in Nat
    PROVE  IsFiniteSet(1..n) /\ Cardinality(1..n) = n
  BY FS_Interval

\* There is room for every event in m_available, so that giving tickets back
\* never allocates (pooled_event_recorder::create, release).
THEOREM EveryEventHasRoom == StreamTimelineSpec => []GivingBackNeverAllocates
<1>1. ASSUME TimelinesInv
      PROVE  GivingBackNeverAllocates
  <2> DEFINE free == ToSet(m_available)
  <2>1. /\ m_available \in Seq(Tickets) /\ Len(m_available) \in Nat /\ Len(m_events) \in Nat
        /\ Len(m_events) <= m_room /\ m_room \in Nat /\ DOMAIN m_events = Tickets
        /\ \A i, j \in 1..Len(m_available) : m_available[i] = m_available[j] => i = j
    BY <1>1 DEF TimelinesInv, OwnersInv, OwnerTypes, GivenOnce, Tickets
  <2>2. /\ m_available \in [1..Len(m_available) -> free] /\ free \subseteq Tickets
        /\ \A ticket \in free : \E i \in 1..Len(m_available) : m_available[i] = ticket
    <3>1. m_available \in [1..Len(m_available) -> Tickets] /\ DOMAIN m_available = 1..Len(m_available)
      BY <2>1, LenProperties
    <3>2. free = {m_available[i] : i \in 1..Len(m_available)}
      BY <3>1 DEF ToSet
    <3> QED
      BY ONLY <3>1, <3>2
  <2>3. m_available \in Surjection(1..Len(m_available), free)
        /\ m_available \in Injection(1..Len(m_available), free)
    BY <2>1, <2>2, Fun_IsSurj, Fun_IsInj
  <2>4. IsFiniteSet(free) /\ Cardinality(free) = Len(m_available)
    <3>1. IsFiniteSet(1..Len(m_available)) /\ Cardinality(1..Len(m_available)) = Len(m_available)
      BY <2>1, UpToIsCounted
    <3> QED
      BY <2>3, <3>1, FS_Surjection
  <2>5. IsFiniteSet(Tickets) /\ Cardinality(Tickets) = Len(m_events)
    BY <2>1, UpToIsCounted DEF Tickets
  <2>6. Cardinality(Tickets \ free) = Cardinality(Tickets) - Cardinality(free)
    <3>1. Tickets \cap free = free
      BY <2>2
    <3> QED
      BY <2>5, <3>1, FS_Difference
  <2>7. Len(m_available) + Cardinality(Tickets \ free) = Len(m_events)
    BY <2>1, <2>4, <2>5, <2>6
  <2> QED
    BY <2>1, <2>7 DEF GivingBackNeverAllocates
<1> QED
  BY <1>1, TimelinesInvHolds, PTL

----------------------------------------------------------------------------
(* What the callers see.                                                   *)

\* The largest of the starting point of a call and of what the commands stand
\* for exists, and what was captured is no less.
LEMMA LeastIsCaptured ==
    ASSUME TimelinesInv, NEW th \in Threads, NEW after \in Nat, HasCaptured(th, after),
           asked[th] \in Calls, asked[th].op = "record", NEW s, s = TimelineOf(th)
    PROVE  Max({asked[th].since} \cup ToSet(commands[s])) \in Nat
           /\ Max({asked[th].since} \cup ToSet(commands[s])) <= after
<1> PICK since \in Nat : since = asked[th].since
  BY CallFields
<1> PICK n : n = Len(commands[s])
  OBVIOUS
<1> DEFINE all == {since} \cup ToSet(commands[s])
<1>1. s \in Streams /\ commands[s] \in Seq(Nat) /\ n \in Nat /\ DOMAIN commands[s] = 1..n
  BY CallFields DEF TimelinesInv, WorldInv, TimelineOf
<1>2. \A j, k \in 1..n : j <= k => commands[s][j] <= commands[s][k]
  BY <1>1 DEF TimelinesInv, WorldInv
<1>3. \A k \in 1..n : commands[s][k] \in Nat
  BY <1>1, ElementOfSeq
<1>4. ToSet(commands[s]) = {commands[s][k] : k \in 1..n}
  BY <1>1 DEF ToSet
<1>5. \A x \in all : x \in Nat /\ x <= after
  BY <1>3, <1>4 DEF HasCaptured
<1>6. \E x \in all : \A y \in all : x >= y
  <2>1. CASE n = 0
    BY <1>4, <2>1
  <2>2. CASE n # 0
    <3>1. n \in 1..n /\ \A k \in 1..n : k <= n
      BY <1>1, <2>2
    <3> PICK last \in Nat : last = commands[s][n]
      BY <1>3, <3>1
    <3>2. \A k \in 1..n : commands[s][k] <= last
      BY <1>2, <3>1
    <3>3. last \in all
      BY <1>4, <3>1
    <3>4. CASE since <= last
      <4>1. \A y \in all : last >= y
        BY <1>3, <1>4, <3>2, <3>4
      <4> QED
        BY <3>3, <4>1
    <3>5. CASE last <= since
      <4>1. \A y \in all : since >= y
        BY <1>3, <1>4, <3>2, <3>5
      <4> QED
        BY <4>1
    <3> QED
      BY <3>4, <3>5
  <2> QED
    BY <2>1, <2>2
<1>7. Max(all) \in all
  BY <1>6 DEF Max
<1> QED
  BY <1>5, <1>7

LEMMA StartIsAsked ==
    ASSUME NEW th \in Threads,
           StartRecord(th) \/ StartWait(th) \/ StartIsComplete(th) \/ StartEnqueueWait(th)
    PROVE  TimelineNext
  BY DEF StartRecord, StartWait, StartIsComplete, StartEnqueueWait, Asks, TimelineNext

LEMMA KeepPointGivesId ==
    ASSUME TimelinesInv, NEW th \in Threads, KeepPoint(th)
    PROVE  GiveId(th)
<1> PICK s : s = TimelineOf(th)
  OBVIOUS
<1>1. /\ pc[th] = "keep" /\ Reply(th, [kind |-> "id", id |-> NewId(s)]) /\ UNCHANGED streamVars
      /\ \E now \in m_events[point[th]] : commands' = [commands EXCEPT ![s] = Append(@, now.after)]
  BY DEF KeepPoint, Return, Goto
<1>2. /\ asked[th] \in Calls /\ asked[th].op = "record" /\ s \in Streams /\ s \in alive
  BY <1>1, ThreadIsAsked DEF TimelinesInv, CallInv, Holding
<1>3. PICK after \in Nat : HasCaptured(th, after)
  BY <1>1 DEF TimelinesInv, CaptureInv, CaptureOK
<1>4. commands' = [commands EXCEPT ![s] = Append(@, after)]
  <2>1. PICK now \in m_events[point[th]] : commands' = [commands EXCEPT ![s] = Append(@, now.after)]
    BY <1>1
  <2>2. now.after = after
    BY <1>3 DEF HasCaptured
  <2> QED
    BY <2>1, <2>2
<1>5. NewId(s) = Len(commands[s])
  BY <1>2 DEF NewId, TimelinesInv, PointsInv
<1> DEFINE least == Max({asked[th].since} \cup ToSet(commands[s]))
<1>6. least \in Nat /\ least <= after
  BY <1>2, <1>3, LeastIsCaptured
<1>7. after <= Len(stream[s]) /\ Len(stream[s]) \in Nat
  BY <1>2, <1>3 DEF HasCaptured, TimelinesInv, WorldInv
<1> HIDE DEF least
<1>8. after \in least..Len(stream[s])
  BY <1>6, <1>7
<1> USE DEF least
<1>9. asked[th].timeline = s
  BY DEF TimelineOf
<1> QED
  BY <1>1, <1>2, <1>4, <1>5, <1>8, <1>9 DEF GiveId

\* A record that fails, with or without a ticket in its hands.
LEMMA RecordFailsThrows ==
    ASSUME TimelinesInv, NEW th \in Threads, RecordFails(th) \/ GiveTicketBack(th)
    PROVE  Throw(th)
<1>1. pc[th] \in Holding
  BY DEF RecordFails, GiveTicketBack, Holding
<1>2. asked[th].op = "record"
  BY <1>1 DEF TimelinesInv, CallInv
<1> QED
  BY <1>2 DEF RecordFails, GiveTicketBack, Return, Throw

\* Everything that is answered from under the lock.
LEMMA LookedUpIsAnswered ==
    ASSUME TimelinesInv, NEW th \in Threads, LookUpStep(th)
    PROVE  TimelineNext \/ UNCHANGED timelineVars
<1> PICK s, id : s = TimelineOf(th) /\ id = IdOf(th)
  OBVIOUS
<1>1. /\ asked[th] \in Calls /\ s \in alive /\ asked[th].op \in {"wait", "is_complete", "enqueue_wait"}
      /\ asked[th].timeline = s /\ asked[th].id = id /\ asked[th] # NoCall
  BY ThreadIsAsked DEF LookUpStep, TimelinesInv, CallInv, TimelineOf, IdOf
<1>2. id \in Nat
  BY <1>1, CallFields
<1>3. PointAsked(th) = PointOf(s, id) /\ (Names(th) <=> IsGiven(s, id))
  BY <1>1 DEF PointAsked, Names
<1>4. IsKnownComplete(s, id) => Reached(PointAsked(th)) /\ Names(th)
  BY <1>1, <1>2, <1>3, KnownCompleteIsReached
<1>5. ~IsKnownComplete(s, id) /\ HasPoint(s, id)
          => m_events[GetPoint(s, id)] = {PointAsked(th)} /\ Names(th)
  BY <1>1, <1>2, <1>3, PointOfId
<1>6. ~Tells(s, id) => ~Names(th)
  BY <1>1, <1>2, <1>3, UntoldIsNotGiven
<1>7. ASSUME WaitKnownComplete(th)
      PROVE  AnswerWait(th)
  BY <1>4, <1>7 DEF WaitKnownComplete, Return, AnswerWait
<1>8. ASSUME LookUp(th)
      PROVE  UNCHANGED timelineVars
  BY <1>8 DEF LookUp, callerVars, timelineVars
<1>9. ASSUME TellIsComplete(th)
      PROVE  AnswerIsComplete(th)
  <2>1. /\ asked[th].op = "is_complete" /\ Tells(s, id)
        /\ Reply(th, Is(IF IsComplete(s, id) THEN "true" ELSE "false"))
        /\ UNCHANGED <<commands, streamVars>>
    BY <1>9 DEF TellIsComplete, Return
  <2>2. Names(th) /\ (IsComplete(s, id) <=> Reached(PointAsked(th)))
    BY <1>4, <1>5, <2>1 DEF Tells, IsComplete, IsReached
  <2>3. Is(IF IsComplete(s, id) THEN "true" ELSE "false")
            = Is(IF Reached(PointAsked(th)) THEN "true" ELSE "false")
    BY <2>2
  <2> QED
    BY <2>1, <2>2, <2>3 DEF AnswerIsComplete
<1>10. ASSUME EnqueueWait(th)
       PROVE  AnswerEnqueueWait(th)
  <2>1. /\ asked[th].op = "enqueue_wait" /\ Tells(s, id) /\ Reply(th, Is("done")) /\ UNCHANGED commands
        /\ IF IsKnownComplete(s, id) THEN UNCHANGED streamVars
           ELSE Enqueue(asked[th].waiter, m_events[GetPoint(s, id)])
    BY <1>10 DEF EnqueueWait, Return
  <2>2. Names(th)
    BY <1>4, <1>5, <2>1 DEF Tells
  <2>3. Enqueue(asked[th].waiter, {PointAsked(th)}) \/ (Reached(PointAsked(th)) /\ UNCHANGED streamVars)
    BY <1>4, <1>5, <2>1 DEF Tells
  <2> QED
    BY <2>1, <2>2, <2>3 DEF AnswerEnqueueWait
<1>11. ASSUME RefuseId(th)
       PROVE  Refuse(th)
  BY <1>1, <1>6, <1>11 DEF RefuseId, Return, Refuse
<1>12. ASSUME AskingFails(th)
       PROVE  Throw(th)
  BY <1>5, <1>12 DEF AskingFails, Return, Throw
<1> QED
  BY <1>7, <1>8, <1>9, <1>10, <1>11, <1>12 DEF LookUpStep, TimelineNext

LEMMA EndWaitAnswers ==
    ASSUME TimelinesInv, NEW th \in Threads, EndWait(th)
    PROVE  AnswerWait(th) \/ Throw(th)
<1>1. /\ pc[th] \in Waiting /\ UNCHANGED <<commands, streamVars>>
      /\ \/ pc[th] = "end_wait" /\ Reply(th, Is("done"))
         \/ pc[th] = "end_failed_wait" /\ Reply(th, Is("error"))
  BY DEF EndWait, Waiting, Return, Goto
<1>2. Names(th) /\ asked[th].op = "wait"
  BY <1>1, WaiterHasItsPoint DEF TimelinesInv, CallInv
<1>3. pc[th] = "end_wait" => Reached(PointAsked(th))
  BY DEF TimelinesInv, WaitInv, WaitOK
<1> QED
  BY <1>1, <1>2, <1>3 DEF AnswerWait, Throw

LEMMA StepIsAllowed ==
    ASSUME TimelinesInv, [StreamTimelineNext]_allVars
    PROVE  [TimelineNext]_timelineVars
<1>1. ASSUME NEW th \in Threads,
             StartRecord(th) \/ StartWait(th) \/ StartIsComplete(th) \/ StartEnqueueWait(th)
      PROVE  TimelineNext
  BY <1>1, StartIsAsked
<1>2. ASSUME NEW th \in Threads, RecordStep(th)
      PROVE  TimelineNext \/ UNCHANGED timelineVars
  <2>1. ASSUME LockRecord(th) \/ DropReachedPoint(th) \/ EndDrop(th) \/ Acquire(th) \/ Capture(th)
        PROVE  UNCHANGED timelineVars
    BY <2>1 DEF LockRecord, DropReachedPoint, EndDrop, Acquire, Capture, callerVars, timelineVars
  <2> QED
    BY <1>2, <2>1, KeepPointGivesId, RecordFailsThrows DEF RecordStep, TimelineNext
<1>3. ASSUME NEW th \in Threads, LookUpStep(th)
      PROVE  TimelineNext \/ UNCHANGED timelineVars
  BY <1>3, LookedUpIsAnswered
<1>4. ASSUME NEW th \in Threads, WaitReturns(th)
      PROVE  UNCHANGED timelineVars
  BY <1>4 DEF WaitReturns, callerVars, timelineVars
<1>5. ASSUME NEW th \in Threads, EndWait(th)
      PROVE  TimelineNext
  BY <1>5, EndWaitAnswers DEF TimelineNext
<1>6. ASSUME NEW s \in Streams, Destroy(s) \/ LaunchWork(s) \/ RunStream(s)
      PROVE  TimelineNext
  BY <1>6 DEF Destroy, LaunchWork, RunStream, TimelineNext
<1>7. CASE UNCHANGED allVars
  BY <1>7 DEF allVars
<1> QED
  BY <1>1, <1>2, <1>3, <1>4, <1>5, <1>6, <1>7 DEF StreamTimelineNext, CallStep

\* What the callers of the timelines see is what CommandTimeline allows: the
\* mutexes, the events, the cache of what has finished and the unlocked wait
\* do not show (stream_timeline.hpp).
THEOREM TimelinesKeepTheirPromise == StreamTimelineSpec => CommandTimelineSpec
<1>1. StreamTimelineInit => TimelineInit
  BY DEF StreamTimelineInit
<1> QED
  BY <1>1, StepIsAllowed, TimelinesInvHolds, PTL DEF StreamTimelineSpec, CommandTimelineSpec

====
