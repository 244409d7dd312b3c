---- MODULE StreamTimeline ----
(***************************************************************************)
(* stream_timeline: one per queue, called by many threads, over the one    *)
(* event recorder of the device.  A thread takes one step per critical     *)
(* section and per call of the recorder; every call of the recorder may    *)
(* throw.  `commands`, `asked`, `answer` and `alive` are what the callers  *)
(* see; CommandTimeline says what that may be.                             *)
(***************************************************************************)
EXTENDS CommandTimeline, PooledEventRecorder

CONSTANTS
    NoThread,       \* what a mutex holds while it is not locked
    CallsMayThrow   \* whether the recorder and host memory may fail

ASSUME NoThreadAssumption == NoThread \notin Threads

VARIABLES
    m_mutex,            \* per timeline, the thread that holds it
    m_points,           \* per timeline, a ticket per command, oldest first
    m_first_id,         \* the id the first of them stands for
    m_waiter_count,     \* how many threads wait for one of them
    pc,                 \* what each thread is about to do
    point               \* the ticket in the thread's hands

membersVars == <<m_mutex, m_points, m_first_id, m_waiter_count>>
threadVars == <<pc, point>>
callerVars == <<commands, asked, answer, alive>>
allVars == <<timelineVars, recorderVars, membersVars, threadVars>>

NoTicket == 0   \* event_recorder::no_ticket

StreamTimelineInit ==
    /\ TimelineInit /\ RecorderInit
    /\ m_mutex = [s \in Streams |-> NoThread]
    /\ m_points = [s \in Streams |-> <<>>]
    /\ m_first_id = [s \in Streams |-> 0]
    /\ m_waiter_count = [s \in Streams |-> 0]
    /\ pc = [th \in Threads |-> "idle"]
    /\ point = [th \in Threads |-> NoTicket]

----------------------------------------------------------------------------
(* The moves of a thread.                                                  *)

TimelineOf(th) == asked[th].timeline

Goto(th, from, to) == pc[th] = from /\ pc' = [pc EXCEPT ![th] = to]

Hold(th, ticket) == point' = [point EXCEPT ![th] = ticket]

Unlocked(s) == m_mutex[s] = NoThread

Unlock(s) == m_mutex' = [m_mutex EXCEPT ![s] = NoThread]

\* The call returns, or throws, `what`.
Return(th, from, what) ==
    /\ Goto(th, from, "idle")
    /\ Hold(th, NoTicket)
    /\ Reply(th, what)

Begin(th, to) ==
    /\ Goto(th, "idle", to)
    /\ UNCHANGED <<point, membersVars, recorderVars>>

\* A slip: the id of the first point counts as finished already.
IsAlmostKnownComplete(s, id) == id <= m_first_id[s]

IsKnownComplete(s, id) == id < m_first_id[s]

\* get_point throws std::out_of_range unless this holds.
HasPoint(s, id) == id - m_first_id[s] < Len(m_points[s])

GetPoint(s, id) == m_points[s][id - m_first_id[s] + 1]

----------------------------------------------------------------------------
(* record                                                                  *)

StartRecord(th) == (\E s \in Streams : AskRecord(th, s)) /\ Begin(th, "lock_record")

\* A slip: the lock is not waited for.
LockUnchecked(th, s) == m_mutex' = [m_mutex EXCEPT ![s] = th]

Lock(th, s) == Unlocked(s) /\ m_mutex' = [m_mutex EXCEPT ![s] = th]

\* A slip: the threads that wait do not keep the points.
MayAlwaysDrop(s) == TRUE

MayDrop(s) == m_waiter_count[s] = 0

LockRecord(th) ==
    /\ Goto(th, "lock_record", IF MayDrop(TimelineOf(th)) THEN "drop" ELSE "acquire")
    /\ Lock(th, TimelineOf(th))
    /\ UNCHANGED <<point, m_points, m_first_id, m_waiter_count, callerVars,
                   recorderVars, streamVars>>

FirstIsReached(s) == m_points[s] # <<>> /\ IsReached(Head(m_points[s]))

\* A slip: the points move up, and the ids they stand for do not.
SameFirstId(s) == m_first_id[s]

NextFirstId(s) == m_first_id[s] + 1

\* drop_reached_points, one turn of its loop.
DropReachedPoint(th) ==
    LET s == TimelineOf(th)
    IN  /\ pc[th] = "drop"
        /\ FirstIsReached(s)
        /\ ReleaseEvents(<<Head(m_points[s])>>)
        /\ m_points' = [m_points EXCEPT ![s] = Tail(@)]
        /\ m_first_id' = [m_first_id EXCEPT ![s] = NextFirstId(s)]
        /\ UNCHANGED <<m_mutex, m_waiter_count, threadVars, callerVars, streamVars>>

EndDrop(th) ==
    /\ Goto(th, "drop", "acquire")
    /\ ~FirstIsReached(TimelineOf(th))
    /\ UNCHANGED <<point, membersVars, callerVars, recorderVars, streamVars>>

Acquire(th) ==
    /\ Goto(th, "acquire", "capture")
    /\ AcquireEvent
    /\ Hold(th, NextTicket)
    /\ UNCHANGED <<membersVars, callerVars, streamVars>>

\* cudaEventRecord, without the recorder's lock.
Capture(th) ==
    /\ Goto(th, "capture", "keep")
    /\ RecordEvent(point[th], TimelineOf(th))
    /\ UNCHANGED <<point, membersVars, callerVars, streamVars>>

\* A slip: ids count the points that are held, not the commands there were.
IdByPoint(s) == Len(m_points[s])

NewId(s) == m_first_id[s] + Len(m_points[s])

KeepPoint(th) ==
    LET s == TimelineOf(th)
    IN  /\ Return(th, "keep", [kind |-> "id", id |-> NewId(s)])
        /\ m_points' = [m_points EXCEPT ![s] = Append(@, point[th])]
        /\ \E now \in m_events[point[th]] :
              commands' = [commands EXCEPT ![s] = Append(@, now.after)]
        /\ Unlock(s)
        /\ UNCHANGED <<m_first_id, m_waiter_count, recorderVars, streamVars>>

----------------------------------------------------------------------------
(* record, when a call in it throws                                        *)

\* Querying the first point, or creating an event, throws.
RecordFails(th) ==
    /\ CallsMayThrow
    /\ \/ pc[th] = "drop" /\ m_points[TimelineOf(th)] # <<>> /\ UNCHANGED recorderVars
       \/ pc[th] = "acquire" /\ ReserveFails
       \/ pc[th] = "acquire" /\ CreateFails
    /\ Unlock(TimelineOf(th))
    /\ Return(th, pc[th], Is("error"))
    /\ UNCHANGED <<commands, m_points, m_first_id, m_waiter_count, streamVars>>

\* A slip: only a failure of cudaEventRecord itself gives the ticket back.
GiveTicketBackUncaptured(th) ==
    /\ CallsMayThrow
    /\ pc[th] \in {"capture", "keep"}
    /\ IF pc[th] = "capture" THEN ReleaseEvents(<<point[th]>>) ELSE UNCHANGED recorderVars
    /\ Unlock(TimelineOf(th))
    /\ Return(th, pc[th], Is("error"))
    /\ UNCHANGED <<commands, m_points, m_first_id, m_waiter_count, streamVars>>

\* cudaEventRecord, or keeping the new point, throws: the ticket goes back.
GiveTicketBack(th) ==
    /\ CallsMayThrow
    /\ pc[th] \in {"capture", "keep"}
    /\ ReleaseEvents(<<point[th]>>)
    /\ Unlock(TimelineOf(th))
    /\ Return(th, pc[th], Is("error"))
    /\ UNCHANGED <<commands, m_points, m_first_id, m_waiter_count, streamVars>>

----------------------------------------------------------------------------
(* wait                                                                    *)

StartWait(th) == (\E s \in Streams : AskWait(th, s)) /\ Begin(th, "look_up")

IdOf(th) == asked[th].id

WaitKnownComplete(th) ==
    /\ asked[th].op = "wait"
    /\ Unlocked(TimelineOf(th))
    /\ IsKnownComplete(TimelineOf(th), IdOf(th))
    /\ Return(th, "look_up", Is("done"))
    /\ UNCHANGED <<commands, membersVars, recorderVars, streamVars>>

\* The point is taken, and kept from being given back, under the lock.
LookUp(th) ==
    LET s == TimelineOf(th)
    IN  /\ Goto(th, "look_up", "waiting")
        /\ asked[th].op = "wait"
        /\ Unlocked(s)
        /\ ~IsKnownComplete(s, IdOf(th)) /\ HasPoint(s, IdOf(th))
        /\ Hold(th, GetPoint(s, IdOf(th)))
        /\ m_waiter_count' = [m_waiter_count EXCEPT ![s] = @ + 1]
        /\ UNCHANGED <<m_mutex, m_points, m_first_id, callerVars, recorderVars, streamVars>>

\* cudaEventSynchronize, without a lock: it returns, or throws.
WaitReturns(th) ==
    /\ \/ Goto(th, "waiting", "end_wait") /\ IsReached(point[th])
       \/ CallsMayThrow /\ Goto(th, "waiting", "end_failed_wait")
    /\ UNCHANGED <<point, membersVars, callerVars, recorderVars, streamVars>>

\* A slip: a wait that throws is not counted down.
CountWithoutReturned(th) ==
    m_waiter_count[TimelineOf(th)] - (IF pc[th] = "end_wait" THEN 1 ELSE 0)

CountWithout(th) == m_waiter_count[TimelineOf(th)] - 1

EndWait(th) ==
    LET s == TimelineOf(th)
    IN  /\ pc[th] \in {"end_wait", "end_failed_wait"}
        /\ Unlocked(s)
        /\ m_waiter_count' = [m_waiter_count EXCEPT ![s] = CountWithout(th)]
        /\ \/ Return(th, "end_wait", Is("done"))
           \/ Return(th, "end_failed_wait", Is("error"))
        /\ UNCHANGED <<commands, m_mutex, m_points, m_first_id, recorderVars, streamVars>>

----------------------------------------------------------------------------
(* is_complete and enqueue_wait: all of it under the lock.                 *)

StartIsComplete(th) == (\E s \in Streams : AskIsComplete(th, s)) /\ Begin(th, "look_up")

StartEnqueueWait(th) == (\E s \in Streams : AskEnqueueWait(th, s)) /\ Begin(th, "look_up")

IsComplete(s, id) == IsKnownComplete(s, id) \/ IsReached(GetPoint(s, id))

\* A point is asked about only when the first id does not already tell.
Tells(s, id) == IsKnownComplete(s, id) \/ HasPoint(s, id)

TellIsComplete(th) ==
    LET s == TimelineOf(th)
    IN  /\ asked[th].op = "is_complete"
        /\ Unlocked(s)
        /\ Tells(s, IdOf(th))
        /\ Return(th, "look_up", Is(IF IsComplete(s, IdOf(th)) THEN "true" ELSE "false"))
        /\ UNCHANGED <<commands, membersVars, recorderVars, streamVars>>

EnqueueWait(th) ==
    LET s == TimelineOf(th)
    IN  /\ asked[th].op = "enqueue_wait"
        /\ Unlocked(s)
        /\ Tells(s, IdOf(th))
        /\ IF IsKnownComplete(s, IdOf(th))
           THEN UNCHANGED streamVars
           ELSE Enqueue(asked[th].waiter, m_events[GetPoint(s, IdOf(th))])
        /\ Return(th, "look_up", Is("done"))
        /\ UNCHANGED <<commands, membersVars, recorderVars>>

\* get_point throws std::out_of_range.
RefuseId(th) ==
    LET s == TimelineOf(th)
    IN  /\ pc[th] = "look_up"
        /\ Unlocked(s)
        /\ ~Tells(s, IdOf(th))
        /\ Return(th, "look_up", Is("unknown id"))
        /\ UNCHANGED <<commands, membersVars, recorderVars, streamVars>>

\* The event could not be queried, or the wait not be scheduled.
AskingFails(th) ==
    LET s == TimelineOf(th)
    IN  /\ CallsMayThrow
        /\ pc[th] = "look_up" /\ asked[th].op \in {"is_complete", "enqueue_wait"}
        /\ Unlocked(s)
        /\ ~IsKnownComplete(s, IdOf(th)) /\ HasPoint(s, IdOf(th))
        /\ Return(th, "look_up", Is("error"))
        /\ UNCHANGED <<commands, membersVars, recorderVars, streamVars>>

----------------------------------------------------------------------------
(* ~stream_timeline, and what goes on around the timelines.                *)

Destroy(s) ==
    /\ Forget(s)
    /\ ReleaseEvents(m_points[s])
    /\ m_points' = [m_points EXCEPT ![s] = <<>>]
    /\ UNCHANGED <<m_mutex, m_first_id, m_waiter_count, threadVars>>

LaunchWork(s) == Launch(s) /\ UNCHANGED <<membersVars, recorderVars, threadVars>>

RunStream(s) == Run(s) /\ UNCHANGED <<membersVars, recorderVars, threadVars>>

RecordStep(th) ==
    \/ LockRecord(th) \/ DropReachedPoint(th) \/ EndDrop(th) \/ Acquire(th) \/ Capture(th)
    \/ KeepPoint(th) \/ RecordFails(th) \/ GiveTicketBack(th)

LookUpStep(th) ==
    /\ asked[th] # NoCall
    /\ pc[th] = "look_up"
    /\ \/ WaitKnownComplete(th) \/ LookUp(th) \/ TellIsComplete(th) \/ EnqueueWait(th)
       \/ RefuseId(th) \/ AskingFails(th)

CallStep(th) == RecordStep(th) \/ LookUpStep(th) \/ WaitReturns(th) \/ EndWait(th)

StreamTimelineNext ==
    \/ \E th \in Threads :
          \/ StartRecord(th) \/ StartWait(th) \/ StartIsComplete(th) \/ StartEnqueueWait(th)
          \/ CallStep(th)
    \/ \E s \in Streams : Destroy(s) \/ LaunchWork(s) \/ RunStream(s)

StreamTimelineSpec == StreamTimelineInit /\ [][StreamTimelineNext]_allVars

\* A wait whose point was reached returns, and the device runs what it can.
\* Nothing is assumed of a thread that wants a lock: std::mutex does not promise
\* who is next.
Fairness ==
    /\ \A th \in Threads : WF_allVars(WaitReturns(th))
    /\ \A s \in Streams : WF_allVars(RunStream(s))

FairStreamTimelineSpec == StreamTimelineSpec /\ Fairness

----------------------------------------------------------------------------
(* Properties.                                                             *)

Holding == {"drop", "acquire", "capture", "keep"}

StreamTimelineTypeOK ==
    /\ StreamsTypeOK /\ RecorderTypeOK
    /\ commands \in [Streams -> Seq(Nat)]
    /\ asked \in [Threads -> Calls \cup {NoCall}]
    /\ answer \in [Threads -> Answers]
    /\ alive \subseteq Streams
    /\ m_points \in [Streams -> Seq(DOMAIN m_events)]
    /\ m_first_id \in [Streams -> Nat]
    /\ m_waiter_count \in [Streams -> Nat]
    /\ pc \in [Threads -> Holding \cup {"idle", "lock_record", "look_up", "waiting",
                                       "end_wait", "end_failed_wait"}]
    /\ point \in [Threads -> {NoTicket} \cup DOMAIN m_events]
    /\ m_mutex \in [Streams -> Threads \cup {NoThread}]
    /\ \A s \in Streams :
          {th \in Calling(s) : pc[th] \in Holding} = {m_mutex[s]} \ {NoThread}

\* A timeline holds, for every command that may still be running and in the
\* order of the ids, a ticket whose event captured exactly the point that the
\* id stands for, and every command before those has finished
\* (stream_timeline::m_points, m_first_id; the stream runs in order).
PointsStandForCommands ==
    \A s \in alive :
        /\ m_first_id[s] + Len(m_points[s]) = Len(commands[s])
        /\ \A i \in 1..Len(m_points[s]) :
              m_events[m_points[s][i]] = {PointOf(s, m_first_id[s] + i - 1)}
        /\ \A id \in 0..m_first_id[s] - 1 : Reached(PointOf(s, id))

\* The event a thread waits for, without any lock, is still the one that
\* captured the command it asked about: nobody gave it back and captured
\* something else with it meanwhile (stream_timeline::wait, record;
\* event_recorder::wait forbids it).
WaitersKeepTheirPoint ==
    \A th \in Threads :
        pc[th] = "waiting" => m_events[point[th]] = {PointAsked(th)}

Recorders == {th \in Threads : pc[th] \in {"capture", "keep"}}

Places(ticket, tickets) == {i \in DOMAIN tickets : tickets[i] = ticket}

\* Whoever a ticket was given to, once for each time.
Owners(ticket) ==
    {[kind |-> "available", at |-> i] : i \in Places(ticket, m_available)}
    \cup (UNION {{[kind |-> "point", of |-> s, at |-> i] : i \in Places(ticket, m_points[s])} :
                    s \in Streams})
    \cup {[kind |-> "recorder", of |-> th] : th \in {th \in Recorders : point[th] = ticket}}

\* No event is lost or shared, whatever throws: each is free, or held by one
\* timeline for one command, or in the hands of one thread that is capturing
\* (pooled_event_recorder::acquire, release; stream_timeline::record,
\* drop_reached_points, ~stream_timeline).
EventsHaveOneOwner ==
    \A ticket \in DOMAIN m_events : \E owner \in Owners(ticket) : Owners(ticket) = {owner}

\* Giving every ticket back at once would not make m_available grow, which is
\* why release may be noexcept (pooled_event_recorder::create).
GivingBackNeverAllocates ==
    Len(m_available) + Cardinality(DOMAIN m_events \ ToSet(m_available)) <= m_room

Waiters(s) ==
    {th \in Calling(s) : pc[th] \in {"waiting", "end_wait", "end_failed_wait"}}

\* The count is how many threads wait, or no point is ever given back again
\* (too many) or one is under a thread that waits (too few)
\* (stream_timeline::wait, end_wait).
WaiterCountIsWaiters ==
    \A s \in Streams : m_waiter_count[s] = Cardinality(Waiters(s))

\* A thread that waits for a command gets an answer: streams that wait for
\* each other's points never wait in a circle, and a point waited for stays
\* (stream_timeline::wait, enqueue_wait).
WaitsEnd == \A th \in Threads : pc[th] = "waiting" ~> pc[th] # "waiting"
====
