---- MODULE PooledEventRecorder ----
(***************************************************************************)
(* pooled_event_recorder: the events that capture points of the streams of *)
(* one device, shared by the timelines of its queues.  Each action here is *)
(* one critical section of its m_mutex, or one call of the CUDA runtime.   *)
(***************************************************************************)
EXTENDS DeviceStreams, FiniteSetsExt

VARIABLES
    m_events,       \* per ticket, the point its event captured, if any
    m_available,    \* tickets not handed out, the next one last
    m_room          \* the capacity of m_available

recorderVars == <<m_events, m_available, m_room>>

RecorderInit == m_events = <<>> /\ m_available = <<>> /\ m_room = 0

\* An event that was never recorded counts as reached.
IsReached(ticket) == \A point \in m_events[ticket] : Reached(point)

----------------------------------------------------------------------------
\* A slip: room is made for the events there were before this one.
ReserveForOthers == m_room' = Max({m_room, Len(m_events)})

\* create: room to give the ticket back is made before the event is.
Reserve == m_room' = Max({m_room, Len(m_events) + 1})

CreateEvent ==
    /\ m_available = <<>>
    /\ Reserve
    /\ m_events' = Append(m_events, {})
    /\ UNCHANGED m_available

ReserveFails == m_available = <<>> /\ UNCHANGED recorderVars

\* The room was made, but not the event.
CreateFails ==
    /\ m_available = <<>>
    /\ Reserve
    /\ UNCHANGED <<m_events, m_available>>

ReuseEvent ==
    /\ m_available # <<>>
    /\ m_available' = Front(m_available)
    /\ UNCHANGED <<m_events, m_room>>

\* The ticket that acquire returns.
NextTicket == IF m_available = <<>> THEN Len(m_events) + 1 ELSE Last(m_available)

AcquireEvent == CreateEvent \/ ReuseEvent

\* A slip: the point is taken before the work it should stand for is issued.
RecordEventTooEarly(ticket, s) ==
    /\ m_events' = [m_events EXCEPT ![ticket] = {[Now(s) EXCEPT !.after = @ + 1]}]
    /\ UNCHANGED <<m_available, m_room>>

RecordEvent(ticket, s) ==
    /\ m_events' = [m_events EXCEPT ![ticket] = {Now(s)}]
    /\ UNCHANGED <<m_available, m_room>>

\* A slip: the tickets are forgotten.
ForgetEvents(tickets) == UNCHANGED recorderVars

ReleaseEvents(tickets) ==
    /\ m_available' = m_available \o tickets
    /\ UNCHANGED <<m_events, m_room>>

RecorderTypeOK ==
    /\ m_events \in Seq(SUBSET Points)
    /\ m_available \in Seq(DOMAIN m_events)
    /\ m_room \in Nat
====
