---- MODULE CommandTimeline ----
(***************************************************************************)
(* What the timelines of the queues promise to whoever calls them          *)
(* (stream_timeline.hpp): ids in order, each standing for the work its     *)
(* stream had been given at some moment of the call that gave it, and      *)
(* every call answered as if it took effect at once.  There are no events, *)
(* no locks and no cache of what has finished here.                        *)
(***************************************************************************)
EXTENDS DeviceStreams, FiniteSetsExt

CONSTANTS
    Threads,
    MaxCommands     \* bound: ids one timeline gives

ASSUME ThreadsAssumption == IsFiniteSet(Threads)
ASSUME CommandsAssumption == MaxCommands \in Nat

VARIABLES
    commands,   \* per timeline, the length of its stream each id stands for
    asked,      \* the call each thread is in
    answer,     \* what the last call of each thread returned or threw
    alive       \* the timelines that were not destroyed

timelineVars == <<commands, asked, answer, alive, streamVars>>

NoCall == [op |-> "none"]

\* Callers ask about commands they were given, or about the one after those,
\* which the timeline may give while it is being asked.
AskedIds(s) == 0..Len(commands[s])

Calls ==
    [op : {"record"}, timeline : Streams, since : Nat]
    \cup [op : {"wait", "is_complete"}, timeline : Streams, id : Nat]
    \cup [op : {"enqueue_wait"}, timeline : Streams, id : Nat, waiter : Streams]

Answers ==
    [kind : {"none", "done", "true", "false", "unknown id", "error"}]
    \cup [kind : {"id"}, id : Nat]

Is(kind) == [kind |-> kind]

IsGiven(s, id) == id < Len(commands[s])

PointOf(s, id) == [stream |-> s, after |-> commands[s][id + 1]]

Recording(s) == {th \in Threads : asked[th].op = "record" /\ asked[th].timeline = s}

Calling(s) == {th \in Threads : asked[th] # NoCall /\ asked[th].timeline = s}

----------------------------------------------------------------------------
TimelineInit ==
    /\ StreamsInit
    /\ commands = [s \in Streams |-> <<>>]
    /\ asked = [th \in Threads |-> NoCall]
    /\ answer = [th \in Threads |-> Is("none")]
    /\ alive = Streams

Ask(th, call) ==
    /\ asked[th] = NoCall
    /\ call.timeline \in alive
    /\ asked' = [asked EXCEPT ![th] = call]
    /\ answer' = [answer EXCEPT ![th] = Is("none")]
    /\ UNCHANGED <<commands, alive, streamVars>>

AskRecord(th, s) ==
    /\ Len(commands[s]) + Cardinality(Recording(s)) < MaxCommands
    /\ Ask(th, [op |-> "record", timeline |-> s, since |-> Len(stream[s])])

AskWait(th, s) ==
    \E id \in AskedIds(s) : Ask(th, [op |-> "wait", timeline |-> s, id |-> id])

AskIsComplete(th, s) ==
    \E id \in AskedIds(s) : Ask(th, [op |-> "is_complete", timeline |-> s, id |-> id])

\* A queue is deferred for the commands of the others only.
AskEnqueueWait(th, s) ==
    \E id \in AskedIds(s), waiter \in Streams \ {s} :
        Ask(th, [op |-> "enqueue_wait", timeline |-> s, id |-> id, waiter |-> waiter])

Reply(th, what) ==
    /\ asked' = [asked EXCEPT ![th] = NoCall]
    /\ answer' = [answer EXCEPT ![th] = what]
    /\ UNCHANGED alive

\* record: the id stands for everything the stream had been given when the
\* call was made, and for no less than the id before it.
GiveId(th) ==
    /\ asked[th].op = "record"
    /\ LET s == asked[th].timeline
           least == Max({asked[th].since} \cup ToSet(commands[s]))
       IN  /\ \E after \in least..Len(stream[s]) :
                 commands' = [commands EXCEPT ![s] = Append(@, after)]
           /\ Reply(th, [kind |-> "id", id |-> Len(commands[s])])
    /\ UNCHANGED streamVars

Names(th) ==
    /\ asked[th].op \in {"wait", "is_complete", "enqueue_wait"}
    /\ IsGiven(asked[th].timeline, asked[th].id)

PointAsked(th) == PointOf(asked[th].timeline, asked[th].id)

\* wait: returns only once the command has finished.
AnswerWait(th) ==
    /\ asked[th].op = "wait" /\ Names(th)
    /\ Reached(PointAsked(th))
    /\ Reply(th, Is("done"))
    /\ UNCHANGED <<commands, streamVars>>

AnswerIsComplete(th) ==
    /\ asked[th].op = "is_complete" /\ Names(th)
    /\ Reply(th, Is(IF Reached(PointAsked(th)) THEN "true" ELSE "false"))
    /\ UNCHANGED <<commands, streamVars>>

\* enqueue_wait: the other stream waits, unless the command has finished.
AnswerEnqueueWait(th) ==
    /\ asked[th].op = "enqueue_wait" /\ Names(th)
    /\ \/ Enqueue(asked[th].waiter, {PointAsked(th)})
       \/ Reached(PointAsked(th)) /\ UNCHANGED streamVars
    /\ Reply(th, Is("done"))
    /\ UNCHANGED commands

\* std::out_of_range: the timeline never gave that id.
Refuse(th) ==
    /\ asked[th] # NoCall /\ asked[th].op # "record"
    /\ ~Names(th)
    /\ Reply(th, Is("unknown id"))
    /\ UNCHANGED <<commands, streamVars>>

\* Any call that reaches the device may throw instead, and leaves no trace.
Throw(th) ==
    /\ asked[th].op = "record" \/ Names(th)
    /\ Reply(th, Is("error"))
    /\ UNCHANGED <<commands, streamVars>>

\* Nobody holds a token of the timeline any more.
Forget(s) ==
    /\ s \in alive /\ Calling(s) = {}
    /\ alive' = alive \ {s}
    /\ UNCHANGED <<commands, asked, answer, streamVars>>

Launch(s) ==
    /\ Enqueue(s, Work)
    /\ UNCHANGED <<commands, asked, answer, alive>>

Run(s) ==
    /\ Advance(s)
    /\ UNCHANGED <<commands, asked, answer, alive>>

Asks(th) ==
    \E s \in Streams :
        AskRecord(th, s) \/ AskWait(th, s) \/ AskIsComplete(th, s) \/ AskEnqueueWait(th, s)

TimelineNext ==
    \/ \E th \in Threads :
          \/ Asks(th)
          \/ GiveId(th) \/ AnswerWait(th) \/ AnswerIsComplete(th) \/ AnswerEnqueueWait(th)
          \/ Refuse(th) \/ Throw(th)
    \/ \E s \in Streams : Forget(s) \/ Launch(s) \/ Run(s)

CommandTimelineSpec == TimelineInit /\ [][TimelineNext]_timelineVars
====
