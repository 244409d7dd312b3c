---- MODULE CudaCommandQueue ----
(***************************************************************************)
(* cuda_command_queue: threads submit commands to the queues, one stream   *)
(* and one timeline each.  The timelines are what CommandTimeline promises *)
(* (StreamTimeline shows that they keep it): an id is given, a point       *)
(* waited for, in one step.  The programs that are launched, the buffers   *)
(* and tokens of other backends are outside this repository.               *)
(***************************************************************************)
EXTENDS DeviceStreams, FiniteSetsExt

CONSTANTS
    Threads,
    Buffers,            \* buffers this backend allocated
    NoTimeline,         \* the null timeline of an empty token
    OtherTimeline,      \* the timeline of another backend's queue
    MaxSubmits,         \* bound: calls of submit
    CallsMayThrow       \* whether the CUDA runtime and host memory may fail

ASSUME TimelinesAssumption == NoTimeline # OtherTimeline /\ {NoTimeline, OtherTimeline} \cap Streams = {}
ASSUME SubmitsAssumption == MaxSubmits \in Nat

VARIABLES
    commands,       \* per timeline, the length of its stream each id stands for
    open_queues,    \* the queues that were not destroyed, by their streams
    other_done,     \* whether the other backend finished its command
    m_uses,         \* per buffer, the tokens of the commands that use it
    tokens,         \* the tokens that submit returned
    launched,       \* the commands whose work a stream was given
    submits,        \* how many submissions were made
    pc, frame       \* what each thread is about to do, and its locals

queueVars == <<streamVars, commands, open_queues, other_done, m_uses, tokens, launched, submits, pc, frame>>

\* `work` is not in the program: the place of the command's work in its stream.
Token(timeline, id, work) == [timeline |-> timeline, id |-> id, work |-> work]

NoToken == Token(NoTimeline, 0, 0)

OtherToken == Token(OtherTimeline, 0, 0)

IsEmpty(token) == token.timeline = NoTimeline

PointOf(token) == [stream |-> token.timeline, after |-> commands[token.timeline][token.id + 1]]

EmptyFrame ==
    [queue |-> NoTimeline, dependencies |-> {}, to_wait |-> {}, operands |-> {},
     own |-> TRUE, work |-> 0, token |-> NoToken, to_record |-> {}, until |-> 0]

QueueInit ==
    /\ StreamsInit
    /\ commands = [s \in Streams |-> <<>>]
    /\ open_queues = Streams
    /\ other_done = FALSE
    /\ m_uses = [b \in Buffers |-> {}]
    /\ tokens = {}
    /\ launched = {}
    /\ submits = 0
    /\ pc = [th \in Threads |-> "idle"]
    /\ frame = [th \in Threads |-> EmptyFrame]

----------------------------------------------------------------------------
Goto(th, from, to) == pc[th] = from /\ pc' = [pc EXCEPT ![th] = to]

Keep(th, locals) == frame' = [frame EXCEPT ![th] = locals]

Return(th, from) == Goto(th, from, "idle") /\ Keep(th, EmptyFrame)

QueueOf(th) == frame[th].queue

\* A command of this backend: what it depends on, the buffers it uses, and
\* whether they are all ours.
StartSubmit(th) ==
    /\ submits < MaxSubmits /\ submits' = submits + 1
    /\ Goto(th, "idle", "wait_for")
    /\ \E queue \in open_queues, dependencies \in SUBSET (tokens \cup {NoToken, OtherToken}),
          operands \in SUBSET Buffers, own \in BOOLEAN :
          /\ Cardinality(dependencies) <= 2
          /\ Keep(th, [EmptyFrame EXCEPT !.queue = queue, !.dependencies = dependencies,
                                         !.to_wait = dependencies, !.operands = operands,
                                         !.own = own])
    /\ UNCHANGED <<streamVars, commands, open_queues, other_done, m_uses, tokens, launched>>

----------------------------------------------------------------------------
(* wait_for                                                                *)

\* A slip: the commands of all our queues are taken to be in order already.
IsInOrderAnyway(token, queue) == token.timeline # OtherTimeline

IsInOrder(token, queue) == IsEmpty(token) \/ token.timeline = queue

IsStreamTimeline(token) == token.timeline \in Streams

\* A slip: what needs no wait is passed over without going on to the next.
WaitedUnlessInOrder(th, token) ==
    Keep(th, [frame[th] EXCEPT
                 !.to_wait = IF IsInOrder(token, QueueOf(th)) THEN @ ELSE @ \ {token}])

Waited(th, token) == Keep(th, [frame[th] EXCEPT !.to_wait = @ \ {token}])

\* One dependency: in order already, left to the device, or waited for here.
WaitFor(th) ==
    /\ pc[th] = "wait_for"
    /\ \E token \in frame[th].to_wait :
          /\ Waited(th, token)
          /\ \/ IsInOrder(token, QueueOf(th)) /\ UNCHANGED streamVars
             \/ /\ ~IsInOrder(token, QueueOf(th)) /\ IsStreamTimeline(token)
                /\ \/ Enqueue(QueueOf(th), {PointOf(token)})
                   \/ Reached(PointOf(token)) /\ UNCHANGED streamVars
             \/ /\ ~IsInOrder(token, QueueOf(th)) /\ ~IsStreamTimeline(token)
                /\ other_done
                /\ UNCHANGED streamVars
    /\ UNCHANGED <<pc, commands, open_queues, other_done, m_uses, tokens, launched, submits>>

\* The wait could not be scheduled, or failed: nothing was launched yet.
WaitForFails(th) ==
    /\ CallsMayThrow
    /\ \E token \in frame[th].to_wait : ~IsInOrder(token, QueueOf(th))
    /\ Return(th, "wait_for")
    /\ UNCHANGED <<streamVars, commands, open_queues, other_done, m_uses, tokens, launched, submits>>

----------------------------------------------------------------------------
(* launch and track                                                        *)

Command(th) ==
    [queue |-> QueueOf(th), work |-> Len(stream[QueueOf(th)]) + 1,
     dependencies |-> frame[th].dependencies, operands |-> frame[th].operands,
     own |-> frame[th].own]

\* The stream is given the work of the command.
Issue(th) ==
    /\ Enqueue(QueueOf(th), Work)
    /\ launched' = launched \cup {Command(th)}
    /\ Keep(th, [frame[th] EXCEPT !.work = Command(th).work, !.until = Command(th).work])

Launch(th) ==
    /\ Goto(th, "wait_for", "track")
    /\ frame[th].to_wait = {}
    /\ Issue(th)
    /\ UNCHANGED <<commands, open_queues, other_done, m_uses, tokens, submits>>

\* What a thread waits for that synchronizes the stream now.
WaitUntilNow(th) == Keep(th, [frame[th] EXCEPT !.until = Len(stream[QueueOf(th)])])

\* Some of the work may have been issued before the launch threw.
LaunchFails(th) ==
    /\ CallsMayThrow
    /\ Goto(th, "wait_for", "catch")
    /\ frame[th].to_wait = {}
    /\ \/ Issue(th)
       \/ WaitUntilNow(th) /\ UNCHANGED <<streamVars, launched>>
    /\ UNCHANGED <<commands, open_queues, other_done, m_uses, tokens, submits>>

AreOwnBuffers(th) == frame[th].own

\* A buffer of another kind: nobody would keep its memory.
TrackOther(th) ==
    /\ Goto(th, "track", "synchronize")
    /\ ~AreOwnBuffers(th)
    /\ WaitUntilNow(th)
    /\ UNCHANGED <<streamVars, commands, open_queues, other_done, m_uses, tokens, launched, submits>>

\* A slip: the point is the one after the next work.
PointAhead(s) == Len(stream[s]) + 1

PointNow(s) == Len(stream[s])

Track(th) ==
    LET queue == QueueOf(th)
    IN  /\ Goto(th, "track", "record_use")
        /\ AreOwnBuffers(th)
        /\ commands' = [commands EXCEPT ![queue] = Append(@, PointNow(queue))]
        /\ Keep(th, [frame[th] EXCEPT
                        !.token = Token(queue, Len(commands[queue]), frame[th].work),
                        !.to_record = frame[th].operands])
        /\ UNCHANGED <<streamVars, open_queues, other_done, m_uses, tokens, launched, submits>>

\* A slip: the token recorded last is taken for the latest.
RecordedLast(uses, token) == {use \in uses : use.timeline # token.timeline} \cup {token}

\* One token per timeline, the latest: threads may record out of order.
Recorded(uses, token) ==
    IF \E use \in uses : use.timeline = token.timeline /\ use.id >= token.id
    THEN uses
    ELSE {use \in uses : use.timeline # token.timeline} \cup {token}

RecordUse(th) ==
    /\ pc[th] = "record_use"
    /\ \E b \in frame[th].to_record :
          /\ m_uses' = [m_uses EXCEPT ![b] = Recorded(@, frame[th].token)]
          /\ Keep(th, [frame[th] EXCEPT !.to_record = @ \ {b}])
    /\ UNCHANGED <<pc, streamVars, commands, open_queues, other_done, tokens, launched, submits>>

ReturnToken(th) ==
    /\ pc[th] = "record_use" /\ frame[th].to_record = {}
    /\ tokens' = tokens \cup {frame[th].token}
    /\ Return(th, "record_use")
    /\ UNCHANGED <<streamVars, commands, open_queues, other_done, m_uses, launched, submits>>

\* cudaStreamSynchronize: everything given to the stream by then has finished.
Synchronize(th) ==
    /\ pc[th] = "synchronize" /\ done[QueueOf(th)] >= frame[th].until
    /\ Return(th, "synchronize")
    /\ UNCHANGED <<streamVars, commands, open_queues, other_done, m_uses, tokens, launched, submits>>

\* Recording the command, a use of a buffer, or synchronizing throws.
TrackFails(th) ==
    /\ CallsMayThrow
    /\ \/ pc[th] = "track" /\ AreOwnBuffers(th)
       \/ pc[th] = "record_use" /\ frame[th].to_record # {}
       \/ pc[th] = "synchronize"
    /\ pc' = [pc EXCEPT ![th] = "catch"]
    /\ WaitUntilNow(th)
    /\ UNCHANGED <<streamVars, commands, open_queues, other_done, m_uses, tokens, launched, submits>>

\* A slip: the failure goes on at once.
RethrowAtOnce(th) ==
    /\ Return(th, "catch")
    /\ UNCHANGED <<streamVars, commands, open_queues, other_done, m_uses, tokens, launched, submits>>

\* What was launched is finished before the failure goes on to the caller.  The
\* synchronization is assumed to work: its failure is only logged.
Rethrow(th) ==
    /\ pc[th] = "catch" /\ done[QueueOf(th)] >= frame[th].until
    /\ Return(th, "catch")
    /\ UNCHANGED <<streamVars, commands, open_queues, other_done, m_uses, tokens, launched, submits>>

\* The destructor, when no call is left in the queue.  Its stream runs to the
\* end, and the tokens keep its timeline.
DestroyQueue(s) ==
    /\ s \in open_queues /\ \A th \in Threads : QueueOf(th) # s
    /\ open_queues' = open_queues \ {s}
    /\ UNCHANGED <<streamVars, commands, other_done, m_uses, tokens, launched, submits, pc, frame>>

----------------------------------------------------------------------------
RunStream(s) ==
    /\ Advance(s)
    /\ UNCHANGED <<commands, open_queues, other_done, m_uses, tokens, launched, submits, pc, frame>>

OtherFinishes ==
    /\ ~other_done /\ other_done' = TRUE
    /\ UNCHANGED <<streamVars, commands, open_queues, m_uses, tokens, launched, submits, pc, frame>>

SubmitStep(th) ==
    \/ WaitFor(th) \/ WaitForFails(th) \/ Launch(th) \/ LaunchFails(th)
    \/ TrackOther(th) \/ Track(th) \/ RecordUse(th) \/ ReturnToken(th)
    \/ Synchronize(th) \/ TrackFails(th) \/ Rethrow(th)

QueueNext ==
    \/ \E th \in Threads : StartSubmit(th) \/ SubmitStep(th)
    \/ \E s \in Streams : DestroyQueue(s) \/ RunStream(s)
    \/ OtherFinishes

QueueSpec == QueueInit /\ [][QueueNext]_queueVars

\* A thread in submit goes on, and the devices run what they can.
Fairness ==
    /\ \A th \in Threads : WF_queueVars(SubmitStep(th))
    /\ \A s \in Streams : WF_queueVars(RunStream(s))
    /\ WF_queueVars(OtherFinishes)

FairQueueSpec == QueueSpec /\ Fairness

----------------------------------------------------------------------------
(* Properties.                                                             *)

QueueTypeOK ==
    /\ StreamsTypeOK
    /\ \A s \in Streams : \A k \in DOMAIN commands[s] : commands[s][k] \in 0..Len(stream[s])
    /\ \A token \in tokens \cup UNION {m_uses[b] : b \in Buffers} :
          token.timeline \in Streams /\ token.id < Len(commands[token.timeline])
    /\ \A command \in launched :
          command.queue \in Streams /\ command.work \in DOMAIN stream[command.queue]
    /\ submits \in 0..MaxSubmits /\ open_queues \subseteq Streams
    /\ \A th \in Threads :
          pc[th] \in {"idle", "wait_for", "track", "record_use", "synchronize", "catch"}

Finished(token) ==
    IF IsEmpty(token) THEN TRUE
    ELSE IF token.timeline = OtherTimeline THEN other_done
    ELSE token.work <= done[token.timeline]

\* When the work of a command may start, the work of every command it depends
\* on is over, whichever queue, thread or backend that one was given to
\* (cuda_command_queue::submit, wait_for, track).
WorkFollowsDependencies ==
    \A command \in launched :
        done[command.queue] >= command.work - 1 =>
            \A token \in command.dependencies : Finished(token)

Submitting(command) ==
    \E th \in Threads :
        pc[th] # "idle" /\ QueueOf(th) = command.queue /\ frame[th].work = command.work

\* As long as its work is not over, the memory of a command is kept: by the
\* call that submits it, and after that by a token that each of its buffers
\* holds, which must then all be ours.  So it is when submit returns, and when it
\* throws because the launch, the record, a use or the synchronization of track
\* failed, as long as the synchronization in its catch works
\* (cuda_command_queue::submit, track; cuda_buffer::record_use).
WorkKeepsItsMemory ==
    \A command \in launched :
        \/ command.work <= done[command.queue]
        \/ Submitting(command)
        \/ /\ command.own
           /\ \A b \in command.operands : \E use \in m_uses[b] :
                 use.timeline = command.queue /\ PointOf(use).after >= command.work

\* Every call of submit ends: no two queues wait for each other, and neither
\* does a thread wait for what only it could launch
\* (cuda_command_queue::submit).
SubmitsEnd == \A th \in Threads : pc[th] # "idle" ~> pc[th] = "idle"
====
