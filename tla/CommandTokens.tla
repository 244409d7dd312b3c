---- MODULE CommandTokens ----
(***************************************************************************)
(* Command tokens and the timelines they belong to, as the allocator and   *)
(* the queues use them.  rexlib core (command_token, command_timeline) and *)
(* the CUDA runtime are outside this repository: a timeline hands out ids  *)
(* from 0 (stream_timeline::record), finishes its commands in the order of *)
(* their ids (a stream runs in order), and a token names one command, or   *)
(* none at all when it is empty.                                           *)
(*                                                                         *)
(* `running` is not state of the program: it is what the device is doing,  *)
(* the memory that every unfinished command may still read or write.       *)
(***************************************************************************)
EXTENDS Integers, SequencesExt

CONSTANTS
    Timelines,      \* the timelines of the command queues
    NoTimeline,     \* the null timeline an empty token carries
    Heaps           \* addresses the driver may place a heap at

ASSUME NoTimelineAssumption == NoTimeline \notin Timelines

VARIABLES
    issued,         \* how many commands each timeline has been given
    finished,       \* how many of them, in order, have finished
    running         \* the spans of memory the unfinished commands use

deviceVars == <<issued, finished, running>>

NoToken == [timeline |-> NoTimeline, id |-> 0]

Tokens == [timeline : Timelines, id : Nat]

IsEmpty(token) == token.timeline = NoTimeline

\* An empty token names no command, so there is nothing left of it to finish.
IsComplete(token) == ~IsEmpty(token) => token.id < finished[token.timeline]

----------------------------------------------------------------------------
Spans == [heap : Heaps, offset : Nat, size : Nat]

SpanOf(block) == [heap |-> block.heap, offset |-> block.offset, size |-> block.size]

Overlaps(a, b) ==
    /\ a.heap = b.heap
    /\ a.offset < b.offset + b.size
    /\ b.offset < a.offset + a.size

\* Waiting for `token` is waiting for the command that uses `use`: it is that
\* command or a later one of the same timeline.
Covers(token, use) == token.timeline = use.timeline /\ use.id <= token.id

\* Waiting for all of `tokens` is waiting for everything that uses `span`.
AllUsesCovered(tokens, span) ==
    \A use \in running : Overlaps(use, span) => \E token \in tokens : Covers(token, use)

----------------------------------------------------------------------------
DeviceInit ==
    /\ issued = [timeline \in Timelines |-> 0]
    /\ finished = [timeline \in Timelines |-> 0]
    /\ running = {}

\* A command that uses `spans` goes to the queue of `timeline`.
Issue(timeline, spans) ==
    /\ issued' = [issued EXCEPT ![timeline] = @ + 1]
    /\ running' = running \cup
           {[timeline |-> timeline, id |-> issued[timeline],
             heap |-> span.heap, offset |-> span.offset, size |-> span.size] : span \in spans}
    /\ UNCHANGED finished

\* The oldest unfinished command of a timeline is done with its memory.
Finish(timeline) ==
    /\ finished[timeline] < issued[timeline]
    /\ finished' = [finished EXCEPT ![timeline] = @ + 1]
    /\ running' = {use \in running : ~(use.timeline = timeline /\ use.id = finished[timeline])}
    /\ UNCHANGED issued

DeviceTypeOK ==
    /\ issued \in [Timelines -> Nat]
    /\ finished \in [Timelines -> Nat]
    /\ \A timeline \in Timelines : finished[timeline] <= issued[timeline]
    /\ running \subseteq [timeline : Timelines, id : Nat, heap : Heaps, offset : Nat, size : Nat]
    /\ \A use \in running : finished[use.timeline] <= use.id /\ use.id < issued[use.timeline]
====
