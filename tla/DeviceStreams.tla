---- MODULE DeviceStreams ----
(***************************************************************************)
(* CUDA streams, as the queues and the timelines of the backend use them.  *)
(* They are outside this repository.  A stream runs what it was given in   *)
(* order.  A point of a stream stands for the work given to it so far, and *)
(* a stream can be told to wait for a point of another one, which the      *)
(* device remembers as the point, not as the event that captured it.       *)
(***************************************************************************)
EXTENDS Integers, SequencesExt

CONSTANTS
    Streams,
    MaxStreamLength     \* bound: what is ever given to one stream

ASSUME StreamLengthAssumption == MaxStreamLength \in Nat

VARIABLES
    stream,     \* what each stream was given: the points each item waits for
    done        \* how many of these items, in order, have finished

streamVars == <<stream, done>>

Points == [stream : Streams, after : Nat]

Reached(point) == point.after <= done[point.stream]

\* Work waits for no point; the item of cudaStreamWaitEvent waits for one.
Work == {}

Now(s) == [stream |-> s, after |-> Len(stream[s])]

HasRoom(s) == Len(stream[s]) < MaxStreamLength

StreamsInit ==
    /\ stream = [s \in Streams |-> <<>>]
    /\ done = [s \in Streams |-> 0]

Enqueue(s, item) ==
    /\ HasRoom(s)
    /\ stream' = [stream EXCEPT ![s] = Append(@, item)]
    /\ UNCHANGED done

Advance(s) ==
    /\ done[s] < Len(stream[s])
    /\ \A point \in stream[s][done[s] + 1] : Reached(point)
    /\ done' = [done EXCEPT ![s] = @ + 1]
    /\ UNCHANGED stream

StreamsTypeOK ==
    /\ stream \in [Streams -> Seq(SUBSET Points)]
    /\ done \in [Streams -> Nat]
    /\ \A s \in Streams : done[s] <= Len(stream[s])
====
