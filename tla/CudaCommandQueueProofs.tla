---- MODULE CudaCommandQueueProofs ----
(***************************************************************************)
(* For every number of threads, queues, buffers and submissions, and with  *)
(* every call free to throw: work follows what it depends on, and keeps    *)
(* its memory.                                                             *)
(***************************************************************************)
EXTENDS CudaCommandQueue, TLAPS

AnyToken == [timeline : Streams \cup {NoTimeline, OtherTimeline}, id : Nat, work : Nat]

Frames ==
    [queue : Streams \cup {NoTimeline}, dependencies : SUBSET AnyToken, to_wait : SUBSET AnyToken,
     operands : SUBSET Buffers, own : BOOLEAN, work : Nat, token : AnyToken,
     to_record : SUBSET Buffers, until : Nat]

----------------------------------------------------------------------------
(* What the devices and the timelines know.                                *)

\* What a stream has finished, it waited for.
RanInOrder ==
    \A s \in Streams : \A k \in 1..Len(stream[s]) :
        k <= done[s] => \A point \in stream[s][k] : Reached(point)

\* Later ids stand for more work.
IdsGrow ==
    \A s \in Streams : \A j, k \in 1..Len(commands[s]) :
        j <= k => commands[s][j] <= commands[s][k]

WorldInv ==
    /\ stream \in [Streams -> Seq(SUBSET Points)] /\ done \in [Streams -> Nat]
    /\ commands \in [Streams -> Seq(Nat)]
    /\ other_done \in BOOLEAN
    /\ \A s \in Streams : done[s] <= Len(stream[s])
    /\ \A s \in Streams : \A k \in 1..Len(commands[s]) : commands[s][k] <= Len(stream[s])
    /\ RanInOrder /\ IdsGrow

\* Nothing that was known is taken back.
Grows ==
    /\ \A s \in Streams :
          /\ Len(stream[s]) <= Len(stream'[s]) /\ done[s] <= done'[s]
          /\ Len(commands[s]) <= Len(commands'[s])
    /\ \A s \in Streams : \A k \in 1..Len(stream[s]) : stream'[s][k] = stream[s][k]
    /\ \A s \in Streams : \A k \in 1..Len(commands[s]) : commands'[s][k] = commands[s][k]
    /\ other_done => other_done'

LEMMA ReachedStays ==
    ASSUME WorldInv, WorldInv', Grows, NEW point \in Points, Reached(point)
    PROVE  Reached(point)'
  BY DEF WorldInv, Grows, Reached, Points

LEMMA NothingGrows ==
    ASSUME WorldInv, UNCHANGED <<streamVars, commands, other_done>>
    PROVE  WorldInv' /\ Grows
<1>1. Grows
  BY DEF streamVars, WorldInv, Grows
<1>2. RanInOrder' /\ IdsGrow'
  BY DEF streamVars, WorldInv, RanInOrder, IdsGrow, Reached
<1> QED
  BY <1>1, <1>2 DEF streamVars, WorldInv

LEMMA EnqueueGrows ==
    ASSUME WorldInv, NEW s \in Streams, NEW item \in SUBSET Points, Enqueue(s, item),
           UNCHANGED <<commands, other_done>>
    PROVE  /\ WorldInv' /\ Grows
           /\ Len(stream'[s]) = Len(stream[s]) + 1
           /\ stream'[s][Len(stream[s]) + 1] = item
<1>1. /\ stream' = [stream EXCEPT ![s] = Append(@, item)] /\ UNCHANGED done
  BY DEF Enqueue
<1>2. /\ stream' \in [Streams -> Seq(SUBSET Points)]
      /\ Len(stream'[s]) = Len(stream[s]) + 1
      /\ stream'[s][Len(stream[s]) + 1] = item
      /\ \A k \in 1..Len(stream[s]) : stream'[s][k] = stream[s][k]
      /\ \A other \in Streams : other # s => stream'[other] = stream[other]
  BY <1>1 DEF WorldInv
<1>3. Grows
  BY <1>1, <1>2 DEF WorldInv, Grows
<1>4. RanInOrder'
  <2> SUFFICES ASSUME NEW other \in Streams, NEW k \in 1..Len(stream'[other]), k <= done'[other],
                      NEW point \in stream'[other][k]
               PROVE  Reached(point)'
    BY DEF RanInOrder
  <2>1. k \in 1..Len(stream[other]) /\ k <= done[other]
    BY <1>1 DEF WorldInv
  <2>2. stream'[other][k] = stream[other][k]
    BY <1>2, <2>1
  <2>3. Reached(point)
    BY <2>1, <2>2 DEF WorldInv, RanInOrder
  <2> QED
    BY <1>1, <2>3 DEF Reached
<1>5. IdsGrow'
  BY DEF WorldInv, IdsGrow
<1>6. /\ \A other \in Streams : done'[other] <= Len(stream'[other])
      /\ \A other \in Streams : \A k \in 1..Len(commands'[other]) :
            commands'[other][k] <= Len(stream'[other])
  BY <1>1, <1>2 DEF WorldInv
<1> QED
  BY <1>1, <1>2, <1>3, <1>4, <1>5, <1>6 DEF WorldInv

LEMMA AdvanceGrows ==
    ASSUME WorldInv, NEW s \in Streams, Advance(s), UNCHANGED <<commands, other_done>>
    PROVE  WorldInv' /\ Grows
<1>1. /\ done[s] < Len(stream[s])
      /\ \A point \in stream[s][done[s] + 1] : Reached(point)
      /\ done' = [done EXCEPT ![s] = @ + 1] /\ UNCHANGED stream
  BY DEF Advance
<1>2. /\ done' \in [Streams -> Nat] /\ done'[s] = done[s] + 1
      /\ \A other \in Streams : other # s => done'[other] = done[other]
  BY <1>1 DEF WorldInv
<1>3. Grows
  BY <1>1, <1>2 DEF WorldInv, Grows
<1>4. RanInOrder'
  <2> SUFFICES ASSUME NEW other \in Streams, NEW k \in 1..Len(stream[other]), k <= done'[other],
                      NEW point \in stream[other][k]
               PROVE  Reached(point)'
    BY <1>1 DEF RanInOrder
  <2>1. stream[other] \in Seq(SUBSET Points)
    BY DEF WorldInv
  <2>2. point \in Points
    BY <2>1
  <2>3. Reached(point)
    <3>1. CASE k <= done[other]
      BY <3>1 DEF WorldInv, RanInOrder
    <3>2. CASE ~(k <= done[other])
      <4>1. other = s /\ k = done[s] + 1
        BY <1>2, <3>2 DEF WorldInv
      <4> QED
        BY <1>1, <4>1
    <3> QED
      BY <3>1, <3>2
  <2>4. point.stream \in Streams /\ point.after \in Nat
    BY <2>2 DEF Points
  <2>5. done[point.stream] \in Nat /\ done[point.stream] <= done'[point.stream]
    BY <1>3, <2>4 DEF WorldInv, Grows
  <2>6. done'[point.stream] \in Nat
    BY <1>2, <2>4
  <2> QED
    BY <2>3, <2>4, <2>5, <2>6 DEF Reached
<1>5. ASSUME NEW other \in Streams
      PROVE  done'[other] <= Len(stream'[other])
  <2>1. done[other] <= Len(stream[other]) /\ Len(stream[other]) \in Nat /\ done[other] \in Nat
    BY DEF WorldInv
  <2> QED
    BY <1>1, <1>2, <2>1
<1>6. IdsGrow'
  BY DEF WorldInv, IdsGrow
<1> QED
  BY <1>1, <1>2, <1>3, <1>4, <1>5, <1>6 DEF WorldInv

\* A new id stands for all the stream was given.
LEMMA RecordGrows ==
    ASSUME WorldInv, NEW s \in Streams, commands' = [commands EXCEPT ![s] = Append(@, PointNow(s))],
           UNCHANGED <<streamVars, other_done>>
    PROVE  /\ WorldInv' /\ Grows
           /\ Len(commands'[s]) = Len(commands[s]) + 1
           /\ commands'[s][Len(commands[s]) + 1] = Len(stream[s])
<1>1. UNCHANGED <<stream, done>> /\ Len(stream[s]) \in Nat /\ PointNow(s) = Len(stream[s])
  BY DEF streamVars, WorldInv, PointNow
<1>2. /\ commands' \in [Streams -> Seq(Nat)]
      /\ Len(commands'[s]) = Len(commands[s]) + 1
      /\ commands'[s][Len(commands[s]) + 1] = Len(stream[s])
      /\ \A k \in 1..Len(commands[s]) : commands'[s][k] = commands[s][k]
      /\ \A other \in Streams : other # s => commands'[other] = commands[other]
  BY <1>1 DEF WorldInv
<1>3. Grows
  BY <1>1, <1>2 DEF WorldInv, Grows
<1>4. ASSUME NEW other \in Streams, NEW k \in 1..Len(commands'[other])
      PROVE  commands'[other][k] <= Len(stream'[other])
  <2>1. CASE k \in 1..Len(commands[other])
    <3>1. commands'[other][k] = commands[other][k]
      BY <1>2, <2>1
    <3> QED
      BY <1>1, <2>1, <3>1 DEF WorldInv
  <2>2. CASE k \notin 1..Len(commands[other])
    <3>1. other = s /\ k = Len(commands[s]) + 1
      BY <1>2, <2>2 DEF WorldInv
    <3> QED
      BY <1>1, <1>2, <3>1
  <2> QED
    BY <2>1, <2>2
<1>5. ASSUME NEW other \in Streams, NEW j \in 1..Len(commands'[other]),
             NEW k \in 1..Len(commands'[other]), j <= k
      PROVE  commands'[other][j] <= commands'[other][k]
  <2>1. CASE k \in 1..Len(commands[other])
    <3>1. j \in 1..Len(commands[other])
      BY <1>5, <2>1 DEF WorldInv
    <3>2. commands[other][j] <= commands[other][k]
      BY <1>5, <2>1, <3>1 DEF WorldInv, IdsGrow
    <3> QED
      BY <1>2, <2>1, <3>1, <3>2
  <2>2. CASE k \notin 1..Len(commands[other])
    <3>1. other = s /\ k = Len(commands[s]) + 1
      BY <1>2, <2>2 DEF WorldInv
    <3> QED
      BY <1>1, <1>2, <1>4, <3>1
  <2> QED
    BY <2>1, <2>2
<1>6. RanInOrder'
  BY <1>1 DEF WorldInv, RanInOrder, Reached
<1> QED
  BY <1>1, <1>2, <1>3, <1>4, <1>5, <1>6 DEF WorldInv, IdsGrow

LEMMA OtherFinishedGrows ==
    ASSUME WorldInv, other_done' = TRUE, UNCHANGED <<streamVars, commands>>
    PROVE  WorldInv' /\ Grows
<1>1. Grows
  BY DEF streamVars, WorldInv, Grows
<1>2. RanInOrder' /\ IdsGrow'
  BY DEF streamVars, WorldInv, RanInOrder, IdsGrow, Reached
<1> QED
  BY <1>1, <1>2 DEF streamVars, WorldInv

----------------------------------------------------------------------------
(* What is known of tokens, and stays known.                               *)

\* A token that a queue gave, for work its stream had been given.
Given(token) ==
    /\ token \in AnyToken /\ token.timeline \in Streams
    /\ token.id < Len(commands[token.timeline])
    /\ token.work <= PointOf(token).after

Dependency(token) == token = NoToken \/ token = OtherToken \/ Given(token)

\* Whatever a queue starts after its first `before` items starts after the
\* command of the token.
Ordered(token, queue, before) ==
    \/ IsEmpty(token)
    \/ token.timeline = OtherTimeline /\ other_done
    \/ token.timeline = queue /\ token.work <= before
    \/ token.timeline \in Streams /\ Reached(PointOf(token))
    \/ token.timeline \in Streams /\ \E k \in 1..before : PointOf(token) \in stream[queue][k]

\* Whatever it starts from now on.
OrderedNow(token, queue) == Ordered(token, queue, Len(stream[queue]))

LEMMA KnownTokens ==
    /\ NoToken \in AnyToken /\ OtherToken \in AnyToken
    /\ NoTimeline \notin Streams /\ OtherTimeline \notin Streams /\ NoTimeline # OtherTimeline
    /\ NoToken.timeline = NoTimeline /\ OtherToken.timeline = OtherTimeline
  BY TimelinesAssumption DEF NoToken, OtherToken, Token, AnyToken

LEMMA GivenPoint ==
    ASSUME WorldInv, NEW token, Given(token)
    PROVE  /\ token.timeline \in Streams /\ token.work \in Nat /\ token.id \in Nat
           /\ token.id + 1 \in 1..Len(commands[token.timeline])
           /\ PointOf(token) \in Points
           /\ PointOf(token).stream = token.timeline
           /\ PointOf(token).after = commands[token.timeline][token.id + 1]
           /\ token.work <= PointOf(token).after
           /\ PointOf(token).after <= Len(stream[token.timeline])
<1>1. /\ token.timeline \in Streams /\ token.work \in Nat /\ token.id \in Nat
      /\ commands[token.timeline] \in Seq(Nat) /\ token.id < Len(commands[token.timeline])
  BY DEF Given, AnyToken, WorldInv
<1>2. token.id + 1 \in 1..Len(commands[token.timeline])
  BY <1>1
<1>3. commands[token.timeline][token.id + 1] \in Nat
  BY <1>1, <1>2
<1>4. commands[token.timeline][token.id + 1] <= Len(stream[token.timeline])
  BY <1>1, <1>2 DEF WorldInv
<1> QED
  BY <1>1, <1>2, <1>3, <1>4 DEF PointOf, Points, Given

LEMMA GivenStays ==
    ASSUME WorldInv, WorldInv', Grows, NEW token, Given(token)
    PROVE  Given(token)' /\ PointOf(token)' = PointOf(token)
<1>1. commands'[token.timeline][token.id + 1] = commands[token.timeline][token.id + 1]
  BY GivenPoint DEF Grows
<1>2. PointOf(token)' = PointOf(token)
  BY <1>1 DEF PointOf
<1>3. /\ token.id < Len(commands[token.timeline])
      /\ Len(commands[token.timeline]) \in Nat /\ Len(commands'[token.timeline]) \in Nat
      /\ Len(commands[token.timeline]) <= Len(commands'[token.timeline])
  BY GivenPoint DEF Given, Grows, WorldInv
<1>4. token.id < Len(commands'[token.timeline])
  BY <1>3, GivenPoint
<1> QED
  BY <1>2, <1>4 DEF Given

LEMMA DependencyStays ==
    ASSUME WorldInv, WorldInv', Grows, NEW token, Dependency(token)
    PROVE  Dependency(token)'
  BY GivenStays DEF Dependency, NoToken, OtherToken, Token

LEMMA OrderedStays ==
    ASSUME WorldInv, WorldInv', Grows, NEW token, Dependency(token),
           NEW queue \in Streams, NEW before \in Nat, NEW later \in Nat,
           before <= later, before <= Len(stream[queue]),
           Ordered(token, queue, before)
    PROVE  Ordered(token, queue, later)'
<1>1. CASE IsEmpty(token)
  BY <1>1 DEF Ordered, IsEmpty
<1>2. CASE token.timeline = OtherTimeline /\ other_done
  BY <1>2 DEF Ordered, Grows
<1>3. CASE token.timeline \in Streams
  <2>1. Given(token)
    BY <1>3, KnownTokens DEF Dependency
  <2>2. PointOf(token)' = PointOf(token) /\ PointOf(token) \in Points /\ token.work \in Nat
    BY <2>1, GivenStays, GivenPoint
  <2>3. CASE token.timeline = queue /\ token.work <= before
    BY <2>2, <2>3 DEF Ordered
  <2>4. CASE Reached(PointOf(token))
    BY <1>3, <2>2, <2>4, ReachedStays DEF Ordered, Reached
  <2>5. CASE \E k \in 1..before : PointOf(token) \in stream[queue][k]
    <3>1. PICK k \in 1..before : PointOf(token) \in stream[queue][k]
      BY <2>5
    <3>2. k \in 1..Len(stream[queue])
      BY <3>1 DEF WorldInv
    <3>3. stream'[queue][k] = stream[queue][k] /\ k \in 1..later
      BY <3>1, <3>2 DEF Grows
    <3> QED
      BY <1>3, <2>2, <3>1, <3>3 DEF Ordered
  <2>6. IsEmpty(token) \/ token.timeline = OtherTimeline => FALSE
    BY <1>3, KnownTokens DEF IsEmpty
  <2> QED
    BY <2>3, <2>4, <2>5, <2>6 DEF Ordered
<1> QED
  BY <1>1, <1>2, <1>3 DEF Ordered

LEMMA OrderedNowStays ==
    ASSUME WorldInv, WorldInv', Grows, NEW token, Dependency(token),
           NEW queue \in Streams, OrderedNow(token, queue)
    PROVE  OrderedNow(token, queue)'
<1>1. /\ Len(stream[queue]) \in Nat /\ Len(stream'[queue]) \in Nat
      /\ Len(stream[queue]) <= Len(stream'[queue])
  BY DEF WorldInv, Grows
<1>2. ASSUME NEW before \in Nat, NEW later \in Nat, before = Len(stream[queue]), before <= later
      PROVE  Ordered(token, queue, later)'
  <2>1. Ordered(token, queue, before)
    BY <1>2 DEF OrderedNow
  <2> QED
    BY <1>1, <1>2, <2>1, OrderedStays
<1>3. \A later \in Nat : Len(stream[queue]) <= later => Ordered(token, queue, later)'
  BY <1>1, <1>2
<1> QED
  BY <1>1, <1>3 DEF OrderedNow, Ordered

\* Every part of Ordered means that the work is over in time.
LEMMA OrderedIsFinished ==
    ASSUME WorldInv, NEW token, Dependency(token), NEW queue \in Streams, NEW before \in Nat,
           before <= Len(stream[queue]), Ordered(token, queue, before), done[queue] >= before
    PROVE  Finished(token)
<1>1. CASE IsEmpty(token)
  BY <1>1 DEF Finished
<1>2. CASE token.timeline = OtherTimeline /\ other_done
  BY <1>2 DEF Finished
<1>3. CASE token.timeline \in Streams /\ ~IsEmpty(token) /\ token.timeline # OtherTimeline
  <2>1. Given(token)
    BY <1>3, KnownTokens DEF Dependency
  <2>2. /\ token.work \in Nat /\ PointOf(token).after \in Nat
        /\ token.work <= PointOf(token).after /\ PointOf(token).stream = token.timeline
        /\ done[token.timeline] \in Nat /\ done[queue] \in Nat
    BY <2>1, GivenPoint DEF WorldInv, Points
  <2>3. CASE token.timeline = queue /\ token.work <= before
    BY <1>3, <2>2, <2>3 DEF Finished
  <2>4. CASE Reached(PointOf(token))
    BY <1>3, <2>2, <2>4 DEF Finished, Reached
  <2>5. CASE \E k \in 1..before : PointOf(token) \in stream[queue][k]
    <3>1. PICK k \in 1..before : PointOf(token) \in stream[queue][k]
      BY <2>5
    <3>2. k \in 1..Len(stream[queue]) /\ k <= done[queue]
      BY <2>2, <3>1 DEF WorldInv
    <3>3. Reached(PointOf(token))
      BY <3>1, <3>2 DEF WorldInv, RanInOrder
    <3> QED
      BY <2>4, <3>3
  <2> QED
    BY <1>3, <2>3, <2>4, <2>5 DEF Ordered
<1> QED
  BY <1>1, <1>2, <1>3, KnownTokens DEF Ordered, Dependency, Given, IsEmpty

----------------------------------------------------------------------------
(* The uses of buffers.                                                    *)

UsesInv ==
    /\ DOMAIN m_uses = Buffers
    /\ \A b \in Buffers : \A use \in m_uses[b] : Given(use)

\* The buffer holds a token of the command, or of a later one of its queue.
Covered(b, queue, work) ==
    \E use \in m_uses[b] : use.timeline = queue /\ PointOf(use).after >= work

KeepsUses ==
    \A b \in Buffers, queue \in Streams, work \in Nat : Covered(b, queue, work) => Covered(b, queue, work)'

LEMMA UsesStay ==
    ASSUME WorldInv, WorldInv', Grows, UsesInv, UNCHANGED m_uses
    PROVE  UsesInv' /\ KeepsUses
<1>1. UsesInv'
  BY GivenStays DEF UsesInv
<1>2. ASSUME NEW b \in Buffers, NEW queue \in Streams, NEW work \in Nat, Covered(b, queue, work)
      PROVE  Covered(b, queue, work)'
  <2>1. PICK use \in m_uses[b] : use.timeline = queue /\ PointOf(use).after >= work
    BY <1>2 DEF Covered
  <2>2. PointOf(use)' = PointOf(use)
    BY <2>1, GivenStays DEF UsesInv
  <2> QED
    BY <2>1, <2>2 DEF Covered
<1> QED
  BY <1>1, <1>2 DEF KeepsUses

\* Of two tokens of one timeline the later stands for more.
LEMMA LaterTokenCovers ==
    ASSUME WorldInv, NEW a, NEW b, Given(a), Given(b), a.timeline = b.timeline, a.id <= b.id
    PROVE  PointOf(a).after <= PointOf(b).after
<1>1. /\ a.timeline \in Streams /\ a.id \in Nat /\ b.id \in Nat /\ a.id + 1 <= b.id + 1
      /\ a.id + 1 \in 1..Len(commands[a.timeline]) /\ b.id + 1 \in 1..Len(commands[a.timeline])
  BY GivenPoint
<1>2. commands[a.timeline][a.id + 1] <= commands[a.timeline][b.id + 1]
  BY <1>1 DEF WorldInv, IdsGrow
<1> QED
  BY <1>2, GivenPoint

LEMMA RecordingKeepsUses ==
    ASSUME WorldInv, UsesInv, NEW b \in Buffers, NEW token, Given(token),
           m_uses' = [m_uses EXCEPT ![b] = Recorded(@, token)],
           UNCHANGED <<streamVars, commands>>
    PROVE  /\ UsesInv' /\ KeepsUses
           /\ \A work \in Nat : work <= PointOf(token).after => Covered(b, token.timeline, work)'
<1>1. /\ m_uses'[b] = Recorded(m_uses[b], token)
      /\ \A other \in Buffers : other # b => m_uses'[other] = m_uses[other]
      /\ DOMAIN m_uses' = Buffers
  BY DEF UsesInv
<1>2. /\ \A use \in m_uses'[b] : use \in m_uses[b] \/ use = token
      /\ \A use \in m_uses[b] :
            \/ use \in m_uses'[b]
            \/ use.timeline = token.timeline /\ ~(use.id >= token.id) /\ token \in m_uses'[b]
      /\ \E use \in m_uses'[b] : use = token \/ (use.timeline = token.timeline /\ use.id >= token.id)
  BY <1>1 DEF Recorded
<1>3. \A use : Given(use) => Given(use)' /\ PointOf(use)' = PointOf(use)
  BY DEF Given, PointOf
<1>4. \A use \in m_uses[b] : Given(use)
  BY DEF UsesInv
<1>5. UsesInv'
  BY <1>1, <1>2, <1>3 DEF UsesInv
<1>6. ASSUME NEW other \in Buffers, NEW queue \in Streams, NEW work \in Nat,
             Covered(other, queue, work)
      PROVE  Covered(other, queue, work)'
  <2>1. PICK use \in m_uses[other] : use.timeline = queue /\ PointOf(use).after >= work
    BY <1>6 DEF Covered
  <2>2. Given(use) /\ PointOf(use)' = PointOf(use)
    BY <1>3, <2>1 DEF UsesInv
  <2>3. CASE use \in m_uses'[other]
    BY <2>1, <2>2, <2>3 DEF Covered
  <2>4. CASE use \notin m_uses'[other]
    <3>1. other = b /\ use.timeline = token.timeline /\ ~(use.id >= token.id) /\ token \in m_uses'[b]
      BY <1>1, <1>2, <2>1, <2>4
    <3>2. use.id \in Nat /\ token.id \in Nat
      BY <2>2, GivenPoint
    <3>3. PointOf(use).after <= PointOf(token).after
      BY <2>2, <3>1, <3>2, LaterTokenCovers
    <3>4. PointOf(use).after \in Nat /\ PointOf(token).after \in Nat
      BY <2>2, GivenPoint DEF Points
    <3>5. PointOf(token)'.after >= work /\ token.timeline = queue
      BY <1>3, <2>1, <3>1, <3>3, <3>4
    <3> QED
      BY <3>1, <3>5 DEF Covered
  <2> QED
    BY <2>3, <2>4
<1>7. ASSUME NEW work \in Nat, work <= PointOf(token).after
      PROVE  Covered(b, token.timeline, work)'
  <2>1. PICK use \in m_uses'[b] : use = token \/ (use.timeline = token.timeline /\ use.id >= token.id)
    BY <1>2
  <2>2. Given(use)
    BY <1>2, <1>4, <2>1
  <2>3. token.id \in Nat /\ use.id \in Nat /\ token.id <= use.id /\ use.timeline = token.timeline
    BY <2>1, <2>2, GivenPoint
  <2>4. PointOf(token).after <= PointOf(use).after
    BY <2>2, <2>3, LaterTokenCovers
  <2>5. PointOf(use).after \in Nat /\ PointOf(token).after \in Nat
    BY <2>2, GivenPoint DEF Points
  <2> QED
    BY <1>3, <1>7, <2>2, <2>3, <2>4, <2>5 DEF Covered
<1> QED
  BY <1>5, <1>6, <1>7 DEF KeepsUses

----------------------------------------------------------------------------
(* What was launched, and what each thread is about.                       *)

CommandOK(command) ==
    /\ command.queue \in Streams
    /\ command.work \in Nat \ {0} /\ command.work <= Len(stream[command.queue])
    /\ command.operands \subseteq Buffers
    /\ \A token \in command.dependencies :
          Dependency(token) /\ Ordered(token, command.queue, command.work - 1)

IsOf(command, th) == command.queue = QueueOf(th) /\ command.work = frame[th].work

Kept(command) ==
    command.own /\ \A b \in command.operands : Covered(b, command.queue, command.work)

MemoryOK(command) ==
    \/ command.work <= done[command.queue]
    \/ \E th \in Threads : pc[th] # "idle" /\ IsOf(command, th)
    \/ Kept(command)

\* The command of the thread, if it was launched, is the one in its frame.
FrameInv(th) ==
    /\ QueueOf(th) \in Streams
    /\ frame[th].work <= frame[th].until /\ frame[th].work <= Len(stream[QueueOf(th)])
    /\ pc[th] = "wait_for" => frame[th].work = 0
    /\ frame[th].to_wait \subseteq frame[th].dependencies
    /\ \A token \in frame[th].dependencies :
          /\ Dependency(token)
          /\ token \notin frame[th].to_wait => OrderedNow(token, QueueOf(th))
    /\ \A command \in launched : IsOf(command, th) =>
          command.operands = frame[th].operands /\ command.own = frame[th].own

\* The token stands for the command, and what does not hold it yet is known.
RecordingInv(th) ==
    /\ frame[th].own
    /\ Given(frame[th].token) /\ frame[th].token.timeline = QueueOf(th)
    /\ frame[th].token.work = frame[th].work
    /\ \A b \in frame[th].operands :
          b \in frame[th].to_record \/ Covered(b, QueueOf(th), frame[th].work)

ThreadsInv ==
    /\ pc \in [Threads -> {"idle", "wait_for", "track", "record_use", "synchronize", "catch"}]
    /\ frame \in [Threads -> Frames]

ThreadInv(th) ==
    /\ pc[th] # "idle" => FrameInv(th)
    /\ pc[th] = "record_use" => RecordingInv(th)

BoundsInv == submits \in 0..MaxSubmits /\ open_queues \subseteq Streams

TokensInv == \A token \in tokens : Given(token)

QueueInv ==
    /\ WorldInv /\ UsesInv /\ TokensInv /\ BoundsInv /\ ThreadsInv
    /\ \A command \in launched : CommandOK(command) /\ MemoryOK(command)
    /\ \A th \in Threads : ThreadInv(th)

LEMMA InitQueueInv == QueueInit => QueueInv
<1> SUFFICES ASSUME QueueInit PROVE QueueInv
  OBVIOUS
<1> USE DEF QueueInit, StreamsInit
<1>1. WorldInv
  <2>1. \A s \in Streams : stream[s] = <<>> /\ commands[s] = <<>> /\ done[s] = 0
    OBVIOUS
  <2>2. RanInOrder /\ IdsGrow
    BY <2>1 DEF RanInOrder, IdsGrow
  <2>3. /\ stream \in [Streams -> Seq(SUBSET Points)] /\ done \in [Streams -> Nat]
        /\ commands \in [Streams -> Seq(Nat)]
    OBVIOUS
  <2>4. /\ \A s \in Streams : done[s] <= Len(stream[s])
        /\ \A s \in Streams : \A k \in 1..Len(commands[s]) : commands[s][k] <= Len(stream[s])
    BY <2>1
  <2> QED
    BY <2>2, <2>3, <2>4 DEF WorldInv
<1>2. UsesInv /\ TokensInv /\ BoundsInv
  BY SubmitsAssumption DEF UsesInv, TokensInv, BoundsInv
<1>3. ThreadsInv
  BY KnownTokens DEF ThreadsInv, Frames, EmptyFrame
<1>4. \A th \in Threads : ThreadInv(th)
  BY DEF ThreadInv
<1> QED
  BY <1>1, <1>2, <1>3, <1>4 DEF QueueInv

\* What is launched next is new.
NewCommands ==
    \A command \in launched' :
        command \in launched \/ command.work > Len(stream[command.queue])

LEMMA CommandStays ==
    ASSUME WorldInv, WorldInv', Grows, NEW command, CommandOK(command)
    PROVE  CommandOK(command)'
<1>1. /\ command.queue \in Streams /\ command.work \in Nat \ {0}
      /\ command.work - 1 \in Nat /\ command.work - 1 <= Len(stream[command.queue])
      /\ command.work <= Len(stream'[command.queue])
  BY DEF CommandOK, WorldInv, Grows
<1>2. ASSUME NEW token \in command.dependencies
      PROVE  Dependency(token)' /\ Ordered(token, command.queue, command.work - 1)'
  BY <1>1, DependencyStays, OrderedStays DEF CommandOK
<1> QED
  BY <1>1, <1>2 DEF CommandOK

LEMMA FrameStays ==
    ASSUME WorldInv, WorldInv', Grows, NewCommands, NEW th \in Threads, ThreadsInv,
           FrameInv(th), frame'[th] = frame[th], pc'[th] = "wait_for" => pc[th] = "wait_for"
    PROVE  FrameInv(th)'
<1> SUFFICES ASSUME NEW queue, queue = QueueOf(th)
             PROVE  FrameInv(th)'
  OBVIOUS
<1>1. /\ queue \in Streams /\ QueueOf(th)' = queue
      /\ frame[th].work \in Nat /\ frame[th].work <= Len(stream[queue])
      /\ Len(stream[queue]) \in Nat /\ Len(stream'[queue]) \in Nat
      /\ Len(stream[queue]) <= Len(stream'[queue])
  BY DEF ThreadsInv, Frames, FrameInv, WorldInv, Grows, QueueOf
<1>2. ASSUME NEW token \in frame[th].dependencies
      PROVE  /\ Dependency(token)'
             /\ token \notin frame[th].to_wait => OrderedNow(token, queue)'
  <2>1. Dependency(token)
    BY DEF FrameInv
  <2>2. Dependency(token)'
    BY <2>1, DependencyStays
  <2>3. ASSUME token \notin frame[th].to_wait
        PROVE  OrderedNow(token, queue)'
    <3>1. OrderedNow(token, queue)
      BY <2>3 DEF FrameInv
    <3> QED
      BY <1>1, <2>1, <3>1, OrderedNowStays
  <2> QED
    BY <2>2, <2>3
<1>3. ASSUME NEW command \in launched', IsOf(command, th)'
      PROVE  command.operands = frame[th].operands /\ command.own = frame[th].own
  <2>1. IsOf(command, th)
    BY <1>3 DEF IsOf, QueueOf
  <2>2. command \in launched
    BY <1>1, <2>1 DEF NewCommands, IsOf
  <2> QED
    BY <2>1, <2>2 DEF FrameInv
<1>4. /\ frame[th].work <= frame[th].until /\ frame[th].work <= Len(stream'[queue])
      /\ pc'[th] = "wait_for" => frame[th].work = 0
      /\ frame[th].to_wait \subseteq frame[th].dependencies
  BY <1>1 DEF FrameInv
<1> QED
  BY <1>1, <1>2, <1>3, <1>4 DEF FrameInv, QueueOf

LEMMA RecordingStays ==
    ASSUME WorldInv, WorldInv', Grows, KeepsUses, NEW th \in Threads, ThreadsInv,
           FrameInv(th), RecordingInv(th), frame'[th] = frame[th]
    PROVE  RecordingInv(th)'
<1>1. /\ QueueOf(th) \in Streams /\ QueueOf(th)' = QueueOf(th) /\ frame[th].work \in Nat
      /\ frame[th].operands \subseteq Buffers
  BY DEF ThreadsInv, Frames, FrameInv, QueueOf
<1>2. Given(frame[th].token)'
  BY GivenStays DEF RecordingInv, Given
<1>3. ASSUME NEW b \in frame[th].operands, b \notin frame[th].to_record
      PROVE  Covered(b, QueueOf(th), frame[th].work)'
  BY <1>1, <1>3 DEF RecordingInv, KeepsUses
<1>4. \A b \in frame'[th].operands :
          b \in frame'[th].to_record \/ Covered(b, QueueOf(th), frame[th].work)'
  BY <1>3
<1> QED
  BY <1>1, <1>2, <1>4 DEF RecordingInv, Covered

\* A step that is not of this thread.
LEMMA ThreadStays ==
    ASSUME WorldInv, WorldInv', Grows, KeepsUses, NewCommands, NEW th \in Threads, ThreadsInv,
           ThreadInv(th), frame'[th] = frame[th], pc'[th] = pc[th]
    PROVE  ThreadInv(th)'
  BY FrameStays, RecordingStays DEF ThreadInv

\* A command keeps its memory unless the call that submits it returns before
\* the command is over or kept.
LEMMA MemoryStays ==
    ASSUME WorldInv, WorldInv', Grows, KeepsUses, NEW command, CommandOK(command), MemoryOK(command),
           NEW th,
           \A other \in Threads : other # th => frame'[other] = frame[other] /\ pc'[other] = pc[other],
           pc[th] # "idle" /\ IsOf(command, th) =>
               \/ pc'[th] # "idle" /\ IsOf(command, th)'
               \/ command.work <= done[command.queue]
               \/ Kept(command)
    PROVE  MemoryOK(command)'
<1>1. command.queue \in Streams /\ command.work \in Nat
  BY DEF CommandOK
<1>2. CASE command.work <= done[command.queue]
  BY <1>1, <1>2 DEF MemoryOK, WorldInv, Grows
<1>3. CASE Kept(command)
  <2>1. \A b \in command.operands : Covered(b, command.queue, command.work)'
    BY <1>1, <1>3 DEF Kept, KeepsUses, CommandOK
  <2> QED
    BY <1>3, <2>1 DEF MemoryOK, Kept, Covered
<1>4. ASSUME NEW other \in Threads, pc[other] # "idle" /\ IsOf(command, other)
      PROVE  MemoryOK(command)'
  <2>1. CASE other # th
    <3>1. pc'[other] # "idle" /\ IsOf(command, other)'
      BY <1>4, <2>1 DEF IsOf, QueueOf
    <3> QED
      BY <3>1 DEF MemoryOK
  <2>2. CASE other = th
    BY <1>2, <1>3, <1>4, <2>2 DEF MemoryOK
  <2> QED
    BY <2>1, <2>2
<1> QED
  BY <1>2, <1>3, <1>4 DEF MemoryOK

----------------------------------------------------------------------------
(* The steps.                                                              *)

Others(th) ==
    \A other \in Threads : other # th => frame'[other] = frame[other] /\ pc'[other] = pc[other]

LaunchedOK ==
    \A command \in launched' :
        command \in launched \/ (CommandOK(command)' /\ MemoryOK(command)')

\* The thread goes on with its command, or does not have to.
GoesOn(th, command) ==
    \/ pc'[th] # "idle" /\ IsOf(command, th)'
    \/ command.work <= done[command.queue]
    \/ Kept(command)

LeavesNone(th) ==
    \A command \in launched : pc[th] # "idle" /\ IsOf(command, th) => GoesOn(th, command)

\* What a step of a thread has to show.
LEMMA StepKeepsInv ==
    ASSUME QueueInv, NEW th \in Threads, Others(th),
           WorldInv', Grows, UsesInv', KeepsUses, TokensInv', BoundsInv', ThreadsInv', NewCommands,
           ThreadInv(th)', LaunchedOK, LeavesNone(th)
    PROVE  QueueInv'
<1>1. ASSUME NEW command \in launched'
      PROVE  CommandOK(command)' /\ MemoryOK(command)'
  <2>1. CASE command \in launched
    <3>1. CommandOK(command) /\ MemoryOK(command)
      BY <2>1 DEF QueueInv
    <3>2. CommandOK(command)'
      BY <3>1, CommandStays DEF QueueInv
    <3>3. MemoryOK(command)'
      BY <2>1, <3>1, MemoryStays DEF QueueInv, Others, LeavesNone, GoesOn
    <3> QED
      BY <3>2, <3>3
  <2> QED
    BY <2>1 DEF LaunchedOK
<1>2. ASSUME NEW other \in Threads
      PROVE  ThreadInv(other)'
  BY ThreadStays DEF QueueInv, Others
<1> QED
  BY <1>1, <1>2 DEF QueueInv

LEMMA NoThreadStep ==
    ASSUME QueueInv, WorldInv', Grows, open_queues' \subseteq open_queues,
           UNCHANGED <<m_uses, tokens, launched, submits, pc, frame>>
    PROVE  QueueInv'
<1>1. UsesInv' /\ KeepsUses
  BY UsesStay DEF QueueInv
<1>2. TokensInv'
  BY GivenStays DEF QueueInv, TokensInv
<1>3. BoundsInv' /\ ThreadsInv' /\ NewCommands
  BY DEF QueueInv, BoundsInv, ThreadsInv, NewCommands
<1>4. ASSUME NEW th \in Threads
      PROVE  ThreadInv(th)'
  BY <1>1, <1>3, ThreadStays DEF QueueInv
<1>5. \A command, th : IsOf(command, th) => IsOf(command, th)'
  BY DEF IsOf, QueueOf
<1>6. ASSUME NEW command \in launched
      PROVE  CommandOK(command)' /\ MemoryOK(command)'
  <2>1. CommandOK(command) /\ MemoryOK(command)
    BY DEF QueueInv
  <2>2. CommandOK(command)'
    BY <2>1, CommandStays DEF QueueInv
  <2>3. MemoryOK(command)'
    BY <1>1, <1>5, <2>1, MemoryStays DEF QueueInv
  <2> QED
    BY <2>2, <2>3
<1> QED
  BY <1>1, <1>2, <1>3, <1>4, <1>6 DEF QueueInv

\* Most steps leave the devices alone.
LEMMA NothingNew ==
    ASSUME QueueInv, UNCHANGED <<streamVars, commands, other_done, m_uses, launched>>
    PROVE  WorldInv' /\ Grows /\ UsesInv' /\ KeepsUses /\ NewCommands /\ LaunchedOK
  BY NothingGrows, UsesStay DEF QueueInv, NewCommands, LaunchedOK

LEMMA ThreadMoves ==
    ASSUME QueueInv, NEW th \in Threads, NEW from, NEW to, Goto(th, from, to)
    PROVE  /\ pc[th] = from /\ pc'[th] = to
           /\ \A other \in Threads : other # th => pc'[other] = pc[other]
  BY DEF QueueInv, ThreadsInv, Goto

LEMMA StartSubmitKeepsInv ==
    ASSUME QueueInv, NEW th \in Threads, StartSubmit(th)
    PROVE  QueueInv'
<1>1. /\ submits < MaxSubmits /\ submits' = submits + 1
      /\ Goto(th, "idle", "wait_for")
      /\ UNCHANGED <<streamVars, commands, open_queues, other_done, m_uses, tokens, launched>>
  BY DEF StartSubmit
<1>2. PICK queue \in open_queues, dependencies \in SUBSET (tokens \cup {NoToken, OtherToken}),
           operands \in SUBSET Buffers, own \in BOOLEAN :
          /\ Cardinality(dependencies) <= 2
          /\ Keep(th, [EmptyFrame EXCEPT !.queue = queue, !.dependencies = dependencies,
                                         !.to_wait = dependencies, !.operands = operands,
                                         !.own = own])
  BY DEF StartSubmit
<1> DEFINE new == [EmptyFrame EXCEPT !.queue = queue, !.dependencies = dependencies,
                                     !.to_wait = dependencies, !.operands = operands, !.own = own]
<1>3. WorldInv' /\ Grows /\ UsesInv' /\ KeepsUses /\ NewCommands /\ LaunchedOK
  BY <1>1, NothingNew
<1>4. TokensInv' /\ BoundsInv'
  <2>1. TokensInv'
    BY <1>1, <1>3, GivenStays DEF QueueInv, TokensInv
  <2> QED
    BY <1>1, <2>1, SubmitsAssumption DEF QueueInv, BoundsInv
<1>5. \A token \in dependencies : Dependency(token) /\ token \in AnyToken
  BY KnownTokens DEF QueueInv, TokensInv, Dependency, Given
<1>6. queue \in Streams
  BY DEF QueueInv, BoundsInv
<1>7. new \in Frames
  BY <1>5, <1>6, KnownTokens DEF Frames, EmptyFrame
<1>8. /\ new.queue = queue /\ new.dependencies = dependencies /\ new.to_wait = dependencies
      /\ new.work = 0 /\ new.until = 0
  BY DEF EmptyFrame
<1>9. frame' = [frame EXCEPT ![th] = new]
  BY <1>2 DEF Keep
<1> HIDE DEF new
<1>10. /\ frame'[th] = new /\ frame' \in [Threads -> Frames]
       /\ \A other \in Threads : other # th => frame'[other] = frame[other]
  BY <1>7, <1>9 DEF QueueInv, ThreadsInv
<1>11. /\ pc[th] = "idle" /\ pc'[th] = "wait_for" /\ Others(th)
       /\ pc' \in [Threads -> {"idle", "wait_for", "track", "record_use", "synchronize", "catch"}]
  BY <1>1, <1>10, ThreadMoves DEF Goto, QueueInv, ThreadsInv, Others
<1>12. ThreadInv(th)'
  <2>1. \A token \in dependencies : Dependency(token)'
    BY <1>3, <1>5, DependencyStays DEF QueueInv
  <2>2. ASSUME NEW command \in launched', IsOf(command, th)'
        PROVE  FALSE
    <3>1. command.work = 0
      BY <1>8, <1>10, <2>2 DEF IsOf
    <3> QED
      BY <1>1, <3>1 DEF QueueInv, CommandOK
  <2>3. 0 <= Len(stream'[queue])
    BY <1>3, <1>6 DEF WorldInv
  <2> QED
    BY <1>6, <1>8, <1>10, <1>11, <2>1, <2>2, <2>3 DEF ThreadInv, FrameInv, QueueOf
<1>13. ThreadsInv' /\ LeavesNone(th)
  BY <1>10, <1>11 DEF ThreadsInv, LeavesNone
<1> QED
  BY <1>3, <1>4, <1>11, <1>12, <1>13, StepKeepsInv

\* The call returns, and its command does not need it any more.
LEMMA ReturnKeepsInv ==
    ASSUME QueueInv, NEW th \in Threads, NEW from, Return(th, from), TokensInv',
           UNCHANGED <<streamVars, commands, open_queues, other_done, m_uses, launched, submits>>,
           \A command \in launched : IsOf(command, th) =>
               command.work <= done[command.queue] \/ Kept(command)
    PROVE  QueueInv'
<1>1. Goto(th, from, "idle") /\ frame' = [frame EXCEPT ![th] = EmptyFrame]
  BY DEF Return, Keep
<1>2. WorldInv' /\ Grows /\ UsesInv' /\ KeepsUses /\ NewCommands /\ LaunchedOK
  BY NothingNew
<1>3. ThreadsInv' /\ Others(th)
  BY <1>1, ThreadMoves, KnownTokens DEF Goto, QueueInv, ThreadsInv, Others, Frames, EmptyFrame
<1>4. BoundsInv'
  BY DEF QueueInv, BoundsInv
<1>5. ThreadInv(th)'
  BY <1>1, ThreadMoves DEF ThreadInv
<1>6. LeavesNone(th)
  BY DEF LeavesNone, GoesOn
<1> QED
  BY <1>2, <1>3, <1>4, <1>5, <1>6, StepKeepsInv

LEMMA SameTokens ==
    ASSUME QueueInv, UNCHANGED <<streamVars, commands, tokens>>
    PROVE  TokensInv'
  BY DEF QueueInv, TokensInv, Given, PointOf

LEMMA WaitForFailsKeepsInv ==
    ASSUME QueueInv, NEW th \in Threads, WaitForFails(th)
    PROVE  QueueInv'
<1>1. /\ Return(th, "wait_for") /\ pc[th] = "wait_for"
      /\ UNCHANGED <<streamVars, commands, open_queues, other_done, m_uses, tokens, launched, submits>>
  BY DEF WaitForFails, Return, Goto
<1>2. \A command \in launched : ~IsOf(command, th)
  BY <1>1 DEF QueueInv, ThreadInv, FrameInv, CommandOK, IsOf
<1> QED
  BY <1>1, <1>2, SameTokens, ReturnKeepsInv

\* A stream is synchronized until all that the thread gave it is over.
LEMMA SynchronizedIsDone ==
    ASSUME QueueInv, NEW th \in Threads, pc[th] # "idle", done[QueueOf(th)] >= frame[th].until,
           NEW command \in launched, IsOf(command, th)
    PROVE  command.work <= done[command.queue]
<1>1. /\ frame[th].work \in Nat /\ frame[th].until \in Nat /\ frame[th].work <= frame[th].until
      /\ QueueOf(th) \in Streams
  BY DEF QueueInv, ThreadsInv, Frames, ThreadInv, FrameInv
<1>2. done[QueueOf(th)] \in Nat
  BY <1>1 DEF QueueInv, WorldInv
<1> QED
  BY <1>1, <1>2 DEF IsOf

LEMMA SynchronizeKeepsInv ==
    ASSUME QueueInv, NEW th \in Threads, Synchronize(th)
    PROVE  QueueInv'
<1>1. /\ Return(th, "synchronize") /\ pc[th] = "synchronize" /\ done[QueueOf(th)] >= frame[th].until
      /\ UNCHANGED <<streamVars, commands, open_queues, other_done, m_uses, tokens, launched, submits>>
  BY DEF Synchronize
<1> QED
  BY <1>1, SynchronizedIsDone, SameTokens, ReturnKeepsInv

LEMMA RethrowKeepsInv ==
    ASSUME QueueInv, NEW th \in Threads, Rethrow(th)
    PROVE  QueueInv'
<1>1. /\ Return(th, "catch") /\ pc[th] = "catch" /\ done[QueueOf(th)] >= frame[th].until
      /\ UNCHANGED <<streamVars, commands, open_queues, other_done, m_uses, tokens, launched, submits>>
  BY DEF Rethrow
<1> QED
  BY <1>1, SynchronizedIsDone, SameTokens, ReturnKeepsInv

LEMMA ReturnTokenKeepsInv ==
    ASSUME QueueInv, NEW th \in Threads, ReturnToken(th)
    PROVE  QueueInv'
<1>1. /\ pc[th] = "record_use" /\ frame[th].to_record = {}
      /\ tokens' = tokens \cup {frame[th].token}
      /\ Return(th, "record_use")
      /\ UNCHANGED <<streamVars, commands, open_queues, other_done, m_uses, launched, submits>>
  BY DEF ReturnToken
<1>2. FrameInv(th) /\ RecordingInv(th)
  BY <1>1 DEF QueueInv, ThreadInv
<1>3. TokensInv'
  BY <1>1, <1>2 DEF QueueInv, TokensInv, Given, PointOf, RecordingInv
<1>4. ASSUME NEW command \in launched, IsOf(command, th)
      PROVE  Kept(command)
  BY <1>1, <1>2, <1>4 DEF FrameInv, RecordingInv, Kept, IsOf
<1> QED
  BY <1>1, <1>3, <1>4, ReturnKeepsInv

LEMMA WaitForKeepsInv ==
    ASSUME QueueInv, NEW th \in Threads, WaitFor(th)
    PROVE  QueueInv'
<1>1. pc[th] = "wait_for"
      /\ UNCHANGED <<pc, commands, open_queues, other_done, m_uses, tokens, launched, submits>>
  BY DEF WaitFor
<1>2. PICK token \in frame[th].to_wait :
          /\ Waited(th, token)
          /\ \/ IsInOrder(token, QueueOf(th)) /\ UNCHANGED streamVars
             \/ /\ ~IsInOrder(token, QueueOf(th)) /\ IsStreamTimeline(token)
                /\ \/ Enqueue(QueueOf(th), {PointOf(token)})
                   \/ Reached(PointOf(token)) /\ UNCHANGED streamVars
             \/ /\ ~IsInOrder(token, QueueOf(th)) /\ ~IsStreamTimeline(token)
                /\ other_done
                /\ UNCHANGED streamVars
  BY DEF WaitFor
<1> SUFFICES ASSUME NEW new, new = [frame[th] EXCEPT !.to_wait = @ \ {token}],
                    NEW queue, queue = QueueOf(th)
             PROVE  QueueInv'
  OBVIOUS
<1>3. /\ FrameInv(th) /\ queue \in Streams /\ frame[th] \in Frames
      /\ token \in frame[th].dependencies /\ Dependency(token)
  BY <1>1, <1>2 DEF QueueInv, ThreadInv, FrameInv, ThreadsInv
<1>4. /\ new \in Frames /\ new.queue = frame[th].queue /\ new.work = frame[th].work
      /\ new.until = frame[th].until /\ new.dependencies = frame[th].dependencies
      /\ new.operands = frame[th].operands /\ new.own = frame[th].own
      /\ new.to_wait = frame[th].to_wait \ {token}
  BY <1>3 DEF Frames
<1>5. frame' = [frame EXCEPT ![th] = new]
  BY <1>2 DEF Waited, Keep
<1>6. /\ frame'[th] = new /\ ThreadsInv'
      /\ \A other \in Threads : other # th => frame'[other] = frame[other]
  BY <1>1, <1>4, <1>5 DEF QueueInv, ThreadsInv
<1>7. WorldInv' /\ Grows /\ OrderedNow(token, queue)'
  <2>1. CASE UNCHANGED streamVars /\ OrderedNow(token, queue)
    <3>1. WorldInv' /\ Grows
      BY <1>1, <2>1, NothingGrows DEF QueueInv
    <3> QED
      BY <1>3, <2>1, <3>1, OrderedNowStays DEF QueueInv
  <2>2. CASE IsInOrder(token, queue)
    <3>1. CASE IsEmpty(token)
      BY <1>2, <2>1, <2>2, <3>1 DEF OrderedNow, Ordered
    <3>2. CASE token.timeline = queue
      <4>1. Given(token)
        BY <1>3, <3>2, KnownTokens DEF Dependency
      <4>2. /\ token.work \in Nat /\ PointOf(token).after \in Nat /\ Len(stream[queue]) \in Nat
            /\ token.work <= PointOf(token).after /\ PointOf(token).after <= Len(stream[queue])
        BY <3>2, <4>1, GivenPoint DEF QueueInv, Points, WorldInv
      <4>3. OrderedNow(token, queue)
        BY <3>2, <4>2 DEF OrderedNow, Ordered
      <4> QED
        BY <1>2, <2>1, <2>2, <4>3
    <3> QED
      BY <2>2, <3>1, <3>2 DEF IsInOrder
  <2>3. CASE ~IsInOrder(token, queue) /\ IsStreamTimeline(token)
    <3>1. token.timeline \in Streams /\ Given(token)
      BY <1>3, <2>3, KnownTokens DEF Dependency, IsStreamTimeline
    <3>2. PointOf(token) \in Points
      BY <3>1, GivenPoint DEF QueueInv
    <3>3. CASE Reached(PointOf(token)) /\ UNCHANGED streamVars
      BY <2>1, <3>1, <3>3 DEF OrderedNow, Ordered
    <3>4. CASE Enqueue(queue, {PointOf(token)})
      <4>1. /\ WorldInv' /\ Grows
            /\ Len(stream'[queue]) = Len(stream[queue]) + 1
            /\ stream'[queue][Len(stream[queue]) + 1] = {PointOf(token)}
        BY <1>1, <1>3, <3>2, <3>4, EnqueueGrows DEF QueueInv
      <4>2. PointOf(token)' = PointOf(token)
        BY <3>1, <4>1, GivenStays DEF QueueInv
      <4>3. Len(stream[queue]) + 1 \in 1..Len(stream'[queue])
        BY <1>3, <4>1 DEF QueueInv, WorldInv
      <4> QED
        BY <3>1, <4>1, <4>2, <4>3 DEF OrderedNow, Ordered
    <3> QED
      BY <1>2, <2>3, <3>3, <3>4
  <2>4. CASE ~IsInOrder(token, queue) /\ ~IsStreamTimeline(token)
    <3>1. token.timeline = OtherTimeline /\ other_done /\ UNCHANGED streamVars
      BY <1>2, <1>3, <2>4, KnownTokens DEF Dependency, Given, IsInOrder, IsEmpty, IsStreamTimeline
    <3> QED
      BY <2>1, <3>1 DEF OrderedNow, Ordered
  <2> QED
    BY <2>2, <2>3, <2>4
<1>8. UsesInv' /\ KeepsUses
  BY <1>1, <1>7, UsesStay DEF QueueInv
<1>9. TokensInv' /\ BoundsInv'
  <2>1. TokensInv'
    BY <1>1, <1>7, GivenStays DEF QueueInv, TokensInv
  <2> QED
    BY <1>1, <2>1 DEF QueueInv, BoundsInv
<1>10. NewCommands /\ LaunchedOK /\ LeavesNone(th) /\ Others(th)
  BY <1>1, <1>4, <1>6 DEF NewCommands, LaunchedOK, LeavesNone, GoesOn, IsOf, QueueOf, Others
<1>11. FrameInv(th)'
  <2>1. QueueOf(th)' = queue
    BY <1>4, <1>6 DEF QueueOf
  <2>2. ASSUME NEW other \in frame[th].dependencies
        PROVE  /\ Dependency(other)'
               /\ other \notin new.to_wait => OrderedNow(other, queue)'
    <3>1. Dependency(other) /\ Dependency(other)'
      BY <1>3, <1>7, DependencyStays DEF QueueInv, FrameInv
    <3>2. CASE other = token
      BY <1>7, <3>1, <3>2
    <3>3. CASE other # token
      <4>1. other \notin new.to_wait => OrderedNow(other, queue)
        BY <1>3, <1>4, <3>3 DEF FrameInv
      <4> QED
        BY <1>3, <1>7, <3>1, <4>1, OrderedNowStays DEF QueueInv
    <3> QED
      BY <3>2, <3>3
  <2>3. \A command \in launched : IsOf(command, th)' =>
            command.operands = new.operands /\ command.own = new.own
    BY <1>3, <1>4, <1>6 DEF IsOf, QueueOf, FrameInv
  <2>4. new.work = 0 /\ new.work <= new.until /\ new.work <= Len(stream'[queue])
    BY <1>1, <1>3, <1>4, <1>7 DEF FrameInv, WorldInv
  <2> QED
    BY <1>1, <1>3, <1>4, <1>6, <2>1, <2>2, <2>3, <2>4 DEF FrameInv
<1>12. ThreadInv(th)'
  BY <1>1, <1>11 DEF ThreadInv
<1> QED
  BY <1>6, <1>7, <1>8, <1>9, <1>10, <1>12, StepKeepsInv

\* The work is new in its stream, after all that it depends on.
LEMMA IssueKeepsInv ==
    ASSUME QueueInv, NEW th \in Threads, NEW to \in {"track", "catch"}, Issue(th),
           frame[th].to_wait = {}, Goto(th, "wait_for", to),
           UNCHANGED <<commands, open_queues, other_done, m_uses, tokens, submits>>
    PROVE  QueueInv'
<1> SUFFICES ASSUME NEW queue, queue = QueueOf(th), NEW before, before = Len(stream[queue])
             PROVE  QueueInv'
  OBVIOUS
<1> SUFFICES ASSUME NEW command, command = Command(th), NEW work, work = before + 1,
                    NEW new, new = [frame[th] EXCEPT !.work = work, !.until = work]
             PROVE  QueueInv'
  OBVIOUS
<1>1. pc[th] = "wait_for" /\ pc'[th] = to /\ ThreadInv(th) /\ FrameInv(th) /\ frame[th] \in Frames
  BY ThreadMoves DEF QueueInv, ThreadInv, ThreadsInv
<1>2. /\ queue \in Streams /\ before \in Nat /\ frame[th].operands \subseteq Buffers
      /\ frame[th].work = 0 /\ work \in Nat \ {0} /\ work - 1 = before
  BY <1>1 DEF FrameInv, QueueInv, WorldInv, Frames
<1>3. /\ WorldInv' /\ Grows /\ Len(stream'[queue]) = work
  <2>1. Work \in SUBSET Points /\ Enqueue(queue, Work)
    BY DEF Issue, Work
  <2> QED
    BY <1>2, <2>1, EnqueueGrows DEF QueueInv
<1>4. /\ command.queue = queue /\ command.work = work
      /\ command.dependencies = frame[th].dependencies
      /\ command.operands = frame[th].operands /\ command.own = frame[th].own
      /\ launched' = launched \cup {command}
      /\ frame' = [frame EXCEPT ![th] = new]
  BY DEF Issue, Command, Keep
<1>5. /\ new \in Frames /\ new.queue = queue /\ new.work = work
      /\ new.until = work /\ new.dependencies = frame[th].dependencies
      /\ new.operands = frame[th].operands /\ new.own = frame[th].own
      /\ new.to_wait = frame[th].to_wait
  BY <1>1, <1>2 DEF Frames, QueueOf
<1>6. /\ frame'[th] = new /\ ThreadsInv' /\ Others(th) /\ QueueOf(th)' = queue
  BY <1>4, <1>5, ThreadMoves DEF QueueInv, ThreadsInv, Goto, Others, QueueOf
<1>7. UsesInv' /\ KeepsUses
  BY <1>3, UsesStay DEF QueueInv
<1>8. TokensInv' /\ BoundsInv'
  <2>1. TokensInv'
    BY <1>3, GivenStays DEF QueueInv, TokensInv
  <2> QED
    BY <2>1 DEF QueueInv, BoundsInv
<1>9. NewCommands
  BY <1>2, <1>4 DEF NewCommands
<1>10. LeavesNone(th)
  BY <1>2 DEF LeavesNone, IsOf, QueueInv, CommandOK
<1>11. \A token \in frame[th].dependencies :
          Dependency(token) /\ Ordered(token, queue, before)
  BY <1>1 DEF FrameInv, OrderedNow
<1>12. \A token \in frame[th].dependencies :
          /\ Dependency(token)'
          /\ Ordered(token, queue, before)' /\ Ordered(token, queue, work)'
  <2>1. before <= work /\ before <= Len(stream[queue])
    BY <1>2
  <2> QED
    BY <1>2, <1>3, <1>11, <2>1, DependencyStays, OrderedStays DEF QueueInv
<1>13. CommandOK(command)' /\ MemoryOK(command)'
  <2>1. \A token \in command.dependencies :
            Dependency(token)' /\ Ordered(token, command.queue, command.work - 1)'
    BY <1>2, <1>4, <1>12
  <2>2. CommandOK(command)'
    BY <1>2, <1>3, <1>4, <2>1 DEF CommandOK
  <2>3. IsOf(command, th)'
    BY <1>4, <1>5, <1>6 DEF IsOf
  <2> QED
    BY <1>1, <2>2, <2>3 DEF MemoryOK
<1>14. FrameInv(th)'
  <2>1. \A token \in new.dependencies : Dependency(token)' /\ OrderedNow(token, queue)'
    BY <1>3, <1>5, <1>12 DEF OrderedNow
  <2>2. ASSUME NEW other \in launched', IsOf(other, th)'
        PROVE  other.operands = new.operands /\ other.own = new.own
    <3>1. other.queue = queue /\ other.work = work
      BY <1>5, <1>6, <2>2 DEF IsOf
    <3>2. other \notin launched
      BY <1>2, <3>1 DEF QueueInv, CommandOK
    <3> QED
      BY <1>4, <1>5, <3>2
  <2> QED
    BY <1>1, <1>2, <1>3, <1>5, <1>6, <2>1, <2>2 DEF FrameInv
<1>15. ThreadInv(th)'
  BY <1>1, <1>14 DEF ThreadInv
<1>16. LaunchedOK
  BY <1>4, <1>13 DEF LaunchedOK
<1> QED
  BY <1>3, <1>6, <1>7, <1>8, <1>9, <1>10, <1>15, <1>16, StepKeepsInv

\* The thread turns to waiting for its stream, with its command as it was.
LEMMA WaitUntilNowKeepsInv ==
    ASSUME QueueInv, NEW th \in Threads, NEW to \in {"synchronize", "catch"}, WaitUntilNow(th),
           pc[th] # "idle", pc' = [pc EXCEPT ![th] = to],
           UNCHANGED <<streamVars, commands, open_queues, other_done, m_uses, tokens, launched, submits>>
    PROVE  QueueInv'
<1> SUFFICES ASSUME NEW queue, queue = QueueOf(th), NEW length, length = Len(stream[queue]),
                    NEW new, new = [frame[th] EXCEPT !.until = length]
             PROVE  QueueInv'
  OBVIOUS
<1>1. FrameInv(th) /\ frame[th] \in Frames /\ queue \in Streams /\ length \in Nat
  BY DEF QueueInv, ThreadInv, ThreadsInv, FrameInv, WorldInv
<1>2. /\ new \in Frames /\ new.queue = queue /\ new.work = frame[th].work /\ new.until = length
      /\ new.dependencies = frame[th].dependencies /\ new.to_wait = frame[th].to_wait
      /\ new.operands = frame[th].operands /\ new.own = frame[th].own
  BY <1>1 DEF Frames, QueueOf
<1>3. frame' = [frame EXCEPT ![th] = new]
  BY DEF WaitUntilNow, Keep
<1>4. /\ frame'[th] = new /\ pc'[th] = to /\ QueueOf(th)' = queue /\ ThreadsInv' /\ Others(th)
  BY <1>2, <1>3 DEF QueueInv, ThreadsInv, Others, QueueOf
<1>5. WorldInv' /\ Grows /\ UsesInv' /\ KeepsUses /\ NewCommands /\ LaunchedOK
  BY NothingNew
<1>6. TokensInv' /\ BoundsInv'
  BY SameTokens DEF QueueInv, BoundsInv
<1>7. LeavesNone(th)
  BY <1>2, <1>4 DEF LeavesNone, GoesOn, IsOf
<1>8. FrameInv(th)'
  <2>1. ASSUME NEW token \in new.dependencies
        PROVE  /\ Dependency(token)'
               /\ token \notin new.to_wait => OrderedNow(token, queue)'
    <3>1. Dependency(token) /\ (token \notin new.to_wait => OrderedNow(token, queue))
      BY <1>1, <1>2 DEF FrameInv
    <3> QED
      BY <1>1, <1>5, <3>1, DependencyStays, OrderedNowStays DEF QueueInv
  <2>2. \A command \in launched : IsOf(command, th)' =>
            command.operands = new.operands /\ command.own = new.own
    BY <1>1, <1>2, <1>4 DEF FrameInv, IsOf
  <2>3. /\ new.work <= new.until /\ new.work <= Len(stream'[queue])
        /\ new.to_wait \subseteq new.dependencies
    BY <1>1, <1>2 DEF FrameInv, streamVars
  <2> QED
    BY <1>1, <1>2, <1>4, <2>1, <2>2, <2>3 DEF FrameInv
<1>9. ThreadInv(th)'
  BY <1>4, <1>8 DEF ThreadInv
<1> QED
  BY <1>4, <1>5, <1>6, <1>7, <1>9, StepKeepsInv

LEMMA LaunchKeepsInv ==
    ASSUME QueueInv, NEW th \in Threads, Launch(th)
    PROVE  QueueInv'
  BY IssueKeepsInv DEF Launch

LEMMA LaunchFailsKeepsInv ==
    ASSUME QueueInv, NEW th \in Threads, LaunchFails(th)
    PROVE  QueueInv'
<1>1. CASE Issue(th)
  BY <1>1, IssueKeepsInv DEF LaunchFails
<1>2. CASE WaitUntilNow(th) /\ UNCHANGED <<streamVars, launched>>
  <2>1. /\ pc[th] # "idle" /\ pc' = [pc EXCEPT ![th] = "catch"]
        /\ UNCHANGED <<commands, open_queues, other_done, m_uses, tokens, submits>>
    BY DEF LaunchFails, Goto
  <2> QED
    BY <1>2, <2>1, WaitUntilNowKeepsInv
<1> QED
  BY <1>1, <1>2 DEF LaunchFails

LEMMA TrackOtherKeepsInv ==
    ASSUME QueueInv, NEW th \in Threads, TrackOther(th)
    PROVE  QueueInv'
  BY WaitUntilNowKeepsInv DEF TrackOther, Goto

LEMMA TrackFailsKeepsInv ==
    ASSUME QueueInv, NEW th \in Threads, TrackFails(th)
    PROVE  QueueInv'
  BY WaitUntilNowKeepsInv DEF TrackFails

LEMMA TrackKeepsInv ==
    ASSUME QueueInv, NEW th \in Threads, Track(th)
    PROVE  QueueInv'
<1> SUFFICES ASSUME NEW queue, queue = QueueOf(th), NEW id, id = Len(commands[queue]),
                    NEW token, token = Token(queue, id, frame[th].work),
                    NEW new, new = [frame[th] EXCEPT !.token = token, !.to_record = frame[th].operands]
             PROVE  QueueInv'
  OBVIOUS
<1>1. /\ Goto(th, "track", "record_use") /\ frame[th].own
      /\ commands' = [commands EXCEPT ![queue] = Append(@, PointNow(queue))]
      /\ frame' = [frame EXCEPT ![th] = new]
      /\ UNCHANGED <<streamVars, open_queues, other_done, m_uses, tokens, launched, submits>>
  BY DEF Track, Keep, AreOwnBuffers
<1>2. /\ pc[th] = "track" /\ pc'[th] = "record_use" /\ FrameInv(th) /\ frame[th] \in Frames
      /\ queue \in Streams /\ id \in Nat
  <2>1. pc[th] = "track" /\ pc'[th] = "record_use"
    BY <1>1, ThreadMoves
  <2>2. FrameInv(th) /\ frame[th] \in Frames
    BY <2>1 DEF QueueInv, ThreadInv, ThreadsInv
  <2>3. queue \in Streams
    BY <2>2 DEF FrameInv
  <2> QED
    BY <2>1, <2>2, <2>3 DEF QueueInv, WorldInv
<1>3. /\ WorldInv' /\ Grows /\ Len(commands'[queue]) = id + 1
      /\ commands'[queue][id + 1] = Len(stream[queue])
  BY <1>1, <1>2, RecordGrows DEF QueueInv
<1>4. /\ token \in AnyToken /\ token.timeline = queue /\ token.id = id
      /\ token.work = frame[th].work
  BY <1>2 DEF Frames, AnyToken, Token
<1>5. /\ new \in Frames /\ new.queue = queue /\ new.work = frame[th].work
      /\ new.until = frame[th].until
      /\ new.dependencies = frame[th].dependencies /\ new.to_wait = frame[th].to_wait
      /\ new.operands = frame[th].operands /\ new.own = frame[th].own
      /\ new.token = token /\ new.to_record = frame[th].operands
  BY <1>2, <1>4 DEF Frames, QueueOf
<1>6. /\ frame'[th] = new /\ QueueOf(th)' = queue /\ ThreadsInv' /\ Others(th)
  BY <1>1, <1>5, ThreadMoves DEF QueueInv, ThreadsInv, Others, QueueOf, Goto
<1>7. UsesInv' /\ KeepsUses
  BY <1>1, <1>3, UsesStay DEF QueueInv
<1>8. TokensInv' /\ BoundsInv'
  <2>1. TokensInv'
    BY <1>1, <1>3, GivenStays DEF QueueInv, TokensInv
  <2> QED
    BY <1>1, <2>1 DEF QueueInv, BoundsInv
<1>9. NewCommands /\ LaunchedOK /\ LeavesNone(th)
  BY <1>1, <1>2, <1>5, <1>6 DEF NewCommands, LaunchedOK, LeavesNone, GoesOn, IsOf
<1>10. Given(token)'
  <2>1. token.work <= Len(stream[queue])
    BY <1>2, <1>4 DEF FrameInv
  <2>2. PointOf(token)'.after = Len(stream[queue])
    BY <1>3, <1>4 DEF PointOf
  <2> QED
    BY <1>2, <1>3, <1>4, <2>1, <2>2 DEF Given
<1>11. FrameInv(th)'
  <2>1. ASSUME NEW other \in new.dependencies
        PROVE  /\ Dependency(other)'
               /\ other \notin new.to_wait => OrderedNow(other, queue)'
    <3>1. Dependency(other) /\ (other \notin new.to_wait => OrderedNow(other, queue))
      BY <1>2, <1>5 DEF FrameInv
    <3> QED
      BY <1>2, <1>3, <3>1, DependencyStays, OrderedNowStays DEF QueueInv
  <2>2. ASSUME NEW command \in launched', IsOf(command, th)'
        PROVE  command.operands = new.operands /\ command.own = new.own
    <3>1. command \in launched /\ IsOf(command, th)
      BY <1>1, <1>5, <1>6, <2>2 DEF IsOf
    <3> QED
      BY <1>2, <1>5, <3>1 DEF FrameInv
  <2>3. /\ new.work <= new.until /\ new.work <= Len(stream'[queue])
        /\ new.to_wait \subseteq new.dependencies
    BY <1>1, <1>2, <1>5 DEF FrameInv, streamVars
  <2> QED
    BY <1>2, <1>5, <1>6, <2>1, <2>2, <2>3 DEF FrameInv
<1>12. RecordingInv(th)'
  BY <1>1, <1>4, <1>5, <1>6, <1>10 DEF RecordingInv
<1>13. ThreadInv(th)'
  BY <1>11, <1>12 DEF ThreadInv
<1> QED
  BY <1>3, <1>6, <1>7, <1>8, <1>9, <1>13, StepKeepsInv

LEMMA RecordUseKeepsInv ==
    ASSUME QueueInv, NEW th \in Threads, RecordUse(th)
    PROVE  QueueInv'
<1>1. /\ pc[th] = "record_use"
      /\ UNCHANGED <<pc, streamVars, commands, open_queues, other_done, tokens, launched, submits>>
  BY DEF RecordUse
<1>2. PICK b \in frame[th].to_record :
          /\ m_uses' = [m_uses EXCEPT ![b] = Recorded(@, frame[th].token)]
          /\ Keep(th, [frame[th] EXCEPT !.to_record = @ \ {b}])
  BY DEF RecordUse
<1> SUFFICES ASSUME NEW queue, queue = QueueOf(th), NEW token, token = frame[th].token,
                    NEW work, work = frame[th].work,
                    NEW new, new = [frame[th] EXCEPT !.to_record = @ \ {b}]
             PROVE  QueueInv'
  OBVIOUS
<1>3. /\ FrameInv(th) /\ RecordingInv(th) /\ frame[th] \in Frames /\ queue \in Streams
      /\ b \in Buffers /\ frame[th].operands \subseteq Buffers /\ work \in Nat
  BY <1>1 DEF QueueInv, ThreadInv, ThreadsInv, FrameInv, Frames
<1>4. Given(token) /\ token.timeline = queue /\ token.work = work
  BY <1>3 DEF RecordingInv
<1>5. /\ new \in Frames /\ new.queue = queue /\ new.work = work
      /\ new.until = frame[th].until
      /\ new.dependencies = frame[th].dependencies /\ new.to_wait = frame[th].to_wait
      /\ new.operands = frame[th].operands /\ new.own = frame[th].own
      /\ new.token = token /\ new.to_record = frame[th].to_record \ {b}
  BY <1>3 DEF Frames, QueueOf
<1>6. frame' = [frame EXCEPT ![th] = new]
  BY <1>2 DEF Keep
<1>7. /\ frame'[th] = new /\ QueueOf(th)' = queue /\ ThreadsInv' /\ Others(th)
  BY <1>1, <1>5, <1>6 DEF QueueInv, ThreadsInv, Others, QueueOf
<1>8. WorldInv' /\ Grows
  BY <1>1, NothingGrows DEF QueueInv
<1>9. /\ UsesInv' /\ KeepsUses
      /\ \A most \in Nat : most <= PointOf(token).after => Covered(b, queue, most)'
  BY <1>1, <1>2, <1>3, <1>4, RecordingKeepsUses DEF QueueInv
<1>10. TokensInv' /\ BoundsInv'
  BY <1>1, SameTokens DEF QueueInv, BoundsInv
<1>11. NewCommands /\ LaunchedOK /\ LeavesNone(th)
  BY <1>1, <1>5, <1>7 DEF NewCommands, LaunchedOK, LeavesNone, GoesOn, IsOf
<1>12. FrameInv(th)'
  <2>1. ASSUME NEW other \in new.dependencies
        PROVE  /\ Dependency(other)'
               /\ other \notin new.to_wait => OrderedNow(other, queue)'
    <3>1. Dependency(other) /\ (other \notin new.to_wait => OrderedNow(other, queue))
      BY <1>3, <1>5 DEF FrameInv
    <3> QED
      BY <1>3, <1>8, <3>1, DependencyStays, OrderedNowStays DEF QueueInv
  <2>2. \A command \in launched' : IsOf(command, th)' =>
            command.operands = new.operands /\ command.own = new.own
    BY <1>1, <1>3, <1>5, <1>7 DEF FrameInv, IsOf
  <2>3. /\ new.work <= new.until /\ new.work <= Len(stream'[queue])
        /\ new.to_wait \subseteq new.dependencies
    BY <1>1, <1>3, <1>5 DEF FrameInv, streamVars
  <2> QED
    BY <1>1, <1>3, <1>5, <1>7, <2>1, <2>2, <2>3 DEF FrameInv
<1>13. RecordingInv(th)'
  <2>1. Given(token)'
    BY <1>4, <1>8, GivenStays DEF QueueInv
  <2>2. ASSUME NEW other \in frame[th].operands
        PROVE  other \in new.to_record \/ Covered(other, queue, work)'
    <3>1. CASE other = b
      BY <1>3, <1>4, <1>9, <3>1 DEF Given
    <3>2. CASE other # b
      <4>1. other \in new.to_record \/ Covered(other, queue, work)
        BY <1>3, <1>5, <3>2 DEF RecordingInv
      <4> QED
        BY <1>3, <1>9, <4>1 DEF KeepsUses
    <3> QED
      BY <3>1, <3>2
  <2>3. \A other \in new.operands : other \in new.to_record \/ Covered(other, queue, work)'
    BY <1>5, <2>2
  <2> QED
    BY <1>3, <1>4, <1>5, <1>7, <2>1, <2>3 DEF RecordingInv, Covered
<1>14. ThreadInv(th)'
  BY <1>12, <1>13 DEF ThreadInv
<1> QED
  BY <1>7, <1>8, <1>9, <1>10, <1>11, <1>14, StepKeepsInv

LEMMA DestroyQueueKeepsInv ==
    ASSUME QueueInv, NEW s \in Streams, DestroyQueue(s)
    PROVE  QueueInv'
<1>1. /\ open_queues' \subseteq open_queues
      /\ UNCHANGED <<streamVars, commands, other_done, m_uses, tokens, launched, submits, pc, frame>>
  BY DEF DestroyQueue
<1> QED
  BY <1>1, NothingGrows, NoThreadStep DEF QueueInv

LEMMA RunStreamKeepsInv ==
    ASSUME QueueInv, NEW s \in Streams, RunStream(s)
    PROVE  QueueInv'
<1>1. /\ Advance(s)
      /\ UNCHANGED <<commands, open_queues, other_done, m_uses, tokens, launched, submits, pc, frame>>
  BY DEF RunStream
<1> QED
  BY <1>1, AdvanceGrows, NoThreadStep DEF QueueInv

LEMMA OtherFinishesKeepsInv ==
    ASSUME QueueInv, OtherFinishes
    PROVE  QueueInv'
<1>1. /\ other_done' = TRUE
      /\ UNCHANGED <<streamVars, commands, open_queues, m_uses, tokens, launched, submits, pc, frame>>
  BY DEF OtherFinishes
<1> QED
  BY <1>1, OtherFinishedGrows, NoThreadStep DEF QueueInv

LEMMA QueueNextKeepsInv == QueueInv /\ [QueueNext]_queueVars => QueueInv'
<1> SUFFICES ASSUME QueueInv, [QueueNext]_queueVars
             PROVE  QueueInv'
  OBVIOUS
<1>1. ASSUME NEW th \in Threads, StartSubmit(th) PROVE QueueInv'
  BY <1>1, StartSubmitKeepsInv
<1>2. ASSUME NEW th \in Threads, SubmitStep(th) PROVE QueueInv'
  BY <1>2, WaitForKeepsInv, WaitForFailsKeepsInv, LaunchKeepsInv, LaunchFailsKeepsInv,
     TrackOtherKeepsInv, TrackKeepsInv, RecordUseKeepsInv, ReturnTokenKeepsInv,
     SynchronizeKeepsInv, TrackFailsKeepsInv, RethrowKeepsInv DEF SubmitStep
<1>3. ASSUME NEW s \in Streams, DestroyQueue(s) PROVE QueueInv'
  BY <1>3, DestroyQueueKeepsInv
<1>4. ASSUME NEW s \in Streams, RunStream(s) PROVE QueueInv'
  BY <1>4, RunStreamKeepsInv
<1>5. CASE OtherFinishes
  BY <1>5, OtherFinishesKeepsInv
<1>6. CASE UNCHANGED queueVars
  <2>1. UNCHANGED <<streamVars, commands, open_queues, other_done, m_uses, tokens, launched,
                    submits, pc, frame>>
    BY <1>6 DEF queueVars
  <2> QED
    BY <2>1, NothingGrows, NoThreadStep DEF QueueInv
<1> QED
  BY <1>1, <1>2, <1>3, <1>4, <1>5, <1>6 DEF QueueNext

LEMMA AlwaysQueueInv == QueueSpec => []QueueInv
  BY InitQueueInv, QueueNextKeepsInv, PTL DEF QueueSpec

----------------------------------------------------------------------------
(* What follows from it.                                                   *)

\* Types: tokens are of commands that were recorded, and work is where its
\* command says (cuda_command_queue::track, stream_timeline::record).
THEOREM QueueTypesHold == QueueSpec => []QueueTypeOK
<1>1. QueueInv => QueueTypeOK
  <2> SUFFICES ASSUME QueueInv PROVE QueueTypeOK
    OBVIOUS
  <2>1. StreamsTypeOK
    BY DEF QueueInv, WorldInv, StreamsTypeOK
  <2>2. \A s \in Streams : \A k \in DOMAIN commands[s] : commands[s][k] \in 0..Len(stream[s])
    BY DEF QueueInv, WorldInv
  <2>3. \A token \in tokens \cup UNION {m_uses[b] : b \in Buffers} :
            token.timeline \in Streams /\ token.id < Len(commands[token.timeline])
    BY DEF QueueInv, TokensInv, UsesInv, Given
  <2>4. \A command \in launched :
            command.queue \in Streams /\ command.work \in DOMAIN stream[command.queue]
    BY DEF QueueInv, CommandOK, WorldInv
  <2> QED
    BY <2>1, <2>2, <2>3, <2>4 DEF QueueInv, BoundsInv, ThreadsInv, QueueTypeOK
<1> QED
  BY <1>1, AlwaysQueueInv, PTL

\* For every number of threads, queues and submissions: no work starts before
\* what it depends on is over (cuda_command_queue::submit, wait_for, track).
THEOREM WorkAlwaysFollowsDependencies == QueueSpec => []WorkFollowsDependencies
<1>1. QueueInv => WorkFollowsDependencies
  <2> SUFFICES ASSUME QueueInv, NEW command \in launched,
                      done[command.queue] >= command.work - 1,
                      NEW token \in command.dependencies
               PROVE  Finished(token)
    BY DEF WorkFollowsDependencies
  <2>1. /\ command.queue \in Streams /\ command.work - 1 \in Nat
        /\ command.work - 1 <= Len(stream[command.queue])
        /\ Dependency(token) /\ Ordered(token, command.queue, command.work - 1)
    BY DEF QueueInv, CommandOK, WorldInv
  <2> QED
    BY <2>1, OrderedIsFinished DEF QueueInv
<1> QED
  BY <1>1, AlwaysQueueInv, PTL

\* For every number of threads, queues, buffers and submissions: the memory of
\* a command outlives it, whether submit returned, or threw and the
\* synchronization in its catch worked
\* (cuda_command_queue::submit, track; cuda_buffer::record_use).
THEOREM WorkAlwaysKeepsItsMemory == QueueSpec => []WorkKeepsItsMemory
<1>1. QueueInv => WorkKeepsItsMemory
  BY DEF QueueInv, MemoryOK, Kept, Covered, IsOf, Submitting, WorkKeepsItsMemory
<1> QED
  BY <1>1, AlwaysQueueInv, PTL
====
