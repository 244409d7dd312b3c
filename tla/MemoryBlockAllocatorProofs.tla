---- MODULE MemoryBlockAllocatorProofs ----
(***************************************************************************)
(* The allocator, whoever calls it and however the calls interleave: what  *)
(* it hands out has one owner, whose tokens cover every use, through every *)
(* failure the code handles.  Rests on the proofs about the pool and about *)
(* sizes.                                                                  *)
(***************************************************************************)
EXTENDS MemoryBlockAllocator, LentMemoryProofs, HeapSizingProofs, FiniteSetTheorems

\* No request is within an alignment of the largest std::size_t, where
\* rounding up wraps (LargestRequestIsLost).
RequestsFit == RequestSizes \subseteq 0..SizeRange - MaxAlignment

----------------------------------------------------------------------------
(* The inductive invariant: threads, and who has the lock.                 *)

TrimSteps == {"wait_all", "wait_pending", "reset_pending", "give_back", "giving_back"}

LockedSteps ==
    {"process", "search", "search_again", "grow", "cut", "acquire", "recycle"} \cup TrimSteps

\* Where a thread is that has the pool to itself, with the lock or as the
\* destructor.
PoolSteps == LockedSteps \cup {"destroy_pool"}

Steps ==
    {"idle", "lock_allocate", "settle", "set_pending", "make_buffer", "record_use",
     "lock_recycle", "lock_trim"} \cup PoolSteps

Purposes == {"none", "allocate", "trim", "destructor"}

Frames ==
    [asked : Nat, size : Nat, timeline : Timelines \cup {NoTimeline}, heap_size : Nat,
     block : Addresses \cup {NoBlock}, tokens : SUBSET (Tokens \cup {NoToken}),
     trim_for : Purposes]

Entries == [block : Addresses, tokens : SUBSET Tokens]

ThreadTypes ==
    /\ pc \in [Threads -> Steps]
    /\ frame \in [Threads -> Frames]
    /\ m_mutex \in Threads \cup {NoThread}
    /\ alive \in BOOLEAN

ListTypes ==
    /\ m_pending \in Seq(Entries)
    /\ item \in Nat
    /\ item <= Len(m_pending) + 1
    /\ buffers \subseteq Entries
    /\ lost \subseteq Entries

\* What a thread may be trimming for at each step.
PurposesAt(step) ==
    IF step \in TrimSteps THEN {"allocate", "trim", "destructor"}
    ELSE IF step = "destroy_pool" THEN {"destructor"}
    ELSE IF step = "lock_trim" THEN {"trim"}
    ELSE IF step = "search_again" THEN {"allocate"}
    ELSE IF step \in {"grow", "cut", "acquire"} THEN {"none", "allocate"}
    ELSE {"none"}

Destroys(th) == frame[th].trim_for = "destructor"

\* A thread in the pool has the lock, or is the destructor; nothing is left of
\* the allocator but the destructor once that has started.
LockInv ==
    /\ \A th \in Threads :
          /\ frame[th].trim_for \in PurposesAt(pc[th])
          /\ pc[th] = "idle" => frame[th] = EmptyFrame
          /\ pc[th] \in LockedSteps => m_mutex = th \/ Destroys(th)
          /\ m_mutex = th => pc[th] \in LockedSteps /\ ~Destroys(th)
          /\ Destroys(th) => ~alive /\ \A other \in Threads \ {th} : pc[other] = "idle"
    /\ ~alive => /\ buffers = {}
                 /\ \A th \in Threads : pc[th] = "idle" \/ Destroys(th)

\* The pool and the list of what is held back are in the loop of whoever is.
LoopInv ==
    /\ call = "reset_pending" <=> \E th \in Threads : pc[th] = "reset_pending"
    /\ call = "release_unused_heaps" <=> \E th \in Threads : pc[th] = "giving_back"
    /\ item # 0 <=> \E th \in Threads : pc[th] = "process"

ControlInv == ThreadTypes /\ LockInv /\ LoopInv

----------------------------------------------------------------------------
(* What a thread's move does to them.                                      *)

\* A thread is at `to` with `locals`, and the others are where they were.
Moves(th, to, locals) ==
    /\ pc' = [pc EXCEPT ![th] = to]
    /\ frame' = [frame EXCEPT ![th] = locals]

\* Two threads are never in the pool at once (m_mutex, ~memory_block_allocator).
LEMMA OneInThePool ==
    ASSUME ThreadTypes, LockInv, NEW th \in Threads, NEW other \in Threads,
           pc[th] \in PoolSteps, pc[other] \in PoolSteps
    PROVE  th = other
<1>1. /\ pc[th] \in LockedSteps => m_mutex = th \/ Destroys(th)
      /\ pc[other] \in LockedSteps => m_mutex = other \/ Destroys(other)
      /\ frame[th].trim_for \in PurposesAt(pc[th])
      /\ frame[other].trim_for \in PurposesAt(pc[other])
      /\ Destroys(th) => other = th \/ pc[other] = "idle"
      /\ Destroys(other) => other = th \/ pc[th] = "idle"
  BY DEF LockInv
<1>2. /\ pc[th] = "destroy_pool" => Destroys(th)
      /\ pc[other] = "destroy_pool" => Destroys(other)
  BY <1>1 DEF PurposesAt, TrimSteps, Destroys
<1>3. pc[th] # "idle" /\ pc[other] # "idle"
  BY DEF PoolSteps, LockedSteps, TrimSteps
<1> QED BY <1>1, <1>2, <1>3 DEF PoolSteps

LEMMA AfterMove ==
    ASSUME ThreadTypes, NEW th \in Threads, NEW to \in Steps, NEW locals \in Frames,
           Moves(th, to, locals)
    PROVE  /\ pc' \in [Threads -> Steps] /\ frame' \in [Threads -> Frames]
           /\ pc'[th] = to /\ frame'[th] = locals
           /\ \A other \in Threads : other # th => pc'[other] = pc[other]
                                                   /\ frame'[other] = frame[other]
BY DEF ThreadTypes, Moves

\* A thread that is not the destructor takes the lock to enter the pool, and
\* gives it back to leave.
LEMMA LiveMove ==
    ASSUME ThreadTypes, LockInv, NEW th \in Threads, NEW to \in Steps, NEW locals \in Frames,
           Moves(th, to, locals), alive, alive' = alive,
           locals.trim_for \in PurposesAt(to), locals.trim_for # "destructor",
           to = "idle" => locals = EmptyFrame,
           m_mutex' = IF to \in LockedSteps THEN th
                      ELSE IF pc[th] \in LockedSteps THEN NoThread ELSE m_mutex,
           to \in LockedSteps => pc[th] \in LockedSteps \/ m_mutex = NoThread
    PROVE  ThreadTypes' /\ LockInv'
<1>1. /\ pc' \in [Threads -> Steps] /\ frame' \in [Threads -> Frames]
      /\ pc'[th] = to /\ frame'[th] = locals
      /\ \A other \in Threads : other # th => pc'[other] = pc[other]
                                              /\ frame'[other] = frame[other]
  BY AfterMove
<1>2. ThreadTypes'
  BY <1>1 DEF ThreadTypes
<1>3. \A other \in Threads : ~Destroys(other)
  BY DEF LockInv
<1>4. \A other \in Threads : ~Destroys(other)'
  BY <1>1, <1>3 DEF Destroys
<1>5. pc[th] \in LockedSteps => m_mutex = th
  BY <1>3 DEF LockInv
<1>6. NoThread # th
  BY ThreadsAssumption
<1>7. ASSUME NEW other \in Threads
      PROVE  /\ frame'[other].trim_for \in PurposesAt(pc'[other])
             /\ pc'[other] = "idle" => frame'[other] = EmptyFrame
             /\ pc'[other] \in LockedSteps => m_mutex' = other
             /\ m_mutex' = other => pc'[other] \in LockedSteps
  <2>1. /\ frame[other].trim_for \in PurposesAt(pc[other])
        /\ pc[other] = "idle" => frame[other] = EmptyFrame
        /\ pc[other] \in LockedSteps => m_mutex = other
        /\ m_mutex = other => pc[other] \in LockedSteps
    BY <1>3 DEF LockInv
  <2>2. CASE other = th
    BY <1>1, <1>5, <1>6, <2>1, <2>2
  <2>3. CASE other # th
    <3>1. pc[th] \in LockedSteps => pc[other] \notin LockedSteps
      BY <1>5, <2>1, <2>3
    <3>2. NoThread # other
      BY ThreadsAssumption
    <3> QED BY <1>1, <1>5, <2>1, <2>3, <3>1, <3>2
  <2> QED BY <2>2, <2>3
<1>8. EmptyFrame' = EmptyFrame
  BY DEF EmptyFrame
<1>9. LockInv'
  BY <1>4, <1>7, <1>8 DEF LockInv
<1> QED BY <1>2, <1>9

\* The destructor stays in the pool, or is done with it.
LEMMA DestructorMove ==
    ASSUME ThreadTypes, LockInv, NEW th \in Threads, NEW to \in Steps, NEW locals \in Frames,
           Moves(th, to, locals), Destroys(th),
           \/ to \in TrimSteps \cup {"destroy_pool"} /\ locals.trim_for = "destructor"
           \/ to = "idle" /\ locals = EmptyFrame,
           UNCHANGED <<m_mutex, buffers, alive>>
    PROVE  ThreadTypes' /\ LockInv'
<1>1. /\ pc' \in [Threads -> Steps] /\ frame' \in [Threads -> Frames]
      /\ pc'[th] = to /\ frame'[th] = locals
      /\ \A other \in Threads : other # th => pc'[other] = pc[other]
                                              /\ frame'[other] = frame[other]
  BY AfterMove
<1>2. ThreadTypes'
  BY <1>1 DEF ThreadTypes
<1>3. /\ ~alive /\ buffers = {} /\ m_mutex # th
      /\ \A other \in Threads \ {th} : pc[other] = "idle" /\ frame[other] = EmptyFrame
                                       /\ m_mutex # other
  <2>1. "idle" \notin LockedSteps
    BY DEF LockedSteps, TrimSteps
  <2> QED BY <2>1 DEF LockInv
<1>4. EmptyFrame' = EmptyFrame /\ EmptyFrame.trim_for = "none"
      /\ "none" \in PurposesAt("idle") /\ "idle" \notin LockedSteps
  BY DEF EmptyFrame, PurposesAt, LockedSteps, TrimSteps
<1>5. to # "idle" => "destructor" \in PurposesAt(to)
  BY DEF PurposesAt, TrimSteps
<1>6. ASSUME NEW other \in Threads \ {th}
      PROVE  /\ pc'[other] = "idle" /\ frame'[other] = EmptyFrame /\ ~Destroys(other)'
             /\ m_mutex' # other
  BY <1>1, <1>3, <1>4 DEF Destroys
<1>7. /\ frame'[th].trim_for \in PurposesAt(pc'[th])
      /\ pc'[th] = "idle" => frame'[th] = EmptyFrame
      /\ pc'[th] = "idle" \/ Destroys(th)'
      /\ m_mutex' # th
  <2>1. CASE to = "idle"
    BY <1>1, <1>3, <1>4, <1>5, <2>1 DEF Destroys, TrimSteps
  <2>2. CASE to # "idle"
    BY <1>1, <1>3, <1>4, <1>5, <2>2 DEF Destroys
  <2> QED BY <2>1, <2>2
<1>8. LockInv'
  BY <1>3, <1>4, <1>6, <1>7 DEF LockInv
<1> QED BY <1>2, <1>8

----------------------------------------------------------------------------
(* Claims: whoever will give a block back, and the tokens it will give     *)
(* back with it.                                                           *)

HandSteps == {"settle", "set_pending", "make_buffer", "lock_recycle", "recycle"}
FreshSteps == {"settle", "set_pending", "make_buffer"}

\* A buffer, an entry of the list of what is held back, or of the log.
EntryClaim(kind, entry) ==
    [kind |-> kind, key |-> NoThread, block |-> entry.block, tokens |-> entry.tokens]

\* A thread with a block in its hands: a fresh one has the token of the block.
HandClaim(th, step, locals) ==
    [kind |-> IF step \in FreshSteps THEN "fresh" ELSE "recycled", key |-> th,
     block |-> locals.block, tokens |-> IF step \in FreshSteps THEN {} ELSE locals.tokens]

EntryClaims(kind, entries) == {EntryClaim(kind, entry) : entry \in entries}

EntriesOf(list) == {list[k] : k \in 1..Len(list)}

HandClaims(steps, locals) ==
    {HandClaim(th, steps[th], locals[th]) : th \in {t \in Threads : steps[t] \in HandSteps}}

ClaimsOf(bufs, list, losses, steps, locals) ==
    EntryClaims("buffer", bufs) \cup EntryClaims("held", EntriesOf(list))
    \cup EntryClaims("lost", losses) \cup HandClaims(steps, locals)

Claims == ClaimsOf(buffers, m_pending, lost, pc, frame)

\* The tokens of commands that were submitted, but are not recorded yet.
NotesOf(steps, locals) ==
    {[key |-> th, block |-> locals[th].block, tokens |-> locals[th].tokens] :
        th \in {t \in Threads : steps[t] = "record_use"}}

Notes == NotesOf(pc, frame)

CoversUses(tokens, span, uses) ==
    \A use \in uses : Overlaps(use, span) => \E token \in tokens : Covers(token, use)

NotedFor(block, notes) == UNION {n.tokens : n \in {m \in notes : m.block = block}}

TokensFor(claim, loan, notes) ==
    (IF claim.kind = "fresh" THEN {loan.pending} ELSE claim.tokens)
    \cup NotedFor(claim.block, notes)

Given(token, given) == ~IsEmpty(token) => token.id < given[token.timeline]

ClaimOK(claim, given) ==
    /\ IsFiniteSet(claim.tokens)
    /\ claim.tokens \subseteq PendingTokens
    /\ claim.tokens \subseteq Tokens \/ \E token \in claim.tokens : claim.tokens = {token}
    /\ \A token \in claim.tokens : Given(token, given)

NoteOK(note, claims, given) ==
    /\ \E claim \in claims : claim.kind = "buffer" /\ claim.block = note.block
    /\ \E token \in note.tokens :
          note.tokens = {token} /\ token \in Tokens /\ Given(token, given)

\* Every loan has one claim to it, whose tokens cover the uses of its memory.
Owned(claims, notes, lent, given, uses) ==
    /\ \A claim \in claims : \E loan \in lent : AddressOf(loan) = claim.block
    /\ \A loan \in lent : \E claim \in claims : claim.block = AddressOf(loan)
    /\ \A claim, other \in claims : claim.block = other.block => claim = other
    /\ \A claim \in claims : ClaimOK(claim, given)
    /\ \A note \in notes : NoteOK(note, claims, given)
    /\ \A claim \in claims, loan \in lent :
          claim.block = AddressOf(loan)
          => CoversUses(TokensFor(claim, loan, notes), SpanOf(loan), uses)

\* A claim passes to another owner, or changes its tokens, maybe with a note.
LEMMA OwnedAfterTransfer ==
    ASSUME NEW claims, NEW notes, NEW lent, NEW given, NEW uses,
           Owned(claims, notes, lent, given, uses),
           NEW c \in claims, NEW d, d.block = c.block, ClaimOK(d, given),
           NEW later \in SUBSET notes,
           \A n \in notes \ later : n.block = c.block,
           \A n \in later : n.block = c.block => d.kind = "buffer",
           \A loan \in lent : AddressOf(loan) = c.block
               => CoversUses(TokensFor(d, loan, later), SpanOf(loan), uses)
    PROVE  Owned((claims \ {c}) \cup {d}, later, lent, given, uses)
<1> DEFINE new == (claims \ {c}) \cup {d}
<1>1. \A claim \in new : \E loan \in lent : AddressOf(loan) = claim.block
  BY DEF Owned
<1>2. \A loan \in lent : \E claim \in new : claim.block = AddressOf(loan)
  BY DEF Owned
<1>3. \A claim, other \in new : claim.block = other.block => claim = other
  BY DEF Owned
<1>4. \A claim \in new : ClaimOK(claim, given)
  BY DEF Owned
<1>5. ASSUME NEW note \in later
      PROVE  NoteOK(note, new, given)
  <2>1. NoteOK(note, claims, given)
    BY DEF Owned
  <2>2. PICK claim \in claims : claim.kind = "buffer" /\ claim.block = note.block
    BY <2>1 DEF NoteOK
  <2>3. \E other \in new : other.kind = "buffer" /\ other.block = note.block
    <3>1. CASE claim = c
      BY <2>2, <3>1
    <3>2. CASE claim # c
      BY <2>2, <3>2
    <3> QED BY <3>1, <3>2
  <2> QED BY <2>1, <2>3 DEF NoteOK
<1>6. ASSUME NEW claim \in new, NEW loan \in lent, claim.block = AddressOf(loan)
      PROVE  CoversUses(TokensFor(claim, loan, later), SpanOf(loan), uses)
  <2>1. CASE claim = d
    BY <1>6, <2>1
  <2>2. CASE claim # d
    <3>1. claim \in claims /\ claim.block # c.block
      BY <2>2 DEF Owned
    <3>2. NotedFor(claim.block, later) = NotedFor(claim.block, notes)
      BY <3>1 DEF NotedFor
    <3>3. CoversUses(TokensFor(claim, loan, notes), SpanOf(loan), uses)
      BY <1>6, <3>1 DEF Owned
    <3> QED BY <3>2, <3>3 DEF TokensFor
  <2> QED BY <2>1, <2>2
<1> HIDE DEF new
<1>7. Owned(new, later, lent, given, uses)
  BY <1>1, <1>2, <1>3, <1>4, <1>5, <1>6 DEF Owned
<1> QED BY <1>7 DEF new

\* A block goes back to the pool.
LEMMA OwnedAfterReturn ==
    ASSUME NEW claims, NEW notes, NEW lent, NEW given, NEW uses,
           Owned(claims, notes, lent, given, uses),
           NEW c \in claims, NEW loan \in lent, c.block = AddressOf(loan),
           c.kind # "buffer",
           \A other \in lent : AddressOf(other) = AddressOf(loan) => other = loan
    PROVE  Owned(claims \ {c}, notes, lent \ {loan}, given, uses)
<1>1. ASSUME NEW note \in notes
      PROVE  NoteOK(note, claims \ {c}, given)
  BY DEF Owned, NoteOK
<1> QED BY <1>1 DEF Owned

\* A free block is handed out.
LEMMA OwnedAfterLend ==
    ASSUME NEW claims, NEW notes, NEW lent, NEW given, NEW uses,
           Owned(claims, notes, lent, given, uses),
           NEW d, NEW loan, d.block = AddressOf(loan), d.kind = "fresh", ClaimOK(d, given),
           \A other \in lent : AddressOf(other) # AddressOf(loan),
           CoversUses({loan.pending}, SpanOf(loan), uses)
    PROVE  Owned(claims \cup {d}, notes, lent \cup {loan}, given, uses)
<1>1. \A claim \in claims : claim.block # AddressOf(loan)
  BY DEF Owned
<1>2. ASSUME NEW note \in notes
      PROVE  NoteOK(note, claims \cup {d}, given)
  BY DEF Owned, NoteOK
<1>3. CoversUses(TokensFor(d, loan, notes), SpanOf(loan), uses)
  BY DEF CoversUses, TokensFor
<1>4. \A claim, other \in claims \cup {d} : claim.block = other.block => claim = other
  BY <1>1 DEF Owned
<1>5. \A claim \in claims \cup {d}, other \in lent \cup {loan} :
          claim.block = AddressOf(other)
          => CoversUses(TokensFor(claim, other, notes), SpanOf(other), uses)
  BY <1>1, <1>3 DEF Owned
<1>6. \A claim \in claims \cup {d} : \E other \in lent \cup {loan} : AddressOf(other) = claim.block
  BY DEF Owned
<1>7. \A other \in lent \cup {loan} : \E claim \in claims \cup {d} : claim.block = AddressOf(other)
  BY DEF Owned
<1>8. \A claim \in claims \cup {d} : ClaimOK(claim, given)
  BY DEF Owned
<1> QED BY <1>2, <1>4, <1>5, <1>6, <1>7, <1>8 DEF Owned

\* A loan changes its token, and nothing runs in its memory.
LEMMA OwnedAfterForget ==
    ASSUME NEW claims, NEW notes, NEW lent, NEW given, NEW uses,
           Owned(claims, notes, lent, given, uses),
           NEW loan \in lent, NEW fresh, AddressOf(fresh) = AddressOf(loan),
           SpanOf(fresh) = SpanOf(loan),
           \A use \in uses : ~Overlaps(use, SpanOf(loan))
    PROVE  Owned(claims, notes, (lent \ {loan}) \cup {fresh}, given, uses)
BY DEF Owned, CoversUses

\* A command finishes.
LEMMA OwnedAfterFinish ==
    ASSUME NEW claims, NEW notes, NEW lent, NEW given, NEW uses,
           Owned(claims, notes, lent, given, uses), NEW later \in SUBSET uses
    PROVE  Owned(claims, notes, lent, given, later)
BY DEF Owned, CoversUses

\* A command is submitted, which uses the memory of a buffer.
LEMMA OwnedAfterSubmit ==
    ASSUME NEW claims, NEW notes, NEW lent, NEW given, NEW uses,
           Owned(claims, notes, lent, given, uses),
           NEW later, \A t \in PendingTokens : Given(t, given) => Given(t, later),
           NEW note, NoteOK(note, claims, later),
           NEW use, \E t \in note.tokens : Covers(t, use),
           \A loan \in lent : Overlaps(use, SpanOf(loan)) => AddressOf(loan) = note.block
    PROVE  Owned(claims, notes \cup {note}, lent, later, uses \cup {use})
<1>1. \A claim \in claims : ClaimOK(claim, later)
  BY DEF Owned, ClaimOK
<1>2. ASSUME NEW n \in notes
      PROVE  NoteOK(n, claims, later)
  <2>1. Tokens \subseteq PendingTokens
    BY DEF PendingTokens
  <2> QED BY <2>1 DEF Owned, NoteOK
<1>3. ASSUME NEW claim \in claims, NEW other \in lent, claim.block = AddressOf(other)
      PROVE  CoversUses(TokensFor(claim, other, notes \cup {note}), SpanOf(other), uses \cup {use})
  <2>1. CoversUses(TokensFor(claim, other, notes), SpanOf(other), uses)
    BY <1>3 DEF Owned
  <2>2. TokensFor(claim, other, notes) \subseteq TokensFor(claim, other, notes \cup {note})
    BY DEF TokensFor, NotedFor
  <2>3. ASSUME Overlaps(use, SpanOf(other))
        PROVE  \E t \in TokensFor(claim, other, notes \cup {note}) : Covers(t, use)
    <3>1. claim.block = note.block
      BY <1>3, <2>3
    <3>2. note.tokens \subseteq TokensFor(claim, other, notes \cup {note})
      BY <3>1 DEF TokensFor, NotedFor
    <3> QED BY <3>2
  <2> QED BY <2>1, <2>2, <2>3 DEF CoversUses
<1> QED BY <1>1, <1>2, <1>3 DEF Owned

----------------------------------------------------------------------------
(* The inductive invariant: what is owned, and what a thread knows of the  *)
(* pool between two of its steps.                                          *)

\* No block is held back twice.
HeldOnce(list) == \A j, k \in 1..Len(list) : list[j].block = list[k].block => j = k

OwnersInv ==
    /\ Owned(Claims, Notes, LentBlocks, issued, running)
    /\ HeldOnce(m_pending)

\* The size a thread looks for is that of a request it was asked for.
RequestSteps ==
    {"lock_allocate", "process", "search", "search_again", "grow", "cut", "acquire"}

AskedBy(step, locals) ==
    /\ step \in RequestSteps \/ locals.trim_for = "allocate" =>
          locals.asked \in RequestSizes /\ locals.size = RequestSize(locals.asked)
    /\ step = "grow" => locals.heap_size >= locals.size

FreeIn(s) == {s[i] : i \in {j \in 1..Len(s) : s[j].free}}

\* The block that was found is free until it is acquired, and when heaps are
\* about to go no free block has a token left.
TakenBy(step, locals, free) ==
    /\ step \in {"cut", "acquire"} =>
          \E b \in free : AddressOf(b) = locals.block /\ b.size >= locals.size
    /\ step = "give_back" => \A b \in free : b.pending = NoToken

\* A token that was found complete is still the block's when it is forgotten.
SeenBy(step, locals, lent, done) ==
    step = "set_pending" =>
        \A loan \in lent : AddressOf(loan) = locals.block => Given(loan.pending, done)

ThreadsKnow ==
    \A th \in Threads :
        /\ AskedBy(pc[th], frame[th])
        /\ TakenBy(pc[th], frame[th], FreeIn(m_blocks))
        /\ SeenBy(pc[th], frame[th], LentBlocks, finished)

\* No more commands are given than the tokens can name.
CommandsBounded == \A timeline \in Timelines : issued[timeline] <= MaxCommands

StandingInv == IInv /\ OwnersInv /\ ThreadsKnow

\* The allocator is there until its destructor has returned.
Standing == alive \/ \E th \in Threads : pc[th] # "idle"

EndInv == PoolTypeOK /\ m_blocks = <<>> /\ m_pending = <<>> /\ buffers = {} /\ lost = {}

AllocatorInv ==
    /\ ControlInv
    /\ ListTypes
    /\ CommandsBounded
    /\ IF Standing THEN StandingInv ELSE EndInv

----------------------------------------------------------------------------
(* What a thread's move does to the claims and to the loops.               *)

LEMMA StepsApart ==
    /\ HandSteps \cap PoolSteps = {"recycle"}
    /\ "record_use" \notin HandSteps \cup PoolSteps
    /\ "idle" \notin HandSteps \cup PoolSteps
    /\ FreshSteps \subseteq HandSteps
    /\ HandSteps \cup PoolSteps \subseteq Steps
    /\ TrimSteps \subseteq PoolSteps /\ LockedSteps \subseteq PoolSteps
BY DEF HandSteps, PoolSteps, FreshSteps, LockedSteps, TrimSteps, Steps

LEMMA ClaimParts ==
    ASSUME NEW kind, NEW entry, NEW th, NEW step, NEW locals
    PROVE  /\ EntryClaim(kind, entry).kind = kind
           /\ EntryClaim(kind, entry).key = NoThread
           /\ EntryClaim(kind, entry).block = entry.block
           /\ EntryClaim(kind, entry).tokens = entry.tokens
           /\ HandClaim(th, step, locals).kind =
                 (IF step \in FreshSteps THEN "fresh" ELSE "recycled")
           /\ HandClaim(th, step, locals).key = th
           /\ HandClaim(th, step, locals).block = locals.block
           /\ step \notin FreshSteps => HandClaim(th, step, locals).tokens = locals.tokens
           /\ step \in FreshSteps => HandClaim(th, step, locals).tokens = {}
BY DEF EntryClaim, HandClaim

LEMMA EntryClaimsApart ==
    ASSUME NEW kind, NEW entry \in Entries, NEW other \in Entries,
           EntryClaim(kind, entry) = EntryClaim(kind, other)
    PROVE  entry = other
<1>1. entry.block = other.block /\ entry.tokens = other.tokens
  BY ClaimParts
<1> QED BY <1>1 DEF Entries

LEMMA EntryClaimsChange ==
    ASSUME NEW kind, NEW entries \in SUBSET Entries, NEW entry \in Entries
    PROVE  /\ EntryClaims(kind, entries \cup {entry})
                  = EntryClaims(kind, entries) \cup {EntryClaim(kind, entry)}
           /\ EntryClaims(kind, entries \ {entry})
                  = EntryClaims(kind, entries) \ {EntryClaim(kind, entry)}
<1>1. \A other \in entries : EntryClaim(kind, entry) = EntryClaim(kind, other) => entry = other
  BY EntryClaimsApart
<1> QED BY <1>1 DEF EntryClaims

\* A claim says what it is of.
LEMMA KindsApart ==
    ASSUME NEW c
    PROVE  /\ \A kind, entries : c \in EntryClaims(kind, entries) => c.kind = kind
           /\ \A steps, locals : c \in HandClaims(steps, locals) =>
                 c.kind \in {"fresh", "recycled"} /\ c.key \in Threads
BY ClaimParts DEF EntryClaims, HandClaims

\* The claim of the thread that moves, if it has one there.
Mine(th, step, locals) == IF step \in HandSteps THEN {HandClaim(th, step, locals)} ELSE {}

MyNote(th, step, locals) ==
    IF step = "record_use"
    THEN {[key |-> th, block |-> locals.block, tokens |-> locals.tokens]} ELSE {}

LEMMA HandsAfterMove ==
    ASSUME ThreadTypes, NEW th \in Threads, NEW to \in Steps, NEW locals \in Frames,
           Moves(th, to, locals)
    PROVE  /\ HandClaims(pc', frame')
                  = (HandClaims(pc, frame) \ Mine(th, pc[th], frame[th])) \cup Mine(th, to, locals)
           /\ Notes' = (Notes \ MyNote(th, pc[th], frame[th])) \cup MyNote(th, to, locals)
<1>1. /\ pc'[th] = to /\ frame'[th] = locals
      /\ \A other \in Threads : other # th => pc'[other] = pc[other]
                                              /\ frame'[other] = frame[other]
  BY AfterMove
<1>2. \A other, step, mine, your, yours :
          HandClaim(other, step, mine) = HandClaim(th, your, yours) => other = th
  BY ClaimParts
<1>3. HandClaims(pc', frame')
          = (HandClaims(pc, frame) \ Mine(th, pc[th], frame[th])) \cup Mine(th, to, locals)
  <2>1. ASSUME NEW c \in HandClaims(pc', frame')
        PROVE  c \in (HandClaims(pc, frame) \ Mine(th, pc[th], frame[th])) \cup Mine(th, to, locals)
    <3>1. PICK other \in Threads : pc'[other] \in HandSteps
                                   /\ c = HandClaim(other, pc'[other], frame'[other])
      BY DEF HandClaims
    <3>2. CASE other = th
      BY <1>1, <3>1, <3>2 DEF Mine
    <3>3. CASE other # th
      <4>1. pc[other] \in HandSteps /\ c = HandClaim(other, pc[other], frame[other])
        BY <1>1, <3>1, <3>3
      <4>2. c \notin Mine(th, pc[th], frame[th])
        BY <1>2, <3>3, <4>1 DEF Mine
      <4> QED BY <4>1, <4>2 DEF HandClaims
    <3> QED BY <3>2, <3>3
  <2>2. ASSUME NEW c \in Mine(th, to, locals)
        PROVE  c \in HandClaims(pc', frame')
    BY <1>1 DEF Mine, HandClaims
  <2>3. ASSUME NEW c \in HandClaims(pc, frame), c \notin Mine(th, pc[th], frame[th])
        PROVE  c \in HandClaims(pc', frame')
    <3>1. PICK other \in Threads : pc[other] \in HandSteps
                                   /\ c = HandClaim(other, pc[other], frame[other])
      BY DEF HandClaims
    <3>2. other # th
      BY <2>3, <3>1 DEF Mine
    <3> QED BY <1>1, <3>1, <3>2 DEF HandClaims
  <2> QED BY <2>1, <2>2, <2>3
<1>4. Notes' = (Notes \ MyNote(th, pc[th], frame[th])) \cup MyNote(th, to, locals)
  <2> DEFINE N(t) == [key |-> t, block |-> frame[t].block, tokens |-> frame[t].tokens]
             N1(t) == [key |-> t, block |-> frame'[t].block, tokens |-> frame'[t].tokens]
  <2>1. /\ Notes = {N(t) : t \in {u \in Threads : pc[u] = "record_use"}}
        /\ Notes' = {N1(t) : t \in {u \in Threads : pc'[u] = "record_use"}}
    BY DEF Notes, NotesOf
  <2>2. /\ MyNote(th, pc[th], frame[th]) = IF pc[th] = "record_use" THEN {N(th)} ELSE {}
        /\ MyNote(th, to, locals) = IF to = "record_use" THEN {N1(th)} ELSE {}
    BY <1>1 DEF MyNote
  <2>3. \A other \in Threads : other # th => N1(other) = N(other) /\ N(other) # N(th)
    BY <1>1
  <2> HIDE DEF N, N1
  <2> QED BY <1>1, <2>1, <2>2, <2>3
<1> QED BY <1>3, <1>4

\* The others, when a thread is alone in the pool.
Alone(th) == \A other \in Threads : other # th => pc[other] \notin PoolSteps

LEMMA InPoolIsAlone ==
    ASSUME ThreadTypes, LockInv, NEW th \in Threads, pc[th] \in PoolSteps
    PROVE  Alone(th)
BY OneInThePool DEF Alone

LEMMA UnlockedIsEmpty ==
    ASSUME ThreadTypes, LockInv, alive, m_mutex = NoThread
    PROVE  \A th \in Threads : pc[th] \notin PoolSteps
<1> SUFFICES ASSUME NEW th \in Threads, pc[th] \in PoolSteps PROVE FALSE
  OBVIOUS
<1>1. ~Destroys(th)
  BY DEF LockInv
<1>2. pc[th] # "destroy_pool"
  BY <1>1 DEF LockInv, PurposesAt, Destroys, TrimSteps
<1>3. pc[th] \in LockedSteps
  BY <1>2 DEF PoolSteps
<1>4. m_mutex = th
  BY <1>1, <1>3 DEF LockInv
<1> QED BY <1>4, ThreadsAssumption

\* Which loop runs is told by where the one thread in the pool is.
LEMMA LoopOfThread ==
    ASSUME ControlInv, NEW th \in Threads, pc[th] \in PoolSteps
    PROVE  /\ call = "reset_pending" <=> pc[th] = "reset_pending"
           /\ call = "release_unused_heaps" <=> pc[th] = "giving_back"
           /\ item # 0 <=> pc[th] = "process"
<1>1. \A other \in Threads : other # th => pc[other] \notin PoolSteps
  BY InPoolIsAlone DEF ControlInv, Alone
<1>2. {"reset_pending", "giving_back", "process"} \subseteq PoolSteps
  BY DEF PoolSteps, LockedSteps, TrimSteps
<1> QED BY <1>1, <1>2 DEF ControlInv, LoopInv

LEMMA LoopAfterMove ==
    ASSUME ThreadTypes, NEW th \in Threads, NEW to \in Steps, NEW locals \in Frames,
           Moves(th, to, locals), Alone(th),
           call' = "reset_pending" <=> to = "reset_pending",
           call' = "release_unused_heaps" <=> to = "giving_back",
           item' # 0 <=> to = "process"
    PROVE  LoopInv'
<1>1. /\ pc'[th] = to
      /\ \A other \in Threads : other # th => pc'[other] \notin PoolSteps
  BY AfterMove DEF Alone
<1>2. {"reset_pending", "giving_back", "process"} \subseteq PoolSteps
  BY DEF PoolSteps, LockedSteps, TrimSteps
<1> QED BY <1>1, <1>2 DEF LoopInv

LEMMA LoopOutside ==
    ASSUME ThreadTypes, LoopInv, NEW th \in Threads, NEW to \in Steps, NEW locals \in Frames,
           Moves(th, to, locals), pc[th] \notin PoolSteps, to \notin PoolSteps,
           UNCHANGED <<call, item>>
    PROVE  LoopInv'
<1>1. /\ pc'[th] = to
      /\ \A other \in Threads : other # th => pc'[other] = pc[other]
  BY AfterMove
<1>2. {"reset_pending", "giving_back", "process"} \subseteq PoolSteps
  BY DEF PoolSteps, LockedSteps, TrimSteps
<1>3. \A step \in {"reset_pending", "giving_back", "process"} :
          (\E t \in Threads : pc'[t] = step) <=> (\E t \in Threads : pc[t] = step)
  BY <1>1, <1>2
<1> QED BY <1>3 DEF LoopInv

----------------------------------------------------------------------------
(* Steps that leave every block with its owner.                            *)

LEMMA MineIsIn ==
    ASSUME NEW th \in Threads
    PROVE  /\ Mine(th, pc[th], frame[th]) \subseteq HandClaims(pc, frame)
           /\ MyNote(th, pc[th], frame[th]) \subseteq Notes
BY DEF Mine, MyNote, HandClaims, Notes, NotesOf

LEMMA QuietOwners ==
    ASSUME ThreadTypes, OwnersInv,
           NEW th \in Threads, NEW to \in Steps, NEW locals \in Frames, Moves(th, to, locals),
           UNCHANGED <<buffers, m_pending, lost, deviceVars>>, LentBlocks' = LentBlocks,
           Mine(th, to, locals) = Mine(th, pc[th], frame[th]),
           MyNote(th, to, locals) = MyNote(th, pc[th], frame[th])
    PROVE  OwnersInv'
<1>1. /\ HandClaims(pc', frame') = HandClaims(pc, frame)
      /\ Notes' = Notes
  <2>1. /\ HandClaims(pc', frame')
               = (HandClaims(pc, frame) \ Mine(th, pc[th], frame[th])) \cup Mine(th, to, locals)
        /\ Notes' = (Notes \ MyNote(th, pc[th], frame[th])) \cup MyNote(th, to, locals)
    BY HandsAfterMove, Zenon
  <2> QED BY <2>1, MineIsIn
<1>2. Claims' = ClaimsOf(buffers', m_pending', lost', pc', frame')
  BY DEF Claims, ClaimsOf, EntryClaims, EntryClaim, EntriesOf, HandClaims, HandClaim
<1>3. Claims' = Claims
  BY <1>1, <1>2 DEF Claims, ClaimsOf
<1>4. Owned(Claims', Notes', LentBlocks', issued', running')
  BY <1>1, <1>3 DEF OwnersInv, deviceVars
<1>5. HeldOnce(m_pending')
  BY DEF OwnersInv
<1>6. OwnersInv' <=> Owned(Claims', Notes', LentBlocks', issued', running') /\ HeldOnce(m_pending')
  BY DEF OwnersInv, Owned, HeldOnce, ClaimOK, NoteOK, CoversUses, TokensFor, NotedFor, Given,
         Overlaps, Covers, SpanOf, AddressOf, IsEmpty
<1> QED BY <1>4, <1>5, <1>6

LEMMA KnowAfterMove ==
    ASSUME ThreadTypes, ThreadsKnow,
           NEW th \in Threads, NEW to \in Steps, NEW locals \in Frames, Moves(th, to, locals),
           UNCHANGED finished,
           Alone(th) \/ FreeIn(m_blocks') = FreeIn(m_blocks),
           \A loan \in LentBlocks' :
               \/ loan \in LentBlocks
               \/ IsEmpty(loan.pending)
               \/ \A other \in Threads :
                     pc[other] = "set_pending" => AddressOf(loan) # frame[other].block,
           AskedBy(to, locals), TakenBy(to, locals, FreeIn(m_blocks')),
           SeenBy(to, locals, LentBlocks', finished)
    PROVE  ThreadsKnow'
<1>1. /\ pc'[th] = to /\ frame'[th] = locals
      /\ \A other \in Threads : other # th => pc'[other] = pc[other]
                                              /\ frame'[other] = frame[other]
  BY AfterMove
<1>2. ASSUME NEW other \in Threads
      PROVE  /\ AskedBy(pc'[other], frame'[other])
             /\ TakenBy(pc'[other], frame'[other], FreeIn(m_blocks'))
             /\ SeenBy(pc'[other], frame'[other], LentBlocks', finished')
  <2>1. CASE other = th
    BY <1>1, <2>1
  <2>2. CASE other # th
    <3>1. /\ AskedBy(pc[other], frame[other])
          /\ TakenBy(pc[other], frame[other], FreeIn(m_blocks))
          /\ SeenBy(pc[other], frame[other], LentBlocks, finished)
      BY DEF ThreadsKnow
    <3>2. TakenBy(pc[other], frame[other], FreeIn(m_blocks'))
      <4>1. {"cut", "acquire", "give_back"} \subseteq PoolSteps
        BY DEF PoolSteps, LockedSteps, TrimSteps
      <4>2. Alone(th) => pc[other] \notin PoolSteps
        BY <2>2 DEF Alone
      <4> QED BY <3>1, <4>1, <4>2 DEF TakenBy
    <3>3. SeenBy(pc[other], frame[other], LentBlocks', finished)
      BY <3>1 DEF SeenBy, Given
    <3> QED BY <1>1, <2>2, <3>1, <3>2, <3>3
  <2> QED BY <2>1, <2>2
<1>3. ThreadsKnow' <=> \A other \in Threads :
          /\ AskedBy(pc'[other], frame'[other])
          /\ TakenBy(pc'[other], frame'[other], FreeIn(m_blocks'))
          /\ SeenBy(pc'[other], frame'[other], LentBlocks', finished')
  BY DEF ThreadsKnow, AskedBy, TakenBy, SeenBy, FreeIn, AddressOf, Given, IsEmpty
<1> QED BY <1>2, <1>3

\* The parts of the invariant make the whole.
LEMMA StandsAgain ==
    ASSUME ThreadTypes', LockInv', LoopInv', ListTypes', CommandsBounded',
           IInv', OwnersInv', ThreadsKnow', Standing'
    PROVE  AllocatorInv'
BY DEF AllocatorInv, ControlInv, StandingInv

LEMMA PoolStutter ==
    ASSUME IInv, UNCHANGED <<poolVars, deviceVars>>
    PROVE  IInv' /\ LentBlocks' = LentBlocks /\ FreeIn(m_blocks') = FreeIn(m_blocks)
<1>1. IInv'
  BY StutterKeepsIInv DEF vars
<1>2. m_blocks' = m_blocks
  BY DEF poolVars
<1> QED BY <1>1, <1>2, LentOfPool

\* A thread moves, and the pool and the lists stay as they are.
LEMMA QuietMove ==
    ASSUME AllocatorInv, Standing,
           NEW th \in Threads, NEW to \in Steps, NEW locals \in Frames, Moves(th, to, locals),
           ThreadTypes', LockInv', LoopInv',
           UNCHANGED <<buffers, lost, m_pending, deviceVars>>,
           item' \in Nat, item' <= Len(m_pending) + 1,
           IInv', LentBlocks' = LentBlocks,
           Alone(th) \/ FreeIn(m_blocks') = FreeIn(m_blocks),
           AskedBy(to, locals), TakenBy(to, locals, FreeIn(m_blocks')),
           SeenBy(to, locals, LentBlocks, finished),
           Mine(th, to, locals) = Mine(th, pc[th], frame[th]),
           MyNote(th, to, locals) = MyNote(th, pc[th], frame[th]),
           alive' \/ to # "idle"
    PROVE  AllocatorInv'
<1>1. ThreadTypes /\ OwnersInv /\ ThreadsKnow /\ ListTypes /\ CommandsBounded
  BY DEF AllocatorInv, StandingInv, ControlInv
<1>2. OwnersInv'
  BY <1>1, QuietOwners
<1>3. ThreadsKnow'
  BY <1>1, KnowAfterMove DEF deviceVars
<1>4. ListTypes'
  BY <1>1 DEF ListTypes, Entries, Addresses, Tokens
<1>5. CommandsBounded'
  BY <1>1 DEF CommandsBounded, deviceVars
<1>6. Standing'
  BY AfterMove, <1>1 DEF Standing
<1> QED BY <1>2, <1>3, <1>4, <1>5, <1>6, StandsAgain

\* The same, outside of the pool.
LEMMA OutsideMove ==
    ASSUME AllocatorInv, Standing, alive,
           NEW th \in Threads, NEW to \in Steps, NEW locals \in Frames, Moves(th, to, locals),
           pc[th] \notin PoolSteps, to \notin PoolSteps,
           locals.trim_for \in PurposesAt(to), locals.trim_for # "destructor",
           to = "idle" => locals = EmptyFrame,
           UNCHANGED <<m_mutex, buffers, lost, alive, deferredVars, poolVars, deviceVars>>,
           AskedBy(to, locals), SeenBy(to, locals, LentBlocks, finished),
           Mine(th, to, locals) = Mine(th, pc[th], frame[th]),
           MyNote(th, to, locals) = MyNote(th, pc[th], frame[th])
    PROVE  AllocatorInv'
<1>1. ThreadTypes /\ LockInv /\ LoopInv /\ ListTypes /\ IInv
  BY DEF AllocatorInv, StandingInv, ControlInv
<1>2. LockedSteps \subseteq PoolSteps /\ {"cut", "acquire", "give_back"} \subseteq PoolSteps
  BY DEF PoolSteps, LockedSteps, TrimSteps
<1>3. ThreadTypes' /\ LockInv'
  BY <1>1, <1>2, LiveMove
<1>4. LoopInv'
  BY <1>1, LoopOutside DEF poolVars, deferredVars
<1>5. IInv' /\ LentBlocks' = LentBlocks /\ FreeIn(m_blocks') = FreeIn(m_blocks)
  BY <1>1, PoolStutter
<1>6. TakenBy(to, locals, FreeIn(m_blocks'))
  BY <1>2 DEF TakenBy
<1>7. /\ UNCHANGED <<m_pending, item>>
      /\ item' \in Nat /\ item' <= Len(m_pending) + 1
  BY <1>1 DEF deferredVars, ListTypes
<1> QED BY <1>3, <1>4, <1>5, <1>6, <1>7, QuietMove

\* A thread that is in a call that is not the destructor's has an allocator.
LEMMA BusyIsAlive ==
    ASSUME ControlInv, NEW th \in Threads, pc[th] # "idle",
           pc[th] \notin TrimSteps \cup {"destroy_pool"} \/ frame[th].trim_for # "destructor"
    PROVE  alive /\ ~Destroys(th) /\ Standing
<1>1. frame[th].trim_for \in PurposesAt(pc[th])
  BY DEF ControlInv, LockInv
<1>2. ~Destroys(th)
  BY <1>1 DEF PurposesAt, TrimSteps, Destroys
<1>3. alive
  BY <1>2 DEF ControlInv, LockInv, ThreadTypes
<1> QED BY <1>2, <1>3 DEF Standing

LEMMA BusyStands ==
    ASSUME AllocatorInv, NEW th \in Threads, pc[th] # "idle"
    PROVE  /\ Standing /\ StandingInv /\ ControlInv /\ ListTypes
           /\ ThreadTypes /\ LockInv /\ LoopInv /\ IInv /\ OwnersInv /\ ThreadsKnow
BY DEF Standing, AllocatorInv, StandingInv, ControlInv

----------------------------------------------------------------------------
(* Where the block with an address is.                                     *)

LEMMA AddressNames ==
    ASSUME IInv, NEW i \in Positions, NEW j \in Positions,
           AddressOf(m_blocks[i]) = AddressOf(m_blocks[j])
    PROVE  i = j
<1>1. m_blocks \in Seq(Blocks) /\ Tiles(m_blocks, m_heaps)
  BY DEF IInv, ListOK
<1>2. /\ m_blocks[i].heap = m_blocks[j].heap /\ m_blocks[i].offset = m_blocks[j].offset
      /\ i \in 1..Len(m_blocks) /\ j \in 1..Len(m_blocks)
  BY DEF AddressOf, Positions
<1>3. \A k \in 1..Len(m_blocks) : /\ m_blocks[k].offset \in Nat
                                  /\ m_blocks[k].size \in Nat \ {0}
                                  /\ End(m_blocks[k]) = m_blocks[k].offset + m_blocks[k].size
  BY <1>1, BlocksAreBlocks DEF Tiles, InHeaps, End
<1>4. i < j => End(m_blocks[i]) <= m_blocks[j].offset
  BY <1>1, <1>2 DEF Tiles, InAddressOrder
<1>5. j < i => End(m_blocks[j]) <= m_blocks[i].offset
  BY <1>1, <1>2 DEF Tiles, InAddressOrder
<1>6. m_blocks[i].offset + m_blocks[i].size > m_blocks[j].offset
  BY <1>2, <1>3
<1>7. m_blocks[j].offset + m_blocks[j].size > m_blocks[i].offset
  BY <1>2, <1>3
<1>8. ~(i < j) /\ ~(j < i)
  BY <1>2, <1>3, <1>4, <1>5, <1>6, <1>7
<1> QED BY <1>2, <1>8

LEMMA PositionIs ==
    ASSUME IInv, NEW i \in Positions
    PROVE  PositionOf(AddressOf(m_blocks[i])) = i
<1>1. \A j \in Positions : AddressOf(m_blocks[j]) = AddressOf(m_blocks[i]) => j = i
  BY AddressNames
<1> QED BY <1>1 DEF PositionOf

LEMMA LoanAddress ==
    ASSUME NEW block
    PROVE  AddressOf(LoanOf(block)) = AddressOf(block)
BY LoanParts DEF AddressOf

\* No two loans have one address.
LEMMA LoansNamed ==
    ASSUME IInv
    PROVE  \A loan, other \in LentBlocks : AddressOf(loan) = AddressOf(other) => loan = other
<1> SUFFICES ASSUME NEW loan \in LentBlocks, NEW other \in LentBlocks,
                    AddressOf(loan) = AddressOf(other)
             PROVE  loan = other
  OBVIOUS
<1>1. PICK i \in Positions : loan = LoanOf(m_blocks[i])
  BY DEF LentBlocks
<1>2. PICK j \in Positions : other = LoanOf(m_blocks[j])
  BY DEF LentBlocks
<1>3. i = j
  BY <1>1, <1>2, LoanAddress, AddressNames
<1> QED BY <1>1, <1>2, <1>3

\* The block that a claim is to.
LEMMA ClaimedPosition ==
    ASSUME IInv, OwnersInv, NEW c \in Claims, NEW i, i = PositionOf(c.block)
    PROVE  /\ i \in Positions /\ ~m_blocks[i].free
           /\ AddressOf(m_blocks[i]) = c.block
           /\ LoanOf(m_blocks[i]) \in LentBlocks
           /\ AddressOf(LoanOf(m_blocks[i])) = c.block
           /\ \A loan \in LentBlocks : AddressOf(loan) = c.block => loan = LoanOf(m_blocks[i])
<1>1. PICK loan \in LentBlocks : AddressOf(loan) = c.block
  BY DEF OwnersInv, Owned
<1>2. PICK j \in Positions : ~m_blocks[j].free /\ loan = LoanOf(m_blocks[j])
  BY DEF LentBlocks
<1>3. AddressOf(m_blocks[j]) = c.block
  BY <1>1, <1>2, LoanAddress
<1>4. i = j
  BY <1>3, PositionIs
<1> QED BY <1>1, <1>2, <1>3, <1>4, LoansNamed

LEMMA HandClaimIn ==
    ASSUME NEW th \in Threads, pc[th] \in HandSteps
    PROVE  HandClaim(th, pc[th], frame[th]) \in Claims
BY DEF Claims, ClaimsOf, HandClaims

\* The block a thread has in its hands.
LEMMA BlockInHand ==
    ASSUME IInv, OwnersInv, NEW th \in Threads, pc[th] \in HandSteps, NEW i, i = BlockOf(th)
    PROVE  /\ i \in Positions /\ ~m_blocks[i].free
           /\ AddressOf(m_blocks[i]) = frame[th].block
           /\ LoanOf(m_blocks[i]) \in LentBlocks
           /\ AddressOf(LoanOf(m_blocks[i])) = frame[th].block
           /\ \A loan \in LentBlocks : AddressOf(loan) = frame[th].block
                                       => loan = LoanOf(m_blocks[i])
<1>1. HandClaim(th, pc[th], frame[th]) \in Claims
  BY HandClaimIn
<1>2. HandClaim(th, pc[th], frame[th]).block = frame[th].block
  BY ClaimParts
<1> QED BY <1>1, <1>2, ClaimedPosition DEF BlockOf

----------------------------------------------------------------------------
(* allocate, up to the lock.                                               *)

LEMMA EmptyFrameParts ==
    /\ EmptyFrame \in Frames
    /\ EmptyFrame.asked = 0 /\ EmptyFrame.size = 0 /\ EmptyFrame.heap_size = 0
    /\ EmptyFrame.tokens = {} /\ EmptyFrame.trim_for = "none" /\ EmptyFrame.block = NoBlock
BY DEF EmptyFrame, Frames, Purposes

\* What an allocator asks its pool for.
LEMMA RequestFits ==
    ASSUME RequestsFit, NEW asked \in RequestSizes
    PROVE  /\ asked \in Nat
           /\ RequestSize(asked) \in Nat \ {0} /\ asked <= RequestSize(asked)
           /\ RequestSize(asked) % MaxAlignment = 0
<1>1. asked \in Nat /\ asked <= SizeRange - MaxAlignment
  BY AlignmentAssumption DEF RequestsFit
<1> QED BY <1>1, RequestIsHeld

LEMMA StartAllocateKeepsInv ==
    ASSUME RequestsFit, AllocatorInv, NEW th \in Threads, StartAllocate(th)
    PROVE  AllocatorInv'
<1>1. PICK asked \in RequestSizes, timeline \in Timelines \cup {NoTimeline} :
          Begin(th, "lock_allocate",
                [EmptyFrame EXCEPT !.asked = asked, !.size = RequestSize(asked),
                     !.timeline = timeline])
  BY DEF StartAllocate
<1> DEFINE locals == [EmptyFrame EXCEPT !.asked = asked, !.size = RequestSize(asked),
                          !.timeline = timeline]
<1>2. /\ locals \in Frames /\ locals.asked = asked /\ locals.size = RequestSize(asked)
      /\ locals.trim_for = "none"
  BY RequestFits DEF EmptyFrame, Frames, Purposes
<1>3. Moves(th, "lock_allocate", locals) /\ pc[th] = "idle" /\ alive
  BY <1>1 DEF StartAllocate, Begin, Goto, Moves
<1> HIDE DEF locals
<1>4. "lock_allocate" \in Steps /\ "lock_allocate" \notin PoolSteps \cup HandSteps
      /\ "idle" \notin PoolSteps \cup HandSteps
      /\ "none" \in PurposesAt("lock_allocate")
  BY DEF Steps, PoolSteps, LockedSteps, TrimSteps, HandSteps, PurposesAt
<1>5. AskedBy("lock_allocate", locals) /\ SeenBy("lock_allocate", locals, LentBlocks, finished)
  BY <1>2 DEF AskedBy, SeenBy
<1>6. /\ Mine(th, "lock_allocate", locals) = Mine(th, pc[th], frame[th])
      /\ MyNote(th, "lock_allocate", locals) = MyNote(th, pc[th], frame[th])
  BY <1>3, <1>4 DEF Mine, MyNote
<1>7. UNCHANGED <<m_mutex, buffers, lost, alive, deferredVars, poolVars, deviceVars>>
  BY DEF StartAllocate, ownersVars
<1>8. Standing
  BY <1>3 DEF Standing
<1> QED BY <1>2, <1>3, <1>4, <1>5, <1>6, <1>7, <1>8, OutsideMove

LEMMA StartTrimKeepsInv ==
    ASSUME AllocatorInv, NEW th \in Threads, StartTrim(th)
    PROVE  AllocatorInv'
<1> DEFINE locals == [EmptyFrame EXCEPT !.trim_for = "trim"]
<1>1. locals \in Frames /\ locals.trim_for = "trim"
  BY DEF EmptyFrame, Frames, Purposes
<1>2. Moves(th, "lock_trim", locals) /\ pc[th] = "idle" /\ alive
  BY DEF StartTrim, Begin, Goto, Moves
<1> HIDE DEF locals
<1>3. "lock_trim" \in Steps /\ "lock_trim" \notin PoolSteps \cup HandSteps \cup RequestSteps
      /\ "idle" \notin PoolSteps \cup HandSteps
      /\ "trim" \in PurposesAt("lock_trim")
  BY DEF Steps, PoolSteps, LockedSteps, TrimSteps, HandSteps, PurposesAt, RequestSteps
<1>4. AskedBy("lock_trim", locals) /\ SeenBy("lock_trim", locals, LentBlocks, finished)
  BY <1>1, <1>3 DEF AskedBy, SeenBy
<1>5. /\ Mine(th, "lock_trim", locals) = Mine(th, pc[th], frame[th])
      /\ MyNote(th, "lock_trim", locals) = MyNote(th, pc[th], frame[th])
  BY <1>2, <1>3 DEF Mine, MyNote
<1>6. UNCHANGED <<m_mutex, buffers, lost, alive, deferredVars, poolVars, deviceVars>>
  BY DEF StartTrim, ownersVars
<1>7. Standing
  BY <1>2 DEF Standing
<1> QED BY <1>1, <1>2, <1>3, <1>4, <1>5, <1>6, <1>7, OutsideMove

\* The settling thread asks the block's token, which is its own to forget.
LEMMA AskPendingKeepsInv ==
    ASSUME AllocatorInv, NEW th \in Threads, AskPending(th)
    PROVE  AllocatorInv'
<1> DEFINE i == BlockOf(th)
           to == IF IsComplete(m_blocks[i].pending) THEN "set_pending" ELSE "make_buffer"
<1>1. pc[th] = "settle" /\ pc' = [pc EXCEPT ![th] = to]
  BY DEF AskPending, Goto
<1>2. /\ {"settle", "set_pending", "make_buffer"} \subseteq Steps \cap HandSteps \cap FreshSteps
      /\ {"settle", "set_pending", "make_buffer"}
             \cap (PoolSteps \cup RequestSteps \cup TrimSteps \cup {"destroy_pool"}) = {}
      /\ to \in {"set_pending", "make_buffer"}
  BY DEF Steps, PoolSteps, LockedSteps, TrimSteps, HandSteps, FreshSteps, RequestSteps
<1>3. /\ Standing /\ ControlInv /\ ThreadTypes /\ LockInv /\ IInv /\ OwnersInv
  BY <1>1, BusyStands
<1>4. alive /\ ~Destroys(th)
  BY <1>1, <1>2, <1>3, BusyIsAlive
<1>5. frame[th] \in Frames /\ frame' = [frame EXCEPT ![th] = frame[th]]
  BY <1>3 DEF AskPending, ThreadTypes
<1>6. frame[th].trim_for = "none" /\ "none" \in PurposesAt(to)
  <2>1. frame[th].trim_for \in PurposesAt(pc[th])
    BY <1>3 DEF LockInv
  <2> QED BY <1>1, <1>2, <2>1 DEF PurposesAt, TrimSteps
<1>7. AskedBy(to, frame[th])
  BY <1>2, <1>6 DEF AskedBy
<1>8. SeenBy(to, frame[th], LentBlocks, finished)
  <2>1. ASSUME NEW loan \in LentBlocks, AddressOf(loan) = frame[th].block, to = "set_pending"
        PROVE  Given(loan.pending, finished)
    <3>1. loan = LoanOf(m_blocks[i])
      BY <1>1, <1>2, <1>3, <2>1, BlockInHand
    <3>2. IsComplete(m_blocks[i].pending)
      BY <2>1
    <3> QED BY <3>1, <3>2, LoanParts DEF Given, IsComplete
  <2> QED BY <2>1 DEF SeenBy
<1>9. /\ Mine(th, to, frame[th]) = Mine(th, pc[th], frame[th])
      /\ MyNote(th, to, frame[th]) = MyNote(th, pc[th], frame[th])
  <2>1. HandClaim(th, to, frame[th]) = HandClaim(th, pc[th], frame[th])
    BY <1>1, <1>2 DEF HandClaim
  <2>2. pc[th] \in HandSteps /\ to \in HandSteps /\ pc[th] # "record_use" /\ to # "record_use"
    BY <1>1, <1>2
  <2> QED BY <2>1, <2>2 DEF Mine, MyNote
<1>10. UNCHANGED <<m_mutex, buffers, lost, alive, deferredVars, poolVars, deviceVars>>
  BY DEF AskPending, ownersVars
<1> HIDE DEF to
<1>11. to \in Steps /\ to \notin PoolSteps /\ pc[th] \notin PoolSteps /\ to # "idle"
       /\ Moves(th, to, frame[th])
  BY <1>1, <1>2, <1>5 DEF Moves
<1>12. frame[th].trim_for # "destructor"
  BY <1>6
<1> QED BY <1>3, <1>4, <1>5, <1>6, <1>7, <1>8, <1>9, <1>10, <1>11, <1>12, OutsideMove, Zenon

----------------------------------------------------------------------------
(* Steps of a thread that is alone in the pool.                            *)

\* It moves, and every block stays with its owner.
LEMMA PoolMove ==
    ASSUME AllocatorInv, Standing,
           NEW th \in Threads, NEW to \in Steps, NEW locals \in Frames, Moves(th, to, locals),
           ThreadTypes', LockInv', Alone(th),
           call' = "reset_pending" <=> to = "reset_pending",
           call' = "release_unused_heaps" <=> to = "giving_back",
           item' # 0 <=> to = "process",
           UNCHANGED <<buffers, lost, m_pending, deviceVars>>,
           item' \in Nat, item' <= Len(m_pending) + 1,
           IInv', LentBlocks' = LentBlocks,
           AskedBy(to, locals), TakenBy(to, locals, FreeIn(m_blocks')),
           Mine(th, to, locals) = Mine(th, pc[th], frame[th]),
           to \notin {"record_use", "set_pending"}, pc[th] # "record_use",
           alive' \/ to # "idle"
    PROVE  AllocatorInv'
<1>1. ThreadTypes
  BY DEF AllocatorInv, ControlInv
<1>2. LoopInv'
  BY <1>1, LoopAfterMove
<1>3. /\ SeenBy(to, locals, LentBlocks, finished)
      /\ MyNote(th, to, locals) = MyNote(th, pc[th], frame[th])
  BY DEF SeenBy, MyNote
<1> QED BY <1>2, <1>3, QuietMove

\* A thread moves from one step of trim_locked to another, whether it is the
\* destructor or has the lock.
LEMMA TrimMove ==
    ASSUME ThreadTypes, LockInv, NEW th \in Threads, NEW to \in TrimSteps,
           pc[th] \in TrimSteps, Moves(th, to, frame[th]), UNCHANGED <<m_mutex, buffers, alive>>
    PROVE  ThreadTypes' /\ LockInv'
<1>1. /\ TrimSteps \subseteq LockedSteps /\ TrimSteps \subseteq Steps /\ "idle" \notin TrimSteps
  BY DEF TrimSteps, LockedSteps, Steps, PoolSteps
<1>2. frame[th] \in Frames /\ frame[th].trim_for \in {"allocate", "trim", "destructor"}
  BY DEF ThreadTypes, LockInv, PurposesAt
<1>3. PurposesAt(to) = {"allocate", "trim", "destructor"}
  BY DEF PurposesAt
<1>4. CASE Destroys(th)
  BY <1>1, <1>2, <1>4, DestructorMove DEF Destroys
<1>5. CASE ~Destroys(th)
  <2>1. alive
    BY <1>1, <1>5 DEF LockInv, ThreadTypes
  <2>2. m_mutex = th
    BY <1>1, <1>5 DEF LockInv
  <2> QED BY <1>1, <1>2, <1>3, <1>5, <2>1, <2>2, LiveMove DEF Destroys
<1> QED BY <1>4, <1>5

\* The sets of steps, as the proofs below take them apart.
LEMMA StepsOfPool ==
    ASSUME NEW step \in {"process", "search", "search_again", "grow", "cut", "acquire", "recycle"}
    PROVE  /\ step \in LockedSteps /\ step \in PoolSteps /\ step \in Steps
           /\ step \notin TrimSteps /\ step # "idle" /\ step # "destroy_pool"
           /\ step \in HandSteps <=> step = "recycle"
           /\ step \in RequestSteps <=> step # "recycle"
           /\ PurposesAt(step) = IF step = "search_again" THEN {"allocate"}
                                 ELSE IF step \in {"grow", "cut", "acquire"}
                                 THEN {"none", "allocate"} ELSE {"none"}
<1>1. step \notin TrimSteps /\ step # "destroy_pool" /\ step # "lock_trim"
  BY DEF TrimSteps
<1>2. PurposesAt(step) = IF step = "search_again" THEN {"allocate"}
                         ELSE IF step \in {"grow", "cut", "acquire"}
                         THEN {"none", "allocate"} ELSE {"none"}
  BY <1>1 DEF PurposesAt
<1> QED BY <1>1, <1>2 DEF LockedSteps, PoolSteps, Steps, HandSteps, RequestSteps

LEMMA StepsOfTrim ==
    ASSUME NEW step \in TrimSteps
    PROVE  /\ step \in LockedSteps /\ step \in PoolSteps /\ step \in Steps
           /\ step # "idle" /\ step # "destroy_pool" /\ step # "grow" /\ step # "process"
           /\ step \notin HandSteps /\ step \notin RequestSteps
           /\ step \notin {"record_use", "set_pending", "cut", "acquire"}
           /\ PurposesAt(step) = {"allocate", "trim", "destructor"}
BY DEF TrimSteps, LockedSteps, PoolSteps, Steps, HandSteps, RequestSteps, PurposesAt

LEMMA StepsOutside ==
    ASSUME NEW step \in {"idle", "lock_allocate", "settle", "set_pending", "make_buffer",
                         "record_use", "lock_recycle", "lock_trim"}
    PROVE  /\ step \notin LockedSteps /\ step \notin PoolSteps /\ step \in Steps
           /\ step \notin TrimSteps
           /\ step \in HandSteps <=> step \notin {"idle", "lock_allocate", "lock_trim", "record_use"}
           /\ step \in RequestSteps <=> step = "lock_allocate"
           /\ PurposesAt(step) = IF step = "lock_trim" THEN {"trim"} ELSE {"none"}
BY DEF TrimSteps, LockedSteps, PoolSteps, Steps, HandSteps, RequestSteps, PurposesAt

\* What is known of a thread that is in the pool on behalf of a live allocator.
LEMMA LiveInPool ==
    ASSUME AllocatorInv, NEW th \in Threads, pc[th] \in LockedSteps,
           frame[th].trim_for # "destructor"
    PROVE  /\ Standing /\ alive /\ Alone(th) /\ m_mutex = th
           /\ ThreadTypes /\ LockInv /\ ListTypes /\ IInv /\ OwnersInv /\ ThreadsKnow
           /\ frame[th] \in Frames
           /\ call = "reset_pending" <=> pc[th] = "reset_pending"
           /\ call = "release_unused_heaps" <=> pc[th] = "giving_back"
           /\ item # 0 <=> pc[th] = "process"
           /\ AskedBy(pc[th], frame[th]) /\ TakenBy(pc[th], frame[th], FreeIn(m_blocks))
           /\ frame[th].trim_for \in PurposesAt(pc[th])
<1>1. pc[th] # "idle" /\ pc[th] \in PoolSteps
  BY DEF LockedSteps, PoolSteps, TrimSteps
<1>2. /\ Standing /\ ControlInv /\ ListTypes
      /\ ThreadTypes /\ LockInv /\ LoopInv /\ IInv /\ OwnersInv /\ ThreadsKnow
  BY <1>1, BusyStands
<1>3. alive
  BY <1>1, <1>2, BusyIsAlive
<1>4. Alone(th)
  BY <1>1, <1>2, InPoolIsAlone
<1>5. m_mutex = th /\ frame[th].trim_for \in PurposesAt(pc[th])
  BY <1>2 DEF LockInv, Destroys
<1>6. frame[th] \in Frames
  BY <1>2 DEF ThreadTypes
<1>7. /\ call = "reset_pending" <=> pc[th] = "reset_pending"
      /\ call = "release_unused_heaps" <=> pc[th] = "giving_back"
      /\ item # 0 <=> pc[th] = "process"
  BY <1>1, <1>2, LoopOfThread
<1>8. AskedBy(pc[th], frame[th]) /\ TakenBy(pc[th], frame[th], FreeIn(m_blocks))
  BY <1>2 DEF ThreadsKnow
<1> QED BY <1>2, <1>3, <1>4, <1>5, <1>6, <1>7, <1>8

\* A thread with the lock goes on, or leaves with nothing in its hands.
LEMMA LockedMove ==
    ASSUME AllocatorInv, NEW th \in Threads, pc[th] \in LockedSteps, pc[th] # "recycle",
           frame[th].trim_for # "destructor",
           NEW to \in LockedSteps \cup {"idle"}, NEW locals \in Frames, Moves(th, to, locals),
           to # "recycle",
           locals.trim_for \in PurposesAt(to), locals.trim_for # "destructor",
           to = "idle" => locals = EmptyFrame,
           m_mutex' = IF to = "idle" THEN NoThread ELSE m_mutex,
           UNCHANGED <<buffers, lost, alive, m_pending, deviceVars>>,
           item' \in Nat, item' <= Len(m_pending) + 1, item' # 0 <=> to = "process",
           call' = "reset_pending" <=> to = "reset_pending",
           call' = "release_unused_heaps" <=> to = "giving_back",
           IInv', LentBlocks' = LentBlocks,
           AskedBy(to, locals), TakenBy(to, locals, FreeIn(m_blocks'))
    PROVE  AllocatorInv'
<1>1. /\ Standing /\ alive /\ Alone(th) /\ m_mutex = th /\ ThreadTypes /\ LockInv
  BY LiveInPool
<1>2. /\ to \in Steps /\ "idle" \notin LockedSteps
      /\ to \notin {"record_use", "set_pending"} /\ pc[th] # "record_use"
      /\ to \notin HandSteps /\ pc[th] \notin HandSteps
  BY DEF LockedSteps, TrimSteps, Steps, PoolSteps, HandSteps
<1>3. ThreadTypes' /\ LockInv'
  BY <1>1, <1>2, LiveMove
<1>4. Mine(th, to, locals) = Mine(th, pc[th], frame[th])
  BY <1>2 DEF Mine
<1> QED BY <1>1, <1>2, <1>3, <1>4, PoolMove

\* A thread takes the lock.
LEMMA EnterMove ==
    ASSUME AllocatorInv, NEW th \in Threads, pc[th] # "idle", pc[th] \notin PoolSteps,
           pc[th] # "record_use", pc[th] # "set_pending",
           NEW to \in LockedSteps, Moves(th, to, frame[th]), Lock(th),
           to \notin {"reset_pending", "giving_back", "give_back", "cut", "acquire", "grow"},
           frame[th].trim_for \in PurposesAt(to),
           to \in RequestSteps => pc[th] \in RequestSteps,
           UNCHANGED <<ownersVars, m_pending, poolVars, deviceVars>>,
           item' = IF to = "process" THEN 1 ELSE item,
           Mine(th, to, frame[th]) = Mine(th, pc[th], frame[th])
    PROVE  AllocatorInv'
<1>1. /\ Standing /\ ControlInv /\ ThreadTypes /\ LockInv /\ LoopInv /\ ListTypes
      /\ IInv /\ OwnersInv /\ ThreadsKnow
  BY BusyStands
<1>2. LockedSteps \subseteq PoolSteps /\ LockedSteps \subseteq Steps /\ "idle" \notin LockedSteps
      /\ TrimSteps \cup {"destroy_pool"} \subseteq PoolSteps
      /\ {"record_use", "set_pending"} \cap LockedSteps = {}
      /\ {"reset_pending", "giving_back", "process"} \subseteq PoolSteps
  BY DEF LockedSteps, TrimSteps, Steps, PoolSteps
<1>3. alive /\ ~Destroys(th)
  BY <1>1, <1>2, BusyIsAlive
<1>4. \A other \in Threads : pc[other] \notin PoolSteps
  BY <1>1, <1>3, UnlockedIsEmpty DEF Lock
<1>5. Alone(th)
  BY <1>4 DEF Alone
<1>6. frame[th] \in Frames /\ frame[th].trim_for # "destructor"
  BY <1>1, <1>3 DEF ThreadTypes, Destroys
<1>7. ThreadTypes' /\ LockInv'
  BY <1>1, <1>2, <1>3, <1>6, LiveMove DEF Lock, ownersVars
<1>8. /\ call # "reset_pending" /\ call # "release_unused_heaps" /\ item = 0
  BY <1>1, <1>2, <1>4 DEF LoopInv
<1>9. /\ call' = "reset_pending" <=> to = "reset_pending"
      /\ call' = "release_unused_heaps" <=> to = "giving_back"
      /\ item' # 0 <=> to = "process"
      /\ item' \in Nat /\ item' <= Len(m_pending) + 1
  <2>1. call' = call
    BY DEF poolVars
  <2>2. Len(m_pending) \in Nat
    BY <1>1 DEF ListTypes
  <2> QED BY <1>8, <2>1, <2>2
<1>10. IInv' /\ LentBlocks' = LentBlocks /\ FreeIn(m_blocks') = FreeIn(m_blocks)
  BY <1>1, PoolStutter
<1>11. AskedBy(to, frame[th]) /\ TakenBy(to, frame[th], FreeIn(m_blocks'))
  <2>1. AskedBy(pc[th], frame[th])
    BY <1>1 DEF ThreadsKnow
  <2> QED BY <2>1 DEF AskedBy, TakenBy
<1>12. UNCHANGED <<buffers, lost, m_pending, deviceVars>> /\ alive'
  BY <1>3 DEF ownersVars
<1> QED BY <1>1, <1>2, <1>5, <1>6, <1>7, <1>9, <1>10, <1>11, <1>12, PoolMove

LEMMA LocksKeepInv ==
    ASSUME AllocatorInv, NEW th \in Threads, Locks(th)
    PROVE  AllocatorInv'
<1> DEFINE to == IF pc[th] = "lock_allocate" THEN "process"
                 ELSE IF pc[th] = "lock_recycle" THEN "recycle" ELSE "wait_all"
<1>1. /\ pc[th] \in {"lock_allocate", "lock_recycle", "lock_trim"}
      /\ pc' = [pc EXCEPT ![th] = to] /\ UNCHANGED frame
      /\ Lock(th) /\ UNCHANGED <<ownersVars, m_pending, poolVars, deviceVars>>
      /\ item' = IF to = "process" THEN 1 ELSE item
  BY DEF Locks, LockAllocate, LockRecycle, LockTrim, Goto, StartProcess, deferredVars
<1>2. ThreadTypes /\ LockInv
  BY DEF AllocatorInv, ControlInv
<1>3. Moves(th, to, frame[th])
  BY <1>1, <1>2 DEF Moves, ThreadTypes
<1>4. /\ pc[th] # "idle" /\ pc[th] \notin PoolSteps /\ to \in LockedSteps
      /\ to \in RequestSteps => pc[th] \in RequestSteps
  BY <1>1 DEF PoolSteps, LockedSteps, TrimSteps, RequestSteps
<1>5. frame[th].trim_for \in PurposesAt(to)
  <2>1. frame[th].trim_for \in PurposesAt(pc[th])
    BY <1>2 DEF LockInv
  <2> QED BY <1>1, <2>1 DEF PurposesAt, TrimSteps
<1>6. Mine(th, to, frame[th]) = Mine(th, pc[th], frame[th])
  BY <1>1 DEF Mine, HandClaim, HandSteps, FreshSteps
<1>7. to \notin {"reset_pending", "giving_back", "give_back", "cut", "acquire", "grow"}
      /\ pc[th] # "record_use" /\ pc[th] # "set_pending"
  BY <1>1
<1> HIDE DEF to
<1> QED BY <1>1, <1>3, <1>4, <1>5, <1>6, <1>7, EnterMove

----------------------------------------------------------------------------
(* allocate, with the lock, until the block is acquired.                   *)

\* The pool is not touched: neither are the loops.
LEMMA SearchMove ==
    ASSUME AllocatorInv, NEW th \in Threads, pc[th] \in LockedSteps, pc[th] # "recycle",
           pc[th] \notin {"process", "reset_pending", "giving_back"},
           frame[th].trim_for # "destructor",
           NEW to \in LockedSteps \cup {"idle"}, NEW locals \in Frames, Moves(th, to, locals),
           to \notin {"recycle", "process", "reset_pending", "giving_back"},
           locals.trim_for \in PurposesAt(to), locals.trim_for # "destructor",
           to = "idle" => locals = EmptyFrame,
           m_mutex' = IF to = "idle" THEN NoThread ELSE m_mutex,
           UNCHANGED <<ownersVars, m_pending, poolVars, deviceVars>>,
           item' \in {0, item},
           AskedBy(to, locals), TakenBy(to, locals, FreeIn(m_blocks))
    PROVE  AllocatorInv'
<1>1. /\ IInv /\ call # "reset_pending" /\ call # "release_unused_heaps" /\ item = 0
      /\ ListTypes
  BY LiveInPool
<1>2. IInv' /\ LentBlocks' = LentBlocks /\ FreeIn(m_blocks') = FreeIn(m_blocks)
  BY <1>1, PoolStutter
<1>3. item' = 0 /\ item' \in Nat /\ item' <= Len(m_pending) + 1
  BY <1>1 DEF ListTypes
<1>4. UNCHANGED <<buffers, lost, alive, m_pending, deviceVars>> /\ call' = call
  BY DEF ownersVars, poolVars
<1> QED BY <1>1, <1>2, <1>3, <1>4, LockedMove

LEMMA FitsAreFree ==
    ASSUME NEW size, NEW timeline, NEW i \in FindInTimeline(size, timeline)
    PROVE  i \in Positions /\ m_blocks[i].free /\ m_blocks[i].size >= size
BY DEF FindInTimeline, Smallest

LEMMA CandidatesAreFree ==
    ASSUME NEW size, NEW timeline,
           NEW i \in FindSuitableBlock(size, timeline) \cup FindForeignBlock(size, timeline)
    PROVE  i \in Positions /\ m_blocks[i].free /\ m_blocks[i].size >= size
<1>1. \E other : i \in FindInTimeline(size, other)
  <2>1. CASE i \in FindSuitableBlock(size, timeline)
    BY <2>1 DEF FindSuitableBlock
  <2>2. CASE i \in FindForeignBlock(size, timeline)
    BY <2>2 DEF FindForeignBlock, Smallest
  <2> QED BY <2>1, <2>2
<1> QED BY <1>1, FitsAreFree

\* However big the pool is by now.
LEMMA NewHeapHolds ==
    ASSUME RequestsFit, NEW asked \in RequestSizes, NEW pool_size \in Int,
           NEW size, size = RequestSize(asked)
    PROVE  /\ GetHeapSize(size, pool_size) \in Nat
           /\ size <= GetHeapSize(size, pool_size)
           /\ GetHeapSize(size, pool_size) % MaxAlignment = 0
BY RequestFits, HeapHoldsRequest

\* Both searches go on to the block that they took, or to the driver.
LEMMA TakeOrGrowKeepsInv ==
    ASSUME RequestsFit, AllocatorInv, NEW th \in Threads,
           pc[th] \in {"search", "search_again"}, NEW candidates,
           TakeOrGrow(th, candidates),
           \A i \in candidates : i \in Positions /\ m_blocks[i].free
                                 /\ m_blocks[i].size >= frame[th].size,
           UNCHANGED <<m_mutex, ownersVars, deferredVars, poolVars, deviceVars>>
    PROVE  AllocatorInv'
<1>1. /\ pc[th] \in LockedSteps /\ pc[th] \in RequestSteps
      /\ PurposesAt(pc[th]) \subseteq {"none", "allocate"}
      /\ {"cut", "grow"} \subseteq LockedSteps \cap RequestSteps
      /\ PurposesAt("cut") = {"none", "allocate"} /\ PurposesAt("grow") = {"none", "allocate"}
      /\ pc[th] \notin TrimSteps /\ pc[th] # "destroy_pool" /\ pc[th] # "idle"
  BY StepsOfPool
<1>2. ControlInv
  BY DEF AllocatorInv
<1>3. frame[th].trim_for \in {"none", "allocate"}
  BY <1>1, <1>2 DEF ControlInv, LockInv
<1>4. /\ IInv /\ frame[th] \in Frames /\ ThreadTypes /\ AskedBy(pc[th], frame[th])
  BY <1>1, <1>3, LiveInPool
<1>5. frame[th].asked \in RequestSizes /\ frame[th].size = RequestSize(frame[th].asked)
  BY <1>1, <1>4 DEF AskedBy
<1>6. UNCHANGED <<ownersVars, m_pending, poolVars, deviceVars>> /\ item' \in {0, item}
  BY DEF deferredVars
<1>7. CASE candidates # {}
  <2>1. PICK i \in candidates :
            Keep(th, [frame[th] EXCEPT !.block = AddressOf(m_blocks[i])])
    BY <1>7 DEF TakeOrGrow
  <2> DEFINE locals == [frame[th] EXCEPT !.block = AddressOf(m_blocks[i])]
  <2>2. i \in Positions /\ m_blocks[i].free /\ m_blocks[i].size >= frame[th].size
    OBVIOUS
  <2>3. AddressOf(m_blocks[i]) \in Addresses
    <3>1. m_blocks \in Seq(Blocks)
      BY <1>4 DEF IInv, ListOK
    <3> QED BY <2>2, <3>1, BlocksAreBlocks DEF Positions, AddressOf, Addresses
  <2>4. /\ locals \in Frames /\ locals.trim_for = frame[th].trim_for
        /\ locals.asked = frame[th].asked /\ locals.size = frame[th].size
        /\ locals.block = AddressOf(m_blocks[i])
    BY <1>4, <2>3 DEF Frames
  <2>5. Moves(th, "cut", locals)
    BY <1>7, <2>1 DEF TakeOrGrow, Keep, Moves
  <2> HIDE DEF locals
  <2>6. AskedBy("cut", locals)
    BY <1>5, <2>4 DEF AskedBy
  <2>7. TakenBy("cut", locals, FreeIn(m_blocks))
    BY <2>2, <2>4 DEF TakenBy, FreeIn, Positions
  <2>8. "cut" \in LockedSteps \cup {"idle"}
        /\ "cut" \notin {"recycle", "process", "reset_pending", "giving_back", "idle"}
        /\ pc[th] \notin {"recycle", "process", "reset_pending", "giving_back"}
    BY <1>1
  <2> QED BY <1>1, <1>3, <1>6, <2>4, <2>5, <2>6, <2>7, <2>8, SearchMove
<1>8. CASE candidates = {}
  <2> DEFINE size == frame[th].size
             locals == [frame[th] EXCEPT !.heap_size = GetHeapSize(size, m_size)]
  <2>1. m_size \in Int
    BY <1>4 DEF IInv, PoolTypeOK
  <2>2. GetHeapSize(size, m_size) \in Nat /\ GetHeapSize(size, m_size) >= size
    <3>1. size \in Nat
      BY <1>5, RequestFits
    <3> QED BY <1>5, <2>1, <3>1, NewHeapHolds
  <2>3. /\ locals \in Frames /\ locals.trim_for = frame[th].trim_for
        /\ locals.asked = frame[th].asked /\ locals.size = frame[th].size
        /\ locals.heap_size >= locals.size
    BY <1>4, <2>2 DEF Frames
  <2>4. Moves(th, "grow", locals)
    BY <1>8 DEF TakeOrGrow, Keep, Moves
  <2> HIDE DEF locals
  <2>5. AskedBy("grow", locals) /\ TakenBy("grow", locals, FreeIn(m_blocks))
    BY <1>5, <2>3 DEF AskedBy, TakenBy
  <2>6. "grow" \in LockedSteps \cup {"idle"}
        /\ "grow" \notin {"recycle", "process", "reset_pending", "giving_back", "idle"}
        /\ pc[th] \notin {"recycle", "process", "reset_pending", "giving_back"}
    BY <1>1
  <2> QED BY <1>1, <1>3, <1>6, <2>3, <2>4, <2>5, <2>6, SearchMove
<1> QED BY <1>7, <1>8

LEMMA SearchesKeepInv ==
    ASSUME RequestsFit, AllocatorInv, NEW th \in Threads, Search(th) \/ SearchAgain(th)
    PROVE  AllocatorInv'
<1> DEFINE suitable == FindSuitableBlock(frame[th].size, frame[th].timeline)
           foreign == FindForeignBlock(frame[th].size, frame[th].timeline)
<1>1. \A i \in suitable \cup foreign :
          i \in Positions /\ m_blocks[i].free /\ m_blocks[i].size >= frame[th].size
  BY CandidatesAreFree
<1>2. PICK candidates \in {suitable, foreign} : TakeOrGrow(th, candidates)
  BY DEF Search, SearchAgain
<1>3. /\ pc[th] \in {"search", "search_again"}
      /\ UNCHANGED <<m_mutex, ownersVars, deferredVars, poolVars, deviceVars>>
  BY DEF Search, SearchAgain
<1>4. \A i \in candidates :
          i \in Positions /\ m_blocks[i].free /\ m_blocks[i].size >= frame[th].size
  BY <1>1
<1> HIDE DEF suitable, foreign
<1> QED BY <1>2, <1>3, <1>4, TakeOrGrowKeepsInv

\* The driver refuses: less is asked for, or what is not used is given back.
LEMMA RefusalKeepsInv ==
    ASSUME RequestsFit, AllocatorInv, NEW th \in Threads, Halve(th) \/ TrimToRetry(th)
    PROVE  AllocatorInv'
<1>1. pc[th] = "grow"
  BY DEF Halve, TrimToRetry, Goto
<1>2. /\ "grow" \in LockedSteps /\ "wait_all" \in LockedSteps /\ "wait_all" \in TrimSteps
      /\ PurposesAt("grow") = {"none", "allocate"} /\ "allocate" \in PurposesAt("wait_all")
      /\ "grow" \in RequestSteps /\ "grow" \notin TrimSteps /\ "wait_all" \notin RequestSteps
  BY DEF PurposesAt, LockedSteps, TrimSteps, RequestSteps
<1>3. frame[th].trim_for \in {"none", "allocate"}
  BY <1>1, <1>2 DEF AllocatorInv, ControlInv, LockInv
<1>4. /\ IInv /\ frame[th] \in Frames /\ ThreadTypes /\ AskedBy(pc[th], frame[th])
  BY <1>1, <1>2, <1>3, LiveInPool
<1>5. /\ frame[th].asked \in RequestSizes /\ frame[th].size = RequestSize(frame[th].asked)
      /\ frame[th].size \in Nat
  BY <1>1, <1>2, <1>4, RequestFits DEF AskedBy
<1>6. /\ UNCHANGED <<ownersVars, m_pending, poolVars, deviceVars>> /\ item' \in {0, item}
      /\ m_mutex' = m_mutex
  BY DEF Halve, TrimToRetry, deferredVars
<1>7. CASE Halve(th)
  <2> DEFINE halved == HalvedHeapSize(frame[th].heap_size, frame[th].size)
             locals == [frame[th] EXCEPT !.heap_size = halved]
  <2>1. halved \in Nat /\ halved >= frame[th].size
    <3>1. frame[th].heap_size \in Nat
      BY <1>4 DEF Frames
    <3>2. AlignCeil(frame[th].heap_size \div 2) \in Int
      <4>1. frame[th].heap_size \div 2 \in Int
        BY <3>1
      <4>2. frame[th].heap_size \div 2 + MaxAlignment - 1 \in Int
        BY <4>1, AlignmentAssumption
      <4>3. \A a \in Int, m \in Nat \ {0} : a % m \in Int
        BY Division
      <4> QED BY <4>2, <4>3, AlignmentAssumption DEF AlignCeil
    <3> QED BY <1>5, <3>2 DEF HalvedHeapSize, Larger
  <2>2. /\ locals \in Frames /\ locals.trim_for = frame[th].trim_for
        /\ locals.asked = frame[th].asked /\ locals.size = frame[th].size
        /\ locals.heap_size >= locals.size
    BY <1>4, <2>1 DEF Frames
  <2>3. Moves(th, "grow", locals)
    BY <1>1, <1>4, <1>7 DEF Halve, Keep, Moves, ThreadTypes
  <2> HIDE DEF locals
  <2>4. AskedBy("grow", locals) /\ TakenBy("grow", locals, FreeIn(m_blocks))
    BY <1>5, <2>2 DEF AskedBy, TakenBy
  <2>5. "grow" \in LockedSteps \cup {"idle"}
        /\ "grow" \notin {"recycle", "process", "reset_pending", "giving_back", "idle"}
    BY <1>2
  <2> QED BY <1>1, <1>2, <1>3, <1>6, <2>2, <2>3, <2>4, <2>5, SearchMove
<1>8. CASE TrimToRetry(th)
  <2> DEFINE locals == [frame[th] EXCEPT !.heap_size = 0, !.trim_for = "allocate"]
  <2>1. /\ locals \in Frames /\ locals.trim_for = "allocate"
        /\ locals.asked = frame[th].asked /\ locals.size = frame[th].size
    BY <1>4 DEF Frames, Purposes
  <2>2. Moves(th, "wait_all", locals)
    BY <1>8 DEF TrimToRetry, Goto, Keep, Moves
  <2> HIDE DEF locals
  <2>3. AskedBy("wait_all", locals) /\ TakenBy("wait_all", locals, FreeIn(m_blocks))
    BY <1>5, <2>1 DEF AskedBy, TakenBy
  <2>4. "wait_all" \in LockedSteps \cup {"idle"}
        /\ "wait_all" \notin {"recycle", "process", "reset_pending", "giving_back", "idle"}
    BY <1>2
  <2> QED BY <1>1, <1>2, <1>3, <1>6, <2>1, <2>2, <2>3, <2>4, SearchMove
<1> QED BY <1>7, <1>8

\* A call that throws under the lock, whatever threw, only lets go of the lock.
LEMMA ThrowKeepsInv ==
    ASSUME AllocatorInv, NEW th \in Threads, ThrowBadAlloc(th) \/ CallThrows(th)
    PROVE  AllocatorInv'
<1>1. /\ pc[th] \in {"process", "wait_all", "wait_pending", "grow", "cut"}
      /\ Return(th) /\ Unlock /\ item' \in {0, item}
      /\ pc[th] = "process" => item' = 0
      /\ UNCHANGED <<ownersVars, m_pending, poolVars, deviceVars>>
  <2>1. CASE ThrowBadAlloc(th)
    BY <2>1 DEF ThrowBadAlloc, deferredVars
  <2>2. CASE CallThrows(th)
    BY <2>2 DEF CallThrows, MayThrowAt
  <2> QED BY <2>1, <2>2
<1>2. frame[th].trim_for # "destructor"
  BY DEF ThrowBadAlloc, CallThrows
<1>3. pc[th] \in LockedSteps
      /\ pc[th] \notin {"recycle", "reset_pending", "giving_back"}
  BY <1>1 DEF LockedSteps, TrimSteps
<1>4. /\ IInv /\ ListTypes
      /\ call # "reset_pending" /\ call # "release_unused_heaps"
      /\ item # 0 <=> pc[th] = "process"
  BY <1>2, <1>3, LiveInPool
<1>5. IInv' /\ LentBlocks' = LentBlocks /\ FreeIn(m_blocks') = FreeIn(m_blocks)
  BY <1>1, <1>4, PoolStutter
<1>6. item' = 0 /\ item' \in Nat /\ item' <= Len(m_pending) + 1
  BY <1>1, <1>4 DEF ListTypes
<1>7. /\ UNCHANGED <<buffers, lost, alive, m_pending, deviceVars>> /\ call' = call
      /\ m_mutex' = NoThread
  BY <1>1 DEF ownersVars, poolVars, Unlock
<1>8. Moves(th, "idle", EmptyFrame)
  BY <1>1 DEF Return, Moves
<1>9. AskedBy("idle", EmptyFrame) /\ TakenBy("idle", EmptyFrame, FreeIn(m_blocks'))
  BY EmptyFrameParts DEF AskedBy, TakenBy, RequestSteps
<1>10. EmptyFrame.trim_for \in PurposesAt("idle") /\ EmptyFrame.trim_for # "destructor"
  BY EmptyFrameParts, StepsOutside
<1>11. "idle" \in LockedSteps \cup {"idle"}
       /\ "idle" \notin {"recycle", "process", "reset_pending", "giving_back"}
  OBVIOUS
<1> QED BY <1>2, <1>3, <1>4, <1>5, <1>6, <1>7, <1>8, <1>9, <1>10, <1>11, EmptyFrameParts,
           LockedMove

\* Outside of its loops, nothing of the pool runs.
LEMMA PoolIsQuiet ==
    ASSUME IInv, call # "reset_pending", call # "release_unused_heaps"
    PROVE  call = "none"
BY DEF IInv, PoolTypeOK

\* What is known of a thread that looks for a block.
LEMMA LiveRequest ==
    ASSUME AllocatorInv, NEW th \in Threads, pc[th] \in {"grow", "cut", "acquire"}
    PROVE  /\ pc[th] \in LockedSteps /\ frame[th].trim_for \in {"none", "allocate"}
           /\ frame[th].asked \in RequestSizes /\ frame[th].size = RequestSize(frame[th].asked)
           /\ pc[th] = "grow" => frame[th].heap_size >= frame[th].size
           /\ call = "none" /\ item = 0
<1>1. /\ pc[th] \in LockedSteps /\ pc[th] \in RequestSteps
      /\ PurposesAt(pc[th]) = {"none", "allocate"}
      /\ pc[th] \notin {"reset_pending", "giving_back", "process"}
  BY StepsOfPool
<1>2. frame[th].trim_for \in {"none", "allocate"}
  BY <1>1 DEF AllocatorInv, ControlInv, LockInv
<1>3. /\ IInv /\ call # "reset_pending" /\ call # "release_unused_heaps" /\ item = 0
      /\ AskedBy(pc[th], frame[th])
  BY <1>1, <1>2, LiveInPool
<1> QED BY <1>1, <1>2, <1>3, PoolIsQuiet DEF AskedBy

LEMMA GrowKeepsInv ==
    ASSUME RequestsFit, AllocatorInv, NEW th \in Threads, Grow(th)
    PROVE  AllocatorInv'
<1>1. PICK heap \in Heaps :
          /\ m_heaps[heap] = 0
          /\ RegisterHeap(heap, frame[th].heap_size)
          /\ Keep(th, [frame[th] EXCEPT !.block = <<heap, 0>>, !.heap_size = 0])
  BY DEF Grow
<1> DEFINE locals == [frame[th] EXCEPT !.block = <<heap, 0>>, !.heap_size = 0]
           size == frame[th].heap_size
           new == [heap |-> heap, offset |-> 0, size |-> size, pending |-> NoToken, free |-> TRUE]
<1>2. pc[th] = "grow" /\ pc' = [pc EXCEPT ![th] = "cut"]
  BY DEF Grow, Goto
<1>3. /\ pc[th] \in LockedSteps /\ frame[th].trim_for \in {"none", "allocate"}
      /\ frame[th].asked \in RequestSizes /\ frame[th].size = RequestSize(frame[th].asked)
      /\ size >= frame[th].size /\ call = "none" /\ item = 0
  BY <1>2, LiveRequest
<1>4. IInv /\ ListTypes /\ frame[th] \in Frames
  BY <1>3, LiveInPool
<1>5. frame[th].size \in Nat \ {0} /\ size \in Nat
  BY <1>3, <1>4, RequestFits DEF Frames
<1>6. size \in Nat \ {0}
  BY <1>3, <1>5
<1>7. UNCHANGED <<m_mutex, ownersVars, deferredVars, deviceVars>>
  BY DEF Grow
<1>8. IInv'
  BY <1>1, <1>3, <1>4, <1>6, <1>7, NewHeapKeepsIInv
<1>9. m_blocks' = Append(m_blocks, new) /\ new \in Blocks /\ new.free
  BY <1>1, <1>5 DEF RegisterHeap, Blocks
<1>10. m_blocks \in Seq(Blocks)
  BY <1>4 DEF IInv, ListOK
<1>11. LentBlocks' = LentBlocks
  BY <1>9, <1>10, AppendLendsTheSame, LentOfPool
<1>12. new \in FreeIn(m_blocks')
  <2>1. Len(m_blocks') = Len(m_blocks) + 1 /\ m_blocks'[Len(m_blocks) + 1] = new
    BY <1>9, <1>10
  <2>2. Len(m_blocks) + 1 \in 1..Len(m_blocks')
    BY <1>10, <2>1
  <2> QED BY <1>9, <2>1, <2>2 DEF FreeIn
<1>13. /\ locals \in Frames /\ locals.trim_for = frame[th].trim_for
       /\ locals.asked = frame[th].asked /\ locals.size = frame[th].size
       /\ locals.block = <<heap, 0>>
  BY <1>4 DEF Frames, Addresses
<1>14. AddressOf(new) = <<heap, 0>> /\ new.size = size
  BY DEF AddressOf
<1> HIDE DEF locals, new
<1>15. AskedBy("cut", locals) /\ TakenBy("cut", locals, FreeIn(m_blocks'))
  BY <1>3, <1>12, <1>13, <1>14 DEF AskedBy, TakenBy
<1>16. Moves(th, "cut", locals)
  BY <1>1, <1>2 DEF Keep, Moves, locals
<1>17. "cut" \in LockedSteps \cup {"idle"} /\ PurposesAt("cut") = {"none", "allocate"}
  BY StepsOfPool
<1>18. /\ UNCHANGED <<buffers, lost, alive, m_pending, deviceVars>>
       /\ call' = "none" /\ item' = 0
       /\ item' \in Nat /\ item' <= Len(m_pending) + 1
       /\ m_mutex' = m_mutex
  <2>1. call' = call /\ item' = item
    BY <1>1, <1>7 DEF RegisterHeap, deferredVars
  <2> QED BY <1>3, <1>4, <1>7, <2>1 DEF ownersVars, deferredVars, ListTypes
<1> QED BY <1>2, <1>3, <1>8, <1>11, <1>13, <1>15, <1>16, <1>17, <1>18, LockedMove

\* The block that was taken is where its address says.
LEMMA TakenPosition ==
    ASSUME IInv, NEW th \in Threads, pc[th] \in {"cut", "acquire"},
           TakenBy(pc[th], frame[th], FreeIn(m_blocks)), NEW i, i = BlockOf(th)
    PROVE  /\ i \in Positions /\ m_blocks[i].free
           /\ AddressOf(m_blocks[i]) = frame[th].block
           /\ m_blocks[i].size >= frame[th].size
<1>1. PICK b \in FreeIn(m_blocks) : AddressOf(b) = frame[th].block /\ b.size >= frame[th].size
  BY DEF TakenBy
<1>2. PICK j \in Positions : m_blocks[j].free /\ b = m_blocks[j]
  BY DEF FreeIn, Positions
<1>3. i = j
  BY <1>1, <1>2, PositionIs DEF BlockOf
<1> QED BY <1>1, <1>2, <1>3

\* What is cut off the front of a block has its address.
LEMMA FirstPart ==
    ASSUME NEW s \in Seq(Blocks), NEW i \in 1..Len(s), NEW first_size \in 1..s[i].size - 1,
           NEW t, t = Partition(s, i, first_size)
    PROVE  /\ i \in 1..Len(t)
           /\ t[i].heap = s[i].heap /\ t[i].offset = s[i].offset
           /\ t[i].size = first_size /\ t[i].free = s[i].free
<1> DEFINE second == [s[i] EXCEPT !.size = @ - first_size, !.offset = @ + first_size]
           first == [s[i] EXCEPT !.size = first_size]
           r == [s EXCEPT ![i] = second]
<1>1. s[i] \in Blocks /\ s[i].offset \in Nat /\ s[i].size \in Nat
  BY BlocksAreBlocks
<1>2. first \in Blocks /\ second \in Blocks
  <2>1. /\ first_size \in Nat /\ s[i].size - first_size \in Nat
        /\ s[i].offset + first_size \in Nat
    BY <1>1
  <2> QED BY <1>1, <2>1 DEF Blocks
<1>3. r \in Seq(Blocks) /\ Len(r) = Len(s)
  BY <1>2
<1>4. t = InsertAt(r, i, first)
  BY DEF Partition
<1>5. /\ first.heap = s[i].heap /\ first.offset = s[i].offset
      /\ first.size = first_size /\ first.free = s[i].free
  BY <1>1 DEF Blocks
<1> HIDE DEF r, first, second
<1>6. Len(t) = Len(r) + 1 /\ t[i] = first
  <2>1. i \in 1..Len(r) /\ i \in 1..Len(r) + 1 /\ ~(i < i)
    BY <1>3
  <2>2. /\ Len(InsertAt(r, i, first)) = Len(r) + 1
        /\ \A j \in 1..Len(r) + 1 :
              InsertAt(r, i, first)[j] = IF j < i THEN r[j] ELSE IF j = i THEN first ELSE r[j - 1]
    BY <1>2, <1>3, <2>1, InsertAtIndex
  <2> QED BY <1>4, <2>1, <2>2
<1>7. i \in 1..Len(t)
  BY <1>3, <1>6
<1> QED BY <1>5, <1>6, <1>7

\* Cutting is a call the pool allows (partition_block's assertions).
LEMMA CutIsPoolStep ==
    ASSUME RequestsFit, AllocatorInv, NEW th \in Threads, Cut(th)
    PROVE  /\ UNCHANGED deviceVars
           /\ \/ CallPartitionBlock
              \/ UNCHANGED poolVars
           /\ LentBlocks' = LentBlocks
           /\ TakenBy("acquire", frame[th], FreeIn(m_blocks'))
<1>1. pc[th] = "cut" /\ UNCHANGED deviceVars
  BY DEF Cut, Goto
<1>2. /\ pc[th] \in LockedSteps /\ frame[th].trim_for \in {"none", "allocate"}
      /\ frame[th].asked \in RequestSizes /\ frame[th].size = RequestSize(frame[th].asked)
      /\ call = "none"
  BY <1>1, LiveRequest
<1>3. IInv /\ TakenBy(pc[th], frame[th], FreeIn(m_blocks))
  BY <1>2, LiveInPool
<1> DEFINE i == BlockOf(th)
           size == frame[th].size
<1>4. /\ i \in Positions /\ m_blocks[i].free
      /\ AddressOf(m_blocks[i]) = frame[th].block
      /\ m_blocks[i].size >= size
  BY <1>1, <1>3, TakenPosition
<1>5. m_blocks \in Seq(Blocks) /\ i \in 1..Len(m_blocks)
  BY <1>3, <1>4 DEF IInv, ListOK, Positions
<1>6. m_blocks[i].size \in Nat /\ size \in Nat \ {0}
  BY <1>2, <1>5, BlocksAreBlocks, RequestFits
<1>7. CASE m_blocks[i].size > size
  <2>1. PartitionBlock(i, size)
    BY <1>7 DEF Cut
  <2>2. size \in 1..m_blocks[i].size - 1
    BY <1>6, <1>7
  <2>3. CallPartitionBlock
    BY <1>1, <1>2, <1>4, <2>1, <2>2 DEF CallPartitionBlock
  <2>4. m_blocks' = Partition(m_blocks, i, size)
    BY <2>1 DEF PartitionBlock
  <2>5. LentBlocks' = LentBlocks
    BY <1>4, <1>5, <2>2, <2>4, PartitionLendsTheSame, LentOfPool
  <2>6. /\ i \in 1..Len(m_blocks')
        /\ m_blocks'[i].heap = m_blocks[i].heap /\ m_blocks'[i].offset = m_blocks[i].offset
        /\ m_blocks'[i].size = size /\ m_blocks'[i].free = m_blocks[i].free
    BY <1>5, <2>2, <2>4, FirstPart
  <2> HIDE DEF i
  <2>7. m_blocks'[i] \in FreeIn(m_blocks') /\ AddressOf(m_blocks'[i]) = frame[th].block
        /\ m_blocks'[i].size >= size
    <3>1. m_blocks'[i].free /\ i \in 1..Len(m_blocks')
      BY <1>4, <2>6
    <3>2. m_blocks'[i] \in FreeIn(m_blocks')
      BY <3>1 DEF FreeIn
    <3>3. AddressOf(m_blocks'[i]) = AddressOf(m_blocks[i])
      BY <2>6 DEF AddressOf
    <3>4. m_blocks'[i].size >= size
      BY <1>6, <2>6
    <3> QED BY <1>4, <3>2, <3>3, <3>4
  <2>8. TakenBy("acquire", frame[th], FreeIn(m_blocks'))
    BY <2>7 DEF TakenBy
  <2> QED BY <1>1, <2>3, <2>5, <2>8, Zenon
<1>8. CASE ~(m_blocks[i].size > size)
  <2>1. UNCHANGED poolVars
    BY <1>8 DEF Cut
  <2>2. LentBlocks' = LentBlocks /\ FreeIn(m_blocks') = FreeIn(m_blocks)
    BY <1>1, <1>3, <2>1, PoolStutter
  <2> QED BY <1>1, <1>3, <2>1, <2>2 DEF TakenBy
<1> QED BY <1>7, <1>8

LEMMA CutKeepsInv ==
    ASSUME RequestsFit, AllocatorInv, NEW th \in Threads, Cut(th)
    PROVE  AllocatorInv'
<1>1. pc[th] = "cut" /\ pc' = [pc EXCEPT ![th] = "acquire"]
      /\ UNCHANGED <<m_mutex, frame, ownersVars, deferredVars, deviceVars>>
  BY DEF Cut, Goto
<1>2. /\ pc[th] \in LockedSteps /\ frame[th].trim_for \in {"none", "allocate"}
      /\ frame[th].asked \in RequestSizes /\ frame[th].size = RequestSize(frame[th].asked)
      /\ call = "none" /\ item = 0
  BY <1>1, LiveRequest
<1>3. IInv /\ ListTypes /\ frame[th] \in Frames /\ ThreadTypes
  BY <1>2, LiveInPool
<1>4. /\ UNCHANGED deviceVars
      /\ CallPartitionBlock \/ UNCHANGED poolVars
      /\ LentBlocks' = LentBlocks
      /\ TakenBy("acquire", frame[th], FreeIn(m_blocks'))
  BY CutIsPoolStep
<1>5. IInv'
  BY <1>3, <1>4, PartitionBlockKeepsIInv, PoolStutter
<1>6. call' = "none"
  BY <1>2, <1>4 DEF CallPartitionBlock, PartitionBlock, poolVars
<1>7. AskedBy("acquire", frame[th])
  BY <1>2 DEF AskedBy
<1>8. Moves(th, "acquire", frame[th])
  BY <1>1, <1>3 DEF Moves, ThreadTypes
<1>9. "acquire" \in LockedSteps \cup {"idle"} /\ PurposesAt("acquire") = {"none", "allocate"}
  BY StepsOfPool
<1>10. /\ UNCHANGED <<buffers, lost, alive, m_pending, deviceVars>>
       /\ item' = 0 /\ item' \in Nat /\ item' <= Len(m_pending) + 1 /\ m_mutex' = m_mutex
  BY <1>1, <1>2, <1>3 DEF ownersVars, deferredVars, ListTypes
<1> QED BY <1>1, <1>2, <1>3, <1>4, <1>5, <1>6, <1>7, <1>8, <1>9, <1>10, LockedMove

----------------------------------------------------------------------------
(* trim_locked, whoever runs it.                                           *)

LEMMA InTrim ==
    ASSUME AllocatorInv, NEW th \in Threads, pc[th] \in TrimSteps
    PROVE  /\ Standing /\ Alone(th) /\ ThreadTypes /\ LockInv /\ ListTypes
           /\ IInv /\ OwnersInv /\ ThreadsKnow
           /\ frame[th] \in Frames
           /\ call = "reset_pending" <=> pc[th] = "reset_pending"
           /\ call = "release_unused_heaps" <=> pc[th] = "giving_back"
           /\ item = 0
           /\ AskedBy(pc[th], frame[th]) /\ TakenBy(pc[th], frame[th], FreeIn(m_blocks))
           /\ frame[th].trim_for \in {"allocate", "trim", "destructor"}
           /\ pc[th] \notin {"reset_pending", "giving_back"} => call = "none"
<1>1. /\ pc[th] # "idle" /\ pc[th] # "process" /\ pc[th] \in PoolSteps
      /\ PurposesAt(pc[th]) = {"allocate", "trim", "destructor"}
  BY StepsOfTrim
<1>2. /\ Standing /\ ControlInv /\ ListTypes
      /\ ThreadTypes /\ LockInv /\ LoopInv /\ IInv /\ OwnersInv /\ ThreadsKnow
  BY <1>1, BusyStands
<1>3. Alone(th)
  BY <1>1, <1>2, InPoolIsAlone
<1>4. frame[th].trim_for \in {"allocate", "trim", "destructor"} /\ frame[th] \in Frames
  BY <1>1, <1>2 DEF LockInv, ThreadTypes
<1>5. /\ call = "reset_pending" <=> pc[th] = "reset_pending"
      /\ call = "release_unused_heaps" <=> pc[th] = "giving_back"
      /\ item # 0 <=> pc[th] = "process"
  BY <1>1, <1>2, LoopOfThread
<1>6. AskedBy(pc[th], frame[th]) /\ TakenBy(pc[th], frame[th], FreeIn(m_blocks))
  BY <1>2 DEF ThreadsKnow
<1>7. pc[th] \notin {"reset_pending", "giving_back"} => call = "none"
  BY <1>2, <1>5, PoolIsQuiet
<1> QED BY <1>1, <1>2, <1>3, <1>4, <1>5, <1>6, <1>7

\* From one step of trim_locked to another, every loan staying what it is.
LEMMA TrimGoesOn ==
    ASSUME AllocatorInv, NEW th \in Threads, pc[th] \in TrimSteps, NEW to \in TrimSteps,
           pc' = [pc EXCEPT ![th] = to],
           UNCHANGED <<m_mutex, frame, ownersVars, deferredVars, deviceVars>>,
           IInv', LentBlocks' = LentBlocks,
           call' = "reset_pending" <=> to = "reset_pending",
           call' = "release_unused_heaps" <=> to = "giving_back",
           to = "give_back" => \A b \in FreeIn(m_blocks') : b.pending = NoToken
    PROVE  AllocatorInv'
<1>1. /\ Standing /\ Alone(th) /\ ThreadTypes /\ LockInv /\ ListTypes
      /\ frame[th] \in Frames /\ item = 0 /\ AskedBy(pc[th], frame[th])
  BY InTrim
<1>2. Moves(th, to, frame[th])
  BY <1>1 DEF Moves, ThreadTypes
<1>3. /\ UNCHANGED <<m_mutex, buffers, lost, alive, m_pending>>
      /\ item' = 0 /\ item' \in Nat /\ item' <= Len(m_pending) + 1
  BY <1>1 DEF ownersVars, deferredVars, ListTypes
<1>4. ThreadTypes' /\ LockInv'
  BY <1>1, <1>2, <1>3, TrimMove
<1>5. /\ to \in Steps /\ to # "idle" /\ to # "process" /\ to # "grow"
      /\ to \notin {"record_use", "set_pending", "cut", "acquire"} /\ to \notin HandSteps
      /\ to \notin RequestSteps
      /\ pc[th] # "record_use" /\ pc[th] \notin HandSteps
  BY StepsOfTrim
<1>6. Mine(th, to, frame[th]) = Mine(th, pc[th], frame[th])
  BY <1>5 DEF Mine
<1>7. AskedBy(to, frame[th]) /\ TakenBy(to, frame[th], FreeIn(m_blocks'))
  BY <1>1, <1>5 DEF AskedBy, TakenBy
<1> QED BY <1>1, <1>2, <1>3, <1>4, <1>5, <1>6, <1>7, PoolMove

LEMMA StaysPut ==
    ASSUME ThreadTypes, NEW th \in Threads, UNCHANGED pc
    PROVE  pc' = [pc EXCEPT ![th] = pc[th]]
BY DEF ThreadTypes

\* Nothing of what the pool shows to those it lends to.
LEMMA HiddenIsLent ==
    ASSUME UNCHANGED LM!lentVars
    PROVE  LentBlocks' = LentBlocks
BY DEF LM!lentVars

\* What trim_locked asks of the pool is what the pool allows: the tokens it
\* lists are complete, and so is every free block's before heaps are given back.
LEMMA TrimIsPoolStep ==
    ASSUME AllocatorInv, NEW th \in Threads,
           WaitPending(th) \/ Reset(th) \/ StartGiveBack(th) \/ GiveBack(th)
    PROVE  CallResetPending \/ PoolLoopStep \/ CallReleaseUnusedHeaps
<1>1. pc[th] \in TrimSteps /\ UNCHANGED deviceVars
  BY DEF WaitPending, Reset, StartGiveBack, GiveBack, Goto, TrimSteps
<1>2. /\ IInv /\ TakenBy(pc[th], frame[th], FreeIn(m_blocks))
      /\ pc[th] \notin {"reset_pending", "giving_back"} => call = "none"
  BY <1>1, InTrim
<1>3. CASE WaitPending(th)
  BY <1>1, <1>2, <1>3 DEF WaitPending, Goto, CallResetPending
<1>4. CASE Reset(th)
  BY <1>1, <1>4 DEF Reset, PoolLoopStep
<1>5. CASE StartGiveBack(th)
  <2>1. pc[th] = "give_back" /\ ReleaseUnusedHeaps /\ call = "none"
    BY <1>2, <1>5 DEF StartGiveBack, Goto
  <2>2. \A b \in FreeIn(m_blocks) : b.pending = NoToken
    BY <1>2, <2>1 DEF TakenBy
  <2>3. \A i \in Positions : m_blocks[i].free => IsComplete(m_blocks[i].pending)
    BY <2>2 DEF FreeIn, Positions, IsComplete, IsEmpty, NoToken
  <2> QED BY <1>1, <2>1, <2>3 DEF CallReleaseUnusedHeaps
<1>6. CASE GiveBack(th)
  BY <1>1, <1>6 DEF GiveBack, PoolLoopStep
<1> QED BY <1>3, <1>4, <1>5, <1>6

LEMMA TrimKeepsInv ==
    ASSUME AllocatorInv, NEW th \in Threads,
           WaitPending(th) \/ Reset(th) \/ StartGiveBack(th) \/ GiveBack(th)
    PROVE  AllocatorInv'
<1>1. /\ pc[th] \in TrimSteps
      /\ UNCHANGED <<m_mutex, frame, ownersVars, deferredVars, deviceVars>>
  BY DEF WaitPending, Reset, StartGiveBack, GiveBack, Goto, TrimSteps
<1>2. /\ IInv /\ ThreadTypes
      /\ call = "reset_pending" <=> pc[th] = "reset_pending"
      /\ call = "release_unused_heaps" <=> pc[th] = "giving_back"
  BY <1>1, InTrim
<1>3. CallResetPending \/ PoolLoopStep \/ CallReleaseUnusedHeaps
  BY TrimIsPoolStep
<1>4. IInv'
  BY <1>2, <1>3, NextKeepsIInv DEF PoolNext
<1>5. {"reset_pending", "give_back", "giving_back"} \subseteq TrimSteps
  BY DEF TrimSteps
<1>6. CASE WaitPending(th)
  <2>1. LentBlocks' = LentBlocks
    <3>1. call = "none"
      BY <1>1, <1>6, InTrim DEF WaitPending, Goto
    <3>2. CallResetPending
      BY <1>1, <1>6, <3>1 DEF WaitPending, CallResetPending
    <3> QED BY <1>2, <3>2, ResetPendingIsHidden, HiddenIsLent
  <2>2. call' = "reset_pending" /\ pc' = [pc EXCEPT ![th] = "reset_pending"]
    BY <1>6 DEF WaitPending, ResetPending, Goto
  <2> QED BY <1>1, <1>4, <1>5, <2>1, <2>2, TrimGoesOn
<1>7. CASE Reset(th)
  <2>1. pc[th] = "reset_pending" /\ call = "reset_pending"
    BY <1>2, <1>7 DEF Reset
  <2>2. AbsorbNext \/ StepOver \/ EndReset
    BY <1>7 DEF Reset
  <2>3. UNCHANGED deviceVars
    BY <1>1
  <2>4. LentBlocks' = LentBlocks
    BY <1>2, <2>2, <2>3, LoopIsHidden, HiddenIsLent
  <2>5. CASE (AbsorbNext \/ StepOver) /\ UNCHANGED pc
    <3>1. call' = "reset_pending" /\ pc' = [pc EXCEPT ![th] = "reset_pending"]
      BY <1>2, <2>1, <2>5, StaysPut DEF AbsorbNext, StepOver
    <3> QED BY <1>1, <1>4, <1>5, <2>4, <3>1, TrimGoesOn
  <2>6. CASE EndReset /\ Goto(th, "reset_pending", "give_back")
    <3>1. call' = "none" /\ pc' = [pc EXCEPT ![th] = "give_back"] /\ m_blocks' = m_blocks
      BY <2>6 DEF EndReset, Goto, poolState
    <3>2. \A b \in FreeIn(m_blocks') : b.pending = NoToken
      BY <1>2, <2>1, <3>1 DEF IInv, EmptiedWhileResetting, FreeIn
    <3> QED BY <1>1, <1>4, <1>5, <2>4, <3>1, <3>2, TrimGoesOn
  <2> QED BY <1>7, <2>5, <2>6 DEF Reset
<1>8. CASE StartGiveBack(th)
  <2>1. call' = "release_unused_heaps" /\ pc' = [pc EXCEPT ![th] = "giving_back"]
        /\ m_blocks' = m_blocks
    BY <1>8 DEF StartGiveBack, ReleaseUnusedHeaps, Goto
  <2>2. LentBlocks' = LentBlocks
    BY <2>1, LentOfPool
  <2> QED BY <1>1, <1>4, <1>5, <2>1, <2>2, TrimGoesOn
<1>9. CASE GiveBack(th)
  <2>1. PICK i \in Positions : ReleaseUnusedHeap(i)
    BY <1>9 DEF GiveBack
  <2>2. LentBlocks' = LentBlocks
    <3>1. m_blocks \in Seq(Blocks) /\ i \in 1..Len(m_blocks)
      BY <1>2 DEF IInv, ListOK, Positions
    <3>2. m_blocks' = RemoveAt(m_blocks, i) /\ m_blocks[i].free
      BY <2>1 DEF ReleaseUnusedHeap
    <3> QED BY <3>1, <3>2, RemoveLendsTheSame, LentOfPool
  <2>3. pc[th] = "giving_back" /\ call' = "release_unused_heaps" /\ UNCHANGED pc
    BY <1>9, <2>1 DEF GiveBack, ReleaseUnusedHeap
  <2>4. pc' = [pc EXCEPT ![th] = "giving_back"]
    BY <1>2, <2>3, StaysPut
  <2> QED BY <1>1, <1>4, <1>5, <2>2, <2>3, <2>4, TrimGoesOn
<1> QED BY <1>6, <1>7, <1>8, <1>9

\* Nothing is held back any more.
LEMMA DrainedKeepsInv ==
    ASSUME AllocatorInv, NEW th \in Threads, Goto(th, "wait_all", "wait_pending"),
           UNCHANGED <<m_mutex, frame, ownersVars, deferredVars, poolVars, deviceVars>>
    PROVE  AllocatorInv'
<1>1. /\ pc[th] = "wait_all" /\ pc' = [pc EXCEPT ![th] = "wait_pending"]
      /\ {"wait_all", "wait_pending"} \subseteq TrimSteps
  BY DEF Goto, TrimSteps
<1>2. IInv /\ call = "none"
  BY <1>1, InTrim
<1>3. IInv' /\ LentBlocks' = LentBlocks
  BY <1>2, PoolStutter
<1>4. call' = "none"
  BY <1>2 DEF poolVars
<1> QED BY <1>1, <1>3, <1>4, TrimGoesOn

\* The destructor goes on to destroy the pool: everything was given back, or
\* a wait of it threw.
LEMMA DestructorLeavesTrim ==
    ASSUME AllocatorInv, NEW th \in Threads, pc[th] \in TrimSteps, Destroys(th),
           pc' = [pc EXCEPT ![th] = "destroy_pool"],
           UNCHANGED <<m_mutex, frame, ownersVars, deferredVars, deviceVars>>,
           IInv', call' = "none", LentBlocks' = LentBlocks
    PROVE  AllocatorInv'
<1>1. /\ Standing /\ Alone(th) /\ ThreadTypes /\ LockInv /\ ListTypes
      /\ frame[th] \in Frames /\ item = 0
  BY InTrim
<1>2. Moves(th, "destroy_pool", frame[th])
  BY <1>1 DEF Moves, ThreadTypes
<1>3. /\ UNCHANGED <<m_mutex, buffers, lost, alive, m_pending>>
      /\ item' = 0 /\ item' \in Nat /\ item' <= Len(m_pending) + 1
  BY <1>1 DEF ownersVars, deferredVars, ListTypes
<1>4. /\ "destroy_pool" \in Steps /\ "destroy_pool" \notin HandSteps \cup RequestSteps
      /\ pc[th] # "record_use" /\ pc[th] \notin HandSteps
  BY StepsOfTrim DEF Steps, PoolSteps, HandSteps, RequestSteps
<1>5. ThreadTypes' /\ LockInv'
  BY <1>1, <1>2, <1>3, <1>4, DestructorMove DEF Destroys
<1>6. Mine(th, "destroy_pool", frame[th]) = Mine(th, pc[th], frame[th])
  BY <1>4 DEF Mine
<1>7. AskedBy("destroy_pool", frame[th]) /\ TakenBy("destroy_pool", frame[th], FreeIn(m_blocks'))
  BY <1>4 DEF AskedBy, TakenBy, Destroys
<1> QED BY <1>1, <1>2, <1>3, <1>4, <1>5, <1>6, <1>7, PoolMove

LEMMA DestructorThrowsKeepsInv ==
    ASSUME AllocatorInv, NEW th \in Threads, DestructorThrows(th)
    PROVE  AllocatorInv'
<1>1. /\ pc[th] \in {"process", "wait_all", "wait_pending", "grow", "cut"}
      /\ Destroys(th) /\ pc' = [pc EXCEPT ![th] = "destroy_pool"]
      /\ UNCHANGED <<m_mutex, frame, ownersVars, deferredVars, poolVars, deviceVars>>
  BY DEF DestructorThrows, MayThrowAt, Destroys
<1>2. pc[th] \in {"wait_all", "wait_pending"}
  <2>1. frame[th].trim_for \in PurposesAt(pc[th])
    BY DEF AllocatorInv, ControlInv, LockInv
  <2> QED BY <1>1, <2>1 DEF PurposesAt, TrimSteps, Destroys
<1>3. pc[th] \in TrimSteps
  BY <1>2 DEF TrimSteps
<1>4. IInv /\ call = "none"
  BY <1>2, <1>3, InTrim
<1>5. IInv' /\ LentBlocks' = LentBlocks
  BY <1>1, <1>4, PoolStutter
<1>6. call' = "none"
  BY <1>1, <1>4 DEF poolVars
<1> QED BY <1>1, <1>3, <1>5, <1>6, DestructorLeavesTrim

LEMMA EndTrimKeepsInv ==
    ASSUME AllocatorInv, NEW th \in Threads, EndTrim(th)
    PROVE  AllocatorInv'
<1>1. /\ pc[th] = "giving_back" /\ EndReleaseUnusedHeaps
      /\ UNCHANGED <<ownersVars, deferredVars, deviceVars>>
      /\ pc[th] \in TrimSteps /\ pc[th] \in LockedSteps
  BY DEF EndTrim, TrimSteps, LockedSteps
<1>2. /\ IInv /\ ListTypes /\ item = 0 /\ frame[th] \in Frames /\ ThreadTypes
      /\ AskedBy(pc[th], frame[th])
  BY <1>1, InTrim
<1>3. PoolLoopStep
  BY <1>1 DEF PoolLoopStep
<1>4. IInv' /\ call' = "none" /\ m_blocks' = m_blocks
  BY <1>1, <1>2, <1>3, NextKeepsIInv DEF PoolNext, EndReleaseUnusedHeaps
<1>5. LentBlocks' = LentBlocks
  BY <1>4, LentOfPool
<1>6. /\ UNCHANGED <<buffers, lost, alive, m_pending, deviceVars>>
      /\ item' = 0 /\ item' \in Nat /\ item' <= Len(m_pending) + 1
  BY <1>1, <1>2 DEF ownersVars, deferredVars, ListTypes
<1>7. CASE frame[th].trim_for = "trim" /\ Return(th) /\ Unlock
  <2>1. Moves(th, "idle", EmptyFrame) /\ m_mutex' = NoThread
    BY <1>7 DEF Return, Moves, Unlock
  <2>2. AskedBy("idle", EmptyFrame) /\ TakenBy("idle", EmptyFrame, FreeIn(m_blocks'))
    BY EmptyFrameParts DEF AskedBy, TakenBy, RequestSteps
  <2>3. EmptyFrame.trim_for \in PurposesAt("idle") /\ EmptyFrame.trim_for # "destructor"
    BY EmptyFrameParts, StepsOutside
  <2>4. "idle" \in LockedSteps \cup {"idle"}
        /\ "idle" \notin {"recycle", "process", "reset_pending", "giving_back"}
        /\ pc[th] # "recycle" /\ frame[th].trim_for # "destructor"
    BY <1>1, <1>7
  <2> QED BY <1>1, <1>4, <1>5, <1>6, <2>1, <2>2, <2>3, <2>4, EmptyFrameParts, LockedMove
<1>8. CASE /\ frame[th].trim_for = "allocate"
           /\ Goto(th, "giving_back", "search_again")
           /\ UNCHANGED <<m_mutex, frame>>
  <2>1. Moves(th, "search_again", frame[th])
    BY <1>2, <1>8 DEF Goto, Moves, ThreadTypes
  <2>2. AskedBy("search_again", frame[th]) /\ TakenBy("search_again", frame[th], FreeIn(m_blocks'))
    BY <1>2, <1>8 DEF AskedBy, TakenBy
  <2>3. "search_again" \in LockedSteps /\ frame[th].trim_for \in PurposesAt("search_again")
    BY <1>8, StepsOfPool
  <2>4. "search_again" \in LockedSteps \cup {"idle"}
        /\ "search_again" \notin {"idle", "recycle", "process", "reset_pending", "giving_back"}
        /\ pc[th] # "recycle" /\ frame[th].trim_for # "destructor"
    BY <1>1, <1>8, <2>3
  <2> QED BY <1>1, <1>2, <1>4, <1>5, <1>6, <1>8, <2>1, <2>2, <2>3, <2>4, LockedMove
<1>9. CASE /\ frame[th].trim_for = "destructor"
           /\ Goto(th, "giving_back", "destroy_pool")
           /\ UNCHANGED <<m_mutex, frame>>
  BY <1>1, <1>4, <1>5, <1>9, DestructorLeavesTrim DEF Goto, Destroys
<1> QED BY <1>7, <1>8, <1>9 DEF EndTrim

LEMMA StartDestroyKeepsInv ==
    ASSUME AllocatorInv, NEW th \in Threads, StartDestroy(th)
    PROVE  AllocatorInv'
<1> DEFINE locals == [EmptyFrame EXCEPT !.trim_for = "destructor"]
<1>1. /\ pc[th] = "idle" /\ alive /\ alive' = FALSE /\ buffers = {}
      /\ \A other \in Threads : pc[other] = "idle"
      /\ Moves(th, "wait_all", locals)
      /\ UNCHANGED <<m_mutex, buffers, lost, deferredVars, poolVars, deviceVars>>
  BY DEF StartDestroy, Begin, Goto, Moves
<1>2. /\ locals \in Frames /\ locals.trim_for = "destructor"
  BY DEF EmptyFrame, Frames, Purposes
<1> HIDE DEF locals
<1>3. Standing
  BY <1>1 DEF Standing
<1>4. /\ ThreadTypes /\ LockInv /\ LoopInv /\ ListTypes /\ IInv
  BY <1>3 DEF AllocatorInv, ControlInv, StandingInv
<1>5. /\ "wait_all" \in TrimSteps /\ "wait_all" \in Steps /\ "wait_all" \in LockedSteps
      /\ "idle" \notin LockedSteps /\ "idle" \notin PoolSteps /\ "idle" \notin HandSteps
      /\ "wait_all" \notin HandSteps \cup RequestSteps
      /\ "destructor" \in PurposesAt("wait_all") /\ "none" \in PurposesAt("idle")
      /\ EmptyFrame.trim_for = "none"
  BY StepsOfTrim, StepsOutside, EmptyFrameParts DEF TrimSteps
<1>6. /\ pc' \in [Threads -> Steps] /\ frame' \in [Threads -> Frames]
      /\ pc'[th] = "wait_all" /\ frame'[th] = locals
      /\ \A other \in Threads : other # th => pc'[other] = pc[other]
                                              /\ frame'[other] = frame[other]
  BY <1>1, <1>2, <1>4, <1>5, AfterMove
<1>7. ThreadTypes'
  BY <1>1, <1>4, <1>6 DEF ThreadTypes
<1>8. \A other \in Threads : m_mutex' # other
  BY <1>1, <1>4, <1>5 DEF LockInv
<1>9. \A other \in Threads : other # th => pc'[other] = "idle" /\ frame'[other] = EmptyFrame
  BY <1>1, <1>4, <1>6 DEF LockInv
<1>10. EmptyFrame' = EmptyFrame
  BY DEF EmptyFrame
<1>11. LockInv'
  BY <1>1, <1>2, <1>5, <1>6, <1>8, <1>9, <1>10 DEF LockInv, Destroys
<1>12. Alone(th)
  BY <1>1, <1>5 DEF Alone
<1>13. /\ call # "reset_pending" /\ call # "release_unused_heaps" /\ item = 0
  BY <1>1, <1>4 DEF LoopInv
<1>14. IInv' /\ LentBlocks' = LentBlocks
  BY <1>1, <1>4, PoolStutter
<1>15. /\ call' = call /\ item' = 0 /\ m_pending' = m_pending
       /\ item' \in Nat /\ item' <= Len(m_pending) + 1
  BY <1>1, <1>4, <1>13 DEF poolVars, deferredVars, ListTypes
<1>16. AskedBy("wait_all", locals) /\ TakenBy("wait_all", locals, FreeIn(m_blocks'))
  BY <1>2, <1>5 DEF AskedBy, TakenBy
<1>17. Mine(th, "wait_all", locals) = Mine(th, pc[th], frame[th])
  BY <1>1, <1>5 DEF Mine
<1>18. /\ "wait_all" \notin {"reset_pending", "giving_back", "process", "record_use",
                             "set_pending", "idle"}
       /\ pc[th] # "record_use"
  BY <1>1
<1> QED BY <1>1, <1>2, <1>3, <1>5, <1>7, <1>11, <1>12, <1>13, <1>14, <1>15, <1>16, <1>17,
           <1>18, PoolMove

----------------------------------------------------------------------------
(* Steps that change who owns a block, or what for.                        *)

LEMMA OwnersAgain ==
    ASSUME Owned(Claims', Notes', LentBlocks', issued', running'), HeldOnce(m_pending')
    PROVE  OwnersInv'
<1>1. OwnersInv' <=> Owned(Claims', Notes', LentBlocks', issued', running') /\ HeldOnce(m_pending')
  BY DEF OwnersInv, Owned, HeldOnce, ClaimOK, NoteOK, CoversUses, TokensFor, NotedFor, Given,
         Overlaps, Covers, SpanOf, AddressOf, IsEmpty
<1> QED BY <1>1

BufferClaims == EntryClaims("buffer", buffers)
HeldClaims == EntryClaims("held", EntriesOf(m_pending))
LostClaims == EntryClaims("lost", lost)
InHand == HandClaims(pc, frame)

LEMMA ClaimsByKind ==
    /\ Claims = BufferClaims \cup HeldClaims \cup LostClaims \cup InHand
    /\ Claims' = EntryClaims("buffer", buffers') \cup EntryClaims("held", EntriesOf(m_pending'))
                 \cup EntryClaims("lost", lost') \cup HandClaims(pc', frame')
    /\ BufferClaims \cap (HeldClaims \cup LostClaims \cup InHand) = {}
    /\ HeldClaims \cap (BufferClaims \cup LostClaims \cup InHand) = {}
    /\ LostClaims \cap (BufferClaims \cup HeldClaims \cup InHand) = {}
    /\ InHand \cap (BufferClaims \cup HeldClaims \cup LostClaims) = {}
    /\ \A c \in BufferClaims : c.kind = "buffer"
    /\ \A c \in HeldClaims : c.kind = "held"
    /\ \A c \in LostClaims : c.kind = "lost"
    /\ \A c \in InHand : c.kind \in {"fresh", "recycled"}
<1>1. Claims = BufferClaims \cup HeldClaims \cup LostClaims \cup InHand
  BY DEF Claims, ClaimsOf, BufferClaims, HeldClaims, LostClaims, InHand
<1>2. Claims' = EntryClaims("buffer", buffers') \cup EntryClaims("held", EntriesOf(m_pending'))
                \cup EntryClaims("lost", lost') \cup HandClaims(pc', frame')
  BY DEF Claims, ClaimsOf, EntryClaims, EntryClaim, EntriesOf, HandClaims, HandClaim
<1>3. /\ \A c \in BufferClaims : c.kind = "buffer"
      /\ \A c \in HeldClaims : c.kind = "held"
      /\ \A c \in LostClaims : c.kind = "lost"
      /\ \A c \in InHand : c.kind \in {"fresh", "recycled"}
  BY KindsApart DEF BufferClaims, HeldClaims, LostClaims, InHand
<1> QED BY <1>1, <1>2, <1>3

\* Control, for a thread that is outside of the pool and stays there.
LEMMA OutsideControl ==
    ASSUME AllocatorInv, alive,
           NEW th \in Threads, NEW to \in Steps, NEW locals \in Frames, Moves(th, to, locals),
           pc[th] \notin PoolSteps, to \notin PoolSteps,
           locals.trim_for \in PurposesAt(to), locals.trim_for # "destructor",
           to = "idle" => locals = EmptyFrame,
           UNCHANGED <<m_mutex, alive, call, item>>
    PROVE  ThreadTypes' /\ LockInv' /\ LoopInv' /\ Standing'
<1>1. ThreadTypes /\ LockInv /\ LoopInv
  BY DEF AllocatorInv, ControlInv
<1>2. LockedSteps \subseteq PoolSteps
  BY DEF PoolSteps
<1>3. ThreadTypes' /\ LockInv'
  BY <1>1, <1>2, LiveMove
<1>4. LoopInv'
  BY <1>1, LoopOutside
<1> QED BY <1>3, <1>4 DEF Standing

\* Control, for a thread that leaves the pool and its lock.
LEMMA LeaveControl ==
    ASSUME AllocatorInv, NEW th \in Threads, pc[th] \in {"acquire", "recycle"},
           NEW to \in {"settle", "idle"}, NEW locals \in Frames, Moves(th, to, locals),
           locals.trim_for = "none", to = "idle" => locals = EmptyFrame,
           m_mutex' = NoThread, UNCHANGED <<alive, call, item>>
    PROVE  ThreadTypes' /\ LockInv' /\ LoopInv' /\ Standing'
<1>1. /\ pc[th] \in LockedSteps /\ PurposesAt(pc[th]) \subseteq {"none", "allocate"}
      /\ pc[th] \notin {"reset_pending", "giving_back", "process"}
  BY StepsOfPool
<1>2. frame[th].trim_for # "destructor"
  BY <1>1 DEF AllocatorInv, ControlInv, LockInv
<1>3. /\ alive /\ Alone(th) /\ m_mutex = th /\ ThreadTypes /\ LockInv
      /\ call # "reset_pending" /\ call # "release_unused_heaps" /\ item = 0
  BY <1>1, <1>2, LiveInPool
<1>4. to \in Steps /\ to \notin LockedSteps /\ "none" \in PurposesAt(to)
      /\ to \notin {"reset_pending", "giving_back", "process"}
  BY StepsOutside
<1>5. ThreadTypes' /\ LockInv'
  BY <1>1, <1>3, <1>4, LiveMove
<1>6. LoopInv'
  BY <1>3, <1>4, LoopAfterMove
<1> QED BY <1>3, <1>5, <1>6 DEF Standing

\* Control, when no thread moves.
LEMMA StillControl ==
    ASSUME AllocatorInv, Standing, UNCHANGED <<pc, frame, m_mutex, buffers, alive, call>>,
           item' # 0 <=> item # 0
    PROVE  ThreadTypes' /\ LockInv' /\ LoopInv' /\ Standing'
<1>1. ThreadTypes /\ LockInv /\ LoopInv
  BY DEF AllocatorInv, ControlInv
<1>2. ThreadTypes'
  BY <1>1 DEF ThreadTypes
<1>3. LockInv'
  BY <1>1 DEF LockInv, Destroys, EmptyFrame
<1>4. LoopInv'
  BY <1>1 DEF LoopInv
<1> QED BY <1>2, <1>3, <1>4 DEF Standing

LEMMA FewTokens ==
    ASSUME NEW tokens, IsFiniteSet(tokens), Cardinality(tokens) < 2
    PROVE  tokens = {} \/ tokens = {TokenOf(tokens)}
<1>1. CASE tokens = {}
  BY <1>1
<1>2. CASE tokens # {}
  <2>1. PICK token \in tokens : TRUE
    BY <1>2
  <2>2. IsFiniteSet(tokens \ {token}) /\ Cardinality(tokens \ {token}) = Cardinality(tokens) - 1
    BY <2>1, FS_RemoveElement
  <2>3. Cardinality(tokens) \in Nat /\ Cardinality(tokens \ {token}) \in Nat
    BY <2>2, FS_CardinalityType
  <2>4. Cardinality(tokens \ {token}) = 0
    BY <2>2, <2>3
  <2>5. tokens \ {token} = {}
    BY <2>2, <2>4, FS_EmptySet
  <2>6. tokens = {token}
    BY <2>5
  <2> QED BY <1>2, <2>6 DEF TokenOf
<1> QED BY <1>1, <1>2

\* Waiting for complete tokens is waiting for nothing.
LEMMA CompleteCoverNothing ==
    ASSUME DeviceTypeOK, NEW tokens \in SUBSET PendingTokens, NEW span,
           \A token \in tokens : IsComplete(token), CoversUses(tokens, span, running)
    PROVE  \A use \in running : ~Overlaps(use, span)
<1> SUFFICES ASSUME NEW use \in running, Overlaps(use, span) PROVE FALSE
  OBVIOUS
<1>1. PICK token \in tokens : Covers(token, use)
  BY DEF CoversUses
<1>2. /\ use.timeline \in Timelines /\ use.id \in Nat
      /\ finished[use.timeline] \in Nat /\ finished[use.timeline] <= use.id
  BY DEF DeviceTypeOK
<1>3. token.timeline = use.timeline /\ use.id <= token.id
  BY <1>1 DEF Covers
<1>4. ~IsEmpty(token)
  BY <1>2, <1>3, NoTimelineAssumption DEF IsEmpty
<1>5. token \in Tokens
  BY <1>4 DEF PendingTokens, IsEmpty, NoToken
<1>6. token.id \in Nat /\ token.id < finished[use.timeline]
  BY <1>3, <1>4, <1>5 DEF Tokens, IsComplete
<1> QED BY <1>2, <1>3, <1>6

\* A claim of a kind other than a buffer's has all it needs in its tokens.
LEMMA ClaimCovers ==
    ASSUME IInv, OwnersInv, NEW c \in Claims, c.kind # "buffer",
           NEW i, i = PositionOf(c.block)
    PROVE  /\ c.kind = "fresh"
                 => CoversUses({m_blocks[i].pending}, SpanOf(m_blocks[i]), running)
           /\ c.kind # "fresh" => CoversUses(c.tokens, SpanOf(m_blocks[i]), running)
<1> DEFINE loan == LoanOf(m_blocks[i])
<1>1. loan \in LentBlocks /\ AddressOf(loan) = c.block
  BY ClaimedPosition
<1>2. NotedFor(c.block, Notes) = {}
  <2>1. \A n \in Notes : n.block # c.block
    BY DEF OwnersInv, Owned, NoteOK
  <2> QED BY <2>1 DEF NotedFor
<1>3. CoversUses(TokensFor(c, loan, Notes), SpanOf(loan), running)
  BY <1>1 DEF OwnersInv, Owned
<1>4. SpanOf(loan) = SpanOf(m_blocks[i]) /\ loan.pending = m_blocks[i].pending
  BY LoanParts
<1>5. TokensFor(c, loan, Notes) = IF c.kind = "fresh" THEN {loan.pending} ELSE c.tokens
  BY <1>2 DEF TokensFor
<1> QED BY <1>3, <1>4, <1>5

\* Whoever has a claim may release the block with a token that covers its uses.
LEMMA ClaimReturned ==
    ASSUME IInv, OwnersInv, CommandsBounded, call = "none",
           NEW c \in Claims, c.kind # "buffer", NEW i, i = PositionOf(c.block),
           NEW pending \in PendingTokens, Given(pending, issued),
           CoversUses({pending}, SpanOf(m_blocks[i]), running),
           Release(i, pending), UNCHANGED deviceVars
    PROVE  /\ CallRelease
           /\ LentBlocks' = LentBlocks \ {LoanOf(m_blocks[i])}
           /\ Owned(Claims \ {c}, Notes, LentBlocks', issued, running)
<1>1. /\ i \in Positions /\ ~m_blocks[i].free
      /\ LoanOf(m_blocks[i]) \in LentBlocks /\ AddressOf(LoanOf(m_blocks[i])) = c.block
  BY ClaimedPosition
<1>2. pending \in IssuedTokens \cup {NoToken}
  <2>1. CASE IsEmpty(pending)
    <3>1. pending = NoToken
      BY <2>1, NoTimelineAssumption DEF PendingTokens, IsEmpty, Tokens
    <3> QED BY <3>1
  <2>2. CASE ~IsEmpty(pending)
    <3>1. pending \in Tokens
      BY <2>2 DEF PendingTokens, IsEmpty, NoToken
    <3>2. /\ pending.timeline \in Timelines /\ pending.id \in Nat
          /\ pending = [timeline |-> pending.timeline, id |-> pending.id]
      BY <3>1 DEF Tokens
    <3>3. /\ pending.id < issued[pending.timeline] /\ issued[pending.timeline] <= MaxCommands
          /\ issued[pending.timeline] \in Nat
      BY <2>2, <3>2 DEF Given, CommandsBounded, IInv, PoolTypeOK, DeviceTypeOK
    <3>4. pending.id \in 0..MaxCommands - 1
      BY <3>2, <3>3, MaxCommandsAssumption
    <3> QED BY <3>2, <3>4 DEF IssuedTokens
  <2> QED BY <2>1, <2>2
<1>3. AllUsesCovered({pending}, SpanOf(m_blocks[i]))
  BY DEF AllUsesCovered, CoversUses
<1>4. CallRelease
  BY <1>1, <1>2, <1>3 DEF CallRelease, Given
<1>5. LentBlocks' = LentBlocks \ {LoanOf(m_blocks[i])}
  <2>1. /\ m_blocks \in Seq(Blocks) /\ m_heaps \in [Heaps -> Nat] /\ Tiles(m_blocks, m_heaps)
        /\ i \in 1..Len(m_blocks)
    BY <1>1 DEF IInv, ListOK, PoolTypeOK, Positions
  <2>2. m_blocks' = ConsiderMergingBlock(m_blocks, i, pending)
    BY DEF Release
  <2> QED BY <2>1, <2>2, ReleaseTakesBack, LentOfPool
<1>6. \A other \in LentBlocks : AddressOf(other) = AddressOf(LoanOf(m_blocks[i]))
                                => other = LoanOf(m_blocks[i])
  BY <1>1, LoansNamed
<1>7. Owned(Claims, Notes, LentBlocks, issued, running)
  BY DEF OwnersInv
<1>8. Owned(Claims \ {c}, Notes, LentBlocks \ {LoanOf(m_blocks[i])}, issued, running)
  BY <1>1, <1>6, <1>7, OwnedAfterReturn
<1> QED BY <1>4, <1>5, <1>8

\* A set of fewer than two tokens says as much as the token taken from it.
LEMMA FewTokensCover ==
    ASSUME NEW c, NEW given, ClaimOK(c, given), Cardinality(c.tokens) < 2,
           NEW span, NEW uses, CoversUses(c.tokens, span, uses)
    PROVE  /\ TokenOf(c.tokens) \in PendingTokens
           /\ Given(TokenOf(c.tokens), given)
           /\ CoversUses({TokenOf(c.tokens)}, span, uses)
<1>1. c.tokens = {} \/ c.tokens = {TokenOf(c.tokens)}
  BY FewTokens DEF ClaimOK
<1>2. CASE c.tokens = {}
  <2>1. TokenOf(c.tokens) = NoToken
    BY <1>2 DEF TokenOf
  <2> QED BY <1>2, <2>1 DEF PendingTokens, Given, IsEmpty, NoToken, CoversUses
<1>3. CASE c.tokens = {TokenOf(c.tokens)}
  BY <1>3 DEF ClaimOK
<1> QED BY <1>1, <1>2, <1>3

----------------------------------------------------------------------------
(* The list of what is held back.                                          *)

LEMMA HeldAreEntries ==
    ASSUME NEW list \in Seq(Entries), NEW k \in 1..Len(list)
    PROVE  /\ list[k] \in Entries /\ list[k] \in EntriesOf(list)
           /\ EntriesOf(list) \in SUBSET Entries
BY DEF EntriesOf

LEMMA RemoveHeld ==
    ASSUME NEW list \in Seq(Entries), HeldOnce(list), NEW k \in 1..Len(list),
           NEW shorter, shorter = RemoveAt(list, k)
    PROVE  /\ shorter \in Seq(Entries) /\ Len(shorter) = Len(list) - 1
           /\ HeldOnce(shorter)
           /\ EntriesOf(shorter) = EntriesOf(list) \ {list[k]}
<1>1. /\ shorter \in Seq(Entries) /\ Len(shorter) = Len(list) - 1
      /\ \A j \in 1..Len(list) - 1 : shorter[j] = IF j < k THEN list[j] ELSE list[j + 1]
  BY RemoveAtIndex
<1> DEFINE from(j) == IF j < k THEN j ELSE j + 1
<1>2. \A j \in 1..Len(list) - 1 :
          from(j) \in 1..Len(list) /\ from(j) # k /\ shorter[j] = list[from(j)]
  BY <1>1
<1>3. \A j, l \in 1..Len(list) - 1 : from(j) = from(l) => j = l
  OBVIOUS
<1>4. \A l \in 1..Len(list) : l # k => \E j \in 1..Len(list) - 1 : from(j) = l
  <2> SUFFICES ASSUME NEW l \in 1..Len(list), l # k
               PROVE  \E j \in 1..Len(list) - 1 : from(j) = l
    OBVIOUS
  <2>1. CASE l < k
    <3>1. l \in 1..Len(list) - 1 /\ from(l) = l
      BY <2>1
    <3> QED BY <3>1
  <2>2. CASE ~(l < k)
    <3>1. l - 1 \in 1..Len(list) - 1 /\ from(l - 1) = l
      BY <2>2
    <3> QED BY <3>1
  <2> QED BY <2>1, <2>2
<1> HIDE DEF from
<1>5. \A j, l \in 1..Len(list) : list[j].block = list[l].block => j = l
  BY DEF HeldOnce
<1>6. HeldOnce(shorter)
  BY <1>1, <1>2, <1>3, <1>5 DEF HeldOnce
<1>7. EntriesOf(shorter) = EntriesOf(list) \ {list[k]}
  <2>1. EntriesOf(shorter) = {shorter[j] : j \in 1..Len(list) - 1}
    BY <1>1 DEF EntriesOf
  <2>2. \A l \in 1..Len(list) : l # k => list[l] # list[k]
    BY <1>5
  <2>3. ASSUME NEW e \in EntriesOf(shorter)
        PROVE  e \in EntriesOf(list) \ {list[k]}
    <3>1. PICK j \in 1..Len(list) - 1 : e = shorter[j]
      BY <2>1
    <3>2. from(j) \in 1..Len(list) /\ from(j) # k /\ e = list[from(j)]
      BY <1>2, <3>1
    <3> QED BY <2>2, <3>2 DEF EntriesOf
  <2>4. ASSUME NEW e \in EntriesOf(list) \ {list[k]}
        PROVE  e \in EntriesOf(shorter)
    <3>1. PICK l \in 1..Len(list) : e = list[l] /\ l # k
      BY DEF EntriesOf
    <3>2. PICK j \in 1..Len(list) - 1 : from(j) = l
      BY <1>4, <3>1
    <3> QED BY <1>2, <2>1, <3>1, <3>2
  <2> QED BY <2>3, <2>4
<1> QED BY <1>1, <1>6, <1>7

LEMMA TailHeld ==
    ASSUME NEW list \in Seq(Entries), HeldOnce(list), list # <<>>
    PROVE  /\ 1 \in 1..Len(list) /\ Head(list) = list[1]
           /\ Tail(list) \in Seq(Entries) /\ Len(Tail(list)) = Len(list) - 1
           /\ HeldOnce(Tail(list))
           /\ EntriesOf(Tail(list)) = EntriesOf(list) \ {list[1]}
<1>1. /\ Len(list) \in Nat /\ Len(list) >= 1 /\ Head(list) = list[1]
      /\ Tail(list) \in Seq(Entries) /\ Len(Tail(list)) = Len(list) - 1
      /\ \A j \in 1..Len(list) - 1 : Tail(list)[j] = list[j + 1]
  OBVIOUS
<1>2. \A j, l \in 1..Len(list) : list[j].block = list[l].block => j = l
  BY DEF HeldOnce
<1>3. \A j, l \in 1..Len(list) - 1 : list[j + 1].block = list[l + 1].block => j = l
  <2> SUFFICES ASSUME NEW j \in 1..Len(list) - 1, NEW l \in 1..Len(list) - 1,
                      list[j + 1].block = list[l + 1].block
               PROVE  j = l
    OBVIOUS
  <2>1. j + 1 \in 1..Len(list) /\ l + 1 \in 1..Len(list)
    BY <1>1
  <2> QED BY <1>2, <2>1
<1> DEFINE t == Tail(list)
<1>4. t \in Seq(Entries) /\ Len(t) = Len(list) - 1
      /\ \A j \in 1..Len(list) - 1 : t[j] = list[j + 1]
  BY <1>1
<1> HIDE DEF t
<1>5. HeldOnce(t)
  BY <1>3, <1>4 DEF HeldOnce
<1>6. EntriesOf(t) = EntriesOf(list) \ {list[1]}
  <2>1. EntriesOf(t) = {list[j + 1] : j \in 1..Len(list) - 1}
    BY <1>4 DEF EntriesOf
  <2>2. \A l \in 1..Len(list) : l # 1 => l - 1 \in 1..Len(list) - 1 /\ l - 1 + 1 = l
    BY <1>1
  <2>3. \A j \in 1..Len(list) - 1 : j + 1 \in 1..Len(list) /\ j + 1 # 1
    BY <1>1
  <2>4. \A l \in 1..Len(list) : l # 1 => list[l] # list[1]
    <3>1. 1 \in 1..Len(list)
      BY <1>1
    <3> QED BY <1>2, <3>1
  <2> QED BY <2>1, <2>2, <2>3, <2>4 DEF EntriesOf
<1> QED BY <1>1, <1>5, <1>6 DEF t

LEMMA AppendHeld ==
    ASSUME NEW list \in Seq(Entries), HeldOnce(list), NEW entry \in Entries,
           \A other \in EntriesOf(list) : other.block # entry.block,
           NEW longer, longer = Append(list, entry)
    PROVE  /\ longer \in Seq(Entries) /\ Len(longer) = Len(list) + 1
           /\ HeldOnce(longer)
           /\ EntriesOf(longer) = EntriesOf(list) \cup {entry}
<1>1. /\ longer \in Seq(Entries) /\ Len(longer) = Len(list) + 1 /\ Len(list) \in Nat
      /\ longer[Len(list) + 1] = entry
      /\ \A j \in 1..Len(list) : longer[j] = list[j]
  OBVIOUS
<1>2. \A j \in 1..Len(list) : list[j].block # entry.block
  BY DEF EntriesOf
<1>3. \A j \in 1..Len(longer) : j \in 1..Len(list) \/ j = Len(list) + 1
  BY <1>1
<1>4. Len(list) + 1 \in 1..Len(longer) /\ \A j \in 1..Len(list) : j \in 1..Len(longer)
  BY <1>1
<1>5. HeldOnce(longer)
  BY <1>1, <1>2, <1>3 DEF HeldOnce
<1>6. EntriesOf(longer) = EntriesOf(list) \cup {entry}
  BY <1>1, <1>3, <1>4 DEF EntriesOf
<1> QED BY <1>1, <1>5, <1>6

\* An entry loses tokens.
LEMMA ReplaceHeld ==
    ASSUME NEW list \in Seq(Entries), HeldOnce(list), NEW k \in 1..Len(list),
           NEW entry \in Entries, entry.block = list[k].block,
           NEW changed, ChangedAt(list, changed, k, entry)
    PROVE  /\ HeldOnce(changed)
           /\ EntriesOf(changed) = (EntriesOf(list) \ {list[k]}) \cup {entry}
<1>1. /\ Len(changed) = Len(list)
      /\ \A j \in 1..Len(list) : changed[j] = IF j = k THEN entry ELSE list[j]
  BY DEF ChangedAt
<1>2. \A j \in 1..Len(list) : changed[j].block = list[j].block
  BY <1>1
<1>3. HeldOnce(changed)
  BY <1>1, <1>2 DEF HeldOnce
<1>4. \A j \in 1..Len(list) : j # k => list[j] # list[k]
  BY DEF HeldOnce
<1>5. EntriesOf(changed) = (EntriesOf(list) \ {list[k]}) \cup {entry}
  BY <1>1, <1>4 DEF EntriesOf
<1> QED BY <1>3, <1>5

----------------------------------------------------------------------------
(* process and wait_all: blocks that were held back go back to the pool.   *)

LEMMA InDrain ==
    ASSUME AllocatorInv, NEW th \in Threads, pc[th] \in {"process", "wait_all"}
    PROVE  /\ Standing /\ Alone(th) /\ ThreadTypes /\ ListTypes /\ CommandsBounded
           /\ IInv /\ OwnersInv /\ ThreadsKnow /\ frame[th] \in Frames
           /\ call = "none"
           /\ item # 0 <=> pc[th] = "process"
           /\ AskedBy(pc[th], frame[th])
<1>0. CommandsBounded
  BY DEF AllocatorInv
<1>1. CASE pc[th] = "process"
  <2>1. /\ pc[th] \in LockedSteps /\ PurposesAt(pc[th]) = {"none"}
        /\ pc[th] \notin {"reset_pending", "giving_back"}
    BY <1>1, StepsOfPool
  <2>2. frame[th].trim_for # "destructor"
    BY <2>1 DEF AllocatorInv, ControlInv, LockInv
  <2>3. IInv /\ call # "reset_pending" /\ call # "release_unused_heaps"
    BY <2>1, <2>2, LiveInPool
  <2>4. call = "none"
    BY <2>3, PoolIsQuiet
  <2> QED BY <1>0, <2>1, <2>2, <2>4, LiveInPool
<1>2. CASE pc[th] = "wait_all"
  <2>1. pc[th] \in TrimSteps /\ pc[th] \notin {"reset_pending", "giving_back", "process"}
    BY <1>2 DEF TrimSteps
  <2> QED BY <1>0, <2>1, InTrim
<1> QED BY <1>1, <1>2

\* Nobody moves, and no loan appears or changes.
LEMMA DrainKnows ==
    ASSUME AllocatorInv, NEW th \in Threads, pc[th] \in {"process", "wait_all"},
           UNCHANGED <<pc, frame, finished>>, LentBlocks' \subseteq LentBlocks
    PROVE  ThreadsKnow'
<1>1. /\ Alone(th) /\ ThreadTypes /\ ThreadsKnow /\ frame[th] \in Frames
      /\ AskedBy(pc[th], frame[th])
  BY InDrain
<1>2. pc[th] \in Steps /\ Moves(th, pc[th], frame[th])
  BY <1>1 DEF ThreadTypes, Moves
<1>3. /\ TakenBy(pc[th], frame[th], FreeIn(m_blocks'))
      /\ SeenBy(pc[th], frame[th], LentBlocks', finished)
  BY DEF TakenBy, SeenBy
<1> QED BY <1>1, <1>2, <1>3, KnowAfterMove

LEMMA HeldReturnedKeepsInv ==
    ASSUME AllocatorInv, NEW th \in Threads, pc[th] \in {"process", "wait_all"},
           NEW k \in 1..Len(m_pending), NEW i, i = PositionOf(m_pending[k].block),
           NEW pending \in PendingTokens, Given(pending, issued),
           CoversUses({pending}, SpanOf(m_blocks[i]), running), Release(i, pending),
           m_pending' \in Seq(Entries), HeldOnce(m_pending'),
           Len(m_pending') = Len(m_pending) - 1,
           EntriesOf(m_pending') = EntriesOf(m_pending) \ {m_pending[k]},
           item' \in Nat, item' <= Len(m_pending), item' # 0 <=> item # 0,
           UNCHANGED <<pc, frame, m_mutex, ownersVars, deviceVars>>
    PROVE  AllocatorInv'
<1>1. /\ Standing /\ ThreadTypes /\ ListTypes /\ CommandsBounded /\ IInv /\ OwnersInv
      /\ call = "none"
  BY InDrain
<1>2. m_pending \in Seq(Entries)
  BY <1>1 DEF ListTypes
<1> DEFINE c == EntryClaim("held", m_pending[k])
<1>3. /\ m_pending[k] \in Entries /\ m_pending[k] \in EntriesOf(m_pending)
      /\ EntriesOf(m_pending) \in SUBSET Entries
  BY <1>2, HeldAreEntries
<1>4. c \in HeldClaims /\ c \in Claims /\ c.kind = "held" /\ c.block = m_pending[k].block
  BY <1>3, ClaimsByKind, ClaimParts DEF HeldClaims, EntryClaims
<1>5. EntryClaims("held", EntriesOf(m_pending')) = HeldClaims \ {c}
  BY <1>3, EntryClaimsChange DEF HeldClaims
<1> HIDE DEF c
<1>6. /\ CallRelease
      /\ LentBlocks' = LentBlocks \ {LoanOf(m_blocks[i])}
      /\ Owned(Claims \ {c}, Notes, LentBlocks', issued, running)
  BY <1>1, <1>4, ClaimReturned, Zenon
<1>7. /\ UNCHANGED <<buffers, lost, alive, issued, finished, running>> /\ call' = call
  BY DEF ownersVars, deviceVars, Release
<1>8. Claims' = Claims \ {c}
  <2>1. Claims' = BufferClaims \cup (HeldClaims \ {c}) \cup LostClaims \cup InHand
    BY <1>5, <1>7, ClaimsByKind DEF BufferClaims, LostClaims, InHand
  <2> QED BY <1>4, <2>1, ClaimsByKind
<1>9. Notes' = Notes
  BY DEF Notes, NotesOf
<1>10. OwnersInv'
  BY <1>6, <1>7, <1>8, <1>9, OwnersAgain
<1>11. ThreadsKnow'
  BY <1>6, <1>7, DrainKnows
<1>12. IInv'
  BY <1>1, <1>6, ReleaseKeepsIInv
<1>13. ThreadTypes' /\ LockInv' /\ LoopInv' /\ Standing'
  BY <1>1, <1>7, StillControl
<1>14. ListTypes'
  <2>1. item' <= Len(m_pending') + 1
    BY <1>2
  <2> QED BY <1>1, <1>7, <2>1 DEF ListTypes, Entries, Addresses, Tokens
<1>15. CommandsBounded'
  BY <1>1, <1>7 DEF CommandsBounded
<1> QED BY <1>10, <1>11, <1>12, <1>13, <1>14, <1>15, StandsAgain

\* The claim of an entry of the list.
LEMMA HeldClaimIs ==
    ASSUME ListTypes, OwnersInv, IInv, NEW k \in 1..Len(m_pending),
           NEW i, i = PositionOf(m_pending[k].block),
           NEW c, c = EntryClaim("held", m_pending[k])
    PROVE  /\ m_pending[k] \in Entries /\ c \in Claims /\ c.kind = "held"
           /\ c.block = m_pending[k].block /\ c.tokens = m_pending[k].tokens
           /\ ClaimOK(c, issued)
           /\ CoversUses(c.tokens, SpanOf(m_blocks[i]), running)
<1>1. m_pending[k] \in Entries /\ m_pending[k] \in EntriesOf(m_pending)
  BY HeldAreEntries DEF ListTypes
<1>2. c \in Claims /\ c.kind = "held" /\ c.block = m_pending[k].block
      /\ c.tokens = m_pending[k].tokens
  BY <1>1, ClaimsByKind, ClaimParts DEF HeldClaims, EntryClaims
<1>3. ClaimOK(c, issued)
  BY <1>2 DEF OwnersInv, Owned
<1>4. CoversUses(c.tokens, SpanOf(m_blocks[i]), running)
  BY <1>2, ClaimCovers
<1> QED BY <1>1, <1>2, <1>3, <1>4

LEMMA ReleaseReadyKeepsInv ==
    ASSUME AllocatorInv, NEW th \in Threads, pc[th] = "process", ReleaseReady,
           UNCHANGED <<pc, m_mutex, frame, ownersVars, deviceVars>>
    PROVE  AllocatorInv'
<1>1. PICK k \in 1..Len(m_pending) :
          /\ Ready(m_pending[k])
          /\ Release(PositionOf(m_pending[k].block), TokenOf(m_pending[k].tokens))
          /\ m_pending' = RemoveAt(m_pending, k)
          /\ item' = item - 1
  BY DEF ReleaseReady
<1>2. /\ ListTypes /\ IInv /\ OwnersInv /\ item # 0
  BY InDrain
<1>3. /\ m_pending \in Seq(Entries) /\ HeldOnce(m_pending) /\ Len(m_pending) \in Nat
      /\ item \in Nat /\ item <= Len(m_pending) + 1
  BY <1>2 DEF ListTypes, OwnersInv
<1> DEFINE c == EntryClaim("held", m_pending[k])
           i == PositionOf(m_pending[k].block)
<1>4. /\ c.tokens = m_pending[k].tokens /\ ClaimOK(c, issued)
      /\ CoversUses(c.tokens, SpanOf(m_blocks[i]), running)
  BY <1>2, HeldClaimIs
<1> HIDE DEF c
<1>5. /\ TokenOf(c.tokens) \in PendingTokens /\ Given(TokenOf(c.tokens), issued)
      /\ CoversUses({TokenOf(c.tokens)}, SpanOf(m_blocks[i]), running)
  BY <1>1, <1>4, FewTokensCover DEF Ready
<1>6. /\ m_pending' \in Seq(Entries) /\ Len(m_pending') = Len(m_pending) - 1
      /\ HeldOnce(m_pending')
      /\ EntriesOf(m_pending') = EntriesOf(m_pending) \ {m_pending[k]}
  BY <1>1, <1>3, RemoveHeld
<1>7. item' \in Nat /\ item' <= Len(m_pending) /\ item' # 0
  <2>1. item > Len(m_pending) /\ Len(m_pending) >= 1
    BY <1>3 DEF ReleaseReady, EveryItemAsked
  <2> QED BY <1>1, <1>3, <2>1
<1> HIDE DEF i
<1>8. Release(i, TokenOf(c.tokens)) /\ i = PositionOf(m_pending[k].block)
  BY <1>1, <1>4 DEF i
<1> QED BY <1>2, <1>5, <1>6, <1>7, <1>8, HeldReturnedKeepsInv

LEMMA WaitOldestKeepsInv ==
    ASSUME AllocatorInv, NEW th \in Threads, pc[th] = "wait_all", WaitOldest,
           UNCHANGED <<pc, m_mutex, frame, ownersVars, deviceVars>>
    PROVE  AllocatorInv'
<1>1. /\ m_pending # <<>>
      /\ \A token \in Head(m_pending).tokens : IsComplete(token)
      /\ Release(PositionOf(Head(m_pending).block), NoToken)
      /\ m_pending' = Tail(m_pending)
      /\ item' = item
  BY DEF WaitOldest
<1>2. /\ ListTypes /\ IInv /\ OwnersInv /\ item = 0
  BY InDrain
<1>3. m_pending \in Seq(Entries) /\ HeldOnce(m_pending) /\ Len(m_pending) \in Nat
  BY <1>2 DEF ListTypes, OwnersInv
<1>4. /\ 1 \in 1..Len(m_pending) /\ Head(m_pending) = m_pending[1]
      /\ m_pending' \in Seq(Entries) /\ Len(m_pending') = Len(m_pending) - 1
      /\ HeldOnce(m_pending')
      /\ EntriesOf(m_pending') = EntriesOf(m_pending) \ {m_pending[1]}
  BY <1>1, <1>3, TailHeld
<1> DEFINE c == EntryClaim("held", m_pending[1])
           i == PositionOf(m_pending[1].block)
<1>5. /\ m_pending[1] \in Entries
      /\ c.tokens = m_pending[1].tokens
      /\ CoversUses(c.tokens, SpanOf(m_blocks[i]), running)
  BY <1>2, <1>4, HeldClaimIs
<1>6. m_pending[1].tokens \in SUBSET PendingTokens /\ DeviceTypeOK
  BY <1>2, <1>5 DEF Entries, PendingTokens, IInv, PoolTypeOK
<1>7. CoversUses({NoToken}, SpanOf(m_blocks[i]), running)
  BY <1>1, <1>4, <1>5, <1>6, CompleteCoverNothing DEF CoversUses
<1>8. NoToken \in PendingTokens /\ Given(NoToken, issued)
  BY DEF PendingTokens, Given, IsEmpty, NoToken
<1>9. item' \in Nat /\ item' <= Len(m_pending) /\ (item' # 0 <=> item # 0)
  BY <1>1, <1>2, <1>3
<1> HIDE DEF i
<1>10. Release(i, NoToken) /\ i = PositionOf(m_pending[1].block)
  BY <1>1, <1>4 DEF i
<1> QED BY <1>4, <1>7, <1>8, <1>9, <1>10, HeldReturnedKeepsInv

\* What is complete covers nothing that runs.
LEMMA UnfinishedCover ==
    ASSUME DeviceTypeOK, NEW tokens \in SUBSET PendingTokens, NEW span,
           CoversUses(tokens, span, running),
           NEW left, left = {token \in tokens : ~IsComplete(token)}
    PROVE  CoversUses(left, span, running)
<1> SUFFICES ASSUME NEW use \in running, Overlaps(use, span)
             PROVE  \E token \in left : Covers(token, use)
  BY DEF CoversUses
<1>1. PICK token \in tokens : Covers(token, use)
  BY DEF CoversUses
<1>2. ~IsComplete(token)
  <2> SUFFICES ASSUME IsComplete(token) PROVE FALSE
    OBVIOUS
  <2>2. /\ use.timeline \in Timelines /\ use.id \in Nat
        /\ finished[use.timeline] \in Nat /\ finished[use.timeline] <= use.id
    BY DEF DeviceTypeOK
  <2>3. token.timeline = use.timeline /\ use.id <= token.id
    BY <1>1 DEF Covers
  <2>4. ~IsEmpty(token)
    BY <2>2, <2>3, NoTimelineAssumption DEF IsEmpty
  <2>5. token \in Tokens
    BY <2>4 DEF PendingTokens, IsEmpty, NoToken
  <2>6. token.id \in Nat /\ token.id < finished[use.timeline]
    BY <2>3, <2>4, <2>5 DEF Tokens, IsComplete
  <2> QED BY <2>2, <2>3, <2>6
<1> QED BY <1>1, <1>2

\* A block that something other than a buffer owns is not being recorded.
LEMMA NotNoted ==
    ASSUME OwnersInv, NEW c \in Claims, c.kind # "buffer"
    PROVE  \A n \in Notes : n.block # c.block
BY DEF OwnersInv, Owned, NoteOK

LEMMA DropKeepsInv ==
    ASSUME AllocatorInv, NEW th \in Threads, pc[th] = "process", DropCompleteTokens,
           UNCHANGED <<pc, m_mutex, frame, ownersVars, poolVars, deviceVars>>
    PROVE  AllocatorInv'
<1>1. /\ Standing /\ ThreadTypes /\ ListTypes /\ CommandsBounded /\ IInv /\ OwnersInv
      /\ item # 0
  BY InDrain
<1> DEFINE k == item
           held == m_pending[k]
           left == {token \in held.tokens : ~IsComplete(token)}
           entry == [held EXCEPT !.tokens = left]
           c == EntryClaim("held", held)
           d == EntryClaim("held", entry)
           i == PositionOf(held.block)
<1>2. /\ k \in 1..Len(m_pending)
      /\ m_pending' = [m_pending EXCEPT ![k].tokens = left]
      /\ item' = item + 1
  BY DEF DropCompleteTokens
<1>3. /\ m_pending \in Seq(Entries) /\ HeldOnce(m_pending) /\ Len(m_pending) \in Nat
      /\ item \in Nat
  BY <1>1 DEF ListTypes, OwnersInv
<1>4. /\ held \in Entries /\ c \in Claims /\ c.kind = "held"
      /\ c.block = held.block /\ c.tokens = held.tokens
      /\ ClaimOK(c, issued) /\ CoversUses(c.tokens, SpanOf(m_blocks[i]), running)
  BY <1>1, <1>2, HeldClaimIs
<1>5. /\ entry \in Entries /\ entry.block = held.block /\ entry.tokens = left
      /\ m_pending' = [m_pending EXCEPT ![k] = entry]
  BY <1>2, <1>3, <1>4 DEF Entries
<1>6. /\ m_pending' \in Seq(Entries) /\ Len(m_pending') = Len(m_pending)
      /\ HeldOnce(m_pending')
      /\ EntriesOf(m_pending') = (EntriesOf(m_pending) \ {held}) \cup {entry}
  <2>1. entry.block = m_pending[k].block /\ held = m_pending[k]
    BY <1>5
  <2> HIDE DEF held, entry, k
  <2>2. /\ m_pending' \in Seq(Entries) /\ Len(m_pending') = Len(m_pending)
        /\ ChangedAt(m_pending, m_pending', k, entry)
    <3>1. k \in 1..Len(m_pending) /\ entry \in Entries /\ m_pending \in Seq(Entries)
          /\ m_pending' = [m_pending EXCEPT ![k] = entry]
      BY <1>2, <1>3, <1>5
    <3> QED BY <3>1 DEF ChangedAt
  <2>3. k \in 1..Len(m_pending) /\ entry \in Entries
    BY <1>2, <1>5
  <2>4. HeldOnce(m_pending')
        /\ EntriesOf(m_pending') = (EntriesOf(m_pending) \ {m_pending[k]}) \cup {entry}
    BY <1>3, <2>1, <2>2, <2>3, ReplaceHeld
  <2> QED BY <2>1, <2>2, <2>4
<1>7. d.kind = "held" /\ d.block = c.block /\ d.tokens = left
  <2>1. entry.block = c.block /\ entry.tokens = left
    BY <1>4, <1>5
  <2> HIDE DEF held, entry, left, c
  <2> QED BY <2>1, ClaimParts
<1>8. ClaimOK(d, issued)
  <2>1. left \subseteq c.tokens /\ c.tokens \subseteq Tokens
    BY <1>4 DEF Entries
  <2>2. IsFiniteSet(left)
    BY <1>4, <2>1, FS_Subset DEF ClaimOK
  <2>3. left \subseteq Tokens /\ left \subseteq PendingTokens
    BY <2>1 DEF PendingTokens
  <2>4. \A token \in left : Given(token, issued)
    BY <1>4, <2>1 DEF ClaimOK
  <2> HIDE DEF left
  <2> QED BY <1>7, <2>2, <2>3, <2>4 DEF ClaimOK
<1>9. CoversUses(left, SpanOf(m_blocks[i]), running)
  <2>1. held.tokens \in SUBSET PendingTokens /\ DeviceTypeOK
    BY <1>1, <1>4 DEF Entries, PendingTokens, IInv, PoolTypeOK
  <2> QED BY <1>4, <2>1, UnfinishedCover
<1>10. \A loan \in LentBlocks : AddressOf(loan) = c.block => loan = LoanOf(m_blocks[i])
  BY <1>1, <1>4, ClaimedPosition
<1>11. HeldClaims = EntryClaims("held", EntriesOf(m_pending))
  BY DEF HeldClaims
<1>12. EntryClaims("held", EntriesOf(m_pending')) = (HeldClaims \ {c}) \cup {d}
  <2>1. held \in EntriesOf(m_pending) /\ EntriesOf(m_pending) \in SUBSET Entries
    BY <1>2, <1>3, HeldAreEntries
  <2> HIDE DEF held, entry
  <2>2. EntryClaims("held", EntriesOf(m_pending) \ {held}) = HeldClaims \ {c}
    BY <1>4, <1>11, <2>1, EntryClaimsChange
  <2>3. EntryClaims("held", (EntriesOf(m_pending) \ {held}) \cup {entry})
            = EntryClaims("held", EntriesOf(m_pending) \ {held}) \cup {d}
    <3>1. EntriesOf(m_pending) \ {held} \in SUBSET Entries
      BY <2>1
    <3> QED BY <1>5, <3>1, EntryClaimsChange
  <2> QED BY <1>6, <2>2, <2>3
<1> HIDE DEF held, left, entry, c, d, k
<1>13. \A loan \in LentBlocks : AddressOf(loan) = c.block
           => CoversUses(TokensFor(d, loan, Notes), SpanOf(loan), running)
  <2> SUFFICES ASSUME NEW loan \in LentBlocks, AddressOf(loan) = c.block
               PROVE  CoversUses(TokensFor(d, loan, Notes), SpanOf(loan), running)
    OBVIOUS
  <2>1. loan = LoanOf(m_blocks[i])
    BY <1>10
  <2>2. SpanOf(loan) = SpanOf(m_blocks[i])
    BY <2>1, LoanParts
  <2>3. left \subseteq TokensFor(d, loan, Notes)
    BY <1>7 DEF TokensFor
  <2> QED BY <1>9, <2>2, <2>3 DEF CoversUses
<1>14. Owned((Claims \ {c}) \cup {d}, Notes, LentBlocks, issued, running)
  <2>1. Owned(Claims, Notes, LentBlocks, issued, running)
    BY <1>1 DEF OwnersInv
  <2>2. \A n \in Notes : n.block # c.block
    BY <1>1, <1>4, NotNoted
  <2> QED BY <1>4, <1>7, <1>8, <1>13, <2>1, <2>2, OwnedAfterTransfer
<1>15. UNCHANGED <<buffers, lost, alive, issued, finished, running, call>>
  BY DEF ownersVars, deviceVars, poolVars
<1>16. Claims' = (Claims \ {c}) \cup {d}
  <2>1. Claims' = BufferClaims \cup ((HeldClaims \ {c}) \cup {d}) \cup LostClaims \cup InHand
    BY <1>12, <1>15, ClaimsByKind DEF BufferClaims, LostClaims, InHand
  <2> QED BY <1>4, <2>1, ClaimsByKind
<1>17. Notes' = Notes
  BY DEF Notes, NotesOf
<1>18. IInv' /\ LentBlocks' = LentBlocks
  BY <1>1, PoolStutter
<1>19. OwnersInv'
  BY <1>6, <1>14, <1>15, <1>16, <1>17, <1>18, OwnersAgain
<1>20. ThreadsKnow'
  BY <1>15, <1>18, DrainKnows
<1>21. ThreadTypes' /\ LockInv' /\ LoopInv' /\ Standing'
  BY <1>1, <1>2, <1>3, <1>15, StillControl
<1>22. ListTypes'
  <2>1. item' \in Nat /\ item' <= Len(m_pending') + 1
    BY <1>2, <1>3, <1>6 DEF k
  <2> QED BY <1>1, <1>6, <1>15, <2>1 DEF ListTypes, Entries, Addresses, Tokens
<1>23. CommandsBounded'
  BY <1>1, <1>15 DEF CommandsBounded
<1> QED BY <1>18, <1>19, <1>20, <1>21, <1>22, <1>23, StandsAgain

LEMMA ProcessKeepsInv ==
    ASSUME AllocatorInv, NEW th \in Threads, Process(th)
    PROVE  AllocatorInv'
<1>1. pc[th] = "process" /\ UNCHANGED <<m_mutex, frame, ownersVars, deviceVars>>
  BY DEF Process
<1>2. CASE DropCompleteTokens /\ UNCHANGED <<pc, poolVars>>
  BY <1>1, <1>2, DropKeepsInv
<1>3. CASE ReleaseReady /\ UNCHANGED pc
  BY <1>1, <1>3, ReleaseReadyKeepsInv
<1>4. CASE EndProcess /\ Goto(th, "process", "search")
  <2>1. /\ ThreadTypes /\ ListTypes /\ IInv /\ frame[th] \in Frames /\ call = "none"
        /\ AskedBy(pc[th], frame[th])
    BY <1>1, InDrain
  <2>2. /\ pc' = [pc EXCEPT ![th] = "search"] /\ item' = 0
        /\ UNCHANGED <<m_pending, poolVars>>
    BY <1>4 DEF EndProcess, Goto
  <2>3. Moves(th, "search", frame[th])
    BY <1>1, <2>1, <2>2 DEF Moves, ThreadTypes
  <2>4. /\ pc[th] \in LockedSteps /\ PurposesAt(pc[th]) = {"none"}
        /\ "search" \in LockedSteps /\ PurposesAt("search") = {"none"}
        /\ pc[th] \in RequestSteps
    BY <1>1, StepsOfPool
  <2>5. frame[th].trim_for = "none"
    BY <2>4 DEF AllocatorInv, ControlInv, LockInv
  <2>6. IInv' /\ LentBlocks' = LentBlocks
    BY <1>1, <2>1, <2>2, PoolStutter
  <2>7. AskedBy("search", frame[th]) /\ TakenBy("search", frame[th], FreeIn(m_blocks'))
    BY <2>1, <2>4 DEF AskedBy, TakenBy
  <2>8. /\ UNCHANGED <<buffers, lost, alive>> /\ call' = "none"
        /\ item' \in Nat /\ item' <= Len(m_pending) + 1
    BY <1>1, <2>1, <2>2 DEF ownersVars, poolVars, ListTypes
  <2>9. /\ "search" \in LockedSteps \cup {"idle"}
        /\ "search" \notin {"idle", "recycle", "process", "reset_pending", "giving_back"}
        /\ pc[th] # "recycle" /\ frame[th].trim_for # "destructor"
        /\ frame[th].trim_for \in PurposesAt("search")
    BY <1>1, <2>4, <2>5
  <2> QED BY <1>1, <2>1, <2>2, <2>3, <2>4, <2>6, <2>7, <2>8, <2>9, LockedMove
<1> QED BY <1>2, <1>3, <1>4 DEF Process

LEMMA WaitAllKeepsInv ==
    ASSUME AllocatorInv, NEW th \in Threads, WaitAll(th)
    PROVE  AllocatorInv'
<1>1. pc[th] = "wait_all" /\ UNCHANGED <<m_mutex, frame, ownersVars, deviceVars>>
  BY DEF WaitAll
<1>2. CASE WaitOldest /\ UNCHANGED pc
  BY <1>1, <1>2, WaitOldestKeepsInv
<1>3. CASE Goto(th, "wait_all", "wait_pending") /\ UNCHANGED <<deferredVars, poolVars>>
  BY <1>1, <1>3, DrainedKeepsInv
<1> QED BY <1>2, <1>3 DEF WaitAll

----------------------------------------------------------------------------
(* The block is handed out, and its token forgotten.                       *)

\* What the pool lends after one of its blocks became b.
LEMMA LentAfterOne ==
    ASSUME IInv, NEW i \in Positions, NEW b \in Blocks, ~b.free,
           m_blocks' = [m_blocks EXCEPT ![i] = b]
    PROVE  LentBlocks' = (LentBlocks \ {LoanOf(m_blocks[i])}) \cup {LoanOf(b)}
<1>1. /\ m_blocks \in Seq(Blocks) /\ Tiles(m_blocks, m_heaps)
      /\ m_heaps \in [Heaps -> Nat] /\ i \in 1..Len(m_blocks)
  BY DEF IInv, ListOK, PoolTypeOK, Positions
<1>2. ChangedAt(m_blocks, m_blocks', i, b)
  BY <1>1 DEF ChangedAt
<1> QED BY <1>1, <1>2, LentAfterChange, LentOfPool

LEMMA AcquireLendsIt ==
    ASSUME IInv, NEW i \in Positions, m_blocks[i].free, Acquire(i)
    PROVE  /\ LentBlocks' = LentBlocks \cup {LoanOf(m_blocks[i])}
           /\ \A other \in LentBlocks : AddressOf(other) # AddressOf(LoanOf(m_blocks[i]))
<1> DEFINE b == [m_blocks[i] EXCEPT !.free = FALSE]
<1>1. /\ m_blocks \in Seq(Blocks) /\ Tiles(m_blocks, m_heaps)
      /\ m_heaps \in [Heaps -> Nat] /\ i \in 1..Len(m_blocks)
  BY DEF IInv, ListOK, PoolTypeOK, Positions
<1>2. m_blocks[i] \in Blocks
  BY <1>1
<1>3. b \in Blocks /\ ~b.free /\ LoanOf(b) = LoanOf(m_blocks[i])
  BY <1>2 DEF Blocks, LoanOf
<1>4. m_blocks' = [m_blocks EXCEPT ![i] = b]
  BY DEF Acquire
<1> HIDE DEF b
<1>5. LentBlocks' = LentBlocks \cup {LoanOf(m_blocks[i])}
  BY <1>3, <1>4, LentAfterOne
<1>6. \A other \in LentBlocks : AddressOf(other) # AddressOf(LoanOf(m_blocks[i]))
  <2> SUFFICES ASSUME NEW other \in LentBlocks, AddressOf(other) = AddressOf(LoanOf(m_blocks[i]))
               PROVE  FALSE
    OBVIOUS
  <2>1. PICK j \in Positions : ~m_blocks[j].free /\ other = LoanOf(m_blocks[j])
    BY DEF LentBlocks
  <2>2. AddressOf(m_blocks[j]) = AddressOf(m_blocks[i])
    BY <2>1, LoanAddress
  <2>3. i = j
    BY <2>2, AddressNames
  <2> QED BY <2>1, <2>3
<1> QED BY <1>5, <1>6

LEMMA AcquireBlockKeepsInv ==
    ASSUME AllocatorInv, NEW th \in Threads, AcquireBlock(th)
    PROVE  AllocatorInv'
<1> DEFINE i == BlockOf(th)
           locals == [EmptyFrame EXCEPT !.asked = frame[th].asked, !.block = frame[th].block]
           loan == LoanOf(m_blocks[i])
           d == HandClaim(th, "settle", locals)
<1>1. /\ pc[th] = "acquire" /\ pc' = [pc EXCEPT ![th] = "settle"]
      /\ Acquire(i) /\ m_mutex' = NoThread
      /\ frame' = [frame EXCEPT ![th] = locals]
      /\ UNCHANGED <<ownersVars, deferredVars, deviceVars>>
  BY DEF AcquireBlock, Goto, Unlock, Keep
<1>2. /\ pc[th] \in LockedSteps /\ frame[th].trim_for \in {"none", "allocate"}
      /\ call = "none"
  BY <1>1, LiveRequest
<1>3. /\ IInv /\ OwnersInv /\ ThreadsKnow /\ ThreadTypes /\ ListTypes /\ frame[th] \in Frames
      /\ Alone(th) /\ TakenBy(pc[th], frame[th], FreeIn(m_blocks))
  BY <1>2, LiveInPool
<1>4. /\ i \in Positions /\ m_blocks[i].free /\ AddressOf(m_blocks[i]) = frame[th].block
  BY <1>1, <1>3, TakenPosition
<1>5. /\ locals \in Frames /\ locals.block = frame[th].block /\ locals.trim_for = "none"
  BY <1>3 DEF Frames, EmptyFrame, Purposes
<1>6. AddressOf(loan) = frame[th].block
  BY <1>4, LoanAddress
<1>7. /\ LentBlocks' = LentBlocks \cup {loan}
      /\ \A other \in LentBlocks : AddressOf(other) # AddressOf(loan)
  BY <1>1, <1>3, <1>4, AcquireLendsIt
<1>8. CallAcquire
  BY <1>1, <1>2, <1>4 DEF CallAcquire
<1>9. IInv'
  BY <1>3, <1>8, AcquireKeepsIInv
<1>10. /\ "settle" \in FreshSteps /\ "settle" \in HandSteps /\ "settle" \in Steps
       /\ "settle" \notin {"record_use", "set_pending", "cut", "acquire", "give_back", "grow"}
       /\ "settle" \notin RequestSteps
       /\ pc[th] \notin HandSteps /\ pc[th] # "record_use"
  BY <1>1 DEF FreshSteps, HandSteps, Steps, RequestSteps
<1>11. CoversUses({loan.pending}, SpanOf(loan), running)
  <2>1. AllUsesCovered({m_blocks[i].pending}, SpanOf(m_blocks[i]))
    BY <1>3, <1>4 DEF IInv, ListOK, Covered, Positions
  <2> QED BY <2>1, LoanParts DEF AllUsesCovered, CoversUses
<1> HIDE DEF i, loan, locals
<1>12. d.kind = "fresh" /\ d.block = AddressOf(loan) /\ d.tokens = {}
  BY <1>5, <1>6, <1>10, ClaimParts
<1>13. ClaimOK(d, issued)
  BY <1>12, FS_EmptySet DEF ClaimOK
<1> HIDE DEF d
<1>14. Owned(Claims \cup {d}, Notes, LentBlocks \cup {loan}, issued, running)
  <2>1. Owned(Claims, Notes, LentBlocks, issued, running)
    BY <1>3 DEF OwnersInv
  <2> QED BY <1>7, <1>11, <1>12, <1>13, <2>1, OwnedAfterLend
<1>15. /\ UNCHANGED <<buffers, m_pending, lost, alive, issued, finished, running, item>>
       /\ call' = call
  BY <1>1 DEF ownersVars, deferredVars, deviceVars, Acquire
<1>16. Moves(th, "settle", locals)
  BY <1>1 DEF Moves, locals
<1>17. HandClaims(pc', frame') = InHand \cup {d} /\ Notes' = Notes
  <2>1. /\ HandClaims(pc', frame')
               = (HandClaims(pc, frame) \ Mine(th, pc[th], frame[th])) \cup Mine(th, "settle", locals)
        /\ Notes' = (Notes \ MyNote(th, pc[th], frame[th])) \cup MyNote(th, "settle", locals)
    BY <1>3, <1>5, <1>10, <1>16, HandsAfterMove, Zenon
  <2>2. Mine(th, pc[th], frame[th]) = {} /\ Mine(th, "settle", locals) = {d}
    BY <1>10 DEF Mine, d
  <2>3. MyNote(th, pc[th], frame[th]) = {} /\ MyNote(th, "settle", locals) = {}
    BY <1>10 DEF MyNote
  <2> QED BY <2>1, <2>2, <2>3 DEF InHand
<1>18. Claims' = Claims \cup {d}
  BY <1>15, <1>17, ClaimsByKind DEF BufferClaims, HeldClaims, LostClaims
<1>19. OwnersInv'
  <2>1. HeldOnce(m_pending')
    BY <1>3, <1>15 DEF OwnersInv
  <2> QED BY <1>7, <1>14, <1>15, <1>17, <1>18, <2>1, OwnersAgain
<1>20. ThreadsKnow'
  <2>1. ASSUME NEW other \in Threads, pc[other] = "set_pending"
        PROVE  AddressOf(loan) # frame[other].block
    <3>1. pc[other] \in HandSteps
      BY <2>1 DEF HandSteps
    <3>2. \E j \in Positions : LoanOf(m_blocks[j]) \in LentBlocks
                               /\ AddressOf(LoanOf(m_blocks[j])) = frame[other].block
      BY <1>3, <3>1, BlockInHand
    <3> QED BY <1>7, <3>2
  <2>2. /\ AskedBy("settle", locals) /\ TakenBy("settle", locals, FreeIn(m_blocks'))
        /\ SeenBy("settle", locals, LentBlocks', finished)
    BY <1>5, <1>10 DEF AskedBy, TakenBy, SeenBy
  <2> QED BY <1>3, <1>5, <1>7, <1>10, <1>15, <1>16, <2>1, <2>2, KnowAfterMove
<1>21. ThreadTypes' /\ LockInv' /\ LoopInv' /\ Standing'
  BY <1>1, <1>5, <1>15, <1>16, LeaveControl
<1>22. ListTypes' /\ CommandsBounded'
  BY <1>3, <1>15 DEF ListTypes, AllocatorInv, CommandsBounded, Entries, Addresses, Tokens
<1> QED BY <1>9, <1>19, <1>20, <1>21, <1>22, StandsAgain

\* What a thread outside of the pool stands on, on behalf of a live allocator.
LEMMA LiveOutside ==
    ASSUME AllocatorInv, NEW th \in Threads,
           pc[th] \in {"settle", "set_pending", "make_buffer", "record_use", "lock_recycle"}
    PROVE  /\ Standing /\ alive /\ frame[th].trim_for = "none" /\ frame[th] \in Frames
           /\ ThreadTypes /\ ListTypes /\ CommandsBounded /\ IInv /\ OwnersInv /\ ThreadsKnow
           /\ pc[th] \notin PoolSteps /\ pc[th] \in Steps
<1>1. /\ pc[th] \notin PoolSteps /\ pc[th] \in Steps /\ pc[th] # "idle"
      /\ PurposesAt(pc[th]) = {"none"}
      /\ pc[th] \notin TrimSteps \cup {"destroy_pool"}
  BY StepsOutside DEF PoolSteps
<1>2. /\ Standing /\ ControlInv /\ ListTypes /\ ThreadTypes /\ LockInv /\ IInv /\ OwnersInv
      /\ ThreadsKnow
  BY <1>1, BusyStands
<1>3. alive
  BY <1>1, <1>2, BusyIsAlive
<1>4. frame[th].trim_for = "none" /\ frame[th] \in Frames
  BY <1>1, <1>2 DEF LockInv, ThreadTypes
<1>5. CommandsBounded
  BY DEF AllocatorInv
<1> QED BY <1>1, <1>2, <1>3, <1>4, <1>5

\* The free blocks are where they were, when one that is not free changes.
LEMMA FreeAfterOne ==
    ASSUME IInv, NEW i \in Positions, ~m_blocks[i].free, NEW b \in Blocks, ~b.free,
           m_blocks' = [m_blocks EXCEPT ![i] = b]
    PROVE  FreeIn(m_blocks') = FreeIn(m_blocks)
<1>1. m_blocks \in Seq(Blocks) /\ i \in 1..Len(m_blocks)
  BY DEF IInv, ListOK, Positions
<1>2. Len(m_blocks') = Len(m_blocks)
      /\ \A j \in 1..Len(m_blocks) : m_blocks'[j] = IF j = i THEN b ELSE m_blocks[j]
  BY <1>1
<1>3. \A j \in 1..Len(m_blocks) : /\ m_blocks'[j].free <=> m_blocks[j].free
                                  /\ m_blocks[j].free => m_blocks'[j] = m_blocks[j]
  BY <1>2
<1> QED BY <1>2, <1>3 DEF FreeIn

LEMMA ForgetPendingKeepsInv ==
    ASSUME AllocatorInv, NEW th \in Threads, ForgetPending(th)
    PROVE  AllocatorInv'
<1> DEFINE i == BlockOf(th)
           b == [m_blocks[i] EXCEPT !.pending = NoToken]
           loan == LoanOf(m_blocks[i])
           c == HandClaim(th, pc[th], frame[th])
<1>1. /\ pc[th] = "set_pending" /\ pc' = [pc EXCEPT ![th] = "make_buffer"]
      /\ SetPending(i, NoToken)
      /\ UNCHANGED <<m_mutex, frame, ownersVars, deferredVars, deviceVars>>
  BY DEF ForgetPending, Goto
<1>2. /\ Standing /\ alive /\ frame[th].trim_for = "none" /\ frame[th] \in Frames
      /\ ThreadTypes /\ ListTypes /\ CommandsBounded /\ IInv /\ OwnersInv /\ ThreadsKnow
      /\ pc[th] \notin PoolSteps
  BY <1>1, LiveOutside
<1>3. pc[th] \in HandSteps /\ pc[th] \in FreshSteps /\ pc[th] # "record_use"
      /\ "make_buffer" \in HandSteps /\ "make_buffer" \in FreshSteps
      /\ "make_buffer" \in Steps /\ "make_buffer" \notin PoolSteps \cup RequestSteps
      /\ "make_buffer" \notin {"record_use", "set_pending", "cut", "acquire", "give_back", "grow"}
      /\ PurposesAt("make_buffer") = {"none"}
  BY <1>1, StepsOutside DEF HandSteps, FreshSteps
<1>4. /\ i \in Positions /\ ~m_blocks[i].free /\ loan \in LentBlocks
      /\ AddressOf(loan) = frame[th].block
  BY <1>2, <1>3, BlockInHand
<1>5. IsComplete(m_blocks[i].pending)
  <2>1. Given(loan.pending, finished)
    BY <1>1, <1>2, <1>4 DEF ThreadsKnow, SeenBy
  <2> QED BY <2>1, LoanParts DEF Given, IsComplete
<1>6. IInv'
  <2>1. HolderSetsPending
    BY <1>1, <1>4, <1>5 DEF HolderSetsPending
  <2> QED BY <1>2, <2>1, HolderKeepsIInv
<1>7. m_blocks[i] \in Blocks
  BY <1>2, <1>4 DEF IInv, ListOK, Positions
<1>8. /\ b \in Blocks /\ ~b.free /\ b.pending = NoToken
      /\ AddressOf(b) = AddressOf(m_blocks[i]) /\ SpanOf(b) = SpanOf(m_blocks[i])
      /\ m_blocks' = [m_blocks EXCEPT ![i] = b]
  BY <1>1, <1>4, <1>7 DEF Blocks, AddressOf, SpanOf, SetPending
<1>9. c \in Claims /\ c.kind = "fresh" /\ c.block = frame[th].block
  BY <1>3, HandClaimIn, ClaimParts
<1>10. PositionOf(c.block) = i
  BY <1>9 DEF BlockOf
<1> HIDE DEF b, c
<1>11. CoversUses({m_blocks[i].pending}, SpanOf(m_blocks[i]), running)
  BY <1>2, <1>9, <1>10, ClaimCovers
<1> HIDE DEF i
<1>12. LentBlocks' = (LentBlocks \ {loan}) \cup {LoanOf(b)}
  BY <1>2, <1>4, <1>8, LentAfterOne
<1>13. FreeIn(m_blocks') = FreeIn(m_blocks)
  BY <1>2, <1>4, <1>8, FreeAfterOne
<1>14. \A use \in running : ~Overlaps(use, SpanOf(m_blocks[i]))
  <2>1. {m_blocks[i].pending} \in SUBSET PendingTokens /\ DeviceTypeOK
    BY <1>2, <1>7 DEF Blocks, PendingTokens, IInv, PoolTypeOK
  <2> QED BY <1>5, <1>11, <2>1, CompleteCoverNothing
<1>15. /\ SpanOf(loan) = SpanOf(m_blocks[i]) /\ SpanOf(LoanOf(b)) = SpanOf(loan)
       /\ AddressOf(LoanOf(b)) = AddressOf(loan) /\ LoanOf(b).pending = NoToken
  BY <1>8, LoanParts, LoanAddress
<1> HIDE DEF loan
<1>16. Owned(Claims, Notes, LentBlocks', issued, running)
  <2>1. Owned(Claims, Notes, LentBlocks, issued, running)
    BY <1>2 DEF OwnersInv
  <2>2. \A use \in running : ~Overlaps(use, SpanOf(loan))
    BY <1>14, <1>15
  <2> QED BY <1>4, <1>12, <1>15, <2>1, <2>2, OwnedAfterForget
<1>17. /\ UNCHANGED <<buffers, m_pending, lost, alive, issued, finished, running, item>>
       /\ call' = call /\ m_mutex' = m_mutex
  BY <1>1 DEF ownersVars, deferredVars, deviceVars, SetPending
<1>18. Moves(th, "make_buffer", frame[th])
  BY <1>1, <1>2 DEF Moves, ThreadTypes
<1>19. HandClaims(pc', frame') = InHand /\ Notes' = Notes
  <2>1. /\ HandClaims(pc', frame') = (HandClaims(pc, frame) \ Mine(th, pc[th], frame[th]))
                                     \cup Mine(th, "make_buffer", frame[th])
        /\ Notes' = (Notes \ MyNote(th, pc[th], frame[th])) \cup MyNote(th, "make_buffer", frame[th])
    BY <1>2, <1>3, <1>18, HandsAfterMove, Zenon
  <2>2. HandClaim(th, "make_buffer", frame[th]) = HandClaim(th, pc[th], frame[th])
    BY <1>3 DEF HandClaim
  <2>3. Mine(th, "make_buffer", frame[th]) = Mine(th, pc[th], frame[th])
    BY <1>3, <2>2 DEF Mine
  <2>4. MyNote(th, pc[th], frame[th]) = {} /\ MyNote(th, "make_buffer", frame[th]) = {}
    BY <1>3 DEF MyNote
  <2> QED BY <2>1, <2>3, <2>4, MineIsIn DEF InHand
<1>20. Claims' = Claims
  BY <1>17, <1>19, ClaimsByKind DEF BufferClaims, HeldClaims, LostClaims
<1>21. OwnersInv'
  <2>1. HeldOnce(m_pending')
    BY <1>2, <1>17 DEF OwnersInv
  <2> QED BY <1>16, <1>17, <1>19, <1>20, <2>1, OwnersAgain
<1>22. ThreadsKnow'
  <2>1. /\ AskedBy("make_buffer", frame[th])
        /\ TakenBy("make_buffer", frame[th], FreeIn(m_blocks'))
        /\ SeenBy("make_buffer", frame[th], LentBlocks', finished)
    BY <1>2, <1>3 DEF AskedBy, TakenBy, SeenBy
  <2>2. \A other \in LentBlocks' : other \in LentBlocks \/ IsEmpty(other.pending)
    BY <1>12, <1>15 DEF IsEmpty, NoToken
  <2> QED BY <1>2, <1>3, <1>13, <1>17, <1>18, <2>1, <2>2, KnowAfterMove
<1>23. ThreadTypes' /\ LockInv' /\ LoopInv' /\ Standing'
  BY <1>2, <1>3, <1>17, <1>18, OutsideControl
<1>24. ListTypes' /\ CommandsBounded'
  BY <1>2, <1>17 DEF ListTypes, CommandsBounded, Entries, Addresses, Tokens
<1> QED BY <1>6, <1>21, <1>22, <1>23, <1>24, StandsAgain

----------------------------------------------------------------------------
(* Steps in which a block changes owner, and the pool stays as it is.      *)

\* A thread outside of the pool hands its claim c on, or takes d over.
LEMMA HandOverKeepsInv ==
    ASSUME AllocatorInv, Standing, alive,
           NEW th \in Threads, NEW to \in Steps, NEW locals \in Frames, Moves(th, to, locals),
           pc[th] \notin PoolSteps, to \notin PoolSteps,
           locals.trim_for = "none", to = "idle" => locals = EmptyFrame,
           to # "record_use", to # "set_pending", to # "lock_trim", to \notin RequestSteps,
           UNCHANGED <<m_mutex, lost, alive, deferredVars, poolVars, deviceVars>>,
           buffers' \subseteq Entries,
           NEW c \in Claims, NEW d, d.block = c.block, ClaimOK(d, issued),
           Claims' = (Claims \ {c}) \cup {d},
           Notes' \subseteq Notes, \A n \in Notes \ Notes' : n.block = c.block,
           \A n \in Notes' : n.block = c.block => d.kind = "buffer",
           NEW i, i = PositionOf(c.block),
           CoversUses(TokensFor(d, LoanOf(m_blocks[i]), Notes'), SpanOf(m_blocks[i]), running)
    PROVE  AllocatorInv'
<1>1. ThreadTypes /\ ListTypes /\ CommandsBounded /\ IInv /\ OwnersInv /\ ThreadsKnow
  BY DEF AllocatorInv, ControlInv, StandingInv
<1>2. IInv' /\ LentBlocks' = LentBlocks /\ FreeIn(m_blocks') = FreeIn(m_blocks)
  BY <1>1, PoolStutter
<1>3. \A loan \in LentBlocks : AddressOf(loan) = c.block
          => CoversUses(TokensFor(d, loan, Notes'), SpanOf(loan), running)
  <2>1. \A loan \in LentBlocks : AddressOf(loan) = c.block => loan = LoanOf(m_blocks[i])
    BY <1>1, ClaimedPosition
  <2>2. SpanOf(LoanOf(m_blocks[i])) = SpanOf(m_blocks[i])
    BY LoanParts
  <2> QED BY <2>1, <2>2
<1>4. Owned((Claims \ {c}) \cup {d}, Notes', LentBlocks, issued, running)
  <2>1. Owned(Claims, Notes, LentBlocks, issued, running)
    BY <1>1 DEF OwnersInv
  <2>2. Notes' \in SUBSET Notes
    OBVIOUS
  <2> QED BY <1>3, <2>1, <2>2, OwnedAfterTransfer
<1>5. UNCHANGED <<m_pending, item, issued, finished, running, call>>
  BY DEF deferredVars, deviceVars, poolVars
<1>6. OwnersInv'
  <2>1. HeldOnce(m_pending')
    BY <1>1, <1>5 DEF OwnersInv
  <2> QED BY <1>2, <1>4, <1>5, <2>1, OwnersAgain
<1>7. "cut" \in PoolSteps /\ "acquire" \in PoolSteps /\ "give_back" \in PoolSteps
      /\ "grow" \in PoolSteps
  BY DEF PoolSteps, LockedSteps, TrimSteps
<1>8. ThreadsKnow'
  <2>1. /\ AskedBy(to, locals) /\ TakenBy(to, locals, FreeIn(m_blocks'))
        /\ SeenBy(to, locals, LentBlocks', finished)
    BY <1>7 DEF AskedBy, TakenBy, SeenBy
  <2> QED BY <1>1, <1>2, <1>5, <2>1, KnowAfterMove
<1>9. "none" \in PurposesAt(to)
  <2>1. to \notin TrimSteps /\ to # "destroy_pool" /\ to # "lock_trim" /\ to # "search_again"
    BY DEF PoolSteps, LockedSteps
  <2> QED BY <2>1 DEF PurposesAt
<1>10. ThreadTypes' /\ LockInv' /\ LoopInv' /\ Standing'
  BY <1>5, <1>9, OutsideControl
<1>11. ListTypes' /\ CommandsBounded'
  BY <1>1, <1>5 DEF ListTypes, CommandsBounded, Entries, Addresses, Tokens
<1> QED BY <1>2, <1>6, <1>8, <1>10, <1>11, StandsAgain

\* Asking the block's token, or making the buffer, fails: the block goes back.
LEMMA SettleFailsKeepsInv ==
    ASSUME AllocatorInv, NEW th \in Threads, SettleFails(th)
    PROVE  AllocatorInv'
<1> DEFINE i == BlockOf(th)
           p == m_blocks[i].pending
           locals == [EmptyFrame EXCEPT !.block = frame[th].block, !.tokens = {p}]
           c == HandClaim(th, pc[th], frame[th])
           d == HandClaim(th, "lock_recycle", locals)
<1>1. /\ pc[th] \in {"settle", "make_buffer"} /\ pc' = [pc EXCEPT ![th] = "lock_recycle"]
      /\ frame' = [frame EXCEPT ![th] = locals]
      /\ UNCHANGED <<m_mutex, ownersVars, deferredVars, poolVars, deviceVars>>
  BY DEF SettleFails, Keep
<1>2. /\ Standing /\ alive /\ frame[th] \in Frames
      /\ ThreadTypes /\ ListTypes /\ IInv /\ OwnersInv
      /\ pc[th] \notin PoolSteps
  BY <1>1, LiveOutside
<1>3. /\ pc[th] \in HandSteps /\ pc[th] \in FreshSteps /\ pc[th] # "record_use"
      /\ "lock_recycle" \in HandSteps /\ "lock_recycle" \notin FreshSteps
      /\ "lock_recycle" \in Steps /\ "lock_recycle" \notin PoolSteps
      /\ "lock_recycle" \notin RequestSteps
      /\ "lock_recycle" \notin {"record_use", "set_pending", "lock_trim", "idle"}
  BY <1>1, StepsOutside DEF HandSteps, FreshSteps, RequestSteps
<1>4. i \in Positions /\ i \in 1..Len(m_blocks)
  BY <1>2, <1>3, BlockInHand DEF Positions
<1>5. p \in PendingTokens /\ Given(p, issued)
  BY <1>2, <1>4, BlocksAreBlocks DEF IInv, ListOK, TokensIssued, Given
<1>6. /\ locals \in Frames /\ locals.trim_for = "none" /\ locals.tokens = {p}
      /\ locals.block = frame[th].block
  BY <1>2, <1>5 DEF Frames, EmptyFrame, Purposes, PendingTokens
<1>7. c \in Claims /\ c \in InHand /\ c.kind = "fresh" /\ c.block = frame[th].block
  BY <1>3, HandClaimIn, ClaimParts DEF InHand, HandClaims
<1> HIDE DEF locals
<1>8. d.kind = "recycled" /\ d.block = c.block /\ d.tokens = {p}
  BY <1>3, <1>6, <1>7, ClaimParts
<1>9. PositionOf(c.block) = i
  BY <1>7 DEF BlockOf
<1> HIDE DEF c, d
<1>10. Moves(th, "lock_recycle", locals)
  BY <1>1 DEF Moves
<1>11. HandClaims(pc', frame') = (InHand \ {c}) \cup {d} /\ Notes' = Notes
  <2>1. /\ HandClaims(pc', frame') = (HandClaims(pc, frame) \ Mine(th, pc[th], frame[th]))
                                     \cup Mine(th, "lock_recycle", locals)
        /\ Notes' = (Notes \ MyNote(th, pc[th], frame[th])) \cup MyNote(th, "lock_recycle", locals)
    BY <1>2, <1>3, <1>6, <1>10, HandsAfterMove, Zenon
  <2>2. Mine(th, pc[th], frame[th]) = {c} /\ Mine(th, "lock_recycle", locals) = {d}
    BY <1>3 DEF Mine, c, d
  <2>3. MyNote(th, pc[th], frame[th]) = {} /\ MyNote(th, "lock_recycle", locals) = {}
    BY <1>3 DEF MyNote
  <2> QED BY <2>1, <2>2, <2>3 DEF InHand
<1>12. UNCHANGED <<buffers, m_pending, lost, alive>>
  BY <1>1 DEF ownersVars, deferredVars
<1>13. Claims' = (Claims \ {c}) \cup {d}
  <2>1. Claims' = BufferClaims \cup HeldClaims \cup LostClaims \cup ((InHand \ {c}) \cup {d})
    BY <1>11, <1>12, ClaimsByKind DEF BufferClaims, HeldClaims, LostClaims
  <2>2. c \notin BufferClaims \cup HeldClaims \cup LostClaims
    BY <1>7, ClaimsByKind
  <2> QED BY <2>1, <2>2, ClaimsByKind
<1>14. CoversUses({p}, SpanOf(m_blocks[i]), running)
  BY <1>2, <1>7, <1>9, ClaimCovers
<1>15. CoversUses(TokensFor(d, LoanOf(m_blocks[i]), Notes'), SpanOf(m_blocks[i]), running)
  BY <1>8, <1>14 DEF CoversUses, TokensFor
<1>16. \A n \in Notes' : n.block = c.block => d.kind = "buffer"
  BY <1>2, <1>7, <1>11, NotNoted
<1>17. ClaimOK(d, issued)
  BY <1>5, <1>8, FS_Singleton DEF ClaimOK
<1>18. buffers' \subseteq Entries
  BY <1>2, <1>12 DEF ListTypes
<1> HIDE DEF p, i
<1>19. UNCHANGED <<m_mutex, lost, alive, deferredVars, poolVars, deviceVars>>
  BY <1>1 DEF ownersVars
<1> QED BY <1>2, <1>3, <1>6, <1>7, <1>8, <1>9, <1>10, <1>11, <1>13, <1>15, <1>16, <1>17, <1>18,
           <1>19, HandOverKeepsInv

\* A buffer takes the block over, with the token the block came with.
LEMMA MakeBufferKeepsInv ==
    ASSUME AllocatorInv, NEW th \in Threads, MakeBuffer(th)
    PROVE  AllocatorInv'
<1> DEFINE i == BlockOf(th)
           p == m_blocks[i].pending
           entry == Held(frame[th].block, IF IsEmpty(p) THEN {} ELSE {p})
           c == HandClaim(th, pc[th], frame[th])
           d == EntryClaim("buffer", entry)
<1>1. /\ pc[th] = "make_buffer" /\ pc' = [pc EXCEPT ![th] = "idle"]
      /\ frame' = [frame EXCEPT ![th] = EmptyFrame]
      /\ buffers' = buffers \cup {entry}
      /\ UNCHANGED <<m_mutex, lost, alive, deferredVars, poolVars, deviceVars>>
  BY DEF MakeBuffer, Return
<1>2. /\ Standing /\ alive /\ frame[th] \in Frames
      /\ ThreadTypes /\ ListTypes /\ IInv /\ OwnersInv
      /\ pc[th] \notin PoolSteps
  BY <1>1, LiveOutside
<1>3. /\ pc[th] \in HandSteps /\ pc[th] \in FreshSteps /\ pc[th] # "record_use"
      /\ "idle" \notin HandSteps /\ "idle" \in Steps /\ "idle" \notin PoolSteps
      /\ "idle" \notin RequestSteps
      /\ "idle" \notin {"record_use", "set_pending", "lock_trim"}
  BY <1>1, StepsApart DEF HandSteps, FreshSteps, RequestSteps, Steps
<1>4. /\ i \in Positions /\ i \in 1..Len(m_blocks) /\ AddressOf(m_blocks[i]) = frame[th].block
  BY <1>2, <1>3, BlockInHand DEF Positions
<1>5. p \in PendingTokens /\ Given(p, issued)
  BY <1>2, <1>4, BlocksAreBlocks DEF IInv, ListOK, TokensIssued, Given
<1>6. ~IsEmpty(p) => p \in Tokens
  BY <1>5 DEF PendingTokens, IsEmpty, NoToken
<1>7. frame[th].block \in Addresses
  <2>1. m_blocks[i].heap \in Heaps /\ m_blocks[i].offset \in Nat
    BY <1>2, <1>4, BlocksAreBlocks DEF IInv, ListOK
  <2>2. AddressOf(m_blocks[i]) \in Addresses
    BY <2>1 DEF AddressOf, Addresses
  <2> QED BY <1>4, <2>2
<1>8. entry \in Entries /\ entry.block = frame[th].block
      /\ entry.tokens = IF IsEmpty(p) THEN {} ELSE {p}
  BY <1>6, <1>7 DEF Entries, Held
<1>9. c \in Claims /\ c \in InHand /\ c.kind = "fresh" /\ c.block = frame[th].block
  BY <1>3, HandClaimIn, ClaimParts DEF InHand, HandClaims
<1>10. d.kind = "buffer" /\ d.block = c.block /\ d.tokens = IF IsEmpty(p) THEN {} ELSE {p}
  BY <1>8, <1>9, ClaimParts
<1>11. PositionOf(c.block) = i
  BY <1>9 DEF BlockOf
<1>12. EntryClaims("buffer", buffers') = BufferClaims \cup {d}
  BY <1>1, <1>2, <1>8, EntryClaimsChange DEF BufferClaims, ListTypes
<1> HIDE DEF c, d, entry
<1>13. Moves(th, "idle", EmptyFrame)
  BY <1>1 DEF Moves
<1>14. HandClaims(pc', frame') = InHand \ {c} /\ Notes' = Notes
  <2>1. /\ HandClaims(pc', frame') = (HandClaims(pc, frame) \ Mine(th, pc[th], frame[th]))
                                     \cup Mine(th, "idle", EmptyFrame)
        /\ Notes' = (Notes \ MyNote(th, pc[th], frame[th])) \cup MyNote(th, "idle", EmptyFrame)
    BY <1>2, <1>3, <1>13, EmptyFrameParts, HandsAfterMove, Zenon
  <2>2. Mine(th, pc[th], frame[th]) = {c} /\ Mine(th, "idle", EmptyFrame) = {}
    BY <1>3 DEF Mine, c
  <2>3. MyNote(th, pc[th], frame[th]) = {} /\ MyNote(th, "idle", EmptyFrame) = {}
    BY <1>3 DEF MyNote
  <2> QED BY <2>1, <2>2, <2>3 DEF InHand
<1>15. Claims' = (Claims \ {c}) \cup {d}
  <2>1. UNCHANGED <<m_pending, lost>>
    BY <1>1 DEF deferredVars
  <2>2. Claims' = (BufferClaims \cup {d}) \cup HeldClaims \cup LostClaims \cup (InHand \ {c})
    BY <1>12, <1>14, <2>1, ClaimsByKind DEF HeldClaims, LostClaims
  <2>3. c \notin BufferClaims \cup HeldClaims \cup LostClaims
    BY <1>9, ClaimsByKind
  <2> QED BY <2>2, <2>3, ClaimsByKind
<1>16. CoversUses({p}, SpanOf(m_blocks[i]), running)
  BY <1>2, <1>9, <1>11, ClaimCovers
<1>17. CoversUses(d.tokens, SpanOf(m_blocks[i]), running)
  <2>1. CASE IsEmpty(p)
    <3>1. \A use \in running : use.timeline # p.timeline
      BY <1>2, <2>1, NoTimelineAssumption DEF IsEmpty, IInv, PoolTypeOK, DeviceTypeOK
    <3> QED BY <1>16, <3>1 DEF CoversUses, Covers
  <2>2. CASE ~IsEmpty(p)
    BY <1>10, <1>16, <2>2
  <2> QED BY <2>1, <2>2
<1>18. CoversUses(TokensFor(d, LoanOf(m_blocks[i]), Notes'), SpanOf(m_blocks[i]), running)
  BY <1>10, <1>17 DEF CoversUses, TokensFor
<1>19. ClaimOK(d, issued)
  BY <1>5, <1>6, <1>10, FS_Singleton, FS_EmptySet DEF ClaimOK
<1>20. buffers' \subseteq Entries
  BY <1>1, <1>2, <1>8 DEF ListTypes
<1> HIDE DEF p, i
<1>21. EmptyFrame \in Frames /\ EmptyFrame.trim_for = "none"
  BY EmptyFrameParts
<1> QED BY <1>1, <1>2, <1>3, <1>9, <1>10, <1>11, <1>13, <1>14, <1>15, <1>18, <1>19,
           <1>20, <1>21, HandOverKeepsInv

\* The last reference to a buffer goes.
LEMMA DestroyBufferKeepsInv ==
    ASSUME AllocatorInv, NEW th \in Threads, DestroyBuffer(th)
    PROVE  AllocatorInv'
<1>1. PICK buffer \in buffers :
          /\ \A other \in Threads : pc[other] = "record_use" => frame[other].block # buffer.block
          /\ buffers' = buffers \ {buffer}
          /\ Begin(th, "lock_recycle",
                   [EmptyFrame EXCEPT !.block = buffer.block, !.tokens = buffer.tokens])
  BY DEF DestroyBuffer
<1> DEFINE i == PositionOf(buffer.block)
           locals == [EmptyFrame EXCEPT !.block = buffer.block, !.tokens = buffer.tokens]
           c == EntryClaim("buffer", buffer)
           d == HandClaim(th, "lock_recycle", locals)
<1>2. /\ pc[th] = "idle" /\ pc' = [pc EXCEPT ![th] = "lock_recycle"]
      /\ frame' = [frame EXCEPT ![th] = locals]
      /\ UNCHANGED <<m_mutex, lost, alive, deferredVars, poolVars, deviceVars>>
  BY <1>1 DEF DestroyBuffer, Begin, Goto
<1>3. /\ Standing /\ alive /\ ThreadTypes /\ ListTypes /\ IInv /\ OwnersInv
  <2>1. Standing
    BY DEF AllocatorInv, EndInv
  <2>2. ThreadTypes /\ LockInv /\ ListTypes /\ IInv /\ OwnersInv
    BY <2>1 DEF AllocatorInv, ControlInv, StandingInv
  <2>3. alive
    BY <2>2 DEF LockInv
  <2> QED BY <2>1, <2>2, <2>3
<1>4. /\ pc[th] \notin HandSteps /\ pc[th] \notin PoolSteps /\ pc[th] # "record_use"
      /\ "lock_recycle" \in HandSteps /\ "lock_recycle" \notin FreshSteps
      /\ "lock_recycle" \in Steps /\ "lock_recycle" \notin PoolSteps
      /\ "lock_recycle" \notin RequestSteps
      /\ "lock_recycle" \notin {"record_use", "set_pending", "lock_trim", "idle"}
  BY <1>2, StepsApart, StepsOutside DEF HandSteps, FreshSteps, RequestSteps
<1>5. buffer \in Entries
  BY <1>3 DEF ListTypes
<1>6. /\ locals \in Frames /\ locals.trim_for = "none" /\ locals.tokens = buffer.tokens
      /\ locals.block = buffer.block
  BY <1>5 DEF Frames, EmptyFrame, Purposes, Entries
<1> HIDE DEF locals
<1>7. /\ c \in Claims /\ c \in BufferClaims /\ c.kind = "buffer" /\ c.block = buffer.block
      /\ c.tokens = buffer.tokens
  BY ClaimsByKind, ClaimParts DEF BufferClaims, EntryClaims
<1>8. d.kind = "recycled" /\ d.block = c.block /\ d.tokens = c.tokens
  BY <1>4, <1>6, <1>7, ClaimParts
<1>9. EntryClaims("buffer", buffers') = BufferClaims \ {c}
  BY <1>1, <1>3, <1>5, EntryClaimsChange DEF BufferClaims, ListTypes
<1>10. i = PositionOf(c.block)
  BY <1>7
<1> HIDE DEF c, d, i
<1>11. Moves(th, "lock_recycle", locals)
  BY <1>2 DEF Moves
<1>12. HandClaims(pc', frame') = InHand \cup {d} /\ Notes' = Notes
  <2>1. /\ HandClaims(pc', frame') = (HandClaims(pc, frame) \ Mine(th, pc[th], frame[th]))
                                     \cup Mine(th, "lock_recycle", locals)
        /\ Notes' = (Notes \ MyNote(th, pc[th], frame[th])) \cup MyNote(th, "lock_recycle", locals)
    BY <1>3, <1>4, <1>6, <1>11, HandsAfterMove, Zenon
  <2>2. Mine(th, pc[th], frame[th]) = {} /\ Mine(th, "lock_recycle", locals) = {d}
    BY <1>4 DEF Mine, d
  <2>3. MyNote(th, pc[th], frame[th]) = {} /\ MyNote(th, "lock_recycle", locals) = {}
    BY <1>4 DEF MyNote
  <2> QED BY <2>1, <2>2, <2>3 DEF InHand
<1>13. Claims' = (Claims \ {c}) \cup {d}
  <2>1. UNCHANGED <<m_pending, lost>>
    BY <1>2 DEF deferredVars
  <2>2. Claims' = (BufferClaims \ {c}) \cup HeldClaims \cup LostClaims \cup (InHand \cup {d})
    BY <1>9, <1>12, <2>1, ClaimsByKind DEF HeldClaims, LostClaims
  <2>3. c \notin InHand \cup HeldClaims \cup LostClaims
    BY <1>7, ClaimsByKind
  <2> QED BY <2>2, <2>3, ClaimsByKind
<1>14. \A n \in Notes : n.block # c.block
  BY <1>1, <1>7 DEF Notes, NotesOf
<1>15. /\ LoanOf(m_blocks[i]) \in LentBlocks /\ AddressOf(LoanOf(m_blocks[i])) = c.block
  BY <1>3, <1>7, <1>10, ClaimedPosition
<1>16. CoversUses(TokensFor(d, LoanOf(m_blocks[i]), Notes'), SpanOf(m_blocks[i]), running)
  <2>1. CoversUses(TokensFor(c, LoanOf(m_blocks[i]), Notes), SpanOf(LoanOf(m_blocks[i])), running)
    BY <1>3, <1>7, <1>15 DEF OwnersInv, Owned
  <2>2. TokensFor(c, LoanOf(m_blocks[i]), Notes) = TokensFor(d, LoanOf(m_blocks[i]), Notes')
    BY <1>7, <1>8, <1>12 DEF TokensFor
  <2> QED BY <2>1, <2>2, LoanParts
<1>17. ClaimOK(d, issued)
  BY <1>3, <1>7, <1>8 DEF OwnersInv, Owned, ClaimOK
<1>18. buffers' \subseteq Entries
  BY <1>1, <1>3 DEF ListTypes
<1>19. \A n \in Notes' : n.block = c.block => d.kind = "buffer"
  BY <1>12, <1>14
<1> QED BY <1>2, <1>3, <1>4, <1>6, <1>7, <1>8, <1>10, <1>11, <1>12, <1>13, <1>16, <1>17, <1>18,
           <1>19, HandOverKeepsInv

\* What record_use leaves covers what was recorded, and what it records.
LEMMA RecordedCovers ==
    ASSUME NEW tokens \in SUBSET Tokens, IsFiniteSet(tokens), NEW token \in Tokens,
           NEW later, later = Recorded(tokens, token)
    PROVE  /\ IsFiniteSet(later) /\ later \subseteq tokens \cup {token}
           /\ \A t \in tokens \cup {token} :
                 \E use \in later : use.timeline = t.timeline /\ t.id <= use.id
<1>1. \A t \in tokens \cup {token} : t.id \in Nat /\ t.id <= t.id
  BY DEF Tokens
<1>2. CASE \E use \in tokens : use.timeline = token.timeline /\ use.id >= token.id
  BY <1>1, <1>2 DEF Recorded
<1>3. CASE ~\E use \in tokens : use.timeline = token.timeline /\ use.id >= token.id
  <2>1. later = {use \in tokens : use.timeline # token.timeline} \cup {token}
    BY <1>3 DEF Recorded
  <2>2. IsFiniteSet({use \in tokens : use.timeline # token.timeline})
    BY FS_Subset
  <2>3. IsFiniteSet(later)
    BY <2>1, <2>2, FS_AddElement
  <2>4. ASSUME NEW t \in tokens
        PROVE  \E use \in later : use.timeline = t.timeline /\ t.id <= use.id
    <3>1. CASE t.timeline = token.timeline
      <4>1. t.id <= token.id
        BY <1>1, <1>3, <3>1
      <4> QED BY <2>1, <3>1, <4>1
    <3>2. CASE t.timeline # token.timeline
      BY <1>1, <2>1, <3>2
    <3> QED BY <3>1, <3>2
  <2> QED BY <1>1, <2>1, <2>3, <2>4
<1> QED BY <1>2, <1>3

\* The command that a thread has submitted becomes one of the buffer's uses.
LEMMA RecordUseKeepsInv ==
    ASSUME AllocatorInv, NEW th \in Threads, RecordUse(th)
    PROVE  AllocatorInv'
<1> DEFINE mine == [key |-> th, block |-> frame[th].block, tokens |-> frame[th].tokens]
           token == TokenOf(frame[th].tokens)
<1>1. /\ pc[th] = "record_use" /\ pc' = [pc EXCEPT ![th] = "idle"]
      /\ frame' = [frame EXCEPT ![th] = EmptyFrame]
      /\ buffers' = {IF buffer.block = frame[th].block
                     THEN [buffer EXCEPT !.tokens = Recorded(@, token)]
                     ELSE buffer : buffer \in buffers}
      /\ UNCHANGED <<m_mutex, lost, alive, deferredVars, poolVars, deviceVars>>
  BY DEF RecordUse, Return
<1>2. /\ Standing /\ alive /\ frame[th] \in Frames
      /\ ThreadTypes /\ ListTypes /\ IInv /\ OwnersInv
      /\ pc[th] \notin PoolSteps
  BY <1>1, LiveOutside
<1>3. /\ pc[th] \notin HandSteps
      /\ "idle" \notin HandSteps /\ "idle" \in Steps /\ "idle" \notin PoolSteps
      /\ "idle" \notin RequestSteps
      /\ "idle" \notin {"record_use", "set_pending", "lock_trim"}
  BY <1>1, StepsApart DEF HandSteps, RequestSteps, Steps
<1>4. mine \in Notes /\ mine.block = frame[th].block /\ mine.tokens = frame[th].tokens
  BY <1>1 DEF Notes, NotesOf
<1>5. NoteOK(mine, Claims, issued)
  BY <1>2, <1>4 DEF OwnersInv, Owned
<1>6. PICK c \in Claims : c.kind = "buffer" /\ c.block = frame[th].block
  BY <1>4, <1>5 DEF NoteOK
<1>7. frame[th].tokens = {token} /\ token \in Tokens /\ Given(token, issued)
  <2>1. PICK t \in frame[th].tokens :
            frame[th].tokens = {t} /\ t \in Tokens /\ Given(t, issued)
    BY <1>4, <1>5 DEF NoteOK
  <2>2. token = t
    BY <2>1 DEF TokenOf
  <2> QED BY <2>1, <2>2
<1>8. c \in BufferClaims
  BY <1>6, ClaimsByKind
<1>9. PICK b \in buffers : c = EntryClaim("buffer", b)
  BY <1>8 DEF BufferClaims, EntryClaims
<1>10. b \in Entries /\ b.block = frame[th].block /\ c.tokens = b.tokens
  BY <1>2, <1>6, <1>9, ClaimParts DEF ListTypes
<1> DEFINE e == [b EXCEPT !.tokens = Recorded(b.tokens, token)]
           d == EntryClaim("buffer", e)
           i == PositionOf(c.block)
<1>11. ClaimOK(c, issued)
  BY <1>2 DEF OwnersInv, Owned
<1>12. b.tokens \in SUBSET Tokens /\ IsFiniteSet(b.tokens)
  BY <1>10, <1>11 DEF ClaimOK, Entries
<1>13. /\ IsFiniteSet(Recorded(b.tokens, token))
       /\ Recorded(b.tokens, token) \subseteq b.tokens \cup {token}
       /\ \A t \in b.tokens \cup {token} :
             \E use \in Recorded(b.tokens, token) : use.timeline = t.timeline /\ t.id <= use.id
  <2> HIDE DEF token
  <2> QED BY <1>7, <1>12, RecordedCovers
<1>14. Recorded(b.tokens, token) \in SUBSET Tokens
  BY <1>7, <1>12, <1>13
<1> HIDE DEF token
<1>15. e \in Entries /\ e.block = b.block /\ e.tokens = Recorded(b.tokens, token)
  BY <1>10, <1>14 DEF Entries
<1>16. buffers' = (buffers \ {b}) \cup {e}
  <2>1. ASSUME NEW other \in buffers, other.block = frame[th].block
        PROVE  other = b
    <3>1. /\ EntryClaim("buffer", other) \in Claims
          /\ EntryClaim("buffer", other).block = c.block
      BY <1>6, <2>1, ClaimsByKind, ClaimParts DEF BufferClaims, EntryClaims
    <3>2. EntryClaim("buffer", other) = EntryClaim("buffer", b)
      BY <1>2, <1>9, <3>1 DEF OwnersInv, Owned
    <3>3. other \in Entries
      BY <1>2 DEF ListTypes
    <3> QED BY <1>10, <3>2, <3>3, EntryClaimsApart
  <2> DEFINE F(buffer) == IF buffer.block = frame[th].block
                          THEN [buffer EXCEPT !.tokens = Recorded(buffer.tokens, token)]
                          ELSE buffer
  <2>2. buffers' = {F(buffer) : buffer \in buffers}
    BY <1>1 DEF token
  <2>3. F(b) = e /\ \A buffer \in buffers : buffer # b => F(buffer) = buffer
    BY <1>10, <2>1
  <2> HIDE DEF e, F
  <2> QED BY <2>2, <2>3
<1> HIDE DEF e
<1>17. EntryClaims("buffer", buffers') = (BufferClaims \ {c}) \cup {d}
  <2>1. buffers \ {b} \in SUBSET Entries
    BY <1>2 DEF ListTypes
  <2>2. EntryClaims("buffer", buffers \ {b}) = BufferClaims \ {c}
    BY <1>2, <1>9, <1>10, EntryClaimsChange DEF BufferClaims, ListTypes
  <2>3. EntryClaims("buffer", (buffers \ {b}) \cup {e})
            = EntryClaims("buffer", buffers \ {b}) \cup {EntryClaim("buffer", e)}
    BY <1>15, <2>1, EntryClaimsChange
  <2> QED BY <1>16, <2>2, <2>3
<1>18. d.kind = "buffer" /\ d.block = c.block /\ d.tokens = Recorded(b.tokens, token)
  BY <1>6, <1>10, <1>15, ClaimParts
<1> HIDE DEF d, i
<1>19. Moves(th, "idle", EmptyFrame)
  BY <1>1 DEF Moves
<1>20. HandClaims(pc', frame') = InHand /\ Notes' = Notes \ {mine}
  <2>1. /\ HandClaims(pc', frame') = (HandClaims(pc, frame) \ Mine(th, pc[th], frame[th]))
                                     \cup Mine(th, "idle", EmptyFrame)
        /\ Notes' = (Notes \ MyNote(th, pc[th], frame[th])) \cup MyNote(th, "idle", EmptyFrame)
    BY <1>2, <1>3, <1>19, EmptyFrameParts, HandsAfterMove, Zenon
  <2>2. Mine(th, pc[th], frame[th]) = {} /\ Mine(th, "idle", EmptyFrame) = {}
    BY <1>3 DEF Mine
  <2>3. MyNote(th, pc[th], frame[th]) = {mine} /\ MyNote(th, "idle", EmptyFrame) = {}
    BY <1>1, <1>3 DEF MyNote
  <2> QED BY <2>1, <2>2, <2>3 DEF InHand
<1>21. Claims' = (Claims \ {c}) \cup {d}
  <2>1. UNCHANGED <<m_pending, lost>>
    BY <1>1 DEF deferredVars
  <2>2. Claims' = ((BufferClaims \ {c}) \cup {d}) \cup HeldClaims \cup LostClaims \cup InHand
    BY <1>17, <1>20, <2>1, ClaimsByKind DEF HeldClaims, LostClaims
  <2>3. c \notin InHand \cup HeldClaims \cup LostClaims
    BY <1>8, ClaimsByKind
  <2> QED BY <2>2, <2>3, ClaimsByKind
<1>22. i = PositionOf(c.block)
  BY DEF i
<1>23. LoanOf(m_blocks[i]) \in LentBlocks /\ AddressOf(LoanOf(m_blocks[i])) = c.block
  BY <1>2, <1>22, ClaimedPosition
<1>24. CoversUses(TokensFor(d, LoanOf(m_blocks[i]), Notes'), SpanOf(m_blocks[i]), running)
  <2>1. CoversUses(TokensFor(c, LoanOf(m_blocks[i]), Notes), SpanOf(LoanOf(m_blocks[i])), running)
    BY <1>2, <1>23 DEF OwnersInv, Owned
  <2>2. /\ TokensFor(c, LoanOf(m_blocks[i]), Notes) = b.tokens \cup NotedFor(c.block, Notes)
        /\ TokensFor(d, LoanOf(m_blocks[i]), Notes')
               = Recorded(b.tokens, token) \cup NotedFor(c.block, Notes')
    BY <1>6, <1>10, <1>18 DEF TokensFor
  <2>3. NotedFor(c.block, Notes) \subseteq NotedFor(c.block, Notes') \cup {token}
    <3> HIDE DEF mine
    <3> QED BY <1>4, <1>7, <1>20 DEF NotedFor
  <2>4. DeviceTypeOK
    BY <1>2 DEF IInv, PoolTypeOK
  <2> SUFFICES ASSUME NEW use \in running, Overlaps(use, SpanOf(m_blocks[i]))
               PROVE  \E t \in Recorded(b.tokens, token) \cup NotedFor(c.block, Notes') :
                         Covers(t, use)
    BY <2>2 DEF CoversUses
  <2>5. PICK t \in b.tokens \cup NotedFor(c.block, Notes) : Covers(t, use)
    BY <2>1, <2>2, LoanParts DEF CoversUses
  <2>6. CASE t \in b.tokens \cup {token}
    <3>1. PICK u \in Recorded(b.tokens, token) : u.timeline = t.timeline /\ t.id <= u.id
      BY <1>13, <2>6
    <3>2. use.id \in Nat /\ t.id \in Nat /\ u.id \in Nat
      BY <1>7, <1>12, <1>14, <2>4, <2>6 DEF DeviceTypeOK, Tokens
    <3>3. Covers(u, use)
      BY <2>5, <3>1, <3>2 DEF Covers
    <3> QED BY <3>1, <3>3
  <2>7. CASE t \in NotedFor(c.block, Notes')
    BY <2>5, <2>7
  <2> QED BY <2>3, <2>5, <2>6, <2>7
<1>25. ClaimOK(d, issued)
  <2>1. \A t \in b.tokens \cup {token} : Given(t, issued)
    BY <1>7, <1>10, <1>11 DEF ClaimOK
  <2> QED BY <1>13, <1>14, <1>18, <2>1 DEF ClaimOK, PendingTokens
<1>26. buffers' \subseteq Entries
  BY <1>2, <1>15, <1>16 DEF ListTypes
<1>27. EmptyFrame \in Frames /\ EmptyFrame.trim_for = "none"
  BY EmptyFrameParts
<1>28. Notes' \subseteq Notes /\ \A n \in Notes \ Notes' : n.block = c.block
  <2> HIDE DEF mine
  <2> QED BY <1>4, <1>6, <1>20
<1> QED BY <1>1, <1>2, <1>3, <1>18, <1>19, <1>21, <1>22, <1>24, <1>25, <1>26, <1>27, <1>28,
           HandOverKeepsInv

----------------------------------------------------------------------------
(* A command is submitted, which uses the memory of a buffer.              *)

LEMMA SubmitKeepsInv ==
    ASSUME AllocatorInv, NEW th \in Threads, Submit(th)
    PROVE  AllocatorInv'
<1>1. PICK buffer \in buffers, timeline \in Timelines :
          /\ issued[timeline] < MaxCommands
          /\ Issue(timeline, {SpanOf(m_blocks[PositionOf(buffer.block)])})
          /\ Begin(th, "record_use",
                   [EmptyFrame EXCEPT !.block = buffer.block,
                        !.tokens = {[timeline |-> timeline, id |-> issued[timeline]]}])
  BY DEF Submit
<1> DEFINE i == PositionOf(buffer.block)
           token == [timeline |-> timeline, id |-> issued[timeline]]
           locals == [EmptyFrame EXCEPT !.block = buffer.block, !.tokens = {token}]
           c == EntryClaim("buffer", buffer)
           note == [key |-> th, block |-> locals.block, tokens |-> locals.tokens]
           use == [timeline |-> timeline, id |-> issued[timeline], heap |-> m_blocks[i].heap,
                   offset |-> m_blocks[i].offset, size |-> m_blocks[i].size]
           loan == LoanOf(m_blocks[i])
<1>2. /\ pc[th] = "idle" /\ Moves(th, "record_use", locals)
      /\ UNCHANGED <<m_mutex, ownersVars, deferredVars, poolVars>>
  BY <1>1 DEF Submit, Begin, Goto, Moves
<1>3. /\ Standing /\ alive /\ ThreadTypes /\ ListTypes /\ IInv /\ OwnersInv /\ ThreadsKnow
      /\ CommandsBounded
  <2>1. Standing
    BY DEF AllocatorInv, EndInv
  <2>2. ThreadTypes /\ LockInv /\ ListTypes /\ IInv /\ OwnersInv /\ ThreadsKnow /\ CommandsBounded
    BY <2>1 DEF AllocatorInv, ControlInv, StandingInv
  <2>3. alive
    BY <2>2 DEF LockInv
  <2> QED BY <2>1, <2>2, <2>3
<1>4. issued \in [Timelines -> Nat]
  BY <1>3 DEF IInv, PoolTypeOK, DeviceTypeOK
<1>5. /\ issued' = [issued EXCEPT ![timeline] = @ + 1]
      /\ running' = running \cup {use}
      /\ finished' = finished
  BY <1>1 DEF Issue, SpanOf
<1>6. /\ pc[th] \notin HandSteps /\ pc[th] \notin PoolSteps /\ pc[th] # "record_use"
      /\ "record_use" \notin HandSteps /\ "record_use" \in Steps
      /\ "record_use" \notin PoolSteps
      /\ "record_use" \notin RequestSteps
      /\ "record_use" \notin {"set_pending", "lock_trim", "idle", "grow", "cut", "acquire",
                              "give_back"}
      /\ PurposesAt("record_use") = {"none"}
  BY <1>2, StepsApart, StepsOutside DEF RequestSteps, Steps
<1>7. buffer \in Entries
  BY <1>3 DEF ListTypes
<1>8. /\ locals \in Frames /\ locals.trim_for = "none" /\ locals.tokens = {token}
      /\ locals.block = buffer.block
  <2>1. token \in Tokens
    BY <1>4 DEF Tokens
  <2>2. EmptyFrame \in Frames /\ buffer.block \in Addresses
    BY <1>7, EmptyFrameParts DEF Entries
  <2> HIDE DEF token
  <2> QED BY <2>1, <2>2 DEF Frames, EmptyFrame, Purposes
<1>9. c \in Claims /\ c.kind = "buffer" /\ c.block = buffer.block
  BY ClaimsByKind, ClaimParts DEF BufferClaims, EntryClaims
<1>10. note.block = c.block /\ note.tokens = {token}
  BY <1>8, <1>9
<1>11. i = PositionOf(c.block)
  BY <1>9
<1> HIDE DEF c, locals
<1>12. /\ i \in Positions /\ i \in 1..Len(m_blocks) /\ ~m_blocks[i].free /\ loan \in LentBlocks
       /\ AddressOf(loan) = c.block
  BY <1>3, <1>9, <1>11, ClaimedPosition DEF Positions
<1>13. UseBlock
  BY <1>1, <1>2, <1>12 DEF UseBlock
<1>14. IInv'
  BY <1>3, <1>13, UseBlockKeepsIInv
<1>15. \A other \in LentBlocks : Overlaps(use, SpanOf(other)) => other = loan
  <2> SUFFICES ASSUME NEW other \in LentBlocks, Overlaps(use, SpanOf(other)) PROVE other = loan
    OBVIOUS
  <2>1. PICK j \in Positions : other = LoanOf(m_blocks[j])
    BY DEF LentBlocks
  <2>2. SpanOf(other) = SpanOf(m_blocks[j])
    BY <2>1, LoanParts
  <2>3. Overlaps(SpanOf(m_blocks[i]), SpanOf(m_blocks[j]))
    BY <2>2 DEF Overlaps, SpanOf
  <2>4. /\ m_blocks \in Seq(Blocks) /\ m_heaps \in [Heaps -> Nat] /\ Tiles(m_blocks, m_heaps)
        /\ j \in 1..Len(m_blocks)
    BY <1>3 DEF IInv, ListOK, PoolTypeOK, Positions
  <2>5. i = j
    BY <1>12, <2>3, <2>4, BlocksAreApart
  <2> QED BY <2>1, <2>5
<1>16. /\ \A t \in PendingTokens : Given(t, issued) => Given(t, issued')
       /\ token \in Tokens /\ Given(token, issued') /\ Covers(token, use)
  <2>1. /\ issued' \in [Timelines -> Nat] /\ issued'[timeline] = issued[timeline] + 1
        /\ \A t \in Timelines : issued[t] <= issued'[t]
    BY <1>4, <1>5
  <2>2. ASSUME NEW t \in PendingTokens, Given(t, issued), ~IsEmpty(t)
        PROVE  t.id < issued'[t.timeline]
    <3>1. t \in Tokens
      BY <2>2 DEF PendingTokens, IsEmpty, NoToken
    <3>2. t.timeline \in Timelines /\ t.id \in Nat /\ t.id < issued[t.timeline]
      BY <2>2, <3>1 DEF Tokens, Given
    <3> QED BY <1>4, <2>1, <3>2
  <2>3. token \in Tokens /\ token.timeline = timeline /\ token.id = issued[timeline]
    BY <1>4 DEF Tokens
  <2>4. Given(token, issued')
    BY <1>4, <2>1, <2>3 DEF Given
  <2>5. Covers(token, use)
    BY <1>4, <2>3 DEF Covers
  <2> QED BY <2>2, <2>3, <2>4, <2>5 DEF Given
<1> HIDE DEF use, loan, note, i, token
<1>17. Owned(Claims, Notes \cup {note}, LentBlocks, issued', running')
  <2>1. Owned(Claims, Notes, LentBlocks, issued, running)
    BY <1>3 DEF OwnersInv
  <2>2. NoteOK(note, Claims, issued')
    BY <1>9, <1>10, <1>16 DEF NoteOK
  <2>3. \A other \in LentBlocks : Overlaps(use, SpanOf(other)) => AddressOf(other) = note.block
    BY <1>10, <1>12, <1>15
  <2>4. \E t \in note.tokens : Covers(t, use)
    BY <1>10, <1>16
  <2>5. Owned(Claims, Notes \cup {note}, LentBlocks, issued', running \cup {use})
    BY <1>16, <2>1, <2>2, <2>3, <2>4, OwnedAfterSubmit
  <2> QED BY <1>5, <2>5
<1>18. UNCHANGED <<buffers, lost, alive, m_pending, item, m_blocks, call, m_mutex>>
  BY <1>2 DEF ownersVars, deferredVars, poolVars
<1>19. LentBlocks' = LentBlocks /\ FreeIn(m_blocks') = FreeIn(m_blocks)
  BY <1>18, LentOfPool
<1>20. HandClaims(pc', frame') = InHand /\ Notes' = Notes \cup {note}
  <2>1. /\ HandClaims(pc', frame') = (HandClaims(pc, frame) \ Mine(th, pc[th], frame[th]))
                                     \cup Mine(th, "record_use", locals)
        /\ Notes' = (Notes \ MyNote(th, pc[th], frame[th])) \cup MyNote(th, "record_use", locals)
    BY <1>2, <1>3, <1>6, <1>8, HandsAfterMove, Zenon
  <2>2. Mine(th, pc[th], frame[th]) = {} /\ Mine(th, "record_use", locals) = {}
    BY <1>6 DEF Mine
  <2>3. MyNote(th, pc[th], frame[th]) = {} /\ MyNote(th, "record_use", locals) = {note}
    BY <1>6 DEF MyNote, note
  <2> QED BY <2>1, <2>2, <2>3 DEF InHand
<1>21. Claims' = Claims
  BY <1>18, <1>20, ClaimsByKind DEF BufferClaims, HeldClaims, LostClaims
<1>22. OwnersInv'
  <2>1. HeldOnce(m_pending')
    BY <1>3, <1>18 DEF OwnersInv
  <2> QED BY <1>17, <1>19, <1>20, <1>21, <2>1, OwnersAgain
<1>23. ThreadsKnow'
  <2>1. /\ AskedBy("record_use", locals) /\ TakenBy("record_use", locals, FreeIn(m_blocks'))
        /\ SeenBy("record_use", locals, LentBlocks', finished)
    BY <1>6, <1>8 DEF AskedBy, TakenBy, SeenBy
  <2> QED BY <1>2, <1>3, <1>5, <1>6, <1>8, <1>19, <2>1, KnowAfterMove
<1>24. ThreadTypes' /\ LockInv' /\ LoopInv' /\ Standing'
  BY <1>2, <1>3, <1>6, <1>8, <1>18, OutsideControl
<1>25. ListTypes'
  BY <1>3, <1>18 DEF ListTypes, Entries, Addresses, Tokens
<1>26. CommandsBounded'
  BY <1>1, <1>3, <1>4, <1>5, MaxCommandsAssumption DEF CommandsBounded
<1> QED BY <1>14, <1>22, <1>23, <1>24, <1>25, <1>26, StandsAgain

----------------------------------------------------------------------------
(* recycle: a block comes back.                                            *)

LEMMA InRecycle ==
    ASSUME AllocatorInv, NEW th \in Threads, pc[th] = "recycle",
           NEW c, c = HandClaim(th, pc[th], frame[th]), NEW i, i = BlockOf(th)
    PROVE  /\ Standing /\ Alone(th) /\ ThreadTypes /\ ListTypes /\ CommandsBounded
           /\ IInv /\ OwnersInv /\ ThreadsKnow /\ frame[th] \in Frames
           /\ call = "none" /\ item = 0
           /\ c \in Claims /\ c \in InHand /\ c.kind = "recycled"
           /\ c.block = frame[th].block /\ c.tokens = frame[th].tokens
           /\ c.block \in Addresses /\ i = PositionOf(c.block)
           /\ ClaimOK(c, issued)
           /\ CoversUses(c.tokens, SpanOf(m_blocks[i]), running)
<1>1. /\ pc[th] \in LockedSteps /\ PurposesAt(pc[th]) = {"none"}
      /\ pc[th] \notin {"reset_pending", "giving_back", "process"}
      /\ pc[th] \in HandSteps /\ pc[th] \notin FreshSteps
  BY StepsOfPool DEF HandSteps, FreshSteps
<1>2. frame[th].trim_for # "destructor"
  BY <1>1 DEF AllocatorInv, ControlInv, LockInv
<1>3. /\ Standing /\ Alone(th) /\ ThreadTypes /\ ListTypes /\ IInv /\ OwnersInv /\ ThreadsKnow
      /\ frame[th] \in Frames
      /\ call # "reset_pending" /\ call # "release_unused_heaps" /\ item = 0
  BY <1>1, <1>2, LiveInPool
<1>4. call = "none" /\ CommandsBounded
  BY <1>3, PoolIsQuiet DEF AllocatorInv
<1>5. c \in Claims /\ c \in InHand
  BY <1>1, HandClaimIn DEF InHand, HandClaims
<1>6. c.kind = "recycled" /\ c.block = frame[th].block /\ c.tokens = frame[th].tokens
  BY <1>1, ClaimParts
<1>7. i = PositionOf(c.block)
  BY <1>6 DEF BlockOf
<1>8. i \in Positions /\ AddressOf(m_blocks[i]) = c.block
  BY <1>3, <1>5, <1>7, ClaimedPosition
<1>9. c.block \in Addresses
  <2>1. m_blocks[i].heap \in Heaps /\ m_blocks[i].offset \in Nat
    BY <1>3, <1>8, BlocksAreBlocks DEF IInv, ListOK, Positions
  <2>2. AddressOf(m_blocks[i]) \in Addresses
    BY <2>1 DEF AddressOf, Addresses
  <2> QED BY <1>8, <2>2
<1>10. ClaimOK(c, issued)
  BY <1>3, <1>5 DEF OwnersInv, Owned
<1>11. CoversUses(c.tokens, SpanOf(m_blocks[i]), running)
  BY <1>3, <1>5, <1>6, <1>7, ClaimCovers
<1> QED BY <1>3, <1>4, <1>5, <1>6, <1>7, <1>9, <1>10, <1>11

\* The thread is done, and what it had in its hands is not there any more.
LEMMA RecycleEnds ==
    ASSUME AllocatorInv, NEW th \in Threads, pc[th] = "recycle", Return(th), Unlock,
           UNCHANGED <<alive, call, item>>,
           NEW c, c = HandClaim(th, pc[th], frame[th])
    PROVE  /\ ThreadTypes' /\ LockInv' /\ LoopInv' /\ Standing'
           /\ Moves(th, "idle", EmptyFrame)
           /\ HandClaims(pc', frame') = InHand \ {c} /\ Notes' = Notes
<1>1. Moves(th, "idle", EmptyFrame) /\ m_mutex' = NoThread
  BY DEF Return, Unlock, Moves
<1>2. ThreadTypes
  BY DEF AllocatorInv, ControlInv
<1>3. ThreadTypes' /\ LockInv' /\ LoopInv' /\ Standing'
  BY <1>1, EmptyFrameParts, LeaveControl
<1>4. /\ pc[th] \in HandSteps /\ pc[th] # "record_use"
      /\ "idle" \in Steps /\ "idle" \notin HandSteps /\ "idle" # "record_use"
  BY DEF HandSteps, Steps
<1>5. /\ HandClaims(pc', frame') = (HandClaims(pc, frame) \ Mine(th, pc[th], frame[th]))
                                   \cup Mine(th, "idle", EmptyFrame)
      /\ Notes' = (Notes \ MyNote(th, pc[th], frame[th])) \cup MyNote(th, "idle", EmptyFrame)
  BY <1>1, <1>2, <1>4, EmptyFrameParts, HandsAfterMove, Zenon
<1>6. Mine(th, pc[th], frame[th]) = {c} /\ Mine(th, "idle", EmptyFrame) = {}
  BY <1>4 DEF Mine
<1>7. MyNote(th, pc[th], frame[th]) = {} /\ MyNote(th, "idle", EmptyFrame) = {}
  BY <1>4 DEF MyNote
<1> QED BY <1>1, <1>3, <1>5, <1>6, <1>7 DEF InHand

\* Somebody leaves the pool with nothing in its hands, and lends nothing.
LEMMA RecycleKnows ==
    ASSUME AllocatorInv, NEW th \in Threads, pc[th] = "recycle", Moves(th, "idle", EmptyFrame),
           LentBlocks' \subseteq LentBlocks, UNCHANGED finished
    PROVE  ThreadsKnow'
<1>1. Alone(th) /\ ThreadTypes /\ ThreadsKnow
  BY InRecycle
<1>2. "idle" \in Steps /\ "idle" \notin RequestSteps
      /\ "idle" \notin {"set_pending", "cut", "acquire", "give_back", "grow"}
  BY DEF Steps, RequestSteps
<1>3. /\ AskedBy("idle", EmptyFrame) /\ TakenBy("idle", EmptyFrame, FreeIn(m_blocks'))
      /\ SeenBy("idle", EmptyFrame, LentBlocks', finished)
  BY <1>2, EmptyFrameParts DEF AskedBy, TakenBy, SeenBy
<1> QED BY <1>1, <1>2, <1>3, EmptyFrameParts, KnowAfterMove

LEMMA RecycleReleasesKeepsInv ==
    ASSUME AllocatorInv, NEW th \in Threads, RecycleReleases(th)
    PROVE  AllocatorInv'
<1> DEFINE c == HandClaim(th, pc[th], frame[th])
           i == BlockOf(th)
           pending == TokenOf(frame[th].tokens)
<1>1. /\ pc[th] = "recycle" /\ Cardinality(frame[th].tokens) < 2
      /\ Release(i, pending) /\ Return(th) /\ Unlock
      /\ UNCHANGED <<ownersVars, deferredVars, deviceVars>>
  BY DEF RecycleReleases
<1>2. /\ Standing /\ Alone(th) /\ ThreadTypes /\ ListTypes /\ CommandsBounded
      /\ IInv /\ OwnersInv /\ ThreadsKnow
      /\ call = "none" /\ item = 0
      /\ c \in Claims /\ c \in InHand /\ c.kind = "recycled"
      /\ c.tokens = frame[th].tokens /\ i = PositionOf(c.block)
      /\ ClaimOK(c, issued)
      /\ CoversUses(c.tokens, SpanOf(m_blocks[i]), running)
  BY <1>1, InRecycle
<1> HIDE DEF c, i
<1>3. /\ pending \in PendingTokens /\ Given(pending, issued)
      /\ CoversUses({pending}, SpanOf(m_blocks[i]), running)
  BY <1>1, <1>2, FewTokensCover
<1> HIDE DEF pending
<1>4. /\ CallRelease
      /\ LentBlocks' = LentBlocks \ {LoanOf(m_blocks[i])}
      /\ Owned(Claims \ {c}, Notes, LentBlocks', issued, running)
  BY <1>1, <1>2, <1>3, ClaimReturned
<1>5. UNCHANGED <<buffers, m_pending, lost, alive, issued, finished, running, item, call>>
  BY <1>1 DEF ownersVars, deferredVars, deviceVars, Release
<1>6. /\ ThreadTypes' /\ LockInv' /\ LoopInv' /\ Standing' /\ Moves(th, "idle", EmptyFrame)
      /\ HandClaims(pc', frame') = InHand \ {c} /\ Notes' = Notes
  BY <1>1, <1>5, RecycleEnds DEF c
<1>7. Claims' = Claims \ {c}
  <2>1. Claims' = BufferClaims \cup HeldClaims \cup LostClaims \cup (InHand \ {c})
    BY <1>5, <1>6, ClaimsByKind DEF BufferClaims, HeldClaims, LostClaims
  <2> QED BY <1>2, <2>1, ClaimsByKind
<1>8. OwnersInv'
  <2>1. HeldOnce(m_pending')
    BY <1>2, <1>5 DEF OwnersInv
  <2> QED BY <1>4, <1>5, <1>6, <1>7, <2>1, OwnersAgain
<1>9. ThreadsKnow'
  BY <1>1, <1>4, <1>5, <1>6, RecycleKnows
<1>10. IInv'
  BY <1>2, <1>4, ReleaseKeepsIInv
<1>11. ListTypes' /\ CommandsBounded'
  BY <1>2, <1>5 DEF ListTypes, CommandsBounded, Entries, Addresses, Tokens
<1> QED BY <1>6, <1>8, <1>9, <1>10, <1>11, StandsAgain

\* Several tokens are left: the block stays with the list, or with the log.
LEMMA RecycleKeepsInv ==
    ASSUME AllocatorInv, NEW th \in Threads, pc[th] = "recycle", Return(th), Unlock,
           UNCHANGED <<buffers, alive, item, poolVars, deviceVars>>,
           NEW c, c = HandClaim(th, pc[th], frame[th]),
           NEW d, d.block = c.block, d.tokens = c.tokens, d.kind \in {"held", "lost"},
           Claims' = (Claims \ {c}) \cup {d},
           ListTypes', HeldOnce(m_pending')
    PROVE  AllocatorInv'
<1>1. /\ ThreadTypes /\ CommandsBounded /\ IInv /\ OwnersInv
      /\ c \in Claims /\ c.kind = "recycled" /\ ClaimOK(c, issued)
  BY InRecycle
<1>2. UNCHANGED <<issued, finished, running, call>>
  BY DEF deviceVars, poolVars
<1>3. /\ ThreadTypes' /\ LockInv' /\ LoopInv' /\ Standing' /\ Moves(th, "idle", EmptyFrame)
      /\ Notes' = Notes
  BY <1>2, RecycleEnds
<1>4. IInv' /\ LentBlocks' = LentBlocks
  BY <1>1, PoolStutter
<1>5. Owned((Claims \ {c}) \cup {d}, Notes, LentBlocks, issued, running)
  <2>1. Owned(Claims, Notes, LentBlocks, issued, running)
    BY <1>1 DEF OwnersInv
  <2>2. ClaimOK(d, issued)
    BY <1>1 DEF ClaimOK
  <2>3. \A n \in Notes : n.block # c.block
    BY <1>1, NotNoted
  <2>4. ASSUME NEW loan \in LentBlocks, AddressOf(loan) = c.block
        PROVE  CoversUses(TokensFor(d, loan, Notes), SpanOf(loan), running)
    <3>1. CoversUses(TokensFor(c, loan, Notes), SpanOf(loan), running)
      BY <1>1, <2>1, <2>4 DEF Owned
    <3>2. TokensFor(c, loan, Notes) = TokensFor(d, loan, Notes)
      BY <1>1 DEF TokensFor
    <3> QED BY <3>1, <3>2
  <2> QED BY <1>1, <2>1, <2>2, <2>3, <2>4, OwnedAfterTransfer
<1>6. OwnersInv'
  BY <1>2, <1>3, <1>4, <1>5, OwnersAgain
<1>7. ThreadsKnow'
  BY <1>2, <1>3, <1>4, RecycleKnows
<1>8. CommandsBounded'
  BY <1>1, <1>2 DEF CommandsBounded
<1> QED BY <1>3, <1>4, <1>6, <1>7, <1>8, StandsAgain

LEMMA RecycleDefersKeepsInv ==
    ASSUME AllocatorInv, NEW th \in Threads, RecycleDefers(th) \/ RecycleLoses(th)
    PROVE  AllocatorInv'
<1> DEFINE c == HandClaim(th, pc[th], frame[th])
           i == BlockOf(th)
           entry == Held(frame[th].block, frame[th].tokens)
<1>1. /\ pc[th] = "recycle" /\ Cardinality(frame[th].tokens) >= 2
      /\ Return(th) /\ Unlock
      /\ UNCHANGED <<buffers, alive, poolVars, deviceVars>>
  BY DEF RecycleDefers, RecycleLoses, ownersVars
<1>2. /\ ThreadTypes /\ ListTypes /\ IInv /\ OwnersInv /\ item = 0
      /\ c \in Claims /\ c \in InHand /\ c.kind = "recycled"
      /\ c.block = frame[th].block /\ c.tokens = frame[th].tokens
      /\ c.block \in Addresses /\ ClaimOK(c, issued)
  BY <1>1, InRecycle
<1> HIDE DEF c
<1>3. c.tokens \subseteq Tokens
  <2> SUFFICES ASSUME NEW token \in c.tokens, c.tokens = {token} PROVE FALSE
    BY <1>2 DEF ClaimOK
  <2>1. Cardinality(c.tokens) = 1
    BY FS_Singleton
  <2> QED BY <1>1, <1>2, <2>1
<1>4. entry \in Entries /\ entry.block = c.block /\ entry.tokens = c.tokens
  BY <1>2, <1>3 DEF Held, Entries
<1> HIDE DEF entry
<1>5. \A kind : /\ EntryClaim(kind, entry).kind = kind
                /\ EntryClaim(kind, entry).block = c.block
                /\ EntryClaim(kind, entry).tokens = c.tokens
  BY <1>4, ClaimParts
<1>6. UNCHANGED <<call, item>>
  BY <1>1 DEF poolVars, RecycleDefers, Defer, RecycleLoses, deferredVars
<1>7. HandClaims(pc', frame') = InHand \ {c}
  BY <1>1, <1>6, RecycleEnds DEF c
<1>8. c \notin BufferClaims \cup HeldClaims \cup LostClaims
  BY <1>2, ClaimsByKind
<1>9. m_pending \in Seq(Entries) /\ HeldOnce(m_pending) /\ lost \in SUBSET Entries
  BY <1>2 DEF ListTypes, OwnersInv
<1>10. CASE RecycleDefers(th)
  <2>1. m_pending' = Append(m_pending, entry) /\ lost' = lost
    BY <1>10 DEF RecycleDefers, Defer, ownersVars, entry
  <2>2. \A other \in EntriesOf(m_pending) : other.block # entry.block
    <3> SUFFICES ASSUME NEW other \in EntriesOf(m_pending), other.block = c.block PROVE FALSE
      BY <1>4
    <3>1. /\ EntryClaim("held", other) \in Claims /\ EntryClaim("held", other).kind = "held"
          /\ EntryClaim("held", other).block = c.block
      BY ClaimsByKind, ClaimParts DEF HeldClaims, EntryClaims
    <3>2. EntryClaim("held", other) = c
      BY <1>2, <3>1 DEF OwnersInv, Owned
    <3> QED BY <1>2, <3>1, <3>2
  <2>3. /\ m_pending' \in Seq(Entries) /\ Len(m_pending') = Len(m_pending) + 1
        /\ HeldOnce(m_pending')
        /\ EntriesOf(m_pending') = EntriesOf(m_pending) \cup {entry}
    BY <1>4, <1>9, <2>1, <2>2, AppendHeld
  <2>4. EntriesOf(m_pending) \in SUBSET Entries
    BY <1>9 DEF EntriesOf
  <2>5. EntryClaims("held", EntriesOf(m_pending')) = HeldClaims \cup {EntryClaim("held", entry)}
    <3>1. EntryClaims("held", EntriesOf(m_pending) \cup {entry})
              = EntryClaims("held", EntriesOf(m_pending)) \cup {EntryClaim("held", entry)}
      BY <1>4, <2>4, EntryClaimsChange
    <3> QED BY <2>3, <3>1 DEF HeldClaims
  <2>6. Claims' = (Claims \ {c}) \cup {EntryClaim("held", entry)}
    <3>1. Claims' = BufferClaims \cup (HeldClaims \cup {EntryClaim("held", entry)})
                    \cup LostClaims \cup (InHand \ {c})
      BY <1>1, <1>7, <2>1, <2>5, ClaimsByKind DEF BufferClaims, LostClaims
    <3> QED BY <1>8, <3>1, ClaimsByKind
  <2>7. ListTypes'
    <3>1. item' <= Len(m_pending') + 1 /\ item' \in Nat
      BY <1>2, <1>6, <1>9, <2>3
    <3> QED BY <1>1, <1>2, <2>1, <2>3, <3>1 DEF ListTypes, Entries, Addresses, Tokens
  <2> QED BY <1>1, <1>5, <1>6, <2>3, <2>6, <2>7, RecycleKeepsInv DEF c
<1>11. CASE RecycleLoses(th)
  <2>1. lost' = lost \cup {entry} /\ m_pending' = m_pending
    BY <1>11 DEF RecycleLoses, deferredVars, entry
  <2>2. EntryClaims("lost", lost') = LostClaims \cup {EntryClaim("lost", entry)}
    BY <1>4, <1>9, <2>1, EntryClaimsChange DEF LostClaims
  <2>3. Claims' = (Claims \ {c}) \cup {EntryClaim("lost", entry)}
    <3>1. Claims' = BufferClaims \cup HeldClaims \cup (LostClaims \cup {EntryClaim("lost", entry)})
                    \cup (InHand \ {c})
      BY <1>1, <1>7, <2>1, <2>2, ClaimsByKind DEF BufferClaims, HeldClaims
    <3> QED BY <1>8, <3>1, ClaimsByKind
  <2>4. ListTypes'
    BY <1>1, <1>2, <1>4, <1>6, <1>9, <2>1 DEF ListTypes, Entries, Addresses, Tokens
  <2>5. HeldOnce(m_pending')
    BY <1>9, <2>1
  <2> QED BY <1>1, <1>5, <1>6, <2>3, <2>4, <2>5, RecycleKeepsInv DEF c
<1> QED BY <1>10, <1>11

----------------------------------------------------------------------------
(* The end of the allocator.                                               *)

LEMMA DestroyAllocatorKeepsInv ==
    ASSUME AllocatorInv, NEW th \in Threads, DestroyAllocator(th)
    PROVE  AllocatorInv'
<1>1. /\ pc[th] = "destroy_pool" /\ DestroyPool /\ m_pending' = <<>> /\ lost' = {}
      /\ Moves(th, "idle", EmptyFrame)
      /\ UNCHANGED <<m_mutex, item, buffers, alive, deviceVars>>
  BY DEF DestroyAllocator, Return, Moves
<1>2. /\ ControlInv /\ ThreadTypes /\ LockInv /\ IInv /\ CommandsBounded
  BY <1>1, BusyStands DEF AllocatorInv
<1>3. pc[th] \in PoolSteps /\ pc[th] \notin {"reset_pending", "giving_back", "process"}
      /\ PurposesAt(pc[th]) = {"destructor"} /\ "idle" \in Steps
  BY <1>1 DEF PoolSteps, PurposesAt, TrimSteps, Steps
<1>4. Destroys(th)
  BY <1>2, <1>3 DEF LockInv, Destroys
<1>5. ~alive /\ buffers = {} /\ \A other \in Threads \ {th} : pc[other] = "idle"
  BY <1>2, <1>4 DEF LockInv
<1>6. ThreadTypes' /\ LockInv'
  BY <1>1, <1>2, <1>3, <1>4, EmptyFrameParts, DestructorMove
<1>7. Alone(th) /\ call # "reset_pending" /\ call # "release_unused_heaps" /\ item = 0
  BY <1>2, <1>3, InPoolIsAlone, LoopOfThread
<1>8. LoopInv'
  <2>1. call' = call
    BY <1>1 DEF DestroyPool
  <2> QED BY <1>1, <1>2, <1>3, <1>7, <2>1, EmptyFrameParts, LoopAfterMove
<1>9. ListTypes'
  <2>1. m_pending' \in Seq(Entries) /\ Len(m_pending') = 0
    BY <1>1
  <2> QED BY <1>1, <1>5, <1>7, <2>1 DEF ListTypes, Entries, Addresses, Tokens
<1>10. CommandsBounded'
  BY <1>1, <1>2 DEF CommandsBounded, deviceVars
<1>11. PoolTypeOK'
  <2>1. /\ m_blocks' = <<>> /\ m_heaps' = [heap \in Heaps |-> 0] /\ m_size' = 0
        /\ UNCHANGED <<call, ite, issued, finished, running>>
    BY <1>1 DEF DestroyPool, deviceVars
  <2>2. m_blocks' \in Seq(Blocks) /\ m_heaps' \in [Heaps -> Nat] /\ m_size' \in Int
    BY <2>1
  <2> QED BY <1>2, <2>1, <2>2 DEF IInv, PoolTypeOK, DeviceTypeOK, Blocks, Tokens, NoToken
<1>12. EndInv'
  BY <1>1, <1>5, <1>11 DEF EndInv, DestroyPool
<1>13. ~Standing'
  <2>1. \A other \in Threads : pc'[other] = "idle"
    BY <1>1, <1>2, <1>3, <1>5, EmptyFrameParts, AfterMove
  <2> QED BY <1>1, <1>5, <2>1 DEF Standing
<1> QED BY <1>6, <1>8, <1>9, <1>10, <1>12, <1>13 DEF AllocatorInv, ControlInv

----------------------------------------------------------------------------
(* The device, and steps in which nothing happens.                         *)

LEMMA FinishKeepsDevice ==
    ASSUME DeviceTypeOK, NEW timeline \in Timelines, Finish(timeline)
    PROVE  /\ DeviceTypeOK' /\ issued' = issued /\ running' \subseteq running
           /\ \A l \in Timelines : finished[l] <= finished'[l]
<1>1. /\ finished[timeline] < issued[timeline] /\ issued' = issued
      /\ finished' = [finished EXCEPT ![timeline] = finished[timeline] + 1]
      /\ running' = {use \in running :
                        ~(use.timeline = timeline /\ use.id = finished[timeline])}
      /\ issued \in [Timelines -> Nat] /\ finished \in [Timelines -> Nat]
      /\ \A l \in Timelines : finished[l] <= issued[l]
  BY DEF Finish, DeviceTypeOK
<1>2. /\ finished' \in [Timelines -> Nat]
      /\ \A l \in Timelines : finished[l] <= finished'[l] /\ finished'[l] <= issued[l]
      /\ finished'[timeline] = finished[timeline] + 1
      /\ \A l \in Timelines : l # timeline => finished'[l] = finished[l]
  BY <1>1
<1>3. ASSUME NEW use \in running'
      PROVE  finished'[use.timeline] <= use.id /\ use.id < issued[use.timeline]
  <2>1. use \in running /\ ~(use.timeline = timeline /\ use.id = finished[timeline])
    BY <1>1
  <2>2. /\ use.timeline \in Timelines /\ use.id \in Nat
        /\ finished[use.timeline] <= use.id /\ use.id < issued[use.timeline]
    BY <2>1 DEF DeviceTypeOK
  <2> QED BY <1>1, <1>2, <2>1, <2>2
<1>4. running' \subseteq [timeline : Timelines, id : Nat, heap : Heaps, offset : Nat, size : Nat]
  BY <1>1 DEF DeviceTypeOK
<1> QED BY <1>1, <1>2, <1>3, <1>4 DEF DeviceTypeOK

\* No thread moves, and the pool and the lists stay as they are.
LEMMA StillKeepsInv ==
    ASSUME AllocatorInv, UNCHANGED <<allocatorVars, deferredVars, poolVars>>,
           Standing => IInv', ~Standing => DeviceTypeOK',
           issued' = issued, running' \subseteq running,
           \A l \in Timelines : finished[l] <= finished'[l], finished' \in [Timelines -> Nat],
           finished \in [Timelines -> Nat]
    PROVE  AllocatorInv'
<1>1. /\ UNCHANGED <<m_mutex, pc, frame, buffers, lost, alive, m_pending, item>>
      /\ UNCHANGED <<m_blocks, m_heaps, m_size, call, ite>>
  BY DEF allocatorVars, deferredVars, poolVars
<1>2. ListTypes' /\ CommandsBounded' /\ Standing' = Standing
  BY <1>1 DEF AllocatorInv, ListTypes, CommandsBounded, Standing, Entries, Addresses, Tokens
<1>3. CASE Standing
  <2>1. ThreadTypes /\ IInv /\ OwnersInv /\ ThreadsKnow
    BY <1>3 DEF AllocatorInv, ControlInv, StandingInv
  <2>2. ThreadTypes' /\ LockInv' /\ LoopInv' /\ Standing'
    BY <1>1, <1>3, StillControl
  <2>3. LentBlocks' = LentBlocks /\ FreeIn(m_blocks') = FreeIn(m_blocks)
    BY <1>1, LentOfPool
  <2>4. Claims' = Claims /\ Notes' = Notes
    <3>1. Notes' = Notes
      BY <1>1 DEF Notes, NotesOf
    <3> QED BY <1>1, <3>1, ClaimsByKind DEF BufferClaims, HeldClaims, LostClaims, InHand
  <2>5. OwnersInv'
    <3>1. Owned(Claims, Notes, LentBlocks, issued, running) /\ HeldOnce(m_pending)
      BY <2>1 DEF OwnersInv
    <3>2. running' \in SUBSET running
      OBVIOUS
    <3>3. Owned(Claims, Notes, LentBlocks, issued, running')
      BY <3>1, <3>2, OwnedAfterFinish
    <3> QED BY <1>1, <2>3, <2>4, <3>1, <3>3, OwnersAgain
  <2>6. ThreadsKnow'
    <3>1. ASSUME NEW loan \in LentBlocks, Given(loan.pending, finished)
          PROVE  Given(loan.pending, finished')
      <4>1. PICK i \in Positions : loan = LoanOf(m_blocks[i])
        BY DEF LentBlocks
      <4>2. m_blocks[i].pending \in PendingTokens /\ loan.pending = m_blocks[i].pending
        BY <2>1, <4>1, LoanParts, BlocksAreBlocks DEF IInv, ListOK, Positions
      <4>3. SUFFICES ASSUME ~IsEmpty(loan.pending)
                     PROVE  loan.pending.id < finished'[loan.pending.timeline]
        BY DEF Given
      <4>4. loan.pending \in Tokens
        BY <4>2, <4>3 DEF PendingTokens, IsEmpty, NoToken
      <4>5. /\ loan.pending.timeline \in Timelines /\ loan.pending.id \in Nat
            /\ loan.pending.id < finished[loan.pending.timeline]
        BY <3>1, <4>3, <4>4 DEF Tokens, Given
      <4> QED BY <4>5
    <3>2. ASSUME NEW th \in Threads
          PROVE  /\ AskedBy(pc[th], frame[th])
                 /\ TakenBy(pc[th], frame[th], FreeIn(m_blocks))
                 /\ SeenBy(pc[th], frame[th], LentBlocks, finished')
      BY <2>1, <3>1 DEF ThreadsKnow, SeenBy
    <3>3. ThreadsKnow' <=> \A other \in Threads :
              /\ AskedBy(pc'[other], frame'[other])
              /\ TakenBy(pc'[other], frame'[other], FreeIn(m_blocks'))
              /\ SeenBy(pc'[other], frame'[other], LentBlocks', finished')
      BY DEF ThreadsKnow, AskedBy, TakenBy, SeenBy, FreeIn, AddressOf, Given, IsEmpty
    <3> QED BY <1>1, <2>3, <3>2, <3>3
  <2> QED BY <1>2, <1>3, <2>2, <2>5, <2>6, StandsAgain
<1>4. CASE ~Standing
  <2>1. ControlInv /\ EndInv
    BY <1>4 DEF AllocatorInv
  <2>2. ControlInv'
    <3>1. ThreadTypes' /\ LockInv' /\ LoopInv'
      BY <1>1, <2>1 DEF ControlInv, ThreadTypes, LockInv, LoopInv, Destroys, EmptyFrame
    <3> QED BY <3>1 DEF ControlInv
  <2>3. EndInv'
    BY <1>1, <1>4, <2>1 DEF EndInv, PoolTypeOK, Blocks, Tokens, NoToken
  <2> QED BY <1>2, <1>4, <2>2, <2>3 DEF AllocatorInv
<1> QED BY <1>3, <1>4

LEMMA DeviceStepKeepsInv ==
    ASSUME AllocatorInv, NEW timeline \in Timelines, DeviceStep(timeline)
    PROVE  AllocatorInv'
<1>1. Finish(timeline) /\ UNCHANGED <<allocatorVars, deferredVars, poolVars>>
  BY DEF DeviceStep
<1>2. DeviceTypeOK
  BY DEF AllocatorInv, StandingInv, EndInv, IInv, PoolTypeOK
<1>3. /\ DeviceTypeOK' /\ issued' = issued /\ running' \subseteq running
      /\ \A l \in Timelines : finished[l] <= finished'[l]
      /\ finished' \in [Timelines -> Nat] /\ finished \in [Timelines -> Nat]
  BY <1>1, <1>2, FinishKeepsDevice DEF DeviceTypeOK
<1>4. Standing => IInv'
  <2>1. FinishCommand
    BY <1>1 DEF FinishCommand
  <2> QED BY <2>1, FinishKeepsIInv DEF AllocatorInv, StandingInv
<1> QED BY <1>1, <1>3, <1>4, StillKeepsInv

LEMMA StutterKeepsInv ==
    ASSUME AllocatorInv, UNCHANGED allVars
    PROVE  AllocatorInv'
<1>1. UNCHANGED <<allocatorVars, deferredVars, poolVars>> /\ UNCHANGED deviceVars
  BY DEF allVars
<1>2. DeviceTypeOK
  BY DEF AllocatorInv, StandingInv, EndInv, IInv, PoolTypeOK
<1>3. DeviceTypeOK' /\ UNCHANGED <<issued, finished, running>>
  BY <1>1, <1>2 DEF deviceVars, DeviceTypeOK
<1>4. /\ \A l \in Timelines : finished[l] <= finished'[l]
      /\ finished \in [Timelines -> Nat]
  BY <1>2, <1>3 DEF DeviceTypeOK
<1>5. Standing => IInv'
  BY <1>1, PoolStutter DEF AllocatorInv, StandingInv
<1> QED BY <1>1, <1>3, <1>4, <1>5, StillKeepsInv

\* An allocator that was just made, on a device that was given nothing to do.
LEMMA InitInv ==
    ASSUME AllocatorInit
    PROVE  AllocatorInv
<1>1. /\ DeviceInit /\ PoolInit /\ m_pending = <<>> /\ item = 0
      /\ m_mutex = NoThread
      /\ pc = [th \in Threads |-> "idle"] /\ frame = [th \in Threads |-> EmptyFrame]
      /\ buffers = {} /\ lost = {} /\ alive = TRUE
  BY DEF AllocatorInit, DeferredInit
<1>2. IInv
  BY <1>1, InitIInv DEF Init
<1>3. /\ \A th \in Threads : pc[th] = "idle" /\ frame[th] = EmptyFrame
      /\ "idle" \in Steps /\ "idle" \notin LockedSteps /\ PurposesAt("idle") = {"none"}
      /\ "idle" \notin HandSteps /\ "idle" \notin RequestSteps
      /\ "idle" \notin {"set_pending", "cut", "acquire", "give_back", "grow", "record_use",
                        "reset_pending", "giving_back", "process"}
  BY <1>1, StepsOutside DEF RequestSteps
<1>4. ThreadTypes
  BY <1>1, <1>3, EmptyFrameParts DEF ThreadTypes
<1>5. LockInv
  <2>1. \A th \in Threads : NoThread # th
    BY ThreadsAssumption
  <2> QED BY <1>1, <1>3, <2>1, EmptyFrameParts DEF LockInv, Destroys
<1>6. LoopInv
  BY <1>1, <1>3 DEF LoopInv, PoolInit
<1>7. m_pending \in Seq(Entries) /\ Len(m_pending) = 0
  BY <1>1
<1>8. ListTypes
  BY <1>1, <1>7 DEF ListTypes
<1>9. CommandsBounded
  BY <1>1, MaxCommandsAssumption DEF CommandsBounded, DeviceInit
<1>10. Claims = {} /\ Notes = {}
  BY <1>1, <1>3, <1>7 DEF Claims, ClaimsOf, EntryClaims, EntriesOf, HandClaims, Notes, NotesOf
<1>11. LentBlocks = {}
  BY <1>1 DEF LentBlocks, Positions, PoolInit
<1>12. OwnersInv
  BY <1>7, <1>10, <1>11 DEF OwnersInv, Owned, HeldOnce
<1>13. ThreadsKnow
  BY <1>3, EmptyFrameParts DEF ThreadsKnow, AskedBy, TakenBy, SeenBy
<1> QED BY <1>1, <1>2, <1>4, <1>5, <1>6, <1>8, <1>9, <1>12, <1>13
        DEF AllocatorInv, ControlInv, StandingInv, Standing

LEMMA AllocatorNextKeepsInv ==
    ASSUME RequestsFit, AllocatorInv, AllocatorNext
    PROVE  AllocatorInv'
<1>1. ASSUME NEW th \in Threads, Starts(th)
      PROVE  AllocatorInv'
  BY <1>1, StartAllocateKeepsInv, SubmitKeepsInv, DestroyBufferKeepsInv, StartTrimKeepsInv,
     StartDestroyKeepsInv DEF Starts
<1>2. ASSUME NEW th \in Threads, Locks(th)
      PROVE  AllocatorInv'
  BY <1>2, LocksKeepInv
<1>3. ASSUME NEW th \in Threads, Continues(th)
      PROVE  AllocatorInv'
  <2>1. CASE \/ Process(th) \/ Search(th) \/ SearchAgain(th) \/ Grow(th) \/ Halve(th)
             \/ TrimToRetry(th) \/ ThrowBadAlloc(th) \/ Cut(th) \/ AcquireBlock(th)
    BY <2>1, ProcessKeepsInv, SearchesKeepInv, GrowKeepsInv, RefusalKeepsInv, ThrowKeepsInv,
       CutKeepsInv, AcquireBlockKeepsInv
  <2>2. CASE \/ AskPending(th) \/ ForgetPending(th) \/ MakeBuffer(th) \/ SettleFails(th)
             \/ RecordUse(th) \/ RecycleReleases(th) \/ RecycleDefers(th) \/ RecycleLoses(th)
    BY <2>2, AskPendingKeepsInv, ForgetPendingKeepsInv, MakeBufferKeepsInv, SettleFailsKeepsInv,
       RecordUseKeepsInv, RecycleReleasesKeepsInv, RecycleDefersKeepsInv
  <2>3. CASE \/ WaitAll(th) \/ WaitPending(th) \/ Reset(th) \/ StartGiveBack(th) \/ GiveBack(th)
             \/ EndTrim(th) \/ DestroyAllocator(th) \/ CallThrows(th) \/ DestructorThrows(th)
    BY <2>3, WaitAllKeepsInv, TrimKeepsInv, EndTrimKeepsInv, DestroyAllocatorKeepsInv,
       ThrowKeepsInv, DestructorThrowsKeepsInv
  <2> QED BY <1>3, <2>1, <2>2, <2>3 DEF Continues
<1>4. ASSUME NEW timeline \in Timelines, DeviceStep(timeline)
      PROVE  AllocatorInv'
  BY <1>4, DeviceStepKeepsInv
<1>5. ASSUME Terminated
      PROVE  AllocatorInv'
  BY <1>5, StutterKeepsInv DEF Terminated
<1> QED BY <1>1, <1>2, <1>3, <1>4, <1>5 DEF AllocatorNext

----------------------------------------------------------------------------
(* What the invariant says of a block's owners.                            *)

\* Claims with one address are one claim, and it tells who has it.
LEMMA ClaimsOfAddress ==
    ASSUME ListTypes, OwnersInv, NEW c \in Claims
    PROVE  /\ \A buffer \in buffers : buffer.block = c.block
                  => c = EntryClaim("buffer", buffer) /\ c.kind = "buffer"
           /\ \A k \in 1..Len(m_pending) : m_pending[k].block = c.block
                  => c = EntryClaim("held", m_pending[k]) /\ c.kind = "held"
           /\ \A held \in lost : held.block = c.block
                  => c = EntryClaim("lost", held) /\ c.kind = "lost"
           /\ \A th \in Threads : pc[th] \in HandSteps /\ frame[th].block = c.block
                  => /\ c = HandClaim(th, pc[th], frame[th])
                     /\ c.kind \in {"fresh", "recycled"} /\ c.key = th
<1>1. \A other \in Claims : other.block = c.block => c = other
  BY DEF OwnersInv, Owned
<1>2. ASSUME NEW buffer \in buffers, buffer.block = c.block
      PROVE  c = EntryClaim("buffer", buffer) /\ c.kind = "buffer"
  BY <1>1, <1>2, ClaimParts, ClaimsByKind DEF BufferClaims, EntryClaims
<1>3. ASSUME NEW k \in 1..Len(m_pending), m_pending[k].block = c.block
      PROVE  c = EntryClaim("held", m_pending[k]) /\ c.kind = "held"
  BY <1>1, <1>3, ClaimParts, ClaimsByKind DEF HeldClaims, EntryClaims, EntriesOf
<1>4. ASSUME NEW held \in lost, held.block = c.block
      PROVE  c = EntryClaim("lost", held) /\ c.kind = "lost"
  BY <1>1, <1>4, ClaimParts, ClaimsByKind DEF LostClaims, EntryClaims
<1>5. ASSUME NEW th \in Threads, pc[th] \in HandSteps, frame[th].block = c.block
      PROVE  /\ c = HandClaim(th, pc[th], frame[th])
             /\ c.kind \in {"fresh", "recycled"} /\ c.key = th
  <2>1. c = HandClaim(th, pc[th], frame[th])
    BY <1>1, <1>5, HandClaimIn, ClaimParts
  <2> QED BY <2>1, ClaimParts
<1> QED BY <1>2, <1>3, <1>4, <1>5

LEMMA HandsHold == \A th \in Threads : HoldsFresh(th) \/ HoldsRecycled(th) <=> pc[th] \in HandSteps
BY DEF HoldsFresh, HoldsRecycled, HandSteps

LEMMA ClaimedOnce ==
    ASSUME ListTypes, OwnersInv, NEW c \in Claims
    PROVE  OwnerCount(c.block) = 1
<1> DEFINE B == {buffer \in buffers : buffer.block = c.block}
           K == {k \in 1..Len(m_pending) : m_pending[k].block = c.block}
           L == {held \in lost : held.block = c.block}
           H == {th \in Threads : /\ HoldsFresh(th) \/ HoldsRecycled(th)
                                  /\ frame[th].block = c.block}
<1>1. OwnerCount(c.block) = Cardinality(B) + Cardinality(K) + Cardinality(L) + Cardinality(H)
  BY DEF OwnerCount
<1>2. /\ \A buffer \in B : c = EntryClaim("buffer", buffer) /\ c.kind = "buffer"
      /\ \A k \in K : c = EntryClaim("held", m_pending[k]) /\ c.kind = "held"
      /\ \A held \in L : c = EntryClaim("lost", held) /\ c.kind = "lost"
      /\ \A th \in H : c.kind \in {"fresh", "recycled"} /\ c.key = th
  BY ClaimsOfAddress, HandsHold
<1>3. Cardinality({}) = 0 /\ \A x : Cardinality({x}) = 1
  BY FS_EmptySet, FS_Singleton
<1>4. CASE c \in BufferClaims
  <2>1. PICK b \in buffers : c = EntryClaim("buffer", b)
    BY <1>4 DEF BufferClaims, EntryClaims
  <2>2. b \in B /\ c.kind = "buffer"
    BY <2>1, ClaimParts
  <2>3. \A buffer \in B : buffer = b
    <3> SUFFICES ASSUME NEW buffer \in B PROVE buffer = b
      OBVIOUS
    <3>1. buffer \in Entries /\ b \in Entries
      BY DEF ListTypes
    <3> QED BY <1>2, <2>1, <3>1, EntryClaimsApart
  <2>4. B = {b} /\ K = {} /\ L = {} /\ H = {}
    BY <1>2, <2>2, <2>3
  <2> HIDE DEF B, K, L, H
  <2>5. /\ Cardinality(B) = 1 /\ Cardinality(K) = 0
        /\ Cardinality(L) = 0 /\ Cardinality(H) = 0
    BY <1>3, <2>4, Zenon
  <2> QED BY <1>1, <2>5
<1>5. CASE c \in HeldClaims
  <2>1. PICK k \in 1..Len(m_pending) : c = EntryClaim("held", m_pending[k])
    BY <1>5 DEF HeldClaims, EntryClaims, EntriesOf
  <2>2. k \in K /\ c.kind = "held"
    BY <2>1, ClaimParts
  <2>3. \A j \in K : j = k
    BY <2>2 DEF OwnersInv, HeldOnce
  <2>4. B = {} /\ K = {k} /\ L = {} /\ H = {}
    BY <1>2, <2>2, <2>3
  <2> HIDE DEF B, K, L, H
  <2>5. /\ Cardinality(B) = 0 /\ Cardinality(K) = 1
        /\ Cardinality(L) = 0 /\ Cardinality(H) = 0
    BY <1>3, <2>4, Zenon
  <2> QED BY <1>1, <2>5
<1>6. CASE c \in LostClaims
  <2>1. PICK b \in lost : c = EntryClaim("lost", b)
    BY <1>6 DEF LostClaims, EntryClaims
  <2>2. b \in L /\ c.kind = "lost"
    BY <2>1, ClaimParts
  <2>3. \A held \in L : held = b
    <3> SUFFICES ASSUME NEW held \in L PROVE held = b
      OBVIOUS
    <3>1. held \in Entries /\ b \in Entries
      BY DEF ListTypes
    <3> QED BY <1>2, <2>1, <3>1, EntryClaimsApart
  <2>4. B = {} /\ K = {} /\ L = {b} /\ H = {}
    BY <1>2, <2>2, <2>3
  <2> HIDE DEF B, K, L, H
  <2>5. /\ Cardinality(B) = 0 /\ Cardinality(K) = 0
        /\ Cardinality(L) = 1 /\ Cardinality(H) = 0
    BY <1>3, <2>4, Zenon
  <2> QED BY <1>1, <2>5
<1>7. CASE c \in InHand
  <2>1. PICK th \in Threads : pc[th] \in HandSteps /\ c = HandClaim(th, pc[th], frame[th])
    BY <1>7 DEF InHand, HandClaims
  <2>2. th \in H /\ c.key = th /\ c.kind \in {"fresh", "recycled"}
    BY <2>1, ClaimParts, HandsHold
  <2>3. B = {} /\ K = {} /\ L = {} /\ H = {th}
    BY <1>2, <2>2
  <2> HIDE DEF B, K, L, H
  <2>4. /\ Cardinality(B) = 0 /\ Cardinality(K) = 0
        /\ Cardinality(L) = 0 /\ Cardinality(H) = 1
    BY <1>3, <2>3, Zenon
  <2> QED BY <1>1, <2>4
<1> QED BY <1>4, <1>5, <1>6, <1>7, ClaimsByKind

LEMMA UnclaimedHasNoOwner ==
    ASSUME NEW address, \A c \in Claims : c.block # address
    PROVE  OwnerCount(address) = 0
<1> DEFINE B == {buffer \in buffers : buffer.block = address}
           K == {k \in 1..Len(m_pending) : m_pending[k].block = address}
           L == {held \in lost : held.block = address}
           H == {th \in Threads : /\ HoldsFresh(th) \/ HoldsRecycled(th)
                                  /\ frame[th].block = address}
<1>1. OwnerCount(address) = Cardinality(B) + Cardinality(K) + Cardinality(L) + Cardinality(H)
  BY DEF OwnerCount
<1>2. /\ \A buffer \in buffers : EntryClaim("buffer", buffer) \in Claims
      /\ \A k \in 1..Len(m_pending) : EntryClaim("held", m_pending[k]) \in Claims
      /\ \A held \in lost : EntryClaim("lost", held) \in Claims
      /\ \A th \in Threads : pc[th] \in HandSteps => HandClaim(th, pc[th], frame[th]) \in Claims
  BY HandClaimIn, ClaimsByKind DEF BufferClaims, HeldClaims, LostClaims, EntryClaims, EntriesOf
<1>3. B = {} /\ K = {} /\ L = {} /\ H = {}
  BY <1>2, ClaimParts, HandsHold
<1> HIDE DEF B, K, L, H
<1> QED BY <1>1, <1>3, FS_EmptySet

\* Whoever has the block keeps every token its claim counts.
LEMMA TokensAreKept ==
    ASSUME ListTypes, NEW c \in Claims, NEW i \in Positions, AddressOf(m_blocks[i]) = c.block,
           NEW token \in TokensFor(c, LoanOf(m_blocks[i]), Notes)
    PROVE  \/ \E h \in buffers \cup lost \cup ToSet(m_pending) :
                  h.block = AddressOf(m_blocks[i]) /\ token \in h.tokens
           \/ \E th \in Threads :
                  /\ HoldsFresh(th) \/ HoldsRecycled(th) \/ pc[th] = "record_use"
                  /\ frame[th].block = AddressOf(m_blocks[i])
                  /\ token \in IF HoldsFresh(th) THEN {m_blocks[i].pending}
                                ELSE frame[th].tokens
<1> DEFINE kept == \E h \in buffers \cup lost \cup ToSet(m_pending) :
                       h.block = AddressOf(m_blocks[i]) /\ token \in h.tokens
           inHand == \E th \in Threads :
                       /\ HoldsFresh(th) \/ HoldsRecycled(th) \/ pc[th] = "record_use"
                       /\ frame[th].block = AddressOf(m_blocks[i])
                       /\ token \in IF HoldsFresh(th) THEN {m_blocks[i].pending}
                                     ELSE frame[th].tokens
<1>1. ASSUME NEW h \in buffers \cup lost \cup ToSet(m_pending), h.block = c.block,
             token \in h.tokens
      PROVE  kept
  BY <1>1
<1>2. ASSUME NEW th \in Threads, HoldsFresh(th) \/ HoldsRecycled(th) \/ pc[th] = "record_use",
             frame[th].block = c.block,
             token \in IF HoldsFresh(th) THEN {m_blocks[i].pending} ELSE frame[th].tokens
      PROVE  inHand
  BY <1>2
<1> HIDE DEF kept, inHand
<1> SUFFICES kept \/ inHand
  BY DEF kept, inHand
<1>3. CASE token \in NotedFor(c.block, Notes)
  <2>1. PICK n \in Notes : n.block = c.block /\ token \in n.tokens
    BY <1>3 DEF NotedFor
  <2>2. PICK th \in Threads : /\ pc[th] = "record_use"
                              /\ n = [key |-> th, block |-> frame[th].block,
                                      tokens |-> frame[th].tokens]
    BY <2>1 DEF Notes, NotesOf
  <2>3. ~HoldsFresh(th)
    BY <2>2 DEF HoldsFresh
  <2> QED BY <1>2, <2>1, <2>2, <2>3
<1>4. CASE token \notin NotedFor(c.block, Notes)
  <2>1. token \in IF c.kind = "fresh" THEN {m_blocks[i].pending} ELSE c.tokens
    BY <1>4, LoanParts DEF TokensFor
  <2>2. CASE c \in BufferClaims
    <3>1. PICK b \in buffers : c = EntryClaim("buffer", b)
      BY <2>2 DEF BufferClaims, EntryClaims
    <3>2. c.kind = "buffer" /\ c.block = b.block /\ c.tokens = b.tokens
      BY <3>1, ClaimParts
    <3> QED BY <1>1, <2>1, <3>2
  <2>3. CASE c \in HeldClaims
    <3>1. PICK k \in 1..Len(m_pending) : c = EntryClaim("held", m_pending[k])
      BY <2>3 DEF HeldClaims, EntryClaims, EntriesOf
    <3>2. c.kind = "held" /\ c.block = m_pending[k].block /\ c.tokens = m_pending[k].tokens
      BY <3>1, ClaimParts
    <3>3. m_pending[k] \in ToSet(m_pending)
      BY DEF ListTypes, ToSet
    <3> QED BY <1>1, <2>1, <3>2, <3>3
  <2>4. CASE c \in LostClaims
    <3>1. PICK b \in lost : c = EntryClaim("lost", b)
      BY <2>4 DEF LostClaims, EntryClaims
    <3>2. c.kind = "lost" /\ c.block = b.block /\ c.tokens = b.tokens
      BY <3>1, ClaimParts
    <3> QED BY <1>1, <2>1, <3>2
  <2>5. CASE c \in InHand
    <3>1. PICK th \in Threads : pc[th] \in HandSteps /\ c = HandClaim(th, pc[th], frame[th])
      BY <2>5 DEF InHand, HandClaims
    <3>2. /\ c.block = frame[th].block
          /\ c.kind = IF pc[th] \in FreshSteps THEN "fresh" ELSE "recycled"
          /\ pc[th] \notin FreshSteps => c.tokens = frame[th].tokens
      BY <3>1, ClaimParts
    <3>3. HoldsFresh(th) <=> pc[th] \in FreshSteps
      BY DEF HoldsFresh, FreshSteps
    <3> QED BY <1>2, <2>1, <3>1, <3>2, <3>3, HandsHold
  <2> QED BY <2>2, <2>3, <2>4, <2>5, ClaimsByKind
<1> QED BY <1>3, <1>4

----------------------------------------------------------------------------
(* The theorems.                                                           *)

\* What the threads and the device do, however they are interleaved and
\* whatever fails, keeps the invariant.
THEOREM AllocatorInvariant ==
    ASSUME RequestsFit
    PROVE  AllocatorSpec => []AllocatorInv
<1>1. AllocatorInit => AllocatorInv
  BY InitInv
<1>2. AllocatorInv /\ [AllocatorNext]_allVars => AllocatorInv'
  BY AllocatorNextKeepsInv, StutterKeepsInv
<1> QED BY <1>1, <1>2, PTL DEF AllocatorSpec

\* The state is made of what the code can hold, and a thread that is in the
\* pool has the lock.
THEOREM AllocatorTypeCorrect ==
    ASSUME RequestsFit
    PROVE  AllocatorSpec => []AllocatorTypeOK
<1>1. AllocatorInv => AllocatorTypeOK
  <2> SUFFICES ASSUME AllocatorInv PROVE AllocatorTypeOK
    OBVIOUS
  <2>1. PoolTypeOK /\ ThreadTypes /\ LockInv /\ ListTypes
    BY DEF AllocatorInv, ControlInv, StandingInv, EndInv, IInv
  <2>2. item \in 0..Len(m_pending) + 1
    BY <2>1 DEF ListTypes
  <2>3. \A k \in 1..Len(m_pending) : m_pending[k] \in [block : Addresses, tokens : SUBSET Tokens]
    <3> SUFFICES ASSUME NEW k \in 1..Len(m_pending) PROVE m_pending[k] \in Entries
      BY DEF Entries
    <3>1. m_pending \in Seq(Entries)
      BY <2>1 DEF ListTypes
    <3> QED BY <3>1
  <2>4. m_mutex \in Threads \cup {NoThread}
        /\ buffers \cup lost \subseteq [block : Addresses, tokens : SUBSET Tokens]
    BY <2>1 DEF ListTypes, Entries, ThreadTypes
  <2>5. frame \in [Threads ->
           [asked : Nat, size : Nat, timeline : Timelines \cup {NoTimeline}, heap_size : Nat,
            block : Addresses \cup {NoBlock}, tokens : SUBSET (Tokens \cup {NoToken}),
            trim_for : {"none", "allocate", "trim", "destructor"}]]
    BY <2>1 DEF ThreadTypes, Frames, Purposes
  <2>6. ASSUME NEW th \in Threads,
               pc[th] \in {"process", "search", "search_again", "grow", "cut", "acquire", "recycle"}
        PROVE  m_mutex = th
    <3>1. pc[th] \in LockedSteps /\ "destructor" \notin PurposesAt(pc[th])
      BY <2>6 DEF LockedSteps, PurposesAt, TrimSteps
    <3> QED BY <2>1, <3>1 DEF LockInv, Destroys
  <2> QED BY <2>1, <2>2, <2>3, <2>4, <2>5, <2>6 DEF AllocatorTypeOK
<1> QED BY <1>1, AllocatorInvariant, PTL

\* No interleaving of calls, and no failure of one, leaks a block or gives one
\* back twice.
THEOREM AllocatorBlocksOwned ==
    ASSUME RequestsFit
    PROVE  AllocatorSpec => []BlocksHaveOneOwner
<1>1. AllocatorInv => BlocksHaveOneOwner
  <2> SUFFICES ASSUME AllocatorInv, NEW i \in Positions
               PROVE  OwnerCount(AddressOf(m_blocks[i])) = IF m_blocks[i].free THEN 0 ELSE 1
    BY DEF BlocksHaveOneOwner
  <2>1. IInv /\ OwnersInv /\ ListTypes
    <3>1. Standing
      BY DEF AllocatorInv, EndInv, Positions
    <3> QED BY <3>1 DEF AllocatorInv, StandingInv
  <2>2. CASE m_blocks[i].free
    <3>1. ASSUME NEW c \in Claims, c.block = AddressOf(m_blocks[i])
          PROVE  FALSE
      <4> DEFINE j == PositionOf(c.block)
      <4>1. j \in Positions /\ ~m_blocks[j].free /\ AddressOf(m_blocks[j]) = c.block
        BY <2>1, ClaimedPosition
      <4> HIDE DEF j
      <4>2. i = j
        BY <2>1, <3>1, <4>1, AddressNames
      <4> QED BY <2>2, <4>1, <4>2
    <3>2. OwnerCount(AddressOf(m_blocks[i])) = 0
      BY <3>1, UnclaimedHasNoOwner
    <3> QED BY <2>2, <3>2
  <2>3. CASE ~m_blocks[i].free
    <3>1. LoanOf(m_blocks[i]) \in LentBlocks
      BY <2>3 DEF LentBlocks
    <3>2. PICK c \in Claims : c.block = AddressOf(LoanOf(m_blocks[i]))
      BY <2>1, <3>1 DEF OwnersInv, Owned
    <3>3. c.block = AddressOf(m_blocks[i])
      BY <3>2, LoanAddress
    <3>4. OwnerCount(c.block) = 1
      BY <2>1, ClaimedOnce
    <3> QED BY <2>3, <3>3, <3>4
  <2> QED BY <2>2, <2>3
<1> QED BY <1>1, AllocatorInvariant, PTL

\* Whoever has a block has a token for every unfinished command that uses it,
\* recorded or about to be, whatever order they are recorded in.
THEOREM AllocatorUsesCovered ==
    ASSUME RequestsFit
    PROVE  AllocatorSpec => []OwnersCoverUses
<1>1. AllocatorInv => OwnersCoverUses
  <2> DEFINE kept(b) == UNION {held.tokens : held \in
                 {h \in buffers \cup lost \cup ToSet(m_pending) : h.block = AddressOf(b)}}
             inHand(b) == UNION {IF HoldsFresh(th) THEN {b.pending} ELSE frame[th].tokens :
                 th \in {t \in Threads :
                     /\ HoldsFresh(t) \/ HoldsRecycled(t) \/ pc[t] = "record_use"
                     /\ frame[t].block = AddressOf(b)}}
  <2>1. ASSUME AllocatorInv, NEW i \in Positions, ~m_blocks[i].free
        PROVE  AllUsesCovered(kept(m_blocks[i]) \cup inHand(m_blocks[i]), SpanOf(m_blocks[i]))
    <3>1. IInv /\ OwnersInv /\ ListTypes
      <4>1. Standing
        BY <2>1 DEF AllocatorInv, EndInv, Positions
      <4> QED BY <2>1, <4>1 DEF AllocatorInv, StandingInv
    <3>2. LoanOf(m_blocks[i]) \in LentBlocks
      BY <2>1 DEF LentBlocks
    <3>3. PICK c \in Claims : c.block = AddressOf(LoanOf(m_blocks[i]))
      BY <3>1, <3>2 DEF OwnersInv, Owned
    <3>4. AddressOf(m_blocks[i]) = c.block
      BY <3>3, LoanAddress
    <3>5. CoversUses(TokensFor(c, LoanOf(m_blocks[i]), Notes), SpanOf(LoanOf(m_blocks[i])), running)
      BY <3>1, <3>2, <3>3 DEF OwnersInv, Owned
    <3>6. ASSUME NEW token \in TokensFor(c, LoanOf(m_blocks[i]), Notes)
          PROVE  token \in kept(m_blocks[i]) \cup inHand(m_blocks[i])
      <4>1. \/ \E h \in buffers \cup lost \cup ToSet(m_pending) :
                  h.block = AddressOf(m_blocks[i]) /\ token \in h.tokens
            \/ \E th \in Threads :
                  /\ HoldsFresh(th) \/ HoldsRecycled(th) \/ pc[th] = "record_use"
                  /\ frame[th].block = AddressOf(m_blocks[i])
                  /\ token \in IF HoldsFresh(th) THEN {m_blocks[i].pending}
                                ELSE frame[th].tokens
        BY <3>1, <3>4, TokensAreKept
      <4> QED BY <4>1
    <3> HIDE DEF kept, inHand
    <3> QED BY <3>5, <3>6, LoanParts DEF CoversUses, AllUsesCovered
  <2> QED BY <2>1 DEF OwnersCoverUses
<1> QED BY <1>1, AllocatorInvariant, PTL

\* The token a free block carries covers whatever still uses its memory.
THEOREM AllocatorFreeBlocksCovered ==
    ASSUME RequestsFit
    PROVE  AllocatorSpec => []FreeBlocksCovered
<1>1. AllocatorInv => FreeBlocksCovered
  <2> SUFFICES ASSUME AllocatorInv PROVE FreeBlocksCovered
    OBVIOUS
  <2>1. CASE Standing
    BY <2>1 DEF AllocatorInv, StandingInv, IInv, ListOK, FreeBlocksCovered
  <2>2. CASE ~Standing
    <3>1. m_blocks = <<>>
      BY <2>2 DEF AllocatorInv, EndInv
    <3>2. Len(m_blocks) = 0
      BY <3>1
    <3> QED BY <3>2 DEF FreeBlocksCovered, Covered
  <2> QED BY <2>1, <2>2
<1> QED BY <1>1, AllocatorInvariant, PTL
====
