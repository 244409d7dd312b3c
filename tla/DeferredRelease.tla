---- MODULE DeferredRelease ----
(***************************************************************************)
(* deferred_release: the blocks that commands of several timelines still   *)
(* use.  A free block carries one token, so these wait here until at most  *)
(* one of their tokens is unfinished.  Every call runs under the lock of   *)
(* the allocator that owns the list.                                       *)
(***************************************************************************)
EXTENDS MemoryBlockPool

VARIABLES
    m_pending,      \* the blocks held back, as [block, tokens], oldest first
    item            \* the entry that process is asking about, 0 outside that loop

deferredVars == <<m_pending, item>>

Addresses == Heaps \X Nat

AddressOf(block) == <<block.heap, block.offset>>

\* Blocks are named by the address of their memory: a memory_block that is not
\* free keeps its address.
PositionOf(address) == CHOOSE i \in Positions : AddressOf(m_blocks[i]) = address

Held(address, tokens) == [block |-> address, tokens |-> tokens]

DeferredInit == m_pending = <<>> /\ item = 0

Defer(address, tokens) ==
    /\ m_pending' = Append(m_pending, Held(address, tokens))
    /\ UNCHANGED item

----------------------------------------------------------------------------
(* process: every entry is asked about before any block goes back.         *)

StartProcess ==
    /\ item' = 1
    /\ UNCHANGED m_pending

\* A slip: the flags are read the wrong way round.
DropUnfinishedTokens ==
    /\ item \in 1..Len(m_pending)
    /\ m_pending' = [m_pending EXCEPT ![item].tokens = {token \in @ : IsComplete(token)}]
    /\ item' = item + 1

\* drop_complete_tokens: the tokens are all asked before any is dropped.
DropCompleteTokens ==
    /\ item \in 1..Len(m_pending)
    /\ m_pending' = [m_pending EXCEPT ![item].tokens = {token \in @ : ~IsComplete(token)}]
    /\ item' = item + 1

Ready(entry) == Cardinality(entry.tokens) < 2

TokenOf(tokens) == IF tokens = {} THEN NoToken ELSE CHOOSE token \in tokens : TRUE

EveryItemAsked == item > Len(m_pending)

\* A slip: the entry stays on the list.
ReleaseReadyAgain ==
    /\ EveryItemAsked
    /\ \E k \in 1..Len(m_pending) :
          /\ Ready(m_pending[k])
          /\ Release(PositionOf(m_pending[k].block), TokenOf(m_pending[k].tokens))
          /\ UNCHANGED <<m_pending, item>>

\* The first entry that is ready goes back to the pool and leaves the list.
ReleaseReady ==
    /\ EveryItemAsked
    /\ \E k \in 1..Len(m_pending) :
          /\ Ready(m_pending[k])
          /\ \A earlier \in 1..k - 1 : ~Ready(m_pending[earlier])
          /\ Release(PositionOf(m_pending[k].block), TokenOf(m_pending[k].tokens))
          /\ m_pending' = RemoveAt(m_pending, k)
          /\ item' = item - 1

EndProcess ==
    /\ EveryItemAsked
    /\ \A k \in 1..Len(m_pending) : ~Ready(m_pending[k])
    /\ item' = 0
    /\ UNCHANGED <<m_pending, poolVars>>

----------------------------------------------------------------------------
(* wait_all: an entry goes back once each of its tokens was waited for.    *)

WaitOldest ==
    /\ m_pending # <<>>
    /\ \A token \in Head(m_pending).tokens : IsComplete(token)
    /\ Release(PositionOf(Head(m_pending).block), NoToken)
    /\ m_pending' = Tail(m_pending)
    /\ UNCHANGED item

NothingHeldBack == m_pending = <<>>
====
