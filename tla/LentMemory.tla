---- MODULE LentMemory ----
(***************************************************************************)
(* What memory_block_pool promises, without the blocks it is made of:      *)
(* memory taken from the driver is lent, a span at a time, to whoever      *)
(* issues commands that use it.  A loan comes with the one token that has  *)
(* to be waited for before its memory is touched.  What is lent never      *)
(* overlaps, never moves, and is never given back to the driver; how the   *)
(* rest is cut up, merged and kept track of does not show.                 *)
(***************************************************************************)
EXTENDS CommandTokens

CONSTANT HeapSizes      \* sizes of the heaps the driver hands over

VARIABLES
    held,   \* size of the heap at each address, 0 where there is none
    total,  \* what the heaps add up to
    lent    \* the spans that are lent, each with the token it is known to wait for

lentVars == <<held, total, lent, deviceVars>>

\* The tokens that name a command some timeline was given, or none.
KnownTokens ==
    {NoToken} \cup
    UNION {{[timeline |-> timeline, id |-> id] : id \in 0..issued[timeline] - 1} :
              timeline \in Timelines}

Loan(heap, offset, size, pending) ==
    [heap |-> heap, offset |-> offset, size |-> size, pending |-> pending]

LentInit ==
    /\ DeviceInit
    /\ held = [heap \in Heaps |-> 0]
    /\ total = 0
    /\ lent = {}

TakeHeap(heap, size) ==
    /\ held[heap] = 0
    /\ held' = [held EXCEPT ![heap] = size]
    /\ total' = total + size
    /\ UNCHANGED <<lent, deviceVars>>

\* Whatever still uses the memory is done once the command of the token is.
Lend(loan) ==
    /\ \A other \in lent : ~Overlaps(loan, other)
    /\ AllUsesCovered({loan.pending}, SpanOf(loan))
    /\ lent' = lent \cup {loan}
    /\ UNCHANGED <<held, total, deviceVars>>

\* Whoever was lent the memory saw the command finish.
Forget(loan) ==
    /\ IsComplete(loan.pending)
    /\ lent' = (lent \ {loan}) \cup {[loan EXCEPT !.pending = NoToken]}
    /\ UNCHANGED <<held, total, deviceVars>>

\* A loan comes back with a token that stands for every use made of it.
TakeBack(loan, pending) ==
    /\ AllUsesCovered({pending}, SpanOf(loan))
    /\ lent' = lent \ {loan}
    /\ UNCHANGED <<held, total, deviceVars>>

\* A heap nothing is lent from and nothing runs on.
GiveHeapBack(heap) ==
    /\ held[heap] > 0
    /\ \A loan \in lent : loan.heap # heap
    /\ \A use \in running : use.heap # heap
    /\ held' = [held EXCEPT ![heap] = 0]
    /\ total' = total - held[heap]
    /\ UNCHANGED <<lent, deviceVars>>

\* The end of the memory, whatever of it is lent, once nothing runs.
GiveAllBack ==
    /\ running = {}
    /\ held' = [heap \in Heaps |-> 0]
    /\ total' = 0
    /\ lent' = {}
    /\ UNCHANGED deviceVars

Use(loan, timeline) ==
    /\ Issue(timeline, {SpanOf(loan)})
    /\ UNCHANGED <<held, total, lent>>

FinishUse(timeline) ==
    /\ Finish(timeline)
    /\ UNCHANGED <<held, total, lent>>

LentNext ==
    \/ \E heap \in Heaps, size \in HeapSizes : TakeHeap(heap, size)
    \/ \E heap \in Heaps : \E offset \in 0..held[heap] - 1 :
          \E size \in 1..held[heap] - offset, pending \in KnownTokens :
              Lend(Loan(heap, offset, size, pending))
    \/ \E loan \in lent : Forget(loan)
    \/ \E loan \in lent, pending \in KnownTokens : TakeBack(loan, pending)
    \/ \E heap \in Heaps : GiveHeapBack(heap)
    \/ GiveAllBack
    \/ \E loan \in lent, timeline \in Timelines : Use(loan, timeline)
    \/ \E timeline \in Timelines : FinishUse(timeline)

LentSpec == LentInit /\ [][LentNext]_lentVars
====
