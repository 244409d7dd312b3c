---- MODULE DeviceGuard ----
(***************************************************************************)
(* device_guard: the device a thread selected, which whatever it creates   *)
(* belongs to, and the guard that selects another one for a while.  No     *)
(* path of the backend opens a guard under another one.                    *)
(***************************************************************************)
EXTENDS Integers

CONSTANTS
    Threads,
    DeviceCount         \* what cudaGetDeviceCount answers when it works

ASSUME DeviceCountAssumption == DeviceCount \in Nat

VARIABLES
    current,        \* cudaGetDevice, of each thread
    m_previous,     \* of the guard each thread has open, or NoSelection
    selected        \* not in the program: the device each thread is to be left on

guardVars == <<current, m_previous, selected>>

Ordinals == 0..DeviceCount - 1

NoSelection == -1

GuardInit ==
    /\ current \in [Threads -> Ordinals]
    /\ m_previous = [th \in Threads |-> NoSelection]
    /\ selected = current

\* cudaSetDevice, called by the owner of the thread between calls of the backend.
SelectDevice(th) ==
    /\ \E ordinal \in Ordinals :
          /\ current' = [current EXCEPT ![th] = ordinal]
          /\ selected' = [selected EXCEPT ![th] = ordinal]
    /\ UNCHANGED m_previous

\* A slip: what was selected before is forgotten.
OpenGuardForGood(th, ordinal) ==
    /\ ordinal = current[th] \/ ordinal \in Ordinals
    /\ current' = [current EXCEPT ![th] = ordinal]
    /\ UNCHANGED <<m_previous, selected>>

\* The guard is there.  The constructor throws instead, and changes nothing,
\* when the runtime refuses to answer or does not know the device.
OpenGuard(th, ordinal) ==
    \/ ordinal = current[th] /\ UNCHANGED guardVars
    \/ /\ ordinal # current[th] /\ ordinal \in Ordinals
       /\ current' = [current EXCEPT ![th] = ordinal]
       /\ m_previous' = [m_previous EXCEPT ![th] = current[th]]
       /\ UNCHANGED selected

HasSelection(th) == m_previous[th] # NoSelection

CloseGuard(th) ==
    /\ current' = [current EXCEPT ![th] = IF HasSelection(th) THEN m_previous[th] ELSE @]
    /\ m_previous' = [m_previous EXCEPT ![th] = NoSelection]
    /\ UNCHANGED selected

\* The runtime does not restore the selection, which is only reported: the
\* thread stays where it is.
CloseGuardFails(th) ==
    /\ HasSelection(th)
    /\ m_previous' = [m_previous EXCEPT ![th] = NoSelection]
    /\ selected' = [selected EXCEPT ![th] = current[th]]
    /\ UNCHANGED current
====
