----------------------------- MODULE TraceQueue -----------------------------
(***************************************************************************)
(* What TraceSpscRing (src/include/cxbx/include/core/trace_ring.h) promises *)
(* its two threads: a bounded first-in first-out queue of logical events.  *)
(* An event is a group of records; it enters and leaves whole or is counted *)
(* as dropped.  An event is known by where it ends in the stream of all the *)
(* records ever queued: those ends, in order, are the queue.                *)
(***************************************************************************)
EXTENDS Naturals

CONSTANTS Capacity, Sizes

VARIABLES
    pushed,    \* records of all the events ever queued
    popped,    \* records of those that have left
    ends,      \* where each event queued ends
    dropped    \* events refused and not yet reported

vars == <<pushed, popped, ends, dropped>>

free == Capacity - (pushed - popped)

Init == pushed = 0 /\ popped = 0 /\ ends = {} /\ dropped = 0

Push(n) ==
    /\ n \in 1..free
    /\ pushed' = pushed + n
    /\ ends' = ends \cup {pushed + n}
    /\ UNCHANGED <<popped, dropped>>

(* An event is refused only when it does not fit whole. *)
Drop ==
    /\ \E n \in Sizes : n \notin 1..free
    /\ dropped' = dropped + 1
    /\ UNCHANGED <<pushed, popped, ends>>

(* The oldest events leave, a whole number of them, and their slots are free. *)
Pop ==
    /\ \E last \in ends :
          /\ popped' = last
          /\ ends' = {e \in ends : e > last}
    /\ UNCHANGED <<pushed, dropped>>

TakeDroppedEvents == dropped' = 0 /\ UNCHANGED <<pushed, popped, ends>>

Next == (\E n \in Sizes : Push(n)) \/ Drop \/ Pop \/ TakeDroppedEvents

Spec == Init /\ [][Next]_vars
=============================================================================
