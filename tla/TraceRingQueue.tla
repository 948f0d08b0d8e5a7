--------------------------- MODULE TraceRingQueue ---------------------------
(* The ring implements the bounded queue of whole events: what was ever queued
   ends at m_Head, what has left at m_Tail, and the events queued are the groups
   between them. *)
EXTENDS TraceSpscRing

Ends == {End(p) : p \in Starts}

Abstract == INSTANCE TraceQueue WITH pushed <- head, popped <- tail, ends <- Ends

(* Push, Pop and TakeDroppedEvents take effect at once, at the store that
   publishes them, for the other thread: whole events enter at the head, in the
   order they were pushed, leave at the tail in that order, and none is refused
   that fits. *)
ImplementsQueue == Abstract!Spec
=============================================================================
