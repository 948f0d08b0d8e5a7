----------------------------- MODULE MCTraceSink -----------------------------
(* Four slots and a drain buffer of two, which groups of one and of two fill,
   straddle and wrap. *)
EXTENDS TraceSink, TraceRingQueue

MCSizes == {1, 2}
MCBuffers == {2}
=============================================================================
