--------------------------- MODULE MCThreadSuspend ---------------------------
(* The first thread and two it may create. *)
EXTENDS ThreadSuspend

CONSTANTS t1, t2, t3

MCThreads == {t1, t2, t3}
=============================================================================
