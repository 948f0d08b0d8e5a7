-------------------------- MODULE MCRecursiveMutex --------------------------
(* Two threads of one process and one of another share the mutex. *)
EXTENDS RecursiveMutex, TLC

CONSTANTS t1, t2, t3, launcher, guest

MCThreads == {t1, t2, t3}
MCProcesses == {launcher, guest}
MCProcessOf == (t1 :> guest) @@ (t2 :> guest) @@ (t3 :> launcher)
=============================================================================
