---------------------------- MODULE RecursiveLock ----------------------------
(***************************************************************************)
(* What Mutex (src/src/cxbx/src/win32/mutex.cpp) promises its callers: a   *)
(* recursive lock that one thread at a time holds, to any depth, whatever  *)
(* process the thread runs in.  Acquire and Release are single steps here; *)
(* RecursiveMutex shows that the spinning implementation does no more.     *)
(***************************************************************************)
EXTENDS Naturals

CONSTANT Threads            \* the threads of every process sharing the lock

VARIABLE depth              \* depth[t]: Lock calls of t not yet unlocked

Init == depth = [t \in Threads |-> 0]

(* Mutex::Lock returns: nobody else is inside. *)
Acquire(t) ==
    /\ \A u \in Threads \ {t} : depth[u] = 0
    /\ depth' = [depth EXCEPT ![t] = @ + 1]

(* Mutex::Unlock is called by a thread that is inside. *)
Release(t) ==
    /\ depth[t] > 0
    /\ depth' = [depth EXCEPT ![t] = @ - 1]

Next == \E t \in Threads : Acquire(t) \/ Release(t)

Spec == Init /\ [][Next]_depth
=============================================================================
