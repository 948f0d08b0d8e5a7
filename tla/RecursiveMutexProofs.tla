------------------------ MODULE RecursiveMutexProofs ------------------------
(***************************************************************************)
(* Proofs about RecursiveMutex for every set of threads and processes and  *)
(* every nesting depth: type correctness, mutual exclusion, no theft and   *)
(* the implementation of RecursiveLock.                                    *)
(***************************************************************************)
EXTENDS RecursiveMutex, TLAPS

(* Every operation of mutex.cpp:50-114 preserves the inductive invariant. *)
LEMMA Inductive == IInv /\ [Next]_vars => IInv'
<1> SUFFICES ASSUME IInv, [Next]_vars PROVE IInv'
  OBVIOUS
<1> USE MutexAssumption
    DEF IInv, TypeOK, SpinExclusive, OwnerRecorded, PartlyWritten,
        FreeWhenUnowned, Free, Changing, Owns, Counted, Spinning, Goto, owner
<1>1. ASSUME NEW t \in Threads, CallLock(t) PROVE IInv'
  BY <1>1 DEF CallLock
<1>2. ASSUME NEW t \in Threads, CallUnlock(t) PROVE IInv'
  BY <1>2 DEF CallUnlock
<1>3. ASSUME NEW t \in Threads, Grab(t) PROVE IInv'
  BY <1>3 DEF Grab
<1>4. ASSUME NEW t \in Threads, Inspect(t) PROVE IInv'
  BY <1>4 DEF Inspect
<1>5. ASSUME NEW t \in Threads, ClaimProcess(t) PROVE IInv'
  BY <1>5 DEF ClaimProcess
<1>6. ASSUME NEW t \in Threads, ClaimThread(t) PROVE IInv'
  BY <1>6 DEF ClaimThread
<1>7. ASSUME NEW t \in Threads, ClaimCount(t) PROVE IInv'
  BY <1>7 DEF ClaimCount
<1>8. ASSUME NEW t \in Threads, Nest(t) PROVE IInv'
  BY <1>8 DEF Nest
<1>9. ASSUME NEW t \in Threads, LeaveLocked(t) PROVE IInv'
  BY <1>9 DEF LeaveLocked
<1>10. ASSUME NEW t \in Threads, BackOff(t) PROVE IInv'
  BY <1>10 DEF BackOff
<1>11. ASSUME NEW t \in Threads, Decrement(t) PROVE IInv'
  BY <1>11 DEF Decrement
<1>12. ASSUME NEW t \in Threads, ClearProcess(t) PROVE IInv'
  BY <1>12 DEF ClearProcess
<1>13. ASSUME NEW t \in Threads, ClearThread(t) PROVE IInv'
  BY <1>13 DEF ClearThread
<1>14. ASSUME NEW t \in Threads, LeaveUnlocked(t) PROVE IInv'
  BY <1>14 DEF LeaveUnlocked
<1>15. CASE UNCHANGED vars
  BY <1>15 DEF vars
<1>16. QED
  BY <1>1, <1>2, <1>3, <1>4, <1>5, <1>6, <1>7, <1>8, <1>9, <1>10, <1>11, <1>12, <1>13, <1>14, <1>15 DEF Next, Advance

LEMMA Initially == Init => IInv
  BY MutexAssumption
  DEF Init, IInv, TypeOK, SpinExclusive, OwnerRecorded, PartlyWritten,
      FreeWhenUnowned, Free, Changing, Owns, Counted, Spinning

LEMMA Invariance == Spec => []IInv
  BY Initially, Inductive, PTL DEF Spec

(* The owner fields, the spin word and the program counters keep their types
   through every operation of mutex.cpp:50-114; the counter never goes below
   zero. *)
THEOREM TypeCorrect == Spec => []TypeOK
<1>1. IInv => TypeOK
  BY DEF IInv
<1>2. QED
  BY <1>1, Invariance, PTL

(* No two threads of any two processes are between Lock and Unlock: whoever is
   inside is the recorded owner, one thread is recorded, and the count undoes
   with the Unlocks still due (mutex.cpp:50-114). *)
THEOREM Exclusive == Spec => []MutualExclusion
<1>1. IInv => MutualExclusion
  BY DEF IInv, OwnerRecorded, Owns, MutualExclusion
<1>2. QED
  BY <1>1, Invariance, PTL

(* m_OwnerThread goes from one thread to another only through zero
   (mutex.cpp:58-81). *)
THEOREM NeverStolen == Spec => NoTheft
<1> DEFINE Kept == \A t, u \in Threads : ownerThread = t /\ ownerThread' = u => t = u
<1>1. IInv /\ [Next]_vars => [Kept]_vars
  <2> SUFFICES ASSUME IInv, [Next]_vars PROVE Kept
    OBVIOUS
  <2> USE MutexAssumption
  <2>1. ASSUME NEW t \in Threads, ClaimThread(t) PROVE Kept
    BY <2>1 DEF ClaimThread, Goto, IInv, PartlyWritten
  <2>2. ASSUME NEW t \in Threads, ClearThread(t) PROVE Kept
    BY <2>2 DEF ClearThread
  <2>3. ASSUME ownerThread' = ownerThread PROVE Kept
    BY <2>3
  <2>4. QED
    BY <2>1, <2>2, <2>3
    DEF Next, Advance, vars, owner, CallLock, CallUnlock, Grab, Inspect,
        ClaimProcess, ClaimCount, Nest, LeaveLocked, BackOff, Decrement,
        ClearProcess, LeaveUnlocked
<1>2. QED
  BY <1>1, Invariance, PTL DEF Spec, NoTheft

-----------------------------------------------------------------------------
(* The spinning mutex of mutex.cpp:39-114 implements the abstract recursive
   lock: a Lock that returns is an Acquire, a call of Unlock is a Release and
   every other step changes nothing a caller can see. *)
THEOREM Refinement == Spec => Implements
<1>1. Init => Abstract!Init
  BY DEF Init, Abstract!Init
<1>2. IInv /\ [Next]_vars => [Abstract!Next]_depth
  <2> SUFFICES ASSUME IInv, [Next]_vars PROVE Abstract!Next \/ depth' = depth
    BY DEF vars
  <2>1. ASSUME NEW t \in Threads, LeaveLocked(t) PROVE Abstract!Acquire(t)
    BY <2>1, MutexAssumption
    DEF LeaveLocked, Goto, IInv, TypeOK, OwnerRecorded, Owns, Abstract!Acquire
  <2>2. ASSUME NEW t \in Threads, CallUnlock(t) PROVE Abstract!Release(t)
    BY <2>2 DEF CallUnlock, Abstract!Release
  <2>3. QED
    BY <2>1, <2>2
    DEF Next, Advance, vars, Abstract!Next, CallLock, Grab, Inspect,
        ClaimProcess, ClaimThread, ClaimCount, Nest, BackOff, Decrement,
        ClearProcess, ClearThread, LeaveUnlocked
<1>3. QED
  BY <1>1, <1>2, Invariance, PTL DEF Spec, Implements, Abstract!Spec
=============================================================================
