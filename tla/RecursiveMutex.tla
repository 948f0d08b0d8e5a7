--------------------------- MODULE RecursiveMutex ---------------------------
(***************************************************************************)
(* The recursive, cross-process spin mutex EmuShared inherits:             *)
(* src/src/cxbx/src/win32/mutex.cpp.  The four LONGs live in memory shared *)
(* by the launcher and the guest process, so a step here is one            *)
(* Interlocked operation or one plain read made under the spin word.       *)
(***************************************************************************)
EXTENDS Naturals

CONSTANTS
    Threads,      \* the threads that call Lock and Unlock
    Processes,    \* the processes they run in
    ProcessOf,    \* GetCurrentProcessId of each thread
    None,         \* the zero id: nobody owns the mutex
    MaxDepth      \* bound: nested Lock calls of one thread

ASSUME MutexAssumption ==
    /\ ProcessOf \in [Threads -> Processes]
    /\ None \notin Threads \cup Processes
    /\ MaxDepth \in Nat \ {0}

VARIABLES
    mutexLock,    \* m_MutexLock, the spin word: 0 or 1
    ownerProcess, \* m_OwnerProcess
    ownerThread,  \* m_OwnerThread
    lockCount,    \* m_LockCount
    pc,           \* pc[t]: where thread t stands in Lock or Unlock
    depth         \* depth[t]: Lock calls of t that returned and are not undone

vars == <<mutexLock, ownerProcess, ownerThread, lockCount, pc, depth>>
owner == <<ownerProcess, ownerThread>>

(* The constructor. *)
Init ==
    /\ mutexLock = 0
    /\ ownerProcess = None
    /\ ownerThread = None
    /\ lockCount = 0
    /\ pc = [t \in Threads |-> "outside"]
    /\ depth = [t \in Threads |-> 0]

Goto(t, from, to) ==
    /\ pc[t] = from
    /\ pc' = [pc EXCEPT ![t] = to]

-----------------------------------------------------------------------------
(* Mutex::Lock *)

CallLock(t) ==
    /\ depth[t] < MaxDepth
    /\ Goto(t, "outside", "grab")
    /\ UNCHANGED <<mutexLock, owner, lockCount, depth>>

(* InterlockedCompareExchange(&m_MutexLock, 1, 0) answers 0; a failed attempt
   sleeps and changes nothing. *)
Grab(t) ==
    /\ mutexLock = 0
    /\ mutexLock' = 1
    /\ \/ Goto(t, "grab", "inspect")
       \/ Goto(t, "regrab", "decrement")
    /\ UNCHANGED <<owner, lockCount, depth>>

InspectProcessOnly(t) ==
    /\ Goto(t, "inspect", IF ownerProcess = None THEN "claimProcess"
                          ELSE IF ownerProcess = ProcessOf[t] THEN "nest" ELSE "backOff")
    /\ UNCHANGED <<mutexLock, owner, lockCount, depth>>

(* The three outcomes of looking at the owner under the spin word. *)
Inspect(t) ==
    /\ \/ /\ ownerProcess = None
          /\ Goto(t, "inspect", "claimProcess")
       \/ /\ ownerProcess # None
          /\ ownerProcess # ProcessOf[t] \/ ownerThread # t
          /\ Goto(t, "inspect", "backOff")
       \/ /\ ownerProcess = ProcessOf[t]
          /\ ownerThread = t
          /\ Goto(t, "inspect", "nest")
    /\ UNCHANGED <<mutexLock, owner, lockCount, depth>>

ClaimProcess(t) ==
    /\ Goto(t, "claimProcess", "claimThread")
    /\ ownerProcess' = ProcessOf[t]
    /\ UNCHANGED <<mutexLock, ownerThread, lockCount, depth>>

ClaimThread(t) ==
    /\ Goto(t, "claimThread", "claimCount")
    /\ ownerThread' = t
    /\ UNCHANGED <<mutexLock, ownerProcess, lockCount, depth>>

ClaimCount(t) ==
    /\ Goto(t, "claimCount", "leaveLocked")
    /\ lockCount' = 1
    /\ UNCHANGED <<mutexLock, owner, depth>>

Nest(t) ==
    /\ Goto(t, "nest", "leaveLocked")
    /\ lockCount' = lockCount + 1
    /\ UNCHANGED <<mutexLock, owner, depth>>

(* InterlockedExchange(&m_MutexLock, 0) and return. *)
LeaveLocked(t) ==
    /\ Goto(t, "leaveLocked", "outside")
    /\ mutexLock' = 0
    /\ depth' = [depth EXCEPT ![t] = @ + 1]
    /\ UNCHANGED <<owner, lockCount>>

(* Somebody else owns it: release the spin word, sleep and try again. *)
BackOff(t) ==
    /\ Goto(t, "backOff", "grab")
    /\ mutexLock' = 0
    /\ UNCHANGED <<owner, lockCount, depth>>

-----------------------------------------------------------------------------
(* Mutex::Unlock.  Every call in the tree follows a Lock of the same thread;
   Unlock itself does not look at the owner. *)

CallUnlock(t) ==
    /\ depth[t] > 0
    /\ Goto(t, "outside", "regrab")
    /\ depth' = [depth EXCEPT ![t] = @ - 1]
    /\ UNCHANGED <<mutexLock, owner, lockCount>>

DecrementAndFree(t) ==
    /\ Goto(t, "decrement", "clearProcess")
    /\ lockCount' = lockCount - 1
    /\ UNCHANGED <<mutexLock, owner, depth>>

DecrementOnly(t) ==
    /\ Goto(t, "decrement", "leaveUnlocked")
    /\ lockCount' = lockCount - 1
    /\ UNCHANGED <<mutexLock, owner, depth>>

Decrement(t) ==
    /\ Goto(t, "decrement", IF lockCount = 1 THEN "clearProcess" ELSE "leaveUnlocked")
    /\ lockCount' = lockCount - 1
    /\ UNCHANGED <<mutexLock, owner, depth>>

ClearProcess(t) ==
    /\ Goto(t, "clearProcess", "clearThread")
    /\ ownerProcess' = None
    /\ UNCHANGED <<mutexLock, ownerThread, lockCount, depth>>

ClearThread(t) ==
    /\ Goto(t, "clearThread", "leaveUnlocked")
    /\ ownerThread' = None
    /\ UNCHANGED <<mutexLock, ownerProcess, lockCount, depth>>

LeaveUnlocked(t) ==
    /\ Goto(t, "leaveUnlocked", "outside")
    /\ mutexLock' = 0
    /\ UNCHANGED <<owner, lockCount, depth>>

-----------------------------------------------------------------------------
(* The steps a thread takes once it has called, and the calls themselves. *)
Advance(t) ==
    \/ Inspect(t) \/ ClaimProcess(t) \/ ClaimThread(t) \/ ClaimCount(t)
    \/ Nest(t) \/ LeaveLocked(t) \/ BackOff(t)
    \/ Decrement(t) \/ ClearProcess(t) \/ ClearThread(t) \/ LeaveUnlocked(t)

Next == \E t \in Threads : CallLock(t) \/ CallUnlock(t) \/ Grab(t) \/ Advance(t)

Spec == Init /\ [][Next]_vars

(* Each thread runs, a caller inside eventually unlocks, and a spin that keeps
   finding the word free now and then gets it (every loser sleeps 1 ms while
   the word is held for a few instructions). *)
Fairness ==
    \A t \in Threads :
        WF_vars(Advance(t)) /\ WF_vars(CallUnlock(t)) /\ SF_vars(Grab(t))

FairSpec == Spec /\ Fairness

-----------------------------------------------------------------------------
Spinning == {"inspect", "claimProcess", "claimThread", "claimCount", "nest",
             "leaveLocked", "backOff", "decrement", "clearProcess",
             "clearThread", "leaveUnlocked"}

TypeOK ==
    /\ mutexLock \in {0, 1}
    /\ ownerProcess \in Processes \cup {None}
    /\ ownerThread \in Threads \cup {None}
    /\ lockCount \in Nat
    /\ pc \in [Threads -> Spinning \cup {"outside", "grab", "regrab"}]
    /\ depth \in [Threads -> Nat]

(* The spin word admits one thread at a time to the owner fields. *)
SpinExclusive ==
    /\ \A t, u \in Threads : pc[t] \in Spinning /\ pc[u] \in Spinning => t = u
    /\ mutexLock = 1 <=> \E t \in Threads : pc[t] \in Spinning

(* What thread t accounts for in m_LockCount: the Lock calls it is inside of,
   and the one about to return or not yet undone. *)
Counted(t) ==
    depth[t] + (IF pc[t] \in {"leaveLocked", "regrab", "decrement"} THEN 1 ELSE 0)

(* Thread t is recorded, or about to be or no longer fully recorded, as owner. *)
Owns(t) == \/ depth[t] > 0
           \/ pc[t] \in {"nest", "regrab", "decrement", "leaveLocked"}

(* Whoever is inside is the recorded owner and m_LockCount is the depth the
   matching Unlocks will bring back to zero, so the last of them, and no
   earlier one, frees the mutex (mutex.cpp:104-110). *)
OwnerRecorded ==
    \A t \in Threads :
        Owns(t) => /\ ownerProcess = ProcessOf[t]
                   /\ ownerThread = t
                   /\ lockCount = Counted(t)

(* No two threads, of one process or of two, are between Lock and Unlock, and
   the owner and count recorded are those of the one that is (mutex.cpp:50-114):
   the shared configuration has one user at a time, and its last Unlock hands it on. *)
MutualExclusion ==
    /\ \A t, u \in Threads : depth[t] > 0 /\ depth[u] > 0 => t = u
    /\ OwnerRecorded

(* The states in which the owner fields are only partly written. *)
Free == ownerProcess = None /\ ownerThread = None /\ lockCount = 0

Changing == {"claimProcess", "claimThread", "claimCount", "clearProcess", "clearThread"}

PartlyWritten ==
    \A t \in Threads :
        /\ pc[t] = "claimProcess" => Free
        /\ pc[t] = "claimThread" =>
              ownerProcess = ProcessOf[t] /\ ownerThread = None /\ lockCount = 0
        /\ pc[t] \in {"claimCount", "clearProcess"} =>
              ownerProcess = ProcessOf[t] /\ ownerThread = t /\ lockCount = 0
        /\ pc[t] = "clearThread" =>
              ownerProcess = None /\ ownerThread = t /\ lockCount = 0

(* Nobody owns it and nobody is changing hands: the mutex is free. *)
FreeWhenUnowned ==
    (\A t \in Threads : ~Owns(t) /\ pc[t] \notin Changing) => Free

(* The inductive invariant behind MutualExclusion. *)
IInv == TypeOK /\ SpinExclusive /\ OwnerRecorded /\ PartlyWritten /\ FreeWhenUnowned

(* Ownership never passes from one thread to another without the mutex having
   been free in between (mutex.cpp:58-81). *)
NoTheft ==
    [][\A t, u \in Threads : ownerThread = t /\ ownerThread' = u => t = u]_vars

(* While threads want the mutex, somebody keeps getting it: probing by losers
   never shuts out the thread that is trying to unlock. *)
SomeoneEnters ==
    (\E t \in Threads : pc[t] \in {"grab", "inspect"}) ~> (\E t \in Threads : depth[t] > 0)

(* The mutex implements the abstract recursive lock. *)
Abstract == INSTANCE RecursiveLock
Implements == Abstract!Spec
=============================================================================
