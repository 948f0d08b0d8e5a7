---------------------------- MODULE ThreadSuspend ----------------------------
(***************************************************************************)
(* Suspension of guest threads in                                          *)
(* src/src/cxbx/src/hle/kernel/kernel_emulation.cpp.  The guest sees a     *)
(* logical count; the host thread is really suspended only where that is   *)
(* safe, in guest code outside a critical region, so a count may be        *)
(* "logical only".  Entries are kept per host thread id under one mutex,   *)
(* which a thread that suspends itself must let go of first.  A step is    *)
(* what happens under the mutex, or one call of the host between.          *)
(***************************************************************************)
EXTENDS Naturals

CONSTANTS
    Threads,      \* guest threads
    First,        \* the one that runs at the start and creates the others
    NoThread,     \* no target
    Creations,    \* CreateSuspended arguments PsCreateSystemThreadEx is called with
    MaxCount      \* the limit of a suspend count (0x7F)

ASSUME SuspendAssumption ==
    /\ First \in Threads
    /\ NoThread \notin Threads
    /\ Creations \subseteq BOOLEAN
    /\ MaxCount \in Nat \ {0}

VARIABLES
    entry,      \* g_EmuThreadSuspendCounts: LogicalCount, HostCount, SelfSuspendPending
    known,      \* the threads that have an entry
    real,       \* suspend count the host keeps for each thread
    region,     \* KernelApcDisable # 0
    pc,         \* unborn, start (before guest code), guest, or a point in a call
    target      \* the thread the call is about, and CreateSuspended

vars == <<entry, known, real, region, pc, target>>

Entry(l, h, p) == [logical |-> l, host |-> h, pending |-> p]
Counts(n) == Entry(n, n, FALSE)
NoTarget == [thread |-> NoThread, suspended |-> FALSE]

Init ==
    /\ entry = [t \in Threads |-> Counts(0)]
    /\ known = {}
    /\ real = [t \in Threads |-> 0]
    /\ region = [t \in Threads |-> FALSE]
    /\ pc = [t \in Threads |-> IF t = First THEN "guest" ELSE "unborn"]
    /\ target = [t \in Threads |-> NoTarget]

Runs(t) == real[t] = 0

(* EmuSuspendThreadAtGuestBoundary finds the thread where it may be stopped. *)
AtBoundaryAnyRegion(x) == pc[x] = "guest"

AtBoundary(x) == pc[x] = "guest" /\ ~region[x]

(* EmuThreadSuspendStateForHandleLocked: a thread without an entry gets the
   host's count; one that asks about itself is not suspended. *)
StateOf(x) == IF x \in known THEN entry[x] ELSE Counts(real[x])

Store(x, state) ==
    /\ entry' = [entry EXCEPT ![x] = state]
    /\ known' = known \cup {x}

-----------------------------------------------------------------------------
(* PsCreateSystemThreadEx *)

CreateThread(t, x, suspended) ==
    /\ Runs(t) /\ pc[t] = "guest"
    /\ pc[x] = "unborn"
    /\ pc' = [pc EXCEPT ![t] = "register", ![x] = "start"]
    /\ real' = [real EXCEPT ![x] = IF suspended THEN 1 ELSE 0]
    /\ target' = [target EXCEPT ![t] = [thread |-> x, suspended |-> suspended]]
    /\ UNCHANGED <<entry, known, region>>

(* The entry is written when CreateThread has returned. *)
Register(t) ==
    /\ Runs(t) /\ pc[t] = "register"
    /\ Store(target[t].thread, Counts(IF target[t].suspended THEN 1 ELSE 0))
    /\ pc' = [pc EXCEPT ![t] = "guest"]
    /\ target' = [target EXCEPT ![t] = NoTarget]
    /\ UNCHANGED <<real, region>>

(* A new thread reaches its guest routine. *)
Start(t) ==
    /\ Runs(t) /\ pc[t] = "start"
    /\ pc' = [pc EXCEPT ![t] = "guest"]
    /\ UNCHANGED <<entry, known, real, region, target>>

-----------------------------------------------------------------------------
(* KeEnterCriticalRegion, KeLeaveCriticalRegion *)

EnterRegion(t) ==
    /\ Runs(t) /\ pc[t] = "guest" /\ ~region[t]
    /\ region' = [region EXCEPT ![t] = TRUE]
    /\ UNCHANGED <<entry, known, real, pc, target>>

LeaveRegion(t) ==
    /\ Runs(t) /\ pc[t] = "guest" /\ region[t]
    /\ region' = [region EXCEPT ![t] = FALSE]
    /\ UNCHANGED <<entry, known, real, pc, target>>

-----------------------------------------------------------------------------
(* NtSuspendThread, KeSuspendThread, NtResumeThread, KeResumeThread and
   KeAlertResumeThread, up to the mutex.  A thread can name itself; the handle
   of another is known once PsCreateSystemThreadEx has returned it. *)
Call(t, x, op) ==
    /\ Runs(t) /\ pc[t] = "guest"
    /\ pc[x] # "unborn"
    /\ x = t \/ ~\E u \in Threads : pc[u] = "register" /\ target[u].thread = x
    /\ pc' = [pc EXCEPT ![t] = op]
    /\ target' = [target EXCEPT ![t] = [thread |-> x, suspended |-> FALSE]]
    /\ UNCHANGED <<entry, known, real, region>>

Return(t) ==
    /\ pc' = [pc EXCEPT ![t] = "guest"]
    /\ target' = [target EXCEPT ![t] = NoTarget]

SuspendOther(t) ==
    /\ Runs(t) /\ pc[t] = "suspend" /\ target[t].thread # t
    /\ LET x == target[t].thread
           state == StateOf(x)
       IN \/ /\ state.logical < MaxCount
             /\ AtBoundary(x)
             /\ Store(x, Entry(state.logical + 1, state.host + 1, state.pending))
             /\ real' = [real EXCEPT ![x] = @ + 1]
          \/ /\ state.logical < MaxCount
             /\ ~AtBoundary(x)
             /\ Store(x, Entry(state.logical + 1, state.host, state.pending))
             /\ UNCHANGED real
          \/ /\ state.logical >= MaxCount
             /\ Store(x, state)
             /\ UNCHANGED real
    /\ Return(t)
    /\ UNCHANGED region

(* A thread that suspends itself says so, and lets go of the mutex, *)
SuspendSelf(t) ==
    /\ Runs(t) /\ pc[t] = "suspend" /\ target[t].thread = t
    /\ LET state == StateOf(t)
       IN \/ /\ state.logical < MaxCount
             /\ Store(t, Entry(state.logical + 1, state.host, TRUE))
             /\ pc' = [pc EXCEPT ![t] = "hostSuspend"]
             /\ UNCHANGED target
          \/ /\ state.logical >= MaxCount
             /\ Store(t, state)
             /\ Return(t)
    /\ UNCHANGED <<real, region>>

(* before the host stops it. *)
HostSuspend(t) ==
    /\ Runs(t) /\ pc[t] = "hostSuspend"
    /\ real' = [real EXCEPT ![t] = @ + 1]
    /\ pc' = [pc EXCEPT ![t] = "relock"]
    /\ UNCHANGED <<entry, known, region, target>>

(* Resumed, it takes the mutex once more and returns. *)
Relock(t) ==
    /\ Runs(t) /\ pc[t] = "relock"
    /\ Return(t)
    /\ UNCHANGED <<entry, known, real, region>>

ResumePendingAtOnce(t) ==
    /\ Runs(t) /\ pc[t] = "resume"
    /\ LET x == target[t].thread
           state == StateOf(x)
           resumes == state.logical > 0 /\ (state.pending \/ state.host = state.logical)
       IN /\ Store(x, IF state.logical = 0 THEN state
                      ELSE Entry(state.logical - 1,
                                 IF resumes /\ ~state.pending THEN state.host - 1 ELSE state.host,
                                 FALSE))
          /\ real' = [real EXCEPT ![x] = IF resumes /\ @ > 0 THEN @ - 1 ELSE @]
    /\ Return(t)
    /\ UNCHANGED region

ResumeWaitsForHost(t) ==
    /\ Runs(t) /\ pc[t] = "resume"
    /\ real[target[t].thread] > 0
    /\ real' = [real EXCEPT ![target[t].thread] = @ - 1]
    /\ LET x == target[t].thread
           state == StateOf(x)
       IN Store(x, IF state.logical = 0 THEN state
                   ELSE Entry(state.logical - 1,
                              IF state.host > 0 THEN state.host - 1 ELSE 0, FALSE))
    /\ Return(t)
    /\ UNCHANGED region

(* EmuResumeThreadState.  A pending self-suspension is waited for, so that the
   resume is not lost; a real suspension below logical-only ones stays. *)
Resume(t) ==
    /\ Runs(t) /\ pc[t] = "resume"
    /\ LET x == target[t].thread
           state == StateOf(x)
       IN \/ /\ state.logical = 0
             /\ Store(x, state)
             /\ UNCHANGED real
          \/ /\ state.logical > 0 /\ state.pending
             /\ real[x] > 0
             /\ real' = [real EXCEPT ![x] = @ - 1]
             /\ Store(x, Entry(state.logical - 1, state.host, FALSE))
          \/ /\ state.logical > 0 /\ ~state.pending /\ state.host = state.logical
             /\ real' = [real EXCEPT ![x] = @ - 1]
             /\ Store(x, Entry(state.logical - 1, state.host - 1, FALSE))
          \/ /\ state.logical > 0 /\ ~state.pending /\ state.host # state.logical
             /\ Store(x, Entry(state.logical - 1, state.host, FALSE))
             /\ UNCHANGED real
    /\ Return(t)
    /\ UNCHANGED region

-----------------------------------------------------------------------------
CallSteps(t) ==
    Register(t) \/ SuspendOther(t) \/ SuspendSelf(t) \/ HostSuspend(t) \/ Relock(t) \/ Resume(t)

Next ==
    \E t \in Threads :
        \/ \E x \in Threads, suspended \in Creations : CreateThread(t, x, suspended)
        \/ Start(t) \/ EnterRegion(t) \/ LeaveRegion(t)
        \/ \E x \in Threads, op \in {"suspend", "resume"} : Call(t, x, op)
        \/ CallSteps(t)

Spec == Init /\ [][Next]_vars

(* A thread that is not suspended runs on through the call it is inside, and
   one that waits for the mutex to resume another gets it in the end. *)
FairSpec == Spec /\ \A t \in Threads : WF_vars(CallSteps(t)) /\ SF_vars(Resume(t))

-----------------------------------------------------------------------------
TypeOK ==
    /\ entry \in [Threads -> [logical : 0..MaxCount, host : Nat, pending : BOOLEAN]]
    /\ known \subseteq Threads
    /\ real \in [Threads -> Nat]
    /\ region \in [Threads -> BOOLEAN]
    /\ pc \in [Threads -> {"unborn", "start", "guest", "register", "suspend", "resume",
                           "hostSuspend", "relock"}]
    /\ target \in [Threads -> [thread : Threads \cup {NoThread}, suspended : BOOLEAN]]

(* Every suspension the host knows of is recorded, so as many resumes as the
   guest counts set the thread free: none is left stopped for ever with a
   count of zero ("Keep each logical count change and its host transition
   atomic", 172-173). *)
SuspendedIsCounted ==
    \A t \in known : real[t] = entry[t].host
                               + (IF pc[t] = "relock" /\ entry[t].pending THEN 1 ELSE 0)

(* The counts of a thread hang together: real suspensions are among the
   logical ones, and a self-suspension is one more. *)
CountsNest ==
    \A t \in known : entry[t].host + (IF entry[t].pending THEN 1 ELSE 0) <= entry[t].logical

(* No thread is stopped inside a call of ours or inside a critical region by
   another: whatever lock it would have held for ever (650-712). *)
StoppedOutside ==
    \A t \in known : entry[t].host > 0 => pc[t] \in {"start", "guest"} /\ ~region[t]

(* A resume of a thread about to suspend itself is neither lost nor left
   spinning with the mutex: it returns (746-765). *)
ResumeReturns ==
    \A t \in Threads : pc[t] = "resume" /\ Runs(t) ~> pc[t] = "guest" \/ ~Runs(t)
=============================================================================
