------------------------------ MODULE DpcQueue ------------------------------
(***************************************************************************)
(* Deferred procedure calls and IRQL of                                    *)
(* src/src/cxbx/src/hle/kernel/kernel_emulation.cpp.  The IRQL and the     *)
(* "DPC routine active" mark belong to a host thread; the pending DPC is   *)
(* one global pointer without a lock.  A queued routine runs inside the    *)
(* call that queued it, unless that thread is at DISPATCH_LEVEL or inside a *)
(* routine already: then it is left pending for whoever next lowers its    *)
(* IRQL.                                                                    *)
(***************************************************************************)
EXTENDS Naturals, Sequences

CONSTANTS
    Threads,     \* guest threads and host threads that queue DPCs
    Dpcs,        \* the KDPC objects
    NoDpc,       \* the NULL KDPC
    Valid        \* those whose routine EmuDpcRoutineLooksValid accepts

ASSUME DpcAssumption == NoDpc \notin Dpcs /\ Valid \subseteq Dpcs

VARIABLES
    pending,     \* g_EmuPendingDpc
    number,      \* Number of each KDPC: queued
    raised,      \* g_EmuCurrentIrql >= 2, of each thread
    running,     \* the DPC routines on each thread's stack, outermost first
    call         \* the kernel call each thread is inside: pc and its Dpc

dpcVars == <<pending, number, raised, running, call>>

NoCall == [pc |-> "none", dpc |-> NoDpc]

DpcInit ==
    /\ pending = NoDpc
    /\ number = [d \in Dpcs |-> 0]
    /\ raised = [t \in Threads |-> FALSE]
    /\ running = [t \in Threads |-> <<>>]
    /\ call = [t \in Threads |-> NoCall]

(* EmuGetDpcRoutineActive *)
Active(t) == running[t] # <<>>

Enter(t, pc, d) == call[t] = NoCall /\ call' = [call EXCEPT ![t] = [pc |-> pc, dpc |-> d]]
At(t, pc) == call[t].pc = pc
Goto(t, pc) == call' = [call EXCEPT ![t].pc = pc]
Leave(t) == call' = [call EXCEPT ![t] = NoCall]

(* The deferred routine is called; the guest code in it may call us again. *)
RunRoutine(t, d) == running' = [running EXCEPT ![t] = Append(@, d)] /\ Leave(t)

-----------------------------------------------------------------------------
(* EmuKeInsertQueueDpc *)

BeginInsert(t, d) ==
    /\ number[d] = 0
    /\ Enter(t, "insert", d)
    /\ UNCHANGED <<pending, number, raised, running>>

MarkQueued(t) ==
    /\ At(t, "insert")
    /\ number' = [number EXCEPT ![call[t].dpc] = 1]
    /\ Goto(t, "decide")
    /\ UNCHANGED <<pending, raised, running>>

DecideOnIrqlAlone(t) ==
    /\ At(t, "decide")
    /\ IF raised[t]
       THEN pending' = call[t].dpc /\ Leave(t) /\ UNCHANGED <<number, running>>
       ELSE RunRoutine(t, call[t].dpc) /\ UNCHANGED <<pending, number>>
    /\ UNCHANGED raised

DecideOnRoutineAlone(t) ==
    /\ At(t, "decide")
    /\ IF Active(t)
       THEN pending' = call[t].dpc /\ Leave(t) /\ UNCHANGED <<number, running>>
       ELSE RunRoutine(t, call[t].dpc) /\ UNCHANGED <<pending, number>>
    /\ UNCHANGED raised

Decide(t) ==
    /\ At(t, "decide")
    /\ LET d == call[t].dpc
       IN \/ /\ Active(t) \/ raised[t]
             /\ pending' = d
             /\ Leave(t)
             /\ UNCHANGED <<number, running>>
          \/ /\ ~Active(t) /\ ~raised[t]
             /\ d \in Valid
             /\ RunRoutine(t, d)
             /\ UNCHANGED <<pending, number>>
          \/ /\ ~Active(t) /\ ~raised[t]
             /\ d \notin Valid
             /\ number' = [number EXCEPT ![d] = 0]
             /\ Leave(t)
             /\ UNCHANGED <<pending, running>>
    /\ UNCHANGED raised

(* The routine returns: Number = 0 and the mark is restored. *)
ReturnFromRoutine(t) ==
    /\ Active(t)
    /\ call[t] = NoCall
    /\ number' = [number EXCEPT ![running[t][Len(running[t])]] = 0]
    /\ running' = [running EXCEPT ![t] = SubSeq(@, 1, Len(@) - 1)]
    /\ UNCHANGED <<pending, raised, call>>

-----------------------------------------------------------------------------
(* EmuKeRemoveQueueDpc *)

BeginRemove(t, d) ==
    /\ number[d] # 0
    /\ Enter(t, IF pending = d THEN "wipe" ELSE "unmark", d)
    /\ UNCHANGED <<pending, number, raised, running>>

WipePending(t) ==
    /\ At(t, "wipe")
    /\ pending' = NoDpc
    /\ Goto(t, "unmark")
    /\ UNCHANGED <<number, raised, running>>

Unmark(t) ==
    /\ At(t, "unmark")
    /\ number' = [number EXCEPT ![call[t].dpc] = 0]
    /\ Leave(t)
    /\ UNCHANGED <<pending, raised, running>>

-----------------------------------------------------------------------------
(* KeRaiseIrqlToDpcLevel and KfRaiseIrql; KfLowerIrql, which goes on to
   EmuDispatchPendingDpc when it leaves DISPATCH_LEVEL. *)

RaiseIrql(t) ==
    /\ call[t] = NoCall
    /\ ~raised[t]
    /\ raised' = [raised EXCEPT ![t] = TRUE]
    /\ UNCHANGED <<pending, number, running, call>>

LowerIrqlOnly(t) ==
    /\ raised[t]
    /\ call[t] = NoCall
    /\ raised' = [raised EXCEPT ![t] = FALSE]
    /\ UNCHANGED <<pending, number, running, call>>

LowerIrql(t) ==
    /\ raised[t]
    /\ raised' = [raised EXCEPT ![t] = FALSE]
    /\ Enter(t, "look", NoDpc)
    /\ UNCHANGED <<pending, number, running>>

Look(t) ==
    /\ At(t, "look")
    /\ IF pending = NoDpc \/ Active(t) THEN Leave(t)
       ELSE call' = [call EXCEPT ![t] = [pc |-> "fetch", dpc |-> pending]]
    /\ UNCHANGED <<pending, number, raised, running>>

(* The pointer tested need not be the pointer used: the build may read
   g_EmuPendingDpc once or twice. *)
Fetch(t) ==
    /\ At(t, "fetch")
    /\ \E d \in {call[t].dpc, pending} :
          call' = [call EXCEPT ![t] = [pc |-> "forget", dpc |-> d]]
    /\ UNCHANGED <<pending, number, raised, running>>

Forget(t) ==
    /\ At(t, "forget")
    /\ pending' = NoDpc
    /\ Goto(t, IF call[t].dpc = NoDpc THEN "fault" ELSE "dispatch")
    /\ UNCHANGED <<number, raised, running>>

Dispatch(t) ==
    /\ At(t, "dispatch")
    /\ LET d == call[t].dpc
       IN \/ number[d] = 0 /\ Leave(t) /\ UNCHANGED <<number, running>>
          \/ number[d] # 0 /\ d \in Valid /\ RunRoutine(t, d) /\ UNCHANGED number
          \/ /\ number[d] # 0 /\ d \notin Valid
             /\ number' = [number EXCEPT ![d] = 0]
             /\ Leave(t)
             /\ UNCHANGED running
    /\ UNCHANGED <<pending, raised>>

(* The access through a NULL pointer raises an exception: a handler around the
   guest's code, as the timer thread and the device threads have one, swallows it
   (5668-5674, 5947-5953). *)
Swallow(t) ==
    /\ At(t, "fault")
    /\ Leave(t)
    /\ UNCHANGED <<pending, number, raised, running>>

-----------------------------------------------------------------------------
CallSteps(t) ==
    \/ MarkQueued(t) \/ Decide(t)
    \/ WipePending(t) \/ Unmark(t)
    \/ Look(t) \/ Fetch(t) \/ Forget(t) \/ Dispatch(t)

Calls(t) ==
    \/ \E d \in Dpcs : BeginInsert(t, d) \/ BeginRemove(t, d)
    \/ RaiseIrql(t) \/ LowerIrql(t)

ThreadStep(t) == Calls(t) \/ CallSteps(t) \/ ReturnFromRoutine(t) \/ Swallow(t)

DpcNext == \E t \in Threads : ThreadStep(t)

DpcSpec == DpcInit /\ [][DpcNext]_dpcVars

-----------------------------------------------------------------------------
DpcTypeOK ==
    /\ pending \in Dpcs \cup {NoDpc}
    /\ number \in [Dpcs -> {0, 1}]
    /\ raised \in [Threads -> BOOLEAN]
    /\ running \in [Threads -> Seq(Dpcs)]
    /\ call \in [Threads -> [pc : {"none", "insert", "decide", "wipe", "unmark", "look", "fetch",
                                   "forget", "dispatch", "fault"},
                             dpc : Dpcs \cup {NoDpc}]]

(* Everything has its type, and no thread ever runs a DPC routine inside
   another, whatever the routines queue and however they move their IRQL
   (5365-5389, 6530-6534). *)
NoNesting == DpcTypeOK /\ \A t \in Threads : Len(running[t]) <= 1

(* A routine starts only on a thread below DISPATCH_LEVEL, so never inside the
   section its own thread protected by raising (6525-6530). *)
StartsBelowDispatch ==
    [][\A t \in Threads : Len(running'[t]) > Len(running[t]) => ~raised'[t]]_dpcVars

(* A DPC left pending is taken up by the next thread that lowers its IRQL
   outside of a routine: it does not stay while lowerings go on (6992-6998). *)
LowersOutside == \E t \in Threads : LowerIrql(t) /\ ~Active(t)

PendingTaken == \A d \in Dpcs : []<>(pending # d) \/ ~[]<><<LowersOutside>>_dpcVars

(* A queued DPC is pending, running, or in the hands of a call: its Number says
   the truth and whoever queued it will see it run (6525, "Defer"). *)
Handled(t, d) ==
    \/ call[t].dpc = d
    \/ \E i \in DOMAIN running[t] : running[t][i] = d

QueuedIsPending ==
    \A d \in Dpcs : number[d] # 0 => pending = d \/ \E t \in Threads : Handled(t, d)
=============================================================================
