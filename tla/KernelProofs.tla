---------------------------- MODULE KernelProofs ----------------------------
(***************************************************************************)
(* Proofs about the kernel emulation of kernel_emulation.cpp, for any      *)
(* threads, objects, DPCs, interrupts and timers.                          *)
(*                                                                         *)
(* DpcQueue and InterruptDelivery: that DPC routines do not nest and start *)
(* below DISPATCH_LEVEL rests on a thread's own variables alone: what it   *)
(* found before its call it still finds when it acts on it, though the     *)
(* pending pointer and the Numbers are anybody's to change.  An interrupt  *)
(* only chooses when a thread takes the steps of DpcQueue, so it keeps     *)
(* this.  That a disconnected interrupt is called once more at most rests  *)
(* on the test of Connected, which a device thread makes before each call. *)
(*                                                                         *)
(* Whatever the objects, their kinds and limits, and however many threads  *)
(* wait and signal: a SignalState stays between zero and its limit, every  *)
(* change of one is one of the atomic operations of DispatcherSignals, and *)
(* a wait answers for what it took (Truthful).  The inductive invariant    *)
(* adds that a waiter about to exchange saw a positive count and that only *)
(* semaphores are released.                                                *)
(*                                                                         *)
(* TimerExpiry, for any timers, table size, due times and periods: a timer *)
(* has at most one slot; and when the table has a slot for every timer,    *)
(* none that says it is inserted is forgotten.                             *)
(***************************************************************************)
EXTENDS InterruptDelivery, DispatcherWait, TimerExpiry, FiniteSetTheorems,
        WellFoundedInduction, TLAPS

-----------------------------------------------------------------------------
(* DPCs *)

(* The place a thread has reached in a call tells what it has tested. *)
Tested ==
    \A t \in Threads :
        /\ call[t].pc \in {"insert", "decide", "wipe", "unmark", "dispatch"} => call[t].dpc \in Dpcs
        /\ call[t].pc \in {"look", "fetch", "forget", "dispatch"} => ~raised[t]
        /\ call[t].pc \in {"fetch", "forget", "dispatch"} => ~Active(t)

DpcInv == NoNesting /\ Tested

LEMMA DpcInitially == DpcAssumption /\ DpcInit => DpcInv
  BY DEF DpcAssumption, DpcInit, DpcInv, NoNesting, DpcTypeOK, Tested, NoCall

(* A routine put on an empty stack is alone on it. *)
LEMMA RoutineAlone ==
    ASSUME DpcInv, NEW t \in Threads, ~Active(t), NEW d \in Dpcs
    PROVE  Append(running[t], d) \in Seq(Dpcs) /\ Len(Append(running[t], d)) = 1
  <1>1. running[t] \in Seq(Dpcs) /\ running[t] = <<>>
    BY DEF DpcInv, NoNesting, DpcTypeOK, Active
  <1> QED
    BY <1>1, SMT

(* A step that moves one thread's call, and perhaps its level, the pending
   pointer or a Number, but starts no routine. *)
LEMMA OfOneThread ==
    ASSUME DpcInv, NEW t \in Threads, UNCHANGED running,
           pending' \in Dpcs \cup {NoDpc}, number' \in [Dpcs -> {0, 1}],
           raised' \in [Threads -> BOOLEAN],
           call' \in [Threads -> [pc : {"none", "insert", "decide", "wipe", "unmark", "look",
                                        "fetch", "forget", "dispatch", "fault"},
                                  dpc : Dpcs \cup {NoDpc}]],
           \A u \in Threads \ {t} : raised'[u] = raised[u] /\ call'[u] = call[u],
           call'[t].pc \in {"insert", "decide", "wipe", "unmark", "dispatch"} => call'[t].dpc \in Dpcs,
           call'[t].pc \in {"look", "fetch", "forget", "dispatch"} => ~raised'[t],
           call'[t].pc \in {"fetch", "forget", "dispatch"} => ~Active(t)
    PROVE  DpcInv'
  <1>1. NoNesting'
    BY DEF DpcInv, NoNesting, DpcTypeOK
  <1>2. Tested'
    BY DEF DpcInv, Tested, Active
  <1> QED
    BY <1>1, <1>2 DEF DpcInv

LEMMA DpcInductive ==
    ASSUME DpcAssumption, DpcInv, [DpcNext]_dpcVars
    PROVE  DpcInv'
  <1> USE DEF NoCall, Leave, Enter, Goto, At
  <1>0. /\ pending \in Dpcs \cup {NoDpc} /\ number \in [Dpcs -> {0, 1}]
        /\ raised \in [Threads -> BOOLEAN]
        /\ call \in [Threads -> [pc : {"none", "insert", "decide", "wipe", "unmark", "look",
                                       "fetch", "forget", "dispatch", "fault"},
                                 dpc : Dpcs \cup {NoDpc}]]
    BY DEF DpcInv, NoNesting, DpcTypeOK
  <1>1. ASSUME NEW t \in Threads, NEW d \in Dpcs, BeginInsert(t, d) \/ BeginRemove(t, d)
        PROVE  DpcInv'
    BY <1>0, <1>1, OfOneThread DEF BeginInsert, BeginRemove
  <1>2. ASSUME NEW t \in Threads, RaiseIrql(t) \/ LowerIrql(t) PROVE DpcInv'
    <2>1. CASE RaiseIrql(t)
      <3>1. /\ call'[t].pc = "none" /\ UNCHANGED <<running, pending, number, call>>
            /\ raised' \in [Threads -> BOOLEAN]
            /\ \A u \in Threads \ {t} : raised'[u] = raised[u]
        BY <1>0, <2>1 DEF RaiseIrql
      <3> QED
        BY <1>0, <3>1, OfOneThread
    <2>2. CASE LowerIrql(t)
      BY <1>0, <2>2, OfOneThread DEF LowerIrql
    <2> QED
      BY <1>2, <2>1, <2>2
  <1>3. ASSUME NEW t \in Threads, MarkQueued(t) \/ WipePending(t) \/ Unmark(t) PROVE DpcInv'
    <2>1. call[t].pc \in {"insert", "wipe", "unmark"} /\ call[t].dpc \in Dpcs
      BY <1>3 DEF MarkQueued, WipePending, Unmark, DpcInv, Tested
    <2>2. CASE MarkQueued(t)
      BY <1>0, <2>1, <2>2, OfOneThread DEF MarkQueued
    <2>3. CASE WipePending(t)
      BY <1>0, <2>1, <2>3, OfOneThread DEF WipePending
    <2>4. CASE Unmark(t)
      BY <1>0, <2>1, <2>4, OfOneThread DEF Unmark
    <2> QED
      BY <1>3, <2>2, <2>3, <2>4
  <1>4. ASSUME NEW t \in Threads, Look(t) \/ Fetch(t) \/ Forget(t) PROVE DpcInv'
    <2>1. ~raised[t] /\ (call[t].pc # "look" => ~Active(t))
      BY <1>4 DEF Look, Fetch, Forget, DpcInv, Tested
    <2>2. CASE Look(t)
      BY <1>0, <2>1, <2>2, OfOneThread DEF Look
    <2>3. CASE Fetch(t)
      BY <1>0, <2>1, <2>3, OfOneThread DEF Fetch
    <2>4. CASE Forget(t)
      BY <1>0, <2>1, <2>4, OfOneThread DEF Forget
    <2> QED
      BY <1>4, <2>2, <2>3, <2>4
  <1>5. ASSUME NEW t \in Threads, NEW d \in Dpcs, RunRoutine(t, d), ~Active(t),
               UNCHANGED <<pending, number, raised>>
        PROVE  DpcInv'
    BY <1>0, <1>5, RoutineAlone DEF RunRoutine, DpcInv, NoNesting, DpcTypeOK, Tested, Active
  <1>6. ASSUME NEW t \in Threads, Decide(t) PROVE DpcInv'
    <2>1. call[t].dpc \in Dpcs
      BY <1>6 DEF Decide, DpcInv, Tested
    <2>2. CASE RunRoutine(t, call[t].dpc) /\ ~Active(t) /\ UNCHANGED <<pending, number, raised>>
      BY <1>5, <2>1, <2>2
    <2>3. CASE /\ Leave(t) /\ UNCHANGED <<running, raised>>
               /\ pending' \in {pending, call[t].dpc}
               /\ number' \in {number, [number EXCEPT ![call[t].dpc] = 0]}
      BY <1>0, <2>1, <2>3, OfOneThread
    <2> QED
      BY <1>6, <2>2, <2>3 DEF Decide
  <1>7. ASSUME NEW t \in Threads, Dispatch(t) PROVE DpcInv'
    <2>1. call[t].dpc \in Dpcs /\ ~Active(t)
      BY <1>7 DEF Dispatch, DpcInv, Tested
    <2>2. CASE RunRoutine(t, call[t].dpc) /\ UNCHANGED <<pending, number, raised>>
      BY <1>5, <2>1, <2>2
    <2>3. CASE /\ Leave(t) /\ UNCHANGED <<running, raised, pending>>
               /\ number' \in {number, [number EXCEPT ![call[t].dpc] = 0]}
      BY <1>0, <2>1, <2>3, OfOneThread
    <2> QED
      BY <1>7, <2>2, <2>3 DEF Dispatch
  <1>8. ASSUME NEW t \in Threads, ReturnFromRoutine(t) PROVE DpcInv'
    <2> DEFINE s == SubSeq(running[t], 1, Len(running[t]) - 1)
    <2>1. /\ running[t] \in Seq(Dpcs) /\ Len(running[t]) <= 1 /\ running[t] # <<>>
          /\ running \in [Threads -> Seq(Dpcs)]
      BY <1>8 DEF ReturnFromRoutine, Active, DpcInv, NoNesting, DpcTypeOK
    <2>2. Len(running[t]) = 1 /\ running[t][1] \in Dpcs
      <3>1. Len(running[t]) \in Nat /\ Len(running[t]) # 0
        BY <2>1
      <3>2. \A n \in Nat : n <= 1 /\ n # 0 => n = 1
        BY SMT
      <3>3. Len(running[t]) = 1
        BY <2>1, <3>1, <3>2, Zenon
      <3> QED
        BY <2>1, <3>3
    <2>3. s \in Seq(Dpcs) /\ Len(s) = 0
      BY <2>1, <2>2, SMT
    <2> HIDE DEF s
    <2>4. running' = [running EXCEPT ![t] = s] /\ UNCHANGED <<pending, raised, call>>
          /\ number' \in [Dpcs -> {0, 1}] /\ call[t].pc = "none"
      BY <1>0, <1>8, <2>2 DEF ReturnFromRoutine, s
    <2>5. NoNesting'
      BY <2>1, <2>3, <2>4 DEF DpcInv, NoNesting, DpcTypeOK
    <2>6. Tested'
      BY <2>1, <2>4 DEF DpcInv, Tested, Active
    <2> QED
      BY <2>5, <2>6 DEF DpcInv
  <1>9. ASSUME NEW t \in Threads, Swallow(t) PROVE DpcInv'
    BY <1>0, <1>9, OfOneThread DEF Swallow
  <1>10. CASE UNCHANGED dpcVars
    BY <1>10 DEF DpcInv, NoNesting, DpcTypeOK, Tested, Active, dpcVars
  <1> QED
    BY <1>1, <1>2, <1>3, <1>4, <1>6, <1>7, <1>8, <1>9, <1>10 DEF DpcNext, ThreadStep, Calls, CallSteps

LEMMA DpcInvariance == DpcSpec => []DpcInv
  <1>1. DpcInit => DpcInv
    BY DpcAssumption, DpcInitially
  <1>2. DpcInv /\ [DpcNext]_dpcVars => DpcInv'
    BY DpcAssumption, DpcInductive
  <1> QED
    BY <1>1, <1>2, PTL DEF DpcSpec

-----------------------------------------------------------------------------
(* No thread runs a DPC routine inside another, however many threads queue,
   defer and take up however many DPCs (5365-5389, 6530-6534). *)
THEOREM RoutinesDoNotNest == DpcSpec => []NoNesting
  <1>1. DpcInv => NoNesting
    BY DEF DpcInv
  <1> QED
    BY <1>1, DpcInvariance, PTL

(* A routine starts below DISPATCH_LEVEL, whether the call that queued it runs it
   or another thread's lowering takes it up (5365-5389, 6525-6530, 6992-6998). *)
THEOREM StartsLow == DpcSpec => StartsBelowDispatch
  <1>1. ASSUME DpcInv, [DpcNext]_dpcVars, NEW t \in Threads, Len(running'[t]) > Len(running[t])
        PROVE  ~raised'[t]
    <2>1. running \in [Threads -> Seq(Dpcs)] /\ Len(running[t]) \in Nat
      <3>1. running \in [Threads -> Seq(Dpcs)] /\ running[t] \in Seq(Dpcs)
        BY <1>1 DEF DpcInv, NoNesting, DpcTypeOK
      <3> QED
        BY <3>1
    <2>2. PICK u \in Threads : ThreadStep(u)
      BY <1>1, <2>1, SMT DEF DpcNext, dpcVars
    <2>3. running' # running
      BY <1>1, <2>1, SMT
    <2>4. CASE Decide(u) /\ RunRoutine(u, call[u].dpc) /\ ~raised[u]
      <3>1. running' = [running EXCEPT ![u] = Append(@, call[u].dpc)] /\ UNCHANGED raised
        BY <2>4 DEF Decide, RunRoutine
      <3>2. u = t
        BY <1>1, <2>1, <3>1, SMT
      <3> QED
        BY <2>4, <3>1, <3>2
    <2>5. CASE Dispatch(u) /\ RunRoutine(u, call[u].dpc)
      <3>1. running' = [running EXCEPT ![u] = Append(@, call[u].dpc)] /\ UNCHANGED raised
        BY <2>5 DEF Dispatch, RunRoutine
      <3>2. u = t
        BY <1>1, <2>1, <3>1, SMT
      <3>3. ~raised[u]
        BY <1>1, <2>5 DEF Dispatch, At, DpcInv, Tested
      <3> QED
        BY <3>1, <3>2, <3>3
    <2>6. CASE ReturnFromRoutine(u)
      <3>1. /\ running' = [running EXCEPT ![u] = SubSeq(@, 1, Len(@) - 1)]
            /\ running[u] \in Seq(Dpcs) /\ running[u] # <<>>
        BY <2>1, <2>6 DEF ReturnFromRoutine, Active
      <3>2. Len(SubSeq(running[u], 1, Len(running[u]) - 1)) < Len(running[u])
        BY <3>1, SMT
      <3> QED
        BY <1>1, <2>1, <3>1, <3>2, SMT
    <2>7. CASE Calls(u)
      BY <2>3, <2>7 DEF Calls, BeginInsert, BeginRemove, RaiseIrql, LowerIrql
    <2> QED
      BY <2>2, <2>3, <2>4, <2>5, <2>6, <2>7
         DEF ThreadStep, CallSteps, MarkQueued, WipePending, Unmark, Look, Fetch, Forget, Decide,
             Dispatch, Swallow
  <1>2. DpcInv /\ [DpcNext]_dpcVars
            => [\A t \in Threads : Len(running'[t]) > Len(running[t]) => ~raised'[t]]_dpcVars
    BY <1>1
  <1> QED
    BY <1>2, DpcInvariance, PTL DEF DpcSpec, StartsBelowDispatch

-----------------------------------------------------------------------------
(* Interrupts *)

LEMMA IntStepIsDpcStep == IntNext => [DpcNext]_dpcVars
  BY DEF IntNext, GuestCode, DpcNext, ConfigCalls, ConfigSteps, DeviceSteps,
         KeInitializeInterrupt, KeConnectInterrupt, ClaimSlot, MarkConnected, List, StartDevice,
         KeDisconnectInterrupt, MarkDisconnected, CheckSlot, Unlist,
         Wake, FetchInterrupt, TestConnected, Service, ServiceReturns

(* Whatever interrupts are connected and served meanwhile, the threads keep what
   DpcQueue promises: no DPC routine runs inside another and none starts at
   DISPATCH_LEVEL, on a device thread as on a guest thread (5653-5674). *)
THEOREM InterruptsKeepDpcs == IntSpec => []NoNesting /\ StartsBelowDispatch
  <1>1. IntInit => DpcInit
    BY DEF IntInit
  <1>2. [IntNext]_intVars => [DpcNext]_dpcVars
    BY IntStepIsDpcStep DEF intVars
  <1>3. IntSpec => DpcSpec
    BY <1>1, <1>2, PTL DEF IntSpec, DpcSpec
  <1> QED
    BY <1>3, RoutinesDoNotNest, StartsLow, PTL

(* A device thread that has tested Connected has not yet called the interrupt
   since it was last connected. *)
LateInv ==
    /\ OneLateCall
    /\ \A t \in Configurers : config[t].pc # "none" => config[t].interrupt \in Interrupts
    /\ \A d \in Devices :
          /\ visit[d].n \in DOMAIN Serves[d]
          /\ visit[d].pc \in {"test", "enter", "routine"} => visit[d].interrupt \in Interrupts
          /\ visit[d].pc = "enter" => late[d][visit[d].interrupt] = 0
          /\ \A i \in Interrupts : connected[i] => late[d][i] = 0

LEMMA ServesItsLevels ==
    ASSUME InterruptAssumption, NEW d \in Devices
    PROVE  /\ DOMAIN Serves[d] = 1..Len(Serves[d])
           /\ Len(Serves[d]) \in Nat \ {0}
           /\ \A n \in DOMAIN Serves[d] : Serves[d][n] \in Levels
  <1>1. Serves[d] \in Seq(Nat) /\ Serves[d] # <<>>
    BY DEF InterruptAssumption
  <1> QED
    BY <1>1 DEF Levels

LEMMA LateInitially == InterruptAssumption /\ IntInit => LateInv
  <1> SUFFICES ASSUME InterruptAssumption, IntInit PROVE LateInv
    OBVIOUS
  <1>1. \A d \in Devices : 1 \in DOMAIN Serves[d]
    BY ServesItsLevels
  <1> QED
    BY <1>1 DEF IntInit, LateInv, OneLateCall, NoConfig, Asleep

(* A device thread that goes on to another level, or to sleep. *)
LEMMA GoingOnwards ==
    ASSUME InterruptAssumption, LateInv, NEW d \in Devices, Onwards(d),
           UNCHANGED <<listed, connected, started, config, late>>
    PROVE  LateInv'
  <1>1. /\ visit'[d].n \in DOMAIN Serves[d]
        /\ visit' \in [Devices -> [pc : {"asleep", "fetch", "test", "enter", "routine"},
                                   n : Nat \ {0}, interrupt : Interrupts \cup {NoInterrupt}]]
        /\ visit'[d].pc \in {"asleep", "fetch"}
        /\ \A e \in Devices \ {d} : visit'[e] = visit[e]
    BY ServesItsLevels DEF LateInv, OneLateCall, Onwards, Asleep
  <1>2. OneLateCall'
    BY <1>1 DEF LateInv, OneLateCall
  <1>3. ASSUME NEW e \in Devices
        PROVE  /\ visit'[e].n \in DOMAIN Serves[e]
               /\ visit'[e].pc \in {"test", "enter", "routine"} => visit'[e].interrupt \in Interrupts
               /\ visit'[e].pc = "enter" => late[e][visit'[e].interrupt] = 0
    BY <1>1 DEF LateInv
  <1> QED
    BY <1>2, <1>3 DEF LateInv

LEMMA LateInductive ==
    ASSUME InterruptAssumption, LateInv, [IntNext]_intVars
    PROVE  LateInv'
  <1> USE DEF LateInv, OneLateCall
  <1>1. ASSUME NEW t \in Threads, GuestCode(t) PROVE LateInv'
    BY <1>1 DEF GuestCode
  <1>2. ASSUME NEW t \in Configurers, ConfigCalls(t) PROVE LateInv'
    <2>1. PICK i \in Interrupts : \/ KeInitializeInterrupt(t, i)
                                 \/ KeConnectInterrupt(t, i) \/ KeDisconnectInterrupt(t, i)
      BY <1>2 DEF ConfigCalls
    <2>2. CASE KeInitializeInterrupt(t, i)
      BY <2>2 DEF KeInitializeInterrupt
    <2>3. CASE KeConnectInterrupt(t, i)
      BY <2>3 DEF KeConnectInterrupt
    <2>4. CASE KeDisconnectInterrupt(t, i)
      BY <2>4 DEF KeDisconnectInterrupt
    <2> QED
      BY <2>1, <2>2, <2>3, <2>4
  <1>3. ASSUME NEW t \in Configurers, ConfigSteps(t) PROVE LateInv'
    <2>1. config[t].interrupt \in Interrupts /\ LevelOf[config[t].interrupt] \in Levels
      BY <1>3 DEF InterruptAssumption, ConfigSteps, ClaimSlot, MarkConnected, List, StartDevice,
                  MarkDisconnected, CheckSlot, Unlist, Configuring
    <2>2. CASE ClaimSlot(t) \/ StartDevice(t) \/ CheckSlot(t)
      <3>1. /\ config' = [config EXCEPT ![t] = NoConfig] \/ \E pc \in {"mark", "unlist"} :
                                                              config' = [config EXCEPT ![t].pc = pc]
            /\ UNCHANGED <<listed, connected, visit, late>>
            /\ started' \in [Devices -> BOOLEAN]
        BY <2>2 DEF ClaimSlot, StartDevice, CheckSlot, Configuring
      <3>2. CASE config' = [config EXCEPT ![t] = NoConfig]
        BY <3>1, <3>2 DEF NoConfig
      <3>3. CASE \E pc \in {"mark", "unlist"} : config' = [config EXCEPT ![t].pc = pc]
        BY <2>1, <3>1, <3>3
      <3> QED
        BY <3>1, <3>2, <3>3
    <2>3. CASE List(t) \/ Unlist(t)
      <3>1. /\ config' \in {[config EXCEPT ![t] = NoConfig], [config EXCEPT ![t].pc = "start"]}
            /\ UNCHANGED <<connected, started, visit, late>>
            /\ listed' \in [Levels -> Interrupts \cup {NoInterrupt}]
        BY <2>1, <2>3 DEF List, Unlist, Configuring
      <3>2. CASE config' = [config EXCEPT ![t] = NoConfig]
        BY <3>1, <3>2 DEF NoConfig
      <3>3. CASE config' = [config EXCEPT ![t].pc = "start"]
        BY <2>1, <3>1, <3>3
      <3> QED
        BY <3>1, <3>2, <3>3
    <2>4. CASE MarkConnected(t)
      BY <2>1, <2>4 DEF MarkConnected, Configuring, NoConfig
    <2>5. CASE MarkDisconnected(t)
      BY <2>1, <2>5 DEF MarkDisconnected, Configuring, NoConfig
    <2> QED
      BY <1>3, <2>2, <2>3, <2>4, <2>5 DEF ConfigSteps
  <1>4. ASSUME NEW d \in Devices, DeviceSteps(d) PROVE LateInv'
    <2>1. CASE Wake(d)
      <3>1. /\ visit' = [visit EXCEPT ![d].pc = "fetch"]
            /\ UNCHANGED <<listed, connected, started, config, late>>
        BY <2>1 DEF Wake, Visiting
      <3> QED
        BY <3>1
    <2>2. CASE FetchInterrupt(d)
      <3>1. listed[Serves[d][visit[d].n]] \in Interrupts \cup {NoInterrupt}
        BY ServesItsLevels
      <3>2. CASE Onwards(d)
        BY <2>2, <3>2, GoingOnwards DEF FetchInterrupt
      <3>3. CASE /\ listed[Serves[d][visit[d].n]] # NoInterrupt
                 /\ visit' = [visit EXCEPT ![d].pc = "test",
                                           ![d].interrupt = listed[Serves[d][visit[d].n]]]
        BY <2>2, <3>1, <3>3 DEF FetchInterrupt
      <3> QED
        BY <2>2, <3>2, <3>3 DEF FetchInterrupt
    <2>3. CASE TestConnected(d)
      <3>1. CASE Onwards(d)
        BY <2>3, <3>1, GoingOnwards DEF TestConnected
      <3>2. CASE connected[visit[d].interrupt] /\ Visiting(d, "test", "enter")
        BY <2>3, <3>2 DEF TestConnected, Visiting
      <3> QED
        BY <2>3, <3>1, <3>2 DEF TestConnected
    <2>4. CASE Service(d)
      BY <2>4 DEF Service, Visiting
    <2>5. CASE ServiceReturns(d)
      BY <2>5, GoingOnwards DEF ServiceReturns
    <2> QED
      BY <1>4, <2>1, <2>2, <2>3, <2>4, <2>5 DEF DeviceSteps
  <1>5. CASE UNCHANGED intVars
    BY <1>5 DEF intVars, interrupts
  <1> QED
    BY <1>1, <1>2, <1>3, <1>4, <1>5 DEF IntNext

(* An interrupt that is disconnected or initialised anew is called at most once
   more by each device thread until it is connected again, for any number of
   guest threads that configure interrupts at once (5653-5670, 6457-6463). *)
THEOREM CalledOnceMore == IntSpec => []OneLateCall
  <1>1. IntInit => LateInv
    BY InterruptAssumption, LateInitially
  <1>2. LateInv /\ [IntNext]_intVars => LateInv'
    BY InterruptAssumption, LateInductive
  <1>3. LateInv => OneLateCall
    BY DEF LateInv
  <1> QED
    BY <1>1, <1>2, <1>3, PTL DEF IntSpec

-----------------------------------------------------------------------------
(* Waits on dispatcher objects *)

LEMMA Initially == DispatcherAssumption /\ Init => IInv
  <1> SUFFICES ASSUME DispatcherAssumption, Init PROVE IInv
    OBVIOUS
  <1>1. (CHOOSE o \in Objects : TRUE) \in Objects
    BY DEF DispatcherAssumption
  <1>2. TypeOK
    <2>1. signal \in [Objects -> Nat] /\ \A o \in Objects : signal[o] <= Limit[o]
      BY SMT DEF Init, DispatcherAssumption
    <2>2. wait \in [Waiters -> [pc : {"idle", "peek", "take", "exchange", "poll", "done"},
                             i : Nat, seen : Int, took : SUBSET Nat,
                             answer : {"none", "success", "timeout", "paced"}]]
      BY SMT DEF Init, NoWait
    <2>3. release \in [Signallers -> [busy : BOOLEAN, object : Objects, n : Nat, seen : Int]]
      BY <1>1, SMT DEF Init, NoRelease
    <2> QED
      BY <2>1, <2>2, <2>3 DEF TypeOK, Init
  <1>3. InProgress
    BY DEF Init, InProgress, NoWait, NoRelease
  <1> QED
    BY <1>2, <1>3 DEF IInv

-----------------------------------------------------------------------------
States == [pc : {"idle", "peek", "take", "exchange", "poll", "done"},
           i : Nat, seen : Int, took : SUBSET Nat,
           answer : {"none", "success", "timeout", "paced"}]

WellPlaced(r, state) ==
    /\ state.pc \in {"peek", "take", "exchange"} => state.i \in DOMAIN r.objs
    /\ state.pc = "exchange" => state.seen > 0 /\ Kind[r.objs[state.i]] # "notification"

(* A step of waiter w that leaves it well placed keeps the invariant. *)
LEMMA Settles ==
    ASSUME IInv, NEW w \in Waiters, NEW state \in States,
           Becomes(w, state), WellPlaced(request'[w], state),
           request' \in [Waiters -> Requests],
           \A v \in Waiters \ {w} : request'[v] = request[v],
           UNCHANGED release,
           signal' \in [Objects -> Nat], \A o \in Objects : signal'[o] <= Limit[o]
    PROVE  IInv'
  <1>1. wait' \in [Waiters -> States] /\ wait'[w] = state
        /\ \A v \in Waiters \ {w} : wait'[v] = wait[v]
    BY DEF IInv, TypeOK, Becomes, States
  <1>2. TypeOK'
    BY <1>1 DEF IInv, TypeOK, States
  <1>3. InProgress'
    BY <1>1 DEF IInv, InProgress, WellPlaced, Object
  <1> QED
    BY <1>2, <1>3 DEF IInv

(* The objects of a request are a non-empty sequence. *)
LEMMA Asked ==
    ASSUME DispatcherAssumption, IInv, NEW w \in Waiters
    PROVE  /\ request[w].objs \in Seq(Objects)
           /\ Len(request[w].objs) \in Nat \ {0}
           /\ DOMAIN request[w].objs = 1..Len(request[w].objs)
           /\ \A i \in DOMAIN request[w].objs : request[w].objs[i] \in Objects
  <1>1. request[w] \in Requests
    BY DEF IInv, TypeOK
  <1>2. request[w].objs \in Seq(Objects) /\ request[w].objs # <<>>
    BY <1>1 DEF DispatcherAssumption
  <1> QED
    BY <1>2, SMT

(* Where EmuTrySatisfyDispatcherWait leaves a waiter that is inside it. *)
LEMMA Outcome ==
    ASSUME DispatcherAssumption, IInv, NEW w \in Waiters,
           wait[w].pc \in {"take", "exchange"}
    PROVE  /\ Hit(w) \in States /\ WellPlaced(request[w], Hit(w))
           /\ Miss(w) \in States /\ WellPlaced(request[w], Miss(w))
           /\ Hit(w).pc \in {"take", "done"}
  <1>1. wait[w] \in States /\ wait[w].i \in DOMAIN request[w].objs
    BY DEF IInv, TypeOK, InProgress, States
  <1>2. ASSUME NEW pc \in {"take", "poll"}, NEW i \in Nat
        PROVE  /\ Move(w, pc, i) \in States
               /\ Move(w, pc, i).pc = pc /\ Move(w, pc, i).i = i
    BY <1>1 DEF Move, States
  <1>3. Done(w, "success") \in States /\ Done(w, "success").pc = "done"
    BY <1>1 DEF Done, States
  <1>4. ~Last(w) => wait[w].i + 1 \in DOMAIN request[w].objs
    BY <1>1, Asked, SMT DEF Last
  <1>5. wait[w].i + 1 \in Nat
    BY <1>1, SMT DEF States
  <1> QED
    BY <1>2, <1>3, <1>4, <1>5 DEF Hit, Miss, WellPlaced

LEMMA Inductive ==
    ASSUME DispatcherAssumption, IInv, [Next]_vars
    PROVE  IInv'
  <1>1. ASSUME NEW w \in Waiters, Begin(w) PROVE IInv'
    <2> DEFINE state == Started(request'[w])
    <2>1. PICK r \in Requests : request' = [request EXCEPT ![w] = r]
      BY <1>1 DEF Begin
    <2>2. request' \in [Waiters -> Requests] /\ request'[w] = r
          /\ \A v \in Waiters \ {w} : request'[v] = request[v]
      BY <2>1 DEF IInv, TypeOK
    <2>3. 1 \in DOMAIN r.objs
      <3>1. r.objs \in Seq(Objects) /\ r.objs # <<>>
        BY DEF DispatcherAssumption
      <3> QED
        BY <3>1, SMT
    <2>4. state \in States /\ state.pc \in {"peek", "take"} /\ state.i = 1
      BY DEF Started, FirstLook, States
    <2>5. Becomes(w, state) /\ UNCHANGED <<signal, release>>
      BY <1>1 DEF Begin
    <2>6. WellPlaced(request'[w], state)
      BY <2>2, <2>3, <2>4 DEF WellPlaced
    <2> HIDE DEF state
    <2> QED
      BY <2>2, <2>4, <2>5, <2>6, Settles DEF IInv, TypeOK
  <1>2. ASSUME NEW w \in Waiters, Peek(w) PROVE IInv'
    <2>1. wait[w] \in States /\ wait[w].i \in DOMAIN request[w].objs
      BY <1>2 DEF Peek, IInv, TypeOK, InProgress, States
    <2>2. ~Last(w) => wait[w].i + 1 \in DOMAIN request[w].objs
      BY <2>1, Asked, SMT DEF Last
    <2>3. wait[w].i + 1 \in Nat /\ 1 \in DOMAIN request[w].objs
      BY <2>1, Asked, SMT DEF States
    <2>4. \E state \in States : Becomes(w, state) /\ WellPlaced(request[w], state)
      <3>1. ASSUME NEW pc \in {"peek", "take", "poll"}, NEW i \in Nat
            PROVE  /\ Move(w, pc, i) \in States
                   /\ Move(w, pc, i).pc = pc /\ Move(w, pc, i).i = i
        BY <2>1 DEF Move, States
      <3> QED
        BY <1>2, <2>2, <2>3, <3>1 DEF Peek, WellPlaced
    <2> QED
      BY <1>2, <2>4, Settles DEF Peek, IInv, TypeOK
  <1>3. ASSUME NEW w \in Waiters, Try(w) PROVE IInv'
    <2>1. wait[w] \in States /\ wait[w].pc = "take"
          /\ wait[w].i \in DOMAIN request[w].objs
      BY <1>3 DEF Try, IInv, TypeOK, InProgress, States
    <2>2. Object(w) \in Objects /\ signal[Object(w)] \in Nat
      BY <2>1, Asked DEF Object, IInv, TypeOK
    <2>3. \E state \in States : Becomes(w, state) /\ WellPlaced(request[w], state)
      <3> DEFINE State == signal[Object(w)]
                 x == [wait[w] EXCEPT !.pc = "exchange", !.seen = State]
      <3>1. x \in States /\ x.pc = "exchange" /\ x.seen = State /\ x.i = wait[w].i
        <4>1. ASSUME NEW u \in States, NEW v \in Int
              PROVE  /\ [u EXCEPT !.pc = "exchange", !.seen = v] \in States
                     /\ [u EXCEPT !.pc = "exchange", !.seen = v].pc = "exchange"
                     /\ [u EXCEPT !.pc = "exchange", !.seen = v].seen = v
                     /\ [u EXCEPT !.pc = "exchange", !.seen = v].i = u.i
          BY DEF States
        <4>2. wait[w] \in States /\ State \in Int
          BY <2>1, <2>2
        <4> HIDE DEF State
        <4> QED
          BY <4>1, <4>2
      <3>2. State > 0 /\ Kind[Object(w)] # "notification" => WellPlaced(request[w], x)
        BY <2>1, <3>1 DEF WellPlaced, Object
      <3>3. Becomes(w, IF State <= 0 THEN Miss(w)
                       ELSE IF Kind[Object(w)] = "notification" THEN Hit(w) ELSE x)
        BY <1>3 DEF Try
      <3> HIDE DEF x
      <3>4. State <= 0 \/ State > 0
        BY <2>2, SMT
      <3> HIDE DEF State
      <3> QED
        BY <2>1, <3>1, <3>2, <3>3, <3>4, Outcome
    <2> QED
      BY <1>3, <2>3, Settles DEF Try, IInv, TypeOK
  <1>4. ASSUME NEW w \in Waiters, Exchange(w) PROVE IInv'
    <2> DEFINE o == Object(w)
    <2>1. wait[w] \in States /\ wait[w].pc = "exchange"
          /\ wait[w].i \in DOMAIN request[w].objs
          /\ wait[w].seen > 0 /\ Kind[o] # "notification"
      BY <1>4 DEF Exchange, IInv, TypeOK, InProgress, States
    <2>2. o \in Objects /\ signal[o] \in Nat
      BY <2>1, Asked DEF Object, IInv, TypeOK
    <2>3. CASE signal[o] = wait[w].seen
      <3> DEFINE h == [Hit(w) EXCEPT !.took = @ \cup {wait[w].i}]
      <3>1. signal' = [signal EXCEPT ![o] = wait[w].seen - 1] /\ Becomes(w, h)
            /\ UNCHANGED <<request, release>>
        BY <1>4, <2>3 DEF Exchange
      <3>2. signal' \in [Objects -> Nat] /\ \A p \in Objects : signal'[p] <= Limit[p]
        <4>1. wait[w].seen - 1 \in Nat /\ wait[w].seen - 1 <= Limit[o]
          BY <2>1, <2>2, <2>3, SMT DEF IInv, TypeOK, DispatcherAssumption
        <4> QED
          BY <3>1, <4>1 DEF IInv, TypeOK
      <3>3. h \in States /\ h.pc = Hit(w).pc /\ h.i = Hit(w).i
        BY <2>1, Outcome DEF States
      <3>4. WellPlaced(request[w], h)
        BY <2>1, <3>3, Outcome DEF WellPlaced
      <3> HIDE DEF h
      <3> QED
        BY <3>1, <3>2, <3>3, <3>4, Settles DEF IInv, TypeOK
    <2>4. CASE signal[o] # wait[w].seen
      <3> DEFINE x == [wait[w] EXCEPT !.seen = signal[o]]
      <3>1. Becomes(w, IF signal[o] > 0 THEN x ELSE Miss(w))
            /\ UNCHANGED <<signal, request, release>>
        BY <1>4, <2>4 DEF Exchange
      <3>2. x \in States /\ x.seen = signal[o] /\ x.i = wait[w].i
        <4>1. ASSUME NEW v \in Int
              PROVE  LET y == [wait[w] EXCEPT !.seen = v]
                     IN  y \in States /\ y.seen = v /\ y.i = wait[w].i
          BY <2>1 DEF States
        <4> QED
          BY <2>2, <4>1
      <3>3. signal[o] > 0 => WellPlaced(request[w], x)
        BY <2>1, <3>2 DEF WellPlaced, Object
      <3> HIDE DEF x
      <3> QED
        BY <2>1, <3>1, <3>2, <3>3, Outcome, Settles DEF IInv, TypeOK
    <2> QED
      BY <2>3, <2>4
  <1>5. ASSUME NEW w \in Waiters, Poll(w) PROVE IInv'
    <2>1. wait[w] \in States /\ 1 \in DOMAIN request[w].objs
      BY Asked, SMT DEF IInv, TypeOK, States
    <2>2. ASSUME NEW answer \in {"timeout", "paced"}
          PROVE  Done(w, answer) \in States /\ WellPlaced(request[w], Done(w, answer))
      BY <2>1 DEF Done, States, WellPlaced
    <2>3. /\ Move(w, FirstLook(request[w]), 1) \in States
          /\ WellPlaced(request[w], Move(w, FirstLook(request[w]), 1))
      BY <2>1 DEF Move, FirstLook, States, WellPlaced
    <2>4. \E state \in States : Becomes(w, state) /\ WellPlaced(request[w], state)
      BY <1>5, <2>2, <2>3 DEF Poll
    <2> QED
      BY <1>5, <2>4, Settles DEF Poll, IInv, TypeOK
  <1>6. ASSUME NEW w \in Waiters, Return(w) PROVE IInv'
    <2>1. NoWait \in States /\ WellPlaced(request[w], NoWait)
      BY DEF NoWait, States, WellPlaced
    <2> QED
      BY <1>6, <2>1, Settles DEF Return, IInv, TypeOK
  <1>7. ASSUME NEW s \in Signallers, Signal(s) PROVE IInv'
    <2>1. signal' \in [Objects -> Nat] /\ \A o \in Objects : signal'[o] <= Limit[o]
      <3>1. PICK o \in Events, v \in {0, 1} : signal' = [signal EXCEPT ![o] = v]
        BY <1>7 DEF Signal, KeSetEvent, KeResetEvent, KePulseEvent
      <3>2. o \in Objects /\ v \in Nat /\ v <= Limit[o]
        BY DEF Events, DispatcherAssumption
      <3> QED
        BY <3>1, <3>2 DEF IInv, TypeOK
    <2> QED
      BY <1>7, <2>1 DEF Signal, IInv, TypeOK, InProgress, Object
  <1>8. ASSUME NEW s \in Signallers, BeginRelease(s) PROVE IInv'
    <2>1. PICK o \in Semaphores, n \in Adjustments :
             release' = [release EXCEPT ![s] =
                           [busy |-> TRUE, object |-> o, n |-> n, seen |-> signal[o]]]
      BY <1>8 DEF BeginRelease
    <2>2. o \in Objects /\ n \in Nat /\ signal[o] \in Int
      BY DEF Semaphores, Events, DispatcherAssumption, IInv, TypeOK
    <2>3. TypeOK'
      BY <1>8, <2>1, <2>2 DEF BeginRelease, IInv, TypeOK
    <2>4. InProgress'
      BY <1>8, <2>1, <2>2 DEF BeginRelease, IInv, TypeOK, InProgress, Object
    <2> QED
      BY <2>3, <2>4 DEF IInv
  <1>9. ASSUME NEW s \in Signallers, KeReleaseSemaphore(s) PROVE IInv'
    <2> DEFINE o == release[s].object
    <2>1. o \in Objects /\ release[s].n \in Nat /\ signal[o] \in Nat
          /\ Limit[o] \in Nat
      BY <1>9 DEF KeReleaseSemaphore, IInv, TypeOK, DispatcherAssumption
    <2>2. CASE signal[o] = release[s].seen
      <3>1. Capped(o, release[s].seen + release[s].n) \in Nat
            /\ Capped(o, release[s].seen + release[s].n) <= Limit[o]
        BY <2>1, <2>2, SMT DEF Capped
      <3>2. signal' = [signal EXCEPT ![o] = Capped(o, release[s].seen + release[s].n)]
            /\ release' = [release EXCEPT ![s] = NoRelease]
            /\ UNCHANGED <<request, wait>>
        BY <1>9, <2>2 DEF KeReleaseSemaphore
      <3>3. NoRelease \in [busy : BOOLEAN, object : Objects, n : Nat, seen : Int]
            /\ ~NoRelease.busy
        BY <2>1 DEF NoRelease
      <3>4. TypeOK'
        BY <3>1, <3>2, <3>3 DEF IInv, TypeOK
      <3>5. InProgress'
        BY <3>2, <3>3 DEF IInv, TypeOK, InProgress, Object
      <3> QED
        BY <3>4, <3>5 DEF IInv
    <2>3. CASE signal[o] # release[s].seen
      <3>1. release' = [release EXCEPT ![s].seen = signal[o]]
            /\ UNCHANGED <<signal, request, wait>>
        BY <1>9, <2>3 DEF KeReleaseSemaphore
      <3>2. TypeOK'
        <4>1. release[s] \in [busy : BOOLEAN, object : Objects, n : Nat, seen : Int]
          BY DEF IInv, TypeOK
        <4>2. ASSUME NEW v \in Int
              PROVE  [release[s] EXCEPT !.seen = v]
                        \in [busy : BOOLEAN, object : Objects, n : Nat, seen : Int]
          BY <4>1
        <4>3. release' = [release EXCEPT ![s] = [release[s] EXCEPT !.seen = signal[o]]]
          BY <3>1
        <4>4. release' \in [Signallers -> [busy : BOOLEAN, object : Objects, n : Nat, seen : Int]]
          BY <2>1, <4>2, <4>3 DEF IInv, TypeOK
        <4> QED
          BY <3>1, <4>4 DEF IInv, TypeOK
      <3>3. InProgress'
        BY <2>1, <3>1 DEF IInv, TypeOK, InProgress, Object
      <3> QED
        BY <3>2, <3>3 DEF IInv
    <2> QED
      BY <2>2, <2>3
  <1>10. CASE UNCHANGED vars
    BY <1>10 DEF vars, IInv, TypeOK, InProgress, Object
  <1> QED
    BY <1>1, <1>2, <1>3, <1>4, <1>5, <1>6, <1>7, <1>8, <1>9, <1>10 DEF Next, WaitSteps

LEMMA Invariance == Spec => []IInv
  <1>1. Init => IInv
    BY Initially, DispatcherAssumption
  <1>2. IInv /\ [Next]_vars => IInv'
    BY Inductive, DispatcherAssumption
  <1> QED
    BY <1>1, <1>2, PTL DEF Spec

(* No SignalState ever goes below zero or above its limit, and every waiter
   stands at an object of its request (kernel_emulation.cpp:8506-8533,
   6884-6924). *)
THEOREM TypeCorrect == Spec => []TypeOK
  BY Invariance, PTL DEF IInv

LEMMA StepsAreAtomic ==
    ASSUME DispatcherAssumption, IInv, [Next]_vars
    PROVE  [Abstract!Next]_signal
  <1> SUFFICES ASSUME signal' # signal PROVE Abstract!Next
    BY DEF vars
  <1>1. ASSUME NEW w \in Waiters, Exchange(w) PROVE Abstract!Next
    <2>1. /\ wait[w].pc = "exchange" /\ wait[w].seen > 0
          /\ wait[w].i \in DOMAIN request[w].objs
          /\ Kind[Object(w)] # "notification"
      BY <1>1 DEF Exchange, IInv, InProgress
    <2>2. Object(w) \in Objects
      BY <2>1, Asked DEF Object
    <2>3. signal[Object(w)] = wait[w].seen
          /\ signal' = [signal EXCEPT ![Object(w)] = wait[w].seen - 1]
      BY <1>1 DEF Exchange
    <2>4. Abstract!Consume(Object(w))
      BY <2>1, <2>3 DEF Abstract!Consume
    <2> QED
      BY <2>2, <2>4 DEF Abstract!Next
  <1>2. ASSUME NEW s \in Signallers, Signal(s) PROVE Abstract!Next
    BY <1>2 DEF Signal, KeSetEvent, KeResetEvent, KePulseEvent, Events,
               Abstract!Next, Abstract!Set, Abstract!Clear
  <1>3. ASSUME NEW s \in Signallers, KeReleaseSemaphore(s) PROVE Abstract!Next
    <2> DEFINE o == release[s].object
    <2>1. o \in Objects /\ Kind[o] = "semaphore" /\ release[s].n \in Adjustments
      BY <1>3 DEF KeReleaseSemaphore, IInv, InProgress, Semaphores, Events
    <2>2. signal[o] = release[s].seen
          /\ signal' = [signal EXCEPT ![o] = Capped(o, release[s].seen + release[s].n)]
      BY <1>3 DEF KeReleaseSemaphore
    <2>3. Abstract!Release(o, release[s].n)
      BY <2>1, <2>2 DEF Capped, Abstract!Release
    <2> QED
      BY <2>1, <2>3 DEF Abstract!Next
  <1> QED
    BY <1>1, <1>2, <1>3
    DEF Next, WaitSteps, Begin, Peek, Try, Poll, Return, BeginRelease, vars

(* The dispatcher objects implement atomic signals: however the polls, sets,
   resets and releases of any number of threads interleave, no signal is lost
   and none is consumed twice (kernel_emulation.cpp:8506-8533, 6884-6924). *)
THEOREM Refinement == Spec => ImplementsSignals
  <1>1. Init => Abstract!Init
    BY DEF Init, Abstract!Init
  <1>2. IInv /\ [Next]_vars => [Abstract!Next]_signal
    BY StepsAreAtomic, DispatcherAssumption
  <1> QED
    BY <1>1, <1>2, Invariance, PTL DEF Spec, ImplementsSignals, Abstract!Spec

-----------------------------------------------------------------------------
(* What a wait answers *)

(* A wait that has to poll again has consumed nothing, and one for any of its
   objects nothing until it succeeds. *)
Truthful(r, state) ==
    /\ state.pc # "done" => state.answer = "none"
    /\ state.pc \in {"idle", "peek", "poll"} => state.took = {}
    /\ ~r.all /\ state.pc # "done" => state.took = {}
    /\ state.answer = "success" /\ ~r.all =>
          state.took = {state.i} \cap {i \in DOMAIN r.objs : Kind[r.objs[i]] # "notification"}
    /\ state.answer \in {"timeout", "paced"} => state.took = {}

Answered == \A w \in Waiters : Truthful(request[w], wait[w])

LEMMA Answers ==
    ASSUME IInv, Answered, NEW w \in Waiters, NEW state \in States,
           Becomes(w, state), Truthful(request'[w], state),
           \A v \in Waiters \ {w} : request'[v] = request[v]
    PROVE  Answered'
  <1>1. /\ wait'[w] = state
        /\ \A v \in Waiters \ {w} : wait'[v] = wait[v]
    BY DEF IInv, TypeOK, Becomes
  <1> QED
    BY <1>1 DEF Answered, Truthful

(* Moving on keeps what was consumed; so does answering. *)
LEMMA Kept ==
    ASSUME IInv, NEW w \in Waiters, NEW pc \in {"peek", "take", "exchange", "poll"}, NEW i \in Nat,
           NEW answer \in {"success", "timeout", "paced"}
    PROVE  /\ Move(w, pc, i) \in States /\ Done(w, answer) \in States
           /\ Move(w, pc, i).pc = pc /\ Move(w, pc, i).took = wait[w].took
           /\ Move(w, pc, i).answer = wait[w].answer
           /\ Done(w, answer).pc = "done" /\ Done(w, answer).answer = answer
           /\ Done(w, answer).i = wait[w].i /\ Done(w, answer).took = wait[w].took
  <1>1. wait[w] \in States
    BY DEF IInv, TypeOK, States
  <1> QED
    BY <1>1 DEF Move, Done, States

(* A Hit with what it took, and a Miss, tell the truth. *)
LEMMA HitOrMiss ==
    ASSUME DispatcherAssumption, IInv, Answered, NEW w \in Waiters,
           wait[w].pc \in {"take", "exchange"}
    PROVE  /\ Kind[Object(w)] = "notification" => Truthful(request[w], Hit(w))
           /\ Kind[Object(w)] # "notification" =>
                 Truthful(request[w], [Hit(w) EXCEPT !.took = @ \cup {wait[w].i}])
           /\ [Hit(w) EXCEPT !.took = @ \cup {wait[w].i}] \in States
           /\ Truthful(request[w], Miss(w))
  <1>1. wait[w] \in States /\ wait[w].i \in DOMAIN request[w].objs /\ wait[w].i + 1 \in Nat
    <2>1. wait[w] \in States /\ wait[w].i \in DOMAIN request[w].objs
      BY DEF IInv, TypeOK, InProgress, States
    <2> QED
      BY <2>1, SMT DEF States
  <1>2. /\ wait[w].answer = "none"
        /\ ~request[w].all => wait[w].took = {}
    BY DEF Answered, Truthful
  <1>3. Truthful(request[w], Miss(w))
    <2>1. CASE ~Last(w)
      BY <1>1, <1>2, <2>1, Kept DEF Miss, Truthful
    <2>2. CASE Last(w) /\ request[w].all
      BY <1>2, <2>2, Kept DEF Miss, Truthful
    <2>3. CASE Last(w) /\ ~request[w].all
      BY <1>2, <2>3, Kept DEF Miss, Truthful
    <2> QED
      BY <2>1, <2>2, <2>3
  <1> DEFINE h == [Hit(w) EXCEPT !.took = @ \cup {wait[w].i}]
  <1>4. Hit(w) \in States
    BY Outcome
  <1>5. /\ h \in States /\ h.pc = Hit(w).pc /\ h.i = Hit(w).i /\ h.answer = Hit(w).answer
        /\ h.took = Hit(w).took \cup {wait[w].i}
    BY <1>1, <1>4 DEF States
  <1> HIDE DEF h
  <1>6. CASE request[w].all
    <2>1. Hit(w).pc \in {"take", "done"}
          /\ (Hit(w).pc # "done" => Hit(w).answer = "none")
          /\ Hit(w).answer \in {"none", "success"}
      BY <1>1, <1>2, <1>6, Kept DEF Hit
    <2>2. Truthful(request[w], Hit(w)) /\ Truthful(request[w], h)
      BY <1>5, <1>6, <2>1 DEF Truthful
    <2> QED
      BY <1>3, <1>5, <2>2 DEF h
  <1>7. CASE ~request[w].all
    <2>1. /\ Hit(w).pc = "done" /\ Hit(w).answer = "success"
          /\ Hit(w).i = wait[w].i /\ Hit(w).took = {}
      BY <1>2, <1>7, Kept DEF Hit
    <2>2. Kind[Object(w)] = "notification" => Truthful(request[w], Hit(w))
      BY <1>7, <2>1 DEF Truthful, Object
    <2>3. Kind[Object(w)] # "notification" => Truthful(request[w], h)
      BY <1>1, <1>5, <1>7, <2>1 DEF Truthful, Object
    <2> QED
      BY <1>3, <1>5, <2>2, <2>3 DEF h
  <1> QED
    BY <1>6, <1>7

LEMMA AnsweredInductive ==
    ASSUME DispatcherAssumption, IInv, Answered, [Next]_vars
    PROVE  Answered'
  <1>1. ASSUME NEW w \in Waiters, Begin(w) PROVE Answered'
    <2> DEFINE state == Started(request'[w])
    <2>1. PICK r \in Requests : request' = [request EXCEPT ![w] = r]
      BY <1>1 DEF Begin
    <2>2. \A v \in Waiters \ {w} : request'[v] = request[v]
      BY <2>1 DEF IInv, TypeOK
    <2>3. /\ state \in States /\ state.pc \in {"peek", "take"}
          /\ state.took = {} /\ state.answer = "none"
      BY DEF Started, FirstLook, States
    <2>4. Becomes(w, state)
      BY <1>1 DEF Begin
    <2> HIDE DEF state
    <2>5. Truthful(request'[w], state)
      BY <2>3 DEF Truthful
    <2> QED
      BY <2>2, <2>3, <2>4, <2>5, Answers
  <1>2. ASSUME NEW w \in Waiters, Peek(w) PROVE Answered'
    <2>1. wait[w].took = {} /\ wait[w].answer = "none"
      BY <1>2 DEF Peek, Answered, Truthful
    <2>2. PICK pc \in {"peek", "take", "poll"}, i \in Nat : Becomes(w, Move(w, pc, i))
      <3>1. wait[w].i + 1 \in Nat
        BY SMT DEF IInv, TypeOK
      <3> QED
        BY <1>2, <3>1 DEF Peek
    <2>3. Truthful(request[w], Move(w, pc, i)) /\ Move(w, pc, i) \in States
      BY <2>1, Kept DEF Truthful
    <2> QED
      BY <1>2, <2>2, <2>3, Answers DEF Peek
  <1>3. ASSUME NEW w \in Waiters, Try(w) PROVE Answered'
    <2> DEFINE x == [wait[w] EXCEPT !.pc = "exchange", !.seen = signal[Object(w)]]
    <2>1. wait[w].pc = "take" /\ UNCHANGED request
      BY <1>3 DEF Try
    <2>2. CASE Becomes(w, Miss(w))
      BY <2>1, <2>2, HitOrMiss, Outcome, Answers
    <2>3. CASE Becomes(w, Hit(w)) /\ Kind[Object(w)] = "notification"
      BY <2>1, <2>3, HitOrMiss, Outcome, Answers
    <2>4. CASE Becomes(w, x)
      <3>1. wait[w] \in States /\ signal[Object(w)] \in Int
        BY <2>1, Asked DEF Object, IInv, TypeOK, InProgress, States
      <3>2. /\ x \in States /\ x.pc = "exchange" /\ x.took = wait[w].took
            /\ x.answer = wait[w].answer
        BY <3>1 DEF States
      <3> HIDE DEF x
      <3>3. Truthful(request[w], x)
        BY <2>1, <3>2 DEF Answered, Truthful
      <3> QED
        BY <2>1, <2>4, <3>2, <3>3, Answers
    <2> QED
      BY <1>3, <2>2, <2>3, <2>4 DEF Try
  <1>4. ASSUME NEW w \in Waiters, Exchange(w) PROVE Answered'
    <2> DEFINE x == [wait[w] EXCEPT !.seen = signal[Object(w)]]
    <2>1. /\ wait[w].pc = "exchange" /\ Kind[Object(w)] # "notification"
          /\ UNCHANGED request
      BY <1>4 DEF Exchange, IInv, InProgress
    <2>2. CASE Becomes(w, Miss(w))
      BY <2>1, <2>2, HitOrMiss, Outcome, Answers
    <2>3. CASE Becomes(w, [Hit(w) EXCEPT !.took = @ \cup {wait[w].i}])
      BY <2>1, <2>3, HitOrMiss, Answers
    <2>4. CASE Becomes(w, x)
      <3>1. wait[w] \in States /\ signal[Object(w)] \in Int
        BY <2>1, Asked DEF Object, IInv, TypeOK, InProgress, States
      <3>2. /\ x \in States /\ x.pc = "exchange" /\ x.took = wait[w].took
            /\ x.answer = wait[w].answer
        BY <2>1, <3>1 DEF States
      <3> HIDE DEF x
      <3>3. Truthful(request[w], x)
        BY <2>1, <3>2 DEF Answered, Truthful
      <3> QED
        BY <2>1, <2>4, <3>2, <3>3, Answers
    <2> QED
      BY <1>4, <2>2, <2>3, <2>4 DEF Exchange
  <1>5. ASSUME NEW w \in Waiters, Poll(w) PROVE Answered'
    <2>1. wait[w].took = {} /\ wait[w].answer = "none" /\ UNCHANGED request
      BY <1>5 DEF Poll, Answered, Truthful
    <2>2. CASE Becomes(w, Done(w, "timeout")) \/ Becomes(w, Done(w, "paced"))
      <3>1. ASSUME NEW a \in {"timeout", "paced"}
            PROVE  Done(w, a) \in States /\ Truthful(request[w], Done(w, a))
        <4>1. 0 \in Nat /\ "poll" \in {"peek", "take", "exchange", "poll"}
              /\ a \in {"success", "timeout", "paced"}
          OBVIOUS
        <4> QED
          BY <2>1, <4>1, Kept DEF Truthful
      <3> QED
        BY <2>1, <2>2, <3>1, Answers
    <2>3. CASE Becomes(w, Move(w, FirstLook(request[w]), 1))
      <3>1. FirstLook(request[w]) \in {"peek", "take"} /\ 1 \in Nat
        BY DEF FirstLook
      <3>2. /\ Move(w, FirstLook(request[w]), 1) \in States
            /\ Truthful(request[w], Move(w, FirstLook(request[w]), 1))
        BY <2>1, <3>1, Kept DEF Truthful
      <3> QED
        BY <2>1, <2>3, <3>2, Answers
    <2> QED
      BY <1>5, <2>2, <2>3 DEF Poll
  <1>6. ASSUME NEW w \in Waiters, Return(w) PROVE Answered'
    <2>1. /\ NoWait \in States /\ NoWait.pc = "idle" /\ NoWait.took = {}
          /\ NoWait.answer = "none"
      BY DEF NoWait, States
    <2>2. Truthful(request[w], NoWait) /\ Becomes(w, NoWait) /\ UNCHANGED request
      BY <1>6, <2>1 DEF Truthful, Return
    <2> QED
      BY <2>1, <2>2, Answers
  <1>7. CASE UNCHANGED <<request, wait>>
    BY <1>7 DEF Answered, Truthful
  <1> QED
    BY <1>1, <1>2, <1>3, <1>4, <1>5, <1>6, <1>7
    DEF Next, WaitSteps, Signal, BeginRelease, KeReleaseSemaphore, vars

(* What a wait has consumed is what it answers, for any number of threads and
   objects: a WaitAny that succeeds took exactly one signal, that of the index
   it returns, unless that is a notification event; one that times out took
   none (8437-8452, 8479-8483, 8714-8739). *)
THEOREM Answering == Spec => []TookAsAnswered
  <1>1. Init => Answered
    <2> SUFFICES ASSUME Init, NEW w \in Waiters PROVE Truthful(request[w], wait[w])
      BY DEF Answered
    <2>1. wait[w] = NoWait
      BY DEF Init
    <2>2. wait[w].pc = "idle" /\ wait[w].took = {} /\ wait[w].answer = "none"
      BY <2>1 DEF NoWait
    <2> QED
      BY <2>2 DEF Truthful
  <1>2. IInv /\ Answered /\ [Next]_vars => Answered'
    BY AnsweredInductive, DispatcherAssumption
  <1>3. Answered => TookAsAnswered
    BY DEF Answered, Truthful, TookAsAnswered, Consuming
  <1> QED
    BY <1>1, <1>2, <1>3, Invariance, PTL DEF Spec

-----------------------------------------------------------------------------
(* Timers *)

(* A call names a timer, and so does an expiry under way. *)
Named ==
    /\ \A c \in Clients : client[c].pc # "idle" => client[c].timer \in Timers
    /\ expirer.pc \in {"check", "signal", "clear", "repeat", "reschedule", "deliver"} =>
          expirer.timer \in Timers

TimerInv == OneSlotPerTimer /\ Named

(* As many slots as timers: 64 in the code. *)
Roomy == IsFiniteSet(Timers) /\ Cardinality(Timers) <= Slots

-----------------------------------------------------------------------------
(* The table *)

LEMMA LowestIsOne ==
    ASSUME TimerAssumption, NEW S \in SUBSET SlotIds, S # {}
    PROVE  Lowest(S) \in S
  <1>1. S \subseteq Nat
    BY SMT DEF SlotIds, TimerAssumption
  <1>2. PICK x \in S : \A y \in S : ~(<<y, x>> \in OpToRel(<, Nat))
    BY <1>1, NatLessThanWellFounded, WFMin, Zenon
  <1>3. \A y \in S : ~(y < x)
    BY <1>1, <1>2 DEF OpToRel
  <1>4. \A y \in S : x <= y
    BY <1>1, <1>3, SMT
  <1> QED
    BY <1>4 DEF Lowest

(* EmuScheduleTimerDpc puts the timer into its own slot or, if it has none, into
   a free one, and touches no other. *)
LEMMA Scheduled ==
    ASSUME TimerAssumption, OneSlotPerTimer, NEW m \in Timers, NEW due \in Nat,
           EmuScheduleTimerDpc(m, due)
    PROVE  /\ slots' \in [SlotIds -> [timer : Timers \cup {NoTimer}, due : Nat]]
           /\ \A i, j \in SlotIds :
                 slots'[i].timer = slots'[j].timer /\ slots'[i].timer # NoTimer => i = j
           /\ \A i \in SlotIds : slots'[i].timer = slots[i].timer
                                 \/ (slots'[i].timer = m /\ slots[i].timer = NoTimer)
           /\ Holding(m) \cup Holding(NoTimer) # {} => \E i \in SlotIds : slots'[i].timer = m
  <1> DEFINE candidates == IF Holding(m) # {} THEN Holding(m) ELSE Holding(NoTimer)
             i0 == Lowest(candidates)
  <1>1. slots \in [SlotIds -> [timer : Timers \cup {NoTimer}, due : Nat]] /\ m # NoTimer
    BY DEF OneSlotPerTimer, TimerTypeOK, TimerAssumption
  <1>2. CASE candidates = {}
    <2>1. Holding(m) \cup Holding(NoTimer) = {} /\ slots' = slots
      BY <1>2 DEF EmuScheduleTimerDpc
    <2>2. \A i, j \in SlotIds :
             slots'[i].timer = slots'[j].timer /\ slots'[i].timer # NoTimer => i = j
      BY <2>1 DEF OneSlotPerTimer
    <2> HIDE DEF candidates
    <2> QED
      BY <1>1, <2>1, <2>2
  <1>3. CASE candidates # {}
    <2>1. candidates \in SUBSET SlotIds
      BY DEF Holding
    <2>2. i0 \in candidates
      BY <1>3, <2>1, LowestIsOne
    <2>3. slots' = [slots EXCEPT ![i0] = [timer |-> m, due |-> due]]
      BY <1>3 DEF EmuScheduleTimerDpc
    <2>4. /\ i0 \in SlotIds
          /\ \/ slots[i0].timer = m
             \/ slots[i0].timer = NoTimer /\ \A i \in SlotIds : slots[i].timer # m
      BY <2>2 DEF Holding
    <2> HIDE DEF i0, candidates
    <2>5. /\ slots'[i0] = [timer |-> m, due |-> due]
          /\ \A i \in SlotIds \ {i0} : slots'[i] = slots[i]
      BY <1>1, <2>3, <2>4
    <2>6. slots' \in [SlotIds -> [timer : Timers \cup {NoTimer}, due : Nat]]
      BY <1>1, <2>3
    <2>7. /\ slots'[i0].timer = m
          /\ \A i \in SlotIds \ {i0} : slots'[i].timer = slots[i].timer
      BY <2>5
    <2>8. \A i \in SlotIds \ {i0} : slots[i].timer # m
      BY <2>4 DEF OneSlotPerTimer
    <2>9. ASSUME NEW i \in SlotIds, NEW j \in SlotIds,
                 slots'[i].timer = slots'[j].timer, slots'[i].timer # NoTimer
          PROVE  i = j
      <3>1. CASE i = i0 \/ j = i0
        BY <2>7, <2>8, <2>9, <3>1
      <3>2. CASE i # i0 /\ j # i0
        BY <2>7, <2>9, <3>2 DEF OneSlotPerTimer
      <3> QED
        BY <3>1, <3>2
    <2>10. \A i, j \in SlotIds :
              slots'[i].timer = slots'[j].timer /\ slots'[i].timer # NoTimer => i = j
      BY <2>9
    <2>11. \A i \in SlotIds : slots'[i].timer = slots[i].timer
                              \/ (slots'[i].timer = m /\ slots[i].timer = NoTimer)
      BY <2>4, <2>7
    <2> QED
      BY <2>4, <2>6, <2>7, <2>10, <2>11
  <1> QED
    BY <1>2, <1>3

(* With a slot for every timer, a timer that has none finds a free one. *)
LEMMA Room ==
    ASSUME TimerAssumption, Roomy, OneSlotPerTimer, NEW m \in Timers
    PROVE  Holding(m) \cup Holding(NoTimer) # {}
  <1> SUFFICES ASSUME \A i \in SlotIds : slots[i].timer # m /\ slots[i].timer # NoTimer
               PROVE  FALSE
    BY DEF Holding
  <1> DEFINE f == [i \in SlotIds |-> slots[i].timer]
             T == Timers \ {m}
  <1>1. f \in [SlotIds -> T]
    BY DEF OneSlotPerTimer, TimerTypeOK
  <1>2. IsFiniteSet(T) /\ Cardinality(T) = Cardinality(Timers) - 1 /\ Cardinality(Timers) \in Nat
    BY FS_RemoveElement, FS_CardinalityType DEF Roomy
  <1>3. Slots \in Nat \ {0}
    BY DEF TimerAssumption
  <1>4. IsFiniteSet(SlotIds) /\ Cardinality(SlotIds) = Slots
    BY <1>3, FS_Interval, SMT DEF SlotIds
  <1>5. Cardinality(T) < Cardinality(SlotIds)
    BY <1>2, <1>3, <1>4, SMT DEF Roomy
  <1> HIDE DEF T, f
  <1>6. PICK i, j \in SlotIds : i # j /\ f[i] = f[j]
    BY <1>1, <1>2, <1>4, <1>5, FS_PigeonHole
  <1> QED
    BY <1>6 DEF f, OneSlotPerTimer

-----------------------------------------------------------------------------
LEMMA TimerInitially == TimerAssumption /\ TimerInit => TimerInv /\ ArmedIsPending
  <1> SUFFICES ASSUME TimerAssumption, TimerInit PROVE TimerInv /\ ArmedIsPending
    OBVIOUS
  <1>1. TimerTypeOK
    BY DEF TimerInit, TimerTypeOK, FreeSlot, Idle
  <1>2. \A i \in SlotIds : slots[i].timer = NoTimer
    BY DEF TimerInit, FreeSlot
  <1> QED
    BY <1>1, <1>2 DEF TimerInit, TimerInv, OneSlotPerTimer, Named, Idle, ArmedIsPending

LEMMA TimerInductive ==
    ASSUME TimerAssumption, TimerInv, [TimerNext]_timerVars
    PROVE  TimerInv'
  <1>0. TimerTypeOK
    BY DEF TimerInv, OneSlotPerTimer
  <1>1. ASSUME NEW c \in Clients, ClientCalls(c) PROVE TimerInv'
    <2>1. PICK m \in Timers :
             \/ KeCancelTimer(c, m) \/ KeInitializeTimerEx(c, m)
             \/ \E due \in DueTimes : KeSetTimer(c, m, due, 0, FALSE)
             \/ \E due \in DueTimes, p \in Periods : KeSetTimer(c, m, due, p, TRUE)
      BY <1>1 DEF ClientCalls
    <2>2. PICK due \in Nat, p \in Nat, ex \in BOOLEAN :
             KeCancelTimer(c, m) \/ KeInitializeTimerEx(c, m) \/ KeSetTimer(c, m, due, p, ex)
      <3>1. DueTimes \subseteq Nat /\ Periods \subseteq Nat /\ 0 \in Nat /\ FALSE \in BOOLEAN
        BY DEF TimerAssumption
      <3> QED
        BY <2>1, <3>1, Zenon
    <2>3. /\ UNCHANGED <<slots, period>>
          /\ inserted' \in [Timers -> BOOLEAN] /\ timerSignal' \in [Timers -> BOOLEAN]
          /\ expirer' \in {expirer, [expirer EXCEPT !.overtaken = TRUE]}
      BY <1>0, <2>2 DEF KeCancelTimer, KeInitializeTimerEx, KeSetTimer, Overtake, TimerTypeOK
    <2>4. /\ client' \in [Clients -> [pc : {"idle", "arm", "schedule", "period", "unsignal"},
                                      timer : Timers \cup {NoTimer},
                                      due : Nat, period : Nat, ex : BOOLEAN]]
          /\ client'[c].timer = m
          /\ \A b \in Clients \ {c} : client'[b] = client[b]
      <3>1. CASE KeCancelTimer(c, m)
        BY <1>0, <3>1 DEF KeCancelTimer, Idle, TimerTypeOK
      <3>2. CASE KeInitializeTimerEx(c, m)
        BY <1>0, <3>2 DEF KeInitializeTimerEx, Idle, TimerTypeOK
      <3>3. CASE KeSetTimer(c, m, due, p, ex)
        BY <1>0, <3>3 DEF KeSetTimer, TimerTypeOK
      <3> QED
        BY <2>2, <3>1, <3>2, <3>3
    <2>5. TimerTypeOK'
      BY <1>0, <2>3, <2>4 DEF TimerTypeOK
    <2>6. OneSlotPerTimer'
      BY <2>3, <2>5 DEF TimerInv, OneSlotPerTimer
    <2>7. Named'
      BY <1>0, <2>3, <2>4 DEF TimerInv, Named, TimerTypeOK
    <2> QED
      BY <2>6, <2>7 DEF TimerInv
  <1>2. ASSUME NEW c \in Clients, Arm(c) \/ StorePeriod(c) \/ Unsignal(c) PROVE TimerInv'
    <2>1. client[c].timer \in Timers /\ UNCHANGED slots
      BY <1>2 DEF Arm, StorePeriod, Unsignal, TimerInv, Named
    <2>2. TimerTypeOK'
      <3>1. CASE Arm(c)
        BY <1>0, <2>1, <3>1 DEF Arm, Step, Overtake, TimerTypeOK
      <3>2. CASE StorePeriod(c)
        BY <1>0, <2>1, <3>2 DEF StorePeriod, Idle, TimerTypeOK
      <3>3. CASE Unsignal(c)
        BY <1>0, <2>1, <3>3 DEF Unsignal, Idle, TimerTypeOK
      <3> QED
        BY <1>2, <3>1, <3>2, <3>3
    <2>3. Named'
      <3>1. CASE Arm(c)
        BY <1>0, <2>1, <3>1 DEF Arm, Step, Overtake, TimerTypeOK, TimerInv, Named
      <3>2. CASE StorePeriod(c)
        BY <1>0, <2>1, <3>2 DEF StorePeriod, Idle, TimerTypeOK, TimerInv, Named
      <3>3. CASE Unsignal(c)
        BY <1>0, <2>1, <3>3 DEF Unsignal, Idle, TimerTypeOK, TimerInv, Named
      <3> QED
        BY <1>2, <3>1, <3>2, <3>3
    <2> QED
      BY <2>1, <2>2, <2>3 DEF TimerInv, OneSlotPerTimer
  <1>3. ASSUME NEW c \in Clients, Schedule(c) PROVE TimerInv'
    <2>1. client[c].timer \in Timers /\ client[c].due \in Nat
      BY <1>0, <1>3 DEF Schedule, TimerInv, Named, TimerTypeOK
    <2>2. /\ slots' \in [SlotIds -> [timer : Timers \cup {NoTimer}, due : Nat]]
          /\ \A i, j \in SlotIds :
                slots'[i].timer = slots'[j].timer /\ slots'[i].timer # NoTimer => i = j
      BY <1>3, <2>1, Scheduled DEF Schedule, TimerInv
    <2>3. TimerTypeOK'
      BY <1>0, <1>3, <2>2 DEF Schedule, Idle, TimerTypeOK
    <2>4. Named'
      BY <1>0, <1>3, <2>1 DEF Schedule, Idle, TimerTypeOK, TimerInv, Named
    <2> QED
      BY <2>2, <2>3, <2>4 DEF TimerInv, OneSlotPerTimer
  <1>4. CASE Sleep
    <2>1. /\ slots' \in [SlotIds -> [timer : Timers \cup {NoTimer}, due : Nat]]
          /\ \A i \in SlotIds : slots'[i].timer = slots[i].timer
      <3>1. PICK lateness \in 1..MaxLate :
               slots' = [i \in SlotIds |-> [slots[i] EXCEPT !.due = IF @ > lateness THEN @ - lateness ELSE 0]]
        BY <1>4 DEF Sleep
      <3>2. lateness \in Nat
        BY SMT DEF TimerAssumption
      <3>3. \A i \in SlotIds : slots[i] \in [timer : Timers \cup {NoTimer}, due : Nat]
        BY <1>0 DEF TimerTypeOK
      <3>4. \A i \in SlotIds : (IF slots[i].due > lateness THEN slots[i].due - lateness ELSE 0) \in Nat
        BY <3>2, <3>3, SMT
      <3> HIDE DEF TimerInv
      <3> QED
        BY <3>1, <3>3, <3>4
    <2>2. /\ UNCHANGED <<inserted, timerSignal, period, client>>
          /\ expirer' = [expirer EXCEPT !.pc = "scan"]
      BY <1>4 DEF Sleep, ExpirerAt
    <2>3. TimerTypeOK' /\ Named'
      BY <1>0, <2>1, <2>2 DEF TimerTypeOK, TimerInv, Named
    <2> QED
      BY <2>1, <2>3 DEF TimerInv, OneSlotPerTimer
  <1>5. CASE Scan
    <2>1. UNCHANGED <<inserted, timerSignal, period, client>>
      BY <1>5 DEF Scan
    <2>2. CASE DueSlots = {}
      BY <1>0, <1>5, <2>1, <2>2 DEF Scan, TimerInv, OneSlotPerTimer, TimerTypeOK, Named
    <2>3. CASE DueSlots # {}
      <3> DEFINE i0 == Lowest(DueSlots)
      <3>1. i0 \in DueSlots
        BY <2>3, LowestIsOne DEF DueSlots
      <3>2. /\ expirer' = [pc |-> "check", timer |-> slots[i0].timer, overtaken |-> FALSE]
            /\ slots' = [slots EXCEPT ![i0] = FreeSlot]
        BY <1>5, <2>3 DEF Scan
      <3>3. i0 \in SlotIds /\ slots[i0].timer \in Timers
        BY <1>0, <3>1 DEF DueSlots, TimerTypeOK
      <3> HIDE DEF i0
      <3>4. TimerTypeOK' /\ Named'
        BY <1>0, <2>1, <3>2, <3>3 DEF TimerTypeOK, TimerInv, Named, FreeSlot
      <3>5. /\ slots'[i0].timer = NoTimer
            /\ \A i \in SlotIds \ {i0} : slots'[i] = slots[i]
        BY <1>0, <3>2, <3>3 DEF TimerTypeOK, FreeSlot
      <3> QED
        BY <3>4, <3>5 DEF TimerInv, OneSlotPerTimer
    <2> QED
      BY <2>2, <2>3
  <1>6. CASE Check \/ SignalTimer \/ Clear \/ Repeat \/ Deliver \/ RoutineReturns
    <2>1. /\ UNCHANGED <<slots, period, client>>
          /\ inserted' \in [Timers -> BOOLEAN] /\ timerSignal' \in [Timers -> BOOLEAN]
      BY <1>0, <1>6 DEF Check, SignalTimer, Clear, Repeat, Deliver, RoutineReturns, ExpirerAt, TimerTypeOK
    <2>2. \/ /\ expirer.timer \in Timers
             /\ \E pc \in {"signal", "clear", "repeat", "reschedule", "deliver"} :
                   expirer' = [expirer EXCEPT !.pc = pc]
          \/ expirer' \in {Sleeping, [Sleeping EXCEPT !.pc = "routine"]}
      BY <1>6 DEF Check, SignalTimer, Clear, Repeat, Deliver, RoutineReturns, ExpirerAt, TimerInv, Named
    <2>3. TimerTypeOK'
      <3>1. expirer' \in [pc : {"sleep", "scan", "check", "signal", "clear", "repeat",
                               "reschedule", "deliver", "routine"},
                         timer : Timers \cup {NoTimer}, overtaken : BOOLEAN]
        <4>1. CASE expirer' \in {Sleeping, [Sleeping EXCEPT !.pc = "routine"]}
          <5>1. PICK pc \in {"sleep", "routine"} :
                   expirer' = [pc |-> pc, timer |-> NoTimer, overtaken |-> FALSE]
            BY <4>1 DEF Sleeping
          <5> QED
            BY <5>1
        <4>2. ASSUME NEW pc \in {"signal", "clear", "repeat", "reschedule", "deliver"},
                     expirer' = [expirer EXCEPT !.pc = pc]
              PROVE  expirer' \in [pc : {"sleep", "scan", "check", "signal", "clear", "repeat",
                                        "reschedule", "deliver", "routine"},
                                   timer : Timers \cup {NoTimer}, overtaken : BOOLEAN]
          BY <1>0, <4>2 DEF TimerTypeOK
        <4> QED
          BY <2>2, <4>1, <4>2
      <3> QED
        BY <1>0, <2>1, <3>1 DEF TimerTypeOK
    <2>4. Named'
      BY <1>0, <2>1, <2>2 DEF TimerTypeOK, TimerInv, Named, Sleeping
    <2> QED
      BY <2>1, <2>3, <2>4 DEF TimerInv, OneSlotPerTimer
  <1>7. CASE Reschedule
    <2>1. /\ UNCHANGED <<inserted, timerSignal, period, client>> /\ expirer.timer \in Timers
          /\ expirer' = [expirer EXCEPT !.pc = "deliver"]
          /\ EmuScheduleTimerDpc(expirer.timer, period[expirer.timer])
      BY <1>7 DEF Reschedule, ExpirerAt, TimerInv, Named
    <2>2. period[expirer.timer] \in Nat
      BY <1>0, <2>1 DEF TimerTypeOK
    <2>3. /\ slots' \in [SlotIds -> [timer : Timers \cup {NoTimer}, due : Nat]]
          /\ \A i, j \in SlotIds :
                slots'[i].timer = slots'[j].timer /\ slots'[i].timer # NoTimer => i = j
      BY <2>1, <2>2, Scheduled DEF TimerInv
    <2>4. TimerTypeOK' /\ Named'
      BY <1>0, <2>1, <2>3 DEF TimerTypeOK, TimerInv, Named
    <2> QED
      BY <2>3, <2>4 DEF TimerInv, OneSlotPerTimer
  <1>8. CASE UNCHANGED timerVars
    BY <1>8 DEF timerVars, TimerInv, OneSlotPerTimer, TimerTypeOK, Named
  <1> QED
    BY <1>1, <1>2, <1>3, <1>4, <1>5, <1>6, <1>7, <1>8 DEF TimerNext, ExpirerSteps, ClientSteps

LEMMA TimerInvariance == TimerAssumption => (TimerSpec => []TimerInv)
  <1> SUFFICES ASSUME TimerAssumption PROVE TimerSpec => []TimerInv
    OBVIOUS
  <1>1. TimerInit => TimerInv
    BY TimerInitially
  <1>2. TimerInv /\ [TimerNext]_timerVars => TimerInv'
    BY TimerInductive
  <1> QED
    BY <1>1, <1>2, PTL DEF TimerSpec

(* A timer is pending at most once, however often and from wherever it is set:
   EmuScheduleTimerDpc looks for the timer before it takes a free slot
   (5862-5891). *)
THEOREM OneSlot == TimerSpec => []OneSlotPerTimer
  <1>1. TimerInv => OneSlotPerTimer
    BY DEF TimerInv
  <1> QED
    BY <1>1, TimerInvariance, TimerAssumption, PTL

-----------------------------------------------------------------------------
(* Nothing forgotten *)

(* What a step must leave to m, if m says it is inserted. *)
NotForgotten(m) == Holding(m) # {} \/ InHand(m)

(* A step that keeps the timers of the slots, and takes no call away from
   "schedule" nor the expirer from an expiry in hand. *)
LEMMA KeptAsItIs ==
    ASSUME NEW m \in Timers, NotForgotten(m),
           \A i \in SlotIds : slots'[i].timer = slots[i].timer,
           \A c \in Clients : client[c].pc = "schedule" =>
               client'[c].pc = "schedule" /\ client'[c].timer = client[c].timer,
           expirer.pc \in {"check", "signal", "clear", "reschedule"} /\ expirer.timer = m =>
               expirer'.pc \in {"check", "signal", "clear", "reschedule"} /\ expirer'.timer = m
    PROVE  NotForgotten(m)'
  BY DEF NotForgotten, InHand, Holding

(* A timer put into the table is there, and the others stay. *)
LEMMA KeptScheduling ==
    ASSUME TimerAssumption, Roomy, TimerInv, NEW m \in Timers, NEW n \in Timers, NEW due \in Nat,
           EmuScheduleTimerDpc(n, due)
    PROVE  /\ (Holding(n) # {})'
           /\ Holding(m) # {} => (Holding(m) # {})'
  <1>1. /\ \A i \in SlotIds : \/ slots'[i].timer = slots[i].timer
                              \/ (slots'[i].timer = n /\ slots[i].timer = NoTimer)
        /\ \E i \in SlotIds : slots'[i].timer = n
    BY Scheduled, Room DEF TimerInv
  <1> QED
    BY <1>1 DEF Holding, TimerAssumption

LEMMA Forgetless ==
    ASSUME TimerAssumption, Roomy, TimerInv, ArmedIsPending, [TimerNext]_timerVars
    PROVE  ArmedIsPending'
  <1>0. /\ TimerTypeOK /\ Named
        /\ \A m \in Timers : inserted[m] => NotForgotten(m)
    BY DEF TimerInv, OneSlotPerTimer, ArmedIsPending, NotForgotten
  <1> SUFFICES ASSUME NEW m \in Timers, inserted'[m] PROVE NotForgotten(m)'
    BY DEF ArmedIsPending, NotForgotten
  <1>1. ASSUME NEW c \in Clients, ClientCalls(c) PROVE NotForgotten(m)'
    <2>1. PICK n \in Timers :
             \/ KeCancelTimer(c, n) \/ KeInitializeTimerEx(c, n)
             \/ \E due, p, ex : KeSetTimer(c, n, due, p, ex)
      BY <1>1, Zenon DEF ClientCalls
    <2>2. inserted[m]
      BY <1>0, <2>1 DEF KeCancelTimer, KeInitializeTimerEx, KeSetTimer, TimerTypeOK
    <2>3. /\ UNCHANGED slots /\ client[c].pc = "idle"
          /\ \A b \in Clients \ {c} : client'[b] = client[b]
      BY <1>0, <2>1 DEF KeCancelTimer, KeInitializeTimerEx, KeSetTimer, MayCall, TimerTypeOK
    <2>4. expirer'.pc = expirer.pc /\ expirer'.timer = expirer.timer
      BY <1>0, <2>1 DEF KeCancelTimer, KeInitializeTimerEx, KeSetTimer, Overtake, TimerTypeOK
    <2> QED
      BY <1>0, <2>2, <2>3, <2>4, KeptAsItIs
  <1>2. ASSUME NEW c \in Clients, Arm(c) PROVE NotForgotten(m)'
    <2>1. /\ client'[c].pc = "schedule" /\ client'[c].timer = client[c].timer
          /\ client[c].pc = "arm" /\ UNCHANGED slots
          /\ \A b \in Clients \ {c} : client'[b] = client[b]
      BY <1>0, <1>2 DEF Arm, Step, TimerTypeOK
    <2>2. CASE client[c].timer = m
      BY <2>1, <2>2 DEF NotForgotten, InHand
    <2>3. CASE client[c].timer # m
      <3>1. inserted[m]
        BY <1>0, <1>2, <2>3 DEF Arm, TimerTypeOK
      <3>2. expirer'.pc = expirer.pc /\ expirer'.timer = expirer.timer
        BY <1>0, <1>2 DEF Arm, Overtake, TimerTypeOK
      <3> QED
        BY <1>0, <2>1, <3>1, <3>2, KeptAsItIs
    <2> QED
      BY <2>2, <2>3
  <1>3. ASSUME NEW c \in Clients, Schedule(c) PROVE NotForgotten(m)'
    <2>1. /\ client[c].timer \in Timers /\ client[c].due \in Nat
          /\ EmuScheduleTimerDpc(client[c].timer, client[c].due)
          /\ UNCHANGED <<inserted, expirer>>
          /\ \A b \in Clients \ {c} : client'[b] = client[b]
      BY <1>0, <1>3 DEF Schedule, Named, TimerTypeOK
    <2> DEFINE n == client[c].timer
    <2>2. PICK k \in Timers : k = n
      BY <2>1
    <2>3. EmuScheduleTimerDpc(k, client[c].due)
      BY <2>1, <2>2
    <2>4. /\ (Holding(k) # {})'
          /\ Holding(m) # {} => (Holding(m) # {})'
      BY <2>1, <2>3, KeptScheduling
    <2>5. CASE k = m
      BY <2>4, <2>5 DEF NotForgotten
    <2>6. CASE k # m
      <3>1. Holding(m) # {} \/ InHand(m)
        BY <1>0, <2>1 DEF NotForgotten
      <3>2. InHand(m) => InHand(m)'
        BY <2>1, <2>2, <2>6 DEF InHand
      <3> QED
        BY <2>4, <3>1, <3>2 DEF NotForgotten
    <2> QED
      BY <2>5, <2>6
  <1>4. ASSUME NEW c \in Clients, StorePeriod(c) \/ Unsignal(c) PROVE NotForgotten(m)'
    <2>1. /\ UNCHANGED <<slots, inserted, expirer>>
          /\ client[c].pc # "schedule"
          /\ \A b \in Clients \ {c} : client'[b] = client[b]
      BY <1>0, <1>4 DEF StorePeriod, Unsignal, TimerTypeOK
    <2> QED
      BY <1>0, <2>1, KeptAsItIs
  <1>5. CASE Sleep
    <2>1. /\ UNCHANGED <<inserted, client>>
          /\ expirer.pc = "sleep"
      BY <1>5 DEF Sleep, ExpirerAt
    <2>2. \A i \in SlotIds : slots'[i].timer = slots[i].timer
      BY <1>0, <1>5 DEF Sleep, TimerTypeOK
    <2> QED
      BY <1>0, <2>1, <2>2, KeptAsItIs
  <1>6. CASE Scan
    <2>1. UNCHANGED <<inserted, client>> /\ expirer.pc = "scan"
      BY <1>6 DEF Scan
    <2>2. CASE DueSlots = {}
      <3>1. UNCHANGED slots
        BY <1>6, <2>2 DEF Scan
      <3> QED
        BY <1>0, <2>1, <3>1, KeptAsItIs
    <2>3. CASE DueSlots # {}
      <3> DEFINE i0 == Lowest(DueSlots)
      <3>1. i0 \in DueSlots
        BY <2>3, LowestIsOne DEF DueSlots
      <3>2. /\ expirer' = [pc |-> "check", timer |-> slots[i0].timer, overtaken |-> FALSE]
            /\ slots' = [slots EXCEPT ![i0] = FreeSlot]
        BY <1>6, <2>3 DEF Scan
      <3> HIDE DEF i0
      <3>3. \A i \in SlotIds \ {i0} : slots'[i] = slots[i]
        BY <1>0, <3>2 DEF TimerTypeOK
      <3>4. CASE slots[i0].timer = m
        BY <3>2, <3>4 DEF NotForgotten, InHand
      <3>5. CASE slots[i0].timer # m
        <4>1. Holding(m) # {} => (Holding(m) # {})'
          BY <3>3, <3>5 DEF Holding
        <4>2. InHand(m) => InHand(m)'
          BY <2>1 DEF InHand
        <4> QED
          BY <1>0, <2>1, <4>1, <4>2 DEF NotForgotten
      <3> QED
        BY <3>4, <3>5
    <2> QED
      BY <2>2, <2>3
  <1>7. CASE Check
    <2>1. UNCHANGED <<slots, inserted, client>> /\ expirer.pc = "check"
      BY <1>7 DEF Check
    <2>2. expirer.timer = m => expirer' = [expirer EXCEPT !.pc = "signal"]
      BY <1>7, <2>1 DEF Check
    <2>3. expirer.timer = m => expirer'.pc = "signal" /\ expirer'.timer = m
      BY <1>0, <2>2 DEF TimerTypeOK
    <2> QED
      BY <1>0, <2>1, <2>3, KeptAsItIs
  <1>8. CASE SignalTimer
    <2>1. UNCHANGED <<slots, inserted, client>>
      BY <1>8 DEF SignalTimer
    <2>2. expirer'.pc = "clear" /\ expirer'.timer = expirer.timer
      BY <1>0, <1>8 DEF SignalTimer, ExpirerAt, TimerTypeOK
    <2> QED
      BY <1>0, <2>1, <2>2, KeptAsItIs
  <1>9. CASE Clear
    <2>1. /\ UNCHANGED <<slots, client>> /\ expirer.pc = "clear"
          /\ inserted' = [inserted EXCEPT ![expirer.timer] = FALSE]
      BY <1>9 DEF Clear, ExpirerAt
    <2>2. expirer.timer # m /\ inserted[m]
      BY <1>0, <2>1 DEF TimerTypeOK
    <2> QED
      BY <1>0, <2>1, <2>2, KeptAsItIs
  <1>10. CASE Repeat
    <2>1. UNCHANGED <<slots, client>> /\ expirer.pc = "repeat"
      BY <1>10 DEF Repeat
    <2>2. CASE inserted[m]
      BY <1>0, <2>1, <2>2, KeptAsItIs
    <2>3. CASE ~inserted[m]
      <3>1. expirer' = [expirer EXCEPT !.pc = "reschedule"] /\ expirer.timer = m
        BY <1>0, <1>10, <2>3 DEF Repeat, ExpirerAt, TimerTypeOK
      <3>2. expirer'.pc = "reschedule" /\ expirer'.timer = m
        BY <1>0, <3>1 DEF TimerTypeOK
      <3> QED
        BY <3>2 DEF NotForgotten, InHand
    <2> QED
      BY <2>2, <2>3
  <1>11. CASE Reschedule
    <2>1. /\ UNCHANGED <<inserted, client>> /\ expirer.pc = "reschedule"
          /\ EmuScheduleTimerDpc(expirer.timer, period[expirer.timer])
      BY <1>11 DEF Reschedule, ExpirerAt
    <2>2. PICK k \in Timers : k = expirer.timer
      BY <1>0, <2>1 DEF Named
    <2>3. period[k] \in Nat /\ EmuScheduleTimerDpc(k, period[k])
      BY <1>0, <2>1, <2>2 DEF TimerTypeOK
    <2>4. /\ (Holding(k) # {})'
          /\ Holding(m) # {} => (Holding(m) # {})'
      BY <2>3, KeptScheduling
    <2>5. CASE k = m
      BY <2>4, <2>5 DEF NotForgotten
    <2>6. CASE k # m
      <3>1. InHand(m) => InHand(m)'
        BY <2>1, <2>2, <2>6 DEF InHand
      <3> QED
        BY <1>0, <2>1, <2>4, <3>1 DEF NotForgotten
    <2> QED
      BY <2>5, <2>6
  <1>12. CASE Deliver \/ RoutineReturns
    <2>1. UNCHANGED <<slots, inserted, client>> /\ expirer.pc \in {"deliver", "routine"}
      BY <1>12 DEF Deliver, RoutineReturns
    <2> QED
      BY <1>0, <2>1, KeptAsItIs
  <1>13. CASE UNCHANGED timerVars
    BY <1>0, <1>13, KeptAsItIs DEF timerVars
  <1> QED
    BY <1>1, <1>2, <1>3, <1>4, <1>5, <1>6, <1>7, <1>8, <1>9, <1>10, <1>11, <1>12, <1>13
    DEF TimerNext, ExpirerSteps, ClientSteps

(* With a slot for every timer, a timer that says it is inserted is really
   pending, or a thread is about to enter or to expire it: none is armed and
   forgotten (5819, "re-fire each DPC once its due time arrives"; the table
   that may be full is at 5872). *)
THEOREM ArmedStaysPending ==
    ASSUME Roomy
    PROVE  TimerSpec => []ArmedIsPending
  <1>1. TimerInit => ArmedIsPending
    BY TimerInitially, TimerAssumption
  <1>2. TimerInv /\ ArmedIsPending /\ [TimerNext]_timerVars => ArmedIsPending'
    BY Forgetless, TimerAssumption
  <1>3. TimerSpec => []TimerInv
    BY TimerInvariance, TimerAssumption
  <1> QED
    BY <1>1, <1>2, <1>3, PTL DEF TimerSpec
=============================================================================
