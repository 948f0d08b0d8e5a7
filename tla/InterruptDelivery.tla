------------------------- MODULE InterruptDelivery -------------------------
(***************************************************************************)
(* Interrupts of src/src/cxbx/src/hle/kernel/kernel_emulation.cpp: guest    *)
(* threads initialise, connect and disconnect interrupt objects, and host   *)
(* threads stand in for the devices and call the connected service          *)
(* routines, which raise and lower their IRQL and queue DPCs like any guest *)
(* code.  Extends DpcQueue, whose steps every thread takes; a device thread *)
(* takes them while it is inside a service routine.  The list of interrupts *)
(* and the objects are read and stored without a lock, one access a step.   *)
(***************************************************************************)
EXTENDS DpcQueue

CONSTANTS
    Configurers,  \* the guest threads that connect and disconnect interrupts
    Devices,      \* the threads that deliver interrupts
    Serves,       \* the bus levels each of them visits, in order
    Interrupts,   \* the KINTERRUPT objects
    NoInterrupt,  \* the NULL one
    LevelOf,      \* BusInterruptLevel of each
    MaxCalls      \* bound: kernel calls of a service routine and its DPCs, besides lowering

Levels == UNION {{Serves[d][n] : n \in DOMAIN Serves[d]} : d \in Devices}

ASSUME InterruptAssumption ==
    /\ Configurers \subseteq Threads \ Devices
    /\ Devices \subseteq Threads
    /\ \A d \in Devices : Serves[d] \in Seq(Nat) /\ Serves[d] # <<>>
    /\ LevelOf \in [Interrupts -> Levels]
    /\ NoInterrupt \notin Interrupts
    /\ MaxCalls \in Nat

VARIABLES
    listed,       \* g_EmuInterruptList
    connected,    \* Connected of each interrupt
    started,      \* g_Emu...ThreadStarted of each device thread
    config,       \* where KeConnectInterrupt or KeDisconnectInterrupt stands
    visit,        \* where a device thread stands: n is its index in Serves
    made,         \* kernel calls made in the service routine under way
    late          \* calls each device thread has made of an interrupt that
                  \* was not connected, since it last was

interrupts == <<listed, connected, started, config, visit, made, late>>
intVars == <<dpcVars, interrupts>>

NoConfig == [pc |-> "none", interrupt |-> NoInterrupt]
Asleep == [pc |-> "asleep", n |-> 1, interrupt |-> NoInterrupt]

IntInit ==
    /\ DpcInit
    /\ listed = [l \in Levels |-> NoInterrupt]
    /\ connected = [i \in Interrupts |-> FALSE]
    /\ started = [d \in Devices |-> FALSE]
    /\ config = [t \in Configurers |-> NoConfig]
    /\ visit = [d \in Devices |-> Asleep]
    /\ made = [d \in Devices |-> 0]
    /\ late = [d \in Devices |-> [i \in Interrupts |-> 0]]

-----------------------------------------------------------------------------
(* The guest's calls *)

(* The guest configures its interrupts outside of DPCs and at PASSIVE_LEVEL. *)
AtRest(t) == call[t] = NoCall /\ config[t] = NoConfig /\ ~Active(t) /\ ~raised[t]

Configuring(t, from, to) ==
    /\ config[t].pc = from
    /\ config' = [config EXCEPT ![t] = IF to = "none" THEN NoConfig ELSE [@ EXCEPT !.pc = to]]

(* KeInitializeInterrupt: nothing is listed or taken off the list. *)
KeInitializeInterrupt(t, i) ==
    /\ AtRest(t)
    /\ connected' = [connected EXCEPT ![i] = FALSE]
    /\ UNCHANGED <<dpcVars, listed, started, config, visit, made, late>>

(* KeConnectInterrupt of an object that is not connected, ... *)
KeConnectInterrupt(t, i) ==
    /\ AtRest(t)
    /\ ~connected[i]
    /\ config' = [config EXCEPT ![t] = [pc |-> "slot", interrupt |-> i]]
    /\ UNCHANGED <<dpcVars, listed, connected, started, visit, made, late>>

ClaimAnySlot(t) ==
    /\ Configuring(t, "slot", "mark")
    /\ UNCHANGED <<dpcVars, listed, connected, started, visit, made, late>>

(* ... whose level is free or its own: else it answers FALSE, ... *)
ClaimSlot(t) ==
    /\ LET i == config[t].interrupt
       IN Configuring(t, "slot", IF listed[LevelOf[i]] \in {i, NoInterrupt} THEN "mark" ELSE "none")
    /\ UNCHANGED <<dpcVars, listed, connected, started, visit, made, late>>

MarkConnected(t) ==
    /\ Configuring(t, "mark", "list")
    /\ connected' = [connected EXCEPT ![config[t].interrupt] = TRUE]
    /\ late' = [d \in Devices |-> [late[d] EXCEPT ![config[t].interrupt] = 0]]
    /\ UNCHANGED <<dpcVars, listed, started, visit, made>>

List(t) ==
    /\ Configuring(t, "list", "start")
    /\ listed' = [listed EXCEPT ![LevelOf[config[t].interrupt]] = config[t].interrupt]
    /\ UNCHANGED <<dpcVars, connected, started, visit, made, late>>

(* ... and the thread of its device, unless it runs already. *)
StartDevice(t) ==
    /\ Configuring(t, "start", "none")
    /\ LET level == LevelOf[config[t].interrupt]
       IN started' = [d \in Devices |-> started[d] \/ \E n \in DOMAIN Serves[d] : Serves[d][n] = level]
    /\ UNCHANGED <<dpcVars, listed, connected, visit, made, late>>

(* KeDisconnectInterrupt does not wait for a routine that runs. *)
KeDisconnectInterrupt(t, i) ==
    /\ AtRest(t)
    /\ connected[i]
    /\ config' = [config EXCEPT ![t] = [pc |-> "unmark", interrupt |-> i]]
    /\ UNCHANGED <<dpcVars, listed, connected, started, visit, made, late>>

MarkDisconnected(t) ==
    /\ Configuring(t, "unmark", "check")
    /\ connected' = [connected EXCEPT ![config[t].interrupt] = FALSE]
    /\ UNCHANGED <<dpcVars, listed, started, visit, made, late>>

CheckSlot(t) ==
    /\ LET i == config[t].interrupt
       IN Configuring(t, "check", IF listed[LevelOf[i]] = i THEN "unlist" ELSE "none")
    /\ UNCHANGED <<dpcVars, listed, connected, started, visit, made, late>>

Unlist(t) ==
    /\ Configuring(t, "unlist", "none")
    /\ listed' = [listed EXCEPT ![LevelOf[config[t].interrupt]] = NoInterrupt]
    /\ UNCHANGED <<dpcVars, connected, started, visit, made, late>>

ConfigSteps(t) ==
    \/ ClaimSlot(t) \/ MarkConnected(t) \/ List(t) \/ StartDevice(t)
    \/ MarkDisconnected(t) \/ CheckSlot(t) \/ Unlist(t)

ConfigCalls(t) ==
    \E i \in Interrupts :
        KeInitializeInterrupt(t, i) \/ KeConnectInterrupt(t, i) \/ KeDisconnectInterrupt(t, i)

-----------------------------------------------------------------------------
(* The device threads *)

Visiting(d, from, to) ==
    /\ visit[d].pc = from
    /\ visit' = [visit EXCEPT ![d].pc = to]

(* The next level of this pass, or Sleep. *)
Onwards(d) ==
    visit' = [visit EXCEPT ![d] =
                 IF @.n < Len(Serves[d])
                 THEN [pc |-> "fetch", n |-> @.n + 1, interrupt |-> NoInterrupt]
                 ELSE Asleep]

(* A pass in which the device has nothing to report changes nothing. *)
Wake(d) ==
    /\ started[d]
    /\ Visiting(d, "asleep", "fetch")
    /\ UNCHANGED <<dpcVars, listed, connected, started, config, made, late>>

FetchInterrupt(d) ==
    /\ visit[d].pc = "fetch"
    /\ LET i == listed[Serves[d][visit[d].n]]
       IN IF i = NoInterrupt THEN Onwards(d)
          ELSE visit' = [visit EXCEPT ![d].pc = "test", ![d].interrupt = i]
    /\ UNCHANGED <<dpcVars, listed, connected, started, config, made, late>>

TestListed(d) ==
    /\ Visiting(d, "test", "enter")
    /\ UNCHANGED <<dpcVars, listed, connected, started, config, made, late>>

TestConnected(d) ==
    /\ visit[d].pc = "test"
    /\ IF connected[visit[d].interrupt] THEN Visiting(d, "test", "enter") ELSE Onwards(d)
    /\ UNCHANGED <<dpcVars, listed, connected, started, config, made, late>>

(* Interrupt->ServiceRoutine(Interrupt, ...) *)
Service(d) ==
    /\ Visiting(d, "enter", "routine")
    /\ late' = [late EXCEPT ![d][visit[d].interrupt] =
                    IF connected[visit[d].interrupt] THEN @ ELSE @ + 1]
    /\ UNCHANGED <<dpcVars, listed, connected, started, config, made>>

(* The routine returns with its IRQL lowered and its DPCs run. *)
ServiceReturns(d) ==
    /\ visit[d].pc = "routine"
    /\ call[d] = NoCall /\ ~raised[d] /\ ~Active(d)
    /\ Onwards(d)
    /\ made' = [made EXCEPT ![d] = 0]
    /\ UNCHANGED <<dpcVars, listed, connected, started, config, late>>

DeviceSteps(d) ==
    \/ Wake(d) \/ FetchInterrupt(d) \/ TestConnected(d) \/ Service(d) \/ ServiceReturns(d)

-----------------------------------------------------------------------------
(* What a thread may do of DpcQueue: a guest thread between its calls here, a
   device thread inside a service routine. *)
RunsGuestCode(t) ==
    IF t \in Devices THEN visit[t].pc = "routine"
    ELSE t \in Configurers => config[t] = NoConfig

Begins(t) == (\E d \in Dpcs : BeginInsert(t, d) \/ BeginRemove(t, d)) \/ RaiseIrql(t)

(* A service routine, with the DPCs run inside it, makes few calls and returns. *)
WithinBound(t) ==
    IF t \in Devices /\ Begins(t)
    THEN made[t] < MaxCalls /\ made' = [made EXCEPT ![t] = @ + 1]
    ELSE UNCHANGED made

GuestCode(t) ==
    /\ RunsGuestCode(t)
    /\ ThreadStep(t)
    /\ WithinBound(t)
    /\ UNCHANGED <<listed, connected, started, config, visit, late>>

IntNext ==
    \/ \E t \in Threads : GuestCode(t)
    \/ \E t \in Configurers : ConfigCalls(t) \/ ConfigSteps(t)
    \/ \E d \in Devices : DeviceSteps(d)

IntSpec == IntInit /\ [][IntNext]_intVars

(* A thread inside a kernel call runs on, a raised IRQL is lowered in the end,
   and a routine returns; a device thread never stops, and a fault in the guest
   code it runs is swallowed. *)
IntFairSpec ==
    /\ IntSpec
    /\ \A t \in Threads :
          /\ WF_intVars(GuestCode(t) /\ CallSteps(t))
          /\ SF_intVars(GuestCode(t) /\ LowerIrql(t))
          /\ SF_intVars(GuestCode(t) /\ ReturnFromRoutine(t))
    /\ \A t \in Configurers : WF_intVars(ConfigSteps(t))
    /\ \A d \in Devices :
          /\ WF_intVars(GuestCode(d) /\ Swallow(d))
          /\ WF_intVars(Wake(d) \/ FetchInterrupt(d) \/ TestConnected(d) \/ Service(d))
          /\ WF_intVars(ServiceReturns(d))

-----------------------------------------------------------------------------
(* Everything has its type, and once an interrupt is disconnected or initialised
   anew, a device thread calls its routine at most once more before it is
   connected again, though the thread may have looked it up long before
   (5653-5670, 6457-6463). *)
OneLateCall ==
    /\ listed \in [Levels -> Interrupts \cup {NoInterrupt}]
    /\ connected \in [Interrupts -> BOOLEAN]
    /\ started \in [Devices -> BOOLEAN]
    /\ config \in [Configurers -> [pc : {"none", "slot", "mark", "list", "start", "unmark", "check", "unlist"},
                                   interrupt : Interrupts \cup {NoInterrupt}]]
    /\ visit \in [Devices -> [pc : {"asleep", "fetch", "test", "enter", "routine"}, n : Nat \ {0},
                              interrupt : Interrupts \cup {NoInterrupt}]]
    /\ late \in [Devices -> [Interrupts -> {0, 1}]]

(* An interrupt that KeConnectInterrupt connects and nothing disconnects is served
   again and again, whatever was connected, initialised anew or refused before
   it (6401-6407, 5651-5670). *)
Served(i) == \E d \in Devices : visit[d].pc = "routine" /\ visit[d].interrupt = i

ConnectedIsServed == \A i \in Interrupts : <>[]connected[i] => []<>Served(i)

(* "our synthesized ISR delivery already defers while a guest holds a raised IRQL"
   (8303). *)
ServiceDefers ==
    [][\A d \in Devices : Service(d) => \A t \in Threads : ~raised[t]]_intVars
=============================================================================
