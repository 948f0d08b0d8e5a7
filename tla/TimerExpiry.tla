----------------------------- MODULE TimerExpiry -----------------------------
(***************************************************************************)
(* Kernel timers of src/src/cxbx/src/hle/kernel/kernel_emulation.cpp: guest *)
(* threads arm and cancel KTIMERs with plain stores to the timer header;   *)
(* a host thread, EmuTimerDpcThread, scans a fixed table of pending timers *)
(* every 10 ms, takes at most one that is due and expires it.  Only the    *)
(* table is under a lock.                                                  *)
(*                                                                         *)
(* Time is counted in passes of that thread; a slot's due time is the      *)
(* number of passes still to go.                                           *)
(***************************************************************************)
EXTENDS Integers

CONSTANTS
    Timers,       \* the KTIMER objects
    NoTimer,      \* the NULL timer of a free slot
    Guests,       \* guest threads calling KeSetTimer, KeSetTimerEx, KeCancelTimer
    Expirer,      \* EmuTimerDpcThread, a client too while it runs a DPC routine
    Slots,        \* bound: entries of g_EmuPendingTimerDpcs (64 in the code)
    DueTimes,     \* bound: due times passed to KeSetTimer, in passes
    Periods,      \* bound: periods passed to KeSetTimerEx, in passes (0: none)
    MaxLate       \* bound: passes' worth of time one Sleep(10) may take

ASSUME TimerAssumption ==
    /\ NoTimer \notin Timers
    /\ Expirer \notin Guests
    /\ Slots \in Nat \ {0}
    /\ DueTimes \subseteq Nat
    /\ Periods \subseteq Nat
    /\ MaxLate \in Nat \ {0}

VARIABLES
    slots,        \* g_EmuPendingTimerDpcs: per slot its Timer and its DueTime
    inserted,     \* Header.Inserted of each timer
    timerSignal,  \* Header.SignalState of each timer
    period,       \* Period of each timer
    client,       \* what each calling thread is doing to which timer
    expirer       \* where EmuTimerDpcThread stands and the timer it took;
                  \* overtaken: a client re-armed or cancelled it meanwhile

timerVars == <<slots, inserted, timerSignal, period, client, expirer>>

Clients == Guests \cup {Expirer}
SlotIds == 1..Slots
Idle == [pc |-> "idle", timer |-> NoTimer, due |-> 0, period |-> 0, ex |-> FALSE]

FreeSlot == [timer |-> NoTimer, due |-> 0]

TimerInit ==
    /\ slots = [i \in SlotIds |-> FreeSlot]
    /\ inserted = [m \in Timers |-> FALSE]
    /\ timerSignal = [m \in Timers |-> FALSE]
    /\ period = [m \in Timers |-> 0]
    /\ client = [c \in Clients |-> Idle]
    /\ expirer = [pc |-> "sleep", timer |-> NoTimer, overtaken |-> FALSE]

-----------------------------------------------------------------------------
(* EmuScheduleTimerDpc, all of it under the table lock: the slot that already
   holds the timer, else the first free one, else nothing is remembered. *)
Holding(m) == {i \in SlotIds : slots[i].timer = m}

Lowest(S) == CHOOSE i \in S : \A j \in S : i <= j

FirstFreeSlotWins(m, due) ==
    LET candidates == IF Holding(NoTimer) # {} THEN Holding(NoTimer) ELSE Holding(m)
    IN  slots' = IF candidates = {} THEN slots
                 ELSE [slots EXCEPT ![Lowest(candidates)] = [timer |-> m, due |-> due]]

EmuScheduleTimerDpc(m, due) ==
    LET candidates == IF Holding(m) # {} THEN Holding(m) ELSE Holding(NoTimer)
    IN  slots' = IF candidates = {} THEN slots
                 ELSE [slots EXCEPT ![Lowest(candidates)] = [timer |-> m, due |-> due]]

-----------------------------------------------------------------------------
(* The calls of guest threads, and of a DPC routine on the expirer's thread. *)

MayCall(c) == client[c].pc = "idle" /\ (c = Expirer => expirer.pc = "routine")

(* A store to the header of a timer the expirer has taken but not finished. *)
Overtake(m) ==
    expirer' = IF expirer.timer = m THEN [expirer EXCEPT !.overtaken = TRUE] ELSE expirer

Step(c, to) == client' = [client EXCEPT ![c].pc = to]

(* KeSetTimer and KeSetTimerEx up to Header.SignalState = 0. *)
KeSetTimer(c, m, due, p, ex) ==
    /\ MayCall(c)
    /\ client' = [client EXCEPT ![c] =
                    [pc |-> "arm", timer |-> m, due |-> due, period |-> p, ex |-> ex]]
    /\ timerSignal' = [timerSignal EXCEPT ![m] = FALSE]
    /\ UNCHANGED <<slots, inserted, period, expirer>>

(* Header.Inserted = 1 *)
Arm(c) ==
    /\ client[c].pc = "arm"
    /\ inserted' = [inserted EXCEPT ![client[c].timer] = TRUE]
    /\ Overtake(client[c].timer)
    /\ Step(c, "schedule")
    /\ UNCHANGED <<slots, timerSignal, period>>

Schedule(c) ==
    /\ client[c].pc = "schedule"
    /\ EmuScheduleTimerDpc(client[c].timer, client[c].due)
    /\ client' = [client EXCEPT ![c] = IF @.ex THEN [@ EXCEPT !.pc = "period"] ELSE Idle]
    /\ UNCHANGED <<inserted, timerSignal, period, expirer>>

(* KeSetTimerEx stores Period after KeSetTimer has returned, KeInitializeTimerEx
   a period of zero. *)
StorePeriod(c) ==
    /\ client[c].pc = "period"
    /\ period' = [period EXCEPT ![client[c].timer] = client[c].period]
    /\ client' = [client EXCEPT ![c] = Idle]
    /\ UNCHANGED <<slots, inserted, timerSignal, expirer>>

(* KeCancelTimer: the slot of the timer, if any, stays in the table. *)
KeCancelTimer(c, m) ==
    /\ MayCall(c)
    /\ inserted' = [inserted EXCEPT ![m] = FALSE]
    /\ Overtake(m)
    /\ client' = [client EXCEPT ![c] = [Idle EXCEPT !.pc = "unsignal", !.timer = m]]
    /\ UNCHANGED <<slots, timerSignal, period>>

(* KeInitializeTimerEx on a timer already in use: its slot stays too. *)
KeInitializeTimerEx(c, m) ==
    /\ MayCall(c)
    /\ inserted' = [inserted EXCEPT ![m] = FALSE]
    /\ Overtake(m)
    /\ client' = [client EXCEPT ![c] = [Idle EXCEPT !.pc = "unsignal", !.timer = m, !.ex = TRUE]]
    /\ UNCHANGED <<slots, timerSignal, period>>

(* Header.SignalState = 0; KeInitializeTimerEx goes on to Period = 0. *)
Unsignal(c) ==
    /\ client[c].pc = "unsignal"
    /\ timerSignal' = [timerSignal EXCEPT ![client[c].timer] = FALSE]
    /\ client' = [client EXCEPT ![c] = IF @.ex THEN [@ EXCEPT !.pc = "period"] ELSE Idle]
    /\ UNCHANGED <<slots, inserted, period, expirer>>

ClientCalls(c) ==
    \E m \in Timers :
        \/ KeCancelTimer(c, m)
        \/ KeInitializeTimerEx(c, m)
        \/ \E due \in DueTimes : KeSetTimer(c, m, due, 0, FALSE)
        \/ \E due \in DueTimes, p \in Periods : KeSetTimer(c, m, due, p, TRUE)

ClientSteps(c) == Arm(c) \/ Schedule(c) \/ StorePeriod(c) \/ Unsignal(c)

-----------------------------------------------------------------------------
(* EmuTimerDpcThread *)

ExpirerAt(from, to) == expirer.pc = from /\ expirer' = [expirer EXCEPT !.pc = to]

(* Sleep(10), or a little longer. *)
Sleep ==
    /\ ExpirerAt("sleep", "scan")
    /\ \E late \in 1..MaxLate :
          slots' = [i \in SlotIds |-> [slots[i] EXCEPT !.due = IF @ > late THEN @ - late ELSE 0]]
    /\ UNCHANGED <<inserted, timerSignal, period, client>>

DueSlots == {i \in SlotIds : slots[i].timer # NoTimer /\ slots[i].due = 0}

(* One due slot per pass, the lowest, is freed and its timer taken. *)
Scan ==
    /\ expirer.pc = "scan"
    /\ \/ /\ DueSlots = {}
          /\ expirer' = [expirer EXCEPT !.pc = "sleep"]
          /\ UNCHANGED slots
       \/ /\ DueSlots # {}
          /\ LET i == Lowest(DueSlots)
             IN /\ expirer' = [pc |-> "check", timer |-> slots[i].timer, overtaken |-> FALSE]
                /\ slots' = [slots EXCEPT ![i] = FreeSlot]
    /\ UNCHANGED <<inserted, timerSignal, period, client>>

Sleeping == [pc |-> "sleep", timer |-> NoTimer, overtaken |-> FALSE]

(* Header.Inserted == 0: "cancelled or re-set since scheduling". *)
Check ==
    /\ expirer.pc = "check"
    /\ expirer' = IF inserted[expirer.timer]
                  THEN [expirer EXCEPT !.pc = "signal"] ELSE Sleeping
    /\ UNCHANGED <<slots, inserted, timerSignal, period, client>>

SignalTimer ==
    /\ ExpirerAt("signal", "clear")
    /\ timerSignal' = [timerSignal EXCEPT ![expirer.timer] = TRUE]
    /\ UNCHANGED <<slots, inserted, period, client>>

ClearForgotten ==
    /\ ExpirerAt("clear", "repeat")
    /\ UNCHANGED <<slots, inserted, timerSignal, period, client>>

Clear ==
    /\ ExpirerAt("clear", "repeat")
    /\ inserted' = [inserted EXCEPT ![expirer.timer] = FALSE]
    /\ UNCHANGED <<slots, timerSignal, period, client>>

(* A periodic timer re-arms itself. *)
Repeat ==
    /\ expirer.pc = "repeat"
    /\ \/ /\ period[expirer.timer] # 0
          /\ ExpirerAt("repeat", "reschedule")
          /\ inserted' = [inserted EXCEPT ![expirer.timer] = TRUE]
       \/ /\ period[expirer.timer] = 0
          /\ ExpirerAt("repeat", "deliver")
          /\ UNCHANGED inserted
    /\ UNCHANGED <<slots, timerSignal, period, client>>

RescheduleAtOnce ==
    /\ ExpirerAt("reschedule", "deliver")
    /\ EmuScheduleTimerDpc(expirer.timer, 0)
    /\ UNCHANGED <<inserted, timerSignal, period, client>>

Reschedule ==
    /\ ExpirerAt("reschedule", "deliver")
    /\ EmuScheduleTimerDpc(expirer.timer, period[expirer.timer])
    /\ UNCHANGED <<inserted, timerSignal, period, client>>

(* EmuKeInsertQueueDpc when the timer has a DPC; its routine runs on this
   thread and may call the timer functions itself. *)
Deliver ==
    /\ expirer.pc = "deliver"
    /\ expirer' \in {Sleeping, [Sleeping EXCEPT !.pc = "routine"]}
    /\ UNCHANGED <<slots, inserted, timerSignal, period, client>>

RoutineReturns ==
    /\ expirer.pc = "routine"
    /\ client[Expirer].pc = "idle"
    /\ expirer' = Sleeping
    /\ UNCHANGED <<slots, inserted, timerSignal, period, client>>

ExpirerSteps ==
    \/ Sleep \/ Scan \/ Check \/ SignalTimer \/ Clear \/ Repeat \/ Reschedule
    \/ Deliver \/ RoutineReturns

TimerNext == ExpirerSteps \/ \E c \in Clients : ClientCalls(c) \/ ClientSteps(c)

TimerSpec == TimerInit /\ [][TimerNext]_timerVars

(* The expirer's loop never stops, a DPC routine returns, and a thread inside
   a timer function leaves it. *)
TimerFairSpec ==
    /\ TimerSpec
    /\ WF_timerVars(ExpirerSteps)
    /\ \A c \in Clients : WF_timerVars(ClientSteps(c))
    /\ SF_timerVars(RoutineReturns)

-----------------------------------------------------------------------------
TimerTypeOK ==
    /\ slots \in [SlotIds -> [timer : Timers \cup {NoTimer}, due : Nat]]
    /\ inserted \in [Timers -> BOOLEAN]
    /\ timerSignal \in [Timers -> BOOLEAN]
    /\ period \in [Timers -> Nat]
    /\ client \in [Clients -> [pc : {"idle", "arm", "schedule", "period", "unsignal"},
                               timer : Timers \cup {NoTimer},
                               due : Nat, period : Nat, ex : BOOLEAN]]
    /\ expirer \in [pc : {"sleep", "scan", "check", "signal", "clear", "repeat",
                          "reschedule", "deliver", "routine"},
                    timer : Timers \cup {NoTimer}, overtaken : BOOLEAN]

(* Everything has its type, and a timer is pending at most once, however often
   and from wherever it is set (5862-5891): one expiry can never be followed by
   a second for the same arming. *)
OneSlotPerTimer ==
    /\ TimerTypeOK
    /\ \A i, j \in SlotIds :
          slots[i].timer = slots[j].timer /\ slots[i].timer # NoTimer => i = j

(* Some thread is between marking m inserted and entering it in the table, or
   between taking it out of the table and marking it expired. *)
InHand(m) ==
    \/ \E c \in Clients : client[c].pc = "schedule" /\ client[c].timer = m
    \/ expirer.timer = m /\ expirer.pc \in {"check", "signal", "clear", "reschedule"}

(* A timer that says it is inserted is really pending: it is in the table or a
   thread is about to put it there or to expire it.  Otherwise whoever waits
   on it waits for ever (5819: "Track pending timers and re-fire each DPC once
   its due time arrives"). *)
ArmedIsPending ==
    \A m \in Timers : inserted[m] => Holding(m) # {} \/ InHand(m)

Quiet == \A c \in Clients : client[c] = Idle

(* A timer that is armed and pending while nobody calls the timer functions
   any more is expired, whatever the other timers do: none stays armed for
   ever (5819, "re-fire each DPC once its due time arrives"). *)
PendingExpires ==
    \A m \in Timers :
        []<>(~Quiet \/ ~inserted[m] \/ Holding(m) = {} \/ expirer.timer = m)

(* The expiry of a timer belongs to its current arming: one that was cancelled
   or re-set since its slot was scheduled is left alone (5928-5932). *)
NoStaleExpiry == [][SignalTimer => ~expirer.overtaken]_timerVars
=============================================================================
