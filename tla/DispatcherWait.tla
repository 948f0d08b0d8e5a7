--------------------------- MODULE DispatcherWait ---------------------------
(***************************************************************************)
(* Dispatcher objects and waits of                                         *)
(* src/src/cxbx/src/hle/kernel/kernel_emulation.cpp.  There is no wait     *)
(* list: a waiter polls the SignalState of its objects every millisecond   *)
(* and consumes what it finds with compare-and-exchange, while other       *)
(* threads set, reset, pulse and release.  A step is one Interlocked        *)
(* operation or one plain access to a SignalState.                          *)
(***************************************************************************)
EXTENDS Integers, Sequences

CONSTANTS
    Waiters,        \* guest threads inside KeWaitForSingleObject or MultipleObjects
    Signallers,     \* threads that signal and reset
    Objects,        \* the dispatcher objects
    Kind,           \* "notification", "synchronization" or "semaphore" of each
    Limit,          \* Limit of each semaphore; 1 for the others
    Adjustments,    \* Adjustments passed to KeReleaseSemaphore
    Requests        \* waits asked for: [all, objs, timed, native]

ASSUME DispatcherAssumption ==
    /\ Kind \in [Objects -> {"notification", "synchronization", "semaphore"}]
    /\ Limit \in [Objects -> Nat \ {0}]
    /\ \A o \in Objects : Kind[o] # "semaphore" => Limit[o] = 1
    /\ Objects # {} /\ Adjustments \subseteq Nat \ {0}
    /\ \A r \in Requests : r.objs \in Seq(Objects) /\ r.objs # <<>>

VARIABLES
    signal,      \* Header.SignalState of each object
    request,     \* what each waiter asked for
    wait,        \* where it stands: pc, the index i it is at, the State it has
                 \* seen, the indexes it took a signal from, its answer
    release      \* KeReleaseSemaphore in progress: the semaphore, Adjustment, State

vars == <<signal, request, wait, release>>

Events == {o \in Objects : Kind[o] # "semaphore"}
Semaphores == Objects \ Events

NoWait == [pc |-> "idle", i |-> 0, seen |-> 0, took |-> {}, answer |-> "none"]
NoRelease == [busy |-> FALSE, object |-> CHOOSE o \in Objects : TRUE, n |-> 0, seen |-> 0]

Init ==
    /\ signal = [o \in Objects |-> 0]
    /\ request \in [Waiters -> Requests]
    /\ wait = [w \in Waiters |-> NoWait]
    /\ release = [s \in Signallers |-> NoRelease]

-----------------------------------------------------------------------------
(* EmuKeWaitForMultipleObjects; with one object, EmuKeWaitForSingleObject. *)

Object(w) == request[w].objs[wait[w].i]
Last(w) == wait[w].i = Len(request[w].objs)

Move(w, pc, i) == [wait[w] EXCEPT !.pc = pc, !.i = i]
Done(w, answer) == [wait[w] EXCEPT !.pc = "done", !.answer = answer]
Becomes(w, state) == wait' = [wait EXCEPT ![w] = state]

FirstLook(r) == IF r.all THEN "peek" ELSE "take"
Started(r) == [pc |-> FirstLook(r), i |-> 1, seen |-> 0, took |-> {}, answer |-> "none"]

Begin(w) ==
    /\ wait[w].pc = "idle"
    /\ request' \in {[request EXCEPT ![w] = r] : r \in Requests}
    /\ Becomes(w, Started(request'[w]))
    /\ UNCHANGED <<signal, release>>

(* WaitAll looks at every object before it consumes any. *)
Peek(w) ==
    /\ wait[w].pc = "peek"
    /\ Becomes(w, IF signal[Object(w)] <= 0 THEN Move(w, "poll", 0)
                  ELSE IF Last(w) THEN Move(w, "take", 1)
                  ELSE Move(w, "peek", wait[w].i + 1))
    /\ UNCHANGED <<signal, request, release>>

(* What EmuTrySatisfyDispatcherWait answered.  WaitAny returns the index that
   succeeded; WaitAll goes on to its next object whatever the answer. *)
Hit(w) == IF request[w].all
          THEN IF Last(w) THEN Done(w, "success") ELSE Move(w, "take", wait[w].i + 1)
          ELSE Done(w, "success")

Miss(w) == IF ~Last(w) THEN Move(w, "take", wait[w].i + 1)
           ELSE IF request[w].all THEN Done(w, "success")
           ELSE Move(w, "poll", 0)

(* EmuTrySatisfyDispatcherWait: the first load, *)
Try(w) ==
    /\ wait[w].pc = "take"
    /\ LET State == signal[Object(w)]
       IN  Becomes(w, IF State <= 0 THEN Miss(w)
                      ELSE IF Kind[Object(w)] = "notification" THEN Hit(w)
                      ELSE [wait[w] EXCEPT !.pc = "exchange", !.seen = State])
    /\ UNCHANGED <<signal, request, release>>

ExchangeStale(w) ==
    /\ wait[w].pc = "exchange"
    /\ LET o == Object(w)
       IN  /\ signal' = [signal EXCEPT ![o] = wait[w].seen - 1]
           /\ Becomes(w, [Hit(w) EXCEPT !.took = @ \cup {wait[w].i}])
    /\ UNCHANGED <<request, release>>

ExchangeOnce(w) ==
    /\ wait[w].pc = "exchange"
    /\ LET o == Object(w)
       IN \/ /\ signal[o] = wait[w].seen
             /\ signal' = [signal EXCEPT ![o] = wait[w].seen - 1]
             /\ Becomes(w, [Hit(w) EXCEPT !.took = @ \cup {wait[w].i}])
          \/ /\ signal[o] # wait[w].seen
             /\ Becomes(w, Hit(w))
             /\ UNCHANGED signal
    /\ UNCHANGED <<request, release>>

(* then the compare-and-exchange, repeated with what it found. *)
Exchange(w) ==
    /\ wait[w].pc = "exchange"
    /\ LET o == Object(w)
       IN \/ /\ signal[o] = wait[w].seen
             /\ signal' = [signal EXCEPT ![o] = wait[w].seen - 1]
             /\ Becomes(w, [Hit(w) EXCEPT !.took = @ \cup {wait[w].i}])
          \/ /\ signal[o] # wait[w].seen
             /\ Becomes(w, IF signal[o] > 0 THEN [wait[w] EXCEPT !.seen = signal[o]] ELSE Miss(w))
             /\ UNCHANGED signal
    /\ UNCHANGED <<request, release>>

PollOnce(w) ==
    /\ wait[w].pc = "poll"
    /\ Becomes(w, IF request[w].timed THEN Done(w, "timeout") ELSE wait[w])
    /\ UNCHANGED <<signal, request, release>>

(* Nothing yet: the time-out, the paced answer to a native D3D vblank wait, or
   SleepEx and another pass. *)
Poll(w) ==
    /\ wait[w].pc = "poll"
    /\ \/ request[w].timed /\ Becomes(w, Done(w, "timeout"))
       \/ request[w].native /\ Becomes(w, Done(w, "paced"))
       \/ Becomes(w, Move(w, FirstLook(request[w]), 1))
    /\ UNCHANGED <<signal, request, release>>

Return(w) ==
    /\ wait[w].pc = "done"
    /\ Becomes(w, NoWait)
    /\ UNCHANGED <<signal, request, release>>

-----------------------------------------------------------------------------
(* The signalling side. *)

KeSetEvent(o) == signal' = [signal EXCEPT ![o] = 1]

(* KePulseEvent exchanges 0 into SignalState too: no waiter sees the pulse. *)
KeResetEvent(o) == signal' = [signal EXCEPT ![o] = 0]
KePulseEvent(o) == signal' = [signal EXCEPT ![o] = 0]

Signal(s) ==
    /\ ~release[s].busy
    /\ \E o \in Events : KeSetEvent(o) \/ KeResetEvent(o) \/ KePulseEvent(o)
    /\ UNCHANGED <<request, wait, release>>

(* EmuKeReleaseSemaphore: the load, *)
BeginRelease(s) ==
    /\ ~release[s].busy
    /\ \E o \in Semaphores, n \in Adjustments :
          release' = [release EXCEPT ![s] =
                        [busy |-> TRUE, object |-> o, n |-> n, seen |-> signal[o]]]
    /\ UNCHANGED <<signal, request, wait>>

Capped(o, n) == IF n <= Limit[o] THEN n ELSE Limit[o]

(* then the compare-and-exchange of the sum cut off at Limit. *)
KeReleaseSemaphore(s) ==
    /\ release[s].busy
    /\ LET o == release[s].object
       IN \/ /\ signal[o] = release[s].seen
             /\ signal' = [signal EXCEPT ![o] = Capped(o, release[s].seen + release[s].n)]
             /\ release' = [release EXCEPT ![s] = NoRelease]
          \/ /\ signal[o] # release[s].seen
             /\ release' = [release EXCEPT ![s].seen = signal[o]]
             /\ UNCHANGED signal
    /\ UNCHANGED <<request, wait>>

-----------------------------------------------------------------------------
WaitSteps(w) == Peek(w) \/ Try(w) \/ Exchange(w) \/ Poll(w) \/ Return(w)

Next ==
    \/ \E w \in Waiters : Begin(w) \/ WaitSteps(w)
    \/ \E s \in Signallers : Signal(s) \/ BeginRelease(s) \/ KeReleaseSemaphore(s)

Spec == Init /\ [][Next]_vars

(* A thread inside a call keeps running; nobody has to call. *)
FairSpec ==
    /\ Spec
    /\ \A w \in Waiters : WF_vars(WaitSteps(w))
    /\ \A s \in Signallers : WF_vars(KeReleaseSemaphore(s))

-----------------------------------------------------------------------------
TypeOK ==
    /\ signal \in [Objects -> Nat]
    /\ \A o \in Objects : signal[o] <= Limit[o]
    /\ request \in [Waiters -> Requests]
    /\ wait \in [Waiters -> [pc : {"idle", "peek", "take", "exchange", "poll", "done"},
                             i : Nat, seen : Int, took : SUBSET Nat,
                             answer : {"none", "success", "timeout", "paced"}]]
    /\ release \in [Signallers -> [busy : BOOLEAN, object : Objects, n : Nat, seen : Int]]

(* A waiter about to exchange has seen a signal in one of its objects; a
   release in progress adds to a semaphore. *)
InProgress ==
    /\ \A w \in Waiters :
          /\ wait[w].pc \in {"peek", "take", "exchange"} =>
                wait[w].i \in DOMAIN request[w].objs
          /\ wait[w].pc = "exchange" => wait[w].seen > 0 /\ Kind[Object(w)] # "notification"
    /\ \A s \in Signallers :
          release[s].busy => release[s].object \in Semaphores /\ release[s].n \in Adjustments

IInv == TypeOK /\ InProgress

Consuming(w) == {i \in DOMAIN request[w].objs : Kind[request[w].objs[i]] # "notification"}

(* What a wait has consumed is what it answers: a WaitAny that succeeds, exactly
   one signal, of the object whose index it returns, unless that is a
   notification event (8437-8452); a wait that times out or is answered by
   pacing, nothing: the signal is still there for somebody else (8479-8483,
   8714-8739). *)
TookAsAnswered ==
    \A w \in Waiters :
        /\ wait[w].answer = "success" /\ ~request[w].all =>
              wait[w].took = {wait[w].i} \cap Consuming(w)
        /\ wait[w].answer \in {"timeout", "paced"} => wait[w].took = {}

(* A WaitAll consumes all of its signals or none: "Peek every object before
   consuming any so a partial set of signals is not eaten by an unsatisfied
   wait" (8457-8458). *)
AllOrNothing ==
    \A w \in Waiters :
        wait[w].pc = "done" /\ request[w].all => wait[w].took \in {{}, Consuming(w)}

(* A waiter on events alone returns once one of them stays set: polling misses
   no event that is not reset or taken by another thread first (8435-8490). *)
WaitsForEvents(w) ==
    /\ wait[w].pc # "idle"
    /\ ~request[w].all
    /\ \A i \in DOMAIN request[w].objs : request[w].objs[i] \in Events

EventWakesWaiter ==
    \A w \in Waiters :
        WaitsForEvents(w) ~>
            \/ wait[w].pc = "idle"
            \/ \A i \in DOMAIN request[w].objs : signal[request[w].objs[i]] = 0

(* Every change of a SignalState is one of the operations asked for: no set,
   release or consumption is lost to, or doubled by, another at the same time. *)
Abstract == INSTANCE DispatcherSignals
ImplementsSignals == Abstract!Spec
=============================================================================
