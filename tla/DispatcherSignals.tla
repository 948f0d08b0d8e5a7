-------------------------- MODULE DispatcherSignals --------------------------
(***************************************************************************)
(* What the SignalState of a dispatcher object promises: each call of       *)
(* KeSetEvent, KeResetEvent, KePulseEvent and KeReleaseSemaphore, and each  *)
(* signal a waiter consumes, takes effect at once and exactly once.        *)
(***************************************************************************)
EXTENDS Integers

CONSTANTS Objects, Kind, Limit, Adjustments

VARIABLE signal

Set(o) == Kind[o] # "semaphore" /\ signal' = [signal EXCEPT ![o] = 1]

Clear(o) == Kind[o] # "semaphore" /\ signal' = [signal EXCEPT ![o] = 0]

Release(o, n) ==
    /\ Kind[o] = "semaphore"
    /\ signal' = [signal EXCEPT ![o] = IF @ + n <= Limit[o] THEN @ + n ELSE Limit[o]]

Consume(o) ==
    /\ Kind[o] # "notification" /\ signal[o] > 0
    /\ signal' = [signal EXCEPT ![o] = @ - 1]

Init == signal = [o \in Objects |-> 0]

Next ==
    \E o \in Objects :
        Set(o) \/ Clear(o) \/ Consume(o) \/ \E n \in Adjustments : Release(o, n)

Spec == Init /\ [][Next]_signal
=============================================================================
