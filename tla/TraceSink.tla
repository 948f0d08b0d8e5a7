------------------------------ MODULE TraceSink ------------------------------
(***************************************************************************)
(* The binary trace sink, src/src/cxbx/src/core/trace/trace.cpp: a thread   *)
(* that records logical events into its ring, threads beyond the last ring  *)
(* whose events are only counted, the drainer that empties the ring into    *)
(* the event file, and the start and stop of both.  The ring and its steps  *)
(* are those of TraceSpscRing: this module says when they are taken.        *)
(*                                                                         *)
(* The file is private to the drainer and is kept as what a reader of it    *)
(* would count.  A step of the drainer is what it does between two accesses *)
(* to what others also write.                                               *)
(***************************************************************************)
EXTENDS TraceSpscRing

CONSTANTS
    DrainCapacity,    \* kBinaryDrainCapacity
    MaxUnregistered,  \* bound: events of threads without a ring
    MaxFailures       \* bound: writes that fail

ASSUME SinkAssumption ==
    /\ DrainCapacity \in Buffers
    /\ \A n \in Sizes : n \in 1..DrainCapacity
    /\ {MaxUnregistered, MaxFailures} \subseteq Nat

VARIABLES
    accepting, stopRequested, writeFailed,    \* g_BinaryState
    unregistered,    \* g_UnregisteredBinaryDropped
    recorder,        \* where the thread with the ring stands
    other,           \* where a thread without one stands
    drainer,         \* where the drainer stands: at, the last pass or not, drained
    main,            \* where Initialize and Shutdown stand
    file,            \* what was written: records, dropped events, attachment
    failures,        \* writes that failed
    atStop           \* what had been recorded when Shutdown ended the recording

gates == <<accepting, stopRequested, writeFailed>>
threads == <<recorder, other>>
sinkVars == <<gates, unregistered, threads, drainer, main, file, failures, atStop>>
allVars == <<vars, sinkVars>>

Nothing == [records |-> 0, dropped |-> 0, unregistered |-> 0, attached |-> FALSE]

(* StartBinarySink has written the header and started the drainer. *)
SinkInit ==
    /\ Init
    /\ accepting = FALSE /\ stopRequested = FALSE /\ writeFailed = FALSE
    /\ unregistered = 0
    /\ recorder = "unattached" /\ other = "idle"
    /\ drainer = [at |-> "loop", last |-> FALSE, drained |-> 0]
    /\ main = "starting"
    /\ file = Nothing /\ failures = 0
    /\ atStop = Nothing

-----------------------------------------------------------------------------
(* Initialize and Shutdown *)

StartAccepting ==
    /\ main = "starting"
    /\ accepting' = TRUE
    /\ main' = "running"
    /\ UNCHANGED <<vars, stopRequested, writeFailed, unregistered, threads, drainer, file,
                   failures, atStop>>

StopAccepting ==
    /\ main = "running"
    /\ accepting' = FALSE
    /\ main' = "stopping"
    /\ atStop' = [records |-> head, dropped |-> dropped + reported,
                  unregistered |-> unregistered + file.unregistered, attached |-> head > 0]
    /\ UNCHANGED <<vars, stopRequested, writeFailed, unregistered, threads, drainer, file,
                   failures>>

RequestStop ==
    /\ main = "stopping"
    /\ stopRequested' = TRUE
    /\ main' = "joining"
    /\ UNCHANGED <<vars, accepting, writeFailed, unregistered, threads, drainer, file,
                   failures, atStop>>

(* TraceOsJoinBackgroundThread, and the file is closed. *)
Join ==
    /\ main = "joining"
    /\ drainer.at = "done"
    /\ main' = "closed"
    /\ UNCHANGED <<vars, gates, unregistered, threads, drainer, file, failures, atStop>>

StopBinarySink == StopAccepting \/ RequestStop \/ Join

-----------------------------------------------------------------------------
(* The threads that record *)

(* AttachFlightThread: a slot is taken, then its thread's id is stored. *)
AttachFlightThread ==
    /\ \/ recorder = "unattached" /\ recorder' = "assigned"
       \/ recorder = "assigned" /\ recorder' = "idle"
    /\ UNCHANGED <<vars, gates, unregistered, other, drainer, main, file, failures, atStop>>

(* RecordLogicalEvent reads accepting and pushes; the sink may close between. *)
SeesAccepting ==
    /\ recorder = "idle" /\ producer = Resting
    /\ accepting
    /\ recorder' = "accepted"
    /\ UNCHANGED <<vars, gates, unregistered, other, drainer, main, file, failures, atStop>>

Pushes(n) ==
    /\ recorder = "accepted"
    /\ BeginPush(n)
    /\ recorder' = "idle"
    /\ UNCHANGED <<gates, unregistered, other, drainer, main, file, failures, atStop>>

Pushing == Produce /\ UNCHANGED sinkVars

UnregisteredSeesAccepting ==
    /\ other = "idle"
    /\ accepting
    /\ unregistered + file.unregistered < MaxUnregistered
    /\ other' = "accepted"
    /\ UNCHANGED <<vars, gates, unregistered, recorder, drainer, main, file, failures, atStop>>

UnregisteredCounts ==
    /\ other = "accepted"
    /\ unregistered' = unregistered + 1
    /\ other' = "idle"
    /\ UNCHANGED <<vars, gates, recorder, drainer, main, file, failures, atStop>>

-----------------------------------------------------------------------------
(* The drainer *)

At(place) == drainer.at = place
Goto(place) == drainer' = [drainer EXCEPT !.at = place]

BeginPassUnlessStopped ==
    /\ At("loop")
    /\ drainer' = IF stopRequested \/ writeFailed
                  THEN [drainer EXCEPT !.at = "done"]
                  ELSE [at |-> "unregistered", last |-> FALSE, drained |-> 0]
    /\ UNCHANGED <<vars, gates, unregistered, threads, main, file, failures, atStop>>

(* BinaryDrainer's loop: a pass, or the last one once a stop is requested or a
   write has failed. *)
BeginPass ==
    /\ At("loop")
    /\ drainer' = [at |-> "unregistered", last |-> stopRequested \/ writeFailed, drained |-> 0]
    /\ UNCHANGED <<vars, gates, unregistered, threads, main, file, failures, atStop>>

(* A pass ends; the drainer sleeps, or returns from the last one. *)
AfterPass == IF drainer.last THEN "done" ELSE "loop"

(* WriteBinaryRecords, followed by the test of writeFailed: a failed write ends
   the pass, and the failure of an earlier one does too. *)
WriteBinaryRecords(written, next) ==
    \/ /\ file' = written
       /\ drainer' = [next EXCEPT !.at = IF writeFailed THEN AfterPass ELSE @]
       /\ UNCHANGED <<accepting, writeFailed, failures>>
    \/ /\ failures < MaxFailures
       /\ failures' = failures + 1
       /\ writeFailed' = TRUE /\ accepting' = FALSE
       /\ drainer' = [next EXCEPT !.at = AfterPass]
       /\ UNCHANGED file

DrainUnregistered ==
    /\ At("unregistered")
    /\ unregistered' = 0
    /\ IF unregistered = 0
       THEN Goto("attach") /\ UNCHANGED <<accepting, writeFailed, file, failures>>
       ELSE WriteBinaryRecords([file EXCEPT !.unregistered = @ + unregistered],
                               [drainer EXCEPT !.at = "attach"])
    /\ UNCHANGED <<vars, stopRequested, threads, main, atStop>>

DrainAttachWaiting ==
    /\ At("attach")
    /\ CASE recorder = "unattached" -> Goto(AfterPass)
                                       /\ UNCHANGED <<accepting, writeFailed, file, failures>>
         [] recorder = "assigned" -> FALSE
         [] recorder \in {"idle", "accepted"} /\ file.attached ->
                Goto("dropped") /\ UNCHANGED <<accepting, writeFailed, file, failures>>
         [] OTHER -> WriteBinaryRecords([file EXCEPT !.attached = TRUE],
                                        [drainer EXCEPT !.at = "dropped"])
    /\ UNCHANGED <<vars, stopRequested, unregistered, threads, main, atStop>>

(* The drainer visits the slot once it has been assigned, and announces its
   thread once its id has been stored. *)
DrainAttach ==
    /\ At("attach")
    /\ CASE recorder = "unattached" -> Goto(AfterPass)
                                       /\ UNCHANGED <<accepting, writeFailed, file, failures>>
         [] recorder = "assigned" \/ file.attached ->
                Goto("dropped") /\ UNCHANGED <<accepting, writeFailed, file, failures>>
         [] OTHER -> WriteBinaryRecords([file EXCEPT !.attached = TRUE],
                                        [drainer EXCEPT !.at = "dropped"])
    /\ UNCHANGED <<vars, stopRequested, unregistered, threads, main, atStop>>

DrainDropped ==
    /\ At("dropped")
    /\ \/ /\ dropped = 0
          /\ Goto("pop")
          /\ UNCHANGED <<vars, accepting, writeFailed, file, failures>>
       \/ /\ TakeDroppedEvents
          /\ WriteBinaryRecords([file EXCEPT !.dropped = @ + dropped],
                                [drainer EXCEPT !.at = "pop"])
    /\ UNCHANGED <<stopRequested, unregistered, threads, main, atStop>>

DrainPop ==
    /\ At("pop")
    /\ BeginPop(DrainCapacity)
    /\ Goto("popping")
    /\ UNCHANGED <<gates, unregistered, threads, main, file, failures, atStop>>

Popping ==
    /\ Measure \/ Copy
    /\ UNCHANGED sinkVars

(* What was popped is written; a buffer popped full is followed by another. *)
DrainWrite ==
    /\ Release
    /\ LET next == [drainer EXCEPT !.drained = consumer.count,
                        !.at = IF consumer.count = DrainCapacity THEN "pop" ELSE AfterPass]
       IN  IF consumer.count = 0
           THEN drainer' = next /\ UNCHANGED <<accepting, writeFailed, file, failures>>
           ELSE WriteBinaryRecords([file EXCEPT !.records = @ + consumer.count], next)
    /\ UNCHANGED <<stopRequested, unregistered, threads, main, atStop>>

BinaryDrainer ==
    \/ BeginPass \/ DrainUnregistered \/ DrainAttach \/ DrainDropped
    \/ DrainPop \/ Popping \/ DrainWrite

SinkNext ==
    \/ StartAccepting \/ StopBinarySink
    \/ AttachFlightThread \/ SeesAccepting \/ (\E n \in Sizes : Pushes(n)) \/ Pushing
    \/ UnregisteredSeesAccepting \/ UnregisteredCounts
    \/ BinaryDrainer

(* The drainer's loop never ends by itself, a thread finishes the call it is in,
   and a Shutdown that has begun goes on. *)
SinkSpec == SinkInit /\ [][SinkNext]_allVars
FairSinkSpec ==
    /\ SinkSpec
    /\ WF_allVars(BinaryDrainer)
    /\ WF_allVars(Pushing)
    /\ WF_allVars(RequestStop \/ Join)

-----------------------------------------------------------------------------
FileType == [records : Nat, dropped : Nat, unregistered : Nat, attached : BOOLEAN]
DrainerType ==
    [at : {"loop", "unregistered", "attach", "dropped", "pop", "popping", "done"},
     last : BOOLEAN, drained : Nat]

SinkTypeOK ==
    /\ TypeOK
    /\ accepting \in BOOLEAN /\ stopRequested \in BOOLEAN /\ writeFailed \in BOOLEAN
    /\ unregistered \in Nat /\ failures \in Nat
    /\ recorder \in {"unattached", "assigned", "idle", "accepted"}
    /\ other \in {"idle", "accepted"}
    /\ drainer \in DrainerType
    /\ main \in {"starting", "running", "stopping", "joining", "closed"}
    /\ file \in FileType /\ atStop \in FileType

(* The oldest event left does not fit what the last buffer had left. *)
LeftForLackOfRoom ==
    head > tail /\ drainer.drained + groupLengths[Slot(tail)] > DrainCapacity

(* The file says what the rings gave up; and once it is closed it holds, written
   or counted as dropped, every event recorded before Shutdown stopped the
   recording, under a thread it has announced, unless the last buffer could not
   take the next event whole (221).  A failed write voids both (126-139). *)
Settled ==
    /\ SinkTypeOK
    /\ ~writeFailed =>
          /\ file.records = tail /\ file.dropped = reported
          /\ main = "closed" =>
                /\ file.dropped >= atStop.dropped
                /\ file.unregistered >= atStop.unregistered
                /\ atStop.attached => file.attached
                /\ file.records >= atStop.records \/ LeftForLackOfRoom

(* What trace_core.cpp expects of the file after Shutdown (tests/host, 190-195):
   every record made before is there. *)
WritesAll ==
    main = "closed" /\ ~writeFailed => file.records >= atStop.records

(* While the sink runs a published record reaches the file in the end, however
   the ring and the threads without one keep it busy; and Shutdown returns,
   though a thread may be stuck half attached or between reading accepting and
   pushing (226-245, 289-301). *)
Served ==
    /\ \A p \in 0..(MaxPushes * DrainCapacity) :
          head > p ~> (tail > p \/ main # "running" \/ writeFailed)
    /\ main = "stopping" ~> main = "closed"
=============================================================================
