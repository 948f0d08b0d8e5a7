--------------------------- MODULE TraceSpscRing ---------------------------
(***************************************************************************)
(* The lock-free ring between a traced thread and the binary trace drainer, *)
(* src/include/cxbx/include/core/trace_ring.h.  One producer pushes logical *)
(* events, groups of records that must not be torn apart; one consumer pops *)
(* as many whole groups as its buffer holds.  A step is one atomic load or  *)
(* store of m_Head, m_Tail or m_DroppedEvents, or one slot written or read. *)
(*                                                                         *)
(* A record is represented by the position it was pushed at: what the      *)
(* consumer reads can be compared with what was pushed.                    *)
(***************************************************************************)
EXTENDS Integers

CONSTANTS
    Capacity,    \* slots of the ring; a power of two in the code, at least 2
    Sizes,       \* record counts Push is called with (RecordLogicalEvent: 1 to 4)
    Buffers,     \* buffer sizes Pop is called with
    MaxPushes    \* bound: calls of Push

ASSUME RingAssumption ==
    /\ Capacity \in Nat \ {0}
    /\ Sizes \subseteq Nat
    /\ Buffers \subseteq Nat \ {0}
    /\ MaxPushes \in Nat

VARIABLES
    head,          \* m_Head
    tail,          \* m_Tail
    dropped,       \* m_DroppedEvents
    records,       \* m_Records: the position of the record in each slot
    groupLengths,  \* m_GroupLengths
    producer,      \* where Push stands: its group size n, the records written
    consumer,      \* where Pop stands: buffer size, the head it loaded, its
                   \* count and how many records it has copied
    pushes,        \* calls of Push so far
    accepted,      \* those that returned true
    reported       \* dropped events handed to TakeDroppedEvents

vars == <<head, tail, dropped, records, groupLengths, producer, consumer,
          pushes, accepted, reported>>
ring == <<records, groupLengths>>
counters == <<pushes, accepted, reported>>

Slots == 0..(Capacity - 1)
Slot(p) == p % Capacity

Resting == [pc |-> "rest", n |-> 0, done |-> 0]
Waiting == [pc |-> "rest", buffer |-> 0, head |-> 0, count |-> 0, done |-> 0]

Init ==
    /\ head = 0 /\ tail = 0 /\ dropped = 0
    /\ records = [s \in Slots |-> 0]
    /\ groupLengths = [s \in Slots |-> 0]
    /\ producer = Resting
    /\ consumer = Waiting
    /\ pushes = 0 /\ accepted = 0 /\ reported = 0

-----------------------------------------------------------------------------
(* Push *)

Fits(n) == n > 0 /\ n <= Capacity /\ n <= Capacity - (head - tail)

BeginPushSilent(n) ==
    /\ producer = Resting
    /\ pushes < MaxPushes
    /\ pushes' = pushes + 1
    /\ producer' = IF Fits(n) THEN [pc |-> "fill", n |-> n, done |-> 0] ELSE producer
    /\ UNCHANGED <<head, tail, dropped, ring, consumer, accepted, reported>>

(* The loads of m_Head (the producer's own) and m_Tail, and the refusal. *)
BeginPush(n) ==
    /\ producer = Resting
    /\ pushes < MaxPushes
    /\ pushes' = pushes + 1
    /\ \/ Fits(n) /\ producer' = [pc |-> "fill", n |-> n, done |-> 0] /\ UNCHANGED dropped
       \/ ~Fits(n) /\ dropped' = dropped + 1 /\ UNCHANGED producer
    /\ UNCHANGED <<head, tail, ring, consumer, accepted, reported>>

(* One record and a zero length. *)
Fill ==
    /\ producer.pc = "fill"
    /\ producer.done < producer.n
    /\ records' = [records EXCEPT ![Slot(head + producer.done)] = head + producer.done]
    /\ groupLengths' = [groupLengths EXCEPT ![Slot(head + producer.done)] = 0]
    /\ producer' = [producer EXCEPT !.done = @ + 1]
    /\ UNCHANGED <<head, tail, dropped, consumer, counters>>

(* The length of the group, in its first slot. *)
Close ==
    /\ producer.pc = "fill"
    /\ producer.done = producer.n
    /\ groupLengths' = [groupLengths EXCEPT ![Slot(head)] = producer.n]
    /\ producer' = [producer EXCEPT !.pc = "publish"]
    /\ UNCHANGED <<head, tail, dropped, records, consumer, counters>>

PublishEarly ==
    /\ producer.pc \in {"fill", "publish"}
    /\ head' = head + producer.n
    /\ accepted' = accepted + 1
    /\ producer' = Resting
    /\ UNCHANGED <<tail, dropped, ring, consumer, pushes, reported>>

(* m_Head.store(head + count, release) *)
Publish ==
    /\ producer.pc = "publish"
    /\ head' = head + producer.n
    /\ accepted' = accepted + 1
    /\ producer' = Resting
    /\ UNCHANGED <<tail, dropped, ring, consumer, pushes, reported>>

-----------------------------------------------------------------------------
(* Pop *)

(* The loads of m_Tail (the consumer's own) and m_Head. *)
BeginPop(buffer) ==
    /\ consumer = Waiting
    /\ consumer' = [Waiting EXCEPT !.pc = "measure", !.buffer = buffer, !.head = head]
    /\ UNCHANGED <<head, tail, dropped, ring, producer, counters>>

(* One turn of the loop that adds up whole groups: the next one is taken when
   it ends before the head that was loaded and fits what the buffer has left. *)
Measure ==
    /\ consumer.pc = "measure"
    /\ LET n == groupLengths[Slot(tail + consumer.count)]
           available == consumer.head - tail
           takes == /\ consumer.count < available
                    /\ n # 0
                    /\ n <= available - consumer.count
                    /\ n <= consumer.buffer - consumer.count
       IN  consumer' = IF takes THEN [consumer EXCEPT !.count = @ + n]
                                ELSE [consumer EXCEPT !.pc = "copy"]
    /\ UNCHANGED <<head, tail, dropped, ring, producer, counters>>

Copy ==
    /\ consumer.pc = "copy"
    /\ consumer.done < consumer.count
    /\ consumer' = [consumer EXCEPT !.done = @ + 1]
    /\ UNCHANGED <<head, tail, dropped, ring, producer, counters>>

ReleaseBuffer ==
    /\ consumer.pc = "copy"
    /\ consumer.done = consumer.count
    /\ tail' = IF tail + consumer.buffer <= head THEN tail + consumer.buffer ELSE head
    /\ consumer' = Waiting
    /\ UNCHANGED <<head, dropped, ring, producer, counters>>

(* m_Tail.store(tail + count, release) *)
Release ==
    /\ consumer.pc = "copy"
    /\ consumer.done = consumer.count
    /\ tail' = tail + consumer.count
    /\ consumer' = Waiting
    /\ UNCHANGED <<head, dropped, ring, producer, counters>>

(* m_DroppedEvents.exchange(0) *)
TakeDroppedEvents ==
    /\ consumer = Waiting
    /\ dropped > 0
    /\ reported' = reported + dropped
    /\ dropped' = 0
    /\ UNCHANGED <<head, tail, ring, producer, consumer, pushes, accepted>>

Produce == Fill \/ Close \/ Publish
Consume == Measure \/ Copy \/ Release

Next ==
    \/ \E n \in Sizes : BeginPush(n)
    \/ \E buffer \in Buffers : BeginPop(buffer)
    \/ Produce \/ Consume \/ TakeDroppedEvents

Spec == Init /\ [][Next]_vars

-----------------------------------------------------------------------------
TypeOK ==
    /\ head \in Nat /\ tail \in Nat /\ dropped \in Nat
    /\ records \in [Slots -> Nat]
    /\ groupLengths \in [Slots -> 0..Capacity]
    /\ producer \in [pc : {"rest", "fill", "publish"}, n : Nat, done : Nat]
    /\ consumer \in [pc : {"rest", "measure", "copy"}, buffer : Nat, head : Nat,
                     count : Nat, done : Nat]
    /\ pushes \in Nat /\ accepted \in Nat /\ reported \in Nat

(* The ring never holds more than it has slots for, the group being written
   included (trace_ring.h:36-42). *)
Bounded ==
    /\ tail <= head
    /\ head <= tail + Capacity
    /\ producer.pc # "rest" =>
          /\ producer.n \in 1..Capacity
          /\ producer.done <= producer.n
          /\ head + producer.n <= tail + Capacity

(* What is published and not yet released is what was pushed, slot by slot: no
   later push, however far the ring has wrapped, touches a record the consumer
   may still be copying (44-50, 75-79). *)
Intact == \A p \in tail..(head - 1) : records[Slot(p)] = p

Starts == {p \in tail..(head - 1) : groupLengths[Slot(p)] # 0}

End(p) == p + groupLengths[Slot(p)]

(* The consumer takes no more than its buffer holds, and never past the head
   it loaded, though the producer goes on publishing (61-74). *)
PopWithinBounds ==
    consumer.pc # "rest" =>
        /\ consumer.count <= consumer.buffer
        /\ tail + consumer.count <= consumer.head
        /\ consumer.head <= head
        /\ consumer.done <= consumer.count

(* Every event offered is in the ring, delivered or counted as dropped, once
   (30-41, 90-93). *)
Accounted ==
    pushes = accepted + dropped + reported + (IF producer.pc = "rest" THEN 0 ELSE 1)
=============================================================================
