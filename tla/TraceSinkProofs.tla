-------------------------- MODULE TraceSinkProofs --------------------------
(***************************************************************************)
(* Proofs about TraceSpscRing and TraceSink, for every capacity, every drain *)
(* buffer and every set of group sizes.  The ring's inductive invariant adds *)
(* to Bounded, Intact and PopWithinBounds what Push has written of the group *)
(* it has not published.  The sink runs the ring as TraceSpscRing describes  *)
(* it, so what holds of the ring holds inside the sink; and a file that was  *)
(* closed without a failed write holds what was recorded before, as Settled  *)
(* says.                                                                     *)
(***************************************************************************)
EXTENDS TraceSink, TraceRingQueue, TLAPS

(* The records of the group being written are in place but not yet visible. *)
Filled ==
    producer.pc # "rest" =>
        /\ \A i \in 0..(producer.done - 1) : records[Slot(head + i)] = head + i
        /\ producer.pc = "publish" => producer.done = producer.n

IInv == TypeOK /\ Bounded /\ PopWithinBounds /\ Intact /\ Filled

(* A multiple of a positive number by a positive number is no smaller than it. *)
LEMMA AtLeastOneTurn ==
    ASSUME NEW C \in Nat \ {0}, NEW k \in Int, k >= 1
    PROVE  C * k >= C
  <1>1. PICK j \in Nat : k = j + 1
    BY SMT
  <1>2. C * k = C * j + C
    BY <1>1, SMT
  <1>3. C * j >= 0
    BY <1>1, SMT
  <1> QED
    BY <1>2, <1>3, SMT

(* Two positions less than a lap apart have different slots: indices are taken
   modulo the capacity and no two live records share one. *)
LEMMA SlotsApart ==
    ASSUME NEW C \in Nat \ {0}, NEW p \in Nat, NEW q \in Nat, p < q, q < p + C
    PROVE  p % C # q % C
  <1> DEFINE a == p \div C
             b == q \div C
  <1>1. /\ p = C * a + (p % C) /\ a \in Int /\ p % C \in 0..(C - 1)
        /\ q = C * b + (q % C) /\ b \in Int /\ q % C \in 0..(C - 1)
    BY SMT
  <1> HIDE DEF a, b
  <1>2. SUFFICES ASSUME p % C = q % C
                 PROVE  FALSE
    OBVIOUS
  <1>3. q - p = C * (b - a)
    BY <1>1, <1>2, SMT
  <1>4. b - a >= 1 \/ a - b >= 0
    BY <1>1, SMT
  <1>5. CASE b - a >= 1
    BY <1>1, <1>3, <1>5, AtLeastOneTurn, SMT
  <1>6. CASE a - b >= 0
    <2>1. C * (a - b) >= 0
      BY <1>1, <1>6, SMT
    <2>2. q - p <= 0
      BY <1>1, <1>3, <2>1, SMT
    <2> QED
      BY <2>2
  <1> QED
    BY <1>4, <1>5, <1>6

LEMMA SlotInRange == ASSUME RingAssumption, NEW p \in Nat PROVE Slot(p) \in Slots
  BY SMT DEF RingAssumption, Slot, Slots

-----------------------------------------------------------------------------
LEMMA Initially == RingAssumption /\ Init => IInv
  <1> SUFFICES ASSUME RingAssumption, Init PROVE IInv
    OBVIOUS
  <1>1. TypeOK
    BY DEF RingAssumption, Init, TypeOK, Resting, Waiting, Slots
  <1>2. Bounded /\ PopWithinBounds /\ Intact /\ Filled
    BY SMT DEF RingAssumption, Init, Bounded, PopWithinBounds, Intact, Filled, Resting, Waiting
  <1> QED
    BY <1>1, <1>2 DEF IInv

(* A slot written beyond the published records leaves them as they are. *)
LEMMA FillBeyond ==
    ASSUME RingAssumption, IInv, Fill
    PROVE  /\ \A p \in tail..(head - 1) : records'[Slot(p)] = records[Slot(p)]
           /\ \A i \in 0..(producer.done - 1) :
                 records'[Slot(head + i)] = records[Slot(head + i)]
           /\ records'[Slot(head + producer.done)] = head + producer.done
  <1> DEFINE w == head + producer.done
  <1>1. /\ head \in Nat /\ tail \in Nat /\ producer.done \in Nat /\ producer.n \in Nat
        /\ producer.done < producer.n /\ head + producer.n <= tail + Capacity
        /\ tail <= head /\ Capacity \in Nat \ {0} /\ w \in Nat
    BY SMT DEF RingAssumption, IInv, TypeOK, Bounded, Fill
  <1>2. records \in [Slots -> Nat] /\ records' = [records EXCEPT ![Slot(w)] = w]
    BY DEF IInv, TypeOK, Fill
  <1>3. Slot(w) \in Slots
    BY <1>1, SlotInRange
  <1> HIDE DEF w
  <1>4. ASSUME NEW p \in Nat, p < w, w < p + Capacity
        PROVE  records'[Slot(p)] = records[Slot(p)]
    <2>1. Slot(p) # Slot(w)
      BY <1>1, <1>4, SlotsApart DEF Slot
    <2>2. Slot(p) \in Slots
      BY <1>4, SlotInRange
    <2> QED
      BY <1>2, <2>1, <2>2
  <1>5. ASSUME NEW p \in tail..(head - 1) PROVE records'[Slot(p)] = records[Slot(p)]
    <2>1. p \in Nat /\ p < w /\ w < p + Capacity
      BY <1>1, <1>5, SMT DEF w
    <2> QED
      BY <1>4, <2>1
  <1>6. ASSUME NEW i \in 0..(producer.done - 1)
        PROVE  records'[Slot(head + i)] = records[Slot(head + i)]
    <2>1. head + i \in Nat /\ head + i < w /\ w < (head + i) + Capacity
      BY <1>1, <1>6, SMT DEF w
    <2> QED
      BY <1>4, <2>1
  <1>7. records'[Slot(w)] = w
    BY <1>2, <1>3
  <1> QED
    BY <1>5, <1>6, <1>7 DEF w

LEMMA Inductive ==
    ASSUME RingAssumption, IInv, [Next]_vars
    PROVE  IInv'
  <1> USE DEF Resting, Waiting, ring, counters
  <1>1. ASSUME NEW n \in Sizes, BeginPush(n) PROVE IInv'
    BY <1>1, SMT DEF RingAssumption, IInv, TypeOK, Bounded, PopWithinBounds, Intact, Filled,
                BeginPush, Fits
  <1>2. ASSUME NEW buffer \in Buffers, BeginPop(buffer) PROVE IInv'
    <2>1. TypeOK'
      BY <1>2 DEF RingAssumption, IInv, TypeOK, BeginPop
    <2>2. PopWithinBounds'
      BY <1>2, SMT DEF IInv, TypeOK, Bounded, PopWithinBounds, BeginPop
    <2>3. Bounded' /\ Intact' /\ Filled'
      BY <1>2 DEF IInv, Bounded, Intact, Filled, BeginPop, Slot
    <2> QED
      BY <2>1, <2>2, <2>3 DEF IInv
  <1>3. CASE Fill
    <2>1. TypeOK'
      <3>1. /\ head + producer.done \in Nat /\ producer.done + 1 \in Nat
            /\ 0 \in 0..Capacity
        BY <1>3, SMT DEF RingAssumption, IInv, TypeOK
      <3> QED
        BY <1>3, <3>1 DEF IInv, TypeOK, Fill
    <2>2. Bounded' /\ PopWithinBounds'
      BY <1>3, SMT DEF IInv, TypeOK, Bounded, PopWithinBounds, Fill
    <2>3. Intact'
      BY <1>3, FillBeyond DEF IInv, Intact, Fill, Slot
    <2>4. Filled'
      <3> DEFINE d == producer.done
      <3>1. producer' = [producer EXCEPT !.done = d + 1] /\ head' = head /\ d \in Nat
            /\ producer.pc = "fill"
        BY <1>3 DEF Fill, IInv, TypeOK
      <3>2. producer'.done = d + 1 /\ producer'.pc = "fill"
        BY <3>1 DEF IInv, TypeOK
      <3>3. ASSUME NEW i \in 0..d PROVE records'[Slot(head + i)] = head + i
        <4>1. CASE i = d
          BY <1>3, <4>1, FillBeyond
        <4>2. CASE i # d
          <5>1. i \in 0..(d - 1)
            BY <3>1, <4>2, SMT
          <5> QED
            BY <1>3, <5>1, FillBeyond DEF IInv, Filled, Fill
        <4> QED
          BY <4>1, <4>2
      <3>4. \A i \in 0..(producer'.done - 1) : i \in 0..d
        BY <3>1, <3>2, SMT
      <3> QED
        BY <3>1, <3>2, <3>3, <3>4 DEF Filled, Slot
    <2> QED
      BY <2>1, <2>2, <2>3, <2>4 DEF IInv
  <1>4. CASE Close
    <2>1. TypeOK'
      <3>1. producer.n \in 0..Capacity
        BY <1>4 DEF IInv, Bounded, Close
      <3> QED
        BY <1>4, <3>1 DEF IInv, TypeOK, Close
    <2>2. Bounded' /\ PopWithinBounds'
      BY <1>4 DEF IInv, TypeOK, Bounded, PopWithinBounds, Close
    <2>3. Intact' /\ Filled'
      BY <1>4 DEF IInv, TypeOK, Intact, Filled, Close, Slot
    <2> QED
      BY <2>1, <2>2, <2>3 DEF IInv
  <1>5. CASE Publish
    <2>1. TypeOK' /\ Bounded' /\ PopWithinBounds' /\ Filled'
      BY <1>5, SMT DEF IInv, TypeOK, Bounded, PopWithinBounds, Filled, Publish
    <2>2. Intact'
      <3>1. /\ head \in Nat /\ tail \in Nat /\ producer.n \in Nat
            /\ head' = head + producer.n /\ tail' = tail /\ records' = records
            /\ producer.done = producer.n /\ producer.pc = "publish"
        BY <1>5 DEF IInv, TypeOK, Filled, Publish, ring, counters
      <3>2. ASSUME NEW p \in tail'..(head' - 1) PROVE records[Slot(p)] = p
        <4>1. CASE p < head
          BY <3>1, <4>1, SMT DEF IInv, Intact
        <4>2. CASE p >= head
          <5>1. p - head \in 0..(producer.done - 1) /\ head + (p - head) = p
            BY <3>1, <3>2, <4>2, SMT
          <5>2. records[Slot(head + (p - head))] = head + (p - head)
            BY <3>1, <5>1 DEF IInv, Filled
          <5> QED
            BY <5>1, <5>2
        <4> QED
          BY <3>1, <4>1, <4>2, SMT
      <3> QED
        BY <3>1, <3>2 DEF Intact, Slot
    <2> QED
      BY <2>1, <2>2 DEF IInv
  <1>6. CASE Measure
    <2>1. groupLengths[Slot(tail + consumer.count)] \in Nat
      <3>1. tail + consumer.count \in Nat
        BY SMT DEF IInv, TypeOK
      <3> QED
        BY <3>1, SlotInRange DEF IInv, TypeOK
    <2> QED
      BY <1>6, <2>1, SMT DEF IInv, TypeOK, Bounded, PopWithinBounds, Intact, Filled, Measure
  <1>7. CASE Copy
    BY <1>7, SMT DEF IInv, TypeOK, Bounded, PopWithinBounds, Intact, Filled, Copy
  <1>8. CASE Release
    BY <1>8, SMT DEF IInv, TypeOK, Bounded, PopWithinBounds, Intact, Filled, Release
  <1>9. CASE TakeDroppedEvents
    BY <1>9, SMT DEF IInv, TypeOK, Bounded, PopWithinBounds, Intact, Filled, TakeDroppedEvents
  <1>10. CASE UNCHANGED vars
    BY <1>10 DEF IInv, TypeOK, Bounded, PopWithinBounds, Intact, Filled, vars, Slot, Slots
  <1> QED
    BY <1>1, <1>2, <1>3, <1>4, <1>5, <1>6, <1>7, <1>8, <1>9, <1>10 DEF Next, Produce, Consume

LEMMA Invariance == Spec => []IInv
  <1>1. Init => IInv
    BY Initially, RingAssumption
  <1>2. IInv /\ [Next]_vars => IInv'
    BY Inductive, RingAssumption
  <1> QED
    BY <1>1, <1>2, PTL DEF Spec

-----------------------------------------------------------------------------
(* Every variable keeps its type, for every capacity and every group size. *)
THEOREM TypeCorrect == Spec => []TypeOK
  BY Invariance, PTL DEF IInv

(* The ring never holds more records than slots, the unpublished group
   included: Push refuses in time (trace_ring.h:36-42). *)
THEOREM NeverOverfull == Spec => []Bounded
  BY Invariance, PTL DEF IInv

(* No record the consumer can reach is ever overwritten, however often the
   ring wraps (trace_ring.h:44-50, 75-79). *)
THEOREM RecordsIntact == Spec => []Intact
  BY Invariance, PTL DEF IInv

(* Pop stays within its buffer and within what was published when it began
   (trace_ring.h:61-74). *)
THEOREM PopSafe == Spec => []PopWithinBounds
  BY Invariance, PTL DEF IInv

(* Every event offered is delivered, still in the ring, or counted as dropped,
   exactly once (trace_ring.h:30-41, 90-93). *)
THEOREM NothingUncounted == Spec => []Accounted
  <1>1. Init => Accounted
    BY SMT DEF Init, Accounted, Resting
  <1>2. IInv /\ Accounted /\ [Next]_vars => Accounted'
    <2> SUFFICES ASSUME IInv, Accounted, [Next]_vars PROVE Accounted'
      OBVIOUS
    <2> USE DEF Resting, Waiting, ring, counters
    <2>1. ASSUME NEW n \in Sizes, BeginPush(n) PROVE Accounted'
      BY <2>1, SMT DEF IInv, TypeOK, Accounted, BeginPush
    <2>2. ASSUME NEW buffer \in Buffers, BeginPop(buffer) PROVE Accounted'
      BY <2>2 DEF Accounted, BeginPop
    <2>3. CASE Fill
      BY <2>3 DEF IInv, TypeOK, Accounted, Fill
    <2>4. CASE Close
      BY <2>4 DEF IInv, TypeOK, Accounted, Close
    <2>5. CASE Publish
      BY <2>5, SMT DEF IInv, TypeOK, Accounted, Publish
    <2>6. CASE Consume
      BY <2>6 DEF Accounted, Consume, Measure, Copy, Release
    <2>7. CASE TakeDroppedEvents
      BY <2>7, SMT DEF IInv, TypeOK, Accounted, TakeDroppedEvents
    <2>8. CASE UNCHANGED vars
      BY <2>8 DEF Accounted, vars
    <2> QED
      BY <2>1, <2>2, <2>3, <2>4, <2>5, <2>6, <2>7, <2>8 DEF Next, Produce
  <1> QED
    BY <1>1, <1>2, Invariance, PTL DEF Spec
-----------------------------------------------------------------------------
(* The sink *)

(* A position at which a group begins. *)
Begins(p) == groupLengths[Slot(p)] # 0

(* The published records are a chain of groups from tail to head, and the one
   being written will be the next. *)
Grouped ==
    /\ tail < head => Begins(tail)
    /\ \A p \in tail..(head - 1) :
          Begins(p) => End(p) <= head /\ (End(p) < head => Begins(End(p)))
    /\ producer.pc # "rest" => \A i \in 1..(producer.done - 1) : ~Begins(head + i)
    /\ producer.pc = "publish" => groupLengths[Slot(head)] = producer.n

(* Pop has walked along the chain, up to the head it loaded or to a group that
   its buffer cannot take. *)
Walked ==
    consumer.pc # "rest" =>
        /\ tail + consumer.count < head => Begins(tail + consumer.count)
        /\ \A p \in tail..(consumer.head - 1) : Begins(p) => End(p) <= consumer.head
        /\ consumer.pc = "copy" =>
              \/ tail + consumer.count = consumer.head
              \/ consumer.count + groupLengths[Slot(tail + consumer.count)] > consumer.buffer

ChainInv == IInv /\ Grouped /\ Walked

(* No group begins inside another, Pop has counted whole groups, and the group
   being written is one that was asked for. *)
Whole ==
    \A p, q \in tail..(head - 1) : Begins(p) /\ Begins(q) /\ p < q => End(p) <= q
AtEnd ==
    consumer.pc # "rest" /\ consumer.count > 0 => tail + consumer.count \in Ends

Sized == producer.pc # "rest" => producer.n \in Sizes

QueueInv == ChainInv /\ Whole /\ AtEnd /\ Sized

(* What stands in the file is what left the ring. *)
Written == ~writeFailed => file.records = tail /\ file.dropped = reported

(* Where the drainer stands in the ring, and why it ends. *)
Drained ==
    /\ consumer.pc = "rest" <=> drainer.at # "popping"
    /\ consumer.pc # "rest" => consumer.buffer = DrainCapacity
    /\ drainer.at = "loop" => ~drainer.last
    /\ drainer.at = "done" => drainer.last
    /\ drainer.last => stopRequested \/ writeFailed

(* Shutdown's order, and what it found when it ended the recording. *)
Stopped ==
    /\ stopRequested => main \in {"joining", "closed"}
    /\ main = "closed" => drainer.at = "done"
    /\ main \in {"stopping", "joining", "closed"} =>
          /\ atStop.records <= head
          /\ atStop.dropped <= dropped + reported
          /\ ~writeFailed => atStop.unregistered <= unregistered + file.unregistered
          /\ atStop.attached => recorder \in {"idle", "accepted"}

(* A thread records once it is attached. *)
Attached ==
    recorder \in {"unattached", "assigned"} =>
        head = 0 /\ tail = 0 /\ dropped = 0 /\ reported = 0 /\ producer.pc = "rest"

(* The last pass catches up with what Shutdown found, one access at a time. *)
CaughtUp ==
    drainer.last /\ ~writeFailed =>
        /\ drainer.at # "unregistered" => file.unregistered >= atStop.unregistered
        /\ drainer.at \notin {"unregistered", "attach"} => (atStop.attached => file.attached)
        /\ drainer.at \in {"pop", "popping", "done"} => file.dropped >= atStop.dropped
        /\ drainer.at = "popping" => consumer.head >= atStop.records
        /\ drainer.at = "done" => tail >= atStop.records \/ LeftForLackOfRoom

SinkInv ==
    /\ ChainInv /\ SinkTypeOK
    /\ Written /\ Drained /\ Stopped /\ Attached /\ CaughtUp
-----------------------------------------------------------------------------
(* The ring: groups stay whole and chained *)

(* A slot written less than a lap ahead of a position is not its slot. *)
LEMMA Elsewhere ==
    ASSUME RingAssumption, NEW p \in Nat, NEW w \in Nat, p < w, w < p + Capacity
    PROVE  Slot(p) # Slot(w)
  BY SlotsApart DEF RingAssumption, Slot

(* What the chain's positions are: natural numbers, and a group's length one. *)
LEMMA Positions ==
    ASSUME RingAssumption, IInv
    PROVE  /\ head \in Nat /\ tail \in Nat /\ tail <= head /\ Capacity \in Nat \ {0}
           /\ \A p \in Nat : groupLengths[Slot(p)] \in Nat /\ Slot(p) \in Slots
           /\ consumer.count \in Nat /\ consumer.head \in Nat /\ consumer.buffer \in Nat
           /\ producer.n \in Nat /\ producer.done \in Nat
  <1>1. \A p \in Nat : groupLengths[Slot(p)] \in Nat /\ Slot(p) \in Slots
    BY SlotInRange DEF IInv, TypeOK
  <1> QED
    BY <1>1 DEF RingAssumption, IInv, TypeOK, Bounded

LEMMA ChainInitially == RingAssumption /\ Init => ChainInv
  <1> SUFFICES ASSUME RingAssumption, Init PROVE ChainInv
    OBVIOUS
  <1>1. IInv
    BY Initially
  <1>2. Grouped /\ Walked
    BY SMT DEF Init, Grouped, Walked, Resting, Waiting
  <1> QED
    BY <1>1, <1>2 DEF ChainInv

(* A push that writes a length beyond the published records breaks no group. *)
LEMMA ChainUndisturbed ==
    ASSUME RingAssumption, ChainInv,
           NEW w \in Nat, NEW n, head <= w, w < tail + Capacity,
           groupLengths' = [groupLengths EXCEPT ![Slot(w)] = n],
           UNCHANGED <<head, tail, consumer>>
    PROVE  /\ \A p \in Nat : tail <= p /\ p < w => groupLengths'[Slot(p)] = groupLengths[Slot(p)]
           /\ tail' < head' => Begins(tail)'
           /\ \A p \in tail'..(head' - 1) :
                 Begins(p)' => End(p)' <= head' /\ (End(p)' < head' => Begins(End(p))')
           /\ Walked'
  <1>1. \A p \in Nat : tail <= p /\ p < w => groupLengths'[Slot(p)] = groupLengths[Slot(p)]
    <2> SUFFICES ASSUME NEW p \in Nat, tail <= p, p < w
                 PROVE  groupLengths'[Slot(p)] = groupLengths[Slot(p)]
      OBVIOUS
    <2>1. w < p + Capacity
      BY Positions, SMT DEF ChainInv
    <2>2. Slot(p) # Slot(w) /\ Slot(p) \in Slots
      BY <2>1, Elsewhere, Positions DEF ChainInv
    <2> QED
      BY <2>2 DEF ChainInv, IInv, TypeOK
  <1>2. \A p \in Nat : tail <= p /\ p < head =>
           /\ groupLengths'[Slot(p)] = groupLengths[Slot(p)]
           /\ groupLengths[Slot(p)] \in Nat
    BY <1>1, Positions, SMT DEF ChainInv
  <1>3. tail' < head' => Begins(tail)'
    BY <1>2, Positions DEF ChainInv, Grouped, Begins, Slot
  <1>4. ASSUME NEW p \in tail'..(head' - 1), Begins(p)'
        PROVE  End(p)' <= head' /\ (End(p)' < head' => Begins(End(p))')
    <2>1. p \in Nat /\ tail <= p /\ p < head /\ p \in tail..(head - 1)
      BY Positions, SMT DEF ChainInv
    <2>2. Begins(p) /\ End(p)' = End(p)
      BY <1>2, <1>4, <2>1 DEF Begins, End, Slot
    <2>3. End(p) <= head /\ (End(p) < head => Begins(End(p)))
      BY <2>1, <2>2 DEF ChainInv, Grouped
    <2>4. End(p) \in Nat /\ tail <= End(p)
      BY <1>2, <2>1, Positions, SMT DEF End, ChainInv
    <2>5. ASSUME End(p) < head PROVE groupLengths'[Slot(End(p))] # 0
      BY <1>2, <2>3, <2>4, <2>5 DEF Begins
    <2> QED
      BY <2>2, <2>3, <2>5 DEF Begins, Slot
  <1>5. Walked'
    <2> SUFFICES ASSUME consumer.pc # "rest"
                 PROVE  Walked'
      BY DEF Walked
    <2>1. /\ tail + consumer.count \in Nat /\ tail <= tail + consumer.count
          /\ tail + consumer.count <= consumer.head /\ consumer.head <= head
      BY Positions, SMT DEF ChainInv, IInv, PopWithinBounds
    <2>2. tail' + consumer'.count < head' => Begins(tail + consumer.count)'
      BY <1>2, <2>1, Positions DEF ChainInv, Walked, Begins, Slot
    <2>3. ASSUME NEW p \in tail'..(consumer'.head - 1), Begins(p)'
          PROVE  End(p)' <= consumer'.head
      <3>1. p \in Nat /\ tail <= p /\ p < head /\ p \in tail..(consumer.head - 1)
        BY <2>1, Positions, SMT DEF ChainInv
      <3>2. Begins(p) /\ End(p)' = End(p)
        BY <1>2, <2>3, <3>1 DEF Begins, End, Slot
      <3> QED
        BY <3>1, <3>2 DEF ChainInv, Walked
    <2>4. ASSUME consumer'.pc = "copy", tail' + consumer'.count # consumer'.head
          PROVE  consumer'.count + groupLengths'[Slot(tail + consumer.count)] > consumer'.buffer
      <3>1. tail + consumer.count < head
        BY <2>1, <2>4, Positions, SMT DEF ChainInv
      <3> QED
        BY <1>2, <2>1, <2>4, <3>1 DEF ChainInv, Walked
    <2> QED
      BY <2>2, <2>3, <2>4 DEF Walked, Slot
  <1> QED
    BY <1>1, <1>3, <1>4, <1>5

LEMMA ChainInductive ==
    ASSUME RingAssumption, ChainInv, [Next]_vars
    PROVE  ChainInv'
  <1> USE DEF Resting, Waiting, ring, counters
  <1>0. IInv /\ IInv'
    BY Inductive DEF ChainInv
  <1>1. ASSUME NEW n \in Sizes, BeginPush(n) PROVE ChainInv'
    <2>1. UNCHANGED <<head, tail, groupLengths, consumer>>
      BY <1>1 DEF BeginPush
    <2>2. producer'.pc # "rest" => producer'.pc = "fill" /\ producer'.done = 0
      BY <1>0, <1>1 DEF BeginPush, IInv, TypeOK
    <2>3. Grouped'
      BY <2>1, <2>2, SMT DEF ChainInv, Grouped, Begins, End, Slot
    <2>4. Walked'
      BY <2>1 DEF ChainInv, Walked, Begins, End, Slot
    <2> QED
      BY <1>0, <2>3, <2>4 DEF ChainInv
  <1>2. ASSUME NEW buffer \in Buffers, BeginPop(buffer) PROVE ChainInv'
    <2>1. /\ UNCHANGED <<head, tail, groupLengths, producer>>
          /\ consumer' = [Waiting EXCEPT !.pc = "measure", !.buffer = buffer, !.head = head]
      BY <1>2 DEF BeginPop
    <2>2. Grouped'
      BY <2>1 DEF ChainInv, Grouped, Begins, End, Slot
    <2>3. consumer'.pc = "measure" /\ consumer'.count = 0 /\ consumer'.head = head
      BY <2>1
    <2>4. Walked'
      BY <2>1, <2>3, Positions, SMT DEF ChainInv, Grouped, Walked, Begins, End, Slot
    <2> QED
      BY <1>0, <2>2, <2>4 DEF ChainInv
  <1>3. CASE Fill
    <2> DEFINE w == head + producer.done
    <2>1. /\ groupLengths' = [groupLengths EXCEPT ![Slot(w)] = 0]
          /\ UNCHANGED <<head, tail, consumer>>
          /\ producer.pc = "fill" /\ producer' = [producer EXCEPT !.done = @ + 1]
      BY <1>3 DEF Fill
    <2>2. w \in Nat /\ head <= w /\ w < tail + Capacity
      BY <1>3, Positions, SMT DEF ChainInv, IInv, Bounded, Fill
    <2>3. producer'.pc = "fill" /\ producer'.done = producer.done + 1
      BY <1>0, <2>1 DEF IInv, TypeOK
    <2>4. \A i \in 1..(producer'.done - 1) : ~Begins(head + i)'
      <3> SUFFICES ASSUME NEW i \in 1..producer.done PROVE groupLengths'[Slot(head + i)] = 0
        BY <2>1, <2>3, Positions, SMT DEF ChainInv, Begins, Slot
      <3>1. CASE i = producer.done
        BY <1>0, <2>1, <2>2, <3>1, Positions DEF ChainInv, IInv, TypeOK
      <3>2. CASE i # producer.done
        <4>1. /\ i \in 1..(producer.done - 1) /\ head + i \in Nat
              /\ tail <= head + i /\ head + i < w
          BY <3>2, Positions, SMT DEF ChainInv
        <4>2. groupLengths[Slot(head + i)] = 0
          BY <2>1, <4>1 DEF ChainInv, Grouped, Begins
        <4>3. groupLengths'[Slot(head + i)] = groupLengths[Slot(head + i)]
          BY <2>1, <2>2, <4>1, ChainUndisturbed
        <4> QED
          BY <4>2, <4>3
      <3> QED
        BY <3>1, <3>2
    <2>5. Grouped' /\ Walked'
      BY <2>1, <2>2, <2>3, <2>4, ChainUndisturbed DEF Grouped
    <2> QED
      BY <1>0, <2>5 DEF ChainInv
  <1>4. CASE Close
    <2>1. /\ groupLengths' = [groupLengths EXCEPT ![Slot(head)] = producer.n]
          /\ UNCHANGED <<head, tail, consumer>>
          /\ producer.pc = "fill" /\ producer' = [producer EXCEPT !.pc = "publish"]
      BY <1>4 DEF Close
    <2>2. head \in Nat /\ head <= head /\ head < tail + Capacity
      BY <1>0, <2>1, Positions, SMT DEF ChainInv, IInv, Bounded
    <2>3. producer'.pc = "publish" /\ producer'.done = producer.done /\ producer'.n = producer.n
      BY <1>0, <2>1 DEF IInv, TypeOK
    <2>4. \A i \in 1..(producer'.done - 1) : ~Begins(head + i)'
      <3> SUFFICES ASSUME NEW i \in 1..(producer.done - 1)
                   PROVE  groupLengths'[Slot(head + i)] = 0
        BY <2>1, <2>3 DEF Begins, Slot
      <3>1. groupLengths[Slot(head + i)] = 0
        BY <2>1 DEF ChainInv, Grouped, Begins
      <3>2. head + i \in Nat /\ head < head + i /\ head + i < head + Capacity
        BY <1>0, <2>1, Positions, SMT DEF ChainInv, IInv, Bounded
      <3>3. Slot(head) # Slot(head + i) /\ Slot(head + i) \in Slots
        BY <2>2, <3>2, Elsewhere, SlotInRange
      <3> QED
        BY <1>0, <2>1, <3>1, <3>3 DEF IInv, TypeOK
    <2>5. groupLengths'[Slot(head)] = producer.n
      BY <1>0, <2>1, <2>2, SlotInRange DEF IInv, TypeOK
    <2>6. /\ tail' < head' => Begins(tail)'
          /\ \A p \in tail'..(head' - 1) :
                Begins(p)' => End(p)' <= head' /\ (End(p)' < head' => Begins(End(p))')
          /\ Walked'
      BY <2>1, <2>2, ChainUndisturbed
    <2>7. Grouped'
      BY <2>1, <2>4, <2>5, <2>6 DEF Grouped, Slot, Begins
    <2> QED
      BY <1>0, <2>6, <2>7 DEF ChainInv
  <1>5. CASE Publish
    <2>1. /\ head' = head + producer.n /\ UNCHANGED <<tail, groupLengths, consumer>>
          /\ producer' = Resting /\ producer.pc = "publish"
      BY <1>5 DEF Publish
    <2>2. /\ producer.n \in 1..Capacity /\ groupLengths[Slot(head)] = producer.n
          /\ producer.done = producer.n
          /\ \A i \in 1..(producer.n - 1) : ~Begins(head + i)
      BY <1>0, <2>1 DEF IInv, Bounded, Filled, ChainInv, Grouped
    <2>3. Begins(head) /\ End(head) = head'
      BY <2>1, <2>2, Positions, SMT DEF ChainInv, Begins, End
    <2>4. ASSUME NEW p \in tail'..(head' - 1), Begins(p)'
          PROVE  End(p)' <= head' /\ (End(p)' < head' => Begins(End(p))')
      <3>1. Begins(p) /\ p \in Nat /\ End(p)' = End(p) /\ (Begins(End(p))' <=> Begins(End(p)))
        BY <2>1, <2>4, Positions, SMT DEF ChainInv, Begins, End, Slot
      <3>2. CASE p < head
        <4>1. p \in tail..(head - 1)
          BY <2>1, <3>1, <3>2, Positions, SMT DEF ChainInv
        <4>2. End(p) <= head /\ (End(p) < head => Begins(End(p)))
          BY <3>1, <4>1 DEF ChainInv, Grouped
        <4>3. End(p) \in Nat /\ head \in Nat /\ head' \in Nat /\ head <= head'
          BY <2>1, <2>2, <3>1, Positions, SMT DEF ChainInv, End
        <4>4. End(p) <= head'
          BY <4>2, <4>3, SMT
        <4>5. CASE End(p) = head
          <5>1. Begins(End(p))
            BY <2>3, <4>5 DEF Begins
          <5> QED
            BY <3>1, <4>4, <5>1
        <4>6. CASE End(p) # head
          <5>1. End(p) < head
            BY <4>2, <4>3, <4>6, Positions, SMT DEF ChainInv
          <5> QED
            BY <3>1, <4>2, <4>4, <5>1
        <4> QED
          BY <4>5, <4>6
      <3>3. CASE p = head
        BY <2>1, <2>3, <3>1, <3>3, Positions, SMT DEF ChainInv
      <3>4. CASE p > head
        <4>1. p - head \in 1..(producer.n - 1) /\ head + (p - head) = p
          BY <2>1, <2>2, <3>1, <3>4, Positions, SMT DEF ChainInv
        <4> QED
          BY <2>2, <3>1, <4>1
      <3> QED
        BY <3>1, <3>2, <3>3, <3>4, Positions, SMT DEF ChainInv
    <2>5. tail' < head' => Begins(tail)'
      <3>1. Begins(tail)
        BY <2>3, Positions, SMT DEF ChainInv, Grouped
      <3> QED
        BY <2>1, <3>1 DEF Begins, Slot
    <2>6. Grouped'
      BY <2>1, <2>4, <2>5 DEF Grouped
    <2>7. Walked'
      <3> SUFFICES ASSUME consumer.pc # "rest" PROVE Walked'
        BY <2>1 DEF Walked
      <3>1. /\ tail + consumer.count \in Nat
            /\ tail + consumer.count <= consumer.head /\ consumer.head <= head
        BY <1>0, Positions, SMT DEF ChainInv, IInv, PopWithinBounds
      <3>2. Begins(tail + consumer.count)
        BY <2>3, <3>1, Positions, SMT DEF ChainInv, Walked
      <3> QED
        BY <2>1, <3>2 DEF ChainInv, Walked, Begins, End, Slot
    <2> QED
      BY <1>0, <2>6, <2>7 DEF ChainInv
  <1>6. CASE Measure
    <2> DEFINE n == groupLengths[Slot(tail + consumer.count)]
    <2>1. UNCHANGED <<head, tail, groupLengths, producer>>
      BY <1>6 DEF Measure
    <2>2. Grouped'
      BY <2>1 DEF ChainInv, Grouped, Begins, End, Slot
    <2>3. /\ consumer.pc = "measure" /\ tail + consumer.count \in Nat /\ n \in Nat
          /\ tail <= tail + consumer.count
          /\ tail + consumer.count <= consumer.head /\ consumer.head <= head
      BY <1>0, <1>6, Positions, SMT DEF ChainInv, IInv, PopWithinBounds, Measure
    <2>4. tail + consumer.count < consumer.head =>
             /\ n # 0 /\ tail + consumer.count + n <= consumer.head
             /\ tail + consumer.count + n < head => Begins(tail + consumer.count + n)
      <3> SUFFICES ASSUME tail + consumer.count < consumer.head
                   PROVE  /\ n # 0 /\ tail + consumer.count + n <= consumer.head
                          /\ tail + consumer.count + n < head => Begins(tail + consumer.count + n)
        OBVIOUS
      <3>1. /\ tail + consumer.count \in tail..(consumer.head - 1)
            /\ tail + consumer.count \in tail..(head - 1) /\ tail + consumer.count < head
        BY <2>3, Positions, SMT DEF ChainInv
      <3>2. Begins(tail + consumer.count)
        BY <2>3, <3>1 DEF ChainInv, Walked
      <3>3. End(tail + consumer.count) <= consumer.head
        BY <2>3, <3>1, <3>2 DEF ChainInv, Walked
      <3>4. End(tail + consumer.count) < head => Begins(End(tail + consumer.count))
        BY <3>1, <3>2 DEF ChainInv, Grouped
      <3> QED
        BY <3>2, <3>3, <3>4 DEF Begins, End
    <2>5. CASE /\ consumer.count < consumer.head - tail
               /\ n # 0 /\ n <= consumer.head - tail - consumer.count
               /\ n <= consumer.buffer - consumer.count
      <3>1. consumer' = [consumer EXCEPT !.count = @ + n]
        BY <1>6, <2>5 DEF Measure
      <3>2. consumer'.count = consumer.count + n /\ consumer'.head = consumer.head
            /\ consumer'.pc = "measure"
        BY <1>0, <2>3, <3>1 DEF IInv, TypeOK
      <3>3. tail + consumer'.count < head => Begins(tail + consumer'.count)
        <4>1. tail + consumer'.count = tail + consumer.count + n
              /\ tail + consumer.count < consumer.head
          BY <2>3, <2>5, <3>2, Positions, SMT DEF ChainInv
        <4> QED
          BY <2>4, <4>1
      <3> QED
        BY <1>0, <2>1, <2>2, <2>3, <3>2, <3>3 DEF ChainInv, Walked, Begins, End, Slot
    <2>6. CASE ~(/\ consumer.count < consumer.head - tail
                 /\ n # 0 /\ n <= consumer.head - tail - consumer.count
                 /\ n <= consumer.buffer - consumer.count)
      <3>1. consumer' = [consumer EXCEPT !.pc = "copy"]
        BY <1>6, <2>6 DEF Measure
      <3>2. /\ consumer'.count = consumer.count /\ consumer'.head = consumer.head
            /\ consumer'.pc = "copy" /\ consumer'.buffer = consumer.buffer
        BY <1>0, <2>3, <3>1 DEF IInv, TypeOK
      <3>3. tail + consumer.count = consumer.head \/ consumer.count + n > consumer.buffer
        BY <2>3, <2>4, <2>6, Positions, SMT DEF ChainInv
      <3> QED
        BY <1>0, <2>1, <2>2, <2>3, <3>2, <3>3 DEF ChainInv, Walked, Begins, End, Slot
    <2> QED
      BY <2>5, <2>6
  <1>7. CASE Copy
    <2>1. /\ UNCHANGED <<head, tail, groupLengths, producer>>
          /\ consumer' = [consumer EXCEPT !.done = @ + 1]
      BY <1>7 DEF Copy
    <2>2. /\ consumer'.pc = consumer.pc /\ consumer'.count = consumer.count
          /\ consumer'.head = consumer.head /\ consumer'.buffer = consumer.buffer
      BY <1>0, <2>1 DEF IInv, TypeOK
    <2> QED
      BY <1>0, <2>1, <2>2 DEF ChainInv, Grouped, Walked, Begins, End, Slot
  <1>8. CASE Release
    <2>1. /\ UNCHANGED <<head, groupLengths, producer>> /\ tail' = tail + consumer.count
          /\ consumer' = Waiting /\ consumer.pc = "copy"
      BY <1>8 DEF Release
    <2>2. tail' < head' => Begins(tail)'
      BY <2>1 DEF ChainInv, Walked, Begins, Slot
    <2>3. \A p \in tail'..(head' - 1) : p \in tail..(head - 1)
      BY <2>1, Positions, SMT DEF ChainInv
    <2>4. Grouped'
      BY <2>1, <2>2, <2>3 DEF ChainInv, Grouped, Begins, End, Slot
    <2> QED
      BY <1>0, <2>1, <2>4 DEF ChainInv, Walked
  <1>9. CASE TakeDroppedEvents \/ UNCHANGED vars
    <2>1. UNCHANGED <<head, tail, groupLengths, producer, consumer>>
      BY <1>9 DEF TakeDroppedEvents, vars
    <2> QED
      BY <1>0, <2>1 DEF ChainInv, Grouped, Walked, Begins, End, Slot
  <1> QED
    BY <1>1, <1>2, <1>3, <1>4, <1>5, <1>6, <1>7, <1>8, <1>9 DEF Next, Produce, Consume

-----------------------------------------------------------------------------
(* The ring is a queue of whole events *)

(* The groups between tail and head stand as they were. *)
LEMMA EndsStand ==
    ASSUME RingAssumption, ChainInv, UNCHANGED <<head, tail>>,
           \A p \in tail..(head - 1) : groupLengths'[Slot(p)] = groupLengths[Slot(p)]
    PROVE  /\ Ends' = Ends
           /\ Whole => Whole'
  <1>1. \A p \in tail..(head - 1) : /\ groupLengths'[Slot(p)'] = groupLengths[Slot(p)]
                                    /\ (Begins(p)' <=> Begins(p)) /\ End(p)' = End(p)
    BY DEF Begins, End, Slot
  <1>2. Starts' = Starts
    BY <1>1 DEF Starts, Begins
  <1>3. \A p \in Starts : End(p)' = End(p)
    BY <1>1 DEF Starts
  <1>4. Ends' = Ends
    BY <1>2, <1>3 DEF Ends
  <1>5. Whole => Whole'
    BY <1>1 DEF Whole
  <1> QED
    BY <1>4, <1>5

(* A write beyond the head leaves them so. *)
LEMMA WriteBeyond ==
    ASSUME RingAssumption, ChainInv, Fill \/ Close
    PROVE  \A p \in tail..(head - 1) : groupLengths'[Slot(p)] = groupLengths[Slot(p)]
  <1> SUFFICES ASSUME NEW p \in tail..(head - 1)
               PROVE  groupLengths'[Slot(p)] = groupLengths[Slot(p)]
    OBVIOUS
  <1>1. PICK w, n : /\ w \in Nat /\ head <= w /\ w < tail + Capacity
                    /\ groupLengths' = [groupLengths EXCEPT ![Slot(w)] = n]
    <2>1. CASE Fill
      <3>1. /\ head + producer.done \in Nat /\ head <= head + producer.done
            /\ head + producer.done < tail + Capacity
        BY <2>1, Positions, SMT DEF ChainInv, IInv, Bounded, Fill
      <3> QED
        BY <2>1, <3>1 DEF Fill
    <2>2. CASE Close
      <3>1. head \in Nat /\ head <= head /\ head < tail + Capacity
        BY <2>2, Positions, SMT DEF ChainInv, IInv, Bounded, Close
      <3> QED
        BY <2>2, <3>1 DEF Close
    <2> QED
      BY <2>1, <2>2
  <1>2. p \in Nat /\ p < w /\ w < p + Capacity
    BY <1>1, Positions, SMT DEF ChainInv
  <1>3. Slot(p) # Slot(w) /\ Slot(p) \in Slots
    BY <1>1, <1>2, Elsewhere, SlotInRange
  <1> QED
    BY <1>1, <1>3 DEF ChainInv, IInv, TypeOK

(* Publish makes one group more of the one that was written. *)
LEMMA PublishAppends ==
    ASSUME RingAssumption, ChainInv, Publish
    PROVE  /\ producer.n \in 1..(Capacity - (head - tail))
           /\ Ends' = Ends \cup {head + producer.n}
           /\ Whole => Whole'
  <1> DEFINE n == producer.n
  <1>1. /\ head' = head + n /\ UNCHANGED <<tail, groupLengths>> /\ producer.pc = "publish"
    BY DEF Publish, ring
  <1>2. /\ n \in 1..Capacity /\ groupLengths[Slot(head)] = n /\ producer.done = n
        /\ \A i \in 1..(n - 1) : ~Begins(head + i)
    BY <1>1 DEF IInv, Bounded, Filled, ChainInv, Grouped
  <1>3. n \in 1..(Capacity - (head - tail))
    BY <1>1, <1>2, Positions, SMT DEF ChainInv, IInv, Bounded
  <1>4. head \in Nat /\ tail \in Nat /\ tail <= head /\ n \in Nat
    BY <1>2, Positions DEF ChainInv
  <1>5. \A q \in head..(head + n - 1) : Begins(q) => q = head
    <2> SUFFICES ASSUME NEW q \in head..(head + n - 1), q # head PROVE ~Begins(q)
      OBVIOUS
    <2>1. q - head \in 1..(n - 1) /\ head + (q - head) = q
      BY <1>4, SMT
    <2> QED
      BY <1>2, <2>1
  <1>6. Begins(head) /\ End(head) = head + n
    BY <1>2, <1>4 DEF Begins, End
  <1>7. tail' = tail /\ head' = head + n /\ groupLengths' = groupLengths
    BY <1>1
  <1> HIDE DEF n
  <1>8. \A p : End(p)' = End(p) /\ (Begins(p)' <=> Begins(p))
    BY <1>7 DEF End, Begins, Slot
  <1>9. tail'..(head' - 1) = tail..(head + n - 1)
    <2>1. tail' = tail /\ head' = head + n
      BY <1>7
    <2>2. head' - 1 = head + n - 1
      BY <1>4, <2>1, SMT
    <2> QED
      BY <2>1, <2>2
  <1>10. Starts' = Starts \cup {head}
    <2>1. \A p : p \in Starts' <=> p \in tail'..(head' - 1) /\ Begins(p)'
      BY DEF Starts, Begins
    <2>2. \A p : p \in Starts <=> p \in tail..(head - 1) /\ Begins(p)
      BY DEF Starts, Begins
    <2>3. ASSUME NEW p
          PROVE  /\ p \in tail..(head + n - 1) /\ Begins(p) => p \in tail..(head - 1) \/ p = head
                 /\ p \in tail..(head - 1) \/ p = head => p \in tail..(head + n - 1)
      <3>1. /\ p \in tail..(head + n - 1) =>
                  p \in tail..(head - 1) \/ p \in head..(head + n - 1)
            /\ p \in tail..(head - 1) \/ p = head => p \in tail..(head + n - 1)
        BY <1>2, <1>4, SMT DEF n
      <3> QED
        BY <1>5, <3>1
    <2> QED
      BY <1>6, <1>8, <1>9, <2>1, <2>2, <2>3, Zenon
  <1>11. Ends' = Ends \cup {head + n}
    BY <1>6, <1>8, <1>10 DEF Ends
  <1>12. Whole => Whole'
    <2> SUFFICES ASSUME Whole, NEW p \in tail..(head + n - 1), NEW q \in tail..(head + n - 1),
                        Begins(p), Begins(q), p < q
                 PROVE  End(p) <= q
      BY <1>8, <1>9, Zenon DEF Whole
    <2>1. CASE p >= head
      <3>1. p \in head..(head + n - 1) /\ q \in head..(head + n - 1)
        BY <1>4, <2>1, SMT
      <3> QED
        BY <1>4, <1>5, <3>1, SMT
    <2>2. CASE p < head
      <3>1. p \in tail..(head - 1)
        BY <1>4, <2>2, SMT
      <3>2. CASE q < head
        <4>1. q \in tail..(head - 1)
          BY <1>4, <3>2, SMT
        <4> QED
          BY <3>1, <4>1 DEF Whole
      <3>3. CASE q >= head
        <4>1. End(p) <= head
          BY <3>1 DEF ChainInv, Grouped
        <4>2. q \in head..(head + n - 1)
          BY <1>4, <3>3, SMT
        <4> QED
          BY <1>5, <4>1, <4>2
      <3> QED
        BY <1>4, <3>2, <3>3, SMT
    <2> QED
      BY <1>4, <2>1, <2>2, SMT
  <1> QED
    BY <1>3, <1>11, <1>12 DEF n

(* Release takes whole groups, the oldest ones. *)
LEMMA ReleaseTakes ==
    ASSUME RingAssumption, QueueInv, Release
    PROVE  /\ consumer.count = 0 => UNCHANGED <<tail, Ends>>
           /\ consumer.count > 0 => tail' \in Ends /\ Ends' = {e \in Ends : e > tail'}
           /\ Whole'
  <1> DEFINE c == tail + consumer.count
  <1>1. /\ tail' = c /\ UNCHANGED <<head, groupLengths>> /\ consumer.pc # "rest"
    BY DEF Release, ring
  <1>2. /\ head \in Nat /\ tail \in Nat /\ consumer.count \in Nat /\ c \in Nat
        /\ tail <= c /\ c <= head
    BY <1>1, Positions, SMT DEF QueueInv, ChainInv, IInv, PopWithinBounds
  <1>3. c < head => Begins(c)
    BY <1>1 DEF QueueInv, ChainInv, Walked
  <1>4. \A p : End(p)' = End(p) /\ (Begins(p)' <=> Begins(p))
    BY <1>1 DEF End, Begins, Slot
  <1>5. c..(head - 1) \subseteq tail..(head - 1)
    BY <1>2, SMT
  <1>6. tail'..(head' - 1) = c..(head - 1)
    BY <1>1
  <1> HIDE DEF c
  <1>7. ASSUME NEW p \in Starts PROVE p \in c..(head - 1) <=> End(p) > c
    <2>1. p \in tail..(head - 1) /\ Begins(p) /\ End(p) <= head
      BY DEF Starts, Begins, QueueInv, ChainInv, Grouped
    <2>2. p \in Nat /\ End(p) \in Nat /\ End(p) > p
      BY <2>1, Positions, SMT DEF Begins, End, QueueInv, ChainInv
    <2>3. CASE p < c
      <3>1. End(p) <= c
        <4>1. CASE c = head
          BY <2>1, <4>1
        <4>2. CASE c < head
          <5>1. c \in tail..(head - 1)
            BY <1>2, <4>2, SMT
          <5> QED
            BY <1>3, <2>1, <2>3, <4>2, <5>1 DEF QueueInv, Whole
        <4> QED
          BY <1>2, <4>1, <4>2, SMT
      <3> QED
        BY <1>2, <2>2, <2>3, <3>1, SMT
    <2>4. CASE p >= c
      BY <1>2, <2>1, <2>2, <2>4, SMT
    <2> QED
      BY <1>2, <2>2, <2>3, <2>4, SMT
  <1>8. \A p : p \in Starts' <=> p \in Starts /\ p \in c..(head - 1)
    <2>1. \A p : p \in Starts' <=> p \in c..(head - 1) /\ Begins(p)
      BY <1>4, <1>6, Zenon DEF Starts, Begins
    <2>2. \A p : p \in Starts <=> p \in tail..(head - 1) /\ Begins(p)
      BY DEF Starts, Begins
    <2> QED
      BY <1>5, <2>1, <2>2, Zenon
  <1>9. Ends' = {e \in Ends : e > c}
    <2>1. Ends' = {End(p) : p \in Starts'}
      BY <1>4 DEF Ends
    <2> QED
      BY <1>7, <1>8, <2>1 DEF Ends
  <1>10. consumer.count = 0 => Ends' = Ends
    <2>1. ASSUME consumer.count = 0 PROVE c = tail
      BY <1>2, <2>1, SMT DEF c
    <2>2. ASSUME NEW p \in Starts, consumer.count = 0 PROVE p \in c..(head - 1)
      BY <2>1, <2>2 DEF Starts
    <2> QED
      BY <1>7, <1>9, <2>2 DEF Ends
  <1>11. consumer.count > 0 => c \in Ends
    BY <1>1 DEF QueueInv, AtEnd, c
  <1>12. Whole'
    BY <1>4, <1>5, <1>6, Zenon DEF Whole, QueueInv
  <1>13. consumer.count = 0 => c = tail
    BY <1>2, SMT DEF c
  <1>14. tail' = c
    BY <1>1 DEF c
  <1> QED
    BY <1>9, <1>10, <1>11, <1>12, <1>13, <1>14

LEMMA QueueInitially == RingAssumption /\ Init => QueueInv
  <1> SUFFICES ASSUME RingAssumption, Init PROVE QueueInv
    OBVIOUS
  <1>1. ChainInv
    BY ChainInitially
  <1>2. Whole /\ AtEnd /\ Sized
    BY SMT DEF Init, Whole, AtEnd, Sized, Waiting, Resting
  <1> QED
    BY <1>1, <1>2 DEF QueueInv

(* Every step of the ring keeps the invariant and is a step of the queue. *)
LEMMA QueueStep ==
    ASSUME RingAssumption, QueueInv, [Next]_vars
    PROVE  QueueInv' /\ [Abstract!Next]_(Abstract!vars)
  <1> USE DEF ring, counters
  <1>0. ChainInv /\ ChainInv' /\ IInv
    BY ChainInductive DEF QueueInv, ChainInv
  <1> DEFINE Goal == Whole' /\ AtEnd' /\ [Abstract!Next]_(Abstract!vars)
  <1>s. Sized'
    <2> USE DEF Sized, QueueInv, Resting
    <2>1. ASSUME NEW n \in Sizes, BeginPush(n) PROVE Sized'
      BY <2>1 DEF BeginPush
    <2>2. ASSUME NEW buffer \in Buffers, BeginPop(buffer) PROVE Sized'
      BY <2>2 DEF BeginPop
    <2>3. CASE Produce
      BY <1>0, <2>3 DEF Produce, Fill, Close, Publish, IInv, TypeOK
    <2>4. CASE Consume \/ TakeDroppedEvents \/ UNCHANGED vars
      BY <2>4 DEF Consume, Measure, Copy, Release, TakeDroppedEvents, vars
    <2> QED
      BY <2>1, <2>2, <2>3, <2>4 DEF Next
  <1> SUFFICES Goal
    BY <1>0, <1>s DEF QueueInv
  <1>1. ASSUME UNCHANGED <<head, tail>>, Ends' = Ends, Whole',
               dropped' = dropped \/ Abstract!Drop \/ Abstract!TakeDroppedEvents, AtEnd'
        PROVE  Goal
    BY <1>1, Zenon DEF Abstract!Next, Abstract!vars
  <1>2. ASSUME UNCHANGED <<head, tail, groupLengths>> PROVE Ends' = Ends /\ Whole'
    <2>1. \A p \in tail..(head - 1) : groupLengths'[Slot(p)] = groupLengths[Slot(p)]
      BY <1>2
    <2> QED
      BY <1>0, <1>2, <2>1, EndsStand DEF QueueInv
  <1>3. ASSUME UNCHANGED <<tail, consumer>>, Ends \subseteq Ends' PROVE AtEnd'
    BY <1>3 DEF QueueInv, AtEnd
  <1>4. ASSUME NEW n \in Sizes, BeginPush(n) PROVE Goal
    <2>1. /\ UNCHANGED <<head, tail, groupLengths, consumer>>
          /\ dropped' = dropped \/ (~Fits(n) /\ dropped' = dropped + 1)
      BY <1>4 DEF BeginPush
    <2>2. ~Fits(n) => n \notin 1..(Capacity - (head - tail))
      BY <1>0, Positions, SMT DEF Fits, ChainInv, IInv, Bounded, RingAssumption
    <2>3. Ends' = Ends /\ Whole' /\ AtEnd'
      BY <1>2, <1>3, <2>1
    <2>4. dropped' = dropped \/ Abstract!Drop
      BY <2>1, <2>2, <2>3 DEF Abstract!Drop, Abstract!free
    <2> HIDE DEF Goal
    <2> QED
      BY <1>1, <2>1, <2>3, <2>4
  <1>5. ASSUME NEW buffer \in Buffers, BeginPop(buffer) PROVE Goal
    <2>1. UNCHANGED <<head, tail, groupLengths, dropped>> /\ consumer'.count = 0
      BY <1>5 DEF BeginPop, Waiting
    <2>2. AtEnd'
      BY <2>1 DEF AtEnd
    <2> HIDE DEF Goal
    <2> QED
      BY <1>1, <1>2, <2>1, <2>2
  <1>6. CASE Fill \/ Close
    <2>1. UNCHANGED <<head, tail, consumer, dropped>>
      BY <1>6 DEF Fill, Close
    <2>2. Ends' = Ends /\ Whole'
      BY <1>0, <1>6, <2>1, WriteBeyond, EndsStand DEF QueueInv
    <2> HIDE DEF Goal
    <2> QED
      BY <1>1, <1>3, <2>1, <2>2
  <1>7. CASE Publish
    <2>1. /\ head' = head + producer.n /\ UNCHANGED <<tail, consumer, dropped>>
      BY <1>7 DEF Publish
    <2>2. /\ producer.n \in 1..(Capacity - (head - tail))
          /\ Ends' = Ends \cup {head + producer.n} /\ Whole'
      BY <1>0, <1>7, PublishAppends DEF QueueInv
    <2>3. AtEnd'
      BY <1>3, <2>1, <2>2
    <2>4. Abstract!Push(producer.n)
      BY <2>1, <2>2 DEF Abstract!Push, Abstract!free
    <2>5. producer.n \in Sizes
      BY <1>7 DEF Publish, QueueInv, Sized
    <2> QED
      BY <2>2, <2>3, <2>4, <2>5, Zenon DEF Abstract!Next
  <1>8. CASE Measure
    <2> DEFINE c == tail + consumer.count
               n == groupLengths[Slot(c)]
    <2>1. UNCHANGED <<head, tail, groupLengths, dropped>>
      BY <1>8 DEF Measure
    <2>2. Ends' = Ends /\ Whole'
      BY <1>2, <2>1
    <2>3. /\ consumer.pc = "measure" /\ c \in Nat /\ n \in Nat /\ consumer.count \in Nat
          /\ tail <= c /\ c <= consumer.head /\ consumer.head <= head
      BY <1>0, <1>8, Positions, SMT DEF IInv, PopWithinBounds, Measure
    <2>4. ASSUME consumer.count < consumer.head - tail, n # 0,
                 consumer' = [consumer EXCEPT !.count = @ + n]
          PROVE  AtEnd'
      <3>1. c \in tail..(head - 1)
        BY <1>0, <2>3, <2>4, Positions, SMT
      <3>2. End(c) \in Ends
        BY <2>4, <3>1 DEF Ends, Starts
      <3>3. consumer'.count = consumer.count + n /\ End(c) = tail' + consumer'.count
        <4>1. consumer'.count = consumer.count + n
          BY <1>0, <2>4 DEF IInv, TypeOK
        <4>2. tail \in Nat /\ tail' = tail /\ End(c) = c + n
          BY <1>0, <2>1, Positions DEF End
        <4> QED
          BY <2>3, <4>1, <4>2, SMT
      <3> QED
        BY <2>2, <3>2, <3>3 DEF AtEnd
    <2>5. ASSUME consumer' = [consumer EXCEPT !.pc = "copy"] PROVE AtEnd'
      <3>1. consumer'.count = consumer.count /\ consumer.pc # "rest"
        BY <1>0, <2>3, <2>5 DEF IInv, TypeOK
      <3> QED
        BY <2>1, <2>2, <3>1 DEF QueueInv, AtEnd
    <2>6. AtEnd'
      BY <1>8, <2>4, <2>5, Zenon DEF Measure
    <2> HIDE DEF Goal
    <2> QED
      BY <1>1, <2>1, <2>2, <2>6
  <1>9. CASE Copy
    <2>1. /\ UNCHANGED <<head, tail, groupLengths, dropped>>
          /\ consumer' = [consumer EXCEPT !.done = @ + 1]
      BY <1>9 DEF Copy
    <2>2. consumer'.pc = consumer.pc /\ consumer'.count = consumer.count
      BY <1>0, <2>1 DEF IInv, TypeOK
    <2>3. Ends' = Ends /\ Whole'
      BY <1>2, <2>1
    <2>4. AtEnd'
      BY <2>1, <2>2, <2>3 DEF QueueInv, AtEnd
    <2> HIDE DEF Goal
    <2> QED
      BY <1>1, <2>1, <2>3, <2>4
  <1>10. CASE Release
    <2>1. UNCHANGED <<head, dropped>> /\ consumer' = Waiting
      BY <1>10 DEF Release
    <2>2. AtEnd'
      BY <2>1 DEF AtEnd, Waiting
    <2>3. CASE consumer.count = 0
      <3> HIDE DEF Goal
      <3> QED
        BY <1>1, <1>10, <2>1, <2>2, <2>3, ReleaseTakes
    <2>4. CASE consumer.count > 0
      <3>1. Abstract!Pop
        BY <1>10, <2>1, <2>4, ReleaseTakes DEF Abstract!Pop
      <3> QED
        BY <1>10, <2>2, <3>1, ReleaseTakes, Zenon DEF Abstract!Next
    <2>5. consumer.count \in Nat
      BY <1>0 DEF IInv, TypeOK
    <2> HIDE DEF Goal
    <2> QED
      BY <2>3, <2>4, <2>5, SMT
  <1>11. CASE TakeDroppedEvents
    <2>1. UNCHANGED <<head, tail, groupLengths, consumer>> /\ dropped' = 0
      BY <1>11 DEF TakeDroppedEvents
    <2>2. Ends' = Ends /\ Whole' /\ AtEnd'
      BY <1>2, <1>3, <2>1
    <2>3. Abstract!TakeDroppedEvents
      BY <2>1, <2>2 DEF Abstract!TakeDroppedEvents
    <2> HIDE DEF Goal
    <2> QED
      BY <1>1, <2>1, <2>2, <2>3
  <1>12. CASE UNCHANGED vars
    <2>1. UNCHANGED <<head, tail, groupLengths, consumer, dropped>>
      BY <1>12 DEF vars
    <2> HIDE DEF Goal
    <2> QED
      BY <1>1, <1>2, <1>3, <2>1
  <1>13. Goal
    <2> HIDE DEF Goal
    <2> QED
      BY <1>4, <1>5, <1>6, <1>7, <1>8, <1>9, <1>10, <1>11, <1>12 DEF Next, Produce, Consume
  <1> QED
    BY <1>0, <1>13 DEF QueueInv

LEMMA QueueStarts == Init => Abstract!Init
  <1> SUFFICES ASSUME Init PROVE Abstract!Init
    OBVIOUS
  <1>1. head = 0 /\ tail = 0 /\ dropped = 0
    BY DEF Init
  <1>2. tail..(head - 1) = {}
    BY <1>1, SMT
  <1>3. Ends = {}
    BY <1>2 DEF Ends, Starts
  <1> QED
    BY <1>1, <1>3 DEF Abstract!Init

(* The ring is a bounded first-in first-out queue of whole events, for every
   capacity, every set of group sizes and every buffer: what Publish, Release
   and the exchange of the dropped count do at once is a push, a pop and a take,
   and everything else is invisible (trace_ring.h 28-93). *)
THEOREM RingIsQueue == Spec => ImplementsQueue
  <1>1. Init => QueueInv /\ Abstract!Init
    BY QueueInitially, QueueStarts, RingAssumption
  <1>2. QueueInv /\ [Next]_vars => QueueInv' /\ [Abstract!Next]_(Abstract!vars)
    BY QueueStep, RingAssumption
  <1> QED
    BY <1>1, <1>2, PTL DEF Spec, ImplementsQueue, Abstract!Spec

-----------------------------------------------------------------------------
(* The sink *)

(* Whatever the sink does is a step of the ring or leaves it alone. *)
LEMMA RingStep == SinkNext => [Next]_vars
  <1> SUFFICES ASSUME SinkNext PROVE [Next]_vars
    OBVIOUS
  <1>1. CASE StartAccepting \/ StopBinarySink
    BY <1>1 DEF StartAccepting, StopBinarySink, StopAccepting, RequestStop, Join
  <1>2. CASE AttachFlightThread \/ SeesAccepting \/ UnregisteredSeesAccepting \/ UnregisteredCounts
    BY <1>2 DEF AttachFlightThread, SeesAccepting, UnregisteredSeesAccepting, UnregisteredCounts
  <1>3. ASSUME NEW n \in Sizes, Pushes(n) PROVE [Next]_vars
    BY <1>3 DEF Pushes, Next
  <1>4. CASE Pushing
    BY <1>4 DEF Pushing, Next
  <1>5. CASE BeginPass \/ DrainUnregistered \/ DrainAttach
    BY <1>5 DEF BeginPass, DrainUnregistered, DrainAttach
  <1>6. CASE DrainDropped
    BY <1>6 DEF DrainDropped, Next
  <1>7. CASE DrainPop
    BY <1>7, SinkAssumption DEF DrainPop, Next, SinkAssumption
  <1>8. CASE Popping \/ DrainWrite
    BY <1>8 DEF Popping, DrainWrite, Next, Consume
  <1> QED
    BY <1>1, <1>2, <1>3, <1>4, <1>5, <1>6, <1>7, <1>8 DEF SinkNext, BinaryDrainer

LEMMA SinkInitially == RingAssumption /\ SinkAssumption /\ SinkInit => SinkInv
  <1> SUFFICES ASSUME RingAssumption, SinkAssumption, SinkInit PROVE SinkInv
    OBVIOUS
  <1>1. ChainInv
    BY ChainInitially DEF SinkInit
  <1>2. SinkTypeOK
    <2>1. Nothing \in FileType
      BY DEF Nothing, FileType
    <2> QED
      BY <1>1, <2>1 DEF SinkInit, SinkTypeOK, DrainerType, ChainInv, IInv
  <1>3. Written /\ Drained /\ Stopped /\ Attached /\ CaughtUp
    BY SMT DEF SinkInit, Init, Written, Drained, Stopped, Attached, CaughtUp, Nothing, Resting, Waiting
  <1> QED
    BY <1>1, <1>2, <1>3 DEF SinkInv

(* A push leaves the groups in the ring, the oldest among them, as they are. *)
LEMMA LeftOverStays ==
    ASSUME RingAssumption, ChainInv, Pushing, LeftForLackOfRoom
    PROVE  LeftForLackOfRoom'
  <1>1. /\ head > tail /\ drainer' = drainer /\ tail' = tail
        /\ drainer.drained + groupLengths[Slot(tail)] > DrainCapacity
    BY DEF Pushing, sinkVars, LeftForLackOfRoom, Produce, Fill, Close, Publish, ring, counters
  <1>2. CASE Publish
    <2>1. head' > tail
      BY <1>1, <1>2, Positions, SMT DEF ChainInv, Publish
    <2> QED
      BY <1>1, <1>2, <2>1 DEF Publish, LeftForLackOfRoom, ring, Slot
  <1>3. CASE Fill
    <2> DEFINE w == head + producer.done
    <2>1. /\ groupLengths' = [groupLengths EXCEPT ![Slot(w)] = 0] /\ head' = head
          /\ w \in Nat /\ tail < w /\ w < tail + Capacity
      BY <1>1, <1>3, Positions, SMT DEF ChainInv, IInv, Bounded, Fill
    <2>2. Slot(tail) # Slot(w) /\ Slot(tail) \in Slots
      BY <2>1, Elsewhere, Positions DEF ChainInv
    <2> QED
      BY <1>1, <2>1, <2>2 DEF LeftForLackOfRoom, Slot, ChainInv, IInv, TypeOK
  <1>4. CASE Close
    <2>1. /\ groupLengths' = [groupLengths EXCEPT ![Slot(head)] = producer.n] /\ head' = head
          /\ head \in Nat /\ tail < head /\ head < tail + Capacity
      BY <1>1, <1>4, Positions, SMT DEF ChainInv, IInv, Bounded, Close
    <2>2. Slot(tail) # Slot(head) /\ Slot(tail) \in Slots
      BY <2>1, Elsewhere, Positions DEF ChainInv
    <2> QED
      BY <1>1, <2>1, <2>2 DEF LeftForLackOfRoom, Slot, ChainInv, IInv, TypeOK
  <1> QED
    BY <1>2, <1>3, <1>4 DEF Pushing, Produce

(* What the steps of Initialize, Shutdown and the recording threads leave
   alone: neither the file nor the drainer. *)
LEMMA SinkInductiveThreads ==
    ASSUME RingAssumption, SinkAssumption, SinkInv, ChainInv',
           \/ StartAccepting \/ StopBinarySink \/ AttachFlightThread \/ SeesAccepting
           \/ (\E n \in Sizes : Pushes(n)) \/ Pushing
           \/ UnregisteredSeesAccepting \/ UnregisteredCounts
    PROVE  SinkInv'
  <1> USE DEF Resting, Waiting
  <1>0. TypeOK /\ TypeOK' /\ Bounded
    BY DEF SinkInv, ChainInv, IInv
  <1>1. CASE StartAccepting
    <2>1. SinkTypeOK'
      BY <1>0, <1>1 DEF StartAccepting, SinkInv, SinkTypeOK, threads
    <2>2. Written' /\ Drained' /\ Stopped' /\ Attached' /\ CaughtUp'
      BY <1>1 DEF StartAccepting, SinkInv, Written, Drained, Stopped, Attached, CaughtUp,
         LeftForLackOfRoom, vars, ring, counters, Slot, threads
    <2> QED
      BY <2>1, <2>2 DEF SinkInv
  <1>2. CASE StopAccepting
    <2>1. atStop' \in FileType
      BY <1>0, <1>2, SMT DEF StopAccepting, SinkInv, SinkTypeOK, FileType, TypeOK
    <2>2. SinkTypeOK'
      BY <1>0, <1>2, <2>1 DEF StopAccepting, SinkInv, SinkTypeOK, threads
    <2>3. /\ UNCHANGED <<head, tail, dropped, reported, producer, consumer, unregistered, file,
                         writeFailed, stopRequested, recorder, drainer, groupLengths>>
          /\ main = "running" /\ main' = "stopping"
          /\ atStop'.records = head /\ atStop'.dropped = dropped + reported
          /\ atStop'.unregistered = unregistered + file.unregistered
          /\ atStop'.attached = (head > 0)
      BY <1>2 DEF StopAccepting, vars, ring, counters, threads
    <2>4. recorder \notin {"unattached", "assigned"} => recorder \in {"idle", "accepted"}
      BY DEF SinkInv, SinkTypeOK
    <2>5. ~stopRequested /\ (drainer.last => writeFailed)
      BY <2>3 DEF SinkInv, Stopped, Drained
    <2>6. Stopped'
      BY <1>0, <2>3, <2>4, <2>5, SMT DEF SinkInv, SinkTypeOK, FileType, TypeOK, Stopped, Attached
    <2>7. Written' /\ Drained' /\ Attached' /\ CaughtUp'
      BY <2>3, <2>5 DEF SinkInv, Written, Drained, Attached, CaughtUp
    <2> QED
      BY <2>2, <2>6, <2>7 DEF SinkInv
  <1>3. CASE RequestStop \/ Join
    <2>1. /\ UNCHANGED <<vars, accepting, writeFailed, unregistered, threads, drainer, file,
                         failures, atStop>>
          /\ \/ main = "stopping" /\ main' = "joining" /\ stopRequested'
             \/ main' = "closed" /\ UNCHANGED stopRequested /\ drainer.at = "done" 
                                  /\ main = "joining"
          /\ stopRequested' \in BOOLEAN
      BY <1>3 DEF RequestStop, Join, gates, SinkInv, SinkTypeOK
    <2>2. SinkTypeOK'
      BY <1>0, <2>1 DEF SinkInv, SinkTypeOK, threads
    <2>3. UNCHANGED <<head, tail, dropped, reported, producer, consumer, recorder, groupLengths>>
      BY <2>1 DEF vars, ring, counters, threads
    <2>4. Written' /\ Attached' /\ CaughtUp'
      BY <2>1, <2>3 DEF SinkInv, Written, Attached, CaughtUp, LeftForLackOfRoom, Slot
    <2>5. Drained' /\ Stopped'
      BY <2>1, <2>3 DEF SinkInv, Drained, Stopped
    <2> QED
      BY <2>2, <2>4, <2>5 DEF SinkInv
  <1>4. CASE \/ AttachFlightThread \/ SeesAccepting
             \/ UnregisteredSeesAccepting \/ UnregisteredCounts
    <2>1. /\ UNCHANGED <<vars, gates, drainer, main, file, failures, atStop>>
          /\ \/ UNCHANGED recorder
             \/ recorder = "unattached" /\ recorder' = "assigned"
             \/ recorder' \in {"idle", "accepted"}
          /\ unregistered' = unregistered \/ unregistered' = unregistered + 1
          /\ other' \in {other, "idle", "accepted"}
      BY <1>4 DEF AttachFlightThread, SeesAccepting, UnregisteredSeesAccepting, UnregisteredCounts
    <2>2. SinkTypeOK'
      <3>1. unregistered' \in Nat
        BY <2>1, SMT DEF SinkInv, SinkTypeOK
      <3> QED
        BY <1>0, <2>1, <3>1 DEF SinkInv, SinkTypeOK, gates
    <2>3. UNCHANGED <<head, tail, dropped, reported, producer, consumer, groupLengths,
                      stopRequested, writeFailed, drainer, main, file, atStop>>
      BY <2>1 DEF vars, ring, counters, gates
    <2>4. Written' /\ Drained' /\ CaughtUp'
      BY <2>3 DEF SinkInv, Written, Drained, CaughtUp, LeftForLackOfRoom, Slot
    <2>5. Attached'
      BY <2>1, <2>3 DEF SinkInv, Attached
    <2>6. Stopped'
      BY <2>1, <2>3, SMT DEF SinkInv, SinkTypeOK, FileType, Stopped
    <2> QED
      BY <2>2, <2>4, <2>5, <2>6 DEF SinkInv
  <1>5. ASSUME NEW n \in Sizes, Pushes(n) PROVE SinkInv'
    <2>1. /\ UNCHANGED <<gates, unregistered, other, drainer, main, file, failures, atStop>>
          /\ recorder = "accepted" /\ recorder' = "idle" /\ BeginPush(n)
      BY <1>5 DEF Pushes
    <2>2. SinkTypeOK'
      BY <1>0, <2>1 DEF SinkInv, SinkTypeOK, gates
    <2>3. /\ UNCHANGED <<head, tail, reported, consumer, groupLengths,
                         stopRequested, writeFailed, drainer, main, file, atStop, unregistered>>
          /\ dropped' \in {dropped, dropped + 1}
      BY <2>1 DEF BeginPush, ring, gates
    <2>4. Written' /\ Drained' /\ CaughtUp' /\ Attached'
      BY <2>1, <2>3 DEF SinkInv, Written, Drained, CaughtUp, Attached, LeftForLackOfRoom, Slot
    <2>5. Stopped'
      BY <1>0, <2>1, <2>3, SMT DEF SinkInv, SinkTypeOK, FileType, TypeOK, Stopped
    <2> QED
      BY <2>2, <2>4, <2>5 DEF SinkInv
  <1>6. CASE Pushing
    <2>1. UNCHANGED <<gates, unregistered, threads, drainer, main, file, failures, atStop>>
      BY <1>6 DEF Pushing, sinkVars
    <2>2. /\ UNCHANGED <<tail, dropped, reported, consumer>>
          /\ head' = head \/ head' = head + producer.n
          /\ producer.pc # "rest"
      BY <1>6 DEF Pushing, Produce, Fill, Close, Publish, ring, counters
    <2>3. SinkTypeOK'
      BY <1>0, <2>1 DEF SinkInv, SinkTypeOK, gates, threads
    <2>4. head \in Nat /\ head' \in Nat /\ head <= head'
      BY <1>0, <2>2, SMT DEF TypeOK
    <2>5. Written' /\ Drained' /\ Attached'
      BY <2>1, <2>2 DEF SinkInv, Written, Drained, Attached, gates, threads
    <2>6. Stopped'
      BY <1>0, <2>1, <2>2, <2>4, SMT DEF SinkInv, SinkTypeOK, FileType, TypeOK, Stopped, gates, threads
    <2>7. LeftForLackOfRoom => LeftForLackOfRoom'
      BY <1>6, LeftOverStays DEF SinkInv
    <2>8. CaughtUp'
      BY <2>1, <2>2, <2>7 DEF SinkInv, CaughtUp, gates
    <2> QED
      BY <2>3, <2>5, <2>6, <2>8 DEF SinkInv
  <1> QED
    BY <1>1, <1>2, <1>3, <1>4, <1>5, <1>6 DEF StopBinarySink

(* Events taken from a ring or a counter are still counted: what Shutdown found
   stays accounted for, and a thread that is not attached has left no trace. *)
LEMMA StopStands ==
    ASSUME SinkInv, ChainInv', RingAssumption,
           UNCHANGED <<head, producer, stopRequested, recorder, main, atStop>>,
           dropped' + reported' = dropped + reported,
           ~writeFailed' => /\ ~writeFailed
                            /\ unregistered' + file'.unregistered = unregistered + file.unregistered,
           drainer.at # "done"
    PROVE  Stopped' /\ Attached'
  <1>1. /\ TypeOK' /\ tail' <= head' /\ dropped' \in Nat /\ reported' \in Nat /\ tail' \in Nat
    BY DEF ChainInv, IInv, Bounded, TypeOK
  <1>2. Stopped'
    BY SMT DEF SinkInv, Stopped
  <1>3. Attached'
    <2> SUFFICES ASSUME recorder \in {"unattached", "assigned"} PROVE Attached'
      BY DEF Attached
    <2>1. head = 0 /\ dropped = 0 /\ reported = 0 /\ producer.pc = "rest"
      BY DEF SinkInv, Attached
    <2>2. head' = 0 /\ producer'.pc = "rest"
      BY <2>1
    <2>3. dropped' + reported' = 0
      BY <2>1
    <2>4. tail' = 0
      BY <1>1, <2>2, SMT
    <2>5. dropped' = 0 /\ reported' = 0
      <3>1. \A a, b \in Nat : a + b = 0 => a = 0 /\ b = 0
        BY SMT
      <3> QED
        BY <1>1, <2>3, <3>1, Zenon
    <2> QED
      BY <2>2, <2>4, <2>5 DEF Attached
  <1> QED
    BY <1>2, <1>3

(* The last pass begins after Shutdown has ended the recording. *)
LEMMA LastPass ==
    ASSUME SinkInv, drainer.last, ~writeFailed
    PROVE  /\ atStop.records <= head /\ atStop.dropped <= dropped + reported
           /\ atStop.unregistered <= unregistered + file.unregistered
           /\ atStop.attached => recorder \in {"idle", "accepted"}
  BY DEF SinkInv, Drained, Stopped

(* A write succeeds, or closes the recording and is one more failure. *)
LEMMA TypeStands ==
    ASSUME SinkTypeOK, TypeOK', UNCHANGED <<stopRequested, recorder, other, main, atStop>>,
           unregistered' \in Nat, drainer' \in DrainerType, file' \in FileType,
           \/ UNCHANGED <<accepting, writeFailed, failures>>
           \/ writeFailed' = TRUE /\ accepting' = FALSE /\ failures' = failures + 1
    PROVE  SinkTypeOK'
  <1>1. failures' \in Nat
    BY SMT DEF SinkTypeOK
  <1>2. accepting' \in BOOLEAN /\ writeFailed' \in BOOLEAN
    BY DEF SinkTypeOK
  <1> QED
    BY <1>1, <1>2 DEF SinkTypeOK

LEMMA SinkInductiveDrainer ==
    ASSUME RingAssumption, SinkAssumption, SinkInv, ChainInv', BinaryDrainer
    PROVE  SinkInv'
  <1>0. /\ TypeOK /\ TypeOK' /\ Bounded /\ PopWithinBounds /\ SinkTypeOK /\ file \in FileType
        /\ drainer \in DrainerType
        /\ unregistered \in Nat /\ failures \in Nat /\ dropped \in Nat /\ reported \in Nat
        /\ head \in Nat /\ tail \in Nat /\ atStop \in FileType
    BY DEF SinkInv, ChainInv, IInv, SinkTypeOK, TypeOK
  <1>1. AfterPass \in {"done", "loop"} /\ (AfterPass = "done" <=> drainer.last)
    BY DEF AfterPass
  <1>2. CASE BeginPass
    <2>1. /\ UNCHANGED <<vars, gates, unregistered, threads, main, file, failures, atStop>>
          /\ drainer.at = "loop" /\ drainer'.at = "unregistered"
          /\ drainer' \in DrainerType
          /\ drainer'.last <=> stopRequested \/ writeFailed
      BY <1>0, <1>2 DEF BeginPass, At, SinkTypeOK, DrainerType
    <2>2. UNCHANGED <<head, tail, dropped, reported, producer, consumer,
                      stopRequested, writeFailed, recorder>>
      BY <2>1 DEF vars, gates, threads
    <2>3. SinkTypeOK'
      BY <1>0, <2>1 DEF SinkTypeOK, gates, threads
    <2>4. Written' /\ Drained' /\ CaughtUp'
      BY <2>1, <2>2 DEF SinkInv, Written, Drained, CaughtUp
    <2>5. Stopped' /\ Attached'
      BY <2>1, <2>2, StopStands
    <2> QED
      BY <2>3, <2>4, <2>5 DEF SinkInv
  <1>3. CASE DrainUnregistered
    <2>1. /\ UNCHANGED <<vars, stopRequested, threads, main, atStop>>
          /\ drainer.at = "unregistered" /\ unregistered' = 0
      BY <1>3 DEF DrainUnregistered, At
    <2>2. UNCHANGED <<head, tail, dropped, reported, producer, consumer, recorder>>
      BY <2>1 DEF vars, threads
    <2>3. \/ /\ file' = [file EXCEPT !.unregistered = @ + unregistered]
             /\ drainer' = [drainer EXCEPT !.at = IF writeFailed THEN AfterPass ELSE "attach"]
             /\ UNCHANGED <<accepting, writeFailed, failures>>
          \/ /\ writeFailed' = TRUE /\ accepting' = FALSE /\ failures' = failures + 1
             /\ drainer' = [drainer EXCEPT !.at = AfterPass] /\ UNCHANGED file
          \/ /\ unregistered = 0 /\ drainer' = [drainer EXCEPT !.at = "attach"]
             /\ UNCHANGED <<accepting, writeFailed, file, failures>>
      BY <1>0, <1>3 DEF DrainUnregistered, WriteBinaryRecords, Goto
    <2>4. SinkTypeOK'
      <3>1. file' \in FileType
        BY <1>0, <2>3, SMT DEF FileType, DrainerType
      <3>2. drainer' \in DrainerType
        BY <1>0, <1>1, <2>3 DEF DrainerType
      <3> QED
        BY <1>0, <2>1, <2>3, <3>1, <3>2, TypeStands DEF threads
    <2>5. /\ file'.records = file.records /\ file'.dropped = file.dropped
          /\ ~writeFailed' => /\ ~writeFailed /\ drainer'.at = "attach"
                              /\ file'.unregistered = file.unregistered + unregistered
          /\ writeFailed => writeFailed'
          /\ drainer'.last = drainer.last /\ drainer'.at \in {"attach", AfterPass}
      BY <1>0, <2>3, SMT DEF FileType, DrainerType
    <2>6. Written' /\ Drained'
      BY <1>1, <2>1, <2>2, <2>5 DEF SinkInv, Written, Drained
    <2>7. CaughtUp'
      BY <1>0, <2>1, <2>2, <2>5, LastPass, SMT DEF CaughtUp, FileType
    <2>8. Stopped' /\ Attached'
      <3>1. ~writeFailed' => unregistered' + file'.unregistered = unregistered + file.unregistered
        BY <1>0, <2>1, <2>5, SMT DEF FileType, DrainerType
      <3> QED
        BY <2>1, <2>2, <2>5, <3>1, StopStands
    <2> QED
      BY <2>4, <2>6, <2>7, <2>8 DEF SinkInv
  <1>4. CASE DrainAttach
    <2>1. /\ UNCHANGED <<vars, stopRequested, unregistered, threads, main, atStop>>
          /\ drainer.at = "attach"
      BY <1>4 DEF DrainAttach, At
    <2>2. UNCHANGED <<head, tail, dropped, reported, producer, consumer, recorder>>
      BY <2>1 DEF vars, threads
    <2>3. \/ /\ recorder = "unattached" /\ drainer' = [drainer EXCEPT !.at = AfterPass]
             /\ UNCHANGED <<accepting, writeFailed, file, failures>>
          \/ /\ recorder = "assigned" \/ file.attached
             /\ drainer' = [drainer EXCEPT !.at = "dropped"]
             /\ UNCHANGED <<accepting, writeFailed, file, failures>>
          \/ /\ file' = [file EXCEPT !.attached = TRUE]
             /\ drainer' = [drainer EXCEPT !.at = IF writeFailed THEN AfterPass ELSE "dropped"]
             /\ UNCHANGED <<accepting, writeFailed, failures>>
          \/ /\ writeFailed' = TRUE /\ accepting' = FALSE /\ failures' = failures + 1
             /\ drainer' = [drainer EXCEPT !.at = AfterPass] /\ UNCHANGED file
      BY <1>0, <1>4 DEF DrainAttach, WriteBinaryRecords, Goto
    <2>4. SinkTypeOK'
      <3>1. file' \in FileType
        BY <1>0, <2>3 DEF FileType, DrainerType
      <3>2. drainer' \in DrainerType
        BY <1>0, <1>1, <2>3 DEF DrainerType
      <3> QED
        BY <1>0, <2>1, <2>3, <3>1, <3>2, TypeStands DEF threads
    <2>5. /\ file'.records = file.records /\ file'.dropped = file.dropped
          /\ file'.unregistered = file.unregistered
          /\ ~writeFailed' =>
                /\ ~writeFailed
                /\ \/ recorder = "unattached" /\ drainer'.at = AfterPass
                   \/ /\ drainer'.at = "dropped"
                      /\ recorder = "assigned" \/ file'.attached
          /\ writeFailed => writeFailed'
          /\ drainer'.last = drainer.last /\ drainer'.at \in {"dropped", AfterPass}
      BY <1>0, <2>3, SMT DEF FileType, DrainerType
    <2>6. Written' /\ Drained'
      BY <1>1, <2>1, <2>2, <2>5 DEF SinkInv, Written, Drained
    <2>7. CaughtUp'
      <3> SUFFICES ASSUME drainer.last, ~writeFailed' PROVE CaughtUp'
        BY <2>5 DEF CaughtUp
      <3>1. ~writeFailed /\ file'.unregistered >= atStop'.unregistered
        BY <2>1, <2>5 DEF SinkInv, CaughtUp
      <3>2. CASE recorder = "unattached" /\ drainer'.at = AfterPass
        <4>1. drainer'.at = "done" /\ ~atStop.attached
          BY <1>1, <3>1, <3>2, LastPass
        <4>2. atStop.dropped <= 0 /\ atStop.records <= 0 /\ tail = 0
          BY <3>1, <3>2, LastPass DEF SinkInv, Attached
        <4> QED
          BY <1>0, <2>1, <2>2, <2>5, <3>1, <4>1, <4>2, SMT DEF CaughtUp, FileType
      <3>3. CASE drainer'.at = "dropped" /\ (recorder = "assigned" \/ file'.attached)
        <4>1. atStop.attached => file'.attached
          BY <3>1, <3>3, LastPass
        <4> QED
          BY <2>1, <3>1, <3>3, <4>1 DEF CaughtUp
      <3> QED
        BY <2>5, <3>2, <3>3
    <2>8. Stopped' /\ Attached'
      BY <2>1, <2>2, <2>5, StopStands
    <2> QED
      BY <2>4, <2>6, <2>7, <2>8 DEF SinkInv
  <1>5. CASE DrainDropped
    <2>1. /\ UNCHANGED <<stopRequested, unregistered, threads, main, atStop>>
          /\ drainer.at = "dropped"
      BY <1>5 DEF DrainDropped, At
    <2>2. UNCHANGED <<head, tail, producer, consumer, recorder>>
      BY <1>5, <2>1 DEF DrainDropped, TakeDroppedEvents, vars, threads
    <2>3. \/ /\ dropped = 0 /\ drainer' = [drainer EXCEPT !.at = "pop"]
             /\ UNCHANGED <<accepting, writeFailed, file, failures, dropped, reported>>
          \/ /\ reported' = reported + dropped /\ dropped' = 0
             /\ \/ /\ file' = [file EXCEPT !.dropped = @ + dropped]
                   /\ drainer' = [drainer EXCEPT !.at = IF writeFailed THEN AfterPass ELSE "pop"]
                   /\ UNCHANGED <<accepting, writeFailed, failures>>
                \/ /\ writeFailed' = TRUE /\ accepting' = FALSE /\ failures' = failures + 1
                   /\ drainer' = [drainer EXCEPT !.at = AfterPass] /\ UNCHANGED file
      BY <1>0, <1>5 DEF DrainDropped, TakeDroppedEvents, WriteBinaryRecords, Goto, vars, counters
    <2>4. SinkTypeOK'
      <3>1. file' \in FileType
        BY <1>0, <2>3, SMT DEF FileType, DrainerType
      <3>2. drainer' \in DrainerType
        BY <1>0, <1>1, <2>3 DEF DrainerType
      <3> QED
        BY <1>0, <2>1, <2>3, <3>1, <3>2, TypeStands DEF threads
    <2>5. /\ file'.records = file.records /\ file'.attached = file.attached
          /\ file'.unregistered = file.unregistered
          /\ ~writeFailed' =>
                /\ ~writeFailed /\ drainer'.at = "pop" /\ dropped' = 0
                /\ file'.dropped = file.dropped + dropped
          /\ dropped' + reported' = dropped + reported /\ reported' = reported + dropped
          /\ writeFailed => writeFailed'
          /\ drainer'.last = drainer.last /\ drainer'.at \in {"pop", AfterPass}
      BY <1>0, <2>3, SMT DEF FileType, DrainerType
    <2>6. Written' /\ Drained'
      BY <1>1, <2>1, <2>2, <2>5 DEF SinkInv, Written, Drained
    <2>7. CaughtUp'
      <3> SUFFICES ASSUME drainer.last, ~writeFailed' PROVE CaughtUp'
        BY <2>5 DEF CaughtUp
      <3>1. ~writeFailed /\ file'.unregistered >= atStop'.unregistered
            /\ (atStop'.attached => file'.attached) /\ file.dropped = reported
        BY <2>1, <2>5 DEF SinkInv, CaughtUp, Written
      <3>2. file'.dropped >= atStop.dropped
        BY <1>0, <2>5, <3>1, LastPass, SMT DEF FileType, DrainerType
      <3> QED
        BY <2>1, <2>5, <3>1, <3>2 DEF CaughtUp
    <2>8. Stopped' /\ Attached'
      BY <2>1, <2>2, <2>5, StopStands
    <2> QED
      BY <2>4, <2>6, <2>7, <2>8 DEF SinkInv
  <1>6. CASE DrainPop
    <2>1. /\ UNCHANGED <<gates, unregistered, threads, main, file, failures, atStop>>
          /\ drainer.at = "pop" /\ drainer' = [drainer EXCEPT !.at = "popping"]
          /\ UNCHANGED <<head, tail, dropped, ring, producer, counters>>
          /\ consumer' = [Waiting EXCEPT !.pc = "measure", !.buffer = DrainCapacity, !.head = head]
      BY <1>6 DEF DrainPop, BeginPop, At, Goto
    <2>2. /\ drainer'.at = "popping" /\ drainer'.last = drainer.last
          /\ consumer'.pc = "measure" /\ consumer'.buffer = DrainCapacity /\ consumer'.head = head
          /\ UNCHANGED <<writeFailed, stopRequested, recorder, reported>>
      BY <1>0, <2>1 DEF Waiting, gates, threads, counters
    <2>3. SinkTypeOK'
      BY <1>0, <2>1, TypeStands DEF gates, threads, DrainerType
    <2>4. Written' /\ Drained'
      BY <2>1, <2>2 DEF SinkInv, Written, Drained
    <2>5. CaughtUp'
      <3> SUFFICES ASSUME drainer.last, ~writeFailed PROVE CaughtUp'
        BY <2>2 DEF CaughtUp
      <3>1. /\ file.unregistered >= atStop.unregistered
            /\ (atStop.attached => file.attached) /\ file.dropped >= atStop.dropped
        BY <2>1 DEF SinkInv, CaughtUp
      <3>2. head >= atStop.records
        BY <1>0, LastPass, SMT DEF FileType, DrainerType
      <3> QED
        BY <2>1, <2>2, <3>1, <3>2 DEF CaughtUp
    <2>6. Stopped' /\ Attached'
      BY <2>1, <2>2, StopStands
    <2> QED
      BY <2>3, <2>4, <2>5, <2>6 DEF SinkInv
  <1>7. CASE Popping
    <2>1. /\ UNCHANGED sinkVars /\ UNCHANGED <<head, tail, dropped, producer, counters>>
          /\ consumer.pc \in {"measure", "copy"}
          /\ \/ \E n \in Nat : consumer' = [consumer EXCEPT !.count = @ + n]
             \/ consumer' = [consumer EXCEPT !.pc = "copy"]
             \/ consumer' = [consumer EXCEPT !.done = @ + 1]
      <3>1. CASE Copy
        BY <1>7, <3>1 DEF Popping, Copy
      <3>2. CASE Measure
        <4>1. groupLengths[Slot(tail + consumer.count)] \in Nat
          <5>1. tail + consumer.count \in Nat
            BY <1>0, SMT DEF TypeOK
          <5> QED
            BY <5>1, Positions DEF SinkInv, ChainInv
        <4> QED
          BY <1>7, <3>2, <4>1 DEF Popping, Measure
      <3> QED
        BY <1>7, <3>1, <3>2 DEF Popping
    <2>2. /\ consumer'.pc # "rest" /\ consumer'.buffer = consumer.buffer
          /\ consumer'.head = consumer.head
      BY <1>0, <2>1 DEF TypeOK
    <2>3. UNCHANGED <<accepting, stopRequested, writeFailed, unregistered, recorder, other,
                      drainer, main, file, failures, atStop, reported>>
      BY <2>1 DEF sinkVars, gates, threads, counters
    <2>4. SinkTypeOK'
      BY <1>0, <2>3 DEF SinkTypeOK
    <2>5. drainer.at = "popping"
      BY <2>1 DEF SinkInv, Drained
    <2>6. Written' /\ Drained' /\ CaughtUp'
      BY <2>1, <2>2, <2>3, <2>5 DEF SinkInv, Written, Drained, CaughtUp
    <2>7. Stopped' /\ Attached'
      BY <2>1, <2>3, <2>5, StopStands
    <2> QED
      BY <2>4, <2>6, <2>7 DEF SinkInv
  <1>8. CASE DrainWrite
    <2> DEFINE next == [drainer EXCEPT !.drained = consumer.count,
                          !.at = IF consumer.count = DrainCapacity THEN "pop" ELSE AfterPass]
    <2>1. /\ UNCHANGED <<stopRequested, unregistered, threads, main, atStop>>
          /\ UNCHANGED <<head, dropped, groupLengths, producer, reported>>
          /\ tail' = tail + consumer.count /\ consumer' = Waiting /\ consumer.pc = "copy"
      BY <1>8 DEF DrainWrite, Release, ring, counters
    <2>2. UNCHANGED recorder /\ consumer.count \in Nat /\ consumer'.pc = "rest"
      BY <1>0, <2>1 DEF threads, TypeOK, Waiting
    <2>3. \/ /\ consumer.count = 0 /\ drainer' = next
             /\ UNCHANGED <<accepting, writeFailed, file, failures>>
          \/ /\ file' = [file EXCEPT !.records = @ + consumer.count]
             /\ drainer' = [next EXCEPT !.at = IF writeFailed THEN AfterPass ELSE @]
             /\ UNCHANGED <<accepting, writeFailed, failures>>
          \/ /\ writeFailed' = TRUE /\ accepting' = FALSE /\ failures' = failures + 1
             /\ drainer' = [next EXCEPT !.at = AfterPass] /\ UNCHANGED file
      BY <1>8 DEF DrainWrite, WriteBinaryRecords
    <2>4. SinkTypeOK'
      <3>1. file' \in FileType
        BY <1>0, <2>2, <2>3, SMT DEF FileType, DrainerType
      <3>2. next \in DrainerType
        BY <1>0, <1>1, <2>2 DEF DrainerType
      <3>3. drainer' \in DrainerType
        BY <1>1, <2>3, <3>2 DEF DrainerType
      <3> QED
        BY <1>0, <2>1, <2>3, <3>1, <3>3, TypeStands DEF threads
    <2>5. /\ file'.dropped = file.dropped /\ file'.attached = file.attached
          /\ file'.unregistered = file.unregistered
          /\ ~writeFailed' =>
                /\ ~writeFailed /\ file'.records = file.records + consumer.count
                /\ consumer.count # DrainCapacity => drainer'.at = AfterPass
                /\ consumer.count = DrainCapacity => drainer'.at = "pop"
          /\ writeFailed => writeFailed'
          /\ drainer'.last = drainer.last /\ drainer'.drained = consumer.count
          /\ drainer'.at \in {"pop", AfterPass}
      <3>1. /\ next.last = drainer.last /\ next.drained = consumer.count /\ next \in DrainerType
            /\ next.at = IF consumer.count = DrainCapacity THEN "pop" ELSE AfterPass
        BY <1>0, <1>1, <2>2 DEF DrainerType
      <3>2. file.records \in Nat
        BY <1>0 DEF FileType
      <3> HIDE DEF next
      <3> QED
        BY <1>0, <2>2, <2>3, <3>1, <3>2, SMT DEF FileType, DrainerType
    <2>6. Written' /\ Drained'
      BY <1>1, <2>1, <2>2, <2>5 DEF SinkInv, Written, Drained
    <2>7. drainer.at = "popping" /\ consumer.buffer = DrainCapacity
      BY <2>1 DEF SinkInv, Drained
    <2>8. CaughtUp'
      <3> SUFFICES ASSUME drainer.last, ~writeFailed' PROVE CaughtUp'
        BY <2>5 DEF CaughtUp
      <3>1. /\ file.unregistered >= atStop.unregistered
            /\ (atStop.attached => file.attached) /\ file.dropped >= atStop.dropped
            /\ consumer.head >= atStop.records
        BY <2>5, <2>7 DEF SinkInv, CaughtUp
      <3>2. CASE consumer.count = DrainCapacity
        BY <2>1, <2>5, <3>1, <3>2 DEF CaughtUp
      <3>3. CASE consumer.count # DrainCapacity /\ tail' = consumer.head
        BY <1>1, <2>1, <2>5, <3>1, <3>3 DEF CaughtUp
      <3>4. CASE consumer.count # DrainCapacity /\ tail' # consumer.head
        <4>1. consumer.count + groupLengths[Slot(tail')] > DrainCapacity
          BY <2>1, <2>7, <3>4 DEF SinkInv, ChainInv, Walked
        <4>2. head > tail'
          <5>1. tail' <= consumer.head /\ consumer.head <= head /\ consumer.head \in Nat
            BY <1>0, <2>1 DEF PopWithinBounds, TypeOK
          <5> QED
            BY <1>0, <2>1, <2>2, <3>4, <5>1, SMT
        <4>3. LeftForLackOfRoom'
          BY <2>1, <2>5, <4>1, <4>2 DEF LeftForLackOfRoom, Slot
        <4> QED
          BY <1>1, <2>1, <2>5, <3>1, <3>4, <4>3 DEF CaughtUp
      <3> QED
        BY <3>2, <3>3, <3>4
    <2>9. Stopped' /\ Attached'
      BY <2>1, <2>2, <2>5, <2>7, StopStands
    <2> QED
      BY <2>4, <2>6, <2>8, <2>9 DEF SinkInv
  <1> QED
    BY <1>2, <1>3, <1>4, <1>5, <1>6, <1>7, <1>8 DEF BinaryDrainer

LEMMA SinkInductive ==
    ASSUME RingAssumption, SinkAssumption, SinkInv, [SinkNext]_allVars
    PROVE  SinkInv'
  <1>1. [Next]_vars
    BY RingStep DEF allVars
  <1>2. ChainInv'
    BY <1>1, ChainInductive DEF SinkInv
  <1>3. CASE SinkNext
    BY <1>2, <1>3, SinkInductiveThreads, SinkInductiveDrainer DEF SinkNext
  <1>4. CASE UNCHANGED allVars
    <2>1. UNCHANGED <<head, tail, dropped, reported, producer, consumer, groupLengths, accepting,
                      stopRequested, writeFailed, unregistered, recorder, other, drainer, main,
                      file, failures, atStop>>
      BY <1>4 DEF allVars, vars, ring, counters, sinkVars, gates, threads
    <2>2. TypeOK'
      BY <1>2 DEF ChainInv, IInv
    <2> QED
      BY <1>2, <2>1, <2>2 DEF SinkInv, SinkTypeOK, Written, Drained, Stopped, Attached, CaughtUp,
         LeftForLackOfRoom, Slot
  <1> QED
    BY <1>3, <1>4

LEMMA SinkInvariance == SinkSpec => []SinkInv
  <1>1. SinkInit => SinkInv
    BY RingAssumption, SinkAssumption, SinkInitially
  <1>2. SinkInv /\ [SinkNext]_allVars => SinkInv'
    BY RingAssumption, SinkAssumption, SinkInductive
  <1> QED
    BY <1>1, <1>2, PTL DEF SinkSpec

-----------------------------------------------------------------------------
(* The sink's threads run the ring by its own rules: one producer, and one
   consumer at a time (trace.cpp 141-224, 386-446). *)
THEOREM SinkRunsRing == SinkSpec => Spec
  <1>1. SinkInit => Init
    BY DEF SinkInit
  <1>2. [SinkNext]_allVars => [Next]_vars
    BY RingStep DEF allVars
  <1> QED
    BY <1>1, <1>2, PTL DEF SinkSpec, Spec

(* So the drainer and the recording thread share a queue of whole events. *)
THEOREM SinkHasQueue == SinkSpec => ImplementsQueue
  BY SinkRunsRing, RingIsQueue, PTL

(* What the ring promises it keeps under the sink's start, stop and failures:
   the records not yet drained are as they were pushed (trace_ring.h 44-79). *)
THEOREM SinkKeepsRing == SinkSpec => [](Intact /\ PopWithinBounds)
  <1>1. SinkInv => Intact /\ PopWithinBounds
    BY DEF SinkInv, ChainInv, IInv
  <1> QED
    BY <1>1, SinkInvariance, PTL

(* After Shutdown, and no failed write, the file accounts for every event that
   was recorded before, except those left for lack of room in the last buffer
   (trace.cpp 141-245, 289-301). *)
THEOREM SinkSettles == SinkSpec => []Settled
  <1>1. SinkInv => Settled
    BY SMT DEF SinkInv, ChainInv, SinkTypeOK, FileType, Written, Drained, Stopped, CaughtUp, Settled
  <1> QED
    BY <1>1, SinkInvariance, PTL
=============================================================================
