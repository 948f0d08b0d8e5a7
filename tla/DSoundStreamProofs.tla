------------------------- MODULE DSoundStreamProofs -------------------------
(***************************************************************************)
(* Proofs about DSoundStream, for every set of threads and every size of   *)
(* buffer and packet: a pump never reports success for a packet the host   *)
(* has not played to its end; what the host has yet to play is not         *)
(* overwritten; every packet is in one place, the queue or one call; what  *)
(* Process queues lies ahead of the host; and, for two threads, is played. *)
(*                                                                         *)
(* The stream sees the host's position only as an offset in the buffer, so *)
(* the argument is about remainders: what the stream has counted and what  *)
(* the next reading would add is at most what was played (NotAhead).       *)
(***************************************************************************)
EXTENDS DSoundStream, TLAPS

(* A number has one quotient and one remainder. *)
LEMMA RemainderUnique ==
    ASSUME NEW b \in Nat \ {0}, NEW q \in Nat, NEW m \in 0..(b - 1), NEW x \in Nat,
           x = b * q + m
    PROVE  x % b = m
  BY SMT

LEMMA RemainderRange ==
    ASSUME NEW b \in Nat \ {0}, NEW x \in Nat
    PROVE  x % b \in 0..(b - 1)
  BY SMT

(* One more is one more in the remainder, or begins again at zero. *)
LEMMA RemainderOfNext ==
    ASSUME NEW b \in Nat \ {0}, NEW x \in Nat
    PROVE  (x + 1) % b = IF x % b = b - 1 THEN 0 ELSE (x % b) + 1
<1> DEFINE q == x \div b
           m == x % b
<1>1. q \in Nat /\ m \in 0..(b - 1)
  BY SMT
<1>2. x = b * q + m
  BY SMT
<1>m. m = x % b
  OBVIOUS
<1> HIDE DEF q, m
<1>3. CASE m = b - 1
  <2>1. PICK y \in Nat, k \in Nat : y = x + 1 /\ k = q + 1
    BY <1>1
  <2>2. y = b * k + 0
    BY <2>1, <1>1, <1>2, <1>3, SMT
  <2>3. y % b = 0
    BY <2>1, <2>2, SMT
  <2> QED
    BY <2>1, <2>3, <1>3, <1>m
<1>4. CASE m # b - 1
  <2>1. PICK y \in Nat, k \in 0..(b - 1) : y = x + 1 /\ k = m + 1
    BY <1>1, <1>4
  <2>2. y = b * q + k
    BY <2>1, <1>1, <1>2, SMT
  <2>3. y \in Nat /\ k \in 0..(b - 1) /\ q \in Nat
    BY <2>1, <1>1
  <2>4. y % b = k
    BY <2>2, <2>3, RemainderUnique
  <2> QED
    BY <2>1, <2>4, <1>4, <1>m
<1> QED
  BY <1>3, <1>4

(* When the host plays one unit, the distance from the last cursor grows by at
   most one. *)
LEMMA DistanceOfNext ==
    ASSUME NEW b \in Nat \ {0}, NEW x \in Nat, NEW c \in 0..(b - 1)
    PROVE  (((x + 1) % b) + b - c) % b <= (((x % b) + b - c) % b) + 1
<1> DEFINE p == x % b
           d == p + b - c
<1>1. p \in 0..(b - 1) /\ d \in Nat /\ p = x % b
  BY RemainderRange
<1>d. d = p + b - c
  OBVIOUS
<1> HIDE DEF p, d
<1>2. CASE p # b - 1
  <2>1. ((x + 1) % b) + b - c = d + 1
    <3>1. (x + 1) % b = IF x % b = b - 1 THEN 0 ELSE (x % b) + 1
      BY RemainderOfNext
    <3> QED
      BY <3>1, <1>1, <1>2, <1>d
  <2>2. (d + 1) % b <= (d % b) + 1
    <3>1. d % b \in 0..(b - 1)
      BY <1>1, RemainderRange
    <3>2. (d + 1) % b = IF d % b = b - 1 THEN 0 ELSE (d % b) + 1
      BY <1>1, RemainderOfNext
    <3> QED
      BY <3>1, <3>2
  <2> QED
    BY <2>1, <2>2, <1>1, <1>d
<1>3. CASE p = b - 1
  <2>1. (x + 1) % b = 0
    BY <1>1, <1>3, RemainderOfNext
  <2>2. d % b = b - 1 - c
    <3>1. d = b * 1 + (b - 1 - c) /\ b - 1 - c \in 0..(b - 1)
      BY <1>3, <1>d
    <3> QED
      BY <3>1, <1>1, RemainderUnique
  <2>3. (b - c) % b <= b - c
    <3>1. CASE c = 0
      <4>1. b - c = b * 1 + 0
        BY <3>1
      <4> QED
        BY <4>1, <3>1, RemainderUnique
    <3>2. CASE c # 0
      <4>1. b - c = b * 0 + (b - c) /\ b - c \in 0..(b - 1)
        BY <3>2
      <4> QED
        BY <4>1, RemainderUnique
    <3> QED
      BY <3>1, <3>2
  <2> QED
    BY <2>1, <2>2, <2>3, <1>1, <1>d
<1> QED
  BY <1>2, <1>3

(* A cursor read again at once has not moved. *)
LEMMA NoDistance ==
    ASSUME NEW b \in Nat \ {0}, NEW p \in 0..(b - 1)
    PROVE  (p + b - p) % b = 0
<1>1. p + b - p = b * 1 + 0 /\ 0 \in 0..(b - 1)
  OBVIOUS
<1> QED
  BY <1>1, RemainderUnique

-----------------------------------------------------------------------------
(* Sequences of calls *)

LEMMA LastReplaced ==
    ASSUME NEW S, NEW q \in Seq(S), Len(q) > 0, NEW e \in S
    PROVE  [q EXCEPT ![Len(q)] = e] \in Seq(S)
  OBVIOUS

LEMMA Shortened ==
    ASSUME NEW S, NEW q \in Seq(S), Len(q) > 0
    PROVE  SubSeq(q, 1, Len(q) - 1) \in Seq(S)
  OBVIOUS

LEMMA CallMoved ==
    ASSUME NEW e \in CallType, NEW packet \in PacketType,
           NEW place \in {"pump", "finish", "flush", "flushed", "callback", "body"}
    PROVE  /\ [e EXCEPT !.at = place] \in CallType
           /\ [e EXCEPT !.at = place, !.packet = packet] \in CallType
  BY DEF CallType

(* Each way a thread goes on keeps the type of its calls. *)
LEMMA CallsTyped ==
    ASSUME TypeOK, NEW t \in Threads,
           NEW place \in {"pump", "finish", "flush", "flushed", "callback", "body"},
           NEW packet \in PacketType
    PROVE  /\ Depth(t) > 0 /\ Goto(t, place) => calls' \in [Threads -> Seq(CallType)]
           /\ Depth(t) > 0 /\ Finishing(t, place, packet)
                 => calls' \in [Threads -> Seq(CallType)]
           /\ Depth(t) > 0 /\ Return(t) => calls' \in [Threads -> Seq(CallType)]
<1> DEFINE q == calls[t]
<1>1. q \in Seq(CallType)
  BY DEF TypeOK
<1>2. ASSUME Depth(t) > 0, Goto(t, place)
      PROVE  calls' \in [Threads -> Seq(CallType)]
  <2>0. q[Len(q)] \in CallType
    BY <1>1, <1>2 DEF Depth
  <2>1. [q[Len(q)] EXCEPT !.at = place] \in CallType
    BY <2>0, CallMoved
  <2>2. [q EXCEPT ![Len(q)] = [q[Len(q)] EXCEPT !.at = place]] \in Seq(CallType)
    BY <1>1, <1>2, <2>1, LastReplaced DEF Depth
  <2> QED
    BY <1>2, <2>2 DEF Goto, TypeOK, Depth
<1>3. ASSUME Depth(t) > 0, Finishing(t, place, packet)
      PROVE  calls' \in [Threads -> Seq(CallType)]
  <2>0. q[Len(q)] \in CallType
    BY <1>1, <1>3 DEF Depth
  <2>1. [q[Len(q)] EXCEPT !.at = place, !.packet = packet] \in CallType
    BY <2>0, CallMoved
  <2>2. [q EXCEPT ![Len(q)] = [q[Len(q)] EXCEPT !.at = place, !.packet = packet]]
          \in Seq(CallType)
    BY <1>1, <1>3, <2>1, LastReplaced DEF Depth
  <2>3. calls' = [calls EXCEPT ![t] =
           [q EXCEPT ![Len(q)] = [q[Len(q)] EXCEPT !.at = place, !.packet = packet]]]
    BY <1>3, <1>1 DEF Finishing, TypeOK, Depth
  <2> QED
    BY <2>2, <2>3 DEF TypeOK
<1>4. ASSUME Depth(t) > 0, Return(t)
      PROVE  calls' \in [Threads -> Seq(CallType)]
  <2>1. SubSeq(q, 1, Len(q) - 1) \in Seq(CallType)
    BY <1>1, <1>4, Shortened DEF Depth
  <2> QED
    BY <1>4, <2>1 DEF Return, TypeOK, Depth
<1> QED
  BY <1>2, <1>3, <1>4

-----------------------------------------------------------------------------
(* Types *)

LEMMA NoPacketTyped == None \in PacketType
  BY StreamAssumption DEF None, PacketType

LEMMA HeadTyped ==
    ASSUME TypeOK, packets # <<>>
    PROVE  Head(packets) \in PacketType /\ Tail(packets) \in Seq(PacketType)
  BY DEF TypeOK

LEMMA CursorTyped == ASSUME TypeOK PROVE PlayCursor \in 0..(BufferBytes - 1)
  BY StreamAssumption, RemainderRange DEF TypeOK, PlayCursor, Offset

LEMMA AdvanceTyped == ASSUME TypeOK PROVE Advance \in Nat
<1>1. PlayCursor + BufferBytes - lastPlayCursor \in Nat
  BY StreamAssumption, CursorTyped DEF TypeOK
<1>2. \A d \in Nat : d % BufferBytes \in Nat
  BY StreamAssumption, RemainderRange
<1> QED
  BY <1>1, <1>2 DEF Advance

LEMMA CountTyped ==
    ASSUME TypeOK, CountPlayed
    PROVE  playedBytes' \in Nat /\ lastPlayCursor' \in 0..(BufferBytes - 1)
  BY AdvanceTyped, CursorTyped DEF CountPlayed, TypeOK

LEMMA ResetTyped ==
    ASSUME TypeOK, ResetStoppedStream
    PROVE  /\ lastPlayCursor' \in 0..(BufferBytes - 1)
           /\ playedBytes' \in Nat /\ writtenBytes' \in Nat /\ heard' \in Nat
           /\ playing' \in BOOLEAN /\ sounding' \in BOOLEAN
           /\ sound' \in [0..(BufferBytes - 1) -> 0..MaxPackets]
<1>1. 0 \in 0..(BufferBytes - 1) /\ 0 \in 0..MaxPackets
  BY StreamAssumption
<1> QED
  BY <1>1 DEF ResetStoppedStream, TypeOK

LEMMA StartTyped ==
    ASSUME TypeOK, NEW count, StartPlayback(count)
    PROVE  /\ lastPlayCursor' \in 0..(BufferBytes - 1)
           /\ playing' \in BOOLEAN /\ sounding' \in BOOLEAN
           /\ failures' \in Nat
<1>1. /\ lastPlayCursor \in 0..(BufferBytes - 1)
      /\ playing \in BOOLEAN /\ sounding \in BOOLEAN /\ failures \in Nat
  BY DEF TypeOK
<1>2. CASE lastPlayCursor' = PlayCursor /\ playing' = TRUE /\ sounding' = TRUE
              /\ UNCHANGED failures
  BY <1>1, <1>2, CursorTyped
<1>3. CASE lastPlayCursor' = PlayCursor /\ playing' = FALSE
              /\ failures' = failures + 1 /\ UNCHANGED sounding
  <2>1. failures' \in Nat /\ lastPlayCursor' \in 0..(BufferBytes - 1)
    BY <1>1, <1>3, CursorTyped
  <2>2. playing' \in BOOLEAN /\ sounding' \in BOOLEAN
    BY <1>1, <1>3, Zenon
  <2> QED
    BY <2>1, <2>2
<1>4. CASE UNCHANGED <<lastPlayCursor, playing, sounding, failures>>
  BY <1>1, <1>4
<1> QED
  BY <1>2, <1>3, <1>4 DEF StartPlayback

THEOREM TypeInductive == TypeOK /\ [Next]_vars => TypeOK'
<1> SUFFICES ASSUME TypeOK, [Next]_vars PROVE TypeOK'
  OBVIOUS
<1> USE DEF books, flags, host
<1>1. CASE HostPlays
  BY <1>1 DEF HostPlays, TypeOK
<1>2. ASSUME NEW t \in Threads, NEW kind \in Kinds, Call(t, kind) PROVE TypeOK'
  <2>1. calls[t] \in Seq(CallType)
    BY DEF TypeOK
  <2>2. \A first \in {"pump", "flush", "body"} :
           Append(calls[t], [kind |-> kind, at |-> first, packet |-> None]) \in Seq(CallType)
    BY <2>1, NoPacketTyped DEF CallType
  <2>3. PICK first : calls' = [calls EXCEPT ![t] =
              Append(@, [kind |-> kind, at |-> first, packet |-> None])]
              /\ first = (CASE kind \in Pumping -> "pump"
                            [] kind = "flush" -> "flush"
                            [] OTHER -> "body")
    BY <1>2 DEF Call
  <2>5. "flush" \notin Pumping
    BY DEF Pumping
  <2>6. first \in {"pump", "flush", "body"}
    BY <2>3, <2>5
  <2>4. calls' \in [Threads -> Seq(CallType)]
    BY <2>2, <2>3, <2>6 DEF TypeOK
  <2> QED
    BY <1>2, <2>4 DEF Call, TypeOK
<1>3. ASSUME NEW t \in Threads, FinishStreamPacket(t) PROVE TypeOK'
  <2>1. Depth(t) > 0
    BY <1>3 DEF FinishStreamPacket, At
  <2>2. calls' \in [Threads -> Seq(CallType)]
    BY <1>3, <2>1, CallsTyped, NoPacketTyped DEF FinishStreamPacket
  <2>3. status' \in [Packets -> {"unused", "pending", "success", "flushed", "failure"}]
    BY <1>3 DEF FinishStreamPacket, TypeOK
  <2> QED
    BY <1>3, <2>2, <2>3 DEF FinishStreamPacket, TypeOK
<1>4. ASSUME NEW t \in Threads, CallbackReturns(t) PROVE TypeOK'
  <2>1. Depth(t) > 0
    BY <1>4 DEF CallbackReturns, At
  <2>2. calls' \in [Threads -> Seq(CallType)]
    BY <1>4, <2>1, CallsTyped, NoPacketTyped DEF CallbackReturns
  <2> QED
    BY <1>4, <2>2 DEF CallbackReturns, TypeOK
<1>5. ASSUME NEW t \in Threads, PumpFinishes(t) PROVE TypeOK'
  <2>1. calls' \in [Threads -> Seq(CallType)]
    BY <1>5, CallsTyped, HeadTyped DEF PumpFinishes, At
  <2> QED
    BY <1>5, <2>1, HeadTyped, CountTyped DEF PumpFinishes, TypeOK
<1>6. ASSUME NEW t \in Threads, PumpStops(t) PROVE TypeOK'
  <2>1. calls' \in [Threads -> Seq(CallType)]
    BY <1>6, CallsTyped, NoPacketTyped DEF PumpStops, At
  <2> QED
    BY <1>6, <2>1, ResetTyped DEF PumpStops, TypeOK
<1>7. ASSUME NEW t \in Threads, PumpEnds(t) PROVE TypeOK'
  <2>1. calls' \in [Threads -> Seq(CallType)]
    BY <1>7, CallsTyped, NoPacketTyped DEF PumpEnds, At
  <2> QED
    BY <1>7, <2>1, CountTyped DEF PumpEnds, TypeOK
<1>8. ASSUME NEW t \in Threads, FlushStream(t) PROVE TypeOK'
  <2>1. calls' \in [Threads -> Seq(CallType)]
    BY <1>8, CallsTyped, NoPacketTyped, HeadTyped DEF FlushStream, At
  <2>2. CASE packets # <<>>
    BY <1>8, <2>1, <2>2, HeadTyped DEF FlushStream, TypeOK
  <2>3. CASE packets = <<>>
    BY <1>8, <2>1, <2>3, ResetTyped DEF FlushStream, TypeOK
  <2> QED
    BY <2>2, <2>3
<1>9. ASSUME NEW t \in Threads, NEW size \in Sizes, Process(t, size) PROVE TypeOK'
  <2>1. calls' \in [Threads -> Seq(CallType)]
    BY <1>9, CallsTyped, NoPacketTyped DEF Process, InBody, At
  <2>2. NextPacket \in Packets
    BY <1>9 DEF Process, NextPacket
  <2>3. CASE ~HasRoom(size)
    BY <1>9, <2>1, <2>3 DEF Process, TypeOK
  <2>4. CASE HasRoom(size)
    <3>1. size \in Nat
      BY StreamAssumption
    <3>2. /\ playing' \in BOOLEAN /\ sounding' \in BOOLEAN
          /\ lastPlayCursor' \in 0..(BufferBytes - 1) /\ failures' \in Nat
      <4>1. CASE playing \/ paused
        BY <1>9, <2>4, <4>1 DEF Process, TypeOK
      <4>2. CASE ~(playing \/ paused)
        BY <1>9, <2>4, <4>2, StartTyped DEF Process
      <4> QED
        BY <4>1, <4>2
    <3>3. sound' \in [0..(BufferBytes - 1) -> 0..MaxPackets]
      <4>1. sound' = [o \in DOMAIN sound |->
                        IF o \in Written(size) THEN NextPacket ELSE sound[o]]
        BY <1>9, <2>4 DEF Process
      <4>2. NextPacket \in 0..MaxPackets
        BY <2>2, StreamAssumption DEF Packets
      <4> QED
        BY <4>1, <4>2 DEF TypeOK
    <3>4. CASE failures' = failures
      <4>1. [id |-> NextPacket, size |-> size, end |-> writtenBytes + size] \in PacketType
        BY <2>2, <3>1, StreamAssumption DEF PacketType, Packets, TypeOK
      <4>2. packets' \in Seq(PacketType)
        <5>1. packets' = Append(packets, [id |-> NextPacket, size |-> size,
                                          end |-> writtenBytes + size])
          BY <1>9, <2>4, <3>4 DEF Process
        <5> QED
          BY <4>1, <5>1 DEF TypeOK
      <4>3. writtenBytes' \in Nat
        BY <1>9, <2>4, <3>1, <3>4 DEF Process, TypeOK
      <4>4. status' \in [Packets -> {"unused", "pending", "success", "flushed", "failure"}]
        BY <1>9, <2>2, <2>4, <3>4 DEF Process, TypeOK
      <4> QED
        BY <1>9, <2>1, <2>4, <3>2, <3>3, <4>2, <4>3, <4>4 DEF Process, TypeOK
    <3>5. CASE failures' # failures
      <4>1. status' \in [Packets -> {"unused", "pending", "success", "flushed", "failure"}]
        BY <1>9, <2>2, <2>4, <3>5 DEF Process, TypeOK
      <4> QED
        BY <1>9, <2>1, <2>4, <3>2, <3>3, <3>5, <4>1 DEF Process, TypeOK
    <3> QED
      BY <3>4, <3>5
  <2> QED
    BY <2>3, <2>4
<1>10. ASSUME NEW t \in Threads, GetStatus(t) PROVE TypeOK'
  <2>1. calls' \in [Threads -> Seq(CallType)]
    BY <1>10, CallsTyped, NoPacketTyped DEF GetStatus, InBody, At
  <2> QED
    BY <1>10, <2>1 DEF GetStatus, TypeOK
<1>11. ASSUME NEW t \in Threads, Pause(t) PROVE TypeOK'
  <2>1. calls' \in [Threads -> Seq(CallType)]
    BY <1>11, CallsTyped, NoPacketTyped DEF Pause, InBody, At
  <2> QED
    BY <1>11, <2>1 DEF Pause, TypeOK
<1>12. ASSUME NEW t \in Threads, Resume(t) PROVE TypeOK'
  <2>1. calls' \in [Threads -> Seq(CallType)]
    BY <1>12, CallsTyped, NoPacketTyped DEF Resume, InBody, At
  <2> QED
    BY <1>12, <2>1, StartTyped DEF Resume, TypeOK
<1>13. ASSUME NEW t \in Threads, SynchPlayback(t) PROVE TypeOK'
  <2>1. calls' \in [Threads -> Seq(CallType)]
    BY <1>13, CallsTyped, NoPacketTyped DEF SynchPlayback, InBody, At
  <2>2. CASE synchronized
    BY <1>13, <2>1, <2>2, StartTyped DEF SynchPlayback, TypeOK
  <2>3. CASE ~synchronized
    BY <1>13, <2>1, <2>3 DEF SynchPlayback, TypeOK
  <2> QED
    BY <2>2, <2>3
<1>14. CASE UNCHANGED vars
  BY <1>14 DEF vars, TypeOK
<1> QED
  BY <1>1, <1>2, <1>3, <1>4, <1>5, <1>6, <1>7, <1>8, <1>9, <1>10, <1>11, <1>12, <1>13, <1>14
     DEF Next, Work, PumpStream, Body

(* Every variable keeps its type: in particular the play cursor stays inside
   the buffer, and the host's position is never behind zero. *)
THEOREM TypeCorrect == Spec => []TypeOK
<1>1. ASSUME Init PROVE TypeOK
  <2>1. packets \in Seq(PacketType) /\ calls \in [Threads -> Seq(CallType)]
    BY <1>1 DEF Init
  <2>2. 0 \in 0..(BufferBytes - 1) /\ 0 \in 0..MaxPackets
    BY StreamAssumption
  <2>3. /\ lastPlayCursor \in 0..(BufferBytes - 1)
        /\ sound \in [0..(BufferBytes - 1) -> 0..MaxPackets]
    BY <1>1, <2>2 DEF Init
  <2>4. status \in [Packets -> {"unused", "pending", "success", "flushed", "failure"}]
    BY <1>1 DEF Init
  <2>5. {playedBytes, writtenBytes, heard, failures} \subseteq Nat
    BY <1>1 DEF Init
  <2>6. {playing, paused, synchronized, sounding} \subseteq BOOLEAN
    BY <1>1, Zenon DEF Init
  <2> QED
    BY <2>1, <2>3, <2>4, <2>5, <2>6 DEF TypeOK
<1> QED
  BY <1>1, TypeInductive, PTL DEF Spec

-----------------------------------------------------------------------------
(* What the stream has counted, and what it would add by reading the cursor
   now, is no more than what the host has played. *)
NotAhead == playedBytes + Advance <= heard

(* Reading the cursor adds what was counted ahead and leaves nothing to add. *)
LEMMA CountNotAhead ==
    ASSUME TypeOK, NotAhead, CountPlayed, UNCHANGED heard
    PROVE  NotAhead' /\ playedBytes' <= heard
<1>1. Advance \in Nat /\ playedBytes \in Nat /\ heard \in Nat
  BY AdvanceTyped DEF TypeOK
<1>2. PlayCursor' = PlayCursor
  BY DEF PlayCursor, Offset
<1>3. CASE playing /\ ~paused
  <2>1. playedBytes' = playedBytes + Advance /\ lastPlayCursor' = PlayCursor
    BY <1>3 DEF CountPlayed
  <2>2. Advance' = 0
    BY <1>2, <2>1, StreamAssumption, CursorTyped, NoDistance DEF Advance
  <2> QED
    BY <1>1, <2>1, <2>2 DEF NotAhead
<1>4. CASE ~(playing /\ ~paused)
  <2>1. playedBytes' = playedBytes /\ Advance' = Advance
    BY <1>2, <1>4 DEF CountPlayed, Advance
  <2> QED
    BY <1>1, <2>1 DEF NotAhead
<1> QED
  BY <1>3, <1>4

LEMMA ResetNotAhead ==
    ASSUME TypeOK, ResetStoppedStream
    PROVE  NotAhead'
<1>1. heard' = 0 /\ lastPlayCursor' = 0 /\ playedBytes' = 0
  BY DEF ResetStoppedStream
<1>2. 0 % BufferBytes = 0
  BY StreamAssumption, RemainderRange, SMT
<1>3. (0 + BufferBytes - 0) % BufferBytes = 0
  BY StreamAssumption, NoDistance
<1>4. Advance' = 0
  BY <1>1, <1>2, <1>3 DEF Advance, PlayCursor, Offset
<1> QED
  BY <1>1, <1>4 DEF NotAhead

(* Playback begins at the cursor of the moment: what the host played before is
   not counted. *)
LEMMA StartNotAhead ==
    ASSUME TypeOK, NotAhead, NEW count, StartPlayback(count), UNCHANGED <<playedBytes, heard>>
    PROVE  NotAhead'
<1>1. Advance \in Nat /\ playedBytes \in Nat /\ heard \in Nat
  BY AdvanceTyped DEF TypeOK
<1>2. PlayCursor' = PlayCursor
  BY DEF PlayCursor, Offset
<1>3. CASE lastPlayCursor' = lastPlayCursor
  <2>1. Advance' = Advance
    BY <1>2, <1>3 DEF Advance
  <2> QED
    BY <2>1 DEF NotAhead
<1>4. CASE lastPlayCursor' = PlayCursor
  <2>1. Advance' = 0
    BY <1>2, <1>4, StreamAssumption, CursorTyped, NoDistance DEF Advance
  <2> QED
    BY <1>1, <2>1 DEF NotAhead
<1> QED
  BY <1>3, <1>4 DEF StartPlayback

LEMMA SameNotAhead ==
    ASSUME NotAhead, UNCHANGED <<playedBytes, lastPlayCursor, heard>>
    PROVE  NotAhead'
  BY DEF NotAhead, Advance, PlayCursor, Offset

THEOREM NotAheadInductive == TypeOK /\ NotAhead /\ [Next]_vars => NotAhead'
<1> SUFFICES ASSUME TypeOK, NotAhead, [Next]_vars PROVE NotAhead'
  OBVIOUS
<1> USE DEF books, flags, host
<1>1. CASE HostPlays
  <2>1. heard' = heard + 1 /\ playedBytes' = playedBytes /\ lastPlayCursor' = lastPlayCursor
    BY <1>1 DEF HostPlays
  <2>2. Advance' <= Advance + 1
    BY <2>1, StreamAssumption, DistanceOfNext DEF Advance, PlayCursor, Offset, TypeOK
  <2>3. Advance \in Nat /\ playedBytes \in Nat /\ heard \in Nat
    BY AdvanceTyped DEF TypeOK
  <2>4. Advance' \in Nat
    BY <2>1, <2>3, StreamAssumption, RemainderRange DEF Advance, PlayCursor, Offset, TypeOK
  <2>5. playedBytes + Advance <= heard
    BY DEF NotAhead
  <2>6. playedBytes' + Advance' <= heard'
    <3>1. \A a, b, p, h \in Nat : b <= a + 1 /\ p + a <= h => p + b <= h + 1
      OBVIOUS
    <3>2. playedBytes + Advance' <= heard + 1
      BY <2>2, <2>3, <2>4, <2>5, <3>1
    <3> QED
      BY <2>1, <3>2
  <2> QED
    BY <2>6 DEF NotAhead
<1>2. ASSUME NEW t \in Threads, NEW kind \in Kinds, Call(t, kind) PROVE NotAhead'
  BY <1>2, SameNotAhead DEF Call
<1>3. ASSUME NEW t \in Threads, FinishStreamPacket(t) PROVE NotAhead'
  BY <1>3, SameNotAhead DEF FinishStreamPacket
<1>4. ASSUME NEW t \in Threads, CallbackReturns(t) PROVE NotAhead'
  BY <1>4, SameNotAhead DEF CallbackReturns
<1>5. ASSUME NEW t \in Threads, PumpFinishes(t) PROVE NotAhead'
  BY <1>5, CountNotAhead DEF PumpFinishes
<1>6. ASSUME NEW t \in Threads, PumpStops(t) PROVE NotAhead'
  BY <1>6, ResetNotAhead DEF PumpStops
<1>7. ASSUME NEW t \in Threads, PumpEnds(t) PROVE NotAhead'
  BY <1>7, CountNotAhead DEF PumpEnds
<1>8. ASSUME NEW t \in Threads, FlushStream(t) PROVE NotAhead'
  BY <1>8, SameNotAhead, ResetNotAhead DEF FlushStream
<1>9. ASSUME NEW t \in Threads, NEW size \in Sizes, Process(t, size) PROVE NotAhead'
  <2>1. CASE ~HasRoom(size)
    BY <1>9, <2>1, SameNotAhead DEF Process
  <2>2. CASE HasRoom(size) /\ (playing \/ paused)
    BY <1>9, <2>2, SameNotAhead DEF Process
  <2>3. CASE HasRoom(size) /\ ~(playing \/ paused)
    BY <1>9, <2>3, StartNotAhead DEF Process
  <2> QED
    BY <2>1, <2>2, <2>3
<1>10. ASSUME NEW t \in Threads, GetStatus(t) PROVE NotAhead'
  BY <1>10, SameNotAhead DEF GetStatus
<1>11. ASSUME NEW t \in Threads, Pause(t) PROVE NotAhead'
  BY <1>11, SameNotAhead DEF Pause
<1>12. ASSUME NEW t \in Threads, Resume(t) PROVE NotAhead'
  BY <1>12, StartNotAhead DEF Resume
<1>13. ASSUME NEW t \in Threads, SynchPlayback(t) PROVE NotAhead'
  <2>1. CASE synchronized
    BY <1>13, <2>1, StartNotAhead DEF SynchPlayback
  <2>2. CASE ~synchronized
    BY <1>13, <2>2, SameNotAhead DEF SynchPlayback
  <2> QED
    BY <2>1, <2>2
<1>14. CASE UNCHANGED vars
  BY <1>14, SameNotAhead DEF vars
<1> QED
  BY <1>1, <1>2, <1>3, <1>4, <1>5, <1>6, <1>7, <1>8, <1>9, <1>10, <1>11, <1>12, <1>13, <1>14
     DEF Next, Work, PumpStream, Body

-----------------------------------------------------------------------------
(* A step that takes a packet out as finished is that thread's own pump. *)
LEMMA OnlyItsPump ==
    ASSUME TypeOK, Next, NEW t \in Threads, Succeeds(t)
    PROVE  PumpFinishes(t)
<1>1. Depth(t) > 0 /\ Top(t).at = "pump"
  BY DEF Succeeds, At
<1>2. calls'[t][Len(calls'[t])].at = "finish"
  BY DEF Succeeds
<1>3. calls[t] \in Seq(CallType) /\ calls[t][Len(calls[t])].at = "pump"
  BY <1>1 DEF TypeOK, Depth, Top
<1>4. calls'[t] # calls[t]
  BY <1>2, <1>3
<1>5. ~HostPlays
  BY <1>4 DEF HostPlays
<1>6. ASSUME NEW u \in Threads, u # t,
             Work(u) \/ \E kind \in Kinds : Call(u, kind)
      PROVE  FALSE
  <2>1. calls'[t] = calls[t]
    <3>1. ASSUME NEW e, calls' = [calls EXCEPT ![u] = e] PROVE calls'[t] = calls[t]
      BY <1>6, <3>1 DEF TypeOK
    <3>2. ASSUME NEW place, Goto(u, place) PROVE calls'[t] = calls[t]
      BY <1>6, <3>2 DEF Goto, TypeOK
    <3>3. ASSUME NEW place, NEW packet, Finishing(u, place, packet)
          PROVE  calls'[t] = calls[t]
      BY <1>6, <3>3 DEF Finishing, TypeOK
    <3>4. ASSUME Return(u) PROVE calls'[t] = calls[t]
      BY <1>6, <3>4 DEF Return, TypeOK
    <3>5. CASE \E kind \in Kinds : Call(u, kind)
      BY <1>6, <3>5 DEF Call, TypeOK
    <3>6. CASE Work(u)
      BY <3>2, <3>3, <3>4, <3>6
         DEF Work, PumpStream, PumpFinishes, PumpStops, PumpEnds, FlushStream,
             FinishStreamPacket, CallbackReturns, Body, Process, GetStatus, Pause,
             Resume, SynchPlayback
    <3> QED
      BY <1>6, <3>5, <3>6
  <2> QED
    BY <2>1, <1>4
<1>7. ~\E kind \in Kinds : Call(t, kind)
  <2>1. Depth(t) # 0 /\ ~At(t, "callback")
    BY <1>1 DEF At
  <2> QED
    BY <2>1, Zenon DEF Call
<1>8. ASSUME NEW place, place # "finish", Goto(t, place) PROVE FALSE
  <2> DEFINE q == calls[t]
             e == q[Len(q)]
  <2>1. calls'[t] = [q EXCEPT ![Len(q)] = [e EXCEPT !.at = place]]
    BY <1>8 DEF Goto, Depth, TypeOK
  <2>2. e \in CallType /\ Len(q) \in 1..Len(q)
    BY <1>1, <1>3 DEF Depth
  <2>3. Len(calls'[t]) = Len(q) /\ calls'[t][Len(q)] = [e EXCEPT !.at = place]
    BY <1>3, <2>1, <2>2
  <2>4. [e EXCEPT !.at = place].at = place
    BY <2>2 DEF CallType
  <2> QED
    BY <1>2, <1>8, <2>3, <2>4
<1>9. ASSUME Work(t) PROVE PumpFinishes(t)
  <2>1. ~PumpStops(t) /\ ~PumpEnds(t)
    BY <1>8 DEF PumpStops, PumpEnds
  <2>2. ~FlushStream(t)
    BY <1>1 DEF FlushStream, At
  <2>3. ~FinishStreamPacket(t) /\ ~CallbackReturns(t)
    BY <1>1 DEF FinishStreamPacket, CallbackReturns, At
  <2>4. ~Body(t)
    BY <1>1 DEF Body, Process, GetStatus, Pause, Resume, SynchPlayback, InBody, At
  <2> QED
    BY <1>9, <2>1, <2>2, <2>3, <2>4 DEF Work, PumpStream
<1> QED
  BY <1>5, <1>6, <1>7, <1>9 DEF Next

LEMMA InitNotAhead == Init => NotAhead
<1> SUFFICES ASSUME Init PROVE NotAhead
  OBVIOUS
<1>1. 0 % BufferBytes = 0 /\ (0 + BufferBytes - 0) % BufferBytes = 0
  BY StreamAssumption, RemainderRange, NoDistance, RemainderUnique
<1> QED
  BY <1>1 DEF Init, NotAhead, Advance, PlayCursor, Offset

(* A pump reports success only for a packet the host has played to its end
   (NeverEarly), for every size of buffer and every interleaving of calls. *)
THEOREM PlayedIsHeard == Spec => NeverEarly
<1>1. Init => NotAhead
  BY InitNotAhead
<1>2. TypeOK /\ NotAhead /\ [Next]_vars
        => [\A t \in Threads : Succeeds(t) => heard >= Head(packets).end]_vars
  <2> SUFFICES ASSUME TypeOK, NotAhead, Next, NEW t \in Threads, Succeeds(t)
               PROVE  heard >= Head(packets).end
    OBVIOUS
  <2>1. PumpFinishes(t)
    BY OnlyItsPump
  <2>2. playedBytes' <= heard
    BY <2>1, CountNotAhead DEF PumpFinishes, host
  <2>3. Head(packets).end \in Nat /\ playedBytes' \in Nat /\ heard \in Nat
    BY <2>1, HeadTyped, CountTyped DEF PumpFinishes, PacketType, TypeOK
  <2> QED
    BY <2>1, <2>2, <2>3 DEF PumpFinishes
<1> QED
  BY <1>1, <1>2, TypeCorrect, NotAheadInductive, PTL DEF Spec, NeverEarly

-----------------------------------------------------------------------------
(* What is still to be heard *)

(* Positions less than a buffer apart have different places in the buffer. *)
LEMMA PlacesDiffer ==
    ASSUME NEW b \in Nat \ {0}, NEW x \in Nat, NEW y \in Nat, x < y, y - x < b
    PROVE  x % b # y % b
<1> DEFINE q == x \div b
           m == x % b
           r == y \div b
           n == y % b
<1>1. q \in Nat /\ m \in 0..(b - 1) /\ r \in Nat /\ n \in 0..(b - 1)
  BY SMT
<1>2. x = b * q + m /\ y = b * r + n
  BY SMT
<1>m. m = x % b /\ n = y % b
  OBVIOUS
<1> HIDE DEF q, m, r, n
<1> SUFFICES ASSUME m = n PROVE FALSE
  BY <1>m
<1>3. CASE r <= q
  <2>1. PICK k \in Nat : q = r + k
    BY <1>1, <1>3
  <2>2. b * q = b * r + b * k /\ b * k \in Nat /\ b * r \in Nat
    BY <1>1, <2>1, SMT
  <2> QED
    BY <1>1, <1>2, <2>2
<1>4. CASE q < r
  <2>1. PICK k \in Nat : r = q + 1 + k
    BY <1>1, <1>4
  <2>2. b * r = b * q + b + b * k /\ b * k \in Nat /\ b * q \in Nat
    BY <1>1, <2>1, SMT
  <2> QED
    BY <1>1, <1>2, <2>2
<1> QED
  BY <1>1, <1>3, <1>4

(* A packet lies where something was written. *)
Behind ==
    \A i \in DOMAIN packets :
        packets[i].size <= packets[i].end /\ packets[i].end <= writtenBytes

Intact(q, from, buffer) ==
    \A position \in (q.end - q.size)..(q.end - 1) :
        position >= from => buffer[Offset(position)] = q.id

Unheard == Behind /\ \A i \in DOMAIN packets : Intact(packets[i], heard, sound)

LEMMA PacketTyped ==
    ASSUME NEW q \in PacketType
    PROVE  q.end \in Nat /\ q.size \in Nat
<1>1. q.end \in Nat /\ q.size \in {0} \cup Sizes
  BY DEF PacketType
<1>2. \A z \in {0} \cup Sizes : z \in Nat
  BY StreamAssumption
<1> QED
  BY <1>1, <1>2, Zenon

(* A step that writes nothing and queues nothing. *)
LEMMA UnheardKept ==
    ASSUME TypeOK, Unheard, UNCHANGED <<writtenBytes, sound>>,
           heard' \in Nat, heard' >= heard,
           \/ packets' = packets
           \/ packets # <<>> /\ packets' = Tail(packets)
    PROVE  Unheard'
<1>1. ASSUME NEW i \in DOMAIN packets'
      PROVE  \E j \in DOMAIN packets : packets'[i] = packets[j]
  <2>1. CASE packets' = packets
    BY <2>1
  <2>2. CASE packets # <<>> /\ packets' = Tail(packets)
    <3>1. i + 1 \in DOMAIN packets /\ packets'[i] = packets[i + 1]
      BY <1>1, <2>2 DEF TypeOK
    <3> QED
      BY <3>1
  <2> QED
    BY <2>1, <2>2
<1>2. ASSUME NEW i \in DOMAIN packets'
      PROVE  /\ packets'[i].size <= packets'[i].end /\ packets'[i].end <= writtenBytes'
             /\ Intact(packets'[i], heard', sound')
  <2>1. PICK j \in DOMAIN packets : packets'[i] = packets[j]
    BY <1>1, <1>2
  <2>2. packets[j] \in PacketType
    BY DEF TypeOK
  <2>3. packets[j].end \in Nat /\ packets[j].size \in Nat
    BY <2>2, PacketTyped
  <2>4. /\ packets[j].size <= packets[j].end /\ packets[j].end <= writtenBytes
        /\ Intact(packets[j], heard, sound)
    BY DEF Unheard, Behind
  <2>5. heard \in Nat
    BY DEF TypeOK
  <2>6. ASSUME NEW position \in (packets[j].end - packets[j].size)..(packets[j].end - 1),
               position >= heard'
        PROVE  sound'[Offset(position)] = packets[j].id
    <3>1. position >= heard
      BY <2>3, <2>4, <2>5, <2>6
    <3> QED
      BY <2>4, <2>6, <3>1 DEF Intact
  <2>7. Intact(packets[j], heard', sound')
    BY <2>6 DEF Intact
  <2> QED
    BY <2>1, <2>4, <2>7
<1> QED
  BY <1>2 DEF Unheard, Behind

LEMMA UnheardEmpty == ASSUME packets' = <<>> PROVE Unheard'
  BY DEF Unheard, Behind

(* A packet that finds room is written over nothing that is still to be heard. *)
LEMMA UnheardWriting ==
    ASSUME TypeOK, NotAhead, Unheard, NEW size \in Sizes, HasRoom(size), NEW p,
           NEW i \in DOMAIN packets, NEW buffer,
           buffer = [o \in DOMAIN sound |-> IF o \in Written(size) THEN p ELSE sound[o]]
    PROVE  Intact(packets[i], heard, buffer)
<1> DEFINE q == packets[i]
<1>1. q \in PacketType
  BY DEF TypeOK
<1>2. /\ q.end \in Nat /\ q.size \in Nat /\ writtenBytes \in Nat
      /\ heard \in Nat /\ playedBytes \in Nat
      /\ DOMAIN sound = 0..(BufferBytes - 1)
  BY <1>1, PacketTyped DEF TypeOK
<1>3. size \in Nat /\ BufferBytes \in Nat \ {0}
  BY StreamAssumption
<1>4. q.size <= q.end /\ q.end <= writtenBytes /\ Intact(q, heard, sound)
  BY DEF Unheard, Behind
<1>5. playedBytes <= heard
  BY <1>2, AdvanceTyped DEF NotAhead
<1> HIDE DEF q
<1> SUFFICES ASSUME NEW position \in (q.end - q.size)..(q.end - 1), position >= heard
             PROVE  buffer[Offset(position)] = q.id
  BY DEF Intact, q
<1>6. position \in Nat /\ position < writtenBytes
  BY <1>2, <1>4
<1>7. sound[Offset(position)] = q.id
  BY <1>4 DEF Intact
<1>8. Offset(position) \in DOMAIN sound
  BY <1>2, <1>3, <1>6, RemainderRange DEF Offset
<1>9. ASSUME NEW k \in 0..(size - 1)
      PROVE  Offset(position) # Offset(writtenBytes + k)
  <2>1. writtenBytes + size - playedBytes <= BufferBytes
    BY DEF HasRoom
  <2>2. PICK later \in Nat : later = writtenBytes + k
    BY <1>2, <1>3
  <2>3. position < later /\ later - position < BufferBytes
    BY <1>2, <1>3, <1>5, <1>6, <2>1, <2>2
  <2> QED
    BY <1>3, <1>6, <2>2, <2>3, PlacesDiffer DEF Offset
<1>10. Offset(position) \notin Written(size)
  BY <1>9 DEF Written
<1> QED
  BY <1>7, <1>8, <1>10

(* The packet just written is in the buffer. *)
LEMMA UnheardWritten ==
    ASSUME TypeOK, NEW size \in Sizes, NEW q, q.size = size, q.end = writtenBytes + size,
           NEW buffer,
           buffer = [o \in DOMAIN sound |-> IF o \in Written(size) THEN q.id ELSE sound[o]]
    PROVE  Intact(q, heard, buffer)
<1> SUFFICES ASSUME NEW position \in (q.end - q.size)..(q.end - 1)
             PROVE  buffer[Offset(position)] = q.id
  BY DEF Intact
<1>1. /\ size \in Nat /\ writtenBytes \in Nat /\ BufferBytes \in Nat \ {0}
      /\ DOMAIN sound = 0..(BufferBytes - 1)
  BY StreamAssumption DEF TypeOK
<1>2. PICK k \in 0..(size - 1) : position = writtenBytes + k
  <2>1. position - writtenBytes \in 0..(size - 1) /\ position = writtenBytes + (position - writtenBytes)
    BY <1>1
  <2> QED
    BY <2>1
<1>3. Offset(position) \in Written(size)
  BY <1>2 DEF Written
<1>4. Offset(position) \in DOMAIN sound
  BY <1>1, <1>2, RemainderRange DEF Offset
<1> QED
  BY <1>3, <1>4

THEOREM UnheardInductive == TypeOK /\ NotAhead /\ Unheard /\ [Next]_vars => Unheard'
<1> SUFFICES ASSUME TypeOK, NotAhead, Unheard, [Next]_vars PROVE Unheard'
  OBVIOUS
<1> USE DEF books, flags, host
<1>0. heard \in Nat /\ heard >= heard
  BY DEF TypeOK
<1>1. CASE HostPlays
  <2>1. heard' = heard + 1 /\ UNCHANGED <<packets, writtenBytes, sound>>
    BY <1>1 DEF HostPlays
  <2>2. heard' \in Nat /\ heard' >= heard
    BY <1>0, <2>1
  <2> QED
    BY <2>1, <2>2, UnheardKept
<1>2. CASE UNCHANGED <<packets, writtenBytes, sound, heard>>
  BY <1>0, <1>2, UnheardKept
<1>3. ASSUME NEW t \in Threads, PumpFinishes(t) PROVE Unheard'
  BY <1>0, <1>3, UnheardKept DEF PumpFinishes
<1>4. ASSUME NEW t \in Threads, PumpStops(t) PROVE Unheard'
  BY <1>4, UnheardEmpty DEF PumpStops
<1>5. ASSUME NEW t \in Threads, PumpEnds(t) PROVE Unheard'
  BY <1>0, <1>5, UnheardKept DEF PumpEnds
<1>6. ASSUME NEW t \in Threads, FlushStream(t) PROVE Unheard'
  <2>1. CASE packets # <<>>
    BY <1>0, <1>6, <2>1, UnheardKept DEF FlushStream
  <2>2. CASE packets = <<>>
    BY <1>6, <2>2, UnheardEmpty DEF FlushStream
  <2> QED
    BY <2>1, <2>2
<1>7. ASSUME NEW t \in Threads, NEW size \in Sizes, Process(t, size), HasRoom(size)
      PROVE  Unheard'
  <2>1. /\ sound' = [o \in DOMAIN sound |->
                       IF o \in Written(size) THEN NextPacket ELSE sound[o]]
        /\ heard' = heard
    BY <1>7 DEF Process
  <2>2. \A i \in DOMAIN packets : Intact(packets[i], heard', sound')
    BY <1>7, <2>1, UnheardWriting
  <2>3. /\ writtenBytes \in Nat /\ size \in Nat /\ packets \in Seq(PacketType)
        /\ \A i \in DOMAIN packets : packets[i].end \in Nat /\ packets[i].size \in Nat
    <3>1. packets \in Seq(PacketType) /\ \A i \in DOMAIN packets : packets[i] \in PacketType
      BY DEF TypeOK
    <3> QED
      BY <3>1, PacketTyped, StreamAssumption DEF TypeOK
  <2>4. CASE failures' = failures
    <3> DEFINE q == [id |-> NextPacket, size |-> size, end |-> writtenBytes + size]
    <3>1. packets' = Append(packets, q) /\ writtenBytes' = writtenBytes + size
      BY <1>7, <2>4 DEF Process
    <3>2. q.id = NextPacket /\ q.size = size /\ q.end = writtenBytes + size
      OBVIOUS
    <3> HIDE DEF q
    <3>3. Intact(q, heard', sound')
      BY <2>1, <3>2, UnheardWritten
    <3>4. q.size <= q.end /\ q.end <= writtenBytes'
      BY <2>3, <3>1, <3>2
    <3>5. ASSUME NEW i \in DOMAIN packets'
          PROVE  packets'[i] = q \/ (i \in DOMAIN packets /\ packets'[i] = packets[i])
      <4>1. Len(packets) \in Nat /\ DOMAIN packets = 1..Len(packets)
        BY <2>3
      <4>2. DOMAIN packets' = 1..(Len(packets) + 1)
            /\ \A j \in 1..(Len(packets) + 1) :
                  packets'[j] = IF j = Len(packets) + 1 THEN q ELSE packets[j]
        <5>1. NextPacket \in 0..MaxPackets
          BY <1>7 DEF Process, NextPacket, Packets
        <5>2. q \in PacketType
          BY <2>3, <5>1 DEF q, PacketType
        <5> QED
          BY <2>3, <3>1, <5>2
      <4> QED
        BY <3>5, <4>1, <4>2
    <3>6. \A i \in DOMAIN packets :
             packets[i].size <= packets[i].end /\ packets[i].end <= writtenBytes'
      BY <2>3, <3>1 DEF Unheard, Behind
    <3> QED
      BY <2>2, <3>3, <3>4, <3>5, <3>6 DEF Unheard, Behind
  <2>5. CASE failures' # failures
    <3>1. UNCHANGED <<packets, writtenBytes>>
      BY <1>7, <2>5 DEF Process
    <3> QED
      BY <2>2, <3>1 DEF Unheard, Behind
  <2> QED
    BY <2>4, <2>5
<1> QED
  BY <1>1, <1>2, <1>3, <1>4, <1>5, <1>6, <1>7
     DEF Next, Work, PumpStream, Body, Call, FinishStreamPacket, CallbackReturns, Process,
         GetStatus, Pause, Resume, SynchPlayback, vars

(* No later packet, and no clearing of the buffer, touches a byte of a queued
   packet that the host has still to play: the room a packet needs is counted
   from what the stream believes was played, which is never ahead of the host
   (1384-1436, 515-540). *)
THEOREM NothingOverwritten == Spec => []UnheardIntact
<1>1. Init => NotAhead /\ Unheard
  <2> SUFFICES ASSUME Init PROVE NotAhead /\ Unheard
    OBVIOUS
  <2>1. NotAhead
    BY InitNotAhead
  <2>2. packets = <<>>
    BY DEF Init
  <2> QED
    BY <2>1, <2>2 DEF Unheard, Behind
<1>2. Unheard => UnheardIntact
  BY DEF Unheard, Intact, UnheardIntact
<1> QED
  BY <1>1, <1>2, TypeCorrect, NotAheadInductive, UnheardInductive, PTL DEF Spec

-----------------------------------------------------------------------------
(* Who has a packet *)

(* How the calls of the threads change: the innermost of t moves, *)
LEMMA TopMoved ==
    ASSUME TypeOK, NEW t \in Threads, Depth(t) > 0, NEW packet \in PacketType,
           NEW place \in {"pump", "finish", "flush", "flushed", "callback", "body"},
           Goto(t, place) \/ Finishing(t, place, packet)
    PROVE  /\ Depth(t)' = Depth(t)
           /\ calls'[t][Depth(t)].at = place
           /\ calls'[t][Depth(t)].kind = calls[t][Depth(t)].kind
           /\ Finishing(t, place, packet) => calls'[t][Depth(t)].packet = packet
           /\ \A i \in 1..Depth(t) : i # Depth(t) => calls'[t][i] = calls[t][i]
           /\ \A u \in Threads \ {t} : calls'[u] = calls[u]
<1> DEFINE q == calls[t]
           n == Len(q)
<1>1. q \in Seq(CallType) /\ n \in 1..n /\ n = Depth(t)
  BY DEF TypeOK, Depth
<1>2. q[n] \in CallType
  BY <1>1
<1>3. ASSUME NEW e \in CallType, calls' = [calls EXCEPT ![t] = [q EXCEPT ![n] = e]]
      PROVE  /\ Depth(t)' = Depth(t)
             /\ calls'[t][n] = e
             /\ \A i \in 1..n : i # n => calls'[t][i] = calls[t][i]
             /\ \A u \in Threads \ {t} : calls'[u] = calls[u]
  <2>1. calls'[t] = [q EXCEPT ![n] = e] /\ \A u \in Threads \ {t} : calls'[u] = calls[u]
    BY <1>3 DEF TypeOK
  <2> QED
    BY <1>1, <2>1 DEF Depth
<1>4. CASE Goto(t, place) /\ ~Finishing(t, place, packet)
  <2> DEFINE e == [q[n] EXCEPT !.at = place]
  <2>1. e \in CallType /\ e.at = place /\ e.kind = q[n].kind
    BY <1>2 DEF CallType
  <2>2. calls' = [calls EXCEPT ![t] = [q EXCEPT ![n] = e]]
    BY <1>4 DEF Goto, Depth, TypeOK
  <2> HIDE DEF e
  <2> QED
    BY <1>1, <1>3, <1>4, <2>1, <2>2
<1>5. CASE Finishing(t, place, packet)
  <2> DEFINE e == [q[n] EXCEPT !.at = place, !.packet = packet]
  <2>1. e \in CallType /\ e.at = place /\ e.packet = packet /\ e.kind = q[n].kind
    BY <1>2 DEF CallType
  <2>2. calls' = [calls EXCEPT ![t] = [q EXCEPT ![n] = e]]
    BY <1>1, <1>5 DEF Finishing, Depth, TypeOK
  <2> HIDE DEF e
  <2> QED
    BY <1>1, <1>3, <2>1, <2>2
<1> QED
  BY <1>4, <1>5

(* or returns, *)
LEMMA TopReturned ==
    ASSUME TypeOK, NEW t \in Threads, Depth(t) > 0, Return(t)
    PROVE  /\ Depth(t)' = Depth(t) - 1
           /\ \A i \in 1..(Depth(t) - 1) : calls'[t][i] = calls[t][i]
           /\ \A u \in Threads \ {t} : calls'[u] = calls[u]
<1>1. calls[t] \in Seq(CallType)
  BY DEF TypeOK
<1>2. calls'[t] = SubSeq(calls[t], 1, Len(calls[t]) - 1)
      /\ \A u \in Threads \ {t} : calls'[u] = calls[u]
  BY DEF Return, Depth, TypeOK
<1> QED
  BY <1>1, <1>2 DEF Depth

(* or makes a call. *)
LEMMA TopCalled ==
    ASSUME TypeOK, NEW t \in Threads, NEW e \in CallType,
           calls' = [calls EXCEPT ![t] = Append(@, e)]
    PROVE  /\ Depth(t)' = Depth(t) + 1
           /\ calls'[t][Depth(t) + 1] = e
           /\ \A i \in 1..Depth(t) : calls'[t][i] = calls[t][i]
           /\ \A u \in Threads \ {t} : calls'[u] = calls[u]
<1>1. calls[t] \in Seq(CallType)
  BY DEF TypeOK
<1>2. calls'[t] = Append(calls[t], e) /\ \A u \in Threads \ {t} : calls'[u] = calls[u]
  BY DEF TypeOK
<1> QED
  BY <1>1, <1>2 DEF Depth

(* A call that has taken a packet out and not yet reported it. *)
Holding(u, i) == i <= Depth(u) /\ calls[u][i].at \in {"finish", "flushed"}

Owned(p) ==
    IF status[p] = "pending"
    THEN \/ Holders(p) = {} /\ \E i \in DOMAIN packets : Places(p) = {i}
         \/ Places(p) = {} /\ \E h \in Holders(p) : Holders(p) = {h}
    ELSE Holders(p) = {} /\ Places(p) = {}

(* Besides: only real packets are queued or held, and the calls are as many as
   Holders looks at. *)
NamedCalls ==
    /\ \A u \in Threads : Depth(u) \in 0..MaxDepth
    /\ \A u \in Threads : \A i \in 1..MaxDepth : Holding(u, i) => calls[u][i].packet.id \in Packets

NamedPackets == \A i \in DOMAIN packets : packets[i].id \in Packets

OInv == NamedCalls /\ NamedPackets /\ \A p \in Packets : Owned(p)

SameHoldings ==
    \A u \in Threads : \A i \in 1..MaxDepth :
        /\ Holding(u, i)' <=> Holding(u, i)
        /\ Holding(u, i) => calls'[u][i].packet = calls[u][i].packet

LEMMA HoldersSame ==
    ASSUME SameHoldings
    PROVE  \A p : Holders(p)' = Holders(p)
<1>1. ASSUME NEW p, NEW u \in Threads, NEW i \in 1..MaxDepth
      PROVE  Holds(u, i, p)' <=> Holds(u, i, p)
  BY DEF SameHoldings, Holding, Holds
<1> QED
  BY <1>1 DEF Holders

(* A step of a thread that takes no packet out and reports none. *)
LEMMA QuietStep ==
    ASSUME TypeOK, NamedCalls, NEW t \in Threads,
           \/ /\ Depth(t) > 0 /\ Top(t).at \notin {"finish", "flushed"}
              /\ \/ \E place \in {"pump", "flush", "callback", "body"} : Goto(t, place)
                 \/ Return(t)
           \/ \E kind \in Kinds : Call(t, kind)
    PROVE  NamedCalls' /\ SameHoldings
<1>0. Depth(t) \in Nat /\ MaxDepth \in Nat
  BY StreamAssumption DEF TypeOK, Depth
<1>1. ASSUME Depth(t) > 0, Top(t).at \notin {"finish", "flushed"},
             NEW place \in {"pump", "flush", "callback", "body"}, Goto(t, place)
      PROVE  NamedCalls' /\ SameHoldings
  <2>1. /\ Depth(t)' = Depth(t)
        /\ calls'[t][Depth(t)].at = place
        /\ \A i \in 1..Depth(t) : i # Depth(t) => calls'[t][i] = calls[t][i]
        /\ \A u \in Threads \ {t} : calls'[u] = calls[u]
    BY <1>1, TopMoved, NoPacketTyped
  <2>2. SameHoldings
    BY <1>0, <1>1, <2>1 DEF SameHoldings, Holding, Depth, Top
  <2>3. NamedCalls'
    BY <1>0, <2>1, <2>2 DEF NamedCalls, SameHoldings, Depth
  <2> QED
    BY <2>2, <2>3
<1>2. ASSUME Depth(t) > 0, Top(t).at \notin {"finish", "flushed"}, Return(t)
      PROVE  NamedCalls' /\ SameHoldings
  <2>1. /\ Depth(t)' = Depth(t) - 1
        /\ \A i \in 1..(Depth(t) - 1) : calls'[t][i] = calls[t][i]
        /\ \A u \in Threads \ {t} : calls'[u] = calls[u]
    BY <1>2, TopReturned
  <2>2. SameHoldings
    BY <1>0, <1>2, <2>1 DEF SameHoldings, Holding, Depth, Top
  <2>3. NamedCalls'
    BY <1>0, <1>2, <2>1, <2>2 DEF NamedCalls, SameHoldings, Depth
  <2> QED
    BY <2>2, <2>3
<1>3. ASSUME NEW kind \in Kinds, Call(t, kind) PROVE NamedCalls' /\ SameHoldings
  <2>1. PICK first \in {"pump", "flush", "body"} :
           calls' = [calls EXCEPT ![t] =
                       Append(@, [kind |-> kind, at |-> first, packet |-> None])]
    <3>1. PICK first : calls' = [calls EXCEPT ![t] =
                Append(@, [kind |-> kind, at |-> first, packet |-> None])]
                /\ first = (CASE kind \in Pumping -> "pump"
                              [] kind = "flush" -> "flush"
                              [] OTHER -> "body")
      BY <1>3 DEF Call
    <3>2. "flush" \notin Pumping
      BY DEF Pumping
    <3> QED
      BY <3>1, <3>2
  <2> DEFINE e == [kind |-> kind, at |-> first, packet |-> None]
  <2>2. e \in CallType /\ e.at \notin {"finish", "flushed"}
    BY NoPacketTyped DEF CallType
  <2>3. calls' = [calls EXCEPT ![t] = Append(@, e)]
    BY <2>1
  <2> HIDE DEF e
  <2>4. /\ Depth(t)' = Depth(t) + 1
        /\ calls'[t][Depth(t) + 1] = e
        /\ \A i \in 1..Depth(t) : calls'[t][i] = calls[t][i]
        /\ \A u \in Threads \ {t} : calls'[u] = calls[u]
    BY <2>2, <2>3, TopCalled
  <2>5. SameHoldings
    BY <1>0, <2>2, <2>4 DEF SameHoldings, Holding, Depth
  <2>6. Depth(t) < MaxDepth
    BY <1>3 DEF Call
  <2>7. NamedCalls'
    BY <1>0, <2>4, <2>5, <2>6 DEF NamedCalls, SameHoldings, Depth
  <2> QED
    BY <2>5, <2>7
<1> QED
  BY <1>1, <1>2, <1>3

(* Taking a packet out of the ring makes its taker the one who has it; *)
LEMMA TakeStep ==
    ASSUME TypeOK, NamedCalls, NEW t \in Threads, Depth(t) > 0,
           Top(t).at \notin {"finish", "flushed"}, NEW place \in {"finish", "flushed"},
           NEW packet \in PacketType, packet.id \in Packets, Finishing(t, place, packet)
    PROVE  /\ NamedCalls'
           /\ \A p : Holders(p)' = IF p = packet.id THEN Holders(p) \cup {<<t, Depth(t)>>}
                                   ELSE Holders(p)
<1>0. Depth(t) \in Nat /\ MaxDepth \in Nat /\ Depth(t) \in 1..MaxDepth
  <2>1. Depth(t) \in Nat /\ MaxDepth \in Nat
    BY StreamAssumption DEF TypeOK, Depth
  <2> QED
    BY <2>1 DEF NamedCalls
<1>1. /\ Depth(t)' = Depth(t)
      /\ calls'[t][Depth(t)].at = place /\ calls'[t][Depth(t)].packet = packet
      /\ \A i \in 1..Depth(t) : i # Depth(t) => calls'[t][i] = calls[t][i]
      /\ \A u \in Threads \ {t} : calls'[u] = calls[u]
  <2>1. place \in {"pump", "finish", "flush", "flushed", "callback", "body"}
    OBVIOUS
  <2> QED
    BY <2>1, TopMoved
<1>2. NamedCalls'
  <2>1. \A u \in Threads : Depth(u)' = Depth(u)
    BY <1>1 DEF Depth
  <2>2. ASSUME NEW u \in Threads, NEW i \in 1..MaxDepth, Holding(u, i)'
        PROVE  calls'[u][i].packet.id \in Packets
    <3>1. CASE u = t /\ i = Depth(t)
      BY <1>1, <3>1
    <3>2. CASE u = t /\ i # Depth(t)
      <4>1. i \in 1..Depth(t) /\ calls'[t][i] = calls[t][i]
        BY <1>0, <1>1, <2>1, <2>2, <3>2 DEF Holding
      <4>2. Holding(t, i)
        BY <2>1, <2>2, <3>2, <4>1 DEF Holding
      <4> QED
        BY <3>2, <4>1, <4>2 DEF NamedCalls
    <3>3. CASE u # t
      <4>1. Holding(u, i) /\ calls'[u] = calls[u]
        BY <1>1, <2>1, <2>2, <3>3 DEF Holding
      <4> QED
        BY <4>1 DEF NamedCalls
    <3> QED
      BY <3>1, <3>2, <3>3
  <2> QED
    BY <2>1, <2>2 DEF NamedCalls
<1>3. ASSUME NEW p, NEW u \in Threads, NEW i \in 1..MaxDepth
      PROVE  Holds(u, i, p)' <=> Holds(u, i, p) \/ (p = packet.id /\ u = t /\ i = Depth(t))
  BY <1>0, <1>1 DEF Holds, Depth, Top
<1>4. ASSUME NEW p
      PROVE  Holders(p)' = IF p = packet.id THEN Holders(p) \cup {<<t, Depth(t)>>} ELSE Holders(p)
  <2>1. ASSUME NEW h \in Threads \X (1..MaxDepth)
        PROVE  Holds(h[1], h[2], p)' <=>
                 Holds(h[1], h[2], p) \/ (p = packet.id /\ h = <<t, Depth(t)>>)
    BY <1>3
  <2> QED
    BY <1>0, <2>1 DEF Holders
<1> QED
  BY <1>2, <1>4

(* reporting it, nobody. *)
LEMMA ReportStep ==
    ASSUME TypeOK, NamedCalls, NEW t \in Threads, Depth(t) > 0,
           Top(t).at \in {"finish", "flushed"}, Finishing(t, "callback", None)
    PROVE  /\ NamedCalls'
           /\ Top(t).packet.id \in Packets
           /\ \A p : <<t, Depth(t)>> \in Holders(p) <=> p = Top(t).packet.id
           /\ \A p : Holders(p)' = Holders(p) \ {<<t, Depth(t)>>}
<1>0. Depth(t) \in Nat /\ MaxDepth \in Nat /\ Depth(t) \in 1..MaxDepth
  <2>1. Depth(t) \in Nat /\ MaxDepth \in Nat
    BY StreamAssumption DEF TypeOK, Depth
  <2> QED
    BY <2>1 DEF NamedCalls
<1>1. /\ Depth(t)' = Depth(t)
      /\ calls'[t][Depth(t)].at = "callback"
      /\ \A i \in 1..Depth(t) : i # Depth(t) => calls'[t][i] = calls[t][i]
      /\ \A u \in Threads \ {t} : calls'[u] = calls[u]
  BY TopMoved, NoPacketTyped
<1>2. NamedCalls'
  BY <1>0, <1>1 DEF NamedCalls, Holding, Depth
<1>3. ASSUME NEW p, NEW u \in Threads, NEW i \in 1..MaxDepth
      PROVE  Holds(u, i, p)' <=> Holds(u, i, p) /\ ~(u = t /\ i = Depth(t))
  BY <1>0, <1>1 DEF Holds, Depth, Top
<1>4. ASSUME NEW p
      PROVE  Holders(p)' = Holders(p) \ {<<t, Depth(t)>>}
  <2>1. ASSUME NEW h \in Threads \X (1..MaxDepth)
        PROVE  Holds(h[1], h[2], p)' <=> Holds(h[1], h[2], p) /\ h # <<t, Depth(t)>>
    BY <1>3
  <2> QED
    BY <2>1 DEF Holders
<1>5. Holding(t, Depth(t)) /\ Holds(t, Depth(t), Top(t).packet.id)
  BY <1>0 DEF Holding, Holds, Top
<1>6. Top(t).packet.id \in Packets
  BY <1>0, <1>5 DEF NamedCalls, Top
<1>7. \A p : <<t, Depth(t)>> \in Holders(p) <=> p = Top(t).packet.id
  BY <1>0, <1>5 DEF Holders, Holds, Top
<1> QED
  BY <1>2, <1>4, <1>6, <1>7

(* The ring without its first packet, and with one more. *)
LEMMA PlacesShift ==
    ASSUME TypeOK, packets # <<>>, packets' = Tail(packets)
    PROVE  /\ \A p : Places(p)' = {i \in 1..(Len(packets) - 1) : i + 1 \in Places(p)}
           /\ NamedPackets => NamedPackets'
           /\ DOMAIN packets = 1..Len(packets) /\ Len(packets) \in Nat \ {0}
           /\ Head(packets) = packets[1]
<1>1. packets \in Seq(PacketType)
  BY DEF TypeOK
<1>2. /\ DOMAIN packets' = 1..(Len(packets) - 1) /\ DOMAIN packets = 1..Len(packets)
      /\ Len(packets) \in Nat \ {0} /\ Head(packets) = packets[1]
      /\ \A i \in 1..(Len(packets) - 1) : packets'[i] = packets[i + 1]
  BY <1>1
<1> QED
  BY <1>2 DEF Places, NamedPackets

LEMMA PlacesAppend ==
    ASSUME TypeOK, NEW q \in PacketType, q.id \in Packets, packets' = Append(packets, q)
    PROVE  /\ \A p : Places(p)' = IF p = q.id THEN Places(p) \cup {Len(packets) + 1}
                                  ELSE Places(p)
           /\ DOMAIN packets' = 1..(Len(packets) + 1) /\ DOMAIN packets = 1..Len(packets)
           /\ Len(packets) \in Nat
           /\ NamedPackets => NamedPackets'
<1>1. packets \in Seq(PacketType)
  BY DEF TypeOK
<1>2. /\ DOMAIN packets' = 1..(Len(packets) + 1) /\ DOMAIN packets = 1..Len(packets)
      /\ Len(packets) \in Nat
      /\ \A i \in 1..Len(packets) : packets'[i] = packets[i]
      /\ packets'[Len(packets) + 1] = q
  BY <1>1
<1> QED
  BY <1>2 DEF Places, NamedPackets

LEMMA OwnedSame ==
    ASSUME OInv, NamedCalls', SameHoldings, UNCHANGED <<packets, status>>
    PROVE  OInv'
<1>1. \A p : Holders(p)' = Holders(p) /\ Places(p)' = Places(p)
  BY HoldersSame DEF Places
<1>2. ASSUME NEW p \in Packets PROVE Owned(p)'
  BY <1>1 DEF OInv, Owned
<1>3. NamedPackets'
  BY DEF OInv, NamedPackets
<1> QED
  BY <1>2, <1>3 DEF OInv

LEMMA OwnedTaking ==
    ASSUME TypeOK, OInv, NEW t \in Threads, Depth(t) > 0,
           Top(t).at \notin {"finish", "flushed"}, NEW place \in {"finish", "flushed"},
           packets # <<>>, packets' = Tail(packets), Finishing(t, place, Head(packets)),
           UNCHANGED status
    PROVE  OInv'
<1> DEFINE q == Head(packets)
           h == <<t, Depth(t)>>
<1>1. /\ \A p : Places(p)' = {i \in 1..(Len(packets) - 1) : i + 1 \in Places(p)}
      /\ NamedPackets' /\ DOMAIN packets = 1..Len(packets) /\ Len(packets) \in Nat \ {0}
      /\ q = packets[1] /\ packets \in Seq(PacketType)
  BY PlacesShift DEF OInv, TypeOK
<1>2. q \in PacketType /\ q.id \in Packets
  BY <1>1, HeadTyped DEF OInv, NamedPackets
<1>a. PICK id \in Packets : id = q.id
  BY <1>2
<1>b. PICK taker : taker = h
  OBVIOUS
<1>3. /\ NamedCalls'
      /\ \A p : Holders(p)' = IF p = id THEN Holders(p) \cup {taker} ELSE Holders(p)
  BY <1>2, <1>a, <1>b, TakeStep DEF OInv
<1>4. \A p : 1 \in Places(p) <=> p = id
  BY <1>1, <1>a DEF Places
<1> HIDE DEF q, h
<1>5. Owned(id)'
  <2>1. status[id] = "pending" /\ Holders(id) = {} /\ Places(id) = {1}
    BY <1>4 DEF OInv, Owned
  <2>2. Holders(id)' = {taker} /\ Places(id)' = {}
    BY <1>1, <1>3, <2>1
  <2> QED
    BY <2>1, <2>2 DEF Owned
<1>6. ASSUME NEW p \in Packets, p # id PROVE Owned(p)'
  <2>1. Holders(p)' = Holders(p) /\ status'[p] = status[p]
    BY <1>3, <1>6
  <2>2. Places(p) = {} => Places(p)' = {}
    BY <1>1
  <2>3. ASSUME NEW i \in DOMAIN packets, Places(p) = {i}
        PROVE  \E j \in DOMAIN packets' : Places(p)' = {j}
    <3>1. i # 1
      BY <1>4, <1>6, <2>3
    <3>2. i - 1 \in 1..(Len(packets) - 1)
      BY <1>1, <3>1
    <3>3. Places(p)' = {i - 1}
      BY <1>1, <2>3, <3>2
    <3>4. DOMAIN packets' = 1..(Len(packets) - 1)
      BY <1>1
    <3> QED
      BY <3>2, <3>3, <3>4
  <2> QED
    BY <1>6, <2>1, <2>2, <2>3 DEF OInv, Owned
<1> QED
  BY <1>1, <1>3, <1>5, <1>6 DEF OInv

LEMMA OwnedReporting ==
    ASSUME TypeOK, OInv, NEW t \in Threads, FinishStreamPacket(t)
    PROVE  OInv'
<1>a. PICK h : h = <<t, Depth(t)>>
  OBVIOUS
<1>b. PICK id : id = Top(t).packet.id
  OBVIOUS
<1>1. /\ NamedCalls' /\ id \in Packets
      /\ \A p : h \in Holders(p) <=> p = id
      /\ \A p : Holders(p)' = Holders(p) \ {h}
  BY <1>a, <1>b, ReportStep DEF FinishStreamPacket, At, OInv
<1>2. /\ \A p \in Packets \ {id} : status'[p] = status[p]
      /\ status'[id] # "pending" /\ UNCHANGED packets
  BY <1>1, <1>b DEF FinishStreamPacket, TypeOK
<1>3. \A p : Places(p)' = Places(p)
  BY <1>2 DEF Places
<1>4. Owned(id)'
  <2>1. Places(id) = {} /\ Holders(id) = {h}
    BY <1>1 DEF OInv, Owned
  <2> QED
    BY <1>1, <1>2, <1>3, <2>1 DEF Owned
<1>5. ASSUME NEW p \in Packets, p # id PROVE Owned(p)'
  <2>1. Holders(p)' = Holders(p)
    BY <1>1, <1>5
  <2> QED
    BY <1>2, <1>3, <1>5, <2>1 DEF OInv, Owned
<1>6. NamedPackets'
  BY <1>2 DEF OInv, NamedPackets
<1> QED
  BY <1>1, <1>4, <1>5, <1>6 DEF OInv

LEMMA OwnedQueueing ==
    ASSUME TypeOK, OInv, NEW t \in Threads, NEW size \in Sizes, Process(t, size)
    PROVE  OInv'
<1>1. Depth(t) > 0 /\ Top(t).at = "body" /\ Return(t)
  BY DEF Process, InBody, At
<1>2. NamedCalls' /\ SameHoldings
  BY <1>1, QuietStep DEF OInv
<1>3. PICK id \in Packets : id = NextPacket /\ status[id] = "unused"
  BY DEF Process, NextPacket
<1>4. \A p : Holders(p)' = Holders(p)
  BY <1>2, HoldersSame
<1>5. CASE UNCHANGED <<packets, status>>
  BY <1>2, <1>5, OwnedSame
<1>6. CASE HasRoom(size) /\ failures' = failures
  <2> DEFINE q == [id |-> id, size |-> size, end |-> writtenBytes + size]
  <2>1. packets' = Append(packets, q) /\ status' = [status EXCEPT ![id] = "pending"]
    BY <1>3, <1>6 DEF Process
  <2>2. q \in PacketType /\ q.id = id
    <3>1. size \in Nat /\ writtenBytes \in Nat /\ id \in 0..MaxPackets
      BY <1>3, StreamAssumption DEF TypeOK, Packets
    <3> QED
      BY <3>1 DEF PacketType
  <2> HIDE DEF q
  <2>3. /\ \A p : Places(p)' = IF p = id THEN Places(p) \cup {Len(packets) + 1}
                               ELSE Places(p)
        /\ DOMAIN packets' = 1..(Len(packets) + 1) /\ DOMAIN packets = 1..Len(packets)
        /\ Len(packets) \in Nat /\ NamedPackets'
    BY <1>3, <2>1, <2>2, PlacesAppend DEF OInv
  <2>4. /\ status'[id] = "pending"
        /\ \A p \in Packets \ {id} : status'[p] = status[p]
    BY <1>3, <2>1 DEF TypeOK
  <2>5. Owned(id)'
    <3>1. Places(id) = {} /\ Holders(id) = {}
      BY <1>3 DEF OInv, Owned
    <3>2. PICK last \in Nat : last = Len(packets) + 1
      BY <2>3
    <3>3. Places(id)' = {last} /\ last \in DOMAIN packets'
      BY <2>3, <3>1, <3>2
    <3>4. Holders(id)' = {}
      BY <1>4, <3>1
    <3> QED
      BY <2>4, <3>3, <3>4 DEF Owned
  <2>6. ASSUME NEW p \in Packets, p # id PROVE Owned(p)'
    <3>1. Places(p)' = Places(p) /\ Holders(p)' = Holders(p) /\ status'[p] = status[p]
      BY <1>4, <2>3, <2>4, <2>6
    <3>2. DOMAIN packets \subseteq DOMAIN packets'
      BY <2>3
    <3> QED
      BY <2>6, <3>1, <3>2 DEF OInv, Owned
  <2> QED
    BY <1>2, <2>3, <2>5, <2>6 DEF OInv
<1>7. CASE HasRoom(size) /\ failures' # failures
  <2>1. UNCHANGED packets /\ status' = [status EXCEPT ![id] = "failure"]
    BY <1>3, <1>7 DEF Process
  <2>2. \A p : Places(p)' = Places(p)
    BY <2>1 DEF Places
  <2>3. ASSUME NEW p \in Packets PROVE Owned(p)'
    <3>1. status'[p] = (IF p = id THEN "failure" ELSE status[p])
      BY <2>1 DEF TypeOK
    <3> QED
      BY <1>3, <1>4, <2>1, <2>2, <3>1 DEF OInv, Owned
  <2> QED
    BY <1>2, <2>1, <2>3 DEF OInv, NamedPackets
<1> QED
  BY <1>5, <1>6, <1>7 DEF Process

THEOREM OwnedInductive == TypeOK /\ OInv /\ [Next]_vars => OInv'
<1> SUFFICES ASSUME TypeOK, OInv, [Next]_vars PROVE OInv'
  OBVIOUS
<1>0. NamedCalls
  BY DEF OInv
<1>1. CASE UNCHANGED <<packets, status, calls>>
  <2>1. NamedCalls' /\ SameHoldings
    BY <1>0, <1>1 DEF NamedCalls, SameHoldings, Holding, Depth
  <2> QED
    BY <1>1, <2>1, OwnedSame
<1>2. ASSUME NEW t \in Threads, UNCHANGED <<packets, status>>,
             \/ /\ Depth(t) > 0 /\ Top(t).at \notin {"finish", "flushed"}
                /\ \/ \E place \in {"pump", "flush", "callback", "body"} : Goto(t, place)
                   \/ Return(t)
             \/ \E kind \in Kinds : Call(t, kind)
      PROVE  OInv'
  BY <1>0, <1>2, QuietStep, OwnedSame
<1>3. ASSUME NEW t \in Threads, NEW kind \in Kinds, Call(t, kind) PROVE OInv'
  BY <1>2, <1>3 DEF Call
<1>4. ASSUME NEW t \in Threads, FinishStreamPacket(t) PROVE OInv'
  BY <1>4, OwnedReporting
<1>5. ASSUME NEW t \in Threads, CallbackReturns(t) PROVE OInv'
  BY <1>2, <1>5 DEF CallbackReturns, At
<1>6. ASSUME NEW t \in Threads, PumpFinishes(t) PROVE OInv'
  BY <1>6, OwnedTaking DEF PumpFinishes, At
<1>7. ASSUME NEW t \in Threads, PumpStops(t) \/ PumpEnds(t) PROVE OInv'
  BY <1>2, <1>7 DEF PumpStops, PumpEnds, At
<1>8. ASSUME NEW t \in Threads, FlushStream(t) PROVE OInv'
  <2>1. CASE packets # <<>>
    BY <1>8, <2>1, OwnedTaking DEF FlushStream, At
  <2>2. CASE packets = <<>>
    BY <1>2, <1>8, <2>2 DEF FlushStream, At
  <2> QED
    BY <2>1, <2>2
<1>9. ASSUME NEW t \in Threads, NEW size \in Sizes, Process(t, size) PROVE OInv'
  BY <1>9, OwnedQueueing
<1>10. ASSUME NEW t \in Threads, GetStatus(t) \/ Pause(t) \/ Resume(t) \/ SynchPlayback(t)
       PROVE OInv'
  BY <1>2, <1>10 DEF GetStatus, Pause, Resume, SynchPlayback, InBody, At
<1> QED
  BY <1>1, <1>3, <1>4, <1>5, <1>6, <1>7, <1>8, <1>9, <1>10
     DEF Next, Work, PumpStream, Body, HostPlays, vars

(* A pending packet is in the ring or in the hands of exactly one thread,
   whatever calls are nested in whatever callbacks: none is finished twice,
   none forgotten (583-688). *)
THEOREM EveryPacketOwned == Spec => []OwnedOnce
<1>1. Init => OInv
  <2> SUFFICES ASSUME Init PROVE OInv
    OBVIOUS
  <2>1. packets = <<>> /\ \A u \in Threads : Depth(u) = 0
    BY DEF Init, Depth
  <2>2. MaxDepth \in Nat
    BY StreamAssumption
  <2>3. NamedCalls /\ NamedPackets
    BY <2>1, <2>2 DEF NamedCalls, NamedPackets, Holding
  <2>4. \A p : Holders(p) = {} /\ Places(p) = {}
    BY <2>1, <2>2 DEF Holders, Holds, Places
  <2> QED
    BY <2>3, <2>4 DEF OInv, Owned, Init
<1>2. TypeOK /\ OInv => OwnedOnce
  BY DEF OInv, Owned, OwnedOnce
<1> QED
  BY <1>1, <1>2, TypeCorrect, OwnedInductive, PTL DEF Spec

-----------------------------------------------------------------------------
(* What is counted beyond the last packet *)

Excess == playedBytes > writtenBytes

(* A call that has called others is in its callback, and only flushes flush. *)
Shape ==
    \A u \in Threads : \A i \in 1..Depth(u) :
        /\ i # Depth(u) => calls[u][i].at = "callback"
        /\ calls[u][i].at = "pump" => calls[u][i].kind # "flush"
        /\ calls[u][i].at = "flush" => calls[u][i].kind = "flush"

(* Whoever counts an excess is still in its pump, which will reset the stream. *)
Watched ==
    failures = 0 /\ Excess =>
        /\ playing
        /\ \A t \in Threads : InBody(t, "process") => \E u \in Threads \ {t} : InPump(u)

AInv == Shape /\ Watched

(* A call that has pumped and is about to do what it came for. *)
PastPump(u) == \E kind \in Pumping : InBody(u, kind)

(* A step that ends no pump and brings no call that pumps to its body. *)
Quiet ==
    /\ Shape'
    /\ \A u \in Threads : InPump(u) => InPump(u)'
    /\ \A u \in Threads : \A kind \in Pumping : InBody(u, kind)' => InBody(u, kind)

LEMMA WatchedKept ==
    ASSUME AInv, Quiet, failures' = 0 => failures = 0,
           failures' = 0 /\ Excess' => Excess /\ (playing => playing')
    PROVE  AInv'
<1>1. "process" \in Pumping
  BY DEF Pumping
<1> QED
  BY <1>1 DEF AInv, Watched, Quiet

LEMMA QuietMove ==
    ASSUME TypeOK, Shape, NEW t \in Threads, Depth(t) > 0, NEW packet \in PacketType,
           NEW place \in {"pump", "finish", "flush", "flushed", "callback", "body"},
           Goto(t, place) \/ Finishing(t, place, packet),
           place = "pump" => Top(t).kind # "flush",
           place = "flush" => Top(t).kind = "flush"
    PROVE  /\ Shape'
           /\ \/ place \in {"pump", "finish", "callback"}
              \/ Top(t).kind = "flush"
              => \A u \in Threads : InPump(u) => InPump(u)'
           /\ place # "body" => \A kind \in Kinds :
                 /\ \A u \in Threads : InBody(u, kind)' => InBody(u, kind)
                 /\ ~InBody(t, kind)'
<1>1. /\ Depth(t)' = Depth(t)
      /\ calls'[t][Depth(t)].at = place
      /\ calls'[t][Depth(t)].kind = Top(t).kind
      /\ \A i \in 1..Depth(t) : i # Depth(t) => calls'[t][i] = calls[t][i]
      /\ \A u \in Threads \ {t} : calls'[u] = calls[u]
  BY TopMoved DEF Top
<1>2. \A u \in Threads : Depth(u)' = Depth(u)
  BY <1>1 DEF Depth
<1>3. Shape'
  <2> SUFFICES ASSUME NEW u \in Threads, NEW i \in 1..Depth(u)
               PROVE  /\ i # Depth(u) => calls'[u][i].at = "callback"
                      /\ calls'[u][i].at = "pump" => calls'[u][i].kind # "flush"
                      /\ calls'[u][i].at = "flush" => calls'[u][i].kind = "flush"
    BY <1>2 DEF Shape
  <2>1. CASE u = t /\ i = Depth(t)
    BY <1>1, <2>1
  <2>2. CASE ~(u = t /\ i = Depth(t))
    <3>1. calls'[u][i] = calls[u][i]
      BY <1>1, <2>2
    <3> QED
      BY <3>1 DEF Shape
  <2> QED
    BY <2>1, <2>2
<1>4. ASSUME place \in {"pump", "finish", "callback"} \/ Top(t).kind = "flush",
             NEW u \in Threads, InPump(u)
      PROVE  InPump(u)'
  <2>1. PICK i \in 1..Depth(u) : /\ calls[u][i].kind # "flush"
                                 /\ calls[u][i].at \in {"pump", "finish", "callback"}
    BY <1>4 DEF InPump
  <2>2. /\ calls'[u][i].kind # "flush"
        /\ calls'[u][i].at \in {"pump", "finish", "callback"}
    <3>1. CASE u = t /\ i = Depth(t)
      BY <1>1, <1>4, <2>1, <3>1 DEF Top
    <3>2. CASE ~(u = t /\ i = Depth(t))
      <4>1. calls'[u][i] = calls[u][i]
        BY <1>1, <3>2
      <4> QED
        BY <2>1, <4>1
    <3> QED
      BY <3>1, <3>2
  <2> QED
    BY <1>2, <2>2 DEF InPump
<1>5. ASSUME place # "body", NEW kind \in Kinds
      PROVE  /\ \A u \in Threads : InBody(u, kind)' => InBody(u, kind)
             /\ ~InBody(t, kind)'
  BY <1>1, <1>2, <1>5 DEF InBody, At, Top
<1> QED
  BY <1>3, <1>4, <1>5

LEMMA QuietReturn ==
    ASSUME TypeOK, Shape, NEW t \in Threads, Depth(t) > 0, Return(t),
           Top(t).at \in {"body", "flush"}
    PROVE  Quiet /\ ~PastPump(t)'
<1>0. Depth(t) \in Nat
  BY DEF TypeOK, Depth
<1>1. /\ Depth(t)' = Depth(t) - 1
      /\ \A i \in 1..(Depth(t) - 1) : calls'[t][i] = calls[t][i]
      /\ \A u \in Threads \ {t} : calls'[u] = calls[u]
  BY TopReturned
<1>2. \A u \in Threads \ {t} : Depth(u)' = Depth(u)
  BY <1>1 DEF Depth
<1>3. \A i \in 1..(Depth(t) - 1) : calls'[t][i].at = "callback"
  BY <1>0, <1>1 DEF Shape
<1>4. Shape'
  <2>1. ASSUME NEW i \in 1..Depth(t)'
        PROVE  calls'[t][i].at = "callback"
    BY <1>1, <1>3
  <2>2. ASSUME NEW u \in Threads \ {t}, NEW i \in 1..Depth(u)'
        PROVE  /\ i # Depth(u)' => calls'[u][i].at = "callback"
               /\ calls'[u][i].at = "pump" => calls'[u][i].kind # "flush"
               /\ calls'[u][i].at = "flush" => calls'[u][i].kind = "flush"
    BY <1>1, <1>2 DEF Shape
  <2> QED
    BY <2>1, <2>2 DEF Shape
<1>5. ASSUME NEW u \in Threads, InPump(u) PROVE InPump(u)'
  <2>1. PICK i \in 1..Depth(u) : /\ calls[u][i].kind # "flush"
                                 /\ calls[u][i].at \in {"pump", "finish", "callback"}
    BY <1>5 DEF InPump
  <2>2. CASE u = t
    <3>1. i \in 1..(Depth(t) - 1)
      BY <1>0, <2>1, <2>2 DEF Top
    <3> QED
      BY <1>1, <2>1, <2>2, <3>1 DEF InPump
  <2>3. CASE u # t
    BY <1>1, <1>2, <2>1, <2>3 DEF InPump
  <2> QED
    BY <2>2, <2>3
<1>6. ~At(t, "body")'
  <2> SUFFICES ASSUME At(t, "body")' PROVE FALSE
    OBVIOUS
  <2>1. Depth(t)' \in 1..(Depth(t) - 1)
    BY <1>0, <1>1 DEF At
  <2>2. Top(t)' = calls'[t][Depth(t)'] /\ Top(t)'.at = "body"
    BY DEF At, Top
  <2> QED
    BY <1>3, <2>1, <2>2
<1>7. ASSUME NEW u \in Threads, NEW kind \in Pumping, InBody(u, kind)'
      PROVE  InBody(u, kind)
  <2>1. u # t
    BY <1>6, <1>7 DEF InBody
  <2> QED
    BY <1>1, <1>2, <1>7, <2>1 DEF InBody, At, Top
<1> QED
  BY <1>4, <1>5, <1>6, <1>7 DEF Quiet, PastPump, InBody

LEMMA QuietCall ==
    ASSUME TypeOK, Shape, NEW t \in Threads, NEW kind \in Kinds, Call(t, kind)
    PROVE  Quiet
<1>0. Depth(t) \in Nat
  BY DEF TypeOK, Depth
<1>1. PICK first : /\ calls' = [calls EXCEPT ![t] =
                           Append(@, [kind |-> kind, at |-> first, packet |-> None])]
                   /\ first = (CASE kind \in Pumping -> "pump"
                                 [] kind = "flush" -> "flush"
                                 [] OTHER -> "body")
  BY DEF Call
<1>2. "flush" \notin Pumping /\ "process" \in Pumping
  BY DEF Pumping
<1>3. /\ first \in {"pump", "flush", "body"}
      /\ first = "pump" => kind # "flush"
      /\ first = "flush" => kind = "flush"
      /\ first = "body" => kind \notin Pumping
  BY <1>1, <1>2
<1> DEFINE e == [kind |-> kind, at |-> first, packet |-> None]
<1>4. e \in CallType /\ e.at = first /\ e.kind = kind
  BY <1>3, NoPacketTyped DEF CallType
<1>5. calls' = [calls EXCEPT ![t] = Append(@, e)]
  BY <1>1
<1> HIDE DEF e
<1>6. /\ Depth(t)' = Depth(t) + 1
      /\ calls'[t][Depth(t) + 1] = e
      /\ \A i \in 1..Depth(t) : calls'[t][i] = calls[t][i]
      /\ \A u \in Threads \ {t} : calls'[u] = calls[u]
  BY <1>4, <1>5, TopCalled
<1>7. \A u \in Threads \ {t} : Depth(u)' = Depth(u)
  BY <1>6 DEF Depth
<1>8. \A i \in 1..Depth(t) : calls[t][i].at = "callback"
  <2>1. Depth(t) = 0 \/ calls[t][Depth(t)].at = "callback"
    BY DEF Call, At, Top
  <2> QED
    BY <1>0, <2>1 DEF Shape
<1>9. Shape'
  <2>1. ASSUME NEW i \in 1..Depth(t)'
        PROVE  /\ i # Depth(t)' => calls'[t][i].at = "callback"
               /\ calls'[t][i].at = "pump" => calls'[t][i].kind # "flush"
               /\ calls'[t][i].at = "flush" => calls'[t][i].kind = "flush"
    BY <1>0, <1>3, <1>4, <1>6, <1>8
  <2>2. ASSUME NEW u \in Threads \ {t}, NEW i \in 1..Depth(u)'
        PROVE  /\ i # Depth(u)' => calls'[u][i].at = "callback"
               /\ calls'[u][i].at = "pump" => calls'[u][i].kind # "flush"
               /\ calls'[u][i].at = "flush" => calls'[u][i].kind = "flush"
    BY <1>6, <1>7 DEF Shape
  <2> QED
    BY <2>1, <2>2 DEF Shape
<1>10. ASSUME NEW u \in Threads, InPump(u) PROVE InPump(u)'
  <2>1. PICK i \in 1..Depth(u) : /\ calls[u][i].kind # "flush"
                                 /\ calls[u][i].at \in {"pump", "finish", "callback"}
    BY <1>10 DEF InPump
  <2>2. i \in 1..Depth(u)' /\ calls'[u][i] = calls[u][i]
    BY <1>0, <1>6, <1>7, <2>1
  <2> QED
    BY <2>1, <2>2 DEF InPump
<1>11. ASSUME NEW u \in Threads, NEW k \in Pumping, InBody(u, k)' PROVE InBody(u, k)
  <2>1. CASE u = t
    <3>1. Top(t)' = e
      BY <1>6 DEF Top
    <3> QED
      BY <1>3, <1>4, <1>11, <2>1, <3>1 DEF InBody, At
  <2>2. CASE u # t
    BY <1>6, <1>7, <1>11, <2>2 DEF InBody, At, Top
  <2> QED
    BY <2>1, <2>2
<1> QED
  BY <1>9, <1>10, <1>11 DEF Quiet

(* A pump ends with nothing counted beyond the last packet. *)
LEMMA EndsWithoutExcess ==
    ASSUME TypeOK, Behind, Watched, NEW t \in Threads, PumpEnds(t) \/ PumpStops(t),
           failures = 0
    PROVE  ~Excess'
<1> USE DEF books
<1>0. playedBytes \in Nat /\ writtenBytes \in Nat
  BY DEF TypeOK
<1>1. CASE PumpStops(t)
  <2>1. playedBytes' = 0 /\ writtenBytes' = 0
    BY <1>1 DEF PumpStops, ResetStoppedStream
  <2> QED
    BY <2>1 DEF Excess
<1>2. CASE PumpEnds(t)
  <2>1. playedBytes' \in Nat /\ writtenBytes' = writtenBytes
    BY <1>2, CountTyped DEF PumpEnds
  <2>2. CASE packets # <<>>
    <3>1. Head(packets).end > playedBytes' /\ Head(packets) = packets[1] /\ 1 \in DOMAIN packets
      BY <1>2, <2>2 DEF PumpEnds, TypeOK
    <3>2. Head(packets).end <= writtenBytes /\ Head(packets).end \in Nat
      BY <2>2, <3>1, HeadTyped, PacketTyped DEF Behind
    <3> QED
      BY <1>0, <2>1, <3>1, <3>2 DEF Excess
  <2>3. CASE packets = <<>> /\ playing
    BY <1>0, <1>2, <2>1, <2>3 DEF PumpEnds, Excess
  <2>4. CASE ~playing
    <3>1. playedBytes' = playedBytes
      BY <1>2, <2>4 DEF PumpEnds, CountPlayed
    <3> QED
      BY <2>1, <2>4, <3>1 DEF Watched, Excess
  <2> QED
    BY <2>2, <2>3, <2>4
<1> QED
  BY <1>1, <1>2

(* Starting to play is refused only by a failure. *)
LEMMA StartKeepsPlaying ==
    ASSUME TypeOK, NEW count, StartPlayback(count), failures' = 0
    PROVE  failures = 0 /\ (playing => playing')
<1>1. failures \in Nat
  BY DEF TypeOK
<1> QED
  BY <1>1 DEF StartPlayback

THEOREM WatchedInductive == TypeOK /\ Behind /\ AInv /\ [Next]_vars => AInv'
<1> SUFFICES ASSUME TypeOK, Behind, AInv, [Next]_vars PROVE AInv'
  OBVIOUS
<1> USE DEF books, flags, host
<1>0. /\ Shape /\ Watched
      /\ playedBytes \in Nat /\ writtenBytes \in Nat /\ failures \in Nat
      /\ Pumping \subseteq Kinds /\ "process" \in Pumping
  BY DEF AInv, TypeOK, Kinds, Pumping
<1>1. CASE UNCHANGED <<playedBytes, writtenBytes, playing, failures, calls>>
  <2>1. Quiet
    BY <1>0, <1>1 DEF Quiet, Shape, InPump, InBody, At, Top, Depth
  <2> QED
    BY <1>1, <2>1, WatchedKept DEF Excess
<1>2. ASSUME NEW t \in Threads, NEW kind \in Kinds, Call(t, kind) PROVE AInv'
  <2>1. Quiet
    BY <1>0, <1>2, QuietCall
  <2>2. UNCHANGED <<playedBytes, writtenBytes, playing, failures>>
    BY <1>2 DEF Call
  <2> QED
    BY <2>1, <2>2, WatchedKept DEF Excess
<1>3. ASSUME NEW t \in Threads, FinishStreamPacket(t) PROVE AInv'
  <2>1. Depth(t) > 0 /\ Finishing(t, "callback", None)
        /\ UNCHANGED <<playedBytes, writtenBytes, playing, failures>>
    BY <1>3 DEF FinishStreamPacket, At
  <2>2. Quiet
    BY <1>0, <2>1, QuietMove, NoPacketTyped DEF Quiet
  <2> QED
    BY <2>1, <2>2, WatchedKept DEF Excess
<1>4. ASSUME NEW t \in Threads, CallbackReturns(t) PROVE AInv'
  <2>1. /\ Depth(t) > 0
        /\ Top(t).kind = "flush" => Goto(t, "flush")
        /\ Top(t).kind # "flush" => Goto(t, "pump")
        /\ UNCHANGED <<playedBytes, writtenBytes, playing, failures>>
    BY <1>4 DEF CallbackReturns, At
  <2>2. Quiet
    <3>1. CASE Top(t).kind = "flush"
      BY <1>0, <2>1, <3>1, QuietMove, NoPacketTyped DEF Quiet
    <3>2. CASE Top(t).kind # "flush"
      BY <1>0, <2>1, <3>2, QuietMove, NoPacketTyped DEF Quiet
    <3> QED
      BY <3>1, <3>2
  <2> QED
    BY <2>1, <2>2, WatchedKept DEF Excess
<1>5. ASSUME NEW t \in Threads, PumpFinishes(t) PROVE AInv'
  <2>1. /\ Depth(t) > 0 /\ Top(t).at = "pump" /\ packets # <<>>
        /\ Finishing(t, "finish", Head(packets)) /\ CountPlayed
        /\ UNCHANGED <<writtenBytes, playing, failures>>
    BY <1>5 DEF PumpFinishes, At
  <2>2. Quiet /\ ~InBody(t, "process")'
    BY <1>0, <2>1, QuietMove, HeadTyped DEF Quiet
  <2>3. InPump(t)
    <3>1. Depth(t) \in 1..Depth(t) /\ Top(t) = calls[t][Depth(t)]
      BY <2>1 DEF TypeOK, Depth, Top
    <3> QED
      BY <1>0, <2>1, <3>1 DEF Shape, InPump
  <2>4. InPump(t)' /\ \A u \in Threads : InBody(u, "process")' => u # t
    BY <2>2, <2>3 DEF Quiet
  <2>5. failures = 0 /\ Excess' => playing
    <3>1. ~playing => playedBytes' = playedBytes
      BY <2>1 DEF CountPlayed
    <3> QED
      BY <1>0, <2>1, <3>1 DEF Watched, Excess
  <2>6. Watched'
    BY <2>1, <2>4, <2>5 DEF Watched
  <2> QED
    BY <2>2, <2>6 DEF AInv, Quiet
<1>6. ASSUME NEW t \in Threads, PumpStops(t) \/ PumpEnds(t) PROVE AInv'
  <2>1. Depth(t) > 0 /\ Goto(t, "body") /\ UNCHANGED failures
    BY <1>6 DEF PumpStops, PumpEnds, At
  <2>2. Shape'
    BY <1>0, <2>1, QuietMove, NoPacketTyped
  <2>3. failures' = 0 => ~Excess'
    BY <1>0, <1>6, <2>1, EndsWithoutExcess
  <2> QED
    BY <2>2, <2>3 DEF AInv, Watched
<1>7. ASSUME NEW t \in Threads, FlushStream(t) PROVE AInv'
  <2>1. CASE packets # <<>>
    <3>1. /\ Depth(t) > 0 /\ Top(t).at = "flush" /\ Finishing(t, "flushed", Head(packets))
          /\ UNCHANGED <<playedBytes, writtenBytes, playing, failures>>
      BY <1>7, <2>1 DEF FlushStream, At
    <3>2. /\ Depth(t)' = Depth(t)
          /\ calls'[t][Depth(t)].at = "flushed"
          /\ calls'[t][Depth(t)].kind = Top(t).kind
          /\ \A i \in 1..Depth(t) : i # Depth(t) => calls'[t][i] = calls[t][i]
          /\ \A u \in Threads \ {t} : calls'[u] = calls[u]
      BY <2>1, <3>1, HeadTyped, TopMoved DEF Top
    <3>3. Shape' /\ \A u \in Threads : \A k \in Kinds : InBody(u, k)' => InBody(u, k)
      BY <1>0, <2>1, <3>1, HeadTyped, QuietMove
    <3>4. ASSUME NEW u \in Threads, InPump(u) PROVE InPump(u)'
      <4>1. PICK i \in 1..Depth(u) : /\ calls[u][i].kind # "flush"
                                     /\ calls[u][i].at \in {"pump", "finish", "callback"}
        BY <3>4 DEF InPump
      <4>2. ~(u = t /\ i = Depth(t))
        BY <3>1, <4>1 DEF Top
      <4>3. calls'[u][i] = calls[u][i] /\ Depth(u)' = Depth(u)
        BY <3>2, <4>2 DEF Depth
      <4> QED
        BY <4>1, <4>3 DEF InPump
    <3>5. Quiet
      BY <1>0, <3>3, <3>4 DEF Quiet
    <3> QED
      BY <3>1, <3>5, WatchedKept DEF Excess
  <2>2. CASE packets = <<>>
    <3>1. /\ Depth(t) > 0 /\ Top(t).at = "flush" /\ Return(t)
          /\ playedBytes' = 0 /\ writtenBytes' = 0
      BY <1>7, <2>2 DEF FlushStream, At, ResetStoppedStream
    <3>2. Quiet
      BY <1>0, <3>1, QuietReturn
    <3> QED
      BY <3>1, <3>2 DEF AInv, Quiet, Watched, Excess
  <2> QED
    BY <2>1, <2>2
<1>8. ASSUME NEW t \in Threads, Body(t) PROVE AInv'
  <2>1. Depth(t) > 0 /\ Top(t).at = "body" /\ Return(t)
    BY <1>8 DEF Body, Process, GetStatus, Pause, Resume, SynchPlayback, InBody, At
  <2>2. Quiet
    BY <1>0, <2>1, QuietReturn
  <2>3. playedBytes' = playedBytes /\ writtenBytes' \in Nat /\ writtenBytes' >= writtenBytes
    <3>1. CASE \E size \in Sizes : Process(t, size)
      <4>1. PICK size \in Sizes : Process(t, size)
        BY <3>1
      <4>2. size \in Nat
        BY StreamAssumption
      <4>3. writtenBytes' \in {writtenBytes, writtenBytes + size} /\ playedBytes' = playedBytes
        BY <4>1 DEF Process
      <4> QED
        BY <1>0, <4>2, <4>3
    <3>2. CASE GetStatus(t) \/ Pause(t) \/ Resume(t) \/ SynchPlayback(t)
      BY <1>0, <3>2 DEF GetStatus, Pause, Resume, SynchPlayback
    <3> QED
      BY <1>8, <3>1, <3>2 DEF Body
  <2>4. failures' = 0 => failures = 0 /\ (playing => playing')
    <3>1. CASE UNCHANGED <<playing, failures>>
      BY <3>1
    <3>2. CASE \E count : StartPlayback(count)
      BY <3>2, StartKeepsPlaying
    <3> QED
      BY <1>8, <3>1, <3>2 DEF Body, Process, GetStatus, Pause, Resume, SynchPlayback
  <2>5. Excess' => Excess
    BY <1>0, <2>3 DEF Excess
  <2> QED
    BY <2>2, <2>4, <2>5, WatchedKept
<1> QED
  BY <1>1, <1>2, <1>3, <1>4, <1>5, <1>6, <1>7, <1>8
     DEF Next, Work, PumpStream, HostPlays, vars

(* Only Process makes the ring longer. *)
LEMMA OnlyProcess ==
    ASSUME TypeOK, Next, Len(packets') > Len(packets)
    PROVE  \E size \in Sizes : writtenBytes' = writtenBytes + size /\ playedBytes' = playedBytes
<1> USE DEF books, flags, host
<1>1. packets' # packets
  OBVIOUS
<1>2. ~(packets # <<>> /\ packets' = Tail(packets))
  BY DEF TypeOK
<1>3. PICK t \in Threads : \E size \in Sizes : Process(t, size)
  BY <1>1, <1>2
     DEF Next, Work, PumpStream, PumpFinishes, PumpStops, PumpEnds, FlushStream, Body, Call,
         FinishStreamPacket, CallbackReturns, GetStatus, Pause, Resume, SynchPlayback, HostPlays
<1> QED
  BY <1>1, <1>3 DEF Process

(* Without a refusal by the host, and with no pump of another thread under way,
   a packet is queued ahead of what the stream believes was played, however far
   the host ran on past the last packet (1379-1382). *)
THEOREM AlwaysAhead == Spec => QueuedAhead
<1>1. Init => NotAhead /\ Unheard /\ AInv
  <2> SUFFICES ASSUME Init PROVE NotAhead /\ Unheard /\ AInv
    OBVIOUS
  <2>1. packets = <<>> /\ playedBytes = 0 /\ writtenBytes = 0
        /\ \A u \in Threads : Depth(u) = 0
    BY DEF Init, Depth
  <2>2. Shape
    BY <2>1 DEF Shape
  <2> QED
    BY <2>1, <2>2, InitNotAhead DEF Unheard, Behind, AInv, Watched, Excess
<1>2. TypeOK /\ Unheard /\ AInv /\ [Next]_vars => AInv'
  BY WatchedInductive DEF Unheard
<1>3. TypeOK /\ AInv /\ [Next]_vars
        => [\A t \in Threads :
              Accepts(t) /\ failures = 0 /\ (\A u \in Threads \ {t} : ~InPump(u))
                => writtenBytes' > playedBytes]_vars
  <2> SUFFICES ASSUME TypeOK, AInv, Next, NEW t \in Threads, Accepts(t), failures = 0,
                      \A u \in Threads \ {t} : ~InPump(u)
               PROVE  writtenBytes' > playedBytes
    OBVIOUS
  <2>1. ~Excess
    BY DEF AInv, Watched, Accepts
  <2>2. PICK size \in Sizes : writtenBytes' = writtenBytes + size
    BY OnlyProcess DEF Accepts
  <2>3. size \in Nat \ {0} /\ playedBytes \in Nat /\ writtenBytes \in Nat
    BY StreamAssumption DEF TypeOK
  <2> QED
    BY <2>1, <2>2, <2>3 DEF Excess
<1> QED
  BY <1>1, <1>2, <1>3, TypeCorrect, NotAheadInductive, UnheardInductive, PTL DEF Spec, QueuedAhead

-----------------------------------------------------------------------------
(* What is queued is playing *)

(* All that was written has been counted as played: whoever pumps next resets
   the stream, and no pump ends otherwise. *)
Full == playing /\ playedBytes >= writtenBytes

(* While no flush is under way and the host has refused nothing: whoever made
   the stream full is still in its pump, and with a full stream that was
   stopped no other thread has a pump behind it, and so no packet to queue. *)
Steady ==
    /\ playing \/ playedBytes = 0
    /\ packets # <<>> => writtenBytes > 0 /\ packets[Len(packets)].end = writtenBytes
    /\ packets = <<>> /\ playing => Full
    /\ packets # <<>> /\ ~paused => playing /\ sounding
    /\ Full => \E u \in Threads : InPump(u) /\ ~PastPump(u)
    /\ Full /\ ~sounding => \A u \in Threads : ~PastPump(u)

PInv == failures = 0 /\ ~Flushing => Steady

(* A flush under way stays so while a call moves, is made or returns, unless it
   is the flush that returns. *)
LEMMA FlushingMove ==
    ASSUME TypeOK, NEW t \in Threads, Depth(t) > 0, NEW packet \in PacketType,
           NEW place \in {"pump", "finish", "flush", "flushed", "callback", "body"},
           Goto(t, place) \/ Finishing(t, place, packet),
           Flushing \/ Top(t).kind = "flush"
    PROVE  Flushing'
<1>1. /\ Depth(t)' = Depth(t)
      /\ calls'[t][Depth(t)].kind = Top(t).kind
      /\ \A i \in 1..Depth(t) : i # Depth(t) => calls'[t][i] = calls[t][i]
      /\ \A u \in Threads \ {t} : calls'[u] = calls[u]
  BY TopMoved DEF Top
<1>2. Depth(t) \in 1..Depth(t)
  BY DEF TypeOK, Depth
<1>3. PICK u \in Threads : \E i \in 1..Depth(u) : calls[u][i].kind = "flush"
  BY <1>2 DEF Flushing, Top
<1>4. PICK i \in 1..Depth(u) : calls[u][i].kind = "flush"
  BY <1>3
<1>5. Depth(u)' = Depth(u) /\ calls'[u][i].kind = "flush"
  BY <1>1, <1>3, <1>4 DEF Depth, Top
<1> QED
  BY <1>3, <1>4, <1>5 DEF Flushing

LEMMA FlushingReturn ==
    ASSUME TypeOK, NEW t \in Threads, Depth(t) > 0, Return(t), Top(t).kind # "flush",
           Flushing
    PROVE  Flushing'
<1>1. /\ Depth(t)' = Depth(t) - 1 /\ Depth(t) \in Nat
      /\ \A i \in 1..(Depth(t) - 1) : calls'[t][i] = calls[t][i]
      /\ \A u \in Threads \ {t} : calls'[u] = calls[u]
  BY TopReturned DEF TypeOK, Depth
<1>2. PICK u \in Threads : \E i \in 1..Depth(u) : calls[u][i].kind = "flush"
  BY DEF Flushing
<1>3. PICK i \in 1..Depth(u) : calls[u][i].kind = "flush"
  BY <1>2
<1>4. i \in 1..Depth(u)' /\ calls'[u][i].kind = "flush"
  <2>1. CASE u = t
    <3>1. i # Depth(t)
      BY <1>3, <2>1 DEF Top
    <3>2. i \in 1..(Depth(t) - 1)
      BY <1>1, <1>3, <2>1, <3>1
    <3> QED
      BY <1>1, <1>3, <2>1, <3>2
  <2>2. CASE u # t
    BY <1>1, <1>2, <1>3, <2>2 DEF Depth
  <2> QED
    BY <2>1, <2>2
<1> QED
  BY <1>4 DEF Flushing

LEMMA FlushingCall ==
    ASSUME TypeOK, NEW t \in Threads, NEW kind \in Kinds, Call(t, kind), Flushing
    PROVE  Flushing'
<1>1. PICK e : calls' = [calls EXCEPT ![t] = Append(@, e)]
  BY DEF Call
<1>2. /\ calls'[t] = Append(calls[t], e) /\ calls[t] \in Seq(CallType)
      /\ \A u \in Threads \ {t} : calls'[u] = calls[u]
  BY <1>1 DEF TypeOK
<1>3. PICK u \in Threads : \E i \in 1..Depth(u) : calls[u][i].kind = "flush"
  BY DEF Flushing
<1>4. PICK i \in 1..Depth(u) : calls[u][i].kind = "flush"
  BY <1>3
<1>5. i \in 1..Depth(u)' /\ calls'[u][i] = calls[u][i]
  BY <1>2, <1>3, <1>4 DEF Depth
<1> QED
  BY <1>3, <1>4, <1>5 DEF Flushing

LEMMA SteadyKept ==
    ASSUME Steady, Quiet, UNCHANGED <<packets, playedBytes, writtenBytes, playing, paused, sounding>>
    PROVE  Steady'
  BY DEF Steady, Full, Quiet, PastPump

LEMMA SteadyReset ==
    ASSUME ResetStoppedStream, packets' = <<>>
    PROVE  Steady'
  BY DEF ResetStoppedStream, Steady, Full

(* The host never takes a refusal back. *)
LEMMA RefusalsStay ==
    ASSUME TypeOK, [Next]_vars, failures' = 0
    PROVE  failures = 0
<1>1. failures \in Nat
  BY DEF TypeOK
<1>2. failures' = failures \/ failures' = failures + 1
  <2>1. ASSUME NEW count, StartPlayback(count)
        PROVE  failures' = failures \/ failures' = failures + 1
    BY <2>1 DEF StartPlayback
  <2>2. CASE \E t \in Threads : \E size \in Sizes : Process(t, size)
    <3>1. PICK t \in Threads, size \in Sizes : Process(t, size)
      BY <2>2
    <3> QED
      BY <2>1, <3>1 DEF Process
  <2>3. CASE \E t \in Threads : Resume(t) \/ SynchPlayback(t)
    BY <2>1, <2>3 DEF Resume, SynchPlayback
  <2> QED
    BY <2>2, <2>3
       DEF Next, vars, Work, PumpStream, PumpFinishes, PumpStops, PumpEnds, FlushStream, Body,
           Call, FinishStreamPacket, CallbackReturns, GetStatus, Pause, HostPlays
<1> QED
  BY <1>1, <1>2

(* The first of one packet is the last. *)
LEMMA LastOne ==
    ASSUME NEW S, NEW q \in Seq(S), q # <<>>
    PROVE  Tail(q) = <<>> => Head(q) = q[Len(q)]
<1>1. Len(q) \in Nat \ {0} /\ Len(Tail(q)) = Len(q) - 1
  OBVIOUS
<1>2. \A r : r = <<>> => Len(r) = 0
  OBVIOUS
<1>3. Tail(q) = <<>> => Len(Tail(q)) = 0
  BY <1>2, Zenon
<1>4. Len(Tail(q)) = 0 => Len(q) = 1
  <2>1. \A m \in Nat \ {0} : m - 1 = 0 => m = 1
    OBVIOUS
  <2> QED
    BY <1>1, <2>1, Zenon
<1>5. Head(q) = q[1]
  OBVIOUS
<1> QED
  BY <1>3, <1>4, <1>5, Zenon

(* A pump that finishes a packet may make the stream full, and is not done. *)
LEMMA SteadyTaking ==
    ASSUME TypeOK, Shape, Steady, NEW t \in Threads, PumpFinishes(t)
    PROVE  Steady'
<1> USE DEF books, flags, host
<1>1. /\ Depth(t) > 0 /\ Top(t).at = "pump" /\ packets # <<>> /\ packets' = Tail(packets)
      /\ Finishing(t, "finish", Head(packets)) /\ CountPlayed
      /\ Head(packets).end <= playedBytes'
      /\ UNCHANGED <<writtenBytes, playing, paused, sounding, failures>>
  BY DEF PumpFinishes, At
<1>2. Quiet /\ ~PastPump(t)'
  <2>1. Pumping \subseteq Kinds
    BY DEF Kinds
  <2> QED
    BY <1>1, <2>1, QuietMove, HeadTyped DEF Quiet, PastPump
<1>3. InPump(t)
  <2>1. Depth(t) \in 1..Depth(t) /\ Top(t) = calls[t][Depth(t)]
    BY <1>1 DEF TypeOK, Depth, Top
  <2> QED
    BY <1>1, <2>1 DEF Shape, InPump
<1>4. InPump(t)' /\ ~PastPump(t)' /\ \A u \in Threads : PastPump(u)' => PastPump(u)
  BY <1>2, <1>3 DEF Quiet, PastPump
<1>5. playing \/ playedBytes' = 0
  BY <1>1 DEF CountPlayed, Steady
<1>6. packets' # <<>> => writtenBytes > 0 /\ packets'[Len(packets')].end = writtenBytes
  BY <1>1 DEF Steady, TypeOK
<1>7. packets' = <<>> => playedBytes' >= writtenBytes
  <2>1. packets' = <<>> => Head(packets) = packets[Len(packets)]
    BY <1>1, LastOne DEF TypeOK
  <2>2. playedBytes' \in Nat /\ writtenBytes \in Nat
    BY <1>1, CountTyped DEF TypeOK
  <2> QED
    BY <1>1, <2>1, <2>2 DEF Steady
<1>8. Full' /\ ~sounding => Full
  <2>1. ~sounding => paused \/ ~playing
    BY <1>1 DEF Steady
  <2>2. paused \/ ~playing => playedBytes' = playedBytes
    BY <1>1 DEF CountPlayed
  <2> QED
    BY <1>1, <2>1, <2>2 DEF Full
<1>9. packets' # <<>> /\ ~paused => playing /\ sounding
  BY <1>1 DEF Steady
<1> QED
  BY <1>1, <1>4, <1>5, <1>6, <1>7, <1>8, <1>9 DEF Steady, Full

(* A pump that ends leaves a stream that is not full. *)
LEMMA SteadyEnding ==
    ASSUME TypeOK, Behind, Steady, NEW t \in Threads, PumpEnds(t)
    PROVE  Steady'
<1> USE DEF books, flags, host
<1>1. /\ CountPlayed
      /\ UNCHANGED <<packets, writtenBytes, playing, paused, sounding>>
      /\ packets = <<>> => ~playing \/ playedBytes' < writtenBytes
      /\ packets # <<>> => Head(packets).end > playedBytes'
  BY DEF PumpEnds
<1>2. /\ playedBytes \in Nat /\ writtenBytes \in Nat /\ playedBytes' \in Nat
      /\ playedBytes' >= playedBytes
  <2>1. playedBytes' = playedBytes \/ playedBytes' = playedBytes + Advance
    BY <1>1 DEF CountPlayed
  <2> QED
    BY <2>1, AdvanceTyped DEF TypeOK
<1>3. packets # <<>> => playedBytes' < writtenBytes
  <2> SUFFICES ASSUME packets # <<>> PROVE playedBytes' < writtenBytes
    OBVIOUS
  <2>1. Head(packets) = packets[1] /\ 1 \in DOMAIN packets
    BY DEF TypeOK
  <2>2. Head(packets).end <= writtenBytes /\ Head(packets).end \in Nat
    BY <2>1, HeadTyped, PacketTyped DEF Behind
  <2> QED
    BY <1>1, <1>2, <2>2
<1>4. ~Full'
  BY <1>1, <1>2, <1>3 DEF Full
<1>5. packets = <<>> => ~playing
  BY <1>1, <1>2 DEF Steady, Full
<1>6. playing \/ playedBytes' = 0
  BY <1>1 DEF CountPlayed, Steady
<1> QED
  BY <1>1, <1>4, <1>5, <1>6 DEF Steady

(* What the calls do behind their pump. *)
LEMMA SteadyStart ==
    ASSUME TypeOK, Steady, Quiet, failures' = 0, failures = 0,
           StartPlayback(Len(packets)), UNCHANGED <<packets, playedBytes, writtenBytes>>
    PROVE  Steady'
<1>0. playedBytes \in Nat /\ writtenBytes \in Nat
  BY DEF TypeOK
<1>1. CASE Len(packets) = 0 /\ UNCHANGED <<lastPlayCursor, playing, sounding, failures>>
  <2>1. packets = <<>>
    BY <1>1 DEF TypeOK
  <2> QED
    BY <1>1, <2>1 DEF Steady, Full, Quiet, PastPump
<1>2. CASE Len(packets) > 0 /\ playing' = TRUE /\ sounding' = TRUE
  <2>1. packets # <<>>
    BY <1>2
  <2>2. Full' => Full
    BY <1>0, <1>2, <2>1 DEF Steady, Full
  <2> QED
    BY <1>2, <2>1, <2>2 DEF Steady, Quiet, PastPump
<1>3. failures' # failures + 1
  OBVIOUS
<1> QED
  BY <1>1, <1>2, <1>3, Zenon DEF StartPlayback

(* A packet is queued on a stream that plays, is paused, or is started. *)
LEMMA SteadyQueueing ==
    ASSUME TypeOK, Steady, Quiet, failures' = 0, failures = 0,
           NEW t \in Threads, NEW size \in Sizes, Process(t, size)
    PROVE  Steady'
<1> USE DEF books, flags, host
<1>0. /\ playedBytes \in Nat /\ writtenBytes \in Nat /\ size \in Nat \ {0}
      /\ packets \in Seq(PacketType)
  BY StreamAssumption DEF TypeOK
<1>1. CASE UNCHANGED <<packets, books, playing, host, status, failures>>
  <2>1. UNCHANGED paused
    BY DEF Process
  <2> QED
    BY <1>1, <2>1, SteadyKept
<1>2. CASE HasRoom(size) /\ ~UNCHANGED <<packets, books, playing, host, status, failures>>
  <2>1. /\ IF playing \/ paused
           THEN UNCHANGED <<lastPlayCursor, playing, sounding, failures>>
           ELSE StartPlayback(Len(packets) + 1)
        /\ writtenBytes' = writtenBytes + size
        /\ packets' = Append(packets, [id |-> NextPacket, size |-> size,
                                       end |-> writtenBytes + size])
        /\ UNCHANGED <<playedBytes, paused>>
    BY <1>2 DEF Process
  <2>2. /\ writtenBytes' > 0 /\ writtenBytes' > writtenBytes /\ writtenBytes' \in Nat
        /\ packets' # <<>> /\ packets'[Len(packets')].end = writtenBytes'
    <3>1. writtenBytes' > 0 /\ writtenBytes' > writtenBytes /\ writtenBytes' \in Nat
      BY <1>0, <2>1
    <3>2. packets' # <<>> /\ packets'[Len(packets')].end = writtenBytes'
      BY <1>0, <2>1
    <3> QED
      BY <3>1, <3>2
  <2>3. PastPump(t)
    BY DEF Process, PastPump, Pumping
  <2>4. CASE playing \/ paused
    <3>1. UNCHANGED <<playing, sounding>>
      BY <2>1, <2>4
    <3>2. Full' => Full
      BY <1>0, <2>1, <2>2, <3>1 DEF Full
    <3>3. ~paused => playing /\ sounding
      <4>1. packets = <<>> /\ ~paused => Full
        BY <2>4 DEF Steady
      <4> QED
        BY <2>3, <2>4, <4>1 DEF Steady
    <3> QED
      BY <2>1, <2>2, <3>1, <3>2, <3>3 DEF Steady, Quiet, PastPump
  <2>5. CASE ~(playing \/ paused)
    <3>1. playing' = TRUE /\ sounding' = TRUE
      BY <1>0, <2>1, <2>5 DEF StartPlayback
    <3>2. playedBytes' = 0
      BY <2>1, <2>5 DEF Steady
    <3>3. ~Full'
      BY <2>2, <3>2 DEF Full
    <3> QED
      BY <2>2, <3>1, <3>3 DEF Steady
  <2> QED
    BY <2>4, <2>5
<1> QED
  BY <1>1, <1>2 DEF Process

(* Whoever pauses a full stream is not the one that made it full: of two
   threads, none is left behind a pump. *)
LEMMA SteadyPausing ==
    ASSUME TypeOK, Steady, Quiet, NEW t \in Threads, Pause(t), ~PastPump(t)',
           \A u, v, w \in Threads : u = v \/ v = w \/ u = w
    PROVE  Steady'
<1> USE DEF books
<1>1. /\ paused' = TRUE /\ sounding' = FALSE
      /\ UNCHANGED <<packets, playedBytes, writtenBytes, playing>>
  BY DEF Pause
<1>2. PastPump(t)
  BY DEF Pause, PastPump, Pumping
<1>3. Full => \A u \in Threads : ~PastPump(u)'
  <2> SUFFICES ASSUME Full, NEW u \in Threads PROVE ~PastPump(u)'
    OBVIOUS
  <2>1. PICK e \in Threads : ~PastPump(e)
    BY DEF Steady
  <2>2. u = t \/ u = e
    BY <1>2, <2>1
  <2> QED
    BY <2>1, <2>2 DEF Quiet, PastPump
<1>4. (Full' <=> Full) /\ \A u \in Threads : PastPump(u)' => PastPump(u)
  BY <1>1 DEF Full, Quiet, PastPump
<1>5. Full' => \E u \in Threads : InPump(u)' /\ ~PastPump(u)'
  BY <1>4 DEF Steady, Quiet
<1> QED
  BY <1>1, <1>3, <1>4, <1>5 DEF Steady

THEOREM SteadyInductive ==
    ASSUME \A u, v, w \in Threads : u = v \/ v = w \/ u = w
    PROVE  TypeOK /\ Behind /\ Shape /\ PInv /\ [Next]_vars => PInv'
<1> SUFFICES ASSUME TypeOK, Behind, Shape, PInv, [Next]_vars, failures' = 0, ~Flushing'
             PROVE  Steady'
  BY DEF PInv
<1> USE DEF books, flags, host
<1>0. failures = 0 /\ (~Flushing => Steady)
  BY RefusalsStay DEF PInv
<1>k. Pumping \subseteq Kinds
  BY DEF Kinds
<1>1. CASE UNCHANGED <<packets, books, playing, paused, sounding, calls>>
  <2>1. ~Flushing
    BY <1>1 DEF Flushing, Depth
  <2>2. Quiet
    BY <1>1 DEF Quiet, Shape, InPump, InBody, At, Top, Depth
  <2> QED
    BY <1>0, <1>1, <2>1, <2>2, SteadyKept
<1>2. ASSUME NEW t \in Threads, NEW kind \in Kinds, Call(t, kind) PROVE Steady'
  <2>1. Steady /\ Quiet
    BY <1>0, <1>2, FlushingCall, QuietCall
  <2> QED
    BY <1>2, <2>1, SteadyKept DEF Call
<1>3. ASSUME NEW t \in Threads, FinishStreamPacket(t) PROVE Steady'
  <2>1. Depth(t) > 0 /\ Finishing(t, "callback", None)
    BY <1>3 DEF FinishStreamPacket, At
  <2>2. Steady
    BY <1>0, <2>1, FlushingMove, NoPacketTyped
  <2>3. Quiet
    BY <1>k, <2>1, QuietMove, NoPacketTyped DEF Quiet
  <2> QED
    BY <1>3, <2>2, <2>3, SteadyKept DEF FinishStreamPacket
<1>4. ASSUME NEW t \in Threads, CallbackReturns(t) PROVE Steady'
  <2>1. /\ Depth(t) > 0
        /\ Top(t).kind = "flush" => Goto(t, "flush")
        /\ Top(t).kind # "flush" => Goto(t, "pump")
    BY <1>4 DEF CallbackReturns, At
  <2>2. Top(t).kind # "flush" /\ Steady
    BY <1>0, <2>1, FlushingMove, NoPacketTyped
  <2>3. Quiet
    BY <1>k, <2>1, <2>2, QuietMove, NoPacketTyped DEF Quiet
  <2> QED
    BY <1>4, <2>2, <2>3, SteadyKept DEF CallbackReturns
<1>5. ASSUME NEW t \in Threads, PumpFinishes(t) PROVE Steady'
  <2>1. Depth(t) > 0 /\ packets # <<>> /\ Finishing(t, "finish", Head(packets))
    BY <1>5 DEF PumpFinishes, At
  <2>2. Steady
    BY <1>0, <2>1, FlushingMove, HeadTyped
  <2> QED
    BY <1>5, <2>2, SteadyTaking
<1>6. ASSUME NEW t \in Threads, PumpStops(t) PROVE Steady'
  BY <1>6, SteadyReset DEF PumpStops
<1>7. ASSUME NEW t \in Threads, PumpEnds(t) PROVE Steady'
  <2>1. Depth(t) > 0 /\ Goto(t, "body")
    BY <1>7 DEF PumpEnds, At
  <2>2. Steady
    BY <1>0, <2>1, FlushingMove, NoPacketTyped
  <2> QED
    BY <1>7, <2>2, SteadyEnding
<1>8. ASSUME NEW t \in Threads, FlushStream(t) PROVE Steady'
  <2>1. CASE packets = <<>>
    BY <1>8, <2>1, SteadyReset DEF FlushStream
  <2>2. CASE packets # <<>>
    <3>1. Depth(t) > 0 /\ Top(t).at = "flush" /\ Finishing(t, "flushed", Head(packets))
      BY <1>8, <2>2 DEF FlushStream, At
    <3>2. Top(t).kind = "flush"
      BY <3>1 DEF Shape, Top, TypeOK, Depth
    <3> QED
      BY <2>2, <3>1, <3>2, FlushingMove, HeadTyped
  <2> QED
    BY <2>1, <2>2
<1>9. ASSUME NEW t \in Threads, Body(t) PROVE Steady'
  <2>1. Depth(t) > 0 /\ Top(t).at = "body" /\ Top(t).kind # "flush" /\ Return(t)
    BY <1>9 DEF Body, Process, GetStatus, Pause, Resume, SynchPlayback, InBody, At
  <2>2. Quiet /\ ~PastPump(t)'
    BY <2>1, QuietReturn
  <2>3. Steady
    BY <1>0, <2>1, FlushingReturn
  <2>4. CASE \E size \in Sizes : Process(t, size)
    BY <1>0, <2>2, <2>3, <2>4, SteadyQueueing
  <2>5. CASE GetStatus(t)
    BY <2>2, <2>3, <2>5, SteadyKept DEF GetStatus
  <2>6. CASE Pause(t)
    BY <2>2, <2>3, <2>6, SteadyPausing
  <2>7. CASE Resume(t)
    BY <1>0, <2>2, <2>3, <2>7, SteadyStart DEF Resume
  <2>8. CASE SynchPlayback(t)
    <3>1. CASE synchronized
      BY <1>0, <2>2, <2>3, <2>8, <3>1, SteadyStart DEF SynchPlayback
    <3>2. CASE ~synchronized
      BY <2>2, <2>3, <2>8, <3>2, SteadyKept DEF SynchPlayback
    <3> QED
      BY <3>1, <3>2
  <2> QED
    BY <1>9, <2>4, <2>5, <2>6, <2>7, <2>8 DEF Body
<1> QED
  BY <1>1, <1>2, <1>3, <1>4, <1>5, <1>6, <1>7, <1>8, <1>9
     DEF Next, Work, PumpStream, HostPlays, vars

(* For at most two guest threads, whatever their callbacks call: a queued
   packet is being played unless the stream is paused, a flush that will reset
   it is under way, or the host refused to play (515-690, 1373-1440).  With three
   threads this is false: one is behind its pump with a packet still to
   queue while another pauses and restarts a stream that a third will reset. *)
THEOREM QueuedIsPlaying ==
    ASSUME \A u, v, w \in Threads : u = v \/ v = w \/ u = w
    PROVE  Spec => []QueuedPlays
<1>1. Init => NotAhead /\ Unheard /\ AInv /\ PInv
  <2> SUFFICES ASSUME Init PROVE NotAhead /\ Unheard /\ AInv /\ PInv
    OBVIOUS
  <2>1. /\ packets = <<>> /\ playedBytes = 0 /\ writtenBytes = 0 /\ playing = FALSE
        /\ \A u \in Threads : Depth(u) = 0
    BY DEF Init, Depth
  <2>2. Shape
    BY <2>1 DEF Shape
  <2>3. PInv
    BY <2>1 DEF PInv, Steady, Full
  <2> QED
    BY <2>1, <2>2, <2>3, InitNotAhead DEF Unheard, Behind, AInv, Watched, Excess
<1>2. TypeOK /\ Unheard /\ AInv /\ [Next]_vars => AInv'
  BY WatchedInductive DEF Unheard
<1>3. TypeOK /\ Unheard /\ AInv /\ PInv /\ [Next]_vars => PInv'
  BY SteadyInductive DEF Unheard, AInv
<1>4. PInv => QueuedPlays
  BY DEF PInv, Steady, QueuedPlays
<1> QED
  BY <1>1, <1>2, <1>3, <1>4, TypeCorrect, NotAheadInductive, UnheardInductive, PTL DEF Spec
=============================================================================
