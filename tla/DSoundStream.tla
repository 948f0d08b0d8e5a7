---------------------------- MODULE DSoundStream ----------------------------
(***************************************************************************)
(* One DirectSound stream, src/src/cxbx/src/hle/audio/dsound_emulation.cpp. *)
(* The guest queues packets with Process; their bytes are copied into a     *)
(* looping host buffer, and a packet is finished when the host's play       *)
(* cursor has passed its end.  Nothing runs in the background: the stream   *)
(* moves only when a guest thread calls it, and every such call first       *)
(* pumps.  The stream's critical section covers one turn of a pump, one     *)
(* turn of a flush or the body of a call, and is left before the guest's    *)
(* completion callback, which may call the stream again.                    *)
(*                                                                         *)
(* Bytes are counted in units.  The references that keep the stream alive   *)
(* are not part of this module: the stream exists throughout.               *)
(***************************************************************************)
EXTENDS Naturals, Sequences

CONSTANTS
    Threads,         \* guest threads
    BufferBytes,     \* size of the host buffer
    PacketCapacity,  \* dwMaxAttachedPackets
    Sizes,           \* packet sizes
    CallbackCalls,   \* what the guest's completion callback may call
    MaxPackets,      \* bound: packets accepted or failed
    MaxDepth,        \* bound: calls nested in one another by callbacks
    MaxOverrun,      \* bound: how far the host plays beyond the last packet
    MaxFailures      \* bound: refusals of Play by the host

Pumping == {"process", "status", "pause", "synch", "resume"}
Kinds == Pumping \cup {"flush", "synchPlayback"}

ASSUME StreamAssumption ==
    /\ BufferBytes \in Nat \ {0}
    /\ PacketCapacity \in Nat \ {0}
    /\ Sizes \subseteq Nat \ {0}
    /\ CallbackCalls \subseteq Kinds
    /\ {MaxPackets, MaxDepth, MaxOverrun, MaxFailures} \subseteq Nat

VARIABLES
    \* X_DSoundStreamState
    packets,         \* the ring Packets from PacketHead on, PacketCount long
    lastPlayCursor, playedBytes, writtenBytes,
    playing, paused, synchronized,
    \* the host buffer
    sounding,        \* Play was called and Stop was not
    heard,           \* units played since SetCurrentPosition(0)
    sound,           \* the packet each unit of the buffer holds, 0 for silence
    \* the guest
    calls,           \* the calls each thread is in, innermost last
    status,          \* *pdwStatus of each packet
    failures         \* refusals so far

books == <<lastPlayCursor, playedBytes, writtenBytes>>
flags == <<playing, paused, synchronized>>
host == <<sounding, heard, sound>>
vars == <<packets, books, flags, host, calls, status, failures>>

Packets == 1..MaxPackets
Offset(position) == position % BufferBytes
PlayCursor == Offset(heard)

None == [id |-> 0, size |-> 0, end |-> 0]

Init ==
    /\ packets = <<>>
    /\ lastPlayCursor = 0 /\ playedBytes = 0 /\ writtenBytes = 0
    /\ playing = FALSE /\ paused = FALSE /\ synchronized = FALSE
    /\ sounding = FALSE /\ heard = 0
    /\ sound = [o \in 0..(BufferBytes - 1) |-> 0]
    /\ calls = [t \in Threads |-> <<>>]
    /\ status = [p \in Packets |-> "unused"]
    /\ failures = 0

-----------------------------------------------------------------------------
(* The host *)

(* The cursor moves on, with or without anything to play. *)
HostPlays ==
    /\ sounding
    /\ heard < writtenBytes + MaxOverrun
    /\ heard' = heard + 1
    /\ UNCHANGED <<packets, books, flags, sounding, sound, calls, status, failures>>

-----------------------------------------------------------------------------
(* What the guest's threads are doing *)

Depth(t) == Len(calls[t])
Top(t) == calls[t][Depth(t)]
At(t, place) == Depth(t) > 0 /\ Top(t).at = place

Goto(t, place) == calls' = [calls EXCEPT ![t][Depth(t)].at = place]
Finishing(t, place, packet) ==
    calls' = [calls EXCEPT ![t][Depth(t)].at = place, ![t][Depth(t)].packet = packet]
Return(t) == calls' = [calls EXCEPT ![t] = SubSeq(@, 1, Depth(t) - 1)]

(* A call from the guest's own code, or from the completion callback it runs. *)
Call(t, kind) ==
    /\ Depth(t) = 0 \/ (At(t, "callback") /\ kind \in CallbackCalls)
    /\ Depth(t) < MaxDepth
    /\ LET first == CASE kind \in Pumping -> "pump"
                      [] kind = "flush" -> "flush"
                      [] OTHER -> "body"
       IN  calls' = [calls EXCEPT ![t] =
                       Append(@, [kind |-> kind, at |-> first, packet |-> None])]
    /\ UNCHANGED <<packets, books, flags, host, status, failures>>

(* FinishStreamPacket: the packet's status, then the callback, outside the
   critical section. *)
FinishStreamPacket(t) ==
    /\ \/ /\ At(t, "finish")
          /\ status' = [status EXCEPT ![Top(t).packet.id] = "success"]
       \/ /\ At(t, "flushed")
          /\ status' = [status EXCEPT ![Top(t).packet.id] = "flushed"]
    /\ Finishing(t, "callback", None)
    /\ UNCHANGED <<packets, books, flags, host, failures>>

CallbackReturns(t) ==
    /\ At(t, "callback")
    /\ Goto(t, IF Top(t).kind = "flush" THEN "flush" ELSE "pump")
    /\ UNCHANGED <<packets, books, flags, host, status, failures>>

-----------------------------------------------------------------------------
(* The stream *)

ResetLeavingPlayed ==
    /\ sounding' = FALSE
    /\ heard' = 0
    /\ sound' = [o \in DOMAIN sound |-> 0]
    /\ UNCHANGED playedBytes
    /\ writtenBytes' = 0
    /\ lastPlayCursor' = 0
    /\ playing' = FALSE

(* ResetStoppedStream: back to the start of a silent buffer. *)
ResetStoppedStream ==
    /\ sounding' = FALSE
    /\ heard' = 0
    /\ sound' = [o \in DOMAIN sound |-> 0]
    /\ playedBytes' = 0 /\ writtenBytes' = 0
    /\ lastPlayCursor' = 0
    /\ playing' = FALSE

AdvanceOfATurn == 1 + ((PlayCursor + BufferBytes - lastPlayCursor - 1) % BufferBytes)

(* How far the cursor has moved since it was last read, by the position in the
   buffer alone: whole turns of the buffer are not seen. *)
Advance == (PlayCursor + BufferBytes - lastPlayCursor) % BufferBytes

CountPlayed ==
    IF playing /\ ~paused
    THEN playedBytes' = playedBytes + Advance /\ lastPlayCursor' = PlayCursor
    ELSE UNCHANGED <<playedBytes, lastPlayCursor>>

(* One turn of PumpStream. *)
PumpFinishes(t) ==
    /\ At(t, "pump")
    /\ packets # <<>>
    /\ CountPlayed
    /\ Head(packets).end <= playedBytes'
    /\ packets' = Tail(packets)
    /\ Finishing(t, "finish", Head(packets))
    /\ UNCHANGED <<writtenBytes, flags, host, status, failures>>

PumpStops(t) ==
    /\ At(t, "pump")
    /\ packets = <<>>
    /\ playing
    /\ playedBytes + (IF paused THEN 0 ELSE Advance) >= writtenBytes
    /\ ResetStoppedStream
    /\ Goto(t, "body")
    /\ UNCHANGED <<packets, paused, synchronized, status, failures>>

PumpEnds(t) ==
    /\ At(t, "pump")
    /\ CountPlayed
    /\ IF packets = <<>> THEN ~playing \/ playedBytes' < writtenBytes
                         ELSE Head(packets).end > playedBytes'
    /\ Goto(t, "body")
    /\ UNCHANGED <<packets, writtenBytes, flags, host, status, failures>>

PumpStream(t) == PumpFinishes(t) \/ PumpStops(t) \/ PumpEnds(t)

FlushFirstOnly(t) ==
    /\ At(t, "flush")
    /\ \/ /\ packets # <<>>
          /\ Finishing(t, "flushed", Head(packets))
          /\ UNCHANGED <<packets, books, flags, host>>
       \/ /\ packets = <<>>
          /\ ResetStoppedStream
          /\ paused' = FALSE /\ synchronized' = FALSE
          /\ Return(t)
          /\ UNCHANGED packets
    /\ UNCHANGED <<status, failures>>

(* One turn of FlushStream: the first packet, or the reset when none is left. *)
FlushStream(t) ==
    /\ At(t, "flush")
    /\ \/ /\ packets # <<>>
          /\ packets' = Tail(packets)
          /\ Finishing(t, "flushed", Head(packets))
          /\ UNCHANGED <<books, flags, host>>
       \/ /\ packets = <<>>
          /\ ResetStoppedStream
          /\ paused' = FALSE /\ synchronized' = FALSE
          /\ Return(t)
          /\ UNCHANGED packets
    /\ UNCHANGED <<status, failures>>

(* StartStreamPlaybackLocked with count packets queued; DirectSound may refuse
   to play. *)
StartPlayback(count) ==
    \/ /\ count = 0
       /\ UNCHANGED <<lastPlayCursor, playing, sounding, failures>>
    \/ /\ count > 0
       /\ lastPlayCursor' = PlayCursor
       /\ playing' = TRUE /\ sounding' = TRUE
       /\ UNCHANGED failures
    \/ /\ count > 0
       /\ failures < MaxFailures
       /\ lastPlayCursor' = PlayCursor
       /\ playing' = FALSE
       /\ failures' = failures + 1
       /\ UNCHANGED sounding

-----------------------------------------------------------------------------
(* The bodies of the calls *)

InBody(t, kind) == At(t, "body") /\ Top(t).kind = kind

NextPacket == CHOOSE p \in Packets : status[p] = "unused"

HasRoomOfItsOwn(size) ==
    /\ Len(packets) < PacketCapacity
    /\ size <= BufferBytes

(* writtenBytes - playedBytes is computed in 64 bits without a sign: when the
   host has run past the last packet, a packet smaller than the excess is
   refused and a larger one is accepted. *)
HasRoom(size) ==
    /\ Len(packets) < PacketCapacity
    /\ size <= BufferBytes
    /\ playedBytes <= writtenBytes + size
    /\ writtenBytes + size - playedBytes <= BufferBytes

(* The bytes a packet at the end of what is written covers. *)
Written(size) == {Offset(writtenBytes + i) : i \in 0..(size - 1)}

Process(t, size) ==
    /\ InBody(t, "process")
    /\ \E p \in Packets : status[p] = "unused"
    /\ Return(t)
    /\ \/ /\ ~HasRoom(size)
          /\ UNCHANGED <<packets, books, playing, host, status, failures>>
       \/ /\ HasRoom(size)
          /\ sound' = [o \in DOMAIN sound |->
                         IF o \in Written(size) THEN NextPacket ELSE sound[o]]
          /\ IF playing \/ paused
             THEN UNCHANGED <<lastPlayCursor, playing, sounding, failures>>
             ELSE StartPlayback(Len(packets) + 1)
          /\ IF failures' = failures
             THEN /\ writtenBytes' = writtenBytes + size
                  /\ packets' = Append(packets, [id |-> NextPacket, size |-> size,
                                                 end |-> writtenBytes + size])
                  /\ status' = [status EXCEPT ![NextPacket] = "pending"]
             ELSE /\ UNCHANGED <<writtenBytes, packets>>
                  /\ status' = [status EXCEPT ![NextPacket] = "failure"]
          /\ UNCHANGED <<playedBytes, heard>>
    /\ UNCHANGED <<paused, synchronized>>

(* GetStatus reads the stream once it has pumped it; DirectSoundDoWork pumps
   and reads nothing. *)
GetStatus(t) ==
    /\ InBody(t, "status")
    /\ Return(t)
    /\ UNCHANGED <<packets, books, flags, host, status, failures>>

Pause(t) ==
    /\ InBody(t, "pause") \/ InBody(t, "synch")
    /\ sounding' = FALSE
    /\ paused' = TRUE
    /\ synchronized' = (Top(t).kind = "synch")
    /\ Return(t)
    /\ UNCHANGED <<packets, books, playing, heard, sound, status, failures>>

ResumeSilently(t) ==
    /\ InBody(t, "resume")
    /\ paused' = FALSE /\ synchronized' = FALSE
    /\ Return(t)
    /\ UNCHANGED <<packets, books, playing, host, status, failures>>

Resume(t) ==
    /\ InBody(t, "resume")
    /\ paused' = FALSE /\ synchronized' = FALSE
    /\ StartPlayback(Len(packets))
    /\ Return(t)
    /\ UNCHANGED <<packets, playedBytes, writtenBytes, heard, sound, status>>

(* SynchPlayback restarts the streams that wait for it, without a pump. *)
SynchPlayback(t) ==
    /\ InBody(t, "synchPlayback")
    /\ IF synchronized
       THEN paused' = FALSE /\ synchronized' = FALSE /\ StartPlayback(Len(packets))
       ELSE UNCHANGED <<lastPlayCursor, flags, sounding, failures>>
    /\ Return(t)
    /\ UNCHANGED <<packets, playedBytes, writtenBytes, heard, sound, status>>

Body(t) ==
    \/ \E size \in Sizes : Process(t, size)
    \/ GetStatus(t) \/ Pause(t) \/ Resume(t) \/ SynchPlayback(t)

Work(t) == PumpStream(t) \/ FlushStream(t) \/ FinishStreamPacket(t)
              \/ CallbackReturns(t) \/ Body(t)

Next ==
    \/ HostPlays
    \/ \E t \in Threads : Work(t) \/ \E kind \in Kinds : Call(t, kind)

Spec == Init /\ [][Next]_vars

-----------------------------------------------------------------------------
PacketType == [id : 0..MaxPackets, size : {0} \cup Sizes, end : Nat]
CallType == [kind : Kinds, packet : PacketType,
             at : {"pump", "finish", "flush", "flushed", "callback", "body"}]

TypeOK ==
    /\ packets \in Seq(PacketType)
    /\ lastPlayCursor \in 0..(BufferBytes - 1)
    /\ {playedBytes, writtenBytes, heard, failures} \subseteq Nat
    /\ {playing, paused, synchronized, sounding} \subseteq BOOLEAN
    /\ sound \in [0..(BufferBytes - 1) -> 0..MaxPackets]
    /\ calls \in [Threads -> Seq(CallType)]
    /\ status \in [Packets -> {"unused", "pending", "success", "flushed", "failure"}]

(* Where a packet is: with a thread that has taken it out, or in the ring. *)
Holds(t, i, p) ==
    /\ i <= Depth(t)
    /\ calls[t][i].at \in {"finish", "flushed"}
    /\ calls[t][i].packet.id = p
Holders(p) == {h \in Threads \X (1..MaxDepth) : Holds(h[1], h[2], p)}
Places(p) == {i \in DOMAIN packets : packets[i].id = p}

(* Everything has its type, and a pending packet is in the ring or in the hands
   of exactly one thread: two threads that pump or flush at once never finish
   the same packet, and none is forgotten (583-688). *)
OwnedOnce ==
    /\ TypeOK
    /\ \A p \in Packets :
           IF status[p] = "pending"
           THEN \/ Holders(p) = {} /\ \E i \in DOMAIN packets : Places(p) = {i}
                \/ Places(p) = {} /\ \E h \in Holders(p) : Holders(p) = {h}
           ELSE Holders(p) = {} /\ Places(p) = {}

(* No later packet, and no clearing of the buffer, touches a byte of a queued
   packet that the host has still to play (1384-1436, 515-540). *)
UnheardIntact ==
    \A i \in DOMAIN packets :
        LET q == packets[i]
        IN  \A position \in (q.end - q.size)..(q.end - 1) :
                position >= heard => sound[Offset(position)] = q.id

Succeeds(t) == At(t, "pump") /\ calls'[t][Len(calls'[t])].at = "finish"

(* A pump reports success only for a packet the host has played to its end:
   however seldom the cursor is read, and whatever pauses come between, the
   stream's account of what was played is never ahead of the host (589-614). *)
NeverEarly ==
    [][\A t \in Threads : Succeeds(t) => heard >= Head(packets).end]_vars

Flushing == \E t \in Threads : \E i \in 1..Depth(t) : calls[t][i].kind = "flush"

(* A queued packet is being played, unless the stream is paused, or a flush
   that will reset it is under way, or the host refused to play. *)
QueuedPlays ==
    packets # <<>> /\ ~paused /\ ~Flushing /\ failures = 0 => playing /\ sounding

Accepts(t) == InBody(t, "process") /\ Len(packets') > Len(packets)
InPump(u) == \E i \in 1..Depth(u) :
                /\ calls[u][i].kind # "flush"
                /\ calls[u][i].at \in {"pump", "finish", "callback"}

(* A packet is queued ahead of what the stream believes was played, so that it
   cannot be finished unheard, although the host runs on past the last packet
   and the room is counted without a sign (1379-1382): whoever counts the
   excess resets the stream before its pump ends.  While the pump of another
   thread is under way, or after the host refused to play, a packet may land
   behind. *)
QueuedAhead ==
    [][\A t \in Threads :
         Accepts(t) /\ failures = 0 /\ (\A u \in Threads \ {t} : ~InPump(u))
             => writtenBytes' > playedBytes]_vars
=============================================================================
