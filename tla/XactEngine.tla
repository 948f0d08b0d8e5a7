----------------------------- MODULE XactEngine -----------------------------
(***************************************************************************)
(* Engines, banks, cues and stop notifications of XACT,                    *)
(* src/src/cxbx/src/hle/audio/xact_emulation.cpp.  Every entry point works *)
(* under g_XactEngineMutex, so a call is one step; what is hard is the     *)
(* order of calls: objects own each other, hold references to each other,  *)
(* name each other in notifications and may come back at an address freed  *)
(* before.  A call with a dead handle is refused and no step.              *)
(***************************************************************************)
EXTENDS Naturals, FiniteSets, SequencesExt

CONSTANTS
    Engines, WaveBanks, SoundBanks, Cues,    \* the addresses objects are given
    NoEngine, NoBank, NoCue,                 \* null pointers
    Indexes,         \* the cue indexes of a sound bank
    AnyIndex,        \* XactSoundBankInvalidCueIndex: every cue of the bank
    Capacity,        \* GetNotificationCapacity
    Descriptions,    \* notification descriptions the guest passes
    MaxRefs,         \* bound: references the guest takes to one object
    MaxRegistrations \* bound: registrations of one engine

(* A description filters by sound bank and cue index when it names a bank, by
   cue instance when it names a cue. *)
Description == [bank : SoundBanks \cup {NoBank}, index : Indexes,
                cue : Cues \cup {NoCue}, persistent : BOOLEAN]

ASSUME XactAssumption ==
    /\ NoEngine \notin Engines /\ NoBank \notin SoundBanks /\ NoCue \notin Cues
    /\ AnyIndex \notin Indexes
    /\ Capacity \in Nat \ {0} /\ MaxRefs \in Nat \ {0} /\ MaxRegistrations \in Nat
    /\ Descriptions \subseteq Description

VARIABLES
    engine,    \* X_XACTEngine: ReferenceCount, how many of them the guest holds,
               \* its banks (newest first), registrations and queued notifications
    bank,      \* X_XACTSoundBank: its engine, ReferenceCount, cues (newest first)
    cue        \* X_XACTSoundCue: its bank, CueIndex, autorelease flag, Playing, and
               \* whether its host buffer still sounds

vars == <<engine, bank, cue>>

DeadEngine == [refs |-> 0, held |-> 0, waves |-> {}, banks |-> <<>>, regs |-> <<>>, queue |-> <<>>]
DeadBank == [engine |-> NoEngine, refs |-> 0, cues |-> <<>>]
DeadCue == [bank |-> NoBank, index |-> AnyIndex, auto |-> FALSE, playing |-> FALSE,
            sounding |-> FALSE]

(* The elements of a list that are in S, in their order. *)
Only(s, S) ==
    FoldLeft(LAMBDA kept, x : IF x \in S THEN Append(kept, x) ELSE kept, <<>>, s)

Init ==
    /\ engine = [e \in Engines |-> DeadEngine]
    /\ bank = [b \in SoundBanks |-> DeadBank]
    /\ cue = [c \in Cues |-> DeadCue]

(* FindXactEngine, FindXactSoundBank, FindXactSoundCue: reachable from
   g_XactEngines. *)
LiveEngine(e) == engine[e].refs > 0
LiveBank(b) == \E e \in Engines : LiveEngine(e) /\ Contains(engine[e].banks, b)
LiveCue(c) == \E b \in SoundBanks : LiveBank(b) /\ Contains(bank[b].cues, c)

-----------------------------------------------------------------------------
(* References *)

(* ReleaseXactEngineReferenceLocked and DestroyXactEngine, on a record that has
   lost one reference. *)
Dropped(x) == IF x.refs > 1 THEN [x EXCEPT !.refs = @ - 1] ELSE DeadEngine

EngineCreate(e) ==
    /\ engine[e] = DeadEngine
    /\ engine' = [engine EXCEPT ![e].refs = 1, ![e].held = 1]
    /\ UNCHANGED <<bank, cue>>

EngineAddRef(e) ==
    /\ LiveEngine(e) /\ engine[e].held \in 1..(MaxRefs - 1)
    /\ engine' = [engine EXCEPT ![e].refs = @ + 1, ![e].held = @ + 1]
    /\ UNCHANGED <<bank, cue>>

(* The guest releases references it holds. *)
EngineRelease(e) ==
    /\ engine[e].held > 0
    /\ engine' = [engine EXCEPT ![e] = Dropped([engine[e] EXCEPT !.held = @ - 1])]
    /\ UNCHANGED <<bank, cue>>

RegisterWaveBank(e, w) ==
    /\ LiveEngine(e)
    /\ \A x \in Engines : w \notin engine[x].waves
    /\ engine' = [engine EXCEPT ![e].refs = @ + 1, ![e].waves = @ \cup {w}]
    /\ UNCHANGED <<bank, cue>>

UnRegisterWaveBankOnly(e, w) ==
    /\ w \in engine[e].waves
    /\ engine' = [engine EXCEPT ![e].waves = @ \ {w}]
    /\ UNCHANGED <<bank, cue>>

UnRegisterWaveBank(e, w) ==
    /\ LiveEngine(e) /\ w \in engine[e].waves
    /\ engine' = [engine EXCEPT ![e] = Dropped([engine[e] EXCEPT !.waves = @ \ {w}])]
    /\ UNCHANGED <<bank, cue>>

CreateSoundBank(e, b) ==
    /\ LiveEngine(e)
    /\ bank[b] = DeadBank
    /\ engine' = [engine EXCEPT ![e].refs = @ + 1, ![e].banks = <<b>> \o @]
    /\ bank' = [bank EXCEPT ![b] = [engine |-> e, refs |-> 1, cues |-> <<>>]]
    /\ UNCHANGED cue

SoundBankAddRef(b) ==
    /\ LiveBank(b) /\ bank[b].refs < MaxRefs
    /\ bank' = [bank EXCEPT ![b].refs = @ + 1]
    /\ UNCHANGED <<engine, cue>>

Foreign(s, b) == Only(s, {r \in ToSet(s) : r.bank # b})

WithoutRegistrations(x, b) == [x EXCEPT !.regs = Foreign(@, b)]

(* RemoveSoundBankNotificationsLocked *)
Without(x, b) == [x EXCEPT !.regs = Foreign(@, b), !.queue = Foreign(@, b)]

Owner(b) == bank[b].engine

FinalRelease(b) ==
    /\ engine' = [engine EXCEPT ![Owner(b)] =
                    Dropped(Without([engine[Owner(b)] EXCEPT !.banks = RemoveFirst(@, b)], b))]
    /\ cue' = [c \in Cues |-> IF Contains(bank[b].cues, c) THEN DeadCue ELSE cue[c]]
    /\ bank' = [bank EXCEPT ![b] = DeadBank]

SoundBankRelease(b) ==
    /\ LiveBank(b)
    /\ \/ /\ bank[b].refs > 1
          /\ bank' = [bank EXCEPT ![b].refs = @ - 1]
          /\ UNCHANGED <<engine, cue>>
       \/ bank[b].refs = 1 /\ FinalRelease(b)

-----------------------------------------------------------------------------
(* Notifications.  A queued one names the cue that stopped, with the
   cue-destroyed flag; "gone" says whether that cue has been destroyed, which
   its address alone would not tell. *)

MatchesCue(d, c) ==
    /\ d.bank # NoBank => d.bank = cue[c].bank /\ d.index = cue[c].index
    /\ d.cue # NoCue => d.cue = c

MatchesDescription(n, d) ==
    /\ d.bank # NoBank => n.bank = d.bank /\ n.index = d.index
    /\ d.cue # NoCue => n.cue = d.cue

Notification(c, destroyed) ==
    [bank |-> cue[c].bank, index |-> cue[c].index, cue |-> c, destroyed |-> destroyed,
     gone |-> FALSE]

(* QueueStopNotificationsLocked: in their order, the registrations that match
   fire while there is room, and are used up unless they are persistent. *)
Fires(x, c, i) ==
    /\ MatchesCue(x.regs[i], c)
    /\ Len(x.queue) + Cardinality({j \in 1..(i - 1) : MatchesCue(x.regs[j], c)}) < Capacity

QueueStop(x, c, destroyed) ==
    LET fired == {i \in DOMAIN x.regs : Fires(x, c, i)}
        kept == Only([i \in DOMAIN x.regs |-> i],
                     {i \in DOMAIN x.regs : i \notin fired \/ x.regs[i].persistent})
    IN  [regs |-> [k \in DOMAIN kept |-> x.regs[kept[k]]],
         queue |-> x.queue \o [k \in 1..Cardinality(fired) |-> Notification(c, destroyed)]]

(* Those of several cues, in the order of the list they are found in; then the
   cues in "released" are destroyed.  Notices of the cues in "flagged" say so. *)
Stopped(x, stopping, flagged, released) ==
    LET Stop(acc, c) == QueueStop(acc, c, c \in flagged)
        all == FoldLeft(Stop, [regs |-> x.regs, queue |-> x.queue], stopping)
    IN  [x EXCEPT !.regs = all.regs,
                  !.queue = [i \in DOMAIN all.queue |->
                               [all.queue[i] EXCEPT !.gone = @ \/ all.queue[i].cue \in released]]]

Listed(b, S) == [bank[b] EXCEPT !.cues = Only(@, Cues \ S)]

RegisterNotification(e, d) ==
    /\ LiveEngine(e)
    /\ d.bank # NoBank => LiveBank(d.bank) /\ Owner(d.bank) = e
    /\ d.cue # NoCue => LiveCue(d.cue) /\ Owner(cue[d.cue].bank) = e
    /\ Len(engine[e].regs) < MaxRegistrations
    /\ engine' = [engine EXCEPT ![e].regs = <<d>> \o @]
    /\ UNCHANGED <<bank, cue>>

UnRegisterNotification(e, d) ==
    /\ LiveEngine(e) /\ Contains(engine[e].regs, d)
    /\ engine' = [engine EXCEPT ![e].regs = RemoveFirst(@, d)]
    /\ UNCHANGED <<bank, cue>>

GetNotification(e, d) ==
    /\ \E i \in DOMAIN engine[e].queue :
          /\ MatchesDescription(engine[e].queue[i], d)
          /\ \A j \in 1..(i - 1) : ~MatchesDescription(engine[e].queue[j], d)
          /\ engine' = [engine EXCEPT ![e].queue = RemoveAt(@, i)]
    /\ UNCHANGED <<bank, cue>>

FlushNotification(e, d) ==
    /\ \E i \in DOMAIN engine[e].queue : MatchesDescription(engine[e].queue[i], d)
    /\ engine' = [engine EXCEPT ![e].queue =
                    Only(@, {n \in ToSet(@) : ~MatchesDescription(n, d)})]
    /\ UNCHANGED <<bank, cue>>

-----------------------------------------------------------------------------
(* Cues *)

(* ResolveSoundCuePcm: the cue's sound is in a wave bank registered with the
   engine; its samples are copied, so the wave bank may go afterwards. *)
Resolves(b) == engine[Owner(b)].waves # {}

(* CreateXactCueLocked.  A prepared cue never plays, so its autorelease flag is
   never looked at. *)
CreateCue(b, i, auto, play) ==
    /\ LiveBank(b) /\ Resolves(b)
    /\ \E c \in Cues :
          /\ cue[c] = DeadCue
          /\ cue' = [cue EXCEPT ![c] = [bank |-> b, index |-> i, auto |-> auto,
                                        playing |-> play, sounding |-> play]]
          /\ bank' = [bank EXCEPT ![b].cues = <<c>> \o @]
    /\ UNCHANGED engine

PrepareEx(b, i) == CreateCue(b, i, FALSE, FALSE)

PlayEx(b, i, auto) == CreateCue(b, i, auto, TRUE)

(* The host buffer, which does not loop, comes to its end. *)
HostFinishes(c) ==
    /\ cue[c].sounding
    /\ cue' = [cue EXCEPT ![c].sounding = FALSE]
    /\ UNCHANGED <<engine, bank>>

(* Stop: one cue, the cues of an index, or all of the bank. *)
SoundBankStop(b, i, c) ==
    LET hit == {x \in Cues : IF c # NoCue THEN x = c ELSE i = AnyIndex \/ cue[x].index = i}
        stopping == Only(bank[b].cues, hit)
        released == ToSet(stopping)
    IN  /\ LiveBank(b) /\ stopping # <<>>
        /\ engine' = [engine EXCEPT ![Owner(b)] =
                        Stopped(@, stopping, released, released)]
        /\ bank' = [bank EXCEPT ![b] = Listed(b, released)]
        /\ cue' = [x \in Cues |-> IF x \in released THEN DeadCue ELSE cue[x]]

(* XACTEngineDoWork, over the whole of every list: voices that have come to
   their end stop; autorelease cues among them are destroyed. *)
Ended(c) == cue[c].playing /\ ~cue[c].sounding

DestroyedFlag(c) == cue[c].auto

Silenced(c) == [cue[c] EXCEPT !.playing = FALSE]

ReapedNone == {}

Reaped == {c \in Cues : Ended(c) /\ cue[c].auto}

CuesOf(e) == FlattenSeq([i \in DOMAIN engine[e].banks |-> bank[engine[e].banks[i]].cues])

DoWork ==
    /\ \E c \in Cues : Ended(c)
    /\ engine' = [e \in Engines |->
                    Stopped(engine[e], Only(CuesOf(e), {c \in Cues : Ended(c)}),
                            {c \in Cues : DestroyedFlag(c)}, Reaped)]
    /\ bank' = [b \in SoundBanks |-> Listed(b, Reaped)]
    /\ cue' = [c \in Cues |-> IF c \in Reaped THEN DeadCue
                              ELSE IF Ended(c) THEN Silenced(c) ELSE cue[c]]

-----------------------------------------------------------------------------
EngineCalls(e) ==
    \/ EngineCreate(e) \/ EngineAddRef(e) \/ EngineRelease(e)
    \/ \E w \in WaveBanks : RegisterWaveBank(e, w) \/ UnRegisterWaveBank(e, w)
    \/ \E b \in SoundBanks : CreateSoundBank(e, b)
    \/ \E d \in Descriptions :
          \/ RegisterNotification(e, d) \/ UnRegisterNotification(e, d)
          \/ GetNotification(e, d) \/ FlushNotification(e, d)

SoundBankCalls(b) ==
    \/ SoundBankAddRef(b) \/ SoundBankRelease(b)
    \/ \E i \in Indexes : PrepareEx(b, i) \/ PlayEx(b, i, TRUE) \/ PlayEx(b, i, FALSE)
    \/ \E i \in Indexes \cup {AnyIndex}, c \in Cues \cup {NoCue} : SoundBankStop(b, i, c)

Next ==
    \/ \E e \in Engines : EngineCalls(e)
    \/ \E b \in SoundBanks : SoundBankCalls(b)
    \/ DoWork
    \/ \E c \in Cues : HostFinishes(c)

Spec == Init /\ [][Next]_vars

(* A sound comes to its end; nobody has to call. *)
FairSpec == Spec /\ \A c \in Cues : WF_vars(HostFinishes(c))

-----------------------------------------------------------------------------
Notifications == [bank : SoundBanks, index : Indexes, cue : Cues,
                  destroyed : BOOLEAN, gone : BOOLEAN]

TypeOK ==
    /\ engine \in [Engines -> [refs : Nat, held : 0..MaxRefs, waves : SUBSET WaveBanks,
                               banks : Seq(SoundBanks), regs : Seq(Descriptions),
                               queue : Seq(Notifications)]]
    /\ bank \in [SoundBanks -> {DeadBank} \cup
                     [engine : Engines, refs : 1..MaxRefs, cues : Seq(Cues)]]
    /\ cue \in [Cues -> {DeadCue} \cup [bank : SoundBanks, index : Indexes, auto : BOOLEAN,
                                         playing : BOOLEAN, sounding : BOOLEAN]]

(* Everything has its type, and an engine's count is the guest's references and
   one for each of its banks, so it lives as long as a bank does: "Releasing a
   caller's engine reference leaves the engine alive while a bank exists"
   (docs/reference/xact-hle.md:15-17). *)
EngineOutlivesBanks ==
    /\ TypeOK
    /\ \A e \in Engines :
          engine[e].refs = engine[e].held + Cardinality(engine[e].waves) + Len(engine[e].banks)
    /\ \A b \in SoundBanks :
          bank[b] # DeadBank => LiveEngine(Owner(b)) /\ Contains(engine[Owner(b)].banks, b)

Queued(e) == {engine[e].queue[i] : i \in DOMAIN engine[e].queue}

(* What the guest is told is true when it reads it.  No registration or queued
   notification names a sound bank that has been destroyed, though its address
   may already be that of another (781-813); one with the cue-destroyed flag is
   about a cue that is gone, whose handle the guest may forget (707-759); and a
   cue that still exists and is named has stopped: a play is reported as over
   once, and not before it is (1030-1040).  And "The engine honors its
   notification queue limit" (docs/reference/xact-hle.md:52-53), though one Stop
   may fire several registrations for several cues. *)
NoticesTruthful ==
    \A e \in Engines :
        LET named == {engine[e].regs[i].bank : i \in DOMAIN engine[e].regs}
                        \cup {n.bank : n \in Queued(e)}
        IN  /\ Len(engine[e].queue) <= Capacity
            /\ \A b \in named \ {NoBank} : LiveBank(b) /\ Owner(b) = e
            /\ \A n \in Queued(e) :
                  /\ n.destroyed => n.gone
                  /\ n.gone \/ ~cue[n.cue].playing

(* A guest that goes on calling XACTEngineDoWork gets rid of every autorelease
   cue it plays, without any call about it. *)
DoWorkGoesOn == []<>(\A c \in Cues : ~Ended(c)) \/ []<><<DoWork>>_vars

AutoreleaseReaped ==
    DoWorkGoesOn => \A c \in Cues : []<>~cue[c].auto
=============================================================================
