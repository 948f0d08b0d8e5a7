------------------------- MODULE ThreadSuspendProofs -------------------------
(***************************************************************************)
(* Suspend counts of guest threads, for any number of threads: as long as  *)
(* threads are created suspended, so that a new thread cannot suspend      *)
(* itself before its entry is written, host and logical counts agree, and  *)
(* nobody is stopped inside a call or a critical region.                   *)
(***************************************************************************)
EXTENDS ThreadSuspend, TLAPS

Registering(x) == \E u \in Threads : pc[u] = "register" /\ target[u].thread = x

(* A thread being registered was created suspended and nobody can name it. *)
BeingRegistered ==
    \A u \in Threads :
        pc[u] = "register" =>
            /\ target[u].suspended
            /\ target[u].thread \in Threads \ known
            /\ pc[target[u].thread] = "start"
            /\ real[target[u].thread] = 1
            /\ \A v \in Threads \ {u} :
                  pc[v] \in {"register", "suspend", "resume"} =>
                      target[v].thread # target[u].thread

(* Every other thread without an entry is not suspended. *)
Unlisted == \A x \in Threads \ known : real[x] = 0 \/ Registering(x)

(* A call names an existing thread. *)
Named ==
    \A t \in Threads :
        pc[t] \in {"suspend", "resume"} =>
            target[t].thread \in Threads /\ pc[target[t].thread] # "unborn"

(* A pending self-suspension is that of a thread between its announcement and
   its return. *)
Announced ==
    /\ \A t \in Threads : pc[t] \in {"unborn", "start"} => ~region[t]
    /\ \A t \in Threads : pc[t] = "hostSuspend" => t \in known /\ entry[t].pending
    /\ \A t \in known : entry[t].pending => pc[t] \in {"hostSuspend", "relock"}
    /\ \A t \in Threads : pc[t] = "relock" => t \in known
    /\ \A t \in known : pc[t] # "unborn"

IInv ==
    /\ TypeOK
    /\ SuspendedIsCounted /\ CountsNest /\ StoppedOutside
    /\ BeingRegistered /\ Unlisted /\ Named /\ Announced

LEMMA Initially == Init => IInv
BY SuspendAssumption DEF Init, IInv, TypeOK, SuspendedIsCounted, CountsNest, StoppedOutside,
              BeingRegistered, Unlisted, Named, Announced, Registering, Counts, Entry, NoTarget, Runs

(* What a call on thread x may leave in its entry and in the host's count. *)
Settled(x) ==
    \E a \in 0..MaxCount, b \in Nat, c \in BOOLEAN, r \in Nat :
        /\ Store(x, Entry(a, b, c))
        /\ real' = [real EXCEPT ![x] = r]
        /\ r = b + (IF pc[x] = "relock" /\ c THEN 1 ELSE 0)
        /\ b + (IF c THEN 1 ELSE 0) <= a
        /\ b > 0 => pc[x] \in {"start", "guest"} /\ ~region[x]
        /\ c => pc[x] \in {"hostSuspend", "relock"}
        /\ pc[x] = "hostSuspend" => c

Entries == [logical : 0..MaxCount, host : Nat, pending : BOOLEAN]

(* An entry s agrees with what the host and thread x are doing. *)
Agrees(s, x) ==
    /\ s \in Entries
    /\ real[x] \in Nat
    /\ real[x] = s.host + (IF pc[x] = "relock" /\ s.pending THEN 1 ELSE 0)
    /\ s.host + (IF s.pending THEN 1 ELSE 0) <= s.logical
    /\ s.host > 0 => pc[x] \in {"start", "guest"} /\ ~region[x]
    /\ s.pending => pc[x] \in {"hostSuspend", "relock"}
    /\ pc[x] = "hostSuspend" => s.pending

(* The entry a call finds or makes agrees. *)
LEMMA Looked ==
    ASSUME IInv, NEW x \in Threads, ~Registering(x)
    PROVE  Agrees(StateOf(x), x)
<1>. USE DEF Agrees, Entries
<1>1. CASE x \in known
    BY <1>1 DEF StateOf, IInv, TypeOK, SuspendedIsCounted, CountsNest, StoppedOutside, Announced
<1>2. CASE x \notin known
    <2>1. real[x] = 0
        BY <1>2 DEF IInv, Unlisted
    <2>2. StateOf(x) = [logical |-> 0, host |-> 0, pending |-> FALSE]
        BY <1>2, <2>1 DEF StateOf, Counts, Entry
    <2>. QED  BY <1>2, <2>1, <2>2, SuspendAssumption DEF IInv, Announced
<1>. QED  BY <1>1, <1>2

(* A call that stores entry s and leaves the host's count at r. *)
LEMMA SettledBy ==
    ASSUME NEW x, NEW a \in 0..MaxCount, NEW b \in Nat, NEW c \in BOOLEAN, NEW r \in Nat,
           Store(x, Entry(a, b, c)),
           real' = [real EXCEPT ![x] = r],
           r = b + (IF pc[x] = "relock" /\ c THEN 1 ELSE 0),
           b + (IF c THEN 1 ELSE 0) <= a,
           b > 0 => pc[x] \in {"start", "guest"} /\ ~region[x],
           c => pc[x] \in {"hostSuspend", "relock"},
           pc[x] = "hostSuspend" => c
    PROVE  Settled(x)
BY DEF Settled

LEMMA SettledClear ==
    ASSUME NEW x, NEW a \in 0..MaxCount, NEW b \in Nat,
           Store(x, Entry(a, b, FALSE)),
           real' = [real EXCEPT ![x] = b],
           b <= a,
           b > 0 => pc[x] \in {"start", "guest"} /\ ~region[x],
           pc[x] # "hostSuspend"
    PROVE  Settled(x)
<1>1. /\ b = b + (IF pc[x] = "relock" /\ FALSE THEN 1 ELSE 0)
      /\ b + (IF FALSE THEN 1 ELSE 0) <= a
    OBVIOUS
<1>. QED  BY <1>1 DEF Settled

(* The end of a call that settles its target. *)
LEMMA CallEnds ==
    ASSUME IInv, NEW t \in Threads, pc[t] \in {"suspend", "resume"}, Runs(t),
           Settled(target[t].thread), Return(t), UNCHANGED region
    PROVE  IInv'
<1>. USE SuspendAssumption DEF IInv
<1>. DEFINE x == target[t].thread
<1>1. x \in Threads /\ pc[x] # "unborn"
    BY DEF Named
<1>2. PICK a \in 0..MaxCount, b \in Nat, c \in BOOLEAN, r \in Nat :
        /\ entry' = [entry EXCEPT ![x] = [logical |-> a, host |-> b, pending |-> c]]
        /\ known' = known \cup {x}
        /\ real' = [real EXCEPT ![x] = r]
        /\ r = b + (IF pc[x] = "relock" /\ c THEN 1 ELSE 0)
        /\ b + (IF c THEN 1 ELSE 0) <= a
        /\ b > 0 => pc[x] \in {"start", "guest"} /\ ~region[x]
        /\ c => pc[x] \in {"hostSuspend", "relock"}
        /\ pc[x] = "hostSuspend" => c
    BY DEF Settled, Store, Entry
<1>3. ~Registering(x)
    BY <1>1 DEF BeingRegistered, Registering, Runs
<1>4. TypeOK'
    BY <1>1, <1>2, <1>3 DEF TypeOK, Return, NoTarget
<1>5. SuspendedIsCounted'
    BY <1>1, <1>2, <1>3 DEF SuspendedIsCounted, TypeOK, Return
<1>6. CountsNest'
    BY <1>1, <1>2, <1>3 DEF CountsNest, TypeOK
<1>7. StoppedOutside'
    BY <1>1, <1>2, <1>3 DEF StoppedOutside, TypeOK, Return
<1>8. BeingRegistered'
    BY <1>1, <1>2, <1>3 DEF BeingRegistered, Registering, TypeOK, Return, NoTarget
<1>9. Unlisted'
    BY <1>1, <1>2, <1>3 DEF Unlisted, BeingRegistered, Registering, TypeOK, Return
<1>10. Named'
    BY <1>1, <1>2, <1>3 DEF Named, TypeOK, Return, NoTarget
<1>11. Announced'
    BY <1>1, <1>2, <1>3 DEF Announced, TypeOK, Return
<1>. QED  BY <1>4, <1>5, <1>6, <1>7, <1>8, <1>9, <1>10, <1>11

(* An agreeing entry by its parts. *)
LEMMA Parts ==
    ASSUME NEW x \in Threads, NEW s, Agrees(s, x)
    PROVE  /\ s.logical \in 0..MaxCount /\ s.host \in Nat /\ s.pending \in BOOLEAN
           /\ s = Entry(s.logical, s.host, s.pending)
BY DEF Agrees, Entries, Entry

(* A call that leaves the agreeing entry it found settles its target. *)
LEMMA LeftSettles ==
    ASSUME NEW x \in Threads, NEW s, Agrees(s, x), real \in [Threads -> Nat],
           Store(x, s), UNCHANGED real
    PROVE  Settled(x)
<1>1. Store(x, Entry(s.logical, s.host, s.pending))
    BY Parts
<1>2. real' = [real EXCEPT ![x] = real[x]]
    OBVIOUS
<1>3. /\ s.logical \in 0..MaxCount /\ s.host \in Nat /\ s.pending \in BOOLEAN
      /\ real[x] \in Nat
    BY Parts DEF Agrees
<1>. QED  BY <1>1, <1>2, <1>3, SettledBy DEF Agrees

LEMMA SuspendOtherSettles ==
    ASSUME IInv, NEW t \in Threads, SuspendOther(t)
    PROVE  Settled(target[t].thread)
<1>. DEFINE x == target[t].thread
            s == StateOf(x)
<1>1. x \in Threads /\ ~Registering(x)
    BY DEF IInv, Named, BeingRegistered, Registering, SuspendOther
<1>2. Agrees(s, x)
    BY <1>1, Looked
<1>3. real \in [Threads -> Nat]
    BY DEF IInv, TypeOK
<1>4. s.logical \in 0..MaxCount /\ s.host \in Nat /\ s.pending \in BOOLEAN
    BY <1>1, <1>2, Parts
<1>. HIDE DEF s, x
<1>5. ASSUME s.logical < MaxCount /\ AtBoundary(x) PROVE Settled(x)
    <2>1. /\ Store(x, Entry(s.logical + 1, s.host + 1, s.pending))
          /\ real' = [real EXCEPT ![x] = real[x] + 1]
        BY <1>4, <1>5, SuspendAssumption DEF SuspendOther, s, x
    <2>3. /\ s.logical + 1 \in 0..MaxCount /\ s.host + 1 \in Nat /\ real[x] + 1 \in Nat
          /\ real[x] + 1 = s.host + 1 + (IF pc[x] = "relock" /\ s.pending THEN 1 ELSE 0)
          /\ s.host + 1 + (IF s.pending THEN 1 ELSE 0) <= s.logical + 1
          /\ s.host + 1 > 0 => pc[x] \in {"start", "guest"} /\ ~region[x]
          /\ s.pending => pc[x] \in {"hostSuspend", "relock"}
          /\ pc[x] = "hostSuspend" => s.pending
        BY <1>2, <1>4, <1>5, SuspendAssumption DEF Agrees, AtBoundary
    <2>. QED  BY <1>4, <2>1, <2>3, SettledBy
<1>6. ASSUME s.logical < MaxCount /\ ~AtBoundary(x) PROVE Settled(x)
    <2>1. /\ Store(x, Entry(s.logical + 1, s.host, s.pending))
          /\ real' = [real EXCEPT ![x] = real[x]]
        BY <1>3, <1>4, <1>6, SuspendAssumption DEF SuspendOther, s, x
    <2>3. /\ s.logical + 1 \in 0..MaxCount /\ s.host \in Nat /\ real[x] \in Nat
          /\ real[x] = s.host + (IF pc[x] = "relock" /\ s.pending THEN 1 ELSE 0)
          /\ s.host + (IF s.pending THEN 1 ELSE 0) <= s.logical + 1
          /\ s.host > 0 => pc[x] \in {"start", "guest"} /\ ~region[x]
          /\ s.pending => pc[x] \in {"hostSuspend", "relock"}
          /\ pc[x] = "hostSuspend" => s.pending
        BY <1>2, <1>4, <1>6, SuspendAssumption DEF Agrees
    <2>. QED  BY <1>4, <2>1, <2>3, SettledBy
<1>7. ASSUME ~(s.logical < MaxCount) PROVE Settled(x)
    <2>1. Store(x, s) /\ UNCHANGED real
        BY <1>4, <1>7, SuspendAssumption DEF SuspendOther, s, x
    <2>. QED  BY <1>1, <1>2, <1>3, <2>1, LeftSettles
<1>. QED  BY <1>5, <1>6, <1>7 DEF x

LEMMA ResumeSettles ==
    ASSUME IInv, NEW t \in Threads, Resume(t)
    PROVE  Settled(target[t].thread)
<1>. DEFINE x == target[t].thread
            s == StateOf(x)
<1>1. x \in Threads /\ ~Registering(x)
    BY DEF IInv, Named, BeingRegistered, Registering, Resume, Runs
<1>2. Agrees(s, x)
    BY <1>1, Looked
<1>3. real \in [Threads -> Nat]
    BY DEF IInv, TypeOK
<1>4. s.logical \in 0..MaxCount /\ s.host \in Nat /\ s.pending \in BOOLEAN
    BY <1>1, <1>2, Parts
<1>. HIDE DEF s, x
<1>5. ASSUME s.logical = 0 PROVE Settled(x)
    <2>1. Store(x, s) /\ UNCHANGED real
        BY <1>4, <1>5 DEF Resume, s, x
    <2>. QED  BY <1>1, <1>2, <1>3, <2>1, LeftSettles
<1>6. ASSUME s.logical > 0 /\ s.pending PROVE Settled(x)
    <2>1. s.logical # 0
        BY <1>4, <1>6
    <2>2. /\ Store(x, Entry(s.logical - 1, s.host, FALSE))
          /\ real' = [real EXCEPT ![x] = real[x] - 1]
          /\ real[x] > 0
        BY <1>6, <2>1, Zenon DEF Resume, s, x
    <2>3. /\ s.logical - 1 \in 0..MaxCount /\ s.host \in Nat
          /\ real[x] - 1 = s.host /\ s.host <= s.logical - 1
          /\ s.host > 0 => pc[x] \in {"start", "guest"} /\ ~region[x]
          /\ pc[x] # "hostSuspend"
        BY <1>2, <1>4, <1>6, <2>2, SuspendAssumption DEF Agrees
    <2>. QED  BY <2>2, <2>3, SettledClear
<1>7. ASSUME s.logical > 0 /\ ~s.pending /\ s.host = s.logical PROVE Settled(x)
    <2>1. s.logical # 0
        BY <1>4, <1>7
    <2>2. /\ Store(x, Entry(s.logical - 1, s.host - 1, FALSE))
          /\ real' = [real EXCEPT ![x] = real[x] - 1]
        BY <1>7, <2>1, Zenon DEF Resume, s, x
    <2>3. /\ s.logical - 1 \in 0..MaxCount /\ s.host - 1 \in Nat
          /\ real[x] - 1 = s.host - 1 /\ s.host - 1 <= s.logical - 1
          /\ s.host - 1 > 0 => pc[x] \in {"start", "guest"} /\ ~region[x]
          /\ pc[x] # "hostSuspend"
        BY <1>2, <1>4, <1>7, <2>2, SuspendAssumption DEF Agrees
    <2>. QED  BY <2>2, <2>3, SettledClear
<1>8. ASSUME s.logical > 0 /\ ~s.pending /\ s.host # s.logical PROVE Settled(x)
    <2>1. s.logical # 0
        BY <1>4, <1>8
    <2>2. /\ Store(x, Entry(s.logical - 1, s.host, FALSE))
          /\ real' = [real EXCEPT ![x] = real[x]]
        BY <1>3, <1>8, <2>1, Zenon DEF Resume, s, x
    <2>3. /\ s.logical - 1 \in 0..MaxCount /\ s.host \in Nat
          /\ real[x] = s.host /\ s.host <= s.logical - 1
          /\ s.host > 0 => pc[x] \in {"start", "guest"} /\ ~region[x]
          /\ pc[x] # "hostSuspend"
        BY <1>2, <1>4, <1>8, <2>2, SuspendAssumption DEF Agrees
    <2>. QED  BY <2>2, <2>3, SettledClear
<1>. QED  BY <1>4, <1>5, <1>6, <1>7, <1>8 DEF x

LEMMA SelfSettles ==
    ASSUME IInv, NEW t \in Threads, SuspendSelf(t), ~(StateOf(t).logical < MaxCount)
    PROVE  Settled(t) /\ Return(t)
<1>1. Agrees(StateOf(t), t)
    BY Looked DEF IInv, BeingRegistered, Registering, SuspendSelf
<1>2. Store(t, StateOf(t)) /\ UNCHANGED real /\ Return(t)
    BY DEF SuspendSelf
<1>3. real \in [Threads -> Nat]
    BY DEF IInv, TypeOK
<1>. QED  BY <1>1, <1>2, <1>3, LeftSettles

(* What SuspendSelf announces. *)
LEMMA AnnouncedEntry ==
    ASSUME NEW x \in Threads, NEW s, Agrees(s, x), pc[x] = "suspend", s.logical < MaxCount
    PROVE  s.host = 0 /\ s.logical + 1 \in 1..MaxCount
<1>1. s.logical \in 0..MaxCount /\ s.host \in Nat
    BY Parts
<1>. QED  BY <1>1, SuspendAssumption DEF Agrees

(* No action leaves the invariant while threads are created suspended. *)
LEMMA Inductive ==
    ASSUME Creations \subseteq {TRUE}
    PROVE  IInv /\ [Next]_vars => IInv'
<1>. SUFFICES ASSUME IInv, [Next]_vars PROVE IInv'
    OBVIOUS
<1>. USE SuspendAssumption
<1>1. ASSUME NEW t \in Threads, NEW x \in Threads, NEW suspended \in Creations,
             CreateThread(t, x, suspended)
      PROVE  IInv'
    <2>1. x \in Threads \ known /\ x # t /\ suspended = TRUE
        BY <1>1 DEF IInv, Announced, CreateThread
    <2>2. /\ pc' = [pc EXCEPT ![t] = "register", ![x] = "start"]
          /\ real' = [real EXCEPT ![x] = 1]
          /\ target' = [target EXCEPT ![t] = [thread |-> x, suspended |-> TRUE]]
          /\ UNCHANGED <<entry, known, region>>
          /\ pc[t] = "guest" /\ pc[x] = "unborn" /\ real[t] = 0
        BY <1>1, <2>1 DEF CreateThread, Runs
    <2>3. TypeOK'
        BY <2>1, <2>2 DEF IInv, TypeOK
    <2>4. SuspendedIsCounted'
        BY <2>1, <2>2 DEF IInv, SuspendedIsCounted, TypeOK
    <2>5. CountsNest'
        BY <2>1, <2>2 DEF IInv, CountsNest
    <2>6. StoppedOutside'
        BY <2>1, <2>2 DEF IInv, StoppedOutside, SuspendedIsCounted, TypeOK
    <2>7. BeingRegistered'
        BY <2>1, <2>2 DEF IInv, BeingRegistered, Named, TypeOK
    <2>8. Unlisted'
        BY <2>1, <2>2 DEF IInv, Unlisted, Registering, BeingRegistered, TypeOK
    <2>9. Named'
        BY <2>1, <2>2 DEF IInv, Named, TypeOK
    <2>10. Announced'
        BY <2>1, <2>2 DEF IInv, Announced, TypeOK
    <2>. QED  BY <2>3, <2>4, <2>5, <2>6, <2>7, <2>8, <2>9, <2>10 DEF IInv
<1>2. ASSUME NEW t \in Threads, Register(t) PROVE IInv'
    BY <1>2 DEF Register, Store, IInv, TypeOK, SuspendedIsCounted, CountsNest, StoppedOutside,
              BeingRegistered, Unlisted, Named, Announced, Registering, Counts, Entry, NoTarget, Runs
<1>3. ASSUME NEW t \in Threads, Start(t) PROVE IInv'
    BY <1>3 DEF Start, IInv, TypeOK, SuspendedIsCounted, CountsNest, StoppedOutside,
              BeingRegistered, Unlisted, Named, Announced, Registering, Counts, Entry, NoTarget, Runs
<1>4. ASSUME NEW t \in Threads, NEW b \in BOOLEAN, Runs(t), pc[t] = "guest",
             region' = [region EXCEPT ![t] = b], UNCHANGED <<entry, known, real, pc, target>>
      PROVE  IInv'
    <2>1. TypeOK'
        BY <1>4 DEF IInv, TypeOK
    <2>2. SuspendedIsCounted'
        BY <1>4 DEF IInv, SuspendedIsCounted, TypeOK
    <2>3. CountsNest'
        BY <1>4 DEF IInv, CountsNest
    <2>4. StoppedOutside'
        BY <1>4 DEF IInv, StoppedOutside, SuspendedIsCounted, TypeOK, Runs
    <2>5. BeingRegistered'
        BY <1>4 DEF IInv, BeingRegistered
    <2>6. Unlisted'
        BY <1>4 DEF IInv, Unlisted, Registering
    <2>7. Named'
        BY <1>4 DEF IInv, Named
    <2>8. Announced'
        BY <1>4 DEF IInv, Announced, TypeOK
    <2>. QED  BY <2>1, <2>2, <2>3, <2>4, <2>5, <2>6, <2>7, <2>8 DEF IInv
<1>5. ASSUME NEW t \in Threads, EnterRegion(t) \/ LeaveRegion(t) PROVE IInv'
    BY <1>4, <1>5 DEF EnterRegion, LeaveRegion
<1>6. ASSUME NEW t \in Threads, NEW x \in Threads, NEW op \in {"suspend", "resume"},
             Call(t, x, op)
      PROVE  IInv'
    BY <1>6 DEF Call, IInv, TypeOK, SuspendedIsCounted, CountsNest, StoppedOutside,
              BeingRegistered, Unlisted, Named, Announced, Registering, Counts, Entry, NoTarget, Runs
<1>7. ASSUME NEW t \in Threads, SuspendOther(t) PROVE IInv'
    BY <1>7, SuspendOtherSettles, CallEnds DEF SuspendOther
<1>8. ASSUME NEW t \in Threads, Resume(t) PROVE IInv'
    BY <1>8, ResumeSettles, CallEnds DEF Resume
<1>9. ASSUME NEW t \in Threads, SuspendSelf(t) PROVE IInv'
    <2>. DEFINE state == StateOf(t)
    <2>1. ~Registering(t)
        BY <1>9 DEF IInv, BeingRegistered, Registering, SuspendSelf
    <2>2. CASE ~(state.logical < MaxCount)
        BY <1>9, <2>2, SelfSettles, CallEnds DEF SuspendSelf
    <2>3. CASE state.logical < MaxCount
        <3>1. state.host = 0 /\ state.logical + 1 \in 1..MaxCount
            BY <1>9, <2>1, <2>3, Looked, AnnouncedEntry DEF SuspendSelf
        <3>2. state.logical \in 0..MaxCount
            BY <2>1, Looked, Parts
        <3>3. ~(state.logical >= MaxCount)
            BY <2>3, <3>2, SuspendAssumption
        <3>4. /\ Store(t, Entry(state.logical + 1, state.host, TRUE))
              /\ pc' = [pc EXCEPT ![t] = "hostSuspend"]
              /\ pc[t] = "suspend" /\ real[t] = 0
              /\ UNCHANGED <<target, real, region>>
            BY <1>9, <2>3, <3>3, Zenon DEF SuspendSelf, Runs
        <3>5. /\ entry' = [entry EXCEPT ![t] = [logical |-> state.logical + 1,
                                                 host |-> 0, pending |-> TRUE]]
               /\ known' = known \cup {t}
            BY <3>1, <3>4 DEF Store, Entry
        <3>6. state.logical + 1 \in 1..MaxCount
            BY <3>1
        <3>7. TypeOK'
            BY <2>1, <3>4, <3>6, <3>5 DEF IInv, TypeOK
        <3>8. SuspendedIsCounted'
            BY <2>1, <3>4, <3>6, <3>5 DEF IInv, SuspendedIsCounted, TypeOK
        <3>9. CountsNest'
            BY <2>1, <3>4, <3>6, <3>5 DEF IInv, CountsNest, TypeOK
        <3>10. StoppedOutside'
            BY <2>1, <3>4, <3>6, <3>5 DEF IInv, StoppedOutside, TypeOK
        <3>11. BeingRegistered'
            BY <2>1, <3>4, <3>6, <3>5 DEF IInv, BeingRegistered, Registering, TypeOK
        <3>12. Unlisted'
            BY <2>1, <3>4, <3>6, <3>5 DEF IInv, Unlisted, Registering, TypeOK
        <3>13. Named'
            BY <2>1, <3>4, <3>6, <3>5 DEF IInv, Named, TypeOK
        <3>14. Announced'
            BY <2>1, <3>4, <3>6, <3>5 DEF IInv, Announced, TypeOK
        <3>. QED  BY <3>7, <3>8, <3>9, <3>10, <3>11, <3>12, <3>13, <3>14 DEF IInv
    <2>. QED  BY <2>2, <2>3
<1>10. ASSUME NEW t \in Threads, HostSuspend(t) PROVE IInv'
    BY <1>10 DEF HostSuspend, IInv, TypeOK, SuspendedIsCounted, CountsNest, StoppedOutside,
              BeingRegistered, Unlisted, Named, Announced, Registering, Counts, Entry, NoTarget, Runs
<1>11. ASSUME NEW t \in Threads, Relock(t) PROVE IInv'
    BY <1>11 DEF Relock, Return, IInv, TypeOK, SuspendedIsCounted, CountsNest, StoppedOutside,
              BeingRegistered, Unlisted, Named, Announced, Registering, Counts, Entry, NoTarget, Runs
<1>12. CASE UNCHANGED vars
    BY <1>12 DEF vars, IInv, TypeOK, SuspendedIsCounted, CountsNest, StoppedOutside,
              BeingRegistered, Unlisted, Named, Announced, Registering, Counts, Entry, NoTarget, Runs
<1>. QED
    BY <1>1, <1>2, <1>3, <1>5, <1>6, <1>7, <1>8, <1>9, <1>10, <1>11, <1>12
    DEF Next, CallSteps

LEMMA Invariance ==
    ASSUME Creations \subseteq {TRUE}
    PROVE  Spec => []IInv
<1>. QED  BY Initially, Inductive, PTL DEF Spec

(* Every suspension the host knows of is in the counts the guest resumes by. *)
THEOREM Counted ==
    ASSUME Creations \subseteq {TRUE}
    PROVE  Spec => []SuspendedIsCounted
<1>1. IInv => SuspendedIsCounted
    BY DEF IInv
<1>. QED  BY <1>1, Invariance, PTL

(* Real suspensions are among the logical ones. *)
THEOREM Nested ==
    ASSUME Creations \subseteq {TRUE}
    PROVE  Spec => []CountsNest
<1>1. IInv => CountsNest
    BY DEF IInv
<1>. QED  BY <1>1, Invariance, PTL

(* Nobody is stopped by another inside a call or a critical region. *)
THEOREM NeverStoppedInside ==
    ASSUME Creations \subseteq {TRUE}
    PROVE  Spec => []StoppedOutside
<1>1. IInv => StoppedOutside
    BY DEF IInv
<1>. QED  BY <1>1, Invariance, PTL

(* The variables keep their types; no count passes the limit. *)
THEOREM TypeCorrect ==
    ASSUME Creations \subseteq {TRUE}
    PROVE  Spec => []TypeOK
<1>1. IInv => TypeOK
    BY DEF IInv
<1>. QED  BY <1>1, Invariance, PTL
=============================================================================
