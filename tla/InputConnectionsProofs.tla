----------------------- MODULE InputConnectionsProofs -----------------------
(***************************************************************************)
(* Proofs about InputConnections, for any ports, any number of plugs and   *)
(* restarts and, but for HandlesFollow, any guest threads.                 *)
(***************************************************************************)
EXTENDS InputConnections, TLAPS

(* The guest's picture is the one its last query left, and what changed since
   is latched. *)
Latched ==
    /\ device.current = device.previous
    /\ \A p \in Ports : effective.gen[p] # known[p] => p \in effective.changed

(* The call t is in will merge its snapshot, and what that says of port p. *)
Merges(t) == call[t].op \in {"devices", "changes", "open", "check"}
MovesAt(t, p) == Merges(t) /\ (p \in call[t].changed \/ p \notin call[t].current)
StaysAt(t, p) == Merges(t) => p \in call[t].current /\ p \notin call[t].changed

(* A handle was opened for a generation that has been, and names a port. *)
Opened(t) ==
    LET p == handle[t].port
    IN  /\ handle[t] = NoHandle \/ p \in Ports
        /\ p \in Ports => handle[t].gen <= effective.gen[p]
        /\ call[t].op \in {"check", "poll"} => p \in Ports
        /\ call[t].op = "check" => call[t].port = p

(* It will never be valid again. *)
Lost(t) ==
    LET p == handle[t].port
    IN  p \notin effective.current \/ handle[t].gen < effective.gen[p]

(* Once a scan has found its port empty a handle is lost, or the transition is
   on its way from the host's tracker to the effective one. *)
LosesEmpty(t) ==
    LET p == handle[t].port
    IN  /\ handle[t].empty =>
              /\ p \in Ports /\ ~StandsIn(p)
              /\ Lost(t) \/ MovesAt(t, p) \/ p \in host.changed \/ p \notin host.current
        /\ call[t].op = "check" /\ call[t].empty =>
              ~StandsIn(p) /\ (Lost(t) \/ MovesAt(t, p))

(* A port is stood in for, or its controller is there and known to be. *)
SteadyAt(p) ==
    \/ StandsIn(p)
    \/ p \in plugged /\ p \in host.current /\ p \notin host.changed

(* A handle whose port nothing happened to is valid, and no transition that
   would end it is on its way. *)
KeepsSteady(t) ==
    LET p == handle[t].port
    IN  /\ p \in Ports /\ ~handle[t].disturbed =>
              /\ p \in effective.current /\ handle[t].gen = effective.gen[p]
              /\ SteadyAt(p)
              /\ StandsIn(p) \/ StaysAt(t, p)
        /\ /\ call[t].op = "open" /\ ~call[t].disturbed
           /\ call[t].port \in call[t].current
           => SteadyAt(call[t].port)

HandleInv == \A t \in Guests : Opened(t) /\ LosesEmpty(t) /\ KeepsSteady(t)

-----------------------------------------------------------------------------
(* Records *)

LEMMA HandleEmpty ==
    ASSUME NEW h \in HandleType, NEW e \in BOOLEAN
    PROVE  LET g == [h EXCEPT !.empty = e]
           IN  /\ g \in HandleType
               /\ g.port = h.port /\ g.gen = h.gen /\ g.disturbed = h.disturbed /\ g.empty = e
  BY DEF HandleType

LEMMA HandleDisturbed ==
    ASSUME NEW h \in HandleType, NEW d \in BOOLEAN
    PROVE  LET g == [h EXCEPT !.disturbed = d]
           IN  /\ g \in HandleType
               /\ g.port = h.port /\ g.gen = h.gen /\ g.disturbed = d /\ g.empty = h.empty
  BY DEF HandleType

LEMMA CallDisturbed ==
    ASSUME NEW c \in CallType, NEW d \in BOOLEAN
    PROVE  LET g == [c EXCEPT !.disturbed = d]
           IN  /\ g \in CallType
               /\ g.op = c.op /\ g.port = c.port /\ g.current = c.current
               /\ g.changed = c.changed /\ g.empty = c.empty /\ g.disturbed = d
  BY DEF CallType

LEMMA NoneTypes ==
    /\ NoHandle \in HandleType /\ NoHandle.port \notin Ports /\ ~NoHandle.empty
    /\ NoCall \in CallType /\ NoCall.op = "none"
    /\ [NoCall EXCEPT !.op = "poll"] \in CallType
    /\ [NoCall EXCEPT !.op = "poll"].op = "poll"
  BY InputAssumption DEF HandleType, CallType, NoHandle, NoCall

LEMMA NoRecord ==
    ASSUME NEW h \in HandleType, h.port = NoHandle.port, h.gen = NoHandle.gen, ~h.empty, ~h.disturbed
    PROVE  h = NoHandle
  BY DEF HandleType, NoHandle

(* What a scan leaves of a handle. *)
LEMMA MarkEmptyAt ==
    ASSUME TypeOK, NEW found, NEW t \in Guests
    PROVE  LET h == MarkEmpty(found)[t]
           IN  /\ h \in HandleType
               /\ h.port = handle[t].port /\ h.gen = handle[t].gen
               /\ h.disturbed = handle[t].disturbed
               /\ h.empty <=> \/ handle[t].empty
                              \/ handle[t].port \in Ports \ found /\ ~StandsIn(handle[t].port)
  <1> DEFINE e == \/ handle[t].empty
                  \/ /\ handle[t].port \in Ports \ found
                     /\ ~StandsIn(handle[t].port)
  <1>1. e \in BOOLEAN
    BY Zenon DEF TypeOK, HandleType
  <1>2. MarkEmpty(found)[t] = [handle[t] EXCEPT !.empty = e]
    BY DEF MarkEmpty
  <1>3. handle[t] \in HandleType
    BY DEF TypeOK
  <1>4. e <=> \/ handle[t].empty
              \/ handle[t].port \in Ports \ found /\ ~StandsIn(handle[t].port)
    BY DEF e
  <1> HIDE DEF e
  <1> QED
    BY <1>1, <1>2, <1>3, <1>4, HandleEmpty

(* What a pulled cable leaves of a handle and of a call. *)
LEMMA DisturbAt ==
    ASSUME TypeOK, NEW S, Disturb(S), NEW t \in Guests
    PROVE  /\ handle'[t] \in HandleType /\ call'[t] \in CallType
           /\ handle'[t].port = handle[t].port /\ handle'[t].gen = handle[t].gen
           /\ handle'[t].empty = handle[t].empty
           /\ handle'[t].disturbed <=> handle[t].disturbed \/ handle[t].port \in S
           /\ call'[t].op = call[t].op /\ call'[t].port = call[t].port
           /\ call'[t].current = call[t].current /\ call'[t].changed = call[t].changed
           /\ call'[t].empty = call[t].empty
           /\ call'[t].disturbed <=> call[t].disturbed \/ call[t].port \in S
  <1> DEFINE d == handle[t].disturbed \/ handle[t].port \in S
             c == call[t].disturbed \/ call[t].port \in S
  <1>1. d \in BOOLEAN /\ c \in BOOLEAN
    BY Zenon DEF TypeOK, HandleType, CallType
  <1>2. /\ handle'[t] = [handle[t] EXCEPT !.disturbed = d]
        /\ call'[t] = [call[t] EXCEPT !.disturbed = c]
    BY DEF Disturb
  <1>3. handle[t] \in HandleType /\ call[t] \in CallType
    BY DEF TypeOK
  <1>4. /\ d <=> handle[t].disturbed \/ handle[t].port \in S
        /\ c <=> call[t].disturbed \/ call[t].port \in S
    BY DEF d, c
  <1> HIDE DEF d, c
  <1> QED
    BY <1>1, <1>2, <1>3, <1>4, HandleDisturbed, CallDisturbed

-----------------------------------------------------------------------------
(* Types *)

LEMMA TypeInitially == Init => TypeOK
  <1> SUFFICES ASSUME Init PROVE TypeOK
    OBVIOUS
  <1>1. NoController \in Tracker
    BY SMT DEF NoController, Tracker
  <1> QED
    BY <1>1, NoneTypes, InputAssumption DEF Init, TypeOK

(* Observing latches what moved and counts it. *)
LEMMA ObserveFields ==
    ASSUME NEW tracker \in Tracker, NEW current \in SUBSET Ports, NEW more \in SUBSET Ports
    PROVE  LET seen == Observe(tracker, current, more)
               moved == (tracker.current \ current) \cup (current \ tracker.current) \cup more
           IN  /\ seen \in Tracker
               /\ seen.current = current
               /\ seen.changed = tracker.changed \cup moved
               /\ \A p \in Ports :
                     seen.gen[p] = IF p \in moved THEN tracker.gen[p] + 1 ELSE tracker.gen[p]
  BY SMT DEF Observe, Tracker

LEMMA ConsumedType == ASSUME NEW tracker \in Tracker PROVE Consumed(tracker) \in Tracker
  BY DEF Consumed, Tracker

LEMMA MarkEmptyType ==
    ASSUME TypeOK, NEW found
    PROVE  MarkEmpty(found) \in [Guests -> HandleType]
  BY MarkEmptyAt DEF MarkEmpty

(* What an answer merges into the effective tracker. *)
MovedBy(t) ==
    (effective.current \ (call[t].current \cup StandIn))
        \cup ((call[t].current \cup StandIn) \ effective.current)
        \cup Visible(call[t].changed)

LEMMA MergedFields ==
    ASSUME TypeOK, NEW t \in Guests
    PROVE  /\ Merged(t) \in Tracker
           /\ Merged(t).current = call[t].current \cup StandIn
           /\ Merged(t).changed = effective.changed \cup MovedBy(t)
           /\ \A p \in Ports :
                 Merged(t).gen[p] = IF p \in MovedBy(t) THEN effective.gen[p] + 1
                                                        ELSE effective.gen[p]
  <1>1. call[t] \in CallType /\ effective \in Tracker
    BY DEF TypeOK
  <1>2. call[t].current \in SUBSET Ports /\ call[t].changed \in SUBSET Ports
    BY <1>1 DEF CallType
  <1>3. /\ call[t].current \cup StandIn \in SUBSET Ports
        /\ Visible(call[t].changed) \in SUBSET Ports
    BY <1>2 DEF StandIn, Visible
  <1> DEFINE now == call[t].current \cup StandIn
             more == Visible(call[t].changed)
  <1>4. Merged(t) = Observe(effective, now, more)
    BY DEF Merged
  <1>5. MovedBy(t) = (effective.current \ now) \cup (now \ effective.current) \cup more
    BY DEF MovedBy
  <1>6. now \in SUBSET Ports /\ more \in SUBSET Ports
    BY <1>3
  <1> HIDE DEF now, more
  <1>7. /\ Merged(t) \in Tracker /\ Merged(t).current = now
        /\ Merged(t).changed = effective.changed \cup MovedBy(t)
        /\ \A p \in Ports :
              Merged(t).gen[p] = IF p \in MovedBy(t) THEN effective.gen[p] + 1
                                                     ELSE effective.gen[p]
    BY <1>1, <1>4, <1>5, <1>6, ObserveFields DEF Tracker
  <1> QED
    BY <1>7 DEF now

LEMMA MergeStep ==
    ASSUME TypeOK, NEW t \in Guests, effective' \in {Merged(t), Consumed(Merged(t))}
    PROVE  /\ effective' \in Tracker
           /\ effective'.current = call[t].current \cup StandIn
           /\ \A p \in Ports :
                 effective'.gen[p] = IF p \in MovedBy(t) THEN effective.gen[p] + 1
                                                         ELSE effective.gen[p]
  BY MergedFields DEF Consumed, Tracker

LEMMA AnswersMerge ==
    ASSUME NEW t,
           XGetDevices(t) \/ XGetDeviceChanges(t) \/ XInputOpen(t) \/ Accept(t) \/ Reject(t)
    PROVE  effective' \in {Merged(t), Consumed(Merged(t))} /\ Merges(t)
  BY Zenon DEF XGetDevices, XGetDeviceChanges, XInputOpen, Accept, Reject, Merges

LEMMA FoundType ==
    ASSUME TypeOK
    PROVE  /\ \A S \in SUBSET Ports : Found(S) \in SUBSET Ports
           /\ Scanned \in SUBSET Ports
  BY DEF TypeOK, Tracker, Found, Scanned

LEMMA HostSees ==
    ASSUME TypeOK, NEW found \in SUBSET Ports
    PROVE  LET seen == Observe(host, found, {})
           IN  /\ seen \in Tracker
               /\ seen.current = found
               /\ seen.changed = host.changed \cup (host.current \ found) \cup (found \ host.current)
  <1>1. host \in Tracker
    BY DEF TypeOK
  <1> QED
    BY <1>1, SMT DEF Observe, Tracker

(* What a query learns of the host and notes in the call. *)
LEMMA QueryStep ==
    ASSUME TypeOK, NEW t \in Guests, NEW op \in {"devices", "changes", "open", "check"},
           NEW p \in Ports \cup {NoPort}, QueryHost(t, op, p)
    PROVE  LET found == Found(Scanned)
               changed == Observe(host, found, {}).changed
           IN  /\ host' \in Tracker /\ host'.current = found /\ host'.changed = {}
               /\ handle' = MarkEmpty(found) /\ handle' \in [Guests -> HandleType]
               /\ call' \in [Guests -> CallType]
               /\ \A u \in Guests \ {t} : call'[u] = call[u]
               /\ call'[t].op = op /\ call'[t].port = p
               /\ call'[t].current = found /\ call'[t].changed = changed
               /\ call'[t].empty = handle'[t].empty /\ ~call'[t].disturbed
  <1> DEFINE found == Found(Scanned)
             seen == Observe(host, found, {})
             rec == [op |-> op, port |-> p, current |-> seen.current, changed |-> seen.changed,
                     empty |-> handle'[t].empty, disturbed |-> FALSE]
  <1>1. found \in SUBSET Ports
    BY FoundType
  <1>2. seen \in Tracker /\ seen.current = found
    BY <1>1, HostSees
  <1>3. host' = Consumed(seen) /\ handle' = MarkEmpty(seen.current)
    BY DEF QueryHost
  <1>4. call' = [call EXCEPT ![t] = rec]
    BY Zenon DEF QueryHost
  <1>5. seen.changed = Observe(host, found, {}).changed
    OBVIOUS
  <1> HIDE DEF found, seen
  <1>6. host' \in Tracker /\ host'.current = found /\ host'.changed = {}
    BY <1>2, <1>3 DEF Consumed, Tracker
  <1>7. handle' \in [Guests -> HandleType] /\ handle'[t].empty \in BOOLEAN
    <2>1. handle' \in [Guests -> HandleType]
      BY <1>3, MarkEmptyType
    <2>2. handle'[t] \in HandleType
      BY <2>1
    <2> QED
      BY <2>1, <2>2 DEF HandleType
  <1>8. rec \in CallType
    BY <1>2, <1>7 DEF Tracker, CallType
  <1>9. /\ rec.op = op /\ rec.port = p /\ rec.current = seen.current
        /\ rec.changed = seen.changed /\ rec.empty = handle'[t].empty /\ ~rec.disturbed
    OBVIOUS
  <1> HIDE DEF rec
  <1>10. call' \in [Guests -> CallType] /\ call'[t] = rec
         /\ \A u \in Guests \ {t} : call'[u] = call[u]
    BY <1>4, <1>8 DEF TypeOK
  <1> QED
    BY <1>2, <1>3, <1>5, <1>6, <1>7, <1>9, <1>10 DEF found

(* A call that is over, and one that goes on to poll. *)
LEMMA EndedCall ==
    ASSUME TypeOK, NEW t \in Guests,
           call' = [call EXCEPT ![t] = NoCall]
             \/ call' = [call EXCEPT ![t] = [NoCall EXCEPT !.op = "poll"]]
    PROVE  /\ call' \in [Guests -> CallType]
           /\ call'[t].op \in {"none", "poll"}
           /\ \A u \in Guests \ {t} : call'[u] = call[u]
  BY NoneTypes DEF TypeOK

(* What StartLegacy leaves of a handle and of a call. *)
LEMMA LegacyStep ==
    ASSUME TypeOK, StartLegacy, NEW t \in Guests
    PROVE  /\ handle'[t] \in HandleType /\ call'[t] \in CallType
           /\ handle'[t].port = handle[t].port /\ handle'[t].gen = handle[t].gen
           /\ call'[t].op = call[t].op /\ call'[t].port = call[t].port
           /\ call'[t].current = call[t].current /\ call'[t].changed = call[t].changed
           /\ handle[t].port # FallbackPort \/ fallback' = fallback => handle'[t] = handle[t]
           /\ call[t].port # FallbackPort \/ fallback' = fallback => call'[t] = call[t]
           /\ handle[t].port = FallbackPort /\ fallback' # fallback =>
                 handle'[t].disturbed /\ handle'[t].empty = (handle[t].empty /\ ~fallback')
           /\ call[t].port = FallbackPort /\ fallback' # fallback =>
                 call'[t].disturbed /\ call'[t].empty = (call[t].empty /\ ~fallback')
  <1> DEFINE he == handle[t].empty /\ ~fallback'
             ce == call[t].empty /\ ~fallback'
  <1>1. handle[t] \in HandleType /\ call[t] \in CallType
    BY DEF TypeOK
  <1>2. he \in BOOLEAN /\ ce \in BOOLEAN
    BY <1>1, Zenon DEF HandleType, CallType
  <1>3. /\ handle'[t] = IF handle[t].port = FallbackPort /\ fallback' # fallback
                        THEN [handle[t] EXCEPT !.disturbed = TRUE, !.empty = he]
                        ELSE handle[t]
        /\ call'[t] = IF call[t].port = FallbackPort /\ fallback' # fallback
                      THEN [call[t] EXCEPT !.disturbed = TRUE, !.empty = ce]
                      ELSE call[t]
    BY Zenon DEF StartLegacy
  <1>4. LET h == [handle[t] EXCEPT !.disturbed = TRUE, !.empty = he]
            c == [call[t] EXCEPT !.disturbed = TRUE, !.empty = ce]
        IN  /\ h \in HandleType /\ h.port = handle[t].port /\ h.gen = handle[t].gen
            /\ h.disturbed /\ h.empty = he
            /\ c \in CallType /\ c.op = call[t].op /\ c.port = call[t].port
            /\ c.current = call[t].current /\ c.changed = call[t].changed
            /\ c.disturbed /\ c.empty = ce
    <2> HIDE DEF he, ce
    <2> QED
      BY <1>1, <1>2 DEF HandleType, CallType
  <1> QED
    BY <1>1, <1>3, <1>4, Zenon DEF he, ce

(* What opening leaves of the handles. *)
LEMMA OpenStep ==
    ASSUME TypeOK, NEW t \in Guests, XInputOpen(t)
    PROVE  LET p == call[t].port
           IN  /\ handle' \in [Guests -> HandleType]
               /\ \A u \in Guests \ {t} : handle'[u] = handle[u]
               /\ p \notin effective'.current => handle'[t] = NoHandle
               /\ p \in effective'.current =>
                     /\ p \in Ports
                     /\ handle'[t].port = p /\ handle'[t].gen = effective'.gen[p]
                     /\ ~handle'[t].empty /\ handle'[t].disturbed = call[t].disturbed
  <1> DEFINE p == call[t].port
             g == effective'.gen[p]
             d == call[t].disturbed
             opened == [port |-> p, gen |-> g, empty |-> FALSE, disturbed |-> d]
  <1>1. effective' \in Tracker
    BY AnswersMerge, MergeStep
  <1>2. call[t] \in CallType
    BY DEF TypeOK
  <1>3. handle' = [handle EXCEPT ![t] = IF p \notin effective'.current THEN NoHandle ELSE opened]
    BY Zenon DEF XInputOpen
  <1>4. p \in effective'.current => p \in Ports /\ g \in Nat
    BY <1>1 DEF Tracker
  <1>5. d \in BOOLEAN
    BY <1>2 DEF CallType
  <1>6. handle \in [Guests -> HandleType]
    BY DEF TypeOK
  <1>7. g = effective'.gen[p] /\ d = call[t].disturbed
    OBVIOUS
  <1> HIDE DEF g, d
  <1>8. /\ p \in effective'.current => opened \in HandleType
        /\ opened.port = p /\ opened.gen = g /\ ~opened.empty /\ opened.disturbed = d
    BY <1>4, <1>5 DEF HandleType
  <1> HIDE DEF p, opened
  <1>9. handle' \in [Guests -> HandleType] /\ \A u \in Guests \ {t} : handle'[u] = handle[u]
    BY <1>3, <1>6, <1>8, NoneTypes
  <1>10. handle'[t] = IF p \notin effective'.current THEN NoHandle ELSE opened
    BY <1>3, <1>6
  <1> QED
    BY <1>4, <1>7, <1>8, <1>9, <1>10 DEF p

(* The two answers about devices, and the polls. *)
LEMMA DevicesStep ==
    ASSUME TypeOK, NEW t \in Guests, XGetDevices(t) \/ XGetDeviceChanges(t)
    PROVE  /\ effective' \in Tracker
           /\ device' \in [current : SUBSET Ports, change : {{}}, previous : SUBSET Ports]
           /\ told' \in [insertions : SUBSET Ports, removals : SUBSET Ports]
           /\ known' = effective'.gen
  <1>1. /\ Merged(t) \in Tracker /\ Consumed(Merged(t)) \in Tracker
        /\ Consumed(Merged(t)).current = Merged(t).current
        /\ Consumed(Merged(t)).gen = Merged(t).gen
    BY MergedFields DEF Consumed, Tracker
  <1>2. Merged(t).current \in SUBSET Ports
    BY <1>1 DEF Tracker
  <1>3. CASE XGetDevices(t)
    BY <1>1, <1>2, <1>3 DEF XGetDevices, TypeOK
  <1>4. CASE XGetDeviceChanges(t)
    <2> DEFINE change == Refreshed(Merged(t))
               again == change \cap Merged(t).current \cap device.previous
    <2>1. device.previous \in SUBSET Ports
      BY DEF TypeOK
    <2>2. again \in SUBSET Ports
      BY <1>2
    <2>3. /\ effective' = Consumed(Merged(t))
          /\ told' = IF change = {} THEN [insertions |-> {}, removals |-> {}]
                     ELSE [insertions |-> (Merged(t).current \ device.previous) \cup again,
                           removals |-> (device.previous \ Merged(t).current) \cup again]
          /\ device' = [current |-> Merged(t).current, change |-> {},
                        previous |-> IF change = {} THEN device.previous ELSE Merged(t).current]
          /\ known' = Merged(t).gen
      BY <1>4, Zenon DEF XGetDeviceChanges
    <2> HIDE DEF change, again
    <2> QED
      BY <1>1, <1>2, <2>1, <2>2, <2>3
  <1> QED
    BY <1>3, <1>4

LEMMA PollStep ==
    ASSUME TypeOK, NEW t \in Guests, handle[t].port \in Ports, Poll(t)
    PROVE  LET found == Found({handle[t].port})
           IN  /\ host' \in Tracker
               /\ handle' \in [Guests -> HandleType]
               /\ probeDue' \subseteq Ports
               /\ \/ host' = Observe(host, found, {}) /\ handle' = MarkEmpty(found)
                  \/ UNCHANGED <<host, handle>>
  <1> DEFINE found == Found({handle[t].port})
  <1>1. found \in SUBSET Ports
    BY FoundType
  <1>2. /\ Observe(host, found, {}) \in Tracker
        /\ MarkEmpty(found) \in [Guests -> HandleType]
    BY <1>1, HostSees, MarkEmptyType
  <1>3. /\ \/ /\ host' = Observe(host, found, {})
              /\ handle' = MarkEmpty(found)
              /\ probeDue' = probeDue \ {handle[t].port}
           \/ UNCHANGED <<host, handle, probeDue>>
    BY Zenon DEF Poll
  <1>4. host \in Tracker /\ handle \in [Guests -> HandleType] /\ probeDue \subseteq Ports
    BY DEF TypeOK
  <1> HIDE DEF found
  <1> QED
    BY <1>2, <1>3, <1>4 DEF found

(* The steps, a query by what it asks. *)
LEMMA Steps ==
    ASSUME [Next]_vars, \A t \in Guests : Opened(t)
    PROVE  \/ \E p \in Ports : Plug(p) \/ Pull(p)
           \/ SecondPasses \/ NotifyDeviceChange \/ StartLegacy
           \/ \E t \in Guests, op \in {"devices", "changes", "open", "check"},
                 p \in Ports \cup {NoPort} :
                 /\ QueryHost(t, op, p)
                 /\ op = "check" => p \in Ports /\ p = handle[t].port
           \/ \E t \in Guests : XGetDevices(t) \/ XGetDeviceChanges(t)
           \/ \E t \in Guests : XInputOpen(t)
           \/ \E t \in Guests : Accept(t) \/ Reject(t)
           \/ \E t \in Guests : Poll(t)
           \/ UNCHANGED vars
  <1>1. ASSUME NEW t \in Guests, Query(t)
        PROVE  \E op \in {"devices", "changes", "open", "check"}, p \in Ports \cup {NoPort} :
                  /\ QueryHost(t, op, p)
                  /\ op = "check" => p \in Ports /\ p = handle[t].port
    <2>1. handle[t] # NoHandle => handle[t].port \in Ports
      BY DEF Opened
    <2> QED
      BY <1>1, <2>1, Zenon DEF Query
  <1> QED
    BY <1>1, Zenon DEF Next, Answer

LEMMA TypeInductive ==
    ASSUME TypeOK, \A t \in Guests : Opened(t), [Next]_vars
    PROVE  TypeOK'
  <1> USE DEF guest, counters
  <1>1. ASSUME NEW p \in Ports, Plug(p) PROVE TypeOK'
    BY <1>1 DEF TypeOK, Plug
  <1>2. ASSUME NEW p \in Ports, Pull(p) PROVE TypeOK'
    <2>1. Disturb({p})
      BY <1>2 DEF Pull
    <2>2. handle' \in [Guests -> HandleType] /\ call' \in [Guests -> CallType]
      BY <2>1, DisturbAt DEF Disturb
    <2> QED
      BY <1>2, <2>2 DEF TypeOK, Pull
  <1>3. CASE SecondPasses
    BY <1>3 DEF TypeOK, SecondPasses
  <1>4. CASE NotifyDeviceChange
    <2>1. Found(Ports) \in SUBSET Ports
      BY FoundType
    <2>2. host' \in Tracker /\ handle' \in [Guests -> HandleType]
      BY <1>4, <2>1, HostSees, MarkEmptyType DEF NotifyDeviceChange
    <2> QED
      BY <1>4, <2>2 DEF TypeOK, NotifyDeviceChange
  <1>5. CASE StartLegacy
    <2>1. handle' \in [Guests -> HandleType] /\ call' \in [Guests -> CallType]
      BY <1>5, LegacyStep DEF StartLegacy
    <2>2. /\ fallback' \in BOOLEAN /\ window' = "idle" /\ restarts' = restarts + 1
          /\ UNCHANGED <<plugged, probeDue, host, effective, device, told, known, plugs>>
      BY <1>5, Zenon DEF StartLegacy
    <2> QED
      BY <2>1, <2>2 DEF TypeOK
  <1>6. ASSUME NEW t \in Guests, NEW op \in {"devices", "changes", "open", "check"},
               NEW p \in Ports \cup {NoPort}, QueryHost(t, op, p)
        PROVE  TypeOK'
    <2>1. /\ host' \in Tracker /\ handle' \in [Guests -> HandleType]
          /\ call' \in [Guests -> CallType]
      BY <1>6, QueryStep
    <2>2. probeDue' \subseteq Ports
      BY <1>6 DEF TypeOK, QueryHost
    <2> QED
      BY <1>6, <2>1, <2>2 DEF TypeOK, QueryHost
  <1>7. ASSUME NEW t \in Guests, XGetDevices(t) \/ XGetDeviceChanges(t) PROVE TypeOK'
    <2>1. call' \in [Guests -> CallType]
      BY <1>7, EndedCall DEF XGetDevices, XGetDeviceChanges, EndCall
    <2>2. known' \in [Ports -> Nat]
      BY <1>7, DevicesStep DEF Tracker
    <2> QED
      BY <1>7, <2>1, <2>2, DevicesStep DEF TypeOK, XGetDevices, XGetDeviceChanges
  <1>8. ASSUME NEW t \in Guests, XInputOpen(t) PROVE TypeOK'
    <2>1. call' \in [Guests -> CallType]
      BY <1>8, EndedCall DEF XInputOpen, EndCall
    <2>2. effective' \in Tracker
      BY <1>8, AnswersMerge, MergeStep
    <2> QED
      BY <1>8, <2>1, <2>2, OpenStep DEF TypeOK, XInputOpen
  <1>9. ASSUME NEW t \in Guests, Accept(t) \/ Reject(t) PROVE TypeOK'
    <2>1. call' \in [Guests -> CallType]
      BY <1>9, EndedCall DEF Accept, Reject, EndCall
    <2>2. effective' \in Tracker
      BY <1>9, AnswersMerge, MergeStep
    <2> QED
      BY <1>9, <2>1, <2>2 DEF TypeOK, Accept, Reject
  <1>10. ASSUME NEW t \in Guests, Poll(t) PROVE TypeOK'
    <2>1. call' \in [Guests -> CallType]
      BY <1>10, EndedCall DEF Poll, EndCall
    <2>2. handle[t].port \in Ports
      BY <1>10 DEF Poll, Opened
    <2> QED
      BY <1>10, <2>1, <2>2, PollStep DEF TypeOK, Poll
  <1>11. CASE UNCHANGED vars
    BY <1>11 DEF TypeOK, vars
  <1> QED
    BY <1>1, <1>2, <1>3, <1>4, <1>5, <1>6, <1>7, <1>8, <1>9, <1>10, <1>11, Steps

-----------------------------------------------------------------------------
(* The effective tracker *)

(* A step leaves the effective tracker alone, or merges a call. *)
LEMMA EffectiveSteps ==
    ASSUME [Next]_vars
    PROVE  \/ UNCHANGED <<effective, known, device>>
           \/ \E t \in Guests : /\ effective' \in {Merged(t), Consumed(Merged(t))}
                                /\ \/ UNCHANGED <<known, device>> /\ effective' = Merged(t)
                                   \/ XGetDevices(t) \/ XGetDeviceChanges(t)
  BY Zenon DEF Next, Query, Answer, Plug, Pull, SecondPasses, NotifyDeviceChange, StartLegacy,
     QueryHost, XGetDevices, XGetDeviceChanges, XInputOpen, Accept, Reject, Poll, vars, guest

LEMMA GenerationsGrow ==
    ASSUME TypeOK, [Next]_vars, NEW p \in Ports
    PROVE  effective'.gen[p] >= effective.gen[p]
  <1>1. effective.gen[p] \in Nat
    BY DEF TypeOK, Tracker
  <1>2. CASE UNCHANGED effective
    BY <1>1, <1>2
  <1>3. ASSUME NEW t \in Guests, effective' \in {Merged(t), Consumed(Merged(t))}
        PROVE  effective'.gen[p] >= effective.gen[p]
    BY <1>1, <1>3, MergeStep
  <1> QED
    BY <1>2, <1>3, EffectiveSteps

LEMMA LatchedInductive ==
    ASSUME TypeOK, Latched, [Next]_vars
    PROVE  Latched'
  <1>1. CASE UNCHANGED <<effective, known, device>>
    BY <1>1 DEF Latched
  <1>2. ASSUME NEW t \in Guests, effective' = Merged(t), UNCHANGED <<known, device>>
        PROVE  Latched'
    <2>1. ASSUME NEW p \in Ports, effective'.gen[p] # known[p] PROVE p \in effective'.changed
      BY <1>2, <2>1, MergedFields DEF Latched
    <2> QED
      BY <1>2, <2>1 DEF Latched
  <1>3. ASSUME NEW t \in Guests, XGetDevices(t) \/ XGetDeviceChanges(t) PROVE Latched'
    <2>1. known' = effective'.gen
      BY <1>3, DevicesStep
    <2>2. device'.current = device'.previous
      <3>1. CASE XGetDevices(t)
        BY <3>1 DEF XGetDevices
      <3>2. CASE XGetDeviceChanges(t)
        <4> DEFINE change == Refreshed(Merged(t))
        <4>1. device' = [current |-> Merged(t).current, change |-> {},
                         previous |-> IF change = {} THEN device.previous
                                                     ELSE Merged(t).current]
          BY <3>2, Zenon DEF XGetDeviceChanges
        <4>2. change = {} => device.current = Merged(t).current
          <5>1. /\ device.current \in SUBSET Ports
                /\ Merged(t).current \in SUBSET Ports
            BY MergedFields DEF TypeOK, Tracker
          <5> QED
            BY <5>1 DEF Refreshed
        <4> HIDE DEF change
        <4> QED
          BY <4>1, <4>2 DEF Latched
      <3> QED
        BY <1>3, <3>1, <3>2
    <2> QED
      BY <2>1, <2>2 DEF Latched
  <1> QED
    BY <1>1, <1>2, <1>3, EffectiveSteps

(* What XGetDeviceChanges tells the guest is the effective state, and it is all
   that changed since the guest last knew. *)
LEMMA TellsAll ==
    ASSUME TypeOK, Latched, NEW t \in Guests, XGetDeviceChanges(t)
    PROVE  /\ device'.previous = effective'.current
           /\ \A p \in device.previous \cap effective'.current :
                 effective'.gen[p] # known[p] => p \in told'.insertions \cap told'.removals
  <1> DEFINE change == Refreshed(Merged(t))
             again == change \cap Merged(t).current \cap device.previous
  <1>1. /\ effective' = Consumed(Merged(t))
        /\ told' = IF change = {} THEN [insertions |-> {}, removals |-> {}]
                   ELSE [insertions |-> (Merged(t).current \ device.previous) \cup again,
                         removals |-> (device.previous \ Merged(t).current) \cup again]
        /\ device' = [current |-> Merged(t).current, change |-> {},
                      previous |-> IF change = {} THEN device.previous ELSE Merged(t).current]
    BY Zenon DEF XGetDeviceChanges
  <1>2. effective'.current = Merged(t).current /\ effective'.gen = Merged(t).gen
    BY <1>1, MergedFields DEF Consumed, Tracker
  <1>3. device.previous \in SUBSET Ports /\ device.current = device.previous
    BY DEF TypeOK, Latched
  <1>4. Merged(t).current \in SUBSET Ports
    BY MergedFields DEF Tracker
  <1>5. change = {} => device.previous = Merged(t).current
    BY <1>3, <1>4 DEF Refreshed
  <1>6. ASSUME NEW p \in device.previous \cap Merged(t).current, Merged(t).gen[p] # known[p]
        PROVE  p \in again
    <2>1. p \in Merged(t).changed
      BY <1>3, <1>6, MergedFields DEF Latched
    <2> QED
      BY <1>6, <2>1 DEF Refreshed
  <1> HIDE DEF change
  <1>7. device'.previous = effective'.current
    BY <1>1, <1>2, <1>5
  <1>8. ASSUME NEW p \in device.previous \cap effective'.current, effective'.gen[p] # known[p]
        PROVE  p \in told'.insertions \cap told'.removals
    <2>1. p \in again /\ change # {}
      BY <1>2, <1>6, <1>8
    <2> QED
      BY <1>1, <2>1
  <1> QED
    BY <1>7, <1>8

(* A port that is stood in for does not move. *)
LEMMA StandInStays ==
    ASSUME TypeOK, [Next]_vars, NEW p \in Ports, StandsIn(p), p \in effective.current
    PROVE  effective'.gen[p] = effective.gen[p]
  <1>1. CASE UNCHANGED effective
    BY <1>1
  <1>2. ASSUME NEW t \in Guests, effective' \in {Merged(t), Consumed(Merged(t))}
        PROVE  effective'.gen[p] = effective.gen[p]
    <2>1. p \in StandIn
      BY DEF StandIn
    <2>2. p \notin MovedBy(t)
      BY <2>1 DEF MovedBy, Visible
    <2> QED
      BY <1>2, <2>2, MergeStep
  <1> QED
    BY <1>1, <1>2, EffectiveSteps

-----------------------------------------------------------------------------
(* Handles *)

LEMMA OpenedInductive ==
    ASSUME TypeOK, \A t \in Guests : Opened(t), [Next]_vars, NEW t \in Guests
    PROVE  Opened(t)'
  <1>1. Opened(t) /\ \A p \in Ports : effective'.gen[p] >= effective.gen[p]
    BY GenerationsGrow
  <1>2. /\ handle[t] \in HandleType
        /\ \A p \in Ports : effective.gen[p] \in Nat /\ effective'.gen[p] \in Nat
    <2>1. TypeOK'
      BY TypeInductive
    <2> QED
      BY <2>1 DEF TypeOK, Tracker
  <1>3. handle[t].gen \in Nat
    BY <1>2 DEF HandleType
  <1>4. ASSUME \/ handle'[t] = handle[t]
               \/ /\ handle'[t].port = handle[t].port /\ handle'[t].gen = handle[t].gen
                  /\ handle[t].port \notin Ports => handle'[t] = NoHandle,
               \/ call'[t].op = call[t].op /\ call'[t].port = call[t].port
               \/ call'[t].op = "none"
               \/ call'[t].op = "poll" /\ call[t].op = "check"
               \/ call'[t].op \in {"devices", "changes", "open"}
               \/ /\ call'[t].op = "check" /\ call'[t].port = handle[t].port
                  /\ handle[t].port \in Ports
        PROVE  Opened(t)'
    BY <1>1, <1>2, <1>3, <1>4, SMT DEF Opened
  <1>5. ASSUME NEW found
        PROVE  LET h == MarkEmpty(found)[t]
               IN  /\ h.port = handle[t].port /\ h.gen = handle[t].gen
                   /\ handle[t].port \notin Ports => h = NoHandle
    <2>1. MarkEmpty(found)[t].port = handle[t].port /\ MarkEmpty(found)[t].gen = handle[t].gen
      BY MarkEmptyAt
    <2>2. ASSUME handle[t].port \notin Ports PROVE MarkEmpty(found)[t] = NoHandle
      <3>1. handle[t] = NoHandle
        BY <1>1, <2>2 DEF Opened
      <3>2. MarkEmpty(found)[t] \in HandleType
            /\ ~MarkEmpty(found)[t].disturbed /\ ~MarkEmpty(found)[t].empty
        BY <2>2, <3>1, NoneTypes, MarkEmptyAt DEF NoHandle
      <3> QED
        BY <2>1, <3>1, <3>2, NoneTypes, NoRecord
    <2> QED
      BY <2>1, <2>2
  <1>6. ASSUME UNCHANGED <<handle, call>> PROVE Opened(t)'
    BY <1>4, <1>6
  <1>7. ASSUME \/ \E p \in Ports : Plug(p)
               \/ SecondPasses
        PROVE  Opened(t)'
    BY <1>6, <1>7 DEF Plug, SecondPasses
  <1>8. ASSUME NEW p \in Ports, Pull(p) PROVE Opened(t)'
    <2>1. Disturb({p})
      BY <1>8 DEF Pull
    <2>2. ASSUME handle[t].port \notin Ports PROVE handle'[t] = NoHandle
      <3>1. handle[t] = NoHandle
        BY <1>1, <2>2 DEF Opened
      <3>2. /\ handle'[t] \in HandleType /\ ~handle'[t].disturbed /\ ~handle'[t].empty
            /\ handle'[t].port = NoHandle.port /\ handle'[t].gen = NoHandle.gen
        BY <2>1, <2>2, <3>1, NoneTypes, DisturbAt DEF NoHandle
      <3> QED
        BY <3>2, NoneTypes, NoRecord
    <2> QED
      BY <1>4, <2>1, <2>2, DisturbAt
  <1>9. CASE NotifyDeviceChange
    <2>1. handle'[t] = MarkEmpty(Found(Ports))[t] /\ call'[t] = call[t]
      BY <1>9 DEF NotifyDeviceChange
    <2> QED
      BY <1>4, <1>5, <2>1
  <1>10. CASE StartLegacy
    <2>1. handle[t].port \notin Ports => handle[t] = NoHandle
      BY <1>1 DEF Opened
    <2>2. handle[t].port \notin Ports => handle'[t] = NoHandle
      BY <1>10, <2>1, LegacyStep, InputAssumption DEF NoHandle
    <2> QED
      BY <1>4, <1>10, <2>2, LegacyStep
  <1>11. ASSUME NEW u \in Guests, NEW op \in {"devices", "changes", "open", "check"},
                NEW p \in Ports \cup {NoPort}, QueryHost(u, op, p),
                op = "check" => p \in Ports /\ p = handle[u].port
         PROVE  Opened(t)'
    <2>1. handle'[t] = MarkEmpty(Found(Scanned))[t]
      BY <1>11, QueryStep
    <2>2. CASE u = t
      <3>1. call'[t].op = op /\ call'[t].port = p
        BY <1>11, <2>2, QueryStep
      <3> QED
        BY <1>4, <1>5, <1>11, <2>1, <2>2, <3>1
    <2>3. CASE u # t
      <3>1. call'[t] = call[t]
        BY <1>11, <2>3, QueryStep
      <3> QED
        BY <1>4, <1>5, <2>1, <3>1
    <2> QED
      BY <2>2, <2>3
  <1>12. ASSUME NEW u \in Guests,
                \/ XGetDevices(u) \/ XGetDeviceChanges(u) \/ Accept(u) \/ Reject(u)
         PROVE  Opened(t)'
    <2>1. handle' = handle
      BY <1>12 DEF XGetDevices, XGetDeviceChanges, Accept, Reject
    <2>2. \/ call'[t] = call[t] \/ call'[t].op = "none"
          \/ call'[t].op = "poll" /\ call[t].op = "check"
      <3>1. call \in [Guests -> CallType]
        BY DEF TypeOK
      <3>2. CASE Accept(u)
        <4>1. call' = [call EXCEPT ![u] = [NoCall EXCEPT !.op = "poll"]] /\ call[u].op = "check"
          BY <3>2 DEF Accept
        <4> QED
          BY <3>1, <4>1, NoneTypes
      <3>3. CASE XGetDevices(u) \/ XGetDeviceChanges(u) \/ Reject(u)
        <4>1. call' = [call EXCEPT ![u] = NoCall]
          BY <3>3 DEF XGetDevices, XGetDeviceChanges, Reject, EndCall
        <4> QED
          BY <3>1, <4>1, NoneTypes
      <3> QED
        BY <1>12, <3>2, <3>3
    <2> QED
      BY <1>4, <2>1, <2>2
  <1>13. ASSUME NEW u \in Guests, XInputOpen(u) PROVE Opened(t)'
    <2>1. call'[t] = call[t] \/ call'[t].op = "none"
      <3>1. call' = [call EXCEPT ![u] = NoCall]
        BY <1>13 DEF XInputOpen, EndCall
      <3> QED
        BY <3>1, NoneTypes DEF TypeOK
    <2>2. CASE u # t
      <3>1. handle'[t] = handle[t]
        BY <1>13, <2>2, OpenStep
      <3> QED
        BY <1>4, <2>1, <3>1
    <2>3. CASE u = t
      <3>1. call'[t].op = "none"
        BY <1>13, <2>3, NoneTypes DEF XInputOpen, EndCall, TypeOK
      <3>2. /\ handle'[t] # NoHandle => handle'[t].port \in Ports
            /\ handle'[t].port \in Ports => handle'[t].gen <= effective'.gen[handle'[t].port]
        BY <1>2, <1>13, <2>3, OpenStep, NoneTypes
      <3> QED
        BY <3>1, <3>2 DEF Opened
    <2> QED
      BY <2>2, <2>3
  <1>14. ASSUME NEW u \in Guests, Poll(u) PROVE Opened(t)'
    <2>1. call'[t] = call[t] \/ call'[t].op = "none"
      BY <1>14, NoneTypes DEF Poll, EndCall, TypeOK
    <2>2. handle[u].port \in Ports
      BY <1>14 DEF Poll, Opened
    <2>3. handle'[t] = handle[t] \/ handle'[t] = MarkEmpty(Found({handle[u].port}))[t]
      BY <1>14, <2>2, PollStep
    <2> QED
      BY <1>4, <1>5, <2>1, <2>3
  <1>15. CASE UNCHANGED vars
    BY <1>6, <1>15 DEF vars
  <1> QED
    BY <1>7, <1>8, <1>9, <1>10, <1>11, <1>12, <1>13, <1>14, <1>15, Steps

(* From here on one guest thread uses XInput: with a second one, a query of the
   other's may consume a transition and merge it late. *)
OneGuest == \A t, u \in Guests : t = u

(* A scan between the queries of guest t. *)
LEMMA ScanStep ==
    ASSUME TypeOK, NEW t \in Guests, LosesEmpty(t), KeepsSteady(t),
           NEW scanned \in SUBSET Ports,
           host' = Observe(host, Found(scanned), {}),
           handle' = MarkEmpty(Found(scanned)),
           call'[t] = call[t] \/ (call[t].op = "poll" /\ call'[t].op = "none"),
           UNCHANGED <<plugged, fallback, effective>>
    PROVE  LosesEmpty(t)' /\ KeepsSteady(t)'
  <1>0. PICK p : p = handle[t].port
    OBVIOUS
  <1> DEFINE found == Found(scanned)
  <1>1. /\ found \in SUBSET Ports /\ host'.current = found
        /\ host'.changed = host.changed \cup (host.current \ found) \cup (found \ host.current)
    BY FoundType, HostSees
  <1>2. /\ handle'[t].port = p /\ handle'[t].gen = handle[t].gen
        /\ handle'[t].disturbed = handle[t].disturbed
        /\ handle'[t].empty <=> \/ handle[t].empty
                                \/ p \in Ports \ found /\ ~StandsIn(p)
    BY <1>0, MarkEmptyAt
  <1>3. \A q \in Ports : q \in plugged /\ q \in host.current => q \in found
    BY DEF Found
  <1>4. \A q : StandsIn(q)' <=> StandsIn(q)
    BY DEF StandsIn
  <1>5. /\ Lost(t)' <=> Lost(t)
        /\ \A q : MovesAt(t, q)' <=> MovesAt(t, q)
        /\ \A q : StaysAt(t, q)' <=> StaysAt(t, q)
    BY <1>0, <1>2 DEF Lost, MovesAt, StaysAt, Merges
  <1> HIDE DEF found
  <1>6. \A q \in Ports : SteadyAt(q) => SteadyAt(q)'
    BY <1>1, <1>3, <1>4 DEF SteadyAt
  <1>7. LosesEmpty(t)'
    <2>1. ASSUME handle'[t].empty
          PROVE  /\ p \in Ports /\ ~StandsIn(p)
                 /\ Lost(t) \/ MovesAt(t, p) \/ p \in host'.changed \/ p \notin host'.current
      BY <1>0, <1>1, <1>2, <2>1 DEF LosesEmpty
    <2>2. ASSUME call'[t].op = "check" /\ call'[t].empty
          PROVE  ~StandsIn(p) /\ (Lost(t) \/ MovesAt(t, p))
      BY <1>0, <2>2 DEF LosesEmpty
    <2> QED
      BY <1>0, <1>2, <1>4, <1>5, <2>1, <2>2 DEF LosesEmpty
  <1>8. KeepsSteady(t)'
    <2>1. ASSUME p \in Ports, ~handle[t].disturbed
          PROVE  /\ p \in effective'.current /\ handle[t].gen = effective'.gen[p]
                 /\ SteadyAt(p)'
                 /\ StandsIn(p)' \/ StaysAt(t, p)'
      BY <1>0, <1>4, <1>5, <1>6, <2>1 DEF KeepsSteady
    <2>2. PICK c : c = call'[t]
      OBVIOUS
    <2>3. ASSUME c.op = "open", ~c.disturbed, c.port \in c.current
          PROVE  SteadyAt(c.port)'
      <3>1. c = call[t]
        BY <2>2, <2>3
      <3>2. SteadyAt(c.port)
        BY <2>3, <3>1 DEF KeepsSteady
      <3>3. c.port \in Ports
        BY <2>3, <3>1 DEF TypeOK, CallType
      <3> QED
        BY <1>6, <3>2, <3>3
    <2> QED
      BY <1>0, <1>2, <2>1, <2>2, <2>3 DEF KeepsSteady
  <1> QED
    BY <1>7, <1>8

(* A query of guest t carries off what the host had latched. *)
LEMMA QueryKeeps ==
    ASSUME TypeOK, NEW t \in Guests, Opened(t), LosesEmpty(t), KeepsSteady(t),
           NEW op \in {"devices", "changes", "open", "check"}, NEW port \in Ports \cup {NoPort},
           QueryHost(t, op, port)
    PROVE  LosesEmpty(t)' /\ KeepsSteady(t)'
  <1>0. PICK p, c : p = handle[t].port /\ c = call'[t]
    OBVIOUS
  <1> DEFINE found == Found(Scanned)
  <1>1. /\ found \in SUBSET Ports
        /\ host'.current = found /\ host'.changed = {}
        /\ c.op = op /\ c.port = port /\ c.current = found /\ ~c.disturbed
        /\ c.changed = host.changed \cup (host.current \ found) \cup (found \ host.current)
        /\ c.empty = handle'[t].empty
    BY <1>0, FoundType, HostSees, QueryStep
  <1>2. /\ handle'[t].port = p /\ handle'[t].gen = handle[t].gen
        /\ handle'[t].disturbed = handle[t].disturbed
        /\ handle'[t].empty <=> \/ handle[t].empty
                                \/ p \in Ports \ found /\ ~StandsIn(p)
    BY <1>0, QueryStep, MarkEmptyAt
  <1>3. /\ \A q \in Ports : q \in plugged /\ q \in host.current => q \in found
        /\ found \subseteq plugged
    BY DEF Found, Scanned, TypeOK
  <1>4. UNCHANGED <<plugged, fallback, effective>> /\ call[t].op = "none"
    BY NoneTypes DEF QueryHost
  <1>5. \A q : StandsIn(q)' <=> StandsIn(q)
    BY <1>4 DEF StandsIn
  <1>6. /\ Lost(t)' <=> Lost(t)
        /\ \A q : MovesAt(t, q)' <=> q \in c.changed \/ q \notin c.current
        /\ \A q : StaysAt(t, q)' <=> q \in c.current /\ q \notin c.changed
        /\ \A q : ~MovesAt(t, q)
    BY <1>0, <1>1, <1>2, <1>4 DEF Lost, MovesAt, StaysAt, Merges
  <1> HIDE DEF found
  <1>7. \A q \in Ports : SteadyAt(q) => SteadyAt(q)' /\ (StandsIn(q)' \/ StaysAt(t, q)')
    BY <1>1, <1>3, <1>4, <1>5, <1>6 DEF SteadyAt
  <1>8. LosesEmpty(t)'
    <2>1. ASSUME handle'[t].empty
          PROVE  /\ p \in Ports /\ ~StandsIn(p)
                 /\ Lost(t) \/ p \in c.changed \/ p \notin c.current
      BY <1>0, <1>1, <1>2, <1>6, <2>1 DEF LosesEmpty
    <2> QED
      BY <1>0, <1>1, <1>2, <1>5, <1>6, <2>1 DEF LosesEmpty
  <1>9. KeepsSteady(t)'
    <2>1. ASSUME p \in Ports, ~handle[t].disturbed
          PROVE  /\ p \in effective'.current /\ handle[t].gen = effective'.gen[p]
                 /\ SteadyAt(p)'
                 /\ StandsIn(p)' \/ StaysAt(t, p)'
      BY <1>0, <1>4, <1>7, <2>1 DEF KeepsSteady
    <2>2. ASSUME c.port \in c.current PROVE SteadyAt(c.port)'
      BY <1>1, <1>3, <1>4, <2>2 DEF SteadyAt
    <2> QED
      BY <1>0, <1>2, <2>1, <2>2 DEF KeepsSteady
  <1> QED
    BY <1>8, <1>9

(* An answer merges it. *)
LEMMA MergeKeeps ==
    ASSUME TypeOK, NEW t \in Guests, Opened(t), LosesEmpty(t), KeepsSteady(t),
           effective' \in {Merged(t), Consumed(Merged(t))}, Merges(t)
    PROVE  LET p == handle[t].port
               lost == p \notin effective'.current \/ handle[t].gen < effective'.gen[p]
           IN  /\ p \in Ports /\ ~StandsIn(p) /\ (Lost(t) \/ MovesAt(t, p)) => lost
               /\ p \in Ports /\ ~handle[t].disturbed =>
                     p \in effective'.current /\ handle[t].gen = effective'.gen[p]
  <1> DEFINE p == handle[t].port
             lost == p \notin effective'.current \/ handle[t].gen < effective'.gen[p]
             c == call[t]
  <1>1. /\ effective'.current = c.current \cup StandIn
        /\ \A q \in Ports : effective'.gen[q] = IF q \in MovedBy(t) THEN effective.gen[q] + 1
                                                                  ELSE effective.gen[q]
    BY MergeStep
  <1>2. /\ handle[t].gen \in Nat /\ \A q \in Ports : effective.gen[q] \in Nat
        /\ p \in Ports => handle[t].gen <= effective.gen[p]
    BY DEF TypeOK, Tracker, HandleType, Opened
  <1>3. p \in Ports => (StandsIn(p) <=> p \in StandIn)
    BY DEF StandIn
  <1>4. ASSUME p \in Ports, ~StandsIn(p), Lost(t) \/ MovesAt(t, p) PROVE lost
    <2>1. CASE p \in c.changed
      <3>1. p \in MovedBy(t)
        BY <1>3, <1>4, <2>1 DEF MovedBy, Visible
      <3> QED
        BY <1>1, <1>2, <1>4, <3>1
    <2>2. CASE p \notin c.current
      BY <1>1, <1>3, <1>4, <2>2
    <2>3. CASE Lost(t)
      <3>1. CASE p \notin effective.current /\ p \in effective'.current
        <4>1. p \in MovedBy(t)
          BY <1>1, <3>1 DEF MovedBy
        <4> QED
          BY <1>1, <1>2, <1>4, <4>1
      <3>2. CASE handle[t].gen < effective.gen[p]
        BY <1>1, <1>2, <1>4, <3>2
      <3> QED
        BY <2>3, <3>1, <3>2 DEF Lost
    <2> QED
      BY <1>4, <2>1, <2>2, <2>3 DEF MovesAt
  <1>5. ASSUME p \in Ports, ~handle[t].disturbed
        PROVE  p \in effective'.current /\ handle[t].gen = effective'.gen[p]
    <2>1. /\ p \in effective.current /\ handle[t].gen = effective.gen[p]
          /\ p \in StandIn \/ (p \in c.current /\ p \notin c.changed)
      BY <1>3, <1>5 DEF KeepsSteady, StaysAt
    <2>2. p \notin MovedBy(t)
      BY <2>1 DEF MovedBy, Visible
    <2> QED
      BY <1>1, <1>5, <2>1, <2>2
  <1> QED
    BY <1>4, <1>5

(* A cable pulled, and DirectInput started again. *)
LEMMA PullKeeps ==
    ASSUME TypeOK, NEW t \in Guests, LosesEmpty(t), KeepsSteady(t), NEW q \in Ports, Pull(q)
    PROVE  LosesEmpty(t)' /\ KeepsSteady(t)'
  <1>0. PICK p, c, d : p = handle[t].port /\ c = call[t] /\ d = call'[t]
    OBVIOUS
  <1>1. /\ plugged' = plugged \ {q} /\ Disturb({q})
        /\ UNCHANGED <<host, fallback, effective>>
    BY DEF Pull
  <1>2. /\ handle'[t].port = p /\ handle'[t].gen = handle[t].gen
        /\ handle'[t].empty = handle[t].empty
        /\ handle'[t].disturbed <=> handle[t].disturbed \/ p = q
        /\ d.op = c.op /\ d.port = c.port /\ d.current = c.current
        /\ d.changed = c.changed /\ d.empty = c.empty
        /\ d.disturbed <=> c.disturbed \/ c.port = q
    BY <1>0, <1>1, DisturbAt
  <1>3. \A r : StandsIn(r)' <=> StandsIn(r)
    BY <1>1 DEF StandsIn
  <1>4. /\ Lost(t)' <=> Lost(t)
        /\ \A r : MovesAt(t, r)' <=> MovesAt(t, r)
        /\ \A r : StaysAt(t, r)' <=> StaysAt(t, r)
    BY <1>0, <1>1, <1>2 DEF Lost, MovesAt, StaysAt, Merges
  <1>5. \A r : r # q /\ SteadyAt(r) => SteadyAt(r)'
    BY <1>1, <1>3 DEF SteadyAt
  <1>6. LosesEmpty(t)'
    BY <1>0, <1>1, <1>2, <1>3, <1>4 DEF LosesEmpty
  <1>7. KeepsSteady(t)'
    <2>1. ASSUME p \in Ports, ~handle'[t].disturbed
          PROVE  /\ p \in effective'.current /\ handle[t].gen = effective'.gen[p]
                 /\ SteadyAt(p)'
                 /\ StandsIn(p)' \/ StaysAt(t, p)'
      BY <1>0, <1>1, <1>2, <1>3, <1>4, <1>5, <2>1 DEF KeepsSteady
    <2>2. ASSUME d.op = "open", ~d.disturbed, d.port \in d.current
          PROVE  SteadyAt(d.port)'
      BY <1>0, <1>2, <1>5, <2>2 DEF KeepsSteady
    <2> QED
      BY <1>0, <1>2, <2>1, <2>2 DEF KeepsSteady
  <1> QED
    BY <1>6, <1>7

LEMMA LegacyKeeps ==
    ASSUME TypeOK, NEW t \in Guests, LosesEmpty(t), KeepsSteady(t), Opened(t), StartLegacy
    PROVE  LosesEmpty(t)' /\ KeepsSteady(t)'
  <1>0. PICK p, c, d : p = handle[t].port /\ c = call[t] /\ d = call'[t]
    OBVIOUS
  <1>1. UNCHANGED <<plugged, host, effective>> /\ fallback' \in BOOLEAN /\ fallback \in BOOLEAN
    BY Zenon DEF StartLegacy, TypeOK
  <1>2. /\ handle'[t].port = p /\ handle'[t].gen = handle[t].gen
        /\ d.op = c.op /\ d.port = c.port /\ d.current = c.current /\ d.changed = c.changed
        /\ p # FallbackPort \/ fallback' = fallback => handle'[t] = handle[t]
        /\ c.port # FallbackPort \/ fallback' = fallback => d = c
        /\ p = FallbackPort /\ fallback' # fallback =>
              handle'[t].disturbed /\ (handle'[t].empty <=> handle[t].empty /\ ~fallback')
        /\ c.port = FallbackPort /\ fallback' # fallback =>
              d.disturbed /\ (d.empty <=> c.empty /\ ~fallback')
    <2>1. handle[t] \in HandleType /\ c \in CallType
      BY <1>0 DEF TypeOK
    <2>2. handle[t].empty \in BOOLEAN /\ c.empty \in BOOLEAN
      BY <2>1 DEF HandleType, CallType
    <2> QED
      BY <1>0, <2>2, LegacyStep
  <1>3. /\ \A r : r # FallbackPort \/ fallback' = fallback => (StandsIn(r)' <=> StandsIn(r))
        /\ \A r : StandsIn(r)' => r = FallbackPort /\ fallback'
    BY <1>1 DEF StandsIn
  <1>4. /\ Lost(t)' <=> Lost(t)
        /\ \A r : MovesAt(t, r)' <=> MovesAt(t, r)
        /\ \A r : StaysAt(t, r)' <=> StaysAt(t, r)
    BY <1>0, <1>1, <1>2 DEF Lost, MovesAt, StaysAt, Merges
  <1>5. \A r : (r # FallbackPort \/ fallback' = fallback) /\ SteadyAt(r) => SteadyAt(r)'
    BY <1>1, <1>3 DEF SteadyAt
  <1>6. LosesEmpty(t)'
    <2>1. ASSUME handle'[t].empty
          PROVE  /\ p \in Ports /\ ~StandsIn(p)'
                 /\ Lost(t) \/ MovesAt(t, p) \/ p \in host.changed \/ p \notin host.current
      BY <1>0, <1>2, <1>3, <2>1 DEF LosesEmpty
    <2>2. ASSUME d.op = "check", d.empty
          PROVE  ~StandsIn(p)' /\ (Lost(t) \/ MovesAt(t, p))
      <3>1. c.port = p
        BY <1>0, <1>2, <2>2 DEF Opened
      <3> QED
        BY <1>0, <1>2, <1>3, <2>2, <3>1 DEF LosesEmpty
    <2> QED
      BY <1>0, <1>1, <1>2, <1>4, <2>1, <2>2 DEF LosesEmpty
  <1>7. KeepsSteady(t)'
    <2>1. ASSUME p \in Ports, ~handle'[t].disturbed
          PROVE  /\ p \in effective'.current /\ handle[t].gen = effective'.gen[p]
                 /\ SteadyAt(p)'
                 /\ StandsIn(p)' \/ StaysAt(t, p)'
      BY <1>0, <1>1, <1>2, <1>3, <1>4, <1>5, <2>1 DEF KeepsSteady
    <2>2. ASSUME d.op = "open", ~d.disturbed, d.port \in d.current
          PROVE  SteadyAt(d.port)'
      BY <1>0, <1>2, <1>5, <2>2 DEF KeepsSteady
    <2> QED
      BY <1>0, <1>2, <2>1, <2>2 DEF KeepsSteady
  <1> QED
    BY <1>6, <1>7

(* The end of a call that only merged. *)
LEMMA AnswerKeeps ==
    ASSUME TypeOK, NEW t \in Guests, Opened(t), LosesEmpty(t), KeepsSteady(t),
           XGetDevices(t) \/ XGetDeviceChanges(t) \/ Accept(t) \/ Reject(t)
    PROVE  LosesEmpty(t)' /\ KeepsSteady(t)'
  <1>0. PICK p : p = handle[t].port
    OBVIOUS
  <1>1. UNCHANGED <<plugged, host, fallback, handle>>
    BY DEF XGetDevices, XGetDeviceChanges, Accept, Reject
  <1>2. call'[t].op \in {"none", "poll"}
    BY EndedCall DEF XGetDevices, XGetDeviceChanges, Accept, Reject, EndCall
  <1>3. \A q : (StandsIn(q)' <=> StandsIn(q)) /\ (SteadyAt(q)' <=> SteadyAt(q))
    BY <1>1 DEF StandsIn, SteadyAt
  <1>4. \A q : ~MovesAt(t, q)' /\ StaysAt(t, q)'
    BY <1>2 DEF MovesAt, StaysAt, Merges
  <1>5. /\ p \in Ports /\ ~StandsIn(p) /\ (Lost(t) \/ MovesAt(t, p)) => Lost(t)'
        /\ p \in Ports /\ ~handle[t].disturbed =>
              p \in effective'.current /\ handle[t].gen = effective'.gen[p]
    BY <1>0, <1>1, AnswersMerge, MergeKeeps DEF Lost
  <1>6. LosesEmpty(t)'
    BY <1>0, <1>1, <1>2, <1>3, <1>4, <1>5 DEF LosesEmpty
  <1>7. KeepsSteady(t)'
    BY <1>0, <1>1, <1>2, <1>3, <1>4, <1>5 DEF KeepsSteady
  <1> QED
    BY <1>6, <1>7

LEMMA OpenKeeps ==
    ASSUME TypeOK, NEW t \in Guests, KeepsSteady(t), XInputOpen(t)
    PROVE  LosesEmpty(t)' /\ KeepsSteady(t)'
  <1>0. PICK p, c : p = c.port /\ c = call[t]
    OBVIOUS
  <1>1. UNCHANGED <<plugged, host, fallback>> /\ c.op = "open"
    BY <1>0 DEF XInputOpen
  <1>2. call'[t].op \in {"none", "poll"}
    BY EndedCall DEF XInputOpen, EndCall
  <1>3. \A q : (StandsIn(q)' <=> StandsIn(q)) /\ (SteadyAt(q)' <=> SteadyAt(q))
    BY <1>1 DEF StandsIn, SteadyAt
  <1>4. \A q : StaysAt(t, q)'
    BY <1>2 DEF StaysAt, Merges
  <1>5. /\ effective'.current = c.current \cup StandIn
        /\ p \notin effective'.current => handle'[t] = NoHandle
        /\ p \in effective'.current =>
              /\ handle'[t].port = p /\ handle'[t].gen = effective'.gen[p]
              /\ ~handle'[t].empty /\ handle'[t].disturbed = c.disturbed
    BY <1>0, AnswersMerge, MergeStep, OpenStep
  <1>6. p \in effective'.current /\ ~c.disturbed => SteadyAt(p)
    <2>1. p \in StandIn => SteadyAt(p)
      BY DEF StandIn, SteadyAt
    <2>2. p \in c.current /\ ~c.disturbed => SteadyAt(p)
      BY <1>0, <1>1 DEF KeepsSteady
    <2> QED
      BY <1>5, <2>1, <2>2
  <1>7. LosesEmpty(t)'
    BY <1>2, <1>5, NoneTypes DEF LosesEmpty
  <1>8. KeepsSteady(t)'
    BY <1>2, <1>3, <1>4, <1>5, <1>6, NoneTypes DEF KeepsSteady
  <1> QED
    BY <1>7, <1>8

LEMMA HandleInductive ==
    ASSUME OneGuest, TypeOK, HandleInv, [Next]_vars
    PROVE  HandleInv'
  <1> SUFFICES ASSUME NEW t \in Guests PROVE LosesEmpty(t)' /\ KeepsSteady(t)'
    BY OpenedInductive DEF HandleInv
  <1>1. Opened(t) /\ LosesEmpty(t) /\ KeepsSteady(t) /\ \A u \in Guests : u = t
    BY DEF HandleInv, OneGuest
  <1>2. ASSUME UNCHANGED <<host, fallback, effective, handle, call>>, plugged \subseteq plugged'
        PROVE  LosesEmpty(t)' /\ KeepsSteady(t)'
    BY <1>1, <1>2 DEF LosesEmpty, KeepsSteady, SteadyAt, StandsIn, Lost, MovesAt, StaysAt, Merges
  <1>3. ASSUME NEW p \in Ports, Plug(p) PROVE LosesEmpty(t)' /\ KeepsSteady(t)'
    BY <1>2, <1>3 DEF Plug
  <1>4. ASSUME NEW p \in Ports, Pull(p) PROVE LosesEmpty(t)' /\ KeepsSteady(t)'
    BY <1>1, <1>4, PullKeeps
  <1>5. CASE SecondPasses
    BY <1>2, <1>5 DEF SecondPasses
  <1>6. CASE NotifyDeviceChange
    <2>1. /\ host' = Observe(host, Found(Ports), {}) /\ handle' = MarkEmpty(Found(Ports))
          /\ UNCHANGED <<call, plugged, fallback, effective>>
      BY <1>6 DEF NotifyDeviceChange
    <2> QED
      BY <1>1, <2>1, ScanStep
  <1>7. CASE StartLegacy
    BY <1>1, <1>7, LegacyKeeps
  <1>8. ASSUME NEW op \in {"devices", "changes", "open", "check"},
               NEW p \in Ports \cup {NoPort}, QueryHost(t, op, p)
        PROVE  LosesEmpty(t)' /\ KeepsSteady(t)'
    BY <1>1, <1>8, QueryKeeps
  <1>9. CASE XGetDevices(t) \/ XGetDeviceChanges(t) \/ Accept(t) \/ Reject(t)
    BY <1>1, <1>9, AnswerKeeps
  <1>10. CASE XInputOpen(t)
    BY <1>1, <1>10, OpenKeeps
  <1>11. CASE Poll(t)
    <2>1. /\ call[t].op = "poll" /\ call'[t].op = "none"
          /\ UNCHANGED <<plugged, fallback, effective>>
      BY <1>11, NoneTypes DEF Poll, EndCall, TypeOK
    <2>2. handle[t].port \in Ports
      BY <1>1, <2>1 DEF Opened
    <2>3. CASE /\ host' = Observe(host, Found({handle[t].port}), {})
               /\ handle' = MarkEmpty(Found({handle[t].port}))
      <3>1. {handle[t].port} \in SUBSET Ports
        BY <2>2
      <3> QED
        BY <1>1, <2>1, <2>3, <3>1, ScanStep
    <2>4. CASE UNCHANGED <<host, handle>>
      BY <1>1, <2>1, <2>4
      DEF LosesEmpty, KeepsSteady, SteadyAt, StandsIn, Lost, MovesAt, StaysAt, Merges
    <2> QED
      BY <1>11, <2>2, <2>3, <2>4, PollStep
  <1>12. CASE UNCHANGED vars
    BY <1>2, <1>12 DEF vars
  <1> QED
    BY <1>1, <1>3, <1>4, <1>5, <1>6, <1>7, <1>8, <1>9, <1>10, <1>11, <1>12, Steps DEF HandleInv

(* The answers to a poll, by what befell the handle. *)
LEMMA AnswersRight ==
    ASSUME TypeOK, NEW t \in Guests, Opened(t), LosesEmpty(t), KeepsSteady(t)
    PROVE  /\ Accept(t) => ~call[t].empty
           /\ Reject(t) => handle[t].disturbed
  <1>0. PICK p : p = handle[t].port
    OBVIOUS
  <1>1. ASSUME Accept(t), call[t].empty PROVE FALSE
    <2>1. p \in Ports /\ ~StandsIn(p) /\ (Lost(t) \/ MovesAt(t, p))
      BY <1>0, <1>1 DEF Accept, Opened, LosesEmpty
    <2>2. p \notin effective'.current \/ handle[t].gen < effective'.gen[p]
      BY <1>0, <1>1, <2>1, AnswersMerge, MergeKeeps
    <2>3. p \in effective'.current /\ handle[t].gen = effective'.gen[p]
      BY <1>0, <1>1 DEF Accept, Valid
    <2>4. handle[t].gen \in Nat
      BY DEF TypeOK, HandleType
    <2> QED
      BY <2>2, <2>3, <2>4
  <1>2. ASSUME Reject(t), ~handle[t].disturbed PROVE FALSE
    <2>1. p \in Ports
      BY <1>0, <1>2 DEF Reject, Opened
    <2>2. p \in effective'.current /\ handle[t].gen = effective'.gen[p]
      BY <1>0, <1>2, <2>1, AnswersMerge, MergeKeeps
    <2> QED
      BY <1>0, <1>2, <2>2 DEF Reject, Valid
  <1> QED
    BY <1>1, <1>2

-----------------------------------------------------------------------------
LEMMA OpenedInitially == Init => HandleInv /\ Latched
  BY NoneTypes, InputAssumption
  DEF Init, HandleInv, Latched, Opened, LosesEmpty, KeepsSteady, NoController

LEMMA Invariance == Spec => [](TypeOK /\ Latched /\ \A t \in Guests : Opened(t))
  <1> DEFINE Inv == TypeOK /\ Latched /\ \A t \in Guests : Opened(t)
  <1>1. Init => Inv
    BY TypeInitially, OpenedInitially DEF HandleInv
  <1>2. Inv /\ [Next]_vars => Inv'
    <2> SUFFICES ASSUME Inv, [Next]_vars PROVE Inv'
      OBVIOUS
    <2>1. TypeOK' /\ Latched'
      BY TypeInductive, LatchedInductive
    <2>2. \A t \in Guests : Opened(t)'
      BY OpenedInductive
    <2> QED
      BY <2>1, <2>2
  <1> HIDE DEF Inv
  <1>3. Spec => []Inv
    BY <1>1, <1>2, PTL DEF Spec
  <1> QED
    BY <1>3 DEF Inv

(* The trackers, the handles and the calls keep their types, for any ports and
   any guest threads. *)
THEOREM TypeCorrect == Spec => []TypeOK
  BY Invariance, PTL

(* XGetDeviceChanges leaves the guest with the effective picture and tells of
   every controller replaced since it last asked, whatever scans, polls and
   other threads came between (xapi_emulation.cpp, host_input.cpp's latch). *)
THEOREM ReportsAll == Spec => ReportsComplete
  <1>1. TypeOK /\ Latched /\ [Next]_vars =>
           (XGetDeviceChanges(Main) =>
             /\ device'.previous = effective'.current
             /\ \A p \in device.previous \cap effective'.current :
                   effective'.gen[p] # known[p] => p \in told'.insertions \cap told'.removals)
    BY TellsAll, InputAssumption
  <1> QED
    BY <1>1, Invariance, PTL DEF ReportsComplete, Spec

(* While the DirectInput pad stands in for its port no transition of XInput's
   shows there (dinput_emulation.cpp's merge). *)
THEOREM StandInHides == Spec => FallbackHides
  <1>1. TypeOK /\ [Next]_vars =>
           \A p \in Ports :
              StandsIn(p) /\ p \in effective.current => effective'.gen[p] = effective.gen[p]
    BY StandInStays
  <1> QED
    BY <1>1, Invariance, PTL DEF FallbackHides, Spec

(* One guest thread's handle is refused exactly when its controller went away:
   after a scan that found the port empty always, and never for a port to which
   nothing happened since it was opened (input.md 37-40,
   xapi_emulation.cpp 392-410). *)
THEOREM HandlesFollow ==
    ASSUME Guests = {Main}
    PROVE  Spec => HandleFollowsController
  <1> DEFINE Inv == TypeOK /\ HandleInv
  <1>1. OneGuest
    BY DEF OneGuest
  <1>2. Init => Inv
    BY TypeInitially, OpenedInitially
  <1>3. Inv /\ [Next]_vars => Inv'
    <2> SUFFICES ASSUME Inv, [Next]_vars PROVE Inv'
      OBVIOUS
    <2>1. TypeOK'
      BY TypeInductive DEF HandleInv
    <2> QED
      BY <1>1, <2>1, HandleInductive
  <1>4. Inv => \A t \in Guests : /\ Accept(t) => ~call[t].empty
                                 /\ Reject(t) => handle[t].disturbed
    BY AnswersRight DEF HandleInv
  <1> HIDE DEF Inv
  <1> QED
    BY <1>2, <1>3, <1>4, PTL DEF HandleFollowsController, Spec
=============================================================================
