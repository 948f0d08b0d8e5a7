-------------------------- MODULE InputConnections --------------------------
(***************************************************************************)
(* Hot plug of game controllers: HostInput in                              *)
(* src/src/cxbx/src/win32/host_input.cpp scans the XInput ports under one  *)
(* mutex, hle/input/dinput_emulation.cpp merges that with the legacy       *)
(* DirectInput pad under another, and hle/xapi/xapi_emulation.cpp answers  *)
(* the guest's XGetDevices, XGetDeviceChanges, XInputOpen and polls.       *)
(* A step is what happens under one of the two mutexes.                    *)
(***************************************************************************)
EXTENDS Naturals, FiniteSets

CONSTANTS
    Ports,          \* XInput user indexes
    FallbackPort,   \* port 0, which the DirectInput pad may stand in for
    Guests,         \* guest threads that use XInput
    Main,           \* the one of them that asks for device changes
    NoPort,         \* no handle
    MaxPlugs,       \* bound: times a cable is plugged or pulled
    MaxRestarts     \* bound: device notifications that restart DirectInput

ASSUME InputAssumption ==
    /\ Main \in Guests
    /\ NoPort \notin Ports \cup {FallbackPort}
    /\ MaxPlugs \in Nat /\ MaxRestarts \in Nat

VARIABLES
    plugged,      \* the ports with a controller, as XInputGetState would say
    probeDue,     \* disconnected ports last probed a second ago or more
    host,         \* g_connections
    fallback,     \* g_DirectInputConnected
    effective,    \* g_EffectiveConnections
    device,       \* the guest's XPP_DEVICE_TYPE: current, change, previous
    told,         \* insertions and removals of the last XGetDeviceChanges
    known,        \* generation of each port when the guest last asked
    handle,       \* the handle of each guest thread, and what befell its port since
    call,         \* the query each guest thread is in, with the host's snapshot
    window,       \* the window thread: idle, or about to restart DirectInput
    plugs, restarts

vars == <<plugged, probeDue, host, fallback, effective, device, told, known,
          handle, call, window, plugs, restarts>>
guest == <<device, told, known>>
counters == <<plugs, restarts>>

NoHandle == [port |-> NoPort, gen |-> 0, empty |-> FALSE, disturbed |-> FALSE]
NoCall == [op |-> "none", port |-> NoPort, current |-> {}, changed |-> {},
           empty |-> FALSE, disturbed |-> FALSE]
NoController == [current |-> {}, changed |-> {}, gen |-> [p \in Ports |-> 0]]

Init ==
    /\ plugged = {}
    /\ probeDue = {}
    /\ host = NoController
    /\ fallback = FALSE
    /\ effective = NoController
    /\ device = [current |-> {}, change |-> {}, previous |-> {}]
    /\ told = [insertions |-> {}, removals |-> {}]
    /\ known = [p \in Ports |-> 0]
    /\ handle = [t \in Guests |-> NoHandle]
    /\ call = [t \in Guests |-> NoCall]
    /\ window = "idle"
    /\ plugs = 0 /\ restarts = 0

-----------------------------------------------------------------------------
(* ConnectionTracker *)

ObserveLatched(tracker, current, additional) ==
    LET moved == (tracker.current \ current) \cup (current \ tracker.current)
                    \cup additional \cup tracker.changed
    IN  [current |-> current,
         changed |-> moved,
         gen |-> [p \in Ports |-> IF p \in moved THEN tracker.gen[p] + 1 ELSE tracker.gen[p]]]

Observe(tracker, current, additional) ==
    LET moved == (tracker.current \ current) \cup (current \ tracker.current) \cup additional
    IN  [current |-> current,
         changed |-> tracker.changed \cup moved,
         gen |-> [p \in Ports |-> IF p \in moved THEN tracker.gen[p] + 1 ELSE tracker.gen[p]]]

Consumed(tracker) == [tracker EXCEPT !.changed = {}]

-----------------------------------------------------------------------------
(* The outside world. *)

StandsIn(p) == fallback /\ p = FallbackPort

(* What a pulled cable or a restarted DirectInput does to port p, for the
   handles and the opens in progress of that port. *)
Disturb(S) ==
    /\ handle' = [t \in Guests |-> [handle[t] EXCEPT !.disturbed = @ \/ handle[t].port \in S]]
    /\ call' = [t \in Guests |-> [call[t] EXCEPT !.disturbed = @ \/ call[t].port \in S]]

Plug(p) ==
    /\ plugs < MaxPlugs
    /\ plugs' = plugs + 1
    /\ p \notin plugged
    /\ plugged' = plugged \cup {p}
    /\ UNCHANGED <<probeDue, host, fallback, effective, guest, handle, call, window, restarts>>

Pull(p) ==
    /\ plugs < MaxPlugs
    /\ plugs' = plugs + 1
    /\ p \in plugged
    /\ plugged' = plugged \ {p}
    /\ Disturb({p})
    /\ UNCHANGED <<probeDue, host, fallback, effective, guest, window, restarts>>

SecondPasses ==
    /\ probeDue # Ports
    /\ probeDue' = Ports
    /\ UNCHANGED <<plugged, host, fallback, effective, guest, handle, call, window, counters>>

-----------------------------------------------------------------------------
(* HostInput, under g_mutex *)

(* RefreshConnectionsUnlocked finds the ports in scanned as they are. *)
Found(scanned) == (host.current \ scanned) \cup (plugged \cap scanned)

(* Handles of ports just found empty, which nothing stands in for. *)
MarkEmpty(found) ==
    [t \in Guests |->
        [handle[t] EXCEPT !.empty = @ \/ /\ handle[t].port \in Ports \ found
                                         /\ ~StandsIn(handle[t].port)]]

(* WM_INPUT_DEVICE_CHANGE: NotifyDeviceChange scans every port, *)
NotifyDeviceChange ==
    /\ window = "idle"
    /\ restarts < MaxRestarts
    /\ host' = Observe(host, Found(Ports), {})
    /\ handle' = MarkEmpty(Found(Ports))
    /\ probeDue' = {}
    /\ window' = "restart"
    /\ UNCHANGED <<plugged, fallback, effective, guest, call, counters>>

(* then EmuDInputStartLegacyUnlocked looks for the DirectInput pad again. *)
StartLegacy ==
    /\ window = "restart"
    /\ window' = "idle"
    /\ restarts' = restarts + 1
    /\ fallback' \in BOOLEAN
    /\ handle' = [t \in Guests |->
                    IF handle[t].port = FallbackPort /\ fallback' # fallback
                    THEN [handle[t] EXCEPT !.disturbed = TRUE, !.empty = @ /\ ~fallback']
                    ELSE handle[t]]
    /\ call' = [t \in Guests |->
                    IF call[t].port = FallbackPort /\ fallback' # fallback
                    THEN [call[t] EXCEPT !.disturbed = TRUE, !.empty = @ /\ ~fallback']
                    ELSE call[t]]
    /\ UNCHANGED <<plugged, probeDue, host, effective, guest, plugs>>

ScanConnectedOnly == host.current

(* Connected ports are probed at every query, the others once a second. *)
Scanned == host.current \cup probeDue

(* GetConnectionSnapshot(TRUE, true), the first half of every guest query. *)
QueryHost(t, op, p) ==
    /\ call[t] = NoCall
    /\ LET scanned == Scanned
           seen == Observe(host, Found(scanned), {})
       IN /\ host' = Consumed(seen)
          /\ probeDue' = probeDue \ scanned
          /\ handle' = MarkEmpty(seen.current)
          /\ call' = [call EXCEPT ![t] =
                        [op |-> op, port |-> p, current |-> seen.current,
                         changed |-> seen.changed, empty |-> handle'[t].empty,
                         disturbed |-> FALSE]]
    /\ UNCHANGED <<plugged, fallback, effective, guest, window, counters>>

-----------------------------------------------------------------------------
(* EmuDInputGetConnectionSnapshot, its second half, under g_DirectInputMutex *)

StandIn == {p \in Ports : StandsIn(p)}

VisibleAll(changed) == changed

(* XInput transitions of a port the DirectInput pad stands in for are hidden. *)
Visible(changed) == changed \ StandIn

Merged(t) == Observe(effective, call[t].current \cup StandIn, Visible(call[t].changed))

EndCall(t) == call' = [call EXCEPT ![t] = NoCall]

(* EmuXInputRefreshDeviceType *)
Refreshed(seen) ==
    device.change \cup seen.changed
        \cup (device.current \ seen.current) \cup (seen.current \ device.current)

XGetDevicesUnlatched(t) ==
    /\ call[t].op = "devices"
    /\ effective' = Consumed(Merged(t))
    /\ device' = [current |-> effective'.current, change |-> Refreshed(Merged(t)),
                  previous |-> effective'.current]
    /\ known' = effective'.gen
    /\ EndCall(t)
    /\ UNCHANGED <<plugged, probeDue, host, fallback, told, handle, window, counters>>

XGetDevices(t) ==
    /\ call[t].op = "devices"
    /\ effective' = Consumed(Merged(t))
    /\ device' = [current |-> effective'.current, change |-> {}, previous |-> effective'.current]
    /\ known' = effective'.gen
    /\ EndCall(t)
    /\ UNCHANGED <<plugged, probeDue, host, fallback, told, handle, window, counters>>

XGetDeviceChangesNetOnly(t) ==
    /\ call[t].op = "changes"
    /\ effective' = Consumed(Merged(t))
    /\ told' = [insertions |-> effective'.current \ device.previous,
                removals |-> device.previous \ effective'.current]
    /\ device' = [current |-> effective'.current, change |-> {}, previous |-> effective'.current]
    /\ known' = effective'.gen
    /\ EndCall(t)
    /\ UNCHANGED <<plugged, probeDue, host, fallback, handle, window, counters>>

(* A port connected before and now, and changed in between, is reported as
   removed and inserted. *)
XGetDeviceChanges(t) ==
    /\ call[t].op = "changes"
    /\ LET seen == Merged(t)
           change == Refreshed(seen)
           again == change \cap seen.current \cap device.previous
       IN /\ effective' = Consumed(seen)
          /\ told' = IF change = {} THEN [insertions |-> {}, removals |-> {}]
                     ELSE [insertions |-> (seen.current \ device.previous) \cup again,
                           removals |-> (device.previous \ seen.current) \cup again]
          /\ device' = [current |-> seen.current, change |-> {},
                        previous |-> IF change = {} THEN device.previous ELSE seen.current]
          /\ known' = seen.gen
    /\ EndCall(t)
    /\ UNCHANGED <<plugged, probeDue, host, fallback, handle, window, counters>>

(* The handle carries the port and its generation. *)
XInputOpen(t) ==
    /\ call[t].op = "open"
    /\ effective' = Merged(t)
    /\ handle' = [handle EXCEPT ![t] =
                    IF call[t].port \notin effective'.current THEN NoHandle
                    ELSE [port |-> call[t].port, gen |-> effective'.gen[call[t].port],
                          empty |-> FALSE, disturbed |-> call[t].disturbed]]
    /\ EndCall(t)
    /\ UNCHANGED <<plugged, probeDue, host, fallback, guest, window, counters>>

(* EmuXInputValidateHandle answers Connected or Disconnected. *)
Valid(t) ==
    LET p == handle[t].port
    IN  p \in effective'.current /\ handle[t].gen = effective'.gen[p]

Accept(t) ==
    /\ call[t].op = "check"
    /\ effective' = Merged(t)
    /\ Valid(t)
    /\ call' = [call EXCEPT ![t] = [NoCall EXCEPT !.op = "poll"]]
    /\ UNCHANGED <<plugged, probeDue, host, fallback, guest, handle, window, counters>>

Reject(t) ==
    /\ call[t].op = "check"
    /\ effective' = Merged(t)
    /\ ~Valid(t)
    /\ EndCall(t)
    /\ UNCHANGED <<plugged, probeDue, host, fallback, guest, handle, window, counters>>

(* HostInput::Poll or SetRumble: XInput's answer is an observation of the port;
   XInputGetCapabilities ends without it. *)
Poll(t) ==
    /\ call[t].op = "poll"
    /\ LET p == handle[t].port
           found == Found({p})
       IN \/ /\ host' = Observe(host, found, {})
             /\ handle' = MarkEmpty(found)
             /\ probeDue' = probeDue \ {p}
          \/ UNCHANGED <<host, handle, probeDue>>
    /\ EndCall(t)
    /\ UNCHANGED <<plugged, fallback, effective, guest, window, counters>>

-----------------------------------------------------------------------------
Query(t) ==
    \/ t = Main /\ \E op \in {"devices", "changes"} : QueryHost(t, op, NoPort)
    \/ \E p \in Ports : QueryHost(t, "open", p)
    \/ handle[t] # NoHandle /\ QueryHost(t, "check", handle[t].port)

Answer(t) ==
    XGetDevices(t) \/ XGetDeviceChanges(t) \/ XInputOpen(t) \/ Accept(t) \/ Reject(t) \/ Poll(t)

Next ==
    \/ \E p \in Ports : Plug(p) \/ Pull(p)
    \/ SecondPasses \/ NotifyDeviceChange \/ StartLegacy
    \/ \E t \in Guests : Query(t) \/ Answer(t)

Spec == Init /\ [][Next]_vars

(* Time passes and threads inside a call leave it. *)
FairSpec ==
    /\ Spec
    /\ WF_vars(SecondPasses) /\ WF_vars(StartLegacy)
    /\ \A t \in Guests : WF_vars(Answer(t))

-----------------------------------------------------------------------------
Tracker == [current : SUBSET Ports, changed : SUBSET Ports, gen : [Ports -> Nat]]
HandleType == [port : Ports \cup {NoPort}, gen : Nat, empty : BOOLEAN, disturbed : BOOLEAN]
CallType == [op : {"none", "devices", "changes", "open", "check", "poll"},
             port : Ports \cup {NoPort}, current : SUBSET Ports, changed : SUBSET Ports,
             empty : BOOLEAN, disturbed : BOOLEAN]

TypeOK ==
    /\ plugged \subseteq Ports /\ probeDue \subseteq Ports
    /\ host \in Tracker /\ effective \in Tracker
    /\ fallback \in BOOLEAN
    /\ device \in [current : SUBSET Ports, change : {{}}, previous : SUBSET Ports]
    /\ told \in [insertions : SUBSET Ports, removals : SUBSET Ports]
    /\ known \in [Ports -> Nat]
    /\ handle \in [Guests -> HandleType] /\ call \in [Guests -> CallType]
    /\ window \in {"idle", "restart"}
    /\ plugs \in Nat /\ restarts \in Nat

(* A handle is refused once a scan has found its port empty, though the
   controller is back: "unplugging and reconnecting a controller invalidates
   handles opened for the previous connection even when both events occur
   between guest queries" (docs/explanation/input.md:37-40).  And it is refused
   only when its controller was pulled, or the DirectInput pad of its port came
   or went, since it was opened: bookkeeping alone never takes a working
   controller away (xapi_emulation.cpp:392-410). *)
HandleFollowsController ==
    [][\A t \in Guests : /\ Accept(t) => ~call[t].empty
                         /\ Reject(t) => handle[t].disturbed]_vars

(* When XGetDeviceChanges has answered, the guest's picture is the effective
   one, and a controller that was replaced since it last asked was reported as
   removed and inserted, however many scans and polls came between: changes
   are latched until consumed, and none is left pending (TypeOK). *)
ReportsComplete ==
    /\ []TypeOK
    /\ [][XGetDeviceChanges(Main) =>
             /\ device'.previous = effective'.current
             /\ \A p \in device.previous \cap effective'.current :
                   effective'.gen[p] # known[p] => p \in told'.insertions \cap told'.removals]_vars

(* While the DirectInput pad stands in for its port, the guest sees no
   transition there, whatever XInput reports for it. *)
FallbackHides ==
    [][\A p \in Ports :
          StandsIn(p) /\ p \in effective.current => effective'.gen[p] = effective.gen[p]]_vars

(* A controller that stays plugged in is seen, without any notification, by a
   guest that goes on asking: the once-a-second probe of empty ports suffices. *)
PluggedIsSeen ==
    \A p \in Ports :
        <>[](p \in plugged) /\ []<><<\E t \in Guests : Query(t)>>_vars
            => <>[](p \in effective.current)
=============================================================================
