---------------------------- MODULE RefreshCycle ----------------------------
(***************************************************************************)
(* The coordinator's refreshes: the hierarchy, a socket for each location, *)
(* the REST hydration of the devices that need one, the clean-up of Home   *)
(* Assistant's registries, what is published, and the two ends of its      *)
(* life, __init__.py's set-up and async_shutdown.  The refresh of the      *)
(* set-up is a process, and the refreshes that an interval or a            *)
(* RefreshEvent starts, of which Home Assistant runs one at a time, are    *)
(* another; the two may overlap.  An action is what one of them runs       *)
(* between two awaits.  The sockets are seen through SocketView.           *)
(***************************************************************************)
EXTENDS Naturals, FiniteSets

CONSTANTS
    Location, Device,
    Home,        \* the location of a device
    Known,       \* the devices of a family some profile recognises
    Leftover,    \* registered before this run of Home Assistant
    MaxCached    \* UNKNOWN_DEVICE_MESSAGE_MAX_PER_DEVICE

ASSUME HomeAssumption == Home \in [Device -> Location]
ASSUME KnownAssumption == Known \subseteq Device
ASSUME CachedAssumption == MaxCached \in Nat \ {0}
ASSUME NamesAssumption == Location \cap Device = {}
ASSUME LeftoverAssumption == Leftover \subseteq Location \cup Device

VARIABLES
    entry,       \* the config entry
    cycle,       \* the refreshes
    locations,   \* _locations
    devices,     \* _devices: which there are ...
    facts,       \* ... and what is known of each
    sockets,     \* _websockets, and sockets the coordinator no longer holds
    view,        \* _socket_states
    cached,      \* _unknown_device_messages: how many for each device
    data,        \* the snapshot that entities see
    registry,    \* the devices and locations in Home Assistant's registries
    issue,       \* the repair issue
    event,       \* _refresh_event_task is not done
    applied,     \* history: the devices of the hierarchy applied last
    past         \* history: refreshes that failed, were cancelled or were overtaken

vars == <<entry, cycle, locations, devices, facts, sockets, view, cached, data,
          registry, issue, event, applied, past>>

Process == {"setup", "update"}
Item == Device \cup Location
NoTasks == [d \in Device |-> "none"]
Rest == [pc |-> "idle", first |-> FALSE, byEvent |-> FALSE, removed |-> {}, left |-> {},
         stopping |-> {}, victim |-> {}, starting |-> {}, task |-> NoTasks,
         refreshed |-> {}, failed |-> {}]
Cycle == [pc : {"idle", "hierarchy", "stop", "start", "hydrate", "ended"},
          first : BOOLEAN,                     \* in _async_setup
          byEvent : BOOLEAN,                   \* runs in _refresh_event_task
          removed : SUBSET Device,             \* removed_ids
          left : SUBSET Location,              \* removed_location_ids
          stopping : SUBSET Location, victim : SUBSET Location,
          starting : SUBSET Location,
          task : [Device -> {"none", "critical", "optional", "done"}],
          refreshed : SUBSET Device,           \* refreshed_ids
          failed : SUBSET Device]              \* with critical errors, nothing got

\* What is known of a device: a settings document, which tells the family, and
\* the status payloads its profile requires.
Facts == [settings : BOOLEAN, status : BOOLEAN]
NoFacts == [settings |-> FALSE, status |-> FALSE]

\* The sockets of _websockets, those replaced there or whose stop was cancelled,
\* those asked to stop together, and those whose stop raised: the history of them,
\* and the ones whose runner, told to stop but not cancelled, has not ended yet.
Sockets == [held : SUBSET Location, loose : SUBSET Location, closing : SUBSET Location,
            raised : SUBSET Location, ending : SUBSET Location]
NoSockets == [held |-> {}, loose |-> {}, closing |-> {}, raised |-> {}, ending |-> {}]

\* The reports of a socket, and the order they come in.
Socket == INSTANCE SocketView WITH closed <- sockets

Snapshot(devs, known, locs) ==
    [devices |-> devs, locations |-> locs,
     supported |-> {d \in devs : d \in Known /\ known[d].settings}]

Init ==
    /\ entry = "setup"
    /\ cycle = [p \in Process |-> Rest]
    /\ locations = {} /\ devices = {}
    /\ facts = [d \in Device |-> NoFacts]
    /\ sockets = NoSockets
    /\ view = <<>>
    /\ cached = [d \in Device |-> 0]
    /\ data = Snapshot({}, facts, {})
    /\ registry = Leftover
    /\ issue = "none"
    /\ event = FALSE
    /\ applied = {}
    /\ past = [lapsed |-> FALSE, missed |-> registry]

----------------------------------------------------------------------------
(* What the coordinator works out                                          *)

Supported(d, known) == d \in Known /\ known[d].settings

\* _update_support_issue.
Issue(devs, known) ==
    LET supported == {d \in devs : Supported(d, known)} IN
    IF devs = supported THEN "none" ELSE IF supported = {} THEN "all" ELSE "some"

Healthy(l) == l \in DOMAIN view /\ view[l].connected /\ view[l].synced

\* _device_ids_requiring_rest_refresh and record_requires_rest_refresh.
RequiresRest(d) ==
    \/ ~facts[d].settings
    \/ d \in Known /\ (~Healthy(Home[d]) \/ ~facts[d].status)

\* _errors_without_healthy_push.
Blocking(errors) == {d \in errors : d \notin devices \/ ~Healthy(Home[d])}

\* _build_snapshot; the entities of the platforms, and of the locations, enter
\* the registries when first added.
Registered == IF entry' = "loaded" THEN data'.supported \cup data'.locations ELSE {}
Publish(kept) == /\ data' = Snapshot(devices', facts', locations')
                 /\ registry' = kept \cup Registered

----------------------------------------------------------------------------
(* A refresh                                                               *)

\* The parts of the state that no refresh touches before it publishes.
Unpublished == UNCHANGED <<data, registry, issue, applied>>

InProgress(p) == cycle[p].pc \notin {"idle", "ended"}
TasksLeft(p) == \E d \in Device : cycle[p].task[d] \in {"critical", "optional"}

\* The request for the hierarchy is sent.
Asking(q) == [q EXCEPT !.pc = "hierarchy", !.left = locations]

\* Home Assistant refreshes at the interval while entities listen.
Due(byEvent) == IF byEvent THEN event ELSE entry = "loaded"

Begin(p, byEvent) ==
    /\ cycle[p].pc = "idle" /\ ~TasksLeft(p)
    /\ IF p = "setup" THEN entry = "setup" /\ ~byEvent ELSE Due(byEvent)
    /\ cycle' = [cycle EXCEPT ![p] =
                   Asking([Rest EXCEPT !.first = (p = "setup"), !.byEvent = byEvent])]
    /\ event' = (event /\ ~byEvent)
    /\ UNCHANGED <<entry, locations, devices, facts, sockets, view, cached, past>>
    /\ Unpublished

\* An exception leaves the refresh.  The set-up fails with it; requests of other
\* devices that were gathered with the one that raised go on.
Fail(p, q) ==
    /\ cycle' = [cycle EXCEPT ![p] =
                   [Rest EXCEPT !.pc = IF p = "setup" THEN "ended" ELSE "idle",
                                !.task = q.task]]
    /\ entry' = IF p = "setup" THEN "failed" ELSE entry
    /\ past' = [past EXCEPT !.lapsed = TRUE, !.missed = @ \cup q.removed \cup q.left]

HierarchyFails(p) ==
    /\ cycle[p].pc = "hierarchy"
    /\ Fail(p, [cycle[p] EXCEPT !.left = {}])
    /\ UNCHANGED <<locations, devices, facts, sockets, view, cached, event>>
    /\ Unpublished

\* The loop that stops the sockets of removed locations takes the next one out of
\* _websockets, or, past the last, the sockets of new locations are started.
\* The locations in lost are gone, and not in q.left.
StopOrStart(p, q, held, lost) ==
    IF q.stopping = {}
    THEN /\ cycle' = [cycle EXCEPT ![p] = [q EXCEPT !.pc = "start", !.victim = {},
                                                         !.starting = {}]]
         /\ sockets' = [sockets EXCEPT !.held = held \cup q.starting,
                                       !.loose = @ \cup (held \cap q.starting)]
         /\ past' = [past EXCEPT !.missed = @ \cup lost]
         /\ UNCHANGED entry
    ELSE \E l \in q.stopping :
         IF l \in held
         THEN /\ cycle' = [cycle EXCEPT ![p] =
                    [q EXCEPT !.pc = "stop", !.victim = {l}, !.stopping = @ \ {l}]]
              /\ sockets' = [sockets EXCEPT !.held = held \ {l}]
              /\ past' = [past EXCEPT !.missed = @ \cup lost]
              /\ UNCHANGED entry
         ELSE Fail(p, q) /\ sockets' = [sockets EXCEPT !.held = held]

\* Mutant: only what was cached for removed devices is dropped.
CachedForRemoved(devs) == [d \in Device |-> IF d \in devices \ devs THEN 0 ELSE cached[d]]

\* What is still cached when the devices of the hierarchy are devs.
CachedFor(devs) == [d \in Device |-> IF d \in devs \cup devices THEN 0 ELSE cached[d]]

\* The locations another refresh brought after this one noted what there was, and
\* which this one drops without knowing that it does.
Overtaken(q, locs) == ((locations \ locs) \ q.left) \cap (registry \cup data.locations)

\* _apply_hierarchy, with the replay of what was cached for devices that are new.
HierarchyAnswered(p) ==
    /\ cycle[p].pc = "hierarchy"
    /\ \E locs \in SUBSET Location : \E devs \in SUBSET {d \in Device : Home[d] \in locs} :
       \E told \in SUBSET {d \in devs : cached[d] > 0} :
        /\ locations' = locs
        /\ devices' = devs /\ applied' = devs
        /\ facts' = [d \in Device |->
                       IF d \notin devs THEN NoFacts
                       ELSE [facts[d] EXCEPT !.settings = @ \/ d \in told]]
        /\ cached' = CachedFor(devs)
        /\ LET q == [cycle[p] EXCEPT !.removed = IF cycle[p].first THEN {}
                                                 ELSE devices \ devs,
                                     !.left = IF cycle[p].first THEN {} ELSE @ \ locs,
                                     !.stopping = sockets.held \ locs,
                                     !.starting = locs \ sockets.held]
           IN StopOrStart(p, q, sockets.held, Overtaken(q, locs))
        /\ IF cycle[p].first THEN Publish(registry) ELSE UNCHANGED <<data, registry>>
    /\ UNCHANGED <<view, issue, event>>

\* Mutant: the state of a removed location is kept.
ForgetNothing(locs) == UNCHANGED view

Forget(locs) == view' = [l \in DOMAIN view \ locs |-> view[l]]

\* async_stop has returned, and the state of the location is forgotten.
SocketStopped(p) ==
    /\ cycle[p].pc = "stop"
    /\ Forget(cycle[p].victim)
    /\ StopOrStart(p, cycle[p], sockets.held, {})
    /\ UNCHANGED <<locations, devices, facts, cached, event>>
    /\ Unpublished

\* async_stop raises what its ping task had failed with, before it cancels the
\* runner: the refresh fails, and the state of the location is not forgotten.
StopRaises(p) ==
    /\ cycle[p].pc = "stop"
    /\ Fail(p, cycle[p])
    /\ sockets' = [sockets EXCEPT !.raised = @ \cup cycle[p].victim,
                                  !.ending = @ \cup cycle[p].victim]
    /\ UNCHANGED <<locations, devices, facts, view, cached, event>>
    /\ Unpublished

\* The new sockets are started and, in the set-up, had their initial sync or its
\* timeout; the devices that need it are hydrated together.
SocketsStarted(p) ==
    /\ cycle[p].pc = "start"
    /\ cycle' = [cycle EXCEPT ![p] =
         [@ EXCEPT !.pc = "hydrate",
                   !.task = [d \in Device |->
                     IF d \in devices /\ RequiresRest(d) THEN "critical" ELSE "none"]]]
    /\ UNCHANGED <<entry, locations, devices, facts, sockets, view, cached, event, past>>
    /\ Unpublished

\* Status and settings have been answered, or failed.  The optional requests of a
\* device depend on its profile, and on which were found not to exist before.
CriticalAnswered(p, d) ==
    /\ cycle[p].task[d] = "critical"
    /\ \E status, settings \in BOOLEAN : \E optional \in {"done"} \cup
                                            (IF d \in Known THEN {"optional"} ELSE {}) :
        LET q == [cycle[p] EXCEPT !.task[d] = optional] IN
        IF d \notin devices
        THEN /\ cycle' = [cycle EXCEPT ![p].task[d] = "done"]
             /\ UNCHANGED facts
        ELSE /\ facts' = [facts EXCEPT ![d].settings = @ \/ settings]
             /\ cycle' = [cycle EXCEPT ![p] =
                  IF status \/ settings THEN [q EXCEPT !.refreshed = @ \cup {d}]
                                        ELSE [q EXCEPT !.failed = @ \cup {d}]]
    /\ UNCHANGED <<entry, locations, devices, sockets, view, cached, event, past>>
    /\ Unpublished

\* Mutant: the record that was read before the requests is written back.
OptionalOnHeldRecord(p, d) ==
    /\ cycle[p].task[d] = "optional"
    /\ cycle' = [cycle EXCEPT ![p].task[d] = "done", ![p].refreshed = @ \cup {d}]
    /\ facts' = [facts EXCEPT ![d] = [settings |-> TRUE, status |-> TRUE]]
    /\ devices' = devices \cup {d}
    /\ UNCHANGED <<entry, past, locations, sockets, view, cached, event>>
    /\ Unpublished

\* _apply_optional_rest_results looks the device up again for each answer.
OptionalAnswered(p, d) ==
    /\ cycle[p].task[d] = "optional"
    /\ LET q == [cycle[p] EXCEPT !.task[d] = "done"] IN
       \/ /\ cycle' = [cycle EXCEPT ![p] = q]          \* all of them failed
          /\ UNCHANGED <<entry, facts, past>>
       \/ /\ d \in devices
          /\ facts' = [facts EXCEPT ![d].status = TRUE]
          /\ cycle' = [cycle EXCEPT ![p] = [q EXCEPT !.refreshed = @ \cup {d},
                                                     !.failed = @ \ {d}]]
          /\ UNCHANGED <<entry, past>>
       \/ /\ d \notin devices                          \* KeyError
          /\ IF InProgress(p) THEN Fail(p, q)
             ELSE cycle' = [cycle EXCEPT ![p] = q] /\ UNCHANGED <<entry, past>>
          /\ UNCHANGED facts
    /\ UNCHANGED <<locations, devices, sockets, view, cached, event>>
    /\ Unpublished

\* Mutant: only devices are cleaned up.
CleanedOfDevices(q) == registry \ q.removed

\* _async_cleanup_removed_devices and _async_cleanup_removed_locations.
Cleaned(q) == registry \ (q.removed \cup q.left)

\* A refresh that ended with an exception has requests that go on.
Straggling(p) == ~InProgress(p) /\ TasksLeft(p)

\* The hydration is over.  It counts as failed when no device got anything and one
\* has no healthy socket to live on; nothing is cleaned up then.  The set-up goes
\* on to its first refresh.
Finish(p) ==
    /\ cycle[p].pc = "hydrate" /\ ~TasksLeft(p)
    /\ UNCHANGED <<locations, devices, facts, sockets, view, cached, applied>>
    /\ LET q == cycle[p] IN
       IF q.refreshed = {} /\ Blocking(q.failed) # {}
       THEN Fail(p, q) /\ UNCHANGED <<event, data, registry, issue>>
       ELSE /\ issue' = Issue(devices, facts)
            /\ entry' = IF p = "setup" /\ ~q.first THEN "refreshed" ELSE entry
            /\ cycle' = [cycle EXCEPT ![p] =
                 IF q.first THEN Asking(Rest)
                 ELSE [Rest EXCEPT !.pc = IF p = "setup" THEN "ended" ELSE "idle"]]
            /\ UNCHANGED event
            /\ Publish(Cleaned(q))
            /\ past' = [lapsed |-> \E o \in Process \ {p} : Straggling(o),
                         missed |-> past.missed \ (q.removed \cup q.left)]

CycleStep(p) ==
    \/ HierarchyFails(p) \/ HierarchyAnswered(p)
    \/ SocketStopped(p) \/ StopRaises(p) \/ SocketsStarted(p)
    \/ \E d \in Device : CriticalAnswered(p, d) \/ OptionalAnswered(p, d)
    \/ Finish(p)

----------------------------------------------------------------------------
(* The sockets' callbacks                                                  *)

\* A socket that nobody has stopped, or whose stop is awaited.
Running(l) == \/ l \in sockets.held \cup sockets.loose \cup sockets.closing
              \/ \E p \in Process : l \in cycle[p].victim

Alive(l) == Running(l) \/ l \in sockets.ending

\* async_socket_state_changed.
StateChanged(l) ==
    /\ Alive(l)
    /\ \E state \in Socket!View :
        /\ \/ l \in DOMAIN view /\ <<view[l], state>> \in Socket!Report
           \/ l \notin DOMAIN view /\ state \in {Socket!Down, Socket!Up}
           \/ /\ l \in sockets.loose \cup sockets.raised
              /\ state \in {Socket!Down, Socket!Up, Socket!Ready}
        /\ view' = [m \in DOMAIN view \cup {l} |-> IF m = l THEN state ELSE view[m]]
    /\ UNCHANGED <<entry, cycle, locations, devices, facts, sockets, cached, issue, event,
                   applied, past>>
    /\ Publish(registry)

\* The runner of a socket whose stop raised comes to its test of the stop event.
\* It has said before that it is not connected, unless another spoke after it.
RunnerEnds(l) ==
    /\ l \in sockets.ending
    /\ l \in DOMAIN view /\ view[l].connected => Running(l)
    /\ sockets' = [sockets EXCEPT !.ending = @ \ {l}]
    /\ UNCHANGED <<entry, cycle, locations, devices, facts, view, cached, event, past>>
    /\ Unpublished

\* _schedule_refresh, unless its task is not done.
Schedule == event' = (event \/ ~(InProgress("update") /\ cycle["update"].byEvent))

Delivers(l) ==
    /\ Alive(l)
    /\ l \in sockets.loose \cup sockets.raised \/ (l \in DOMAIN view /\ view[l].connected)

RefreshEvent(l) ==
    /\ Delivers(l)
    /\ Schedule
    /\ UNCHANGED <<entry, cycle, locations, devices, facts, sockets, view, cached, past>>
    /\ Unpublished

\* Home Assistant takes the request for answered by the refresh under way, or
\* drops it with the timer that a publication cancels.
RequestDropped ==
    /\ event
    /\ event' = FALSE
    /\ UNCHANGED <<entry, cycle, locations, devices, facts, sockets, view, cached, past>>
    /\ Unpublished

\* Mutant: nothing is dropped at the bound.
CappedNever(n) == n

Capped(n) == IF n <= MaxCached THEN n ELSE MaxCached

\* _cache_unknown_device_message: expired messages go, of any device, this one is
\* added, and the oldest beyond the bound go.
UnknownMessage(l, d) ==
    /\ Delivers(l) /\ Home[d] = l /\ d \notin devices
    /\ \E kept \in [Device -> 0..MaxCached] :
        /\ \A e \in Device : kept[e] <= cached[e]
        /\ cached' = [kept EXCEPT ![d] = Capped(@ + 1)]
    /\ Schedule
    /\ UNCHANGED <<entry, cycle, locations, devices, facts, sockets, view, past>>
    /\ Unpublished

\* Mutant: the repair issue is left to the next refresh.
IssueUntouched(d, known) == issue

\* async_process_messages, when support has changed.
IssueAfter(d, known) ==
    IF known.settings # facts[d].settings
    THEN Issue(devices, [facts EXCEPT ![d] = known]) ELSE issue

\* _process_message for a device of the hierarchy, and what follows a change.
DeviceMessage(l, d) ==
    /\ Delivers(l) /\ Home[d] = l /\ d \in devices
    /\ \E known \in {[facts[d] EXCEPT !.settings = TRUE],
                     [facts[d] EXCEPT !.status = @ \/ d \in Known]} :
        /\ known # facts[d]
        /\ facts' = [facts EXCEPT ![d] = known]
        /\ issue' = IssueAfter(d, known)
    /\ UNCHANGED <<entry, cycle, locations, devices, sockets, view, cached, event, applied, past>>
    /\ Publish(registry)

----------------------------------------------------------------------------
(* The config entry                                                        *)

\* async_forward_entry_setups: the platforms add what the snapshot shows.
Load ==
    /\ entry = "refreshed"
    /\ entry' = "loaded"
    /\ registry' = registry \cup data.supported \cup data.locations
    /\ UNCHANGED <<cycle, locations, devices, facts, sockets, view, cached, data, issue,
                   event, applied, past>>

\* async_remove_config_entry_device, when the user deletes a device.
UserDeletes(d) ==
    /\ entry = "loaded" /\ d \in registry \ data.devices
    /\ registry' = registry \ {d}
    /\ UNCHANGED <<entry, cycle, locations, devices, facts, sockets, view, cached, data,
                   issue, event, applied, past>>

\* async_unload_entry, or the wrong account: async_shutdown cancels the refresh its
\* task runs, no other, and with it an async_stop that it awaits; it deletes the
\* issues and asks the sockets it holds to stop.
Unload ==
    /\ entry \in {"refreshed", "loaded"}
    /\ entry' = "unloading"
    /\ LET q == cycle["update"] IN
       IF q.byEvent
       THEN /\ cycle' = [cycle EXCEPT !["update"] = Rest]
            /\ sockets' = [sockets EXCEPT !.closing = sockets.held, !.loose = @ \cup q.victim]
            /\ past' = [past EXCEPT !.missed = @ \cup q.removed \cup q.left]
       ELSE /\ sockets' = [sockets EXCEPT !.closing = sockets.held]
            /\ UNCHANGED <<cycle, past>>
    /\ issue' = "none"
    /\ event' = FALSE
    /\ UNCHANGED <<locations, devices, facts, view, cached, data, registry, applied>>

\* The sockets have stopped, or their stop has raised; _websockets is cleared of
\* them, and of any other.
ShutdownEnds ==
    /\ entry = "unloading"
    /\ entry' = "unloaded"
    /\ \E raised \in SUBSET sockets.closing :
         sockets' = [held |-> {}, closing |-> {},
                     loose |-> sockets.loose \cup (sockets.held \ sockets.closing),
                     raised |-> sockets.raised \cup raised,
                     ending |-> sockets.ending \cup raised]
    /\ UNCHANGED <<cycle, locations, devices, facts, view, cached, event, past>>
    /\ Unpublished

Terminated == entry \in {"failed", "unloaded"} /\ UNCHANGED vars

\* The coordinator of a set-up that failed is not followed further.
Followed ==
    \/ \E p \in Process : (\E byEvent \in BOOLEAN : Begin(p, byEvent)) \/ CycleStep(p)
    \/ \E l \in Location : StateChanged(l) \/ RunnerEnds(l) \/ RefreshEvent(l)
    \/ \E l \in Location, d \in Device : UnknownMessage(l, d) \/ DeviceMessage(l, d)
    \/ \E d \in Device : UserDeletes(d)
    \/ RequestDropped \/ Load \/ Unload \/ ShutdownEnds

Next == (entry # "failed" /\ Followed) \/ Terminated

Spec == Init /\ [][Next]_vars

----------------------------------------------------------------------------
(* Properties                                                              *)

\* Every variable holds what its Python counterpart may hold.
TypeOK ==
    /\ entry \in {"setup", "refreshed", "loaded", "failed", "unloading", "unloaded"}
    /\ cycle \in [Process -> Cycle]
    /\ locations \subseteq Location /\ devices \subseteq Device
    /\ facts \in [Device -> Facts]
    /\ sockets \in Sockets
    /\ DOMAIN view \subseteq Location
    /\ \A l \in DOMAIN view : view[l] \in [connected : BOOLEAN, synced : BOOLEAN]
    /\ cached \in [Device -> 0..MaxCached]
    /\ data \in [devices : SUBSET Device, locations : SUBSET Location,
                 supported : SUBSET Device]
    /\ registry \subseteq Item
    /\ issue \in {"none", "some", "all"}
    /\ event \in BOOLEAN
    /\ applied \subseteq Device
    /\ past \in [lapsed : BOOLEAN, missed : SUBSET Item]

\* Answers that come in after the device they are for was removed, by a refresh
\* that overlaps the one that asked, do not bring the device back.
RemovedStayRemoved ==
    /\ devices = applied
    /\ \A d \in Device \ devices : facts[d] = NoFacts

\* Messages are kept back only for devices that are unknown: when a hierarchy has
\* brought the device, or taken it away, none that was cached for it is left over.
CacheServesUnknown == \A d \in devices : cached[d] = 0

\* A location has a state only while a socket of it is running, or when the stop of
\* one raised, and then it is said to be connected only while that one's runner has
\* still to end: availability does not rest on a socket that is gone.
StatesOfLiveSockets ==
    entry # "unloaded" =>
        \A l \in DOMAIN view :
            \/ Running(l)
            \/ l \in sockets.raised /\ (view[l].connected => l \in sockets.ending)

\* A device or location that is gone stays in the registries only until the refresh
\* that noticed is over, or for good if that failed or was overtaken, or if it was
\* there before the start.
GoneAreCleaned ==
    \A i \in registry \ (devices \cup locations) :
        \/ i \in past.missed
        \/ \E p \in Process : InProgress(p) /\ i \in cycle[p].removed \cup cycle[p].left

\* Between refreshes, if the last one did not fail and none has left requests, the
\* repair issue is that of the devices there are and of what is known of them.
IssueIsCurrent ==
    entry \in {"refreshed", "loaded"} /\ ~past.lapsed
        /\ (\A p \in Process : ~InProgress(p) /\ ~TasksLeft(p))
    => issue = Issue(devices, facts)
=============================================================================
