# A specification of the AprilAire Cloud integration

This directory specifies the runtime core of `custom_components/aprilaire_cloud`,
a Home Assistant integration that mirrors thermostats, humidifiers and
dehumidifiers kept by AprilAire's cloud. The code is one asyncio process. Its
difficulties are those of a cache over an unreliable source: two feeds (REST and a
WebSocket) that answer late, twice, out of order and in part, and an optimistic
overlay that promises the user a value before the source has confirmed it.

Source references are to files of `custom_components/aprilaire_cloud/` unless they
say otherwise. `PROJECT.json` maps every definition that models code to its lines.

## 1. The system and its parts

| Part | State it keeps | Operations | Talks to |
|---|---|---|---|
| Settings reducer (`state.py`, `models.py`) | none; it rewrites immutable `DeviceRecord`s | merge, remove matching, accept a version, apply pending/confirmed/full, clear | called by the coordinator on every message and write |
| Coordinator: writes (`coordinator.py:426-714`, `1169-1191`) | `_write_states` (lock, in-flight slot, counter), the overlay in `_devices`, reconciliation tasks | service call, confirmation, bounded checks, deferred reconciliation, cancellation | REST client; fed by pushes and refreshes |
| Coordinator: refresh (`coordinator.py:180-353`, `716-1092`, `1193-1313`) | devices, locations, socket states, refresh mode, unknown-device cache, registries | setup, refresh cycle, hydration, clean-up, availability, shutdown | REST client, WebSocket managers, Home Assistant |
| Location WebSocket (`vendor/websocket.py:155-391`) | runner and ping tasks, connected/acknowledged/initial-sync flags, back-off | connect, subscribe, ping, handle a frame, stop | authentication provider; calls the coordinator back |
| Initial collector (`vendor/websocket.py:38-152`) | deadlines, collected messages | one bounded collection | configuration flow |
| REST client (`vendor/client.py`) | rate-limit deadline | request, 401 renewal, 429 pause, short write retry | authentication provider |
| Authentication (`vendor/auth.py`) | tokens, expiry, last login, lock | single-flight renewal: refresh, full login, proactive login | Cognito, in an executor |
| Profiles (`profiles/`) | none | recognise, normalise, encode and confirm commands | reducer, coordinator |
| Entity synchronisation (`entity.py`) | active entities of a platform | add, remove | snapshot listener |
| Platforms, set-up, configuration flow, diagnostics | forms and views | reading the snapshot, calling a command | coordinator |

Interaction: entities call `async_execute_command`; the coordinator encodes the
command with the device's profile, shows it in the overlay, sends a PATCH and waits.
The WebSocket's callback and every REST answer go through the reducer, which may
decide the in-flight write. A refresh replaces the set of devices and may drop a
device, with its write state, at any await of a write.

What makes each part correct:

- *Reducer*: a section never goes back in version, and no reading in it goes back; an
  outage counts until a later event ends it, in whatever order events come; an accepted
  document takes exactly the overlay leaves it repeats.
- *Writes*: one write at a time per device; a write is decided only by newer evidence;
  an optimistic value always has somebody to resolve it, and does not last; the lock,
  slot, counter and registry entry agree on every exit path.
- *Refresh*: registries agree with the last hierarchy; availability is never claimed from
  a dead socket; an optional endpoint is skipped only
  under the facts it was missing under; nothing runs after shutdown.
- *WebSocket*: healthy means subscribed; a silent connection is replaced; stop leaves
  no task; the delay returns to its minimum after a good connection.
- *REST client*: no request during a pause, no loop of renewals.
- *Authentication*: renewals do not overlap; the user is asked for credentials only
  when a full login failed.
- *Setpoints*: a pair keeps ranges and deadband as the thermostat reads it, an accepted
  pair is not taken for a rejection, and a call for one side leaves the other alone.

`PROJECT.json` lists each hazard at its line with the properties that would catch it.

## 2. Modules

    SettingsState            the pure reducer: operators only
      SettingsStateProofs    what they return; acceptance and the order of versions
      DeviceSections         every section of one device's record, from both feeds
        DeviceSectionsProofs its properties, for any number of hydrations
        MCDeviceSections
      DeviceWrites           the write machinery of one device, and the cloud
        DeviceWritesProofs   types, lock, version and counter, for every instance
        DeviceWritesOverlayProofs  the overlay, its owners, and that WritePromise is kept
        MCDeviceWrites       the values TLC runs with
    WritePromise             what a settings write promises whoever sees the device
    SocketFrames             what a text frame means
      LocationSocket         runner, ping task and stop of one location's socket
        LocationSocketProofs its invariants, and that it implements SocketView
        MCLocationSocket
    SocketView               what a socket's reports promise the coordinator
      RefreshCycle           set-up, refreshes, hierarchy, registries and shutdown
        RefreshCycleProofs   its safety properties, for every instance
        MCRefreshCycle
    CloudSession             REST client and authentication provider, composed
      CloudSessionProofs
      MCCloudSession
    ThermostatCommands       what a climate command says, and how its echo is judged
      ThermostatCommandsProofs
      MCThermostatCommands

The modules meet where the code's components do. `SocketView` stands between the
WebSocket and the coordinator: `LocationSocket` is shown to implement it, and
`RefreshCycle` takes the reports of its sockets from it. `WritePromise` is the writes as
an entity sees them, and `DeviceWrites` is shown to implement it. `SettingsState` is the
reducer's rule of acceptance and merging, which `DeviceWrites` applies to the settings
under an overlay and `DeviceSections` to every section without one. `DeviceWrites`
leaves the rest to the others: what a request may end in (`CloudSession`), what a
command holds (`ThermostatCommands`), why a device is removed or refreshed
(`RefreshCycle`), and what the values a device reports are worth (`DeviceSections`).

**SettingsState.** A settings document is a function from leaf paths to values, with
`Absent` for a leaf it does not hold; a push, a REST answer, a PATCH body and the
overlay are all such functions. Envelope keys are not leaves; `asOf` travels beside
the document as its stamp. `Accepts` is `_accept_version`, `ApplyIncremental` and
`ApplyFull` the two ways a document enters a record, `Confirm` what they share.
`Near` is the profile's tolerance between reported and requested values; `Shows` is
`command_confirmed`.

**DeviceWrites.** An action is what one asyncio task runs between two awaits. State:

| Variable | Code |
|---|---|
| `device` | `_devices[device_id]`: confirmed layer, overlay, version |
| `entry` | which `DeviceWriteState` `_write_states[device_id]` holds, if any |
| `states` | every `DeviceWriteState` a task may still refer to, in the registry or not |
| `writer` | the service calls, each at an await of `_async_write_device_settings` |
| `reconciler` | the `_async_reconcile_accepted_write` task a call may leave behind |
| `history`, `wire` | the cloud: documents published, PATCH bodies it may still apply |
| `removals`, `phase` | times the hierarchy dropped the device; progress of `async_shutdown` |

| Action | Await it follows, or event |
|---|---|
| `Call`, `Acquire` | the service call arrives; the lock is granted |
| `PatchSucceeds`, `PatchFails` | the PATCH is answered, or not |
| `EventWakes`, `ConfirmTimesOut` | the confirmation event is set, or 5 seconds pass |
| `ReadSucceeds`, `ReadFails`, `PauseEnds` | a bounded REST check and the sleep after it |
| `Cancel` | `CancelledError` at any await of the call |
| `DelayElapses`, `ReconcilerAcquires`, `DeferredReadSucceeds`, `DeferredReadFails`, `ReconcilerUnwinds` | the deferred rounds and their cancellation |
| `Push`, `RefreshSettings` | a document from outside the two tasks |
| `RemoveDevice`, `RediscoverDevice` | `_apply_hierarchy` without, then with the device |
| `BeginShutdown`, `EndShutdown` | `async_shutdown`, before and after its gather |
| `CloudApplies`, `CloudChanges` | the cloud takes a PATCH; another client sets a leaf |

A handler threads the record `Here` through the helpers it calls, in the order the
code calls them (`ClearOverlay` then `SyncWriteState`, the `finally` clause last), and
`Become` assigns the result. Distinct `DeviceWriteState` objects matter, because a
call keeps its own after the device was dropped and added again: they are named by
the step that created them. `asyncio.Lock` is a holder and a queue of waiters; a
released lock goes to the first waiter and to nobody else, even before it runs.

Two details of the code are kept on purpose. A push does not sync the write state
(`coordinator.py:341`), so `pendingPaths` may lag behind the overlay. And
`_observe_inflight_settings` looks the write state up in the registry: a call whose
entry was dropped can no longer be decided by evidence.

**WritePromise.** What `DeviceWrites` comes to for an entity, with no lock, slot, queue,
counter or registry: the values reported and those promised in their place, what each
call owes of them, and what it was told. A call makes a `Promise` or is refused with
nothing shown (`Refuse`); it may be told of success with its promise open (`Accept`), and
then its reconciliation owes it; a debt ends by taking back what stands of the promise
(`Redeem`), or, if the promise no longer stands whole, by leaving the rest to the device
(`Leave`). The device may `Report`, which takes away promises it keeps, or be gone or new
(`Forget`). `Redeem` takes only values the caller itself asked for, and a call that is
rejected or fails ends by `Redeem` alone. `KeepsPromise` maps the overlay, the payloads
and the results of `DeviceWrites` to it.

*The cloud* of `DeviceWrites` is external and modelled by what the coordinator relies
on: it publishes documents, each stamped by its position; an answer or a push carries
one of the recent ones, whole or in part; a PATCH sent may be applied later or never,
whether or not its answer arrived.

**DeviceSections.** The record of one device: settings, set-up data and the statuses,
each with its version, and the health with the time of its last event.

| Variable | Code |
|---|---|
| `record` | the `DeviceRecord`: the hierarchy's placement, documents and versions by section, `health.offline`, and whether `last_rest_received_at` lies within the freshness window; `heard` is history, the events the record was given |
| `missing` | `_optional_404_fingerprints` of the device |
| `hydration` | calls of `_async_rest_refresh_device`: the stage, each request's answer, the fingerprint taken before the optional requests, and whether any answer was a document |
| `cloud` | external: the documents a section has had, the optional endpoints that exist, and the outages that began or ended |

`Push` is `apply_device_message`, events of the health included. A hydration is a
process: `Begin` sends the critical requests, `Answers` ends one of them, `CriticalDone`
applies all and plans the optional ones, and `OptionalDone` applies those with the 404s
among them. `ReadBack` is the GET of a write or its reconciliation, for which a hydration
waits no more than the other way round. `Discovered` creates the record and replays the
messages kept while the device was unknown; `Kept` and `Removed` are the other two
outcomes of a hierarchy, which may fall between any two awaits of a hydration:
`OptionalDone` has the `KeyError` of answers that come for a device that is gone, and
the order in which `missing` is touched before it. `Available` is `device_is_available`.

*This cloud* is external too. A value is the moment it was taken, and a document is
stamped with the moment of its latest value, so that "older" has a meaning that does not
come from the code under test. A REST answer is the whole document of the moment it is
given; a push is part of any document there has been, or any event, however often and
late. An outage is one event at its beginning and one at its end, at later and later
times. Which optional endpoints there are changes only together with the sections that
tell them, as `_optional_request_fingerprint` presumes.

**SocketFrames and LocationSocket.** `vendor/events.py` and the manager of
`vendor/websocket.py`. An action is what one task runs between two awaits; the
coordinator's callbacks do not suspend and belong to the action that calls them.

| Variable | Code |
|---|---|
| `runner`, `ping` | `_async_run` and `_async_ping_loop`: the await each is at, and whether a `CancelledError` is on its way |
| `sock` | the attributes of the object: connected, acknowledged, initial sync, pong and stop events, attempts |
| `delay` | the local variable of `_async_run` |
| `published` | the `SocketState` last given to the coordinator |
| `stopper` | the call of `async_stop` |
| `line`, `answered` | external: the connection, and whether the server has answered a subscription on it |

The actions follow the code from top to bottom: `Start`, `TokenArrives`,
`ConnectSucceeds` and `SubscribeSent` open a connection; `Pong`, `Subscribed`, `Data`,
`Forbidden` with `RenewArrives` and `ResubscribeSent`, `BadFrame` and `SettlesEmpty`
are the loop that receives; `ConnectionFails`, `UnwindEnds`, `LeaveEnds` and
`BackoffEnds` are the `finally` clauses and the loop around; `PingWakes` to
`PingFails` are the ping loop; `StopBegins`, `StopAwaitsPing` and `StopAwaitsRunner`
are `async_stop`. A cancelled task takes its error at the next await
(`RunnerCancelled`, `PingCancelled`), except where a `suppress` clause takes it.

**SocketView.** Two fields of a `SocketState` decide availability and the refresh mode.
They go down, up, ready and down again; nothing is reported after a close.

**CloudSession.** `vendor/client.py` and `vendor/auth.py` together: every request
asks the provider for a token, and a 401 asks again with force. State: the calls, each
with its place in the code and its locals (`caller`); the provider's lock as a queue;
the stored tokens, of which only "held", "inside the margin before expiry" and "old
enough for a new login" matter; the time left to `_rate_limited_until`; and whether
Cognito has refused the account. `Begin` starts a request, a token call of a socket or
the configuration flow's login; `Acquire` grants the lock and picks the operation;
`ExchangeSucceeds` and `ExchangeFails` end one exchange, the latter for each kind of
exception that `_classify_exception` tells apart; `Unauthorized`, `Throttled` and
`Answered` are the answers; `Resend` is the short retry of a write; `Cancel` may strike
at any await. `Tick`, `TokenGoesStale` and `LoginAges` are the clock.

**RefreshCycle.** `_async_setup`, `_async_update_data` and what they call, with
`async_setup_entry` and `async_shutdown` at the two ends. The set-up's refresh and the
refreshes of intervals and events are two processes, since Home Assistant runs the
former outside the lock of the latter.

| Variable | Code |
|---|---|
| `entry` | progress of the config entry |
| `cycle` | each refresh: its await, `removed_ids`, `removed_location_ids`, the sockets still to stop, the stage of each device's hydration, and the outcome |
| `locations`, `devices`, `facts` | `_locations`, `_devices`, and of each record whether it has settings and its required status |
| `sockets`, `view` | `_websockets` with the sockets no longer held, those whose stop raised and those of them that have still to end; and `_socket_states` |
| `cached` | `_unknown_device_messages` |
| `data`, `registry`, `issue` | what is published, Home Assistant's registries, the repair issue |
| `event` | whether `_refresh_event_task` has still to run |
| `applied`, `past` | history, for the properties: the last hierarchy, and what failed, cancelled or overtaken refreshes missed |

`HierarchyAnswered` is `_apply_hierarchy` with its replay and the beginning of the
loop over sockets; `SocketStopped` follows each `async_stop`, and `StopRaises` is the
`async_stop` that ends with its ping task's error: the refresh fails, the manager is gone
from `_websockets`, the state of the location stays, and the runner, told to stop but not
cancelled, ends when it next looks (`RunnerEnds`). `SocketsStarted` decides which devices to hydrate; `CriticalAnswered` and `OptionalAnswered` are the two stages
of one device; `Finish` is the rest of the refresh, clean-up and repair issue included;
`HierarchyFails`, and `Fail` inside the others, are its exceptions. Sockets report
(`StateChanged`) and deliver (`RefreshEvent`, `UnknownMessage`, `DeviceMessage`) at any
time. `RequestDropped` is Home Assistant's debouncer.

**ThermostatCommands.** The service calls of `climate.py`, `_encode_setpoint_pair` and
`_encode_enum_setting`, and `command_confirmed`, on integers: a temperature is a number
of 1/9000 degrees Celsius, in which whole degrees Fahrenheit, hundredths of a degree
Celsius, the range tolerance (0.02 F) and the confirmation tolerance (0.011 C) are all
whole.

| Variable | Code |
|---|---|
| `thermostat` | the device: its enumerated settings, its pair and the unit of its display |
| `style` | whether the cloud keeps enumerated settings under string or numeric keys |
| `setup` | the display unit in `device_setup`, a section with its own feed (`SetupReport`) |
| `document`, `pending` | `device_settings` and `pending_device_settings`, by leaf |
| `command` | the in-flight write: payload, baseline, and whether the device took it |
| `late` | the payload of a write whose call ended before the device took it |
| `touched` | history: the thermostat may differ from what the record shows |
| `calls` | bound: the writes begun |

The unit that opens the setpoint contract (`SetpointsWritable`) is `setup`'s; the pair is
`document`'s, overlaid by `pending`. The two arrive apart, so a Fahrenheit record may
hold a pair set under a Celsius display, off the whole-degree grid, and the companion of
a call (`Effective`) may be such a value or the unconfirmed one of an earlier write.
`SetTemperature` and `SetEnum` are the calls, under the device's lock. `Report` is an
accepted document, with the verdict on the write under way; `ReturnUnobserved`, `Fail`
and `Expire` are the other ends of a call and of its reconciliation. The thermostat is
external: it takes a write during its call (`Take`) or after it (`LateTake`), keeps
setpoints on the grid of its display, leaves a setpoint that reads as its own as it is
(the echo of `tests/test_coordinator.py:878`, where 24 C comes back unchanged under
Fahrenheit), and ignores values it does not know. Somebody at the wall may change the
pair, the mode or the unit.

## 3. What TLC checks

Deadlock checking is on in every run: modules that may come to an end say so with a
`Terminated` step, and in the writes a read or a push is always possible.

| Run | Instance | States | Shows |
|---|---|---|---|
| `writes_pair` | setpoint pair; API and authentication failures, another client; full and heat-only pushes | 282,562 | `TypeOK`, `LockDiscipline`, `EntryOutlivesCalls`, `OverlayIsTracked`, `DecidedByNewerDocument`, `VersionNeverRegresses` |
| `writes_lifecycle` | one leaf; API failures, cancellation, removal, shutdown | 404,088 | `OverlayOwned`, `KeepsPromise` |
| `writes_progress` | one leaf; API failures, cancellation, documents without `asOf`; fairness | 69,038 | `CallsReturn`, `ReconciliationEnds`, `OverlayResolves` |
| `socket` | one socket; token failures; fairness | 17,869 | `TypeOK`, `HealthEarned`, `PublishedIsCurrent`, `OnePing`, `StopLeavesNothing`, `DelayCoversFailures`, `SilenceEnds`, `SubscriptionSettles`, `StopEnds`, `TellsSocketView` |
| `session` | two calls; fairness | 69,359 | `TypeOK`, `SingleFlight`, `RetryCarriesNewToken`, `ReauthNeedsDeniedLogin`, `FailureFollowsLogin`, `PauseIsKept`, `CallsEnd` |
| `refresh` | one device at one location | 1,579,606 | `TypeOK`, `RemovedStayRemoved`, `CacheServesUnknown`, `StatesOfLiveSockets`, `GoneAreCleaned`, `IssueIsCurrent` |
| `sections` | settings and one zone, two keys each; one hydration beside read-backs, pushes and removals | 831,532 | `OutagesHonoured`, `SkipIsJustified`, `ReadingsNeverOlder` |
| `setpoints` | two calls for mode, fan or setpoints; both units and styles, three precisions | 1,450,508 | `PairIsSafe`, `EchoConfirms`, `CompanionStays` |
| `auth_error_keeps_overlay` | one leaf; authentication failures | violated | `OverlayOwned` |
| `partial_confirmation_keeps_overlay` | setpoint pair; another client | violated | `OverlayOwned` |
| `failed_check_fails_accepted_write` | one leaf; API failures | violated | `AcceptedWriteDoesNotFail` |
| `stop_after_ping_error` | one socket; renewal failures | violated | `StopEndsTasks` |

### Bounds

*Writes.* Two service calls (`Writer`), symmetric except under fairness. Two are
enough for the conflicts this code has: one holder and one waiter, an old
reconciliation against a new call, an orphaned write state beside a new one. The
bounds are `MaxHistory` (documents published), `MaxLag` (how far behind the newest a
late answer may be), `MaxRemovals`, and the sets of commands, values and faults.
Three documents let each PATCH be applied once after the first document, or another
client step between; a lag of one gives reordering and repetition.

*Socket.* `MaxAttempt` bounds the count of attempts at 3: a delay of 1, 2, 4 and 5
(`MaxDelay`) covers growth and the cap. Connections are not counted; every state of
one recurs after a reconnect.

*Session.* Two calls contend for everything there is, one lock, one deadline and one
set of tokens. Delays run from 1 to 2, with a threshold of 1, so that a short and a long
retry differ; headers run from 0 to one past the maximum, or cannot be read.

*Refresh.* One device at one location, which come and go with any hierarchy, under two
refreshes: the hazards of this component are between two refreshes, or a refresh and a
message, about one device, one socket or one cache entry. The cache holds one message. That several devices
and locations change nothing is proved: `RefreshCycleProofs` holds for any number.

*Sections.* Two changes or events, so up to three documents of a section and one outage
with its end: an answer or a push may be one or two behind, a 404 may be noted under
facts that have passed, and the end of an outage may come before its beginning. One
cached message, one placement and one hydration: a second one beside it is beyond TLC,
but `ReadBack` brings older and newer REST answers between its stages, and the proofs
hold for any number of them, of sections, keys and messages. Types are proved and not in
the run. Nothing here has to happen, so no fairness is stated.

*Setpoints.* Two calls (`MaxCalls`): the second meets what the first left, an overlay
that is still pending, confirmed on one side or given up, or a write still to be taken.
`MCTemperatures` has the end of a grid cell and the ends of the ranges, with their
tolerance and just beyond it. `MCWallPairs` has one pair at the dead band, 70 and 73 F;
set under a Celsius display it is 21 and 23 C, neither a whole degree Fahrenheit, so
both kinds of companion occur. Nobody touches the thermostat again before the record has
caught up (`MayBeTouched`), and of the writes that ended untaken the last is kept
(`late`). Holds, encoded as the fan is, are in the proofs and not in the run, as is any
number of calls.

### Choices of instances

The commands of `writes_pair` are chosen so that each alone respects the deadband and
the two together do not: the second to run is refused when it sees the first one's
optimistic value, and accepted when it does not. `writes_lifecycle` leaves out
authentication failures and the pair because `OverlayOwned` does not hold with them:
the first two violation runs are exactly those two instances.

`socket` leaves out failing renewals of the ping task, because `SilenceEnds` does not
hold with them: such a task ends, nobody sees its error, and a connection that falls
silent after its initial sync is then never given up. `stop_after_ping_error` is that
instance.

### Fairness

Fairness is asked of tasks whose await must end, and of nothing else.

- `DeviceWrites`: each task's next step. Requests carry a timeout (`client.py:253`),
  the confirmation wait and the sleeps have theirs, and asyncio runs the first waiter
  of a released lock. `ENABLED` is written out. Nothing is asked of calls, pushes,
  refreshes, cancellation or the cloud, so the properties hold when the cloud never
  confirms anything.
- `LocationSocket`: weak fairness of the runner's steps other than receiving a frame
  (`RunnerReads`), of the ping task's and of the stop's. Sleeps and the pong's wait
  have deadlines, a receive before the initial sync has one (`websocket.py:266-273`),
  connecting and renewing have those of the HTTP client and of Cognito's. The server
  owes nothing: `SilenceEnds` and `SubscriptionSettles` hold if it never speaks.
- `CloudSession`: weak fairness of each call's steps and of the clock. Every await of a
  call is a request with a timeout, an exchange whose client has its own, a sleep, or
  the lock.

The other modules state no fairness. In `RefreshCycle` there is none to state that would
carry a property: the event's own request may be dropped by Home Assistant's debouncer,
and the interval's timer is armed anew by every published snapshot
(`coordinator.py:655`), which pongs and messages cause more often than the interval lasts.

### What the violation runs say

1. *An authentication error orphans the overlay.* The `except` clause at
   `coordinator.py:558` names the API and communication errors. Authentication errors
   are neither, though any request may raise them. The call fails and its optimistic
   value stays, with no task to clear it. `KeepsPromise` breaks there too.
2. *A partial confirmation ends the bookkeeping.* A setpoint payload has two leaves. A
   REST check that repeats the unchanged one removes it from the overlay; the test at
   `coordinator.py:540` then finds the payload no longer current, the call returns
   without scheduling the deferred checks, and the requested leaf stays. It is why
   `WritePromise` has to allow `Leave`.
3. *A failed check fails an accepted write.* An error of the GET after a 2xx PATCH is
   handled by the clause meant for the PATCH itself: the call fails and the value is
   taken back, where the repository's README promises a background reconciliation
   "instead of reporting a false service-call failure".
4. *A stop that raises leaves the runner.* `async_stop` awaits the ping task before it
   cancels the runner, and suppresses cancellation only. If the ping task had ended
   with an error (a token that could not be renewed, a send on a closing connection),
   the await raises it: the runner is not cancelled, although the docstring says
   "Cancel and await every task owned by this transport." When the location was removed
   from the hierarchy, the refresh that stops its socket fails as well
   (`coordinator.py:802`); the next one no longer knows the socket.

An optimistic value left behind in 1 and 2 disappears when a document with that value
is accepted, when a later write of the same value clears it, or when the entry is
reloaded.

### What the models show besides

Behaviours that no line of the repository promises or denies, met while modelling; each
is in the model as the code has it.

- The reconnect delay is reset only by a stop: after early failures, a connection that
  was good for days is followed by the delay reached then.
- A later 429 replaces the deadline of an earlier one, and may shorten it; requests
  past the check go out during the pause. Requests that meet a 401 together each renew.
- A refresh that fails after its hierarchy was applied leaves what was removed in the
  registries; the next one no longer sees it as removed. The user may delete it.
- A refresh notes the locations there are before it asks for the hierarchy, and the
  devices when it is answered. A location that the overlapping refresh of the set-up
  adds between the two, and the answer no longer has, is dropped without being cleaned
  from the registries. Likewise, when an exception ends a hydration, the requests of
  other devices go on, and what they bring does not update the repair issue. Both need
  two locations or devices; `GoneAreCleaned` and `IssueIsCurrent` exempt them by name
  (`Overtaken`, `Straggling`).
- The set-up's refresh may overlap that of an event. The answers of one for a device
  the other removed raise `KeyError`; two sockets may be started for a location, of
  which one is forgotten; forgetting a stopped socket may take the state of a new one.
- When the stop of a socket raises (4 above), the pop of its state
  (`coordinator.py:803`) is skipped: the location keeps a state although `_websockets` no
  longer has a manager for it, nothing stops that socket again, and its runner ends only
  with its next frame or the loss of the line, until which the location may count as
  connected (`StatesOfLiveSockets`).
- A refresh event whose request is dropped, or which comes while a refresh is past its
  hierarchy request, need not be followed by one: each published snapshot arms the
  interval's timer anew, so a busy location may keep it from firing.
- A companion off the whole-degree grid is sent as it is. If the thermostat has changed
  it meanwhile and does not keep the value sent, its echo differs from the command and an
  accepted write is reported as refused (`CanKeep` names the case).
- `async_shutdown` stops the sockets it finds, and the refresh of an event only. An
  interval's refresh in flight may start sockets that `_websockets.clear()` drops
  unstopped; a message handled while it waits may bring the repair issue back. A
  first refresh that fails after its sockets were started leaves them running.
- Only an event clears the offline flag. Documents that keep arriving, by either feed, do
  not: when the end of an outage is lost, the device stays unavailable until the next
  event, or until it is removed and found again.
- A hydration that outlives its device may still note a 404 for it, which is kept for as
  long as the process runs or until the device is removed a second time. It does no harm
  (`SkipIsJustified`): the fingerprint holds the facts it was noted under.
- A single temperature for a thermostat in heat-cool mode sets both sides to it and is
  always refused by the dead band. The mode of the same call picks the side and is not
  itself set.

## 4. What is proved

The modules named `...Proofs` are checked by TLAPS for every value of the constants,
under the assumptions the modules declare and no other: in the writes, `Absent` is not
a value, `Near` is reflexive, commands are single leaves or within the pair, calls are
finitely many, `Nobody` is no task; in the socket, the two delays are ordered; in the
session, calls are finitely many and the default delay lies in its range; in the
refreshes, each device has a location and the cache holds at least one message; in the
sections, values and stamps are the moments up to `MaxHistory`, the kinds of sections
are sets of sections, and the health is none; in the commands, temperatures and pairs
are integers.

Two facts need induction over the natural numbers: that the doubled delay keeps up
with the attempts, and that the replay of any number of cached messages keeps what one of
them keeps, together with the existence of the two recursive functions that say so. The
library's induction theorems take a predicate and are out of the provers' reach; here
induction is over a set instead (`SetInduction`), from the well-foundedness of `<` on
`Nat` (`NatLessThanWellFounded`, `WFMin`), and existence is shown from longer and longer
beginnings of the function.

### Writes

| Theorem | Says | Argument |
|---|---|---|
| `TypeCorrect` | `Spec => []TypeOK` | Not inductive alone: that an attempt stays within its range needs that a pausing call has an attempt left, and that a handler's write state exists needs that a running call, or a reconciliation at the lock, refers to one. `TypeInv` adds both. Each helper is shown to take a coordinator state to a coordinator state; each action follows from the helpers it calls. |
| `LockSafe` | `Spec => []LockDiscipline` | Inductive relative to `TypeInv`. Four frame lemmas carry it: a step that touches no lock (`LockUntouched`), a call entering (`CallEntersLock`), a call leaving (`CallLeavesLock`), and a reconciliation entering or leaving (`ReconcilerCrossesLock`). |
| `VersionMonotone` | `Spec => VersionNeverRegresses` | `AcceptedIsNotOlder` gives it for one document; the rest shows that no other step touches the version. |
| `CountExact` | `Spec => []WritersCounted`; the counter is exact, on which removal of a write state rests | Each action adds or removes one call of the counted set, or keeps it; uses the cardinality facts of finite sets. |
| `AcceptedIsNotOlder` | an accepted document's version is not older | Case split on stamped and unstamped versions. |
| `OverlayAlwaysTracked`, `AlwaysDecidedByNewer`, `EntryAlwaysOutlives` | `OverlayIsTracked`, `DecidedByNewerDocument`, `EntryOutlivesCalls` always hold | One invariant, `OverlayInv`, on `TypeInv` and `WritersCounted`. Each helper of the coordinator is shown once to carry the first two facts and to leave alone a registry entry in use (`Carries`); a handler is a chain of helpers. The third rests on the counter: an entry is dropped only at zero, and a counted call keeps it above. |
| `AlwaysOwnOverlayOnly` | `Spec => OwnOverlayOnly` | A call leaves its reconciliation only when it ends (`OneTask`), so a step that clears a leaf belongs to its owner, to a document that shows it, or to a task that asked for the same value. |
| `OverlayAlwaysOwned` | `Spec => []OverlayOwned`, if `"auth"` is no fault and commands have one leaf | `OwnedInv`: a leaf appears with the call that wrote it, and each exit path clears it, confirms it or leaves a reconciliation. The assumptions are those the first two violation runs break. |
| `ImplementsWritePromise` | `Spec => KeepsPromise`, if `"auth"` is no fault: the refinement, for commands of one leaf or a pair | A debt is a call's payload while it is in the lock, then its reconciliation's; `PromiseInv` says that it is never for nothing and that only a shutdown cancels a reconciliation. Each way a call or a reconciliation may step (`GoesOn`, `Clears`, `GivesUp`, `Schedules`, and those of a round) is then one action of `WritePromise`; pushes, refreshes and the hierarchy are `Report` or `Forget`. |

### Socket

`LocationSocketProofs`. One inductive invariant carries six of the seven theorems. It
relates the two tasks and the object: which awaits have a ping task (`hasPing`) and in
which state it may be; that the object is connected, with the line it had, exactly
between `ws_connect` and the end of the `finally` clause; that health implies an
answered subscription of this connection; and which task a stop is waiting for.
`HealthEarned` alone is not inductive, because a reconnect must be known to have cleared
the event before `answered` is reset, nor is `StopLeavesNothing`, because a cancelled
runner must be known to pass through its `finally` clause. The seventh,
`DelayAlwaysCovers`, has an invariant of its own, `DelayKeepsUp`: the delay is at least
the minimum doubled once for each attempt, or the maximum, and an attempt counted but
not yet slept for is one behind. It holds for any two delays and any number of attempts.

| Theorem | Says |
|---|---|
| `TypeCorrect` | `Spec => []TypeOK` |
| `HealthIsEarned` | `Spec => []HealthEarned` |
| `PublishedAlwaysCurrent` | `Spec => []PublishedIsCurrent` |
| `AlwaysOnePing` | `Spec => []OnePing` |
| `StopAlwaysClears` | `Spec => []StopLeavesNothing` |
| `DelayAlwaysCovers` | `Spec => []DelayCoversFailures` |
| `ImplementsSocketView` | `Spec => TellsSocketView`: the refinement, each step a report, a close or a stutter |

### Session

`CloudSessionProofs`. The invariant is one predicate of a call (`Good`, with `Patient`
for those that wait), for all calls at once, with the lock's queue, in which nobody
stands twice. The lemmas on the queue (`Without` takes one out and keeps the order)
use the library's facts on sequences.

| Theorem | Says |
|---|---|
| `TypeCorrect` | `Spec => []TypeOK` |
| `AlwaysSingleFlight` | `Spec => []SingleFlight` |
| `RetryAlwaysCarriesNewToken` | `Spec => []RetryCarriesNewToken` |
| `ReauthAlwaysFollowsDenial` | `Spec => []ReauthNeedsDeniedLogin` |
| `FailureAlwaysFollowsLogin` | `Spec => []FailureFollowsLogin` |
| `PauseAlwaysKept` | `Spec => PauseIsKept` |

### Refresh

`RefreshCycleProofs`, for any finite or infinite sets of devices and locations. The six
properties are proved together (`RefreshInv`), with what they need: that only the
loop over the sockets has one in its hands (`VictimStopping`), that requests are out
only during a hydration or after one that failed (`TasksBelong`), that nothing is
registered before the platforms are loaded (`NothingNew`), and `GoneAreCleaned` for what
the published snapshot may still add to the registries (`GoneNoticed`). Three lemmas
carry most steps: how a refresh fails (`FailKeeps`), goes on to the next socket
(`StopOrStartKeeps`) and takes an answer (`TasksMove`).

| Theorem | Says |
|---|---|
| `TypeCorrect` | `Spec => []TypeOK` |
| `RemovedAlwaysStayRemoved` | `Spec => []RemovedStayRemoved` |
| `CacheAlwaysServesUnknown` | `Spec => []CacheServesUnknown` |
| `StatesAlwaysOfLiveSockets` | `Spec => []StatesOfLiveSockets` |
| `GoneAlwaysCleaned` | `Spec => []GoneAreCleaned` |
| `IssueAlwaysCurrent` | `Spec => []IssueIsCurrent` |

### Sections

`DeviceSectionsProofs`, for any sections, keys, families and hydrations. The invariant
`IInv` relates the record to the history of the cloud, in which values only grow: no
value of a section is younger than the document that its version names had (`Follows`);
the offline flag and the health's version are those of the newest event heard (`Told`);
and what a hydration holds or has noted as missing is of a moment that has been
(`CallSound`, `Past`), and missing still if that is the present one (`Justifies`).

| Theorem | Says | Argument |
|---|---|---|
| `TypeCorrect` | `Spec => []TypeOK` | With the rest of the invariant, since an answer's stamp must be a moment its section has had. |
| `ReadingsOnlyGrowYounger` | `Spec => ReadingsNeverOlder` | An accepted document is at least as young as the version, so by `Follows` none of its values is older than the one shown. Answers of one stage go to sections of their own (`ApplyAnswers`), so their order does not matter. |
| `OutagesAlwaysHonoured` | `Spec => []OutagesHonoured` | Two events never have the same time, and an event that is refused has a newer one already heard. |
| `SkipAlwaysJustified` | `Spec => []SkipIsJustified` | A 404 is a fact about the endpoints of some moment since the fingerprint's documents. If the fingerprint's stamps are those of the present, nothing that tells has changed meanwhile, and the endpoint is missing still. |

### Commands

`ThermostatCommandsProofs`, for any temperatures, pairs at the wall and number of calls.
Rounding lemmas come first. A thermostat keeps whole degrees Fahrenheit or half degrees
Celsius (`Kept`), and everything a record shows or a payload holds is a reading of one of
these, exact, rounded or cut to a hundredth (`Known`). Rounding such a value to hundredths
does not move it to another degree (`KnownRounds`): half degrees Celsius are whole
hundredths, and whole degrees Fahrenheit are far from the edges between two. The invariant
`IInv` says this of documents, overlays and writes; that the overlay agrees with the
write under way where it has its leaves (`OverlayOk`); that a write which was taken
reads as what the thermostat does (`EffectOk`); and that, unless it was left behind
(`touched`, `late`), what the record shows of each side is in the thermostat's degree
(`InStep`), also while a write of the other side is under way.

| Theorem | Says | Argument |
|---|---|---|
| `PairAlwaysSafe` | `Spec => []PairIsSafe` | The checks are made on the pair sent, whose degrees are those of the pair held once it is taken, by `EffectOk` and the rounding of known values. |
| `EchoAlwaysConfirms` | `Spec => []EchoConfirms` | Two readings of one kept value differ by less than the tolerance, on the grid or off it. |
| `CompanionAlwaysStays` | `Spec => CompanionStays` | By `InStep`, the companion taken from the effective settings is in the degree that the thermostat has. |

### Only model-checked

`OverlayOwned` with commands of two leaves, where the run with them shows it violated,
and every liveness property, which is outside the provers' reach, as is anything with
`ENABLED`. Every invariant and action property of the other runs that pass is a theorem
above.

## 5. What is abstracted

*Writes.* Leaves, values and documents are model values. The profile's numeric tolerance
is the relation `Near` (equality in the runs); encoding keeps the completion of the
setpoint pair, and `Permitted` stands for ranges and dead band. Timers are choices: a
delay may end at any time. Publishing snapshots, logging and diagnostics are left out,
as are `last_confirmed_settings` (diagnostics only) and `deepcopy`. The PATCH's short
retry and 401 renewal are inside one request, which succeeds, fails with an API error or
fails with an authentication error. One device is modelled; devices share no write
state. Only the settings section of a record is kept; the others are `DeviceSections`'
subject. A device counts as recognised when its confirmed settings are not empty. Cached
messages replayed on discovery are limited to one.

*Socket.* The token's own life is `CloudSession`'s; here it is obtained or not, where
`Faults` allows. `last_received_at` is left out, and `last_error` kept as "there is one".

*Session.* Time is counted in whole seconds of a small range. Tokens have no contents:
a call's token is the provider's or has been replaced. An executor thread that goes on
after its caller was cancelled has no effect, since its result is dropped. A 401 and a
429 are the answers that change state; all others end a request.

*Refresh.* A record is two facts, settings and required status, and a recognised family
is one of `Known`. Left out: the limit of four requests at a time, the length of the
interval, and what a record says beyond the two facts. Which optional endpoints are
asked is a choice here; the cache of those that answered 404, the freshness window and
the offline flag of `device_is_available` are in `DeviceSections`. A process begins no
refresh while requests of a crashed one are out. A coordinator whose set-up failed is
not followed. Home Assistant is external: its timer, its debouncer, its registries.

*Sections.* The overlay is left to `DeviceWrites`; nothing here reads it. Documents carry
their `asOf`: those without one are in `DeviceWrites`. A profile is reduced to what its
decisions read: a family counts as recognised when the sections it needs are not empty
(`Family`), and which optional endpoints are planned is a choice. The profile's key in
the fingerprint is whether any family is recognised. A hydration's requests have no order
among themselves.

*Commands.* Access and model gates are taken as open and Home Assistant as configured in
Fahrenheit. One zone, as the contract demands. How a write is delivered, checked and
reconciled is `DeviceWrites`' subject: here a call may end in any of the ways it can,
at any time, and a document is what the thermostat does when it arrives, since late and
repeated ones do not decide a write (`DecidedByNewerDocument`). What the thermostat does
is presumed: the grid of its display, and that a setpoint which reads as its own stays.
`EchoConfirms` excuses what the device was given otherwise after it took the command
(`Overtaken`) and what it does not keep (`CanKeep`: a Celsius display, or a companion off
the grid that is no longer its own); `CompanionStays` excuses a record that was left
behind.

### Not modelled

- The initial message collector and the configuration flow: one sequential pass each,
  with local state only, around operations that `LocationSocket` and `CloudSession`
  model.
- Entity synchronisation beyond what enters the registries: whether an entity added
  while its predecessor's removal runs survives depends on Home Assistant's entity
  platform.
- Normalisation of vendor documents, sensors, diagnostics: mappings of data without
  state or order.

## 6. Plan

1. A run of `RefreshCycle` with two locations, and one of `DeviceSections` with two
   hydrations, when their state spaces can be cut down; the proofs cover both.
