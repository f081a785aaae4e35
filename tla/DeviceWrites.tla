---------------------------- MODULE DeviceWrites ----------------------------
(***************************************************************************)
(* Settings writes of one device: the optimistic overlay, the serialised   *)
(* in-flight write, its confirmation by push or REST, the deferred         *)
(* reconciliation of an accepted write, and the two ways the device's      *)
(* write state can be thrown away under a running task (removal from the   *)
(* hierarchy, and shutdown).  Translated from coordinator.py; an action is *)
(* what one asyncio task runs between two awaits.                          *)
(*                                                                         *)
(* The cloud is modelled by what the coordinator relies on: it keeps a     *)
(* history of settings documents, each stamped with its position; a PATCH  *)
(* the client has sent may be applied at any later time or never; pushes   *)
(* and reads carry documents of the history, possibly late, repeated,      *)
(* out of order, partial or without a stamp.                               *)
(***************************************************************************)
EXTENDS SettingsState, Sequences, FiniteSets

CONSTANTS
    Writer,        \* service calls; each makes one write and ends
    Nobody,        \* no task
    Pair,          \* the heat and cool leaves, written together
    Command,       \* requests, as partial documents
    Hydrated,      \* documents the startup's REST hydration may find
    Permitted,     \* payloads within the ranges and the deadband
    PushView,      \* the sets of leaves a push may carry
    Faults,        \* what may go wrong in this instance
    MaxHistory,    \* bound: documents the cloud ever publishes
    MaxLag,        \* bound: documents a late one may lie behind the newest
    MaxRemovals    \* bound: times the hierarchy drops the device

FaultKinds == {"api", "auth", "cancel", "foreign", "remove", "stop", "unstamped"}

\* POST_WRITE_RECONCILIATION_ATTEMPTS, POST_WRITE_DEFERRED_RECONCILIATION_DELAYS
Attempts == 2
Rounds == 2

ASSUME PairAssumption ==
    /\ Pair \subseteq Leaf
    /\ Command \subseteq Settings /\ Hydrated \subseteq Settings /\ Permitted \subseteq Settings
    /\ \A c \in Command : \/ (Leaves(c) # {} /\ Leaves(c) \subseteq Pair)
                           \/ \E l \in Leaf \ Pair : Leaves(c) = {l}
ASSUME WriterAssumption == IsFiniteSet(Writer)
ASSUME FaultsAssumption == Faults \subseteq FaultKinds
ASSUME BoundsAssumption == /\ MaxHistory \in Nat \ {0}
                           /\ MaxLag \in Nat
                           /\ MaxRemovals \in Nat

Task == {"write", "reconcile"} \X Writer     \* the two tasks of a service call
W(w) == <<"write", w>>
R(w) == <<"reconcile", w>>

ASSUME NobodyAssumption == Nobody \notin Writer \cup Task

\* A DeviceWriteState lives as long as anything refers to it, so it is named by
\* the step that created it: setdefault when a call arrives, or setdefault in
\* _sync_write_state while a write begins.
NoState == <<"none", Nobody>>
SyncRef == <<"sync", Nobody>>
StateRef == {"call", "begin"} \X Writer \cup {SyncRef}

Outcome == {"unknown", "confirmed", "rejected"}

Inflight == [owner    : Writer \cup {Nobody},
             payload  : Settings,           \* inflight_expected, inflight_command
             version  : Version,            \* inflight_baseline_version
             settings : Settings,           \* inflight_baseline_settings
             outcome  : Outcome]
NoInflight == [owner |-> Nobody, payload |-> NoSettings, version |-> NoVersion,
               settings |-> NoSettings, outcome |-> "unknown"]

\* DeviceWriteState; the asyncio.Lock is its holder and its waiters, in order.
WriteState == [holder : Task \cup {Nobody}, waiters : Seq(Task),
               active : Int, inflight : Inflight,
               pendingPaths : SUBSET Leaf]
FreshState == [holder |-> Nobody, waiters |-> <<>>, active |-> 0,
               inflight |-> NoInflight, pendingPaths |-> {}]

VARIABLES
    device,       \* _devices[device_id]
    entry,        \* _write_states[device_id], a StateRef or NoState
    states,       \* every DeviceWriteState some task may still refer to
    writer,       \* the service calls
    reconciler,   \* the deferred reconciliation tasks
    history,      \* the documents the cloud has published
    wire,         \* each call's PATCH body, while the cloud may yet apply it
    removals,     \* times the device was dropped
    phase         \* of async_shutdown

vars == <<device, entry, states, writer, reconciler, history, wire, removals, phase>>

WriterPc == {"idle", "queued", "patching", "confirming", "reading", "pausing", "done"}
Result == {"none", "success", "rejected", "error", "cancelled"}
WriterState == [pc : WriterPc, command : Settings, payload : Settings,
                ref : StateRef \cup {NoState}, attempt : 0..Attempts, result : Result]
IdleWriter == [pc |-> "idle", command |-> NoSettings, payload |-> NoSettings,
               ref |-> NoState, attempt |-> 0, result |-> "none"]

ReconcilerPc == {"none", "sleeping", "locking", "reading", "done"}
ReconcilerState == [pc : ReconcilerPc, round : 0..Rounds, payload : Settings,
                    ref : StateRef \cup {NoState}, cancelled : BOOLEAN]
IdleReconciler == [pc |-> "none", round |-> 0, payload |-> NoSettings,
                   ref |-> NoState, cancelled |-> FALSE]

\* The writer is inside `async with write_state.lock`, its request under way.
Engaged(w) == writer[w].pc \in {"patching", "confirming", "reading", "pausing"}
\* The writer is inside async_execute_command.
Running(w) == writer[w].pc \notin {"idle", "done"}
Reconciling(w) == reconciler[w].pc \notin {"none", "done"}

\* Documents the cloud can answer with or push now.
Recent == {t \in 1..Len(history) : t + MaxLag >= Len(history)}
StampsOf(t) == {t} \cup (IF "unstamped" \in Faults THEN {NoStamp} ELSE {})
Visible(document, view) == [l \in Leaf |-> IF l \in view THEN document[l] ELSE Absent]

Init ==
    /\ \E document \in Hydrated : history = <<document>>
    /\ \E stamp \in StampsOf(1) :
        device = [present |-> TRUE, settings |-> history[1],
                  pending |-> NoSettings,
                  version |-> [asOf |-> stamp, source |-> "rest"]]
    /\ entry = NoState
    /\ states = [r \in StateRef |-> FreshState]
    /\ writer = [w \in Writer |-> IdleWriter]
    /\ reconciler = [w \in Writer |-> IdleReconciler]
    /\ wire = [w \in Writer |-> NoSettings]
    /\ removals = 0
    /\ phase = "running"

----------------------------------------------------------------------------
(* What the coordinator's helpers do to its own state.  A handler threads  *)
(* the record st through the helpers it calls, in the order it calls them. *)

Here == [device |-> device, entry |-> entry, states |-> states]
Become(st) == device' = st.device /\ entry' = st.entry /\ states' = st.states

\* Mutants: the write state is dropped under a running call, or under an overlay.
SyncIgnoringWriters(st, fresh) ==
    LET ref == IF st.entry = NoState THEN fresh ELSE st.entry
        ws  == [st.states[ref] EXCEPT !.pendingPaths = Leaves(st.device.pending)]
        idle == ws.pendingPaths = {} /\ ws.inflight.owner = Nobody
    IN  IF ~st.device.present
        THEN [st EXCEPT !.entry = NoState]
        ELSE [st EXCEPT !.entry = IF idle THEN NoState ELSE ref, !.states[ref] = ws]
SyncIgnoringOverlay(st, fresh) ==
    LET ref == IF st.entry = NoState THEN fresh ELSE st.entry
        ws  == [st.states[ref] EXCEPT !.pendingPaths = Leaves(st.device.pending)]
        idle == ws.active = 0 /\ ws.inflight.owner = Nobody
    IN  IF ~st.device.present
        THEN [st EXCEPT !.entry = NoState]
        ELSE [st EXCEPT !.entry = IF idle THEN NoState ELSE ref, !.states[ref] = ws]

\* _sync_write_state.  A missing entry is created under the name fresh.
SyncWriteState(st, fresh) ==
    LET ref == IF st.entry = NoState THEN fresh ELSE st.entry
        ws  == [st.states[ref] EXCEPT !.pendingPaths = Leaves(st.device.pending)]
        idle == /\ ws.pendingPaths = {} /\ ws.active = 0
                /\ ws.inflight.owner = Nobody
    IN  IF ~st.device.present
        THEN [st EXCEPT !.entry = NoState]
        ELSE [st EXCEPT !.entry = IF idle THEN NoState ELSE ref, !.states[ref] = ws]

\* _clear_pending_device_settings, and the sync that always follows it
ClearOverlay(st, payload) ==
    SyncWriteState([st EXCEPT !.device = ClearPending(@, payload)], SyncRef)

\* Mutant: a document as old as the write's baseline decides.
DecisiveWhenEqual(dev, flight, document, stamp, source) ==
    /\ flight.owner # Nobody
    /\ flight.outcome = "unknown"
    /\ Recognised(dev)
    /\ Covers(document, flight.payload)
    /\ stamp # NoStamp
    /\ dev.version = [asOf |-> stamp, source |-> source]
    /\ flight.version.asOf # NoStamp
    /\ stamp >= flight.version.asOf

\* _observe_inflight_settings
Decisive(dev, flight, document, stamp, source) ==
    /\ flight.owner # Nobody
    /\ flight.outcome = "unknown"
    /\ Recognised(dev)
    /\ Covers(document, flight.payload)
    /\ stamp # NoStamp
    /\ dev.version = [asOf |-> stamp, source |-> source]
    /\ flight.version.asOf # NoStamp
    /\ stamp > flight.version.asOf

Verdict(dev, flight) ==
    CASE Shows(dev.settings, flight.payload) -> "confirmed"
      [] /\ ~Shows(dev.settings, flight.payload)
         /\ Leaves(flight.payload) \subseteq Pair       \* mismatch_is_rejection
         /\ ~ChangedOutside(flight.settings, dev.settings, flight.payload)
           -> "rejected"
      [] OTHER -> "unknown"

ObserveInflight(st, document, stamp, source) ==
    IF /\ st.entry # NoState
       /\ Decisive(st.device, st.states[st.entry].inflight, document, stamp, source)
    THEN [st EXCEPT !.states[st.entry].inflight.outcome =
                        Verdict(st.device, st.states[st.entry].inflight)]
    ELSE st

\* _apply_full_device_settings: what every REST settings response goes through
TakeRestSettings(st, document, stamp) ==
    IF ~st.device.present THEN st
    ELSE LET applied == [st EXCEPT !.device = ApplyFull(@, document, stamp)]
         IN  ObserveInflight(SyncWriteState(applied, SyncRef), document, stamp, "rest")

LockIsFree(ws) == ws.holder = Nobody /\ ws.waiters = <<>>
\* release() wakes the first waiter, which runs later; until then nobody else
\* may take the lock.
LockIsGranted(ws, task) ==
    ws.holder = Nobody /\ ws.waiters # <<>> /\ Head(ws.waiters) = task
TakeLock(st, ref, task) ==
    [st EXCEPT !.states[ref].holder = task,
               !.states[ref].waiters = IF @ = <<>> THEN @ ELSE Tail(@)]
WaitForLock(st, ref, task) == [st EXCEPT !.states[ref].waiters = Append(@, task)]
ReleaseLock(st, ref) == [st EXCEPT !.states[ref].holder = Nobody]
\* The waiter at position i is cancelled.
LeaveQueue(st, ref, i) ==
    [st EXCEPT !.states[ref].waiters = SubSeq(@, 1, i - 1) \o SubSeq(@, i + 1, Len(@))]

----------------------------------------------------------------------------
(* A service call: _async_write_device_settings                            *)

\* profile.encode_command: a setpoint command is completed to the whole pair
\* from what the entities show; any other command is its own payload.
Encode(dev, command) ==
    IF Leaves(command) \subseteq Pair
    THEN [l \in Leaf |-> IF command[l] = Absent /\ l \in Pair
                         THEN Effective(dev)[l] ELSE command[l]]
    ELSE command
CanEncode(dev, command) ==
    LET payload == Encode(dev, command)
    IN  /\ Recognised(dev)
        /\ Leaves(payload) \subseteq Leaves(Effective(dev))
        /\ Leaves(command) \subseteq Pair => Pair \subseteq Leaves(payload)
        /\ payload \in Permitted

\* From the acquired lock to the PATCH.
BeginWrite(st, w, ref, payload) ==
    LET overlaid == SyncWriteState([st EXCEPT !.device = ApplyPending(@, payload)],
                                   <<"begin", w>>)
    IN  [overlaid EXCEPT
            !.states[ref].pendingPaths = @ \cup Leaves(payload),
            !.states[ref].inflight = [owner    |-> w,
                                      payload  |-> payload,
                                      version  |-> st.device.version,
                                      settings |-> st.device.settings,
                                      outcome  |-> "unknown"]]

\* Mutant: the finally clause forgets the in-flight slot.
FinishKeepingInflight(st, w, ref) ==
    SyncWriteState([st EXCEPT !.states[ref].active = @ - 1], SyncRef)

\* The finally clause.
FinishWrite(st, w, ref) ==
    SyncWriteState([st EXCEPT !.states[ref].inflight = IF @.owner = w THEN NoInflight ELSE @,
                              !.states[ref].active = @ - 1],
                   SyncRef)

\* The call ends with this result; st is what its handlers left.
Return(w, st, result) ==
    /\ Become(FinishWrite(st, w, writer[w].ref))
    /\ writer' = [writer EXCEPT ![w] = [IdleWriter EXCEPT !.pc = "done", !.result = result]]

\* Mutant: the lock is not released on the way out.
ReturnKeepingLock(w, st, result) ==
    Return(w, ClearOverlay(st, writer[w].payload), result)

\* `return` from inside the lock, the overlay cleared first
ReturnCleared(w, st, result) ==
    Return(w, ClearOverlay(ReleaseLock(st, writer[w].ref), writer[w].payload), result)

\* The lock is held in st: encode and send, or fail before anything is shown.
EnterLock(w, st, ref, command) ==
    LET payload == Encode(st.device, command)
    IN  IF CanEncode(st.device, command)
        THEN /\ Become(BeginWrite(st, w, ref, payload))
             /\ writer' = [writer EXCEPT ![w].pc = "patching", ![w].ref = ref,
                                         ![w].command = command, ![w].payload = payload]
             /\ wire' = [wire EXCEPT ![w] = payload]
        ELSE /\ Become(FinishWrite(ReleaseLock(st, ref), w, ref))
             /\ writer' = [writer EXCEPT ![w] =
                                [IdleWriter EXCEPT !.pc = "done", !.result = "error"]]
             /\ UNCHANGED wire

\* async_execute_command, then the call takes its place at the lock.
Call(w, command) ==
    LET ref    == IF entry = NoState THEN <<"call", w>> ELSE entry
        called == [Here EXCEPT !.entry = ref, !.states[ref].active = @ + 1]
    IN  /\ writer[w].pc = "idle"
        /\ Recognised(device)
        /\ IF LockIsFree(states[ref])
           THEN EnterLock(w, TakeLock(called, ref, W(w)), ref, command)
           ELSE /\ Become(WaitForLock(called, ref, W(w)))
                /\ writer' = [writer EXCEPT ![w].pc = "queued", ![w].ref = ref,
                                            ![w].command = command]
                /\ UNCHANGED wire
        /\ UNCHANGED <<reconciler, history, removals, phase>>

Acquire(w) ==
    LET ref == writer[w].ref
    IN  /\ writer[w].pc = "queued"
        /\ LockIsGranted(states[ref], W(w))
        /\ EnterLock(w, TakeLock(Here, ref, W(w)), ref, writer[w].command)
        /\ UNCHANGED <<reconciler, history, removals, phase>>

\* inflight_event is set: the outcome decides the call.
Conclude(w, st) ==
    LET outcome == st.states[writer[w].ref].inflight.outcome
    IN  \/ outcome = "confirmed" /\ ReturnCleared(w, st, "success")
        \/ outcome = "rejected"  /\ ReturnCleared(w, st, "rejected")

\* The PATCH is answered with a 2xx: wait for the event, unless it is set already.
PatchSucceeds(w) ==
    /\ writer[w].pc = "patching"
    /\ IF states[writer[w].ref].inflight.outcome = "unknown"
       THEN /\ writer' = [writer EXCEPT ![w].pc = "confirming"]
            /\ UNCHANGED <<device, entry, states>>
       ELSE Conclude(w, Here)
    /\ UNCHANGED <<reconciler, history, wire, removals, phase>>

\* An API, rate-limit or transport error clears the overlay; an authentication
\* error is no AprilaireCloudApiError and passes by every except clause.
RequestFails(w) ==
    \/ "api" \in Faults  /\ ReturnCleared(w, Here, "error")
    \/ "auth" \in Faults /\ Return(w, ReleaseLock(Here, writer[w].ref), "error")

\* The PATCH is not answered with a 2xx; the cloud may still have taken it.
PatchFails(w) ==
    /\ writer[w].pc = "patching"
    /\ RequestFails(w)
    /\ \/ UNCHANGED wire
       \/ wire' = [wire EXCEPT ![w] = NoSettings]
    /\ UNCHANGED <<reconciler, history, removals, phase>>

EventWakes(w) ==
    /\ writer[w].pc = "confirming"
    /\ Conclude(w, Here)
    /\ UNCHANGED <<reconciler, history, wire, removals, phase>>

\* POST_WRITE_CONFIRM_TIMEOUT; it may win over an event that is just set.
ConfirmTimesOut(w) ==
    /\ writer[w].pc = "confirming"
    /\ writer' = [writer EXCEPT ![w].pc = "reading", ![w].attempt = 1]
    /\ UNCHANGED <<device, entry, states, reconciler, history, wire, removals, phase>>

\* _schedule_write_reconciliation
Schedule(w) ==
    reconciler' = [reconciler EXCEPT ![w].pc = "sleeping", ![w].round = 1,
                                     ![w].payload = writer[w].payload]

\* Mutant: one check too many.
OneMoreAttempt(w) == writer[w].attempt <= Attempts

\* Another check follows this one.
HasAttempt(w) == writer[w].attempt < Attempts

\* One bounded REST check after the confirmation timeout.
ReadSucceeds(w) ==
    /\ writer[w].pc = "reading"
    /\ \E t \in Recent : \E stamp \in StampsOf(t) :
        LET read    == TakeRestSettings(Here, history[t], stamp)
            outcome == read.states[writer[w].ref].inflight.outcome
            shown   == /\ Recognised(read.device)
                       /\ Shows(read.device.settings, writer[w].payload)
            unlocked == ReleaseLock(read, writer[w].ref)
        IN  \/ /\ outcome = "rejected"
               /\ ReturnCleared(w, read, "rejected")
               /\ UNCHANGED reconciler
            \/ /\ outcome = "confirmed" \/ (outcome = "unknown" /\ shown)
               /\ ReturnCleared(w, read, "success")
               /\ UNCHANGED reconciler
            \/ /\ outcome = "unknown" /\ ~shown
               /\ ~IsCurrent(read.device, writer[w].payload)
               /\ Return(w, unlocked, "success")
               /\ UNCHANGED reconciler
            \/ /\ outcome = "unknown" /\ ~shown
               /\ IsCurrent(read.device, writer[w].payload)
               /\ IF HasAttempt(w)
                  THEN /\ Become(read)
                       /\ writer' = [writer EXCEPT ![w].pc = "pausing"]
                       /\ UNCHANGED reconciler
                  ELSE /\ Return(w, unlocked, "success")
                       /\ Schedule(w)
    /\ UNCHANGED <<history, wire, removals, phase>>

ReadFails(w) ==
    /\ writer[w].pc = "reading"
    /\ RequestFails(w)
    /\ UNCHANGED <<reconciler, history, wire, removals, phase>>

PauseEnds(w) ==
    /\ writer[w].pc = "pausing"
    /\ writer' = [writer EXCEPT ![w].pc = "reading", ![w].attempt = @ + 1]
    /\ UNCHANGED <<device, entry, states, reconciler, history, wire, removals, phase>>

\* CancelledError at whichever await the call is in.
Cancel(w) ==
    LET ref == writer[w].ref
    IN  /\ "cancel" \in Faults
        /\ \/ /\ writer[w].pc = "queued"
              /\ \E i \in DOMAIN states[ref].waiters :
                    /\ states[ref].waiters[i] = W(w)
                    /\ Return(w, LeaveQueue(Here, ref, i), "cancelled")
           \/ /\ Engaged(w)
              /\ IF IsCurrent(device, writer[w].payload)
                 THEN ReturnCleared(w, Here, "cancelled")
                 ELSE Return(w, ReleaseLock(Here, ref), "cancelled")
        /\ UNCHANGED <<reconciler, history, wire, removals, phase>>

----------------------------------------------------------------------------
(* Deferred reconciliation: _async_reconcile_accepted_write                *)

ReconcilerEnds(w) ==
    reconciler' = [reconciler EXCEPT ![w] = [IdleReconciler EXCEPT !.pc = "done"]]

\* Mutant: the same delay again and again.
SameRound(w) ==
    reconciler' = [reconciler EXCEPT ![w].pc = "sleeping", ![w].ref = NoState]

NextRound(w) ==
    reconciler' = [reconciler EXCEPT ![w].pc = "sleeping", ![w].round = @ + 1,
                                     ![w].ref = NoState]

\* Mutant: an expired write keeps its overlay.
LeaveOverlay(st, payload) == st

\* After the last round, an unconfirmed overlay is taken back.
ClearIfCurrent(st, payload) ==
    IF IsCurrent(st.device, payload) THEN ClearOverlay(st, payload) ELSE st

\* The round is over and has not confirmed the write.
RoundEnds(w, st) ==
    IF reconciler[w].round < Rounds
    THEN Become(st) /\ NextRound(w)
    ELSE Become(ClearIfCurrent(st, reconciler[w].payload)) /\ ReconcilerEnds(w)

ReconcilerAt(w, pc) == reconciler[w].pc = pc /\ ~reconciler[w].cancelled

DelayElapses(w) ==
    /\ ReconcilerAt(w, "sleeping")
    /\ IF ~IsCurrent(device, reconciler[w].payload) \/ entry = NoState
       THEN Become(Here) /\ ReconcilerEnds(w)
       ELSE IF LockIsFree(states[entry])
            THEN /\ Become(TakeLock(Here, entry, R(w)))
                 /\ reconciler' = [reconciler EXCEPT ![w].pc = "reading", ![w].ref = entry]
            ELSE /\ Become(WaitForLock(Here, entry, R(w)))
                 /\ reconciler' = [reconciler EXCEPT ![w].pc = "locking", ![w].ref = entry]
    /\ UNCHANGED <<writer, history, wire, removals, phase>>

ReconcilerAcquires(w) ==
    LET ref  == reconciler[w].ref
        held == TakeLock(Here, ref, R(w))
    IN  /\ ReconcilerAt(w, "locking")
        /\ LockIsGranted(states[ref], R(w))
        /\ IF IsCurrent(device, reconciler[w].payload)
           THEN /\ Become(held)
                /\ reconciler' = [reconciler EXCEPT ![w].pc = "reading"]
           ELSE /\ Become(ReleaseLock(held, ref))
                /\ ReconcilerEnds(w)
        /\ UNCHANGED <<writer, history, wire, removals, phase>>

DeferredReadSucceeds(w) ==
    /\ ReconcilerAt(w, "reading")
    /\ \E t \in Recent : \E stamp \in StampsOf(t) :
        LET read == ReleaseLock(TakeRestSettings(Here, history[t], stamp),
                                reconciler[w].ref)
        IN  IF Recognised(read.device) /\ Shows(read.device.settings, reconciler[w].payload)
            THEN Become(ClearOverlay(read, reconciler[w].payload)) /\ ReconcilerEnds(w)
            ELSE RoundEnds(w, read)
    /\ UNCHANGED <<writer, history, wire, removals, phase>>

DeferredReadFails(w) ==
    /\ ReconcilerAt(w, "reading")
    /\ Faults \cap {"api", "auth"} # {}
    /\ RoundEnds(w, ReleaseLock(Here, reconciler[w].ref))
    /\ UNCHANGED <<writer, history, wire, removals, phase>>

\* The task runs into the CancelledError async_shutdown sent it.
ReconcilerUnwinds(w) ==
    LET ref == reconciler[w].ref
    IN  /\ Reconciling(w) /\ reconciler[w].cancelled
        /\ CASE reconciler[w].pc = "sleeping" -> Become(Here)
             [] reconciler[w].pc = "reading"  -> Become(ReleaseLock(Here, ref))
             [] reconciler[w].pc = "locking"  ->
                    \E i \in DOMAIN states[ref].waiters :
                        states[ref].waiters[i] = R(w) /\ Become(LeaveQueue(Here, ref, i))
        /\ ReconcilerEnds(w)
        /\ UNCHANGED <<writer, history, wire, removals, phase>>

----------------------------------------------------------------------------
(* What reaches the device from outside the two tasks                      *)

\* _process_message of a DeviceSettings push.  It does not sync the write state.
Push ==
    /\ device.present /\ phase # "stopped"
    /\ \E t \in Recent, view \in PushView : \E stamp \in StampsOf(t) :
        LET document == Visible(history[t], view)
            applied  == [Here EXCEPT !.device = ApplyIncremental(@, document, stamp)]
        IN  Become(ObserveInflight(applied, document, stamp, "websocket"))
    /\ UNCHANGED <<writer, reconciler, history, wire, removals, phase>>

\* The settings half of a coordinator refresh, taken under no lock.
RefreshSettings ==
    /\ device.present
    /\ \E t \in Recent : \E stamp \in StampsOf(t) :
        Become(TakeRestSettings(Here, history[t], stamp))
    /\ UNCHANGED <<writer, reconciler, history, wire, removals, phase>>

\* _apply_hierarchy without the device: record and write state are dropped.
RemoveDevice ==
    /\ "remove" \in Faults /\ removals < MaxRemovals
    /\ device.present
    /\ device' = NoDevice /\ entry' = NoState
    /\ removals' = removals + 1
    /\ UNCHANGED <<states, writer, reconciler, history, wire, phase>>

\* _apply_hierarchy with the device again: a blank record, on which a push cached
\* while it was unknown may be replayed.
RediscoverDevice ==
    LET blank == [NoDevice EXCEPT !.present = TRUE]
    IN  /\ ~device.present
        /\ \/ device' = blank
           \/ \E t \in Recent, view \in PushView : \E stamp \in StampsOf(t) :
                device' = ApplyIncremental(blank, Visible(history[t], view), stamp)
        /\ UNCHANGED <<entry, states, writer, reconciler, history, wire, removals, phase>>

\* async_shutdown cancels the reconciliation tasks it knows and waits for them.
BeginShutdown ==
    /\ "stop" \in Faults /\ phase = "running"
    /\ phase' = "stopping"
    /\ reconciler' = [w \in Writer |-> [reconciler[w] EXCEPT !.cancelled = Reconciling(w)]]
    /\ UNCHANGED <<device, entry, states, writer, history, wire, removals>>

\* ... then clears the set and stops the sockets.
EndShutdown ==
    /\ phase = "stopping"
    /\ ~ \E w \in Writer : Reconciling(w) /\ reconciler[w].cancelled
    /\ phase' = "stopped"
    /\ UNCHANGED <<device, entry, states, writer, reconciler, history, wire, removals>>

\* The cloud applies a PATCH it received, within the device's own resolution.
CloudApplies(w) ==
    LET body == wire[w]
        last == history[Len(history)]
    IN  /\ body # NoSettings /\ Len(history) < MaxHistory
        /\ \E stored \in Settings :
            /\ \A l \in Leaves(body) : <<stored[l], body[l]>> \in Near
            /\ \A l \in Leaf \ Leaves(body) : stored[l] = last[l]
            /\ history' = Append(history, stored)
        /\ wire' = [wire EXCEPT ![w] = NoSettings]
        /\ UNCHANGED <<device, entry, states, writer, reconciler, removals, phase>>

\* Another client, a schedule or the thermostat itself sets a leaf, perhaps to
\* the value it has.
CloudChanges ==
    /\ "foreign" \in Faults /\ Len(history) < MaxHistory
    /\ \E l \in Leaf, v \in Value :
        history' = Append(history, [history[Len(history)] EXCEPT ![l] = v])
    /\ UNCHANGED <<device, entry, states, writer, reconciler, wire, removals, phase>>

WriterStep(w) ==
    \/ Acquire(w) \/ PatchSucceeds(w) \/ PatchFails(w) \/ EventWakes(w)
    \/ ConfirmTimesOut(w) \/ ReadSucceeds(w) \/ ReadFails(w) \/ PauseEnds(w)
ReconcilerStep(w) ==
    \/ DelayElapses(w) \/ ReconcilerAcquires(w) \/ DeferredReadSucceeds(w)
    \/ DeferredReadFails(w) \/ ReconcilerUnwinds(w)

Next ==
    \/ \E w \in Writer :
        \/ \E command \in Command : Call(w, command)
        \/ WriterStep(w) \/ Cancel(w) \/ ReconcilerStep(w) \/ CloudApplies(w)
    \/ Push \/ RefreshSettings \/ RemoveDevice \/ RediscoverDevice
    \/ BeginShutdown \/ EndShutdown \/ CloudChanges

Spec == Init /\ [][Next]_vars

\* Some await of the task is over, or must end by itself.
WriterCanStep(w) ==
    \/ Engaged(w)
    \/ writer[w].pc = "queued" /\ LockIsGranted(states[writer[w].ref], W(w))
ReconcilerCanStep(w) ==
    \/ Reconciling(w) /\ reconciler[w].cancelled
    \/ reconciler[w].pc \in {"sleeping", "reading"}
    \/ /\ reconciler[w].pc = "locking"
       /\ LockIsGranted(states[reconciler[w].ref], R(w))

\* Every await of a task ends: requests and the confirmation wait have timeouts,
\* sleeps elapse, and asyncio wakes the first waiter of a released lock.  This is
\* WF_vars(WriterStep(w)) /\ WF_vars(ReconcilerStep(w)) with ENABLED spelled out.
FairSpec ==
    /\ Spec
    /\ \A w \in Writer :
        /\ []<>~WriterCanStep(w) \/ []<><<WriterStep(w)>>_vars
        /\ []<>~ReconcilerCanStep(w) \/ []<><<ReconcilerStep(w)>>_vars

----------------------------------------------------------------------------
(* Properties                                                              *)

\* Every variable holds what its Python counterpart may hold.
TypeOK ==
    /\ device \in DeviceRecord
    /\ entry \in StateRef \cup {NoState}
    /\ states \in [StateRef -> WriteState]
    /\ writer \in [Writer -> WriterState]
    /\ reconciler \in [Writer -> ReconcilerState]
    /\ history \in Seq(Settings) /\ history # <<>>
    /\ wire \in [Writer -> Settings]
    /\ removals \in Nat
    /\ phase \in {"running", "stopping", "stopped"}

\* The one in-flight slot of a write state and its lock go together: a call with
\* a request under way holds the lock and owns the slot, an owned slot belongs to
\* such a call, and a deferred read happens only with the lock held.  A handler
\* that returned without the finally clause, or released early, would break it.
LockDiscipline ==
    /\ \A w \in Writer : Engaged(w) =>
        /\ states[writer[w].ref].holder = W(w)
        /\ states[writer[w].ref].inflight.owner = w
    /\ \A ref \in StateRef : LET w == states[ref].inflight.owner IN
        w # Nobody => Engaged(w) /\ writer[w].ref = ref
    /\ \A w \in Writer : reconciler[w].pc = "reading" =>
        states[reconciler[w].ref].holder = R(w)

\* active_writers counts exactly the calls inside async_execute_command that
\* refer to the write state, on every exit path: success, refusal, failure,
\* cancellation in the queue or in a request.
WritersCounted ==
    \A ref \in StateRef : states[ref].active =
        Cardinality({w \in Writer : Running(w) /\ writer[w].ref = ref})

\* While the hierarchy keeps the device, no push, refresh or other call's end
\* discards the write state a call is using, so all calls queue at one lock.
EntryOutlivesCalls ==
    removals = 0 => \A w \in Writer : Running(w) => entry = writer[w].ref

\* A tracked overlay always has a write state.  _async_reconcile_accepted_write
\* gives up without clearing the overlay when it finds none.
OverlayIsTracked ==
    Leaves(device.pending) # {} => device.present /\ entry # NoState

\* An in-flight write is decided only by a document the cloud published after
\* the version the write started from: a confirmation by one that shows the
\* command, a rejection by one that does not.  Late, repeated, partial and
\* unstamped documents never decide.
DecidedByNewerDocument ==
    \A ref \in StateRef : LET flight == states[ref].inflight IN
        flight.outcome # "unknown" =>
            \E t \in 1..Len(history) :
                /\ flight.version.asOf # NoStamp /\ t > flight.version.asOf
                /\ Shows(history[t], flight.payload) <=> flight.outcome = "confirmed"

\* Every optimistic leaf is some running task's to resolve: a call under way or
\* a deferred reconciliation that requested this very value.  What nobody owns
\* would be shown to the user until the cloud happens to report it.
OverlayOwned ==
    phase = "running" =>
        \A l \in Leaves(device.pending) : \E w \in Writer :
            \/ Engaged(w) /\ writer[w].payload[l] = device.pending[l]
            \/ Reconciling(w) /\ reconciler[w].payload[l] = device.pending[l]

\* No end of another task, confirmation, failure or expiry, takes an optimistic
\* leaf from a call that is still under way, unless that task asked for the same
\* value; only the cloud reporting the value or the device's removal does.
OwnOverlayOnly ==
    [][\A w \in Writer : \A l \in Leaves(writer[w].payload) :
        (/\ Engaged(w) /\ Engaged(w)' /\ device'.present
         /\ device.pending[l] = writer[w].payload[l]
         /\ device'.pending[l] = Absent)
        => \/ device'.settings[l] = writer[w].payload[l]
           \/ \E v \in Writer \ {w} : writer[w].payload[l] \in
                {writer[v].payload[l], reconciler[v].payload[l]}]_vars

\* While the device stays, its settings version never goes back: not in time,
\* not from a stamp to none, not from push to REST at the same stamp.
VersionNeverRegresses ==
    [][device.present /\ device'.present => NotOlder(device'.version, device.version)]_vars

\* What a task still owes of the overlay: a call inside the lock, then the
\* reconciliation it may leave behind.
Owed(w) == IF Engaged(w) THEN writer[w].payload
           ELSE IF Reconciling(w) THEN reconciler[w].payload ELSE NoSettings
Debts == [w \in Writer |-> Owed(w)]
Verdicts == [w \in Writer |-> writer[w].result]

Promises == INSTANCE WritePromise WITH
    Caller <- Writer,
    reported <- device.settings,
    promised <- device.pending,
    debt <- Debts,
    verdict <- Verdicts,
    closing <- phase # "running"

\* The writes implement WritePromise: no handler, on any path, takes back another
\* call's value, is rejected or fails with its own still shown, or stops following
\* up a command that is still shown whole.
KeepsPromise == Promises!Spec

\* A call the cloud has answered with a 2xx does not fail as if it had been
\* refused: it succeeds, is rejected by evidence, or is cancelled.
AcceptedWriteDoesNotFail ==
    [][\A w \in Writer : writer[w].pc \in {"confirming", "reading", "pausing"} =>
        writer'[w].result # "error"]_vars

\* Every service call returns: the queue at the lock moves and no call waits for
\* a push that never comes.
CallsReturn == \A w \in Writer : Running(w) ~> writer[w].pc = "done"

\* Deferred reconciliation is bounded.
ReconciliationEnds == \A w \in Writer : Reconciling(w) ~> ~Reconciling(w)

\* An optimistic leaf does not stay: it is confirmed or taken back.
OverlayResolves ==
    \A l \in Leaf : device.pending[l] # Absent ~> device.pending[l] = Absent
=============================================================================
