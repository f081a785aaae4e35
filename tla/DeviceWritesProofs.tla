------------------------- MODULE DeviceWritesProofs -------------------------
(***************************************************************************)
(* What holds of device writes for every set of calls, leaves, values and  *)
(* faults and for every bound: the types, the discipline of the in-flight  *)
(* slot and its lock, and that the settings version never goes back.       *)
(***************************************************************************)
EXTENDS DeviceWrites, SettingsStateProofs, SequenceTheorems, FiniteSetTheorems

\* What a handler threads through the helpers.
CoordState == [device : DeviceRecord,
               entry  : StateRef \cup {NoState},
               states : [StateRef -> WriteState]]

----------------------------------------------------------------------------
(* Types: every helper takes a CoordState to a CoordState                  *)

\* The empty slot is a slot.
LEMMA NoInflightType == NoInflight \in Inflight
BY NoSettingsType DEF NoInflight, Inflight, NoVersion, Version, Outcome

\* A new DeviceWriteState is a write state.
LEMMA FreshStateType == FreshState \in WriteState
BY NoInflightType DEF FreshState, WriteState

\* The names a handler may give a new write state are names.
LEMMA RefsType ==
    /\ SyncRef \in StateRef
    /\ \A w \in Writer : <<"call", w>> \in StateRef /\ <<"begin", w>> \in StateRef
BY DEF StateRef

\* A call and its reconciliation are two tasks, and neither is Nobody.
LEMMA TasksDiffer ==
    ASSUME NEW v \in Writer, NEW w \in Writer
    PROVE  /\ W(w) \in Task /\ R(w) \in Task
           /\ W(w) # Nobody /\ R(w) # Nobody /\ w # Nobody
           /\ W(v) # R(w)
           /\ W(v) = W(w) => v = w
           /\ R(v) = R(w) => v = w
BY NobodyAssumption DEF W, R, Task

\* A write state with another device's pending paths is a write state.
LEMMA SyncWriteStateType ==
    ASSUME NEW st \in CoordState, NEW fresh \in StateRef
    PROVE  /\ SyncWriteState(st, fresh) \in CoordState
           /\ SyncWriteState(st, fresh).device = st.device
<1> DEFINE ref == IF st.entry = NoState THEN fresh ELSE st.entry
           ws  == [st.states[ref] EXCEPT !.pendingPaths = Leaves(st.device.pending)]
<1>1. ref \in StateRef
  BY DEF CoordState
<1>2. Leaves(st.device.pending) \in SUBSET Leaf
  BY LeavesType DEF CoordState, DeviceRecord
<1>3. st.states[ref] \in WriteState
  BY <1>1 DEF CoordState
<1>4. ws \in WriteState
  BY <1>2, <1>3 DEF WriteState
<1> HIDE DEF ws, ref
<1>5. ASSUME NEW e \in StateRef \cup {NoState}
      PROVE  /\ [st EXCEPT !.entry = e, !.states[ref] = ws] \in CoordState
             /\ [st EXCEPT !.entry = e, !.states[ref] = ws].device = st.device
  BY <1>1, <1>4 DEF CoordState
<1>6. [st EXCEPT !.entry = NoState] \in CoordState /\ [st EXCEPT !.entry = NoState].device = st.device
  BY DEF CoordState
<1>7. QED
  BY <1>1, <1>5, <1>6 DEF SyncWriteState, ws, ref

\* _clear_pending_device_settings keeps the types.
LEMMA ClearOverlayType ==
    ASSUME NEW st \in CoordState, NEW p \in Settings
    PROVE  ClearOverlay(st, p) \in CoordState
<1>1. ClearPending(st.device, p) \in DeviceRecord
  BY ClearPendingType DEF CoordState
<1>2. [st EXCEPT !.device = ClearPending(@, p)] \in CoordState
  BY <1>1 DEF CoordState
<1>3. QED
  BY <1>2, SyncWriteStateType, RefsType DEF ClearOverlay

\* _observe_inflight_settings keeps the types.
LEMMA ObserveInflightType ==
    ASSUME NEW st \in CoordState, NEW doc, NEW stamp, NEW source
    PROVE  /\ ObserveInflight(st, doc, stamp, source) \in CoordState
           /\ ObserveInflight(st, doc, stamp, source).device = st.device
<1> DEFINE verdict == Verdict(st.device, st.states[st.entry].inflight)
<1>1. verdict \in Outcome
  BY DEF Verdict, Outcome
<1> HIDE DEF verdict
<1>2. ASSUME st.entry # NoState
      PROVE  [st EXCEPT !.states[st.entry].inflight.outcome = verdict] \in CoordState
  <2>1. st.entry \in StateRef /\ st.states[st.entry] \in WriteState
    BY <1>2 DEF CoordState
  <2>2. [st.states[st.entry] EXCEPT !.inflight.outcome = verdict] \in WriteState
    BY <1>1, <2>1 DEF WriteState, Inflight
  <2>3. QED
    BY <2>1, <2>2 DEF CoordState
<1>3. [st EXCEPT !.states[st.entry].inflight.outcome = verdict].device = st.device
  BY DEF CoordState
<1>4. QED
  BY <1>2, <1>3 DEF ObserveInflight, verdict

\* _apply_full_device_settings keeps the types.
LEMMA TakeRestSettingsType ==
    ASSUME NEW st \in CoordState, NEW doc \in Settings, NEW stamp \in Stamp
    PROVE  TakeRestSettings(st, doc, stamp) \in CoordState
<1> DEFINE applied == [st EXCEPT !.device = ApplyFull(@, doc, stamp)]
<1>1. applied \in CoordState
  BY ApplyFullType DEF CoordState
<1>2. SyncWriteState(applied, SyncRef) \in CoordState
  BY <1>1, SyncWriteStateType, RefsType
<1>3. QED
  BY <1>2, ObserveInflightType DEF TakeRestSettings

\* Taking, awaiting, releasing and leaving the lock keep the types.
LEMMA LockOperationsType ==
    ASSUME NEW st \in CoordState, NEW ref \in StateRef, NEW task \in Task
    PROVE  /\ TakeLock(st, ref, task) \in CoordState
           /\ WaitForLock(st, ref, task) \in CoordState
           /\ ReleaseLock(st, ref) \in CoordState
           /\ \A i \in DOMAIN st.states[ref].waiters : LeaveQueue(st, ref, i) \in CoordState
<1> DEFINE ws == st.states[ref]
<1>1. ws \in WriteState /\ ws.waiters \in Seq(Task)
  BY DEF CoordState, WriteState
<1>2. TakeLock(st, ref, task) \in CoordState
  <2>1. (IF ws.waiters = <<>> THEN ws.waiters ELSE Tail(ws.waiters)) \in Seq(Task)
    BY <1>1
  <2>2. [ws EXCEPT !.holder = task,
                   !.waiters = IF @ = <<>> THEN @ ELSE Tail(@)] \in WriteState
    BY <1>1, <2>1 DEF WriteState
  <2>3. QED
    BY <2>2 DEF CoordState, TakeLock
<1>3. WaitForLock(st, ref, task) \in CoordState
  <2>1. Append(ws.waiters, task) \in Seq(Task)
    BY <1>1
  <2>2. [ws EXCEPT !.waiters = Append(@, task)] \in WriteState
    BY <1>1, <2>1 DEF WriteState
  <2>3. QED
    BY <2>2 DEF CoordState, WaitForLock
<1>4. ReleaseLock(st, ref) \in CoordState
  <2>1. [ws EXCEPT !.holder = Nobody] \in WriteState
    BY <1>1 DEF WriteState
  <2>2. QED
    BY <2>1 DEF CoordState, ReleaseLock
<1>5. ASSUME NEW i \in DOMAIN ws.waiters PROVE LeaveQueue(st, ref, i) \in CoordState
  <2> DEFINE q == ws.waiters
             before == SubSeq(q, 1, i - 1)
             after  == SubSeq(q, i + 1, Len(q))
  <2>1. i \in 1..Len(q) /\ Len(q) \in Nat
    BY <1>1
  <2>2. before \in Seq(Task) /\ after \in Seq(Task)
    BY <1>1, <2>1, SubSeqProperties
  <2>3. before \o after \in Seq(Task)
    BY <2>2, ConcatProperties
  <2>4. [ws EXCEPT !.waiters = before \o after] \in WriteState
    BY <1>1, <2>3 DEF WriteState
  <2>5. QED
    BY <2>4 DEF CoordState, LeaveQueue
<1>6. QED
  BY <1>2, <1>3, <1>4, <1>5

\* encode_command gives a payload.
LEMMA EncodeType ==
    ASSUME NEW dev \in DeviceRecord, NEW command \in Settings
    PROVE  Encode(dev, command) \in Settings
<1>1. Effective(dev) \in Settings
  BY MergeType DEF Effective, DeviceRecord
<1>2. QED
  BY <1>1 DEF Encode, Settings

\* What runs between the lock and the PATCH keeps the types.
LEMMA BeginWriteType ==
    ASSUME NEW st \in CoordState, NEW w \in Writer, NEW ref \in StateRef, NEW p \in Settings
    PROVE  BeginWrite(st, w, ref, p) \in CoordState
<1> DEFINE shown    == [st EXCEPT !.device = ApplyPending(@, p)]
           overlaid == SyncWriteState(shown, <<"begin", w>>)
           flight   == [owner |-> w, payload |-> p, version |-> st.device.version,
                        settings |-> st.device.settings, outcome |-> "unknown"]
<1>1. shown \in CoordState
  BY ApplyPendingType DEF CoordState
<1>2. overlaid \in CoordState
  BY <1>1, SyncWriteStateType, RefsType
<1>3. flight \in Inflight
  BY DEF Inflight, CoordState, DeviceRecord, Outcome
<1>4. Leaves(p) \in SUBSET Leaf
  BY LeavesType
<1> HIDE DEF overlaid, flight
<1>5. [overlaid.states[ref] EXCEPT !.pendingPaths = @ \cup Leaves(p),
                                   !.inflight = flight] \in WriteState
  BY <1>2, <1>3, <1>4 DEF CoordState, WriteState
<1>6. [overlaid EXCEPT !.states[ref].pendingPaths = @ \cup Leaves(p),
                       !.states[ref].inflight = flight] \in CoordState
  BY <1>2, <1>5 DEF CoordState
<1>7. QED
  BY <1>6 DEF BeginWrite, overlaid, flight

\* The finally clause keeps the types.
LEMMA FinishWriteType ==
    ASSUME NEW st \in CoordState, NEW w \in Writer, NEW ref \in StateRef
    PROVE  FinishWrite(st, w, ref) \in CoordState
<1> DEFINE ws   == st.states[ref]
           slot == IF ws.inflight.owner = w THEN NoInflight ELSE ws.inflight
           left == [st EXCEPT !.states[ref].inflight = IF @.owner = w THEN NoInflight ELSE @,
                              !.states[ref].active = @ - 1]
<1>1. ws \in WriteState /\ slot \in Inflight /\ ws.active - 1 \in Int
  BY NoInflightType DEF CoordState, WriteState
<1>2. [ws EXCEPT !.inflight = slot, !.active = ws.active - 1] \in WriteState
  BY <1>1 DEF WriteState
<1>3. left = [st EXCEPT !.states = [@ EXCEPT ![ref] =
                  [ws EXCEPT !.inflight = slot, !.active = ws.active - 1]]]
  BY DEF CoordState
<1>4. left \in CoordState
  BY <1>2, <1>3 DEF CoordState
<1>5. QED
  BY <1>4, SyncWriteStateType, RefsType DEF FinishWrite
----------------------------------------------------------------------------
(* Type correctness.  TypeOK is not inductive: a call that leaves the lock  *)
(* needs the write state it refers to, and a pause needs an attempt left.   *)

StoreOK == Here \in CoordState
CallsOK ==
    /\ writer \in [Writer -> WriterState]
    /\ \A w \in Writer : /\ Running(w) => writer[w].ref \in StateRef
                         /\ writer[w].pc = "pausing" => writer[w].attempt < Attempts
ReconcilersOK ==
    /\ reconciler \in [Writer -> ReconcilerState]
    /\ \A w \in Writer :
        reconciler[w].pc \in {"locking", "reading"} => reconciler[w].ref \in StateRef
CloudOK ==
    /\ history \in Seq(Settings) /\ history # <<>>
    /\ wire \in [Writer -> Settings]
    /\ removals \in Nat
    /\ phase \in {"running", "stopping", "stopped"}

TypeInv == StoreOK /\ CallsOK /\ ReconcilersOK /\ CloudOK

\* The strengthened invariant gives the type invariant.
LEMMA TypeInvIsTypeOK == TypeInv => TypeOK
BY DEF TypeInv, TypeOK, StoreOK, CallsOK, ReconcilersOK, CloudOK, Here, CoordState

\* A handler that ends in a coordinator state establishes StoreOK.
LEMMA BecomeType ==
    ASSUME NEW st \in CoordState, Become(st)
    PROVE  StoreOK'
BY DEF Become, StoreOK, Here, CoordState

\* The documents the cloud can answer with now, and their stamps.
LEMMA RecentType ==
    ASSUME TypeInv, NEW t \in Recent
    PROVE  /\ t \in 1..Len(history) /\ history[t] \in Settings
           /\ \A stamp \in StampsOf(t) : stamp \in Stamp
           /\ \A view : Visible(history[t], view) \in Settings
<1>1. t \in 1..Len(history) /\ history \in Seq(Settings)
  BY DEF Recent, TypeInv, CloudOK
<1>2. history[t] \in Settings /\ t \in Nat
  BY <1>1
<1>3. QED
  BY <1>1, <1>2 DEF StampsOf, Stamp, NoStamp, Visible, Settings

\* The coordinator starts in a typed state.
LEMMA InitTypeInv == Init => TypeInv
<1> SUFFICES ASSUME Init PROVE TypeInv
  OBVIOUS
<1>1. PICK document \in Hydrated : history = <<document>>
  BY DEF Init
<1>2. history \in Seq(Settings) /\ history # <<>> /\ history[1] \in Settings
  BY <1>1, PairAssumption
<1>3. PICK stamp \in StampsOf(1) :
        device = [present |-> TRUE, settings |-> history[1], pending |-> NoSettings,
                  version |-> [asOf |-> stamp, source |-> "rest"]]
  BY DEF Init
<1>4. stamp \in Stamp
  BY DEF StampsOf, Stamp, NoStamp
<1>5. device \in DeviceRecord
  BY <1>2, <1>3, <1>4, NoSettingsType DEF DeviceRecord, Version, Source, Precedence
<1>6. entry \in StateRef \cup {NoState} /\ states \in [StateRef -> WriteState]
  BY FreshStateType DEF Init
<1>7. StoreOK
  BY <1>5, <1>6 DEF StoreOK, Here, CoordState
<1>8. CallsOK
  BY NoSettingsType
  DEF Init, CallsOK, IdleWriter, WriterState, WriterPc, Running, Attempts, Result
<1>9. ReconcilersOK
  BY NoSettingsType
  DEF Init, ReconcilersOK, IdleReconciler, ReconcilerState, ReconcilerPc, Rounds
<1>10. CloudOK
  BY <1>2, NoSettingsType DEF Init, CloudOK
<1>11. QED
  BY <1>7, <1>8, <1>9, <1>10 DEF TypeInv

\* A call's record is replaced by another one.
LEMMA CallReplaced ==
    ASSUME CallsOK, NEW w \in Writer, NEW c \in WriterState,
           c.pc \notin {"idle", "done"} => c.ref \in StateRef,
           c.pc = "pausing" => c.attempt < Attempts,
           writer' = [writer EXCEPT ![w] = c]
    PROVE  CallsOK'
<1>1. writer' \in [Writer -> WriterState]
  BY DEF CallsOK
<1>2. ASSUME NEW v \in Writer
      PROVE  /\ Running(v)' => writer'[v].ref \in StateRef
             /\ writer'[v].pc = "pausing" => writer'[v].attempt < Attempts
  <2>1. CASE v = w
    <3>1. writer'[v] = c
      BY <2>1 DEF CallsOK
    <3>2. QED
      BY <3>1 DEF Running
  <2>2. CASE v # w
    <3>1. writer'[v] = writer[v]
      BY <2>2 DEF CallsOK
    <3>2. QED
      BY <3>1 DEF Running, CallsOK
  <2>3. QED
    BY <2>1, <2>2
<1>3. QED
  BY <1>1, <1>2 DEF CallsOK

\* A call that is over needs no write state any more.
LEMMA CallEnded ==
    ASSUME CallsOK, NEW w \in Writer, NEW result \in Result,
           writer' = [writer EXCEPT ![w] = [IdleWriter EXCEPT !.pc = "done", !.result = result]]
    PROVE  CallsOK'
<1> DEFINE c == [IdleWriter EXCEPT !.pc = "done", !.result = result]
<1>1. IdleWriter \in WriterState
  BY NoSettingsType DEF IdleWriter, WriterState, WriterPc, Attempts, Result
<1>2. c \in WriterState /\ c.pc = "done"
  BY <1>1 DEF WriterState, WriterPc
<1> HIDE DEF c
<1>3. writer' = [writer EXCEPT ![w] = c]
  BY DEF c
<1>4. QED
  BY <1>2, <1>3, CallReplaced

\* A call may return from any typed coordinator state.
LEMMA ReturnType ==
    ASSUME TypeInv, NEW w \in Writer, NEW st \in CoordState, NEW result \in Result,
           writer[w].ref \in StateRef, Return(w, st, result)
    PROVE  StoreOK' /\ CallsOK'
<1>1. StoreOK'
  <2>1. FinishWrite(st, w, writer[w].ref) \in CoordState
    BY FinishWriteType
  <2>2. QED
    BY <2>1, BecomeType DEF Return
<1>2. CallsOK'
  BY CallEnded DEF TypeInv, Return
<1>3. QED
  BY <1>1, <1>2

\* The same when it clears its overlay on the way.
LEMMA ReturnClearedType ==
    ASSUME TypeInv, NEW w \in Writer, NEW st \in CoordState, NEW result \in Result,
           writer[w].ref \in StateRef, ReturnCleared(w, st, result)
    PROVE  StoreOK' /\ CallsOK'
<1>1. W(w) \in Task /\ writer[w].payload \in Settings
  BY TasksDiffer DEF TypeInv, CallsOK, WriterState
<1>2. ReleaseLock(st, writer[w].ref) \in CoordState
  BY <1>1, LockOperationsType
<1>3. ClearOverlay(ReleaseLock(st, writer[w].ref), writer[w].payload) \in CoordState
  BY <1>1, <1>2, ClearOverlayType
<1>4. QED
  BY <1>3, ReturnType DEF ReturnCleared

\* Either kind of failed request returns in a typed state.
LEMMA RequestFailsType ==
    ASSUME TypeInv, NEW w \in Writer, writer[w].ref \in StateRef, RequestFails(w)
    PROVE  StoreOK' /\ CallsOK'
<1>1. Here \in CoordState /\ "error" \in Result /\ W(w) \in Task
  BY TasksDiffer DEF TypeInv, StoreOK, Result
<1>2. ReleaseLock(Here, writer[w].ref) \in CoordState
  BY <1>1, LockOperationsType
<1>3. QED
  BY <1>1, <1>2, ReturnType, ReturnClearedType DEF RequestFails

\* A call that got the lock sends a typed PATCH or ends.
LEMMA EnterLockType ==
    ASSUME TypeInv, NEW w \in Writer, NEW st \in CoordState, NEW ref \in StateRef,
           NEW command \in Settings, EnterLock(w, st, ref, command)
    PROVE  StoreOK' /\ CallsOK' /\ wire' \in [Writer -> Settings]
<1> DEFINE payload == Encode(st.device, command)
<1>1. payload \in Settings
  BY EncodeType DEF CoordState
<1>2. wire \in [Writer -> Settings] /\ writer \in [Writer -> WriterState]
  BY DEF TypeInv, CloudOK, CallsOK
<1>3. CASE CanEncode(st.device, command)
  <2>1. StoreOK'
    BY <1>1, <1>3, BeginWriteType, BecomeType DEF EnterLock
  <2>2. writer' = [writer EXCEPT ![w].pc = "patching", ![w].ref = ref,
                                 ![w].command = command, ![w].payload = payload]
    BY <1>3 DEF EnterLock
  <2> HIDE DEF payload
  <2>3. CallsOK'
    <3> DEFINE c == [writer[w] EXCEPT !.pc = "patching", !.ref = ref,
                                      !.command = command, !.payload = payload]
    <3>1. writer[w] \in WriterState
      BY <1>2
    <3>2. c \in WriterState /\ c.pc = "patching" /\ c.ref = ref
      BY <1>1, <3>1 DEF WriterState, WriterPc
    <3>3. writer' = [writer EXCEPT ![w] = c]
      BY <2>2
    <3>4. QED
      BY <3>2, <3>3, CallReplaced DEF TypeInv
  <2>4. wire' \in [Writer -> Settings]
    BY <1>1, <1>2, <1>3 DEF EnterLock, payload
  <2>5. QED
    BY <2>1, <2>3, <2>4
<1>4. CASE ~CanEncode(st.device, command)
  <2>1. W(w) \in Task
    BY TasksDiffer
  <2>2. FinishWrite(ReleaseLock(st, ref), w, ref) \in CoordState
    BY <2>1, LockOperationsType, FinishWriteType
  <2>3. StoreOK'
    BY <1>4, <2>2, BecomeType DEF EnterLock
  <2>4. writer' = [writer EXCEPT ![w] = [IdleWriter EXCEPT !.pc = "done", !.result = "error"]]
    BY <1>4 DEF EnterLock
  <2>5. CallsOK'
    BY <2>4, CallEnded DEF TypeInv, Result
  <2>6. QED
    BY <1>2, <1>4, <2>3, <2>5 DEF EnterLock
<1>5. QED
  BY <1>3, <1>4
\* A reconciliation's record is replaced by another one.
LEMMA ReconcilerReplaced ==
    ASSUME ReconcilersOK, NEW w \in Writer, NEW c \in ReconcilerState,
           c.pc \in {"locking", "reading"} => c.ref \in StateRef,
           reconciler' = [reconciler EXCEPT ![w] = c]
    PROVE  ReconcilersOK'
<1>1. reconciler' \in [Writer -> ReconcilerState]
  BY DEF ReconcilersOK
<1>2. ASSUME NEW v \in Writer
      PROVE  reconciler'[v].pc \in {"locking", "reading"} => reconciler'[v].ref \in StateRef
  BY DEF ReconcilersOK
<1>3. QED
  BY <1>1, <1>2 DEF ReconcilersOK

\* A reconciliation that is over needs no write state any more.
LEMMA ReconcilerEndsType ==
    ASSUME ReconcilersOK, NEW w \in Writer, ReconcilerEnds(w)
    PROVE  ReconcilersOK'
<1> DEFINE c == [IdleReconciler EXCEPT !.pc = "done"]
<1>1. IdleReconciler \in ReconcilerState
  BY NoSettingsType DEF IdleReconciler, ReconcilerState, ReconcilerPc, Rounds
<1>2. c \in ReconcilerState /\ c.pc = "done"
  BY <1>1 DEF ReconcilerState, ReconcilerPc
<1> HIDE DEF c
<1>3. reconciler' = [reconciler EXCEPT ![w] = c]
  BY DEF c, ReconcilerEnds
<1>4. QED
  BY <1>2, <1>3, ReconcilerReplaced

\* _schedule_write_reconciliation starts a typed task.
LEMMA ScheduleType ==
    ASSUME TypeInv, NEW w \in Writer, Schedule(w)
    PROVE  ReconcilersOK'
<1> DEFINE c == [reconciler[w] EXCEPT !.pc = "sleeping", !.round = 1,
                                      !.payload = writer[w].payload]
<1>1. /\ reconciler[w] \in ReconcilerState
      /\ writer[w].payload \in Settings
      /\ 1 \in 0..Rounds
  BY DEF TypeInv, ReconcilersOK, CallsOK, WriterState, Rounds
<1>2. c \in ReconcilerState /\ c.pc = "sleeping"
  BY <1>1 DEF ReconcilerState, ReconcilerPc
<1>3. reconciler' = [reconciler EXCEPT ![w] = c]
  BY DEF Schedule
<1>4. QED
  BY <1>2, <1>3, ReconcilerReplaced DEF TypeInv

\* The end of a round keeps the types, the last one included.
LEMMA RoundEndsType ==
    ASSUME TypeInv, NEW w \in Writer, NEW st \in CoordState, RoundEnds(w, st)
    PROVE  StoreOK' /\ ReconcilersOK'
<1>1. reconciler[w] \in ReconcilerState /\ reconciler[w].payload \in Settings
  BY DEF TypeInv, ReconcilersOK, ReconcilerState
<1>2. CASE reconciler[w].round < Rounds
  <2> DEFINE c == [reconciler[w] EXCEPT !.pc = "sleeping", !.round = @ + 1, !.ref = NoState]
  <2>1. reconciler[w].round + 1 \in 0..Rounds
    BY <1>1, <1>2 DEF ReconcilerState, Rounds
  <2>2. c \in ReconcilerState /\ c.pc = "sleeping"
    BY <1>1, <2>1 DEF ReconcilerState, ReconcilerPc
  <2>3. reconciler' = [reconciler EXCEPT ![w] = c]
    BY <1>2 DEF RoundEnds, NextRound
  <2>4. StoreOK'
    BY <1>2, BecomeType DEF RoundEnds
  <2>5. QED
    BY <2>2, <2>3, <2>4, ReconcilerReplaced DEF TypeInv
<1>3. CASE ~(reconciler[w].round < Rounds)
  <2>1. ClearIfCurrent(st, reconciler[w].payload) \in CoordState
    BY <1>1, ClearOverlayType DEF ClearIfCurrent
  <2>2. QED
    BY <1>3, <2>1, BecomeType, ReconcilerEndsType DEF RoundEnds, TypeInv
<1>4. QED
  BY <1>2, <1>3

\* What a task that is not touched keeps.
LEMMA CallsUnchanged == ASSUME CallsOK, UNCHANGED writer PROVE CallsOK'
<1>1. ASSUME NEW v \in Writer PROVE Running(v)' <=> Running(v)
  BY DEF Running
<1>2. QED
  BY <1>1 DEF CallsOK

\* Reconciliations stay typed when no step touches them.
LEMMA ReconcilersUnchanged == ASSUME ReconcilersOK, UNCHANGED reconciler PROVE ReconcilersOK'
BY DEF ReconcilersOK

\* So do the cloud and the phase of the shutdown.
LEMMA CloudUnchanged ==
    ASSUME CloudOK, UNCHANGED <<history, removals, phase>>, wire' \in [Writer -> Settings]
    PROVE  CloudOK'
BY DEF CloudOK

\* A new service call keeps the types.
LEMMA CallType ==
    ASSUME TypeInv, NEW w \in Writer, NEW command \in Command, Call(w, command)
    PROVE  TypeInv'
<1> DEFINE ref    == IF entry = NoState THEN <<"call", w>> ELSE entry
           called == [Here EXCEPT !.entry = ref, !.states[ref].active = @ + 1]
<1>1. ref \in StateRef /\ command \in Settings /\ W(w) \in Task
  BY RefsType, TasksDiffer, PairAssumption DEF TypeInv, StoreOK, CoordState, Here
<1>2. called \in CoordState
  <2> DEFINE ws == Here.states[ref]
  <2> HIDE DEF ref
  <2>1. Here \in CoordState /\ ws \in WriteState
    BY <1>1 DEF TypeInv, StoreOK, CoordState
  <2>2. [ws EXCEPT !.active = @ + 1] \in WriteState
    <3>1. ws.active + 1 \in Int
      BY <2>1 DEF WriteState
    <3> HIDE DEF ws
    <3>2. QED
      BY <2>1, <3>1 DEF WriteState
  <2>3. QED
    BY <1>1, <2>1, <2>2 DEF CoordState
<1> HIDE DEF ref, called
<1>3. StoreOK' /\ CallsOK' /\ wire' \in [Writer -> Settings]
  <2>1. CASE LockIsFree(states[ref])
    <3>1. TakeLock(called, ref, W(w)) \in CoordState
      BY <1>1, <1>2, LockOperationsType
    <3>2. EnterLock(w, TakeLock(called, ref, W(w)), ref, command)
      BY <2>1 DEF Call, ref, called
    <3>3. QED
      BY <1>1, <3>1, <3>2, EnterLockType
  <2>2. CASE ~LockIsFree(states[ref])
    <3> DEFINE c == [writer[w] EXCEPT !.pc = "queued", !.ref = ref, !.command = command]
    <3>1. WaitForLock(called, ref, W(w)) \in CoordState
      BY <1>1, <1>2, LockOperationsType
    <3>2. /\ Become(WaitForLock(called, ref, W(w))) /\ UNCHANGED wire
          /\ writer' = [writer EXCEPT ![w].pc = "queued", ![w].ref = ref,
                                      ![w].command = command]
      BY <2>2 DEF Call, ref, called
    <3>3. writer[w] \in WriterState
      BY DEF TypeInv, CallsOK
    <3>4. c \in WriterState /\ c.pc = "queued" /\ c.ref = ref
      BY <1>1, <3>3 DEF WriterState, WriterPc
    <3>5. writer' = [writer EXCEPT ![w] = c]
      BY <3>2
    <3>6. CallsOK'
      BY <1>1, <3>4, <3>5, CallReplaced DEF TypeInv
    <3>7. wire' \in [Writer -> Settings]
      BY <3>2 DEF TypeInv, CloudOK
    <3>8. QED
      BY <3>1, <3>2, <3>6, <3>7, BecomeType
  <2>3. QED
    BY <2>1, <2>2
<1>4. QED
  BY <1>3, ReconcilersUnchanged, CloudUnchanged DEF TypeInv, Call

\* A queued call that gets the lock keeps the types.
LEMMA AcquireType == ASSUME TypeInv, NEW w \in Writer, Acquire(w) PROVE TypeInv'
<1> DEFINE ref == writer[w].ref
<1>1. /\ ref \in StateRef /\ W(w) \in Task /\ Here \in CoordState
      /\ writer[w].command \in Settings
  BY TasksDiffer DEF Acquire, TypeInv, StoreOK, CallsOK, Running, WriterState
<1>2. TakeLock(Here, ref, W(w)) \in CoordState
  BY <1>1, LockOperationsType
<1>3. EnterLock(w, TakeLock(Here, ref, W(w)), ref, writer[w].command)
  BY DEF Acquire
<1>4. QED
  BY <1>1, <1>2, <1>3, EnterLockType, ReconcilersUnchanged, CloudUnchanged DEF TypeInv, Acquire

\* A call whose event is set returns in a typed state.
LEMMA ConcludeType ==
    ASSUME TypeInv, NEW w \in Writer, writer[w].ref \in StateRef, Conclude(w, Here)
    PROVE  StoreOK' /\ CallsOK'
<1>1. Here \in CoordState /\ "success" \in Result /\ "rejected" \in Result
  BY DEF TypeInv, StoreOK, Result
<1>2. QED
  BY <1>1, ReturnClearedType DEF Conclude

\* A call that only moves to another await.
LEMMA CallMovesType ==
    ASSUME TypeInv, NEW w \in Writer, Running(w),
           NEW pc \in WriterPc \ {"idle", "done"}, NEW attempt \in 0..Attempts,
           pc = "pausing" => attempt < Attempts,
           writer' = [writer EXCEPT ![w].pc = pc, ![w].attempt = attempt]
    PROVE  CallsOK'
<1> DEFINE c == [writer[w] EXCEPT !.pc = pc, !.attempt = attempt]
<1>1. writer[w] \in WriterState /\ writer[w].ref \in StateRef
  BY DEF TypeInv, CallsOK
<1>2. c \in WriterState /\ c.pc = pc /\ c.ref = writer[w].ref /\ c.attempt = attempt
  BY <1>1 DEF WriterState
<1>3. writer' = [writer EXCEPT ![w] = c]
  OBVIOUS
<1> HIDE DEF c
<1>4. QED
  BY <1>1, <1>2, <1>3, CallReplaced DEF TypeInv

\* The same with the attempt left alone.
LEMMA CallMovesOnType ==
    ASSUME TypeInv, NEW w \in Writer, Running(w),
           NEW pc \in WriterPc \ {"idle", "done"},
           pc = "pausing" => writer[w].attempt < Attempts,
           writer' = [writer EXCEPT ![w].pc = pc]
    PROVE  CallsOK'
<1> DEFINE c == [writer[w] EXCEPT !.pc = pc]
<1>1. writer[w] \in WriterState /\ writer[w].ref \in StateRef
  BY DEF TypeInv, CallsOK
<1>2. c \in WriterState /\ c.pc = pc /\ c.ref = writer[w].ref /\ c.attempt = writer[w].attempt
  BY <1>1 DEF WriterState
<1>3. writer' = [writer EXCEPT ![w] = c]
  OBVIOUS
<1> HIDE DEF c
<1>4. QED
  BY <1>1, <1>2, <1>3, CallReplaced DEF TypeInv

\* The 2xx of a PATCH keeps the types.
LEMMA PatchSucceedsType == ASSUME TypeInv, NEW w \in Writer, PatchSucceeds(w) PROVE TypeInv'
<1>1. Running(w) /\ writer[w].ref \in StateRef /\ wire \in [Writer -> Settings]
  BY DEF PatchSucceeds, TypeInv, CallsOK, Running, CloudOK
<1>2. CASE states[writer[w].ref].inflight.outcome = "unknown"
  <2>1. CallsOK'
    BY <1>1, <1>2, CallMovesOnType DEF PatchSucceeds, WriterPc
  <2>2. StoreOK'
    BY <1>2 DEF PatchSucceeds, TypeInv, StoreOK, Here
  <2>3. QED
    BY <1>1, <2>1, <2>2, ReconcilersUnchanged, CloudUnchanged DEF TypeInv, PatchSucceeds
<1>3. CASE states[writer[w].ref].inflight.outcome # "unknown"
  BY <1>1, <1>3, ConcludeType, ReconcilersUnchanged, CloudUnchanged DEF TypeInv, PatchSucceeds
<1>4. QED
  BY <1>2, <1>3

\* The failure of a PATCH keeps the types.
LEMMA PatchFailsType == ASSUME TypeInv, NEW w \in Writer, PatchFails(w) PROVE TypeInv'
<1>1. writer[w].ref \in StateRef
  BY DEF PatchFails, TypeInv, CallsOK, Running
<1>2. StoreOK' /\ CallsOK'
  BY <1>1, RequestFailsType DEF PatchFails
<1>3. wire' \in [Writer -> Settings]
  BY NoSettingsType DEF PatchFails, TypeInv, CloudOK
<1>4. QED
  BY <1>2, <1>3, ReconcilersUnchanged, CloudUnchanged DEF TypeInv, PatchFails

\* The end of the wait for the event keeps the types.
LEMMA EventWakesType == ASSUME TypeInv, NEW w \in Writer, EventWakes(w) PROVE TypeInv'
<1>1. writer[w].ref \in StateRef /\ wire \in [Writer -> Settings]
  BY DEF EventWakes, TypeInv, CallsOK, Running, CloudOK
<1>2. StoreOK' /\ CallsOK'
  BY <1>1, ConcludeType DEF EventWakes
<1>3. QED
  BY <1>1, <1>2, ReconcilersUnchanged, CloudUnchanged DEF TypeInv, EventWakes

\* The first REST check is within Attempts.
LEMMA ConfirmTimesOutType == ASSUME TypeInv, NEW w \in Writer, ConfirmTimesOut(w) PROVE TypeInv'
<1>1. /\ Running(w) /\ wire \in [Writer -> Settings] /\ 1 \in 0..Attempts
      /\ "reading" \in WriterPc \ {"idle", "done"}
  BY DEF ConfirmTimesOut, TypeInv, Running, CloudOK, Attempts, WriterPc
<1>2. writer' = [writer EXCEPT ![w].pc = "reading", ![w].attempt = 1]
  BY DEF ConfirmTimesOut
<1>3. CallsOK'
  BY <1>1, <1>2, CallMovesType
<1>4. StoreOK'
  BY DEF ConfirmTimesOut, TypeInv, StoreOK, Here
<1>5. QED
  BY <1>1, <1>3, <1>4, ReconcilersUnchanged, CloudUnchanged DEF TypeInv, ConfirmTimesOut

\* The failure of a REST check keeps the types.
LEMMA ReadFailsType == ASSUME TypeInv, NEW w \in Writer, ReadFails(w) PROVE TypeInv'
<1>1. writer[w].ref \in StateRef /\ wire \in [Writer -> Settings]
  BY DEF ReadFails, TypeInv, CallsOK, Running, CloudOK
<1>2. StoreOK' /\ CallsOK'
  BY <1>1, RequestFailsType DEF ReadFails
<1>3. QED
  BY <1>1, <1>2, ReconcilersUnchanged, CloudUnchanged DEF TypeInv, ReadFails

\* A pause has an attempt left, so the next check is within Attempts.
LEMMA PauseEndsType == ASSUME TypeInv, NEW w \in Writer, PauseEnds(w) PROVE TypeInv'
<1> DEFINE next == writer[w].attempt + 1
<1>1. /\ Running(w) /\ wire \in [Writer -> Settings] /\ next \in 0..Attempts
      /\ "reading" \in WriterPc \ {"idle", "done"}
  BY DEF PauseEnds, TypeInv, CallsOK, WriterState, Running, CloudOK, Attempts, WriterPc
<1>2. writer' = [writer EXCEPT ![w].pc = "reading", ![w].attempt = next]
  BY DEF PauseEnds
<1> HIDE DEF next
<1>3. CallsOK'
  BY <1>1, <1>2, CallMovesType
<1>4. StoreOK'
  BY DEF PauseEnds, TypeInv, StoreOK, Here
<1>5. QED
  BY <1>1, <1>3, <1>4, ReconcilersUnchanged, CloudUnchanged DEF TypeInv, PauseEnds

\* A cancelled call keeps the types wherever it was.
LEMMA CancelType == ASSUME TypeInv, NEW w \in Writer, Cancel(w) PROVE TypeInv'
<1> DEFINE ref == writer[w].ref
<1>1. /\ ref \in StateRef /\ W(w) \in Task /\ Here \in CoordState /\ "cancelled" \in Result
      /\ wire \in [Writer -> Settings]
  BY TasksDiffer DEF Cancel, Engaged, Running, TypeInv, StoreOK, CallsOK, CloudOK, Result
<1>2. StoreOK' /\ CallsOK'
  <2>1. CASE \E i \in DOMAIN states[ref].waiters :
                Return(w, LeaveQueue(Here, ref, i), "cancelled")
    <3>1. PICK i \in DOMAIN states[ref].waiters :
              Return(w, LeaveQueue(Here, ref, i), "cancelled")
      BY <2>1
    <3>2. LeaveQueue(Here, ref, i) \in CoordState
      BY <1>1, LockOperationsType DEF Here
    <3>3. QED
      BY <1>1, <3>1, <3>2, ReturnType
  <2>2. CASE ReturnCleared(w, Here, "cancelled")
    BY <1>1, <2>2, ReturnClearedType
  <2>3. CASE Return(w, ReleaseLock(Here, ref), "cancelled")
    BY <1>1, <2>3, LockOperationsType, ReturnType
  <2>4. QED
    BY <2>1, <2>2, <2>3 DEF Cancel
<1>3. QED
  BY <1>1, <1>2, ReconcilersUnchanged, CloudUnchanged DEF TypeInv, Cancel

\* A REST check keeps the types, whatever it finds.
LEMMA ReadSucceedsType == ASSUME TypeInv, NEW w \in Writer, ReadSucceeds(w) PROVE TypeInv'
<1> DEFINE ref == writer[w].ref
<1>1. /\ Running(w) /\ ref \in StateRef /\ W(w) \in Task /\ Here \in CoordState
      /\ wire \in [Writer -> Settings] /\ {"success", "rejected"} \subseteq Result
  BY TasksDiffer DEF ReadSucceeds, Running, TypeInv, StoreOK, CallsOK, CloudOK, Result
<1> DEFINE Ends(read) ==
            \/ \E result \in {"success", "rejected"} :
                  ReturnCleared(w, read, result) /\ UNCHANGED reconciler
            \/ /\ Return(w, ReleaseLock(read, ref), "success")
               /\ UNCHANGED reconciler \/ Schedule(w)
            \/ /\ HasAttempt(w) /\ Become(read)
               /\ writer' = [writer EXCEPT ![w].pc = "pausing"]
               /\ UNCHANGED reconciler
<1>2. \E t \in Recent : \E stamp \in StampsOf(t) :
        Ends(TakeRestSettings(Here, history[t], stamp))
  BY DEF ReadSucceeds
<1>2a. PICK t \in Recent, stamp \in Nat :
        stamp \in StampsOf(t) /\ Ends(TakeRestSettings(Here, history[t], stamp))
  BY <1>2, RecentType DEF Stamp
<1> DEFINE read == TakeRestSettings(Here, history[t], stamp)
<1>3. read \in CoordState
  BY <1>1, <1>2a, RecentType, TakeRestSettingsType
<1>4. ReleaseLock(read, ref) \in CoordState
  BY <1>1, <1>3, LockOperationsType
<1>5. CloudOK'
  BY <1>1, CloudUnchanged DEF TypeInv, ReadSucceeds
<1>6. StoreOK' /\ CallsOK'
  <2>1. ASSUME NEW result \in {"success", "rejected"}, ReturnCleared(w, read, result)
        PROVE  StoreOK' /\ CallsOK'
    BY <1>1, <1>3, <2>1, ReturnClearedType
  <2>2. CASE Return(w, ReleaseLock(read, ref), "success")
    BY <1>1, <1>4, <2>2, ReturnType
  <2>3. CASE HasAttempt(w) /\ Become(read) /\ writer' = [writer EXCEPT ![w].pc = "pausing"]
    BY <1>1, <1>3, <2>3, BecomeType, CallMovesOnType DEF HasAttempt, WriterPc
  <2>4. QED
    BY <1>2a, <2>1, <2>2, <2>3
<1>7. ReconcilersOK'
  BY <1>2a, ReconcilersUnchanged, ScheduleType DEF TypeInv
<1>8. QED
  BY <1>5, <1>6, <1>7 DEF TypeInv

\* A reconciliation that moves to another await keeps the types.
LEMMA ReconcilerMovesType ==
    ASSUME TypeInv, NEW w \in Writer, NEW ref \in StateRef, NEW pc \in {"locking", "reading"},
           reconciler' = [reconciler EXCEPT ![w].pc = pc, ![w].ref = ref]
    PROVE  ReconcilersOK'
<1> DEFINE c == [reconciler[w] EXCEPT !.pc = pc, !.ref = ref]
<1>1. reconciler[w] \in ReconcilerState /\ pc \in ReconcilerPc
  BY DEF TypeInv, ReconcilersOK, ReconcilerPc
<1>2. c \in ReconcilerState /\ c.pc = pc /\ c.ref = ref
  BY <1>1 DEF ReconcilerState
<1>3. reconciler' = [reconciler EXCEPT ![w] = c]
  OBVIOUS
<1> HIDE DEF c
<1>4. QED
  BY <1>2, <1>3, ReconcilerReplaced DEF TypeInv

\* The end of a delay keeps the types.
LEMMA DelayElapsesType == ASSUME TypeInv, NEW w \in Writer, DelayElapses(w) PROVE TypeInv'
<1>1. Here \in CoordState /\ R(w) \in Task /\ wire \in [Writer -> Settings]
  BY TasksDiffer DEF TypeInv, StoreOK, CloudOK
<1>2. StoreOK' /\ ReconcilersOK'
  <2>1. CASE ~IsCurrent(device, reconciler[w].payload) \/ entry = NoState
    BY <1>1, <2>1, BecomeType, ReconcilerEndsType DEF DelayElapses, TypeInv
  <2>2. CASE IsCurrent(device, reconciler[w].payload) /\ entry # NoState
    <3>1. entry \in StateRef
      BY <1>1, <2>2 DEF CoordState, Here
    <3>2. CASE LockIsFree(states[entry])
      <4>1. TakeLock(Here, entry, R(w)) \in CoordState
        BY <1>1, <3>1, LockOperationsType
      <4>2. /\ Become(TakeLock(Here, entry, R(w)))
            /\ reconciler' = [reconciler EXCEPT ![w].pc = "reading", ![w].ref = entry]
        BY <2>2, <3>2 DEF DelayElapses
      <4>3. QED
        BY <3>1, <4>1, <4>2, BecomeType, ReconcilerMovesType
    <3>3. CASE ~LockIsFree(states[entry])
      <4>1. WaitForLock(Here, entry, R(w)) \in CoordState
        BY <1>1, <3>1, LockOperationsType
      <4>2. /\ Become(WaitForLock(Here, entry, R(w)))
            /\ reconciler' = [reconciler EXCEPT ![w].pc = "locking", ![w].ref = entry]
        BY <2>2, <3>3 DEF DelayElapses
      <4>3. QED
        BY <3>1, <4>1, <4>2, BecomeType, ReconcilerMovesType
    <3>4. QED
      BY <3>2, <3>3
  <2>3. QED
    BY <2>1, <2>2
<1>3. QED
  BY <1>1, <1>2, CallsUnchanged, CloudUnchanged DEF TypeInv, DelayElapses

\* A reconciliation that gets the lock keeps the types.
LEMMA ReconcilerAcquiresType ==
    ASSUME TypeInv, NEW w \in Writer, ReconcilerAcquires(w) PROVE TypeInv'
<1> DEFINE ref  == reconciler[w].ref
           held == TakeLock(Here, ref, R(w))
<1>1. /\ Here \in CoordState /\ R(w) \in Task /\ ref \in StateRef
      /\ wire \in [Writer -> Settings]
  BY TasksDiffer DEF ReconcilerAcquires, ReconcilerAt, TypeInv, StoreOK, ReconcilersOK, CloudOK
<1>2. held \in CoordState /\ ReleaseLock(held, ref) \in CoordState
  BY <1>1, LockOperationsType
<1>3. StoreOK' /\ ReconcilersOK'
  <2>1. CASE IsCurrent(device, reconciler[w].payload)
    <3> DEFINE c == [reconciler[w] EXCEPT !.pc = "reading"]
    <3>1. reconciler[w] \in ReconcilerState
      BY DEF TypeInv, ReconcilersOK
    <3>2. c \in ReconcilerState /\ c.pc = "reading" /\ c.ref = ref
      BY <3>1 DEF ReconcilerState, ReconcilerPc
    <3>3. reconciler' = [reconciler EXCEPT ![w] = c] /\ Become(held)
      BY <2>1 DEF ReconcilerAcquires
    <3> HIDE DEF c
    <3>4. QED
      BY <1>1, <1>2, <3>2, <3>3, BecomeType, ReconcilerReplaced DEF TypeInv
  <2>2. CASE ~IsCurrent(device, reconciler[w].payload)
    BY <1>2, <2>2, BecomeType, ReconcilerEndsType DEF ReconcilerAcquires, TypeInv
  <2>3. QED
    BY <2>1, <2>2
<1>4. QED
  BY <1>1, <1>3, CallsUnchanged, CloudUnchanged DEF TypeInv, ReconcilerAcquires

\* A deferred read keeps the types, failed or not.
LEMMA DeferredReadType ==
    ASSUME TypeInv, NEW w \in Writer, DeferredReadSucceeds(w) \/ DeferredReadFails(w)
    PROVE  TypeInv'
<1> DEFINE ref == reconciler[w].ref
<1>1. /\ Here \in CoordState /\ R(w) \in Task /\ ref \in StateRef
      /\ reconciler[w].payload \in Settings /\ wire \in [Writer -> Settings]
  BY TasksDiffer
  DEF DeferredReadSucceeds, DeferredReadFails, ReconcilerAt, TypeInv, StoreOK,
      ReconcilersOK, ReconcilerState, CloudOK
<1>2. StoreOK' /\ ReconcilersOK'
  <2>1. CASE DeferredReadSucceeds(w)
    <3> DEFINE Ends(read) ==
            \/ Become(ClearOverlay(read, reconciler[w].payload)) /\ ReconcilerEnds(w)
            \/ RoundEnds(w, read)
    <3>1. \E t \in Recent : \E stamp \in StampsOf(t) :
            Ends(ReleaseLock(TakeRestSettings(Here, history[t], stamp), ref))
      BY <2>1 DEF DeferredReadSucceeds
    <3>2. PICK t \in Recent, stamp \in Nat :
            Ends(ReleaseLock(TakeRestSettings(Here, history[t], stamp), ref))
      BY <3>1, RecentType DEF Stamp
    <3> DEFINE read == ReleaseLock(TakeRestSettings(Here, history[t], stamp), ref)
    <3>3. read \in CoordState
      BY <1>1, RecentType, TakeRestSettingsType, LockOperationsType DEF Stamp
    <3>4. CASE Become(ClearOverlay(read, reconciler[w].payload)) /\ ReconcilerEnds(w)
      BY <1>1, <3>3, <3>4, ClearOverlayType, BecomeType, ReconcilerEndsType DEF TypeInv
    <3>5. CASE RoundEnds(w, read)
      BY <3>3, <3>5, RoundEndsType
    <3>6. QED
      BY <3>2, <3>4, <3>5
  <2>2. CASE DeferredReadFails(w)
    BY <1>1, <2>2, LockOperationsType, RoundEndsType DEF DeferredReadFails
  <2>3. QED
    BY <2>1, <2>2
<1>3. QED
  BY <1>1, <1>2, CallsUnchanged, CloudUnchanged
  DEF TypeInv, DeferredReadSucceeds, DeferredReadFails

\* A cancelled reconciliation keeps the types.
LEMMA ReconcilerUnwindsType ==
    ASSUME TypeInv, NEW w \in Writer, ReconcilerUnwinds(w) PROVE TypeInv'
<1> DEFINE ref == reconciler[w].ref
<1>1. /\ Here \in CoordState /\ R(w) \in Task /\ wire \in [Writer -> Settings]
      /\ reconciler[w].pc \in {"locking", "reading"} => ref \in StateRef
      /\ reconciler[w].pc \in {"sleeping", "locking", "reading"}
  BY TasksDiffer
  DEF TypeInv, StoreOK, ReconcilersOK, ReconcilerState, ReconcilerPc, CloudOK,
      ReconcilerUnwinds, Reconciling
<1>2. StoreOK'
  <2>1. CASE reconciler[w].pc = "sleeping"
    BY <1>1, <2>1, BecomeType DEF ReconcilerUnwinds
  <2>2. CASE reconciler[w].pc = "reading"
    BY <1>1, <2>2, LockOperationsType, BecomeType DEF ReconcilerUnwinds
  <2>3. CASE reconciler[w].pc = "locking"
    <3>1. PICK i \in DOMAIN states[ref].waiters : Become(LeaveQueue(Here, ref, i))
      BY <2>3 DEF ReconcilerUnwinds
    <3>2. LeaveQueue(Here, ref, i) \in CoordState
      BY <1>1, <2>3, LockOperationsType DEF Here
    <3>3. QED
      BY <3>1, <3>2, BecomeType
  <2>4. QED
    BY <1>1, <2>1, <2>2, <2>3
<1>3. QED
  BY <1>1, <1>2, ReconcilerEndsType, CallsUnchanged, CloudUnchanged
  DEF TypeInv, ReconcilerUnwinds

\* A push keeps the types.
LEMMA PushType == ASSUME TypeInv, Push PROVE TypeInv'
<1> DEFINE applied(document, stamp) ==
            [Here EXCEPT !.device = ApplyIncremental(@, document, stamp)]
<1>1. PICK t \in Recent, view \in PushView, stamp \in Nat :
        Become(ObserveInflight(applied(Visible(history[t], view), stamp),
                               Visible(history[t], view), stamp, "websocket"))
  BY RecentType DEF Push, Stamp
<1>2. Visible(history[t], view) \in Settings /\ Here \in CoordState /\ stamp \in Stamp
  BY RecentType DEF TypeInv, StoreOK, Stamp
<1>3. applied(Visible(history[t], view), stamp) \in CoordState
  BY <1>2, ApplyIncrementalType DEF CoordState
<1>4. StoreOK'
  BY <1>1, <1>3, ObserveInflightType, BecomeType
<1>5. QED
  BY <1>4, CallsUnchanged, ReconcilersUnchanged, CloudUnchanged DEF TypeInv, Push, CloudOK

\* A coordinator refresh keeps the types.
LEMMA RefreshSettingsType == ASSUME TypeInv, RefreshSettings PROVE TypeInv'
<1>1. PICK t \in Recent, stamp \in Nat :
        Become(TakeRestSettings(Here, history[t], stamp))
  BY RecentType DEF RefreshSettings, Stamp
<1>2. history[t] \in Settings /\ Here \in CoordState /\ stamp \in Stamp
  BY RecentType DEF TypeInv, StoreOK, Stamp
<1>3. StoreOK'
  BY <1>1, <1>2, TakeRestSettingsType, BecomeType
<1>4. QED
  BY <1>3, CallsUnchanged, ReconcilersUnchanged, CloudUnchanged
  DEF TypeInv, RefreshSettings, CloudOK

\* Losing or finding the device keeps the types.
LEMMA HierarchyType == ASSUME TypeInv, RemoveDevice \/ RediscoverDevice PROVE TypeInv'
<1> DEFINE blank == [NoDevice EXCEPT !.present = TRUE]
<1>1. Here \in CoordState
  BY DEF TypeInv, StoreOK
<1>2. CASE RemoveDevice
  <2>1. StoreOK'
    BY <1>1, <1>2, NoDeviceType DEF RemoveDevice, StoreOK, Here, CoordState
  <2>2. CloudOK'
    BY <1>2 DEF RemoveDevice, TypeInv, CloudOK
  <2>3. QED
    BY <1>2, <2>1, <2>2, CallsUnchanged, ReconcilersUnchanged DEF TypeInv, RemoveDevice
<1>3. CASE RediscoverDevice
  <2>1. blank \in DeviceRecord
    BY NoDeviceType DEF DeviceRecord
  <2>2. device' \in DeviceRecord
    <3>1. CASE device' = blank
      BY <2>1, <3>1
    <3>2. ASSUME NEW t \in Recent, NEW view \in PushView, NEW stamp \in StampsOf(t),
                 device' = ApplyIncremental(blank, Visible(history[t], view), stamp)
          PROVE  device' \in DeviceRecord
      BY <2>1, <3>2, RecentType, ApplyIncrementalType
    <3>3. QED
      BY <1>3, <3>1, <3>2 DEF RediscoverDevice
  <2>3. StoreOK'
    BY <1>1, <1>3, <2>2 DEF RediscoverDevice, StoreOK, Here, CoordState
  <2>4. QED
    BY <1>3, <2>3, CallsUnchanged, ReconcilersUnchanged, CloudUnchanged
    DEF TypeInv, RediscoverDevice, CloudOK
<1>4. QED
  BY <1>2, <1>3

\* Both halves of async_shutdown keep the types.
LEMMA ShutdownType == ASSUME TypeInv, BeginShutdown \/ EndShutdown PROVE TypeInv'
<1>1. CASE BeginShutdown
  <2>1. ASSUME NEW w \in Writer
        PROVE  /\ [reconciler[w] EXCEPT !.cancelled = Reconciling(w)] \in ReconcilerState
               /\ [reconciler[w] EXCEPT !.cancelled = Reconciling(w)].pc = reconciler[w].pc
               /\ [reconciler[w] EXCEPT !.cancelled = Reconciling(w)].ref = reconciler[w].ref
    BY DEF TypeInv, ReconcilersOK, ReconcilerState, Reconciling
  <2>2. ReconcilersOK'
    BY <1>1, <2>1 DEF BeginShutdown, TypeInv, ReconcilersOK
  <2>3. StoreOK' /\ CloudOK'
    BY <1>1 DEF BeginShutdown, TypeInv, StoreOK, Here, CloudOK
  <2>4. QED
    BY <1>1, <2>2, <2>3, CallsUnchanged DEF TypeInv, BeginShutdown
<1>2. CASE EndShutdown
  <2>1. StoreOK' /\ CloudOK'
    BY <1>2 DEF EndShutdown, TypeInv, StoreOK, Here, CloudOK
  <2>2. QED
    BY <1>2, <2>1, CallsUnchanged, ReconcilersUnchanged DEF TypeInv, EndShutdown
<1>3. QED
  BY <1>1, <1>2

\* What the cloud publishes is a document.
LEMMA CloudType ==
    ASSUME TypeInv, CloudChanges \/ \E w \in Writer : CloudApplies(w)
    PROVE  TypeInv'
<1>1. history \in Seq(Settings) /\ history # <<>> /\ wire \in [Writer -> Settings]
  BY DEF TypeInv, CloudOK
<1>2. ASSUME NEW document \in Settings, history' = Append(history, document)
      PROVE  history' \in Seq(Settings) /\ history' # <<>>
  BY <1>1, <1>2
<1>3. history[Len(history)] \in Settings
  BY <1>1
<1>4. CASE CloudChanges
  <2>1. \A l \in Leaf, v \in Value : [history[Len(history)] EXCEPT ![l] = v] \in Settings
    BY <1>3 DEF Settings
  <2>2. CloudOK'
    BY <1>2, <1>4, <2>1 DEF CloudChanges, TypeInv, CloudOK
  <2>3. StoreOK'
    BY <1>4 DEF CloudChanges, TypeInv, StoreOK, Here
  <2>4. QED
    BY <1>4, <2>2, <2>3, CallsUnchanged, ReconcilersUnchanged DEF TypeInv, CloudChanges
<1>5. CASE \E w \in Writer : CloudApplies(w)
  <2>1. PICK w \in Writer : CloudApplies(w)
    BY <1>5
  <2>2. history' \in Seq(Settings) /\ history' # <<>>
    BY <1>2, <2>1 DEF CloudApplies
  <2>3. wire' \in [Writer -> Settings]
    BY <1>1, <2>1, NoSettingsType DEF CloudApplies
  <2>4. StoreOK' /\ CloudOK'
    BY <2>1, <2>2, <2>3 DEF CloudApplies, TypeInv, StoreOK, Here, CloudOK
  <2>5. QED
    BY <2>1, <2>4, CallsUnchanged, ReconcilersUnchanged DEF TypeInv, CloudApplies
<1>6. QED
  BY <1>4, <1>5

\* A stutter keeps the types.
LEMMA StutterType == ASSUME TypeInv, UNCHANGED vars PROVE TypeInv'
<1>1. StoreOK' /\ CloudOK'
  BY DEF vars, TypeInv, StoreOK, Here, CloudOK
<1>2. QED
  BY <1>1, CallsUnchanged, ReconcilersUnchanged DEF TypeInv, vars

\* Every step of the specification keeps the types.
LEMMA NextTypeInv == TypeInv /\ [Next]_vars => TypeInv'
<1> SUFFICES ASSUME TypeInv, [Next]_vars PROVE TypeInv'
  OBVIOUS
<1>1. ASSUME NEW w \in Writer, \E command \in Command : Call(w, command) PROVE TypeInv'
  BY <1>1, CallType
<1>2. ASSUME NEW w \in Writer, WriterStep(w) PROVE TypeInv'
  BY <1>2, AcquireType, PatchSucceedsType, PatchFailsType, EventWakesType,
     ConfirmTimesOutType, ReadSucceedsType, ReadFailsType, PauseEndsType DEF WriterStep
<1>3. ASSUME NEW w \in Writer, ReconcilerStep(w) PROVE TypeInv'
  BY <1>3, DelayElapsesType, ReconcilerAcquiresType, DeferredReadType,
     ReconcilerUnwindsType DEF ReconcilerStep
<1>4. QED
  BY <1>1, <1>2, <1>3, CancelType, PushType, RefreshSettingsType, HierarchyType,
     ShutdownType, CloudType, StutterType DEF Next

\* Every variable of the coordinator's write machinery keeps its type, whatever
\* the calls, the faults and the bounds.
THEOREM TypeCorrect == Spec => []TypeOK
<1>1. Spec => []TypeInv
  BY InitTypeInv, NextTypeInv, PTL DEF Spec
<1>2. QED
  BY <1>1, TypeInvIsTypeOK, PTL
----------------------------------------------------------------------------
(* What the helpers do to the locks, the in-flight slots and the counters   *)

\* Same holder, same owner of the slot, same number of writers.
Kept(s, t) ==
    \A r \in StateRef : /\ t[r].holder = s[r].holder
                        /\ t[r].inflight.owner = s[r].inflight.owner
                        /\ t[r].active = s[r].active
\* The same but for the write state ref.
KeptBut(s, t, ref) ==
    \A r \in StateRef \ {ref} : /\ t[r].holder = s[r].holder
                                /\ t[r].inflight.owner = s[r].inflight.owner
                                /\ t[r].active = s[r].active

\* _sync_write_state touches no holder, slot owner or counter.
LEMMA SyncWriteStateKeeps ==
    ASSUME NEW st \in CoordState, NEW fresh \in StateRef
    PROVE  Kept(st.states, SyncWriteState(st, fresh).states)
<1> DEFINE ref == IF st.entry = NoState THEN fresh ELSE st.entry
           ws  == [st.states[ref] EXCEPT !.pendingPaths = Leaves(st.device.pending)]
<1>1. ref \in StateRef /\ st.states \in [StateRef -> WriteState]
  BY DEF CoordState
<1>2. /\ ws.holder = st.states[ref].holder
      /\ ws.inflight = st.states[ref].inflight
      /\ ws.active = st.states[ref].active
  BY <1>1 DEF WriteState
<1>3. SyncWriteState(st, fresh).states \in {st.states, [st.states EXCEPT ![ref] = ws]}
  BY DEF SyncWriteState, CoordState
<1> HIDE DEF ws, ref
<1>4. QED
  BY <1>1, <1>2, <1>3 DEF Kept

\* Nor does taking an overlay back.
LEMMA ClearOverlayKeeps ==
    ASSUME NEW st \in CoordState, NEW p \in Settings
    PROVE  Kept(st.states, ClearOverlay(st, p).states)
<1> DEFINE cleared == [st EXCEPT !.device = ClearPending(@, p)]
<1>1. cleared \in CoordState /\ cleared.states = st.states
  BY ClearPendingType DEF CoordState
<1>2. QED
  BY <1>1, SyncWriteStateKeeps, RefsType DEF ClearOverlay

\* Nor does a document that decides a write.
LEMMA ObserveInflightKeeps ==
    ASSUME NEW st \in CoordState, NEW doc, NEW stamp, NEW source
    PROVE  Kept(st.states, ObserveInflight(st, doc, stamp, source).states)
<1> DEFINE verdict == Verdict(st.device, st.states[st.entry].inflight)
<1> HIDE DEF verdict
<1>1. ASSUME st.entry # NoState
      PROVE  Kept(st.states, [st EXCEPT !.states[st.entry].inflight.outcome = verdict].states)
  BY <1>1 DEF CoordState, WriteState, Inflight, Kept
<1>2. Kept(st.states, st.states)
  BY DEF Kept
<1>3. QED
  BY <1>1, <1>2 DEF ObserveInflight, verdict

\* Nor does a REST settings response.
LEMMA TakeRestSettingsKeeps ==
    ASSUME NEW st \in CoordState, NEW doc \in Settings, NEW stamp \in Stamp
    PROVE  Kept(st.states, TakeRestSettings(st, doc, stamp).states)
<1> DEFINE applied == [st EXCEPT !.device = ApplyFull(@, doc, stamp)]
           synced  == SyncWriteState(applied, SyncRef)
<1>1. applied \in CoordState /\ applied.states = st.states
  BY ApplyFullType DEF CoordState
<1>2. Kept(applied.states, synced.states) /\ synced \in CoordState
  BY <1>1, SyncWriteStateKeeps, SyncWriteStateType, RefsType
<1>3. Kept(synced.states, ObserveInflight(synced, doc, stamp, "rest").states)
  BY <1>2, ObserveInflightKeeps
<1>4. Kept(st.states, st.states)
  BY DEF Kept
<1>5. QED
  BY <1>1, <1>2, <1>3, <1>4 DEF TakeRestSettings, Kept

\* An operation on one lock leaves the other write states alone.
LEMMA LockOperationsKeep ==
    ASSUME NEW st \in CoordState, NEW ref \in StateRef, NEW task \in Task
    PROVE  /\ KeptBut(st.states, TakeLock(st, ref, task).states, ref)
           /\ TakeLock(st, ref, task).states[ref].holder = task
           /\ TakeLock(st, ref, task).states[ref].inflight.owner = st.states[ref].inflight.owner
           /\ TakeLock(st, ref, task).states[ref].active = st.states[ref].active
           /\ KeptBut(st.states, ReleaseLock(st, ref).states, ref)
           /\ ReleaseLock(st, ref).states[ref].holder = Nobody
           /\ ReleaseLock(st, ref).states[ref].inflight.owner = st.states[ref].inflight.owner
           /\ ReleaseLock(st, ref).states[ref].active = st.states[ref].active
           /\ Kept(st.states, WaitForLock(st, ref, task).states)
           /\ \A i : Kept(st.states, LeaveQueue(st, ref, i).states)
<1>1. st.states \in [StateRef -> WriteState] /\ st.states[ref] \in WriteState
  BY DEF CoordState
<1>2. /\ KeptBut(st.states, TakeLock(st, ref, task).states, ref)
      /\ TakeLock(st, ref, task).states[ref].holder = task
      /\ TakeLock(st, ref, task).states[ref].inflight.owner = st.states[ref].inflight.owner
      /\ TakeLock(st, ref, task).states[ref].active = st.states[ref].active
  BY <1>1 DEF TakeLock, CoordState, WriteState, KeptBut
<1>3. /\ KeptBut(st.states, ReleaseLock(st, ref).states, ref)
      /\ ReleaseLock(st, ref).states[ref].holder = Nobody
      /\ ReleaseLock(st, ref).states[ref].inflight.owner = st.states[ref].inflight.owner
      /\ ReleaseLock(st, ref).states[ref].active = st.states[ref].active
  BY <1>1 DEF ReleaseLock, CoordState, WriteState, KeptBut
<1>4. Kept(st.states, WaitForLock(st, ref, task).states)
  BY <1>1 DEF WaitForLock, CoordState, WriteState, Kept
<1>5. \A i : Kept(st.states, LeaveQueue(st, ref, i).states)
  BY <1>1 DEF LeaveQueue, CoordState, WriteState, Kept
<1>6. QED
  BY <1>2, <1>3, <1>4, <1>5

\* A write that begins takes the slot of its own write state only.
LEMMA BeginWriteKeeps ==
    ASSUME NEW st \in CoordState, NEW w \in Writer, NEW ref \in StateRef, NEW p \in Settings
    PROVE  /\ KeptBut(st.states, BeginWrite(st, w, ref, p).states, ref)
           /\ BeginWrite(st, w, ref, p).states[ref].holder = st.states[ref].holder
           /\ BeginWrite(st, w, ref, p).states[ref].inflight.owner = w
           /\ BeginWrite(st, w, ref, p).states[ref].active = st.states[ref].active
<1> DEFINE shown    == [st EXCEPT !.device = ApplyPending(@, p)]
           overlaid == SyncWriteState(shown, <<"begin", w>>)
           flight   == [owner |-> w, payload |-> p, version |-> st.device.version,
                        settings |-> st.device.settings, outcome |-> "unknown"]
<1>1. shown \in CoordState /\ shown.states = st.states
  BY ApplyPendingType DEF CoordState
<1>2. overlaid \in CoordState /\ Kept(st.states, overlaid.states)
  BY <1>1, SyncWriteStateType, SyncWriteStateKeeps, RefsType
<1>3. flight.owner = w
  OBVIOUS
<1> HIDE DEF overlaid, flight
<1>4. BeginWrite(st, w, ref, p) =
        [overlaid EXCEPT !.states[ref].pendingPaths = @ \cup Leaves(p),
                         !.states[ref].inflight = flight]
  BY DEF BeginWrite, overlaid, flight
<1>5. QED
  BY <1>2, <1>3, <1>4 DEF CoordState, WriteState, Kept, KeptBut

\* The finally clause gives up the slot of its own write state only.
LEMMA FinishWriteKeeps ==
    ASSUME NEW st \in CoordState, NEW w \in Writer, NEW ref \in StateRef
    PROVE  /\ KeptBut(st.states, FinishWrite(st, w, ref).states, ref)
           /\ FinishWrite(st, w, ref).states[ref].holder = st.states[ref].holder
           /\ FinishWrite(st, w, ref).states[ref].inflight.owner =
                IF st.states[ref].inflight.owner = w THEN Nobody
                ELSE st.states[ref].inflight.owner
           /\ FinishWrite(st, w, ref).states[ref].active = st.states[ref].active - 1
<1> DEFINE ws   == st.states[ref]
           slot == IF ws.inflight.owner = w THEN NoInflight ELSE ws.inflight
           mine == [ws EXCEPT !.inflight = slot, !.active = ws.active - 1]
           left == [st EXCEPT !.states[ref].inflight = IF @.owner = w THEN NoInflight ELSE @,
                              !.states[ref].active = @ - 1]
<1>1. ws \in WriteState /\ slot \in Inflight /\ ws.active - 1 \in Int
  BY NoInflightType DEF CoordState, WriteState
<1>2. slot.owner = IF ws.inflight.owner = w THEN Nobody ELSE ws.inflight.owner
  BY DEF NoInflight
<1>3. left = [st EXCEPT !.states = [@ EXCEPT ![ref] = mine]]
  BY DEF CoordState
<1> HIDE DEF slot, left
<1>4. /\ mine \in WriteState /\ mine.holder = ws.holder /\ mine.inflight = slot
      /\ mine.active = ws.active - 1
  BY <1>1 DEF WriteState
<1> HIDE DEF mine
<1>5. /\ left \in CoordState
      /\ KeptBut(st.states, left.states, ref)
      /\ left.states[ref] = mine
  BY <1>3, <1>4 DEF CoordState, KeptBut
<1>6. FinishWrite(st, w, ref) = SyncWriteState(left, SyncRef)
  BY DEF FinishWrite, left
<1>7. Kept(left.states, FinishWrite(st, w, ref).states)
  BY <1>5, <1>6, SyncWriteStateKeeps, RefsType
<1>8. QED
  BY <1>2, <1>4, <1>5, <1>7 DEF Kept, KeptBut
----------------------------------------------------------------------------
(* The lock and the in-flight slot.  Each way in and out of the lock is a   *)
(* lemma about states, writer and reconciler; the actions are instances.    *)

\* A reconciliation reads only where it read before.
NoNewReader ==
    \A v \in Writer : reconciler'[v].pc = "reading" =>
        reconciler[v].pc = "reading" /\ reconciler'[v].ref = reconciler[v].ref
OthersUnchanged(w) == \A v \in Writer \ {w} : writer'[v] = writer[v]

\* Nobody enters or leaves the lock.
LEMMA LockUntouched ==
    ASSUME TypeInv, LockDiscipline, NoNewReader,
           \A r \in StateRef : /\ states'[r].holder = states[r].holder
                               /\ states'[r].inflight.owner = states[r].inflight.owner,
           \A v \in Writer : /\ Engaged(v)' <=> Engaged(v)
                             /\ Engaged(v) => writer'[v].ref = writer[v].ref
    PROVE  LockDiscipline'
<1>1. ASSUME NEW v \in Writer, Engaged(v)'
      PROVE  /\ states'[writer'[v].ref].holder = W(v)
             /\ states'[writer'[v].ref].inflight.owner = v
  <2>1. Engaged(v) /\ writer[v].ref \in StateRef /\ writer'[v].ref = writer[v].ref
    BY <1>1 DEF TypeInv, CallsOK, Engaged, Running
  <2>2. QED
    BY <2>1 DEF LockDiscipline
<1>2. ASSUME NEW ref \in StateRef, NEW u, u = states'[ref].inflight.owner, u # Nobody
      PROVE  Engaged(u)' /\ writer'[u].ref = ref
  <2>1. states[ref].inflight.owner = u
    BY <1>2
  <2>2. u \in Writer
    BY <1>2, <2>1 DEF TypeInv, StoreOK, CoordState, Here, WriteState, Inflight
  <2>3. Engaged(u) /\ writer[u].ref = ref
    BY <1>2, <2>1 DEF LockDiscipline
  <2>4. QED
    BY <2>1, <2>2, <2>3
<1>3. ASSUME NEW v \in Writer, reconciler'[v].pc = "reading"
      PROVE  states'[reconciler'[v].ref].holder = R(v)
  <2>1. reconciler[v].pc = "reading" /\ reconciler'[v].ref = reconciler[v].ref
        /\ reconciler[v].ref \in StateRef
    BY <1>3 DEF NoNewReader, TypeInv, ReconcilersOK
  <2>2. QED
    BY <2>1 DEF LockDiscipline
<1>4. QED
  BY <1>1, <1>2, <1>3 DEF LockDiscipline, Engaged

\* A call takes the free lock of ref and the slot.
LEMMA CallEntersLock ==
    ASSUME TypeInv, LockDiscipline, NEW w \in Writer, NEW ref \in StateRef,
           ~Engaged(w), states[ref].holder = Nobody,
           KeptBut(states, states', ref),
           states'[ref].holder = W(w), states'[ref].inflight.owner = w,
           OthersUnchanged(w), writer'[w].pc = "patching", writer'[w].ref = ref,
           NoNewReader
    PROVE  LockDiscipline'
<1>1. ASSUME NEW v \in Writer, Engaged(v)'
      PROVE  /\ states'[writer'[v].ref].holder = W(v)
             /\ states'[writer'[v].ref].inflight.owner = v
  <2>1. CASE v = w
    BY <2>1
  <2>2. CASE v # w
    <3>1. writer'[v] = writer[v]
      BY <2>2 DEF OthersUnchanged
    <3>2. Engaged(v) /\ writer[v].ref \in StateRef
      BY <1>1, <3>1 DEF Engaged, TypeInv, CallsOK, Running
    <3>3. states[writer[v].ref].holder = W(v) /\ states[writer[v].ref].inflight.owner = v
      BY <3>2 DEF LockDiscipline
    <3>4. writer[v].ref # ref
      BY <3>3, TasksDiffer
    <3>5. QED
      BY <3>1, <3>2, <3>3, <3>4 DEF KeptBut
  <2>3. QED
    BY <2>1, <2>2
<1>2. ASSUME NEW r \in StateRef, NEW u, u = states'[r].inflight.owner, u # Nobody
      PROVE  Engaged(u)' /\ writer'[u].ref = r
  <2>1. CASE r = ref
    BY <1>2, <2>1 DEF Engaged
  <2>2. CASE r # ref
    <3>1. states[r].inflight.owner = u
      BY <1>2, <2>2 DEF KeptBut
    <3>2. u \in Writer
      BY <1>2, <3>1 DEF TypeInv, StoreOK, CoordState, Here, WriteState, Inflight
    <3>3. Engaged(u) /\ writer[u].ref = r
      BY <1>2, <3>1 DEF LockDiscipline
    <3>4. writer'[u] = writer[u]
      BY <3>2, <3>3 DEF OthersUnchanged
    <3>5. QED
      BY <3>1, <3>3, <3>4 DEF Engaged
  <2>3. QED
    BY <2>1, <2>2
<1>3. ASSUME NEW v \in Writer, reconciler'[v].pc = "reading"
      PROVE  states'[reconciler'[v].ref].holder = R(v)
  <2>1. /\ reconciler[v].pc = "reading" /\ reconciler'[v].ref = reconciler[v].ref
        /\ reconciler[v].ref \in StateRef
    BY <1>3 DEF NoNewReader, TypeInv, ReconcilersOK
  <2>2. states[reconciler[v].ref].holder = R(v) /\ reconciler[v].ref # ref
    BY <2>1, TasksDiffer DEF LockDiscipline
  <2>3. QED
    BY <2>1, <2>2 DEF KeptBut
<1>4. QED
  BY <1>1, <1>2, <1>3 DEF LockDiscipline, Engaged

\* A call gives back the lock and the slot together.
LEMMA CallLeavesLock ==
    ASSUME TypeInv, LockDiscipline, NEW w \in Writer, NEW ref \in StateRef,
           Engaged(w), writer[w].ref = ref,
           KeptBut(states, states', ref),
           states'[ref].holder = Nobody, states'[ref].inflight.owner = Nobody,
           OthersUnchanged(w), writer'[w].pc = "done",
           NoNewReader
    PROVE  LockDiscipline'
<1>0. states[ref].holder = W(w) /\ states[ref].inflight.owner = w
  BY DEF LockDiscipline
<1>1. ASSUME NEW v \in Writer, Engaged(v)'
      PROVE  /\ states'[writer'[v].ref].holder = W(v)
             /\ states'[writer'[v].ref].inflight.owner = v
  <2>1. v # w
    BY <1>1 DEF Engaged
  <2>2. writer'[v] = writer[v]
    BY <2>1 DEF OthersUnchanged
  <2>3. Engaged(v) /\ writer[v].ref \in StateRef
    BY <1>1, <2>2 DEF Engaged, TypeInv, CallsOK, Running
  <2>4. states[writer[v].ref].holder = W(v) /\ states[writer[v].ref].inflight.owner = v
    BY <2>3 DEF LockDiscipline
  <2>5. writer[v].ref # ref
    BY <1>0, <2>1, <2>4
  <2>6. QED
    BY <2>2, <2>3, <2>4, <2>5 DEF KeptBut
<1>2. ASSUME NEW r \in StateRef, NEW u, u = states'[r].inflight.owner, u # Nobody
      PROVE  Engaged(u)' /\ writer'[u].ref = r
  <2>1. r # ref /\ states[r].inflight.owner = u
    BY <1>2 DEF KeptBut
  <2>2. u \in Writer
    BY <1>2, <2>1 DEF TypeInv, StoreOK, CoordState, Here, WriteState, Inflight
  <2>3. Engaged(u) /\ writer[u].ref = r
    BY <1>2, <2>1 DEF LockDiscipline
  <2>4. writer'[u] = writer[u]
    BY <2>1, <2>2, <2>3 DEF OthersUnchanged
  <2>5. QED
    BY <2>1, <2>3, <2>4 DEF Engaged
<1>3. ASSUME NEW v \in Writer, reconciler'[v].pc = "reading"
      PROVE  states'[reconciler'[v].ref].holder = R(v)
  <2>1. /\ reconciler[v].pc = "reading" /\ reconciler'[v].ref = reconciler[v].ref
        /\ reconciler[v].ref \in StateRef
    BY <1>3 DEF NoNewReader, TypeInv, ReconcilersOK
  <2>2. states[reconciler[v].ref].holder = R(v)
    BY <2>1 DEF LockDiscipline
  <2>3. reconciler[v].ref # ref
    BY <1>0, <2>2, TasksDiffer
  <2>4. QED
    BY <2>1, <2>2, <2>3 DEF KeptBut
<1>4. QED
  BY <1>1, <1>2, <1>3 DEF LockDiscipline, Engaged

\* A reconciliation takes the free lock of ref, or gives its own lock back.
LEMMA ReconcilerCrossesLock ==
    ASSUME TypeInv, LockDiscipline, NEW w \in Writer, NEW ref \in StateRef,
           UNCHANGED writer, KeptBut(states, states', ref),
           states'[ref].inflight.owner = states[ref].inflight.owner,
           \A v \in Writer \ {w} : reconciler'[v] = reconciler[v],
           \/ /\ states[ref].holder = Nobody /\ states'[ref].holder = R(w)
              /\ reconciler'[w].ref = ref
           \/ /\ states[ref].holder = R(w)
              /\ reconciler'[w].pc # "reading"
    PROVE  LockDiscipline'
<1>1. ASSUME NEW v \in Writer, Engaged(v)'
      PROVE  /\ states'[writer'[v].ref].holder = W(v)
             /\ states'[writer'[v].ref].inflight.owner = v
  <2>1. Engaged(v) /\ writer[v].ref \in StateRef
    BY <1>1 DEF Engaged, TypeInv, CallsOK, Running
  <2>2. states[writer[v].ref].holder = W(v) /\ states[writer[v].ref].inflight.owner = v
    BY <2>1 DEF LockDiscipline
  <2>3. writer[v].ref # ref
    BY <2>2, TasksDiffer
  <2>4. QED
    BY <2>1, <2>2, <2>3 DEF KeptBut
<1>2. ASSUME NEW r \in StateRef, NEW u, u = states'[r].inflight.owner, u # Nobody
      PROVE  Engaged(u)' /\ writer'[u].ref = r
  <2>1. states[r].inflight.owner = u
    BY <1>2 DEF KeptBut
  <2>2. QED
    BY <1>2, <2>1 DEF LockDiscipline, Engaged
<1>3. ASSUME NEW v \in Writer, reconciler'[v].pc = "reading"
      PROVE  states'[reconciler'[v].ref].holder = R(v)
  <2>1. CASE v = w
    BY <1>3, <2>1
  <2>2. CASE v # w
    <3>1. /\ reconciler'[v] = reconciler[v] /\ reconciler[v].ref \in StateRef
          /\ states[reconciler[v].ref].holder = R(v)
      BY <1>3, <2>2 DEF TypeInv, ReconcilersOK, LockDiscipline
    <3>2. reconciler[v].ref # ref
      BY <2>2, <3>1, TasksDiffer
    <3>3. QED
      BY <3>1, <3>2 DEF KeptBut
  <2>3. QED
    BY <2>1, <2>2
<1>4. QED
  BY <1>1, <1>2, <1>3 DEF LockDiscipline, Engaged

\* Nothing a call does to the reconciliations makes one read.
LEMMA NoNewReaderCases ==
    ASSUME TypeInv, NEW w \in Writer, UNCHANGED reconciler \/ Schedule(w)
    PROVE  NoNewReader
<1>1. reconciler \in [Writer -> ReconcilerState]
  BY DEF TypeInv, ReconcilersOK
<1>2. CASE UNCHANGED reconciler
  BY <1>2 DEF NoNewReader
<1>3. CASE Schedule(w)
  <2>1. reconciler'[w].pc = "sleeping"
    BY <1>1, <1>3 DEF Schedule, ReconcilerState
  <2>2. \A v \in Writer \ {w} : reconciler'[v] = reconciler[v]
    BY <1>1, <1>3 DEF Schedule
  <2>3. QED
    BY <2>1, <2>2 DEF NoNewReader
<1>4. QED
  BY <1>2, <1>3

\* A call that ends touches no other call.
LEMMA CallEndedFrame ==
    ASSUME TypeInv, NEW w \in Writer, NEW result,
           writer' = [writer EXCEPT ![w] = [IdleWriter EXCEPT !.pc = "done", !.result = result]]
    PROVE  OthersUnchanged(w) /\ writer'[w].pc = "done" /\ writer'[w].result = result
<1> DEFINE ended == [IdleWriter EXCEPT !.pc = "done", !.result = result]
<1>1. writer \in [Writer -> WriterState]
  BY DEF TypeInv, CallsOK
<1>2. ended.pc = "done" /\ ended.result = result
  BY DEF IdleWriter
<1> HIDE DEF ended
<1>3. writer' = [writer EXCEPT ![w] = ended]
  BY DEF ended
<1>4. QED
  BY <1>1, <1>2, <1>3 DEF OthersUnchanged

\* A call under way returns with its lock released in st.
LEMMA ReturnLeavesLock ==
    ASSUME TypeInv, LockDiscipline, NEW w \in Writer, Engaged(w), NEW st \in CoordState,
           NEW result, Return(w, st, result), NoNewReader,
           KeptBut(states, st.states, writer[w].ref),
           st.states[writer[w].ref].holder = Nobody,
           st.states[writer[w].ref].inflight.owner = states[writer[w].ref].inflight.owner
    PROVE  LockDiscipline'
<1> DEFINE ref == writer[w].ref
<1>1. ref \in StateRef
  BY DEF TypeInv, CallsOK, Engaged, Running
<1>2. states[ref].inflight.owner = w
  BY DEF LockDiscipline
<1>3. states' = FinishWrite(st, w, ref).states
  BY DEF Return, Become
<1>4. /\ KeptBut(states, states', ref)
      /\ states'[ref].holder = Nobody /\ states'[ref].inflight.owner = Nobody
  BY <1>1, <1>2, <1>3, FinishWriteKeeps DEF KeptBut
<1>5. OthersUnchanged(w) /\ writer'[w].pc = "done"
  BY CallEndedFrame DEF Return
<1>6. QED
  BY <1>1, <1>4, <1>5, CallLeavesLock

\* A return that clears the overlay leaves the lock as it must.
LEMMA ReturnClearedLeavesLock ==
    ASSUME TypeInv, LockDiscipline, NEW w \in Writer, Engaged(w), NEW st \in CoordState,
           NEW result, ReturnCleared(w, st, result), NoNewReader,
           Kept(states, st.states)
    PROVE  LockDiscipline'
<1> DEFINE ref     == writer[w].ref
           open    == ReleaseLock(st, ref)
           cleared == ClearOverlay(open, writer[w].payload)
<1>1. ref \in StateRef /\ W(w) \in Task /\ writer[w].payload \in Settings
  BY TasksDiffer DEF TypeInv, CallsOK, WriterState, Engaged, Running
<1>2. /\ open \in CoordState
      /\ KeptBut(st.states, open.states, ref)
      /\ open.states[ref].holder = Nobody
      /\ open.states[ref].inflight.owner = st.states[ref].inflight.owner
  BY <1>1, LockOperationsType, LockOperationsKeep
<1>3. cleared \in CoordState /\ Kept(open.states, cleared.states)
  BY <1>1, <1>2, ClearOverlayType, ClearOverlayKeeps
<1>4. /\ KeptBut(states, cleared.states, ref)
      /\ cleared.states[ref].holder = Nobody
      /\ cleared.states[ref].inflight.owner = states[ref].inflight.owner
  BY <1>1, <1>2, <1>3 DEF Kept, KeptBut
<1>5. Return(w, cleared, result)
  BY DEF ReturnCleared
<1>6. QED
  BY <1>3, <1>4, <1>5, ReturnLeavesLock

\* So does a return that only releases it.
LEMMA ReturnReleasedLeavesLock ==
    ASSUME TypeInv, LockDiscipline, NEW w \in Writer, Engaged(w), NEW st \in CoordState,
           NEW result, Return(w, ReleaseLock(st, writer[w].ref), result), NoNewReader,
           Kept(states, st.states)
    PROVE  LockDiscipline'
<1> DEFINE ref  == writer[w].ref
           open == ReleaseLock(st, ref)
<1>1. ref \in StateRef /\ W(w) \in Task
  BY TasksDiffer DEF TypeInv, CallsOK, Engaged, Running
<1>2. /\ open \in CoordState
      /\ KeptBut(st.states, open.states, ref)
      /\ open.states[ref].holder = Nobody
      /\ open.states[ref].inflight.owner = st.states[ref].inflight.owner
  BY <1>1, LockOperationsType, LockOperationsKeep
<1>3. /\ KeptBut(states, open.states, ref)
      /\ open.states[ref].inflight.owner = states[ref].inflight.owner
  BY <1>1, <1>2 DEF Kept, KeptBut
<1>4. QED
  BY <1>2, <1>3, ReturnLeavesLock

\* Here is the state the variables hold.
LEMMA HereKept == Kept(states, Here.states)
BY DEF Here, Kept

\* A failed request leaves the lock as it must.
LEMMA RequestFailsLock ==
    ASSUME TypeInv, LockDiscipline, NEW w \in Writer, Engaged(w), RequestFails(w),
           UNCHANGED reconciler
    PROVE  LockDiscipline'
<1>1. Here \in CoordState /\ NoNewReader
  BY NoNewReaderCases DEF TypeInv, StoreOK
<1>2. QED
  BY <1>1, HereKept, ReturnClearedLeavesLock, ReturnReleasedLeavesLock DEF RequestFails

\* So does a call whose outcome is decided.
LEMMA ConcludeLock ==
    ASSUME TypeInv, LockDiscipline, NEW w \in Writer, Engaged(w), Conclude(w, Here),
           UNCHANGED reconciler
    PROVE  LockDiscipline'
<1>1. Here \in CoordState /\ NoNewReader
  BY NoNewReaderCases DEF TypeInv, StoreOK
<1>2. QED
  BY <1>1, HereKept, ReturnClearedLeavesLock DEF Conclude

\* The lock of ref is free in this state and taken in st.
LEMMA EnterLockLock ==
    ASSUME TypeInv, LockDiscipline, NEW w \in Writer, ~Engaged(w), NEW st \in CoordState,
           NEW ref \in StateRef, NEW command \in Settings,
           EnterLock(w, st, ref, command), UNCHANGED reconciler,
           states[ref].holder = Nobody, st.states[ref].holder = W(w),
           KeptBut(states, st.states, ref),
           st.states[ref].inflight.owner = states[ref].inflight.owner
    PROVE  LockDiscipline'
<1> DEFINE payload == Encode(st.device, command)
           open    == ReleaseLock(st, ref)
<1>1. /\ W(w) \in Task /\ payload \in Settings /\ writer \in [Writer -> WriterState]
      /\ NoNewReader
  BY TasksDiffer, EncodeType, NoNewReaderCases DEF CoordState, TypeInv, CallsOK
<1>2. CASE CanEncode(st.device, command)
  <2>1. /\ states' = BeginWrite(st, w, ref, payload).states
        /\ writer' = [writer EXCEPT ![w].pc = "patching", ![w].ref = ref,
                                    ![w].command = command, ![w].payload = payload]
    BY <1>2 DEF EnterLock, Become
  <2> HIDE DEF payload
  <2>2. /\ KeptBut(states, states', ref)
        /\ states'[ref].holder = W(w) /\ states'[ref].inflight.owner = w
    BY <1>1, <2>1, BeginWriteKeeps DEF KeptBut
  <2>3. OthersUnchanged(w) /\ writer'[w].pc = "patching" /\ writer'[w].ref = ref
    BY <1>1, <2>1 DEF OthersUnchanged, WriterState
  <2>4. QED
    BY <1>1, <2>2, <2>3, CallEntersLock
<1>3. CASE ~CanEncode(st.device, command)
  <2>1. /\ states' = FinishWrite(open, w, ref).states
        /\ OthersUnchanged(w) /\ writer'[w].pc = "done"
    BY <1>3, CallEndedFrame DEF EnterLock, Become
  <2>2. /\ open \in CoordState
        /\ KeptBut(states, open.states, ref)
        /\ open.states[ref].holder = Nobody
        /\ open.states[ref].inflight.owner = states[ref].inflight.owner
    BY <1>1, LockOperationsType, LockOperationsKeep DEF KeptBut
  <2>3. states[ref].inflight.owner # w
    BY TasksDiffer DEF LockDiscipline
  <2>4. \A r \in StateRef : /\ states'[r].holder = states[r].holder
                            /\ states'[r].inflight.owner = states[r].inflight.owner
    BY <2>1, <2>2, <2>3, FinishWriteKeeps DEF KeptBut
  <2>5. \A v \in Writer : /\ Engaged(v)' <=> Engaged(v)
                          /\ Engaged(v) => writer'[v].ref = writer[v].ref
    BY <2>1 DEF OthersUnchanged, Engaged
  <2>6. QED
    BY <1>1, <2>4, <2>5, LockUntouched
<1>4. QED
  BY <1>2, <1>3

\* No lock is held and no slot owned at the start.
LEMMA InitLock == Init => LockDiscipline
<1> SUFFICES ASSUME Init PROVE LockDiscipline
  OBVIOUS
<1>1. \A w \in Writer : writer[w].pc = "idle" /\ reconciler[w].pc = "none"
  BY DEF Init, IdleWriter, IdleReconciler
<1>2. \A ref \in StateRef : states[ref].inflight.owner = Nobody
  BY DEF Init, FreshState, NoInflight
<1>3. QED
  BY <1>1, <1>2 DEF LockDiscipline, Engaged

\* A new service call takes a free lock or queues.
LEMMA CallLock ==
    ASSUME TypeInv, LockDiscipline, NEW w \in Writer, NEW command \in Command,
           Call(w, command)
    PROVE  LockDiscipline'
<1> DEFINE ref    == IF entry = NoState THEN <<"call", w>> ELSE entry
           called == [Here EXCEPT !.entry = ref, !.states[ref].active = @ + 1]
           held   == TakeLock(called, ref, W(w))
           queued == WaitForLock(called, ref, W(w))
<1>1. /\ ref \in StateRef /\ command \in Settings /\ W(w) \in Task
      /\ Here \in CoordState /\ ~Engaged(w) /\ writer \in [Writer -> WriterState]
  BY RefsType, TasksDiffer, PairAssumption
  DEF TypeInv, StoreOK, CallsOK, CoordState, Here, Call, Engaged
<1>2. /\ UNCHANGED reconciler
      /\ IF LockIsFree(states[ref])
         THEN EnterLock(w, held, ref, command)
         ELSE /\ Become(queued)
              /\ writer' = [writer EXCEPT ![w].pc = "queued", ![w].ref = ref,
                                          ![w].command = command]
  BY DEF Call
<1> HIDE DEF ref
<1>3. /\ called \in CoordState
      /\ \A r \in StateRef : /\ called.states[r].holder = states[r].holder
                             /\ called.states[r].inflight = states[r].inflight
      /\ \A r \in StateRef \ {ref} : called.states[r] = states[r]
  <2> DEFINE ws == Here.states[ref]
             counted == [ws EXCEPT !.active = @ + 1]
  <2>1. ws \in WriteState /\ ws.active + 1 \in Int
    BY <1>1 DEF CoordState, WriteState
  <2>2. counted \in WriteState /\ counted.holder = ws.holder /\ counted.inflight = ws.inflight
    BY <2>1 DEF WriteState
  <2>3. called = [Here EXCEPT !.entry = ref, !.states = [@ EXCEPT ![ref] = counted]]
    OBVIOUS
  <2> HIDE DEF counted
  <2>4. called \in CoordState
    BY <1>1, <2>2, <2>3 DEF CoordState
  <2>5. called.states = [states EXCEPT ![ref] = counted] /\ ws = states[ref]
    BY <1>1, <2>3 DEF CoordState, Here
  <2>6. states \in [StateRef -> WriteState]
    BY <1>1 DEF CoordState, Here
  <2> HIDE DEF ws, called
  <2>7. QED
    BY <1>1, <2>2, <2>4, <2>5, <2>6
<1> HIDE DEF called
<1>4. CASE LockIsFree(states[ref])
  <2>1. /\ held \in CoordState
        /\ KeptBut(called.states, held.states, ref)
        /\ held.states[ref].holder = W(w)
        /\ held.states[ref].inflight.owner = called.states[ref].inflight.owner
    BY <1>1, <1>3, LockOperationsType, LockOperationsKeep
  <2>2. /\ KeptBut(states, held.states, ref)
        /\ held.states[ref].inflight.owner = states[ref].inflight.owner
    BY <1>1, <1>3, <2>1 DEF KeptBut
  <2>3. states[ref].holder = Nobody
    BY <1>4 DEF LockIsFree
  <2>4. EnterLock(w, held, ref, command) /\ UNCHANGED reconciler
    BY <1>2, <1>4
  <2>5. QED
    BY <1>1, <2>1, <2>2, <2>3, <2>4, EnterLockLock
<1>5. CASE ~LockIsFree(states[ref])
  <2>1. /\ states' = queued.states /\ UNCHANGED reconciler
        /\ writer' = [writer EXCEPT ![w].pc = "queued", ![w].ref = ref,
                                    ![w].command = command]
    BY <1>2, <1>5 DEF Become
  <2>2. Kept(called.states, queued.states)
    BY <1>1, <1>3, LockOperationsKeep
  <2>3. \A r \in StateRef : /\ states'[r].holder = states[r].holder
                            /\ states'[r].inflight.owner = states[r].inflight.owner
    BY <1>3, <2>1, <2>2 DEF Kept
  <2>4. writer'[w].pc = "queued" /\ \A v \in Writer \ {w} : writer'[v] = writer[v]
    BY <1>1, <2>1 DEF WriterState
  <2>5. \A v \in Writer : /\ Engaged(v)' <=> Engaged(v)
                          /\ Engaged(v) => writer'[v].ref = writer[v].ref
    BY <1>1, <2>4 DEF Engaged
  <2>6. QED
    BY <2>1, <2>3, <2>5, LockUntouched, NoNewReaderCases
<1>6. QED
  BY <1>4, <1>5

\* A queued call takes the lock it was granted.
LEMMA AcquireLock ==
    ASSUME TypeInv, LockDiscipline, NEW w \in Writer, Acquire(w) PROVE LockDiscipline'
<1> DEFINE ref  == writer[w].ref
           held == TakeLock(Here, ref, W(w))
<1>1. /\ ref \in StateRef /\ W(w) \in Task /\ Here \in CoordState /\ ~Engaged(w)
      /\ writer[w].command \in Settings /\ Here.states = states
      /\ states[ref].holder = Nobody
  BY TasksDiffer
  DEF Acquire, TypeInv, StoreOK, CallsOK, Running, Engaged, WriterState, Here, LockIsGranted
<1>2. /\ held \in CoordState
      /\ KeptBut(states, held.states, ref)
      /\ held.states[ref].holder = W(w)
      /\ held.states[ref].inflight.owner = states[ref].inflight.owner
  BY <1>1, LockOperationsType, LockOperationsKeep
<1>3. EnterLock(w, held, ref, writer[w].command) /\ UNCHANGED reconciler
  BY DEF Acquire
<1>4. QED
  BY <1>1, <1>2, <1>3, EnterLockLock
\* A call under way goes on to another await, at the same lock.
LEMMA CallMovesLock ==
    ASSUME TypeInv, LockDiscipline, NEW w \in Writer, Engaged(w), NoNewReader,
           \A r \in StateRef : /\ states'[r].holder = states[r].holder
                               /\ states'[r].inflight.owner = states[r].inflight.owner,
           OthersUnchanged(w), writer'[w].ref = writer[w].ref,
           writer'[w].pc \in {"confirming", "reading", "pausing"}
    PROVE  LockDiscipline'
<1>1. \A v \in Writer : /\ Engaged(v)' <=> Engaged(v)
                        /\ Engaged(v) => writer'[v].ref = writer[v].ref
  BY DEF Engaged, OthersUnchanged
<1>2. QED
  BY <1>1, LockUntouched

\* The tasks stay where they are.
LEMMA TasksStayLock ==
    ASSUME TypeInv, LockDiscipline, UNCHANGED writer, NoNewReader,
           \A r \in StateRef : /\ states'[r].holder = states[r].holder
                               /\ states'[r].inflight.owner = states[r].inflight.owner
    PROVE  LockDiscipline'
<1>1. \A v \in Writer : /\ Engaged(v)' <=> Engaged(v)
                        /\ Engaged(v) => writer'[v].ref = writer[v].ref
  BY DEF Engaged
<1>2. QED
  BY <1>1, LockUntouched

\* Every step of a call keeps lock and slot together.
LEMMA WriterStepLock ==
    ASSUME TypeInv, LockDiscipline, NEW w \in Writer, WriterStep(w) PROVE LockDiscipline'
<1>1. writer \in [Writer -> WriterState] /\ Here \in CoordState
  BY DEF TypeInv, CallsOK, StoreOK
<1>2. CASE Acquire(w)
  BY <1>2, AcquireLock
<1>3. CASE PatchSucceeds(w)
  <2>1. Engaged(w) /\ UNCHANGED reconciler /\ NoNewReader
    BY <1>3, NoNewReaderCases DEF PatchSucceeds, Engaged
  <2>2. CASE states[writer[w].ref].inflight.outcome = "unknown"
    <3>1. writer' = [writer EXCEPT ![w].pc = "confirming"] /\ UNCHANGED states
      BY <1>3, <2>2 DEF PatchSucceeds
    <3>2. /\ OthersUnchanged(w) /\ writer'[w].ref = writer[w].ref
          /\ writer'[w].pc = "confirming"
      BY <1>1, <3>1 DEF OthersUnchanged, WriterState
    <3>3. QED
      BY <2>1, <3>1, <3>2, CallMovesLock
  <2>3. CASE states[writer[w].ref].inflight.outcome # "unknown"
    BY <1>3, <2>1, <2>3, ConcludeLock DEF PatchSucceeds
  <2>4. QED
    BY <2>2, <2>3
<1>4. CASE PatchFails(w)
  BY <1>4, RequestFailsLock DEF PatchFails, Engaged
<1>5. CASE EventWakes(w)
  BY <1>5, ConcludeLock DEF EventWakes, Engaged
<1>6. CASE ConfirmTimesOut(w)
  <2>1. Engaged(w) /\ NoNewReader /\ UNCHANGED states
    BY <1>6, NoNewReaderCases DEF ConfirmTimesOut, Engaged
  <2>2. OthersUnchanged(w) /\ writer'[w].ref = writer[w].ref /\ writer'[w].pc = "reading"
    BY <1>1, <1>6 DEF ConfirmTimesOut, OthersUnchanged, WriterState
  <2>3. QED
    BY <2>1, <2>2, CallMovesLock
<1>7. CASE ReadSucceeds(w)
  <2> DEFINE ref == writer[w].ref
             Ends(read) ==
                \/ \E result \in {"success", "rejected"} : ReturnCleared(w, read, result)
                \/ Return(w, ReleaseLock(read, ref), "success")
                \/ Become(read) /\ writer' = [writer EXCEPT ![w].pc = "pausing"]
  <2>1. Engaged(w) /\ NoNewReader
    BY <1>7, NoNewReaderCases DEF ReadSucceeds, Engaged
  <2>2. \E t \in Recent : \E stamp \in StampsOf(t) :
            Ends(TakeRestSettings(Here, history[t], stamp))
    BY <1>7 DEF ReadSucceeds
  <2>3. PICK t \in Recent, stamp \in Nat : Ends(TakeRestSettings(Here, history[t], stamp))
    BY <2>2, RecentType DEF Stamp
  <2> DEFINE read == TakeRestSettings(Here, history[t], stamp)
  <2>4. read \in CoordState /\ Kept(states, read.states)
    BY <1>1, RecentType, TakeRestSettingsType, TakeRestSettingsKeeps DEF Stamp, Here
  <2>5. CASE Become(read) /\ writer' = [writer EXCEPT ![w].pc = "pausing"]
    <3>1. OthersUnchanged(w) /\ writer'[w].ref = ref /\ writer'[w].pc = "pausing"
      BY <1>1, <2>5 DEF OthersUnchanged, WriterState
    <3>2. QED
      BY <2>1, <2>4, <2>5, <3>1, CallMovesLock DEF Become, Kept
  <2> HIDE DEF read
  <2>6. QED
    BY <2>1, <2>3, <2>4, <2>5, ReturnClearedLeavesLock, ReturnReleasedLeavesLock DEF read
<1>8. CASE ReadFails(w)
  BY <1>8, RequestFailsLock DEF ReadFails, Engaged
<1>9. CASE PauseEnds(w)
  <2>1. Engaged(w) /\ NoNewReader /\ UNCHANGED states
    BY <1>9, NoNewReaderCases DEF PauseEnds, Engaged
  <2>2. OthersUnchanged(w) /\ writer'[w].ref = writer[w].ref /\ writer'[w].pc = "reading"
    BY <1>1, <1>9 DEF PauseEnds, OthersUnchanged, WriterState
  <2>3. QED
    BY <2>1, <2>2, CallMovesLock
<1>10. QED
  BY <1>2, <1>3, <1>4, <1>5, <1>6, <1>7, <1>8, <1>9 DEF WriterStep

\* A cancelled call keeps them together, in the queue or inside.
LEMMA CancelLock ==
    ASSUME TypeInv, LockDiscipline, NEW w \in Writer, Cancel(w) PROVE LockDiscipline'
<1> DEFINE ref == writer[w].ref
<1>1. Here \in CoordState /\ NoNewReader /\ Kept(states, Here.states) /\ W(w) \in Task
  BY TasksDiffer, HereKept, NoNewReaderCases DEF Cancel, TypeInv, StoreOK
<1>2. CASE writer[w].pc = "queued"
  <2>1. PICK i \in DOMAIN states[ref].waiters : Return(w, LeaveQueue(Here, ref, i), "cancelled")
    BY <1>2 DEF Cancel, Engaged
  <2> DEFINE left == LeaveQueue(Here, ref, i)
  <2>2. ref \in StateRef /\ ~Engaged(w)
    BY <1>2 DEF TypeInv, CallsOK, Running, Engaged
  <2>3. left \in CoordState /\ Kept(states, left.states)
    BY <1>1, <2>2, LockOperationsType, LockOperationsKeep DEF Here
  <2>4. states' = FinishWrite(left, w, ref).states
    BY <2>1 DEF Return, Become
  <2>5. states[ref].inflight.owner # w
    BY <2>2, TasksDiffer DEF LockDiscipline
  <2> HIDE DEF left
  <2>6. \A r \in StateRef : /\ states'[r].holder = states[r].holder
                            /\ states'[r].inflight.owner = states[r].inflight.owner
    BY <2>2, <2>3, <2>4, <2>5, FinishWriteKeeps DEF Kept, KeptBut
  <2>7. OthersUnchanged(w) /\ writer'[w].pc = "done"
    BY <2>1, CallEndedFrame DEF Return
  <2>8. \A v \in Writer : /\ Engaged(v)' <=> Engaged(v)
                          /\ Engaged(v) => writer'[v].ref = writer[v].ref
    BY <2>2, <2>7 DEF Engaged, OthersUnchanged
  <2>9. QED
    BY <1>1, <2>6, <2>8, LockUntouched
<1>3. CASE writer[w].pc # "queued"
  <2>1. /\ Engaged(w)
        /\ \/ ReturnCleared(w, Here, "cancelled")
           \/ Return(w, ReleaseLock(Here, ref), "cancelled")
    BY <1>3 DEF Cancel
  <2>2. QED
    BY <1>1, <2>1, ReturnClearedLeavesLock, ReturnReleasedLeavesLock
<1>4. QED
  BY <1>2, <1>3
\* What a reconciliation's own record change leaves alone.
OtherReconcilersUnchanged(w) == \A v \in Writer \ {w} : reconciler'[v] = reconciler[v]

\* A reconciliation that ends, sleeps or moves touches no other one.
LEMMA ReconcilerRecord ==
    ASSUME TypeInv, NEW w \in Writer
    PROVE  /\ ReconcilerEnds(w) =>
                OtherReconcilersUnchanged(w) /\ reconciler'[w].pc = "done"
           /\ NextRound(w) =>
                OtherReconcilersUnchanged(w) /\ reconciler'[w].pc = "sleeping"
           /\ \A pc : reconciler' = [reconciler EXCEPT ![w].pc = pc] =>
                /\ OtherReconcilersUnchanged(w)
                /\ reconciler'[w].pc = pc /\ reconciler'[w].ref = reconciler[w].ref
<1>1. reconciler \in [Writer -> ReconcilerState]
  BY DEF TypeInv, ReconcilersOK
<1>2. [IdleReconciler EXCEPT !.pc = "done"].pc = "done"
  BY DEF IdleReconciler
<1>3. ReconcilerEnds(w) => OtherReconcilersUnchanged(w) /\ reconciler'[w].pc = "done"
  BY <1>1, <1>2 DEF ReconcilerEnds, OtherReconcilersUnchanged
<1>4. NextRound(w) => OtherReconcilersUnchanged(w) /\ reconciler'[w].pc = "sleeping"
  BY <1>1 DEF NextRound, OtherReconcilersUnchanged, ReconcilerState
<1>5. QED
  BY <1>1, <1>3, <1>4 DEF OtherReconcilersUnchanged, ReconcilerState

\* A reconciliation that moves disturbs no other task.
LEMMA ReconcilerMovesFrame ==
    ASSUME TypeInv, NEW w \in Writer, NEW pc, NEW ref,
           reconciler' = [reconciler EXCEPT ![w].pc = pc, ![w].ref = ref]
    PROVE  /\ OtherReconcilersUnchanged(w)
           /\ reconciler'[w].pc = pc /\ reconciler'[w].ref = ref
BY DEF TypeInv, ReconcilersOK, OtherReconcilersUnchanged, ReconcilerState

\* The reconciliation w, reading under its lock in this state, releases it in st.
LEMMA ReconcilerReleases ==
    ASSUME TypeInv, LockDiscipline, NEW w \in Writer, reconciler[w].pc = "reading",
           UNCHANGED writer, OtherReconcilersUnchanged(w), reconciler'[w].pc # "reading",
           NEW st \in CoordState, Kept(states, st.states),
           Kept(ReleaseLock(st, reconciler[w].ref).states, states')
    PROVE  LockDiscipline'
<1> DEFINE ref  == reconciler[w].ref
           open == ReleaseLock(st, ref)
<1>1. ref \in StateRef /\ R(w) \in Task /\ states[ref].holder = R(w)
  BY TasksDiffer DEF TypeInv, ReconcilersOK, LockDiscipline
<1>2. /\ KeptBut(st.states, open.states, ref)
      /\ open.states[ref].inflight.owner = st.states[ref].inflight.owner
  BY <1>1, LockOperationsKeep
<1>3. /\ KeptBut(states, states', ref)
      /\ states'[ref].inflight.owner = states[ref].inflight.owner
  BY <1>1, <1>2 DEF Kept, KeptBut
<1>4. QED
  BY <1>1, <1>3, ReconcilerCrossesLock DEF OtherReconcilersUnchanged

\* A round that ends has given the lock back.
LEMMA RoundEndsLock ==
    ASSUME TypeInv, LockDiscipline, NEW w \in Writer, reconciler[w].pc = "reading",
           UNCHANGED writer, NEW st \in CoordState, Kept(states, st.states),
           \/ RoundEnds(w, ReleaseLock(st, reconciler[w].ref))
           \/ /\ Become(ClearOverlay(ReleaseLock(st, reconciler[w].ref), reconciler[w].payload))
              /\ ReconcilerEnds(w)
    PROVE  LockDiscipline'
<1> DEFINE open    == ReleaseLock(st, reconciler[w].ref)
           cleared == ClearOverlay(open, reconciler[w].payload)
<1>1. reconciler[w].ref \in StateRef /\ reconciler[w].payload \in Settings /\ R(w) \in Task
  BY TasksDiffer DEF TypeInv, ReconcilersOK, ReconcilerState
<1>2. open \in CoordState
  BY <1>1, LockOperationsType
<1>3. Kept(open.states, open.states) /\ Kept(open.states, cleared.states)
  BY <1>1, <1>2, ClearOverlayKeeps DEF Kept
<1>4. states' \in {open.states, cleared.states} /\ (NextRound(w) \/ ReconcilerEnds(w))
  BY DEF RoundEnds, ClearIfCurrent, Become
<1> HIDE DEF cleared
<1>5. Kept(open.states, states')
  BY <1>3, <1>4
<1>6. OtherReconcilersUnchanged(w) /\ reconciler'[w].pc # "reading"
  BY <1>4, ReconcilerRecord
<1>7. QED
  BY <1>5, <1>6, ReconcilerReleases

\* The end of a delay takes a free lock or queues.
LEMMA DelayElapsesLock ==
    ASSUME TypeInv, LockDiscipline, NEW w \in Writer, DelayElapses(w) PROVE LockDiscipline'
<1>1. /\ Here \in CoordState /\ Kept(states, Here.states) /\ Here.states = states
      /\ R(w) \in Task /\ UNCHANGED writer
  BY TasksDiffer, HereKept DEF TypeInv, StoreOK, Here, DelayElapses
<1>2. CASE ~IsCurrent(device, reconciler[w].payload) \/ entry = NoState
  <2>1. ReconcilerEnds(w) /\ states' = states
    BY <1>2 DEF DelayElapses, Become, Here
  <2>2. NoNewReader
    BY <2>1, ReconcilerRecord DEF NoNewReader, OtherReconcilersUnchanged
  <2>3. QED
    BY <1>1, <2>1, <2>2, TasksStayLock
<1>3. CASE IsCurrent(device, reconciler[w].payload) /\ entry # NoState
  <2>1. entry \in StateRef
    BY <1>1, <1>3 DEF CoordState, Here
  <2>2. CASE LockIsFree(states[entry])
    <3> DEFINE held == TakeLock(Here, entry, R(w))
    <3>1. /\ states' = held.states /\ states[entry].holder = Nobody
          /\ reconciler' = [reconciler EXCEPT ![w].pc = "reading", ![w].ref = entry]
      BY <1>3, <2>2 DEF DelayElapses, Become, LockIsFree
    <3>2. /\ KeptBut(states, states', entry) /\ states'[entry].holder = R(w)
          /\ states'[entry].inflight.owner = states[entry].inflight.owner
      BY <1>1, <2>1, <3>1, LockOperationsKeep
    <3>3. OtherReconcilersUnchanged(w) /\ reconciler'[w].ref = entry
      BY <3>1, ReconcilerMovesFrame
    <3>4. QED
      BY <1>1, <2>1, <3>1, <3>2, <3>3, ReconcilerCrossesLock DEF OtherReconcilersUnchanged
  <2>3. CASE ~LockIsFree(states[entry])
    <3>1. /\ states' = WaitForLock(Here, entry, R(w)).states
          /\ reconciler' = [reconciler EXCEPT ![w].pc = "locking", ![w].ref = entry]
      BY <1>3, <2>3 DEF DelayElapses, Become
    <3>2. Kept(states, states')
      BY <1>1, <2>1, <3>1, LockOperationsKeep
    <3>3. OtherReconcilersUnchanged(w) /\ reconciler'[w].pc = "locking"
      BY <3>1, ReconcilerMovesFrame
    <3>4. NoNewReader
      BY <3>3 DEF NoNewReader, OtherReconcilersUnchanged
    <3>5. QED
      BY <1>1, <3>2, <3>4, TasksStayLock DEF Kept
  <2>4. QED
    BY <2>2, <2>3
<1>4. QED
  BY <1>2, <1>3

\* A queued reconciliation takes the lock it was granted, or gives it back.
LEMMA ReconcilerAcquiresLock ==
    ASSUME TypeInv, LockDiscipline, NEW w \in Writer, ReconcilerAcquires(w)
    PROVE  LockDiscipline'
<1> DEFINE ref  == reconciler[w].ref
           held == TakeLock(Here, ref, R(w))
           open == ReleaseLock(held, ref)
<1>1. /\ Here \in CoordState /\ Here.states = states /\ R(w) \in Task /\ UNCHANGED writer
      /\ ref \in StateRef /\ states[ref].holder = Nobody /\ reconciler[w].pc = "locking"
  BY TasksDiffer
  DEF TypeInv, StoreOK, ReconcilersOK, Here, ReconcilerAcquires, ReconcilerAt, LockIsGranted
<1>2. /\ held \in CoordState
      /\ KeptBut(states, held.states, ref) /\ held.states[ref].holder = R(w)
      /\ held.states[ref].inflight.owner = states[ref].inflight.owner
  BY <1>1, LockOperationsType, LockOperationsKeep
<1>3. CASE IsCurrent(device, reconciler[w].payload)
  <2>1. states' = held.states /\ reconciler' = [reconciler EXCEPT ![w].pc = "reading"]
    BY <1>3 DEF ReconcilerAcquires, Become
  <2>2. OtherReconcilersUnchanged(w) /\ reconciler'[w].ref = ref
    BY <2>1, ReconcilerRecord
  <2>3. QED
    BY <1>1, <1>2, <2>1, <2>2, ReconcilerCrossesLock DEF OtherReconcilersUnchanged
<1>4. CASE ~IsCurrent(device, reconciler[w].payload)
  <2>1. states' = open.states /\ ReconcilerEnds(w)
    BY <1>4 DEF ReconcilerAcquires, Become
  <2>2. /\ KeptBut(held.states, open.states, ref) /\ open.states[ref].holder = Nobody
        /\ open.states[ref].inflight.owner = held.states[ref].inflight.owner
    BY <1>1, <1>2, LockOperationsKeep
  <2>3. \A r \in StateRef : /\ states'[r].holder = states[r].holder
                            /\ states'[r].inflight.owner = states[r].inflight.owner
    BY <1>1, <1>2, <2>1, <2>2 DEF KeptBut
  <2>4. NoNewReader
    BY <2>1, ReconcilerRecord DEF NoNewReader, OtherReconcilersUnchanged
  <2>5. QED
    BY <1>1, <2>3, <2>4, TasksStayLock
<1>5. QED
  BY <1>3, <1>4

\* A deferred read gives the lock back.
LEMMA DeferredReadLock ==
    ASSUME TypeInv, LockDiscipline, NEW w \in Writer,
           DeferredReadSucceeds(w) \/ DeferredReadFails(w)
    PROVE  LockDiscipline'
<1> DEFINE Ends(read) ==
            \/ RoundEnds(w, ReleaseLock(read, reconciler[w].ref))
            \/ /\ Become(ClearOverlay(ReleaseLock(read, reconciler[w].ref),
                                      reconciler[w].payload))
               /\ ReconcilerEnds(w)
<1>1. /\ Here \in CoordState /\ Here.states = states /\ Kept(states, Here.states)
      /\ UNCHANGED writer /\ reconciler[w].pc = "reading"
  BY HereKept
  DEF TypeInv, StoreOK, Here, DeferredReadSucceeds, DeferredReadFails, ReconcilerAt
<1>2. CASE DeferredReadSucceeds(w)
  <2>1. \E t \in Recent : \E stamp \in StampsOf(t) :
            Ends(TakeRestSettings(Here, history[t], stamp))
    BY <1>2 DEF DeferredReadSucceeds
  <2>2. PICK t \in Recent, stamp \in Nat : Ends(TakeRestSettings(Here, history[t], stamp))
    BY <2>1, RecentType DEF Stamp
  <2> DEFINE read == TakeRestSettings(Here, history[t], stamp)
  <2>3. read \in CoordState /\ Kept(states, read.states)
    BY <1>1, RecentType, TakeRestSettingsType, TakeRestSettingsKeeps DEF Stamp
  <2> HIDE DEF read
  <2>4. QED
    BY <1>1, <2>2, <2>3, RoundEndsLock DEF read
<1>3. CASE DeferredReadFails(w)
  BY <1>1, <1>3, RoundEndsLock DEF DeferredReadFails
<1>4. QED
  BY <1>2, <1>3

\* A cancelled reconciliation gives back only the lock it holds.
LEMMA ReconcilerUnwindsLock ==
    ASSUME TypeInv, LockDiscipline, NEW w \in Writer, ReconcilerUnwinds(w)
    PROVE  LockDiscipline'
<1> DEFINE ref == reconciler[w].ref
<1>1. /\ Here \in CoordState /\ Kept(states, Here.states) /\ Here.states = states
      /\ R(w) \in Task /\ UNCHANGED writer
      /\ reconciler[w].pc \in {"sleeping", "locking", "reading"}
  BY TasksDiffer, HereKept
  DEF TypeInv, StoreOK, ReconcilersOK, ReconcilerState, ReconcilerPc, Here,
      ReconcilerUnwinds, Reconciling
<1>2. OtherReconcilersUnchanged(w) /\ reconciler'[w].pc = "done" /\ NoNewReader
  BY ReconcilerRecord DEF ReconcilerUnwinds, NoNewReader, OtherReconcilersUnchanged
<1>3. CASE reconciler[w].pc = "sleeping"
  <2>1. states' = states
    BY <1>3 DEF ReconcilerUnwinds, Become, Here
  <2>2. QED
    BY <1>1, <1>2, <2>1, TasksStayLock
<1>4. CASE reconciler[w].pc = "reading"
  <2>1. states' = ReleaseLock(Here, ref).states
    BY <1>4 DEF ReconcilerUnwinds, Become
  <2>2. Kept(ReleaseLock(Here, ref).states, states')
    BY <2>1 DEF Kept
  <2>3. QED
    BY <1>1, <1>2, <1>4, <2>2, ReconcilerReleases
<1>5. CASE reconciler[w].pc = "locking"
  <2>1. ref \in StateRef
    BY <1>5 DEF TypeInv, ReconcilersOK
  <2>2. PICK i \in DOMAIN states[ref].waiters : Become(LeaveQueue(Here, ref, i))
    BY <1>5 DEF ReconcilerUnwinds
  <2>3. Kept(states, states')
    BY <1>1, <2>1, <2>2, LockOperationsKeep DEF Become
  <2>4. QED
    BY <1>1, <1>2, <2>3, TasksStayLock DEF Kept
<1>6. QED
  BY <1>1, <1>3, <1>4, <1>5

\* No push, refresh, hierarchy, shutdown or cloud step touches a lock.
LEMMA EnvironmentLock ==
    ASSUME TypeInv, LockDiscipline,
           \/ Push \/ RefreshSettings \/ RemoveDevice \/ RediscoverDevice
           \/ BeginShutdown \/ EndShutdown \/ CloudChanges
           \/ \E w \in Writer : CloudApplies(w)
           \/ UNCHANGED vars
    PROVE  LockDiscipline'
<1>1. Here \in CoordState /\ Here.states = states
  BY DEF TypeInv, StoreOK, Here
<1>2. UNCHANGED writer
  BY DEF Push, RefreshSettings, RemoveDevice, RediscoverDevice, BeginShutdown, EndShutdown,
         CloudChanges, CloudApplies, vars
<1>3. NoNewReader
  <2>1. CASE BeginShutdown
    BY <2>1 DEF BeginShutdown, NoNewReader, TypeInv, ReconcilersOK, ReconcilerState
  <2>2. CASE UNCHANGED reconciler
    BY <2>2 DEF NoNewReader
  <2>3. QED
    BY <2>1, <2>2 DEF Push, RefreshSettings, RemoveDevice, RediscoverDevice, EndShutdown,
                      CloudChanges, CloudApplies, vars
<1>4. Kept(states, states')
  <2>1. CASE Push
    <3> DEFINE applied(document, stamp) ==
                    [Here EXCEPT !.device = ApplyIncremental(@, document, stamp)]
    <3>1. PICK t \in Recent, view \in PushView, stamp \in Nat :
            Become(ObserveInflight(applied(Visible(history[t], view), stamp),
                                   Visible(history[t], view), stamp, "websocket"))
      BY <2>1, RecentType DEF Push, Stamp
    <3>2. Visible(history[t], view) \in Settings /\ stamp \in Stamp
      BY RecentType DEF Stamp
    <3>3. /\ applied(Visible(history[t], view), stamp) \in CoordState
          /\ applied(Visible(history[t], view), stamp).states = states
      BY <1>1, <3>2, ApplyIncrementalType DEF CoordState
    <3>4. QED
      BY <3>1, <3>3, ObserveInflightKeeps DEF Become
  <2>2. CASE RefreshSettings
    <3>1. PICK t \in Recent, stamp \in Nat :
            Become(TakeRestSettings(Here, history[t], stamp))
      BY <2>2, RecentType DEF RefreshSettings, Stamp
    <3>2. QED
      BY <1>1, <3>1, RecentType, TakeRestSettingsKeeps DEF Become, Stamp
  <2>3. CASE UNCHANGED states
    BY <2>3 DEF Kept
  <2>4. QED
    BY <2>1, <2>2, <2>3
    DEF RemoveDevice, RediscoverDevice, BeginShutdown, EndShutdown, CloudChanges, CloudApplies, vars
<1>5. QED
  BY <1>2, <1>3, <1>4, TasksStayLock DEF Kept

\* Every step of the specification keeps lock and slot together.
LEMMA NextLock == TypeInv /\ LockDiscipline /\ [Next]_vars => LockDiscipline'
<1> SUFFICES ASSUME TypeInv, LockDiscipline, [Next]_vars PROVE LockDiscipline'
  OBVIOUS
<1>1. ASSUME NEW w \in Writer, \E command \in Command : Call(w, command) PROVE LockDiscipline'
  BY <1>1, CallLock
<1>2. ASSUME NEW w \in Writer, ReconcilerStep(w) PROVE LockDiscipline'
  BY <1>2, DelayElapsesLock, ReconcilerAcquiresLock, DeferredReadLock, ReconcilerUnwindsLock
  DEF ReconcilerStep
<1>3. QED
  BY <1>1, <1>2, WriterStepLock, CancelLock, EnvironmentLock DEF Next

\* At any time at most one call has a request of this device under way on a
\* write state: it holds the lock, owns the slot, and gives both back together,
\* in whichever way it ends.
THEOREM LockSafe == Spec => []LockDiscipline
<1>1. Spec => [](TypeInv /\ LockDiscipline)
  BY InitTypeInv, NextTypeInv, InitLock, NextLock, PTL DEF Spec
<1>2. QED
  BY <1>1, PTL
----------------------------------------------------------------------------
(* The settings version                                                     *)

\* Taking an overlay back leaves the settings version.
LEMMA ClearOverlayVersion ==
    ASSUME NEW st \in CoordState, NEW p \in Settings
    PROVE  ClearOverlay(st, p).device.version = st.device.version
<1> DEFINE cleared == [st EXCEPT !.device = ClearPending(@, p)]
<1>1. cleared \in CoordState /\ cleared.device = ClearPending(st.device, p)
  BY ClearPendingType DEF CoordState
<1>2. ClearPending(st.device, p).version = st.device.version
  BY DEF ClearPending, CoordState, DeviceRecord
<1>3. QED
  BY <1>1, <1>2, SyncWriteStateType, RefsType DEF ClearOverlay

\* A REST settings response never moves the version back.
LEMMA TakeRestSettingsVersion ==
    ASSUME NEW st \in CoordState, NEW doc \in Settings, NEW stamp \in Stamp
    PROVE  NotOlder(TakeRestSettings(st, doc, stamp).device.version, st.device.version)
<1> DEFINE applied == [st EXCEPT !.device = ApplyFull(@, doc, stamp)]
           synced  == SyncWriteState(applied, SyncRef)
<1>1. applied \in CoordState /\ applied.device = ApplyFull(st.device, doc, stamp)
  BY ApplyFullType DEF CoordState
<1>2. synced \in CoordState /\ synced.device = applied.device
  BY <1>1, SyncWriteStateType, RefsType
<1>3. ObserveInflight(synced, doc, stamp, "rest").device = applied.device
  BY <1>2, ObserveInflightType
<1>4. NotOlder(applied.device.version, st.device.version)
  BY <1>1, ApplyFullNotOlder DEF CoordState
<1>5. NotOlder(st.device.version, st.device.version)
  BY NotOlderReflexive DEF CoordState, DeviceRecord
<1>6. QED
  BY <1>3, <1>4, <1>5 DEF TakeRestSettings

\* The lock operations leave the device record.
LEMMA LockOperationsDevice ==
    ASSUME NEW st \in CoordState, NEW ref, NEW task
    PROVE  /\ TakeLock(st, ref, task).device = st.device
           /\ WaitForLock(st, ref, task).device = st.device
           /\ ReleaseLock(st, ref).device = st.device
           /\ \A i : LeaveQueue(st, ref, i).device = st.device
BY DEF TakeLock, WaitForLock, ReleaseLock, LeaveQueue, CoordState

\* A write that begins leaves the settings version.
LEMMA BeginWriteVersion ==
    ASSUME NEW st \in CoordState, NEW w \in Writer, NEW ref \in StateRef, NEW p \in Settings
    PROVE  BeginWrite(st, w, ref, p).device.version = st.device.version
<1> DEFINE shown    == [st EXCEPT !.device = ApplyPending(@, p)]
           overlaid == SyncWriteState(shown, <<"begin", w>>)
<1>1. shown \in CoordState /\ shown.device = ApplyPending(st.device, p)
  BY ApplyPendingType DEF CoordState
<1>2. overlaid \in CoordState /\ overlaid.device = shown.device
  BY <1>1, SyncWriteStateType, RefsType
<1>3. ApplyPending(st.device, p).version = st.device.version
  BY DEF ApplyPending, CoordState, DeviceRecord
<1> HIDE DEF overlaid
<1>4. BeginWrite(st, w, ref, p).device = overlaid.device
  BY <1>2 DEF BeginWrite, overlaid, CoordState
<1>5. QED
  BY <1>1, <1>2, <1>3, <1>4

\* The finally clause leaves the device record.
LEMMA FinishWriteDevice ==
    ASSUME NEW st \in CoordState, NEW w \in Writer, NEW ref \in StateRef
    PROVE  FinishWrite(st, w, ref).device = st.device
<1> DEFINE left == [st EXCEPT !.states[ref].inflight = IF @.owner = w THEN NoInflight ELSE @,
                              !.states[ref].active = @ - 1]
<1>1. left.device = st.device
  BY DEF CoordState
<1> HIDE DEF left
<1>2. SyncWriteState(left, SyncRef).device = left.device
  BY DEF SyncWriteState
<1>3. QED
  BY <1>1, <1>2 DEF FinishWrite, left

\* A call that returns leaves the version its handlers left.
LEMMA ReturnVersion ==
    ASSUME TypeInv, NEW w \in Writer, NEW st \in CoordState, NEW result,
           writer[w].ref \in StateRef,
           \/ Return(w, st, result)
           \/ Return(w, ReleaseLock(st, writer[w].ref), result)
           \/ ReturnCleared(w, st, result)
    PROVE  device'.version = st.device.version
<1> DEFINE open == ReleaseLock(st, writer[w].ref)
<1>1. writer[w].payload \in Settings /\ W(w) \in Task
  BY TasksDiffer DEF TypeInv, CallsOK, WriterState
<1>2. open \in CoordState /\ open.device = st.device
  BY <1>1, LockOperationsType, LockOperationsDevice
<1>3. /\ ClearOverlay(open, writer[w].payload) \in CoordState
      /\ ClearOverlay(open, writer[w].payload).device.version = st.device.version
  BY <1>1, <1>2, ClearOverlayType, ClearOverlayVersion
<1>4. \E x \in CoordState : /\ x.device.version = st.device.version
                            /\ device' = FinishWrite(x, w, writer[w].ref).device
  BY <1>2, <1>3 DEF ReturnCleared, Return, Become
<1>5. QED
  BY <1>4, FinishWriteDevice

\* A call that got the lock leaves the version.
LEMMA EnterLockVersion ==
    ASSUME TypeInv, NEW w \in Writer, NEW st \in CoordState, NEW ref \in StateRef,
           NEW command \in Settings, EnterLock(w, st, ref, command)
    PROVE  device'.version = st.device.version
<1>1. Encode(st.device, command) \in Settings /\ W(w) \in Task
  BY EncodeType, TasksDiffer DEF CoordState
<1>2. ReleaseLock(st, ref) \in CoordState /\ ReleaseLock(st, ref).device = st.device
  BY <1>1, LockOperationsType, LockOperationsDevice
<1>3. CASE CanEncode(st.device, command)
  BY <1>1, <1>3, BeginWriteVersion DEF EnterLock, Become
<1>4. CASE ~CanEncode(st.device, command)
  <2>1. device' = FinishWrite(ReleaseLock(st, ref), w, ref).device
    BY <1>4 DEF EnterLock, Become
  <2>2. QED
    BY <1>2, <2>1, FinishWriteDevice
<1>5. QED
  BY <1>3, <1>4

\* A new call leaves the settings version.
LEMMA CallVersion ==
    ASSUME TypeInv, NEW w \in Writer, NEW command \in Command, Call(w, command)
    PROVE  device'.version = device.version
<1> DEFINE ref    == IF entry = NoState THEN <<"call", w>> ELSE entry
           called == [Here EXCEPT !.entry = ref, !.states[ref].active = @ + 1]
           held   == TakeLock(called, ref, W(w))
<1>1. /\ ref \in StateRef /\ command \in Settings /\ W(w) \in Task
      /\ Here \in CoordState /\ Here.device = device
  BY RefsType, TasksDiffer, PairAssumption DEF TypeInv, StoreOK, CoordState, Here
<1>2. IF LockIsFree(states[ref])
      THEN EnterLock(w, held, ref, command)
      ELSE Become(WaitForLock(called, ref, W(w)))
  BY DEF Call
<1> HIDE DEF ref
<1>3. called \in CoordState /\ called.device = device
  <2> DEFINE ws == Here.states[ref]
  <2>1. ws \in WriteState /\ ws.active + 1 \in Int
    BY <1>1 DEF CoordState, WriteState
  <2>2. [ws EXCEPT !.active = @ + 1] \in WriteState
    BY <2>1 DEF WriteState
  <2>3. QED
    BY <1>1, <2>2 DEF CoordState
<1> HIDE DEF called
<1>4. held \in CoordState /\ held.device = device /\ WaitForLock(called, ref, W(w)).device = device
  BY <1>1, <1>3, LockOperationsType, LockOperationsDevice
<1>5. QED
  BY <1>1, <1>2, <1>4, EnterLockVersion DEF Become

\* No step of a call moves the version back.
LEMMA WriterStepVersion ==
    ASSUME TypeInv, NEW w \in Writer, WriterStep(w) \/ Cancel(w)
    PROVE  NotOlder(device'.version, device.version)
<1>1. /\ Here \in CoordState /\ Here.device = device /\ W(w) \in Task
      /\ Running(w) => writer[w].ref \in StateRef
      /\ NotOlder(device.version, device.version)
  BY TasksDiffer, NotOlderReflexive
  DEF TypeInv, StoreOK, CallsOK, Here, CoordState, DeviceRecord
<1>2. CASE Acquire(w)
  <2> DEFINE held == TakeLock(Here, writer[w].ref, W(w))
  <2>1. /\ EnterLock(w, held, writer[w].ref, writer[w].command)
        /\ writer[w].ref \in StateRef /\ writer[w].command \in Settings
    BY <1>1, <1>2 DEF Acquire, Running, TypeInv, CallsOK, WriterState
  <2>2. held \in CoordState /\ held.device = device
    BY <1>1, <2>1, LockOperationsType, LockOperationsDevice
  <2>3. QED
    BY <1>1, <2>1, <2>2, EnterLockVersion
<1>3. CASE PatchSucceeds(w) \/ EventWakes(w)
  <2>1. UNCHANGED device \/ Conclude(w, Here)
    BY <1>3 DEF PatchSucceeds, EventWakes
  <2>2. writer[w].ref \in StateRef
    BY <1>1, <1>3 DEF PatchSucceeds, EventWakes, Running
  <2>3. QED
    BY <1>1, <2>1, <2>2, ReturnVersion DEF Conclude
<1>4. CASE PatchFails(w) \/ ReadFails(w)
  <2>1. writer[w].ref \in StateRef /\ RequestFails(w)
    BY <1>1, <1>4 DEF PatchFails, ReadFails, Running
  <2>2. QED
    BY <1>1, <2>1, ReturnVersion DEF RequestFails
<1>5. CASE ConfirmTimesOut(w) \/ PauseEnds(w)
  BY <1>1, <1>5 DEF ConfirmTimesOut, PauseEnds
<1>6. CASE ReadSucceeds(w)
  <2> DEFINE ref == writer[w].ref
             Ends(read) ==
                \/ \E result \in {"success", "rejected"} : ReturnCleared(w, read, result)
                \/ Return(w, ReleaseLock(read, ref), "success")
                \/ Become(read)
  <2>1. \E t \in Recent : \E stamp \in StampsOf(t) :
            Ends(TakeRestSettings(Here, history[t], stamp))
    BY <1>6 DEF ReadSucceeds
  <2>2. PICK t \in Recent, stamp \in Nat : Ends(TakeRestSettings(Here, history[t], stamp))
    BY <2>1, RecentType DEF Stamp
  <2> DEFINE read == TakeRestSettings(Here, history[t], stamp)
  <2>3. read \in CoordState /\ NotOlder(read.device.version, device.version)
    BY <1>1, RecentType, TakeRestSettingsType, TakeRestSettingsVersion DEF Stamp
  <2>4. ref \in StateRef
    BY <1>1, <1>6 DEF ReadSucceeds, Running
  <2> HIDE DEF read
  <2>5. device'.version = read.device.version
    BY <2>2, <2>3, <2>4, ReturnVersion DEF read, Become
  <2>6. QED
    BY <2>3, <2>5
<1>7. CASE Cancel(w)
  <2>1. writer[w].ref \in StateRef
    BY <1>1, <1>7 DEF Cancel, Engaged, Running
  <2>2. CASE \E i \in DOMAIN states[writer[w].ref].waiters :
                Return(w, LeaveQueue(Here, writer[w].ref, i), "cancelled")
    <3>1. PICK i \in DOMAIN states[writer[w].ref].waiters :
              Return(w, LeaveQueue(Here, writer[w].ref, i), "cancelled")
      BY <2>2
    <3>2. /\ LeaveQueue(Here, writer[w].ref, i) \in CoordState
          /\ LeaveQueue(Here, writer[w].ref, i).device = device
      BY <1>1, <2>1, LockOperationsType, LockOperationsDevice DEF Here
    <3>3. QED
      BY <1>1, <2>1, <3>1, <3>2, ReturnVersion
  <2>3. CASE \/ ReturnCleared(w, Here, "cancelled")
             \/ Return(w, ReleaseLock(Here, writer[w].ref), "cancelled")
    BY <1>1, <2>1, <2>3, ReturnVersion
  <2>4. QED
    BY <1>7, <2>2, <2>3 DEF Cancel
<1>8. QED
  BY <1>2, <1>3, <1>4, <1>5, <1>6, <1>7 DEF WriterStep

\* A round that ends leaves the version its read left.
LEMMA RoundEndsVersion ==
    ASSUME TypeInv, NEW w \in Writer, NEW st \in CoordState,
           \/ RoundEnds(w, st)
           \/ Become(ClearOverlay(st, reconciler[w].payload))
    PROVE  device'.version = st.device.version
<1>1. reconciler[w].payload \in Settings
  BY DEF TypeInv, ReconcilersOK, ReconcilerState
<1>2. ClearOverlay(st, reconciler[w].payload).device.version = st.device.version
  BY <1>1, ClearOverlayVersion
<1>3. QED
  BY <1>2 DEF RoundEnds, ClearIfCurrent, Become

\* No step of a reconciliation moves the version back.
LEMMA ReconcilerStepVersion ==
    ASSUME TypeInv, NEW w \in Writer, ReconcilerStep(w)
    PROVE  NotOlder(device'.version, device.version)
<1> DEFINE ref == reconciler[w].ref
<1>1. /\ Here \in CoordState /\ Here.device = device /\ R(w) \in Task
      /\ reconciler[w].pc \in {"locking", "reading"} => ref \in StateRef
      /\ NotOlder(device.version, device.version)
  BY TasksDiffer, NotOlderReflexive
  DEF TypeInv, StoreOK, ReconcilersOK, Here, CoordState, DeviceRecord
<1>2. CASE DelayElapses(w)
  BY <1>1, <1>2, LockOperationsDevice DEF DelayElapses, Become
<1>3. CASE ReconcilerAcquires(w)
  <2>1. TakeLock(Here, ref, R(w)) \in CoordState
    BY <1>1, <1>3, LockOperationsType DEF ReconcilerAcquires, ReconcilerAt
  <2>2. QED
    BY <1>1, <1>3, <2>1, LockOperationsDevice DEF ReconcilerAcquires, Become
<1>4. CASE DeferredReadSucceeds(w)
  <2> DEFINE Ends(read) == \/ RoundEnds(w, ReleaseLock(read, ref))
                           \/ Become(ClearOverlay(ReleaseLock(read, ref), reconciler[w].payload))
  <2>1. \E t \in Recent : \E stamp \in StampsOf(t) :
            Ends(TakeRestSettings(Here, history[t], stamp))
    BY <1>4 DEF DeferredReadSucceeds
  <2>2. PICK t \in Recent, stamp \in Nat : Ends(TakeRestSettings(Here, history[t], stamp))
    BY <2>1, RecentType DEF Stamp
  <2> DEFINE read == TakeRestSettings(Here, history[t], stamp)
  <2>3. read \in CoordState /\ NotOlder(read.device.version, device.version)
    BY <1>1, RecentType, TakeRestSettingsType, TakeRestSettingsVersion DEF Stamp
  <2>4. ref \in StateRef
    BY <1>1, <1>4 DEF DeferredReadSucceeds, ReconcilerAt
  <2> HIDE DEF read
  <2>5. ReleaseLock(read, ref) \in CoordState /\ ReleaseLock(read, ref).device = read.device
    BY <1>1, <2>3, <2>4, LockOperationsType, LockOperationsDevice
  <2>6. QED
    BY <2>2, <2>3, <2>5, RoundEndsVersion DEF read
<1>5. CASE DeferredReadFails(w)
  <2>1. ReleaseLock(Here, ref) \in CoordState /\ ReleaseLock(Here, ref).device = device
    BY <1>1, <1>5, LockOperationsType, LockOperationsDevice DEF DeferredReadFails, ReconcilerAt
  <2>2. QED
    BY <1>1, <1>5, <2>1, RoundEndsVersion DEF DeferredReadFails
<1>6. CASE ReconcilerUnwinds(w)
  <2>1. reconciler[w].pc \in {"sleeping", "locking", "reading"}
    BY <1>6 DEF ReconcilerUnwinds, Reconciling, TypeInv, ReconcilersOK, ReconcilerState,
                ReconcilerPc
  <2>2. CASE reconciler[w].pc = "sleeping"
    BY <1>1, <1>6, <2>2 DEF ReconcilerUnwinds, Become
  <2>3. CASE reconciler[w].pc = "reading"
    BY <1>1, <1>6, <2>3, LockOperationsDevice DEF ReconcilerUnwinds, Become
  <2>4. CASE reconciler[w].pc = "locking"
    <3>1. PICK i \in DOMAIN states[ref].waiters : Become(LeaveQueue(Here, ref, i))
      BY <1>6, <2>4 DEF ReconcilerUnwinds
    <3>2. device' = device
      BY <1>1, <3>1, LockOperationsDevice DEF Become
    <3>3. QED
      BY <1>1, <3>2
  <2>5. QED
    BY <2>1, <2>2, <2>3, <2>4
<1>7. QED
  BY <1>2, <1>3, <1>4, <1>5, <1>6 DEF ReconcilerStep

\* Nor does a push, a refresh or anything else from outside the tasks.
LEMMA EnvironmentVersion ==
    ASSUME TypeInv, device.present, device'.present,
           \/ Push \/ RefreshSettings \/ RemoveDevice \/ RediscoverDevice
           \/ BeginShutdown \/ EndShutdown \/ CloudChanges
           \/ \E w \in Writer : CloudApplies(w)
           \/ UNCHANGED vars
    PROVE  NotOlder(device'.version, device.version)
<1>1. /\ Here \in CoordState /\ Here.device = device /\ device \in DeviceRecord
      /\ NotOlder(device.version, device.version)
  BY NotOlderReflexive DEF TypeInv, StoreOK, Here, CoordState, DeviceRecord
<1>2. CASE Push
  <2> DEFINE applied(document, stamp) ==
                  [Here EXCEPT !.device = ApplyIncremental(@, document, stamp)]
  <2>1. PICK t \in Recent, view \in PushView, stamp \in Nat :
          Become(ObserveInflight(applied(Visible(history[t], view), stamp),
                                 Visible(history[t], view), stamp, "websocket"))
    BY <1>2, RecentType DEF Push, Stamp
  <2>2. Visible(history[t], view) \in Settings /\ stamp \in Stamp
    BY RecentType DEF Stamp
  <2>3. /\ applied(Visible(history[t], view), stamp) \in CoordState
        /\ applied(Visible(history[t], view), stamp).device =
                ApplyIncremental(device, Visible(history[t], view), stamp)
    BY <1>1, <2>2, ApplyIncrementalType DEF CoordState
  <2>4. device' = ApplyIncremental(device, Visible(history[t], view), stamp)
    BY <2>1, <2>3, ObserveInflightType DEF Become
  <2>5. QED
    BY <1>1, <2>2, <2>4, ApplyIncrementalNotOlder
<1>3. CASE RefreshSettings
  <2>1. PICK t \in Recent, stamp \in Nat :
          Become(TakeRestSettings(Here, history[t], stamp))
    BY <1>3, RecentType DEF RefreshSettings, Stamp
  <2>2. QED
    BY <1>1, <2>1, RecentType, TakeRestSettingsVersion DEF Become, Stamp
<1>4. CASE UNCHANGED device
  BY <1>1, <1>4
<1>5. ~RemoveDevice /\ ~RediscoverDevice
  BY DEF RemoveDevice, RediscoverDevice, NoDevice
<1>6. QED
  BY <1>2, <1>3, <1>4, <1>5
  DEF BeginShutdown, EndShutdown, CloudChanges, CloudApplies, vars

\* The settings version of a device that stays never goes back: no late, repeated
\* or unstamped document, from either source and in whatever order, replaces what
\* a newer one set.
THEOREM VersionMonotone == Spec => VersionNeverRegresses
<1>1. TypeInv /\ [Next]_vars =>
        [device.present /\ device'.present => NotOlder(device'.version, device.version)]_vars
  <2> SUFFICES ASSUME TypeInv, [Next]_vars, device.present, device'.present
               PROVE  NotOlder(device'.version, device.version)
    OBVIOUS
  <2>1. ASSUME NEW w \in Writer, \E command \in Command : Call(w, command)
        PROVE  NotOlder(device'.version, device.version)
    <3>1. device'.version = device.version
      BY <2>1, CallVersion
    <3>2. device.version \in Version
      BY DEF TypeInv, StoreOK, Here, CoordState, DeviceRecord
    <3>3. QED
      BY <3>1, <3>2, NotOlderReflexive
  <2>2. QED
    BY <2>1, WriterStepVersion, ReconcilerStepVersion, EnvironmentVersion DEF Next
<1>2. Spec => []TypeInv
  BY InitTypeInv, NextTypeInv, PTL DEF Spec
<1>3. QED
  BY <1>1, <1>2, PTL DEF Spec, VersionNeverRegresses
----------------------------------------------------------------------------
(* The count of active writers                                              *)

Users(ref) == {v \in Writer : Running(v) /\ writer[v].ref = ref}
SameCount(s, t) == \A r \in StateRef : t[r].active = s[r].active

\* The calls that refer to a write state are finitely many.
LEMMA UsersFinite ==
    \A ref : IsFiniteSet(Users(ref)) /\ Cardinality(Users(ref)) \in Nat
<1>1. ASSUME NEW ref PROVE IsFiniteSet(Users(ref))
  BY WriterAssumption, FS_Subset DEF Users
<1>2. QED
  BY <1>1, FS_CardinalityType

\* What keeps holders, owners and counters keeps the counters.
LEMMA KeptCount ==
    ASSUME NEW s, NEW t
    PROVE  /\ Kept(s, t) => SameCount(s, t)
           /\ \A ref \in StateRef :
                KeptBut(s, t, ref) /\ t[ref].active = s[ref].active => SameCount(s, t)
BY DEF Kept, KeptBut, SameCount

\* The lock operations leave every counter.
LEMMA LockOperationsCount ==
    ASSUME NEW st \in CoordState, NEW ref \in StateRef, NEW task \in Task
    PROVE  /\ SameCount(st.states, TakeLock(st, ref, task).states)
           /\ SameCount(st.states, ReleaseLock(st, ref).states)
           /\ SameCount(st.states, WaitForLock(st, ref, task).states)
           /\ \A i : SameCount(st.states, LeaveQueue(st, ref, i).states)
<1>1. SameCount(st.states, TakeLock(st, ref, task).states)
  BY LockOperationsKeep, KeptCount
<1>2. SameCount(st.states, ReleaseLock(st, ref).states)
  BY LockOperationsKeep, KeptCount
<1>3. /\ SameCount(st.states, WaitForLock(st, ref, task).states)
      /\ \A i : SameCount(st.states, LeaveQueue(st, ref, i).states)
  BY LockOperationsKeep, KeptCount
<1>4. QED
  BY <1>1, <1>2, <1>3

\* No call comes or goes.
LEMMA CountUntouched ==
    ASSUME WritersCounted, SameCount(states, states'),
           \A v \in Writer : /\ Running(v)' <=> Running(v)
                             /\ Running(v) => writer'[v].ref = writer[v].ref
    PROVE  WritersCounted'
<1>1. \A ref : Users(ref)' = Users(ref)
  BY DEF Users
<1>2. \A ref \in StateRef : states'[ref].active = Cardinality(Users(ref)')
  BY <1>1 DEF WritersCounted, SameCount, Users
<1>3. QED
  BY <1>2 DEF WritersCounted, Users

\* A call comes to the write state ref.
LEMMA CountJoins ==
    ASSUME WritersCounted, NEW w \in Writer, NEW ref \in StateRef,
           ~Running(w), Running(w)', writer'[w].ref = ref, OthersUnchanged(w),
           states'[ref].active = states[ref].active + 1,
           \A r \in StateRef \ {ref} : states'[r].active = states[r].active
    PROVE  WritersCounted'
<1>1. \A v \in Writer \ {w} : (Running(v)' <=> Running(v)) /\ writer'[v].ref = writer[v].ref
  BY DEF OthersUnchanged, Running
<1>2. Users(ref)' = Users(ref) \cup {w} /\ w \notin Users(ref)
  BY <1>1 DEF Users
<1>3. Cardinality(Users(ref)') = Cardinality(Users(ref)) + 1
  BY <1>2, UsersFinite, FS_AddElement
<1>4. \A r \in StateRef \ {ref} : Users(r)' = Users(r)
  BY <1>1 DEF Users
<1>5. \A r \in StateRef : states[r].active = Cardinality(Users(r))
  BY DEF WritersCounted, Users
<1>6. \A r \in StateRef : states'[r].active = Cardinality(Users(r)')
  BY <1>3, <1>4, <1>5
<1>7. QED
  BY <1>6 DEF WritersCounted, Users

\* A call leaves it.
LEMMA CountLeaves ==
    ASSUME WritersCounted, NEW w \in Writer, NEW ref \in StateRef,
           Running(w), ~Running(w)', writer[w].ref = ref, OthersUnchanged(w),
           states'[ref].active = states[ref].active - 1,
           \A r \in StateRef \ {ref} : states'[r].active = states[r].active
    PROVE  WritersCounted'
<1>1. \A v \in Writer \ {w} : (Running(v)' <=> Running(v)) /\ writer'[v].ref = writer[v].ref
  BY DEF OthersUnchanged, Running
<1>2. Users(ref)' = Users(ref) \ {w} /\ w \in Users(ref)
  BY <1>1 DEF Users
<1>3. Cardinality(Users(ref)') = Cardinality(Users(ref)) - 1
  BY <1>2, UsersFinite, FS_RemoveElement
<1>4. \A r \in StateRef \ {ref} : Users(r)' = Users(r)
  BY <1>1 DEF Users
<1>5. \A r \in StateRef : states[r].active = Cardinality(Users(r))
  BY DEF WritersCounted, Users
<1>6. \A r \in StateRef : states'[r].active = Cardinality(Users(r)')
  BY <1>3, <1>4, <1>5
<1>7. QED
  BY <1>6 DEF WritersCounted, Users

\* A call that returns is taken off its counter.
LEMMA ReturnCount ==
    ASSUME TypeInv, WritersCounted, NEW w \in Writer, Running(w), NEW st \in CoordState,
           NEW result, Return(w, st, result), SameCount(states, st.states)
    PROVE  WritersCounted'
<1> DEFINE ref == writer[w].ref
<1>1. ref \in StateRef
  BY DEF TypeInv, CallsOK
<1>2. states' = FinishWrite(st, w, ref).states
  BY DEF Return, Become
<1>3. /\ states'[ref].active = states[ref].active - 1
      /\ \A r \in StateRef \ {ref} : states'[r].active = states[r].active
  BY <1>1, <1>2, FinishWriteKeeps DEF KeptBut, SameCount
<1>4. OthersUnchanged(w) /\ ~Running(w)'
  BY CallEndedFrame DEF Return, Running
<1>5. QED
  BY <1>1, <1>3, <1>4, CountLeaves

\* The same when it releases the lock first, the overlay cleared or not.
LEMMA ReturnReleasedCount ==
    ASSUME TypeInv, WritersCounted, NEW w \in Writer, Running(w), NEW st \in CoordState,
           NEW result, SameCount(states, st.states),
           \/ ReturnCleared(w, st, result)
           \/ Return(w, ReleaseLock(st, writer[w].ref), result)
    PROVE  WritersCounted'
<1> DEFINE ref     == writer[w].ref
           open    == ReleaseLock(st, ref)
           cleared == ClearOverlay(open, writer[w].payload)
<1>1. ref \in StateRef /\ W(w) \in Task /\ writer[w].payload \in Settings
  BY TasksDiffer DEF TypeInv, CallsOK, WriterState
<1>2. open \in CoordState /\ SameCount(st.states, open.states)
  BY <1>1, LockOperationsType, LockOperationsCount
<1>3. cleared \in CoordState /\ SameCount(open.states, cleared.states)
  BY <1>1, <1>2, ClearOverlayType, ClearOverlayKeeps, KeptCount
<1>4. SameCount(states, open.states) /\ SameCount(states, cleared.states)
  BY <1>2, <1>3 DEF SameCount
<1>5. QED
  BY <1>2, <1>3, <1>4, ReturnCount DEF ReturnCleared
\* A call at the lock either stays a writer of ref or leaves it at once.
LEMMA EnterLockCount ==
    ASSUME TypeInv, NEW w \in Writer, NEW st \in CoordState, NEW ref \in StateRef,
           NEW command \in Settings, EnterLock(w, st, ref, command)
    PROVE  /\ OthersUnchanged(w)
           /\ \/ /\ SameCount(st.states, states')
                 /\ Running(w)' /\ writer'[w].ref = ref
              \/ /\ states'[ref].active = st.states[ref].active - 1
                 /\ \A r \in StateRef \ {ref} : states'[r].active = st.states[r].active
                 /\ ~Running(w)'
<1> DEFINE payload == Encode(st.device, command)
           open    == ReleaseLock(st, ref)
<1>1. W(w) \in Task /\ payload \in Settings /\ writer \in [Writer -> WriterState]
  BY TasksDiffer, EncodeType DEF CoordState, TypeInv, CallsOK
<1>2. CASE CanEncode(st.device, command)
  <2>1. /\ states' = BeginWrite(st, w, ref, payload).states
        /\ writer' = [writer EXCEPT ![w].pc = "patching", ![w].ref = ref,
                                    ![w].command = command, ![w].payload = payload]
    BY <1>2 DEF EnterLock, Become
  <2> HIDE DEF payload
  <2>2. SameCount(st.states, states')
    BY <1>1, <2>1, BeginWriteKeeps, KeptCount
  <2>3. OthersUnchanged(w) /\ writer'[w].pc = "patching" /\ writer'[w].ref = ref
    BY <1>1, <2>1 DEF OthersUnchanged, WriterState
  <2>4. QED
    BY <2>2, <2>3 DEF Running
<1>3. CASE ~CanEncode(st.device, command)
  <2>1. states' = FinishWrite(open, w, ref).states
    BY <1>3 DEF EnterLock, Become
  <2>2. open \in CoordState /\ SameCount(st.states, open.states)
    BY <1>1, LockOperationsType, LockOperationsCount
  <2>3. /\ states'[ref].active = st.states[ref].active - 1
        /\ \A r \in StateRef \ {ref} : states'[r].active = st.states[r].active
    BY <2>1, <2>2, FinishWriteKeeps DEF KeptBut, SameCount
  <2>4. OthersUnchanged(w) /\ writer'[w].pc = "done"
    BY <1>3, CallEndedFrame DEF EnterLock
  <2>5. QED
    BY <2>3, <2>4 DEF Running
<1>4. QED
  BY <1>2, <1>3

\* A new call is counted once, queued, sending or already refused.
LEMMA CallCount ==
    ASSUME TypeInv, WritersCounted, NEW w \in Writer, NEW command \in Command,
           Call(w, command)
    PROVE  WritersCounted'
<1> DEFINE ref    == IF entry = NoState THEN <<"call", w>> ELSE entry
           called == [Here EXCEPT !.entry = ref, !.states[ref].active = @ + 1]
           held   == TakeLock(called, ref, W(w))
           queued == WaitForLock(called, ref, W(w))
<1>1. /\ ref \in StateRef /\ command \in Settings /\ W(w) \in Task
      /\ Here \in CoordState /\ ~Running(w) /\ writer \in [Writer -> WriterState]
      /\ Here.states = states /\ states \in [StateRef -> WriteState]
  BY RefsType, TasksDiffer, PairAssumption
  DEF TypeInv, StoreOK, CallsOK, CoordState, Here, Call, Running
<1>2. IF LockIsFree(states[ref])
      THEN EnterLock(w, held, ref, command)
      ELSE /\ Become(queued)
           /\ writer' = [writer EXCEPT ![w].pc = "queued", ![w].ref = ref,
                                       ![w].command = command]
  BY DEF Call
<1> HIDE DEF ref
<1>3. /\ called \in CoordState
      /\ called.states[ref].active = states[ref].active + 1
      /\ \A r \in StateRef \ {ref} : called.states[r].active = states[r].active
  <2> DEFINE ws == Here.states[ref]
             counted == [ws EXCEPT !.active = @ + 1]
  <2>1. ws \in WriteState /\ ws.active + 1 \in Int
    BY <1>1 DEF CoordState, WriteState
  <2>2. counted \in WriteState /\ counted.active = ws.active + 1
    BY <2>1 DEF WriteState
  <2>3. called = [Here EXCEPT !.entry = ref, !.states = [@ EXCEPT ![ref] = counted]]
    OBVIOUS
  <2> HIDE DEF counted
  <2>4. called \in CoordState
    BY <1>1, <2>2, <2>3 DEF CoordState
  <2>5. called.states = [states EXCEPT ![ref] = counted] /\ ws = states[ref]
    BY <1>1, <2>3 DEF CoordState
  <2> HIDE DEF ws, called
  <2>6. QED
    BY <1>1, <2>2, <2>4, <2>5
<1> HIDE DEF called
<1>4. states[ref].active \in Int
  BY <1>1 DEF WriteState
<1>5. CASE LockIsFree(states[ref])
  <2>1. held \in CoordState /\ SameCount(called.states, held.states)
    BY <1>1, <1>3, LockOperationsType, LockOperationsCount
  <2>2. EnterLock(w, held, ref, command)
    BY <1>2, <1>5
  <2>3. OthersUnchanged(w)
    BY <1>1, <2>1, <2>2, EnterLockCount
  <2>4. CASE SameCount(held.states, states') /\ Running(w)' /\ writer'[w].ref = ref
    <3>1. /\ states'[ref].active = states[ref].active + 1
          /\ \A r \in StateRef \ {ref} : states'[r].active = states[r].active
      BY <1>1, <1>3, <2>1, <2>4 DEF SameCount
    <3>2. QED
      BY <1>1, <2>3, <2>4, <3>1, CountJoins
  <2>5. CASE /\ states'[ref].active = held.states[ref].active - 1
             /\ \A r \in StateRef \ {ref} : states'[r].active = held.states[r].active
             /\ ~Running(w)'
    <3>1. SameCount(states, states')
      BY <1>1, <1>3, <1>4, <2>1, <2>5 DEF SameCount
    <3>2. \A v \in Writer : /\ Running(v)' <=> Running(v)
                            /\ Running(v) => writer'[v].ref = writer[v].ref
      BY <1>1, <2>3, <2>5 DEF OthersUnchanged, Running
    <3>3. QED
      BY <3>1, <3>2, CountUntouched
  <2>6. QED
    BY <1>1, <2>1, <2>2, <2>4, <2>5, EnterLockCount
<1>6. CASE ~LockIsFree(states[ref])
  <2>1. /\ states' = queued.states
        /\ writer' = [writer EXCEPT ![w].pc = "queued", ![w].ref = ref,
                                    ![w].command = command]
    BY <1>2, <1>6 DEF Become
  <2>2. SameCount(called.states, states')
    BY <1>1, <1>3, <2>1, LockOperationsCount
  <2>3. /\ states'[ref].active = states[ref].active + 1
        /\ \A r \in StateRef \ {ref} : states'[r].active = states[r].active
    BY <1>1, <1>3, <2>2 DEF SameCount
  <2>4. OthersUnchanged(w) /\ writer'[w].pc = "queued" /\ writer'[w].ref = ref
    BY <1>1, <2>1 DEF WriterState, OthersUnchanged
  <2>5. Running(w)'
    BY <2>4 DEF Running
  <2>6. QED
    BY <1>1, <2>3, <2>4, <2>5, CountJoins
<1>7. QED
  BY <1>5, <1>6

\* A call that moves to another await stays counted.
LEMMA CountMoves ==
    ASSUME WritersCounted, NEW w \in Writer, Running(w), OthersUnchanged(w),
           SameCount(states, states'), Running(w)', writer'[w].ref = writer[w].ref
    PROVE  WritersCounted'
<1>1. \A v \in Writer : /\ Running(v)' <=> Running(v)
                        /\ Running(v) => writer'[v].ref = writer[v].ref
  BY DEF OthersUnchanged, Running
<1>2. QED
  BY <1>1, CountUntouched

\* Every step of a call keeps the counter exact.
LEMMA WriterStepCount ==
    ASSUME TypeInv, WritersCounted, NEW w \in Writer, WriterStep(w) \/ Cancel(w)
    PROVE  WritersCounted'
<1> DEFINE ref == writer[w].ref
<1>1. /\ writer \in [Writer -> WriterState] /\ W(w) \in Task
      /\ Here \in CoordState /\ Here.states = states /\ SameCount(states, states)
  BY TasksDiffer DEF TypeInv, CallsOK, StoreOK, Here, SameCount
<1>2. Running(w) /\ ref \in StateRef
  BY DEF WriterStep, Acquire, PatchSucceeds, PatchFails, EventWakes, ConfirmTimesOut,
         ReadSucceeds, ReadFails, PauseEnds, Cancel, Engaged, Running, TypeInv, CallsOK
<1>3. CASE Acquire(w)
  <2> DEFINE held == TakeLock(Here, ref, W(w))
  <2>1. EnterLock(w, held, ref, writer[w].command) /\ writer[w].command \in Settings
    BY <1>1, <1>3 DEF Acquire, WriterState
  <2>2. held \in CoordState /\ SameCount(states, held.states)
    BY <1>1, <1>2, LockOperationsType, LockOperationsCount
  <2>3. OthersUnchanged(w)
    BY <1>2, <2>1, <2>2, EnterLockCount
  <2>4. CASE SameCount(held.states, states') /\ Running(w)' /\ writer'[w].ref = ref
    <3>1. SameCount(states, states')
      BY <2>2, <2>4 DEF SameCount
    <3>2. QED
      BY <1>2, <2>3, <2>4, <3>1, CountMoves
  <2>5. CASE /\ states'[ref].active = held.states[ref].active - 1
             /\ \A r \in StateRef \ {ref} : states'[r].active = held.states[r].active
             /\ ~Running(w)'
    <3>1. /\ states'[ref].active = states[ref].active - 1
          /\ \A r \in StateRef \ {ref} : states'[r].active = states[r].active
      BY <1>2, <2>2, <2>5 DEF SameCount
    <3>2. QED
      BY <1>2, <2>3, <2>5, <3>1, CountLeaves
  <2>6. QED
    BY <1>2, <2>1, <2>2, <2>4, <2>5, EnterLockCount
<1>4. CASE PatchSucceeds(w) \/ EventWakes(w)
  <2>1. CASE Conclude(w, Here)
    BY <1>1, <1>2, <2>1, ReturnReleasedCount DEF Conclude
  <2>2. CASE writer' = [writer EXCEPT ![w].pc = "confirming"] /\ UNCHANGED states
    <3>1. /\ OthersUnchanged(w) /\ writer'[w].ref = ref
          /\ writer'[w].pc = "confirming" /\ SameCount(states, states')
      BY <1>1, <2>2 DEF OthersUnchanged, WriterState
    <3>2. Running(w)'
      BY <3>1 DEF Running
    <3>3. QED
      BY <1>2, <3>1, <3>2, CountMoves
  <2>3. QED
    BY <1>4, <2>1, <2>2 DEF PatchSucceeds, EventWakes
<1>5. CASE PatchFails(w) \/ ReadFails(w)
  <2>1. RequestFails(w)
    BY <1>5 DEF PatchFails, ReadFails
  <2>2. QED
    BY <1>1, <1>2, <2>1, ReturnReleasedCount DEF RequestFails
<1>6. CASE ConfirmTimesOut(w) \/ PauseEnds(w)
  <2> DEFINE attempt == IF ConfirmTimesOut(w) THEN 1 ELSE writer[w].attempt + 1
  <2>0. /\ writer' = [writer EXCEPT ![w].pc = "reading", ![w].attempt = attempt]
        /\ UNCHANGED states
    BY <1>6 DEF ConfirmTimesOut, PauseEnds
  <2> HIDE DEF attempt
  <2>1. /\ OthersUnchanged(w) /\ writer'[w].ref = ref
        /\ writer'[w].pc = "reading" /\ SameCount(states, states')
    BY <1>1, <2>0 DEF OthersUnchanged, WriterState, SameCount
  <2>2. Running(w)'
    BY <2>1 DEF Running
  <2>3. QED
    BY <1>2, <2>1, <2>2, CountMoves
<1>7. CASE ReadSucceeds(w)
  <2> DEFINE Ends(read) ==
                \/ \E result \in {"success", "rejected"} : ReturnCleared(w, read, result)
                \/ Return(w, ReleaseLock(read, ref), "success")
                \/ Become(read) /\ writer' = [writer EXCEPT ![w].pc = "pausing"]
  <2>1. \E t \in Recent : \E stamp \in StampsOf(t) :
            Ends(TakeRestSettings(Here, history[t], stamp))
    BY <1>7 DEF ReadSucceeds
  <2>2. PICK t \in Recent, stamp \in Nat : Ends(TakeRestSettings(Here, history[t], stamp))
    BY <2>1, RecentType DEF Stamp
  <2> DEFINE read == TakeRestSettings(Here, history[t], stamp)
  <2>3. read \in CoordState /\ SameCount(states, read.states)
    BY <1>1, RecentType, TakeRestSettingsType, TakeRestSettingsKeeps, KeptCount DEF Stamp
  <2> HIDE DEF read
  <2>4. CASE Become(read) /\ writer' = [writer EXCEPT ![w].pc = "pausing"]
    <3>1. /\ OthersUnchanged(w) /\ writer'[w].ref = ref
          /\ writer'[w].pc = "pausing" /\ SameCount(states, states')
      BY <1>1, <2>3, <2>4 DEF OthersUnchanged, WriterState, Become
    <3>2. Running(w)'
      BY <3>1 DEF Running
    <3>3. QED
      BY <1>2, <3>1, <3>2, CountMoves
  <2>5. QED
    BY <1>2, <2>2, <2>3, <2>4, ReturnReleasedCount DEF read
<1>8. CASE Cancel(w)
  <2>1. CASE \E i \in DOMAIN states[ref].waiters :
                Return(w, LeaveQueue(Here, ref, i), "cancelled")
    <3>1. PICK i \in DOMAIN states[ref].waiters :
              Return(w, LeaveQueue(Here, ref, i), "cancelled")
      BY <2>1
    <3>2. /\ LeaveQueue(Here, ref, i) \in CoordState
          /\ SameCount(states, LeaveQueue(Here, ref, i).states)
      BY <1>1, <1>2, LockOperationsType, LockOperationsCount
    <3>3. QED
      BY <1>2, <3>1, <3>2, ReturnCount
  <2>2. CASE \/ ReturnCleared(w, Here, "cancelled")
             \/ Return(w, ReleaseLock(Here, ref), "cancelled")
    BY <1>1, <1>2, <2>2, ReturnReleasedCount
  <2>3. QED
    BY <1>8, <2>1, <2>2 DEF Cancel
<1>9. QED
  BY <1>3, <1>4, <1>5, <1>6, <1>7, <1>8 DEF WriterStep

\* So does every other step.
LEMMA OtherStepCount ==
    ASSUME TypeInv, WritersCounted,
           \/ \E w \in Writer : ReconcilerStep(w) \/ CloudApplies(w)
           \/ Push \/ RefreshSettings \/ RemoveDevice \/ RediscoverDevice
           \/ BeginShutdown \/ EndShutdown \/ CloudChanges
           \/ UNCHANGED vars
    PROVE  WritersCounted'
<1>1. /\ Here \in CoordState /\ Here.states = states /\ SameCount(states, states)
      /\ \A w \in Writer : R(w) \in Task
  BY TasksDiffer DEF TypeInv, StoreOK, Here, SameCount
<1>2. UNCHANGED writer
  BY DEF ReconcilerStep, DelayElapses, ReconcilerAcquires, DeferredReadSucceeds,
         DeferredReadFails, ReconcilerUnwinds, Push, RefreshSettings, RemoveDevice,
         RediscoverDevice, BeginShutdown, EndShutdown, CloudChanges, CloudApplies, vars
<1>3. SameCount(states, states')
  <2>1. ASSUME NEW w \in Writer, DelayElapses(w) PROVE SameCount(states, states')
    <3>1. \/ states' = states
          \/ /\ entry \in StateRef
             /\ \/ states' = TakeLock(Here, entry, R(w)).states
                \/ states' = WaitForLock(Here, entry, R(w)).states
      BY <1>1, <2>1 DEF DelayElapses, Become, CoordState, Here
    <3>2. QED
      BY <1>1, <3>1, LockOperationsCount
  <2>2. ASSUME NEW w \in Writer, ReconcilerAcquires(w) PROVE SameCount(states, states')
    <3> DEFINE ref  == reconciler[w].ref
               held == TakeLock(Here, ref, R(w))
    <3>1. ref \in StateRef
      BY <2>2 DEF ReconcilerAcquires, ReconcilerAt, TypeInv, ReconcilersOK
    <3>2. held \in CoordState /\ SameCount(states, held.states)
      BY <1>1, <3>1, LockOperationsType, LockOperationsCount
    <3>3. SameCount(held.states, ReleaseLock(held, ref).states)
      BY <1>1, <3>1, <3>2, LockOperationsCount
    <3>4. states' = held.states \/ states' = ReleaseLock(held, ref).states
      BY <2>2 DEF ReconcilerAcquires, Become
    <3>5. QED
      BY <3>2, <3>3, <3>4 DEF SameCount
  <2>3. ASSUME NEW w \in Writer, NEW st \in CoordState, SameCount(states, st.states),
               reconciler[w].pc = "reading",
               \/ RoundEnds(w, ReleaseLock(st, reconciler[w].ref))
               \/ Become(ClearOverlay(ReleaseLock(st, reconciler[w].ref),
                                      reconciler[w].payload))
        PROVE  SameCount(states, states')
    <3> DEFINE open    == ReleaseLock(st, reconciler[w].ref)
               cleared == ClearOverlay(open, reconciler[w].payload)
    <3>1. reconciler[w].ref \in StateRef /\ reconciler[w].payload \in Settings
      BY <2>3 DEF TypeInv, ReconcilersOK, ReconcilerState
    <3>2. open \in CoordState /\ SameCount(st.states, open.states)
      BY <1>1, <3>1, LockOperationsType, LockOperationsCount
    <3>3. SameCount(open.states, cleared.states)
      BY <3>1, <3>2, ClearOverlayKeeps, KeptCount
    <3>4. states' = open.states \/ states' = cleared.states
      BY <2>3 DEF RoundEnds, ClearIfCurrent, Become
    <3> HIDE DEF open, cleared
    <3>5. QED
      BY <2>3, <3>2, <3>3, <3>4 DEF SameCount
  <2>4. ASSUME NEW w \in Writer, DeferredReadSucceeds(w) PROVE SameCount(states, states')
    <3> DEFINE Ends(read) ==
            \/ RoundEnds(w, ReleaseLock(read, reconciler[w].ref))
            \/ Become(ClearOverlay(ReleaseLock(read, reconciler[w].ref),
                                   reconciler[w].payload))
    <3>1. \E t \in Recent : \E stamp \in StampsOf(t) :
            Ends(TakeRestSettings(Here, history[t], stamp))
      BY <2>4 DEF DeferredReadSucceeds
    <3>2. PICK t \in Recent, stamp \in Nat : Ends(TakeRestSettings(Here, history[t], stamp))
      BY <3>1, RecentType DEF Stamp
    <3> DEFINE read == TakeRestSettings(Here, history[t], stamp)
    <3>3. read \in CoordState /\ SameCount(states, read.states)
      BY <1>1, RecentType, TakeRestSettingsType, TakeRestSettingsKeeps, KeptCount DEF Stamp
    <3>4. reconciler[w].pc = "reading"
      BY <2>4 DEF DeferredReadSucceeds, ReconcilerAt
    <3> HIDE DEF read
    <3>5. QED
      BY <2>3, <3>2, <3>3, <3>4 DEF read
  <2>5. ASSUME NEW w \in Writer, DeferredReadFails(w) PROVE SameCount(states, states')
    BY <1>1, <2>3, <2>5 DEF DeferredReadFails, ReconcilerAt
  <2>6. ASSUME NEW w \in Writer, ReconcilerUnwinds(w) PROVE SameCount(states, states')
    <3> DEFINE ref == reconciler[w].ref
    <3>1. reconciler[w].pc \in {"sleeping", "locking", "reading"}
      BY <2>6 DEF ReconcilerUnwinds, Reconciling, TypeInv, ReconcilersOK, ReconcilerState,
                  ReconcilerPc
    <3>2. CASE reconciler[w].pc = "sleeping"
      BY <1>1, <2>6, <3>2 DEF ReconcilerUnwinds, Become
    <3>3. CASE reconciler[w].pc = "reading"
      <4>1. ref \in StateRef /\ states' = ReleaseLock(Here, ref).states
        BY <2>6, <3>3 DEF ReconcilerUnwinds, Become, TypeInv, ReconcilersOK
      <4>2. QED
        BY <1>1, <4>1, LockOperationsCount
    <3>4. CASE reconciler[w].pc = "locking"
      <4>1. PICK i \in DOMAIN states[ref].waiters : Become(LeaveQueue(Here, ref, i))
        BY <2>6, <3>4 DEF ReconcilerUnwinds
      <4>2. ref \in StateRef /\ states' = LeaveQueue(Here, ref, i).states
        BY <3>4, <4>1 DEF Become, TypeInv, ReconcilersOK
      <4>3. QED
        BY <1>1, <4>2, LockOperationsCount
    <3>5. QED
      BY <3>1, <3>2, <3>3, <3>4
  <2>7. CASE Push
    <3> DEFINE applied(document, stamp) ==
                    [Here EXCEPT !.device = ApplyIncremental(@, document, stamp)]
    <3>1. PICK t \in Recent, view \in PushView, stamp \in Nat :
            Become(ObserveInflight(applied(Visible(history[t], view), stamp),
                                   Visible(history[t], view), stamp, "websocket"))
      BY <2>7, RecentType DEF Push, Stamp
    <3>2. Visible(history[t], view) \in Settings /\ stamp \in Stamp
      BY RecentType DEF Stamp
    <3>3. /\ applied(Visible(history[t], view), stamp) \in CoordState
          /\ applied(Visible(history[t], view), stamp).states = states
      BY <1>1, <3>2, ApplyIncrementalType DEF CoordState
    <3>4. QED
      BY <3>1, <3>3, ObserveInflightKeeps, KeptCount DEF Become
  <2>8. CASE RefreshSettings
    <3>1. PICK t \in Recent, stamp \in Nat :
            Become(TakeRestSettings(Here, history[t], stamp))
      BY <2>8, RecentType DEF RefreshSettings, Stamp
    <3>2. QED
      BY <1>1, <3>1, RecentType, TakeRestSettingsKeeps, KeptCount DEF Become, Stamp
  <2>9. CASE UNCHANGED states
    BY <2>9 DEF SameCount
  <2>10. QED
    BY <2>1, <2>2, <2>4, <2>5, <2>6, <2>7, <2>8, <2>9
    DEF ReconcilerStep, RemoveDevice, RediscoverDevice, BeginShutdown, EndShutdown,
        CloudChanges, CloudApplies, vars
<1>4. \A v \in Writer : /\ Running(v)' <=> Running(v)
                        /\ Running(v) => writer'[v].ref = writer[v].ref
  BY <1>2 DEF Running
<1>5. QED
  BY <1>3, <1>4, CountUntouched

\* Nothing is counted at the start.
LEMMA InitCount == Init => WritersCounted
<1> SUFFICES ASSUME Init, NEW ref \in StateRef
             PROVE  states[ref].active = Cardinality(Users(ref))
  BY DEF WritersCounted, Users
<1>1. Users(ref) = {}
  BY DEF Init, IdleWriter, Users, Running
<1>2. states[ref].active = 0
  BY DEF Init, FreshState
<1>3. QED
  BY <1>1, <1>2, FS_EmptySet

\* The counter that keeps a write state alive is exact for every number of calls:
\* no way out of a call leaks a writer, and none is counted off twice.
THEOREM CountExact == Spec => []WritersCounted
<1>1. TypeInv /\ WritersCounted /\ [Next]_vars => WritersCounted'
  <2> SUFFICES ASSUME TypeInv, WritersCounted, [Next]_vars PROVE WritersCounted'
    OBVIOUS
  <2>1. ASSUME NEW w \in Writer, \E command \in Command : Call(w, command)
        PROVE  WritersCounted'
    BY <2>1, CallCount
  <2>2. QED
    BY <2>1, WriterStepCount, OtherStepCount DEF Next
<1>2. Spec => [](TypeInv /\ WritersCounted)
  BY <1>1, InitTypeInv, NextTypeInv, InitCount, PTL DEF Spec
<1>3. QED
  BY <1>2, PTL
=============================================================================
