---------------------- MODULE DeviceWritesOverlayProofs ----------------------
(***************************************************************************)
(* What holds of the optimistic overlay for every instance of DeviceWrites: *)
(* it is tracked by a write state, the write state a call uses stays in the *)
(* registry while the device does, and an in-flight write is decided only   *)
(* by a document newer than the version it started from.                    *)
(***************************************************************************)
EXTENDS DeviceWritesProofs

\* An overlay needs a device.
Shown(st) == Leaves(st.device.pending) # {} => st.device.present
\* OverlayIsTracked, of a handler's state.
Tracked(st) == Leaves(st.device.pending) # {} => st.device.present /\ st.entry # NoState

\* DecidedByNewerDocument, of one slot and of all.
SlotDecided(flight, h) ==
    flight.outcome # "unknown" =>
        \E t \in 1..Len(h) :
            /\ flight.version.asOf # NoStamp /\ t > flight.version.asOf
            /\ Shows(h[t], flight.payload) <=> flight.outcome = "confirmed"
Decided(s, h) == \A r \in StateRef : SlotDecided(s[r].inflight, h)
SameSlots(s, t) == \A r \in StateRef : t[r].inflight = s[r].inflight

\* The registry's write state of a present device stays while somebody counts on it.
Holds(s, t) ==
    \A r \in StateRef :
        s.device.present /\ s.entry = r /\ s.states[r].active # 0 =>
            t.device.present /\ t.entry = r /\ t.states[r].active = s.states[r].active

\* What a helper must do, called with s and returning t.
Carries(s, t, h) ==
    /\ t.device.present = s.device.present
    /\ Tracked(s) => Tracked(t)
    /\ Decided(s.states, h) => Decided(t.states, h)
    /\ Holds(s, t)

\* Helpers may be followed one by one.
LEMMA CarriesTransitive ==
    ASSUME NEW s, NEW t, NEW u, NEW h, Carries(s, t, h), Carries(t, u, h)
    PROVE  Carries(s, u, h)
BY DEF Carries, Holds

\* Documents published later leave what was decided.
LEMMA DecidedLater ==
    ASSUME NEW s, NEW h \in Seq(Settings), NEW document \in Settings, Decided(s, h)
    PROVE  Decided(s, Append(h, document))
<1> SUFFICES ASSUME NEW r \in StateRef, s[r].inflight.outcome # "unknown"
             PROVE  SlotDecided(s[r].inflight, Append(h, document))
  BY DEF Decided, SlotDecided
<1> DEFINE flight == s[r].inflight
<1>1. PICK t \in 1..Len(h) :
            /\ flight.version.asOf # NoStamp /\ t > flight.version.asOf
            /\ Shows(h[t], flight.payload) <=> flight.outcome = "confirmed"
  BY DEF Decided, SlotDecided
<1>2. t \in 1..Len(Append(h, document)) /\ Append(h, document)[t] = h[t]
  OBVIOUS
<1>3. QED
  BY <1>1, <1>2 DEF SlotDecided

----------------------------------------------------------------------------
(* The helpers                                                              *)

\* _sync_write_state leaves every slot.
LEMMA SyncWriteStateSlots ==
    ASSUME NEW st \in CoordState, NEW fresh \in StateRef
    PROVE  SameSlots(st.states, SyncWriteState(st, fresh).states)
<1> DEFINE ref == IF st.entry = NoState THEN fresh ELSE st.entry
           ws  == [st.states[ref] EXCEPT !.pendingPaths = Leaves(st.device.pending)]
<1>1. ref \in StateRef /\ st.states \in [StateRef -> WriteState]
  BY DEF CoordState
<1>2. ws.inflight = st.states[ref].inflight
  BY <1>1 DEF WriteState
<1>3. SyncWriteState(st, fresh).states \in {st.states, [st.states EXCEPT ![ref] = ws]}
  BY DEF SyncWriteState, CoordState
<1> HIDE DEF ws, ref
<1>4. QED
  BY <1>1, <1>2, <1>3 DEF SameSlots

\* It drops the entry only of a device that is gone or of a write state nobody
\* uses, and enters one for every overlay.
LEMMA SyncWriteStateCarries ==
    ASSUME NEW st \in CoordState, NEW fresh \in StateRef, NEW h, Shown(st)
    PROVE  /\ SyncWriteState(st, fresh).device = st.device
           /\ Tracked(SyncWriteState(st, fresh))
           /\ Decided(st.states, h) => Decided(SyncWriteState(st, fresh).states, h)
           /\ Holds(st, SyncWriteState(st, fresh))
<1> DEFINE ref  == IF st.entry = NoState THEN fresh ELSE st.entry
           ws   == [st.states[ref] EXCEPT !.pendingPaths = Leaves(st.device.pending)]
           idle == ws.pendingPaths = {} /\ ws.active = 0 /\ ws.inflight.owner = Nobody
           out  == SyncWriteState(st, fresh)
<1>1. ref \in StateRef /\ ref # NoState /\ st.states[ref] \in WriteState
  BY DEF CoordState, StateRef, NoState, SyncRef
<1>2. ws.pendingPaths = Leaves(st.device.pending) /\ ws.active = st.states[ref].active
  BY <1>1 DEF WriteState
<1>3. /\ out.device = st.device
      /\ out.entry = IF ~st.device.present THEN NoState ELSE IF idle THEN NoState ELSE ref
  BY DEF SyncWriteState, CoordState
<1>4. Kept(st.states, out.states) /\ SameSlots(st.states, out.states)
  BY SyncWriteStateKeeps, SyncWriteStateSlots
<1> HIDE DEF ws, out
<1>5. Tracked(out)
  BY <1>1, <1>2, <1>3 DEF Tracked, Shown
<1>6. Decided(st.states, h) => Decided(out.states, h)
  BY <1>4 DEF Decided, SameSlots
<1>7. Holds(st, out)
  <2> SUFFICES ASSUME NEW r \in StateRef, st.device.present, st.entry = r, st.states[r].active # 0
               PROVE  out.device.present /\ out.entry = r /\ out.states[r].active = st.states[r].active
    BY DEF Holds
  <2>1. r # NoState
    BY DEF StateRef, NoState, SyncRef
  <2>2. ref = r
    BY <2>1
  <2>3. QED
    BY <1>2, <1>3, <1>4, <2>2 DEF Kept
<1>8. QED
  BY <1>3, <1>5, <1>6, <1>7 DEF out

\* The overlay's leaves taken back, or confirmed, are leaves it had.
LEMMA RemoveMatchingLeaves ==
    ASSUME NEW base, NEW comparison
    PROVE  Leaves(RemoveMatching(base, comparison)) \subseteq Leaves(base)
BY DEF Leaves, RemoveMatching

\* A step of the reducer that adds nothing to the overlay.
Shrinks(dev, new) ==
    new.present = dev.present /\ Leaves(new.pending) \subseteq Leaves(dev.pending)

\* Clearing, a full document and an incremental one are such steps.
LEMMA ReducerShrinks ==
    ASSUME NEW dev \in DeviceRecord, NEW doc, NEW stamp
    PROVE  /\ Shrinks(dev, ClearPending(dev, doc))
           /\ Shrinks(dev, ApplyFull(dev, doc, stamp))
           /\ Shrinks(dev, ApplyIncremental(dev, doc, stamp))
<1>1. \A s, v : Shrinks(dev, Confirm(dev, s, v))
  BY RemoveMatchingLeaves DEF Shrinks, Confirm, DeviceRecord
<1>2. Shrinks(dev, ClearPending(dev, doc))
  BY RemoveMatchingLeaves DEF Shrinks, ClearPending, DeviceRecord
<1>3. Shrinks(dev, dev)
  BY DEF Shrinks
<1>4. QED
  BY <1>1, <1>2, <1>3 DEF ApplyFull, ApplyIncremental

\* A smaller overlay, in a handler's state.
LEMMA ShrinkCarries ==
    ASSUME NEW st \in CoordState, NEW dev \in DeviceRecord, NEW h, Shrinks(st.device, dev)
    PROVE  /\ [st EXCEPT !.device = dev] \in CoordState
           /\ Carries(st, [st EXCEPT !.device = dev], h)
           /\ Shown(st) => Shown([st EXCEPT !.device = dev])
<1> DEFINE out == [st EXCEPT !.device = dev]
<1>1. /\ out \in CoordState /\ out.device = dev
      /\ out.entry = st.entry /\ out.states = st.states
  BY DEF CoordState
<1> HIDE DEF out
<1>2. Carries(st, out, h) /\ (Shown(st) => Shown(out))
  BY <1>1 DEF Carries, Shrinks, Tracked, Shown, Holds
<1>3. QED
  BY <1>1, <1>2 DEF out

\* _clear_pending_device_settings
LEMMA ClearOverlayCarries ==
    ASSUME NEW st \in CoordState, NEW p \in Settings, NEW h
    PROVE  Carries(st, ClearOverlay(st, p), h)
<1> DEFINE dev     == ClearPending(st.device, p)
           cleared == [st EXCEPT !.device = dev]
<1>1. dev \in DeviceRecord /\ Shrinks(st.device, dev)
  BY ClearPendingType, ReducerShrinks DEF CoordState
<1> HIDE DEF dev
<1>2. cleared \in CoordState /\ Carries(st, cleared, h) /\ (Shown(st) => Shown(cleared))
  BY <1>1, ShrinkCarries
<1>3. ClearOverlay(st, p) = SyncWriteState(cleared, SyncRef)
  BY DEF ClearOverlay, dev
<1> HIDE DEF cleared
<1>4. Shown(cleared) => Carries(cleared, ClearOverlay(st, p), h)
  BY <1>2, <1>3, SyncWriteStateCarries, RefsType DEF Carries
<1>5. CASE Shown(st)
  BY <1>2, <1>4, <1>5, CarriesTransitive
<1>6. CASE ~Shown(st)
  <2>1. ~st.device.present /\ ~Tracked(st)
    BY <1>6 DEF Shown, Tracked
  <2>2. SameSlots(cleared.states, ClearOverlay(st, p).states)
    BY <1>2, <1>3, SyncWriteStateSlots, RefsType
  <2>3. Decided(st.states, h) => Decided(ClearOverlay(st, p).states, h)
    BY <1>2, <2>2 DEF Carries, Decided, SameSlots
  <2>4. ClearOverlay(st, p).device.present = st.device.present
    BY <1>2, <1>3, SyncWriteStateType, RefsType DEF Carries
  <2>5. QED
    BY <2>1, <2>3, <2>4 DEF Carries, Holds
<1>7. QED
  BY <1>5, <1>6

\* A version that is a document's own was set by that document: the same one
\* would be accepted again.
LEMMA VersionIsOwn ==
    ASSUME NEW dev \in DeviceRecord, NEW doc \in Settings, NEW stamp \in Stamp, stamp # NoStamp
    PROVE  /\ ApplyFull(dev, doc, stamp).version = [asOf |-> stamp, source |-> "rest"] =>
                \A l \in Leaves(doc) : ApplyFull(dev, doc, stamp).settings[l] = doc[l]
           /\ ApplyIncremental(dev, doc, stamp).version = [asOf |-> stamp, source |-> "websocket"] =>
                \A l \in Leaves(doc) : ApplyIncremental(dev, doc, stamp).settings[l] = doc[l]
<1>1. Precedence["rest"] = 1 /\ Precedence["websocket"] = 2 /\ stamp \in Nat
  BY DEF Precedence, Stamp
<1>2. \A source \in {"rest", "websocket"} :
        Accepts([asOf |-> stamp, source |-> source], [asOf |-> stamp, source |-> source])
  BY <1>1 DEF Accepts
<1>3. \A s, v : Confirm(dev, s, v).settings = s
  BY DEF Confirm, DeviceRecord
<1>4. \A l \in Leaves(doc) : Merge(dev.settings, doc)[l] = doc[l]
  BY DEF Merge, Leaves
<1>5. ASSUME ApplyFull(dev, doc, stamp).version = [asOf |-> stamp, source |-> "rest"]
      PROVE  ApplyFull(dev, doc, stamp).settings = doc
  BY <1>2, <1>3, <1>5 DEF ApplyFull
<1>6. ASSUME ApplyIncremental(dev, doc, stamp).version = [asOf |-> stamp, source |-> "websocket"]
      PROVE  ApplyIncremental(dev, doc, stamp).settings = Merge(dev.settings, doc)
  BY <1>2, <1>3, <1>6 DEF ApplyIncremental
<1>7. QED
  BY <1>4, <1>5, <1>6

\* What the confirmed layer shows of a document it took.
ShowsDocument(dev, doc, stamp, source, t) ==
    stamp # NoStamp /\ dev.version = [asOf |-> stamp, source |-> source] =>
        \A l \in Leaves(doc) : dev.settings[l] = history[t][l]

\* _observe_inflight_settings decides the registry's slot, and only by a document
\* newer than the version the write started from.
LEMMA ObserveInflightCarries ==
    ASSUME TypeInv, NEW st \in CoordState, NEW t \in Recent, NEW stamp \in StampsOf(t),
           NEW doc \in Settings, NEW source, ShowsDocument(st.device, doc, stamp, source, t)
    PROVE  Carries(st, ObserveInflight(st, doc, stamp, source), history)
<1> DEFINE flight  == st.states[st.entry].inflight
           verdict == Verdict(st.device, flight)
           out     == ObserveInflight(st, doc, stamp, source)
<1>1. CASE ~(st.entry # NoState /\ Decisive(st.device, flight, doc, stamp, source))
  BY <1>1 DEF ObserveInflight, Carries, Holds
<1>2. CASE st.entry # NoState /\ Decisive(st.device, flight, doc, stamp, source)
  <2>1. /\ st.entry \in StateRef /\ st.states[st.entry] \in WriteState /\ flight \in Inflight
        /\ st.states \in [StateRef -> WriteState]
    BY <1>2 DEF CoordState, WriteState
  <2>2. /\ stamp = t /\ t \in 1..Len(history) /\ stamp # NoStamp
        /\ flight.version.asOf # NoStamp /\ t > flight.version.asOf
    BY <1>2, RecentType DEF Decisive, StampsOf
  <2>3. Shows(st.device.settings, flight.payload) <=> Shows(history[t], flight.payload)
    BY <1>2, <2>2 DEF Decisive, Covers, ShowsDocument, Shows
  <2>4. verdict \in Outcome
        /\ (verdict # "unknown" =>
                (Shows(st.device.settings, flight.payload) <=> verdict = "confirmed"))
    BY DEF Verdict, Outcome
  <2>5. out = [st EXCEPT !.states[st.entry].inflight.outcome = verdict]
    BY <1>2 DEF ObserveInflight
  <2> DEFINE decided == [flight EXCEPT !.outcome = verdict]
  <2>6. /\ decided.outcome = verdict /\ decided.version = flight.version
        /\ decided.payload = flight.payload
    BY <2>1 DEF Inflight
  <2> HIDE DEF verdict
  <2>7. /\ out.device = st.device /\ out.entry = st.entry
        /\ out.states[st.entry].inflight = decided
        /\ out.states[st.entry].active = st.states[st.entry].active
        /\ \A r \in StateRef \ {st.entry} : out.states[r] = st.states[r]
    BY <2>1, <2>5 DEF CoordState, WriteState
  <2> HIDE DEF out, decided, flight
  <2>8. SlotDecided(decided, history)
    BY <2>2, <2>3, <2>4, <2>6 DEF SlotDecided
  <2>9. Decided(st.states, history) => Decided(out.states, history)
    BY <2>7, <2>8 DEF Decided
  <2>10. QED
    BY <2>7, <2>9 DEF Carries, Tracked, Holds, out
<1>3. QED
  BY <1>1, <1>2

\* _apply_full_device_settings
LEMMA TakeRestSettingsCarries ==
    ASSUME TypeInv, NEW st \in CoordState, Tracked(st), NEW t \in Recent, NEW stamp \in StampsOf(t)
    PROVE  Carries(st, TakeRestSettings(st, history[t], stamp), history)
<1> DEFINE doc     == history[t]
           dev     == ApplyFull(st.device, doc, stamp)
           applied == [st EXCEPT !.device = dev]
           synced  == SyncWriteState(applied, SyncRef)
<1>1. doc \in Settings /\ stamp \in Stamp
  BY RecentType
<1>2. dev \in DeviceRecord /\ Shrinks(st.device, dev)
  BY <1>1, ApplyFullType, ReducerShrinks DEF CoordState
<1>3. ShowsDocument(dev, doc, stamp, "rest", t)
  BY <1>1, VersionIsOwn DEF ShowsDocument, CoordState
<1>4. TakeRestSettings(st, doc, stamp) =
        IF ~st.device.present THEN st ELSE ObserveInflight(synced, doc, stamp, "rest")
  BY DEF TakeRestSettings
<1> HIDE DEF dev, doc
<1>5. applied \in CoordState /\ Carries(st, applied, history) /\ Shown(applied) /\ applied.device = dev
  BY <1>2, ShrinkCarries DEF Shown, Tracked, CoordState
<1> HIDE DEF applied
<1>6. /\ synced \in CoordState /\ synced.device = dev
      /\ Carries(applied, synced, history)
  BY <1>5, SyncWriteStateType, SyncWriteStateCarries, RefsType DEF Carries
<1> HIDE DEF synced
<1>7. Carries(synced, ObserveInflight(synced, doc, stamp, "rest"), history)
  BY <1>1, <1>3, <1>6, ObserveInflightCarries
<1>8. Carries(st, st, history)
  BY DEF Carries, Holds
<1>9. QED
  BY <1>4, <1>5, <1>6, <1>7, <1>8, CarriesTransitive DEF doc

\* The lock operations touch neither overlay nor registry nor slots.
LEMMA LockOperationsCarry ==
    ASSUME NEW st \in CoordState, NEW ref \in StateRef, NEW task \in Task, NEW h
    PROVE  /\ Carries(st, TakeLock(st, ref, task), h)
           /\ Carries(st, WaitForLock(st, ref, task), h)
           /\ Carries(st, ReleaseLock(st, ref), h)
           /\ \A i : Carries(st, LeaveQueue(st, ref, i), h)
<1> DEFINE Still(out) == /\ out.device = st.device /\ out.entry = st.entry
                         /\ \A r \in StateRef : /\ out.states[r].inflight = st.states[r].inflight
                                                /\ out.states[r].active = st.states[r].active
<1>1. Still(TakeLock(st, ref, task))
  BY DEF TakeLock, CoordState, WriteState
<1>2. Still(WaitForLock(st, ref, task))
  BY DEF WaitForLock, CoordState, WriteState
<1>3. Still(ReleaseLock(st, ref))
  BY DEF ReleaseLock, CoordState, WriteState
<1>4. \A i : Still(LeaveQueue(st, ref, i))
  BY DEF LeaveQueue, CoordState, WriteState
<1>5. ASSUME NEW out, Still(out) PROVE Carries(st, out, h)
  BY <1>5 DEF Carries, Tracked, Decided, Holds
<1> HIDE DEF Still
<1>6. QED
  BY <1>1, <1>2, <1>3, <1>4, <1>5

\* A write that begins shows its overlay under a write state, its slot undecided.
LEMMA BeginWriteCarries ==
    ASSUME NEW st \in CoordState, NEW w \in Writer, NEW ref \in StateRef, NEW p \in Settings,
           NEW h, st.device.present
    PROVE  Carries(st, BeginWrite(st, w, ref, p), h)
<1> DEFINE dev      == ApplyPending(st.device, p)
           shown    == [st EXCEPT !.device = dev]
           overlaid == SyncWriteState(shown, <<"begin", w>>)
           flight   == [owner |-> w, payload |-> p, version |-> st.device.version,
                        settings |-> st.device.settings, outcome |-> "unknown"]
           out      == BeginWrite(st, w, ref, p)
<1>1. dev \in DeviceRecord /\ dev.present
  BY ApplyPendingType DEF ApplyPending, CoordState, DeviceRecord
<1> HIDE DEF dev
<1>2. /\ shown \in CoordState /\ shown.device = dev /\ shown.entry = st.entry
      /\ shown.states = st.states
  BY <1>1 DEF CoordState
<1> HIDE DEF shown
<1>3. Shown(shown) /\ Holds(st, shown)
  BY <1>1, <1>2 DEF Shown, Holds
<1>4. /\ overlaid \in CoordState /\ Tracked(overlaid) /\ overlaid.device = dev
      /\ Decided(st.states, h) => Decided(overlaid.states, h)
      /\ Holds(shown, overlaid)
  BY <1>2, <1>3, SyncWriteStateType, SyncWriteStateCarries, RefsType
<1>5. flight.outcome = "unknown"
  OBVIOUS
<1>6. out = [overlaid EXCEPT !.states[ref].pendingPaths = @ \cup Leaves(p),
                             !.states[ref].inflight = flight]
  BY DEF BeginWrite, overlaid, shown, dev, flight
<1> HIDE DEF overlaid, flight, out
<1>7. /\ out.device = overlaid.device /\ out.entry = overlaid.entry
      /\ out.states[ref].inflight = flight
      /\ out.states[ref].active = overlaid.states[ref].active
      /\ \A r \in StateRef \ {ref} : out.states[r] = overlaid.states[r]
  BY <1>4, <1>6 DEF CoordState, WriteState
<1>8. Tracked(out) /\ (Decided(st.states, h) => Decided(out.states, h))
  BY <1>4, <1>5, <1>7 DEF Tracked, Decided, SlotDecided
<1>9. Holds(st, out)
  BY <1>3, <1>4, <1>7 DEF Holds
<1>10. QED
  BY <1>1, <1>4, <1>7, <1>8, <1>9 DEF Carries, out

\* The finally clause, which may drop the entry only when no other call counts on it.
LEMMA FinishWriteCarries ==
    ASSUME NEW st \in CoordState, NEW w \in Writer, NEW ref \in StateRef, NEW h, Tracked(st)
    PROVE  /\ Tracked(FinishWrite(st, w, ref))
           /\ Decided(st.states, h) => Decided(FinishWrite(st, w, ref).states, h)
           /\ FinishWrite(st, w, ref).device = st.device
           /\ st.device.present /\ st.entry = ref /\ st.states[ref].active # 1 =>
                FinishWrite(st, w, ref).entry = ref
<1> DEFINE ws   == st.states[ref]
           slot == IF ws.inflight.owner = w THEN NoInflight ELSE ws.inflight
           mine == [ws EXCEPT !.inflight = slot, !.active = ws.active - 1]
           left == [st EXCEPT !.states[ref].inflight = IF @.owner = w THEN NoInflight ELSE @,
                              !.states[ref].active = @ - 1]
           out  == FinishWrite(st, w, ref)
<1>1. ws \in WriteState /\ slot \in Inflight /\ ws.active \in Int /\ ws.active - 1 \in Int
  BY NoInflightType DEF CoordState, WriteState
<1>2. SlotDecided(ws.inflight, h) => SlotDecided(slot, h)
  BY DEF SlotDecided, NoInflight
<1>3. left = [st EXCEPT !.states = [@ EXCEPT ![ref] = mine]]
  BY DEF CoordState
<1>4. out = SyncWriteState(left, SyncRef)
  BY DEF FinishWrite
<1> HIDE DEF slot, left
<1>5. mine \in WriteState /\ mine.inflight = slot /\ mine.active = ws.active - 1
  BY <1>1 DEF WriteState
<1> HIDE DEF mine
<1>6. /\ left \in CoordState /\ left.device = st.device /\ left.entry = st.entry
      /\ left.states[ref] = mine
      /\ \A r \in StateRef \ {ref} : left.states[r] = st.states[r]
  BY <1>3, <1>5 DEF CoordState
<1>7. Shown(left) /\ (Decided(st.states, h) => Decided(left.states, h))
  BY <1>2, <1>5, <1>6 DEF Shown, Tracked, Decided
<1>8. /\ Tracked(out) /\ Holds(left, out) /\ out.device = left.device
      /\ Decided(left.states, h) => Decided(out.states, h)
  BY <1>4, <1>6, <1>7, SyncWriteStateCarries, SyncWriteStateType, RefsType
<1> HIDE DEF out
<1>9. st.device.present /\ st.entry = ref /\ ws.active # 1 => out.entry = ref
  BY <1>1, <1>5, <1>6, <1>8 DEF Holds
<1>10. QED
  BY <1>6, <1>7, <1>8, <1>9 DEF out

----------------------------------------------------------------------------
(* The invariant                                                            *)

\* While the hierarchy keeps the device, the calls share the registry's write state.
Pinned ==
    removals = 0 =>
        /\ device.present
        /\ \A w \in Writer : Running(w) => entry = writer[w].ref

OverlayInv == Tracked(Here) /\ Decided(states, history) /\ Pinned

\* At the start there is no overlay, no slot in use and no call.
LEMMA InitOverlay == Init => OverlayInv
<1> SUFFICES ASSUME Init PROVE OverlayInv
  OBVIOUS
<1>1. device.present /\ device.pending = NoSettings
  BY DEF Init
<1>2. Tracked(Here)
  BY <1>1, NoSettingsType DEF Tracked, Here
<1>3. Decided(states, history)
  BY DEF Init, FreshState, NoInflight, Decided, SlotDecided
<1>4. Pinned
  BY <1>1 DEF Init, Pinned, Running, IdleWriter
<1>5. QED
  BY <1>2, <1>3, <1>4 DEF OverlayInv

\* Become(st) makes st the state.
LEMMA BecomeHere ==
    ASSUME NEW st \in CoordState, Become(st)
    PROVE  Here' = st
BY DEF Become, Here, CoordState

\* A call's write state counts it, and more than it when another call uses it.
LEMMA CountedCalls ==
    ASSUME TypeInv, WritersCounted, NEW v \in Writer, NEW w \in Writer, NEW ref \in StateRef,
           Running(v), writer[v].ref = ref
    PROVE  /\ states[ref].active \in Nat /\ states[ref].active # 0
           /\ Running(w) /\ writer[w].ref = ref /\ v # w => states[ref].active # 1
<1>1. states[ref].active = Cardinality(Users(ref)) /\ v \in Users(ref)
  BY DEF WritersCounted, Users
<1>2. IsFiniteSet(Users(ref)) /\ Cardinality(Users(ref)) \in Nat
  BY UsersFinite
<1>3. Cardinality(Users(ref)) # 0
  BY <1>1, <1>2, FS_EmptySet
<1>4. ASSUME Running(w), writer[w].ref = ref, v # w PROVE Cardinality(Users(ref)) # 1
  <2> DEFINE rest == Users(ref) \ {w}
  <2>1. w \in Users(ref) /\ v \in rest
    BY <1>1, <1>4 DEF Users
  <2>2. IsFiniteSet(rest) /\ Cardinality(rest) = Cardinality(Users(ref)) - 1
    BY <1>2, <2>1, FS_RemoveElement
  <2>3. Cardinality(rest) # 0
    BY <2>1, <2>2, FS_EmptySet
  <2>4. QED
    BY <1>2, <2>2, <2>3
<1>5. QED
  BY <1>1, <1>2, <1>3, <1>4

\* A step whose handler carries, and in which no call comes.
LEMMA CarriedStep ==
    ASSUME TypeInv, WritersCounted, OverlayInv, NEW st \in CoordState,
           Carries(Here, st, history), Become(st), UNCHANGED <<history, removals>>,
           \A v \in Writer : Running(v)' => Running(v) /\ writer'[v].ref = writer[v].ref
    PROVE  OverlayInv'
<1>1. Here' = st /\ device' = st.device /\ entry' = st.entry /\ states' = st.states
  BY BecomeHere DEF Become
<1>2. Tracked(Here') /\ Decided(states', history')
  BY <1>1 DEF OverlayInv, Carries, Here
<1>3. ASSUME removals = 0 PROVE device'.present
  BY <1>1, <1>3 DEF OverlayInv, Pinned, Carries, Here
<1>4. ASSUME removals = 0, NEW v \in Writer, Running(v)' PROVE entry' = writer'[v].ref
  <2>1. Running(v) /\ writer'[v].ref = writer[v].ref /\ entry = writer[v].ref /\ device.present
    BY <1>4 DEF OverlayInv, Pinned
  <2>2. writer[v].ref \in StateRef
    BY <2>1 DEF TypeInv, CallsOK
  <2>3. states[writer[v].ref].active # 0
    BY <2>1, <2>2, CountedCalls
  <2>4. st.entry = writer[v].ref
    BY <2>1, <2>2, <2>3 DEF Carries, Holds, Here
  <2>5. QED
    BY <1>1, <2>1, <2>4
<1>5. Pinned'
  BY <1>3, <1>4 DEF Pinned, Running
<1>6. QED
  BY <1>2, <1>5 DEF OverlayInv, Here

\* A call that returns.
LEMMA ReturnOverlay ==
    ASSUME TypeInv, WritersCounted, OverlayInv, NEW w \in Writer, Running(w),
           NEW st \in CoordState, Carries(Here, st, history), NEW result,
           Return(w, st, result), UNCHANGED <<history, removals>>
    PROVE  OverlayInv'
<1> DEFINE ref == writer[w].ref
           out == FinishWrite(st, w, ref)
<1>1. ref \in StateRef /\ out \in CoordState
  BY FinishWriteType DEF TypeInv, CallsOK
<1>2. Here' = out /\ device' = out.device /\ entry' = out.entry /\ states' = out.states
  BY <1>1, BecomeHere DEF Return, Become
<1>3. Tracked(st) /\ Decided(st.states, history)
  BY DEF OverlayInv, Carries, Here
<1>4. /\ Tracked(out) /\ Decided(out.states, history) /\ out.device = st.device
      /\ st.device.present /\ st.entry = ref /\ st.states[ref].active # 1 => out.entry = ref
  BY <1>1, <1>3, FinishWriteCarries
<1> HIDE DEF out
<1>5. OthersUnchanged(w) /\ ~Running(w)'
  BY CallEndedFrame DEF Return, Running
<1>6. ASSUME removals = 0 PROVE device'.present
  BY <1>2, <1>4, <1>6 DEF OverlayInv, Pinned, Carries, Here
<1>7. ASSUME removals = 0, NEW v \in Writer, Running(v)' PROVE entry' = writer'[v].ref
  <2>1. v # w /\ writer'[v] = writer[v] /\ Running(v)
    BY <1>5, <1>7 DEF OthersUnchanged, Running
  <2>2. entry = writer[v].ref /\ entry = ref /\ device.present
    BY <1>7, <2>1 DEF OverlayInv, Pinned
  <2>3. states[ref].active # 0 /\ states[ref].active # 1
    BY <1>1, <2>1, <2>2, CountedCalls
  <2>4. st.device.present /\ st.entry = ref /\ st.states[ref].active # 1
    BY <1>1, <2>2, <2>3 DEF Carries, Holds, Here
  <2>5. QED
    BY <1>2, <1>4, <2>1, <2>2, <2>4
<1>8. Pinned'
  BY <1>6, <1>7 DEF Pinned, Running
<1>9. QED
  BY <1>2, <1>4, <1>8 DEF OverlayInv, Here

\* The same when it releases the lock first, the overlay cleared or not.
LEMMA ReturnReleasedOverlay ==
    ASSUME TypeInv, WritersCounted, OverlayInv, NEW w \in Writer, Running(w),
           NEW st \in CoordState, Carries(Here, st, history), NEW result,
           \/ ReturnCleared(w, st, result)
           \/ Return(w, ReleaseLock(st, writer[w].ref), result),
           UNCHANGED <<history, removals>>
    PROVE  OverlayInv'
<1> DEFINE open    == ReleaseLock(st, writer[w].ref)
           cleared == ClearOverlay(open, writer[w].payload)
<1>1. writer[w].ref \in StateRef /\ W(w) \in Task /\ writer[w].payload \in Settings
  BY TasksDiffer DEF TypeInv, CallsOK, WriterState
<1>2. open \in CoordState /\ Carries(st, open, history)
  BY <1>1, LockOperationsType, LockOperationsCarry
<1>3. cleared \in CoordState /\ Carries(open, cleared, history)
  BY <1>1, <1>2, ClearOverlayType, ClearOverlayCarries
<1>4. Carries(Here, open, history)
  BY <1>2, CarriesTransitive
<1>5. Carries(Here, cleared, history)
  BY <1>3, <1>4, CarriesTransitive
<1>6. \/ Return(w, open, result)
      \/ Return(w, cleared, result)
  BY DEF ReturnCleared
<1> HIDE DEF open, cleared
<1>7. QED
  BY <1>2, <1>3, <1>4, <1>5, <1>6, ReturnOverlay

\* A call at the lock of the registry's write state, counted already.
LEMMA EnterLockOverlay ==
    ASSUME TypeInv, NEW w \in Writer, NEW st \in CoordState, NEW ref \in StateRef,
           NEW command \in Settings, EnterLock(w, st, ref, command),
           UNCHANGED <<history, removals>>, Tracked(st), Decided(st.states, history),
           removals = 0 =>
                /\ st.device.present /\ st.entry = ref /\ st.states[ref].active # 0
                /\ \A v \in Writer \ {w} : Running(v) =>
                        writer[v].ref = ref /\ st.states[ref].active # 1
    PROVE  OverlayInv'
<1> DEFINE payload == Encode(st.device, command)
           open    == ReleaseLock(st, ref)
           begun   == BeginWrite(st, w, ref, payload)
           out     == FinishWrite(open, w, ref)
<1>1. W(w) \in Task /\ payload \in Settings /\ writer \in [Writer -> WriterState]
  BY TasksDiffer, EncodeType DEF CoordState, TypeInv, CallsOK
<1>2. CASE CanEncode(st.device, command)
  <2>1. st.device.present
    BY <1>2 DEF CanEncode, Recognised
  <2>2. begun \in CoordState /\ Carries(st, begun, history)
    BY <1>1, <2>1, BeginWriteType, BeginWriteCarries
  <2>3. /\ Become(begun)
        /\ writer' = [writer EXCEPT ![w].pc = "patching", ![w].ref = ref,
                                    ![w].command = command, ![w].payload = payload]
    BY <1>2 DEF EnterLock
  <2> HIDE DEF begun, payload
  <2>4. OthersUnchanged(w) /\ writer'[w].ref = ref
    BY <1>1, <2>3 DEF OthersUnchanged, WriterState
  <2>5. Here' = begun /\ device' = begun.device /\ entry' = begun.entry /\ states' = begun.states
    BY <2>2, <2>3, BecomeHere DEF Become
  <2>6. Tracked(Here') /\ Decided(states', history')
    BY <2>2, <2>5 DEF Carries
  <2>7. removals = 0 => device'.present /\ entry' = ref
    BY <2>2, <2>5 DEF Carries, Holds
  <2>8. \A v \in Writer \ {w} : Running(v)' => Running(v) /\ writer'[v].ref = writer[v].ref
    BY <2>4 DEF OthersUnchanged, Running
  <2>9. Pinned'
    BY <2>4, <2>7, <2>8 DEF Pinned
  <2>10. QED
    BY <2>6, <2>9 DEF OverlayInv, Here
<1>3. CASE ~CanEncode(st.device, command)
  <2>1. open \in CoordState /\ Carries(st, open, history)
    BY <1>1, LockOperationsType, LockOperationsCarry
  <2>2. /\ out \in CoordState /\ Tracked(out) /\ Decided(out.states, history)
        /\ out.device = open.device
        /\ open.device.present /\ open.entry = ref /\ open.states[ref].active # 1 => out.entry = ref
    BY <2>1, FinishWriteType, FinishWriteCarries DEF Carries
  <2>3. Become(out) /\ OthersUnchanged(w) /\ ~Running(w)'
    BY <1>3, CallEndedFrame DEF EnterLock, Running
  <2> HIDE DEF out, open
  <2>4. Here' = out /\ device' = out.device /\ entry' = out.entry /\ states' = out.states
    BY <2>2, <2>3, BecomeHere DEF Become
  <2>5. removals = 0 => device'.present
    BY <2>1, <2>2, <2>4 DEF Carries
  <2>6. ASSUME removals = 0, NEW v \in Writer, Running(v)' PROVE entry' = writer'[v].ref
    <3>1. v # w /\ writer'[v] = writer[v] /\ Running(v)
      BY <2>3, <2>6 DEF OthersUnchanged, Running
    <3>2. writer[v].ref = ref /\ st.states[ref].active # 1
      BY <2>6, <3>1
    <3>3. open.device.present /\ open.entry = ref /\ open.states[ref].active # 1
      BY <2>1, <2>6, <3>2 DEF Carries, Holds
    <3>4. QED
      BY <2>2, <2>4, <3>1, <3>2, <3>3
  <2>7. Pinned'
    BY <2>5, <2>6 DEF Pinned, Running
  <2>8. QED
    BY <2>2, <2>4, <2>7 DEF OverlayInv, Here
<1>4. QED
  BY <1>2, <1>3

----------------------------------------------------------------------------
(* The actions                                                              *)

\* A new call enters or finds the registry's write state before it waits.
LEMMA CallOverlay ==
    ASSUME TypeInv, WritersCounted, OverlayInv, NEW w \in Writer, NEW command \in Command,
           Call(w, command)
    PROVE  OverlayInv'
<1> DEFINE ref    == IF entry = NoState THEN <<"call", w>> ELSE entry
           ws     == states[ref]
           counted == [ws EXCEPT !.active = @ + 1]
           called == [Here EXCEPT !.entry = ref, !.states[ref].active = @ + 1]
           held   == TakeLock(called, ref, W(w))
           queued == WaitForLock(called, ref, W(w))
<1>1. /\ ref \in StateRef /\ command \in Settings /\ W(w) \in Task
      /\ Here \in CoordState /\ ~Running(w) /\ writer \in [Writer -> WriterState]
      /\ states \in [StateRef -> WriteState] /\ device.present
      /\ UNCHANGED <<history, removals>>
  BY RefsType, TasksDiffer, PairAssumption
  DEF TypeInv, StoreOK, CallsOK, CoordState, Here, Call, Running, Recognised
<1>2. IF LockIsFree(states[ref])
      THEN EnterLock(w, held, ref, command)
      ELSE /\ Become(queued)
           /\ writer' = [writer EXCEPT ![w].pc = "queued", ![w].ref = ref,
                                       ![w].command = command]
  BY DEF Call
<1>3. ASSUME removals = 0, NEW v \in Writer, Running(v) PROVE writer[v].ref = ref
  <2>1. entry = writer[v].ref /\ writer[v].ref \in StateRef
    BY <1>3 DEF OverlayInv, Pinned, TypeInv, CallsOK
  <2>2. entry # NoState
    BY <2>1 DEF StateRef, NoState, SyncRef
  <2>3. QED
    BY <2>1, <2>2
<1>4. ref # NoState
  BY <1>1 DEF StateRef, NoState, SyncRef
<1> HIDE DEF ref
<1>5. /\ ws \in WriteState /\ ws.active \in Nat
      /\ ws.active = Cardinality(Users(ref)) /\ IsFiniteSet(Users(ref))
  BY <1>1, UsersFinite DEF WritersCounted, Users
<1>6. /\ counted \in WriteState /\ counted.active = ws.active + 1
      /\ counted.inflight = ws.inflight
  BY <1>5 DEF WriteState
<1>7. called = [Here EXCEPT !.entry = ref, !.states = [@ EXCEPT ![ref] = counted]]
  BY DEF Here
<1> HIDE DEF counted, called
<1>8. /\ called \in CoordState /\ called.device = device /\ called.entry = ref
      /\ called.states[ref] = counted
      /\ \A r \in StateRef \ {ref} : called.states[r] = states[r]
  BY <1>1, <1>6, <1>7 DEF CoordState, Here
<1>9. Tracked(called) /\ Decided(called.states, history)
  BY <1>1, <1>4, <1>6, <1>8 DEF Tracked, Decided, OverlayInv
<1>10. called.states[ref].active # 0
  BY <1>5, <1>6, <1>8
<1>11. ASSUME removals = 0, NEW v \in Writer, Running(v)
       PROVE  writer[v].ref = ref /\ called.states[ref].active # 1
  <2>1. writer[v].ref = ref
    BY <1>3, <1>11
  <2>2. ws.active # 0
    BY <1>1, <1>11, <2>1, CountedCalls
  <2>3. QED
    BY <1>5, <1>6, <1>8, <2>1, <2>2
<1> HIDE DEF ws
<1>12. CASE LockIsFree(states[ref])
  <2>1. held \in CoordState /\ Carries(called, held, history)
    BY <1>1, <1>8, LockOperationsType, LockOperationsCarry
  <2>2. EnterLock(w, held, ref, command)
    BY <1>2, <1>12
  <2> HIDE DEF held
  <2>3. Tracked(held) /\ Decided(held.states, history)
    BY <1>9, <2>1 DEF Carries
  <2>4. /\ held.device.present /\ held.entry = ref
        /\ held.states[ref].active = called.states[ref].active
    BY <1>1, <1>8, <1>10, <2>1 DEF Carries, Holds
  <2>5. QED
    BY <1>1, <1>10, <1>11, <2>1, <2>2, <2>3, <2>4, EnterLockOverlay
<1>13. CASE ~LockIsFree(states[ref])
  <2>1. queued \in CoordState /\ Carries(called, queued, history)
    BY <1>1, <1>8, LockOperationsType, LockOperationsCarry
  <2>2. /\ Become(queued)
        /\ writer' = [writer EXCEPT ![w].pc = "queued", ![w].ref = ref,
                                    ![w].command = command]
    BY <1>2, <1>13
  <2> HIDE DEF queued
  <2>3. Here' = queued /\ device' = queued.device /\ entry' = queued.entry
        /\ states' = queued.states
    BY <2>1, <2>2, BecomeHere DEF Become
  <2>4. Tracked(Here') /\ Decided(states', history')
    BY <1>1, <1>9, <2>1, <2>3 DEF Carries
  <2>5. device'.present /\ entry' = ref
    BY <1>1, <1>8, <1>10, <2>1, <2>3 DEF Carries, Holds
  <2>6. OthersUnchanged(w) /\ writer'[w].ref = ref
    BY <1>1, <2>2 DEF OthersUnchanged, WriterState
  <2>7. ASSUME removals = 0, NEW v \in Writer, Running(v)' PROVE writer'[v].ref = ref
    <3>1. CASE v = w
      BY <2>6, <3>1
    <3>2. CASE v # w
      BY <1>3, <2>6, <2>7, <3>2 DEF OthersUnchanged, Running
    <3>3. QED
      BY <3>1, <3>2
  <2>8. Pinned'
    BY <1>1, <2>5, <2>7 DEF Pinned, Running
  <2>9. QED
    BY <2>4, <2>8 DEF OverlayInv, Here
<1>14. QED
  BY <1>12, <1>13

\* A step that leaves the coordinator's state and moves a call at most.
LEMMA QuietStep ==
    ASSUME OverlayInv, UNCHANGED <<device, entry, states, history, removals>>,
           \A v \in Writer : Running(v)' => Running(v) /\ writer'[v].ref = writer[v].ref
    PROVE  OverlayInv'
BY DEF OverlayInv, Pinned, Here, Tracked, Running

\* Every step of a call.
LEMMA WriterStepOverlay ==
    ASSUME TypeInv, WritersCounted, OverlayInv, NEW w \in Writer, WriterStep(w) \/ Cancel(w)
    PROVE  OverlayInv'
<1> DEFINE ref == writer[w].ref
<1>1. /\ writer \in [Writer -> WriterState] /\ W(w) \in Task
      /\ Here \in CoordState /\ Carries(Here, Here, history)
  BY TasksDiffer DEF TypeInv, CallsOK, StoreOK, Carries, Holds
<1>2. Running(w) /\ ref \in StateRef /\ UNCHANGED <<history, removals>>
  BY DEF WriterStep, Acquire, PatchSucceeds, PatchFails, EventWakes, ConfirmTimesOut,
         ReadSucceeds, ReadFails, PauseEnds, Cancel, Engaged, Running, TypeInv, CallsOK
<1>3. ASSUME NEW pc \in WriterPc, NEW n, pc # "idle", pc # "done",
             \/ writer' = [writer EXCEPT ![w].pc = pc]
             \/ writer' = [writer EXCEPT ![w].pc = pc, ![w].attempt = n]
      PROVE  \A v \in Writer : Running(v)' => Running(v) /\ writer'[v].ref = writer[v].ref
  <2>1. OthersUnchanged(w) /\ writer'[w].ref = ref
    BY <1>1, <1>3 DEF OthersUnchanged, WriterState
  <2>2. QED
    BY <1>2, <2>1 DEF OthersUnchanged, Running
<1>4. CASE Acquire(w)
  <2> DEFINE held == TakeLock(Here, ref, W(w))
  <2>1. EnterLock(w, held, ref, writer[w].command) /\ writer[w].command \in Settings
    BY <1>1, <1>4 DEF Acquire, WriterState
  <2>2. held \in CoordState /\ Carries(Here, held, history)
    BY <1>1, <1>2, LockOperationsType, LockOperationsCarry
  <2> HIDE DEF held
  <2>3. Tracked(held) /\ Decided(held.states, history)
    BY <2>2 DEF Carries, OverlayInv, Here
  <2>4. ASSUME removals = 0
        PROVE  /\ held.device.present /\ held.entry = ref
               /\ held.states[ref].active = states[ref].active /\ states[ref].active # 0
    <3>1. device.present /\ entry = ref /\ states[ref].active # 0
      BY <1>2, <2>4, CountedCalls DEF OverlayInv, Pinned
    <3>2. QED
      BY <1>2, <2>2, <3>1 DEF Carries, Holds, Here
  <2>5. ASSUME removals = 0, NEW v \in Writer \ {w}, Running(v)
        PROVE  writer[v].ref = ref /\ states[ref].active # 1
    <3>1. entry = ref /\ writer[v].ref = ref
      BY <1>2, <2>5 DEF OverlayInv, Pinned
    <3>2. QED
      BY <1>2, <2>5, <3>1, CountedCalls
  <2>6. QED
    BY <1>2, <2>1, <2>2, <2>3, <2>4, <2>5, EnterLockOverlay
<1>5. CASE PatchSucceeds(w) \/ EventWakes(w)
  <2>1. CASE Conclude(w, Here)
    BY <1>1, <1>2, <2>1, ReturnReleasedOverlay DEF Conclude
  <2>2. CASE writer' = [writer EXCEPT ![w].pc = "confirming"] /\ UNCHANGED <<device, entry, states>>
    BY <1>2, <1>3, <2>2, QuietStep DEF WriterPc
  <2>3. QED
    BY <1>5, <2>1, <2>2 DEF PatchSucceeds, EventWakes
<1>6. CASE PatchFails(w) \/ ReadFails(w)
  <2>1. RequestFails(w)
    BY <1>6 DEF PatchFails, ReadFails
  <2>2. QED
    BY <1>1, <1>2, <2>1, ReturnReleasedOverlay DEF RequestFails
<1>7. CASE ConfirmTimesOut(w) \/ PauseEnds(w)
  <2>1. \E n : writer' = [writer EXCEPT ![w].pc = "reading", ![w].attempt = n]
    BY <1>1, <1>7 DEF ConfirmTimesOut, PauseEnds
  <2>2. UNCHANGED <<device, entry, states>>
    BY <1>7 DEF ConfirmTimesOut, PauseEnds
  <2>3. QED
    BY <1>2, <1>3, <2>1, <2>2, QuietStep DEF WriterPc
<1>8. CASE ReadSucceeds(w)
  <2> DEFINE Ends(read) ==
                \/ \E result \in {"success", "rejected"} : ReturnCleared(w, read, result)
                \/ Return(w, ReleaseLock(read, ref), "success")
                \/ Become(read) /\ writer' = [writer EXCEPT ![w].pc = "pausing"]
  <2>1. PICK t \in Recent :
            \E stamp \in StampsOf(t) : Ends(TakeRestSettings(Here, history[t], stamp))
    BY <1>8 DEF ReadSucceeds
  <2>2. PICK stamp \in StampsOf(t) : Ends(TakeRestSettings(Here, history[t], stamp))
    BY <2>1
  <2> DEFINE read == TakeRestSettings(Here, history[t], stamp)
  <2>3. read \in CoordState /\ Carries(Here, read, history)
    BY <1>1, RecentType, TakeRestSettingsType, TakeRestSettingsCarries DEF OverlayInv
  <2>4. Ends(read)
    BY <2>2
  <2> HIDE DEF read
  <2>5. CASE Become(read) /\ writer' = [writer EXCEPT ![w].pc = "pausing"]
    BY <1>2, <1>3, <2>3, <2>5, CarriedStep DEF WriterPc
  <2>6. CASE \/ \E result \in {"success", "rejected"} : ReturnCleared(w, read, result)
             \/ Return(w, ReleaseLock(read, ref), "success")
    BY <1>2, <2>3, <2>6, ReturnReleasedOverlay
  <2>7. QED
    BY <2>4, <2>5, <2>6
<1>9. CASE Cancel(w)
  <2>1. CASE \E i \in DOMAIN states[ref].waiters : Return(w, LeaveQueue(Here, ref, i), "cancelled")
    <3>1. PICK i \in DOMAIN states[ref].waiters : Return(w, LeaveQueue(Here, ref, i), "cancelled")
      BY <2>1
    <3>2. LeaveQueue(Here, ref, i) \in CoordState /\ Carries(Here, LeaveQueue(Here, ref, i), history)
      BY <1>1, <1>2, LockOperationsType, LockOperationsCarry DEF Here
    <3>3. QED
      BY <1>2, <3>1, <3>2, ReturnOverlay
  <2>2. CASE \/ ReturnCleared(w, Here, "cancelled")
             \/ Return(w, ReleaseLock(Here, ref), "cancelled")
    BY <1>1, <1>2, <2>2, ReturnReleasedOverlay
  <2>3. QED
    BY <1>9, <2>1, <2>2 DEF Cancel
<1>10. QED
  BY <1>4, <1>5, <1>6, <1>7, <1>8, <1>9 DEF WriterStep

\* Every step of a reconciliation.
LEMMA ReconcilerStepOverlay ==
    ASSUME TypeInv, WritersCounted, OverlayInv, NEW w \in Writer, ReconcilerStep(w)
    PROVE  OverlayInv'
<1> DEFINE ref == reconciler[w].ref
<1>1. /\ Here \in CoordState /\ Here.states = states /\ Here.entry = entry
      /\ Carries(Here, Here, history) /\ R(w) \in Task
      /\ reconciler[w].payload \in Settings
      /\ reconciler[w].pc \in {"locking", "reading"} => ref \in StateRef
  BY TasksDiffer
  DEF TypeInv, StoreOK, ReconcilersOK, ReconcilerState, Here, Carries, Holds
<1>2. UNCHANGED <<writer, history, removals>>
  BY DEF ReconcilerStep, DelayElapses, ReconcilerAcquires, DeferredReadSucceeds,
         DeferredReadFails, ReconcilerUnwinds
<1>3. ASSUME NEW st \in CoordState, Carries(Here, st, history), Become(st) PROVE OverlayInv'
  BY <1>2, <1>3, CarriedStep DEF Running
<1>4. ASSUME NEW st \in CoordState, Carries(Here, st, history), reconciler[w].pc = "reading",
             \/ RoundEnds(w, ReleaseLock(st, ref))
             \/ Become(ClearOverlay(ReleaseLock(st, ref), reconciler[w].payload))
      PROVE  OverlayInv'
  <2> DEFINE open    == ReleaseLock(st, ref)
             cleared == ClearOverlay(open, reconciler[w].payload)
  <2>1. open \in CoordState /\ Carries(st, open, history)
    BY <1>1, <1>4, LockOperationsType, LockOperationsCarry
  <2>2. cleared \in CoordState /\ Carries(open, cleared, history)
    BY <1>1, <2>1, ClearOverlayType, ClearOverlayCarries
  <2>3. Carries(Here, open, history)
    BY <1>4, <2>1, CarriesTransitive
  <2>4. Carries(Here, cleared, history)
    BY <2>2, <2>3, CarriesTransitive
  <2>5. Become(open) \/ Become(cleared)
    BY <1>4 DEF RoundEnds, ClearIfCurrent
  <2> HIDE DEF open, cleared
  <2>6. QED
    BY <1>3, <2>1, <2>2, <2>3, <2>4, <2>5
<1>5. CASE DelayElapses(w)
  <2>1. \/ Become(Here)
        \/ /\ entry \in StateRef
           /\ \/ Become(TakeLock(Here, entry, R(w)))
              \/ Become(WaitForLock(Here, entry, R(w)))
    BY <1>1, <1>5 DEF DelayElapses, CoordState
  <2>2. CASE Become(Here)
    BY <1>1, <1>3, <2>2
  <2>3. ASSUME entry \in StateRef
        PROVE  /\ TakeLock(Here, entry, R(w)) \in CoordState
               /\ WaitForLock(Here, entry, R(w)) \in CoordState
               /\ Carries(Here, TakeLock(Here, entry, R(w)), history)
               /\ Carries(Here, WaitForLock(Here, entry, R(w)), history)
    BY <1>1, <2>3, LockOperationsType, LockOperationsCarry
  <2>4. QED
    BY <1>3, <2>1, <2>2, <2>3
<1>6. CASE ReconcilerAcquires(w)
  <2> DEFINE held == TakeLock(Here, ref, R(w))
             open == ReleaseLock(held, ref)
  <2>1. ref \in StateRef
    BY <1>1, <1>6 DEF ReconcilerAcquires, ReconcilerAt
  <2>2. held \in CoordState /\ Carries(Here, held, history)
    BY <1>1, <2>1, LockOperationsType, LockOperationsCarry
  <2>3. open \in CoordState /\ Carries(held, open, history)
    BY <1>1, <2>1, <2>2, LockOperationsType, LockOperationsCarry
  <2>4. Carries(Here, open, history)
    BY <2>2, <2>3, CarriesTransitive
  <2>5. Become(held) \/ Become(open)
    BY <1>6 DEF ReconcilerAcquires
  <2> HIDE DEF open, held
  <2>6. QED
    BY <1>3, <2>2, <2>3, <2>4, <2>5
<1>7. CASE DeferredReadSucceeds(w)
  <2> DEFINE Ends(read) == \/ RoundEnds(w, ReleaseLock(read, ref))
                           \/ Become(ClearOverlay(ReleaseLock(read, ref), reconciler[w].payload))
  <2>1. PICK t \in Recent :
            \E stamp \in StampsOf(t) : Ends(TakeRestSettings(Here, history[t], stamp))
    BY <1>7 DEF DeferredReadSucceeds
  <2>2. PICK stamp \in StampsOf(t) : Ends(TakeRestSettings(Here, history[t], stamp))
    BY <2>1
  <2> DEFINE read == TakeRestSettings(Here, history[t], stamp)
  <2>3. read \in CoordState /\ Carries(Here, read, history)
    BY <1>1, RecentType, TakeRestSettingsType, TakeRestSettingsCarries DEF OverlayInv
  <2>4. reconciler[w].pc = "reading"
    BY <1>7 DEF DeferredReadSucceeds, ReconcilerAt
  <2>5. Ends(read)
    BY <2>2
  <2> HIDE DEF read
  <2>6. QED
    BY <1>4, <2>3, <2>4, <2>5
<1>8. CASE DeferredReadFails(w)
  BY <1>1, <1>4, <1>8 DEF DeferredReadFails, ReconcilerAt
<1>9. CASE ReconcilerUnwinds(w)
  <2>1. reconciler[w].pc \in {"sleeping", "locking", "reading"}
    BY <1>9 DEF ReconcilerUnwinds, Reconciling, TypeInv, ReconcilersOK, ReconcilerState,
                ReconcilerPc
  <2>2. CASE reconciler[w].pc = "sleeping"
    BY <1>1, <1>3, <1>9, <2>2 DEF ReconcilerUnwinds
  <2>3. CASE reconciler[w].pc = "reading"
    <3>1. ref \in StateRef /\ Become(ReleaseLock(Here, ref))
      BY <1>1, <1>9, <2>3 DEF ReconcilerUnwinds
    <3>2. ReleaseLock(Here, ref) \in CoordState /\ Carries(Here, ReleaseLock(Here, ref), history)
      BY <1>1, <3>1, LockOperationsType, LockOperationsCarry
    <3>3. QED
      BY <1>3, <3>1, <3>2
  <2>4. CASE reconciler[w].pc = "locking"
    <3>1. PICK i \in DOMAIN states[ref].waiters : Become(LeaveQueue(Here, ref, i))
      BY <1>9, <2>4 DEF ReconcilerUnwinds
    <3>2. LeaveQueue(Here, ref, i) \in CoordState /\ Carries(Here, LeaveQueue(Here, ref, i), history)
      BY <1>1, <2>4, LockOperationsType, LockOperationsCarry
    <3>3. QED
      BY <1>3, <3>1, <3>2
  <2>5. QED
    BY <2>1, <2>2, <2>3, <2>4
<1>10. QED
  BY <1>5, <1>6, <1>7, <1>8, <1>9 DEF ReconcilerStep

\* Everything from outside the two tasks.
LEMMA EnvironmentOverlay ==
    ASSUME TypeInv, WritersCounted, OverlayInv,
           \/ Push \/ RefreshSettings \/ RemoveDevice \/ RediscoverDevice
           \/ BeginShutdown \/ EndShutdown \/ CloudChanges
           \/ \E w \in Writer : CloudApplies(w)
           \/ UNCHANGED vars
    PROVE  OverlayInv'
<1>1. /\ Here \in CoordState /\ Here.device = device /\ device \in DeviceRecord
      /\ history \in Seq(Settings)
  BY DEF TypeInv, StoreOK, CloudOK, Here, CoordState
<1>2. UNCHANGED writer
  BY DEF Push, RefreshSettings, RemoveDevice, RediscoverDevice, BeginShutdown, EndShutdown,
         CloudChanges, CloudApplies, vars
<1>3. CASE Push
  <2>1. PICK t \in Recent, view \in PushView : \E stamp \in StampsOf(t) :
          LET document == Visible(history[t], view)
              applied  == [Here EXCEPT !.device = ApplyIncremental(@, document, stamp)]
          IN  Become(ObserveInflight(applied, document, stamp, "websocket"))
    BY <1>3 DEF Push
  <2>2. PICK stamp \in StampsOf(t) :
          LET document == Visible(history[t], view)
              applied  == [Here EXCEPT !.device = ApplyIncremental(@, document, stamp)]
          IN  Become(ObserveInflight(applied, document, stamp, "websocket"))
    BY <2>1
  <2> DEFINE document == Visible(history[t], view)
             dev      == ApplyIncremental(device, document, stamp)
             applied  == [Here EXCEPT !.device = dev]
             out      == ObserveInflight(applied, document, stamp, "websocket")
  <2>3. document \in Settings /\ stamp \in Stamp
    BY RecentType
  <2>4. dev \in DeviceRecord /\ Shrinks(device, dev)
    BY <1>1, <2>3, ApplyIncrementalType, ReducerShrinks
  <2>5. ShowsDocument(dev, document, stamp, "websocket", t)
    <3>1. \A l \in Leaves(document) : document[l] = history[t][l]
      BY DEF Leaves, Visible
    <3>2. QED
      BY <1>1, <2>3, <3>1, VersionIsOwn DEF ShowsDocument
  <2>6. Become(out)
    BY <1>1, <2>2
  <2> HIDE DEF document, dev
  <2>7. applied \in CoordState /\ Carries(Here, applied, history) /\ applied.device = dev
    BY <1>1, <2>4, ShrinkCarries DEF CoordState
  <2> HIDE DEF applied
  <2>8. out \in CoordState /\ Carries(applied, out, history)
    BY <2>3, <2>5, <2>7, ObserveInflightType, ObserveInflightCarries
  <2> HIDE DEF out
  <2>9. Carries(Here, out, history) /\ UNCHANGED <<history, removals>>
    BY <1>3, <2>7, <2>8, CarriesTransitive DEF Push
  <2>10. QED
    BY <1>2, <2>6, <2>8, <2>9, CarriedStep DEF Running
<1>4. CASE RefreshSettings
  <2>1. PICK t \in Recent : \E stamp \in StampsOf(t) :
          Become(TakeRestSettings(Here, history[t], stamp))
    BY <1>4 DEF RefreshSettings
  <2>2. PICK stamp \in StampsOf(t) : Become(TakeRestSettings(Here, history[t], stamp))
    BY <2>1
  <2>3. /\ TakeRestSettings(Here, history[t], stamp) \in CoordState
        /\ Carries(Here, TakeRestSettings(Here, history[t], stamp), history)
    BY <1>1, RecentType, TakeRestSettingsType, TakeRestSettingsCarries DEF OverlayInv
  <2>4. UNCHANGED <<history, removals>>
    BY <1>4 DEF RefreshSettings
  <2>5. QED
    BY <1>2, <2>2, <2>3, <2>4, CarriedStep DEF Running
<1>5. CASE RemoveDevice
  <2>1. device' = NoDevice /\ removals' = removals + 1 /\ UNCHANGED <<states, history>>
    BY <1>5 DEF RemoveDevice
  <2>2. Tracked(Here')
    BY <2>1, NoSettingsType DEF Tracked, Here, NoDevice
  <2>3. removals' # 0
    BY <2>1 DEF TypeInv, CloudOK
  <2>4. QED
    BY <2>1, <2>2, <2>3 DEF OverlayInv, Pinned
<1>6. CASE RediscoverDevice
  <2> DEFINE blank == [NoDevice EXCEPT !.present = TRUE]
  <2>1. blank \in DeviceRecord /\ Leaves(blank.pending) = {}
    BY NoDeviceType, NoSettingsType DEF DeviceRecord, NoDevice
  <2>2. \/ device' = blank
        \/ \E t \in Recent, view \in PushView : \E stamp \in StampsOf(t) :
              device' = ApplyIncremental(blank, Visible(history[t], view), stamp)
    BY <1>6 DEF RediscoverDevice
  <2> HIDE DEF blank
  <2>3. Leaves(device'.pending) = {}
    BY <2>1, <2>2, ReducerShrinks DEF Shrinks
  <2>4. Tracked(Here')
    BY <2>3 DEF Tracked, Here
  <2>5. UNCHANGED <<entry, states, history, removals>> /\ ~device.present
    BY <1>6 DEF RediscoverDevice
  <2>6. QED
    BY <2>4, <2>5 DEF OverlayInv, Pinned
<1>7. CASE BeginShutdown \/ EndShutdown \/ UNCHANGED vars
  BY <1>2, <1>7, QuietStep DEF BeginShutdown, EndShutdown, vars, Running
<1>8. CASE CloudChanges \/ \E w \in Writer : CloudApplies(w)
  <2>1. \E document \in Settings : history' = Append(history, document)
    <3>1. CASE CloudChanges
      <4>1. PICK l \in Leaf, v \in Value :
              history' = Append(history, [history[Len(history)] EXCEPT ![l] = v])
        BY <3>1 DEF CloudChanges
      <4>2. history[Len(history)] \in Settings
        BY <1>1 DEF TypeInv, CloudOK
      <4>3. [history[Len(history)] EXCEPT ![l] = v] \in Settings
        BY <4>2 DEF Settings
      <4>4. QED
        BY <4>1, <4>3
    <3>2. CASE \E w \in Writer : CloudApplies(w)
      BY <3>2 DEF CloudApplies
    <3>3. QED
      BY <1>8, <3>1, <3>2
  <2>2. Decided(states, history')
    BY <1>1, <2>1, DecidedLater DEF OverlayInv
  <2>3. UNCHANGED <<device, entry, states, removals>>
    BY <1>8 DEF CloudChanges, CloudApplies
  <2>4. QED
    BY <1>2, <2>2, <2>3 DEF OverlayInv, Pinned, Tracked, Here, Running
<1>9. QED
  BY <1>3, <1>4, <1>5, <1>6, <1>7, <1>8

\* The invariant of the overlay holds, with the types and the count it rests on.
LEMMA OverlayAlways == Spec => [](TypeInv /\ WritersCounted /\ OverlayInv)
<1>1. TypeInv /\ WritersCounted /\ OverlayInv /\ [Next]_vars => OverlayInv'
  <2> SUFFICES ASSUME TypeInv, WritersCounted, OverlayInv, [Next]_vars PROVE OverlayInv'
    OBVIOUS
  <2>1. ASSUME NEW w \in Writer, \E command \in Command : Call(w, command) PROVE OverlayInv'
    BY <2>1, CallOverlay
  <2>2. QED
    BY <2>1, WriterStepOverlay, ReconcilerStepOverlay, EnvironmentOverlay DEF Next
<1>2. TypeInv /\ WritersCounted /\ [Next]_vars => WritersCounted'
  <2> SUFFICES ASSUME TypeInv, WritersCounted, [Next]_vars PROVE WritersCounted'
    OBVIOUS
  <2>1. ASSUME NEW w \in Writer, \E command \in Command : Call(w, command)
        PROVE  WritersCounted'
    BY <2>1, CallCount
  <2>2. QED
    BY <2>1, WriterStepCount, OtherStepCount DEF Next
<1>3. QED
  BY <1>1, <1>2, InitTypeInv, NextTypeInv, InitCount, InitOverlay, PTL DEF Spec

----------------------------------------------------------------------------
(* The theorems                                                             *)

\* However many calls share a device, none loses the write state it holds or waits
\* for to another task's end, while the hierarchy keeps the device.
THEOREM EntryAlwaysOutlives == Spec => []EntryOutlivesCalls
<1>1. OverlayInv => EntryOutlivesCalls
  BY DEF OverlayInv, Pinned, EntryOutlivesCalls
<1>2. QED
  BY <1>1, OverlayAlways, PTL

\* No overlay is without a device and a write state, so a deferred reconciliation
\* never gives up on one it should clear.
THEOREM OverlayAlwaysTracked == Spec => []OverlayIsTracked
<1>1. OverlayInv => OverlayIsTracked
  BY DEF OverlayInv, Tracked, Here, OverlayIsTracked
<1>2. QED
  BY <1>1, OverlayAlways, PTL

\* Neither a late nor a repeated, partial or unstamped document ever decides a
\* write, whatever the tolerance and however far documents lag.
THEOREM AlwaysDecidedByNewer == Spec => []DecidedByNewerDocument
<1>1. OverlayInv => DecidedByNewerDocument
  BY DEF OverlayInv, Decided, SlotDecided, DecidedByNewerDocument
<1>2. QED
  BY <1>1, OverlayAlways, PTL

----------------------------------------------------------------------------
(* Whose overlay.  What the steps do to the device record and to the tasks,  *)
(* the write states aside.                                                  *)

\* Nothing is added to the overlay, and only what the source confirms leaves it.
ConfirmsOnly(dev, new) ==
    /\ new.present = dev.present
    /\ \A l \in Leaf : \/ new.pending[l] = dev.pending[l]
                       \/ new.pending[l] = Absent /\ new.settings[l] = dev.pending[l]

\* The reducer's documents are such, accepted or not.
LEMMA DocumentsConfirm ==
    ASSUME NEW dev \in DeviceRecord, NEW doc \in Settings, NEW stamp
    PROVE  /\ ConfirmsOnly(dev, dev)
           /\ ConfirmsOnly(dev, ApplyFull(dev, doc, stamp))
           /\ ConfirmsOnly(dev, ApplyIncremental(dev, doc, stamp))
<1>1. ASSUME NEW s, NEW v PROVE ConfirmsOnly(dev, Confirm(dev, s, v))
  <2>1. /\ Confirm(dev, s, v).present = dev.present /\ Confirm(dev, s, v).settings = s
        /\ Confirm(dev, s, v).pending = RemoveMatching(dev.pending, s)
    BY DEF Confirm, DeviceRecord
  <2>2. QED
    BY <2>1 DEF ConfirmsOnly, RemoveMatching
<1>2. ConfirmsOnly(dev, dev)
  BY DEF ConfirmsOnly
<1>3. QED
  BY <1>1, <1>2 DEF ApplyFull, ApplyIncremental

\* So is a REST settings response.
LEMMA TakeRestSettingsConfirms ==
    ASSUME TypeInv, NEW st \in CoordState, NEW t \in Recent, NEW stamp \in StampsOf(t)
    PROVE  ConfirmsOnly(st.device, TakeRestSettings(st, history[t], stamp).device)
<1> DEFINE doc     == history[t]
           applied == [st EXCEPT !.device = ApplyFull(@, doc, stamp)]
           synced  == SyncWriteState(applied, SyncRef)
<1>1. doc \in Settings /\ stamp \in Stamp /\ st.device \in DeviceRecord
  BY RecentType DEF CoordState
<1>2. applied \in CoordState /\ applied.device = ApplyFull(st.device, doc, stamp)
  BY <1>1, ApplyFullType DEF CoordState
<1>3. synced \in CoordState /\ synced.device = applied.device
  BY <1>2, SyncWriteStateType, RefsType
<1>4. ObserveInflight(synced, doc, stamp, "rest").device = ApplyFull(st.device, doc, stamp)
  BY <1>2, <1>3, ObserveInflightType
<1>5. QED
  BY <1>1, <1>4, DocumentsConfirm DEF TakeRestSettings

\* Taking an overlay back takes exactly the leaves that show its values.
LEMMA ClearPendingTakes ==
    ASSUME NEW dev \in DeviceRecord, NEW p
    PROVE  /\ ClearPending(dev, p).present = dev.present
           /\ ClearPending(dev, p).settings = dev.settings
           /\ \A l \in Leaf : ClearPending(dev, p).pending[l] =
                                IF dev.pending[l] = p[l] THEN Absent ELSE dev.pending[l]
BY DEF ClearPending, RemoveMatching, DeviceRecord

\* In a handler's state.
LEMMA ClearOverlayDevice ==
    ASSUME NEW st \in CoordState, NEW p \in Settings
    PROVE  ClearOverlay(st, p).device = ClearPending(st.device, p)
<1> DEFINE cleared == [st EXCEPT !.device = ClearPending(@, p)]
<1>1. cleared \in CoordState /\ cleared.device = ClearPending(st.device, p)
  BY ClearPendingType DEF CoordState
<1>2. QED
  BY <1>1, SyncWriteStateType, RefsType DEF ClearOverlay

\* A call that returns leaves the record its handlers left.
LEMMA ReturnDevice ==
    ASSUME TypeInv, NEW w \in Writer, Running(w), NEW st \in CoordState, NEW result
    PROVE  /\ Return(w, st, result) \/ Return(w, ReleaseLock(st, writer[w].ref), result) =>
                device' = st.device
           /\ ReturnCleared(w, st, result) =>
                device' = ClearPending(st.device, writer[w].payload)
           /\ (\/ Return(w, st, result)
               \/ Return(w, ReleaseLock(st, writer[w].ref), result)
               \/ ReturnCleared(w, st, result)) =>
                OthersUnchanged(w) /\ writer'[w].pc = "done" /\ writer'[w].result = result
<1> DEFINE open    == ReleaseLock(st, writer[w].ref)
           cleared == ClearOverlay(open, writer[w].payload)
<1>1. writer[w].ref \in StateRef /\ W(w) \in Task /\ writer[w].payload \in Settings
  BY TasksDiffer DEF TypeInv, CallsOK, WriterState
<1>2. open \in CoordState /\ open.device = st.device
  BY <1>1, LockOperationsType, LockOperationsDevice
<1>3. cleared \in CoordState /\ cleared.device = ClearPending(st.device, writer[w].payload)
  BY <1>1, <1>2, ClearOverlayType, ClearOverlayDevice
<1>4. ASSUME NEW x \in CoordState, Return(w, x, result)
      PROVE  /\ device' = x.device /\ OthersUnchanged(w)
             /\ writer'[w].pc = "done" /\ writer'[w].result = result
  BY <1>1, <1>4, FinishWriteDevice, CallEndedFrame DEF Return, Become
<1>5. ReturnCleared(w, st, result) => Return(w, cleared, result)
  BY DEF ReturnCleared
<1> HIDE DEF open, cleared
<1>6. Return(w, ReleaseLock(st, writer[w].ref), result) => Return(w, open, result)
  BY DEF open
<1>7. QED
  BY <1>2, <1>3, <1>4, <1>5, <1>6

\* What a step of the call w does.  From outside the lock: it begins, or it does not.
Begins(w, command) ==
    /\ device' = ApplyPending(device, Encode(device, command))
    /\ writer'[w].payload = Encode(device, command)
    /\ Engaged(w)' /\ writer'[w].result = writer[w].result
StaysOutside(w, command) ==
    /\ device' = device
    /\ \/ /\ writer'[w].pc = "queued" /\ writer'[w].command = command
          /\ writer'[w].result = writer[w].result
       \/ writer'[w].pc = "done" /\ writer'[w].result \in {"error", "cancelled"}
\* Inside it: it goes on, or ends, on the record dev.
GoesOn(w, dev) == /\ device' = dev /\ Engaged(w)'
                  /\ writer'[w].payload = writer[w].payload
                  /\ writer'[w].result = writer[w].result
Clears(w, dev) == /\ device' = ClearPending(dev, writer[w].payload)
                  /\ writer'[w].pc = "done" /\ writer'[w].result \in Result \ {"none"}
GivesUp(w, dev) ==
    /\ device' = dev /\ writer'[w].pc = "done"
    /\ \/ ~IsCurrent(dev, writer[w].payload) /\ writer'[w].result \in {"success", "cancelled"}
       \/ "auth" \in Faults
Schedules(w, dev) ==
    /\ device' = dev /\ IsCurrent(dev, writer[w].payload)
    /\ writer'[w].pc = "done" /\ writer'[w].result = "success"
    /\ Schedule(w)

\* A call at the lock begins, or is refused.
LEMMA EnterLockDevice ==
    ASSUME TypeInv, NEW w \in Writer, NEW st \in CoordState, NEW ref \in StateRef,
           NEW command \in Settings, st.device = device, EnterLock(w, st, ref, command)
    PROVE  OthersUnchanged(w) /\ (Begins(w, command) \/ StaysOutside(w, command))
<1> DEFINE payload == Encode(device, command)
           open    == ReleaseLock(st, ref)
<1>1. W(w) \in Task /\ payload \in Settings /\ writer \in [Writer -> WriterState]
  BY TasksDiffer, EncodeType DEF CoordState, TypeInv, CallsOK
<1>2. CASE CanEncode(st.device, command)
  <2>1. /\ device' = BeginWrite(st, w, ref, payload).device
        /\ writer' = [writer EXCEPT ![w].pc = "patching", ![w].ref = ref,
                                    ![w].command = command, ![w].payload = payload]
    BY <1>2 DEF EnterLock, Become
  <2> DEFINE shown    == [st EXCEPT !.device = ApplyPending(@, payload)]
             overlaid == SyncWriteState(shown, <<"begin", w>>)
  <2>2. shown \in CoordState /\ shown.device = ApplyPending(device, payload)
    BY <1>1, ApplyPendingType DEF CoordState
  <2>3. overlaid \in CoordState /\ overlaid.device = shown.device
    BY <2>2, SyncWriteStateType, RefsType
  <2>4. BeginWrite(st, w, ref, payload).device = overlaid.device
    BY <2>3 DEF BeginWrite, CoordState
  <2> HIDE DEF payload, shown, overlaid
  <2>5. /\ OthersUnchanged(w) /\ writer'[w].pc = "patching"
        /\ writer'[w].payload = payload /\ writer'[w].result = writer[w].result
    BY <1>1, <2>1 DEF OthersUnchanged, WriterState
  <2>6. QED
    BY <2>1, <2>2, <2>3, <2>4, <2>5 DEF Begins, Engaged, payload
<1>3. CASE ~CanEncode(st.device, command)
  <2>1. device' = FinishWrite(open, w, ref).device
    BY <1>3 DEF EnterLock, Become
  <2>2. open \in CoordState /\ open.device = device
    BY <1>1, LockOperationsType, LockOperationsDevice
  <2>3. OthersUnchanged(w) /\ writer'[w].pc = "done" /\ writer'[w].result = "error"
    BY <1>3, CallEndedFrame DEF EnterLock
  <2>4. QED
    BY <2>1, <2>2, <2>3, FinishWriteDevice DEF StaysOutside, Engaged
<1>4. QED
  BY <1>2, <1>3

\* A new call begins, waits or is refused.
LEMMA CallDevice ==
    ASSUME TypeInv, NEW w \in Writer, NEW command \in Command, Call(w, command)
    PROVE  /\ OthersUnchanged(w) /\ (Begins(w, command) \/ StaysOutside(w, command))
           /\ writer[w].pc = "idle" /\ UNCHANGED <<reconciler, phase>>
<1> DEFINE ref    == IF entry = NoState THEN <<"call", w>> ELSE entry
           called == [Here EXCEPT !.entry = ref, !.states[ref].active = @ + 1]
           held   == TakeLock(called, ref, W(w))
           queued == WaitForLock(called, ref, W(w))
<1>1. /\ ref \in StateRef /\ command \in Settings /\ W(w) \in Task
      /\ Here \in CoordState /\ Here.device = device /\ writer \in [Writer -> WriterState]
  BY RefsType, TasksDiffer, PairAssumption DEF TypeInv, StoreOK, CallsOK, CoordState, Here
<1>2. /\ IF LockIsFree(states[ref])
         THEN EnterLock(w, held, ref, command)
         ELSE /\ Become(queued)
              /\ writer' = [writer EXCEPT ![w].pc = "queued", ![w].ref = ref,
                                          ![w].command = command]
      /\ writer[w].pc = "idle" /\ UNCHANGED <<reconciler, phase>>
  BY DEF Call
<1> HIDE DEF ref
<1>3. called \in CoordState /\ called.device = device
  <2> DEFINE ws == Here.states[ref]
  <2>1. ws \in WriteState /\ ws.active + 1 \in Int
    BY <1>1 DEF CoordState, WriteState
  <2>2. [ws EXCEPT !.active = @ + 1] \in WriteState
    BY <2>1 DEF WriteState
  <2>3. QED
    BY <1>1, <2>2 DEF CoordState
<1> HIDE DEF called
<1>4. held \in CoordState /\ held.device = device /\ queued.device = device
  BY <1>1, <1>3, LockOperationsType, LockOperationsDevice
<1> HIDE DEF held
<1>5. CASE LockIsFree(states[ref])
  BY <1>1, <1>2, <1>4, <1>5, EnterLockDevice
<1>6. CASE ~LockIsFree(states[ref])
  <2>1. device' = device
    BY <1>2, <1>4, <1>6 DEF Become
  <2>2. /\ OthersUnchanged(w) /\ writer'[w].pc = "queued"
        /\ writer'[w].command = command /\ writer'[w].result = writer[w].result
    BY <1>1, <1>2, <1>6 DEF OthersUnchanged, WriterState
  <2>3. QED
    BY <1>2, <2>1, <2>2 DEF StaysOutside, Engaged
<1>7. QED
  BY <1>2, <1>5, <1>6

\* A step of a call in the queue or in the lock.
LEMMA WriterStepDevice ==
    ASSUME TypeInv, NEW w \in Writer, WriterStep(w) \/ Cancel(w)
    PROVE  /\ OthersUnchanged(w) /\ Running(w) /\ UNCHANGED phase
           /\ \/ /\ UNCHANGED reconciler /\ writer[w].pc = "queued"
                 /\ Begins(w, writer[w].command) \/ StaysOutside(w, writer[w].command)
              \/ \E dev : /\ ConfirmsOnly(device, dev) /\ dev \in DeviceRecord /\ Engaged(w)
                          /\ \/ UNCHANGED reconciler
                                /\ (GoesOn(w, dev) \/ Clears(w, dev) \/ GivesUp(w, dev))
                             \/ Schedules(w, dev)
<1> DEFINE ref == writer[w].ref
           Inside(dev) ==
                \/ UNCHANGED reconciler /\ (GoesOn(w, dev) \/ Clears(w, dev) \/ GivesUp(w, dev))
                \/ Schedules(w, dev)
<1>1. /\ writer \in [Writer -> WriterState] /\ W(w) \in Task
      /\ Here \in CoordState /\ Here.device = device
      /\ device \in DeviceRecord /\ ConfirmsOnly(device, device)
  BY TasksDiffer DEF TypeInv, CallsOK, StoreOK, CoordState, Here, ConfirmsOnly
<1>2. Running(w) /\ ref \in StateRef /\ UNCHANGED phase
  BY DEF WriterStep, Acquire, PatchSucceeds, PatchFails, EventWakes, ConfirmTimesOut,
         ReadSucceeds, ReadFails, PauseEnds, Cancel, Engaged, Running, TypeInv, CallsOK
<1>3. ASSUME NEW pc \in {"confirming", "reading", "pausing"}, NEW n,
             \/ writer' = [writer EXCEPT ![w].pc = pc]
             \/ writer' = [writer EXCEPT ![w].pc = pc, ![w].attempt = n],
             NEW dev, device' = dev
      PROVE  OthersUnchanged(w) /\ GoesOn(w, dev)
  <2>1. /\ OthersUnchanged(w) /\ writer'[w].pc = pc
        /\ writer'[w].payload = writer[w].payload /\ writer'[w].result = writer[w].result
    BY <1>1, <1>3 DEF OthersUnchanged, WriterState
  <2>2. QED
    BY <1>3, <2>1 DEF GoesOn, Engaged
<1>4. ASSUME NEW st \in CoordState, NEW result \in Result \ {"none"},
             ReturnCleared(w, st, result)
      PROVE  OthersUnchanged(w) /\ Clears(w, st.device)
  BY <1>2, <1>4, ReturnDevice DEF Clears
<1>5. ASSUME NEW st \in CoordState, NEW result,
             Return(w, st, result) \/ Return(w, ReleaseLock(st, ref), result)
      PROVE  /\ OthersUnchanged(w) /\ device' = st.device
             /\ writer'[w].pc = "done" /\ writer'[w].result = result
  BY <1>2, <1>5, ReturnDevice
<1>6. CASE Acquire(w)
  <2> DEFINE held == TakeLock(Here, ref, W(w))
  <2>1. /\ EnterLock(w, held, ref, writer[w].command) /\ writer[w].command \in Settings
        /\ writer[w].pc = "queued" /\ UNCHANGED reconciler
    BY <1>1, <1>6 DEF Acquire, WriterState
  <2>2. held \in CoordState /\ held.device = device
    BY <1>1, <1>2, LockOperationsType, LockOperationsDevice
  <2> HIDE DEF held
  <2>3. QED
    BY <1>2, <2>1, <2>2, EnterLockDevice
<1>7. CASE PatchSucceeds(w) \/ EventWakes(w)
  <2>1. Engaged(w) /\ UNCHANGED reconciler
    BY <1>7 DEF PatchSucceeds, EventWakes, Engaged
  <2>2. CASE Conclude(w, Here)
    <3>1. OthersUnchanged(w) /\ Clears(w, device)
      BY <1>1, <1>4, <2>2 DEF Conclude, Result
    <3>2. QED
      BY <1>1, <1>2, <2>1, <3>1
  <2>3. CASE writer' = [writer EXCEPT ![w].pc = "confirming"] /\ UNCHANGED device
    BY <1>1, <1>2, <1>3, <2>1, <2>3
  <2>4. QED
    BY <1>7, <2>2, <2>3 DEF PatchSucceeds, EventWakes
<1>8. CASE PatchFails(w) \/ ReadFails(w)
  <2>1. Engaged(w) /\ UNCHANGED reconciler /\ RequestFails(w)
    BY <1>8 DEF PatchFails, ReadFails, Engaged
  <2>2. CASE ReturnCleared(w, Here, "error")
    <3>1. OthersUnchanged(w) /\ Clears(w, device)
      BY <1>1, <1>4, <2>2 DEF Result
    <3>2. QED
      BY <1>1, <1>2, <2>1, <3>1
  <2>3. CASE "auth" \in Faults /\ Return(w, ReleaseLock(Here, ref), "error")
    <3>1. OthersUnchanged(w) /\ GivesUp(w, device)
      BY <1>1, <1>5, <2>3 DEF GivesUp
    <3>2. QED
      BY <1>1, <1>2, <2>1, <3>1
  <2>4. QED
    BY <2>1, <2>2, <2>3 DEF RequestFails
<1>9. CASE ConfirmTimesOut(w) \/ PauseEnds(w)
  <2>1. \E n : writer' = [writer EXCEPT ![w].pc = "reading", ![w].attempt = n]
    BY <1>1, <1>9 DEF ConfirmTimesOut, PauseEnds
  <2>2. Engaged(w) /\ UNCHANGED <<device, reconciler>>
    BY <1>9 DEF ConfirmTimesOut, PauseEnds, Engaged
  <2>3. OthersUnchanged(w) /\ GoesOn(w, device)
    BY <1>3, <2>1, <2>2
  <2>4. QED
    BY <1>1, <1>2, <2>2, <2>3
<1>10. CASE ReadSucceeds(w)
  <2> DEFINE Ends(read) ==
        \/ UNCHANGED reconciler /\ \E result \in Result \ {"none"} : ReturnCleared(w, read, result)
        \/ /\ ~IsCurrent(read.device, writer[w].payload)
           /\ UNCHANGED reconciler /\ Return(w, ReleaseLock(read, ref), "success")
        \/ Become(read) /\ UNCHANGED reconciler /\ writer' = [writer EXCEPT ![w].pc = "pausing"]
        \/ /\ IsCurrent(read.device, writer[w].payload)
           /\ Return(w, ReleaseLock(read, ref), "success") /\ Schedule(w)
  <2>1. PICK t \in Recent :
            \E stamp \in StampsOf(t) : Ends(TakeRestSettings(Here, history[t], stamp))
    BY <1>10 DEF ReadSucceeds, Result
  <2>2. PICK stamp \in StampsOf(t) : Ends(TakeRestSettings(Here, history[t], stamp))
    BY <2>1
  <2> DEFINE read == TakeRestSettings(Here, history[t], stamp)
  <2>3. read \in CoordState /\ ConfirmsOnly(device, read.device)
    BY <1>1, RecentType, TakeRestSettingsType, TakeRestSettingsConfirms
  <2>4. Ends(read) /\ Engaged(w)
    BY <1>10, <2>2 DEF ReadSucceeds, Engaged
  <2> HIDE DEF read
  <2>5. read.device \in DeviceRecord
    BY <2>3 DEF CoordState
  <2>6. OthersUnchanged(w) /\ Inside(read.device)
    <3>1. CASE UNCHANGED reconciler /\ \E result \in Result \ {"none"} : ReturnCleared(w, read, result)
      BY <1>4, <2>3, <3>1
    <3>2. CASE /\ ~IsCurrent(read.device, writer[w].payload)
               /\ UNCHANGED reconciler /\ Return(w, ReleaseLock(read, ref), "success")
      BY <1>5, <2>3, <3>2 DEF GivesUp
    <3>3. CASE /\ Become(read) /\ UNCHANGED reconciler
               /\ writer' = [writer EXCEPT ![w].pc = "pausing"]
      <4>1. device' = read.device
        BY <3>3 DEF Become
      <4>2. QED
        BY <1>3, <3>3, <4>1
    <3>4. CASE /\ IsCurrent(read.device, writer[w].payload)
               /\ Return(w, ReleaseLock(read, ref), "success") /\ Schedule(w)
      BY <1>5, <2>3, <3>4 DEF Schedules
    <3>5. QED
      BY <2>4, <3>1, <3>2, <3>3, <3>4
  <2>7. QED
    BY <1>2, <2>3, <2>4, <2>5, <2>6
<1>11. CASE Cancel(w)
  <2>1. UNCHANGED reconciler
    BY <1>11 DEF Cancel
  <2>2. CASE /\ writer[w].pc = "queued"
             /\ \E i \in DOMAIN states[ref].waiters : Return(w, LeaveQueue(Here, ref, i), "cancelled")
    <3>1. PICK i \in DOMAIN states[ref].waiters : Return(w, LeaveQueue(Here, ref, i), "cancelled")
      BY <2>2
    <3>2. LeaveQueue(Here, ref, i) \in CoordState /\ LeaveQueue(Here, ref, i).device = device
      BY <1>1, <1>2, LockOperationsType, LockOperationsDevice DEF Here
    <3>3. /\ OthersUnchanged(w) /\ device' = device
          /\ writer'[w].pc = "done" /\ writer'[w].result = "cancelled"
      BY <1>5, <3>1, <3>2
    <3>4. QED
      BY <1>2, <2>1, <2>2, <3>3 DEF StaysOutside, Engaged
  <2>3. CASE Engaged(w) /\ ReturnCleared(w, Here, "cancelled")
    <3>1. OthersUnchanged(w) /\ Clears(w, device)
      BY <1>1, <1>4, <2>3 DEF Result
    <3>2. QED
      BY <1>1, <1>2, <2>1, <2>3, <3>1
  <2>4. CASE /\ Engaged(w) /\ ~IsCurrent(device, writer[w].payload)
             /\ Return(w, ReleaseLock(Here, ref), "cancelled")
    <3>1. OthersUnchanged(w) /\ GivesUp(w, device)
      BY <1>1, <1>5, <2>4 DEF GivesUp
    <3>2. QED
      BY <1>1, <1>2, <2>1, <2>4, <3>1
  <2>5. QED
    BY <1>11, <2>2, <2>3, <2>4 DEF Cancel
<1>12. QED
  BY <1>6, <1>7, <1>8, <1>9, <1>10, <1>11 DEF WriterStep

\* What a step of the reconciliation w does, on the record dev.
RoundGoesOn(w, dev) ==
    /\ device' = dev
    /\ Reconciling(w)'
    /\ reconciler'[w].payload = reconciler[w].payload
    /\ reconciler'[w].cancelled = reconciler[w].cancelled
RoundClears(w, dev) ==
    device' = ClearPending(dev, reconciler[w].payload) /\ ReconcilerEnds(w)
RoundGivesUp(w, dev) ==
    /\ device' = dev /\ ReconcilerEnds(w)
    /\ ~IsCurrent(dev, reconciler[w].payload) \/ entry = NoState \/ reconciler[w].cancelled

\* Every step of a reconciliation is one of the three.
LEMMA ReconcilerStepDevice ==
    ASSUME TypeInv, NEW w \in Writer, ReconcilerStep(w)
    PROVE  /\ OtherReconcilersUnchanged(w) /\ Reconciling(w) /\ UNCHANGED <<writer, phase>>
           /\ \E dev : /\ ConfirmsOnly(device, dev) /\ dev \in DeviceRecord
                       /\ RoundGoesOn(w, dev) \/ RoundClears(w, dev) \/ RoundGivesUp(w, dev)
<1> DEFINE ref == reconciler[w].ref
           p   == reconciler[w].payload
           Does(dev) == RoundGoesOn(w, dev) \/ RoundClears(w, dev) \/ RoundGivesUp(w, dev)
<1>1. /\ Here \in CoordState /\ Here.device = device /\ Here.states = states /\ R(w) \in Task
      /\ device \in DeviceRecord /\ ConfirmsOnly(device, device) /\ p \in Settings
      /\ reconciler \in [Writer -> ReconcilerState]
      /\ reconciler[w].pc \in {"locking", "reading"} => ref \in StateRef
  BY TasksDiffer
  DEF TypeInv, StoreOK, ReconcilersOK, ReconcilerState, Here, CoordState, ConfirmsOnly
<1>2. Reconciling(w) /\ UNCHANGED <<writer, phase>>
  BY DEF ReconcilerStep, DelayElapses, ReconcilerAcquires, DeferredReadSucceeds,
         DeferredReadFails, ReconcilerUnwinds, ReconcilerAt, Reconciling
<1>3. ASSUME NEW pc \in {"sleeping", "locking", "reading"}, NEW n, NEW r, NEW dev, device' = dev,
             \/ reconciler' = [reconciler EXCEPT ![w].pc = pc]
             \/ reconciler' = [reconciler EXCEPT ![w].pc = pc, ![w].ref = r]
             \/ reconciler' = [reconciler EXCEPT ![w].pc = pc, ![w].round = n, ![w].ref = r]
      PROVE  OtherReconcilersUnchanged(w) /\ Does(dev)
  <2>1. /\ OtherReconcilersUnchanged(w) /\ reconciler'[w].pc = pc
        /\ reconciler'[w].payload = p /\ reconciler'[w].cancelled = reconciler[w].cancelled
    BY <1>1, <1>3 DEF OtherReconcilersUnchanged, ReconcilerState
  <2>2. QED
    BY <1>3, <2>1 DEF RoundGoesOn, Reconciling
<1>4. ReconcilerEnds(w) => OtherReconcilersUnchanged(w)
  BY <1>1 DEF ReconcilerEnds, OtherReconcilersUnchanged
<1>5. ASSUME NEW st \in CoordState, RoundEnds(w, st)
      PROVE  OtherReconcilersUnchanged(w) /\ Does(st.device)
  <2>1. CASE Become(st) /\ NextRound(w)
    <3>1. /\ device' = st.device
          /\ \E n : reconciler' = [reconciler EXCEPT ![w].pc = "sleeping", ![w].round = n,
                                                     ![w].ref = NoState]
      BY <1>1, <2>1 DEF Become, NextRound
    <3>2. QED
      BY <1>3, <3>1
  <2>2. CASE Become(ClearIfCurrent(st, p)) /\ ReconcilerEnds(w)
    <3>1. CASE IsCurrent(st.device, p)
      <4>1. device' = ClearPending(st.device, p)
        BY <1>1, <2>2, <3>1, ClearOverlayDevice DEF ClearIfCurrent, Become
      <4>2. QED
        BY <1>4, <2>2, <4>1 DEF RoundClears
    <3>2. CASE ~IsCurrent(st.device, p)
      <4>1. device' = st.device
        BY <2>2, <3>2 DEF ClearIfCurrent, Become
      <4>2. QED
        BY <1>4, <2>2, <3>2, <4>1 DEF RoundGivesUp
    <3>3. QED
      BY <3>1, <3>2
  <2>3. QED
    BY <1>5, <2>1, <2>2 DEF RoundEnds
<1>6. CASE DelayElapses(w)
  <2>1. device' = device
    BY <1>1, <1>6, LockOperationsDevice DEF DelayElapses, Become
  <2>2. CASE ReconcilerEnds(w) /\ (~IsCurrent(device, p) \/ entry = NoState)
    BY <1>1, <1>2, <1>4, <2>1, <2>2 DEF RoundGivesUp
  <2>3. CASE \/ reconciler' = [reconciler EXCEPT ![w].pc = "reading", ![w].ref = entry]
             \/ reconciler' = [reconciler EXCEPT ![w].pc = "locking", ![w].ref = entry]
    <3>1. OtherReconcilersUnchanged(w) /\ Does(device)
      BY <1>3, <2>1, <2>3
    <3>2. QED
      BY <1>1, <1>2, <3>1
  <2>4. QED
    BY <1>6, <2>2, <2>3 DEF DelayElapses
<1>7. CASE ReconcilerAcquires(w)
  <2> DEFINE held == TakeLock(Here, ref, R(w))
  <2>1. ref \in StateRef
    BY <1>1, <1>7 DEF ReconcilerAcquires, ReconcilerAt
  <2>2. held \in CoordState /\ held.device = device /\ ReleaseLock(held, ref).device = device
    BY <1>1, <2>1, LockOperationsType, LockOperationsDevice
  <2>3. device' = device
    BY <1>7, <2>2 DEF ReconcilerAcquires, Become
  <2>4. CASE reconciler' = [reconciler EXCEPT ![w].pc = "reading"]
    <3>1. OtherReconcilersUnchanged(w) /\ Does(device)
      BY <1>3, <2>3, <2>4
    <3>2. QED
      BY <1>1, <1>2, <3>1
  <2>5. CASE ~IsCurrent(device, p) /\ ReconcilerEnds(w)
    BY <1>1, <1>2, <1>4, <2>3, <2>5 DEF RoundGivesUp
  <2>6. QED
    BY <1>7, <2>4, <2>5 DEF ReconcilerAcquires
<1>8. CASE DeferredReadSucceeds(w)
  <2> DEFINE Ends(read) ==
        \/ Become(ClearOverlay(ReleaseLock(read, ref), p)) /\ ReconcilerEnds(w)
        \/ RoundEnds(w, ReleaseLock(read, ref))
  <2>1. PICK t \in Recent :
            \E stamp \in StampsOf(t) : Ends(TakeRestSettings(Here, history[t], stamp))
    BY <1>8 DEF DeferredReadSucceeds
  <2>2. PICK stamp \in StampsOf(t) : Ends(TakeRestSettings(Here, history[t], stamp))
    BY <2>1
  <2> DEFINE read == TakeRestSettings(Here, history[t], stamp)
             open == ReleaseLock(read, ref)
  <2>3. read \in CoordState /\ ConfirmsOnly(device, read.device)
    BY <1>1, RecentType, TakeRestSettingsType, TakeRestSettingsConfirms
  <2>4. ref \in StateRef
    BY <1>1, <1>8 DEF DeferredReadSucceeds, ReconcilerAt
  <2>5. Ends(read)
    BY <2>2
  <2> HIDE DEF read
  <2>6. open \in CoordState /\ open.device = read.device /\ read.device \in DeviceRecord
    BY <1>1, <2>3, <2>4, LockOperationsType, LockOperationsDevice DEF CoordState
  <2>7. \/ Become(ClearOverlay(open, p)) /\ ReconcilerEnds(w)
        \/ RoundEnds(w, open)
    BY <2>5
  <2> HIDE DEF open
  <2>8. OtherReconcilersUnchanged(w) /\ Does(read.device)
    <3>1. CASE Become(ClearOverlay(open, p)) /\ ReconcilerEnds(w)
      <4>1. device' = ClearPending(read.device, p)
        BY <1>1, <2>6, <3>1, ClearOverlayDevice DEF Become
      <4>2. QED
        BY <1>4, <3>1, <4>1 DEF RoundClears
    <3>2. CASE RoundEnds(w, open)
      BY <1>5, <2>6, <3>2
    <3>3. QED
      BY <2>7, <3>1, <3>2
  <2>9. QED
    BY <1>2, <2>3, <2>6, <2>8
<1>9. CASE DeferredReadFails(w)
  <2> DEFINE open == ReleaseLock(Here, ref)
  <2>1. open \in CoordState /\ open.device = device
    BY <1>1, <1>9, LockOperationsType, LockOperationsDevice DEF DeferredReadFails, ReconcilerAt
  <2>2. RoundEnds(w, open)
    BY <1>9 DEF DeferredReadFails
  <2> HIDE DEF open
  <2>3. OtherReconcilersUnchanged(w) /\ Does(device)
    BY <1>5, <2>1, <2>2
  <2>4. QED
    BY <1>1, <1>2, <2>3
<1>10. CASE ReconcilerUnwinds(w)
  <2>1. /\ reconciler[w].pc \in {"sleeping", "locking", "reading"}
        /\ reconciler[w].cancelled /\ ReconcilerEnds(w)
    BY <1>10 DEF ReconcilerUnwinds, Reconciling, TypeInv, ReconcilersOK, ReconcilerState,
                 ReconcilerPc
  <2>2. device' = device
    <3>1. CASE reconciler[w].pc = "sleeping"
      BY <1>1, <1>10, <3>1 DEF ReconcilerUnwinds, Become
    <3>2. CASE reconciler[w].pc = "reading"
      BY <1>1, <1>10, <3>2, LockOperationsDevice DEF ReconcilerUnwinds, Become
    <3>3. CASE reconciler[w].pc = "locking"
      <4>1. PICK i \in DOMAIN states[ref].waiters : Become(LeaveQueue(Here, ref, i))
        BY <1>10, <3>3 DEF ReconcilerUnwinds
      <4>2. QED
        BY <1>1, <4>1, LockOperationsDevice DEF Become
    <3>4. QED
      BY <2>1, <3>1, <3>2, <3>3
  <2>3. QED
    BY <1>1, <1>2, <1>4, <2>1, <2>2 DEF RoundGivesUp
<1>11. QED
  BY <1>6, <1>7, <1>8, <1>9, <1>10 DEF ReconcilerStep

\* From outside the two tasks, the source confirms or the device goes or comes back.
LEMMA EnvironmentDevice ==
    ASSUME TypeInv,
           \/ Push \/ RefreshSettings \/ RemoveDevice \/ RediscoverDevice
           \/ BeginShutdown \/ EndShutdown \/ CloudChanges
           \/ \E w \in Writer : CloudApplies(w)
           \/ UNCHANGED vars
    PROVE  /\ UNCHANGED writer
           /\ \/ UNCHANGED reconciler /\ (phase' = "running" => phase = "running")
              \/ phase' = "stopping" /\ \A v \in Writer : reconciler'[v].pc = reconciler[v].pc
           /\ \/ ConfirmsOnly(device, device')
              \/ ~device'.present /\ Leaves(device'.pending) = {}
              \/ ~device.present /\ Leaves(device'.pending) = {}
<1>1. /\ Here \in CoordState /\ Here.device = device /\ device \in DeviceRecord
      /\ reconciler \in [Writer -> ReconcilerState]
  BY DEF TypeInv, StoreOK, ReconcilersOK, Here, CoordState
<1>2. UNCHANGED writer
  BY DEF Push, RefreshSettings, RemoveDevice, RediscoverDevice, BeginShutdown, EndShutdown,
         CloudChanges, CloudApplies, vars
<1>3. \/ UNCHANGED reconciler /\ (phase' = "running" => phase = "running")
      \/ phase' = "stopping" /\ \A v \in Writer : reconciler'[v].pc = reconciler[v].pc
  <2>1. CASE BeginShutdown
    BY <1>1, <2>1 DEF BeginShutdown, ReconcilerState
  <2>2. CASE ~BeginShutdown
    BY <2>2 DEF Push, RefreshSettings, RemoveDevice, RediscoverDevice, EndShutdown,
                CloudChanges, CloudApplies, vars
  <2>3. QED
    BY <2>1, <2>2
<1>4. CASE Push
  <2> DEFINE Applied(dev) == [Here EXCEPT !.device = dev]
  <2>1. PICK t \in Recent, view \in PushView : \E stamp \in StampsOf(t) :
          LET document == Visible(history[t], view)
              applied  == [Here EXCEPT !.device = ApplyIncremental(@, document, stamp)]
          IN  Become(ObserveInflight(applied, document, stamp, "websocket"))
    BY <1>4 DEF Push
  <2>2. PICK stamp \in StampsOf(t) :
          LET document == Visible(history[t], view)
              applied  == [Here EXCEPT !.device = ApplyIncremental(@, document, stamp)]
          IN  Become(ObserveInflight(applied, document, stamp, "websocket"))
    BY <2>1
  <2> DEFINE document == Visible(history[t], view)
             dev      == ApplyIncremental(device, document, stamp)
             applied  == [Here EXCEPT !.device = dev]
  <2>3. document \in Settings /\ stamp \in Stamp
    BY RecentType
  <2>4. dev \in DeviceRecord /\ ConfirmsOnly(device, dev)
    BY <1>1, <2>3, ApplyIncrementalType, DocumentsConfirm
  <2>5. Become(ObserveInflight(applied, document, stamp, "websocket"))
    BY <1>1, <2>2
  <2> HIDE DEF document, dev
  <2>6. applied \in CoordState /\ applied.device = dev
    BY <1>1, <2>4 DEF CoordState
  <2> HIDE DEF applied
  <2>7. device' = dev
    BY <2>5, <2>6, ObserveInflightType DEF Become
  <2>8. QED
    BY <1>2, <1>3, <2>4, <2>7
<1>5. CASE RefreshSettings
  <2>1. PICK t \in Recent : \E stamp \in StampsOf(t) :
          Become(TakeRestSettings(Here, history[t], stamp))
    BY <1>5 DEF RefreshSettings
  <2>2. PICK stamp \in StampsOf(t) : Become(TakeRestSettings(Here, history[t], stamp))
    BY <2>1
  <2>3. ConfirmsOnly(device, TakeRestSettings(Here, history[t], stamp).device)
    BY <1>1, TakeRestSettingsConfirms
  <2>4. QED
    BY <1>2, <1>3, <2>2, <2>3 DEF Become
<1>6. CASE RemoveDevice
  BY <1>2, <1>3, <1>6, NoSettingsType DEF RemoveDevice, NoDevice
<1>7. CASE RediscoverDevice
  <2> DEFINE blank == [NoDevice EXCEPT !.present = TRUE]
  <2>1. blank \in DeviceRecord /\ Leaves(blank.pending) = {}
    BY NoDeviceType, NoSettingsType DEF DeviceRecord, NoDevice
  <2>2. \/ device' = blank
        \/ \E t \in Recent, view \in PushView : \E stamp \in StampsOf(t) :
              device' = ApplyIncremental(blank, Visible(history[t], view), stamp)
    BY <1>7 DEF RediscoverDevice
  <2> HIDE DEF blank
  <2>3. Leaves(device'.pending) = {}
    BY <2>1, <2>2, ReducerShrinks DEF Shrinks
  <2>4. QED
    BY <1>2, <1>3, <1>7, <2>3 DEF RediscoverDevice
<1>8. CASE UNCHANGED device
  BY <1>2, <1>3, <1>8 DEF ConfirmsOnly
<1>9. QED
  BY <1>4, <1>5, <1>6, <1>7, <1>8
  DEF BeginShutdown, EndShutdown, CloudChanges, CloudApplies, vars

\* A call's reconciliation begins where the call ends.
OneTask == \A w \in Writer : writer[w].pc # "done" => reconciler[w].pc = "none"

\* Schedule starts the reconciliation of w and no other.
LEMMA ScheduleFrame ==
    ASSUME TypeInv, NEW w \in Writer, Schedule(w)
    PROVE  /\ OtherReconcilersUnchanged(w)
           /\ reconciler'[w].pc = "sleeping" /\ reconciler'[w].payload = writer[w].payload
           /\ reconciler'[w].cancelled = reconciler[w].cancelled
BY DEF TypeInv, ReconcilersOK, Schedule, OtherReconcilersUnchanged, ReconcilerState

\* A call and its reconciliation are never both under way.
LEMMA NextOneTask == TypeInv /\ OneTask /\ [Next]_vars => OneTask'
<1> SUFFICES ASSUME TypeInv, OneTask, [Next]_vars PROVE OneTask'
  OBVIOUS
<1>1. ASSUME NEW w \in Writer, NEW command \in Command, Call(w, command) PROVE OneTask'
  BY <1>1, CallDevice DEF OneTask, OthersUnchanged
<1>2. ASSUME NEW w \in Writer, WriterStep(w) \/ Cancel(w) PROVE OneTask'
  <2>1. OthersUnchanged(w) /\ writer[w].pc # "done"
    BY <1>2, WriterStepDevice DEF Running
  <2>2. \/ UNCHANGED reconciler
        \/ Schedule(w) /\ writer'[w].pc = "done"
    BY <1>2, WriterStepDevice DEF Schedules
  <2>3. QED
    BY <2>1, <2>2, ScheduleFrame DEF OneTask, OthersUnchanged, OtherReconcilersUnchanged
<1>3. ASSUME NEW w \in Writer, ReconcilerStep(w) PROVE OneTask'
  <2>1. OtherReconcilersUnchanged(w) /\ Reconciling(w) /\ UNCHANGED writer
    BY <1>3, ReconcilerStepDevice
  <2>2. QED
    BY <2>1 DEF OneTask, Reconciling, OtherReconcilersUnchanged
<1>4. ASSUME UNCHANGED writer, \A v \in Writer : reconciler'[v].pc = reconciler[v].pc
      PROVE  OneTask'
  BY <1>4 DEF OneTask
<1>5. QED
  BY <1>1, <1>2, <1>3, <1>4, EnvironmentDevice DEF Next

\* OwnOverlayOnly, of one step.
TakesOwnOnly ==
    \A w \in Writer : \A l \in Leaves(writer[w].payload) :
        (/\ Engaged(w) /\ Engaged(w)' /\ device'.present
         /\ device.pending[l] = writer[w].payload[l]
         /\ device'.pending[l] = Absent)
        => \/ device'.settings[l] = writer[w].payload[l]
           \/ \E v \in Writer \ {w} : writer[w].payload[l] \in
                {writer[v].payload[l], reconciler[v].payload[l]}

\* Only the source, the device's removal or a task that asked for the same value
\* takes a leaf from a call under way.
LEMMA NextTakesOwnOnly ==
    ASSUME TypeInv, OneTask, OverlayInv, [Next]_vars
    PROVE  TakesOwnOnly
<1> SUFFICES ASSUME NEW u \in Writer, NEW l \in Leaves(writer[u].payload),
                    Engaged(u), Engaged(u)', device'.present,
                    device.pending[l] = writer[u].payload[l],
                    device'.pending[l] = Absent
             PROVE  \/ device'.settings[l] = device.pending[l]
                    \/ \E v \in Writer \ {u} : device.pending[l] \in
                            {writer[v].payload[l], reconciler[v].payload[l]}
  BY DEF TakesOwnOnly
<1>1. /\ l \in Leaf /\ device.pending[l] # Absent
      /\ device \in DeviceRecord /\ device.present
  BY DEF Leaves, TypeInv, StoreOK, Here, CoordState, OverlayInv, Tracked
<1>2. ASSUME NEW p PROVE ApplyPending(device, p).pending[l] # Absent
  BY <1>1 DEF ApplyPending, Merge, DeviceRecord
<1>3. ASSUME NEW dev \in DeviceRecord, ConfirmsOnly(device, dev), device' = dev
      PROVE  device'.settings[l] = device.pending[l]
  BY <1>1, <1>3 DEF ConfirmsOnly
<1>4. ASSUME NEW dev \in DeviceRecord, ConfirmsOnly(device, dev), NEW p,
             device' = ClearPending(dev, p), device'.settings[l] # device.pending[l]
      PROVE  device.pending[l] = p[l]
  BY <1>1, <1>4, ClearPendingTakes DEF ConfirmsOnly
<1>5. ASSUME NEW w \in Writer, NEW command \in Command, Call(w, command) PROVE FALSE
  <2>1. Begins(w, command) \/ StaysOutside(w, command)
    BY <1>5, CallDevice
  <2>2. QED
    BY <1>1, <1>2, <2>1 DEF Begins, StaysOutside
<1>6. ASSUME NEW w \in Writer, WriterStep(w) \/ Cancel(w),
             device'.settings[l] # device.pending[l]
      PROVE  w # u /\ device.pending[l] = writer[w].payload[l]
  <2>1. ~Begins(w, writer[w].command) /\ ~StaysOutside(w, writer[w].command)
    BY <1>1, <1>2 DEF Begins, StaysOutside
  <2>2. PICK dev : /\ ConfirmsOnly(device, dev) /\ dev \in DeviceRecord
                   /\ device' = dev \/ Clears(w, dev)
    BY <1>6, <2>1, WriterStepDevice DEF GoesOn, GivesUp, Schedules
  <2>3. Clears(w, dev)
    BY <1>3, <1>6, <2>2
  <2>4. writer'[w].pc = "done" /\ device' = ClearPending(dev, writer[w].payload)
    BY <2>3 DEF Clears
  <2>5. QED
    BY <1>4, <1>6, <2>2, <2>4 DEF Engaged
<1>7. ASSUME NEW w \in Writer, ReconcilerStep(w), device'.settings[l] # device.pending[l]
      PROVE  w # u /\ device.pending[l] = reconciler[w].payload[l]
  <2>1. PICK dev : /\ ConfirmsOnly(device, dev) /\ dev \in DeviceRecord
                   /\ device' = dev \/ RoundClears(w, dev)
    BY <1>7, ReconcilerStepDevice DEF RoundGoesOn, RoundGivesUp
  <2>2. RoundClears(w, dev)
    BY <1>3, <1>7, <2>1
  <2>3. Reconciling(w) /\ device' = ClearPending(dev, reconciler[w].payload)
    BY <1>7, <2>2, ReconcilerStepDevice DEF RoundClears
  <2>4. w # u
    BY <2>3 DEF OneTask, Engaged, Reconciling
  <2>5. QED
    BY <1>4, <1>7, <2>1, <2>3, <2>4
<1>8. ASSUME \/ Push \/ RefreshSettings \/ RemoveDevice \/ RediscoverDevice
             \/ BeginShutdown \/ EndShutdown \/ CloudChanges
             \/ \E w \in Writer : CloudApplies(w)
             \/ UNCHANGED vars
      PROVE  device'.settings[l] = device.pending[l]
  BY <1>1, <1>8, EnvironmentDevice DEF ConfirmsOnly
<1>9. QED
  BY <1>5, <1>6, <1>7, <1>8 DEF Next

\* Nothing but the source, the device's removal or a task that asked for the same
\* value takes an optimistic leaf from a call that is still under way, however many
\* calls, reconciliations and cancellations there are.
THEOREM AlwaysOwnOverlayOnly == Spec => OwnOverlayOnly
<1>1. TypeInv /\ OneTask /\ OverlayInv /\ [Next]_vars => [TakesOwnOnly]_vars
  BY NextTakesOwnOnly
<1>2. Init => OneTask
  BY DEF Init, OneTask, IdleReconciler
<1>3. Spec => [](TypeInv /\ OneTask /\ OverlayInv)
  BY <1>2, OverlayAlways, NextOneTask, PTL DEF Spec
<1>4. Spec => [][TakesOwnOnly]_vars
  BY <1>1, <1>3, PTL DEF Spec
<1>5. QED
  BY <1>4 DEF OwnOverlayOnly, TakesOwnOnly

----------------------------------------------------------------------------
(* Who resolves an optimistic leaf, where authentication errors are left out *)
(* and every command is of one leaf, the setpoint pair included.             *)

OneLeaf(p) == \E l \in Leaf : Leaves(p) = {l}
SingleCommands == \A c \in Command : \E l \in Leaf : Leaves(c) = {l} /\ (l \in Pair => Pair = {l})

Owned(l) == \E w \in Writer :
    \/ Engaged(w) /\ writer[w].payload[l] = device.pending[l]
    \/ Reconciling(w) /\ reconciler[w].payload[l] = device.pending[l]

\* OverlayOwned is inductive with what it needs of the tasks.
OwnedInv ==
    /\ phase = "running" => \A l \in Leaves(device.pending) : Owned(l)
    /\ phase = "running" => \A w \in Writer : ~reconciler[w].cancelled
    /\ \A w \in Writer : /\ writer[w].pc = "queued" => writer[w].command \in Command
                         /\ Engaged(w) => OneLeaf(writer[w].payload)
                         /\ Reconciling(w) => OneLeaf(reconciler[w].payload)

\* Encoding a command of one leaf gives a payload of one leaf.
LEMMA EncodeOneLeaf ==
    ASSUME SingleCommands, NEW dev, NEW command \in Command
    PROVE  OneLeaf(Encode(dev, command))
<1>1. PICK l \in Leaf : Leaves(command) = {l} /\ (l \in Pair => Pair = {l})
  BY DEF SingleCommands
<1>2. Leaves(Encode(dev, command)) = {l}
  BY <1>1 DEF Encode, Leaves
<1>3. QED
  BY <1>2 DEF OneLeaf

\* A payload of one leaf that is not current owns no leaf of the overlay.
LEMMA NotCurrentOwnsNothing ==
    ASSUME NEW dev, NEW p, OneLeaf(p), ~IsCurrent(dev, p), dev.present,
           NEW l \in Leaves(dev.pending)
    PROVE  p[l] # dev.pending[l]
BY DEF OneLeaf, IsCurrent, Matches, Leaves

\* A call that begins owns what it shows, and nobody loses a leaf.
LEMMA CallOwned ==
    ASSUME TypeInv, OwnedInv, SingleCommands, NEW w \in Writer, NEW command \in Command,
           OthersUnchanged(w), UNCHANGED <<reconciler, phase>>, ~Engaged(w),
           Begins(w, command) \/ StaysOutside(w, command)
    PROVE  OwnedInv'
<1>1. \A v \in Writer \ {w} : writer'[v] = writer[v] /\ (Engaged(v)' <=> Engaged(v))
  BY DEF OthersUnchanged, Engaged
<1>2. \A v \in Writer : Reconciling(v)' <=> Reconciling(v)
  BY DEF Reconciling
<1>3. /\ writer'[w].pc = "queued" => writer'[w].command \in Command
      /\ Engaged(w)' => OneLeaf(writer'[w].payload)
  BY EncodeOneLeaf DEF Begins, StaysOutside, Engaged
<1>4. \A v \in Writer : /\ writer'[v].pc = "queued" => writer'[v].command \in Command
                        /\ Engaged(v)' => OneLeaf(writer'[v].payload)
                        /\ Reconciling(v)' => OneLeaf(reconciler'[v].payload)
  BY <1>1, <1>2, <1>3 DEF OwnedInv
<1>5. ASSUME phase = "running", NEW l \in Leaves(device'.pending) PROVE Owned(l)'
  <2>1. ASSUME l \in Leaves(device.pending), device'.pending[l] = device.pending[l]
        PROVE  Owned(l)'
    <3>1. PICK v \in Writer :
            \/ Engaged(v) /\ writer[v].payload[l] = device.pending[l]
            \/ Reconciling(v) /\ reconciler[v].payload[l] = device.pending[l]
      BY <1>5, <2>1 DEF OwnedInv, Owned
    <3>2. \/ Engaged(v)' /\ writer'[v].payload[l] = device'.pending[l]
          \/ Reconciling(v)' /\ reconciler'[v].payload[l] = device'.pending[l]
      BY <1>1, <1>2, <2>1, <3>1
    <3>3. QED
      BY <3>2 DEF Owned
  <2>2. CASE Begins(w, command)
    <3> DEFINE p == Encode(device, command)
    <3>1. device'.pending = Merge(device.pending, p) /\ Engaged(w)' /\ writer'[w].payload = p
      BY <2>2 DEF Begins, ApplyPending, TypeInv, StoreOK, Here, CoordState, DeviceRecord
    <3> HIDE DEF p
    <3>2. l \in Leaf /\ device'.pending[l] = IF p[l] # Absent THEN p[l] ELSE device.pending[l]
      BY <3>1 DEF Leaves, Merge
    <3>3. CASE p[l] # Absent
      <4>1. writer'[w].payload[l] = device'.pending[l]
        BY <3>1, <3>2, <3>3
      <4>2. QED
        BY <3>1, <4>1 DEF Owned
    <3>4. CASE p[l] = Absent
      BY <2>1, <3>2, <3>4 DEF Leaves
    <3>5. QED
      BY <3>3, <3>4
  <2>3. CASE StaysOutside(w, command)
    BY <2>1, <2>3 DEF StaysOutside
  <2>4. QED
    BY <2>2, <2>3
<1>6. QED
  BY <1>4, <1>5 DEF OwnedInv

\* A leaf that stays in the overlay after the source confirmed others, or after a
\* payload was taken back, is the leaf it was.
LEMMA LeafStays ==
    ASSUME NEW new \in DeviceRecord, NEW dev \in DeviceRecord, NEW p, NEW l \in Leaves(new.pending),
           ConfirmsOnly(device, dev), new = dev \/ new = ClearPending(dev, p)
    PROVE  /\ l \in Leaves(device.pending) /\ new.pending[l] = device.pending[l]
           /\ dev.pending[l] = device.pending[l] /\ l \in Leaves(dev.pending)
           /\ new = ClearPending(dev, p) => p[l] # device.pending[l]
<1>1. l \in Leaf /\ new.pending[l] # Absent
  BY DEF Leaves
<1>2. \/ new.pending[l] = dev.pending[l] /\ new = dev
      \/ /\ new.pending[l] = IF dev.pending[l] = p[l] THEN Absent ELSE dev.pending[l]
         /\ new = ClearPending(dev, p)
  BY <1>1, ClearPendingTakes
<1>3. new.pending[l] = dev.pending[l] /\ (new = ClearPending(dev, p) => dev.pending[l] # p[l])
  BY <1>1, <1>2, ClearPendingTakes
<1>4. dev.pending[l] = device.pending[l]
  BY <1>1, <1>3 DEF ConfirmsOnly
<1>5. QED
  BY <1>1, <1>3, <1>4 DEF Leaves

\* A step of a call inside the lock passes its leaf on, or it is gone.
LEMMA WriterStepOwned ==
    ASSUME TypeInv, TypeInv', OneTask, OverlayInv, OwnedInv, SingleCommands, "auth" \notin Faults,
           NEW w \in Writer, WriterStep(w) \/ Cancel(w)
    PROVE  OwnedInv'
<1>1. OthersUnchanged(w) /\ Running(w) /\ UNCHANGED phase
  BY WriterStepDevice
<1>2. CASE /\ UNCHANGED reconciler /\ writer[w].pc = "queued"
           /\ Begins(w, writer[w].command) \/ StaysOutside(w, writer[w].command)
  <2>1. writer[w].command \in Command /\ ~Engaged(w)
    BY <1>2 DEF OwnedInv, Engaged
  <2>2. QED
    BY <1>1, <1>2, <2>1, CallOwned
<1>3. CASE \E dev : /\ ConfirmsOnly(device, dev) /\ dev \in DeviceRecord /\ Engaged(w)
                    /\ \/ UNCHANGED reconciler
                          /\ (GoesOn(w, dev) \/ Clears(w, dev) \/ GivesUp(w, dev))
                       \/ Schedules(w, dev)
  <2>1. PICK dev : /\ ConfirmsOnly(device, dev) /\ dev \in DeviceRecord /\ Engaged(w)
                   /\ \/ UNCHANGED reconciler
                         /\ (GoesOn(w, dev) \/ Clears(w, dev) \/ GivesUp(w, dev))
                      \/ Schedules(w, dev)
    BY <1>3
  <2> DEFINE p == writer[w].payload
  <2>2. /\ device' \in DeviceRecord /\ OneLeaf(p) /\ ~Reconciling(w)
        /\ device' = dev \/ device' = ClearPending(dev, p)
    BY <2>1
    DEF TypeInv, StoreOK, Here, CoordState, OwnedInv, OneTask, Engaged, Reconciling,
        GoesOn, Clears, GivesUp, Schedules
  <2>3. \A v \in Writer \ {w} : writer'[v] = writer[v] /\ (Engaged(v)' <=> Engaged(v))
    BY <1>1 DEF OthersUnchanged, Engaged
  <2>4. /\ \A v \in Writer \ {w} : reconciler'[v] = reconciler[v] /\ (Reconciling(v)' <=> Reconciling(v))
        /\ reconciler'[w].cancelled = reconciler[w].cancelled
        /\ Reconciling(w)' => reconciler'[w].payload = p
    BY <2>1, <2>2, ScheduleFrame DEF OtherReconcilersUnchanged, Reconciling, Schedules
  <2>5. /\ writer'[w].pc # "queued"
        /\ Engaged(w)' => writer'[w].payload = p
    BY <2>1 DEF GoesOn, Clears, GivesUp, Schedules, Engaged
  <2>6. \A v \in Writer : /\ writer'[v].pc = "queued" => writer'[v].command \in Command
                          /\ Engaged(v)' => OneLeaf(writer'[v].payload)
                          /\ Reconciling(v)' => OneLeaf(reconciler'[v].payload)
    BY <2>2, <2>3, <2>4, <2>5 DEF OwnedInv
  <2>7. phase' = "running" => \A v \in Writer : ~reconciler'[v].cancelled
    BY <1>1, <2>4 DEF OwnedInv
  <2>8. ASSUME phase = "running", NEW l \in Leaves(device'.pending) PROVE Owned(l)'
    <3>1. /\ l \in Leaves(device.pending) /\ device'.pending[l] = device.pending[l]
          /\ l \in Leaves(dev.pending) /\ dev.pending[l] = device.pending[l]
          /\ device' = ClearPending(dev, p) => p[l] # device.pending[l]
      BY <2>1, <2>2, LeafStays
    <3>2. device.present /\ dev.present
      BY <2>1, <3>1 DEF OverlayInv, Tracked, Here, ConfirmsOnly
    <3>3. PICK v \in Writer :
            \/ Engaged(v) /\ writer[v].payload[l] = device.pending[l]
            \/ Reconciling(v) /\ reconciler[v].payload[l] = device.pending[l]
      BY <2>8, <3>1 DEF OwnedInv, Owned
    <3>4. CASE v # w
      <4>1. \/ Engaged(v)' /\ writer'[v].payload[l] = device'.pending[l]
            \/ Reconciling(v)' /\ reconciler'[v].payload[l] = device'.pending[l]
        BY <2>3, <2>4, <3>1, <3>3, <3>4
      <4>2. QED
        BY <4>1 DEF Owned
    <3>5. CASE v = w
      <4>1. p[l] = device.pending[l]
        BY <2>2, <3>3, <3>5
      <4>2. CASE GoesOn(w, dev)
        <5>1. Engaged(w)' /\ writer'[w].payload[l] = device'.pending[l]
          BY <3>1, <4>1, <4>2 DEF GoesOn
        <5>2. QED
          BY <5>1 DEF Owned
      <4>3. ~Clears(w, dev)
        BY <3>1, <4>1 DEF Clears
      <4>4. ~GivesUp(w, dev)
        BY <2>2, <3>1, <3>2, <4>1, NotCurrentOwnsNothing DEF GivesUp
      <4>5. CASE Schedule(w)
        <5>1. Reconciling(w)' /\ reconciler'[w].payload[l] = device'.pending[l]
          BY <3>1, <4>1, <4>5, ScheduleFrame DEF Reconciling
        <5>2. QED
          BY <5>1 DEF Owned
      <4>6. QED
        BY <2>1, <4>2, <4>3, <4>4, <4>5 DEF Schedules
    <3>6. QED
      BY <3>4, <3>5
  <2>9. QED
    BY <1>1, <2>6, <2>7, <2>8 DEF OwnedInv
<1>4. QED
  BY <1>2, <1>3, WriterStepDevice

\* A reconciliation gives up only what is no longer shown.
LEMMA ReconcilerStepOwned ==
    ASSUME TypeInv, TypeInv', OverlayInv, OwnedInv, NEW w \in Writer, ReconcilerStep(w)
    PROVE  OwnedInv'
<1> DEFINE p == reconciler[w].payload
<1>1. OtherReconcilersUnchanged(w) /\ Reconciling(w) /\ UNCHANGED <<writer, phase>>
  BY ReconcilerStepDevice
<1>2. PICK dev : /\ ConfirmsOnly(device, dev) /\ dev \in DeviceRecord
                 /\ RoundGoesOn(w, dev) \/ RoundClears(w, dev) \/ RoundGivesUp(w, dev)
  BY ReconcilerStepDevice
<1>3. /\ device' \in DeviceRecord /\ OneLeaf(p)
      /\ device' = dev \/ device' = ClearPending(dev, p)
  BY <1>1, <1>2
  DEF TypeInv, StoreOK, Here, CoordState, OwnedInv, RoundGoesOn, RoundClears, RoundGivesUp
<1>4. \A v \in Writer : writer'[v] = writer[v] /\ (Engaged(v)' <=> Engaged(v))
  BY <1>1 DEF Engaged
<1>5. \A v \in Writer \ {w} : reconciler'[v] = reconciler[v] /\ (Reconciling(v)' <=> Reconciling(v))
  BY <1>1 DEF OtherReconcilersUnchanged, Reconciling
<1>6. ReconcilerEnds(w) => reconciler'[w].pc = "done" /\ ~reconciler'[w].cancelled
  BY DEF ReconcilerEnds, IdleReconciler, TypeInv, ReconcilersOK
<1>7. /\ Reconciling(w)' => reconciler'[w].payload = p
      /\ reconciler'[w].cancelled => reconciler[w].cancelled
  BY <1>2, <1>6 DEF RoundGoesOn, RoundClears, RoundGivesUp, Reconciling
<1>8. \A v \in Writer : /\ writer'[v].pc = "queued" => writer'[v].command \in Command
                        /\ Engaged(v)' => OneLeaf(writer'[v].payload)
                        /\ Reconciling(v)' => OneLeaf(reconciler'[v].payload)
  BY <1>3, <1>4, <1>5, <1>7 DEF OwnedInv
<1>9. phase' = "running" => \A v \in Writer : ~reconciler'[v].cancelled
  BY <1>1, <1>5, <1>7 DEF OwnedInv
<1>10. ASSUME phase = "running", NEW l \in Leaves(device'.pending) PROVE Owned(l)'
  <2>1. /\ l \in Leaves(device.pending) /\ device'.pending[l] = device.pending[l]
        /\ l \in Leaves(dev.pending) /\ dev.pending[l] = device.pending[l]
        /\ device' = ClearPending(dev, p) => p[l] # device.pending[l]
    BY <1>2, <1>3, LeafStays
  <2>2. device.present /\ dev.present /\ entry # NoState
    BY <1>2, <2>1 DEF OverlayInv, Tracked, Here, ConfirmsOnly
  <2>3. PICK v \in Writer :
          \/ Engaged(v) /\ writer[v].payload[l] = device.pending[l]
          \/ Reconciling(v) /\ reconciler[v].payload[l] = device.pending[l]
    BY <1>10, <2>1 DEF OwnedInv, Owned
  <2>4. CASE Engaged(v) /\ writer[v].payload[l] = device.pending[l]
    <3>1. Engaged(v)' /\ writer'[v].payload[l] = device'.pending[l]
      BY <1>4, <2>1, <2>4
    <3>2. QED
      BY <3>1 DEF Owned
  <2>5. CASE v # w /\ Reconciling(v) /\ reconciler[v].payload[l] = device.pending[l]
    <3>1. Reconciling(v)' /\ reconciler'[v].payload[l] = device'.pending[l]
      BY <1>5, <2>1, <2>5
    <3>2. QED
      BY <3>1 DEF Owned
  <2>6. CASE v = w /\ p[l] = device.pending[l]
    <3>1. ~RoundClears(w, dev)
      BY <2>1, <2>6 DEF RoundClears
    <3>2. ~RoundGivesUp(w, dev)
      BY <1>3, <1>10, <2>1, <2>2, <2>6, NotCurrentOwnsNothing DEF RoundGivesUp, OwnedInv
    <3>3. Reconciling(w)' /\ reconciler'[w].payload[l] = device'.pending[l]
      BY <1>2, <2>1, <2>6, <3>1, <3>2 DEF RoundGoesOn
    <3>4. QED
      BY <3>3 DEF Owned
  <2>7. QED
    BY <2>3, <2>4, <2>5, <2>6
<1>11. QED
  BY <1>1, <1>8, <1>9, <1>10 DEF OwnedInv

\* From outside the tasks the overlay only shrinks.
LEMMA EnvironmentOwned ==
    ASSUME TypeInv, TypeInv', OwnedInv,
           \/ Push \/ RefreshSettings \/ RemoveDevice \/ RediscoverDevice
           \/ BeginShutdown \/ EndShutdown \/ CloudChanges
           \/ \E w \in Writer : CloudApplies(w)
           \/ UNCHANGED vars
    PROVE  OwnedInv'
<1>1. UNCHANGED writer /\ device' \in DeviceRecord
  BY EnvironmentDevice DEF TypeInv, StoreOK, Here, CoordState
<1>2. CASE UNCHANGED reconciler /\ (phase' = "running" => phase = "running")
  <2>1. \A v \in Writer : (Engaged(v)' <=> Engaged(v)) /\ (Reconciling(v)' <=> Reconciling(v))
    BY <1>1, <1>2 DEF Engaged, Reconciling
  <2>2. ASSUME phase = "running", NEW l \in Leaves(device'.pending) PROVE Owned(l)'
    <3>1. ConfirmsOnly(device, device')
      BY <2>2, EnvironmentDevice
    <3>2. l \in Leaves(device.pending) /\ device'.pending[l] = device.pending[l]
      BY <1>1, <2>2, <3>1, LeafStays
    <3>3. PICK v \in Writer :
            \/ Engaged(v) /\ writer[v].payload[l] = device.pending[l]
            \/ Reconciling(v) /\ reconciler[v].payload[l] = device.pending[l]
      BY <2>2, <3>2 DEF OwnedInv, Owned
    <3>4. \/ Engaged(v)' /\ writer'[v].payload[l] = device'.pending[l]
          \/ Reconciling(v)' /\ reconciler'[v].payload[l] = device'.pending[l]
      BY <1>1, <1>2, <2>1, <3>2, <3>3
    <3>5. QED
      BY <3>4 DEF Owned
  <2>3. QED
    BY <1>1, <1>2, <2>1, <2>2 DEF OwnedInv
<1>3. CASE phase' = "stopping" /\ \A v \in Writer : reconciler'[v].pc = reconciler[v].pc
  <2>1. \A v \in Writer : Reconciling(v)' => reconciler'[v].payload = reconciler[v].payload
    <3>1. CASE BeginShutdown
      BY <3>1 DEF BeginShutdown, TypeInv, ReconcilersOK, ReconcilerState
    <3>2. CASE ~BeginShutdown
      BY <3>2 DEF Push, RefreshSettings, RemoveDevice, RediscoverDevice, EndShutdown,
                  CloudChanges, CloudApplies, vars
    <3>3. QED
      BY <3>1, <3>2
  <2>2. QED
    BY <1>1, <1>3, <2>1 DEF OwnedInv, Engaged, Reconciling
<1>4. QED
  BY <1>2, <1>3, EnvironmentDevice

\* Where no request fails to authenticate and every command is of one leaf, every
\* optimistic leaf has a task that will confirm it or take it back, whatever else
\* happens: authentication errors and pairs confirmed in part are all that orphans one.
THEOREM OverlayAlwaysOwned ==
    ASSUME "auth" \notin Faults, SingleCommands
    PROVE  Spec => []OverlayOwned
<1>1. Init => OneTask /\ OwnedInv
  BY NoSettingsType
  DEF Init, OneTask, OwnedInv, IdleReconciler, IdleWriter, Engaged, Reconciling
<1>2. TypeInv /\ TypeInv' /\ OneTask /\ OverlayInv /\ OwnedInv /\ [Next]_vars => OwnedInv'
  <2> SUFFICES ASSUME TypeInv, TypeInv', OneTask, OverlayInv, OwnedInv, [Next]_vars PROVE OwnedInv'
    OBVIOUS
  <2>1. ASSUME NEW w \in Writer, NEW command \in Command, Call(w, command) PROVE OwnedInv'
    BY <2>1, CallDevice, CallOwned DEF Engaged
  <2>2. QED
    BY <2>1, WriterStepOwned, ReconcilerStepOwned, EnvironmentOwned DEF Next
<1>3. OwnedInv => OverlayOwned
  BY DEF OwnedInv, Owned, OverlayOwned
<1>4. QED
  BY <1>1, <1>2, <1>3, OverlayAlways, NextOneTask, PTL DEF Spec

----------------------------------------------------------------------------
(* That the writes implement WritePromise where no request fails to         *)
(* authenticate.                                                            *)

\* What the mapping needs: a debt is never for nothing, a call is told its result
\* when it ends, and only a shutdown cancels a reconciliation.
PromiseInv ==
    \A w \in Writer :
        /\ reconciler[w].cancelled => phase # "running"
        /\ writer[w].pc = "queued" => writer[w].command \in Command
        /\ writer[w].pc # "done" => writer[w].result = "none"
        /\ Engaged(w) => Leaves(writer[w].payload) # {}
        /\ Reconciling(w) => /\ Leaves(reconciler[w].payload) # {}
                             /\ writer[w].pc = "done" /\ writer[w].result = "success"

\* An encoded command asks for something.
LEMMA EncodeAsks ==
    ASSUME NEW dev, NEW command \in Command
    PROVE  Leaves(Encode(dev, command)) # {}
<1>1. PICK l \in Leaf : command[l] # Absent
  BY PairAssumption DEF Leaves
<1>2. Encode(dev, command)[l] = command[l]
  BY <1>1 DEF Encode
<1>3. QED
  BY <1>1, <1>2 DEF Leaves

\* A function of the calls changes at one of them.
LEMMA DebtsAt ==
    ASSUME NEW w \in Writer, NEW p, Owed(w)' = p, \A v \in Writer \ {w} : Owed(v)' = Owed(v)
    PROVE  Debts' = [Debts EXCEPT ![w] = p]
BY DEF Debts

\* So do the verdicts.
LEMMA VerdictsAt ==
    ASSUME NEW w \in Writer, OthersUnchanged(w)
    PROVE  Verdicts' = [Verdicts EXCEPT ![w] = writer'[w].result]
BY DEF Verdicts, OthersUnchanged

\* What a call owes, at each of its places.
LEMMA OwedCases ==
    ASSUME OneTask, PromiseInv, NEW w \in Writer
    PROVE  /\ Debts[w] = Owed(w) /\ Verdicts[w] = writer[w].result
           /\ writer[w].pc \in {"idle", "queued"} =>
                Owed(w) = NoSettings /\ writer[w].result = "none" /\ ~Engaged(w) /\ ~Reconciling(w)
           /\ Engaged(w) => /\ Owed(w) = writer[w].payload /\ Owed(w) # NoSettings
                            /\ writer[w].result = "none" /\ ~Reconciling(w)
           /\ Reconciling(w) => /\ Owed(w) = reconciler[w].payload /\ Owed(w) # NoSettings
                                /\ writer[w].result = "success" /\ ~Engaged(w)
<1>1. Leaves(NoSettings) = {}
  BY DEF Leaves, NoSettings
<1>2. QED
  BY <1>1 DEF PromiseInv, OneTask, Owed, Debts, Verdicts, Engaged, Reconciling

\* The others owe what they owed.
LEMMA OthersOwe ==
    ASSUME NEW w \in Writer, OthersUnchanged(w), OtherReconcilersUnchanged(w)
    PROVE  \A v \in Writer \ {w} : Owed(v)' = Owed(v)
BY DEF OthersUnchanged, OtherReconcilersUnchanged, Owed, Engaged, Reconciling

\* What the source confirms is kept, in WritePromise's words.
LEMMA ConfirmsReports ==
    ASSUME NEW dev \in DeviceRecord, ConfirmsOnly(device, dev), device' = dev
    PROVE  Promises!Reports
<1>1. dev.settings \in Settings /\ dev.pending \in Settings
  BY DEF DeviceRecord
<1>2. QED
  BY <1>1 DEF Promises!Reports, Promises!Document, Settings, Promises!StaysOrKept, ConfirmsOnly

\* So is what a task takes back.
LEMMA ClearRedeems ==
    ASSUME device \in DeviceRecord, NEW dev \in DeviceRecord, ConfirmsOnly(device, dev),
           NEW p \in Settings, device' = ClearPending(dev, p)
    PROVE  /\ device'.settings \in Promises!Document /\ device'.pending \in Promises!Document
           /\ \A l \in Leaf : IF p[l] = device.pending[l] THEN device'.pending[l] = Absent
                                                          ELSE Promises!StaysOrKept(l)
<1>1. ClearPending(dev, p) \in DeviceRecord
  BY ClearPendingType
<1>2. device'.settings \in Settings /\ device'.pending \in Settings
  BY <1>1 DEF DeviceRecord
<1>3. /\ device'.settings = dev.settings
      /\ \A l \in Leaf : device'.pending[l] =
                            IF dev.pending[l] = p[l] THEN Absent ELSE dev.pending[l]
  BY ClearPendingTakes
<1>4. \A l \in Leaf : \/ dev.pending[l] = device.pending[l]
                      \/ dev.pending[l] = Absent /\ dev.settings[l] = device.pending[l]
  BY DEF ConfirmsOnly
<1>5. QED
  BY <1>2, <1>3, <1>4 DEF Promises!Document, Settings, Promises!StaysOrKept

\* A call that begins makes a promise; one that is refused has made none.
LEMMA CallPromises ==
    ASSUME TypeInv, TypeInv', OneTask, OneTask', PromiseInv, PromiseInv',
           NEW w \in Writer, NEW command \in Command, OthersUnchanged(w),
           UNCHANGED <<reconciler, phase>>, writer[w].pc \in {"idle", "queued"},
           Begins(w, command) \/ StaysOutside(w, command)
    PROVE  Promises!Next \/ UNCHANGED Promises!vars
<1>1. /\ Debts[w] = NoSettings /\ Verdicts[w] = "none" /\ ~Reconciling(w)
      /\ Owed(w) = NoSettings /\ writer[w].result = "none" /\ ~Engaged(w)
  BY OwedCases
<1>2. \A v \in Writer \ {w} : Owed(v)' = Owed(v)
  BY OthersOwe DEF OtherReconcilersUnchanged
<1>3. Verdicts' = [Verdicts EXCEPT ![w] = writer'[w].result]
  BY VerdictsAt
<1>4. NoSettings = Promises!Nothing /\ ~Promises!Owes(w)
  BY <1>1 DEF NoSettings, Promises!Nothing, Promises!Owes
<1>5. Verdicts \in [Writer -> Result] /\ Debts \in [Writer -> Settings]
  BY NoSettingsType
  DEF Verdicts, Debts, Owed, TypeInv, CallsOK, ReconcilersOK, WriterState, ReconcilerState
<1>6. CASE Begins(w, command)
  <2> DEFINE p == Encode(device, command)
  <2>1. p \in Settings /\ p # NoSettings
    BY EncodeType, EncodeAsks, PairAssumption
    DEF TypeInv, StoreOK, Here, CoordState, Leaves, NoSettings
  <2>2. Owed(w)' = p
    BY <1>6 DEF Begins, Owed
  <2>3. Debts' = [Debts EXCEPT ![w] = p]
    BY <1>2, <2>2, DebtsAt
  <2>4. /\ device'.settings = device.settings
        /\ device'.pending = [l \in Leaf |-> IF p[l] # Absent THEN p[l] ELSE device.pending[l]]
    BY <1>6 DEF Begins, ApplyPending, Merge, TypeInv, StoreOK, Here, CoordState, DeviceRecord
  <2>5. Verdicts' = Verdicts
    BY <1>1, <1>3, <1>5, <1>6 DEF Begins
  <2> HIDE DEF p
  <2>6. Promises!Promise(w)
    BY <1>1, <1>4, <2>1, <2>3, <2>4, <2>5 DEF Promises!Promise, Promises!Document, Settings
  <2>7. QED
    BY <2>6 DEF Promises!Next
<1>7. CASE StaysOutside(w, command)
  <2>1. Owed(w)' = NoSettings
    <3>1. ~Engaged(w)' /\ ~Reconciling(w)'
      BY <1>1, <1>7 DEF StaysOutside, Engaged, Reconciling
    <3>2. QED
      BY <3>1 DEF Owed
  <2>2. Debts' = Debts
    BY <1>1, <1>2, <2>1 DEF Debts
  <2>3. device' = device
    BY <1>7 DEF StaysOutside
  <2>4. CASE writer'[w].result = writer[w].result
    <3>1. Verdicts' = Verdicts
      BY <1>1, <1>3, <1>5, <2>4
    <3>2. QED
      BY <2>2, <2>3, <3>1 DEF Promises!vars
  <2>5. CASE writer'[w].result \in {"error", "cancelled"}
    <3>1. Promises!Told(w, Promises!Failure)
      BY <1>1, <1>3, <2>5 DEF Promises!Told, Promises!Failure
    <3>2. Promises!Refuse(w)
      BY <1>4, <2>2, <2>3, <3>1 DEF Promises!Refuse
    <3>3. QED
      BY <3>2 DEF Promises!Next
  <2>6. QED
    BY <1>7, <2>4, <2>5 DEF StaysOutside
<1>8. QED
  BY <1>6, <1>7

\* A promise that is not current does not stand whole.
LEMMA NotCurrentNotWhole ==
    ASSUME NEW dev \in DeviceRecord, NEW p \in Settings, Leaves(p) # {}, ~IsCurrent(dev, p),
           ~dev.present => Leaves(dev.pending) = {}
    PROVE  ~Promises!Whole(dev.pending, p)
BY DEF IsCurrent, Matches, Leaves, Promises!Whole

\* A call inside the lock goes on, is told of success with its promise open, or
\* ends with it seen to, or with less than the whole of it left.
LEMMA WriterPromises ==
    ASSUME TypeInv, TypeInv', OneTask, OneTask', OverlayInv, OverlayInv', PromiseInv, PromiseInv',
           "auth" \notin Faults, NEW w \in Writer, WriterStep(w) \/ Cancel(w)
    PROVE  Promises!Next \/ UNCHANGED Promises!vars
<1>1. OthersUnchanged(w) /\ Running(w) /\ UNCHANGED phase
  BY WriterStepDevice
<1>2. CASE /\ UNCHANGED reconciler /\ writer[w].pc = "queued"
           /\ Begins(w, writer[w].command) \/ StaysOutside(w, writer[w].command)
  <2>1. writer[w].command \in Command
    BY <1>2 DEF PromiseInv
  <2>2. QED
    BY <1>1, <1>2, <2>1, CallPromises
<1>3. CASE \E dev : /\ ConfirmsOnly(device, dev) /\ dev \in DeviceRecord /\ Engaged(w)
                    /\ \/ UNCHANGED reconciler
                          /\ (GoesOn(w, dev) \/ Clears(w, dev) \/ GivesUp(w, dev))
                       \/ Schedules(w, dev)
  <2>1. PICK dev : /\ ConfirmsOnly(device, dev) /\ dev \in DeviceRecord /\ Engaged(w)
                   /\ \/ UNCHANGED reconciler
                         /\ (GoesOn(w, dev) \/ Clears(w, dev) \/ GivesUp(w, dev))
                      \/ Schedules(w, dev)
    BY <1>3
  <2> DEFINE p == writer[w].payload
             result == writer'[w].result
  <2>2. /\ Debts[w] = p /\ p # NoSettings /\ Verdicts[w] = "none" /\ ~Reconciling(w)
        /\ writer[w].result = "none"
    BY <2>1, OwedCases
  <2>3. p \in Settings /\ Leaves(p) # {} /\ device \in DeviceRecord /\ device' \in DeviceRecord
    BY <2>1
    DEF TypeInv, CallsOK, WriterState, StoreOK, Here, CoordState, PromiseInv
  <2>4. Promises!Owes(w)
    BY <2>2 DEF Promises!Owes, Promises!Nothing, NoSettings
  <2>5. \A v \in Writer \ {w} : Owed(v)' = Owed(v)
    BY <1>1, <2>1, OthersOwe, ScheduleFrame DEF OtherReconcilersUnchanged, Schedules
  <2>6. Verdicts' = [Verdicts EXCEPT ![w] = result]
    BY <1>1, VerdictsAt
  <2>7. Verdicts \in [Writer -> Result] /\ Debts \in [Writer -> Settings]
    BY NoSettingsType
    DEF Verdicts, Debts, Owed, TypeInv, CallsOK, ReconcilersOK, WriterState, ReconcilerState
  <2>8. ASSUME Owed(w)' = p PROVE Debts' = Debts
    BY <2>2, <2>5, <2>7, <2>8, DebtsAt
  <2>9. ASSUME UNCHANGED reconciler, writer'[w].pc = "done" PROVE Promises!Settled(w)
    <3>1. Owed(w)' = NoSettings
      BY <2>2, <2>9 DEF Owed, Engaged, Reconciling
    <3>2. Debts' = [Debts EXCEPT ![w] = NoSettings]
      BY <2>5, <3>1, DebtsAt
    <3>3. QED
      BY <3>2 DEF Promises!Settled, Promises!Nothing, NoSettings
  <2>10. ASSUME NEW results, result \in results PROVE Promises!Told(w, results)
    BY <2>2, <2>6, <2>10 DEF Promises!Told
  <2> HIDE DEF p, result
  <2>11. CASE UNCHANGED reconciler /\ GoesOn(w, dev)
    <3>1. Owed(w)' = p /\ result = "none"
      BY <2>2, <2>11 DEF GoesOn, Owed, p, result
    <3>2. Debts' = Debts /\ Verdicts' = Verdicts
      BY <2>2, <2>6, <2>7, <2>8, <3>1
    <3>3. Promises!Reports
      BY <2>1, <2>11, ConfirmsReports DEF GoesOn
    <3>4. Promises!Report
      BY <1>1, <3>2, <3>3 DEF Promises!Report
    <3>5. QED
      BY <3>4 DEF Promises!Next
  <2>12. CASE UNCHANGED reconciler /\ Clears(w, dev)
    <3>1. device' = ClearPending(dev, p) /\ result \in Result \ {"none"} /\ writer'[w].pc = "done"
      BY <2>12 DEF Clears, p, result
    <3>2. Promises!Settled(w)
      BY <2>9, <2>12, <3>1
    <3>3. Promises!Told(w, Promises!Failure \cup {"success"})
      BY <2>10, <3>1 DEF Result, Promises!Failure
    <3>4. Promises!Redeem(w)
      BY <1>1, <2>1, <2>2, <2>3, <2>4, <3>1, <3>2, <3>3, ClearRedeems DEF Promises!Redeem
    <3>5. QED
      BY <3>4 DEF Promises!Next
  <2>13. CASE UNCHANGED reconciler /\ GivesUp(w, dev)
    <3>1. /\ device' = dev /\ writer'[w].pc = "done"
          /\ ~IsCurrent(dev, p) /\ result \in {"success", "cancelled"}
      BY <2>13 DEF GivesUp, p, result
    <3>2. Promises!Settled(w) /\ Promises!Told(w, {"success", "cancelled"})
      BY <2>9, <2>10, <2>13, <3>1
    <3>3. ~Promises!Whole(device'.pending, Debts[w])
      BY <2>1, <2>2, <2>3, <3>1, NotCurrentNotWhole DEF OverlayInv, Tracked, Here
    <3>4. Promises!Leave(w)
      BY <1>1, <2>1, <2>4, <3>1, <3>2, <3>3, ConfirmsReports DEF Promises!Leave
    <3>5. QED
      BY <3>4 DEF Promises!Next
  <2>14. CASE Schedules(w, dev)
    <3>1. device' = dev /\ IsCurrent(dev, p) /\ writer'[w].pc = "done" /\ result = "success"
      BY <2>14 DEF Schedules, p, result
    <3>2. Owed(w)' = p
      BY <2>14, <3>1, ScheduleFrame DEF Schedules, Owed, Engaged, Reconciling, p
    <3>3. Debts' = Debts /\ Promises!Told(w, {"success"})
      BY <2>8, <2>10, <3>1, <3>2
    <3>4. Promises!Whole(device'.pending, Debts[w])
      BY <2>2, <3>1 DEF IsCurrent, Matches, Leaves, Promises!Whole
    <3>5. Promises!Accept(w)
      BY <1>1, <2>1, <2>4, <3>1, <3>3, <3>4, ConfirmsReports DEF Promises!Accept
    <3>6. QED
      BY <3>5 DEF Promises!Next
  <2>15. QED
    BY <2>1, <2>11, <2>12, <2>13, <2>14
<1>4. QED
  BY <1>2, <1>3, WriterStepDevice

\* A reconciliation goes on, takes back what stands of the promise, or leaves what
\* is less than the whole of it; only a shutdown makes it leave a whole one.
LEMMA ReconcilerPromises ==
    ASSUME TypeInv, TypeInv', OneTask, OverlayInv, OverlayInv', PromiseInv,
           NEW w \in Writer, ReconcilerStep(w)
    PROVE  Promises!Next \/ UNCHANGED Promises!vars
<1> DEFINE p == reconciler[w].payload
           Does(dev) == RoundGoesOn(w, dev) \/ RoundClears(w, dev) \/ RoundGivesUp(w, dev)
<1>1. OtherReconcilersUnchanged(w) /\ Reconciling(w) /\ UNCHANGED <<writer, phase>>
  BY ReconcilerStepDevice
<1>2. PICK dev : ConfirmsOnly(device, dev) /\ dev \in DeviceRecord /\ Does(dev)
  BY ReconcilerStepDevice
<1>3. /\ Debts[w] = p /\ p # NoSettings /\ Verdicts[w] = "success" /\ ~Engaged(w)
      /\ Leaves(p) # {} /\ (reconciler[w].cancelled => phase # "running")
  BY <1>1, OwedCases DEF PromiseInv
<1>4. /\ p \in Settings /\ device \in DeviceRecord /\ device' \in DeviceRecord
      /\ reconciler \in [Writer -> ReconcilerState]
  BY DEF TypeInv, ReconcilersOK, ReconcilerState, StoreOK, Here, CoordState
<1>5. Promises!Owes(w)
  BY <1>3 DEF Promises!Owes, Promises!Nothing, NoSettings
<1>6. \A v \in Writer \ {w} : Owed(v)' = Owed(v)
  BY <1>1, OthersOwe DEF OthersUnchanged
<1>7. Verdicts' = Verdicts /\ (phase # "running")' = (phase # "running")
  BY <1>1 DEF Verdicts
<1>8. Debts \in [Writer -> Settings]
  BY NoSettingsType DEF Debts, Owed, TypeInv, CallsOK, ReconcilersOK, WriterState, ReconcilerState
<1>9. ASSUME ReconcilerEnds(w) PROVE Promises!Settled(w)
  <2>1. reconciler'[w].pc = "done"
    BY <1>4, <1>9 DEF ReconcilerEnds, IdleReconciler
  <2>2. Owed(w)' = NoSettings
    BY <1>1, <1>3, <2>1 DEF Owed, Engaged, Reconciling
  <2>3. Debts' = [Debts EXCEPT ![w] = NoSettings]
    BY <1>6, <2>2, DebtsAt
  <2>4. QED
    BY <2>3 DEF Promises!Settled, Promises!Nothing, NoSettings
<1>10. CASE RoundGoesOn(w, dev)
  <2>1. Owed(w)' = p
    BY <1>1, <1>3, <1>10 DEF RoundGoesOn, Owed, Engaged
  <2>2. Debts' = Debts
    BY <1>3, <1>6, <1>8, <2>1, DebtsAt
  <2>3. Promises!Reports
    BY <1>2, <1>10, ConfirmsReports DEF RoundGoesOn
  <2>4. Promises!Report
    BY <1>7, <2>2, <2>3 DEF Promises!Report
  <2>5. QED
    BY <2>4 DEF Promises!Next
<1>11. CASE RoundClears(w, dev)
  <2>1. device' = ClearPending(dev, p) /\ Promises!Settled(w)
    BY <1>9, <1>11 DEF RoundClears
  <2> HIDE DEF p
  <2>2. Promises!Redeem(w)
    BY <1>2, <1>3, <1>4, <1>5, <1>7, <2>1, ClearRedeems DEF Promises!Redeem
  <2>3. QED
    BY <2>2 DEF Promises!Next
<1>12. CASE RoundGivesUp(w, dev)
  <2>1. /\ device' = dev /\ Promises!Settled(w)
        /\ ~IsCurrent(dev, p) \/ entry = NoState \/ reconciler[w].cancelled
    BY <1>9, <1>12 DEF RoundGivesUp
  <2> HIDE DEF p
  <2>2. ~Promises!Whole(device'.pending, Debts[w]) \/ (phase # "running" /\ Verdicts[w] = "success")
    <3>1. CASE ~IsCurrent(dev, p)
      BY <1>2, <1>3, <1>4, <2>1, <3>1, NotCurrentNotWhole DEF OverlayInv, Tracked, Here
    <3>2. CASE entry = NoState
      <4>1. Leaves(device.pending) = {}
        BY <3>2 DEF OverlayInv, Tracked, Here
      <4>2. Leaves(dev.pending) = {}
        BY <1>2, <4>1 DEF ConfirmsOnly, Leaves
      <4>3. QED
        BY <1>3, <2>1, <4>2 DEF Leaves, Promises!Whole
    <3>3. CASE reconciler[w].cancelled
      BY <1>3, <3>3
    <3>4. QED
      BY <2>1, <3>1, <3>2, <3>3
  <2>3. Promises!Leave(w)
    BY <1>2, <1>3, <1>5, <1>7, <2>1, <2>2, ConfirmsReports DEF Promises!Leave
  <2>4. QED
    BY <2>3 DEF Promises!Next
<1>13. QED
  BY <1>2, <1>10, <1>11, <1>12

\* From outside the tasks, the device reports, is forgotten, or the shutdown begins.
LEMMA EnvironmentPromises ==
    ASSUME TypeInv, TypeInv', OverlayInv,
           \/ Push \/ RefreshSettings \/ RemoveDevice \/ RediscoverDevice
           \/ BeginShutdown \/ EndShutdown \/ CloudChanges
           \/ \E w \in Writer : CloudApplies(w)
           \/ UNCHANGED vars
    PROVE  Promises!Next \/ UNCHANGED Promises!vars
<1>1. UNCHANGED writer /\ device' \in DeviceRecord
  BY EnvironmentDevice DEF TypeInv, StoreOK, Here, CoordState
<1>2. Verdicts' = Verdicts
  BY <1>1 DEF Verdicts
<1>3. CASE BeginShutdown
  <2>1. \A v \in Writer : /\ reconciler'[v].pc = reconciler[v].pc
                          /\ reconciler'[v].payload = reconciler[v].payload
    BY <1>3 DEF BeginShutdown, TypeInv, ReconcilersOK, ReconcilerState
  <2>2. Debts' = Debts
    BY <1>1, <2>1 DEF Debts, Owed, Engaged, Reconciling
  <2>3. Promises!Close
    BY <1>2, <1>3, <2>2 DEF BeginShutdown, Promises!Close
  <2>4. QED
    BY <2>3 DEF Promises!Next
<1>4. CASE ~BeginShutdown
  <2>1. UNCHANGED reconciler /\ (phase # "running")' = (phase # "running")
    BY <1>4 DEF Push, RefreshSettings, RemoveDevice, RediscoverDevice, EndShutdown,
                CloudChanges, CloudApplies, vars
  <2>2. Debts' = Debts
    BY <1>1, <2>1 DEF Debts, Owed, Engaged, Reconciling
  <2>3. CASE ConfirmsOnly(device, device')
    <3>1. Promises!Report
      BY <1>1, <1>2, <2>1, <2>2, <2>3, ConfirmsReports DEF Promises!Report
    <3>2. QED
      BY <3>1 DEF Promises!Next
  <2>4. CASE Leaves(device'.pending) = {}
    <3>1. device'.settings \in Promises!Document /\ device'.pending = Promises!Nothing
      BY <1>1, <2>4 DEF DeviceRecord, Settings, Leaves, Promises!Document, Promises!Nothing
    <3>2. Promises!Forget
      BY <1>2, <2>1, <2>2, <3>1 DEF Promises!Forget
    <3>3. QED
      BY <3>2 DEF Promises!Next
  <2>5. QED
    BY <2>3, <2>4, EnvironmentDevice
<1>5. QED
  BY <1>3, <1>4

\* Every step keeps the debts in order.
LEMMA NextPromiseInv ==
    TypeInv /\ TypeInv' /\ OneTask /\ OneTask' /\ PromiseInv /\ [Next]_vars => PromiseInv'
<1> SUFFICES ASSUME TypeInv, TypeInv', OneTask, OneTask', PromiseInv, [Next]_vars PROVE PromiseInv'
  OBVIOUS
<1> DEFINE Tidy(w) ==
        /\ reconciler[w].cancelled => phase # "running"
        /\ writer[w].pc = "queued" => writer[w].command \in Command
        /\ writer[w].pc # "done" => writer[w].result = "none"
        /\ Engaged(w) => Leaves(writer[w].payload) # {}
        /\ Reconciling(w) => /\ Leaves(reconciler[w].payload) # {}
                             /\ writer[w].pc = "done" /\ writer[w].result = "success"
<1>1. \A w \in Writer : Tidy(w)
  BY DEF PromiseInv
<1>2. SUFFICES \A w \in Writer : Tidy(w)'
  BY DEF PromiseInv
<1>3. ASSUME NEW w \in Writer, UNCHANGED phase,
             OthersUnchanged(w), OtherReconcilersUnchanged(w), Tidy(w)'
      PROVE  \A v \in Writer : Tidy(v)'
  <2> SUFFICES ASSUME NEW v \in Writer \ {w} PROVE Tidy(v)'
    BY <1>3
  <2>1. writer'[v] = writer[v] /\ reconciler'[v] = reconciler[v]
    BY <1>3 DEF OthersUnchanged, OtherReconcilersUnchanged
  <2>2. QED
    BY <1>1, <1>3, <2>1 DEF Engaged, Reconciling
<1>4. ASSUME NEW w \in Writer, NEW command \in Command, UNCHANGED <<reconciler, phase>>,
             writer[w].pc \in {"idle", "queued"},
             Begins(w, command) \/ StaysOutside(w, command)
      PROVE  Tidy(w)'
  <2>1. writer[w].result = "none" /\ ~Reconciling(w) /\ reconciler' = reconciler
    BY <1>1, <1>4, OwedCases
  <2>2. (reconciler[w].cancelled => phase # "running") /\ ~Reconciling(w)'
    BY <1>1, <2>1 DEF Reconciling
  <2>3. CASE Begins(w, command)
    BY <1>4, <2>1, <2>2, <2>3, EncodeAsks DEF Begins, Engaged
  <2>4. CASE StaysOutside(w, command)
    BY <1>4, <2>1, <2>2, <2>4 DEF StaysOutside, Engaged
  <2>5. QED
    BY <1>4, <2>3, <2>4
<1>5. ASSUME NEW w \in Writer, NEW command \in Command, Call(w, command)
      PROVE  \A v \in Writer : Tidy(v)'
  BY <1>3, <1>4, <1>5, CallDevice DEF OtherReconcilersUnchanged
<1>6. ASSUME NEW w \in Writer, WriterStep(w) \/ Cancel(w) PROVE \A v \in Writer : Tidy(v)'
  <2>1. OthersUnchanged(w) /\ UNCHANGED phase
    BY <1>6, WriterStepDevice
  <2>2. CASE /\ UNCHANGED reconciler /\ writer[w].pc = "queued"
             /\ Begins(w, writer[w].command) \/ StaysOutside(w, writer[w].command)
    <3>1. writer[w].command \in Command
      BY <1>1, <2>2
    <3>2. QED
      BY <1>3, <1>4, <2>1, <2>2, <3>1 DEF OtherReconcilersUnchanged
  <2>3. CASE \E dev : /\ ConfirmsOnly(device, dev) /\ dev \in DeviceRecord /\ Engaged(w)
                      /\ \/ UNCHANGED reconciler
                            /\ (GoesOn(w, dev) \/ Clears(w, dev) \/ GivesUp(w, dev))
                         \/ Schedules(w, dev)
    <3>1. PICK dev : /\ Engaged(w)
                     /\ \/ UNCHANGED reconciler
                           /\ (GoesOn(w, dev) \/ Clears(w, dev) \/ GivesUp(w, dev))
                        \/ Schedules(w, dev)
      BY <2>3
    <3>2. /\ writer[w].result = "none" /\ ~Reconciling(w) /\ Leaves(writer[w].payload) # {}
          /\ (reconciler[w].cancelled => phase # "running")
      BY <1>1, <3>1, OwedCases
    <3>3. CASE UNCHANGED reconciler /\ GoesOn(w, dev)
      <4>1. Engaged(w)' /\ writer'[w].payload = writer[w].payload /\ writer'[w].result = "none"
        BY <3>2, <3>3 DEF GoesOn
      <4>2. Tidy(w)'
        BY <2>1, <3>2, <3>3, <4>1 DEF Engaged, Reconciling
      <4>3. QED
        BY <1>3, <2>1, <3>3, <4>2 DEF OtherReconcilersUnchanged
    <3>4. CASE UNCHANGED reconciler /\ (Clears(w, dev) \/ GivesUp(w, dev))
      <4>1. writer'[w].pc = "done"
        BY <3>4 DEF Clears, GivesUp
      <4>2. Tidy(w)'
        BY <2>1, <3>2, <3>4, <4>1 DEF Engaged, Reconciling
      <4>3. QED
        BY <1>3, <2>1, <3>4, <4>2 DEF OtherReconcilersUnchanged
    <3>5. CASE Schedules(w, dev)
      <4>1. /\ writer'[w].pc = "done" /\ writer'[w].result = "success"
            /\ OtherReconcilersUnchanged(w)
            /\ reconciler'[w].payload = writer[w].payload
            /\ reconciler'[w].cancelled = reconciler[w].cancelled
        BY <3>5, ScheduleFrame DEF Schedules
      <4>2. Tidy(w)'
        BY <2>1, <3>2, <4>1 DEF Engaged
      <4>3. QED
        BY <1>3, <2>1, <4>1, <4>2
    <3>6. QED
      BY <3>1, <3>3, <3>4, <3>5
  <2>4. QED
    BY <1>6, <2>2, <2>3, WriterStepDevice
<1>7. ASSUME NEW w \in Writer, ReconcilerStep(w) PROVE \A v \in Writer : Tidy(v)'
  <2>1. OtherReconcilersUnchanged(w) /\ Reconciling(w) /\ UNCHANGED <<writer, phase>>
    BY <1>7, ReconcilerStepDevice
  <2>2. PICK dev : RoundGoesOn(w, dev) \/ RoundClears(w, dev) \/ RoundGivesUp(w, dev)
    BY <1>7, ReconcilerStepDevice
  <2>3. CASE RoundGoesOn(w, dev)
    <3>1. Tidy(w)'
      BY <1>1, <2>1, <2>3 DEF RoundGoesOn, Engaged
    <3>2. QED
      BY <1>3, <2>1, <3>1 DEF OthersUnchanged
  <2>4. CASE ReconcilerEnds(w)
    <3>1. reconciler'[w] = [IdleReconciler EXCEPT !.pc = "done"]
      BY <2>4 DEF ReconcilerEnds, TypeInv, ReconcilersOK
    <3>2. reconciler'[w].pc = "done" /\ ~reconciler'[w].cancelled
      BY <3>1 DEF IdleReconciler
    <3>3. Tidy(w)'
      BY <1>1, <2>1, <3>2 DEF Engaged, Reconciling
    <3>4. QED
      BY <1>3, <2>1, <3>3 DEF OthersUnchanged
  <2>5. QED
    BY <2>2, <2>3, <2>4 DEF RoundClears, RoundGivesUp
<1>8. ASSUME \/ Push \/ RefreshSettings \/ RemoveDevice \/ RediscoverDevice
             \/ BeginShutdown \/ EndShutdown \/ CloudChanges
             \/ \E w \in Writer : CloudApplies(w)
             \/ UNCHANGED vars
      PROVE  \A v \in Writer : Tidy(v)'
  <2>1. UNCHANGED writer
    BY <1>8, EnvironmentDevice
  <2>2. \A v \in Writer : /\ reconciler'[v].pc = reconciler[v].pc
                          /\ reconciler'[v].payload = reconciler[v].payload
                          /\ reconciler'[v].cancelled => phase' # "running"
    <3>1. CASE BeginShutdown
      BY <3>1 DEF BeginShutdown, TypeInv, ReconcilersOK, ReconcilerState
    <3>2. CASE ~BeginShutdown
      <4>1. UNCHANGED reconciler /\ (phase' = "running" => phase = "running")
        BY <1>8, <3>2
        DEF Push, RefreshSettings, RemoveDevice, RediscoverDevice, EndShutdown,
            CloudChanges, CloudApplies, vars
      <4>2. QED
        BY <1>1, <4>1
    <3>3. QED
      BY <3>1, <3>2
  <2>3. QED
    BY <1>1, <2>1, <2>2 DEF Engaged, Reconciling
<1>9. QED
  BY <1>5, <1>6, <1>7, <1>8 DEF Next

\* Nothing is promised, owed or told at the start.
LEMMA InitPromises == Init => PromiseInv /\ OneTask /\ Promises!Init
<1> SUFFICES ASSUME Init PROVE PromiseInv /\ OneTask /\ Promises!Init
  OBVIOUS
<1>1. \A w \in Writer : /\ writer[w] = IdleWriter /\ reconciler[w] = IdleReconciler
                        /\ ~Engaged(w) /\ ~Reconciling(w)
  BY DEF Init, IdleWriter, IdleReconciler, Engaged, Reconciling
<1>2. PromiseInv /\ OneTask
  BY <1>1 DEF PromiseInv, OneTask, IdleWriter, IdleReconciler
<1>3. Debts = [w \in Writer |-> Promises!Nothing] /\ Verdicts = [w \in Writer |-> "none"]
  BY <1>1 DEF Debts, Owed, Verdicts, IdleWriter, NoSettings, Promises!Nothing
<1>4. device.settings \in Promises!Document /\ device.pending = Promises!Nothing
  <2>1. device.settings = history[1] /\ device.pending = NoSettings /\ history[1] \in Settings
    BY PairAssumption DEF Init
  <2>2. QED
    BY <2>1 DEF Settings, NoSettings, Promises!Document, Promises!Nothing
<1>5. phase = "running"
  BY DEF Init
<1>6. QED
  BY <1>2, <1>3, <1>4, <1>5 DEF Promises!Init

\* The settings writes implement WritePromise, whatever the commands and however
\* many calls, pushes, refreshes, removals, cancellations and a shutdown meet, as
\* long as no request fails to authenticate: the call lets that error through
\* without taking back what it shows.
THEOREM ImplementsWritePromise ==
    ASSUME "auth" \notin Faults
    PROVE  Spec => KeepsPromise
<1>1. /\ TypeInv /\ TypeInv' /\ OverlayInv /\ OverlayInv'
      /\ OneTask /\ OneTask' /\ PromiseInv /\ PromiseInv' /\ [Next]_vars
      => [Promises!Next]_Promises!vars
  <2> SUFFICES ASSUME TypeInv, TypeInv', OverlayInv, OverlayInv',
                      OneTask, OneTask', PromiseInv, PromiseInv', [Next]_vars
               PROVE  Promises!Next \/ UNCHANGED Promises!vars
    OBVIOUS
  <2>1. ASSUME NEW w \in Writer, NEW command \in Command, Call(w, command)
        PROVE  Promises!Next \/ UNCHANGED Promises!vars
    BY <2>1, CallDevice, CallPromises
  <2>2. QED
    BY <2>1, WriterPromises, ReconcilerPromises, EnvironmentPromises DEF Next
<1>2. QED
  BY <1>1, InitPromises, NextPromiseInv, NextOneTask, OverlayAlways, PTL
  DEF Spec, KeepsPromise, Promises!Spec
=============================================================================
