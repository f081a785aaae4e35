------------------------- MODULE RefreshCycleProofs -------------------------
(***************************************************************************)
(* What holds of the refreshes for every set of devices and locations,     *)
(* where two refreshes may handle different ones at once: the safety       *)
(* properties of RefreshCycle.                                             *)
(***************************************************************************)
EXTENDS RefreshCycle, TLAPS

\* Only the loop that stops sockets has one in its hands.
VictimStopping == \A p \in Process : cycle[p].victim # {} => cycle[p].pc = "stop"

\* Requests of a device are out while their refresh gathers them, or after one of
\* them ended it, and then no other refresh may count as the last good one.
TasksBelong ==
    \A p \in Process : TasksLeft(p) =>
        cycle[p].pc = "hydrate" \/ (cycle[p].pc \in {"idle", "ended"} /\ past.lapsed)

\* The set-up's refresh is over when the entry is past the set-up, and it alone is
\* ever a first one.
SetupOver ==
    /\ entry # "setup" => cycle["setup"].pc = "ended"
    /\ \A p \in Process : cycle[p].first => p = "setup"

\* Sockets are asked to stop together when the entry is unloaded, not before, and a
\* runner that was told to stop but not cancelled is one whose stop raised.
SocketsKept ==
    /\ sockets.closing # {} => entry = "unloading"
    /\ sockets.ending \subseteq sockets.raised

\* Nothing is registered before the platforms are loaded.
NothingNew == entry \in {"setup", "refreshed", "failed"} => registry \subseteq past.missed

\* The refreshes that have seen a hierarchy since they noted what there was.
Noticing(p) == cycle[p].pc \in {"stop", "start", "hydrate"}
Noticed(i) ==
    \/ i \in past.missed
    \/ \E p \in Process : Noticing(p) /\ i \in cycle[p].removed \cup cycle[p].left

\* GoneAreCleaned, of what is registered and of what is about to be.
Registrable == registry \cup data.supported \cup data.locations
GoneNoticed == \A i \in Registrable \ (devices \cup locations) : Noticed(i)

\* A step that leaves the sockets asked to stop together, and those whose stop
\* raised, as they are.
SameStops ==
    /\ sockets'.closing = sockets.closing
    /\ sockets'.raised = sockets.raised /\ sockets'.ending = sockets.ending

RInv ==
    /\ VictimStopping /\ TasksBelong /\ SetupOver /\ SocketsKept
    /\ RemovedStayRemoved /\ CacheServesUnknown /\ StatesOfLiveSockets
    /\ NothingNew /\ GoneNoticed /\ IssueIsCurrent

RefreshInv == TypeOK /\ RInv

----------------------------------------------------------------------------
(* Types                                                                   *)

EntryState == {"setup", "refreshed", "loaded", "failed", "unloading", "unloaded"}
Past == [lapsed : BOOLEAN, missed : SUBSET Item]
Data == [devices : SUBSET Device, locations : SUBSET Location, supported : SUBSET Device]

\* A process at rest is a process.
LEMMA RestTyped == Rest \in Cycle /\ NoTasks \in [Device -> {"none", "critical", "optional", "done"}]
BY DEF Rest, Cycle, NoTasks

\* The start of a request leaves a process.
LEMMA AskingTyped ==
    ASSUME TypeOK, NEW q \in Cycle
    PROVE  Asking(q) \in Cycle
BY DEF Asking, Cycle, TypeOK

\* An exception leaves processes, entry and history typed.
LEMMA FailTyped ==
    ASSUME TypeOK, NEW p \in Process, NEW q \in Cycle, Fail(p, q)
    PROVE  cycle' \in [Process -> Cycle] /\ entry' \in EntryState /\ past' \in Past
<1>1. [Rest EXCEPT !.pc = IF p = "setup" THEN "ended" ELSE "idle", !.task = q.task] \in Cycle
  BY DEF Rest, Cycle
<1>2. cycle' \in [Process -> Cycle]
  BY <1>1 DEF Fail, TypeOK
<1>3. entry' \in EntryState
  BY DEF Fail, TypeOK, EntryState
<1>4. past' \in Past
  BY DEF Fail, TypeOK, Past, Item, Cycle
<1>5. QED
  BY <1>2, <1>3, <1>4

\* What is published is typed.
LEMMA PublishTyped ==
    ASSUME devices' \subseteq Device, locations' \subseteq Location,
           NEW kept \in SUBSET Item, Publish(kept)
    PROVE  data' \in Data /\ registry' \subseteq Item
BY DEF Publish, Snapshot, Data, Registered, Item

\* What is published and registered anew is there.
LEMMA PublishShows ==
    ASSUME NEW kept, Publish(kept)
    PROVE  /\ data'.locations = locations' /\ data'.supported \subseteq devices'
           /\ \A i \in registry' : i \in kept \/ i \in devices' \cup locations'
           /\ entry' # "loaded" => registry' = kept
<1>1. data' = Snapshot(devices', facts', locations') /\ registry' = kept \cup Registered
  BY DEF Publish
<1>2. data'.locations = locations' /\ data'.supported \subseteq devices'
  BY <1>1 DEF Snapshot
<1>3. QED
  BY <1>1, <1>2 DEF Registered

\* So is what the loop over the sockets leaves.
LEMMA StopOrStartTyped ==
    ASSUME TypeOK, NEW p \in Process, NEW q \in Cycle, NEW lost \in SUBSET Item,
           NEW held \in SUBSET Location, StopOrStart(p, q, held, lost)
    PROVE  /\ cycle' \in [Process -> Cycle] /\ entry' \in EntryState /\ past' \in Past
           /\ sockets' \in Sockets
<1>1. CASE q.stopping = {}
  <2>1. [q EXCEPT !.pc = "start", !.victim = {}, !.starting = {}] \in Cycle
    BY DEF Cycle
  <2>2. cycle' \in [Process -> Cycle]
    BY <1>1, <2>1 DEF StopOrStart, TypeOK
  <2>3. q.starting \subseteq Location
    BY DEF Cycle
  <2>4. sockets' \in Sockets
    <3> DEFINE h == held \cup q.starting
               n == sockets.loose \cup (held \cap q.starting)
    <3>1. sockets' = [sockets EXCEPT !.held = h, !.loose = n]
      BY <1>1 DEF StopOrStart
    <3>2. h \in SUBSET Location /\ n \in SUBSET Location
      BY <2>3 DEF TypeOK, Sockets
    <3> HIDE DEF h, n
    <3>3. QED
      BY <3>1, <3>2 DEF TypeOK, Sockets
  <2>5. past' \in Past /\ entry' \in EntryState
    BY <1>1 DEF StopOrStart, TypeOK, EntryState, Past
  <2>6. QED
    BY <2>2, <2>4, <2>5
<1>2. CASE q.stopping # {}
  <2>1. PICK l \in q.stopping :
            IF l \in held
            THEN /\ cycle' = [cycle EXCEPT ![p] =
                       [q EXCEPT !.pc = "stop", !.victim = {l}, !.stopping = @ \ {l}]]
                 /\ sockets' = [sockets EXCEPT !.held = held \ {l}]
                 /\ past' = [past EXCEPT !.missed = @ \cup lost]
                 /\ UNCHANGED entry
            ELSE Fail(p, q) /\ sockets' = [sockets EXCEPT !.held = held]
    BY <1>2 DEF StopOrStart
  <2>2. CASE l \in held
    <3>1. [q EXCEPT !.pc = "stop", !.victim = {l}, !.stopping = @ \ {l}] \in Cycle
      BY <2>2 DEF Cycle
    <3>2. cycle' \in [Process -> Cycle]
      BY <2>1, <2>2, <3>1 DEF TypeOK
    <3>3. QED
      BY <2>1, <2>2, <3>2 DEF TypeOK, EntryState, Past, Sockets
  <2>3. CASE l \notin held
    BY <2>1, <2>3, FailTyped DEF TypeOK, Sockets
  <2>4. QED
    BY <2>2, <2>3
<1>3. QED
  BY <1>1, <1>2

----------------------------------------------------------------------------
(* The steps of a refresh                                                  *)

\* It begins.
LEMMA BeginSafe ==
    ASSUME RefreshInv, NEW p \in Process, NEW byEvent \in BOOLEAN, Begin(p, byEvent)
    PROVE  RefreshInv'
<1> DEFINE q == Asking([Rest EXCEPT !.first = (p = "setup"), !.byEvent = byEvent])
<1>1. q \in Cycle /\ q.task = NoTasks /\ q.victim = {} /\ q.pc = "hierarchy" /\ q.first = (p = "setup")
      /\ q.removed = {}
  <2>1. [Rest EXCEPT !.first = (p = "setup"), !.byEvent = byEvent] \in Cycle
    BY RestTyped DEF Rest, Cycle
  <2>2. q \in Cycle
    BY <2>1, AskingTyped DEF RefreshInv
  <2>3. QED
    BY <2>2 DEF Asking, Rest
<1>2. cycle' = [cycle EXCEPT ![p] = q]
  BY DEF Begin
<1> HIDE DEF q
<1>3. cycle' \in [Process -> Cycle] /\ cycle'[p] = q /\ \A o \in Process \ {p} : cycle'[o] = cycle[o]
  BY <1>1, <1>2 DEF RefreshInv, TypeOK
<1>4. cycle[p].pc = "idle" /\ (p = "setup" => entry = "setup") /\ event' \in BOOLEAN
  BY DEF Begin, RefreshInv, TypeOK
<1>5. UNCHANGED <<entry, locations, devices, facts, sockets, view, cached, past, data, registry, issue, applied>>
  BY DEF Begin, Unpublished
<1>6. TypeOK'
  BY <1>3, <1>4, <1>5 DEF RefreshInv, TypeOK
<1>7. VictimStopping' /\ SetupOver'
  BY <1>1, <1>3, <1>4, <1>5 DEF RefreshInv, RInv, VictimStopping, SetupOver, Process
<1>8. TasksBelong'
  <2>1. ~TasksLeft(p)'
    BY <1>1, <1>3 DEF TasksLeft, NoTasks
  <2>2. \A o \in Process \ {p} : TasksLeft(o)' <=> TasksLeft(o)
    BY <1>3 DEF TasksLeft
  <2>3. QED
    BY <1>3, <1>5, <2>1, <2>2 DEF RefreshInv, RInv, TasksBelong
<1>9. RemovedStayRemoved' /\ CacheServesUnknown' /\ SocketsKept' /\ NothingNew'
  BY <1>5 DEF RefreshInv, RInv, RemovedStayRemoved, CacheServesUnknown, SocketsKept, NothingNew
<1>10. StatesOfLiveSockets'
  <2>1. cycle[p].victim = {}
    BY <1>4 DEF RefreshInv, RInv, VictimStopping
  <2>2. \A l \in DOMAIN view : Running(l) => Running(l)'
    BY <1>3, <1>5, <2>1 DEF Running
  <2>3. QED
    BY <1>5, <2>2 DEF RefreshInv, RInv, StatesOfLiveSockets
<1>11. GoneNoticed'
  <2>1. ~Noticing(p)
    BY <1>4 DEF Noticing
  <2>2. \A i : Noticed(i) => Noticed(i)'
    BY <1>3, <1>5, <2>1 DEF Noticed, Noticing
  <2>3. QED
    BY <1>5, <2>2 DEF RefreshInv, RInv, GoneNoticed, Registrable
<1>12. IssueIsCurrent'
  BY <1>1, <1>3 DEF IssueIsCurrent, InProgress
<1>13. QED
  BY <1>6, <1>7, <1>8, <1>9, <1>10, <1>11, <1>12 DEF RefreshInv, RInv

\* A refresh that ends with an exception leaves what it noticed as missed, and its
\* remaining requests known as such.
LEMMA FailKeeps ==
    ASSUME RefreshInv, NEW p \in Process, NEW q \in Cycle, Fail(p, q),
           p = "setup" => entry = "setup"
    PROVE  /\ VictimStopping' /\ TasksBelong' /\ SetupOver' /\ IssueIsCurrent'
           /\ \A o \in Process \ {p} : cycle'[o] = cycle[o]
           /\ past.missed \cup q.removed \cup q.left \subseteq past'.missed
           /\ entry' = entry \/ (entry = "setup" /\ entry' = "failed")
<1> DEFINE r == [Rest EXCEPT !.pc = IF p = "setup" THEN "ended" ELSE "idle", !.task = q.task]
<1>1. /\ r.pc = IF p = "setup" THEN "ended" ELSE "idle"
      /\ r.victim = {} /\ r.first = FALSE
  BY DEF Rest
<1>2. cycle' = [cycle EXCEPT ![p] = r]
  BY DEF Fail
<1> HIDE DEF r
<1>3. cycle'[p] = r /\ \A o \in Process \ {p} : cycle'[o] = cycle[o]
  BY <1>2 DEF RefreshInv, TypeOK
<1>4. past'.lapsed /\ past.missed \cup q.removed \cup q.left \subseteq past'.missed
  BY DEF Fail, RefreshInv, TypeOK
<1>5. entry' = IF p = "setup" THEN "failed" ELSE entry
  BY DEF Fail
<1>6. VictimStopping'
  BY <1>1, <1>3 DEF RefreshInv, RInv, VictimStopping
<1>7. TasksBelong'
  <2>1. \A o \in Process \ {p} : TasksLeft(o)' <=> TasksLeft(o)
    BY <1>3 DEF TasksLeft
  <2>2. QED
    BY <1>1, <1>3, <1>4, <2>1 DEF RefreshInv, RInv, TasksBelong
<1>8. SetupOver'
  BY <1>1, <1>3, <1>5 DEF RefreshInv, RInv, SetupOver, Process
<1>9. IssueIsCurrent'
  BY <1>4 DEF IssueIsCurrent
<1>10. QED
  BY <1>3, <1>4, <1>5, <1>6, <1>7, <1>8, <1>9

\* The loop over the sockets drops none that it does not stop, and what the refresh
\* noticed stays noticed.
LEMMA StopOrStartKeeps ==
    ASSUME RefreshInv, NEW p \in Process, NEW q \in Cycle, NEW lost \in SUBSET Item,
           StopOrStart(p, q, sockets.held, lost),
           q.stopping \subseteq sockets.held \/ lost = {},
           \A d \in Device : q.task[d] \notin {"critical", "optional"},
           q.first => p = "setup",
           p = "setup" => entry = "setup",
           Noticing(p) => q.removed = cycle[p].removed /\ q.left = cycle[p].left
    PROVE  /\ VictimStopping' /\ TasksBelong' /\ SetupOver' /\ IssueIsCurrent'
           /\ \A i : Noticed(i) \/ i \in q.removed \cup q.left \cup lost => Noticed(i)'
           /\ \A l : \/ l \in sockets.held \cup sockets.loose \cup sockets.closing
                     \/ \E o \in Process \ {p} : l \in cycle[o].victim
                 => Running(l)'
           /\ entry' = entry \/ (entry = "setup" /\ entry' = "failed")
           /\ past.missed \subseteq past'.missed /\ SameStops
<1> DEFINE Goal ==
           /\ VictimStopping' /\ TasksBelong' /\ SetupOver' /\ IssueIsCurrent'
           /\ \A i : Noticed(i) \/ i \in q.removed \cup q.left \cup lost => Noticed(i)'
           /\ \A l : \/ l \in sockets.held \cup sockets.loose \cup sockets.closing
                     \/ \E o \in Process \ {p} : l \in cycle[o].victim
                 => Running(l)'
           /\ entry' = entry \/ (entry = "setup" /\ entry' = "failed")
           /\ past.missed \subseteq past'.missed /\ SameStops
<1>1. ASSUME NEW r \in Cycle, cycle' = [cycle EXCEPT ![p] = r],
             r.pc \in {"stop", "start"}, r.pc = "start" => r.victim = {},
             r.task = q.task, r.first = q.first, r.removed = q.removed, r.left = q.left,
             past' = [past EXCEPT !.missed = @ \cup lost], entry' = entry,
             sockets.held \subseteq sockets'.held \cup r.victim,
             sockets.loose \subseteq sockets'.loose, SameStops
      PROVE  Goal
  <2>1. cycle'[p] = r /\ \A o \in Process \ {p} : cycle'[o] = cycle[o]
    BY <1>1 DEF RefreshInv, TypeOK
  <2>2. past'.lapsed = past.lapsed /\ past'.missed = past.missed \cup lost
    BY <1>1 DEF RefreshInv, TypeOK
  <2>3. VictimStopping' /\ SetupOver'
    BY <1>1, <2>1 DEF RefreshInv, RInv, VictimStopping, SetupOver, Process
  <2>4. TasksBelong'
    <3>1. ~TasksLeft(p)'
      BY <1>1, <2>1 DEF TasksLeft
    <3>2. \A o \in Process \ {p} : TasksLeft(o)' <=> TasksLeft(o)
      BY <2>1 DEF TasksLeft
    <3>3. QED
      BY <2>1, <2>2, <3>1, <3>2 DEF RefreshInv, RInv, TasksBelong
  <2>5. IssueIsCurrent'
    BY <1>1, <2>1 DEF IssueIsCurrent, InProgress
  <2>6. \A i : Noticed(i) \/ i \in q.removed \cup q.left \cup lost => Noticed(i)'
    <3>1. Noticing(p)' /\ cycle'[p].removed = q.removed /\ cycle'[p].left = q.left
      BY <1>1, <2>1 DEF Noticing
    <3>2. \A o \in Process \ {p} : Noticing(o) => Noticing(o)'
      BY <2>1 DEF Noticing
    <3>3. QED
      BY <2>1, <2>2, <3>1, <3>2 DEF Noticed
  <2>7. \A l : \/ l \in sockets.held \cup sockets.loose \cup sockets.closing
               \/ \E o \in Process \ {p} : l \in cycle[o].victim
           => Running(l)'
    BY <1>1, <2>1 DEF Running, SameStops
  <2>8. QED
    BY <1>1, <2>2, <2>3, <2>4, <2>5, <2>6, <2>7
<1>2. ASSUME q.stopping = {} PROVE Goal
  <2> DEFINE r == [q EXCEPT !.pc = "start", !.victim = {}, !.starting = {}]
  <2>1. /\ r \in Cycle /\ r.pc = "start" /\ r.victim = {}
        /\ r.task = q.task /\ r.first = q.first /\ r.removed = q.removed /\ r.left = q.left
    BY DEF Cycle
  <2>2. /\ cycle' = [cycle EXCEPT ![p] = r]
        /\ past' = [past EXCEPT !.missed = @ \cup lost] /\ entry' = entry
        /\ sockets' = [sockets EXCEPT !.held = sockets.held \cup q.starting,
                                      !.loose = @ \cup (sockets.held \cap q.starting)]
    BY <1>2 DEF StopOrStart
  <2>3. /\ sockets.held \subseteq sockets'.held
        /\ sockets.loose \subseteq sockets'.loose /\ SameStops
    BY <2>2 DEF RefreshInv, TypeOK, Sockets, SameStops
  <2> HIDE DEF r, Goal
  <2>4. QED
    BY <1>1, <2>1, <2>2, <2>3
<1>3. ASSUME NEW l \in q.stopping, l \in sockets.held,
             cycle' = [cycle EXCEPT ![p] =
                         [q EXCEPT !.pc = "stop", !.victim = {l}, !.stopping = @ \ {l}]],
             sockets' = [sockets EXCEPT !.held = sockets.held \ {l}],
             past' = [past EXCEPT !.missed = @ \cup lost], entry' = entry
      PROVE  Goal
  <2> DEFINE r == [q EXCEPT !.pc = "stop", !.victim = {l}, !.stopping = @ \ {l}]
  <2>1. /\ r \in Cycle /\ r.pc = "stop" /\ r.victim = {l}
        /\ r.task = q.task /\ r.first = q.first /\ r.removed = q.removed /\ r.left = q.left
    BY <1>3 DEF Cycle
  <2>2. /\ sockets.held \subseteq sockets'.held \cup {l}
        /\ sockets.loose \subseteq sockets'.loose /\ SameStops
    BY <1>3 DEF RefreshInv, TypeOK, Sockets, SameStops
  <2>3. cycle' = [cycle EXCEPT ![p] = r]
    BY <1>3
  <2> HIDE DEF r, Goal
  <2>4. QED
    BY <1>1, <1>3, <2>1, <2>2, <2>3
<1>4. ASSUME NEW l \in q.stopping, l \notin sockets.held, Fail(p, q),
             sockets' = [sockets EXCEPT !.held = sockets.held]
      PROVE  Goal
  <2>1. lost = {}
    BY <1>4
  <2>2. /\ VictimStopping' /\ TasksBelong' /\ SetupOver' /\ IssueIsCurrent'
        /\ \A o \in Process \ {p} : cycle'[o] = cycle[o]
        /\ past.missed \cup q.removed \cup q.left \subseteq past'.missed
        /\ entry' = entry \/ (entry = "setup" /\ entry' = "failed")
    BY <1>4, FailKeeps
  <2>3. \A i : Noticed(i) \/ i \in q.removed \cup q.left => Noticed(i)'
    BY <2>2 DEF Noticed, Noticing
  <2>4. sockets' = sockets
    BY <1>4 DEF RefreshInv, TypeOK, Sockets
  <2>5. QED
    BY <2>1, <2>2, <2>3, <2>4 DEF Running, SameStops
<1>5. QED
  BY <1>2, <1>3, <1>4 DEF StopOrStart

\* The set-up's refresh runs only during the set-up.
LEMMA SetupRuns ==
    ASSUME RefreshInv, NEW p \in Process, cycle[p].pc # "ended"
    PROVE  p = "setup" => entry = "setup"
BY DEF RefreshInv, RInv, SetupOver

\* The request for the hierarchy fails.
LEMMA HierarchyFailsSafe ==
    ASSUME RefreshInv, NEW p \in Process, HierarchyFails(p)
    PROVE  RefreshInv'
<1> DEFINE q == [cycle[p] EXCEPT !.left = {}]
<1>1. q \in Cycle
  <2>1. cycle[p] \in Cycle
    BY DEF RefreshInv, TypeOK
  <2>2. QED
    BY <2>1 DEF Cycle
<1>2. Fail(p, q) /\ cycle[p].pc = "hierarchy"
  BY DEF HierarchyFails
<1> HIDE DEF q
<1>3. p = "setup" => entry = "setup"
  BY <1>2, SetupRuns
<1>4. /\ VictimStopping' /\ TasksBelong' /\ SetupOver' /\ IssueIsCurrent'
      /\ \A o \in Process \ {p} : cycle'[o] = cycle[o]
      /\ past.missed \subseteq past'.missed
      /\ entry' = entry \/ (entry = "setup" /\ entry' = "failed")
  BY <1>1, <1>2, <1>3, FailKeeps
<1>5. UNCHANGED <<locations, devices, facts, sockets, view, cached, event, data, registry, issue, applied>>
  BY DEF HierarchyFails, Unpublished
<1>6. TypeOK'
  BY <1>1, <1>2, <1>5, FailTyped DEF RefreshInv, TypeOK, EntryState, Past
<1>7. RemovedStayRemoved' /\ CacheServesUnknown' /\ SocketsKept' /\ NothingNew'
  BY <1>4, <1>5 DEF RefreshInv, RInv, RemovedStayRemoved, CacheServesUnknown, SocketsKept, NothingNew
<1>8. StatesOfLiveSockets'
  <2>1. cycle[p].victim = {}
    BY <1>2 DEF RefreshInv, RInv, VictimStopping
  <2>2. \A l : Running(l) => Running(l)'
    BY <1>4, <1>5, <2>1 DEF Running
  <2>3. QED
    BY <1>4, <1>5, <2>2 DEF RefreshInv, RInv, StatesOfLiveSockets
<1>9. GoneNoticed'
  <2>1. \A i : Noticed(i) => Noticed(i)'
    BY <1>2, <1>4 DEF Noticed, Noticing
  <2>2. QED
    BY <1>5, <2>1 DEF RefreshInv, RInv, GoneNoticed, Registrable
<1>10. QED
  BY <1>4, <1>6, <1>7, <1>8, <1>9 DEF RefreshInv, RInv

\* The hierarchy is applied.
LEMMA HierarchyAnsweredSafe ==
    ASSUME RefreshInv, NEW p \in Process, HierarchyAnswered(p)
    PROVE  RefreshInv'
<1>1. cycle[p].pc = "hierarchy" /\ UNCHANGED <<view, issue, event>>
  BY DEF HierarchyAnswered
<1>2. PICK locs \in SUBSET Location : \E devs \in SUBSET {d \in Device : Home[d] \in locs} :
       \E told \in SUBSET {d \in devs : cached[d] > 0} :
        /\ locations' = locs
        /\ devices' = devs /\ applied' = devs
        /\ facts' = [d \in Device |->
                       IF d \notin devs THEN NoFacts
                       ELSE [facts[d] EXCEPT !.settings = @ \/ d \in told]]
        /\ cached' = CachedFor(devs)
        /\ LET q == [cycle[p] EXCEPT !.removed = IF cycle[p].first THEN {}
                                                 ELSE devices \ devs,
                                     !.left = IF cycle[p].first THEN {} ELSE @ \ locs,
                                     !.stopping = sockets.held \ locs,
                                     !.starting = locs \ sockets.held]
           IN StopOrStart(p, q, sockets.held, Overtaken(q, locs))
        /\ IF cycle[p].first THEN Publish(registry) ELSE UNCHANGED <<data, registry>>
  BY DEF HierarchyAnswered
<1>3. PICK devs \in SUBSET {d \in Device : Home[d] \in locs} :
       \E told \in SUBSET {d \in devs : cached[d] > 0} :
        /\ locations' = locs
        /\ devices' = devs /\ applied' = devs
        /\ facts' = [d \in Device |->
                       IF d \notin devs THEN NoFacts
                       ELSE [facts[d] EXCEPT !.settings = @ \/ d \in told]]
        /\ cached' = CachedFor(devs)
        /\ LET q == [cycle[p] EXCEPT !.removed = IF cycle[p].first THEN {}
                                                 ELSE devices \ devs,
                                     !.left = IF cycle[p].first THEN {} ELSE @ \ locs,
                                     !.stopping = sockets.held \ locs,
                                     !.starting = locs \ sockets.held]
           IN StopOrStart(p, q, sockets.held, Overtaken(q, locs))
        /\ IF cycle[p].first THEN Publish(registry) ELSE UNCHANGED <<data, registry>>
  BY <1>2
<1> DEFINE q == [cycle[p] EXCEPT !.removed = IF cycle[p].first THEN {} ELSE devices \ devs,
                                 !.left = IF cycle[p].first THEN {} ELSE @ \ locs,
                                 !.stopping = sockets.held \ locs,
                                 !.starting = locs \ sockets.held]
           lost == Overtaken(q, locs)
<1>4. StopOrStart(p, q, sockets.held, lost)
  BY <1>3
<1>5. /\ q.removed = IF cycle[p].first THEN {} ELSE devices \ devs
      /\ q.left = IF cycle[p].first THEN {} ELSE cycle[p].left \ locs
      /\ q.stopping = sockets.held \ locs /\ q.starting = locs \ sockets.held
      /\ q.task = cycle[p].task /\ q.first = cycle[p].first
  BY DEF RefreshInv, TypeOK, Cycle
<1>6. q \in Cycle
  <2> DEFINE a == IF cycle[p].first THEN {} ELSE devices \ devs
             b == IF cycle[p].first THEN {} ELSE cycle[p].left \ locs
             c == sockets.held \ locs
             e == locs \ sockets.held
  <2>1. cycle[p] \in Cycle /\ sockets.held \subseteq Location /\ devices \subseteq Device
    BY DEF RefreshInv, TypeOK, Sockets
  <2>2. cycle[p].left \subseteq Location
    BY <2>1 DEF Cycle
  <2>3. a \in SUBSET Device /\ b \in SUBSET Location
    BY <2>1, <2>2
  <2>4. c \in SUBSET Location /\ e \in SUBSET Location
    BY <2>1
  <2>5. q = [cycle[p] EXCEPT !.removed = a, !.left = b, !.stopping = c, !.starting = e]
    OBVIOUS
  <2> HIDE DEF a, b, c, e, q
  <2>6. QED
    BY <2>1, <2>3, <2>4, <2>5 DEF Cycle
<1>7. lost \in SUBSET Item /\ lost = ((locations \ locs) \ q.left) \cap (registry \cup data.locations)
  BY DEF Overtaken, RefreshInv, TypeOK, Item
<1> HIDE DEF q, lost
<1>8. \A d \in Device : q.task[d] \notin {"critical", "optional"}
  BY <1>1, <1>5 DEF RefreshInv, RInv, TasksBelong, TasksLeft
<1>9. (p = "setup" => entry = "setup") /\ (q.first => p = "setup")
  BY <1>1, <1>5, SetupRuns DEF RefreshInv, RInv, SetupOver
<1>10. /\ VictimStopping' /\ TasksBelong' /\ SetupOver' /\ IssueIsCurrent'
       /\ \A i : Noticed(i) \/ i \in q.removed \cup q.left \cup lost => Noticed(i)'
       /\ \A l : \/ l \in sockets.held \cup sockets.loose \cup sockets.closing
                 \/ \E o \in Process \ {p} : l \in cycle[o].victim
             => Running(l)'
       /\ entry' = entry \/ (entry = "setup" /\ entry' = "failed")
       /\ past.missed \subseteq past'.missed /\ SameStops
  BY <1>1, <1>4, <1>5, <1>6, <1>7, <1>8, <1>9, StopOrStartKeeps DEF Noticing
<1>11. /\ locations' = locs /\ devices' = devs /\ applied' = devs
       /\ cached' = CachedFor(devs)
       /\ IF cycle[p].first THEN Publish(registry) ELSE UNCHANGED <<data, registry>>
       /\ facts' \in [Device -> Facts] /\ \A d \in Device \ devs : facts'[d] = NoFacts
  <2>1. PICK told : facts' = [d \in Device |->
                                IF d \notin devs THEN NoFacts
                                ELSE [facts[d] EXCEPT !.settings = @ \/ d \in told]]
    BY <1>3
  <2>2. facts' \in [Device -> Facts] /\ \A d \in Device \ devs : facts'[d] = NoFacts
    BY <2>1 DEF RefreshInv, TypeOK, Facts, NoFacts
  <2>3. QED
    BY <1>3, <2>2
<1>12. cycle[p].first => /\ registry' = registry /\ registry \subseteq past.missed
                         /\ data'.locations = locs /\ data'.supported \subseteq devs
  <2> SUFFICES ASSUME cycle[p].first
               PROVE  /\ registry' = registry /\ registry \subseteq past.missed
                      /\ data'.locations = locs /\ data'.supported \subseteq devs
    OBVIOUS
  <2>1. entry = "setup"
    BY <1>5, <1>9
  <2>2. entry' # "loaded"
    BY <1>10, <2>1
  <2>3. QED
    BY <1>11, <2>1, <2>2, PublishShows DEF RefreshInv, RInv, NothingNew
<1>13. TypeOK'
  <2>1. /\ cycle' \in [Process -> Cycle] /\ entry' \in EntryState /\ past' \in Past
        /\ sockets' \in Sockets
    <3>1. sockets.held \in SUBSET Location
      BY DEF RefreshInv, TypeOK, Sockets
    <3>2. QED
      BY <1>4, <1>6, <1>7, <3>1, StopOrStartTyped DEF RefreshInv
  <2>2. cached' \in [Device -> 0..MaxCached]
    BY <1>11, CachedAssumption DEF CachedFor, RefreshInv, TypeOK
  <2>3. data' \in Data /\ registry' \subseteq Item
    BY <1>11, PublishTyped DEF RefreshInv, TypeOK, Data
  <2>4. QED
    BY <1>1, <1>11, <2>1, <2>2, <2>3 DEF RefreshInv, TypeOK, EntryState, Past, Data
<1>14. RemovedStayRemoved' /\ CacheServesUnknown'
  <2>1. \A d \in devs : cached'[d] = 0
    BY <1>11 DEF CachedFor
  <2>2. QED
    BY <1>11, <2>1 DEF RemovedStayRemoved, CacheServesUnknown
<1>19. SocketsKept'
  BY <1>10 DEF RefreshInv, RInv, SocketsKept, SameStops
<1>15. StatesOfLiveSockets'
  <2>1. cycle[p].victim = {}
    BY <1>1 DEF RefreshInv, RInv, VictimStopping
  <2>2. \A l : Running(l) => Running(l)'
    BY <1>10, <2>1 DEF Running
  <2>3. QED
    BY <1>1, <1>10, <2>2 DEF RefreshInv, RInv, StatesOfLiveSockets, SameStops
<1>16. NothingNew'
  BY <1>10, <1>11, <1>12 DEF RefreshInv, RInv, NothingNew
<1>17. GoneNoticed'
  <2> SUFFICES ASSUME NEW i \in Registrable', i \notin devs, i \notin locs
               PROVE  Noticed(i)'
    BY <1>11 DEF GoneNoticed
  <2>1. CASE cycle[p].first
    BY <1>10, <1>12, <2>1 DEF Registrable, Noticed
  <2>2. CASE ~cycle[p].first
    <3>1. i \in Registrable
      BY <1>11, <2>2 DEF Registrable
    <3>2. CASE i \notin devices \cup locations
      BY <1>10, <3>1, <3>2 DEF RefreshInv, RInv, GoneNoticed
    <3>3. CASE i \in devices
      BY <1>5, <1>10, <2>2, <3>3
    <3>4. CASE i \in locations
      <4>1. i \notin data.supported
        BY <3>4, NamesAssumption DEF RefreshInv, TypeOK
      <4>2. i \in q.left \/ i \in lost
        BY <1>7, <3>1, <3>4, <4>1 DEF Registrable
      <4>3. QED
        BY <1>10, <4>2
    <3>5. QED
      BY <3>2, <3>3, <3>4
  <2>3. QED
    BY <2>1, <2>2
<1>18. QED
  BY <1>10, <1>13, <1>14, <1>15, <1>16, <1>17, <1>19 DEF RefreshInv, RInv

\* A socket has stopped.
LEMMA SocketStoppedSafe ==
    ASSUME RefreshInv, NEW p \in Process, SocketStopped(p)
    PROVE  RefreshInv'
<1>1. /\ cycle[p].pc = "stop" /\ StopOrStart(p, cycle[p], sockets.held, {})
      /\ view' = [l \in DOMAIN view \ cycle[p].victim |-> view[l]]
      /\ UNCHANGED <<locations, devices, facts, cached, event, data, registry, issue, applied>>
  BY DEF SocketStopped, Forget, Unpublished
<1>2. /\ cycle[p] \in Cycle /\ sockets.held \in SUBSET Location
      /\ \A d \in Device : cycle[p].task[d] \notin {"critical", "optional"}
      /\ cycle[p].first => p = "setup"
      /\ p = "setup" => entry = "setup"
  BY <1>1, SetupRuns DEF RefreshInv, TypeOK, RInv, TasksBelong, TasksLeft, SetupOver, Sockets
<1>3. /\ VictimStopping' /\ TasksBelong' /\ SetupOver' /\ IssueIsCurrent'
      /\ \A i : Noticed(i) => Noticed(i)'
      /\ \A l : \/ l \in sockets.held \cup sockets.loose \cup sockets.closing
                \/ \E o \in Process \ {p} : l \in cycle[o].victim
            => Running(l)'
      /\ entry' = entry \/ (entry = "setup" /\ entry' = "failed")
      /\ past.missed \subseteq past'.missed /\ SameStops
  <2>1. {} \in SUBSET Item
    OBVIOUS
  <2>2. QED
    BY <1>1, <1>2, <2>1, StopOrStartKeeps
<1>4. TypeOK'
  <2>1. /\ cycle' \in [Process -> Cycle] /\ entry' \in EntryState /\ past' \in Past
        /\ sockets' \in Sockets
    <3>1. {} \in SUBSET Item
      OBVIOUS
    <3>2. QED
      BY <1>1, <1>2, <3>1, StopOrStartTyped DEF RefreshInv
  <2>2. QED
    BY <1>1, <2>1 DEF RefreshInv, TypeOK, EntryState, Past
<1>5. RemovedStayRemoved' /\ CacheServesUnknown' /\ SocketsKept' /\ NothingNew'
  BY <1>1, <1>3 DEF RefreshInv, RInv, RemovedStayRemoved, CacheServesUnknown, SocketsKept, NothingNew, SameStops
<1>6. StatesOfLiveSockets'
  <2>1. \A l : Running(l) /\ l \notin cycle[p].victim => Running(l)'
    BY <1>3 DEF Running
  <2>2. /\ DOMAIN view' = DOMAIN view \ cycle[p].victim
        /\ \A l \in DOMAIN view' : view'[l] = view[l]
    BY <1>1
  <2>3. QED
    BY <1>3, <2>1, <2>2 DEF RefreshInv, RInv, StatesOfLiveSockets, SameStops
<1>7. GoneNoticed'
  BY <1>1, <1>3 DEF RefreshInv, RInv, GoneNoticed, Registrable
<1>8. QED
  BY <1>3, <1>4, <1>5, <1>6, <1>7 DEF RefreshInv, RInv

\* The stop of a socket has raised: its state stays, and its runner vouches for it.
LEMMA StopRaisesSafe ==
    ASSUME RefreshInv, NEW p \in Process, StopRaises(p)
    PROVE  RefreshInv'
<1> DEFINE v == cycle[p].victim
           raised == sockets.raised \cup v
           ending == sockets.ending \cup v
<1>1. /\ cycle[p].pc = "stop" /\ Fail(p, cycle[p])
      /\ sockets' = [sockets EXCEPT !.raised = raised, !.ending = ending]
      /\ UNCHANGED <<locations, devices, facts, view, cached, event, data, registry, issue, applied>>
  BY DEF StopRaises, Unpublished
<1>2. cycle[p] \in Cycle /\ sockets \in Sockets
  BY DEF RefreshInv, TypeOK
<1>3. raised \in SUBSET Location /\ ending \in SUBSET Location
  BY <1>2 DEF Cycle, Sockets
<1>4. /\ sockets.raised \subseteq raised /\ sockets.ending \subseteq ending
      /\ v \subseteq raised /\ v \subseteq ending
      /\ sockets.ending \subseteq sockets.raised => ending \subseteq raised
  OBVIOUS
<1> HIDE DEF raised, ending
<1>5. /\ sockets' \in Sockets /\ sockets'.raised = raised /\ sockets'.ending = ending
      /\ sockets'.held = sockets.held /\ sockets'.loose = sockets.loose
      /\ sockets'.closing = sockets.closing
  BY <1>1, <1>2, <1>3 DEF Sockets
<1>6. p = "setup" => entry = "setup"
  BY <1>1, SetupRuns
<1>7. /\ VictimStopping' /\ TasksBelong' /\ SetupOver' /\ IssueIsCurrent'
      /\ \A o \in Process \ {p} : cycle'[o] = cycle[o]
      /\ past.missed \cup cycle[p].removed \cup cycle[p].left \subseteq past'.missed
      /\ entry' = entry \/ (entry = "setup" /\ entry' = "failed")
  BY <1>1, <1>2, <1>6, FailKeeps
<1>8. TypeOK'
  BY <1>1, <1>2, <1>5, FailTyped DEF RefreshInv, TypeOK, EntryState, Past
<1>9. RemovedStayRemoved' /\ CacheServesUnknown' /\ SocketsKept' /\ NothingNew'
  BY <1>1, <1>4, <1>5, <1>7
     DEF RefreshInv, RInv, RemovedStayRemoved, CacheServesUnknown, SocketsKept, NothingNew
<1>10. StatesOfLiveSockets'
  <2>1. \A l : Running(l) /\ l \notin v => Running(l)'
    BY <1>5, <1>7 DEF Running
  <2>2. QED
    BY <1>1, <1>4, <1>5, <1>7, <2>1 DEF RefreshInv, RInv, StatesOfLiveSockets
<1>11. GoneNoticed'
  <2>1. \A i : Noticed(i) => Noticed(i)'
    BY <1>7 DEF Noticed, Noticing
  <2>2. QED
    BY <1>1, <2>1 DEF RefreshInv, RInv, GoneNoticed, Registrable
<1>12. QED
  BY <1>7, <1>8, <1>9, <1>10, <1>11 DEF RefreshInv, RInv

\* A step that changes tasks, facts or outcome of a refresh only, with no refresh of
\* its own ending, keeps all but what it says of tasks and issue.
LEMMA TasksMove ==
    ASSUME RefreshInv, NEW p \in Process, NEW r \in Cycle, cycle' = [cycle EXCEPT ![p] = r],
           r.first = cycle[p].first, r.victim = {}, cycle[p].victim = {},
           r.removed = cycle[p].removed, r.left = cycle[p].left,
           r.pc = cycle[p].pc \/ (cycle[p].pc = "start" /\ r.pc = "hydrate"),
           \A d \in Device : r.task[d] \in {"critical", "optional"} =>
               r.pc = "hydrate" \/ cycle[p].task[d] \in {"critical", "optional"},
           \/ facts' = facts
           \/ \E d \in Device : /\ facts' \in [Device -> Facts] /\ d \in devices
                                /\ \A e \in Device \ {d} : facts'[e] = facts[e],
           facts' = facts \/ TasksLeft(p),
           UNCHANGED <<entry, locations, devices, sockets, view, cached, event, past,
                       data, registry, issue, applied>>
    PROVE  RefreshInv'
<1>1. cycle' \in [Process -> Cycle] /\ cycle'[p] = r /\ \A o \in Process \ {p} : cycle'[o] = cycle[o]
  BY DEF RefreshInv, TypeOK
<1>2. TypeOK'
  BY <1>1 DEF RefreshInv, TypeOK
<1>3. VictimStopping' /\ SetupOver'
  BY <1>1 DEF RefreshInv, RInv, VictimStopping, SetupOver, Process
<1>4. \A o \in Process : TasksLeft(o)' => TasksLeft(o) \/ (o = p /\ r.pc = "hydrate")
  BY <1>1 DEF TasksLeft
<1>5. TasksBelong'
  BY <1>1, <1>4 DEF RefreshInv, RInv, TasksBelong
<1>6. RemovedStayRemoved' /\ CacheServesUnknown' /\ SocketsKept' /\ NothingNew'
  BY DEF RefreshInv, RInv, RemovedStayRemoved, CacheServesUnknown, SocketsKept, NothingNew
<1>7. StatesOfLiveSockets'
  <2>1. \A l : Running(l) => Running(l)'
    BY <1>1 DEF Running
  <2>2. QED
    BY <2>1 DEF RefreshInv, RInv, StatesOfLiveSockets
<1>8. GoneNoticed'
  <2>1. \A i : Noticed(i) => Noticed(i)'
    BY <1>1 DEF Noticed, Noticing
  <2>2. QED
    BY <2>1 DEF RefreshInv, RInv, GoneNoticed, Registrable
<1>9. IssueIsCurrent'
  <2> SUFFICES ASSUME entry \in {"refreshed", "loaded"}, ~past.lapsed,
                      \A o \in Process : ~InProgress(o)' /\ ~TasksLeft(o)'
               PROVE  issue = Issue(devices, facts')
    BY DEF IssueIsCurrent, Issue
  <2>1. r.pc \in {"idle", "ended"} /\ cycle[p].pc \in {"idle", "ended"}
    BY <1>1 DEF InProgress
  <2>2. ~TasksLeft(p)
    BY <2>1 DEF RefreshInv, RInv, TasksBelong
  <2>3. \A o \in Process : ~InProgress(o) /\ ~TasksLeft(o)
    BY <1>1, <2>1, <2>2 DEF InProgress, TasksLeft
  <2>4. QED
    BY <2>2, <2>3 DEF RefreshInv, RInv, IssueIsCurrent
<1>10. QED
  BY <1>2, <1>3, <1>5, <1>6, <1>7, <1>8, <1>9 DEF RefreshInv, RInv

\* The sockets are started, and the hydration begins.
LEMMA SocketsStartedSafe ==
    ASSUME RefreshInv, NEW p \in Process, SocketsStarted(p)
    PROVE  RefreshInv'
<1> DEFINE task == [d \in Device |-> IF d \in devices /\ RequiresRest(d) THEN "critical" ELSE "none"]
           r == [cycle[p] EXCEPT !.pc = "hydrate", !.task = task]
<1>1. /\ cycle[p].pc = "start" /\ cycle' = [cycle EXCEPT ![p] = r]
      /\ UNCHANGED <<entry, locations, devices, facts, sockets, view, cached, event, past,
                     data, registry, issue, applied>>
  BY DEF SocketsStarted, Unpublished
<1>2. cycle[p] \in Cycle /\ task \in [Device -> {"none", "critical", "optional", "done"}]
  BY DEF RefreshInv, TypeOK
<1> HIDE DEF task
<1>3. /\ r \in Cycle /\ r.pc = "hydrate" /\ r.first = cycle[p].first
      /\ r.victim = cycle[p].victim /\ r.removed = cycle[p].removed /\ r.left = cycle[p].left
  BY <1>2 DEF Cycle
<1>4. cycle[p].victim = {}
  BY <1>1 DEF RefreshInv, RInv, VictimStopping
<1> HIDE DEF r
<1>5. QED
  BY <1>1, <1>3, <1>4, TasksMove

\* While requests are out, no socket is in the refresh's hands.
LEMMA NoVictimOfTasks ==
    ASSUME RefreshInv, NEW p \in Process, TasksLeft(p)
    PROVE  cycle[p].victim = {} /\ cycle[p].pc \in {"hydrate", "idle", "ended"}
BY DEF RefreshInv, RInv, VictimStopping, TasksBelong

\* The critical requests of a device are answered.
LEMMA CriticalAnsweredSafe ==
    ASSUME RefreshInv, NEW p \in Process, NEW d \in Device, CriticalAnswered(p, d)
    PROVE  RefreshInv'
<1>1. PICK status \in BOOLEAN, settings \in BOOLEAN,
           optional \in {"done"} \cup (IF d \in Known THEN {"optional"} ELSE {}) :
        LET q == [cycle[p] EXCEPT !.task[d] = optional] IN
        IF d \notin devices
        THEN /\ cycle' = [cycle EXCEPT ![p].task[d] = "done"]
             /\ UNCHANGED facts
        ELSE /\ facts' = [facts EXCEPT ![d].settings = @ \/ settings]
             /\ cycle' = [cycle EXCEPT ![p] =
                  IF status \/ settings THEN [q EXCEPT !.refreshed = @ \cup {d}]
                                        ELSE [q EXCEPT !.failed = @ \cup {d}]]
  BY Zenon DEF CriticalAnswered
<1>9. optional \in {"done", "optional"}
  OBVIOUS
<1>2. /\ cycle[p].task[d] = "critical"
      /\ UNCHANGED <<entry, locations, devices, sockets, view, cached, event, past,
                     data, registry, issue, applied>>
  BY DEF CriticalAnswered, Unpublished
<1>3. TasksLeft(p) /\ cycle[p].victim = {}
  BY <1>2, NoVictimOfTasks DEF TasksLeft
<1>4. cycle[p] \in Cycle /\ facts \in [Device -> Facts]
  BY DEF RefreshInv, TypeOK
<1>5. ASSUME NEW r \in Cycle, cycle' = [cycle EXCEPT ![p] = r],
             r.pc = cycle[p].pc, r.first = cycle[p].first, r.victim = cycle[p].victim,
             r.removed = cycle[p].removed, r.left = cycle[p].left,
             \A e \in Device \ {d} : r.task[e] = cycle[p].task[e],
             \/ facts' = facts
             \/ /\ facts' \in [Device -> Facts] /\ d \in devices
                /\ \A e \in Device \ {d} : facts'[e] = facts[e]
      PROVE  RefreshInv'
  <2>1. \A e \in Device : r.task[e] \in {"critical", "optional"} =>
            r.pc = "hydrate" \/ cycle[p].task[e] \in {"critical", "optional"}
    BY <1>2, <1>5
  <2>2. \/ facts' = facts
        \/ \E x \in Device : /\ facts' \in [Device -> Facts] /\ x \in devices
                             /\ \A e \in Device \ {x} : facts'[e] = facts[e]
    BY <1>5
  <2>3. r.victim = {}
    BY <1>3, <1>5
  <2>4. QED
    BY <1>2, <1>3, <1>5, <2>1, <2>2, <2>3, TasksMove
<1>6. CASE d \notin devices
  <2> DEFINE r == [cycle[p] EXCEPT !.task[d] = "done"]
  <2>1. /\ r \in Cycle /\ r.pc = cycle[p].pc /\ r.first = cycle[p].first
        /\ r.victim = cycle[p].victim /\ r.removed = cycle[p].removed /\ r.left = cycle[p].left
        /\ \A e \in Device \ {d} : r.task[e] = cycle[p].task[e]
    BY <1>4 DEF Cycle
  <2>2. cycle' = [cycle EXCEPT ![p] = r] /\ facts' = facts
    BY <1>1, <1>6
  <2> HIDE DEF r
  <2>3. QED
    BY <1>5, <2>1, <2>2
<1>7. CASE d \in devices
  <2> DEFINE q == [cycle[p] EXCEPT !.task[d] = optional]
             r == IF status \/ settings THEN [q EXCEPT !.refreshed = @ \cup {d}]
                                        ELSE [q EXCEPT !.failed = @ \cup {d}]
  <2>1. cycle' = [cycle EXCEPT ![p] = r]
    BY <1>1, <1>7, Zenon
  <2>2. /\ q \in Cycle /\ q.pc = cycle[p].pc /\ q.first = cycle[p].first
        /\ q.victim = cycle[p].victim /\ q.removed = cycle[p].removed /\ q.left = cycle[p].left
        /\ \A e \in Device \ {d} : q.task[e] = cycle[p].task[e]
    BY <1>4, <1>9 DEF Cycle
  <2> HIDE DEF q
  <2>3. /\ r \in Cycle /\ r.pc = cycle[p].pc /\ r.first = cycle[p].first
        /\ r.victim = cycle[p].victim /\ r.removed = cycle[p].removed /\ r.left = cycle[p].left
        /\ \A e \in Device \ {d} : r.task[e] = cycle[p].task[e]
    BY <2>2 DEF Cycle
  <2>4. facts' \in [Device -> Facts] /\ \A e \in Device \ {d} : facts'[e] = facts[e]
    BY <1>1, <1>4, <1>7 DEF Facts
  <2> HIDE DEF r
  <2>5. QED
    BY <1>5, <1>7, <2>1, <2>3, <2>4
<1>8. QED
  BY <1>6, <1>7

\* The optional requests of a device are answered.
LEMMA OptionalAnsweredSafe ==
    ASSUME RefreshInv, NEW p \in Process, NEW d \in Device, OptionalAnswered(p, d)
    PROVE  RefreshInv'
<1> DEFINE q == [cycle[p] EXCEPT !.task[d] = "done"]
<1>1. /\ cycle[p].task[d] = "optional"
      /\ UNCHANGED <<locations, devices, sockets, view, cached, event,
                     data, registry, issue, applied>>
      /\ \/ /\ cycle' = [cycle EXCEPT ![p] = q]
            /\ UNCHANGED <<entry, facts, past>>
         \/ /\ d \in devices
            /\ facts' = [facts EXCEPT ![d].status = TRUE]
            /\ cycle' = [cycle EXCEPT ![p] = [q EXCEPT !.refreshed = @ \cup {d},
                                                       !.failed = @ \ {d}]]
            /\ UNCHANGED <<entry, past>>
         \/ InProgress(p) /\ Fail(p, q) /\ UNCHANGED facts
  BY DEF OptionalAnswered, Unpublished
<1>2. TasksLeft(p) /\ cycle[p].victim = {} /\ cycle[p].pc \in {"hydrate", "idle", "ended"}
  BY <1>1, NoVictimOfTasks DEF TasksLeft
<1>3. cycle[p] \in Cycle /\ facts \in [Device -> Facts]
  BY DEF RefreshInv, TypeOK
<1>4. /\ q \in Cycle /\ q.pc = cycle[p].pc /\ q.first = cycle[p].first
      /\ q.victim = cycle[p].victim /\ q.removed = cycle[p].removed /\ q.left = cycle[p].left
      /\ \A e \in Device : q.task[e] \in {"critical", "optional"} =>
             cycle[p].task[e] \in {"critical", "optional"}
  BY <1>1, <1>3 DEF Cycle
<1> HIDE DEF q
<1>5. CASE cycle' = [cycle EXCEPT ![p] = q] /\ UNCHANGED <<entry, facts, past>>
  BY <1>1, <1>2, <1>4, <1>5, TasksMove
<1>6. CASE /\ d \in devices
           /\ facts' = [facts EXCEPT ![d].status = TRUE]
           /\ cycle' = [cycle EXCEPT ![p] = [q EXCEPT !.refreshed = @ \cup {d},
                                                      !.failed = @ \ {d}]]
           /\ UNCHANGED <<entry, past>>
  <2> DEFINE r == [q EXCEPT !.refreshed = @ \cup {d}, !.failed = @ \ {d}]
  <2>1. /\ r \in Cycle /\ r.pc = cycle[p].pc /\ r.first = cycle[p].first
        /\ r.victim = cycle[p].victim /\ r.removed = cycle[p].removed /\ r.left = cycle[p].left
        /\ r.task = q.task
    BY <1>4 DEF Cycle
  <2>2. cycle' = [cycle EXCEPT ![p] = r]
    BY <1>6
  <2>3. facts' \in [Device -> Facts] /\ \A e \in Device \ {d} : facts'[e] = facts[e]
    BY <1>3, <1>6 DEF Facts
  <2> HIDE DEF r
  <2>4. \A e \in Device : r.task[e] \in {"critical", "optional"} =>
            r.pc = "hydrate" \/ cycle[p].task[e] \in {"critical", "optional"}
    BY <1>4, <2>1
  <2>5. \E x \in Device : /\ facts' \in [Device -> Facts] /\ x \in devices
                          /\ \A e \in Device \ {x} : facts'[e] = facts[e]
    BY <1>6, <2>3
  <2>6. r.victim = {}
    BY <1>2, <2>1
  <2>7. QED
    BY <1>1, <1>2, <1>6, <2>1, <2>2, <2>4, <2>5, <2>6, TasksMove
<1>7. CASE InProgress(p) /\ Fail(p, q) /\ UNCHANGED facts
  <2>1. p = "setup" => entry = "setup"
    BY <1>7, SetupRuns DEF InProgress
  <2>2. /\ VictimStopping' /\ TasksBelong' /\ SetupOver' /\ IssueIsCurrent'
        /\ \A o \in Process \ {p} : cycle'[o] = cycle[o]
        /\ past.missed \cup q.removed \cup q.left \subseteq past'.missed
        /\ entry' = entry \/ (entry = "setup" /\ entry' = "failed")
    BY <1>4, <1>7, <2>1, FailKeeps
  <2>3. TypeOK'
    BY <1>1, <1>4, <1>7, FailTyped DEF RefreshInv, TypeOK, EntryState, Past
  <2>4. RemovedStayRemoved' /\ CacheServesUnknown' /\ SocketsKept' /\ NothingNew'
    BY <1>1, <1>7, <2>2 DEF RefreshInv, RInv, RemovedStayRemoved, CacheServesUnknown, SocketsKept, NothingNew
  <2>5. StatesOfLiveSockets'
    <3>1. \A l : Running(l) => Running(l)'
      BY <1>1, <1>2, <2>2 DEF Running
    <3>2. QED
      BY <1>1, <2>2, <3>1 DEF RefreshInv, RInv, StatesOfLiveSockets
  <2>6. GoneNoticed'
    <3>1. \A i : Noticed(i) => Noticed(i)'
      BY <1>4, <2>2 DEF Noticed, Noticing
    <3>2. QED
      BY <1>1, <3>1 DEF RefreshInv, RInv, GoneNoticed, Registrable
  <2>7. QED
    BY <2>2, <2>3, <2>4, <2>5, <2>6 DEF RefreshInv, RInv
<1>8. QED
  BY <1>1, <1>5, <1>6, <1>7

\* The hydration is over.
LEMMA FinishSafe ==
    ASSUME RefreshInv, NEW p \in Process, Finish(p)
    PROVE  RefreshInv'
<1> DEFINE q == cycle[p]
<1>1. /\ q.pc = "hydrate" /\ ~TasksLeft(p)
      /\ UNCHANGED <<locations, devices, facts, sockets, view, cached, applied>>
  BY DEF Finish
<1>2. p = "setup" => entry = "setup"
  BY <1>1, SetupRuns
<1>3. q \in Cycle /\ q.victim = {}
  BY <1>1 DEF RefreshInv, TypeOK, RInv, VictimStopping
<1>4. RemovedStayRemoved' /\ CacheServesUnknown'
  BY <1>1 DEF RefreshInv, RInv, RemovedStayRemoved, CacheServesUnknown
<1>5. CASE Fail(p, q) /\ UNCHANGED <<event, data, registry, issue>>
  <2>1. /\ VictimStopping' /\ TasksBelong' /\ SetupOver' /\ IssueIsCurrent'
        /\ \A o \in Process \ {p} : cycle'[o] = cycle[o]
        /\ past.missed \cup q.removed \cup q.left \subseteq past'.missed
        /\ entry' = entry \/ (entry = "setup" /\ entry' = "failed")
    BY <1>2, <1>3, <1>5, FailKeeps
  <2>2. TypeOK'
    BY <1>1, <1>3, <1>5, FailTyped DEF RefreshInv, TypeOK, EntryState, Past
  <2>3. NothingNew'
    BY <1>5, <2>1 DEF RefreshInv, RInv, NothingNew
  <2>7. SocketsKept'
    BY <1>1, <2>1 DEF RefreshInv, RInv, SocketsKept
  <2>4. StatesOfLiveSockets'
    <3>1. \A l : Running(l) => Running(l)'
      BY <1>1, <1>3, <2>1 DEF Running
    <3>2. QED
      BY <1>1, <2>1, <3>1 DEF RefreshInv, RInv, StatesOfLiveSockets
  <2>5. GoneNoticed'
    <3>1. \A i : Noticed(i) => Noticed(i)'
      BY <2>1 DEF Noticed, Noticing
    <3>2. QED
      BY <1>1, <1>5, <3>1 DEF RefreshInv, RInv, GoneNoticed, Registrable
  <2>6. QED
    BY <1>4, <2>1, <2>2, <2>3, <2>4, <2>5, <2>7 DEF RefreshInv, RInv
<1>6. CASE /\ issue' = Issue(devices, facts)
           /\ entry' = IF p = "setup" /\ ~q.first THEN "refreshed" ELSE entry
           /\ cycle' = [cycle EXCEPT ![p] =
                IF q.first THEN Asking(Rest)
                ELSE [Rest EXCEPT !.pc = IF p = "setup" THEN "ended" ELSE "idle"]]
           /\ UNCHANGED event
           /\ Publish(Cleaned(q))
           /\ past' = [lapsed |-> \E o \in Process \ {p} : Straggling(o),
                       missed |-> past.missed \ (q.removed \cup q.left)]
  <2> DEFINE r == IF q.first THEN Asking(Rest)
                  ELSE [Rest EXCEPT !.pc = IF p = "setup" THEN "ended" ELSE "idle"]
  <2>1. cycle' = [cycle EXCEPT ![p] = r]
    BY <1>6
  <2>2. /\ r \in Cycle /\ r.victim = {} /\ r.first = FALSE /\ r.task = NoTasks
        /\ r.pc = IF q.first THEN "hierarchy" ELSE IF p = "setup" THEN "ended" ELSE "idle"
    <3>1. CASE q.first
      BY <3>1, RestTyped, AskingTyped DEF RefreshInv, Asking, Rest
    <3>2. CASE ~q.first
      <4>1. r = [Rest EXCEPT !.pc = IF p = "setup" THEN "ended" ELSE "idle"]
        BY <3>2
      <4> HIDE DEF r
      <4>2. r \in Cycle
        BY <4>1, RestTyped DEF Cycle
      <4>3. QED
        BY <3>2, <4>1, <4>2 DEF Rest
    <3>3. QED
      BY <3>1, <3>2
  <2> HIDE DEF r
  <2>3. cycle' \in [Process -> Cycle] /\ cycle'[p] = r /\ \A o \in Process \ {p} : cycle'[o] = cycle[o]
    BY <2>1, <2>2 DEF RefreshInv, TypeOK
  <2>4. (q.first => p = "setup") /\ entry' = IF p = "setup" /\ ~q.first THEN "refreshed" ELSE entry
    BY <1>6 DEF RefreshInv, RInv, SetupOver
  <2>5. /\ past'.missed = past.missed \ (q.removed \cup q.left)
        /\ past'.lapsed = \E o \in Process \ {p} : Straggling(o)
    BY <1>6
  <2>6. Cleaned(q) = registry \ (q.removed \cup q.left)
    BY DEF Cleaned
  <2>7. /\ data'.locations = locations /\ data'.supported \subseteq devices
        /\ \A i \in registry' : i \in Cleaned(q) \/ i \in devices \cup locations
        /\ entry' # "loaded" => registry' = Cleaned(q)
    BY <1>1, <1>6, PublishShows
  <2>8. TypeOK'
    <3>1. data' \in Data /\ registry' \subseteq Item
      <4>1. Cleaned(q) \in SUBSET Item
        BY <2>6 DEF RefreshInv, TypeOK
      <4>2. QED
        BY <1>1, <1>6, <4>1, PublishTyped DEF RefreshInv, TypeOK
    <3>2. past' \in Past
      <4>1. (\E o \in Process \ {p} : Straggling(o)) \in BOOLEAN
        OBVIOUS
      <4>2. past.missed \ (q.removed \cup q.left) \in SUBSET Item
        BY DEF RefreshInv, TypeOK
      <4>3. QED
        BY <1>6, <4>1, <4>2 DEF Past
    <3>3. issue' \in {"none", "some", "all"}
      BY <1>6 DEF Issue
    <3>4. event' \in BOOLEAN
      BY <1>6 DEF RefreshInv, TypeOK
    <3>5. entry' \in EntryState
      BY <2>4 DEF RefreshInv, TypeOK, EntryState
    <3>6. QED
      BY <1>1, <2>3, <3>1, <3>2, <3>3, <3>4, <3>5 DEF RefreshInv, TypeOK, EntryState, Past, Data
  <2>9. VictimStopping' /\ SetupOver'
    BY <1>2, <2>2, <2>3, <2>4 DEF RefreshInv, RInv, VictimStopping, SetupOver, Process
  <2>10. TasksBelong'
    <3>1. ~TasksLeft(p)'
      BY <2>2, <2>3 DEF TasksLeft, NoTasks
    <3>2. \A o \in Process \ {p} : TasksLeft(o)' <=> TasksLeft(o)
      BY <2>3 DEF TasksLeft
    <3>3. \A o \in Process \ {p} : TasksLeft(o) /\ cycle[o].pc \in {"idle", "ended"} => past'.lapsed
      BY <2>5 DEF Straggling, InProgress
    <3>4. QED
      BY <2>3, <3>1, <3>2, <3>3 DEF RefreshInv, RInv, TasksBelong
  <2>11. NothingNew'
    <3> SUFFICES ASSUME entry' \in {"setup", "refreshed", "failed"}
                 PROVE  registry' \subseteq past'.missed
      BY DEF NothingNew
    <3>1. entry \in {"setup", "refreshed", "failed"}
      BY <1>2, <2>4
    <3>2. registry \subseteq past.missed /\ registry' = Cleaned(q)
      BY <2>7, <3>1 DEF RefreshInv, RInv, NothingNew
    <3>3. QED
      BY <2>5, <2>6, <3>2
  <2>16. SocketsKept'
    BY <1>1, <1>2, <2>4 DEF RefreshInv, RInv, SocketsKept
  <2>12. StatesOfLiveSockets'
    <3>1. \A l : Running(l) => Running(l)'
      BY <1>1, <1>3, <2>3 DEF Running
    <3>2. entry' # "unloaded" => entry # "unloaded"
      BY <1>2, <2>4
    <3>3. QED
      BY <1>1, <3>1, <3>2 DEF RefreshInv, RInv, StatesOfLiveSockets
  <2>13. GoneNoticed'
    <3> SUFFICES ASSUME NEW i \in Registrable', i \notin devices \cup locations
                 PROVE  Noticed(i)'
      BY <1>1 DEF GoneNoticed
    <3>1. i \in registry /\ i \notin q.removed \cup q.left
      BY <2>6, <2>7 DEF Registrable
    <3>2. Noticed(i)
      BY <3>1 DEF RefreshInv, RInv, GoneNoticed, Registrable
    <3>3. QED
      BY <2>3, <2>5, <3>1, <3>2 DEF Noticed, Noticing
  <2>14. IssueIsCurrent'
    BY <1>1, <1>6 DEF IssueIsCurrent, Issue
  <2>15. QED
    BY <1>4, <2>8, <2>9, <2>10, <2>11, <2>12, <2>13, <2>14, <2>16 DEF RefreshInv, RInv
<1>7. QED
  BY <1>5, <1>6 DEF Finish

----------------------------------------------------------------------------
(* The sockets' callbacks, and the config entry                            *)

\* A step that leaves refreshes, devices and sockets as they are keeps what only
\* depends on them.
LEMMA RefreshesRest ==
    ASSUME RefreshInv, UNCHANGED <<entry, cycle, devices, locations, sockets, applied, past>>
    PROVE  /\ VictimStopping' /\ TasksBelong' /\ SetupOver'
           /\ \A l : Running(l) => Running(l)'
           /\ \A i : Noticed(i) => Noticed(i)'
BY DEF RefreshInv, RInv, VictimStopping, TasksBelong, TasksLeft, SetupOver, Running,
       Noticed, Noticing

\* Publishing the devices and locations there are keeps the registries in order.
LEMMA PublishKeeps ==
    ASSUME RefreshInv, UNCHANGED <<entry, cycle, devices, locations, sockets, applied, past>>,
           facts' \in [Device -> Facts], Publish(registry)
    PROVE  GoneNoticed' /\ NothingNew' /\ data' \in Data /\ registry' \subseteq Item
<1>1. /\ data'.locations = locations /\ data'.supported \subseteq devices
      /\ \A i \in registry' : i \in registry \/ i \in devices \cup locations
      /\ entry' # "loaded" => registry' = registry
  BY PublishShows
<1>2. GoneNoticed'
  <2> SUFFICES ASSUME NEW i \in Registrable', i \notin devices \cup locations
               PROVE  Noticed(i)'
    BY DEF GoneNoticed
  <2>1. i \in registry
    BY <1>1 DEF Registrable
  <2>2. Noticed(i)
    BY <2>1 DEF RefreshInv, RInv, GoneNoticed, Registrable
  <2>3. QED
    BY <2>2, RefreshesRest
<1>3. NothingNew'
  BY <1>1 DEF RefreshInv, RInv, NothingNew
<1>4. data' \in Data /\ registry' \subseteq Item
  BY PublishTyped DEF RefreshInv, TypeOK
<1>5. QED
  BY <1>2, <1>3, <1>4

\* A socket reports.
LEMMA StateChangedSafe ==
    ASSUME RefreshInv, NEW l \in Location, StateChanged(l)
    PROVE  RefreshInv'
<1>1. /\ Alive(l) /\ Publish(registry)
      /\ UNCHANGED <<entry, cycle, locations, devices, facts, sockets, cached, issue, event,
                     applied, past>>
  BY DEF StateChanged
<1>2. PICK state \in Socket!View :
          view' = [m \in DOMAIN view \cup {l} |-> IF m = l THEN state ELSE view[m]]
  BY DEF StateChanged
<1>3. DOMAIN view' = DOMAIN view \cup {l}
  BY <1>2
<1>4. GoneNoticed' /\ NothingNew' /\ data' \in Data /\ registry' \subseteq Item
  BY <1>1, PublishKeeps DEF RefreshInv, TypeOK
<1>5. /\ VictimStopping' /\ TasksBelong' /\ SetupOver'
      /\ \A m : Running(m) => Running(m)'
  BY <1>1, RefreshesRest
<1>6. TypeOK'
  <2>1. \A m \in DOMAIN view' : view'[m] \in [connected : BOOLEAN, synced : BOOLEAN]
    BY <1>2 DEF Socket!View, RefreshInv, TypeOK
  <2>2. QED
    BY <1>1, <1>3, <1>4, <2>1 DEF RefreshInv, TypeOK, Data
<1>7. StatesOfLiveSockets'
  <2> SUFFICES ASSUME entry # "unloaded", NEW m \in DOMAIN view'
               PROVE  \/ Running(m)'
                      \/ m \in sockets.raised /\ (view'[m].connected => m \in sockets.ending)
    BY <1>1 DEF StatesOfLiveSockets
  <2>1. CASE m = l
    BY <1>1, <1>5, <2>1 DEF Alive, RefreshInv, RInv, SocketsKept
  <2>2. CASE m # l
    BY <1>2, <1>3, <1>5, <2>2 DEF RefreshInv, RInv, StatesOfLiveSockets
  <2>3. QED
    BY <2>1, <2>2
<1>8. RemovedStayRemoved' /\ CacheServesUnknown' /\ SocketsKept'
  BY <1>1 DEF RefreshInv, RInv, RemovedStayRemoved, CacheServesUnknown, SocketsKept
<1>9. IssueIsCurrent'
  BY <1>1 DEF RefreshInv, RInv, IssueIsCurrent, InProgress, TasksLeft, Issue
<1>10. QED
  BY <1>4, <1>5, <1>6, <1>7, <1>8, <1>9 DEF RefreshInv, RInv

\* The runner of a socket whose stop raised ends.
LEMMA RunnerEndsSafe ==
    ASSUME RefreshInv, NEW l \in Location, RunnerEnds(l)
    PROVE  RefreshInv'
<1> DEFINE ending == sockets.ending \ {l}
<1>1. /\ l \in DOMAIN view /\ view[l].connected => Running(l)
      /\ sockets' = [sockets EXCEPT !.ending = ending]
      /\ UNCHANGED <<entry, cycle, locations, devices, facts, view, cached, event, past,
                     data, registry, issue, applied>>
  BY DEF RunnerEnds, Unpublished
<1>2. /\ ending \in SUBSET Location /\ ending \subseteq sockets.ending
      /\ \A m : m \in sockets.ending => m \in ending \/ m = l
  BY DEF RefreshInv, TypeOK, Sockets
<1> HIDE DEF ending
<1>3. /\ sockets' \in Sockets /\ sockets'.ending = ending
      /\ sockets'.held = sockets.held /\ sockets'.loose = sockets.loose
      /\ sockets'.closing = sockets.closing /\ sockets'.raised = sockets.raised
  BY <1>1, <1>2 DEF RefreshInv, TypeOK, Sockets
<1>4. TypeOK'
  BY <1>1, <1>3 DEF RefreshInv, TypeOK
<1>5. VictimStopping' /\ TasksBelong' /\ SetupOver'
  BY <1>1 DEF RefreshInv, RInv, VictimStopping, TasksBelong, TasksLeft, SetupOver
<1>6. RemovedStayRemoved' /\ CacheServesUnknown' /\ SocketsKept' /\ NothingNew'
  BY <1>1, <1>2, <1>3
     DEF RefreshInv, RInv, RemovedStayRemoved, CacheServesUnknown, SocketsKept, NothingNew
<1>7. StatesOfLiveSockets'
  <2>1. \A m : Running(m) => Running(m)'
    BY <1>1, <1>3 DEF Running
  <2>2. QED
    BY <1>1, <1>2, <1>3, <2>1 DEF RefreshInv, RInv, StatesOfLiveSockets
<1>8. GoneNoticed'
  BY <1>1 DEF RefreshInv, RInv, GoneNoticed, Registrable, Noticed, Noticing
<1>9. IssueIsCurrent'
  BY <1>1 DEF RefreshInv, RInv, IssueIsCurrent, InProgress, TasksLeft, Issue
<1>10. QED
  BY <1>4, <1>5, <1>6, <1>7, <1>8, <1>9 DEF RefreshInv, RInv

\* Nothing but events and the cache changes.
LEMMA CacheMoves ==
    ASSUME RefreshInv, event' \in BOOLEAN,
           cached' \in [Device -> 0..MaxCached], \A d \in devices : cached'[d] = 0,
           UNCHANGED <<entry, cycle, locations, devices, facts, sockets, view, past,
                       data, registry, issue, applied>>
    PROVE  RefreshInv'
<1>1. TypeOK'
  BY DEF RefreshInv, TypeOK
<1>2. /\ VictimStopping' /\ TasksBelong' /\ SetupOver'
      /\ (\A l : Running(l) => Running(l)') /\ (\A i : Noticed(i) => Noticed(i)')
  BY RefreshesRest
<1>3. RemovedStayRemoved' /\ CacheServesUnknown' /\ SocketsKept' /\ NothingNew' /\ GoneNoticed'
  BY <1>2 DEF RefreshInv, RInv, RemovedStayRemoved, CacheServesUnknown, SocketsKept, NothingNew,
              GoneNoticed, Registrable
<1>4. StatesOfLiveSockets'
  BY <1>2 DEF RefreshInv, RInv, StatesOfLiveSockets
<1>5. IssueIsCurrent'
  BY DEF RefreshInv, RInv, IssueIsCurrent, InProgress, TasksLeft, Issue
<1>6. QED
  BY <1>1, <1>2, <1>3, <1>4, <1>5 DEF RefreshInv, RInv

\* A refresh event, a request dropped, a message of an unknown device.
LEMMA EventsSafe ==
    ASSUME RefreshInv,
           \/ \E l \in Location : RefreshEvent(l)
           \/ \E l \in Location, d \in Device : UnknownMessage(l, d)
           \/ RequestDropped
    PROVE  RefreshInv'
<1>1. cached \in [Device -> 0..MaxCached] /\ (\A d \in devices : cached[d] = 0)
  BY DEF RefreshInv, TypeOK, RInv, CacheServesUnknown
<1>2. Schedule => event' \in BOOLEAN
  BY DEF Schedule, RefreshInv, TypeOK, InProgress, Cycle, Process
<1>3. CASE \E l \in Location : RefreshEvent(l)
  BY <1>1, <1>2, <1>3, CacheMoves DEF RefreshEvent, Unpublished
<1>4. CASE RequestDropped
  <2>1. event' \in BOOLEAN
    BY <1>4 DEF RequestDropped, RefreshInv, TypeOK
  <2>2. QED
    BY <1>1, <1>4, <2>1, CacheMoves DEF RequestDropped, Unpublished
<1>5. ASSUME NEW l \in Location, NEW d \in Device, UnknownMessage(l, d)
      PROVE  RefreshInv'
  <2>1. PICK kept \in [Device -> 0..MaxCached] :
            /\ \A e \in Device : kept[e] <= cached[e]
            /\ cached' = [kept EXCEPT ![d] = Capped(@ + 1)]
    BY <1>5 DEF UnknownMessage
  <2>2. cached' \in [Device -> 0..MaxCached]
    BY <2>1, CachedAssumption DEF Capped
  <2>3. \A e \in devices : cached'[e] = 0
    <3> SUFFICES ASSUME NEW e \in devices PROVE cached'[e] = 0
      OBVIOUS
    <3>1. e \in Device /\ e # d /\ cached[e] = 0
      BY <1>1, <1>5 DEF UnknownMessage, RefreshInv, TypeOK
    <3>2. kept[e] <= 0 /\ kept[e] \in Nat
      BY <2>1, <3>1, CachedAssumption
    <3>3. QED
      BY <2>1, <3>1, <3>2
  <2>4. QED
    BY <1>2, <1>5, <2>2, <2>3, CacheMoves DEF UnknownMessage, Unpublished
<1>6. QED
  BY <1>3, <1>4, <1>5

\* The repair issue depends on which devices have settings.
LEMMA IssueOfSettings ==
    ASSUME NEW known, NEW told, NEW devs, \A d \in devs : known[d].settings = told[d].settings
    PROVE  Issue(devs, known) = Issue(devs, told)
<1>1. {d \in devs : Supported(d, known)} = {d \in devs : Supported(d, told)}
  BY DEF Supported
<1>2. QED
  BY <1>1 DEF Issue

\* A message of a device of the hierarchy.
LEMMA DeviceMessageSafe ==
    ASSUME RefreshInv, NEW l \in Location, NEW d \in Device, DeviceMessage(l, d)
    PROVE  RefreshInv'
<1>1. /\ d \in devices /\ Publish(registry)
      /\ UNCHANGED <<entry, cycle, locations, devices, sockets, view, cached, event, applied, past>>
  BY DEF DeviceMessage
<1>2. PICK known \in {[facts[d] EXCEPT !.settings = TRUE],
                      [facts[d] EXCEPT !.status = @ \/ d \in Known]} :
          facts' = [facts EXCEPT ![d] = known] /\ issue' = IssueAfter(d, known)
  BY DEF DeviceMessage
<1>3. facts \in [Device -> Facts]
  BY DEF RefreshInv, TypeOK
<1>4. known \in Facts
  BY <1>2, <1>3 DEF Facts
<1>5. facts' \in [Device -> Facts] /\ \A e \in Device \ devices : facts'[e] = facts[e]
  BY <1>1, <1>2, <1>3, <1>4
<1>6. GoneNoticed' /\ NothingNew' /\ data' \in Data /\ registry' \subseteq Item
  BY <1>1, <1>5, PublishKeeps
<1>7. /\ VictimStopping' /\ TasksBelong' /\ SetupOver'
      /\ \A m : Running(m) => Running(m)'
  BY <1>1, RefreshesRest
<1>8. TypeOK'
  <2>1. issue' \in {"none", "some", "all"}
    BY <1>2 DEF IssueAfter, Issue, RefreshInv, TypeOK
  <2>2. QED
    BY <1>1, <1>5, <1>6, <2>1 DEF RefreshInv, TypeOK, Data
<1>9. RemovedStayRemoved' /\ CacheServesUnknown' /\ SocketsKept'
  BY <1>1, <1>5 DEF RefreshInv, RInv, RemovedStayRemoved, CacheServesUnknown, SocketsKept
<1>10. StatesOfLiveSockets'
  BY <1>1, <1>7 DEF RefreshInv, RInv, StatesOfLiveSockets
<1>11. IssueIsCurrent'
  <2> SUFFICES ASSUME entry \in {"refreshed", "loaded"}, ~past.lapsed,
                      \A p \in Process : ~InProgress(p)' /\ ~TasksLeft(p)'
               PROVE  issue' = Issue(devices, facts')
    BY <1>1 DEF IssueIsCurrent, Issue
  <2>1. issue = Issue(devices, facts)
    BY <1>1 DEF RefreshInv, RInv, IssueIsCurrent, InProgress, TasksLeft
  <2>2. CASE known.settings # facts[d].settings
    BY <1>2, <2>2 DEF IssueAfter
  <2>3. CASE known.settings = facts[d].settings
    <3>1. \A e \in devices : facts'[e].settings = facts[e].settings
      BY <1>2, <1>3, <2>3 DEF RefreshInv, TypeOK
    <3>2. QED
      BY <1>2, <2>1, <2>3, <3>1, IssueOfSettings DEF IssueAfter
  <2>4. QED
    BY <2>2, <2>3
<1>12. QED
  BY <1>6, <1>7, <1>8, <1>9, <1>10, <1>11 DEF RefreshInv, RInv

\* The platforms are loaded.
LEMMA LoadSafe ==
    ASSUME RefreshInv, Load
    PROVE  RefreshInv'
<1>1. /\ entry = "refreshed" /\ entry' = "loaded"
      /\ registry' = registry \cup data.supported \cup data.locations
      /\ UNCHANGED <<cycle, locations, devices, facts, sockets, view, cached, data, issue,
                     event, applied, past>>
  BY DEF Load
<1>2. TypeOK'
  BY <1>1 DEF RefreshInv, TypeOK, Item
<1>3. VictimStopping' /\ TasksBelong' /\ SetupOver'
  BY <1>1 DEF RefreshInv, RInv, VictimStopping, TasksBelong, TasksLeft, SetupOver
<1>4. RemovedStayRemoved' /\ CacheServesUnknown' /\ SocketsKept' /\ NothingNew'
  BY <1>1 DEF RefreshInv, RInv, RemovedStayRemoved, CacheServesUnknown, SocketsKept, NothingNew
<1>5. StatesOfLiveSockets'
  BY <1>1 DEF RefreshInv, RInv, StatesOfLiveSockets, Running
<1>6. GoneNoticed'
  BY <1>1 DEF RefreshInv, RInv, GoneNoticed, Registrable, Noticed, Noticing
<1>7. IssueIsCurrent'
  BY <1>1 DEF RefreshInv, RInv, IssueIsCurrent, InProgress, TasksLeft, Issue
<1>8. QED
  BY <1>2, <1>3, <1>4, <1>5, <1>6, <1>7 DEF RefreshInv, RInv

\* The user deletes a device.
LEMMA UserDeletesSafe ==
    ASSUME RefreshInv, NEW d \in Device, UserDeletes(d)
    PROVE  RefreshInv'
<1>1. /\ registry' = registry \ {d}
      /\ UNCHANGED <<entry, cycle, locations, devices, facts, sockets, view, cached, data,
                     issue, event, applied, past>>
  BY DEF UserDeletes
<1>2. TypeOK'
  BY <1>1 DEF RefreshInv, TypeOK
<1>3. /\ VictimStopping' /\ TasksBelong' /\ SetupOver'
      /\ (\A l : Running(l) => Running(l)') /\ (\A i : Noticed(i) => Noticed(i)')
  BY <1>1, RefreshesRest
<1>4. RemovedStayRemoved' /\ CacheServesUnknown' /\ SocketsKept' /\ NothingNew' /\ GoneNoticed'
  BY <1>1, <1>3 DEF RefreshInv, RInv, RemovedStayRemoved, CacheServesUnknown, SocketsKept, NothingNew,
                    GoneNoticed, Registrable
<1>5. StatesOfLiveSockets'
  BY <1>1, <1>3 DEF RefreshInv, RInv, StatesOfLiveSockets
<1>6. IssueIsCurrent'
  BY <1>1 DEF RefreshInv, RInv, IssueIsCurrent, InProgress, TasksLeft, Issue
<1>7. QED
  BY <1>2, <1>3, <1>4, <1>5, <1>6 DEF RefreshInv, RInv

\* The entry is unloaded: the sockets that a cancelled refresh was stopping live on.
LEMMA UnloadSafe ==
    ASSUME RefreshInv, Unload
    PROVE  RefreshInv'
<1> DEFINE q == cycle["update"]
<1>1. /\ entry \in {"refreshed", "loaded"} /\ entry' = "unloading" /\ issue' = "none"
      /\ event' = FALSE
      /\ UNCHANGED <<locations, devices, facts, view, cached, data, registry, applied>>
      /\ IF q.byEvent
         THEN /\ cycle' = [cycle EXCEPT !["update"] = Rest]
              /\ sockets' = [sockets EXCEPT !.closing = sockets.held, !.loose = @ \cup q.victim]
              /\ past' = [past EXCEPT !.missed = @ \cup q.removed \cup q.left]
         ELSE /\ sockets' = [sockets EXCEPT !.closing = sockets.held]
              /\ UNCHANGED <<cycle, past>>
  BY DEF Unload
<1>2. /\ q \in Cycle /\ cycle \in [Process -> Cycle] /\ past \in Past
      /\ sockets \in Sockets
  BY DEF RefreshInv, TypeOK, Past, Process
<1>3. q.removed \subseteq Device /\ q.left \subseteq Location /\ q.victim \subseteq Location
  BY <1>2 DEF Cycle
<1>4. /\ cycle' \in [Process -> Cycle] /\ past' \in Past
      /\ cycle'["setup"] = cycle["setup"] /\ cycle'["update"] \in {q, Rest}
      /\ past'.lapsed = past.lapsed /\ past.missed \subseteq past'.missed
      /\ cycle' = cycle \/ q.removed \cup q.left \subseteq past'.missed
  <2>1. CASE q.byEvent
    <3>1. cycle' \in [Process -> Cycle] /\ cycle'["setup"] = cycle["setup"] /\ cycle'["update"] = Rest
      BY <1>1, <1>2, <2>1, RestTyped DEF Process
    <3>2. /\ past' \in Past /\ past'.lapsed = past.lapsed
          /\ past'.missed = past.missed \cup q.removed \cup q.left
      BY <1>1, <1>2, <1>3, <2>1 DEF Past, Item
    <3>3. QED
      BY <3>1, <3>2
  <2>2. CASE ~q.byEvent
    BY <1>1, <1>2, <2>2
  <2>3. QED
    BY <2>1, <2>2
<1>5. /\ sockets' \in Sockets
      /\ sockets'.closing = sockets.held /\ sockets'.held = sockets.held
      /\ sockets'.raised = sockets.raised /\ sockets'.ending = sockets.ending
      /\ sockets.loose \subseteq sockets'.loose
      /\ cycle' = cycle \/ q.victim \subseteq sockets'.loose
  <2>1. CASE q.byEvent
    <3> DEFINE h == sockets.held
               n == sockets.loose \cup q.victim
    <3>1. sockets' = [sockets EXCEPT !.closing = h, !.loose = n] /\ q.victim \subseteq n
      BY <1>1, <2>1
    <3>2. h \in SUBSET Location /\ n \in SUBSET Location /\ sockets.loose \subseteq n
      BY <1>2, <1>3 DEF Sockets
    <3> HIDE DEF n, h
    <3>3. /\ sockets' \in Sockets
          /\ sockets'.closing = h /\ sockets'.held = sockets.held /\ sockets'.loose = n
          /\ sockets'.raised = sockets.raised /\ sockets'.ending = sockets.ending
      BY <1>2, <3>1, <3>2 DEF Sockets
    <3>4. QED
      BY <3>1, <3>2, <3>3 DEF h
  <2>2. CASE ~q.byEvent
    BY <1>1, <1>2, <2>2 DEF Sockets
  <2>3. QED
    BY <2>1, <2>2
<1>6. TypeOK'
  BY <1>1, <1>4, <1>5 DEF RefreshInv, TypeOK, Past
<1>7. VictimStopping' /\ SetupOver'
  BY <1>1, <1>4 DEF RefreshInv, RInv, VictimStopping, SetupOver, Process, Rest
<1>8. TasksBelong'
  <2>1. \A p \in Process : TasksLeft(p)' => TasksLeft(p) /\ cycle'[p] = cycle[p]
    BY <1>4 DEF TasksLeft, Process, Rest, NoTasks
  <2>2. QED
    BY <1>4, <2>1 DEF RefreshInv, RInv, TasksBelong
<1>9. RemovedStayRemoved' /\ CacheServesUnknown' /\ SocketsKept' /\ NothingNew' /\ IssueIsCurrent'
  BY <1>1, <1>5 DEF RefreshInv, RInv, RemovedStayRemoved, CacheServesUnknown, SocketsKept,
              NothingNew, IssueIsCurrent
<1>10. GoneNoticed'
  <2>1. \A i : Noticed(i) => Noticed(i)'
    BY <1>4 DEF Noticed, Noticing, Process
  <2>2. QED
    BY <1>1, <2>1 DEF RefreshInv, RInv, GoneNoticed, Registrable
<1>11. StatesOfLiveSockets'
  <2> SUFFICES ASSUME NEW l \in DOMAIN view, Running(l) PROVE Running(l)'
    BY <1>1, <1>5 DEF RefreshInv, RInv, StatesOfLiveSockets
  <2>1. l \notin sockets.closing
    BY <1>1 DEF RefreshInv, RInv, SocketsKept
  <2>2. QED
    BY <1>4, <1>5, <2>1 DEF Running, Process
<1>12. QED
  BY <1>6, <1>7, <1>8, <1>9, <1>10, <1>11 DEF RefreshInv, RInv

\* The shutdown is over.
LEMMA ShutdownEndsSafe ==
    ASSUME RefreshInv, ShutdownEnds
    PROVE  RefreshInv'
<1>1. /\ entry = "unloading" /\ entry' = "unloaded"
      /\ UNCHANGED <<cycle, locations, devices, facts, view, cached, event, past,
                     data, registry, issue, applied>>
  BY DEF ShutdownEnds, Unpublished
<1>7. PICK raised \in SUBSET sockets.closing :
         sockets' = [held |-> {}, closing |-> {},
                     loose |-> sockets.loose \cup (sockets.held \ sockets.closing),
                     raised |-> sockets.raised \cup raised,
                     ending |-> sockets.ending \cup raised]
  BY DEF ShutdownEnds
<1>2. TypeOK'
  <2>1. sockets' \in Sockets
    <3>1. /\ sockets.loose \cup (sockets.held \ sockets.closing) \in SUBSET Location
          /\ sockets.raised \cup raised \in SUBSET Location
          /\ sockets.ending \cup raised \in SUBSET Location
      BY DEF RefreshInv, TypeOK, Sockets
    <3>2. QED
      BY <1>7, <3>1 DEF Sockets
  <2>2. QED
    BY <1>1, <2>1 DEF RefreshInv, TypeOK
<1>3. VictimStopping' /\ TasksBelong' /\ SetupOver' /\ SocketsKept'
  BY <1>1, <1>7 DEF RefreshInv, RInv, VictimStopping, TasksBelong, TasksLeft, SetupOver, SocketsKept
<1>4. /\ RemovedStayRemoved' /\ CacheServesUnknown' /\ NothingNew'
      /\ StatesOfLiveSockets' /\ IssueIsCurrent'
  BY <1>1 DEF RefreshInv, RInv, RemovedStayRemoved, CacheServesUnknown, NothingNew,
              StatesOfLiveSockets, IssueIsCurrent
<1>5. GoneNoticed'
  BY <1>1 DEF RefreshInv, RInv, GoneNoticed, Registrable, Noticed, Noticing
<1>6. QED
  BY <1>2, <1>3, <1>4, <1>5 DEF RefreshInv, RInv

----------------------------------------------------------------------------
(* The invariant                                                           *)

\* It holds at first.
LEMMA RefreshInit == Init => RefreshInv
<1> SUFFICES ASSUME Init PROVE RefreshInv
  OBVIOUS
<1>1. TypeOK
  <2>1. cycle \in [Process -> Cycle]
    BY RestTyped DEF Init
  <2>2. data \in Data
    BY DEF Init, Snapshot, Data
  <2>3. registry \subseteq Item /\ past \in Past
    BY LeftoverAssumption DEF Init, Item, Past
  <2>4. facts \in [Device -> Facts] /\ cached \in [Device -> 0..MaxCached]
    BY CachedAssumption DEF Init, Facts, NoFacts
  <2>5. DOMAIN view = {}
    BY DEF Init
  <2>6. QED
    BY <2>1, <2>2, <2>3, <2>4, <2>5 DEF Init, TypeOK, Data, Past, Sockets, NoSockets
<1>2. \A p \in Process : cycle[p] = Rest
  BY DEF Init
<1>3. VictimStopping /\ TasksBelong /\ SetupOver /\ SocketsKept
  BY <1>2 DEF Init, VictimStopping, TasksBelong, TasksLeft, SetupOver, SocketsKept,
                   NoSockets, Rest, NoTasks
<1>4. RemovedStayRemoved /\ CacheServesUnknown /\ NothingNew /\ IssueIsCurrent
  BY DEF Init, RemovedStayRemoved, CacheServesUnknown, NothingNew, IssueIsCurrent
<1>5. StatesOfLiveSockets
  <2>1. DOMAIN view = {}
    BY DEF Init
  <2>2. QED
    BY <2>1 DEF StatesOfLiveSockets
<1>6. GoneNoticed
  BY DEF Init, GoneNoticed, Registrable, Noticed, Snapshot
<1>7. QED
  BY <1>1, <1>3, <1>4, <1>5, <1>6 DEF RefreshInv, RInv

\* Every step keeps it.
LEMMA RefreshStep == RefreshInv /\ [Next]_vars => RefreshInv'
<1> SUFFICES ASSUME RefreshInv, [Next]_vars PROVE RefreshInv'
  OBVIOUS
<1>1. CASE UNCHANGED vars
  <2>1. TypeOK'
    BY <1>1 DEF vars, RefreshInv, TypeOK
  <2>2. VictimStopping' /\ TasksBelong' /\ SetupOver' /\ SocketsKept'
    BY <1>1 DEF vars, RefreshInv, RInv, VictimStopping, TasksBelong, TasksLeft, SetupOver,
                SocketsKept
  <2>3. RemovedStayRemoved' /\ CacheServesUnknown' /\ NothingNew' /\ StatesOfLiveSockets'
    BY <1>1 DEF vars, RefreshInv, RInv, RemovedStayRemoved, CacheServesUnknown, NothingNew,
                StatesOfLiveSockets, Running
  <2>4. GoneNoticed'
    BY <1>1 DEF vars, RefreshInv, RInv, GoneNoticed, Registrable, Noticed, Noticing
  <2>5. IssueIsCurrent'
    BY <1>1 DEF vars, RefreshInv, RInv, IssueIsCurrent, InProgress, TasksLeft, Issue
  <2>6. QED
    BY <2>1, <2>2, <2>3, <2>4, <2>5 DEF RefreshInv, RInv
<1>2. CASE Followed
  <2>1. ASSUME NEW p \in Process, NEW byEvent \in BOOLEAN, Begin(p, byEvent) PROVE RefreshInv'
    BY <2>1, BeginSafe
  <2>2. ASSUME NEW p \in Process, CycleStep(p) PROVE RefreshInv'
    <3>1. CASE HierarchyFails(p)
      BY <3>1, HierarchyFailsSafe
    <3>2. CASE HierarchyAnswered(p)
      BY <3>2, HierarchyAnsweredSafe
    <3>3. CASE SocketStopped(p)
      BY <3>3, SocketStoppedSafe
    <3>4. CASE SocketsStarted(p)
      BY <3>4, SocketsStartedSafe
    <3>5. ASSUME NEW d \in Device, CriticalAnswered(p, d) PROVE RefreshInv'
      BY <3>5, CriticalAnsweredSafe
    <3>6. ASSUME NEW d \in Device, OptionalAnswered(p, d) PROVE RefreshInv'
      BY <3>6, OptionalAnsweredSafe
    <3>7. CASE Finish(p)
      BY <3>7, FinishSafe
    <3>8. CASE StopRaises(p)
      BY <3>8, StopRaisesSafe
    <3>9. QED
      BY <2>2, <3>1, <3>2, <3>3, <3>4, <3>5, <3>6, <3>7, <3>8 DEF CycleStep
  <2>3. ASSUME NEW l \in Location, StateChanged(l) PROVE RefreshInv'
    BY <2>3, StateChangedSafe
  <2>4. ASSUME NEW l \in Location, NEW d \in Device, DeviceMessage(l, d) PROVE RefreshInv'
    BY <2>4, DeviceMessageSafe
  <2>5. CASE \/ \E l \in Location : RefreshEvent(l)
             \/ \E l \in Location, d \in Device : UnknownMessage(l, d)
             \/ RequestDropped
    BY <2>5, EventsSafe
  <2>6. ASSUME NEW d \in Device, UserDeletes(d) PROVE RefreshInv'
    BY <2>6, UserDeletesSafe
  <2>7. CASE Load
    BY <2>7, LoadSafe
  <2>8. CASE Unload
    BY <2>8, UnloadSafe
  <2>9. CASE ShutdownEnds
    BY <2>9, ShutdownEndsSafe
  <2>10. ASSUME NEW l \in Location, RunnerEnds(l) PROVE RefreshInv'
    BY <2>10, RunnerEndsSafe
  <2>11. QED
    BY <1>2, <2>1, <2>2, <2>3, <2>4, <2>5, <2>6, <2>7, <2>8, <2>9, <2>10 DEF Followed
<1>3. QED
  BY <1>1, <1>2 DEF Next, Terminated

\* It always holds.
LEMMA RefreshAlways == Spec => []RefreshInv
BY RefreshInit, RefreshStep, PTL DEF Spec

----------------------------------------------------------------------------
(* Theorems                                                                *)

\* Every variable of the coordinator holds what its Python counterpart may hold,
\* for any devices and locations; the cache keeps its bound.
THEOREM TypeCorrect == Spec => []TypeOK
<1>1. RefreshInv => TypeOK
  BY DEF RefreshInv
<1>2. QED
  BY <1>1, RefreshAlways, PTL

\* No answer of _async_rest_refresh_devices brings back a device that the hierarchy
\* has dropped since it was asked for.
THEOREM RemovedAlwaysStayRemoved == Spec => []RemovedStayRemoved
<1>1. RefreshInv => RemovedStayRemoved
  BY DEF RefreshInv, RInv
<1>2. QED
  BY <1>1, RefreshAlways, PTL

\* _unknown_device_messages holds messages of unknown devices only.
THEOREM CacheAlwaysServesUnknown == Spec => []CacheServesUnknown
<1>1. RefreshInv => CacheServesUnknown
  BY DEF RefreshInv, RInv
<1>2. QED
  BY <1>1, RefreshAlways, PTL

\* Every state in _socket_states is that of a running socket, or of one whose stop
\* raised and which is shown connected only until its runner ends, also when two
\* refreshes stop and start sockets at once.
THEOREM StatesAlwaysOfLiveSockets == Spec => []StatesOfLiveSockets
<1>1. RefreshInv => StatesOfLiveSockets
  BY DEF RefreshInv, RInv
<1>2. QED
  BY <1>1, RefreshAlways, PTL

\* What async_update_data noticed as gone is taken out of the registries by it, or
\* it failed, was cancelled or was overtaken.
THEOREM GoneAlwaysCleaned == Spec => []GoneAreCleaned
<1>1. RefreshInv => GoneAreCleaned
  <2> SUFFICES ASSUME RefreshInv, NEW i \in registry \ (devices \cup locations)
               PROVE  \/ i \in past.missed
                      \/ \E p \in Process :
                             InProgress(p) /\ i \in cycle[p].removed \cup cycle[p].left
    BY DEF GoneAreCleaned
  <2>1. Noticed(i)
    BY DEF RefreshInv, RInv, GoneNoticed, Registrable
  <2>2. QED
    BY <2>1 DEF Noticed, Noticing, InProgress
<1>2. QED
  BY <1>1, RefreshAlways, PTL

\* _update_support_issue and the path of messages keep the repair issue in step
\* with the devices, for any number of them.
THEOREM IssueAlwaysCurrent == Spec => []IssueIsCurrent
<1>1. RefreshInv => IssueIsCurrent
  BY DEF RefreshInv, RInv
<1>2. QED
  BY <1>1, RefreshAlways, PTL
=============================================================================
