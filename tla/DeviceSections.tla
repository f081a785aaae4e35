--------------------------- MODULE DeviceSections ---------------------------
(***************************************************************************)
(* One device's record, section by section: the documents the cloud has of *)
(* it, the two feeds they come in by, pushes of the location's WebSocket   *)
(* and the REST hydrations of coordinator.py, and the reducer of state.py  *)
(* that puts them together; with them the outages the cloud reports, the   *)
(* optional endpoints found not to exist, and when the device is available.*)
(* A hydration is a process, whose requests are answered one by one and    *)
(* applied together; pushes come late, twice, out of order or never.  The  *)
(* cloud is external.  Its documents are stamped with the moment of their  *)
(* last change, and a value in them is the moment it was taken.  The       *)
(* overlay of requested settings is DeviceWrites' subject.                 *)
(***************************************************************************)
EXTENDS SettingsState, Sequences, FiniteSets

CONSTANTS
    Section,       \* the sections of a record: settings, setup, each status
    Critical,      \* asked for in every hydration
    Optional,      \* asked for at endpoints that a profile plans
    Telling,       \* setup and settings: with them the optional endpoints change
    Family,        \* for each family, what a profile needs to recognise it
    Writable,      \* read back after a write
    View,          \* keys of a document that a push may carry
    Place, Nowhere,  \* the device in the hierarchy, access and zone; or not there
    Hydration,     \* hydrations that may overlap
    MaxHistory,    \* bound: documents of a section
    MaxEvents,     \* bound: outages that begin or end
    MaxHappened,   \* bound: changes and events together
    MaxCached      \* UNKNOWN_DEVICE_MESSAGE_MAX_PER_DEVICE

ASSUME SectionAssumption ==
    /\ Critical \subseteq Section /\ Optional \subseteq Section
    /\ Telling \subseteq Section /\ Writable \subseteq Section
    /\ "health" \notin Section
ASSUME FamilyAssumption == Family \subseteq SUBSET Section
ASSUME ViewAssumption == View \subseteq SUBSET Leaf
ASSUME MomentAssumption == MaxHistory \in Nat \ {0} /\ Value = 1..MaxHistory
ASSUME PlaceAssumption == Nowhere \notin Place
ASSUME BoundsAssumption == MaxEvents \in Nat /\ MaxCached \in Nat

VARIABLES
    cloud,       \* external: the history of each section, endpoints and outages
    record,      \* the DeviceRecord, if the coordinator tracks the device
    missing,     \* _optional_404_fingerprints
    hydration    \* calls of _async_rest_refresh_device

vars == <<cloud, record, missing, hydration>>

Moment == 1..MaxHistory
Cloud == [docs : [Section -> Seq(Settings)], offers : SUBSET Optional, events : 0..MaxEvents]

Record == [place : Place \cup {Nowhere},                 \* hierarchy
           docs : [Section -> Settings],
           versions : [Section \cup {"health"} -> Version],
           offline : BOOLEAN,                            \* health.offline
           fresh : BOOLEAN,                              \* last_rest_received_at is recent
           heard : SUBSET (1..MaxEvents)]                \* history: events, by their moment
Blank(place) ==
    [place |-> place, docs |-> [s \in Section |-> NoSettings],
     versions |-> [s \in Section \cup {"health"} |-> NoVersion],
     offline |-> FALSE, fresh |-> FALSE, heard |-> {}]
Present(rec) == rec.place # Nowhere

Answer == [kind : {"unasked", "pending", "failed", "missing", "document"},
           stamp : 0..MaxHistory]
Unasked == [kind |-> "unasked", stamp |-> NoStamp]
Pending == [kind |-> "pending", stamp |-> NoStamp]

\* unsupported_reason of a profile: the documents that tell its family have come.
Recognises(rec, needed) == \A s \in needed : Leaves(rec.docs[s]) # {}

\* evaluate_device_support
Supported(rec) == \E needed \in Family : Recognises(rec, needed)

\* _optional_request_fingerprint
Fingerprint(rec) ==
    [supported |-> Supported(rec), place |-> rec.place,    \* profile_key; access, zone
     facts |-> [s \in Telling |-> <<rec.docs[s], rec.versions[s].asOf>>]]
Fingerprints == [supported : BOOLEAN, place : Place \cup {Nowhere},
                 facts : [Telling -> Settings \X Stamp]]
NoFingerprint == Fingerprint(Blank(Nowhere))

Call == [pc : {"idle", "critical", "optional"}, answer : [Section -> Answer],
         print : Fingerprints,       \* fingerprint
         progressed : BOOLEAN]
Rest == [pc |-> "idle", answer |-> [s \in Section |-> Unasked],
         print |-> NoFingerprint, progressed |-> FALSE]

Init ==
    /\ cloud = [docs |-> [s \in Section |-> <<[l \in Leaf |-> 1]>>],
                offers |-> {}, events |-> 0]
    /\ record = Blank(Nowhere)
    /\ missing = [s \in Optional |-> NoFingerprint]
    /\ hydration = [p \in Hydration |-> Rest]

----------------------------------------------------------------------------
(* The cloud, external                                                     *)

Happened == cloud.events
    + Cardinality({c \in Section \X (2..MaxHistory) : c[2] <= Len(cloud.docs[c[1]])})

\* Some values of a section change.  Which optional endpoints there are changes
\* only with the sections that tell.
SectionChanges(s) ==
    /\ Len(cloud.docs[s]) < MaxHistory
    /\ Happened < MaxHappened
    /\ \E keys \in SUBSET Leaf \ {{}}, offers \in SUBSET Optional :
        /\ s \notin Telling => offers = cloud.offers
        /\ LET now == Len(cloud.docs[s]) + 1
               doc == [l \in Leaf |-> IF l \in keys THEN now ELSE cloud.docs[s][now - 1][l]]
           IN  cloud' = [cloud EXCEPT !.docs[s] = Append(@, doc), !.offers = offers]
    /\ UNCHANGED <<record, missing, hydration>>

\* The n-th event is the beginning of an outage if n is odd, else its end.
EventHappens ==
    /\ cloud.events < MaxEvents /\ Happened < MaxHappened
    /\ cloud' = [cloud EXCEPT !.events = @ + 1]
    /\ UNCHANGED <<record, missing, hydration>>

Occurred(n) == IF n % 2 = 1 THEN n ELSE n - 1
Rescinded(n) == IF n % 2 = 1 THEN NoStamp ELSE n

\* What a socket may carry: part of any document there has been, or any event.
Messages ==
    {[section |-> s, stamp |-> i, view |-> v] : s \in Section, i \in Moment, v \in View}
        \cup {[section |-> "health", stamp |-> n, view |-> {}] : n \in 1..MaxEvents}
Sent(m) == IF m.section = "health" THEN m.stamp <= cloud.events
                                   ELSE m.stamp <= Len(cloud.docs[m.section])

----------------------------------------------------------------------------
(* The reducer                                                             *)

\* Mutant of ApplyPayload: a REST answer replaces whatever there is.
ApplyUnordered(rec, s, doc, version, full) ==
    IF full \/ Accepts(rec.versions[s], version)
    THEN [rec EXCEPT !.docs[s] = IF full THEN doc ELSE Merge(@, doc), !.versions[s] = version]
    ELSE rec

\* apply_status_payload, _apply_record_payload, and apply_confirmed_ and
\* apply_full_device_settings but for the overlay.
ApplyPayload(rec, s, doc, version, full) ==
    IF Accepts(rec.versions[s], version)
    THEN [rec EXCEPT !.docs[s] = IF full THEN doc ELSE Merge(@, doc), !.versions[s] = version]
    ELSE rec

\* Mutant of EventTime: an event is ordered by the beginning of its outage.
EventTimeOccurred(n) == Occurred(n)

\* event_time of apply_device_event
EventTime(n) == IF Rescinded(n) # NoStamp THEN Rescinded(n) ELSE Occurred(n)

\* apply_device_event
ApplyEvent(rec, n) ==
    LET version == [asOf |-> EventTime(n), source |-> "websocket"]
        told == [rec EXCEPT !.heard = @ \cup {n}]
    IN  IF Accepts(rec.versions["health"], version)
        THEN [told EXCEPT !.offline = Rescinded(n) = NoStamp, !.versions["health"] = version]
        ELSE told

\* apply_device_message
ApplyMessage(rec, m) ==
    IF m.section = "health" THEN ApplyEvent(rec, m.stamp)
    ELSE LET seen == [l \in Leaf |-> IF l \in m.view THEN cloud.docs[m.section][m.stamp][l]
                                                     ELSE Absent]
         IN  ApplyPayload(rec, m.section, seen,
                          [asOf |-> m.stamp, source |-> "websocket"], FALSE)

\* A REST answer, if there is a document in it.
ApplyAnswer(rec, s, answer) ==
    IF answer.kind = "document"
    THEN ApplyPayload(rec, s, cloud.docs[s][answer.stamp],
                      [asOf |-> answer.stamp, source |-> "rest"], TRUE)
    ELSE rec

\* The answers of a stage, each for a section of its own.
ApplyAnswers(rec, sections, answer) ==
    LET applied == [s \in Section |-> IF s \in sections THEN ApplyAnswer(rec, s, answer[s])
                                                        ELSE rec]
    IN  [rec EXCEPT !.docs = [s \in Section |-> applied[s].docs[s]],
                    !.versions = [s \in DOMAIN @ |->
                                    IF s \in Section THEN applied[s].versions[s] ELSE @[s]]]

----------------------------------------------------------------------------
(* The hierarchy and the sockets                                           *)

\* _replay_unknown_device_messages: n of them, one after the other.
Replay(rec, messages, n) ==
    LET after[i \in 0..n] == IF i = 0 THEN rec ELSE ApplyMessage(after[i - 1], messages[i])
    IN  after[n]

\* apply_hierarchy for a device that is new, with the messages that are still kept
\* of the time it was unknown.
Discovered ==
    /\ ~Present(record)
    /\ \E place \in Place, n \in 0..MaxCached : \E messages \in [1..n -> Messages] :
        /\ \A i \in 1..n : Sent(messages[i])
        /\ record' = Replay(Blank(place), messages, n)
    /\ UNCHANGED <<cloud, missing, hydration>>

\* ... and for one that is known already.
Kept ==
    /\ Present(record)
    /\ \E place \in Place : record' = [record EXCEPT !.place = place]
    /\ UNCHANGED <<cloud, missing, hydration>>

\* ... or gone, with what the coordinator kept of its endpoints.
Removed ==
    /\ Present(record)
    /\ record' = Blank(Nowhere)
    /\ missing' = [s \in Optional |-> NoFingerprint]
    /\ UNCHANGED <<cloud, hydration>>

\* _process_message, for a device of the hierarchy.
Push ==
    /\ Present(record)
    /\ \E m \in Messages : Sent(m) /\ record' = ApplyMessage(record, m)
    /\ UNCHANGED <<cloud, missing, hydration>>

\* _async_refresh_device_settings, of a write or its reconciliation: an answer of
\* any moment since.
ReadBack ==
    /\ Present(record)
    /\ \E s \in Writable : \E i \in 1..Len(cloud.docs[s]) :
        record' = ApplyAnswer(record, s, [kind |-> "document", stamp |-> i])
    /\ UNCHANGED <<cloud, missing, hydration>>

\* The last hydration is too long ago: _rest_freshness_window.
WindowElapses ==
    /\ record.fresh
    /\ record' = [record EXCEPT !.fresh = FALSE]
    /\ UNCHANGED <<cloud, missing, hydration>>

----------------------------------------------------------------------------
(* A hydration                                                             *)

Answered(answer, sections) == \A s \in sections : answer[s].kind # "pending"
Got(answer, sections) == {s \in sections : answer[s].kind = "document"}

\* The two critical requests are sent.
Begin(p) ==
    /\ hydration[p].pc = "idle" /\ Present(record)
    /\ hydration' = [hydration EXCEPT ![p] =
         [pc |-> "critical", print |-> NoFingerprint, progressed |-> FALSE,
          answer |-> [s \in Section |-> IF s \in Critical THEN Pending ELSE Unasked]]]
    /\ UNCHANGED <<cloud, record, missing>>

\* _capture_rest_result: the document there is at the time, or a failure.  An
\* optional endpoint the device does not have answers 404.
Answers(p, s) ==
    /\ hydration[p].answer[s].kind = "pending"
    /\ \E kind \in {"failed"} \cup
                   (IF hydration[p].pc = "optional" /\ s \notin cloud.offers
                    THEN {"missing"} ELSE {"document"}) :
        hydration' = [hydration EXCEPT ![p].answer[s] =
            [kind |-> kind, stamp |-> IF kind = "document" THEN Len(cloud.docs[s]) ELSE NoStamp]]
    /\ UNCHANGED <<cloud, record, missing>>

\* _mark_rest_progress
Marked(rec, progressed) == [rec EXCEPT !.fresh = @ \/ progressed]

\* An endpoint is skipped while the facts are those it was missing under.
Skipped(rec) == {s \in Optional : missing[s] = Fingerprint(rec)}

\* _apply_critical_rest_results, and the planning of the optional requests, which
\* depends on what the documents say.  Without any the hydration is over.
CriticalDone(p) ==
    LET q == hydration[p]
        applied == ApplyAnswers(record, Critical, q.answer)
        progressed == Got(q.answer, Critical) # {}
    IN  /\ q.pc = "critical" /\ Answered(q.answer, Critical)
        /\ IF ~Present(record)
           THEN hydration' = [hydration EXCEPT ![p] = Rest] /\ UNCHANGED record
           ELSE \E planned \in SUBSET Optional :
                IF planned \subseteq Skipped(applied)
                THEN /\ record' = Marked(applied, progressed)
                     /\ hydration' = [hydration EXCEPT ![p] = Rest]
                ELSE /\ record' = applied
                     /\ hydration' = [hydration EXCEPT ![p] =
                          [pc |-> "optional", progressed |-> progressed,
                           answer |-> [s \in Section |->
                              IF s \in planned \ Skipped(applied) THEN Pending ELSE Unasked],
                           print |-> Fingerprint(applied)]]
        /\ UNCHANGED <<cloud, missing>>

\* Mutant of Denied: the facts are those there are when the answer is applied.
DeniedNow(q) == Fingerprint(record)

\* The facts that the endpoints which answered 404 are missing under.
Denied(q) == q.print

\* _apply_optional_rest_results, and the end of the hydration.  If the device is
\* gone, the first document raises a KeyError, and what follows it is lost.
OptionalDone(p) ==
    LET q == hydration[p]
        got == Got(q.answer, Optional)
        gone == {s \in Optional : q.answer[s].kind = "missing"}
    IN  /\ q.pc = "optional" /\ Answered(q.answer, Optional)
        /\ hydration' = [hydration EXCEPT ![p] = Rest]
        /\ IF Present(record)
           THEN /\ record' = Marked(ApplyAnswers(record, Optional, q.answer),
                                    q.progressed \/ got # {})
                /\ missing' = [s \in Optional |-> IF s \in gone THEN Denied(q)
                                                  ELSE IF s \in got THEN NoFingerprint
                                                  ELSE missing[s]]
           ELSE /\ UNCHANGED record
                /\ \E noted \in SUBSET gone, dropped \in SUBSET got :
                    /\ got = {} => noted = gone
                    /\ got # {} => \E s \in got : dropped = {s}
                    /\ missing' = [s \in Optional |-> IF s \in noted THEN Denied(q)
                                                      ELSE IF s \in dropped THEN NoFingerprint
                                                      ELSE missing[s]]
        /\ UNCHANGED cloud

Next ==
    \/ \E s \in Section : SectionChanges(s)
    \/ EventHappens
    \/ Discovered \/ Kept \/ Removed \/ Push \/ ReadBack \/ WindowElapses
    \/ \E p \in Hydration :
        \/ Begin(p) \/ CriticalDone(p) \/ OptionalDone(p)
        \/ \E s \in Section : Answers(p, s)

Spec == Init /\ [][Next]_vars

----------------------------------------------------------------------------
(* Availability                                                            *)

\* device_is_available; ready is the state of the location's socket.
Available(ready) ==
    /\ Present(record) /\ Supported(record) /\ ~record.offline
    /\ ready \/ record.fresh

----------------------------------------------------------------------------
(* Properties                                                              *)

\* Every variable holds what its Python counterpart may hold.
TypeOK ==
    /\ cloud \in Cloud /\ \A s \in Section : Len(cloud.docs[s]) \in Moment
    /\ record \in Record
    /\ missing \in [Optional -> Fingerprints]
    /\ hydration \in [Hydration -> Call]

\* While the device stays, no reading of it goes back: each key keeps a value at
\* least as young as the one it shows, whatever order pushes and answers of
\* overlapping hydrations are applied in.
NotYounger(old, new) ==
    \A l \in Leaves(old) : l \in Leaves(new) /\ new[l] >= old[l]
ReadingsNeverOlder ==
    [][Present(record) /\ Present(record') =>
         \A s \in Section : NotYounger(record.docs[s], record'.docs[s])]_vars

\* Of the events the device was told, the newest says whether it is out.
OutageStands == \E n \in record.heard : /\ \A m \in record.heard : m <= n
                                        /\ Rescinded(n) = NoStamp

\* A device is unavailable for an outage exactly as long as no later end, or end
\* of a later outage, has been heard of, in whatever order they were.
OutagesHonoured ==
    \A ready \in BOOLEAN :
        Available(ready) <=> /\ Present(record) /\ Supported(record)
                             /\ ready \/ record.fresh
                             /\ ~OutageStands

\* An optional endpoint that the device has is not skipped once the record shows
\* the facts of the present: a 404 of an earlier time holds for the facts it was
\* asked under.
SkipIsJustified ==
    Present(record) /\ (\A s \in Telling : record.versions[s].asOf = Len(cloud.docs[s]))
        => Skipped(record) \cap cloud.offers = {}
=============================================================================
