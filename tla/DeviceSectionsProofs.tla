------------------------ MODULE DeviceSectionsProofs ------------------------
(***************************************************************************)
(* Proofs about DeviceSections: its types, that no reading goes back, that *)
(* outages are honoured and that no endpoint is skipped which the device   *)
(* has.  Of the record the invariant says that a section shows no value    *)
(* younger than the document its version names had (Follows), which makes  *)
(* a document that is accepted younger in every key; and that the health   *)
(* is what the newest event told (Told).  Of the endpoints it says that    *)
(* the facts one was missing under are past or present ones, and that the  *)
(* device does not have it while they are present (Justifies), of what is  *)
(* noted and of what a hydration has yet to note.                          *)
(***************************************************************************)
EXTENDS DeviceSections, TLAPS, WellFoundedInduction, SequenceTheorems

\* The history of each section: complete documents, whose values only grow and
\* are never of a later moment than the document.
HistoryGrows ==
    \A s \in Section : \A i \in 1..Len(cloud.docs[s]) : \A l \in Leaf :
        /\ cloud.docs[s][i] \in [Leaf -> Value]
        /\ cloud.docs[s][i][l] <= i
        /\ \A j \in i..Len(cloud.docs[s]) : cloud.docs[s][i][l] <= cloud.docs[s][j][l]

CloudOK == /\ cloud \in Cloud
           /\ \A s \in Section : Len(cloud.docs[s]) \in Moment
           /\ HistoryGrows

\* A section shows no value younger than the document its version names had.
Follows(rec, s) ==
    LET asOf == rec.versions[s].asOf
    IN  /\ asOf <= Len(cloud.docs[s])
        /\ \A l \in Leaves(rec.docs[s]) :
            asOf >= 1 /\ rec.docs[s][l] <= cloud.docs[s][asOf][l]

\* The device's health is what the newest event it was told says.
Told(rec) ==
    LET version == rec.versions["health"]
    IN  /\ rec.heard = {} => version = NoVersion /\ ~rec.offline
        /\ rec.heard # {} => /\ version.asOf \in rec.heard /\ version.source = "websocket"
                             /\ \A n \in rec.heard : n <= version.asOf
                             /\ rec.offline = (Rescinded(version.asOf) = NoStamp)

Sound(rec) == /\ rec \in Record
              /\ \A s \in Section : Follows(rec, s)
              /\ Told(rec)

\* What an update keeps: the device, where it is, and the age of its readings.
Updates(old, new) ==
    /\ new.place = old.place
    /\ \A s \in Section : NotYounger(old.docs[s], new.docs[s])

\* Times are numbers.
LEMMA Times ==
    /\ MaxHistory \in Nat /\ MaxEvents \in Nat /\ MaxCached \in Nat
    /\ \A v \in Value : v \in Nat /\ v >= 1
    /\ Moment = Value
    /\ Absent \notin Value
BY MomentAssumption, BoundsAssumption, AbsentAssumption DEF Moment

\* A section's readings are as old as themselves.
LEMMA NotYoungerReflexive ==
    ASSUME NEW doc \in Settings PROVE NotYounger(doc, doc)
<1>1. \A l \in Leaves(doc) : doc[l] \in Nat
  BY Times DEF Leaves, Settings
<1> QED
  BY <1>1 DEF NotYounger

\* A document that is accepted is not older than what it replaces.
LEMMA AcceptedAsOf ==
    ASSUME NEW current \in Version, NEW asOf \in Nat, NEW source \in Source,
           Accepts(current, [asOf |-> asOf, source |-> source])
    PROVE  current.asOf <= asOf
<1>1. current.asOf \in Nat /\ (current.source = "none" => current.asOf = 0)
  BY DEF Version, NoVersion, NoStamp, Stamp, Source, Precedence
<1> QED
  BY <1>1 DEF Accepts, NoStamp

\* A record with other documents.
Renewed(rec, docs, versions) ==
    [place |-> rec.place, docs |-> docs, versions |-> versions,
     offline |-> rec.offline, fresh |-> rec.fresh, heard |-> rec.heard]

\* It is a record, and it is what the reducer writes.
LEMMA RecordRenewed ==
    ASSUME NEW rec \in Record, NEW docs \in [Section -> Settings],
           NEW versions \in [Section \cup {"health"} -> Version]
    PROVE  /\ Renewed(rec, docs, versions) \in Record
           /\ [rec EXCEPT !.docs = docs, !.versions = versions] = Renewed(rec, docs, versions)
<1> DEFINE P == Place \cup {Nowhere}
           D == [Section -> Settings]
           V == [Section \cup {"health"} -> Version]
           H == SUBSET (1..MaxEvents)
<1>1. Record = [place : P, docs : D, versions : V, offline : BOOLEAN, fresh : BOOLEAN, heard : H]
  BY DEF Record
<1>2. docs \in D /\ versions \in V
  OBVIOUS
<1> HIDE DEF P, D, V, H
<1>3. Renewed(rec, docs, versions) \in Record
  BY <1>1, <1>2 DEF Renewed
<1>4. [rec EXCEPT !.docs = docs, !.versions = versions] = Renewed(rec, docs, versions)
  <2> DEFINE first == [rec EXCEPT !.docs = docs]
  <2>1. first = [place |-> rec.place, docs |-> docs, versions |-> rec.versions,
                 offline |-> rec.offline, fresh |-> rec.fresh, heard |-> rec.heard]
    BY <1>1, <1>2
  <2>2. first \in [place : P, docs : D, versions : V,
                   offline : BOOLEAN, fresh : BOOLEAN, heard : H]
    BY <1>1, <1>2, <2>1
  <2>3. [first EXCEPT !.versions = versions] = Renewed(rec, docs, versions)
    <3> HIDE DEF first
    <3> QED
      BY <1>2, <2>1, <2>2 DEF Renewed
  <2> QED
    BY <2>3
<1> QED
  BY <1>3, <1>4

\* A payload that shows a document of the cloud's, or part of it, leaves the
\* record sound and none of its readings older, whichever feed it comes by.
LEMMA ApplyPayloadSound ==
    ASSUME CloudOK, NEW rec, Sound(rec), NEW s \in Section,
           NEW i \in 1..Len(cloud.docs[s]), NEW doc \in Settings, NEW source \in Source,
           NEW full \in BOOLEAN,
           \A l \in Leaves(doc) : doc[l] = cloud.docs[s][i][l],
           full => Leaves(doc) = Leaf
    PROVE  LET new == ApplyPayload(rec, s, doc, [asOf |-> i, source |-> source], full)
           IN  /\ Sound(new) /\ Updates(rec, new)
               /\ new.offline = rec.offline /\ new.fresh = rec.fresh /\ new.heard = rec.heard
               /\ \A t \in (Section \cup {"health"}) \ {s} : new.versions[t] = rec.versions[t]
               /\ \A t \in Section \ {s} : new.docs[t] = rec.docs[t]
<1> DEFINE version == [asOf |-> i, source |-> source]
           value == IF full THEN doc ELSE Merge(rec.docs[s], doc)
           new == ApplyPayload(rec, s, doc, version, full)
<1>1. /\ rec \in Record /\ rec.docs[s] \in Settings /\ rec.versions[s] \in Version
      /\ \A t \in Section : rec.docs[t] \in Settings
      /\ "health" # s
      /\ i \in Nat /\ i >= 1 /\ Len(cloud.docs[s]) \in Nat
  <2>1. Len(cloud.docs[s]) \in Nat
    BY Times DEF CloudOK, Moment
  <2> QED
    BY <2>1, SectionAssumption DEF Sound, Record
<1>2. version \in Version
  BY <1>1 DEF Version, Stamp
<1>3. CASE ~Accepts(rec.versions[s], version)
  <2>1. new = rec
    BY <1>3 DEF ApplyPayload
  <2>2. Updates(rec, rec)
    BY <1>1, NotYoungerReflexive DEF Updates
  <2> QED
    BY <2>1, <2>2
<1>4. CASE Accepts(rec.versions[s], version)
  <2> HIDE DEF value
  <2>1. new = [rec EXCEPT !.docs[s] = value, !.versions[s] = version]
    BY <1>4 DEF ApplyPayload, value
  <2>2. value \in Settings
    BY <1>1 DEF value, Merge, Settings
  <2> DEFINE docs == [rec.docs EXCEPT ![s] = value]
             versions == [rec.versions EXCEPT ![s] = version]
  <2>13. /\ docs \in [Section -> Settings] /\ docs[s] = value
         /\ \A t \in Section \ {s} : docs[t] = rec.docs[t]
    BY <1>1, <2>2 DEF Record
  <2>14. /\ versions \in [Section \cup {"health"} -> Version] /\ versions[s] = version
         /\ \A t \in (Section \cup {"health"}) \ {s} : versions[t] = rec.versions[t]
    <3> DEFINE Kinds == Section \cup {"health"}
    <3>1. rec.versions \in [Kinds -> Version] /\ s \in Kinds
      BY <1>1 DEF Record
    <3> HIDE DEF Kinds, version
    <3>2. /\ versions \in [Kinds -> Version] /\ versions[s] = version
          /\ \A t \in Kinds \ {s} : versions[t] = rec.versions[t]
      BY <1>2, <3>1
    <3> QED
      BY <3>2 DEF Kinds
  <2>15. new = Renewed(rec, docs, versions)
    <3>1. new = [rec EXCEPT !.docs = docs, !.versions = versions]
      BY <2>1
    <3>2. /\ rec \in Record /\ docs \in [Section -> Settings]
          /\ versions \in [Section \cup {"health"} -> Version]
      BY <1>1, <2>13, <2>14
    <3> HIDE DEF docs, versions
    <3>3. [rec EXCEPT !.docs = docs, !.versions = versions] = Renewed(rec, docs, versions)
      BY <3>2, RecordRenewed, Zenon
    <3> QED
      BY <3>1, <3>3, Zenon
  <2> HIDE DEF docs, versions, new
  <2>3. new \in Record
    BY <1>1, <2>13, <2>14, <2>15, RecordRenewed
  <2>4. /\ new.docs[s] = value /\ new.versions[s] = version
        /\ \A t \in Section \ {s} : new.docs[t] = rec.docs[t]
        /\ \A t \in (Section \cup {"health"}) \ {s} : new.versions[t] = rec.versions[t]
        /\ new.place = rec.place /\ new.offline = rec.offline /\ new.fresh = rec.fresh
        /\ new.heard = rec.heard
    BY <2>13, <2>14, <2>15 DEF Renewed
  <2>5. rec.versions[s].asOf <= i /\ rec.versions[s].asOf \in Nat
    BY <1>1, <1>4, AcceptedAsOf DEF Version, NoVersion, NoStamp, Stamp
  <2>6. ASSUME NEW l \in Leaves(rec.docs[s])
        PROVE  /\ rec.docs[s][l] \in Nat
               /\ rec.docs[s][l] <= cloud.docs[s][i][l] /\ cloud.docs[s][i][l] \in Nat
    <3> DEFINE k == rec.versions[s].asOf
    <3>1. k >= 1 /\ k <= Len(cloud.docs[s]) /\ rec.docs[s][l] <= cloud.docs[s][k][l] /\ l \in Leaf
      BY DEF Sound, Follows, Leaves
    <3>2. k \in 1..Len(cloud.docs[s]) /\ i \in k..Len(cloud.docs[s])
      BY <1>1, <2>5, <3>1
    <3>3. /\ cloud.docs[s][k] \in [Leaf -> Value] /\ cloud.docs[s][i] \in [Leaf -> Value]
          /\ cloud.docs[s][k][l] <= cloud.docs[s][i][l]
      BY <3>1, <3>2 DEF CloudOK, HistoryGrows
    <3>4. cloud.docs[s][k][l] \in Nat /\ cloud.docs[s][i][l] \in Nat /\ rec.docs[s][l] \in Nat
      BY <1>1, <3>1, <3>3, Times DEF Settings, Leaves
    <3> QED
      BY <3>1, <3>3, <3>4
  <2>7. ASSUME NEW l \in Leaves(value)
        PROVE  value[l] <= cloud.docs[s][i][l]
    <3>1. l \in Leaf
      BY DEF Leaves
    <3>2. cloud.docs[s][i][l] \in Nat
      BY <1>1, <3>1, Times DEF CloudOK, HistoryGrows
    <3>3. CASE full
      BY <1>1, <3>2, <3>3 DEF value
    <3>4. CASE ~full /\ doc[l] # Absent
      BY <3>1, <3>2, <3>4 DEF value, Merge, Leaves
    <3>5. CASE ~full /\ doc[l] = Absent
      <4>1. value[l] = rec.docs[s][l] /\ l \in Leaves(rec.docs[s])
        BY <3>1, <3>5 DEF value, Merge, Leaves
      <4> QED
        BY <4>1, <2>6
    <3> QED
      BY <3>3, <3>4, <3>5
  <2>8. NotYounger(rec.docs[s], value)
    <3>1. ASSUME NEW l \in Leaves(rec.docs[s]) PROVE l \in Leaves(value) /\ value[l] >= rec.docs[s][l]
      <4>1. l \in Leaf
        BY DEF Leaves
      <4>2. CASE full
        <5>1. l \in Leaves(doc) /\ value = doc
          BY <4>1, <4>2 DEF value
        <5> QED
          BY <5>1, <2>6
      <4>3. CASE ~full /\ doc[l] # Absent
        <5>1. l \in Leaves(doc) /\ value[l] = doc[l] /\ l \in Leaves(value)
          BY <4>1, <4>3 DEF value, Merge, Leaves
        <5> QED
          BY <5>1, <2>6
      <4>4. CASE ~full /\ doc[l] = Absent
        <5>1. value[l] = rec.docs[s][l] /\ l \in Leaves(value)
          BY <4>1, <4>4 DEF value, Merge, Leaves
        <5> QED
          BY <5>1, <2>6
      <4> QED
        BY <4>2, <4>3, <4>4
    <3> QED
      BY <3>1 DEF NotYounger
  <2>9. Follows(new, s)
    BY <1>1, <2>4, <2>7 DEF Follows
  <2>10. \A t \in Section : Follows(new, t)
    BY <2>4, <2>9 DEF Follows, Sound
  <2>11. Told(new)
    BY <1>1, <2>4 DEF Told, Sound
  <2>12. Updates(rec, new)
    BY <1>1, <2>4, <2>8, NotYoungerReflexive DEF Updates
  <2> QED
    BY <2>3, <2>4, <2>10, <2>11, <2>12 DEF Sound, new
<1> QED
  BY <1>3, <1>4

\* An event leaves the record sound, whatever was told before it, and its readings
\* as they are.
LEMMA ApplyEventSound ==
    ASSUME NEW rec, Sound(rec), NEW n \in 1..MaxEvents
    PROVE  /\ Sound(ApplyEvent(rec, n)) /\ Updates(rec, ApplyEvent(rec, n))
           /\ ApplyEvent(rec, n).fresh = rec.fresh
<1> DEFINE version == [asOf |-> n, source |-> "websocket"]
           versions == [rec.versions EXCEPT !["health"] = version]
           heard == rec.heard \cup {n}
           new == ApplyEvent(rec, n)
           told == [place |-> rec.place, docs |-> rec.docs, versions |-> rec.versions,
                    offline |-> rec.offline, fresh |-> rec.fresh, heard |-> heard]
           out == [place |-> rec.place, docs |-> rec.docs, versions |-> versions,
                   offline |-> (Rescinded(n) = NoStamp), fresh |-> rec.fresh, heard |-> heard]
<1>1. /\ rec \in Record /\ n \in Nat /\ n >= 1 /\ EventTime(n) = n
      /\ rec.versions["health"] \in Version
      /\ heard \in SUBSET (1..MaxEvents)
      /\ \A t \in Section : rec.docs[t] \in Settings /\ t # "health"
  <2>1. rec \in Record /\ n \in Nat /\ n >= 1
    BY Times DEF Sound
  <2>2. EventTime(n) = n
    BY <2>1 DEF EventTime, Occurred, Rescinded, NoStamp
  <2> QED
    BY <2>1, <2>2, SectionAssumption DEF Record
<1>2. /\ versions \in [Section \cup {"health"} -> Version] /\ versions["health"] = version
      /\ \A t \in Section : versions[t] = rec.versions[t]
  <2> DEFINE Kinds == Section \cup {"health"}
  <2>1. rec.versions \in [Kinds -> Version] /\ "health" \in Kinds /\ version \in Version
    BY <1>1 DEF Record, Version, Stamp, Source, Precedence
  <2> HIDE DEF Kinds, version
  <2>2. /\ versions \in [Kinds -> Version] /\ versions["health"] = version
        /\ \A t \in Kinds \ {"health"} : versions[t] = rec.versions[t]
    BY <2>1
  <2> QED
    BY <1>1, <2>2 DEF Kinds
<1>3. new = IF Accepts(rec.versions["health"], version) THEN out ELSE told
  <2>1. rec = [place |-> rec.place, docs |-> rec.docs, versions |-> rec.versions,
               offline |-> rec.offline, fresh |-> rec.fresh, heard |-> rec.heard]
    BY <1>1 DEF Record
  <2>2. [rec EXCEPT !.heard = heard] = told
    <3> HIDE DEF heard
    <3> QED
      BY <2>1
  <2>3. told.versions = rec.versions
    OBVIOUS
  <2>4. [told EXCEPT !.offline = (Rescinded(n) = NoStamp), !.versions = versions] = out
    <3> DEFINE b == Rescinded(n) = NoStamp
    <3> HIDE DEF heard, versions, b
    <3> DEFINE first == [told EXCEPT !.offline = b]
    <3>1. first
            = [place |-> rec.place, docs |-> rec.docs, versions |-> rec.versions,
               offline |-> b, fresh |-> rec.fresh, heard |-> heard]
      OBVIOUS
    <3> HIDE DEF first
    <3>2. [first EXCEPT !.versions = versions]
            = [place |-> rec.place, docs |-> rec.docs, versions |-> versions,
               offline |-> b, fresh |-> rec.fresh, heard |-> heard]
      BY <3>1
    <3> QED
      BY <3>2 DEF b, first
  <2> QED
    BY <1>1, <2>2, <2>4 DEF ApplyEvent
<1> HIDE DEF versions, heard
<1>4. told \in Record /\ out \in Record
  BY <1>1, <1>2 DEF Record
<1>5. Updates(rec, told) /\ Updates(rec, out)
  BY <1>1, NotYoungerReflexive DEF Updates
<1>6. \A t \in Section : Follows(told, t) /\ Follows(out, t)
  <2>1. \A t \in Section : Follows(rec, t)
    BY DEF Sound
  <2> QED
    BY <1>2, <2>1 DEF Follows
<1>7. ASSUME Accepts(rec.versions["health"], version) PROVE Told(out)
  <2>1. rec.heard # {} => rec.versions["health"].asOf \in Nat /\ \A m \in rec.heard : m \in Nat
    BY <1>1, Times DEF Record, Version, NoVersion, NoStamp, Stamp
  <2>2. rec.heard # {} => n >= rec.versions["health"].asOf
    BY <1>1, <1>7, <2>1 DEF Accepts, Sound, Told, NoStamp
  <2>3. \A m \in heard : m <= n
    BY <1>1, <2>1, <2>2 DEF Sound, Told, heard
  <2>4. n \in heard
    BY DEF heard
  <2> QED
    BY <1>2, <2>3, <2>4 DEF Told
<1>8. ASSUME ~Accepts(rec.versions["health"], version) PROVE Told(told)
  <2>1. rec.heard # {}
    BY <1>8 DEF Accepts, Sound, Told, NoVersion
  <2>2. rec.versions["health"].asOf \in Nat /\ \A m \in rec.heard : m \in Nat /\ m >= 1
    BY <1>1, Times DEF Record, Version, NoVersion, NoStamp, Stamp
  <2>3. n <= rec.versions["health"].asOf
    BY <1>1, <1>8, <2>1, <2>2 DEF Accepts, Sound, Told, NoStamp, Precedence
  <2>4. heard # {} /\ \A m \in heard : m <= rec.versions["health"].asOf
    BY <2>1, <2>3 DEF heard, Sound, Told
  <2>5. rec.versions["health"].asOf \in heard
    BY <2>1 DEF heard, Sound, Told
  <2> QED
    BY <2>1, <2>4, <2>5 DEF Told, Sound
<1> QED
  BY <1>3, <1>4, <1>5, <1>6, <1>7, <1>8 DEF Sound

\* A push of anything there has been leaves the record sound and no reading older.
LEMMA ApplyMessageSound ==
    ASSUME CloudOK, NEW rec, Sound(rec), NEW m \in Messages, Sent(m)
    PROVE  /\ Sound(ApplyMessage(rec, m)) /\ Updates(rec, ApplyMessage(rec, m))
           /\ ApplyMessage(rec, m).fresh = rec.fresh
<1>1. CASE m.section = "health"
  <2>1. m.stamp \in 1..MaxEvents
    <3>1. ~\E s \in Section, i \in Moment, v \in View : m = [section |-> s, stamp |-> i, view |-> v]
      BY <1>1, SectionAssumption
    <3> QED
      BY <3>1 DEF Messages
  <2> QED
    BY <1>1, <2>1, ApplyEventSound DEF ApplyMessage
<1>2. CASE m.section # "health"
  <2> DEFINE s == m.section
             i == m.stamp
             seen == [l \in Leaf |-> IF l \in m.view THEN cloud.docs[s][i][l] ELSE Absent]
  <2>1. s \in Section /\ i \in Moment /\ m.view \in View
    BY <1>2 DEF Messages
  <2>2. i \in 1..Len(cloud.docs[s])
    BY <1>2, <2>1, Times DEF Sent, Moment, CloudOK
  <2>3. \A l \in Leaf : cloud.docs[s][i][l] \in Value
    BY <2>1, <2>2 DEF CloudOK, HistoryGrows
  <2>4. seen \in Settings
    BY <2>3 DEF Settings
  <2>5. \A l \in Leaves(seen) : seen[l] = cloud.docs[s][i][l]
    BY DEF Leaves
  <2>6. "websocket" \in Source
    BY DEF Source, Precedence
  <2>7. ApplyMessage(rec, m)
          = ApplyPayload(rec, s, seen, [asOf |-> i, source |-> "websocket"], FALSE)
    BY <1>2 DEF ApplyMessage
  <2> HIDE DEF s, i, seen
  <2>8. ASSUME NEW full \in BOOLEAN, full => Leaves(seen) = Leaf
        PROVE  LET new == ApplyPayload(rec, s, seen, [asOf |-> i, source |-> "websocket"], full)
               IN  Sound(new) /\ Updates(rec, new) /\ new.fresh = rec.fresh
    BY <2>1, <2>2, <2>4, <2>5, <2>6, <2>8, ApplyPayloadSound
  <2> QED
    BY <2>7, <2>8
<1> QED
  BY <1>1, <1>2

\* The answers of a stage, each a document there has been, or none.
Answering(sections, answer) ==
    /\ sections \subseteq Section
    /\ \A s \in sections : answer[s].kind = "document" => answer[s].stamp \in 1..Len(cloud.docs[s])

\* So does a REST document.
LEMMA ApplyAnswerSound ==
    ASSUME CloudOK, NEW rec, Sound(rec), NEW s \in Section, NEW answer,
           answer.kind = "document" => answer.stamp \in 1..Len(cloud.docs[s])
    PROVE  LET new == ApplyAnswer(rec, s, answer)
           IN  /\ Sound(new) /\ Updates(rec, new)
               /\ new.offline = rec.offline /\ new.fresh = rec.fresh /\ new.heard = rec.heard
<1>1. CASE answer.kind # "document"
  <2>1. \A t \in Section : rec.docs[t] \in Settings
    BY DEF Sound, Record
  <2>2. Updates(rec, rec)
    BY <2>1, NotYoungerReflexive DEF Updates
  <2> QED
    BY <1>1, <2>2 DEF ApplyAnswer
<1>2. CASE answer.kind = "document"
  <2> DEFINE i == answer.stamp
             doc == cloud.docs[s][i]
  <2>1. i \in 1..Len(cloud.docs[s])
    BY <1>2
  <2>2. doc \in [Leaf -> Value]
    <3>1. CASE Leaf # {}
      BY <2>1, <3>1 DEF CloudOK, HistoryGrows
    <3>2. CASE Leaf = {}
      <4>1. cloud.docs[s] \in Seq(Settings)
        BY DEF CloudOK, Cloud
      <4>2. doc \in Settings
        BY <2>1, <4>1
      <4> QED
        BY <3>2, <4>2 DEF Settings
    <3> QED
      BY <3>1, <3>2
  <2>3. doc \in Settings /\ Leaves(doc) = Leaf
    BY <2>2, AbsentAssumption DEF Settings, Leaves
  <2>4. "rest" \in Source
    BY DEF Source, Precedence
  <2>5. ApplyAnswer(rec, s, answer) = ApplyPayload(rec, s, doc, [asOf |-> i, source |-> "rest"], TRUE)
    BY <1>2 DEF ApplyAnswer
  <2>6. \A l \in Leaves(doc) : doc[l] = cloud.docs[s][i][l]
    OBVIOUS
  <2> HIDE DEF i, doc
  <2>7. ASSUME NEW full \in BOOLEAN, full => Leaves(doc) = Leaf
        PROVE  LET new == ApplyPayload(rec, s, doc, [asOf |-> i, source |-> "rest"], full)
               IN  /\ Sound(new) /\ Updates(rec, new)
                   /\ new.offline = rec.offline /\ new.fresh = rec.fresh
                   /\ new.heard = rec.heard
    BY <2>1, <2>3, <2>4, <2>6, <2>7, ApplyPayloadSound
  <2> QED
    BY <2>3, <2>5, <2>7
<1> QED
  BY <1>1, <1>2

\* And so do the answers of a stage together.
LEMMA ApplyAnswersSound ==
    ASSUME CloudOK, NEW rec, Sound(rec), NEW sections, NEW answer, Answering(sections, answer)
    PROVE  LET new == ApplyAnswers(rec, sections, answer)
           IN  /\ Sound(new) /\ Updates(rec, new) /\ new.fresh = rec.fresh
<1> DEFINE applied == [s \in Section |-> IF s \in sections THEN ApplyAnswer(rec, s, answer[s])
                                                           ELSE rec]
           docs == [s \in Section |-> applied[s].docs[s]]
           versions == [s \in Section \cup {"health"} |->
                           IF s \in Section THEN applied[s].versions[s] ELSE rec.versions[s]]
           new == ApplyAnswers(rec, sections, answer)
<1>1. /\ rec \in Record /\ \A t \in Section : rec.docs[t] \in Settings
      /\ DOMAIN rec.versions = Section \cup {"health"} /\ rec.versions["health"] \in Version
  BY DEF Sound, Record
<1>2. \A s \in Section : Sound(applied[s]) /\ Updates(rec, applied[s])
  <2>1. Updates(rec, rec)
    BY <1>1, NotYoungerReflexive DEF Updates
  <2>2. ASSUME NEW s \in sections
        PROVE  Sound(ApplyAnswer(rec, s, answer[s])) /\ Updates(rec, ApplyAnswer(rec, s, answer[s]))
    BY <2>2, ApplyAnswerSound DEF Answering
  <2> QED
    BY <2>1, <2>2
<1>3. \A s \in Section : applied[s] \in Record /\ Follows(applied[s], s)
  BY <1>2 DEF Sound
<1> HIDE DEF applied
<1>4. docs \in [Section -> Settings]
  BY <1>3 DEF Record
<1>5. versions \in [Section \cup {"health"} -> Version] /\ versions["health"] = rec.versions["health"]
  BY <1>1, <1>3, SectionAssumption DEF Record
<1>6. new = Renewed(rec, docs, versions)
  <2>1. new = [rec EXCEPT !.docs = docs, !.versions = versions]
    BY <1>1 DEF ApplyAnswers, applied
  <2> HIDE DEF docs, versions, new
  <2>2. [rec EXCEPT !.docs = docs, !.versions = versions] = Renewed(rec, docs, versions)
    BY <1>1, <1>4, <1>5, RecordRenewed, Zenon
  <2> QED
    BY <2>1, <2>2, Zenon
<1>7. \A s \in Section : docs[s] = applied[s].docs[s] /\ versions[s] = applied[s].versions[s]
  OBVIOUS
<1> HIDE DEF docs, versions, new
<1>8. new \in Record
  BY <1>1, <1>4, <1>5, <1>6, RecordRenewed
<1>9. \A s \in Section : Follows(new, s)
  BY <1>3, <1>6, <1>7 DEF Follows, Renewed
<1>10. Told(new)
  BY <1>5, <1>6 DEF Told, Renewed, Sound
<1>11. Updates(rec, new)
  BY <1>2, <1>6, <1>7 DEF Updates, Renewed
<1>12. new.fresh = rec.fresh
  BY <1>6 DEF Renewed
<1>13. Sound(new)
  BY <1>8, <1>9, <1>10 DEF Sound
<1> QED
  BY <1>11, <1>12, <1>13 DEF new

\* A set of naturals that holds 0 and each successor holds them all.
LEMMA SetInduction ==
    ASSUME NEW S, S \subseteq Nat, 0 \in S, \A n \in S : n + 1 \in S
    PROVE  S = Nat
<1>1. SUFFICES ASSUME Nat \ S # {} PROVE FALSE
  OBVIOUS
<1> DEFINE T == Nat \ S
<1>2. PICK x \in T : \A y \in T : ~(<<y, x>> \in OpToRel(<, Nat))
  <2>1. IsWellFoundedOn(OpToRel(<, Nat), Nat)
    BY NatLessThanWellFounded
  <2>2. T \subseteq Nat /\ T # {}
    BY <1>1
  <2> HIDE DEF T
  <2> QED
    BY <2>1, <2>2, WFMin
<1>3. /\ x \in Nat /\ x - 1 \in Nat /\ x - 1 < x
      /\ x = (x - 1) + 1
  OBVIOUS
<1>4. x - 1 \in T
  BY <1>3
<1>5. <<x - 1, x>> \in OpToRel(<, Nat)
  BY <1>3 DEF OpToRel
<1> QED
  BY <1>2, <1>4, <1>5

\* The record after each of n messages.
Replayed(after, rec, messages, n) ==
    after = [i \in 0..n |-> IF i = 0 THEN rec ELSE ApplyMessage(after[i - 1], messages[i])]

\* It exists: the recursion has a solution.
LEMMA ReplayExists ==
    ASSUME NEW rec, NEW messages, NEW n \in Nat
    PROVE  \E f : Replayed(f, rec, messages, n)
<1> DEFINE Solved(m) == \E f : Replayed(f, rec, messages, m)
           S == {m \in Nat : Solved(m)}
<1>1. Solved(0)
  <2> DEFINE f == [i \in 0..0 |-> rec]
  <2>1. f = [i \in 0..0 |-> IF i = 0 THEN rec ELSE ApplyMessage(f[i - 1], messages[i])]
    OBVIOUS
  <2> QED
    BY <2>1 DEF Replayed
<1>2. ASSUME NEW m \in Nat, Solved(m) PROVE Solved(m + 1)
  <2>1. PICK f : f = [i \in 0..m |-> IF i = 0 THEN rec ELSE ApplyMessage(f[i - 1], messages[i])]
    BY <1>2 DEF Replayed
  <2> DEFINE g == [i \in 0..(m + 1) |-> IF i = m + 1 THEN ApplyMessage(f[m], messages[m + 1])
                                                    ELSE f[i]]
             h == [i \in 0..(m + 1) |-> IF i = 0 THEN rec ELSE ApplyMessage(g[i - 1], messages[i])]
  <2>2. ASSUME NEW i \in 0..(m + 1) PROVE g[i] = h[i]
    <3>1. CASE i = m + 1
      BY <3>1
    <3>2. CASE i \in 0..m
      BY <3>2, <2>1
    <3> QED
      BY <3>1, <3>2
  <2>3. g = h
    BY <2>2
  <2> QED
    BY <2>3 DEF Replayed
<1>3. S = Nat
  <2>1. S \subseteq Nat /\ 0 \in S
    BY <1>1
  <2>2. \A m \in S : m + 1 \in S
    BY <1>2
  <2> HIDE DEF S
  <2> QED
    BY <2>1, <2>2, SetInduction
<1> QED
  BY <1>3

\* Messages replayed to a sound record leave it sound, and none of its readings
\* older.
LEMMA ReplaySound ==
    ASSUME CloudOK, NEW rec, Sound(rec), NEW n \in Nat, NEW messages \in [1..n -> Messages],
           \A i \in 1..n : Sent(messages[i])
    PROVE  Sound(Replay(rec, messages, n))
<1> DEFINE after == CHOOSE f : Replayed(f, rec, messages, n)
<1>1. Replayed(after, rec, messages, n)
  <2>1. \E f : Replayed(f, rec, messages, n)
    BY ReplayExists
  <2> QED
    BY <2>1, Zenon
<1>2. Replay(rec, messages, n) = after[n]
  BY DEF Replay, Replayed
<1> HIDE DEF after
<1>3. after[0] = rec /\ \A i \in 1..n : after[i] = ApplyMessage(after[i - 1], messages[i])
  BY <1>1 DEF Replayed
<1> DEFINE S == {m \in Nat : m <= n => Sound(after[m])}
<1>4. S = Nat
  <2>1. S \subseteq Nat /\ 0 \in S
    BY <1>3
  <2>2. ASSUME NEW m \in S PROVE m + 1 \in S
    <3>1. ASSUME m + 1 <= n PROVE Sound(after[m + 1])
      <4>1. /\ m \in Nat /\ Sound(after[m]) /\ m + 1 \in 1..n
            /\ messages[m + 1] \in Messages /\ Sent(messages[m + 1])
            /\ after[m + 1] = ApplyMessage(after[m], messages[m + 1])
        BY <1>3, <3>1
      <4> QED
        BY <4>1, ApplyMessageSound
    <3> QED
      BY <3>1
  <2> HIDE DEF S
  <2> QED
    BY <2>1, <2>2, SetInduction
<1>5. n \in S
  BY <1>4
<1> QED
  BY <1>2, <1>5

-----------------------------------------------------------------------------
\* The endpoints found not to exist

\* The facts an endpoint was missing under are of no later time than the cloud's.
Past(print) == \A t \in Telling : print.facts[t][2] <= Len(cloud.docs[t])
Current(print) == \A t \in Telling : print.facts[t][2] = Len(cloud.docs[t])

\* As long as they are those of the present, the device does not have it.
Justifies(print, s) == print.place # Nowhere /\ Current(print) => s \notin cloud.offers

MissingSound(noted) ==
    /\ noted \in [Optional -> Fingerprints]
    /\ \A s \in Optional : Past(noted[s]) /\ Justifies(noted[s], s)

\* A hydration's documents are some there have been, and what it found missing was.
CallSound(q) ==
    /\ \A s \in Section : q.answer[s].kind = "document" => q.answer[s].stamp \in 1..Len(cloud.docs[s])
    /\ Past(q.print)
    /\ q.pc = "optional" =>
         \A s \in Optional : q.answer[s].kind = "missing" => Justifies(q.print, s)
CallsSound(calls) == calls \in [Hydration -> Call] /\ \A p \in Hydration : CallSound(calls[p])

IInv == CloudOK /\ Sound(record) /\ MissingSound(missing) /\ CallsSound(hydration)

\* The blank record is sound, whatever the cloud holds.
LEMMA BlankSound ==
    ASSUME CloudOK, NEW place \in Place \cup {Nowhere}
    PROVE  Sound(Blank(place))
<1> DEFINE rec == Blank(place)
<1>1. NoVersion \in Version /\ NoSettings \in Settings /\ Leaves(NoSettings) = {}
  BY DEF Version, NoSettings, Settings, Leaves
<1>2. rec \in Record
  <2> DEFINE P == Place \cup {Nowhere}
             V == [Section \cup {"health"} -> Version]
             D == [Section -> Settings]
             H == SUBSET (1..MaxEvents)
             docs == [s \in Section |-> NoSettings]
             versions == [s \in Section \cup {"health"} |-> NoVersion]
  <2>1. place \in P /\ docs \in D /\ versions \in V /\ {} \in H
    BY <1>1
  <2>2. Record = [place : P, docs : D, versions : V, offline : BOOLEAN, fresh : BOOLEAN, heard : H]
    BY DEF Record
  <2>3. rec = [place |-> place, docs |-> docs, versions |-> versions,
               offline |-> FALSE, fresh |-> FALSE, heard |-> {}]
    BY DEF Blank
  <2> HIDE DEF P, V, D, H, docs, versions, rec
  <2> QED
    BY <2>1, <2>2, <2>3
<1>3. \A s \in Section : Len(cloud.docs[s]) \in Nat
  BY Times DEF CloudOK, Moment
<1>4. \A s \in Section : Follows(rec, s)
  BY <1>1, <1>3 DEF Follows, Blank, NoVersion, NoStamp
<1>5. Told(rec)
  BY DEF Told, Blank
<1> QED
  BY <1>2, <1>4, <1>5 DEF Sound

\* The facts of a sound record are some there have been.
LEMMA FingerprintSound ==
    ASSUME CloudOK, NEW rec, Sound(rec)
    PROVE  Fingerprint(rec) \in Fingerprints /\ Past(Fingerprint(rec))
<1>1. /\ rec \in Record /\ \A t \in Telling : /\ t \in Section
                                              /\ rec.docs[t] \in Settings
                                              /\ rec.versions[t] \in Version
                                              /\ rec.versions[t].asOf <= Len(cloud.docs[t])
  BY SectionAssumption DEF Sound, Record, Follows
<1>2. \A t \in Telling : rec.versions[t].asOf \in Stamp
  BY <1>1 DEF Version, NoVersion, NoStamp, Stamp
<1> DEFINE facts == [t \in Telling |-> <<rec.docs[t], rec.versions[t].asOf>>]
<1>3. facts \in [Telling -> Settings \X Stamp]
  BY <1>1, <1>2
<1>4. Supported(rec) \in BOOLEAN /\ rec.place \in Place \cup {Nowhere}
  BY <1>1 DEF Supported, Record
<1>5. Fingerprint(rec) \in Fingerprints
  <2>1. Fingerprint(rec) = [supported |-> Supported(rec), place |-> rec.place, facts |-> facts]
    BY DEF Fingerprint
  <2> HIDE DEF facts
  <2> QED
    BY <1>3, <1>4, <2>1 DEF Fingerprints
<1>6. Past(Fingerprint(rec))
  BY <1>1 DEF Past, Fingerprint
<1> QED
  BY <1>5, <1>6

\* A hydration that is over, or just begun, is sound.
LEMMA RestSound ==
    ASSUME CloudOK
    PROVE  /\ NoFingerprint \in Fingerprints /\ Past(NoFingerprint) /\ NoFingerprint.place = Nowhere
           /\ Rest \in Call /\ CallSound(Rest)
           /\ Pending \in Answer /\ Unasked \in Answer
<1>1. NoFingerprint \in Fingerprints /\ Past(NoFingerprint)
  <2>1. Sound(Blank(Nowhere))
    BY BlankSound
  <2> QED
    BY <2>1, FingerprintSound DEF NoFingerprint
<1>2. NoFingerprint.place = Nowhere
  BY DEF NoFingerprint, Fingerprint, Blank
<1>3. Pending \in Answer /\ Unasked \in Answer
  BY Times DEF Pending, Unasked, Answer, NoStamp
<1>4. Rest \in Call
  BY <1>1, <1>3 DEF Rest, Call
<1>5. CallSound(Rest)
  BY <1>1 DEF CallSound, Rest, Unasked
<1> QED
  BY <1>1, <1>2, <1>3, <1>4, <1>5

\* The beginning.
LEMMA InitInv == Init => IInv
<1> SUFFICES ASSUME Init PROVE IInv
  OBVIOUS
<1> DEFINE first == [l \in Leaf |-> 1]
<1>1. 1 \in Value /\ 1 \in Moment /\ first \in Settings /\ first \in [Leaf -> Value]
  BY MomentAssumption DEF Moment, Settings
<1> HIDE DEF first
<1>2. /\ cloud = [docs |-> [s \in Section |-> <<first>>], offers |-> {}, events |-> 0]
  BY DEF Init, first
<1>3. \A s \in Section : /\ cloud.docs[s] \in Seq(Settings) /\ Len(cloud.docs[s]) = 1
                        /\ cloud.docs[s][1] = first
  BY <1>1, <1>2
<1>4. cloud \in Cloud
  <2>1. 0 \in 0..MaxEvents
    BY Times
  <2>2. cloud.docs \in [Section -> Seq(Settings)]
    BY <1>2, <1>3
  <2> QED
    BY <1>2, <2>1, <2>2 DEF Cloud
<1>5. HistoryGrows
  <2>1. \A l \in Leaf : first[l] = 1
    BY DEF first
  <2>2. ASSUME NEW s \in Section, NEW i \in 1..Len(cloud.docs[s])
        PROVE  i = 1 /\ cloud.docs[s][i] = first /\ \A j \in i..Len(cloud.docs[s]) : j = 1
    <3>1. Len(cloud.docs[s]) = 1 /\ cloud.docs[s][1] = first
      BY <1>3
    <3>2. i = 1
      BY <3>1
    <3> QED
      BY <3>1, <3>2
  <2>3. ASSUME NEW s \in Section, NEW i \in 1..Len(cloud.docs[s]), NEW l \in Leaf
        PROVE  /\ cloud.docs[s][i] \in [Leaf -> Value]
               /\ cloud.docs[s][i][l] <= i
               /\ \A j \in i..Len(cloud.docs[s]) : cloud.docs[s][i][l] <= cloud.docs[s][j][l]
    <3>1. i = 1 /\ cloud.docs[s][i] = first /\ \A j \in i..Len(cloud.docs[s]) : j = 1
      BY <2>2
    <3>2. first[l] = 1
      BY <2>1
    <3> QED
      BY <1>1, <3>1, <3>2
  <2> QED
    BY <2>3 DEF HistoryGrows
<1>6. CloudOK
  BY <1>1, <1>3, <1>4, <1>5 DEF CloudOK
<1>7. Sound(record)
  BY <1>6, BlankSound DEF Init
<1>8. MissingSound(missing)
  BY <1>6, RestSound DEF Init, MissingSound, Justifies
<1>9. CallsSound(hydration)
  BY <1>6, RestSound DEF Init, CallsSound
<1> QED
  BY <1>6, <1>7, <1>8, <1>9 DEF IInv

\* While the cloud stays as it is, a step is judged by what it makes of the rest.
LEMMA CloudStays ==
    ASSUME CloudOK, UNCHANGED cloud, Sound(record'), MissingSound(missing'), CallsSound(hydration')
    PROVE  IInv'
<1>1. CloudOK'
  BY DEF CloudOK, HistoryGrows
<1>2. Sound(record)'
  BY DEF Sound, Follows, Told
<1>3. MissingSound(missing)'
  BY DEF MissingSound, Past, Justifies, Current
<1>4. CallsSound(hydration)'
  BY DEF CallsSound, CallSound, Past, Justifies, Current
<1> QED
  BY <1>1, <1>2, <1>3, <1>4 DEF IInv

\* What the cloud's histories go through.
Grows ==
    \A t \in Section : /\ Len(cloud'.docs[t]) >= Len(cloud.docs[t])
                      /\ \A i \in 1..Len(cloud.docs[t]) : cloud'.docs[t][i] = cloud.docs[t][i]

\* A change adds a document, and its values are none younger than that.
LEMMA HistoryStep ==
    ASSUME CloudOK, NEW s \in Section, SectionChanges(s)
    PROVE  /\ CloudOK' /\ Grows
           /\ \A t \in Section \ {s} : cloud'.docs[t] = cloud.docs[t]
           /\ Len(cloud'.docs[s]) = Len(cloud.docs[s]) + 1
           /\ s \notin Telling => cloud'.offers = cloud.offers
<1>1. PICK keys \in SUBSET Leaf \ {{}} : \E offers \in SUBSET Optional :
        /\ s \notin Telling => offers = cloud.offers
        /\ LET now == Len(cloud.docs[s]) + 1
               doc == [l \in Leaf |-> IF l \in keys THEN now ELSE cloud.docs[s][now - 1][l]]
           IN  cloud' = [cloud EXCEPT !.docs[s] = Append(@, doc), !.offers = offers]
  BY DEF SectionChanges
<1>2. PICK offers \in SUBSET Optional :
        /\ s \notin Telling => offers = cloud.offers
        /\ LET now == Len(cloud.docs[s]) + 1
               doc == [l \in Leaf |-> IF l \in keys THEN now ELSE cloud.docs[s][now - 1][l]]
           IN  cloud' = [cloud EXCEPT !.docs[s] = Append(@, doc), !.offers = offers]
  BY <1>1
<1> DEFINE last == Len(cloud.docs[s])
           doc == [l \in Leaf |-> IF l \in keys THEN last + 1 ELSE cloud.docs[s][last][l]]
           history == Append(cloud.docs[s], doc)
           docs == [cloud.docs EXCEPT ![s] = history]
<1>3. /\ last \in Moment /\ last < MaxHistory /\ last \in Nat /\ last >= 1
      /\ cloud.docs \in [Section -> Seq(Settings)] /\ cloud.docs[s] \in Seq(Settings)
      /\ cloud.events \in 0..MaxEvents
      /\ \A t \in Section : Len(cloud.docs[t]) \in Moment /\ Len(cloud.docs[t]) \in Nat
  BY Times DEF CloudOK, Cloud, Moment, SectionChanges
<1>4. last + 1 \in Moment
  BY <1>3, Times DEF Moment
<1>5. /\ doc \in [Leaf -> Value] /\ doc \in Settings
      /\ \A l \in Leaf : /\ doc[l] \in Nat /\ doc[l] <= last + 1
                        /\ cloud.docs[s][last][l] \in Nat /\ cloud.docs[s][last][l] <= doc[l]
  <2>1. \A l \in Leaf : /\ cloud.docs[s][last][l] \in Value /\ cloud.docs[s][last][l] \in Nat
                       /\ cloud.docs[s][last][l] <= last
    BY <1>3, Times DEF CloudOK, HistoryGrows
  <2>2. last + 1 \in Value
    BY <1>4, Times
  <2> QED
    BY <1>3, <2>1, <2>2 DEF Settings
<1>6. cloud' = [docs |-> docs, offers |-> offers, events |-> cloud.events]
  <2>1. cloud = [docs |-> cloud.docs, offers |-> cloud.offers, events |-> cloud.events]
    BY DEF CloudOK, Cloud
  <2>2. (last + 1) - 1 = last
    BY <1>3
  <2>3. cloud' = [cloud EXCEPT !.docs = docs, !.offers = offers]
    BY <1>2, <2>2
  <2> HIDE DEF docs
  <2> QED
    BY <2>1, <2>3
<1> HIDE DEF doc
<1>7. /\ history \in Seq(Settings) /\ Len(history) = last + 1 /\ history[last + 1] = doc
      /\ \A i \in 1..last : history[i] = cloud.docs[s][i]
  BY <1>3, <1>5
<1> HIDE DEF history
<1>8. /\ cloud'.docs[s] = history /\ \A t \in Section \ {s} : cloud'.docs[t] = cloud.docs[t]
      /\ cloud' \in Cloud
  <2>1. /\ docs \in [Section -> Seq(Settings)] /\ docs[s] = history
        /\ \A t \in Section \ {s} : docs[t] = cloud.docs[t]
    BY <1>3, <1>7
  <2> HIDE DEF docs
  <2> QED
    BY <1>3, <1>6, <2>1 DEF Cloud
<1>9. Grows
  BY <1>3, <1>7, <1>8 DEF Grows
<1>10. HistoryGrows'
  <2> SUFFICES ASSUME NEW t \in Section, NEW i \in 1..Len(cloud'.docs[t]), NEW l \in Leaf
               PROVE  /\ cloud'.docs[t][i] \in [Leaf -> Value]
                      /\ cloud'.docs[t][i][l] <= i
                      /\ \A j \in i..Len(cloud'.docs[t]) :
                           cloud'.docs[t][i][l] <= cloud'.docs[t][j][l]
    BY DEF HistoryGrows
  <2>1. CASE t # s
    BY <1>8, <2>1 DEF CloudOK, HistoryGrows
  <2>2. CASE t = s /\ i = last + 1
    <3>1. \A j \in i..Len(cloud'.docs[t]) : j = i
      BY <1>3, <1>7, <1>8, <2>2
    <3> QED
      BY <1>3, <1>5, <1>7, <1>8, <2>2, <3>1
  <2>3. CASE t = s /\ i # last + 1
    <3>1. i \in 1..last /\ cloud'.docs[t][i] = cloud.docs[s][i]
      BY <1>3, <1>7, <1>8, <2>3
    <3>2. /\ cloud.docs[s][i] \in [Leaf -> Value] /\ cloud.docs[s][i][l] \in Nat
          /\ cloud.docs[s][i][l] <= i
          /\ \A j \in i..last : cloud.docs[s][i][l] <= cloud.docs[s][j][l]
      BY <3>1, Times DEF CloudOK, HistoryGrows
    <3>3. ASSUME NEW j \in i..Len(cloud'.docs[t])
          PROVE  cloud'.docs[t][i][l] <= cloud'.docs[t][j][l]
      <4>1. CASE j = last + 1
        <5>1. cloud.docs[s][i][l] <= cloud.docs[s][last][l]
          BY <1>3, <3>1, <3>2
        <5> QED
          BY <1>5, <1>7, <1>8, <2>3, <3>1, <3>2, <4>1, <5>1
      <4>2. CASE j # last + 1
        <5>1. j \in i..last /\ j \in 1..last
          BY <1>3, <1>7, <1>8, <2>3, <3>1, <4>2
        <5> QED
          BY <1>7, <1>8, <2>3, <3>1, <3>2, <5>1
      <4> QED
        BY <4>1, <4>2
    <3> QED
      BY <3>1, <3>2, <3>3
  <2> QED
    BY <2>1, <2>2, <2>3
<1>11. CloudOK'
  BY <1>3, <1>4, <1>7, <1>8, <1>10 DEF CloudOK
<1>12. s \notin Telling => cloud'.offers = cloud.offers
  BY <1>2, <1>6
<1> QED
  BY <1>7, <1>8, <1>9, <1>11, <1>12

\* What was sound before a section changed is sound after it.
LEMMA SectionChangesInv ==
    ASSUME IInv, NEW s \in Section, SectionChanges(s)
    PROVE  IInv'
<1>1. /\ CloudOK' /\ Grows
      /\ \A t \in Section \ {s} : cloud'.docs[t] = cloud.docs[t]
      /\ Len(cloud'.docs[s]) = Len(cloud.docs[s]) + 1
      /\ s \notin Telling => cloud'.offers = cloud.offers
  BY HistoryStep DEF IInv
<1>2. UNCHANGED <<record, missing, hydration>>
  BY DEF SectionChanges
<1>3. \A t \in Section : Len(cloud.docs[t]) \in Nat /\ Len(cloud'.docs[t]) \in Nat
  <2>1. \A t \in Section : Len(cloud.docs[t]) \in Nat
    BY Times DEF IInv, CloudOK, Moment
  <2> QED
    BY <1>1, <2>1
<1>4. ASSUME NEW print \in Fingerprints, Past(print)
      PROVE  /\ Past(print)'
             /\ \A o \in Optional : Justifies(print, o) => Justifies(print, o)'
  <2>1. \A t \in Telling : t \in Section /\ print.facts[t][2] \in Nat
    BY SectionAssumption DEF Fingerprints, Stamp
  <2>2. Past(print)'
    BY <1>1, <1>3, <1>4, <2>1 DEF Past, Grows
  <2>3. CASE s \notin Telling
    BY <1>1, <2>1, <2>2, <2>3 DEF Justifies, Current
  <2>4. CASE s \in Telling
    <3>1. print.facts[s][2] # Len(cloud'.docs[s])
      BY <1>1, <1>3, <1>4, <2>1, <2>4 DEF Past
    <3> QED
      BY <2>2, <2>4, <3>1 DEF Justifies, Current
  <2> QED
    BY <2>3, <2>4
<1>5. Sound(record)'
  <2>1. ASSUME NEW t \in Section PROVE Follows(record, t)'
    <3> DEFINE asOf == record.versions[t].asOf
    <3>1. /\ asOf <= Len(cloud.docs[t]) /\ asOf \in Nat
          /\ \A l \in Leaves(record.docs[t]) :
               asOf >= 1 /\ record.docs[t][l] <= cloud.docs[t][asOf][l]
      BY DEF IInv, Sound, Follows, Record, Version, NoVersion, NoStamp, Stamp
    <3>2. asOf <= Len(cloud'.docs[t])
      BY <1>1, <1>3, <3>1 DEF Grows
    <3>3. \A l \in Leaves(record.docs[t]) :
            asOf >= 1 /\ record.docs[t][l] <= cloud'.docs[t][asOf][l]
      <4>1. asOf >= 1 => cloud'.docs[t][asOf] = cloud.docs[t][asOf]
        BY <1>1, <1>3, <3>1 DEF Grows
      <4> QED
        BY <3>1, <4>1
    <3> QED
      BY <1>2, <3>2, <3>3 DEF Follows, Leaves
  <2> QED
    BY <1>2, <2>1 DEF IInv, Sound, Told
<1>6. MissingSound(missing)'
  <2>1. MissingSound(missing)
    BY DEF IInv
  <2>2. \A o \in Optional : missing[o] \in Fingerprints /\ Past(missing[o]) /\ Justifies(missing[o], o)
    BY <2>1 DEF MissingSound
  <2>3. \A o \in Optional : Past(missing[o])' /\ Justifies(missing[o], o)'
    BY <1>2, <1>4, <2>2 DEF Past, Justifies, Current
  <2> QED
    BY <1>2, <2>1, <2>3 DEF MissingSound
<1>7. CallsSound(hydration)'
  <2>1. ASSUME NEW p \in Hydration PROVE CallSound(hydration[p])'
    <3> DEFINE q == hydration[p]
    <3>1. q \in Call /\ CallSound(q) /\ q.print \in Fingerprints /\ q' = q
      BY <1>2 DEF IInv, CallsSound, Call
    <3> HIDE DEF q
    <3>2. Past(q.print)
      BY <3>1 DEF CallSound
    <3>3. /\ \A t \in Telling : q.print.facts[t][2] <= Len(cloud'.docs[t])
          /\ \A o \in Optional : Justifies(q.print, o) =>
               (q.print.place # Nowhere
                  /\ (\A t \in Telling : q.print.facts[t][2] = Len(cloud'.docs[t]))
                   => o \notin cloud'.offers)
      BY <1>4, <3>1, <3>2 DEF Past, Justifies, Current
    <3>4. \A t \in Section : q.answer[t].kind = "document"
                           => q.answer[t].stamp \in 1..Len(cloud'.docs[t])
      BY <1>1, <1>3, <3>1 DEF CallSound, Grows
    <3>5. CallSound(q)'
      BY <3>1, <3>3, <3>4 DEF CallSound, Past, Justifies, Current
    <3> QED
      BY <3>5 DEF q
  <2> QED
    BY <1>2, <2>1 DEF IInv, CallsSound
<1> QED
  BY <1>1, <1>5, <1>6, <1>7 DEF IInv

\* An outage that begins or ends changes nothing else of the cloud.
LEMMA EventHappensInv ==
    ASSUME IInv, EventHappens
    PROVE  IInv'
<1>1. /\ cloud.events \in 0..MaxEvents /\ cloud.events + 1 \in 0..MaxEvents
      /\ cloud = [docs |-> cloud.docs, offers |-> cloud.offers, events |-> cloud.events]
  BY Times DEF IInv, CloudOK, Cloud, EventHappens
<1>2. cloud' = [docs |-> cloud.docs, offers |-> cloud.offers, events |-> cloud.events + 1]
  BY <1>1 DEF EventHappens
<1>3. cloud' \in Cloud /\ cloud'.docs = cloud.docs /\ cloud'.offers = cloud.offers
  BY <1>1, <1>2 DEF IInv, CloudOK, Cloud
<1>4. UNCHANGED <<record, missing, hydration>>
  BY DEF EventHappens
<1>5. CloudOK'
  BY <1>3 DEF IInv, CloudOK, HistoryGrows
<1>6. Sound(record)'
  BY <1>3, <1>4 DEF IInv, Sound, Follows, Told
<1>7. MissingSound(missing)'
  BY <1>3, <1>4 DEF IInv, MissingSound, Past, Justifies, Current
<1>8. CallsSound(hydration)'
  BY <1>3, <1>4 DEF IInv, CallsSound, CallSound, Past, Justifies, Current
<1> QED
  BY <1>5, <1>6, <1>7, <1>8 DEF IInv

-----------------------------------------------------------------------------
\* The steps of the coordinator

\* A record marked as fresh, or as no longer fresh, is otherwise the same.
LEMMA MarkedSound ==
    ASSUME CloudOK, NEW rec, Sound(rec), NEW fresh \in BOOLEAN
    PROVE  LET new == [rec EXCEPT !.fresh = fresh]
           IN  Sound(new) /\ new.docs = rec.docs
<1> DEFINE new == [rec EXCEPT !.fresh = fresh]
<1>1. rec \in Record
  BY DEF Sound
<1>2. new = [place |-> rec.place, docs |-> rec.docs, versions |-> rec.versions,
             offline |-> rec.offline, fresh |-> fresh, heard |-> rec.heard]
  BY <1>1 DEF Record
<1> HIDE DEF new
<1>3. new \in Record
  BY <1>1, <1>2 DEF Record
<1>4. (\A s \in Section : Follows(new, s)) /\ Told(new)
  BY <1>2 DEF Sound, Follows, Told
<1> QED
  BY <1>2, <1>3, <1>4 DEF Sound, new

\* So is one that was moved.
LEMMA MovedSound ==
    ASSUME CloudOK, NEW rec, Sound(rec), NEW place \in Place
    PROVE  LET new == [rec EXCEPT !.place = place]
           IN  Sound(new) /\ new.docs = rec.docs
<1> DEFINE new == [rec EXCEPT !.place = place]
<1>1. rec \in Record
  BY DEF Sound
<1>2. new = [place |-> place, docs |-> rec.docs, versions |-> rec.versions,
             offline |-> rec.offline, fresh |-> rec.fresh, heard |-> rec.heard]
  BY <1>1 DEF Record
<1> HIDE DEF new
<1>3. new \in Record
  BY <1>1, <1>2 DEF Record
<1>4. (\A s \in Section : Follows(new, s)) /\ Told(new)
  BY <1>2 DEF Sound, Follows, Told
<1> QED
  BY <1>2, <1>3, <1>4 DEF Sound, new

\* What a step may do to the record: none of its readings gets older.
NoneOlder(old, new) == \A s \in Section : NotYounger(old.docs[s], new.docs[s])
RecordStep == /\ Sound(record')
              /\ Present(record) /\ Present(record') => NoneOlder(record, record')

\* A record that keeps its documents has none older.
LEMMA SameDocs ==
    ASSUME NEW old, NEW new, old \in Record, new.docs = old.docs
    PROVE  NoneOlder(old, new)
<1>1. \A s \in Section : old.docs[s] \in Settings
  BY DEF Record
<1> QED
  BY <1>1, NotYoungerReflexive DEF NoneOlder

\* A new device begins with nothing, and what was kept of it.
LEMMA DiscoveredStep ==
    ASSUME IInv, Discovered
    PROVE  RecordStep
<1>1. PICK place \in Place : \E n \in 0..MaxCached : \E messages \in [1..n -> Messages] :
        /\ \A i \in 1..n : Sent(messages[i])
        /\ record' = Replay(Blank(place), messages, n)
  BY DEF Discovered
<1>2. PICK n \in 0..MaxCached : \E messages \in [1..n -> Messages] :
        /\ \A i \in 1..n : Sent(messages[i])
        /\ record' = Replay(Blank(place), messages, n)
  BY <1>1
<1>3. PICK messages \in [1..n -> Messages] :
        /\ \A i \in 1..n : Sent(messages[i])
        /\ record' = Replay(Blank(place), messages, n)
  BY <1>2
<1>4. n \in Nat /\ CloudOK /\ Sound(Blank(place))
  BY Times, BlankSound DEF IInv
<1>5. Sound(record')
  BY <1>3, <1>4, ReplaySound
<1> QED
  BY <1>5 DEF RecordStep, Discovered

\* A push makes no reading older.
LEMMA PushStep ==
    ASSUME IInv, Push
    PROVE  RecordStep
<1>1. PICK m \in Messages : Sent(m) /\ record' = ApplyMessage(record, m)
  BY DEF Push
<1>2. CloudOK /\ Sound(record)
  BY DEF IInv
<1>3. Sound(record') /\ Updates(record, record')
  BY <1>1, <1>2, ApplyMessageSound
<1> QED
  BY <1>3 DEF RecordStep, Updates, NoneOlder

\* Nor does a document read back.
LEMMA ReadBackStep ==
    ASSUME IInv, ReadBack
    PROVE  RecordStep
<1>1. PICK s \in Writable : \E i \in 1..Len(cloud.docs[s]) :
        record' = ApplyAnswer(record, s, [kind |-> "document", stamp |-> i])
  BY DEF ReadBack
<1>2. PICK i \in 1..Len(cloud.docs[s]) :
        record' = ApplyAnswer(record, s, [kind |-> "document", stamp |-> i])
  BY <1>1
<1>3. CloudOK /\ Sound(record) /\ s \in Section
  BY SectionAssumption DEF IInv
<1> DEFINE answer == [kind |-> "document", stamp |-> i]
<1>4. answer.stamp \in 1..Len(cloud.docs[s]) /\ record' = ApplyAnswer(record, s, answer)
  BY <1>2
<1> HIDE DEF answer
<1>5. Sound(record') /\ Updates(record, record')
  BY <1>3, <1>4, ApplyAnswerSound
<1> QED
  BY <1>5 DEF RecordStep, Updates, NoneOlder

\* The hierarchy moves a device, or takes it away with all that is known of it.
LEMMA HierarchyStep ==
    ASSUME IInv, Kept \/ Removed \/ WindowElapses
    PROVE  RecordStep /\ MissingSound(missing')
<1>1. CloudOK /\ Sound(record) /\ record \in Record /\ MissingSound(missing)
  BY DEF IInv, Sound
<1>2. CASE Kept
  <2>1. PICK place \in Place : record' = [record EXCEPT !.place = place]
    BY <1>2 DEF Kept
  <2>2. Sound(record') /\ record'.docs = record.docs
    BY <1>1, <2>1, MovedSound
  <2>3. missing' = missing
    BY <1>2 DEF Kept
  <2> QED
    BY <1>1, <2>2, <2>3, SameDocs DEF RecordStep
<1>3. CASE Removed
  <2>1. record' = Blank(Nowhere) /\ missing' = [s \in Optional |-> NoFingerprint]
    BY <1>3 DEF Removed
  <2>2. Sound(record') /\ ~Present(record')
    BY <1>1, <2>1, BlankSound DEF Present, Blank
  <2>3. MissingSound(missing')
    BY <1>1, <2>1, RestSound DEF MissingSound, Justifies
  <2> QED
    BY <2>2, <2>3 DEF RecordStep
<1>4. CASE WindowElapses
  <2>1. record' = [record EXCEPT !.fresh = FALSE] /\ missing' = missing
    BY <1>4 DEF WindowElapses
  <2>2. Sound(record') /\ record'.docs = record.docs
    BY <1>1, <2>1, MarkedSound
  <2> QED
    BY <1>1, <2>1, <2>2, SameDocs DEF RecordStep
<1> QED
  BY <1>2, <1>3, <1>4

-----------------------------------------------------------------------------
\* The steps of a hydration

\* A step of one hydration that leaves it sound leaves them all sound.
LEMMA CallStep ==
    ASSUME CallsSound(hydration), NEW p \in Hydration, NEW q \in Call, CallSound(q),
           hydration' = [hydration EXCEPT ![p] = q]
    PROVE  CallsSound(hydration')
BY DEF CallsSound

\* The critical requests are sent.
LEMMA BeginStep ==
    ASSUME IInv, NEW p \in Hydration, Begin(p)
    PROVE  CallsSound(hydration')
<1> DEFINE answer == [s \in Section |-> IF s \in Critical THEN Pending ELSE Unasked]
           q == [pc |-> "critical", answer |-> answer, print |-> NoFingerprint,
                 progressed |-> FALSE]
<1>1. CloudOK /\ CallsSound(hydration)
  BY DEF IInv
<1>2. answer \in [Section -> Answer] /\ \A s \in Section : answer[s].kind # "document"
  BY <1>1, RestSound DEF Pending, Unasked
<1>3. hydration' = [hydration EXCEPT ![p] = q]
  BY DEF Begin
<1>4. q \in Call /\ CallSound(q)
  <2> HIDE DEF answer
  <2> QED
    BY <1>1, <1>2, RestSound DEF Call, CallSound
<1> HIDE DEF answer, q
<1> QED
  BY <1>1, <1>3, <1>4, CallStep

\* An answer is the document there is, or tells that there is none.
LEMMA AnswersStep ==
    ASSUME IInv, NEW p \in Hydration, NEW s \in Section, Answers(p, s)
    PROVE  CallsSound(hydration')
<1>1. PICK kind \in {"failed"} \cup
                   (IF hydration[p].pc = "optional" /\ s \notin cloud.offers
                    THEN {"missing"} ELSE {"document"}) :
        hydration' = [hydration EXCEPT ![p].answer[s] =
            [kind |-> kind, stamp |-> IF kind = "document" THEN Len(cloud.docs[s]) ELSE NoStamp]]
  BY DEF Answers
<1> DEFINE stamp == IF kind = "document" THEN Len(cloud.docs[s]) ELSE NoStamp
           given == [kind |-> kind, stamp |-> stamp]
           old == hydration[p]
           answer == [old.answer EXCEPT ![s] = given]
           q == [pc |-> old.pc, answer |-> answer, print |-> old.print,
                 progressed |-> old.progressed]
<1>2. /\ CloudOK /\ CallsSound(hydration) /\ old \in Call /\ CallSound(old)
      /\ old = [pc |-> old.pc, answer |-> old.answer, print |-> old.print,
                progressed |-> old.progressed]
  BY DEF IInv, CallsSound, Call
<1>3. given \in Answer /\ (kind = "document" => stamp \in 1..Len(cloud.docs[s]))
  <2>1. Len(cloud.docs[s]) \in 1..MaxHistory
    BY <1>2 DEF CloudOK, Moment
  <2>2. kind \in {"unasked", "pending", "failed", "missing", "document"}
    BY <1>1
  <2>3. stamp \in 0..MaxHistory
    BY <2>1, Times DEF NoStamp
  <2> QED
    BY <2>1, <2>2, <2>3, Times DEF Answer
<1>4. /\ answer \in [Section -> Answer] /\ answer[s] = given
      /\ \A t \in Section \ {s} : answer[t] = old.answer[t]
  <2>1. old.answer \in [Section -> Answer]
    BY <1>2 DEF Call
  <2> HIDE DEF given, old
  <2> QED
    BY <1>3, <2>1
<1>5. hydration' = [hydration EXCEPT ![p] = q]
  <2>1. hydration' = [hydration EXCEPT ![p] = [old EXCEPT !.answer = answer]]
    BY <1>1
  <2>2. [old EXCEPT !.answer = answer] = q
    <3> HIDE DEF answer, old
    <3> QED
      BY <1>2
  <2> QED
    BY <2>1, <2>2
<1>6. kind = "missing" => old.pc = "optional" /\ s \notin cloud.offers
  BY <1>1
<1>7. q \in Call
  <2> HIDE DEF answer, old
  <2> QED
    BY <1>2, <1>4 DEF Call
<1>8. CallSound(q)
  <2>1. \A t \in Section : answer[t].kind = "document" => answer[t].stamp \in 1..Len(cloud.docs[t])
    BY <1>2, <1>3, <1>4 DEF CallSound
  <2>2. old.pc = "optional" =>
          \A o \in Optional : answer[o].kind = "missing" => Justifies(old.print, o)
    BY <1>2, <1>4, <1>6, SectionAssumption DEF CallSound, Justifies
  <2> HIDE DEF answer, old
  <2> QED
    BY <1>2, <2>1, <2>2 DEF CallSound
<1> HIDE DEF q
<1> QED
  BY <1>2, <1>5, <1>7, <1>8, CallStep

\* The critical documents are applied, and optional ones asked for under the facts
\* the record then shows, or none.
LEMMA CriticalDoneStep ==
    ASSUME IInv, NEW p \in Hydration, CriticalDone(p)
    PROVE  RecordStep /\ CallsSound(hydration')
<1> DEFINE q == hydration[p]
           applied == ApplyAnswers(record, Critical, q.answer)
           progressed == Got(q.answer, Critical) # {}
<1>1. /\ CloudOK /\ Sound(record) /\ record \in Record /\ CallsSound(hydration)
      /\ q \in Call /\ CallSound(q)
  BY DEF IInv, Sound, CallsSound
<1>2. Rest \in Call /\ CallSound(Rest) /\ Pending \in Answer /\ Unasked \in Answer
  BY <1>1, RestSound
<1>3. Sound(applied) /\ Updates(record, applied)
  <2>1. Answering(Critical, q.answer)
    BY <1>1, SectionAssumption DEF Answering, CallSound
  <2> QED
    BY <1>1, <2>1, ApplyAnswersSound
<1>4. applied \in Record /\ applied.fresh \in BOOLEAN /\ progressed \in BOOLEAN
      /\ NoneOlder(record, applied)
  BY <1>3 DEF Sound, Record, Updates, NoneOlder
<1>5. CASE ~Present(record)
  <2>1. record' = record /\ hydration' = [hydration EXCEPT ![p] = Rest]
    BY <1>5 DEF CriticalDone
  <2> QED
    BY <1>1, <1>2, <2>1, CallStep, SameDocs DEF RecordStep
<1>6. ASSUME Present(record), NEW planned \in SUBSET Optional, planned \subseteq Skipped(applied),
             record' = Marked(applied, progressed), hydration' = [hydration EXCEPT ![p] = Rest]
      PROVE  RecordStep /\ CallsSound(hydration')
  <2> HIDE DEF applied, progressed
  <2>1. record' = [applied EXCEPT !.fresh = applied.fresh \/ progressed]
    BY <1>6 DEF Marked
  <2>2. (applied.fresh \/ progressed) \in BOOLEAN
    BY <1>4
  <2>3. Sound(record') /\ record'.docs = applied.docs
    BY <1>1, <1>3, <2>1, <2>2, MarkedSound
  <2>4. NoneOlder(record, record')
    BY <1>4, <2>3 DEF NoneOlder
  <2>5. CallsSound(hydration')
    BY <1>1, <1>2, <1>6, CallStep
  <2> QED
    BY <2>3, <2>4, <2>5 DEF RecordStep
<1>7. ASSUME Present(record), NEW planned \in SUBSET Optional, record' = applied,
             hydration' = [hydration EXCEPT ![p] =
                 [pc |-> "optional", progressed |-> progressed,
                  answer |-> [s \in Section |->
                     IF s \in planned \ Skipped(applied) THEN Pending ELSE Unasked],
                  print |-> Fingerprint(applied)]]
      PROVE  RecordStep /\ CallsSound(hydration')
  <2> DEFINE asked == [s \in Section |-> IF s \in planned \ Skipped(applied) THEN Pending
                                                                           ELSE Unasked]
             print == Fingerprint(applied)
             next == [pc |-> "optional", progressed |-> progressed, answer |-> asked,
                      print |-> print]
  <2>1. /\ asked \in [Section -> Answer]
        /\ \A s \in Section : asked[s].kind \in {"pending", "unasked"}
    BY <1>2 DEF Pending, Unasked
  <2>2. print \in Fingerprints /\ Past(print)
    BY <1>1, <1>3, FingerprintSound
  <2>3. hydration' = [hydration EXCEPT ![p] = next]
    BY <1>7
  <2>4. next \in Call /\ CallSound(next)
    <3> HIDE DEF asked, print, progressed
    <3> QED
      BY <1>4, <2>1, <2>2, SectionAssumption DEF Call, CallSound
  <2>5. CallsSound(hydration')
    <3> HIDE DEF next
    <3> QED
      BY <1>1, <2>3, <2>4, CallStep
  <2> QED
    BY <1>3, <1>4, <1>7, <2>5 DEF RecordStep
<1>8. CASE Present(record)
  <2>1. PICK planned \in SUBSET Optional :
            IF planned \subseteq Skipped(applied)
            THEN /\ record' = Marked(applied, progressed)
                 /\ hydration' = [hydration EXCEPT ![p] = Rest]
            ELSE /\ record' = applied
                 /\ hydration' = [hydration EXCEPT ![p] =
                      [pc |-> "optional", progressed |-> progressed,
                       answer |-> [s \in Section |->
                          IF s \in planned \ Skipped(applied) THEN Pending ELSE Unasked],
                       print |-> Fingerprint(applied)]]
    BY <1>8, Zenon DEF CriticalDone
  <2> HIDE DEF applied, progressed
  <2>2. CASE planned \subseteq Skipped(applied)
    BY <1>6, <1>8, <2>1, <2>2
  <2>3. CASE ~(planned \subseteq Skipped(applied))
    BY <1>7, <1>8, <2>1, <2>3
  <2> QED
    BY <2>2, <2>3
<1> QED
  BY <1>5, <1>8

\* The optional documents are applied, and endpoints that were missing noted with
\* the facts they were asked under, even if the device is gone by then.
LEMMA OptionalDoneStep ==
    ASSUME IInv, NEW p \in Hydration, OptionalDone(p)
    PROVE  RecordStep /\ MissingSound(missing') /\ CallsSound(hydration')
<1> DEFINE q == hydration[p]
           got == Got(q.answer, Optional)
           gone == {s \in Optional : q.answer[s].kind = "missing"}
           applied == ApplyAnswers(record, Optional, q.answer)
<1>1. /\ CloudOK /\ Sound(record) /\ record \in Record /\ CallsSound(hydration)
      /\ MissingSound(missing) /\ q \in Call /\ CallSound(q) /\ q.print \in Fingerprints
      /\ q.pc = "optional"
  BY DEF IInv, Sound, CallsSound, Call, OptionalDone
<1>2. CallsSound(hydration')
  <2>1. hydration' = [hydration EXCEPT ![p] = Rest]
    BY DEF OptionalDone
  <2> QED
    BY <1>1, <2>1, RestSound, CallStep
<1>3. /\ \A s \in gone : Past(q.print) /\ Justifies(q.print, s)
      /\ \A s \in Optional : Past(NoFingerprint) /\ Justifies(NoFingerprint, s)
      /\ NoFingerprint \in Fingerprints
  BY <1>1, RestSound DEF CallSound, Justifies
<1>4. ASSUME NEW noted \in SUBSET gone, NEW dropped \in SUBSET Optional,
             missing' = [s \in Optional |-> IF s \in noted THEN Denied(q)
                                            ELSE IF s \in dropped THEN NoFingerprint
                                            ELSE missing[s]]
      PROVE  MissingSound(missing')
  <2>1. Denied(q) = q.print
    BY DEF Denied
  <2> HIDE DEF q
  <2> QED
    BY <1>1, <1>3, <1>4, <2>1 DEF MissingSound
<1>5. CASE Present(record)
  <2>1. /\ record' = Marked(applied, q.progressed \/ got # {})
        /\ missing' = [s \in Optional |-> IF s \in gone THEN Denied(q)
                                          ELSE IF s \in got THEN NoFingerprint
                                          ELSE missing[s]]
    BY <1>5, Zenon DEF OptionalDone
  <2>2. MissingSound(missing')
    <3>1. gone \in SUBSET gone /\ got \in SUBSET Optional
      BY DEF Got
    <3> HIDE DEF gone, got, q
    <3> QED
      BY <1>4, <2>1, <3>1
  <2>3. Sound(applied) /\ Updates(record, applied)
    <3>1. Answering(Optional, q.answer)
      BY <1>1, SectionAssumption DEF Answering, CallSound
    <3> QED
      BY <1>1, <3>1, ApplyAnswersSound
  <2> DEFINE fresh == applied.fresh \/ q.progressed \/ got # {}
  <2>4. record' = [applied EXCEPT !.fresh = fresh]
    BY <2>1 DEF Marked
  <2>5. fresh \in BOOLEAN
    OBVIOUS
  <2> HIDE DEF applied, fresh
  <2>6. Sound(record') /\ record'.docs = applied.docs
    BY <1>1, <2>3, <2>4, <2>5, MarkedSound
  <2>7. NoneOlder(record, record')
    BY <2>3, <2>6 DEF NoneOlder, Updates
  <2> QED
    BY <1>2, <2>2, <2>6, <2>7 DEF RecordStep
<1>6. CASE ~Present(record)
  <2>1. record' = record /\ \E noted \in SUBSET gone, dropped \in SUBSET got :
            missing' = [s \in Optional |-> IF s \in noted THEN Denied(q)
                                           ELSE IF s \in dropped THEN NoFingerprint
                                           ELSE missing[s]]
    BY <1>6, Zenon DEF OptionalDone
  <2>2. got \subseteq Optional
    BY DEF Got
  <2>3. PICK noted \in SUBSET gone : \E dropped \in SUBSET got :
            missing' = [s \in Optional |-> IF s \in noted THEN Denied(q)
                                           ELSE IF s \in dropped THEN NoFingerprint
                                           ELSE missing[s]]
    BY <2>1
  <2>4. PICK dropped \in SUBSET got :
            missing' = [s \in Optional |-> IF s \in noted THEN Denied(q)
                                           ELSE IF s \in dropped THEN NoFingerprint
                                           ELSE missing[s]]
    BY <2>3
  <2>5. dropped \in SUBSET Optional
    BY <2>2
  <2> HIDE DEF gone, got, q
  <2>6. MissingSound(missing')
    BY <1>4, <2>4, <2>5
  <2>7. RecordStep
    BY <1>1, <1>6, <2>1, SameDocs DEF RecordStep
  <2> QED
    BY <1>2, <2>6, <2>7
<1> QED
  BY <1>5, <1>6

-----------------------------------------------------------------------------
\* The theorems

\* Each step keeps what is sound so, and makes no reading of a device that stays
\* older.
LEMMA NextInv == IInv /\ [Next]_vars => IInv' /\ RecordStep
<1> SUFFICES ASSUME IInv, [Next]_vars PROVE IInv' /\ RecordStep
  OBVIOUS
<1>1. /\ CloudOK /\ Sound(record) /\ record \in Record /\ MissingSound(missing)
      /\ CallsSound(hydration)
  BY DEF IInv, Sound
<1>2. record' = record => RecordStep
  BY <1>1, SameDocs DEF RecordStep
<1>3. ASSUME UNCHANGED cloud, RecordStep, MissingSound(missing'), CallsSound(hydration')
      PROVE  IInv'
  BY <1>1, <1>3, CloudStays DEF RecordStep
<1>4. ASSUME NEW s \in Section, SectionChanges(s) PROVE IInv' /\ RecordStep
  BY <1>2, <1>4, SectionChangesInv DEF SectionChanges
<1>5. CASE EventHappens
  BY <1>2, <1>5, EventHappensInv DEF EventHappens
<1>6. CASE Discovered
  <2>1. missing' = missing /\ hydration' = hydration /\ UNCHANGED cloud
    BY <1>6 DEF Discovered
  <2> QED
    BY <1>1, <1>3, <1>6, <2>1, DiscoveredStep
<1>7. CASE Kept \/ Removed \/ WindowElapses
  <2>1. hydration' = hydration /\ UNCHANGED cloud
    BY <1>7 DEF Kept, Removed, WindowElapses
  <2> QED
    BY <1>1, <1>3, <1>7, <2>1, HierarchyStep
<1>8. CASE Push
  <2>1. missing' = missing /\ hydration' = hydration /\ UNCHANGED cloud
    BY <1>8 DEF Push
  <2> QED
    BY <1>1, <1>3, <1>8, <2>1, PushStep
<1>9. CASE ReadBack
  <2>1. missing' = missing /\ hydration' = hydration /\ UNCHANGED cloud
    BY <1>9 DEF ReadBack
  <2> QED
    BY <1>1, <1>3, <1>9, <2>1, ReadBackStep
<1>10. ASSUME NEW p \in Hydration, Begin(p) PROVE IInv' /\ RecordStep
  <2>1. UNCHANGED <<cloud, record, missing>>
    BY <1>10 DEF Begin
  <2> QED
    BY <1>1, <1>2, <1>3, <1>10, <2>1, BeginStep
<1>11. ASSUME NEW p \in Hydration, NEW s \in Section, Answers(p, s) PROVE IInv' /\ RecordStep
  <2>1. UNCHANGED <<cloud, record, missing>>
    BY <1>11 DEF Answers
  <2> QED
    BY <1>1, <1>2, <1>3, <1>11, <2>1, AnswersStep
<1>12. ASSUME NEW p \in Hydration, CriticalDone(p) PROVE IInv' /\ RecordStep
  <2>1. UNCHANGED <<cloud, missing>>
    BY <1>12 DEF CriticalDone
  <2> QED
    BY <1>1, <1>3, <1>12, <2>1, CriticalDoneStep
<1>13. ASSUME NEW p \in Hydration, OptionalDone(p) PROVE IInv' /\ RecordStep
  <2>1. UNCHANGED cloud
    BY <1>13 DEF OptionalDone
  <2> QED
    BY <1>3, <1>13, <2>1, OptionalDoneStep
<1>14. CASE UNCHANGED vars
  BY <1>1, <1>2, <1>3, <1>14 DEF vars
<1> QED
  BY <1>4, <1>5, <1>6, <1>7, <1>8, <1>9, <1>10, <1>11, <1>12, <1>13, <1>14 DEF Next

\* The invariant holds of every reachable state.
LEMMA Invariant == Spec => []IInv
BY InitInv, NextInv, PTL DEF Spec

\* Every variable keeps its type: nothing the feeds bring, in any order, and no
\* answer that comes late makes the record something it may not be.
THEOREM TypeCorrect == Spec => []TypeOK
<1>1. IInv => TypeOK
  BY DEF IInv, CloudOK, Sound, MissingSound, CallsSound, TypeOK
<1> QED
  BY <1>1, Invariant, PTL

\* No reading of a device goes back while the device stays, however many
\* hydrations overlap and however late, often and out of order the pushes come.
THEOREM ReadingsOnlyGrowYounger == Spec => ReadingsNeverOlder
<1>1. IInv /\ [Next]_vars =>
        [Present(record) /\ Present(record') =>
           \A s \in Section : NotYounger(record.docs[s], record'.docs[s])]_vars
  BY NextInv DEF RecordStep, NoneOlder
<1> QED
  BY <1>1, Invariant, PTL DEF Spec, ReadingsNeverOlder

\* A device is out exactly as long as the newest event it was told of says so.
THEOREM OutagesAlwaysHonoured == Spec => []OutagesHonoured
<1>1. ASSUME Sound(record) PROVE record.offline <=> OutageStands
  <2> DEFINE asOf == record.versions["health"].asOf
  <2>1. record.heard \subseteq Nat /\ record.offline \in BOOLEAN
    BY <1>1, Times DEF Sound, Record
  <2>2. CASE record.heard = {}
    BY <1>1, <2>2 DEF Sound, Told, OutageStands
  <2>3. CASE record.heard # {}
    <3>1. /\ asOf \in record.heard /\ \A n \in record.heard : n <= asOf
          /\ record.offline = (Rescinded(asOf) = NoStamp)
      BY <1>1, <2>3 DEF Sound, Told
    <3> HIDE DEF asOf
    <3>2. \A n \in record.heard : (\A m \in record.heard : m <= n) => n = asOf
      BY <2>1, <3>1
    <3> QED
      BY <3>1, <3>2 DEF OutageStands
  <2> QED
    BY <2>2, <2>3
<1>2. IInv => OutagesHonoured
  BY <1>1 DEF IInv, OutagesHonoured, Available
<1> QED
  BY <1>2, Invariant, PTL

\* No endpoint that the device has is skipped under the facts of the present,
\* whatever was found missing before and however late that was noted.
THEOREM SkipAlwaysJustified == Spec => []SkipIsJustified
<1>1. IInv => SkipIsJustified
  <2> SUFFICES ASSUME IInv, Present(record),
                      \A t \in Telling : record.versions[t].asOf = Len(cloud.docs[t]),
                      NEW s \in Skipped(record)
               PROVE  s \notin cloud.offers
    BY DEF SkipIsJustified
  <2>1. s \in Optional /\ missing[s] = Fingerprint(record)
    BY DEF Skipped
  <2>2. missing[s].place # Nowhere /\ Current(missing[s])
    BY <2>1 DEF Present, Fingerprint, Current
  <2> QED
    BY <2>1, <2>2 DEF IInv, MissingSound, Justifies
<1> QED
  BY <1>1, Invariant, PTL

=============================================================================
