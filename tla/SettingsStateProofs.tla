------------------------- MODULE SettingsStateProofs -------------------------
(***************************************************************************)
(* Facts about the settings reducer that hold for every set of leaves and  *)
(* values: what its operators return, and that a device's settings version *)
(* never goes back.                                                        *)
(***************************************************************************)
EXTENDS SettingsState, TLAPS

\* The empty document is a document without leaves.
LEMMA NoSettingsType == NoSettings \in Settings /\ Leaves(NoSettings) = {}
BY DEF Settings, NoSettings, Leaves

\* A document's leaves are leaf paths.
LEMMA LeavesType == ASSUME NEW s \in Settings PROVE Leaves(s) \in SUBSET Leaf
BY DEF Leaves

\* Merging and removing documents gives documents.
LEMMA MergeType ==
    ASSUME NEW base \in Settings, NEW overlay \in Settings
    PROVE  Merge(base, overlay) \in Settings
BY DEF Merge, Settings

\* Removing what another document repeats leaves a document.
LEMMA RemoveMatchingType ==
    ASSUME NEW base \in Settings, NEW comparison \in Settings
    PROVE  RemoveMatching(base, comparison) \in Settings
BY DEF RemoveMatching, Settings

\* The dropped record is a record.
LEMMA NoDeviceType == NoDevice \in DeviceRecord
BY NoSettingsType DEF NoDevice, DeviceRecord, NoVersion, Version, Stamp, NoStamp, Source

\* Every operation of the reducer on a device record returns one.
LEMMA ApplyPendingType ==
    ASSUME NEW dev \in DeviceRecord, NEW p \in Settings
    PROVE  ApplyPending(dev, p) \in DeviceRecord
BY MergeType DEF ApplyPending, DeviceRecord

\* Taking an overlay back leaves a device record.
LEMMA ClearPendingType ==
    ASSUME NEW dev \in DeviceRecord, NEW p \in Settings
    PROVE  ClearPending(dev, p) \in DeviceRecord
BY RemoveMatchingType DEF ClearPending, DeviceRecord

\* An accepted document leaves a device record.
LEMMA ConfirmType ==
    ASSUME NEW dev \in DeviceRecord, NEW s \in Settings, NEW v \in Version
    PROVE  Confirm(dev, s, v) \in DeviceRecord
BY RemoveMatchingType DEF Confirm, DeviceRecord

\* So does a REST document, accepted or not.
LEMMA ApplyFullType ==
    ASSUME NEW dev \in DeviceRecord, NEW doc \in Settings, NEW stamp \in Stamp
    PROVE  ApplyFull(dev, doc, stamp) \in DeviceRecord
<1>1. [asOf |-> stamp, source |-> "rest"] \in Version
  BY DEF Version, Source, Precedence
<1>2. QED
  BY <1>1, ConfirmType DEF ApplyFull

\* So does a push, accepted or not.
LEMMA ApplyIncrementalType ==
    ASSUME NEW dev \in DeviceRecord, NEW doc \in Settings, NEW stamp \in Stamp
    PROVE  ApplyIncremental(dev, doc, stamp) \in DeviceRecord
<1>1. [asOf |-> stamp, source |-> "websocket"] \in Version
  BY DEF Version, Source, Precedence
<1>2. Merge(dev.settings, doc) \in Settings
  BY MergeType DEF DeviceRecord
<1>3. QED
  BY <1>1, <1>2, ConfirmType DEF ApplyIncremental

----------------------------------------------------------------------------
(* The order of versions                                                   *)

\* A version is not older than itself.
LEMMA NotOlderReflexive == ASSUME NEW v \in Version PROVE NotOlder(v, v)
BY DEF NotOlder, Version, NoVersion, NoStamp, Stamp

\* The order of versions is transitive, so it may be followed step by step.
LEMMA NotOlderTransitive ==
    ASSUME NEW u \in Version, NEW v \in Version, NEW w \in Version,
           NotOlder(u, v), NotOlder(v, w)
    PROVE  NotOlder(u, w)
BY DEF NotOlder, Version, NoVersion, NoStamp, Stamp

\* _accept_version lets a document win only if its version is not older: not by
\* its stamp, not without one against a stamped section, and not from REST
\* against a push of the same stamp.
LEMMA AcceptedIsNotOlder ==
    ASSUME NEW current \in Version, NEW stamp \in Stamp, NEW source \in Source,
           Accepts(current, [asOf |-> stamp, source |-> source])
    PROVE  NotOlder([asOf |-> stamp, source |-> source], current)
<1> DEFINE incoming == [asOf |-> stamp, source |-> source]
<1>1. Precedence["rest"] = 1 /\ Precedence["websocket"] = 2 /\ Source = {"rest", "websocket"}
  BY DEF Precedence, Source
<1>2. incoming.asOf = stamp /\ incoming.source = source /\ stamp \in Nat
  BY DEF Stamp
<1>3. CASE current.source = "none"
  BY <1>1, <1>2, <1>3 DEF NotOlder, NoStamp, Version, NoVersion
<1>4. CASE current.source # "none" /\ incoming.asOf # NoStamp /\ current.asOf = NoStamp
  BY <1>2, <1>4 DEF NotOlder, NoStamp
<1>5. CASE /\ current.source # "none"
           /\ incoming.asOf >= current.asOf
           /\ incoming.asOf = current.asOf =>
                ~(Precedence[incoming.source] < Precedence[current.source])
  <2>1. current.source \in {"rest", "websocket"}
    BY <1>1, <1>5 DEF Version, NoVersion
  <2>2. incoming.asOf = current.asOf /\ current.source = "websocket" =>
            incoming.source = "websocket"
    BY <1>1, <1>2, <1>5, <2>1
  <2>3. QED
    BY <1>5, <2>2 DEF NotOlder
<1>6. QED
  BY <1>3, <1>4, <1>5 DEF Accepts

\* A full or incremental document never takes a record's version back.
LEMMA ApplyFullNotOlder ==
    ASSUME NEW dev \in DeviceRecord, NEW doc \in Settings, NEW stamp \in Stamp
    PROVE  NotOlder(ApplyFull(dev, doc, stamp).version, dev.version)
<1> DEFINE v == [asOf |-> stamp, source |-> "rest"]
<1>1. v \in Version /\ dev.version \in Version /\ "rest" \in Source
  BY DEF Version, Source, Precedence, DeviceRecord
<1>2. CASE Accepts(dev.version, v)
  <2>1. Confirm(dev, doc, v).version = v
    BY DEF Confirm, DeviceRecord
  <2>2. NotOlder(v, dev.version)
    BY <1>1, <1>2, AcceptedIsNotOlder
  <2>3. QED
    BY <1>2, <2>1, <2>2 DEF ApplyFull
<1>3. CASE ~Accepts(dev.version, v)
  BY <1>1, <1>3, NotOlderReflexive DEF ApplyFull
<1>4. QED
  BY <1>2, <1>3

\* A push leaves the settings version where it was or moves it on.
LEMMA ApplyIncrementalNotOlder ==
    ASSUME NEW dev \in DeviceRecord, NEW doc \in Settings, NEW stamp \in Stamp
    PROVE  NotOlder(ApplyIncremental(dev, doc, stamp).version, dev.version)
<1> DEFINE v == [asOf |-> stamp, source |-> "websocket"]
<1>1. v \in Version /\ dev.version \in Version /\ "websocket" \in Source
  BY DEF Version, Source, Precedence, DeviceRecord
<1>2. CASE Accepts(dev.version, v)
  <2>1. Confirm(dev, Merge(dev.settings, doc), v).version = v
    BY DEF Confirm, DeviceRecord
  <2>2. NotOlder(v, dev.version)
    BY <1>1, <1>2, AcceptedIsNotOlder
  <2>3. QED
    BY <1>2, <2>1, <2>2 DEF ApplyIncremental
<1>3. CASE ~Accepts(dev.version, v)
  BY <1>1, <1>3, NotOlderReflexive DEF ApplyIncremental
<1>4. QED
  BY <1>2, <1>3
=============================================================================
