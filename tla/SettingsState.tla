--------------------------- MODULE SettingsState ---------------------------
(***************************************************************************)
(* The pure settings reducer of custom_components/aprilaire_cloud/state.py *)
(* and models.py.  A settings document is a function from its leaf paths   *)
(* to values; a path the document does not hold maps to Absent, so that a  *)
(* partial push, a full REST document, a PATCH payload and the optimistic  *)
(* overlay are all members of Settings.  The envelope keys _type, deviceId *)
(* and asOf are not leaves: asOf travels beside the document as its stamp, *)
(* a natural number, with NoStamp for a document without a parsable one.   *)
(***************************************************************************)
EXTENDS Integers

CONSTANTS
    Leaf,       \* leaf paths of the device's settings document
    Value,      \* values a leaf can hold
    Absent,     \* stands for "the document does not hold this leaf"
    Near        \* pairs <<reported, requested>> a profile takes for equal

ASSUME AbsentAssumption == Absent \notin Value
ASSUME NearAssumption   == /\ Near \subseteq Value \X Value
                           /\ \A v \in Value : <<v, v>> \in Near

Settings == [Leaf -> Value \cup {Absent}]
NoSettings == [l \in Leaf |-> Absent]
Leaves(settings) == {l \in Leaf : settings[l] # Absent}

----------------------------------------------------------------------------
(* Leaf-wise algebra of documents                                          *)

\* merge_settings_payload: the overlay's leaves win.
Merge(base, overlay) ==
    [l \in Leaf |-> IF overlay[l] # Absent THEN overlay[l] ELSE base[l]]

\* remove_matching_settings: drop the leaves of base that comparison repeats.
RemoveMatching(base, comparison) ==
    [l \in Leaf |-> IF base[l] = comparison[l] THEN Absent ELSE base[l]]

\* settings_match_payload
Matches(settings, payload) ==
    \A l \in Leaves(payload) : settings[l] = payload[l]

\* settings_cover_payload
Covers(settings, payload) == Leaves(payload) \subseteq Leaves(settings)

\* settings_changed_outside_payload
ChangedOutside(baseline, observation, payload) ==
    \E l \in Leaves(observation) \ Leaves(payload) : baseline[l] # observation[l]

\* command_confirmed: the confirmed layer shows the command, the setpoint pair
\* within the profile's tolerance.
Shows(settings, payload) ==
    \A l \in Leaves(payload) : <<settings[l], payload[l]>> \in Near

----------------------------------------------------------------------------
(* Versions                                                                *)

NoStamp == 0
Stamp == Nat
Precedence == [rest |-> 1, websocket |-> 2]
Source == DOMAIN Precedence

NoVersion == [asOf |-> NoStamp, source |-> "none"]    \* nothing received yet
Version == [asOf : Stamp, source : Source] \cup {NoVersion}

\* Mutant: a document replaces one of the same stamp whatever its source.
AcceptsAnySource(current, incoming) ==
    \/ current.source = "none"
    \/ incoming.asOf # NoStamp /\ current.asOf = NoStamp
    \/ /\ incoming.asOf = NoStamp <=> current.asOf = NoStamp
       /\ incoming.asOf >= current.asOf

\* _accept_version: does a document of this stamp and source win over current?
Accepts(current, incoming) ==
    LET lower == Precedence[incoming.source] < Precedence[current.source]
    IN  \/ current.source = "none"
        \/ incoming.asOf # NoStamp /\ current.asOf = NoStamp
        \/ /\ incoming.asOf = NoStamp <=> current.asOf = NoStamp
           /\ incoming.asOf >= current.asOf
           /\ incoming.asOf = current.asOf => ~lower

\* The order the versions of a section go through: by stamp, a push above REST.
NotOlder(new, old) ==
    /\ new.asOf >= old.asOf
    /\ new.asOf = old.asOf /\ old.source = "websocket" => new.source = "websocket"

----------------------------------------------------------------------------
(* The device record, as far as its settings go                            *)

DeviceRecord == [present  : BOOLEAN,     \* the coordinator tracks the device
                 settings : Settings,    \* device_settings, the confirmed layer
                 pending  : Settings,    \* pending_device_settings, the overlay
                 version  : Version]     \* versions["device_settings"]

NoDevice == [present  |-> FALSE,     settings |-> NoSettings,
             pending  |-> NoSettings, version  |-> NoVersion]

\* effective_device_settings: what the entities show.
Effective(device) == Merge(device.settings, device.pending)

\* evaluate_device_support finds a profile once settings name the family.
Recognised(device) == device.present /\ Leaves(device.settings) # {}

ApplyPending(device, payload) ==
    [device EXCEPT !.pending = Merge(@, payload)]

\* Mutant: clears the requested leaves whoever's value they show.
ClearAnyValue(device, payload) ==
    [device EXCEPT !.pending = [l \in Leaf |-> IF payload[l] # Absent THEN Absent ELSE @[l]]]

ClearPending(device, payload) ==
    [device EXCEPT !.pending = RemoveMatching(@, payload)]

IsCurrent(device, payload) == device.present /\ Matches(device.pending, payload)

\* An accepted document becomes the confirmed layer and takes the overlay's
\* matching leaves with it.
Confirm(device, settings, version) ==
    [device EXCEPT !.settings = settings,
                   !.pending  = RemoveMatching(@, settings),
                   !.version  = version]

\* apply_confirmed_device_settings: an incremental document, from the socket.
ApplyIncremental(device, document, stamp) ==
    LET version == [asOf |-> stamp, source |-> "websocket"]
    IN  IF Accepts(device.version, version)
        THEN Confirm(device, Merge(device.settings, document), version)
        ELSE device

\* apply_full_device_settings: a whole document, from REST.
ApplyFull(device, document, stamp) ==
    LET version == [asOf |-> stamp, source |-> "rest"]
    IN  IF Accepts(device.version, version)
        THEN Confirm(device, document, version)
        ELSE device
=============================================================================
