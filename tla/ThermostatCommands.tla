------------------------- MODULE ThermostatCommands -------------------------
(***************************************************************************)
(* The thermostat commands of the climate entity: how a service call is    *)
(* turned into a command (climate.py), how the profile checks and encodes  *)
(* it and how it compares the settings document that comes back            *)
(* (profiles/thermostat.py).  The delivery of a command is the subject of  *)
(* DeviceWrites; here the question is what a command says, what it makes   *)
(* the thermostat do and how that is judged.                               *)
(*                                                                         *)
(* A temperature is an integer number of 1/9000 degrees Celsius: one       *)
(* degree Fahrenheit is 5000 units, one hundredth of a degree Celsius is   *)
(* 90 units, and both scales have their zero at 32 F.                      *)
(***************************************************************************)
EXTENDS Integers

CONSTANTS
    Kinds,          \* the enumerated settings the zone has
    WallPairs,      \* the <<heat, cool>> pairs, in whole F, set at the wall
    Temperatures,   \* the temperatures, in units, a service call may name
    MaxCalls        \* bound: the writes of a behaviour

Sides == {"heat", "cool"}
Styles == {"string", "numeric"}

\* the leaves of the zone's settings
Leaves == Kinds \cup Sides

\* the enumerated settings, with the number the protocol gives each value
IdOf == [mode |-> [off |-> 1, heat |-> 2, cool |-> 3, auto |-> 4, emergency |-> 5],
         fan  |-> [auto |-> 1, on |-> 2, circulate |-> 3],
         hold |-> [none |-> 0, temporary |-> 1, permanent |-> 2, vacation |-> 3]]

Values(k) == DOMAIN IdOf[k]

\* _CONFIRMED_8920W_*: what a command may ask for
Allowed(k) == Values(k) \ {"emergency"}

ASSUME KindsAssumption == "mode" \in Kinds /\ Kinds \subseteq DOMAIN IdOf
ASSUME WallAssumption == WallPairs \subseteq Int \X Int
ASSUME TemperatureAssumption == Temperatures \subseteq Int
ASSUME CallsAssumption == MaxCalls \in Nat \ {0}

-----------------------------------------------------------------------------
\* Arithmetic of the setpoints

FahrenheitToCelsius(f) == 5000 * (f - 32)

\* the nearest whole degree Fahrenheit
FahrenheitGrid(t) == 32 + ((t + 2500) \div 5000)

\* round(t, 2)
ToHundredths(t) == 90 * ((t + 45) \div 90)

WireCelsius(f) == ToHundredths(FahrenheitToCelsius(f))

Lowest == [heat |-> 40, cool |-> 50]
Highest == [heat |-> 90, cool |-> 93]
DeadBand == 3

\* within the range of the side, 0.02 F of tolerance at each end
InRange(t, s) ==
    /\ t >= FahrenheitToCelsius(Lowest[s]) - 100
    /\ t <= FahrenheitToCelsius(Highest[s]) + 100

\* |a - b| <= 0.011 C
Close(a, b) == a - b <= 99 /\ b - a <= 99

-----------------------------------------------------------------------------
\* Encoding.  A setpoint command names the sides it moves and where to.

\* The side a command leaves alone keeps its current value, off the grid or not.
EncodedPair(current, c) ==
    [s \in Sides |-> IF s \in c.sides THEN WireCelsius(FahrenheitGrid(c.to[s]))
                                      ELSE ToHundredths(current[s])]

\* Mutant: the dead band is asked only of the sides the command names.
AcceptableByRequest(current, c) ==
    LET pair == EncodedPair(current, c)
    IN  /\ c.sides # {}
        /\ \A s \in c.sides : InRange(c.to[s], s)
        /\ \A s \in Sides : InRange(pair[s], s)
        /\ c.sides = Sides =>
              FahrenheitGrid(pair["cool"]) - FahrenheitGrid(pair["heat"]) >= DeadBand

\* Ranges of what was asked and of what is sent, and the dead band on the grid.
Acceptable(current, c) ==
    LET pair == EncodedPair(current, c)
    IN  /\ c.sides # {}
        /\ \A s \in c.sides : InRange(c.to[s], s)
        /\ \A s \in Sides : InRange(pair[s], s)
        /\ FahrenheitGrid(pair["cool"]) - FahrenheitGrid(pair["heat"]) >= DeadBand

\* A settings document holds an enumerated setting under its string key or
\* under its numeric key; the other one is absent.
Named(v) == [string |-> v, number |-> -1]
Numbered(n) == [string |-> "absent", number |-> n]

\* the thermostat calls "circulate" by a short name
Shorthand(v) == IF v = "circulate" THEN "circ" ELSE v

\* Mutant: the wire value is the integration's own name of it.
EncodedEnumLong(k, held, v) ==
    IF held.string # "absent" THEN Named(v) ELSE Numbered(IdOf[k][v])

\* the key the device's own settings use decides the key of the payload
EncodedEnum(k, held, v) ==
    IF held.string # "absent" THEN Named(Shorthand(v)) ELSE Numbered(IdOf[k][v])

\* _normalize_enum, _normalize_fan; "unknown" stands for every other text
Normalized(k, held) ==
    IF held.string # "absent"
    THEN IF held.string = "circ" THEN "circulate" ELSE held.string
    ELSE IF \E v \in Values(k) : IdOf[k][v] = held.number
         THEN CHOOSE v \in Values(k) : IdOf[k][v] = held.number
         ELSE "unknown"

-----------------------------------------------------------------------------
\* Settings.  A document holds every leaf; a payload and the overlay hold some.

NoSettings == [l \in {} |-> 0]

\* merge_settings_payload
Merged(base, over) ==
    [l \in DOMAIN base \cup DOMAIN over |-> IF l \in DOMAIN over THEN over[l] ELSE base[l]]

\* remove_matching_settings: the leaves of base that comparison does not repeat
Unmatched(base, comparison) ==
    [l \in {k \in DOMAIN base : k \in DOMAIN comparison => base[k] # comparison[k]}
        |-> base[l]]

-----------------------------------------------------------------------------
VARIABLES
    thermostat,  \* what the device does: its settings and its display unit
    style,       \* the key style in which the cloud holds enum settings
    setup,       \* the display unit in the record's device_setup
    document,    \* the record's device_settings, confirmed
    pending,     \* the record's pending_device_settings, the overlay
    command,     \* the write under way
    late,        \* the payload of an ended write that the device did not take yet
    touched,     \* history: the thermostat may differ from what the record shows
    calls        \* bound: the writes begun

vars == <<thermostat, style, setup, document, pending, command, late, touched, calls>>

NoCommand == [kind |-> "none"]

\* Mutant: the confirmed settings only, without the overlay.
EffectiveConfirmed == document

\* effective_device_settings
Effective == Merged(document, pending)

\* The thermostat, an external device, keeps its setpoints on the grid of its
\* display: whole degrees Fahrenheit, or half degrees Celsius.
Shown(unit, t) ==
    IF unit = "F" THEN FahrenheitToCelsius(FahrenheitGrid(t))
                  ELSE 4500 * ((t + 2250) \div 4500)

\* The settings the cloud reports of a thermostat: temperatures as they are,
\* rounded or cut to hundredths, enums in the style of the account.
HeldEnum(k, v) ==
    IF style = "string" THEN Named(Shorthand(v)) ELSE Numbered(IdOf[k][v])

Precisions == {"exact", "rounded", "cut"}

Reading(precision, t) ==
    CASE precision = "exact"   -> t
      [] precision = "rounded" -> ToHundredths(t)
      [] precision = "cut"     -> 90 * (t \div 90)

Readings(t) == {Reading(precision, t) : precision \in Precisions}

Reported(precision) ==
    [l \in Leaves |-> IF l \in Sides THEN Reading(precision, thermostat.pair[l])
                                    ELSE HeldEnum(l, thermostat.enum[l])]

AtTheWall(unit, p) ==
    [s \in Sides |-> Shown(unit, FahrenheitToCelsius(IF s = "heat" THEN p[1] ELSE p[2]))]

\* The display shows Fahrenheit, the pair may have been set when it did not.
\* The record has its settings and waits for the answer with its set-up.
Init ==
    /\ style \in Styles
    /\ \E p \in WallPairs, unit \in {"F", "C"} :
          thermostat = [enum |-> [k \in Kinds |-> IF k = "hold" THEN "none" ELSE "auto"],
                        unit |-> "F", pair |-> AtTheWall(unit, p)]
    /\ setup = "unknown"
    /\ document = Reported("rounded")
    /\ pending = NoSettings
    /\ command = NoCommand
    /\ late = NoSettings
    /\ touched = FALSE
    /\ calls = 0

-----------------------------------------------------------------------------
\* The device and the cloud (external)

UnderWay == command # NoCommand

\* the write under way, when something else sets leaves it was taken for
Overtaken(leaves) ==
    IF UnderWay /\ command.fate = "taken" /\ DOMAIN command.payload \cap leaves # {}
    THEN [command EXCEPT !.fate = "overtaken"]
    ELSE command

\* Bound: nobody touches the thermostat again before the record has caught up.
MayBeTouched == ~touched

\* Somebody sets the thermostat by hand.
WallChange ==
    /\ MayBeTouched
    /\ \/ /\ \E p \in WallPairs :
                thermostat' = [thermostat EXCEPT !.pair = AtTheWall(thermostat.unit, p)]
          /\ command' = Overtaken(Sides)
       \/ /\ thermostat' = [thermostat EXCEPT !.enum["mode"] = "emergency"]
          /\ command' = Overtaken({"mode"})
    /\ touched' = TRUE
    /\ UNCHANGED <<style, setup, document, pending, late, calls>>

\* Somebody changes the unit of its display, which may move its setpoints.
UnitChange ==
    /\ MayBeTouched
    /\ \E unit \in {"F", "C"} \ {thermostat.unit}, moved \in BOOLEAN :
          thermostat' = [thermostat EXCEPT !.unit = unit,
                            !.pair = IF moved THEN [s \in Sides |-> Shown(unit, @[s])] ELSE @]
    /\ command' = Overtaken(Sides)
    /\ touched' = TRUE
    /\ UNCHANGED <<style, setup, document, pending, late, calls>>

\* A setpoint that reads as the device's own stays what it is.
Settled(sent, has) ==
    IF sent \in Readings(has) THEN has ELSE Shown(thermostat.unit, sent)

\* The device reads the values it knows and ignores the others.
Heard(k, sent, has) ==
    LET heard == {v \in Allowed(k) : HeldEnum(k, v) = sent}
    IN  IF heard = {} THEN has ELSE CHOOSE v \in heard : TRUE

After(payload) ==
    [enum |-> [k \in Kinds |-> IF k \in DOMAIN payload
                               THEN Heard(k, payload[k], thermostat.enum[k])
                               ELSE thermostat.enum[k]],
     unit |-> thermostat.unit,
     pair |-> [s \in Sides |-> IF s \in DOMAIN payload
                               THEN Settled(payload[s], thermostat.pair[s])
                               ELSE thermostat.pair[s]]]

\* Does the device keep what it is sent?  Only in Fahrenheit, and a side that
\* the call left alone and that is off the grid only if it is still its own.
CanKeep ==
    command.kind = "setpoints" =>
        /\ thermostat.unit = "F"
        /\ \A s \in Sides \ command.sides :
               command.payload[s] \in Readings(After(command.payload).pair[s])

Take ==
    /\ UnderWay
    /\ command.fate = "sent"
    /\ thermostat' = After(command.payload)
    /\ command' = [command EXCEPT !.fate = IF CanKeep THEN "taken" ELSE "overtaken"]
    /\ UNCHANGED <<style, setup, document, pending, late, touched, calls>>

\* It takes a write whose call has ended.
LateTake ==
    /\ late # NoSettings
    /\ thermostat' = After(late)
    /\ command' = Overtaken(DOMAIN late)
    /\ late' = NoSettings
    /\ touched' = TRUE
    /\ UNCHANGED <<style, setup, document, pending, calls>>

\* Bound: of the writes that ended untaken, the device may take the last.
Untaken == IF command.fate = "sent" THEN command.payload ELSE late

-----------------------------------------------------------------------------
\* The record: what arrives, and how the write under way is judged by it

Confirmed(doc) ==
    IF command.kind = "setpoints"
    THEN \A s \in Sides : Close(doc[s], command.payload[s])
    ELSE Normalized(command.kind, doc[command.kind]) = command.value

\* Only the setpoint contract reads a mismatch as a rejection, and only if
\* the document changes nothing else.
Judged(doc) ==
    CASE Confirmed(doc) -> "confirmed"
      [] ~Confirmed(doc) /\ command.kind = "setpoints"
           /\ \A k \in Kinds : doc[k] = command.baseline[k] -> "rejected"
      [] OTHER -> "unknown"

\* A settings document arrives; it may end the write, taken or not.
Report ==
    \E precision \in Precisions :
        LET doc     == Reported(precision)
            over    == Unmatched(pending, doc)
            decided == UnderWay /\ Judged(doc) # "unknown"
        IN  /\ document' = doc
            /\ pending' = IF decided THEN Unmatched(over, command.payload) ELSE over
            /\ command' = IF decided THEN NoCommand ELSE command
            /\ late' = IF decided THEN Untaken ELSE late
            /\ touched' = (touched /\ (\/ Sides \cap DOMAIN pending' # {}
                                       \/ command' # NoCommand /\ command'.fate = "sent"))
            /\ UNCHANGED <<thermostat, style, setup, calls>>

\* The set-up arrives, a section of its own.
SetupReport ==
    /\ setup' = thermostat.unit
    /\ UNCHANGED <<thermostat, style, document, pending, command, late, touched, calls>>

\* The call returns without a verdict and leaves its overlay.
ReturnUnobserved ==
    /\ UnderWay
    /\ command' = NoCommand
    /\ late' = Untaken
    /\ UNCHANGED <<thermostat, style, setup, document, pending, touched, calls>>

\* The call fails or is cancelled and takes its overlay back.
Fail ==
    /\ UnderWay
    /\ command' = NoCommand
    /\ pending' = Unmatched(pending, command.payload)
    /\ late' = Untaken
    /\ touched' = TRUE
    /\ UNCHANGED <<thermostat, style, setup, document, calls>>

\* The reconciliation of an earlier write gives its overlay up.
Expire ==
    /\ \E leaves \in {Sides} \cup {{k} : k \in Kinds} :
          /\ leaves \cap DOMAIN pending # {}
          /\ pending' = [l \in DOMAIN pending \ leaves |-> pending[l]]
    /\ touched' = TRUE
    /\ UNCHANGED <<thermostat, style, setup, document, command, late, calls>>

-----------------------------------------------------------------------------
\* The climate entity

HvacMode(m) == IF m = "auto" THEN "heat_cool"
               ELSE IF m = "emergency" THEN "heat" ELSE m

\* The sides a call moves: the ends it names, else the single temperature
\* read by the mode of the call or the entity's own.
SidesMoved(call) ==
    LET target == IF call.hvac # "unset" THEN call.hvac
                  ELSE HvacMode(Normalized("mode", Effective["mode"]))
    IN  CASE call.ends # {}        -> call.ends
          [] target = "heat"       -> {"heat"}
          [] target = "cool"       -> {"cool"}
          [] target = "heat_cool"  -> Sides
          [] OTHER                 -> {}

Calls ==
    [ends : SUBSET Sides \ {{}}, to : [Sides -> Temperatures], hvac : {"unset"}]
      \cup {[ends |-> {}, to |-> [s \in Sides |-> t], hvac |-> h] :
              t \in Temperatures, h \in {"unset", "heat", "cool", "heat_cool", "off"}}

\* The device's lock admits one write at a time.
MayCall == ~UnderWay /\ calls < MaxCalls

\* one zone, a confirmed model, both setpoints known, a Fahrenheit display
SetpointsWritable == setup = "F"

SetTemperature(call) ==
    LET c    == [sides |-> SidesMoved(call), to |-> call.to]
        pair == EncodedPair(Effective, c)
    IN  /\ MayCall
        /\ SetpointsWritable
        /\ Acceptable(Effective, c)
        /\ command' = [kind |-> "setpoints", sides |-> c.sides, payload |-> pair,
                       baseline |-> [k \in Kinds |-> document[k]], fate |-> "sent"]
        /\ pending' = Merged(pending, pair)
        /\ calls' = calls + 1
        /\ UNCHANGED <<thermostat, style, setup, document, late, touched>>

\* async_set_hvac_mode, async_set_fan_mode and async_set_preset_mode
SetEnum(k, v) ==
    LET payload == [l \in {k} |-> EncodedEnum(k, Effective[k], v)]
    IN  /\ MayCall
        /\ command' = [kind |-> k, value |-> v, payload |-> payload, fate |-> "sent"]
        /\ pending' = Merged(pending, payload)
        /\ calls' = calls + 1
        /\ UNCHANGED <<thermostat, style, setup, document, late, touched>>

Next ==
    \/ WallChange
    \/ UnitChange
    \/ Take
    \/ LateTake
    \/ Report
    \/ SetupReport
    \/ ReturnUnobserved
    \/ Fail
    \/ Expire
    \/ \E call \in Calls : SetTemperature(call)
    \/ \E k \in Kinds : \E v \in Allowed(k) : SetEnum(k, v)

Spec == Init /\ [][Next]_vars

-----------------------------------------------------------------------------
\* Correctness

\* The pair a thermostat holds once it took a command is legal in the whole
\* degrees it shows, in the ranges and three degrees apart, also when the side
\* the caller did not move comes from an unconfirmed write or is off the grid.
PairIsSafe ==
    command.kind = "setpoints" /\ command.fate = "taken" =>
        LET read == [s \in Sides |-> FahrenheitGrid(thermostat.pair[s])]
        IN  /\ \A s \in Sides : read[s] \in Lowest[s] .. Highest[s]
            /\ read["cool"] - read["heat"] >= DeadBand

\* A command the thermostat took is confirmed by the settings it reports,
\* whatever key style and precision they use: the judgement of an accepted
\* setpoint pair is never a rejection by rounding, nor an enum setting waited
\* for in vain.  Excused is a command overtaken by something else, and one
\* that CanKeep says the device does not keep.
EchoConfirms ==
    UnderWay /\ command.fate = "taken" =>
        \A precision \in Precisions : Judged(Reported(precision)) = "confirmed"

\* A call that moves one setpoint undoes nothing that an earlier call or the
\* thermostat's user did to the other: if the record was not left behind by a
\* change at the wall, an overlay given up or a write still to be taken, the
\* thermostat shows the same whole degree of it before and after.
CompanionStays ==
    [][ Take /\ command.kind = "setpoints" /\ ~touched /\ late = NoSettings =>
          \A s \in Sides \ command.sides :
              FahrenheitGrid(thermostat'.pair[s]) = FahrenheitGrid(thermostat.pair[s]) ]_vars
=============================================================================
