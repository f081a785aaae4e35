---------------------- MODULE ThermostatCommandsProofs ----------------------
(***************************************************************************)
(* Proofs about ThermostatCommands, for every set of temperatures a call   *)
(* may name, every pair set at the wall and any number of writes.  The     *)
(* induction needs to know where the numbers come from: a thermostat keeps *)
(* whole degrees Fahrenheit or half degrees Celsius, and every setpoint    *)
(* that is reported, shown optimistically or sent is a reading of one of   *)
(* these, at most a hundredth of a degree Celsius away from it.            *)
(***************************************************************************)
EXTENDS ThermostatCommands, TLAPS

\* what a thermostat keeps, whatever its display
Kept(t) == \E n \in Int : t = 5000 * n \/ t = 4500 * n

\* a reading of something kept
Known(t) == \E h \in Int : Kept(h) /\ t \in Readings(h)

\* a reading of a whole degree Fahrenheit
NearGrid(t) == \E f \in Int : t \in Readings(5000 * f)

-----------------------------------------------------------------------------
\* Arithmetic

\* The whole degree of a temperature is the only one within half a degree.
LEMMA GridIsFloor ==
    ASSUME NEW t \in Int
    PROVE  /\ FahrenheitGrid(t) \in Int
           /\ 5000 * (FahrenheitGrid(t) - 32) <= t + 2500
           /\ t + 2500 < 5000 * (FahrenheitGrid(t) - 32) + 5000
BY DEF FahrenheitGrid

\* A temperature within half a degree of a whole degree reads as that degree.
LEMMA GridOfNear ==
    ASSUME NEW t \in Int, NEW f \in Int, -2500 <= t - 5000 * f, t - 5000 * f < 2500
    PROVE  FahrenheitGrid(t) = f + 32
<1>1. /\ FahrenheitGrid(t) \in Int
      /\ 5000 * (FahrenheitGrid(t) - 32) <= t + 2500
      /\ t + 2500 < 5000 * (FahrenheitGrid(t) - 32) + 5000
  BY GridIsFloor
<1>2. QED
  BY <1>1

\* The three ways to read a temperature.
LEMMA ReadingsAre ==
    ASSUME NEW t
    PROVE  /\ Readings(t) = {t, ToHundredths(t), 90 * (t \div 90)}
           /\ \A precision \in Precisions : Reading(precision, t) \in Readings(t)
<1>1. /\ Reading("exact", t) = t
      /\ Reading("rounded", t) = ToHundredths(t)
      /\ Reading("cut", t) = 90 * (t \div 90)
  BY DEF Reading
<1>2. QED
  BY <1>1 DEF Readings, Precisions

\* A reading is off by less than a hundredth, and two readings of the same
\* temperature by no more than one.
LEMMA ReadingIsNear ==
    ASSUME NEW t \in Int, NEW r \in Readings(t)
    PROVE  /\ r \in Int
           /\ -89 <= r - t
           /\ r - t <= 45
           /\ \A q \in Readings(t) : Close(r, q)
<1> DEFINE n == t \div 90
<1>1. n \in Int /\ 90 * n <= t /\ t < 90 * n + 90
  OBVIOUS
<1>2. /\ ToHundredths(t) \in Int
      /\ ToHundredths(t) = 90 * n \/ ToHundredths(t) = 90 * n + 90
      /\ -45 <= ToHundredths(t) - t
      /\ ToHundredths(t) - t <= 45
  BY DEF ToHundredths
<1>3. \A q \in Readings(t) : q = t \/ q = ToHundredths(t) \/ q = 90 * n
  BY ReadingsAre
<1> HIDE DEF n
<1>4. QED
  BY <1>1, <1>2, <1>3 DEF Close

\* Rounding a reading gives a reading.
LEMMA ReadingTwice ==
    ASSUME NEW t \in Int, NEW r \in Readings(t)
    PROVE  ToHundredths(r) \in Readings(t)
<1>1. \A n \in Int : ToHundredths(90 * n) = 90 * n
  <2>1. \A n \in Int : (90 * n + 45) \div 90 = n
    OBVIOUS
  <2>2. QED
    BY <2>1 DEF ToHundredths
<1>2. PICK m \in Int : ToHundredths(t) = 90 * m
  BY DEF ToHundredths
<1>3. r = t \/ r = 90 * m \/ r = 90 * (t \div 90)
  BY <1>2, ReadingsAre
<1>4. t \div 90 \in Int
  OBVIOUS
<1>5. QED
  BY <1>1, <1>2, <1>3, <1>4, ReadingsAre

\* Half degrees Celsius are read exactly.
LEMMA HalfDegreesAreExact ==
    ASSUME NEW n \in Int, NEW r \in Readings(4500 * n)
    PROVE  r = 4500 * n
<1>1. ToHundredths(4500 * n) = 4500 * n
  <2>1. (4500 * n + 45) \div 90 = 50 * n
    OBVIOUS
  <2>2. QED
    BY <2>1 DEF ToHundredths
<1>2. 90 * ((4500 * n) \div 90) = 4500 * n
  OBVIOUS
<1>3. QED
  BY <1>1, <1>2, ReadingsAre

\* What is known is next to a whole degree Fahrenheit, or a half degree Celsius.
LEMMA KnownIs ==
    ASSUME NEW t, Known(t)
    PROVE  /\ t \in Int
           /\ \/ \E f \in Int : -89 <= t - 5000 * f /\ t - 5000 * f <= 45
              \/ \E n \in Int : t = 4500 * n
<1>1. PICK h \in Int : Kept(h) /\ t \in Readings(h)
  BY DEF Known
<1>2. t \in Int /\ -89 <= t - h /\ t - h <= 45
  BY <1>1, ReadingIsNear
<1>3. PICK n \in Int : h = 5000 * n \/ h = 4500 * n
  BY <1>1 DEF Kept
<1>4. CASE h = 5000 * n
  BY <1>2, <1>4
<1>5. CASE h = 4500 * n
  BY <1>1, <1>2, <1>5, HalfDegreesAreExact
<1>6. QED
  BY <1>3, <1>4, <1>5

\* A reading of what a thermostat keeps shows the same whole degree.
LEMMA ReadingReads ==
    ASSUME NEW h \in Int, Kept(h), NEW r \in Readings(h)
    PROVE  FahrenheitGrid(r) = FahrenheitGrid(h)
<1>1. PICK n \in Int : h = 5000 * n \/ h = 4500 * n
  BY DEF Kept
<1>2. CASE h = 5000 * n
  <2>1. r \in Int /\ -89 <= r - h /\ r - h <= 45
    BY ReadingIsNear
  <2>2. FahrenheitGrid(r) = n + 32
    BY <1>2, <2>1, GridOfNear
  <2>3. FahrenheitGrid(h) = n + 32
    BY <1>2, GridOfNear
  <2>4. QED
    BY <2>2, <2>3
<1>3. CASE h = 4500 * n
  BY <1>3, HalfDegreesAreExact
<1>4. QED
  BY <1>1, <1>2, <1>3

\* What is known stays known, and on its degree, when rounded.
LEMMA KnownRounds ==
    ASSUME NEW t, Known(t)
    PROVE  /\ Known(ToHundredths(t))
           /\ FahrenheitGrid(ToHundredths(t)) = FahrenheitGrid(t)
<1>1. PICK h \in Int : Kept(h) /\ t \in Readings(h)
  BY DEF Known
<1>2. ToHundredths(t) \in Readings(h)
  BY <1>1, ReadingTwice
<1>3. FahrenheitGrid(t) = FahrenheitGrid(h)
  BY <1>1, ReadingReads
<1>4. FahrenheitGrid(ToHundredths(t)) = FahrenheitGrid(h)
  BY <1>1, <1>2, ReadingReads
<1>5. QED
  BY <1>1, <1>2, <1>3, <1>4 DEF Known

\* A reading of a whole degree Fahrenheit is known.
LEMMA NearIsKnown ==
    ASSUME NEW t, NearGrid(t)
    PROVE  Known(t)
<1>1. PICK f \in Int : t \in Readings(5000 * f)
  BY DEF NearGrid
<1> DEFINE h == 5000 * f
<1>2. h \in Int /\ Kept(h)
  BY DEF Kept
<1>3. t \in Readings(h)
  BY <1>1
<1> HIDE DEF h
<1>4. QED
  BY <1>2, <1>3 DEF Known

\* A whole degree put on the wire is a reading of it.
LEMMA WireIsNear ==
    ASSUME NEW f \in Int
    PROVE  NearGrid(WireCelsius(f))
<1> DEFINE g == f - 32
<1>1. g \in Int
  OBVIOUS
<1>2. WireCelsius(f) = ToHundredths(5000 * g)
  BY DEF WireCelsius, FahrenheitToCelsius
<1> HIDE DEF g
<1>3. WireCelsius(f) \in Readings(5000 * g)
  BY <1>2, ReadingsAre
<1>4. QED
  BY <1>1, <1>3 DEF NearGrid

\* A Fahrenheit display keeps a reading of a whole degree as that degree.
LEMMA NearIsKept ==
    ASSUME NEW t, NearGrid(t)
    PROVE  t \in Readings(Shown("F", t))
<1>1. PICK f \in Int : t \in Readings(5000 * f)
  BY DEF NearGrid
<1>2. t \in Int /\ -89 <= t - 5000 * f /\ t - 5000 * f <= 45
  BY <1>1, ReadingIsNear
<1>3. FahrenheitGrid(t) = f + 32
  BY <1>2, GridOfNear
<1>4. Shown("F", t) = 5000 * f
  BY <1>3 DEF Shown, FahrenheitToCelsius
<1>5. QED
  BY <1>1, <1>4

\* A display shows what a thermostat keeps.
LEMMA ShownIsKept ==
    ASSUME NEW unit, NEW t \in Int
    PROVE  Shown(unit, t) \in Int /\ Kept(Shown(unit, t))
<1>1. CASE unit = "F"
  <2> DEFINE f == FahrenheitGrid(t) - 32
  <2>1. f \in Int /\ Shown(unit, t) = 5000 * f
    BY <1>1, GridIsFloor DEF Shown, FahrenheitToCelsius
  <2> HIDE DEF f
  <2>2. QED
    BY <2>1 DEF Kept
<1>2. CASE unit # "F"
  <2> DEFINE n == (t + 2250) \div 4500
  <2>1. n \in Int /\ Shown(unit, t) = 4500 * n
    BY <1>2 DEF Shown
  <2> HIDE DEF n
  <2>2. QED
    BY <2>1 DEF Kept
<1>3. QED
  BY <1>1, <1>2

\* What is known shows the same whole degree on either grid.
LEMMA ShownReads ==
    ASSUME NEW unit, NEW t, Known(t)
    PROVE  FahrenheitGrid(Shown(unit, t)) = FahrenheitGrid(t)
<1>1. t \in Int
  BY KnownIs
<1>2. CASE unit = "F"
  <2> DEFINE f == FahrenheitGrid(t) - 32
             d == 5000 * f
  <2>1. f \in Int /\ Shown(unit, t) = d /\ FahrenheitGrid(t) = f + 32
    <3>1. FahrenheitGrid(t) \in Int
      BY <1>1, GridIsFloor
    <3>2. Shown(unit, t) = d
      BY <1>2 DEF Shown, FahrenheitToCelsius
    <3>3. QED
      BY <3>1, <3>2
  <2> HIDE DEF f
  <2>2. d \in Int /\ -2500 <= d - 5000 * f /\ d - 5000 * f < 2500
    BY <2>1
  <2> HIDE DEF d
  <2>3. FahrenheitGrid(d) = f + 32
    BY <2>1, <2>2, GridOfNear
  <2>4. QED
    BY <2>1, <2>3
<1>3. CASE unit # "F"
  <2> DEFINE c == 4500 * ((t + 2250) \div 4500)
  <2>1. Shown(unit, t) = c
    BY <1>3 DEF Shown
  <2>2. c \in Int /\ -2250 <= c - t /\ c - t <= 2250
    BY <1>1
  <2>3. CASE \E f \in Int : -89 <= t - 5000 * f /\ t - 5000 * f <= 45
    <3>1. PICK f \in Int : -89 <= t - 5000 * f /\ t - 5000 * f <= 45
      BY <2>3
    <3> HIDE DEF c
    <3>2. FahrenheitGrid(t) = f + 32
      BY <1>1, <3>1, GridOfNear
    <3>3. FahrenheitGrid(c) = f + 32
      BY <1>1, <2>2, <3>1, GridOfNear
    <3>4. QED
      BY <2>1, <3>2, <3>3
  <2>4. CASE \E n \in Int : t = 4500 * n
    <3>1. PICK n \in Int : t = 4500 * n
      BY <2>4
    <3>2. (4500 * n + 2250) \div 4500 = n
      OBVIOUS
    <3>3. c = t
      BY <3>1, <3>2
    <3>4. QED
      BY <2>1, <3>3
  <2>5. QED
    BY <2>3, <2>4, KnownIs
<1>4. QED
  BY <1>2, <1>3

\* What a thermostat makes of a known setpoint is kept and shows its degree.
LEMMA SettledReads ==
    ASSUME NEW sent, Known(sent), NEW has \in Int, Kept(has)
    PROVE  /\ Settled(sent, has) \in Int
           /\ Kept(Settled(sent, has))
           /\ FahrenheitGrid(Settled(sent, has)) = FahrenheitGrid(sent)
<1>1. CASE sent \in Readings(has)
  BY <1>1, ReadingReads DEF Settled
<1>2. CASE sent \notin Readings(has)
  BY <1>2, KnownIs, ShownIsKept, ShownReads DEF Settled
<1>3. QED
  BY <1>1, <1>2

\* A temperature within the tolerated range of a side reads as a degree of it.
LEMMA RangeReads ==
    ASSUME NEW t \in Int, NEW s \in Sides, InRange(t, s)
    PROVE  FahrenheitGrid(t) \in Lowest[s] .. Highest[s]
<1>1. /\ FahrenheitGrid(t) \in Int
      /\ 5000 * (FahrenheitGrid(t) - 32) <= t + 2500
      /\ t + 2500 < 5000 * (FahrenheitGrid(t) - 32) + 5000
  BY GridIsFloor
<1>2. CASE s = "heat"
  BY <1>1, <1>2 DEF InRange, FahrenheitToCelsius, Lowest, Highest
<1>3. CASE s = "cool"
  BY <1>1, <1>3 DEF InRange, FahrenheitToCelsius, Lowest, Highest
<1>4. QED
  BY <1>2, <1>3 DEF Sides

-----------------------------------------------------------------------------
\* Enumerated settings

\* HeldEnum, with the style as a parameter
HeldIn(keys, k, v) ==
    IF keys = "string" THEN Named(Shorthand(v)) ELSE Numbered(IdOf[k][v])

\* What the cloud holds of a value, in either style, is the value itself to
\* the profile: no other value of the setting is held the same way.
LEMMA HeldReads ==
    ASSUME NEW keys, NEW k \in Kinds, NEW v \in Values(k)
    PROVE  Normalized(k, HeldIn(keys, k, v)) = v
<1>1. k \in {"mode", "fan", "hold"}
  BY KindsAssumption DEF IdOf
<1>2. CASE keys = "string"
  <2>1. CASE k = "mode"
    BY <1>2, <2>1 DEF Values, IdOf, Normalized, HeldIn, Named, Shorthand
  <2>2. CASE k = "fan"
    BY <1>2, <2>2 DEF Values, IdOf, Normalized, HeldIn, Named, Shorthand
  <2>3. CASE k = "hold"
    BY <1>2, <2>3 DEF Values, IdOf, Normalized, HeldIn, Named, Shorthand
  <2>4. QED
    BY <1>1, <2>1, <2>2, <2>3
<1>3. CASE keys # "string"
  <2>1. HeldIn(keys, k, v) = Numbered(IdOf[k][v])
    BY <1>3 DEF HeldIn
  <2>2. \A w \in Values(k) : IdOf[k][w] = IdOf[k][v] => w = v
    <3>1. CASE k = "mode"
      BY <3>1 DEF Values, IdOf
    <3>2. CASE k = "fan"
      BY <3>2 DEF Values, IdOf
    <3>3. CASE k = "hold"
      BY <3>3 DEF Values, IdOf
    <3>4. QED
      BY <1>1, <3>1, <3>2, <3>3
  <2> DEFINE n == IdOf[k][v]
  <2>3. Numbered(n).string = "absent" /\ Numbered(n).number = n
    BY DEF Numbered
  <2>4. Normalized(k, Numbered(n)) = CHOOSE w \in Values(k) : IdOf[k][w] = n
    BY <2>3 DEF Normalized
  <2>5. QED
    BY <2>1, <2>2, <2>4
<1>4. QED
  BY <1>2, <1>3

\* The payload for a value is what the cloud would hold of it: the key style
\* of the settings decides the payload's.
LEMMA PayloadIsHeld ==
    ASSUME NEW keys, NEW k \in Kinds, NEW v \in Values(k), NEW w \in Values(k)
    PROVE  EncodedEnum(k, HeldIn(keys, k, w), v) = HeldIn(keys, k, v)
<1>1. k \in {"mode", "fan", "hold"}
  BY KindsAssumption DEF IdOf
<1>2. Shorthand(w) # "absent"
  <2>1. CASE k = "mode"
    BY <2>1 DEF Values, IdOf, Shorthand
  <2>2. CASE k = "fan"
    BY <2>2 DEF Values, IdOf, Shorthand
  <2>3. CASE k = "hold"
    BY <2>3 DEF Values, IdOf, Shorthand
  <2>4. QED
    BY <1>1, <2>1, <2>2, <2>3
<1>3. QED
  BY <1>2 DEF EncodedEnum, HeldIn, Named, Numbered

\* The names of the settings are not those of the sides.
LEMMA KindsAreNotSides == Kinds \cap Sides = {} /\ "setpoints" \notin Kinds /\ "none" \notin Kinds
BY KindsAssumption DEF IdOf, Sides

-----------------------------------------------------------------------------
\* The inductive invariant

\* a value a settings document may hold at a leaf
LeafOk(keys, l, v) ==
    IF l \in Sides THEN Known(v)
                   ELSE \E w \in Values(l) : v = HeldIn(keys, l, w)

SettingsOk(keys, settings) ==
    /\ DOMAIN settings \subseteq Leaves
    /\ \A l \in DOMAIN settings : LeafOk(keys, l, settings[l])

ThermostatOk(t) ==
    /\ t \in [enum : [Kinds -> UNION {Values(k) : k \in Kinds}],
              unit : {"F", "C"}, pair : [Sides -> Int]]
    /\ \A k \in Kinds : t.enum[k] \in Values(k)
    /\ \A s \in Sides : Kept(t.pair[s])

Fates == {"sent", "taken", "overtaken"}

\* a setpoint command, whose pair was checked when it was encoded
PairCommand(c) ==
    \E payload, baseline : \E sides \in SUBSET Sides, fate \in Fates :
        /\ c = [kind |-> "setpoints", sides |-> sides, payload |-> payload,
                baseline |-> baseline, fate |-> fate]
        /\ DOMAIN payload = Sides
        /\ \A s \in Sides : Known(payload[s])
        /\ \A s \in sides : NearGrid(payload[s])
        /\ \A s \in Sides : FahrenheitGrid(payload[s]) \in Lowest[s] .. Highest[s]
        /\ FahrenheitGrid(payload["cool"]) - FahrenheitGrid(payload["heat"]) >= DeadBand

EnumCommand(keys, c) ==
    \E k \in Kinds, fate \in Fates : \E v \in Allowed(k) :
        c = [kind |-> k, value |-> v, payload |-> [l \in {k} |-> HeldIn(keys, k, v)],
             fate |-> fate]

CommandOk(keys, c) == c = NoCommand \/ PairCommand(c) \/ EnumCommand(keys, c)

\* the overlay never differs from the payload of the write under way
OverlayOk(over, c) ==
    c # NoCommand => \A l \in DOMAIN over \cap DOMAIN c.payload : over[l] = c.payload[l]

\* what was taken is what the thermostat does
EffectOk(t, c) ==
    c # NoCommand /\ c.fate = "taken" =>
        IF c.kind = "setpoints"
        THEN \A s \in Sides : c.payload[s] \in Readings(t.pair[s])
        ELSE t.enum[c.kind] = c.value

\* the thermostat shows of a side what the document and the overlay show
ShowsOk(t, doc, over, s) ==
    FahrenheitGrid(IF s \in DOMAIN over THEN over[s] ELSE doc[s]) = FahrenheitGrid(t.pair[s])

\* a setpoint command still to be taken
PairSent(c) == c.kind = "setpoints" /\ c.fate = "sent"

\* It does so while nothing happened behind the record's back; the sides of a
\* setpoint command still to be taken may differ, those it moves.
InStep(t, doc, over, c, untaken, behind) ==
    ~behind /\ untaken = NoSettings =>
        \A s \in Sides :
            IF PairSent(c)
            THEN /\ s \notin c.sides =>
                      FahrenheitGrid(c.payload[s]) = FahrenheitGrid(t.pair[s])
                 /\ s \notin DOMAIN over =>
                      /\ FahrenheitGrid(c.payload[s]) = FahrenheitGrid(t.pair[s])
                      /\ FahrenheitGrid(doc[s]) = FahrenheitGrid(t.pair[s])
            ELSE ShowsOk(t, doc, over, s)

IInv == /\ touched \in BOOLEAN
        /\ ThermostatOk(thermostat)
        /\ DOMAIN document = Leaves
        /\ SettingsOk(style, document)
        /\ SettingsOk(style, pending)
        /\ SettingsOk(style, late)
        /\ CommandOk(style, command)
        /\ OverlayOk(pending, command)
        /\ EffectOk(thermostat, command)
        /\ InStep(thermostat, document, pending, command, late, touched)

-----------------------------------------------------------------------------
\* Facts about settings, commands and the thermostat

\* Both operations on settings keep their values.
LEMMA MergedIs ==
    ASSUME NEW keys, NEW base, NEW over, SettingsOk(keys, base), SettingsOk(keys, over)
    PROVE  /\ SettingsOk(keys, Merged(base, over))
           /\ DOMAIN Merged(base, over) = DOMAIN base \cup DOMAIN over
           /\ \A l \in DOMAIN base \cup DOMAIN over :
                 Merged(base, over)[l] = IF l \in DOMAIN over THEN over[l] ELSE base[l]
<1>1. /\ DOMAIN Merged(base, over) = DOMAIN base \cup DOMAIN over
      /\ \A l \in DOMAIN base \cup DOMAIN over :
            Merged(base, over)[l] = IF l \in DOMAIN over THEN over[l] ELSE base[l]
  BY DEF Merged
<1>2. QED
  BY <1>1 DEF SettingsOk

\* What is left differs from what was compared, and is as it was.
LEMMA UnmatchedIs ==
    ASSUME NEW keys, NEW base, NEW comparison, SettingsOk(keys, base)
    PROVE  /\ SettingsOk(keys, Unmatched(base, comparison))
           /\ \A l : l \in DOMAIN Unmatched(base, comparison) <=>
                       /\ l \in DOMAIN base
                       /\ l \in DOMAIN comparison => base[l] # comparison[l]
           /\ \A l \in DOMAIN Unmatched(base, comparison) :
                 Unmatched(base, comparison)[l] = base[l]
<1>1. /\ \A l : l \in DOMAIN Unmatched(base, comparison) <=>
                  /\ l \in DOMAIN base
                  /\ l \in DOMAIN comparison => base[l] # comparison[l]
      /\ \A l \in DOMAIN Unmatched(base, comparison) :
            Unmatched(base, comparison)[l] = base[l]
  BY DEF Unmatched
<1>2. QED
  BY <1>1 DEF SettingsOk

\* What every command under way is.
LEMMA CommandIs ==
    ASSUME NEW keys, NEW c, CommandOk(keys, c), c # NoCommand
    PROVE  /\ SettingsOk(keys, c.payload)
           /\ c.payload # NoSettings
           /\ c.fate \in Fates
           /\ c.kind = "setpoints" => PairCommand(c) /\ DOMAIN c.payload = Sides
           /\ c.kind # "setpoints" => /\ EnumCommand(keys, c)
                                      /\ c.kind \in Kinds
                                      /\ DOMAIN c.payload = {c.kind}
<1>1. CASE PairCommand(c)
  <2>1. PICK payload, baseline, sides, fate :
           /\ sides \in SUBSET Sides /\ fate \in Fates
           /\ c = [kind |-> "setpoints", sides |-> sides, payload |-> payload,
                   baseline |-> baseline, fate |-> fate]
           /\ DOMAIN payload = Sides
           /\ \A s \in Sides : Known(payload[s])
    BY <1>1 DEF PairCommand
  <2>2. c.kind = "setpoints" /\ c.payload = payload /\ c.fate = fate
    BY <2>1
  <2>3. SettingsOk(keys, payload) /\ payload # NoSettings
    BY <2>1 DEF SettingsOk, LeafOk, Leaves, NoSettings, Sides
  <2>4. QED
    BY <1>1, <2>1, <2>2, <2>3
<1>2. CASE EnumCommand(keys, c)
  <2>1. PICK k \in Kinds, fate \in Fates : \E v \in Allowed(k) :
           c = [kind |-> k, value |-> v, payload |-> [l \in {k} |-> HeldIn(keys, k, v)],
                fate |-> fate]
    BY <1>2 DEF EnumCommand
  <2>2. PICK v \in Allowed(k) :
           c = [kind |-> k, value |-> v, payload |-> [l \in {k} |-> HeldIn(keys, k, v)],
                fate |-> fate]
    BY <2>1
  <2> DEFINE payload == [l \in {k} |-> HeldIn(keys, k, v)]
  <2>3. c.kind = k /\ c.payload = payload /\ c.fate = fate
    BY <2>2
  <2>4. DOMAIN payload = {k} /\ payload[k] = HeldIn(keys, k, v)
    OBVIOUS
  <2>5. k \notin Sides /\ k # "setpoints" /\ v \in Values(k)
    BY KindsAreNotSides DEF Allowed
  <2> HIDE DEF payload
  <2>6. SettingsOk(keys, payload)
    BY <2>4, <2>5 DEF SettingsOk, LeafOk, Leaves
  <2>7. payload # NoSettings
    BY <2>4 DEF NoSettings
  <2>8. QED
    BY <1>2, <2>3, <2>4, <2>5, <2>6, <2>7
<1>3. QED
  BY <1>1, <1>2 DEF CommandOk

\* What makes a write of both setpoints.
LEMMA PairCommandIs ==
    ASSUME NEW sides \in SUBSET Sides, NEW payload, NEW baseline, NEW fate \in Fates,
           NEW d,
           d = [kind |-> "setpoints", sides |-> sides, payload |-> payload,
                baseline |-> baseline, fate |-> fate],
           DOMAIN payload = Sides,
           \A s \in Sides : Known(payload[s]),
           \A s \in sides : NearGrid(payload[s]),
           \A s \in Sides : FahrenheitGrid(payload[s]) \in Lowest[s] .. Highest[s],
           FahrenheitGrid(payload["cool"]) - FahrenheitGrid(payload["heat"]) >= DeadBand
    PROVE  PairCommand(d)
  BY DEF PairCommand

\* Another fate changes nothing else of a command.
LEMMA FateChanges ==
    ASSUME NEW keys, NEW c, CommandOk(keys, c), c # NoCommand, NEW f \in Fates
    PROVE  LET d == [c EXCEPT !.fate = f]
           IN  /\ CommandOk(keys, d)
               /\ d # NoCommand
               /\ d.fate = f
               /\ d.kind = c.kind
               /\ d.payload = c.payload
               /\ c.kind = "setpoints" => d.sides = c.sides
               /\ c.kind # "setpoints" => d.value = c.value
<1> DEFINE d == [c EXCEPT !.fate = f]
<1>1. CASE PairCommand(c)
  <2>1. PICK payload, baseline, sides, fate :
        /\ sides \in SUBSET Sides /\ fate \in Fates
        /\ c = [kind |-> "setpoints", sides |-> sides, payload |-> payload,
                baseline |-> baseline, fate |-> fate]
        /\ DOMAIN payload = Sides
        /\ \A s \in Sides : Known(payload[s])
        /\ \A s \in sides : NearGrid(payload[s])
        /\ \A s \in Sides : FahrenheitGrid(payload[s]) \in Lowest[s] .. Highest[s]
        /\ FahrenheitGrid(payload["cool"]) - FahrenheitGrid(payload["heat"]) >= DeadBand
    BY <1>1 DEF PairCommand
  <2>2. d = [kind |-> "setpoints", sides |-> sides, payload |-> payload,
             baseline |-> baseline, fate |-> f]
    BY <2>1
  <2> HIDE DEF d
  <2>3. PairCommand(d)
    BY <2>1, <2>2 DEF PairCommand
  <2>4. d # NoCommand
    <3>1. d.kind # NoCommand.kind
      BY <2>2 DEF NoCommand
    <3>2. QED
      BY <3>1
  <2>5. /\ d.fate = f /\ d.kind = c.kind /\ d.payload = c.payload /\ d.sides = c.sides
        /\ c.kind = "setpoints"
    BY <2>1, <2>2
  <2>6. QED
    BY <2>3, <2>4, <2>5 DEF CommandOk, d
<1>2. CASE EnumCommand(keys, c)
  <2>1. PICK k \in Kinds, fate \in Fates : \E v \in Allowed(k) :
           c = [kind |-> k, value |-> v, payload |-> [l \in {k} |-> HeldIn(keys, k, v)],
                fate |-> fate]
    BY <1>2 DEF EnumCommand
  <2>2. PICK v \in Allowed(k) :
           c = [kind |-> k, value |-> v, payload |-> [l \in {k} |-> HeldIn(keys, k, v)],
                fate |-> fate]
    BY <2>1
  <2>3. d = [kind |-> k, value |-> v, payload |-> [l \in {k} |-> HeldIn(keys, k, v)],
             fate |-> f]
    BY <2>2
  <2> HIDE DEF d
  <2>4. EnumCommand(keys, d)
    BY <2>3 DEF EnumCommand
  <2>5. k # "none" /\ k # "setpoints"
    BY KindsAreNotSides
  <2>6. d # NoCommand
    <3>1. d.kind # NoCommand.kind
      BY <2>3, <2>5 DEF NoCommand
    <3>2. QED
      BY <3>1
  <2>7. /\ d.fate = f /\ d.kind = c.kind /\ d.payload = c.payload /\ d.value = c.value
        /\ c.kind # "setpoints"
    BY <2>2, <2>3, <2>5
  <2>8. QED
    BY <2>4, <2>6, <2>7 DEF CommandOk, d
<1>3. QED
  BY <1>1, <1>2 DEF CommandOk

\* A command that something else overtakes, or does not.
LEMMA OvertakenIs ==
    ASSUME CommandOk(style, command), OverlayOk(pending, command),
           EffectOk(thermostat, command), NEW leaves, NEW t,
           \A s \in Sides \ leaves : t.pair[s] = thermostat.pair[s],
           \A k \in Kinds \ leaves : t.enum[k] = thermostat.enum[k]
    PROVE  /\ CommandOk(style, Overtaken(leaves))
           /\ OverlayOk(pending, Overtaken(leaves))
           /\ EffectOk(t, Overtaken(leaves))
<1>1. CASE /\ command # NoCommand
           /\ command.fate = "taken"
           /\ DOMAIN command.payload \cap leaves # {}
  <2>1. Overtaken(leaves) = [command EXCEPT !.fate = "overtaken"]
    BY <1>1 DEF Overtaken, UnderWay
  <2>2. /\ CommandOk(style, Overtaken(leaves))
        /\ Overtaken(leaves).fate = "overtaken"
        /\ Overtaken(leaves).payload = command.payload
    <3>1. "overtaken" \in Fates
      BY DEF Fates
    <3> DEFINE d == [command EXCEPT !.fate = "overtaken"]
    <3>2. CommandOk(style, d) /\ d.fate = "overtaken" /\ d.payload = command.payload
      BY <1>1, <3>1, FateChanges
    <3>3. QED
      BY <2>1, <3>2
  <2>3. QED
    BY <1>1, <2>2 DEF OverlayOk, EffectOk
<1>2. CASE ~ /\ command # NoCommand
             /\ command.fate = "taken"
             /\ DOMAIN command.payload \cap leaves # {}
  <2>1. Overtaken(leaves) = command
    BY <1>2 DEF Overtaken, UnderWay
  <2>2. EffectOk(t, command)
    <3> SUFFICES ASSUME command # NoCommand, command.fate = "taken"
                 PROVE  IF command.kind = "setpoints"
                        THEN \A s \in Sides : command.payload[s] \in Readings(t.pair[s])
                        ELSE t.enum[command.kind] = command.value
      BY DEF EffectOk
    <3>1. DOMAIN command.payload \cap leaves = {}
      BY <1>2
    <3>2. CASE command.kind = "setpoints"
      <4>1. DOMAIN command.payload = Sides
        BY <3>2, CommandIs
      <4>2. \A s \in Sides : t.pair[s] = thermostat.pair[s]
        BY <3>1, <4>1
      <4>3. QED
        BY <3>2, <4>2 DEF EffectOk
    <3>3. CASE command.kind # "setpoints"
      <4>1. command.kind \in Kinds /\ DOMAIN command.payload = {command.kind}
        BY <3>3, CommandIs
      <4>2. t.enum[command.kind] = thermostat.enum[command.kind]
        BY <3>1, <4>1
      <4>3. QED
        BY <3>3, <4>2 DEF EffectOk
    <3>4. QED
      BY <3>2, <3>3
  <2>3. QED
    BY <2>1, <2>2
<1>3. QED
  BY <1>1, <1>2

\* The payload of a write that ends is one, and there is one if it was not taken.
LEMMA UntakenIs ==
    ASSUME CommandOk(style, command), command # NoCommand, SettingsOk(style, late)
    PROVE  /\ SettingsOk(style, Untaken)
           /\ command.fate = "sent" => Untaken # NoSettings
           /\ command.fate # "sent" => Untaken = late
BY CommandIs DEF Untaken

\* A payload leaves the thermostat what it is, and every side it names shows
\* the whole degree that was sent.
LEMMA AfterIs ==
    ASSUME ThermostatOk(thermostat), NEW payload, SettingsOk(style, payload)
    PROVE  LET t == After(payload)
           IN  /\ ThermostatOk(t)
               /\ t.unit = thermostat.unit
               /\ \A s \in Sides \ DOMAIN payload : t.pair[s] = thermostat.pair[s]
               /\ \A k \in Kinds \ DOMAIN payload : t.enum[k] = thermostat.enum[k]
               /\ \A s \in Sides \cap DOMAIN payload :
                     /\ t.pair[s] = Settled(payload[s], thermostat.pair[s])
                     /\ FahrenheitGrid(t.pair[s]) = FahrenheitGrid(payload[s])
               /\ \A k \in Kinds \cap DOMAIN payload :
                     t.enum[k] = Heard(k, payload[k], thermostat.enum[k])
<1> DEFINE t == After(payload)
           Pair(s) == IF s \in DOMAIN payload THEN Settled(payload[s], thermostat.pair[s])
                                              ELSE thermostat.pair[s]
           Enum(k) == IF k \in DOMAIN payload THEN Heard(k, payload[k], thermostat.enum[k])
                                              ELSE thermostat.enum[k]
<1>1. t = [enum |-> [k \in Kinds |-> Enum(k)], unit |-> thermostat.unit,
           pair |-> [s \in Sides |-> Pair(s)]]
  BY DEF After
<1>2. /\ \A s \in Sides : thermostat.pair[s] \in Int /\ Kept(thermostat.pair[s])
      /\ \A k \in Kinds : thermostat.enum[k] \in Values(k)
      /\ thermostat.unit \in {"F", "C"}
  BY DEF ThermostatOk
<1>3. ASSUME NEW s \in Sides
      PROVE  /\ Pair(s) \in Int
             /\ Kept(Pair(s))
             /\ s \in DOMAIN payload => FahrenheitGrid(Pair(s)) = FahrenheitGrid(payload[s])
  <2>1. CASE s \in DOMAIN payload
    <3>1. Known(payload[s])
      BY <2>1 DEF SettingsOk, LeafOk
    <3>2. QED
      BY <1>2, <2>1, <3>1, SettledReads
  <2>2. CASE s \notin DOMAIN payload
    BY <1>2, <2>2
  <2>3. QED
    BY <2>1, <2>2
<1>4. ASSUME NEW k \in Kinds PROVE Enum(k) \in Values(k)
  <2> DEFINE heard == {v \in Allowed(k) : HeldEnum(k, v) = payload[k]}
  <2>1. heard # {} => (CHOOSE v \in heard : TRUE) \in heard
    OBVIOUS
  <2>2. heard \subseteq Values(k)
    BY DEF Allowed
  <2>3. Heard(k, payload[k], thermostat.enum[k]) =
           IF heard = {} THEN thermostat.enum[k] ELSE CHOOSE v \in heard : TRUE
    BY DEF Heard
  <2> HIDE DEF heard
  <2>4. QED
    BY <1>2, <2>1, <2>2, <2>3
<1> HIDE DEF t, Pair, Enum
<1>5. /\ t.unit = thermostat.unit
      /\ \A s \in Sides : t.pair[s] = Pair(s)
      /\ \A k \in Kinds : t.enum[k] = Enum(k)
  BY <1>1
<1>6. ThermostatOk(t)
  <2>1. [k \in Kinds |-> Enum(k)] \in [Kinds -> UNION {Values(k) : k \in Kinds}]
    BY <1>4
  <2>2. [s \in Sides |-> Pair(s)] \in [Sides -> Int]
    BY <1>3
  <2>3. t \in [enum : [Kinds -> UNION {Values(k) : k \in Kinds}],
               unit : {"F", "C"}, pair : [Sides -> Int]]
    BY <1>1, <1>2, <2>1, <2>2
  <2>4. QED
    BY <1>3, <1>4, <1>5, <2>3 DEF ThermostatOk
<1>7. QED
  BY <1>3, <1>5, <1>6 DEF t, Pair, Enum

\* What is reported of a thermostat.
LEMMA ReportedIs ==
    ASSUME ThermostatOk(thermostat), NEW precision \in Precisions
    PROVE  LET doc == Reported(precision)
           IN  /\ DOMAIN doc = Leaves
               /\ SettingsOk(style, doc)
               /\ \A s \in Sides :
                     /\ doc[s] \in Readings(thermostat.pair[s])
                     /\ FahrenheitGrid(doc[s]) = FahrenheitGrid(thermostat.pair[s])
               /\ \A k \in Kinds : doc[k] = HeldIn(style, k, thermostat.enum[k])
<1> DEFINE doc == Reported(precision)
<1>1. /\ DOMAIN doc = Leaves
      /\ \A s \in Sides : doc[s] = Reading(precision, thermostat.pair[s])
      /\ \A k \in Kinds : doc[k] = HeldIn(style, k, thermostat.enum[k])
  BY KindsAreNotSides DEF Reported, Leaves, HeldEnum, HeldIn
<1> HIDE DEF doc
<1>2. ASSUME NEW s \in Sides
      PROVE  /\ doc[s] \in Readings(thermostat.pair[s])
             /\ FahrenheitGrid(doc[s]) = FahrenheitGrid(thermostat.pair[s])
             /\ Known(doc[s])
  <2>1. thermostat.pair[s] \in Int /\ Kept(thermostat.pair[s])
    BY DEF ThermostatOk
  <2>2. doc[s] \in Readings(thermostat.pair[s])
    BY <1>1, ReadingsAre
  <2>3. QED
    BY <2>1, <2>2, ReadingReads DEF Known
<1>3. \A k \in Kinds : LeafOk(style, k, doc[k])
  BY <1>1, KindsAreNotSides DEF LeafOk, ThermostatOk
<1>4. SettingsOk(style, doc)
  BY <1>1, <1>2, <1>3 DEF SettingsOk, LeafOk, Leaves
<1>5. QED
  BY <1>1, <1>2, <1>4 DEF doc

-----------------------------------------------------------------------------
\* The steps

\* A pair set at the wall is one a thermostat keeps.
LEMMA AtTheWallIsKept ==
    ASSUME NEW unit, NEW p \in WallPairs
    PROVE  /\ AtTheWall(unit, p) \in [Sides -> Int]
           /\ \A s \in Sides : Kept(AtTheWall(unit, p)[s])
<1>1. p[1] \in Int /\ p[2] \in Int
  BY WallAssumption
<1>2. ASSUME NEW s \in Sides
      PROVE  AtTheWall(unit, p)[s] \in Int /\ Kept(AtTheWall(unit, p)[s])
  <2> DEFINE t == FahrenheitToCelsius(IF s = "heat" THEN p[1] ELSE p[2])
  <2>1. t \in Int
    BY <1>1 DEF FahrenheitToCelsius
  <2>2. AtTheWall(unit, p)[s] = Shown(unit, t)
    BY DEF AtTheWall
  <2> HIDE DEF t
  <2>3. QED
    BY <2>1, <2>2, ShownIsKept
<1>3. AtTheWall(unit, p) = [s \in Sides |-> AtTheWall(unit, p)[s]]
  BY DEF AtTheWall
<1>4. QED
  BY <1>2, <1>3

\* No settings are settings.
LEMMA NoSettingsOk == \A keys : SettingsOk(keys, NoSettings)
BY DEF SettingsOk, NoSettings

\* The record starts with the settings of an untouched thermostat.
LEMMA InitInv == Init => IInv
<1> SUFFICES ASSUME Init PROVE IInv
  OBVIOUS
<1>1. PICK p \in WallPairs, unit \in {"F", "C"} :
         thermostat = [enum |-> [k \in Kinds |-> IF k = "hold" THEN "none" ELSE "auto"],
                       unit |-> "F", pair |-> AtTheWall(unit, p)]
  BY DEF Init
<1>2. /\ AtTheWall(unit, p) \in [Sides -> Int]
      /\ \A s \in Sides : Kept(AtTheWall(unit, p)[s])
  BY AtTheWallIsKept
<1>3. \A k \in Kinds : (IF k = "hold" THEN "none" ELSE "auto") \in Values(k)
  BY KindsAssumption DEF Values, IdOf
<1>4. ThermostatOk(thermostat)
  <2>1. [k \in Kinds |-> IF k = "hold" THEN "none" ELSE "auto"]
           \in [Kinds -> UNION {Values(k) : k \in Kinds}]
    BY <1>3
  <2>2. QED
    BY <1>1, <1>2, <1>3, <2>1 DEF ThermostatOk
<1>5. document = Reported("rounded") /\ "rounded" \in Precisions
  BY DEF Init, Precisions
<1>6. /\ DOMAIN document = Leaves
      /\ SettingsOk(style, document)
      /\ \A s \in Sides : FahrenheitGrid(document[s]) = FahrenheitGrid(thermostat.pair[s])
  BY <1>4, <1>5, ReportedIs
<1>7. pending = NoSettings /\ late = NoSettings /\ command = NoCommand /\ touched = FALSE
  BY DEF Init
<1>8. CommandOk(style, command) /\ OverlayOk(pending, command) /\ EffectOk(thermostat, command)
  BY <1>7 DEF CommandOk, OverlayOk, EffectOk
<1>9. InStep(thermostat, document, pending, command, late, touched)
  BY <1>6, <1>7 DEF InStep, ShowsOk, PairSent, NoCommand, NoSettings
<1>10. QED
  BY <1>4, <1>6, <1>7, <1>8, <1>9, NoSettingsOk DEF IInv

\* By hand: a command that was taken is overtaken.
LEMMA WallChangeInv == IInv /\ WallChange => IInv'
<1> SUFFICES ASSUME IInv, WallChange PROVE IInv'
  OBVIOUS
<1> USE DEF IInv
<1>1. UNCHANGED <<style, document, pending, late>> /\ touched' = TRUE
  BY DEF WallChange
<1>2. CASE /\ \E p \in WallPairs :
                 thermostat' = [thermostat EXCEPT !.pair = AtTheWall(thermostat.unit, p)]
           /\ command' = Overtaken(Sides)
  <2>1. PICK p \in WallPairs :
           thermostat' = [thermostat EXCEPT !.pair = AtTheWall(thermostat.unit, p)]
    BY <1>2
  <2>2. ThermostatOk(thermostat')
    BY <2>1, AtTheWallIsKept DEF ThermostatOk
  <2>3. \A k \in Kinds : thermostat'.enum[k] = thermostat.enum[k]
    BY <2>1 DEF ThermostatOk
  <2>4. /\ CommandOk(style, command')
        /\ OverlayOk(pending, command')
        /\ EffectOk(thermostat', command')
    BY <1>2, <2>3, OvertakenIs
  <2>5. QED
    BY <1>1, <2>2, <2>4 DEF InStep
<1>3. CASE /\ thermostat' = [thermostat EXCEPT !.enum["mode"] = "emergency"]
           /\ command' = Overtaken({"mode"})
  <2>1. "mode" \in Kinds /\ "emergency" \in Values("mode")
    BY KindsAssumption DEF Values, IdOf
  <2>2. thermostat' = [thermostat EXCEPT !.enum = [@ EXCEPT !["mode"] = "emergency"]]
    BY <1>3
  <2> DEFINE enum == [thermostat.enum EXCEPT !["mode"] = "emergency"]
  <2>3. /\ enum \in [Kinds -> UNION {Values(k) : k \in Kinds}]
        /\ \A k \in Kinds : enum[k] \in Values(k)
        /\ \A k \in Kinds \ {"mode"} : enum[k] = thermostat.enum[k]
    BY <2>1 DEF ThermostatOk
  <2>4. thermostat' = [thermostat EXCEPT !.enum = enum]
    BY <2>2
  <2> HIDE DEF enum
  <2>5. /\ ThermostatOk(thermostat')
        /\ thermostat'.pair = thermostat.pair
        /\ thermostat'.enum = enum
    BY <2>3, <2>4 DEF ThermostatOk
  <2>6. /\ CommandOk(style, command')
        /\ OverlayOk(pending, command')
        /\ EffectOk(thermostat', command')
    BY <1>3, <2>3, <2>5, OvertakenIs
  <2>7. QED
    BY <1>1, <2>5, <2>6 DEF InStep
<1>4. QED
  BY <1>2, <1>3 DEF WallChange

\* Another display unit, with the setpoints moved onto its grid or not.
LEMMA UnitChangeInv == IInv /\ UnitChange => IInv'
<1> SUFFICES ASSUME IInv, UnitChange PROVE IInv'
  OBVIOUS
<1> USE DEF IInv
<1>1. /\ UNCHANGED <<style, document, pending, late>>
      /\ touched' = TRUE
      /\ command' = Overtaken(Sides)
  BY DEF UnitChange
<1>2. PICK unit \in {"F", "C"} \ {thermostat.unit}, moved \in BOOLEAN :
         thermostat' = [thermostat EXCEPT !.unit = unit,
                          !.pair = IF moved THEN [s \in Sides |-> Shown(unit, @[s])] ELSE @]
  BY DEF UnitChange
<1> DEFINE pair == IF moved THEN [s \in Sides |-> Shown(unit, thermostat.pair[s])]
                            ELSE thermostat.pair
<1>3. pair \in [Sides -> Int] /\ \A s \in Sides : Kept(pair[s])
  BY ShownIsKept DEF ThermostatOk
<1>4. thermostat' = [thermostat EXCEPT !.unit = unit, !.pair = pair]
  BY <1>2
<1> HIDE DEF pair
<1>5. ThermostatOk(thermostat') /\ thermostat'.enum = thermostat.enum
  BY <1>3, <1>4 DEF ThermostatOk
<1>6. /\ CommandOk(style, command')
      /\ OverlayOk(pending, command')
      /\ EffectOk(thermostat', command')
  BY <1>1, <1>5, OvertakenIs
<1>7. QED
  BY <1>1, <1>5, <1>6 DEF InStep

\* A write that has ended is taken after all.
LEMMA LateTakeInv == IInv /\ LateTake => IInv'
<1> SUFFICES ASSUME IInv, LateTake PROVE IInv'
  OBVIOUS
<1> USE DEF IInv
<1>1. /\ UNCHANGED <<style, document, pending>>
      /\ touched' = TRUE
      /\ late' = NoSettings
      /\ command' = Overtaken(DOMAIN late)
      /\ thermostat' = After(late)
  BY DEF LateTake
<1>2. /\ ThermostatOk(thermostat')
      /\ \A s \in Sides \ DOMAIN late : thermostat'.pair[s] = thermostat.pair[s]
      /\ \A k \in Kinds \ DOMAIN late : thermostat'.enum[k] = thermostat.enum[k]
  BY <1>1, AfterIs
<1>3. /\ CommandOk(style, command')
      /\ OverlayOk(pending, command')
      /\ EffectOk(thermostat', command')
  BY <1>1, <1>2, OvertakenIs
<1>4. QED
  BY <1>1, <1>2, <1>3, NoSettingsOk DEF InStep

\* The device takes the write: a pair shows the degrees that were sent, and is
\* read as it was sent if the device keeps it; a value is the one sent.
LEMMA TakeInv == IInv /\ Take => IInv'
<1> SUFFICES ASSUME IInv, Take PROVE IInv'
  OBVIOUS
<1> USE DEF IInv
<1>1. /\ UNCHANGED <<style, setup, document, pending, late, touched>>
      /\ command # NoCommand
      /\ command.fate = "sent"
      /\ thermostat' = After(command.payload)
      /\ command' = [command EXCEPT !.fate = IF CanKeep THEN "taken" ELSE "overtaken"]
  BY DEF Take, UnderWay
<1> DEFINE f == IF CanKeep THEN "taken" ELSE "overtaken"
<1>2. f \in Fates /\ f # "sent" /\ (f = "taken" => CanKeep)
  BY DEF Fates
<1>3. command' = [command EXCEPT !.fate = f]
  BY <1>1
<1> HIDE DEF f
<1>4. /\ CommandOk(style, command')
      /\ command' # NoCommand
      /\ command'.fate = f
      /\ command'.kind = command.kind
      /\ command'.payload = command.payload
      /\ command.kind # "setpoints" => command'.value = command.value
  <2> DEFINE d == [command EXCEPT !.fate = f]
  <2>1. /\ CommandOk(style, d)
        /\ d # NoCommand
        /\ d.fate = f
        /\ d.kind = command.kind
        /\ d.payload = command.payload
        /\ command.kind # "setpoints" => d.value = command.value
    BY <1>1, <1>2, FateChanges
  <2> HIDE DEF d
  <2>2. command' = d
    BY <1>3 DEF d
  <2>3. QED
    BY <2>1, <2>2
<1>5. SettingsOk(style, command.payload)
  BY <1>1, CommandIs
<1>6. /\ ThermostatOk(thermostat')
      /\ thermostat'.unit = thermostat.unit
      /\ \A s \in Sides \ DOMAIN command.payload : thermostat'.pair[s] = thermostat.pair[s]
      /\ \A s \in Sides \cap DOMAIN command.payload :
            /\ thermostat'.pair[s] = Settled(command.payload[s], thermostat.pair[s])
            /\ FahrenheitGrid(thermostat'.pair[s]) = FahrenheitGrid(command.payload[s])
      /\ \A k \in Kinds \cap DOMAIN command.payload :
            thermostat'.enum[k] = Heard(k, command.payload[k], thermostat.enum[k])
  BY <1>1, <1>5, AfterIs
<1>7. OverlayOk(pending', command')
  BY <1>1, <1>4 DEF OverlayOk
<1>8. CASE command.kind = "setpoints"
  <2>1. DOMAIN command.payload = Sides /\ PairCommand(command)
    BY <1>1, <1>8, CommandIs
  <2>2. \A s \in command.sides : NearGrid(command.payload[s])
    BY <2>1 DEF PairCommand
  <2>3. EffectOk(thermostat', command')
    <3> SUFFICES ASSUME f = "taken", NEW s \in Sides
                 PROVE  command.payload[s] \in Readings(thermostat'.pair[s])
      BY <1>4, <1>8 DEF EffectOk
    <3>1. CASE s \in command.sides
      <4>1. thermostat.unit = "F"
        BY <1>2, <1>8 DEF CanKeep
      <4>2. thermostat'.pair[s] = Settled(command.payload[s], thermostat.pair[s])
        BY <1>6, <2>1
      <4>3. command.payload[s] \in Readings(Shown("F", command.payload[s]))
        BY <2>2, <3>1, NearIsKept
      <4>4. QED
        BY <4>1, <4>2, <4>3 DEF Settled
    <3>2. CASE s \notin command.sides
      BY <1>1, <1>2, <1>8, <3>2 DEF CanKeep
    <3>3. QED
      BY <3>1, <3>2
  <2>4. InStep(thermostat', document', pending', command', late', touched')
    <3> SUFFICES ASSUME ~touched, late = NoSettings, NEW s \in Sides
                 PROVE  ShowsOk(thermostat', document, pending, s)
      BY <1>1, <1>2, <1>4 DEF InStep, PairSent
    <3>1. FahrenheitGrid(thermostat'.pair[s]) = FahrenheitGrid(command.payload[s])
      BY <1>6, <2>1
    <3>2. PairSent(command)
      BY <1>1, <1>8 DEF PairSent
    <3>3. CASE s \in DOMAIN pending
      <4>1. pending[s] = command.payload[s]
        BY <1>1, <2>1, <3>3 DEF OverlayOk
      <4>2. QED
        BY <3>1, <3>3, <4>1 DEF ShowsOk
    <3>4. CASE s \notin DOMAIN pending
      <4>1. /\ FahrenheitGrid(command.payload[s]) = FahrenheitGrid(thermostat.pair[s])
            /\ FahrenheitGrid(document[s]) = FahrenheitGrid(thermostat.pair[s])
        BY <3>2, <3>4 DEF InStep
      <4>2. QED
        BY <3>1, <3>4, <4>1 DEF ShowsOk
    <3>5. QED
      BY <3>3, <3>4
  <2>5. QED
    BY <1>1, <1>4, <1>6, <1>7, <2>3, <2>4
<1>9. CASE command.kind # "setpoints"
  <2>1. EnumCommand(style, command)
    BY <1>1, <1>9, CommandIs
  <2>2. PICK k \in Kinds, fate \in Fates : \E v \in Allowed(k) :
           command = [kind |-> k, value |-> v,
                      payload |-> [l \in {k} |-> HeldIn(style, k, v)], fate |-> fate]
    BY <2>1 DEF EnumCommand
  <2>3. PICK v \in Allowed(k) :
           command = [kind |-> k, value |-> v,
                      payload |-> [l \in {k} |-> HeldIn(style, k, v)], fate |-> fate]
    BY <2>2
  <2>4. /\ command.kind = k /\ command.value = v
        /\ DOMAIN command.payload = {k} /\ command.payload[k] = HeldIn(style, k, v)
    BY <2>3
  <2>5. Heard(k, HeldIn(style, k, v), thermostat.enum[k]) = v
    <3> DEFINE heard == {w \in Allowed(k) : HeldEnum(k, w) = HeldIn(style, k, v)}
    <3>1. \A w : HeldEnum(k, w) = HeldIn(style, k, w)
      BY DEF HeldEnum, HeldIn
    <3>2. \A w \in Allowed(k) : w \in Values(k)
      BY DEF Allowed
    <3>3. \A w \in heard : w = v
      BY <3>1, <3>2, HeldReads
    <3>4. heard = {v}
      BY <3>1, <3>3
    <3>5. Heard(k, HeldIn(style, k, v), thermostat.enum[k]) =
             IF heard = {} THEN thermostat.enum[k] ELSE CHOOSE w \in heard : TRUE
      BY DEF Heard
    <3> HIDE DEF heard
    <3>6. QED
      BY <3>4, <3>5
  <2>6. thermostat'.enum[k] = v
    BY <1>6, <2>4, <2>5
  <2>7. EffectOk(thermostat', command')
    BY <1>4, <1>9, <2>4, <2>6 DEF EffectOk
  <2>8. \A s \in Sides : thermostat'.pair[s] = thermostat.pair[s]
    BY <1>6, <2>4, KindsAreNotSides
  <2>9. InStep(thermostat', document', pending', command', late', touched')
    BY <1>1, <1>4, <1>9, <2>8 DEF InStep, PairSent, ShowsOk
  <2>10. QED
    BY <1>1, <1>4, <1>6, <1>7, <2>7, <2>9
<1>10. QED
  BY <1>8, <1>9

\* A document shows every side as the thermostat does.  The overlay keeps what
\* it does not repeat, less the payload of a write it decides.
LEMMA ReportInv == IInv /\ Report => IInv'
<1> SUFFICES ASSUME IInv, Report PROVE IInv'
  OBVIOUS
<1> USE DEF IInv
<1>1. PICK precision \in Precisions :
         LET doc     == Reported(precision)
             over    == Unmatched(pending, doc)
             decided == UnderWay /\ Judged(doc) # "unknown"
         IN  /\ document' = doc
             /\ pending' = IF decided THEN Unmatched(over, command.payload) ELSE over
             /\ command' = IF decided THEN NoCommand ELSE command
             /\ late' = IF decided THEN Untaken ELSE late
             /\ touched' = (touched /\ (\/ Sides \cap DOMAIN pending' # {}
                                        \/ command' # NoCommand /\ command'.fate = "sent"))
             /\ UNCHANGED <<thermostat, style, setup, calls>>
  BY DEF Report
<1> DEFINE doc     == Reported(precision)
           over    == Unmatched(pending, doc)
           decided == UnderWay /\ Judged(doc) # "unknown"
<1>2. /\ thermostat' = thermostat /\ style' = style
      /\ document' = doc
      /\ decided => command # NoCommand
      /\ decided => /\ pending' = Unmatched(over, command.payload)
                    /\ command' = NoCommand
                    /\ late' = Untaken
      /\ ~decided => pending' = over /\ command' = command /\ late' = late
      /\ touched' = (touched /\ (\/ Sides \cap DOMAIN pending' # {}
                                 \/ command' # NoCommand /\ command'.fate = "sent"))
  BY <1>1 DEF UnderWay
<1>3. /\ DOMAIN doc = Leaves
      /\ SettingsOk(style, doc)
      /\ \A s \in Sides : FahrenheitGrid(doc[s]) = FahrenheitGrid(thermostat.pair[s])
  BY ReportedIs
<1> HIDE DEF doc
<1>4. /\ SettingsOk(style, over)
      /\ \A l : l \in DOMAIN over <=>
                  l \in DOMAIN pending /\ (l \in DOMAIN doc => pending[l] # doc[l])
      /\ \A l \in DOMAIN over : over[l] = pending[l]
  <2>1. SettingsOk(style, over)
    BY UnmatchedIs
  <2>2. \A l : l \in DOMAIN over <=>
                l \in DOMAIN pending /\ (l \in DOMAIN doc => pending[l] # doc[l])
    BY DEF Unmatched
  <2>3. \A l \in DOMAIN over : over[l] = pending[l]
    BY DEF Unmatched
  <2>4. QED
    BY <2>1, <2>2, <2>3
<1> HIDE DEF over, decided
<1>5. CASE decided
  <2>1. /\ SettingsOk(style, pending')
        /\ \A l \in DOMAIN pending' : l \in DOMAIN over
        /\ \A l \in DOMAIN pending' : pending'[l] = over[l]
    <3> DEFINE left == Unmatched(over, command.payload)
    <3>1. /\ SettingsOk(style, left)
          /\ \A l \in DOMAIN left : l \in DOMAIN over
          /\ \A l \in DOMAIN left : left[l] = over[l]
      <4>1. SettingsOk(style, left)
        BY <1>4, UnmatchedIs
      <4>2. /\ \A l \in DOMAIN left : l \in DOMAIN over
            /\ \A l \in DOMAIN left : left[l] = over[l]
        BY DEF Unmatched
      <4>3. QED
        BY <4>1, <4>2
    <3>2. pending' = left
      BY <1>2, <1>5
    <3> HIDE DEF left
    <3>3. QED
      BY <3>1, <3>2
  <2>2. SettingsOk(style, late')
    BY <1>2, <1>5, UntakenIs
  <2>3. CommandOk(style, command') /\ OverlayOk(pending', command')
        /\ EffectOk(thermostat, command')
    BY <1>2, <1>5 DEF CommandOk, OverlayOk, EffectOk
  <2>4. InStep(thermostat, doc, pending', command', late', touched')
    <3> SUFFICES ASSUME ~touched', late' = NoSettings, NEW s \in Sides
                 PROVE  ShowsOk(thermostat, doc, pending', s)
      BY <1>2, <1>5 DEF InStep, PairSent, NoCommand
    <3>1. command.fate # "sent" /\ late = NoSettings
      BY <1>2, <1>5, UntakenIs
    <3>2. CASE s \notin DOMAIN pending'
      BY <1>3, <3>2 DEF ShowsOk
    <3>3. CASE s \in DOMAIN pending'
      <4>1. ~touched
        BY <1>2, <3>3
      <4>2. s \in DOMAIN pending /\ pending'[s] = pending[s]
        BY <1>4, <2>1, <3>3
      <4>3. ShowsOk(thermostat, document, pending, s)
        BY <3>1, <4>1 DEF InStep, PairSent
      <4>4. QED
        BY <3>3, <4>2, <4>3 DEF ShowsOk
    <3>4. QED
      BY <3>2, <3>3
  <2>5. QED
    BY <1>2, <1>3, <2>1, <2>2, <2>3, <2>4
<1>6. CASE ~decided
  <2>1. OverlayOk(pending', command')
    BY <1>2, <1>4, <1>6 DEF OverlayOk
  <2>2. InStep(thermostat, doc, over, command, late, touched')
    <3> SUFFICES ASSUME ~touched', late = NoSettings, NEW s \in Sides
                 PROVE  IF PairSent(command)
                        THEN /\ s \notin command.sides =>
                                  FahrenheitGrid(command.payload[s])
                                     = FahrenheitGrid(thermostat.pair[s])
                             /\ s \notin DOMAIN over =>
                                  /\ FahrenheitGrid(command.payload[s])
                                        = FahrenheitGrid(thermostat.pair[s])
                                  /\ FahrenheitGrid(doc[s])
                                        = FahrenheitGrid(thermostat.pair[s])
                        ELSE ShowsOk(thermostat, doc, over, s)
      BY DEF InStep
    <3>1. CASE PairSent(command)
      <4>1. command # NoCommand /\ command.fate = "sent" /\ command.kind = "setpoints"
        BY <3>1 DEF PairSent, NoCommand
      <4>2. ~touched
        BY <1>2, <1>6, <4>1
      <4>3. s \notin command.sides =>
              FahrenheitGrid(command.payload[s]) = FahrenheitGrid(thermostat.pair[s])
        BY <3>1, <4>2 DEF InStep
      <4>4. ASSUME s \notin DOMAIN over
            PROVE  FahrenheitGrid(command.payload[s]) = FahrenheitGrid(thermostat.pair[s])
        <5>1. CASE s \notin DOMAIN pending
          BY <3>1, <4>2, <5>1 DEF InStep
        <5>2. CASE s \in DOMAIN pending
          <6>1. pending[s] = doc[s]
            BY <1>4, <4>4, <5>2
          <6>2. pending[s] = command.payload[s]
            BY <4>1, <5>2, CommandIs DEF OverlayOk
          <6>3. QED
            BY <1>3, <6>1, <6>2
        <5>3. QED
          BY <5>1, <5>2
      <4>5. QED
        BY <1>3, <3>1, <4>3, <4>4
    <3>2. CASE ~PairSent(command)
      <4>1. CASE s \notin DOMAIN over
        BY <1>3, <3>2, <4>1 DEF ShowsOk
      <4>2. CASE s \in DOMAIN over
        <5>1. s \in DOMAIN pending /\ over[s] = pending[s]
          BY <1>4, <4>2
        <5>2. ~touched
          BY <1>2, <1>6, <4>2
        <5>3. ShowsOk(thermostat, document, pending, s)
          BY <3>2, <5>2 DEF InStep
        <5>4. QED
          BY <3>2, <4>2, <5>1, <5>3 DEF ShowsOk
      <4>3. QED
        BY <4>1, <4>2
    <3>3. QED
      BY <3>1, <3>2
  <2>3. QED
    BY <1>2, <1>3, <1>4, <1>6, <2>1, <2>2
<1>7. touched' \in BOOLEAN
  BY <1>2
<1>8. QED
  BY <1>5, <1>6, <1>7

\* The display unit is no part of the settings.
LEMMA SetupReportInv == IInv /\ SetupReport => IInv'
BY DEF SetupReport, IInv

\* The overlay stays, and what was not taken is late.
LEMMA ReturnUnobservedInv == IInv /\ ReturnUnobserved => IInv'
<1> SUFFICES ASSUME IInv, ReturnUnobserved PROVE IInv'
  OBVIOUS
<1> USE DEF IInv
<1>1. /\ UNCHANGED <<thermostat, style, setup, document, pending, touched>>
      /\ command # NoCommand
      /\ command' = NoCommand
      /\ late' = Untaken
  BY DEF ReturnUnobserved, UnderWay
<1>2. SettingsOk(style, late')
  BY <1>1, UntakenIs
<1>3. /\ CommandOk(style, command')
      /\ OverlayOk(pending, command')
      /\ EffectOk(thermostat, command')
  BY <1>1 DEF CommandOk, OverlayOk, EffectOk
<1>4. InStep(thermostat, document, pending, command', late', touched)
  <2> SUFFICES ASSUME ~touched, late' = NoSettings, NEW s \in Sides
               PROVE  ShowsOk(thermostat, document, pending, s)
    BY <1>1 DEF InStep, PairSent, NoCommand
  <2>1. command.fate # "sent" /\ late = NoSettings
    BY <1>1, UntakenIs
  <2>2. QED
    BY <2>1 DEF InStep, PairSent
<1>5. QED
  BY <1>1, <1>2, <1>3, <1>4

\* The overlay goes with the write.
LEMMA FailInv == IInv /\ Fail => IInv'
<1> SUFFICES ASSUME IInv, Fail PROVE IInv'
  OBVIOUS
<1> USE DEF IInv
<1>1. /\ UNCHANGED <<thermostat, style, setup, document>>
      /\ command # NoCommand
      /\ command' = NoCommand
      /\ pending' = Unmatched(pending, command.payload)
      /\ late' = Untaken
      /\ touched' = TRUE
  BY DEF Fail, UnderWay
<1>2. SettingsOk(style, late') /\ SettingsOk(style, pending')
  BY <1>1, UntakenIs, UnmatchedIs
<1>3. /\ CommandOk(style, command')
      /\ OverlayOk(pending', command')
      /\ EffectOk(thermostat, command')
  BY <1>1 DEF CommandOk, OverlayOk, EffectOk
<1>4. InStep(thermostat, document, pending', command', late', touched')
  BY <1>1 DEF InStep
<1>5. QED
  BY <1>1, <1>2, <1>3, <1>4

\* The overlay goes without a write.
LEMMA ExpireInv == IInv /\ Expire => IInv'
<1> SUFFICES ASSUME IInv, Expire PROVE IInv'
  OBVIOUS
<1> USE DEF IInv
<1>1. UNCHANGED <<thermostat, style, setup, document, command, late>> /\ touched' = TRUE
  BY DEF Expire
<1>2. PICK leaves : pending' = [l \in DOMAIN pending \ leaves |-> pending[l]]
  BY DEF Expire
<1>3. SettingsOk(style, pending') /\ OverlayOk(pending', command)
  BY <1>2 DEF SettingsOk, OverlayOk
<1>4. InStep(thermostat, document, pending', command, late, touched')
  BY <1>1 DEF InStep
<1>5. QED
  BY <1>1, <1>3, <1>4

\* What the profile reads is what the entity shows.
LEMMA EffectiveIs ==
    ASSUME IInv
    PROVE  /\ SettingsOk(style, Effective)
           /\ DOMAIN Effective = Leaves
           /\ \A l \in Leaves :
                 Effective[l] = IF l \in DOMAIN pending THEN pending[l] ELSE document[l]
<1>1. /\ SettingsOk(style, Merged(document, pending))
      /\ DOMAIN Merged(document, pending) = DOMAIN document \cup DOMAIN pending
      /\ \A l \in DOMAIN document \cup DOMAIN pending :
            Merged(document, pending)[l] =
               IF l \in DOMAIN pending THEN pending[l] ELSE document[l]
  BY MergedIs DEF IInv
<1>2. DOMAIN document \cup DOMAIN pending = Leaves
  BY DEF IInv, SettingsOk
<1>3. QED
  BY <1>1, <1>2 DEF Effective

\* An acceptable call gives a legal pair: the sides it moves on whole degrees,
\* the other on the degree that the settings show.
LEMMA SetTemperatureInv ==
    ASSUME IInv, NEW call \in Calls, SetTemperature(call)
    PROVE  IInv'
<1> USE DEF IInv
<1> DEFINE c    == [sides |-> SidesMoved(call), to |-> call.to]
           pair == EncodedPair(Effective, c)
           base == [k \in Kinds |-> document[k]]
<1>1. /\ UNCHANGED <<thermostat, style, setup, document, late, touched>>
      /\ command = NoCommand
      /\ Acceptable(Effective, c)
      /\ command' = [kind |-> "setpoints", sides |-> c.sides, payload |-> pair,
                     baseline |-> base, fate |-> "sent"]
      /\ pending' = Merged(pending, pair)
  BY DEF SetTemperature, MayCall, UnderWay
<1>2. call.to \in [Sides -> Int] /\ call.ends \in SUBSET Sides
  <2>1. CASE call \in [ends : SUBSET Sides \ {{}}, to : [Sides -> Temperatures],
                       hvac : {"unset"}]
    BY <2>1, TemperatureAssumption
  <2>2. CASE call \in {[ends |-> {}, to |-> [s \in Sides |-> t], hvac |-> h] :
                         t \in Temperatures,
                         h \in {"unset", "heat", "cool", "heat_cool", "off"}}
    BY <2>2, TemperatureAssumption
  <2>3. QED
    BY <2>1, <2>2 DEF Calls
<1>3. c.sides \in SUBSET Sides /\ c.to \in [Sides -> Int]
  <2>1. SidesMoved(call) \in SUBSET Sides
    BY <1>2 DEF SidesMoved, Sides
  <2>2. QED
    BY <1>2, <2>1
<1>4. /\ \A s \in Sides : pair[s] = IF s \in c.sides
                                    THEN WireCelsius(FahrenheitGrid(c.to[s]))
                                    ELSE ToHundredths(Effective[s])
      /\ DOMAIN pair = Sides
  BY DEF EncodedPair
<1>5. /\ \A s \in Sides : InRange(pair[s], s)
      /\ FahrenheitGrid(pair["cool"]) - FahrenheitGrid(pair["heat"]) >= DeadBand
  BY <1>1 DEF Acceptable
<1> HIDE DEF c, pair, base
<1>6. ASSUME NEW s \in Sides
      PROVE  /\ Known(pair[s])
             /\ s \in c.sides => NearGrid(pair[s])
             /\ s \notin c.sides => FahrenheitGrid(pair[s]) = FahrenheitGrid(Effective[s])
  <2>1. CASE s \in c.sides
    <3>1. FahrenheitGrid(c.to[s]) \in Int
      BY <1>3, GridIsFloor
    <3>2. NearGrid(pair[s])
      BY <1>4, <2>1, <3>1, WireIsNear
    <3>3. QED
      BY <2>1, <3>2, NearIsKnown
  <2>2. CASE s \notin c.sides
    <3>1. Known(Effective[s])
      BY EffectiveIs DEF SettingsOk, LeafOk, Leaves
    <3>2. pair[s] = ToHundredths(Effective[s])
      BY <1>4, <2>2
    <3>3. QED
      BY <2>2, <3>1, <3>2, KnownRounds
  <2>3. QED
    BY <2>1, <2>2
<1>7. \A s \in Sides : FahrenheitGrid(pair[s]) \in Lowest[s] .. Highest[s]
  BY <1>5, <1>6, KnownIs, RangeReads
<1>8. CommandOk(style, command')
  <2>1. "sent" \in Fates
    BY DEF Fates
  <2> DEFINE moved == c.sides
             d == [kind |-> "setpoints", sides |-> moved, payload |-> pair,
                   baseline |-> base, fate |-> "sent"]
  <2>2. moved \in SUBSET Sides /\ \A s \in moved : NearGrid(pair[s])
    BY <1>3, <1>6
  <2>3. command' = d
    BY <1>1
  <2> HIDE DEF moved
  <2>4. PairCommand(d)
    <3>1. /\ DOMAIN pair = Sides
          /\ \A s \in Sides : Known(pair[s])
          /\ FahrenheitGrid(pair["cool"]) - FahrenheitGrid(pair["heat"]) >= DeadBand
      BY <1>4, <1>5, <1>6
    <3>2. QED
      BY <1>7, <2>1, <2>2, <3>1, PairCommandIs
  <2>5. QED
    BY <2>3, <2>4 DEF CommandOk
<1>9. SettingsOk(style, pair)
  BY <1>4, <1>6 DEF SettingsOk, LeafOk, Leaves
<1>10. /\ SettingsOk(style, pending')
       /\ DOMAIN pending' = DOMAIN pending \cup Sides
       /\ \A s \in Sides : pending'[s] = pair[s]
  <2> DEFINE both == Merged(pending, pair)
  <2>1. /\ SettingsOk(style, both)
        /\ DOMAIN both = DOMAIN pending \cup DOMAIN pair
        /\ \A l \in DOMAIN pending \cup DOMAIN pair :
              both[l] = IF l \in DOMAIN pair THEN pair[l] ELSE pending[l]
    BY <1>9, MergedIs
  <2>2. pending' = both
    BY <1>1
  <2> HIDE DEF both
  <2>3. QED
    BY <1>4, <2>1, <2>2
<1>11. command'.payload = pair /\ command'.fate = "sent" /\ command'.sides = c.sides
  BY <1>1
<1>12. OverlayOk(pending', command') /\ EffectOk(thermostat, command')
  BY <1>4, <1>10, <1>11 DEF OverlayOk, EffectOk
<1>13. InStep(thermostat, document, pending', command', late, touched)
  <2> SUFFICES ASSUME ~touched, late = NoSettings, NEW s \in Sides, s \notin c.sides
               PROVE  FahrenheitGrid(pair[s]) = FahrenheitGrid(thermostat.pair[s])
    BY <1>1, <1>10, <1>11 DEF InStep, PairSent
  <2>1. ShowsOk(thermostat, document, pending, s)
    BY <1>1 DEF InStep, PairSent, NoCommand
  <2>2. FahrenheitGrid(Effective[s]) = FahrenheitGrid(thermostat.pair[s])
    BY <2>1, EffectiveIs DEF ShowsOk, Leaves
  <2>3. QED
    BY <1>6, <2>2
<1>14. QED
  BY <1>1, <1>8, <1>10, <1>12, <1>13

\* The payload of an enum command is what the cloud will hold of its value.
LEMMA SetEnumInv ==
    ASSUME IInv, NEW k \in Kinds, NEW v \in Allowed(k), SetEnum(k, v)
    PROVE  IInv'
<1> USE DEF IInv
<1> DEFINE payload == [l \in {k} |-> EncodedEnum(k, Effective[k], v)]
<1>1. /\ UNCHANGED <<thermostat, style, setup, document, late, touched>>
      /\ command = NoCommand
      /\ command' = [kind |-> k, value |-> v, payload |-> payload, fate |-> "sent"]
      /\ pending' = Merged(pending, payload)
  BY DEF SetEnum, MayCall, UnderWay
<1>2. v \in Values(k) /\ k \notin Sides /\ k # "setpoints"
  BY KindsAreNotSides DEF Allowed
<1>3. EncodedEnum(k, Effective[k], v) = HeldIn(style, k, v)
  <2>1. LeafOk(style, k, Effective[k])
    BY EffectiveIs DEF SettingsOk, Leaves
  <2>2. PICK w \in Values(k) : Effective[k] = HeldIn(style, k, w)
    BY <1>2, <2>1 DEF LeafOk
  <2>3. QED
    BY <1>2, <2>2, PayloadIsHeld
<1>4. payload = [l \in {k} |-> HeldIn(style, k, v)]
  BY <1>3
<1> HIDE DEF payload
<1>5. CommandOk(style, command')
  <2>1. "sent" \in Fates
    BY DEF Fates
  <2>2. EnumCommand(style, command')
    BY <1>1, <1>4, <2>1 DEF EnumCommand
  <2>3. QED
    BY <2>2 DEF CommandOk
<1>6. DOMAIN payload = {k} /\ payload[k] = HeldIn(style, k, v)
  BY <1>4
<1>7. SettingsOk(style, payload)
  BY <1>2, <1>6 DEF SettingsOk, LeafOk, Leaves
<1>8. /\ SettingsOk(style, pending')
      /\ DOMAIN pending' = DOMAIN pending \cup {k}
      /\ \A l \in DOMAIN pending \cup {k} :
            pending'[l] = IF l \in {k} THEN payload[l] ELSE pending[l]
  <2> DEFINE both == Merged(pending, payload)
  <2>1. /\ SettingsOk(style, both)
        /\ DOMAIN both = DOMAIN pending \cup DOMAIN payload
        /\ \A l \in DOMAIN pending \cup DOMAIN payload :
              both[l] = IF l \in DOMAIN payload THEN payload[l] ELSE pending[l]
    BY <1>7, MergedIs
  <2>2. pending' = both
    BY <1>1
  <2> HIDE DEF both
  <2>3. QED
    BY <1>6, <2>1, <2>2
<1>9. command'.payload = payload /\ command'.fate = "sent" /\ command'.kind = k
  BY <1>1
<1>10. OverlayOk(pending', command') /\ EffectOk(thermostat, command')
  BY <1>6, <1>8, <1>9 DEF OverlayOk, EffectOk
<1>11. InStep(thermostat, document, pending', command', late, touched)
  <2> SUFFICES ASSUME ~touched, late = NoSettings, NEW s \in Sides
               PROVE  ShowsOk(thermostat, document, pending', s)
    BY <1>2, <1>9 DEF InStep, PairSent
  <2>1. ShowsOk(thermostat, document, pending, s)
    BY <1>1 DEF InStep, PairSent, NoCommand
  <2>2. /\ s \in DOMAIN pending' <=> s \in DOMAIN pending
        /\ s \in DOMAIN pending => pending'[s] = pending[s]
    BY <1>2, <1>8
  <2>3. QED
    BY <2>1, <2>2 DEF ShowsOk
<1>12. QED
  BY <1>1, <1>5, <1>8, <1>10, <1>11

\* The invariant is inductive.
LEMMA NextInv == IInv /\ [Next]_vars => IInv'
<1> SUFFICES ASSUME IInv, [Next]_vars PROVE IInv'
  OBVIOUS
<1>1. CASE UNCHANGED vars
  BY <1>1 DEF vars, IInv
<1>2. CASE \E call \in Calls : SetTemperature(call)
  BY <1>2, SetTemperatureInv
<1>3. CASE \E k \in Kinds : \E v \in Allowed(k) : SetEnum(k, v)
  BY <1>3, SetEnumInv
<1>4. QED
  BY <1>1, <1>2, <1>3, WallChangeInv, UnitChangeInv, TakeInv, LateTakeInv, ReportInv,
     SetupReportInv, ReturnUnobservedInv, FailInv, ExpireInv DEF Next

-----------------------------------------------------------------------------
\* The results

\* The pair a thermostat holds once it took a command is legal as it shows it.
THEOREM PairAlwaysSafe == Spec => []PairIsSafe
<1>1. IInv => PairIsSafe
  <2> SUFFICES ASSUME IInv, command.kind = "setpoints", command.fate = "taken"
               PROVE  /\ \A s \in Sides :
                            FahrenheitGrid(thermostat.pair[s]) \in Lowest[s] .. Highest[s]
                      /\ FahrenheitGrid(thermostat.pair["cool"])
                            - FahrenheitGrid(thermostat.pair["heat"]) >= DeadBand
    BY DEF PairIsSafe, Sides
  <2> USE DEF IInv
  <2>1. command # NoCommand
    BY DEF NoCommand
  <2>2. PairCommand(command)
    BY <2>1, CommandIs
  <2>3. /\ \A s \in Sides :
              FahrenheitGrid(command.payload[s]) \in Lowest[s] .. Highest[s]
        /\ FahrenheitGrid(command.payload["cool"])
              - FahrenheitGrid(command.payload["heat"]) >= DeadBand
    BY <2>2 DEF PairCommand
  <2>4. \A s \in Sides :
           FahrenheitGrid(thermostat.pair[s]) = FahrenheitGrid(command.payload[s])
    BY <2>1, ReadingReads DEF EffectOk, ThermostatOk
  <2>5. QED
    BY <2>3, <2>4 DEF Sides
<1>2. QED
  BY <1>1, InitInv, NextInv, PTL DEF Spec

\* The settings reported after a command was taken and kept confirm it.
THEOREM EchoAlwaysConfirms == Spec => []EchoConfirms
<1>1. IInv => EchoConfirms
  <2> SUFFICES ASSUME IInv, command # NoCommand, command.fate = "taken",
                      NEW precision \in Precisions
               PROVE  Confirmed(Reported(precision))
    BY DEF EchoConfirms, UnderWay, Judged
  <2> USE DEF IInv
  <2> DEFINE doc == Reported(precision)
  <2>1. /\ \A s \in Sides : doc[s] \in Readings(thermostat.pair[s])
        /\ \A k \in Kinds : doc[k] = HeldIn(style, k, thermostat.enum[k])
    BY ReportedIs
  <2> HIDE DEF doc
  <2>2. CASE command.kind = "setpoints"
    <3>1. ASSUME NEW s \in Sides PROVE Close(doc[s], command.payload[s])
      <4>1. command.payload[s] \in Readings(thermostat.pair[s])
        BY <2>2 DEF EffectOk
      <4>2. thermostat.pair[s] \in Int
        BY DEF ThermostatOk
      <4>3. QED
        BY <2>1, <4>1, <4>2, ReadingIsNear
    <3>2. QED
      BY <2>2, <3>1 DEF Confirmed, doc
  <2>3. CASE command.kind # "setpoints"
    <3>1. command.kind \in Kinds
      BY <2>3, CommandIs
    <3>2. thermostat.enum[command.kind] = command.value
      BY <2>3 DEF EffectOk
    <3>3. command.value \in Values(command.kind)
      BY <3>1, <3>2 DEF ThermostatOk
    <3>4. Normalized(command.kind, doc[command.kind]) = command.value
      BY <2>1, <3>1, <3>2, <3>3, HeldReads
    <3>5. QED
      BY <2>3, <3>4 DEF Confirmed, doc
  <2>4. QED
    BY <2>2, <2>3
<1>2. QED
  BY <1>1, InitInv, NextInv, PTL DEF Spec

\* A call that moves one setpoint leaves the other where it was.
THEOREM CompanionAlwaysStays == Spec => CompanionStays
<1>1. ASSUME IInv, Take, command.kind = "setpoints", ~touched, late = NoSettings,
             NEW s \in Sides \ command.sides
      PROVE  FahrenheitGrid(thermostat'.pair[s]) = FahrenheitGrid(thermostat.pair[s])
  <2> USE <1>1 DEF IInv
  <2>1. command # NoCommand /\ command.fate = "sent" /\ thermostat' = After(command.payload)
    BY DEF Take, UnderWay
  <2>2. SettingsOk(style, command.payload) /\ DOMAIN command.payload = Sides
    BY <2>1, CommandIs
  <2>3. FahrenheitGrid(thermostat'.pair[s]) = FahrenheitGrid(command.payload[s])
    BY <2>1, <2>2, AfterIs
  <2>4. FahrenheitGrid(command.payload[s]) = FahrenheitGrid(thermostat.pair[s])
    BY <2>1 DEF InStep, PairSent
  <2>5. QED
    BY <2>3, <2>4
<1>2. IInv /\ [Next]_vars =>
         [Take /\ command.kind = "setpoints" /\ ~touched /\ late = NoSettings =>
            \A s \in Sides \ command.sides :
               FahrenheitGrid(thermostat'.pair[s]) = FahrenheitGrid(thermostat.pair[s])]_vars
  BY <1>1
<1>3. QED
  BY <1>2, InitInv, NextInv, PTL DEF Spec, CompanionStays
=============================================================================
