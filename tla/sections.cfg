CONSTANTS
  settings = settings
  zone = zone
  mode = mode
  setpoint = setpoint
  p1 = p1
  Leaf = {mode, setpoint}
  Value = {1, 2, 3}
  Absent = Absent
  Near <- MCNear
  Section = {settings, zone}
  Critical = {settings}
  Optional = {zone}
  Telling = {settings}
  Family <- MCFamily
  Writable = {settings}
  View = {{mode}, {mode, setpoint}}
  Place = {1}
  Nowhere = 0
  Hydration = {p1}
  MaxHistory = 3
  MaxHappened = 2
  MaxEvents = 2
  MaxCached = 1
SPECIFICATION Spec
INVARIANTS
  OutagesHonoured
  SkipIsJustified
PROPERTIES
  ReadingsNeverOlder
