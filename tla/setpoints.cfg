\* Thermostat commands: what is sent and how its echo is judged.
CONSTANTS
    Kinds = {"mode", "fan"}
    WallPairs <- MCWallPairs
    Temperatures <- MCTemperatures
    MaxCalls = 2
SPECIFICATION Spec
INVARIANTS
  PairIsSafe
  EchoConfirms
PROPERTIES
  CompanionStays
