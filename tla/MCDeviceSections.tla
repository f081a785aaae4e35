-------------------------- MODULE MCDeviceSections --------------------------
(***************************************************************************)
(* The instance of DeviceSections for TLC: a thermostat's settings, which  *)
(* every hydration asks for, and the status of a zone, whose endpoint the  *)
(* settings tell of.  Two keys each, two changes or events and one         *)
(* hydration with a document read back beside it.                          *)
(***************************************************************************)
EXTENDS DeviceSections

CONSTANTS settings, zone, mode, setpoint, p1

MCNear == {<<v, v>> : v \in Value}

\* A thermostat shows its zones in the settings, or else in the status of each.
MCFamily == {{settings}, {zone}}
=============================================================================
