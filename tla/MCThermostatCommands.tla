------------------------ MODULE MCThermostatCommands ------------------------
(***************************************************************************)
(* The instance of ThermostatCommands for TLC.                             *)
(***************************************************************************)
EXTENDS ThermostatCommands

\* a pair at the dead band; set under a Celsius display it is 21 and 23 C,
\* neither of which is a whole degree Fahrenheit
MCWallPairs == {<<70, 73>>}

\* the end of a grid cell, and the ends of the ranges with their tolerance
MCTemperatures ==
    {FahrenheitToCelsius(73) - 2500, FahrenheitToCelsius(93) + 100,
     FahrenheitToCelsius(40) - 100, FahrenheitToCelsius(40) - 101}
=============================================================================
