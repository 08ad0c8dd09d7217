---------------------------- MODULE MCThermostat ----------------------------
(***************************************************************************)
(* Thermostat with the firmware's default thresholds, and with others: a   *)
(* range that does not divide 255, one of a single degree, one that begins *)
(* at 0, thresholds in the wrong order.  Half degrees from -1 to 101.      *)
(***************************************************************************)
EXTENDS Thermostat

Enabled(low, high, least) == [enabled |-> TRUE, lowTemp |-> low, highTemp |-> high, minDuty |-> least]

MCConfigs ==
  {Enabled(55, 80, 10), Enabled(30, 37, 0), Enabled(40, 41, 200), Enabled(0, 100, 255), Enabled(60, 20, 10)}

MCTemps == -2 .. 202
=============================================================================
