------------------------------ MODULE MCTacho ------------------------------
(***************************************************************************)
(* Tacho with three fans: a first, a middle and a last one, so that every  *)
(* case of the switch to the next happens, and windows of up to 2 pulses.  *)
(***************************************************************************)
EXTENDS Tacho
=============================================================================
