------------------------------ MODULE MCAgent ------------------------------
(***************************************************************************)
(* Agent with channels and a connection that are soon full.                *)
(***************************************************************************)
EXTENDS Agent
=============================================================================
