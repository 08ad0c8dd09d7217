------------------------------ MODULE MCDevice ------------------------------
(* One channel with two fields and two device keys, one of them the time   *)
(* zone; the controller is new, has a setting of its own, or is damaged.   *)
EXTENDS Device

MCFields     == <<"enabled", "minDuty">>
MCDeviceKeys == <<"timezone", "password">>

Holding(minDuty, password) ==
  [k \in Keys |-> CASE k[2] = "minDuty"  -> minDuty
                    [] k[2] = "password" -> password
                    [] OTHER             -> "absent"]

MCStored == {Holding("custom", "unreadable"), Holding("unreadable", "absent")}
=============================================================================
