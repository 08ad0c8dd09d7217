----------------------------- MODULE FanWindows -----------------------------
(***************************************************************************)
(* What the tachometer promises, without its timer, queue and task: the    *)
(* fans take turns, each has one window in its turn, and what is counted   *)
(* in a window is reported once, under the fan it was counted from and     *)
(* before the next window opens.  Tacho implements it.                     *)
(***************************************************************************)
EXTENDS Integers

CONSTANT NumFans

Fans == 0 .. NumFans - 1

VARIABLES
  fan,             \* whose turn it is
  window,          \* its window: "ready", "open" or "closed"
  count,           \* the fan's pulses in the window
  speed            \* the count last reported for each fan

vars == <<fan, window, count, speed>>

\* The first window is closed before a pulse can be counted.
Init ==
  /\ fan = 0 /\ window = "closed" /\ count = 0
  /\ speed = [f \in Fans |-> 0]

Open ==
  /\ window = "ready" /\ window' = "open"
  /\ UNCHANGED <<fan, count, speed>>

Pulse ==
  /\ window = "open" /\ count' = count + 1
  /\ UNCHANGED <<fan, window, speed>>

Close ==
  /\ window = "open" /\ window' = "closed"
  /\ UNCHANGED <<fan, count, speed>>

\* The window's count is reported, unless there is none, and the turn passes
\* to the next fan.
Report ==
  /\ window = "closed" /\ window' = "ready"
  /\ speed' = IF count > 0 THEN [speed EXCEPT ![fan] = count] ELSE speed
  /\ count' = 0
  /\ fan' \in Fans
  /\ fan' = fan + 1 \/ (fan = NumFans - 1 /\ fan' = 0)

Next == Init' \/ Open \/ Pulse \/ Close \/ Report

Spec == Init /\ [][Next]_vars
=============================================================================
