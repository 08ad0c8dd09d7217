------------------------------ MODULE MCTarget ------------------------------
(***************************************************************************)
(* Small instances of Target: two channels, the second disabled, and the   *)
(* tasks of the firmware as clients.  The thresholds are the firmware's    *)
(* defaults.                                                               *)
(***************************************************************************)
EXTENDS Target, TLC

Default == [enabled |-> TRUE, lowTemp |-> 55, highTemp |-> 80, minDuty |-> 10]

MCChannelConfig == [ch \in 0 .. 1 |-> IF ch = 0 THEN Default ELSE [Default EXCEPT !.enabled = FALSE]]

Messages(kind, chs, vals) == [kind: {kind}, chan: chs, val: vals]

\* The TCP server sends temperatures and reads what it is asked for, the
\* channel that does not exist included; the REST server sends a duty, also
\* for a channel out of range; the tachometer sends the disabled fan's speed.
CoreClients == {"tcp", "rest", "tacho"}
CoreSends ==
  "tcp" :> Messages("temp", {0}, {60})
    @@ "rest" :> Messages("duty", {0, 6}, {7})
    @@ "tacho" :> Messages("rpm", {1}, {300})
CoreReads == "tcp" :> {0, 2, 7} @@ "rest" :> {} @@ "tacho" :> {}

\* The TCP server alone: reports of a cool channel, and GetStatus requests.
TcpClient   == {"tcp"}
CoolReports == "tcp" :> Messages("temp", {0}, {40})
NoSends     == "tcp" :> {}
NoReads     == "tcp" :> {}
StatusReads == "tcp" :> {0, 2}
=============================================================================
