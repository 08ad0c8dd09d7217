----------------------------- MODULE Thermostat -----------------------------
(***************************************************************************)
(* One channel that receives temperature after temperature: what the fan   *)
(* curve of src/target.c makes of a whole history of reports, for any      *)
(* configuration.                                                          *)
(***************************************************************************)
EXTENDS FanCurve

CONSTANTS
  Configs,         \* the configurations the channel may have
  Temps            \* the temperatures reported, in 1/TempScale degrees

\* Equal thresholds would make the code divide by 0; it stores 55 and 80.
ASSUME ThermostatAssumption ==
  /\ Configs \subseteq ChannelConfig
  /\ \A c \in Configs : c.lowTemp # c.highTemp
  /\ Temps \subseteq Int

VARIABLES
  cfg,             \* channelConfig[channel]
  reported,        \* a temperature has been reported
  temp,            \* targets[channel].temp
  duty             \* targets[channel].duty

vars == <<cfg, reported, temp, duty>>

Init == cfg \in Configs /\ reported = FALSE /\ temp = 0 /\ duty = FullDuty

\* TARGET_SET_TEMP.
SetTemp(t) ==
  /\ cfg.enabled
  /\ reported' = TRUE
  /\ temp' = t
  /\ duty' = CalcDuty(cfg, t, duty)
  /\ UNCHANGED cfg

Next == \E t \in Temps : SetTemp(t)

Spec == Init /\ [][Next]_vars

-----------------------------------------------------------------------------
(***************************************************************************)
(* The curve, without the code's arithmetic: off below the low             *)
(* temperature, full above the high one, and between them the greatest     *)
(* duty whose share of 255 is not above the whole degrees' share of the    *)
(* range, but the minimum duty at least.                                   *)
(***************************************************************************)
IsShare(c, t, d) ==
  \E n \in 0 .. TempRange(c) :
    /\ n * TempScale <= t - Low(c) /\ t - Low(c) < (n + 1) * TempScale
    /\ d * TempRange(c) <= 255 * n /\ 255 * n < (d + 1) * TempRange(c)

OnCurve(c, t, d) ==
  \/ t < Low(c) /\ d = 0
  \/ t > High(c) /\ d = FullDuty
  \/ /\ InBand(c, t)
     /\ \E share \in Duty : IsShare(c, t, share) /\ d = AtLeast(c.minDuty, share)

\* The ranges of the variables; the duty stays an uint8_t.
TypeOK ==
  /\ cfg \in Configs /\ reported \in BOOLEAN
  /\ temp \in Temps \cup {0} /\ duty \in Duty

\* After any history of reports the duty is the one the curve gives the last
\* temperature, whatever the duty was before: target_calc_duty has no
\* hysteresis and its integer arithmetic does not wrap.  (A temperature of
\* exactly 0 is what the code makes an exception of.)
FollowsCurve == reported /\ temp # 0 => OnCurve(cfg, temp, duty)

\* A temperature no lower than the one before never slows the fan.
HotterNeverSlower ==
  [][reported /\ temp # 0 /\ temp' # 0 /\ temp <= temp' => duty <= duty']_vars

\* "Channel %d temp is 0. Setting Full Duty": after a report of 0, full duty.
ZeroMeansFull == reported /\ temp = 0 => duty = FullDuty
=============================================================================
