------------------------------ MODULE FanCurve ------------------------------
(***************************************************************************)
(* target_calc_duty (src/target.c): from a reported temperature, the       *)
(* channel's configuration and the duty the channel has now, the duty the  *)
(* fan gets.                                                               *)
(*                                                                         *)
(* A temperature is a C float; here it is an integer number of             *)
(* 1/TempScale degrees, so that a fraction the conversion to uint32_t      *)
(* drops is a fraction in the model too.  The configured temperatures are  *)
(* whole degrees (uint32_t).  They stay below 2^24, where the product by   *)
(* 255 fits an uint32_t and a float holds them exactly.                    *)
(***************************************************************************)
EXTENDS Integers

CONSTANT TempScale    \* units of a reported temperature per degree

ASSUME TempScaleAssumption == TempScale \in Nat \ {0}

FullDuty   == 255
Duty       == 0 .. FullDuty      \* uint8_t
MaxDegrees == 2^24
Degrees    == 0 .. MaxDegrees    \* what lowTemp and highTemp may hold

ChannelConfig == [enabled: BOOLEAN, lowTemp: Degrees, highTemp: Degrees, minDuty: Duty]

Low(cfg)  == cfg.lowTemp * TempScale
High(cfg) == cfg.highTemp * TempScale

InBand(cfg, temp) == Low(cfg) <= temp /\ temp <= High(cfg)

(***************************************************************************)
(* The linear ramp between lowTemp and highTemp.  tempRange is the         *)
(* divisor: lowTemp = highTemp makes it 0.                                 *)
(***************************************************************************)
TempRange(cfg)        == cfg.highTemp - cfg.lowTemp
TempOffset(cfg, temp) == (temp - Low(cfg)) \div TempScale

BugRampUnscaled(cfg, temp) == ((temp - Low(cfg)) * 255) \div TempRange(cfg)

Ramp(cfg, temp) == (TempOffset(cfg, temp) * 255) \div TempRange(cfg)

\* The cast of the quotient to uint8_t.
UInt8(n) == n % 256

BugAtLeast(least, duty) == least + duty

AtLeast(least, duty) == IF duty < least THEN least ELSE duty

BugCalcDuty(cfg, temp, duty) ==
  IF temp < Low(cfg) THEN 0
  ELSE IF temp > High(cfg) THEN FullDuty
  ELSE AtLeast(duty, UInt8(Ramp(cfg, temp)))

(***************************************************************************)
(* The duty target_calc_duty leaves in targets[channel].duty.  The order   *)
(* of the tests is the code's: a temperature of 0 forces full duty only    *)
(* when the duty is not full already, and otherwise falls through.         *)
(***************************************************************************)
CalcDuty(cfg, temp, duty) ==
  IF ~cfg.enabled THEN duty
  ELSE IF temp = 0 /\ duty # FullDuty THEN FullDuty
  ELSE IF temp < Low(cfg) THEN 0
  ELSE IF temp > High(cfg) THEN FullDuty
  ELSE AtLeast(cfg.minDuty, UInt8(Ramp(cfg, temp)))
=============================================================================
