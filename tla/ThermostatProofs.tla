-------------------------- MODULE ThermostatProofs --------------------------
(***************************************************************************)
(* Theorems about the fan curve, for every configuration and every history *)
(* of temperatures.                                                        *)
(***************************************************************************)
EXTENDS Thermostat, FanCurveProofs

\* The code's arithmetic finds the share of 255 that IsShare describes.
LEMMA RampIsShare ==
  ASSUME NEW c \in ChannelConfig, NEW t \in Int, InBand(c, t), c.lowTemp # c.highTemp
  PROVE  IsShare(c, t, Ramp(c, t))
<1> DEFINE n == TempOffset(c, t)
<1>1. TempRange(c) \in Nat \ {0} /\ n \in 0 .. TempRange(c)
  BY OffsetInRange
<1>2. TempScale \in Nat \ {0} /\ t - Low(c) \in Int
  BY TempScaleAssumption DEF Low, ChannelConfig, Degrees
<1>3. n * TempScale <= t - Low(c) /\ t - Low(c) < (n + 1) * TempScale
  BY <1>2, QuotientTimes DEF TempOffset
<1>4. Ramp(c, t) * TempRange(c) <= 255 * n /\ 255 * n < (Ramp(c, t) + 1) * TempRange(c)
  BY <1>1, QuotientTimes DEF Ramp
<1>5. QED BY <1>1, <1>3, <1>4 DEF IsShare

\* What target_calc_duty computes for a temperature other than 0 is on the curve.
LEMMA CalcDutyOnCurve ==
  ASSUME NEW c \in ChannelConfig, NEW t \in Int, NEW d \in Duty,
         c.lowTemp # c.highTemp, c.enabled, t # 0
  PROVE  OnCurve(c, t, CalcDuty(c, t, d))
<1>1. Low(c) \in Int /\ High(c) \in Int
  BY TempScaleAssumption DEF Low, High, ChannelConfig, Degrees
<1>2. CASE t < Low(c)
  BY <1>2 DEF CalcDuty, OnCurve
<1>3. CASE ~(t < Low(c)) /\ t > High(c)
  BY <1>3 DEF CalcDuty, OnCurve
<1>4. CASE ~(t < Low(c)) /\ ~(t > High(c))
  <2>1. InBand(c, t) BY <1>1, <1>4 DEF InBand
  <2>2. CalcDuty(c, t, d) = AtLeast(c.minDuty, Ramp(c, t))
    BY <1>4, <2>1, RampInRange DEF CalcDuty
  <2>3. QED BY <2>1, <2>2, RampInRange, RampIsShare DEF OnCurve
<1>5. QED BY <1>2, <1>3, <1>4

\* A configuration of the channel and the temperatures it hears, as the lemmas
\* above want them.
LEMMA Facts ==
  ASSUME TypeOK
  PROVE  /\ cfg \in ChannelConfig /\ cfg.lowTemp # cfg.highTemp
         /\ temp \in Int /\ duty \in Duty
         /\ \A t \in Temps : t \in Int
  BY ThermostatAssumption DEF TypeOK

\* The duty stays an uint8_t.
THEOREM TypeCorrect == Spec => []TypeOK
<1>1. Init => TypeOK
  <2>1. Init => reported \in BOOLEAN BY Zenon DEF Init
  <2>2. Init => cfg \in Configs /\ temp \in Temps \cup {0} /\ duty \in Duty
    BY DEF Init, Duty, FullDuty
  <2>3. QED BY <2>1, <2>2 DEF TypeOK
<1>2. TypeOK /\ [Next]_vars => TypeOK'
  <2> SUFFICES ASSUME TypeOK, [Next]_vars PROVE TypeOK'
    OBVIOUS
  <2>1. ASSUME NEW t \in Temps, SetTemp(t) PROVE TypeOK'
    BY <2>1, Facts, CalcDutyType DEF TypeOK, SetTemp
  <2>2. CASE UNCHANGED vars
    BY <2>2 DEF TypeOK, vars
  <2>3. QED BY <2>1, <2>2 DEF Next
<1>3. QED BY <1>1, <1>2, PTL DEF Spec

\* After any history of reports the duty is the curve's for the last one,
\* whatever the configuration.
THEOREM CurveFollowed == Spec => []FollowsCurve
<1>1. Init => FollowsCurve
  BY DEF Init, FollowsCurve
<1>2. TypeOK /\ FollowsCurve /\ [Next]_vars => FollowsCurve'
  <2> SUFFICES ASSUME TypeOK, FollowsCurve, [Next]_vars PROVE FollowsCurve'
    OBVIOUS
  <2>1. ASSUME NEW t \in Temps, SetTemp(t) PROVE FollowsCurve'
    BY <2>1, Facts, CalcDutyOnCurve DEF FollowsCurve, SetTemp
  <2>2. CASE UNCHANGED vars
    BY <2>2 DEF FollowsCurve, vars
  <2>3. QED BY <2>1, <2>2 DEF Next
<1>3. QED BY <1>1, <1>2, TypeCorrect, PTL DEF Spec

\* No report of a temperature as high as the last one slows the fan.
THEOREM NeverSlower == Spec => HotterNeverSlower
<1> DEFINE Rises == reported /\ temp # 0 /\ temp' # 0 /\ temp <= temp' => duty <= duty'
           Follows == reported /\ temp # 0 => \A d \in Duty : duty = CalcDuty(cfg, temp, d)
           Runs == reported => cfg.enabled
<1>1. Init => Follows /\ Runs
  BY DEF Init
<1>2. TypeOK /\ Follows /\ Runs /\ [Next]_vars => (Follows /\ Runs)'
  <2> SUFFICES ASSUME TypeOK, Follows, Runs, [Next]_vars PROVE (Follows /\ Runs)'
    OBVIOUS
  <2>1. ASSUME NEW t \in Temps, SetTemp(t) PROVE (Follows /\ Runs)'
    BY <2>1, Facts DEF SetTemp, CalcDuty
  <2>2. CASE UNCHANGED vars
    BY <2>2 DEF vars
  <2>3. QED BY <2>1, <2>2 DEF Next
<1>3. TypeOK /\ Follows /\ Runs /\ [Next]_vars => [Rises]_vars
  <2> SUFFICES ASSUME TypeOK, Follows, Runs, NEW t \in Temps, SetTemp(t), reported,
                      temp # 0, temp' # 0, temp <= temp'
               PROVE  duty <= duty'
    BY DEF Next
  <2>1. duty = CalcDuty(cfg, temp, duty) /\ duty' = CalcDuty(cfg, temp', duty)
    BY Facts DEF SetTemp
  <2>2. QED BY <2>1, Facts, CalcDutyMonotone DEF SetTemp
<1>4. QED BY <1>1, <1>2, <1>3, TypeCorrect, PTL DEF Spec, HotterNeverSlower
=============================================================================
