--------------------------- MODULE FanCurveProofs ---------------------------
(***************************************************************************)
(* Lemmas about target_calc_duty's arithmetic, for every configuration     *)
(* whose thresholds differ.                                                *)
(***************************************************************************)
EXTENDS FanCurve, TLAPS

\* Integer division by a positive number, as the provers need it.
LEMMA Quotient ==
  ASSUME NEW a \in Int, NEW b \in Nat \ {0}
  PROVE  /\ a \div b \in Int
         /\ b * (a \div b) <= a /\ a < b * (a \div b) + b
  BY Z3

\* The same with the factors in the other order.
LEMMA QuotientTimes ==
  ASSUME NEW a \in Int, NEW b \in Nat \ {0}
  PROVE  (a \div b) * b <= a /\ a < ((a \div b) + 1) * b
<1>1. \A q \in Int : q * b = b * q /\ (q + 1) * b = b * q + b
  BY Z3
<1>2. QED BY <1>1, Quotient

\* A quotient does not decrease when the dividend grows.
LEMMA QuotientMonotone ==
  ASSUME NEW a \in Int, NEW b \in Int, NEW c \in Nat \ {0}, a <= b
  PROVE  a \div c <= b \div c
<1>1. (a \div c) \in Int /\ (b \div c) \in Int BY Quotient
<1>2. SUFFICES ASSUME b \div c < a \div c PROVE FALSE BY <1>1
<1>3. (b \div c) + 1 <= a \div c BY <1>1, <1>2
<1>4. c * ((b \div c) + 1) <= c * (a \div c) BY <1>1, <1>3, Z3
<1>5. QED BY <1>1, <1>4, Quotient, Z3

\* Between the thresholds the whole degrees above the low one are no more
\* than the range, and there is a range.
LEMMA OffsetInRange ==
  ASSUME NEW c \in ChannelConfig, NEW t \in Int, InBand(c, t), c.lowTemp # c.highTemp
  PROVE  /\ TempRange(c) \in Nat \ {0}
         /\ TempOffset(c, t) \in 0 .. TempRange(c)
<1> DEFINE r == t - Low(c)
           n == TempOffset(c, t)
<1>1. c.lowTemp \in Nat /\ c.highTemp \in Nat /\ TempScale \in Nat \ {0}
  BY TempScaleAssumption DEF ChannelConfig, Degrees
<1>2. r \in Int /\ 0 <= r /\ r <= TempRange(c) * TempScale /\ TempRange(c) \in Int
  BY <1>1, Z3 DEF InBand, Low, High, TempRange
<1>3. n \in Int /\ TempScale * n <= r /\ r < TempScale * n + TempScale
  BY <1>1, <1>2, Quotient DEF TempOffset
<1>4. TempRange(c) > 0
  BY <1>1, <1>2, Z3 DEF TempRange
<1>5. 0 <= n
  <2>1. SUFFICES ASSUME n <= -1 PROVE FALSE BY <1>3
  <2>2. TempScale * n <= -TempScale BY <2>1, <1>1, <1>3, Z3
  <2>3. QED BY <2>2, <1>1, <1>2, <1>3
<1>6. n <= TempRange(c)
  <2>1. SUFFICES ASSUME TempRange(c) + 1 <= n PROVE FALSE BY <1>2, <1>3
  <2>2. TempScale * (TempRange(c) + 1) <= TempScale * n BY <2>1, <1>1, <1>2, <1>3, Z3
  <2>3. QED BY <2>2, <1>1, <1>2, <1>3, Z3
<1>7. QED BY <1>2, <1>3, <1>4, <1>5, <1>6

\* There the ramp is at most 255: its cast to uint8_t drops nothing.
LEMMA RampInRange ==
  ASSUME NEW c \in ChannelConfig, NEW t \in Int, InBand(c, t), c.lowTemp # c.highTemp
  PROVE  Ramp(c, t) \in Duty /\ UInt8(Ramp(c, t)) = Ramp(c, t)
<1> DEFINE n == TempOffset(c, t)
           range == TempRange(c)
<1> HIDE DEF n, range
<1>1. range \in Nat \ {0} /\ n \in 0 .. range
  BY OffsetInRange DEF n, range
<1>2. (n * 255) \div range \in Int
      /\ range * ((n * 255) \div range) <= n * 255
      /\ n * 255 < range * ((n * 255) \div range) + range
  BY <1>1, Quotient
<1>3. (n * 255) \div range \in 0 .. 255
  <2> DEFINE q == (n * 255) \div range
  <2> HIDE DEF q
  <2>1. q \in Int /\ range * q <= range * 255 /\ 0 < range * q + range BY <1>1, <1>2 DEF q
  <2>2. q <= 255 BY <2>1, <1>1, Z3
  <2>3. 0 <= q BY <2>1, <1>1, Z3
  <2>4. QED BY <2>1, <2>2, <2>3 DEF q
<1>4. Ramp(c, t) \in 0 .. 255
  BY <1>3 DEF Ramp, n, range
<1>5. QED
  BY <1>4, Z3 DEF Duty, FullDuty, UInt8

\* What target_calc_duty computes is a uint8_t.
LEMMA CalcDutyType ==
  ASSUME NEW c \in ChannelConfig, NEW t \in Int, NEW d \in Duty, c.lowTemp # c.highTemp
  PROVE  CalcDuty(c, t, d) \in Duty
<1>1. CASE InBand(c, t)
  BY <1>1, RampInRange DEF CalcDuty, AtLeast, ChannelConfig, Duty, FullDuty
<1>2. CASE ~InBand(c, t)
  <2>1. Low(c) \in Int /\ High(c) \in Int
    BY TempScaleAssumption DEF Low, High, ChannelConfig, Degrees
  <2>2. t < Low(c) \/ t > High(c)
    BY <1>2, <2>1 DEF InBand
  <2>3. QED BY <2>2 DEF CalcDuty, Duty, FullDuty
<1>3. QED BY <1>1, <1>2

\* The floor of the minimum duty keeps the order of duties.
LEMMA FloorMonotone ==
  ASSUME NEW least \in 0 .. 255, NEW a \in 0 .. 255, NEW b \in 0 .. 255, a <= b
  PROVE  AtLeast(least, a) <= AtLeast(least, b)
  BY DEF AtLeast

\* A configuration's curve rises: of two temperatures other than 0 the higher
\* one gets no lower duty.
LEMMA CalcDutyMonotone ==
  ASSUME NEW c \in ChannelConfig, c.lowTemp # c.highTemp, c.enabled,
         NEW t \in Int, NEW u \in Int, t # 0, u # 0, t <= u,
         NEW d \in Duty, NEW e \in Duty
  PROVE  CalcDuty(c, t, d) <= CalcDuty(c, u, e)
<1>1. Low(c) \in Int /\ High(c) \in Int /\ TempScale \in Nat \ {0} /\ c.minDuty \in 0 .. 255
  BY TempScaleAssumption DEF Low, High, ChannelConfig, Degrees, Duty, FullDuty
<1>2. CalcDuty(c, t, d) \in 0 .. 255 /\ CalcDuty(c, u, e) \in 0 .. 255
  BY CalcDutyType DEF Duty, FullDuty
<1>3. CASE t < Low(c)
  BY <1>2, <1>3 DEF CalcDuty
<1>4. CASE u > High(c)
  <2>1. CASE u < Low(c) BY <2>1, <1>1, <1>2 DEF CalcDuty
  <2>2. CASE ~(u < Low(c)) BY <2>2, <1>2, <1>4 DEF CalcDuty, FullDuty
  <2>3. QED BY <2>1, <2>2
<1>5. CASE ~(t < Low(c)) /\ ~(u > High(c))
  <2>1. InBand(c, t) /\ InBand(c, u)
    BY <1>1, <1>5 DEF InBand
  <2>2. /\ CalcDuty(c, t, d) = AtLeast(c.minDuty, Ramp(c, t))
        /\ CalcDuty(c, u, e) = AtLeast(c.minDuty, Ramp(c, u))
    BY <1>1, <1>5, <2>1, RampInRange DEF CalcDuty, InBand
  <2>3. TempOffset(c, t) <= TempOffset(c, u)
    BY <1>1, QuotientMonotone DEF TempOffset
  <2>4. /\ TempOffset(c, t) * 255 \in Int /\ TempOffset(c, u) * 255 \in Int
        /\ TempOffset(c, t) * 255 <= TempOffset(c, u) * 255
        /\ TempRange(c) \in Nat \ {0}
    BY <2>1, <2>3, OffsetInRange
  <2>5. Ramp(c, t) <= Ramp(c, u)
    BY <2>4, QuotientMonotone DEF Ramp
  <2>6. Ramp(c, t) \in 0 .. 255 /\ Ramp(c, u) \in 0 .. 255
    BY <2>1, RampInRange DEF Duty, FullDuty
  <2>7. AtLeast(c.minDuty, Ramp(c, t)) <= AtLeast(c.minDuty, Ramp(c, u))
    BY <1>1, <2>5, <2>6, FloorMonotone
  <2>8. QED BY <2>2, <2>7
<1>6. QED BY <1>3, <1>4, <1>5
=============================================================================
