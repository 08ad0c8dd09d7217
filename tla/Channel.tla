------------------------------ MODULE Channel ------------------------------
(***************************************************************************)
(* The data the target component keeps and the messages that change it:    *)
(* target_t and channelConfig_t of the headers, TargetMessage_t and the    *)
(* field assignments of vTaskTarget in src/target.c.                       *)
(***************************************************************************)
EXTENDS FanCurve

CONSTANTS
  NumTargets,      \* NUM_TARGETS, 6 in the code
  channelConfig    \* the configuration StartConfig loaded for each channel

Kinds    == {"temp", "duty", "load", "rpm"}
Channels == 0 .. NumTargets - 1

\* The thresholds of a channel differ: the firmware only ever stores the
\* defaults 55 and 80, and equal ones would make target_calc_duty divide by 0.
ASSUME ChannelAssumption ==
  /\ NumTargets \in Nat \ {0}
  /\ channelConfig \in [Channels -> ChannelConfig]
  /\ \A ch \in Channels : channelConfig[ch].lowTemp # channelConfig[ch].highTemp

\* The channel numbers requests carry: any uint8_t.
ChannelArgs == 0 .. 255

\* TargetMessage_t: the command, the channel and the one field of the union
\* the command uses.
Msgs == {m \in [kind: Kinds, chan: ChannelArgs, val: Int] : m.kind = "duty" => m.val \in Duty}

\* target_t without channel, which is the index, and lastUpdate, which Target
\* keeps as an age.
TargetData == [duty: Duty, temp: Int, load: Int, rpm: Int]

\* The static initialiser of targets[].
BootTarget == [duty |-> FullDuty, temp |-> 0, load |-> 0, rpm |-> 0]

BugAcceptable(m) == m.chan \in Channels

\* The tests vTaskTarget makes on every message before it takes the lock.
Acceptable(m) == m.chan \in Channels /\ channelConfig[m.chan].enabled

\* The assignment of the message's field, one per case of the switch.
Written(t, m) ==
  CASE m.kind = "temp" -> [t EXCEPT !.temp = m.val]
    [] m.kind = "duty" -> [t EXCEPT !.duty = m.val]
    [] m.kind = "load" -> [t EXCEPT !.load = m.val]
    [] m.kind = "rpm"  -> [t EXCEPT !.rpm  = m.val]

\* target_calc_duty on the record of a channel.
WithCalcDuty(ch, t) == [t EXCEPT !.duty = CalcDuty(channelConfig[ch], t.temp, t.duty)]

\* What one message does to its channel's record, from the lock to the unlock.
Updated(ch, t, m) ==
  IF m.kind = "temp" THEN WithCalcDuty(ch, Written(t, m)) ELSE Written(t, m)
=============================================================================
