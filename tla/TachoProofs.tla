---------------------------- MODULE TachoProofs ----------------------------
(***************************************************************************)
(* The safety of Tacho for any number of fans, any queue and any number of *)
(* pulses.                                                                 *)
(***************************************************************************)
EXTENDS Tacho, SequenceTheorems, TLAPS

LEMMA NextChanType ==
  ASSUME NEW ch \in Channels PROVE NextChan(ch) \in Channels
  BY TachoAssumption DEF NextChan, Channels

LEMMA ZeroType == 0 \in Channels /\ Zero \in Values /\ Zero.fans = {}
  BY TachoAssumption DEF Channels, Zero, Values

\* A queue with one event, and the queue after it is taken.
LEMMA OneEvent ==
  ASSUME NEW S, NEW x \in S
  PROVE  /\ Append(<<>>, x) \in Seq(S) /\ Len(Append(<<>>, x)) = 1
         /\ \A i \in 1 .. Len(Append(<<>>, x)) : Append(<<>>, x)[i] = x
  OBVIOUS

LEMMA EventTaken ==
  ASSUME NEW S, NEW q \in Seq(S), Len(q) = 1
  PROVE  Head(q) \in S /\ Head(q) = q[1] /\ Tail(q) = <<>>
<1>1. q # <<>> /\ Head(q) = q[1] /\ q[1] \in S
  OBVIOUS
<1>2. Tail(q) \in Seq(S) /\ Len(Tail(q)) = 0
  BY <1>1
<1>3. QED BY <1>1, <1>2, EmptySeq

LEMMA InitSafe == Init => IInv
<1> SUFFICES ASSUME Init PROVE IInv
  OBVIOUS
<1>1. TypeOK
  BY ZeroType, TachoAssumption DEF Init, TypeOK
<1>2. OneMeasurement /\ OwnPulses /\ SpeedOfItsFan
  BY ZeroType DEF Init, OneMeasurement, OwnPulses, SpeedOfItsFan
<1>3. QED BY <1>1, <1>2 DEF IInv

LEMMA StepSafe == IInv /\ [Next]_vars => IInv'
<1> SUFFICES ASSUME IInv, [Next]_vars PROVE IInv'
  OBVIOUS
<1> USE DEF IInv, TypeOK, OneMeasurement, OwnPulses, SpeedOfItsFan
<1>1. CASE Reboot
  BY <1>1, ZeroType, TachoAssumption DEF Reboot
<1>2. CASE Pulse
  <2>1. counter' \in Values /\ counter'.fans = counter.fans \cup {pin}
    BY <1>2, TachoAssumption DEF Pulse, Values
  <2>2. QED BY <1>2, <2>1 DEF Pulse
<1>3. CASE TimerFires
  BY <1>3 DEF TimerFires
<1>4. CASE CallbackSend
  <2>1. queue = <<>> /\ pc = "receive" /\ Len(queue) < TachoQueueLen
    BY <1>4, TachoAssumption DEF CallbackSend
  <2>2. queue' = Append(<<>>, counter)
    BY <1>4, <2>1 DEF CallbackSend
  <2>3. /\ queue' \in Seq(Values) /\ Len(queue') = 1
        /\ \A i \in 1 .. Len(queue') : queue'[i] = counter
    BY <2>2, OneEvent
  <2>4. QED BY <1>4, <2>1, <2>3, TachoAssumption DEF CallbackSend
<1>5. CASE TaskReceive
  <2>1. Len(queue) = 1 /\ timer = "idle"
    BY <1>5 DEF TaskReceive
  <2>2. Head(queue) \in Values /\ Head(queue) = queue[1] /\ Tail(queue) = <<>>
    BY <2>1, EventTaken
  <2>3. QED BY <1>5, <2>1, <2>2, TachoAssumption DEF TaskReceive
<1>6. CASE TaskReport
  <2>1. CASE up' = FALSE /\ UNCHANGED <<speed, pc>>
    BY <1>6, <2>1 DEF TaskReport
  <2>2. CASE speed' = [speed EXCEPT ![curChan] = msg] /\ pc' = "next" /\ UNCHANGED up
    <3>1. speed' \in [Channels -> Values]
      BY <2>2
    <3>2. \A ch \in Channels : speed'[ch].fans \subseteq {ch}
      BY <1>6, <2>2 DEF TaskReport
    <3>3. timer = "idle" /\ queue = <<>>
      BY <1>6 DEF TaskReport
    <3>4. QED BY <1>6, <2>2, <3>1, <3>2, <3>3 DEF TaskReport
  <2>3. QED BY <1>6, <2>1, <2>2 DEF TaskReport
<1>7. CASE TaskSetPin
  <2>1. curChan' \in Channels
    BY <1>7, NextChanType DEF TaskSetPin
  <2>2. timer = "idle" /\ queue = <<>>
    BY <1>7 DEF TaskSetPin
  <2>3. QED BY <1>7, <2>1, <2>2 DEF TaskSetPin
<1>8. CASE TaskClear
  BY <1>8, ZeroType DEF TaskClear
<1>9. CASE TaskResume
  BY <1>9 DEF TaskResume
<1>10. CASE TaskArm
  BY <1>10 DEF TaskArm
<1>11. CASE UNCHANGED vars
  BY <1>11 DEF vars
<1>12. QED
  BY <1>1, <1>2, <1>3, <1>4, <1>5, <1>6, <1>7, <1>8, <1>9, <1>10, <1>11 DEF Next, TaskStep

\* The invariant of StartTacho, TachoCallback and vTaskTacho holds for any
\* number of fans and any queue.
THEOREM Safe == Spec => []IInv
  BY InitSafe, StepSafe, PTL DEF Spec

\* Every variable keeps to its type, the counter's value for any number of
\* pulses.
THEOREM TypeCorrect == Spec => []TypeOK
<1>1. IInv => TypeOK BY DEF IInv
<1>2. QED BY Safe, <1>1, PTL

\* The measurement is always in exactly one place, so that xTachoQueue never
\* overflows and esp_timer_start_once never finds its timer running.
THEOREM AlwaysOneMeasurement == Spec => []OneMeasurement
<1>1. IInv => OneMeasurement BY DEF IInv
<1>2. QED BY Safe, <1>1, PTL

\* A reported speed is its fan's own.
THEOREM AlwaysOwnSpeed == Spec => []SpeedOfItsFan
<1>1. IInv => SpeedOfItsFan BY DEF IInv
<1>2. QED BY Safe, <1>1, PTL

-----------------------------------------------------------------------------
(***************************************************************************)
(* Tacho implements FanWindows.                                            *)
(***************************************************************************)
\* From the end of a window to its report the counter stands still, and what
\* is on its way is its value; from there to the next window it is cleared.
WindowInv ==
  /\ counting => pc = "arm" \/ timer = "armed"
  /\ pc = "resume" => counter = Zero
  /\ queue # <<>> => Head(queue) = counter
  /\ pc = "report" => msg = counter /\ msg.count > 0

LEMMA InitWindow == Init => WindowInv
  BY DEF Init, WindowInv

LEMMA StepWindow == IInv /\ WindowInv /\ [Next]_vars => WindowInv'
<1> SUFFICES ASSUME IInv, WindowInv, [Next]_vars PROVE WindowInv'
  OBVIOUS
<1> USE DEF WindowInv
<1>1. CASE Reboot
  BY <1>1 DEF Reboot
<1>2. CASE Pulse
  BY <1>2 DEF Pulse, IInv, OneMeasurement
<1>3. CASE TimerFires
  BY <1>3 DEF TimerFires
<1>4. CASE CallbackSend
  <2>1. queue = <<>> /\ pc = "receive" /\ Len(queue) < TachoQueueLen
    BY <1>4, TachoAssumption DEF CallbackSend, IInv, OneMeasurement
  <2>2. queue' = <<counter>> /\ Head(queue') = counter
    BY <1>4, <2>1 DEF CallbackSend
  <2>3. QED BY <1>4, <2>1, <2>2 DEF CallbackSend
<1>5. CASE TaskReceive
  <2>1. Tail(queue) = <<>> /\ timer = "idle"
    BY <1>5, EventTaken DEF TaskReceive, IInv, OneMeasurement, TypeOK
  <2>2. QED BY <1>5, <2>1 DEF TaskReceive
<1>6. CASE TaskReport
  BY <1>6 DEF TaskReport
<1>7. CASE TaskSetPin
  BY <1>7 DEF TaskSetPin
<1>8. CASE TaskClear
  BY <1>8 DEF TaskClear, IInv, OneMeasurement
<1>9. CASE TaskResume
  BY <1>9 DEF TaskResume
<1>10. CASE TaskArm
  BY <1>10 DEF TaskArm
<1>11. CASE UNCHANGED vars
  BY <1>11 DEF vars
<1>12. QED
  BY <1>1, <1>2, <1>3, <1>4, <1>5, <1>6, <1>7, <1>8, <1>9, <1>10, <1>11 DEF Next, TaskStep

\* The turn passes as curChan does.
LEMMA NextTurn ==
  ASSUME NEW ch \in Channels
  PROVE  /\ NextChan(ch) \in Abs!Fans
         /\ NextChan(ch) = ch + 1 \/ (ch = NumTargets - 1 /\ NextChan(ch) = 0)
  BY NextChanType, TachoAssumption DEF NextChan, Channels, Abs!Fans

absVars == <<AbsFan, AbsWindow, AbsCount, AbsSpeed>>

LEMMA StartRefines == (Init => Abs!Init) /\ (Reboot => Abs!Init')
<1>1. Abs!Fans = Channels
  BY DEF Abs!Fans, Channels
<1>2. Init => Abs!Init
  BY <1>1, ZeroType DEF Init, Abs!Init, AbsFan, AbsWindow, AbsCount, AbsSpeed, Between, Zero
<1>3. Reboot => Abs!Init'
  BY <1>1, ZeroType DEF Reboot, Abs!Init, AbsFan, AbsWindow, AbsCount, AbsSpeed, Between, Zero
<1>4. QED BY <1>2, <1>3

\* A turn ends with the report, or where there is nothing to report.
LEMMA TurnEnds ==
  ASSUME IInv, WindowInv, ~counting, ~Between, pc' = "next", counting' = counting,
         curChan' = curChan,
         speed' = IF counter.count > 0 THEN [speed EXCEPT ![curChan] = counter] ELSE speed
  PROVE  Abs!Report
<1> USE DEF AbsFan, AbsWindow, AbsCount, AbsSpeed, Between
<1>1. AbsFan = curChan /\ AbsFan' = NextChan(curChan) /\ curChan \in Channels
  BY DEF IInv, OwnPulses, TypeOK
<1>2. AbsWindow = "closed" /\ AbsWindow' = "ready" /\ AbsCount = counter.count /\ AbsCount' = 0
  OBVIOUS
<1>3. AbsSpeed' = IF counter.count > 0 THEN [AbsSpeed EXCEPT ![curChan] = counter.count] ELSE AbsSpeed
  BY <1>1 DEF IInv, TypeOK
<1> HIDE DEF AbsFan, AbsWindow, AbsCount, AbsSpeed
<1>4. QED BY <1>1, <1>2, <1>3, NextTurn DEF Abs!Report

LEMMA WindowsStep == IInv /\ WindowInv /\ [Next]_vars => Abs!Next \/ UNCHANGED absVars
<1> SUFFICES ASSUME IInv, WindowInv, [Next]_vars PROVE Abs!Next \/ UNCHANGED absVars
  OBVIOUS
<1> USE DEF absVars, AbsFan, AbsWindow, AbsCount, AbsSpeed, Between
<1>1. CASE Reboot
  BY <1>1, StartRefines DEF Abs!Next
<1>2. CASE Pulse
  <2>1. ~Between /\ Abs!Pulse
    BY <1>2 DEF Pulse, Abs!Pulse, WindowInv, IInv, OneMeasurement
  <2>2. QED BY <2>1 DEF Abs!Next
<1>3. CASE TimerFires
  <2>1. pc = "receive"
    BY <1>3 DEF TimerFires, IInv, OneMeasurement
  <2>2. CASE counting
    <3>1. Abs!Close
      BY <1>3, <2>1, <2>2 DEF TimerFires, Abs!Close
    <3>2. QED BY <3>1 DEF Abs!Next
  <2>3. CASE ~counting
    BY <1>3, <2>1, <2>3 DEF TimerFires, IInv, TypeOK
  <2>4. QED BY <2>2, <2>3
<1>4. CASE CallbackSend
  BY <1>4 DEF CallbackSend
<1>5. CASE TaskReceive
  <2>1. ~counting /\ ~Between /\ Head(queue) = counter
    BY <1>5 DEF TaskReceive, WindowInv, IInv, OneMeasurement
  <2>2. CASE counter.count > 0
    BY <1>5, <2>1, <2>2 DEF TaskReceive
  <2>3. CASE ~(counter.count > 0)
    <3>1. Abs!Report
      BY <1>5, <2>1, <2>3, TurnEnds DEF TaskReceive
    <3>2. QED BY <3>1 DEF Abs!Next
  <2>4. QED BY <2>2, <2>3
<1>6. CASE TaskReport
  <2>1. ~counting /\ ~Between /\ msg = counter /\ counter.count > 0
    BY <1>6 DEF TaskReport, WindowInv, IInv, OneMeasurement
  <2>2. CASE pc' = "next"
    <3>1. Abs!Report
      BY <1>6, <2>1, <2>2, TurnEnds DEF TaskReport
    <3>2. QED BY <3>1 DEF Abs!Next
  <2>3. CASE UNCHANGED <<speed, pc>>
    BY <1>6, <2>3 DEF TaskReport
  <2>4. QED BY <1>6, <2>2, <2>3 DEF TaskReport
<1>7. CASE TaskSetPin
  BY <1>7 DEF TaskSetPin
<1>8. CASE TaskClear
  BY <1>8 DEF TaskClear
<1>9. CASE TaskResume
  <2>1. ~counting /\ counter.count = 0
    BY <1>9 DEF TaskResume, WindowInv, IInv, OneMeasurement, Zero
  <2>2. Abs!Open
    BY <1>9, <2>1 DEF TaskResume, Abs!Open
  <2>3. QED BY <2>2 DEF Abs!Next
<1>10. CASE TaskArm
  BY <1>10 DEF TaskArm
<1>11. CASE UNCHANGED vars
  BY <1>11 DEF vars
<1>12. QED
  BY <1>1, <1>2, <1>3, <1>4, <1>5, <1>6, <1>7, <1>8, <1>9, <1>10, <1>11 DEF Next, TaskStep

\* For any number of fans, timer, callback, queue and task measure the fans in
\* turn, and report each window's pulses once and under their own fan.
THEOREM Implementation == Spec => ImplementsWindows
<1>1. Spec => []WindowInv
  BY InitWindow, StepWindow, Safe, PTL DEF Spec
<1>2. IInv /\ WindowInv /\ [Next]_vars => [Abs!Next]_(Abs!vars)
  BY WindowsStep DEF absVars, Abs!vars
<1>3. QED BY <1>1, <1>2, StartRefines, Safe, PTL DEF Spec, ImplementsWindows, Abs!Spec
=============================================================================
