---------------------------- MODULE TargetProofs ----------------------------
(***************************************************************************)
(* The safety properties of Target, for any number of channels and         *)
(* clients, any configuration whose thresholds differ, any messages, any   *)
(* queue and any heap.                                                     *)
(***************************************************************************)
EXTENDS Target, FanCurveProofs, FiniteSetTheorems

\* The types of everything but the two counters of the heap and `up'.
Types ==
  /\ queue \in Seq(Msgs) /\ Len(queue) <= QueueLen
  /\ lock \in [Channels -> Clients \cup {Free, TargetTask}]
  /\ targets \in [Channels -> TargetData]
  /\ age \in [Channels -> 0 .. Stale]
  /\ pwm \in [Channels -> Duty]
  /\ taskPc \in TaskPcs /\ taskMsg \in Msgs \cup {NoMsg}
  /\ pc \in [Clients -> ClientPcs]
  /\ req \in [Clients -> [kind: Kinds \cup {"none"}, chan: ChannelArgs, val: Int]]
  /\ buf \in [Clients -> TargetData]
  /\ source \in [Channels -> {"boot", "temp", "duty"}]

\* A message's assignment gives a record of the same type.
LEMMA WrittenType ==
  ASSUME NEW t \in TargetData, NEW m \in Msgs
  PROVE  /\ Written(t, m) \in TargetData
         /\ m.kind # "duty" => Written(t, m).duty = t.duty
         /\ m.kind \in {"load", "rpm"} => Written(t, m).temp = t.temp
         /\ m.kind \in {"temp", "duty", "load", "rpm"}
  BY DEF Written, TargetData, Msgs, Kinds

\* So does target_calc_duty, which changes the duty alone.
LEMMA WithCalcDutyType ==
  ASSUME NEW t \in TargetData, NEW ch \in Channels
  PROVE  /\ WithCalcDuty(ch, t) \in TargetData
         /\ WithCalcDuty(ch, t).temp = t.temp
         /\ WithCalcDuty(ch, t).duty = CalcDuty(channelConfig[ch], t.temp, t.duty)
<1>1. channelConfig[ch] \in ChannelConfig /\ channelConfig[ch].lowTemp # channelConfig[ch].highTemp
  BY ChannelAssumption
<1>2. t.temp \in Int /\ t.duty \in Duty
  BY DEF TargetData
<1>3. CalcDuty(channelConfig[ch], t.temp, t.duty) \in Duty
  BY <1>1, <1>2, CalcDutyType
<1>4. QED BY <1>3 DEF WithCalcDuty, TargetData

LEMMA BootTypes == BootTarget \in TargetData /\ BootTarget.duty = FullDuty
  BY DEF BootTarget, TargetData, Duty, FullDuty

LEMMA NotAbove == \A a, b \in Int : ~(a > b) => a <= b
  OBVIOUS

LEMMA ReadArgs == \A c \in Clients : \A ch \in Reads[c] : ch \in Int /\ NumTargets \in Int
<1>1. ASSUME NEW c \in Clients, NEW ch \in Reads[c] PROVE ch \in ChannelArgs
  BY TargetAssumption, Zenon
<1>2. ChannelArgs \subseteq Int
  BY DEF ChannelArgs
<1>3. NumTargets \in Int
  BY ChannelAssumption
<1>4. QED BY <1>1, <1>2, <1>3, Zenon

LEMMA TypesInit == Init => Types /\ TaskInv /\ ClientInv
<1> SUFFICES ASSUME Init PROVE Types /\ TaskInv /\ ClientInv
  OBVIOUS
<1>1. Types
  BY BootTypes, TargetAssumption
     DEF Init, Types, TaskPcs, ClientPcs, NoMsg, ChannelArgs, Stale, Duty, FullDuty
<1>2. QED BY <1>1 DEF Init, TaskInv, ClientInv

LEMMA TypesStep ==
  ASSUME Types, TaskInv, ClientInv, [Next]_vars
  PROVE  Types' /\ TaskInv' /\ ClientInv'
<1> USE DEF Types
<1>1. CASE Reboot
  <2>1. Types'
    BY <1>1, BootTypes, TargetAssumption
       DEF Reboot, TaskPcs, ClientPcs, NoMsg, ChannelArgs, Stale, Duty, FullDuty
  <2>2. QED BY <1>1, <2>1 DEF Reboot, TaskInv, ClientInv
<1>2. CASE TaskReceive
  <2>1. Head(queue) \in Msgs /\ Tail(queue) \in Seq(Msgs) /\ Len(Tail(queue)) <= QueueLen
    BY <1>2, TargetAssumption DEF TaskReceive
  <2>2. CASE Acceptable(Head(queue))
    BY <1>2, <2>1, <2>2 DEF TaskReceive, TaskPcs, tableVars, clientVars, TaskInv, ClientInv
  <2>3. CASE ~Acceptable(Head(queue))
    BY <1>2, <2>1, <2>3 DEF TaskReceive, tableVars, clientVars, taskVars, TaskInv, ClientInv
  <2>4. QED BY <2>2, <2>3
<1>3. CASE TaskLock
  BY <1>3 DEF TaskLock, TaskGoto, TaskPcs, tableVars, clientVars, TaskInv, ClientInv
<1>4. CASE TaskWrite
  <2>1. taskMsg \in Msgs /\ taskMsg.chan \in Channels
    BY <1>4 DEF TaskWrite, TaskInv, Acceptable
  <2>2. Written(targets[taskMsg.chan], taskMsg) \in TargetData
    BY <2>1, WrittenType
  <2>3. targets' \in [Channels -> TargetData]
    BY <1>4, <2>1, <2>2 DEF TaskWrite
  <2>4. age' \in [Channels -> 0 .. Stale] /\ source' \in [Channels -> {"boot", "temp", "duty"}]
    <3>1. CASE taskMsg.kind = "temp"
      <4>1. age' = [age EXCEPT ![taskMsg.chan] = 0] /\ source' = source
        BY <1>4, <3>1 DEF TaskWrite
      <4>2. 0 \in 0 .. Stale
        BY TargetAssumption DEF Stale
      <4>3. QED BY <4>1, <4>2
    <3>2. CASE taskMsg.kind = "duty"
      BY <1>4, <2>1, <3>2 DEF TaskWrite
    <3>3. CASE taskMsg.kind \notin {"temp", "duty"}
      BY <1>4, <2>1, <3>3 DEF TaskWrite
    <3>4. QED BY <3>1, <3>2, <3>3
  <2>5. QED
    BY <1>4, <2>3, <2>4 DEF TaskWrite, TaskGoto, TaskPcs, clientVars, TaskInv, ClientInv
<1>5. CASE TaskCalc
  <2>1. taskMsg.chan \in Channels
    BY <1>5 DEF TaskCalc, TaskInv, Acceptable
  <2>2. WithCalcDuty(taskMsg.chan, targets[taskMsg.chan]) \in TargetData
    BY <2>1, WithCalcDutyType
  <2>3. targets' \in [Channels -> TargetData]
    BY <1>5, <2>1, <2>2 DEF TaskCalc
  <2>4. age' \in [Channels -> 0 .. Stale] /\ source' \in [Channels -> {"boot", "temp", "duty"}]
    BY <1>5, <2>1, TargetAssumption DEF TaskCalc, Stale
  <2>5. QED
    BY <1>5, <2>3, <2>4 DEF TaskCalc, TaskGoto, TaskPcs, clientVars, TaskInv, ClientInv
<1>6. CASE TaskPwm
  <2>1. taskMsg.chan \in Channels
    BY <1>6 DEF TaskPwm, TaskInv, Acceptable
  <2>2. pwm' \in [Channels -> Duty]
    BY <1>6, <2>1 DEF TaskPwm, TargetData
  <2>3. QED BY <1>6, <2>2 DEF TaskPwm, TaskGoto, TaskPcs, clientVars, TaskInv, ClientInv
<1>7. CASE TaskUnlock
  BY <1>7 DEF TaskUnlock, TaskPcs, tableVars, clientVars, TaskInv, ClientInv
<1>8. CASE Tick
  <2>1. age' \in [Channels -> 0 .. Stale]
    BY <1>8, TargetAssumption DEF Tick, Stale
  <2>2. QED BY <1>8, <2>1 DEF Tick, taskVars, clientVars, TaskInv, ClientInv
<1>9. ASSUME NEW c \in Clients, NEW m \in Sends[c], SendAlloc(c, m)
      PROVE  Types' /\ TaskInv' /\ ClientInv'
  <2>1. m \in Msgs
    BY TargetAssumption
  <2>2. m \in [kind: Kinds \cup {"none"}, chan: ChannelArgs, val: Int]
    BY <2>1 DEF Msgs
  <2>3. /\ pc' \in [Clients -> ClientPcs]
        /\ req' \in [Clients -> [kind: Kinds \cup {"none"}, chan: ChannelArgs, val: Int]]
        /\ \A k \in Clients : \/ pc'[k] = pc[k] /\ req'[k] = req[k]
                              \/ pc'[k] = "send" /\ req'[k] \in Sends[k]
                              \/ pc'[k] = "failed"
    <3>1. CASE used < HeapMsgs
      BY <1>9, <2>1, <2>2, <3>1 DEF SendAlloc, Goto, ClientPcs
    <3>2. CASE ~(used < HeapMsgs)
      BY <1>9, <3>2 DEF SendAlloc, SendFails, Goto, ClientPcs
    <3>3. QED BY <3>1, <3>2
  <2>4. QED
    BY <1>9, <2>3 DEF SendAlloc, tableVars, taskVars, TaskInv, ClientInv
<1>10. ASSUME NEW c \in Clients, NEW ch \in Reads[c], GetCall(c, ch)
       PROVE  Types' /\ TaskInv' /\ ClientInv'
  <2>1. [NoMsg EXCEPT !.chan = ch] \in [kind: Kinds \cup {"none"}, chan: ChannelArgs, val: Int]
    BY TargetAssumption DEF NoMsg
  <2>2. /\ pc' \in [Clients -> ClientPcs]
        /\ req' \in [Clients -> [kind: Kinds \cup {"none"}, chan: ChannelArgs, val: Int]]
        /\ \A k \in Clients : \/ pc'[k] = pc[k] /\ req'[k] = req[k]
                              \/ /\ pc'[k] = "take" /\ req'[k].chan \in Reads[k]
                                 /\ req'[k].chan <= NumTargets
    <3>0. ch \in Int /\ NumTargets \in Int
      BY ReadArgs, Zenon
    <3>1. CASE ch > NumTargets
      BY <1>10, <3>1 DEF GetCall
    <3>2. CASE ~(ch > NumTargets)
      <4>0. ch <= NumTargets
        BY <3>0, <3>2, NotAbove, Zenon
      <4>1. req' = [req EXCEPT ![c] = [NoMsg EXCEPT !.chan = ch]]
        BY <1>10, <3>2 DEF GetCall
      <4>2. [NoMsg EXCEPT !.chan = ch].chan = ch
        BY DEF NoMsg
      <4>3. QED BY <1>10, <2>1, <3>2, <4>0, <4>1, <4>2 DEF GetCall, Goto, ClientPcs
    <3>3. QED BY <3>1, <3>2
  <2>3. QED
    BY <1>10, <2>2 DEF GetCall, tableVars, taskVars, TaskInv, ClientInv
<1>11. ASSUME NEW c \in Clients, Proceed(c)
       PROVE  Types' /\ TaskInv' /\ ClientInv'
  <2>1. CASE SendQueue(c)
    <3>1. Append(queue, req[c]) \in Seq(Msgs) /\ Len(Append(queue, req[c])) <= QueueLen
      BY <2>1, TargetAssumption DEF SendQueue, ClientInv
    <3>2. QED
      BY <2>1, <3>1 DEF SendQueue, Goto, ClientPcs, tableVars, taskVars, TaskInv, ClientInv
  <2>2. CASE SendTimeout(c)
    BY <2>2 DEF SendTimeout, SendFails, Goto, ClientPcs, tableVars, taskVars, TaskInv, ClientInv
  <2>3. CASE GetTake(c)
    BY <2>3 DEF GetTake, Goto, ClientPcs, tableVars, taskVars, TaskInv, ClientInv
  <2>4. CASE GetTimeout(c)
    BY <2>4 DEF GetTimeout, Abort, tableVars, taskVars, clientVars, TaskInv, ClientInv
  <2>5. CASE GetOutside(c)
    BY <2>5 DEF GetOutside, Abort, Goto, ClientPcs, tableVars, taskVars, clientVars, TaskInv, ClientInv
  <2>6. CASE GetCopy(c) \/ GetCopyRest(c)
    <3>1. req[c].chan \in Channels
      BY <2>6 DEF GetCopy, GetCopyRest, ClientInv
    <3>2. targets[req[c].chan] \in TargetData /\ buf[c] \in TargetData
      BY <3>1
    <3>3. \A t, b \in TargetData : /\ [b EXCEPT !.duty = t.duty, !.temp = t.temp] \in TargetData
                                   /\ [b EXCEPT !.rpm = t.rpm, !.load = t.load] \in TargetData
      BY DEF TargetData
    <3>4. buf' \in [Clients -> TargetData]
      <4>1. CASE GetCopy(c) BY <4>1, <3>2, <3>3 DEF GetCopy
      <4>2. CASE GetCopyRest(c) BY <4>2, <3>2, <3>3 DEF GetCopyRest
      <4>3. QED BY <2>6, <4>1, <4>2
    <3>5. QED
      BY <2>6, <3>1, <3>4
         DEF GetCopy, GetCopyRest, Goto, ClientPcs, tableVars, taskVars, TaskInv, ClientInv
  <2>7. CASE GetGive(c)
    BY <2>7 DEF GetGive, Goto, ClientPcs, tableVars, taskVars, TaskInv, ClientInv
  <2>8. CASE Return(c)
    <3>1. NoMsg \in [kind: Kinds \cup {"none"}, chan: ChannelArgs, val: Int]
      BY DEF NoMsg, ChannelArgs
    <3>2. QED
      BY <2>8, <3>1, BootTypes
         DEF Return, Goto, ClientPcs, tableVars, taskVars, TaskInv, ClientInv
  <2>9. QED BY <1>11, <2>1, <2>2, <2>3, <2>4, <2>5, <2>6, <2>7, <2>8 DEF Proceed
<1>12. CASE UNCHANGED vars
  BY <1>12 DEF vars, tableVars, taskVars, clientVars, TaskInv, ClientInv
<1>13. QED
  BY <1>1, <1>2, <1>3, <1>4, <1>5, <1>6, <1>7, <1>8, <1>9, <1>10, <1>11, <1>12 DEF Next, TaskStep

\* The names of the holders of a lock differ.
LEMMA Holders ==
  /\ Free \notin Clients /\ TargetTask \notin Clients /\ Free # TargetTask
  BY TargetAssumption DEF Free, TargetTask

LEMMA LockInit == Init => LockDiscipline
  BY Holders DEF Init, LockDiscipline, TaskHolds, ClientHolds

LEMMA LockStep ==
  ASSUME Types, TaskInv, ClientInv, LockDiscipline, [Next]_vars
  PROVE  LockDiscipline'
<1> USE Holders DEF Types, LockDiscipline, TaskHolds, ClientHolds
<1>1. CASE Reboot
  BY <1>1 DEF Reboot
<1>2. CASE TaskReceive
  BY <1>2 DEF TaskReceive, taskVars, clientVars
<1>3. CASE TaskLock
  BY <1>3 DEF TaskLock, TaskGoto, TaskInv, Acceptable, clientVars
<1>4. CASE TaskWrite
  BY <1>4 DEF TaskWrite, TaskGoto, clientVars
<1>5. CASE TaskCalc
  BY <1>5 DEF TaskCalc, TaskGoto, clientVars
<1>6. CASE TaskPwm
  BY <1>6 DEF TaskPwm, TaskGoto, clientVars
<1>7. CASE TaskUnlock
  BY <1>7 DEF TaskUnlock, TaskInv, Acceptable, clientVars
<1>8. CASE Tick
  BY <1>8 DEF Tick, taskVars, clientVars
<1>9. ASSUME NEW c \in Clients, NEW m \in Sends[c], SendAlloc(c, m) PROVE LockDiscipline'
  <2>1. CASE used < HeapMsgs
    BY <1>9, <2>1 DEF SendAlloc, Goto, taskVars
  <2>2. CASE ~(used < HeapMsgs)
    BY <1>9, <2>2 DEF SendAlloc, SendFails, Goto, taskVars
  <2>3. QED BY <2>1, <2>2
<1>10. ASSUME NEW c \in Clients, NEW ch \in Reads[c], GetCall(c, ch) PROVE LockDiscipline'
  <2>1. CASE ch > NumTargets
    BY <1>10, <2>1 DEF GetCall, taskVars
  <2>2. CASE ~(ch > NumTargets)
    BY <1>10, <2>2 DEF GetCall, Goto, taskVars
  <2>3. QED BY <2>1, <2>2
<1>11. ASSUME NEW c \in Clients, Proceed(c) PROVE LockDiscipline'
  <2>1. CASE SendQueue(c)
    BY <2>1 DEF SendQueue, Goto, taskVars
  <2>2. CASE SendTimeout(c)
    BY <2>2 DEF SendTimeout, SendFails, Goto, taskVars
  <2>3. CASE GetTake(c)
    BY <2>3 DEF GetTake, Goto, taskVars
  <2>4. CASE GetTimeout(c)
    BY <2>4 DEF GetTimeout, Abort, taskVars, clientVars
  <2>5. CASE GetOutside(c)
    BY <2>5 DEF GetOutside, Abort, Goto, taskVars, clientVars
  <2>6. CASE GetCopy(c) \/ GetCopyRest(c)
    BY <2>6 DEF GetCopy, GetCopyRest, Goto, taskVars
  <2>7. CASE GetGive(c)
    BY <2>7 DEF GetGive, Goto, taskVars, ClientInv
  <2>8. CASE Return(c)
    BY <2>8 DEF Return, Goto, taskVars
  <2>9. QED BY <1>11, <2>1, <2>2, <2>3, <2>4, <2>5, <2>6, <2>7, <2>8 DEF Proceed
<1>12. CASE UNCHANGED vars
  BY <1>12 DEF vars, taskVars, clientVars
<1>13. QED
  BY <1>1, <1>2, <1>3, <1>4, <1>5, <1>6, <1>7, <1>8, <1>9, <1>10, <1>11, <1>12 DEF Next, TaskStep

-----------------------------------------------------------------------------
(***************************************************************************)
(* The table, the PWM and the copies change in few steps: the task's three *)
(* and the readers' two.  Every other step leaves them alone.              *)
(***************************************************************************)
Quiet == UNCHANGED <<targets, pwm, source>> /\ UNCHANGED taskVars

LEMMA Changes ==
  ASSUME [Next]_vars
  PROVE  \/ Reboot \/ TaskStep
         \/ Quiet
BY DEF Next, Tick, SendAlloc, GetCall, Proceed, SendQueue, SendTimeout, GetTake, GetTimeout,
       GetOutside, Abort, GetCopy, GetCopyRest, GetGive, Return, Quiet, vars, tableVars

LEMMA PwmStep ==
  ASSUME Types, TaskInv, PwmInv, [Next]_vars
  PROVE  PwmInv'
<1> USE DEF Types, PwmInv
<1>1. CASE Reboot
  BY <1>1, BootTypes DEF Reboot
<1>2. CASE TaskReceive
  BY <1>2 DEF TaskReceive, tableVars, taskVars
<1>3. CASE TaskLock
  BY <1>3 DEF TaskLock, TaskGoto, tableVars
<1>4. CASE TaskWrite
  <2>1. taskMsg \in Msgs /\ taskMsg.chan \in Channels
    BY <1>4 DEF TaskWrite, TaskInv, Acceptable
  <2>2. CASE taskMsg.kind = "duty"
    BY <1>4, <2>1, <2>2 DEF TaskWrite, TaskGoto
  <2>3. CASE taskMsg.kind # "duty"
    <3>1. Written(targets[taskMsg.chan], taskMsg).duty = targets[taskMsg.chan].duty
      BY <2>1, <2>3, WrittenType
    <3>2. QED BY <1>4, <2>1, <3>1 DEF TaskWrite
  <2>4. QED BY <2>2, <2>3
<1>5. CASE TaskCalc
  BY <1>5 DEF TaskCalc, TaskGoto, TaskInv, Acceptable
<1>6. CASE TaskPwm
  BY <1>6 DEF TaskPwm, TaskGoto, TaskInv, Acceptable
<1>7. CASE TaskUnlock
  BY <1>7 DEF TaskUnlock, tableVars
<1>8. CASE Quiet
  BY <1>8 DEF Quiet, taskVars
<1>9. QED BY <1>1, <1>2, <1>3, <1>4, <1>5, <1>6, <1>7, <1>8, Changes DEF TaskStep

\* The task writes a record only with its lock, so not while a reader copies it.
LEMMA TableUnderLock ==
  ASSUME Types, TaskInv, ClientInv, LockDiscipline, TaskStep,
         NEW c \in Clients, pc[c] \in {"copy", "copyRest", "give"}
  PROVE  targets'[req[c].chan] = targets[req[c].chan]
<1>1. req[c].chan \in Channels /\ lock[req[c].chan] = c
  BY DEF ClientInv, LockDiscipline, ClientHolds
<1>2. ~TaskHolds(req[c].chan)
  BY <1>1, Holders DEF LockDiscipline
<1>3. QED
  BY <1>1, <1>2
     DEF TaskStep, TaskReceive, TaskLock, TaskWrite, TaskCalc, TaskPwm, TaskUnlock, tableVars,
         TaskHolds, Types, TaskInv, Acceptable

\* A step of one client that copies nothing and changes no record.
LEMMA CopyFrame ==
  ASSUME CopyInv, NEW c \in Clients, pc'[c] \notin {"copyRest", "give"},
         \A k \in Clients \ {c} : pc'[k] = pc[k] /\ req'[k] = req[k],
         buf' = buf, targets' = targets
  PROVE  CopyInv'
<1> DEFINE Copied(k) ==
      LET t == targets[req[k].chan] IN
      /\ pc[k] \in {"copyRest", "give"} => buf[k].duty = t.duty /\ buf[k].temp = t.temp
      /\ pc[k] = "give" => buf[k].rpm = t.rpm /\ buf[k].load = t.load
<1>1. ASSUME NEW k \in Clients PROVE Copied(k)'
  <2>1. CASE k = c BY <2>1
  <2>2. CASE k # c
    <3>1. pc'[k] = pc[k] /\ req'[k] = req[k] BY <2>2
    <3>2. Copied(k) BY DEF CopyInv
    <3>3. QED BY <3>1, <3>2
  <2>3. QED BY <2>1, <2>2
<1>2. QED BY <1>1 DEF CopyInv

LEMMA CopyStep ==
  ASSUME Types, TaskInv, ClientInv, LockDiscipline, CopyInv, [Next]_vars
  PROVE  CopyInv'
<1> USE DEF Types, CopyInv
<1>1. CASE Reboot
  BY <1>1 DEF Reboot
<1>2. CASE TaskStep
  <2>1. UNCHANGED clientVars
    BY <1>2 DEF TaskStep, TaskReceive, TaskLock, TaskWrite, TaskCalc, TaskPwm, TaskUnlock
  <2>2. QED BY <1>2, <2>1, TableUnderLock DEF clientVars
<1>3. CASE Tick
  BY <1>3 DEF Tick, clientVars
<1>4. ASSUME NEW c \in Clients, NEW m \in Sends[c], SendAlloc(c, m) PROVE CopyInv'
  <2>1. CASE used < HeapMsgs
    <3>1. /\ pc'[c] = "send"
          /\ \A k \in Clients \ {c} : pc'[k] = pc[k] /\ req'[k] = req[k]
          /\ buf' = buf /\ targets' = targets
      BY <1>4, <2>1 DEF SendAlloc, Goto, tableVars
    <3>2. QED BY <3>1, CopyFrame
  <2>2. CASE ~(used < HeapMsgs)
    BY <1>4, <2>2 DEF SendAlloc, SendFails, Goto, tableVars
  <2>3. QED BY <2>1, <2>2
<1>5. ASSUME NEW c \in Clients, NEW ch \in Reads[c], GetCall(c, ch) PROVE CopyInv'
  <2>1. CASE ch > NumTargets
    BY <1>5, <2>1 DEF GetCall, tableVars
  <2>2. CASE ~(ch > NumTargets)
    <3>1. /\ pc'[c] = "take"
          /\ \A k \in Clients \ {c} : pc'[k] = pc[k] /\ req'[k] = req[k]
          /\ buf' = buf /\ targets' = targets
      BY <1>5, <2>2 DEF GetCall, Goto, tableVars
    <3>2. QED BY <3>1, CopyFrame
  <2>3. QED BY <2>1, <2>2
<1>6. ASSUME NEW c \in Clients, Proceed(c) PROVE CopyInv'
  <2>1. CASE SendQueue(c)
    BY <2>1 DEF SendQueue, Goto, tableVars
  <2>2. CASE SendTimeout(c)
    BY <2>2 DEF SendTimeout, SendFails, Goto, tableVars
  <2>3. CASE GetTake(c)
    BY <2>3 DEF GetTake, Goto, tableVars
  <2>4. CASE GetTimeout(c)
    BY <2>4 DEF GetTimeout, Abort, tableVars, clientVars
  <2>5. CASE GetOutside(c)
    BY <2>5 DEF GetOutside, Abort, Goto, tableVars, clientVars
  <2>6. CASE GetCopy(c)
    BY <2>6 DEF GetCopy, Goto, tableVars, TargetData
  <2>7. CASE GetCopyRest(c)
    BY <2>7 DEF GetCopyRest, Goto, tableVars, TargetData
  <2>8. CASE GetGive(c)
    BY <2>8 DEF GetGive, Goto, tableVars
  <2>9. CASE Return(c)
    BY <2>9 DEF Return, Goto, tableVars
  <2>10. QED BY <1>6, <2>1, <2>2, <2>3, <2>4, <2>5, <2>6, <2>7, <2>8, <2>9 DEF Proceed
<1>7. CASE UNCHANGED vars
  BY <1>7 DEF vars, tableVars, clientVars
<1>8. QED BY <1>1, <1>2, <1>3, <1>4, <1>5, <1>6, <1>7 DEF Next

\* For a temperature other than 0 the duty before does not matter.
LEMMA CurveForgets ==
  ASSUME NEW ch \in Channels, channelConfig[ch].enabled, NEW t \in Int, t # 0,
         NEW d \in Duty, NEW e \in Duty
  PROVE  CalcDuty(channelConfig[ch], t, d) = CalcDuty(channelConfig[ch], t, e)
  BY DEF CalcDuty

LEMMA CurveStep ==
  ASSUME Types, TaskInv, CurveInv, [Next]_vars
  PROVE  CurveInv'
<1> USE DEF Types
<1>1. CASE Reboot
  BY <1>1 DEF Reboot, CurveInv
<1>2. CASE TaskReceive
  BY <1>2 DEF TaskReceive, tableVars, taskVars, CurveInv
<1>3. CASE TaskLock
  BY <1>3 DEF TaskLock, TaskGoto, tableVars, CurveInv
<1>4. CASE TaskWrite
  <2> DEFINE ch == taskMsg.chan
  <2>1. taskMsg \in Msgs /\ ch \in Channels /\ channelConfig[ch].enabled
    BY <1>4 DEF TaskWrite, TaskInv, Acceptable
  <2>2. /\ targets'[ch] = Written(targets[ch], taskMsg)
        /\ \A k \in Channels \ {ch} : targets'[k] = targets[k] /\ source'[k] = source[k]
    BY <1>4, <2>1 DEF TaskWrite
  <2>3. CASE taskMsg.kind = "temp"
    BY <1>4, <2>1, <2>2, <2>3 DEF TaskWrite, TaskGoto, CurveInv
  <2>4. CASE taskMsg.kind = "duty"
    <3>1. source'[ch] = "duty"
      BY <1>4, <2>1, <2>4 DEF TaskWrite
    <3>2. QED BY <1>4, <2>1, <2>2, <3>1 DEF TaskWrite, CurveInv
  <2>5. CASE taskMsg.kind \in {"load", "rpm"}
    <3>1. targets'[ch].temp = targets[ch].temp /\ targets'[ch].duty = targets[ch].duty
      <4>1. targets[ch] \in TargetData
        BY <2>1
      <4>2. /\ Written(targets[ch], taskMsg).temp = targets[ch].temp
            /\ Written(targets[ch], taskMsg).duty = targets[ch].duty
        BY <2>1, <2>5, <4>1, WrittenType
      <4>3. QED BY <2>2, <4>2
    <3>2. source' = source
      BY <1>4, <2>5 DEF TaskWrite
    <3>3. QED BY <1>4, <2>1, <2>2, <3>1, <3>2 DEF TaskWrite, CurveInv
  <2>6. QED BY <2>1, <2>3, <2>4, <2>5, WrittenType
<1>5. CASE TaskCalc
  <2> DEFINE ch == taskMsg.chan
             t  == targets[ch]
  <2>1. ch \in Channels /\ channelConfig[ch].enabled
    BY <1>5 DEF TaskCalc, TaskInv, Acceptable
  <2>2. /\ targets'[ch] = WithCalcDuty(ch, t)
        /\ \A k \in Channels \ {ch} : targets'[k] = targets[k] /\ source'[k] = source[k]
    BY <1>5, <2>1 DEF TaskCalc
  <2>3. t \in TargetData /\ t.temp \in Int /\ t.duty \in Duty /\ FullDuty \in Duty
    BY <2>1 DEF TargetData, Duty, FullDuty
  <2>4. /\ targets'[ch].temp = t.temp
        /\ targets'[ch].duty = CalcDuty(channelConfig[ch], t.temp, t.duty)
    BY <2>1, <2>2, <2>3, WithCalcDutyType
  <2>5. t.temp # 0 => targets'[ch].duty = CalcDuty(channelConfig[ch], targets'[ch].temp, FullDuty)
    <3>1. t.temp # 0 => CalcDuty(channelConfig[ch], t.temp, t.duty)
                          = CalcDuty(channelConfig[ch], t.temp, FullDuty)
      BY <2>1, <2>3, CurveForgets
    <3>2. QED BY <2>4, <3>1
  <2>6. QED BY <1>5, <2>1, <2>2, <2>4, <2>5 DEF TaskCalc, CurveInv
<1>6. CASE TaskPwm
  BY <1>6 DEF TaskPwm, TaskGoto, CurveInv
<1>7. CASE TaskUnlock
  BY <1>7 DEF TaskUnlock, tableVars, CurveInv
<1>8. CASE Quiet
  BY <1>8 DEF Quiet, taskVars, CurveInv
<1>9. QED BY <1>1, <1>2, <1>3, <1>4, <1>5, <1>6, <1>7, <1>8, Changes DEF TaskStep

LEMMA DisabledStep ==
  ASSUME Types, TaskInv, DisabledKeepsFullDuty, [Next]_vars
  PROVE  DisabledKeepsFullDuty'
<1> USE DEF DisabledKeepsFullDuty
<1>1. CASE Reboot
  BY <1>1 DEF Reboot
<1>2. CASE TaskStep
  BY <1>2 DEF TaskStep, TaskReceive, TaskLock, TaskWrite, TaskCalc, TaskPwm, TaskUnlock,
              tableVars, Types, TaskInv, Acceptable
<1>3. CASE Quiet
  BY <1>3 DEF Quiet
<1>4. QED BY <1>1, <1>2, <1>3, Changes

-----------------------------------------------------------------------------
(***************************************************************************)
(* The heap: every allocation is accounted for, so that the counters stay  *)
(* in range.                                                               *)
(***************************************************************************)
Counters == used \in 0 .. HeapMsgs /\ leaked \in 0 .. HeapMsgs

LEMMA SendersFinite ==
  /\ IsFiniteSet(Senders) /\ Cardinality(Senders) \in Nat
  /\ IsFiniteSet(Senders') /\ Cardinality(Senders') \in Nat
<1>1. IsFiniteSet(Clients) /\ Senders \in SUBSET Clients /\ Senders' \in SUBSET Clients
  BY TargetAssumption DEF Senders
<1>2. IsFiniteSet(Senders) /\ IsFiniteSet(Senders')
  BY <1>1, FS_Subset
<1>3. QED BY <1>2, FS_CardinalityType

\* A sender that begins, and one that ends, change their number by one.
LEMMA SendersCount ==
  ASSUME NEW c \in Clients, \A k \in Clients \ {c} : pc'[k] = pc[k]
  PROVE  /\ pc[c] # "send" /\ pc'[c] = "send" => Cardinality(Senders') = Cardinality(Senders) + 1
         /\ pc[c] = "send" /\ pc'[c] # "send" => Cardinality(Senders') = Cardinality(Senders) - 1
         /\ (pc[c] = "send" <=> pc'[c] = "send") => Cardinality(Senders') = Cardinality(Senders)
<1>1. ASSUME pc[c] # "send", pc'[c] = "send"
      PROVE  Cardinality(Senders') = Cardinality(Senders) + 1
  <2>1. Senders' = Senders \cup {c} /\ c \notin Senders BY <1>1 DEF Senders
  <2>2. QED BY <2>1, SendersFinite, FS_AddElement
<1>2. ASSUME pc[c] = "send", pc'[c] # "send"
      PROVE  Cardinality(Senders') = Cardinality(Senders) - 1
  <2>1. Senders' = Senders \ {c} /\ c \in Senders BY <1>2 DEF Senders
  <2>2. QED BY <2>1, SendersFinite, FS_RemoveElement
<1>3. ASSUME pc[c] = "send" <=> pc'[c] = "send" PROVE Cardinality(Senders') = Cardinality(Senders)
  <2>1. Senders' = Senders BY <1>3 DEF Senders
  <2>2. QED BY <2>1
<1>4. QED BY <1>1, <1>2, <1>3

LEMMA HeapInit == Init => Counters /\ HeapAccounted
<1> SUFFICES ASSUME Init PROVE Counters /\ HeapAccounted
  OBVIOUS
<1>1. Cardinality(Senders) = 0
  <2>1. Senders = {} BY DEF Init, Senders
  <2>2. QED BY <2>1, FS_EmptySet
<1>2. QED BY <1>1, TargetAssumption DEF Init, Counters, HeapAccounted, WithTask

LEMMA HeapStep ==
  ASSUME Types, TaskInv, ClientInv, Counters, HeapAccounted, [Next]_vars
  PROVE  Counters' /\ HeapAccounted'
<1> DEFINE n == Cardinality(Senders)
           Goal == Counters' /\ HeapAccounted'
<1> USE DEF Types, Counters
<1>0. /\ n \in Nat /\ n' \in Nat /\ Len(queue) \in Nat /\ WithTask \in 0 .. 1
      /\ HeapMsgs \in Nat /\ QueueLen \in Nat
  BY SendersFinite, TargetAssumption DEF WithTask
<1> HIDE DEF n
<1>1. CASE Reboot
  <2>1. Senders' = {} BY <1>1 DEF Reboot, Senders
  <2>2. n' = 0 BY <2>1, FS_EmptySet DEF n
  <2>3. QED BY <1>0, <1>1, <2>2 DEF Reboot, HeapAccounted, WithTask, n
<1>2. ASSUME up, TaskStep PROVE Goal
  <2>0. /\ up' = up /\ leaked' = leaked /\ n' = n
        /\ used = Len(queue) + WithTask + n + leaked
    BY <1>2 DEF TaskStep, TaskReceive, TaskLock, TaskWrite, TaskCalc, TaskPwm, TaskUnlock,
                clientVars, Senders, HeapAccounted, n
  <2>1. CASE TaskReceive
    <3>1. Len(queue') = Len(queue) - 1 /\ Len(queue) > 0 /\ WithTask = 0
      BY <2>1 DEF TaskReceive, WithTask
    <3>2. CASE Acceptable(Head(queue))
      <4>1. WithTask' = 1 /\ used' = used
        BY <2>1, <3>2 DEF TaskReceive, WithTask
      <4>2. QED BY <1>0, <2>0, <3>1, <4>1 DEF HeapAccounted, n
    <3>3. CASE ~Acceptable(Head(queue))
      <4>1. WithTask' = 0 /\ used' = used - 1
        BY <2>1, <3>3 DEF TaskReceive, taskVars, WithTask
      <4>2. QED BY <1>0, <2>0, <3>1, <4>1 DEF HeapAccounted, n
    <3>4. QED BY <3>2, <3>3
  <2>2. CASE TaskLock \/ TaskWrite \/ TaskCalc \/ TaskPwm
    <3>1. WithTask' = WithTask /\ used' = used /\ queue' = queue
      BY <2>2 DEF TaskLock, TaskWrite, TaskCalc, TaskPwm, TaskGoto, WithTask
    <3>2. QED BY <1>0, <2>0, <3>1 DEF HeapAccounted, n
  <2>3. CASE TaskUnlock
    <3>1. WithTask = 1 /\ WithTask' = 0 /\ used' = used - 1 /\ queue' = queue
      BY <2>3 DEF TaskUnlock, WithTask
    <3>2. QED BY <1>0, <2>0, <3>1 DEF HeapAccounted, n
  <2>4. QED BY <1>2, <2>1, <2>2, <2>3 DEF TaskStep
<1>3. ASSUME up, NEW c \in Clients, NEW m \in Sends[c], SendAlloc(c, m) PROVE Goal
  <2>1. /\ queue' = queue /\ leaked' = leaked /\ WithTask' = WithTask
        /\ used = Len(queue) + WithTask + n + leaked
    BY <1>3 DEF SendAlloc, taskVars, WithTask, HeapAccounted, n
  <2>2. CASE used < HeapMsgs
    <3>1. n' = n + 1 /\ used' = used + 1
      BY <1>3, <2>2, SendersCount DEF SendAlloc, Goto, n
    <3>2. QED BY <1>0, <2>1, <2>2, <3>1 DEF HeapAccounted, n
  <2>3. CASE ~(used < HeapMsgs)
    <3>1. n' = n /\ used' = used
      BY <1>3, <2>3, SendersCount DEF SendAlloc, SendFails, Goto, n
    <3>2. QED BY <1>0, <2>1, <3>1 DEF HeapAccounted, n
  <2>4. QED BY <2>2, <2>3
<1>4. ASSUME up, NEW c \in Clients, SendQueue(c) PROVE Goal
  <2>1. /\ Len(queue') = Len(queue) + 1 /\ leaked' = leaked /\ WithTask' = WithTask
        /\ used' = used /\ used = Len(queue) + WithTask + n + leaked
    BY <1>4 DEF SendQueue, taskVars, WithTask, HeapAccounted, ClientInv, n
  <2>2. n' = n - 1
    BY <1>4, SendersCount DEF SendQueue, Goto, n
  <2>3. QED BY <1>0, <2>1, <2>2 DEF HeapAccounted, n
<1>5. ASSUME up, NEW c \in Clients, SendTimeout(c) PROVE Goal
  <2>1. /\ queue' = queue /\ leaked' = leaked + 1 /\ WithTask' = WithTask
        /\ used' = used /\ used = Len(queue) + WithTask + n + leaked
    BY <1>5 DEF SendTimeout, taskVars, WithTask, HeapAccounted, n
  <2>2. n > 0
    <3>1. c \in Senders BY <1>5 DEF SendTimeout, Senders
    <3>2. QED BY <1>0, <3>1, SendersFinite, FS_EmptySet DEF n
  <2>3. up' => n' = n - 1
    <3>1. CASE c \in Checked BY <1>5, <3>1 DEF SendTimeout, SendFails
    <3>2. CASE c \notin Checked
      BY <1>5, <3>2, SendersCount DEF SendTimeout, SendFails, Goto, n
    <3>3. QED BY <3>1, <3>2
  <2>4. QED BY <1>0, <2>1, <2>2, <2>3 DEF HeapAccounted, n
<1>6. ASSUME up, NEW c \in Clients,
             \/ \E ch \in Reads[c] : GetCall(c, ch)
             \/ GetTake(c) \/ GetTimeout(c) \/ GetOutside(c)
             \/ GetCopy(c) \/ GetCopyRest(c) \/ GetGive(c) \/ Return(c)
      PROVE  Goal
  <2>1. /\ queue' = queue /\ leaked' = leaked /\ used' = used /\ WithTask' = WithTask
        /\ used = Len(queue) + WithTask + n + leaked
    BY <1>6 DEF GetCall, GetTake, GetTimeout, GetOutside, Abort, GetCopy, GetCopyRest, GetGive,
                Return, taskVars, WithTask, HeapAccounted, n
  <2>2. \A k \in Clients : pc[k] = "send" <=> pc'[k] = "send"
    BY <1>6 DEF GetCall, GetTake, GetTimeout, GetOutside, Abort, GetCopy, GetCopyRest, GetGive,
                Return, Goto, clientVars
  <2>3. n' = n
    BY <2>2 DEF Senders, n
  <2>4. QED BY <1>0, <2>1, <2>3 DEF HeapAccounted, n
<1>7. CASE Tick \/ UNCHANGED vars
  <2>1. /\ queue' = queue /\ leaked' = leaked /\ used' = used /\ taskPc' = taskPc
        /\ pc' = pc /\ up' = up
    BY <1>7 DEF Tick, vars, taskVars, clientVars
  <2>2. Senders' = Senders BY <2>1 DEF Senders
  <2>3. QED BY <2>1, <2>2 DEF HeapAccounted, WithTask
<1>8. QED
  BY <1>1, <1>2, <1>3, <1>4, <1>5, <1>6, <1>7 DEF Next, Proceed

-----------------------------------------------------------------------------
LEMMA UpInit == Init => up \in BOOLEAN
  BY Zenon DEF Init

LEMMA UpStep ==
  ASSUME up \in BOOLEAN, [Next]_vars
  PROVE  up' \in BOOLEAN
<1>1. up' = up \/ up' = TRUE \/ up' = FALSE
  BY DEF Next, Reboot, TaskStep, TaskReceive, TaskLock, TaskWrite, TaskCalc, TaskPwm, TaskUnlock,
         Tick, SendAlloc, SendFails, GetCall, Proceed, SendQueue, SendTimeout, GetTake, GetTimeout,
         GetOutside, Abort, GetCopy, GetCopyRest, GetGive, Return, vars
<1>2. QED BY <1>1, Zenon

LEMMA TypeParts == TypeOK <=> up \in BOOLEAN /\ Counters /\ Types
  BY DEF TypeOK, Counters, Types

LEMMA IInvInit == Init => IInv
<1>1. Init => PwmInv /\ CopyInv /\ CurveInv /\ DisabledKeepsFullDuty
  BY BootTypes DEF Init, PwmInv, CopyInv, CurveInv, DisabledKeepsFullDuty
<1>2. QED BY <1>1, UpInit, TypesInit, LockInit, HeapInit, TypeParts DEF IInv

LEMMA IInvStep == IInv /\ [Next]_vars => IInv'
<1> SUFFICES ASSUME IInv, [Next]_vars PROVE IInv'
  OBVIOUS
<1>1. /\ up \in BOOLEAN /\ Counters /\ Types /\ TaskInv /\ ClientInv
      /\ LockDiscipline /\ HeapAccounted /\ PwmInv /\ CopyInv /\ CurveInv
      /\ DisabledKeepsFullDuty
  BY TypeParts DEF IInv
<1>2. up' \in BOOLEAN /\ Types' /\ TaskInv' /\ ClientInv' /\ Counters' /\ HeapAccounted'
  BY <1>1, UpStep, TypesStep, HeapStep
<1>3. LockDiscipline' /\ PwmInv' /\ CopyInv' /\ CurveInv' /\ DisabledKeepsFullDuty'
  BY <1>1, LockStep, PwmStep, CopyStep, CurveStep, DisabledStep
<1>4. TypeOK'
  BY <1>2 DEF TypeOK, Counters, Types
<1>5. QED BY <1>2, <1>3, <1>4 DEF IInv

\* The conjunction holds of every reachable state.
THEOREM Invariance == Spec => []IInv
  BY IInvInit, IInvStep, PTL DEF Spec

\* Queue, heap and table stay within their types and sizes.
THEOREM TypeCorrect == Spec => []TypeOK
<1>1. IInv => TypeOK BY DEF IInv
<1>2. QED BY <1>1, Invariance, PTL

\* A channel's lock is held exactly by who is in its critical section.
THEOREM LocksDisciplined == Spec => []LockDiscipline
<1>1. IInv => LockDiscipline BY DEF IInv
<1>2. QED BY <1>1, Invariance, PTL

\* Every message the heap holds is with a sender, queued, with the task, or
\* was lost by a send that timed out.
THEOREM HeapAccounting == Spec => []HeapAccounted
<1>1. IInv => HeapAccounted BY DEF IInv
<1>2. QED BY <1>1, Invariance, PTL

\* A disabled channel keeps its boot record and full duty.
THEOREM DisabledAlone == Spec => []DisabledKeepsFullDuty
<1>1. IInv => DisabledKeepsFullDuty BY DEF IInv
<1>2. QED BY <1>1, Invariance, PTL

LEMMA PwmFollows == IInv => PwmFollowsDuty
<1> SUFFICES ASSUME IInv, NEW ch \in Channels, lock[ch] # TargetTask
             PROVE  pwm[ch] = targets[ch].duty
  BY DEF PwmFollowsDuty
<1>1. ~(taskPc = "pwm" /\ taskMsg.chan = ch)
  BY DEF IInv, LockDiscipline, TaskHolds
<1>2. QED BY <1>1 DEF IInv, PwmInv

\* The PWM is at the recorded duty whenever the task is not at work on the
\* channel.
THEOREM PwmFollowed == Spec => []PwmFollowsDuty
  BY PwmFollows, Invariance, PTL

LEMMA ReadIsWhole == IInv => NoTornRead
<1> SUFFICES ASSUME IInv, NEW c \in Clients, pc[c] = "give"
             PROVE  buf[c] = targets[req[c].chan]
  BY DEF NoTornRead
<1>1. buf[c] \in TargetData /\ targets[req[c].chan] \in TargetData
  BY TypeParts DEF IInv, Types, ClientInv
<1>2. /\ buf[c].duty = targets[req[c].chan].duty /\ buf[c].temp = targets[req[c].chan].temp
      /\ buf[c].rpm = targets[req[c].chan].rpm /\ buf[c].load = targets[req[c].chan].load
  BY DEF IInv, CopyInv
<1>3. QED BY <1>1, <1>2 DEF TargetData

\* What a reader returns is the record as it is when it gives the lock back.
THEOREM ReadsWhole == Spec => []NoTornRead
  BY ReadIsWhole, Invariance, PTL

\* While a channel's duty comes from a temperature, its fan runs at the duty
\* target_calc_duty gives the recorded one.
THEOREM CurveHolds == Spec => []CurveInForce
<1>1. IInv => CurveInForce
  <2> SUFFICES ASSUME IInv, NEW ch \in Channels, lock[ch] # TargetTask, source[ch] = "temp",
                      targets[ch].temp # 0
               PROVE  pwm[ch] = CalcDuty(channelConfig[ch], targets[ch].temp, FullDuty)
    BY DEF CurveInForce
  <2>1. ~(taskPc = "calc" /\ taskMsg.chan = ch)
    BY DEF IInv, LockDiscipline, TaskHolds
  <2>2. pwm[ch] = targets[ch].duty
    BY PwmFollows DEF PwmFollowsDuty
  <2>3. QED BY <2>1, <2>2 DEF IInv, CurveInv
<1>2. QED BY <1>1, Invariance, PTL
=============================================================================
