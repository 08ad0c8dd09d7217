------------------------------- MODULE Target -------------------------------
(***************************************************************************)
(* src/target.c: the task vTaskTarget, its queue, the lock of each channel *)
(* and the functions the other tasks call, one action per step another     *)
(* task can see between.  A client is one of those tasks: the TCP server,  *)
(* the REST server and the tachometer.                                     *)
(*                                                                         *)
(* A failed ESP_ERROR_CHECK aborts the firmware, which restarts: `up' is   *)
(* FALSE between the two.                                                  *)
(***************************************************************************)
EXTENDS Channel, Sequences, FiniteSets

CONSTANTS
  Clients,         \* the tasks that call the target component
  Sends,           \* the messages each client sends
  Reads,           \* the channel numbers each client reads
  Checked,         \* the clients that send inside ESP_ERROR_CHECK
  QueueLen,        \* the length of xTargetQueue, 10 in the code
  HeapMsgs,        \* the messages the heap has room for
  StaleAfter       \* the seconds after which data is stale, 5 in the code

Free       == "free"
TargetTask == "vTaskTarget"

ASSUME TargetAssumption ==
  /\ IsFiniteSet(Clients) /\ {Free, TargetTask} \cap Clients = {}
  /\ Sends \in [Clients -> SUBSET Msgs]
  /\ Reads \in [Clients -> SUBSET ChannelArgs]
  /\ Checked \subseteq Clients
  /\ QueueLen \in Nat \ {0}
  /\ HeapMsgs \in Nat \ {0}
  /\ StaleAfter \in Nat

VARIABLES
  up,              \* the firmware runs
  used,            \* how many messages are allocated
  queue,           \* xTargetQueue
  lock,            \* the holder of each targetLock[], Free if nobody
  targets,         \* targets[]
  age,             \* seconds since targets[].lastUpdate, at most StaleAfter + 1
  pwm,             \* the duty each LEDC channel was last told to fade to
  taskPc, taskMsg, \* vTaskTarget: its next step and the message it has
  pc,              \* each client's next step; "idle" outside of this component
  req,             \* the message it sends, or the channel it reads
  buf,             \* the target_t it reads into
  leaked,          \* history: messages no code can free any more
  source           \* history: what last set each channel's duty

taskVars   == <<taskPc, taskMsg>>
clientVars == <<pc, req, buf>>
tableVars  == <<targets, age, pwm, source>>
vars == <<up, used, queue, lock, tableVars, taskVars, clientVars, leaked>>

NoMsg == [kind |-> "none", chan |-> 0, val |-> 0]
Stale == StaleAfter + 1

(***************************************************************************)
(* StartTarget and StartPWM: an empty queue, free locks, every fan at full *)
(* duty; lastUpdate is 0, long ago.                                        *)
(***************************************************************************)
Init ==
  /\ up = TRUE
  /\ used = 0
  /\ queue = <<>>
  /\ lock = [ch \in Channels |-> Free]
  /\ targets = [ch \in Channels |-> BootTarget]
  /\ age = [ch \in Channels |-> Stale]
  /\ pwm = [ch \in Channels |-> FullDuty]
  /\ taskPc = "receive"
  /\ taskMsg = NoMsg
  /\ pc = [c \in Clients |-> "idle"]
  /\ req = [c \in Clients |-> NoMsg]
  /\ buf = [c \in Clients |-> BootTarget]
  /\ leaked = 0
  /\ source = [ch \in Channels |-> "boot"]

\* A failed ESP_ERROR_CHECK.
Abort ==
  /\ up' = FALSE
  /\ UNCHANGED <<used, queue, lock, tableVars, taskVars, clientVars, leaked>>

Reboot ==
  /\ ~up
  /\ up' = TRUE
  /\ used' = 0
  /\ queue' = <<>>
  /\ lock' = [ch \in Channels |-> Free]
  /\ targets' = [ch \in Channels |-> BootTarget]
  /\ age' = [ch \in Channels |-> Stale]
  /\ pwm' = [ch \in Channels |-> FullDuty]
  /\ taskPc' = "receive"
  /\ taskMsg' = NoMsg
  /\ pc' = [c \in Clients |-> "idle"]
  /\ req' = [c \in Clients |-> NoMsg]
  /\ buf' = [c \in Clients |-> BootTarget]
  /\ leaked' = 0
  /\ source' = [ch \in Channels |-> "boot"]

-----------------------------------------------------------------------------
(***************************************************************************)
(* vTaskTarget.                                                            *)
(***************************************************************************)
TaskGoto(step) == taskPc' = step /\ UNCHANGED taskMsg

BugTaskReceive ==
  /\ taskPc = "receive" /\ queue # <<>>
  /\ queue' = Tail(queue)
  /\ IF Acceptable(Head(queue)) THEN taskPc' = "lock" /\ taskMsg' = Head(queue) ELSE UNCHANGED taskVars
  /\ UNCHANGED <<up, used, lock, tableVars, clientVars, leaked>>

\* xQueueReceive and the tests of the switch.  A message that fails them is
\* freed at once.
TaskReceive ==
  /\ taskPc = "receive" /\ queue # <<>>
  /\ queue' = Tail(queue)
  /\ IF Acceptable(Head(queue))
     THEN taskPc' = "lock" /\ taskMsg' = Head(queue) /\ UNCHANGED used
     ELSE used' = used - 1 /\ UNCHANGED taskVars
  /\ UNCHANGED <<up, lock, tableVars, clientVars, leaked>>

TaskLock ==
  /\ taskPc = "lock" /\ lock[taskMsg.chan] = Free
  /\ lock' = [lock EXCEPT ![taskMsg.chan] = TargetTask]
  /\ TaskGoto("write")
  /\ UNCHANGED <<up, used, queue, tableVars, clientVars, leaked>>

\* The message's value goes into the record; a temperature stamps it.
TaskWrite ==
  /\ taskPc = "write"
  /\ targets' = [targets EXCEPT ![taskMsg.chan] = Written(@, taskMsg)]
  /\ IF taskMsg.kind = "temp"
     THEN /\ age' = [age EXCEPT ![taskMsg.chan] = 0]
          /\ TaskGoto("calc") /\ UNCHANGED source
     ELSE IF taskMsg.kind = "duty"
     THEN /\ source' = [source EXCEPT ![taskMsg.chan] = "duty"]
          /\ TaskGoto("pwm") /\ UNCHANGED age
     ELSE TaskGoto("unlock") /\ UNCHANGED <<age, source>>
  /\ UNCHANGED <<up, used, queue, lock, pwm, clientVars, leaked>>

BugTaskCalc ==
  /\ taskPc = "calc"
  /\ targets' = [targets EXCEPT ![taskMsg.chan] = WithCalcDuty(taskMsg.chan, @)]
  /\ age' = [age EXCEPT ![taskMsg.chan] = 0]
  /\ source' = [source EXCEPT ![taskMsg.chan] = "temp"]
  /\ TaskGoto("unlock")
  /\ UNCHANGED <<up, used, queue, lock, pwm, clientVars, leaked>>

\* target_calc_duty, which stamps the record again.  The PWM is told only of a
\* duty that changes.
TaskCalc ==
  /\ taskPc = "calc"
  /\ LET ch  == taskMsg.chan
         new == WithCalcDuty(ch, targets[ch])
     IN  /\ targets' = [targets EXCEPT ![ch] = new]
         /\ TaskGoto(IF new.duty = targets[ch].duty THEN "unlock" ELSE "pwm")
  /\ age' = [age EXCEPT ![taskMsg.chan] = 0]
  /\ source' = [source EXCEPT ![taskMsg.chan] = "temp"]
  /\ UNCHANGED <<up, used, queue, lock, pwm, clientVars, leaked>>

\* pwm_set_duty, which succeeds on a channel the tests let pass.
TaskPwm ==
  /\ taskPc = "pwm"
  /\ pwm' = [pwm EXCEPT ![taskMsg.chan] = targets[taskMsg.chan].duty]
  /\ TaskGoto("unlock")
  /\ UNCHANGED <<up, used, queue, lock, targets, age, source, clientVars, leaked>>

BugTaskUnlock ==
  /\ taskPc = "unlock"
  /\ used' = used - 1
  /\ taskPc' = "receive" /\ taskMsg' = NoMsg
  /\ UNCHANGED <<up, queue, lock, tableVars, clientVars, leaked>>

\* xSemaphoreGive and free.
TaskUnlock ==
  /\ taskPc = "unlock"
  /\ lock' = [lock EXCEPT ![taskMsg.chan] = Free]
  /\ used' = used - 1
  /\ taskPc' = "receive" /\ taskMsg' = NoMsg
  /\ UNCHANGED <<up, queue, tableVars, clientVars, leaked>>

TaskStep == TaskReceive \/ TaskLock \/ TaskWrite \/ TaskCalc \/ TaskPwm \/ TaskUnlock

-----------------------------------------------------------------------------
(***************************************************************************)
(* target_send_temp, target_send_duty, target_send_load, target_send_rpm:  *)
(* malloc, then xQueueSend, which waits 10 ticks for room.  On a failure   *)
(* the message stays allocated and its address is lost.                    *)
(***************************************************************************)
Goto(c, step) == pc' = [pc EXCEPT ![c] = step]

\* A send that returns ESP_FAIL: a client that checks it aborts.
SendFails(c) == IF c \in Checked THEN up' = FALSE /\ UNCHANGED pc
                ELSE Goto(c, "failed") /\ UNCHANGED up

SendAlloc(c, m) ==
  /\ pc[c] = "idle"
  /\ IF used < HeapMsgs
     THEN /\ used' = used + 1
          /\ req' = [req EXCEPT ![c] = m]
          /\ Goto(c, "send") /\ UNCHANGED up
     ELSE SendFails(c) /\ UNCHANGED <<used, req>>
  /\ UNCHANGED <<queue, lock, tableVars, taskVars, buf, leaked>>

BugSendQueue(c) ==
  /\ pc[c] = "send" /\ Len(queue) <= QueueLen
  /\ queue' = Append(queue, req[c])
  /\ Goto(c, "sent")
  /\ UNCHANGED <<up, used, lock, tableVars, taskVars, req, buf, leaked>>

SendQueue(c) ==
  /\ pc[c] = "send" /\ Len(queue) < QueueLen
  /\ queue' = Append(queue, req[c])
  /\ Goto(c, "sent")
  /\ UNCHANGED <<up, used, lock, tableVars, taskVars, req, buf, leaked>>

SendTimeout(c) ==
  /\ pc[c] = "send" /\ Len(queue) = QueueLen
  /\ leaked' = leaked + 1
  /\ SendFails(c)
  /\ UNCHANGED <<used, queue, lock, tableVars, taskVars, req, buf>>

-----------------------------------------------------------------------------
(***************************************************************************)
(* target_get_data.  Every caller has it inside ESP_ERROR_CHECK.           *)
(***************************************************************************)
\* The call's range check refuses what is above NUM_TARGETS, not what is
\* above the last channel.
GetCall(c, ch) ==
  /\ pc[c] = "idle"
  /\ IF ch > NumTargets
     THEN up' = FALSE /\ UNCHANGED <<pc, req>>
     ELSE /\ req' = [req EXCEPT ![c] = [NoMsg EXCEPT !.chan = ch]]
          /\ Goto(c, "take") /\ UNCHANGED up
  /\ UNCHANGED <<used, queue, lock, tableVars, taskVars, buf, leaked>>

BugGetTake(c) ==
  /\ pc[c] = "take" /\ req[c].chan \in Channels
  /\ lock' = [lock EXCEPT ![req[c].chan] = c]
  /\ Goto(c, "copy")
  /\ UNCHANGED <<up, used, queue, tableVars, taskVars, req, buf, leaked>>

GetTake(c) ==
  /\ pc[c] = "take" /\ req[c].chan \in Channels /\ lock[req[c].chan] = Free
  /\ lock' = [lock EXCEPT ![req[c].chan] = c]
  /\ Goto(c, "copy")
  /\ UNCHANGED <<up, used, queue, tableVars, taskVars, req, buf, leaked>>

BugGetTimeout(c) == FALSE

\* The lock was held for 100 ticks.
GetTimeout(c) ==
  /\ pc[c] = "take" /\ req[c].chan \in Channels /\ lock[req[c].chan] # Free
  /\ Abort

\* targetLock[NUM_TARGETS] and targets[NUM_TARGETS] do not exist.  Whatever
\* lies there, the call either ends the firmware or returns bytes of it.
GetOutside(c) ==
  /\ pc[c] = "take" /\ req[c].chan \notin Channels
  /\ \/ Abort
     \/ /\ Goto(c, "garbage")
        /\ UNCHANGED <<up, used, queue, lock, tableVars, taskVars, req, buf, leaked>>

\* memcpy, which another task can interrupt.
GetCopy(c) ==
  /\ pc[c] = "copy"
  /\ LET t == targets[req[c].chan] IN
       buf' = [buf EXCEPT ![c] = [@ EXCEPT !.duty = t.duty, !.temp = t.temp]]
  /\ Goto(c, "copyRest")
  /\ UNCHANGED <<up, used, queue, lock, tableVars, taskVars, req, leaked>>

GetCopyRest(c) ==
  /\ pc[c] = "copyRest"
  /\ LET t == targets[req[c].chan] IN
       buf' = [buf EXCEPT ![c] = [@ EXCEPT !.rpm = t.rpm, !.load = t.load]]
  /\ Goto(c, "give")
  /\ UNCHANGED <<up, used, queue, lock, tableVars, taskVars, req, leaked>>

GetGive(c) ==
  /\ pc[c] = "give"
  /\ lock' = [lock EXCEPT ![req[c].chan] = Free]
  /\ Goto(c, "got")
  /\ UNCHANGED <<up, used, queue, tableVars, taskVars, req, buf, leaked>>

\* The caller has what it asked for and goes on.
Return(c) ==
  /\ pc[c] \in {"sent", "failed", "got", "garbage"}
  /\ Goto(c, "idle")
  /\ req' = [req EXCEPT ![c] = NoMsg]
  /\ buf' = [buf EXCEPT ![c] = BootTarget]
  /\ UNCHANGED <<up, used, queue, lock, tableVars, taskVars, leaked>>

\* The steps of a call that has begun.
Proceed(c) ==
  \/ SendQueue(c) \/ SendTimeout(c)
  \/ GetTake(c) \/ GetTimeout(c) \/ GetOutside(c)
  \/ GetCopy(c) \/ GetCopyRest(c) \/ GetGive(c)
  \/ Return(c)

-----------------------------------------------------------------------------
\* A second passes.
Tick ==
  /\ \E ch \in Channels : age[ch] < Stale
  /\ age' = [ch \in Channels |-> IF age[ch] < Stale THEN age[ch] + 1 ELSE Stale]
  /\ UNCHANGED <<up, used, queue, lock, targets, pwm, source, taskVars, clientVars, leaked>>

Next ==
  \/ Reboot
  \/ /\ up
     /\ \/ TaskStep
        \/ Tick
        \/ \E c \in Clients :
             \/ Proceed(c)
             \/ \E m \in Sends[c] : SendAlloc(c, m)
             \/ \E ch \in Reads[c] : GetCall(c, ch)

Spec == Init /\ [][Next]_vars

-----------------------------------------------------------------------------
(***************************************************************************)
(* Fairness.  The scheduler runs every ready task, a restart completes and *)
(* seconds pass.  The waiters of a FreeRTOS mutex are served by priority   *)
(* and, these tasks having the same priority, in the order they came, so   *)
(* that vTaskTarget gets a lock that is released again and again.          *)
(* Nothing makes a client begin a call.                                    *)
(***************************************************************************)
Fairness ==
  /\ WF_vars(Reboot) /\ WF_vars(up /\ Tick)
  /\ WF_vars(up /\ TaskStep) /\ SF_vars(up /\ TaskLock)
  /\ \A c \in Clients : WF_vars(up /\ Proceed(c))

LiveSpec == Spec /\ Fairness

-----------------------------------------------------------------------------
TaskPcs   == {"receive", "lock", "write", "calc", "pwm", "unlock"}
ClientPcs == {"idle", "send", "sent", "failed", "take", "copy", "copyRest", "give", "got", "garbage"}

\* Every variable stays in its range: the queue holds messages within its
\* length, duties stay uint8_t, the heap within its size.
TypeOK ==
  /\ up \in BOOLEAN
  /\ used \in 0 .. HeapMsgs /\ leaked \in 0 .. HeapMsgs
  /\ queue \in Seq(Msgs) /\ Len(queue) <= QueueLen
  /\ lock \in [Channels -> Clients \cup {Free, TargetTask}]
  /\ targets \in [Channels -> TargetData]
  /\ age \in [Channels -> 0 .. Stale]
  /\ pwm \in [Channels -> Duty]
  /\ taskPc \in TaskPcs /\ taskMsg \in Msgs \cup {NoMsg}
  /\ pc \in [Clients -> ClientPcs]
  /\ req \in [Clients -> [kind: Kinds \cup {"none"}, chan: ChannelArgs, val: Int]]
  /\ buf \in [Clients -> TargetData]
  /\ source \in [Channels -> {"boot", "temp", "duty"}]

TaskHolds(ch)   == taskPc \in {"write", "calc", "pwm", "unlock"} /\ taskMsg.chan = ch
ClientHolds(c, ch) == pc[c] \in {"copy", "copyRest", "give"} /\ req[c].chan = ch

\* A lock is held exactly by the task or the one client whose next step is in
\* its critical section: no path leaves with the lock, and nobody gives back
\* a lock that is another's.
LockDiscipline ==
  \A ch \in Channels :
    /\ lock[ch] = TargetTask <=> TaskHolds(ch)
    /\ \A c \in Clients : lock[ch] = c <=> ClientHolds(c, ch)

\* The fan's PWM is the duty the table shows, whenever vTaskTarget is not at
\* work on the channel: target_calc_duty skips the PWM only when it may.
PwmFollowsDuty ==
  \A ch \in Channels : lock[ch] # TargetTask => pwm[ch] = targets[ch].duty

\* A reader's copy is the record of its channel at the moment it gives the
\* lock back: no mixture of the record before and after a message.
NoTornRead ==
  \A c \in Clients : pc[c] = "give" => buf[c] = targets[req[c].chan]

\* While the firmware runs, every allocated message is in one place (with a
\* sender, in the queue, with vTaskTarget), and what is in no place was lost
\* by a send that timed out: no path through vTaskTarget frees a message twice
\* or forgets it.
Senders  == {c \in Clients : pc[c] = "send"}
WithTask == IF taskPc = "receive" THEN 0 ELSE 1

HeapAccounted ==
  up => used = Len(queue) + WithTask + Cardinality(Senders) + leaked

\* A disabled channel keeps the record and the full duty it booted with,
\* whatever is sent to it.
DisabledKeepsFullDuty ==
  \A ch \in Channels :
    ~channelConfig[ch].enabled => targets[ch] = BootTarget /\ pwm[ch] = FullDuty

\* While a channel's duty comes from a temperature, its fan runs at what the
\* fan curve says of the recorded temperature: load and speed reports and
\* messages for other channels leave it in force, and a duty set by hand
\* lasts until the next temperature.  (A temperature of exactly 0 is apart:
\* what the curve then says depends on the duty before.)
CurveInForce ==
  \A ch \in Channels :
    lock[ch] # TargetTask /\ source[ch] = "temp" /\ targets[ch].temp # 0 =>
      pwm[ch] = CalcDuty(channelConfig[ch], targets[ch].temp, FullDuty)

-----------------------------------------------------------------------------
(***************************************************************************)
(* The inductive invariant: what the steps between a lock and an unlock    *)
(* know and the properties above do not say.                               *)
(***************************************************************************)
\* The task works on messages its tests let pass, and computes a duty only
\* for a temperature.
TaskInv ==
  /\ taskPc # "receive" => taskMsg \in Msgs /\ Acceptable(taskMsg)
  /\ taskPc = "calc" => taskMsg.kind = "temp"

\* A sender has one of its messages; a reader has one of its channels, which
\* exists once it is beyond the lock.
ClientInv ==
  \A c \in Clients :
    /\ pc[c] = "send" => req[c] \in Sends[c]
    /\ pc[c] \in {"take", "copy", "copyRest", "give"} => req[c].chan \in Reads[c]
    /\ pc[c] = "take" => req[c].chan <= NumTargets
    /\ pc[c] \in {"copy", "copyRest", "give"} => req[c].chan \in Channels

\* Only between a new duty and pwm_set_duty do the table and the PWM differ.
PwmInv ==
  \A ch \in Channels :
    ~(taskPc = "pwm" /\ taskMsg.chan = ch) => pwm[ch] = targets[ch].duty

\* What is copied so far is what the table holds.
CopyInv ==
  \A c \in Clients :
    LET t == targets[req[c].chan] IN
    /\ pc[c] \in {"copyRest", "give"} => buf[c].duty = t.duty /\ buf[c].temp = t.temp
    /\ pc[c] = "give" => buf[c].rpm = t.rpm /\ buf[c].load = t.load

\* Only between a new temperature and its duty is the curve out of force.
CurveInv ==
  \A ch \in Channels :
    source[ch] = "temp" =>
      /\ channelConfig[ch].enabled
      /\ targets[ch].temp # 0 /\ ~(taskPc = "calc" /\ taskMsg.chan = ch) =>
           targets[ch].duty = CalcDuty(channelConfig[ch], targets[ch].temp, FullDuty)

\* All of it: every step of Spec preserves this conjunction.
IInv ==
  /\ TypeOK /\ TaskInv /\ ClientInv /\ LockDiscipline /\ HeapAccounted
  /\ PwmInv /\ CopyInv /\ CurveInv /\ DisabledKeepsFullDuty

-----------------------------------------------------------------------------
(***************************************************************************)
(* Target implements FanChannels.  A message takes effect when vTaskTarget *)
(* takes the lock (or drops it): from there to the last assignment the     *)
(* abstract record is already what the remaining steps will make of it.    *)
(***************************************************************************)
AbsPending == IF taskPc = "lock" THEN <<taskMsg>> \o queue ELSE queue

AbsChans ==
  [ch \in Channels |->
     IF taskPc = "write" /\ taskMsg.chan = ch THEN Updated(ch, targets[ch], taskMsg)
     ELSE IF taskPc = "calc" /\ taskMsg.chan = ch THEN WithCalcDuty(ch, targets[ch])
     ELSE targets[ch]]

AbsReply ==
  [c \in Clients |->
     IF pc[c] = "got" THEN [status |-> "read", data |-> buf[c]]
     ELSE [status |-> IF pc[c] = "sent" THEN "accepted"
                      ELSE IF pc[c] \in {"failed", "garbage"} THEN pc[c]
                      ELSE "none",
           data   |-> BootTarget]]

Abs == INSTANCE FanChannels WITH pending <- AbsPending, chans <- AbsChans, reply <- AbsReply

\* The task, its queue and its locks behave as FanChannels says: an accepted
\* request takes effect once, in order and in one step, a refused one never,
\* a read is of one moment.
Implements == Abs!Spec

-----------------------------------------------------------------------------
\* Every call comes back: a send waits 10 ticks at most, a read 100, and a
\* holder of a lock gives it back.
EveryCallReturns == \A c \in Clients : pc[c] # "idle" ~> pc[c] = "idle"

\* Once the clients stop calling, the queue drains and every fan ends at the
\* duty its record shows.
QuietMeansSettled ==
  <>[](\A c \in Clients : pc[c] = "idle")
    => <>[](queue = <<>> /\ \A ch \in Channels : lock[ch] = Free /\ pwm[ch] = targets[ch].duty)

\* "Checking for Stale Data": a channel that has heard no temperature for more
\* than StaleAfter seconds gets full duty, unless it hears one meanwhile.
StaleGetsFullDuty ==
  \A ch \in Channels :
    channelConfig[ch].enabled /\ age[ch] > StaleAfter ~> pwm[ch] = FullDuty \/ age[ch] = 0

\* "Invalid channel": target_get_data refuses a channel that does not exist.
InvalidChannelRefused ==
  \A c \in Clients : pc[c] = "take" => req[c].chan \in Channels
=============================================================================
