------------------------------- MODULE Tacho -------------------------------
(***************************************************************************)
(* src/tacho.c: one pulse counter, switched from fan to fan.  A one-shot   *)
(* timer ends a window of 200 ms; its callback, in the timer task, stops   *)
(* the counter and queues the count; the task vTaskTacho reports it,       *)
(* switches to the next fan and starts the next window.                    *)
(***************************************************************************)
EXTENDS Integers, Sequences

CONSTANTS
  NumTargets,      \* 6 in the code, which compares with 5 here
  TachoQueueLen,   \* the length of xTachoQueue, 10 in the code
  MaxPulses        \* bound: the pulses of one window

ASSUME TachoAssumption ==
  NumTargets \in Nat \ {0} /\ TachoQueueLen \in Nat \ {0} /\ MaxPulses \in Nat

Channels == 0 .. NumTargets - 1

VARIABLES
  up,              \* the firmware runs
  curChan,         \* the fan being measured
  pin,             \* the fan whose pin the counter is connected to
  counting,        \* the counter is not paused
  counter,         \* its value, and (history) the fans whose pulses it counted
  timer,           \* "armed", "callback" while the callback runs, else "idle"
  queue,           \* xTachoQueue: values of the counter
  pc, msg,         \* vTaskTacho: its next step and the event it has
  speed            \* the value behind each fan's last report

vars == <<up, curChan, pin, counting, counter, timer, queue, pc, msg, speed>>

Zero == [count |-> 0, fans |-> {}]

\* StartTacho leaves the counter paused and cleared; the task begins by
\* arming its timer, so that the first window counts nothing.
Init ==
  /\ up = TRUE /\ curChan = 0 /\ pin = 0
  /\ counting = FALSE /\ counter = Zero
  /\ timer = "idle" /\ queue = <<>>
  /\ pc = "arm" /\ msg = Zero
  /\ speed = [ch \in Channels |-> Zero]

\* A failed ESP_ERROR_CHECK aborts the firmware, which restarts.
Reboot ==
  /\ ~up
  /\ up' = TRUE /\ curChan' = 0 /\ pin' = 0
  /\ counting' = FALSE /\ counter' = Zero
  /\ timer' = "idle" /\ queue' = <<>>
  /\ pc' = "arm" /\ msg' = Zero
  /\ speed' = [ch \in Channels |-> Zero]

-----------------------------------------------------------------------------
Pulse ==
  /\ counting /\ counter.count < MaxPulses
  /\ counter' = [count |-> counter.count + 1, fans |-> counter.fans \cup {pin}]
  /\ UNCHANGED <<up, curChan, pin, counting, timer, queue, pc, msg, speed>>

\* TachoCallback begins: the counter stops.
TimerFires ==
  /\ timer = "armed"
  /\ timer' = "callback"
  /\ counting' = FALSE
  /\ UNCHANGED <<up, curChan, pin, counter, queue, pc, msg, speed>>

BugCallbackSend ==
  /\ timer = "callback"
  /\ queue' = IF Len(queue) < TachoQueueLen THEN Append(queue, counter) ELSE queue
  /\ timer' = "armed"
  /\ UNCHANGED <<up, curChan, pin, counting, counter, pc, msg, speed>>

\* It reads the counter and queues the value, unless the queue is full.
CallbackSend ==
  /\ timer = "callback"
  /\ queue' = IF Len(queue) < TachoQueueLen THEN Append(queue, counter) ELSE queue
  /\ timer' = "idle"
  /\ UNCHANGED <<up, curChan, pin, counting, counter, pc, msg, speed>>

-----------------------------------------------------------------------------
\* Faulty: a window without pulses is reported too.
BugTaskReceive ==
  /\ pc = "receive" /\ queue # <<>>
  /\ msg' = Head(queue) /\ queue' = Tail(queue)
  /\ pc' = "report"
  /\ UNCHANGED <<up, curChan, pin, counting, counter, timer, speed>>

\* xQueueReceive; its timeout only tries again.  No pulses, no report.
TaskReceive ==
  /\ pc = "receive" /\ queue # <<>>
  /\ msg' = Head(queue) /\ queue' = Tail(queue)
  /\ pc' = IF Head(queue).count > 0 THEN "report" ELSE "next"
  /\ UNCHANGED <<up, curChan, pin, counting, counter, timer, speed>>

\* target_send_rpm, whose failure aborts.
TaskReport ==
  /\ pc = "report"
  /\ \/ /\ speed' = [speed EXCEPT ![curChan] = msg]
        /\ pc' = "next" /\ UNCHANGED up
     \/ up' = FALSE /\ UNCHANGED <<speed, pc>>
  /\ UNCHANGED <<curChan, pin, counting, counter, timer, queue, msg>>

BugNextChan(ch)  == IF ch + 1 > NumTargets THEN 0 ELSE ch + 1
BugSkipChan(ch)  == IF ch + 1 > NumTargets - 2 THEN 0 ELSE ch + 1

NextChan(ch) == IF ch + 1 > NumTargets - 1 THEN 0 ELSE ch + 1

\* curChan is this task's alone; pcnt_set_pin connects the counter to its fan.
TaskSetPin ==
  /\ pc = "next"
  /\ curChan' = NextChan(curChan) /\ pin' = curChan'
  /\ pc' = "clear"
  /\ UNCHANGED <<up, counting, counter, timer, queue, msg, speed>>

BugTaskClear ==
  /\ pc = "clear" /\ pc' = "resume"
  /\ UNCHANGED <<up, curChan, pin, counting, counter, timer, queue, msg, speed>>

TaskClear ==
  /\ pc = "clear" /\ pc' = "resume"
  /\ counter' = Zero
  /\ UNCHANGED <<up, curChan, pin, counting, timer, queue, msg, speed>>

TaskResume ==
  /\ pc = "resume" /\ pc' = "arm"
  /\ counting' = TRUE
  /\ UNCHANGED <<up, curChan, pin, counter, timer, queue, msg, speed>>

\* esp_timer_start_once, which a running timer would refuse (and the check of
\* it abort).
TaskArm ==
  /\ pc = "arm"
  /\ IF timer = "armed" THEN up' = FALSE /\ UNCHANGED <<pc, timer>>
     ELSE pc' = "receive" /\ timer' = "armed" /\ UNCHANGED up
  /\ UNCHANGED <<curChan, pin, counting, counter, queue, msg, speed>>

TaskStep == TaskReceive \/ TaskReport \/ TaskSetPin \/ TaskClear \/ TaskResume \/ TaskArm

Next ==
  \/ Reboot
  \/ up /\ (Pulse \/ TimerFires \/ CallbackSend \/ TaskStep)

Spec == Init /\ [][Next]_vars

\* The timer expires, the timer task and vTaskTacho are scheduled, a restart
\* completes.  No pulse need ever come.
Fairness ==
  /\ WF_vars(Reboot) /\ WF_vars(up /\ TimerFires)
  /\ WF_vars(up /\ CallbackSend) /\ WF_vars(up /\ TaskStep)

LiveSpec == Spec /\ Fairness

-----------------------------------------------------------------------------
Values == [count: 0 .. MaxPulses, fans: SUBSET Channels]

\* The ranges of the variables: curChan stays a fan's number.
TypeOK ==
  /\ up \in BOOLEAN /\ curChan \in Channels /\ pin \in Channels
  /\ counting \in BOOLEAN /\ counter \in Values
  /\ timer \in {"idle", "armed", "callback"}
  /\ queue \in Seq(Values) /\ Len(queue) <= TachoQueueLen
  /\ pc \in {"receive", "report", "next", "clear", "resume", "arm"} /\ msg \in Values
  /\ speed \in [Channels -> Values]

\* The measurement is always in exactly one place: with the timer, in the
\* queue, or with vTaskTacho.  So the one-shot timer is never armed twice, the
\* event never finds the queue full, and neither of the two tasks waits for
\* the other for ever.
OneMeasurement ==
  \/ pc = "receive" /\ timer = "idle" /\ Len(queue) = 1
  \/ pc = "receive" /\ timer # "idle" /\ queue = <<>>
  \/ pc # "receive" /\ timer = "idle" /\ queue = <<>>

\* A speed reported for a fan was counted from that fan's pulses alone, though
\* fan, counter and report are changed by two tasks.
SpeedOfItsFan == \A ch \in Channels : speed[ch].fans \subseteq {ch}

\* What the counter and the values on their way to the report hold.
OwnPulses ==
  /\ pin = curChan
  /\ pc \in {"resume", "arm"} \/ timer # "idle" \/ queue # <<>> => counter.fans \subseteq {curChan}
  /\ \A i \in 1 .. Len(queue) : queue[i].fans \subseteq {curChan}
  /\ pc = "report" => msg.fans \subseteq {curChan}

\* The inductive invariant.
IInv == TypeOK /\ OneMeasurement /\ OwnPulses /\ SpeedOfItsFan

-----------------------------------------------------------------------------
(***************************************************************************)
(* Tacho implements FanWindows.  The turn passes with the last thing that  *)
(* is done with a count: its report, or finding that there is none.        *)
(***************************************************************************)
Between == pc \in {"next", "clear", "resume"}

AbsFan    == IF pc = "next" THEN NextChan(curChan) ELSE pin
AbsWindow == IF counting THEN "open" ELSE IF Between THEN "ready" ELSE "closed"
AbsCount  == IF Between THEN 0 ELSE counter.count
AbsSpeed  == [ch \in Channels |-> speed[ch].count]

Abs == INSTANCE FanWindows WITH
  NumFans <- NumTargets, fan <- AbsFan, window <- AbsWindow, count <- AbsCount, speed <- AbsSpeed

\* The fans are measured in turn, and each window's pulses are reported once
\* and under their own fan, whatever timer, queue and task do in between.
ImplementsWindows == Abs!Spec

\* Every fan is measured again and again, unless the firmware restarts for
\* ever: the chain from timer to queue to task to timer never breaks.
EveryFanMeasured ==
  (\A ch \in Channels : []<>(timer = "armed" /\ counting /\ curChan = ch)) \/ []<>~up
=============================================================================
