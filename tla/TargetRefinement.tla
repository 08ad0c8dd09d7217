-------------------------- MODULE TargetRefinement --------------------------
(***************************************************************************)
(* Target implements FanChannels: every step of the task and of its        *)
(* clients is a step of the abstract specification, or none.               *)
(***************************************************************************)
EXTENDS TargetProofs, SequenceTheorems

\* The head of a queue and the rest make the queue.
LEMMA HeadAndTail ==
  ASSUME NEW S, NEW q \in Seq(S), q # <<>>
  PROVE  <<Head(q)>> \o Tail(q) = q
<1>1. /\ Head(q) \in S /\ Tail(q) \in Seq(S) /\ Len(Tail(q)) = Len(q) - 1
      /\ \A i \in 1 .. Len(Tail(q)) : Tail(q)[i] = q[i + 1]
      /\ Len(q) \in Nat /\ Head(q) = q[1]
  BY HeadTailProperties
<1>2. <<Head(q)>> \in Seq(S) /\ Len(<<Head(q)>>) = 1 /\ <<Head(q)>>[1] = q[1]
  BY <1>1
<1>3. /\ <<Head(q)>> \o Tail(q) \in Seq(S)
      /\ Len(<<Head(q)>> \o Tail(q)) = Len(q)
      /\ \A i \in 1 .. Len(q) : (<<Head(q)>> \o Tail(q))[i] =
           IF i <= 1 THEN <<Head(q)>>[i] ELSE Tail(q)[i - 1]
  BY <1>1, <1>2, ConcatProperties
<1>4. \A i \in 1 .. Len(q) : (<<Head(q)>> \o Tail(q))[i] = q[i]
  BY <1>1, <1>2, <1>3
<1>5. QED BY <1>3, <1>4, SeqEqual

\* A message before the queue is its head.
LEMMA PutBefore ==
  ASSUME NEW S, NEW x \in S, NEW q \in Seq(S)
  PROVE  /\ <<x>> \o q # <<>> /\ Head(<<x>> \o q) = x /\ Tail(<<x>> \o q) = q
         /\ Len(<<x>> \o q) = Len(q) + 1
         /\ \A y \in S : <<x>> \o Append(q, y) = Append(<<x>> \o q, y)
<1>1. <<x>> \in Seq(S) /\ Len(<<x>>) = 1 /\ <<x>>[1] = x /\ Len(q) \in Nat
  OBVIOUS
<1>2. /\ <<x>> \o q \in Seq(S) /\ Len(<<x>> \o q) = Len(q) + 1
      /\ \A i \in 1 .. Len(q) + 1 : (<<x>> \o q)[i] = IF i <= 1 THEN <<x>>[i] ELSE q[i - 1]
  BY <1>1, ConcatProperties
<1>3. <<x>> \o q # <<>> /\ Head(<<x>> \o q) = x
  BY <1>1, <1>2
<1>4. Tail(<<x>> \o q) = q
  <2>1. /\ Tail(<<x>> \o q) \in Seq(S) /\ Len(Tail(<<x>> \o q)) = Len(q)
        /\ \A i \in 1 .. Len(q) : Tail(<<x>> \o q)[i] = (<<x>> \o q)[i + 1]
    BY <1>1, <1>2, <1>3, HeadTailProperties
  <2>2. \A i \in 1 .. Len(q) : Tail(<<x>> \o q)[i] = q[i]
    BY <1>1, <1>2, <2>1
  <2>3. QED BY <2>1, <2>2, SeqEqual
<1>5. ASSUME NEW y \in S PROVE <<x>> \o Append(q, y) = Append(<<x>> \o q, y)
  <2>1. Append(q, y) = q \o <<y>> /\ Append(<<x>> \o q, y) = (<<x>> \o q) \o <<y>> /\ <<y>> \in Seq(S)
    BY <1>2, AppendIsConcat
  <2>2. QED BY <1>1, <2>1, ConcatAssociative
<1>6. QED BY <1>2, <1>3, <1>4, <1>5

\* The instance's operators are this module's.
LEMMA SameOperators ==
  /\ Abs!Channels = Channels /\ Abs!BootTarget = BootTarget
  /\ \A m : Abs!Acceptable(m) = Acceptable(m)
  /\ \A ch, t, m : Abs!Updated(ch, t, m) = Updated(ch, t, m)
<1>1. Abs!Channels = Channels /\ Abs!BootTarget = BootTarget
  BY DEF Abs!Channels, Channels, Abs!BootTarget, BootTarget, Abs!FullDuty, FullDuty
<1>2. \A m : Abs!Acceptable(m) = Acceptable(m)
  BY Zenon DEF Abs!Acceptable, Acceptable, Abs!Channels, Channels
<1>3. \A t, m : Abs!Written(t, m) = Written(t, m)
  BY DEF Abs!Written, Written
<1>4. \A cfg, temp, duty : Abs!CalcDuty(cfg, temp, duty) = CalcDuty(cfg, temp, duty)
  BY Zenon DEF Abs!CalcDuty, CalcDuty, Abs!FullDuty, FullDuty, Abs!Low, Low, Abs!High, High, Abs!AtLeast,
         AtLeast, Abs!UInt8, UInt8, Abs!Ramp, Ramp, Abs!TempOffset, TempOffset, Abs!TempRange,
         TempRange
<1>5. \A ch, t : Abs!WithCalcDuty(ch, t) = WithCalcDuty(ch, t)
  BY <1>4 DEF Abs!WithCalcDuty, WithCalcDuty
<1>6. \A ch, t, m : Abs!Updated(ch, t, m) = Updated(ch, t, m)
  BY <1>3, <1>5, Zenon DEF Abs!Updated, Updated
<1>7. QED BY <1>1, <1>2, <1>6

\* The status a client's program counter shows.
Status(step) == IF step = "got" THEN "read"
                ELSE IF step = "sent" THEN "accepted"
                ELSE IF step \in {"failed", "garbage"} THEN step
                ELSE "none"

LEMMA ReplyOf ==
  \A c \in Clients :
    AbsReply[c] = [status |-> Status(pc[c]), data |-> IF pc[c] = "got" THEN buf[c] ELSE BootTarget]
  BY DEF AbsReply, Status

\* A step that shows the clients nothing new leaves the replies alone.
LEMMA ReplyFrame ==
  ASSUME \A c \in Clients : Status(pc'[c]) = Status(pc[c]) /\ (pc'[c] = "got" => pc[c] = "got"),
         \A c \in Clients : pc[c] = "got" => buf'[c] = buf[c]
  PROVE  AbsReply' = AbsReply
<1>1. \A c \in Clients : pc[c] = "got" <=> pc'[c] = "got"
  BY DEF Status
<1>2. QED BY <1>1 DEF AbsReply, Status

\* A step that shows client c something new changes its reply alone.
LEMMA ReplyChange ==
  ASSUME NEW c \in Clients,
         \A k \in Clients \ {c} : pc'[k] = pc[k] /\ buf'[k] = buf[k]
  PROVE  AbsReply' = [AbsReply EXCEPT ![c] =
           [status |-> Status(pc'[c]), data |-> IF pc'[c] = "got" THEN buf'[c] ELSE BootTarget]]
  BY DEF AbsReply, Status

\* A task's step that has taken effect, or takes none, is invisible.
LEMMA TaskRefines ==
  ASSUME IInv, TaskStep
  PROVE  Abs!Apply \/ UNCHANGED <<AbsPending, AbsChans, AbsReply>>
<1>0. /\ Types /\ TaskInv /\ AbsReply' = AbsReply
  <2>1. UNCHANGED clientVars
    BY DEF TaskStep, TaskReceive, TaskLock, TaskWrite, TaskCalc, TaskPwm, TaskUnlock
  <2>2. QED BY <2>1, TypeParts, ReplyFrame DEF clientVars, IInv
<1> USE DEF Types
<1>1. CASE TaskReceive
  <2>1. AbsPending = queue /\ AbsChans' = AbsChans
    BY <1>0, <1>1 DEF TaskReceive, AbsPending, AbsChans, tableVars, taskVars
  <2>2. CASE Acceptable(Head(queue))
    <3>1. AbsPending' = <<Head(queue)>> \o Tail(queue)
      BY <1>1, <2>2 DEF TaskReceive, AbsPending
    <3>2. AbsPending' = queue
      BY <1>0, <1>1, <3>1, HeadAndTail DEF TaskReceive
    <3>3. QED BY <1>0, <2>1, <3>2
  <2>3. CASE ~Acceptable(Head(queue))
    <3>1. AbsPending' = Tail(queue)
      BY <1>1, <2>3 DEF TaskReceive, AbsPending, taskVars
    <3>2. QED BY <1>0, <1>1, <2>1, <2>3, <3>1, SameOperators DEF TaskReceive, Abs!Apply
  <2>4. QED BY <2>2, <2>3
<1>2. CASE TaskLock
  <2> DEFINE ch == taskMsg.chan
  <2>1. taskMsg \in Msgs /\ Acceptable(taskMsg) /\ ch \in Channels
    BY <1>0, <1>2 DEF TaskLock, TaskInv, Acceptable
  <2>2. AbsPending = <<taskMsg>> \o queue /\ AbsPending' = queue
    BY <1>2 DEF TaskLock, TaskGoto, AbsPending
  <2>3. AbsPending # <<>> /\ Head(AbsPending) = taskMsg /\ AbsPending' = Tail(AbsPending)
    BY <1>0, <2>1, <2>2, PutBefore
  <2>4. AbsChans = targets
    BY <1>0, <1>2 DEF TaskLock, AbsChans
  <2>5. AbsChans' = [AbsChans EXCEPT ![ch] = Updated(ch, AbsChans[ch], taskMsg)]
    BY <1>0, <1>2, <2>1, <2>4 DEF TaskLock, TaskGoto, AbsChans, tableVars
  <2>6. QED BY <1>0, <2>1, <2>3, <2>5, SameOperators DEF Abs!Apply
<1>3. CASE TaskWrite
  <2> DEFINE ch == taskMsg.chan
  <2>1. taskMsg \in Msgs /\ ch \in Channels /\ AbsPending' = AbsPending /\ taskMsg' = taskMsg
    BY <1>0, <1>3 DEF TaskWrite, TaskGoto, TaskInv, Acceptable, AbsPending
  <2>2. /\ targets'[ch] = Written(targets[ch], taskMsg)
        /\ \A k \in Channels \ {ch} : targets'[k] = targets[k]
    BY <1>0, <1>3, <2>1 DEF TaskWrite
  <2>3. CASE taskMsg.kind = "temp"
    BY <1>0, <1>3, <2>1, <2>2, <2>3 DEF TaskWrite, TaskGoto, AbsChans, Updated
  <2>4. CASE taskMsg.kind # "temp"
    BY <1>0, <1>3, <2>1, <2>2, <2>4 DEF TaskWrite, TaskGoto, AbsChans, Updated
  <2>5. QED BY <2>3, <2>4
<1>4. CASE TaskCalc
  <2>1. taskMsg.chan \in Channels /\ AbsPending' = AbsPending
    BY <1>0, <1>4 DEF TaskCalc, TaskGoto, TaskInv, Acceptable, AbsPending
  <2>2. AbsChans' = AbsChans
    BY <1>0, <1>4, <2>1 DEF TaskCalc, TaskGoto, AbsChans
  <2>3. QED BY <1>0, <2>1, <2>2
<1>5. CASE TaskPwm \/ TaskUnlock
  BY <1>0, <1>5 DEF TaskPwm, TaskUnlock, TaskGoto, AbsPending, AbsChans, tableVars
<1>6. QED BY <1>1, <1>2, <1>3, <1>4, <1>5 DEF TaskStep

\* A client whose call has returned nothing yet may get an answer; the answer
\* is what its program counter and buffer then show.
LEMMA AnswerOf ==
  ASSUME NEW c \in Clients, Status(pc[c]) = "none", Status(pc'[c]) # "none",
         \A k \in Clients \ {c} : pc'[k] = pc[k] /\ buf'[k] = buf[k]
  PROVE  /\ pc'[c] # "got" => Abs!Answer(c, Abs!Outcome(Status(pc'[c])))
         /\ pc'[c] = "got" => Abs!Answer(c, Abs!Got(buf'[c]))
<1>1. pc[c] # "got"
  BY DEF Status
<1>2. AbsReply[c] = Abs!None
  BY <1>1, ReplyOf, SameOperators DEF Abs!None, Abs!Outcome
<1>3. CASE pc'[c] # "got"
  <2>1. AbsReply' = [AbsReply EXCEPT ![c] = Abs!Outcome(Status(pc'[c]))]
    BY <1>3, ReplyChange, SameOperators DEF Abs!Outcome
  <2>2. QED BY <1>2, <1>3, <2>1 DEF Abs!Answer
<1>4. CASE pc'[c] = "got"
  <2>1. AbsReply' = [AbsReply EXCEPT ![c] = Abs!Got(buf'[c])]
    BY <1>4, ReplyChange DEF Abs!Got, Status
  <2>2. QED BY <1>2, <1>4, <2>1 DEF Abs!Answer
<1>5. QED BY <1>3, <1>4

AbsStep == Abs!Next \/ UNCHANGED <<AbsPending, AbsChans, AbsReply>>

\* A client's step outside of the task leaves the pending messages and the
\* records alone, unless it queues one.
LEMMA ClientFrame ==
  ASSUME UNCHANGED taskVars, UNCHANGED targets
  PROVE  AbsChans' = AbsChans /\ (queue' = queue => AbsPending' = AbsPending)
  BY DEF taskVars, AbsChans, AbsPending

\* A send that fails is a refusal, unless its client checks it.
LEMMA FailRefines ==
  ASSUME Types, NEW c \in Clients, Status(pc[c]) = "none", SendFails(c),
         UNCHANGED taskVars, UNCHANGED targets, queue' = queue, buf' = buf
  PROVE  AbsStep
<1>0. AbsPending' = AbsPending /\ AbsChans' = AbsChans
  BY ClientFrame
<1>1. CASE c \in Checked
  <2>1. pc' = pc BY <1>1 DEF SendFails
  <2>2. AbsReply' = AbsReply BY <2>1, ReplyFrame
  <2>3. QED BY <1>0, <2>2 DEF AbsStep
<1>2. CASE c \notin Checked
  <2>1. pc'[c] = "failed" /\ \A k \in Clients \ {c} : pc'[k] = pc[k]
    BY <1>2 DEF SendFails, Goto, Types
  <2>2. Abs!Answer(c, Abs!Outcome("failed"))
    BY <2>1, AnswerOf DEF Status
  <2>3. Abs!Refuse(c)
    BY <1>0, <2>2 DEF Abs!Refuse
  <2>4. QED BY <2>3 DEF AbsStep, Abs!Next
<1>3. QED BY <1>1, <1>2

LEMMA AllocRefines ==
  ASSUME IInv, NEW c \in Clients, NEW m \in Sends[c], SendAlloc(c, m)
  PROVE  AbsStep
<1>0. Types /\ UNCHANGED taskVars /\ UNCHANGED targets /\ queue' = queue /\ buf' = buf
      /\ Status(pc[c]) = "none"
  BY TypeParts DEF IInv, SendAlloc, tableVars, Status
<1>1. CASE used < HeapMsgs
  <2>1. pc'[c] = "send" /\ \A k \in Clients \ {c} : pc'[k] = pc[k]
    BY <1>0, <1>1 DEF SendAlloc, Goto, Types
  <2>2. AbsReply' = AbsReply
    BY <1>0, <2>1, ReplyFrame DEF Status
  <2>3. QED BY <1>0, <2>2, ClientFrame DEF AbsStep
<1>2. CASE ~(used < HeapMsgs)
  <2>1. SendFails(c) BY <1>2 DEF SendAlloc
  <2>2. QED BY <1>0, <2>1, FailRefines
<1>3. QED BY <1>1, <1>2

LEMMA QueueRefines ==
  ASSUME IInv, NEW c \in Clients, SendQueue(c)
  PROVE  Abs!Submit(c, req[c]) /\ req[c] \in Sends[c]
<1>0. /\ Types /\ TaskInv /\ ClientInv /\ UNCHANGED taskVars /\ UNCHANGED targets /\ buf' = buf
      /\ Status(pc[c]) = "none" /\ req[c] \in Sends[c] /\ req[c] \in Msgs
  BY TypeParts, TargetAssumption DEF IInv, SendQueue, tableVars, Status, ClientInv
<1>1. pc'[c] = "sent" /\ \A k \in Clients \ {c} : pc'[k] = pc[k]
  BY <1>0 DEF SendQueue, Goto, Types
<1>2. Abs!Answer(c, Abs!Outcome("accepted"))
  BY <1>0, <1>1, AnswerOf DEF Status
<1>3. Len(queue) \in Nat /\ Len(queue) < QueueLen /\ queue' = Append(queue, req[c])
      /\ QueueLen \in Nat
  BY <1>0, TargetAssumption DEF SendQueue, Types
<1>4. AbsPending' = Append(AbsPending, req[c]) /\ Len(AbsPending) < QueueLen + 1
  <2>1. CASE taskPc = "lock"
    <3>1. taskMsg \in Msgs /\ queue \in Seq(Msgs)
      BY <1>0, <2>1 DEF TaskInv, Types
    <3>2. AbsPending = <<taskMsg>> \o queue /\ AbsPending' = <<taskMsg>> \o Append(queue, req[c])
      BY <1>0, <1>3, <2>1 DEF AbsPending, taskVars
    <3>3. QED BY <1>0, <1>3, <3>1, <3>2, PutBefore
  <2>2. CASE taskPc # "lock"
    BY <1>0, <1>3, <2>2 DEF AbsPending, taskVars
  <2>3. QED BY <2>1, <2>2
<1>5. QED BY <1>0, <1>2, <1>4, ClientFrame DEF Abs!Submit

LEMMA OutsideRefines ==
  ASSUME IInv, NEW c \in Clients, GetOutside(c)
  PROVE  AbsStep
<1>0. Types /\ UNCHANGED taskVars /\ UNCHANGED targets /\ queue' = queue /\ buf' = buf
      /\ Status(pc[c]) = "none"
  BY TypeParts DEF IInv, GetOutside, Abort, tableVars, clientVars, Status
<1>1. CASE pc' = pc
  BY <1>0, <1>1, ClientFrame, ReplyFrame DEF AbsStep
<1>2. CASE pc' # pc
  <2>1. pc'[c] = "garbage" /\ \A k \in Clients \ {c} : pc'[k] = pc[k]
    BY <1>0, <1>2 DEF GetOutside, Abort, clientVars, Goto, Types
  <2>2. Abs!Answer(c, Abs!Outcome("garbage"))
    BY <1>0, <2>1, AnswerOf DEF Status
  <2>3. NumTargets \in Reads[c]
    <3>1. req[c].chan \in Reads[c] /\ req[c].chan <= NumTargets /\ req[c].chan \notin Channels
      BY DEF IInv, ClientInv, GetOutside
    <3>2. req[c].chan \in Nat /\ NumTargets \in Nat
      <4>1. req[c].chan \in 0 .. 255
        BY <1>0, Zenon DEF Types, ChannelArgs
      <4>2. NumTargets \in Nat
        BY ChannelAssumption, Zenon
      <4>3. QED BY <4>1, <4>2
    <3>3. req[c].chan = NumTargets
      BY <3>1, <3>2 DEF Channels
    <3>4. QED BY <3>1, <3>3
  <2>4. Abs!ReadOutside(c)
    BY <1>0, <2>2, <2>3, ClientFrame DEF Abs!ReadOutside
  <2>5. QED BY <2>4 DEF AbsStep, Abs!Next
<1>3. QED BY <1>1, <1>2

LEMMA GiveRefines ==
  ASSUME IInv, NEW c \in Clients, GetGive(c)
  PROVE  AbsStep
<1> DEFINE ch == req[c].chan
<1>0. /\ Types /\ ClientInv /\ LockDiscipline /\ UNCHANGED taskVars /\ UNCHANGED targets
      /\ queue' = queue /\ buf' = buf /\ Status(pc[c]) = "none" /\ pc[c] = "give"
  BY TypeParts DEF IInv, GetGive, tableVars, Status
<1>1. pc'[c] = "got" /\ \A k \in Clients \ {c} : pc'[k] = pc[k]
  BY <1>0 DEF GetGive, Goto, Types
<1>2. Abs!Answer(c, Abs!Got(buf[c]))
  BY <1>0, <1>1, AnswerOf DEF Status
<1>3. ch \in Channels /\ ch \in Reads[c]
  BY <1>0 DEF ClientInv
<1>4. buf[c] = targets[ch]
  BY <1>0, ReadIsWhole DEF NoTornRead
<1>5. ~TaskHolds(ch)
  BY <1>0, <1>3, Holders DEF LockDiscipline, ClientHolds
<1>6. AbsChans[ch] = targets[ch]
  BY <1>3, <1>5 DEF AbsChans, TaskHolds
<1>7. Abs!Read(c, ch)
  BY <1>0, <1>2, <1>4, <1>6, ClientFrame DEF Abs!Read
<1>8. QED BY <1>3, <1>7, SameOperators DEF AbsStep, Abs!Next

LEMMA ReturnRefines ==
  ASSUME IInv, NEW c \in Clients, Return(c)
  PROVE  Abs!Finish(c)
<1>0. /\ Types /\ UNCHANGED taskVars /\ UNCHANGED targets /\ queue' = queue
      /\ pc'[c] = "idle" /\ \A k \in Clients \ {c} : pc'[k] = pc[k] /\ buf'[k] = buf[k]
  BY TypeParts DEF IInv, Return, tableVars, Goto, Types
<1>1. Status(pc[c]) # "none"
  BY DEF Return, Status
<1>2. AbsReply[c] # Abs!None
  <2>1. AbsReply[c].status = Status(pc[c])
    BY DEF AbsReply, Status
  <2>2. Abs!None.status = "none"
    BY DEF Abs!None, Abs!Outcome
  <2>3. QED BY <1>1, <2>1, <2>2
<1>3. AbsReply' = [AbsReply EXCEPT ![c] = Abs!None]
  BY <1>0, ReplyChange, SameOperators DEF Abs!None, Abs!Outcome, Status
<1>4. QED BY <1>0, <1>2, <1>3, ClientFrame DEF Abs!Finish

\* The steps of a call that show nothing yet.
LEMMA SilentRefines ==
  ASSUME IInv, NEW c \in Clients,
         \/ GetTake(c) \/ GetTimeout(c) \/ GetCopy(c) \/ GetCopyRest(c)
         \/ \E ch \in Reads[c] : GetCall(c, ch)
  PROVE  UNCHANGED <<AbsPending, AbsChans, AbsReply>>
<1>1. Types /\ UNCHANGED taskVars /\ UNCHANGED targets /\ queue' = queue
  BY TypeParts DEF IInv, GetTake, GetTimeout, GetCopy, GetCopyRest, GetCall, Abort, tableVars
<1>2. AbsReply' = AbsReply
  <2>1. \/ pc' = pc
        \/ /\ pc[c] \in {"idle", "take", "copy", "copyRest"}
           /\ pc' = [pc EXCEPT ![c] = pc'[c]] /\ pc'[c] \in {"take", "copy", "copyRest", "give"}
    BY <1>1 DEF GetTake, GetTimeout, GetCopy, GetCopyRest, GetCall, Abort, clientVars, Goto, Types
  <2>2. \A k \in Clients : Status(pc'[k]) = Status(pc[k]) /\ (pc'[k] = "got" => pc[k] = "got")
    BY <1>1, <2>1 DEF Status, Types
  <2>3. \A k \in Clients : pc[k] = "got" => buf'[k] = buf[k]
    BY <1>1 DEF GetTake, GetTimeout, GetCopy, GetCopyRest, GetCall, Abort, clientVars, Types
  <2>4. QED BY <2>2, <2>3, ReplyFrame
<1>3. QED BY <1>1, <1>2, ClientFrame

\* A restart, or the start, is one of FanChannels.
LEMMA BootRefines == Init => Abs!Init
<1> SUFFICES ASSUME Init PROVE Abs!Init
  OBVIOUS
<1>1. AbsPending = <<>> /\ AbsChans = [ch \in Abs!Channels |-> Abs!BootTarget]
  BY SameOperators DEF Init, AbsPending, AbsChans
<1>2. AbsReply = [c \in Clients |-> Abs!None]
  BY SameOperators DEF Init, AbsReply, Abs!None, Abs!Outcome
<1>3. QED BY <1>1, <1>2 DEF Abs!Init

LEMMA RebootRefines == Reboot => Abs!Restart
<1> SUFFICES ASSUME Reboot PROVE Abs!Restart
  OBVIOUS
<1>1. AbsPending' = <<>> /\ AbsChans' = [ch \in Abs!Channels |-> Abs!BootTarget]
  BY SameOperators DEF Reboot, AbsPending, AbsChans
<1>2. AbsReply' = [c \in Clients |-> Abs!None]
  BY SameOperators DEF Reboot, AbsReply, Abs!None, Abs!Outcome
<1>3. QED BY <1>1, <1>2 DEF Abs!Restart, Abs!Init

LEMMA StepRefines == IInv /\ [Next]_vars => AbsStep
<1> SUFFICES ASSUME IInv, [Next]_vars PROVE AbsStep
  OBVIOUS
<1>1. CASE Reboot
  BY <1>1, RebootRefines DEF AbsStep, Abs!Next
<1>2. CASE TaskStep
  BY <1>2, TaskRefines DEF AbsStep, Abs!Next
<1>3. CASE Tick \/ UNCHANGED vars
  <2>1. UNCHANGED <<queue, taskVars, targets, clientVars>>
    BY <1>3 DEF Tick, vars, tableVars
  <2>2. QED BY <2>1, ClientFrame, ReplyFrame DEF AbsStep, clientVars
<1>4. ASSUME NEW c \in Clients, Proceed(c) PROVE AbsStep
  <2>1. CASE SendQueue(c)
    BY <2>1, QueueRefines DEF AbsStep, Abs!Next
  <2>2. CASE SendTimeout(c)
    <3>1. /\ Types /\ UNCHANGED taskVars /\ UNCHANGED targets /\ queue' = queue
          /\ buf' = buf /\ Status(pc[c]) = "none" /\ SendFails(c)
      BY <2>2, TypeParts DEF IInv, SendTimeout, tableVars, Status
    <3>2. QED BY <3>1, FailRefines
  <2>3. CASE GetOutside(c)
    BY <2>3, OutsideRefines
  <2>4. CASE GetGive(c)
    BY <2>4, GiveRefines
  <2>5. CASE Return(c)
    BY <2>5, ReturnRefines DEF AbsStep, Abs!Next
  <2>6. CASE GetTake(c) \/ GetTimeout(c) \/ GetCopy(c) \/ GetCopyRest(c)
    BY <2>6, SilentRefines DEF AbsStep
  <2>7. QED BY <1>4, <2>1, <2>2, <2>3, <2>4, <2>5, <2>6 DEF Proceed
<1>5. ASSUME NEW c \in Clients, NEW m \in Sends[c], SendAlloc(c, m) PROVE AbsStep
  BY <1>5, AllocRefines
<1>6. ASSUME NEW c \in Clients, NEW ch \in Reads[c], GetCall(c, ch) PROVE AbsStep
  BY <1>6, SilentRefines DEF AbsStep
<1>7. QED BY <1>1, <1>2, <1>3, <1>4, <1>5, <1>6 DEF Next

-----------------------------------------------------------------------------
\* For any clients, queue length and configuration, the task with its queue and
\* locks (vTaskTarget, target_send_*, target_get_data) implements FanChannels:
\* accepted requests take effect once each, in order and atomically.
THEOREM Implementation == Spec => Implements
<1>1. IInv /\ [Next]_vars => [Abs!Next]_(Abs!vars)
  BY StepRefines DEF AbsStep, Abs!vars
<1>2. Spec => []IInv
  BY Invariance
<1>3. QED BY BootRefines, <1>1, <1>2, PTL DEF Spec, Implements, Abs!Spec
=============================================================================
