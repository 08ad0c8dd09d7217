---------------------------- MODULE FanChannels ----------------------------
(***************************************************************************)
(* What the target component promises its callers, without its task, its   *)
(* locks or its heap: requests are accepted or refused; accepted requests  *)
(* take effect once each, in the order they were accepted, and each in one *)
(* step; a read returns the record of its channel as it is at one moment   *)
(* of the call; a restart forgets everything.  Target implements it.       *)
(***************************************************************************)
EXTENDS Channel, Sequences

CONSTANTS
  Clients,         \* the tasks that call the target component
  Sends,           \* the messages each client sends
  Reads,           \* the channel numbers each client reads
  QueueLen         \* how many accepted requests may be pending

VARIABLES
  pending,         \* the requests accepted and not yet in effect
  chans,           \* the record of each channel
  reply            \* what each client's call has returned, None before that

vars == <<pending, chans, reply>>

\* A call's outcome: its status and, for a read that succeeds, the record.
Outcome(status) == [status |-> status, data |-> BootTarget]
None            == Outcome("none")
Got(record)     == [status |-> "read", data |-> record]

Init ==
  /\ pending = <<>>
  /\ chans = [ch \in Channels |-> BootTarget]
  /\ reply = [c \in Clients |-> None]

Answer(c, outcome) == reply[c] = None /\ reply' = [reply EXCEPT ![c] = outcome]

Submit(c, m) ==
  /\ Len(pending) < QueueLen + 1
  /\ Answer(c, Outcome("accepted"))
  /\ pending' = Append(pending, m)
  /\ UNCHANGED chans

Refuse(c) == Answer(c, Outcome("failed")) /\ UNCHANGED <<pending, chans>>

\* The oldest request takes effect, or is dropped: its channel does not exist
\* or is disabled.
Apply ==
  /\ pending # <<>>
  /\ pending' = Tail(pending)
  /\ LET m == Head(pending) IN
       chans' = IF Acceptable(m)
                THEN [chans EXCEPT ![m.chan] = Updated(m.chan, chans[m.chan], m)]
                ELSE chans
  /\ UNCHANGED reply

Read(c, ch) == Answer(c, Got(chans[ch])) /\ UNCHANGED <<pending, chans>>

\* A read of channel number NumTargets, which target_get_data lets pass: what it
\* returns are bytes from outside the table.
ReadOutside(c) ==
  /\ NumTargets \in Reads[c]
  /\ Answer(c, Outcome("garbage"))
  /\ UNCHANGED <<pending, chans>>

Finish(c) ==
  /\ reply[c] # None
  /\ reply' = [reply EXCEPT ![c] = None]
  /\ UNCHANGED <<pending, chans>>

Restart == Init'

Next ==
  \/ Apply
  \/ Restart
  \/ \E c \in Clients :
       \/ Refuse(c) \/ ReadOutside(c) \/ Finish(c)
       \/ \E m \in Sends[c] : Submit(c, m)
       \/ \E ch \in Channels \cap Reads[c] : Read(c, ch)

Spec == Init /\ [][Next]_vars
=============================================================================
