------------------------------- MODULE Agent -------------------------------
(***************************************************************************)
(* The agent of agent/: the goroutines readRoutine and writeRoutine of     *)
(* pkg/net.go, the one of StartSendServer (pkg/send.go) that responds to   *)
(* answers, and the sensors' (pkg/sensors.go), after startAgent has        *)
(* started them.  The controller and the network are the environment: how  *)
(* the controller comes to an answer is the module TcpServer's.            *)
(*                                                                         *)
(* A Go channel is a sequence: the first Cap messages are in its buffer,   *)
(* and the others are in the hands of senders that wait, first come, first *)
(* served.  Nothing ever sends to `quit', which is nil, and Disconnect has *)
(* no caller; of the two readers of `shutdown' only the writer is left.    *)
(***************************************************************************)
EXTENDS Integers, Sequences, FiniteSets

CONSTANTS
  Cap,             \* the capacity of Readbytes and of Writebytes, 10 in the code
  MaxUp, MaxDown,  \* the packets the connection holds in each direction
  Garbage          \* what bytes read out of step may be taken for

Requests == {"login", "config", "status", "perf"}
Answers  == {"info", "login", "config", "status"}
Packets  == Answers \cup {"bad"}      \* "bad": bytes that do not decode
Sent     == Answers \cup {"torn"}     \* "torn": an answer without its length
None     == "none"

ASSUME AgentAssumption ==
  /\ Cap \in Nat \ {0} /\ MaxUp \in Nat \ {0} /\ MaxDown \in Nat \ {0}
  /\ Garbage \subseteq Packets

VARIABLES
  conn,            \* "none" (the dial failed), "up", "ended" (closed by the peer) or "reset"
  session,         \* the controller's entry: "new", "greeted" or "in" (logged in)
  up, down,        \* the packets on their way to and from the controller
  spins,           \* its socket_send has met a full connection
  inStep,          \* the reader's next byte is the first of a packet
  reader, part,    \* "off", "read" or "stop" (sends to shutdown), and what it delivers after that
  writer, hand,    \* "off", "on" or "done", and the message it is writing
  inbox, outbox,   \* Readbytes and Writebytes, with their blocked senders
  garbled          \* history: the reader has been out of step

linkVars   == <<conn, session, up, down, spins>>
readerVars == <<inStep, reader, part, garbled>>
writerVars == <<writer, hand>>
vars == <<linkVars, readerVars, writerVars, inbox, outbox>>

\* The error of a dial that fails is logged, and the sensors start all the same.
Init ==
  /\ conn \in {"none", "up"}
  /\ session = "new" /\ up = <<>> /\ down = <<>> /\ spins = FALSE
  /\ inStep = TRUE /\ part = None /\ garbled = FALSE /\ hand = None
  /\ reader = (IF conn = "up" THEN "read" ELSE "off")
  /\ writer = (IF conn = "up" THEN "on" ELSE "off")
  /\ inbox = <<>> /\ outbox = <<>>

-----------------------------------------------------------------------------
(***************************************************************************)
(* The controller and the network.                                         *)
(***************************************************************************)
Greet ==
  /\ conn = "up" /\ session = "new"
  /\ session' = "greeted" /\ down' = Append(down, "info")
  /\ UNCHANGED <<conn, up, spins, readerVars, writerVars, inbox, outbox>>

Permitted(r) == r \in {"login", "config"} \/ session = "in"

Reply(r) == IF r = "perf" THEN "status" ELSE r

\* The controller has read a request that it answers.
Answering == conn = "up" /\ session # "new" /\ up # <<>> /\ Permitted(Head(up))

\* send() fails with EAGAIN, which socket_send takes for progress: it does not
\* send the length again, and tries the rest until there is room.
Spin ==
  /\ Answering /\ Len(down) = MaxDown
  /\ spins' = TRUE
  /\ UNCHANGED <<conn, session, up, down, readerVars, writerVars, inbox, outbox>>

Serve ==
  /\ Answering /\ Len(down) < MaxDown
  /\ up' = Tail(up)
  /\ down' = Append(down, IF spins THEN "torn" ELSE Reply(Head(up)))
  /\ spins' = FALSE
  /\ session' = IF Head(up) = "login" THEN "in" ELSE session
  /\ UNCHANGED <<conn, readerVars, writerVars, inbox, outbox>>

\* A request before the login, such as a report of sensors that were faster
\* than the handshake; it ends the connection.
Reject ==
  /\ conn = "up" /\ session # "new" /\ up # <<>> /\ ~Permitted(Head(up))
  /\ conn' = "ended" /\ up' = Tail(up) /\ spins' = FALSE
  /\ UNCHANGED <<session, down, readerVars, writerVars, inbox, outbox>>

\* The controller closes for a reason of its own (no free entry, another token).
Close ==
  /\ conn = "up"
  /\ conn' = "ended" /\ spins' = FALSE
  /\ UNCHANGED <<session, up, down, readerVars, writerVars, inbox, outbox>>

\* Packets written to a connection that is closed bring a reset.
Reset ==
  /\ conn \in {"up", "ended"}
  /\ conn' = "reset" /\ up' = <<>> /\ spins' = FALSE
  /\ UNCHANGED <<session, down, readerVars, writerVars, inbox, outbox>>

-----------------------------------------------------------------------------
(***************************************************************************)
(* readRoutine.                                                            *)
(***************************************************************************)
\* What the senders to Writebytes hold that wait for room.
Waiting == {outbox[i] : i \in Cap + 1 .. Len(outbox)}

BugReading == reader = "read" /\ inbox = <<>> /\ Waiting \subseteq {"perf"}

\* It is not waiting to put a packet into Readbytes.
Reading == reader = "read" /\ Len(inbox) <= Cap

ReadPacket ==
  /\ Reading /\ inStep /\ down # <<>> /\ Head(down) # "torn"
  /\ inbox' = Append(inbox, Head(down)) /\ down' = Tail(down)
  /\ UNCHANGED <<conn, session, up, spins, readerVars, writerVars, outbox>>

BugReadCut ==
  /\ Reading /\ inStep /\ down # <<>>
  /\ reader' = "stop" /\ part' = None
  /\ UNCHANGED <<linkVars, inStep, garbled, writerVars, inbox, outbox>>

\* The read deadline passes inside of a packet, and what was read is dropped;
\* or the packet has no length.
ReadCut ==
  /\ Reading /\ inStep /\ down # <<>>
  /\ inStep' = FALSE /\ garbled' = TRUE
  /\ UNCHANGED <<linkVars, reader, part, writerVars, inbox, outbox>>

\* Out of step, four bytes are taken for a length and bytes for a packet,
\* inside of the rest of the first packet.
ReadGarbage ==
  /\ Reading /\ ~inStep /\ down # <<>>
  /\ \E m \in Garbage : inbox' = Append(inbox, m)
  /\ UNCHANGED <<linkVars, readerVars, writerVars, outbox>>

\* The same beyond it, for a packet, or until the deadline for nothing.
ReadOn ==
  /\ Reading /\ ~inStep
  /\ \E n \in 1 .. Len(down) : down' = SubSeq(down, n + 1, Len(down))
  /\ inStep' \in BOOLEAN
  /\ inbox' = inbox \/ \E m \in Garbage : inbox' = Append(inbox, m)
  /\ UNCHANGED <<conn, session, up, spins, reader, part, garbled, writerVars, outbox>>

BugReadEnd ==
  /\ Reading /\ conn \in {"ended", "reset"} /\ down # <<>>
  /\ down' = <<>>
  /\ UNCHANGED <<conn, session, up, spins, readerVars, writerVars, inbox, outbox>>

\* The end of the stream or an error.  Of a packet cut short, the bytes that
\* came are delivered with zeros behind them.
ReadEnd ==
  /\ Reading /\ conn \in {"ended", "reset"}
  /\ \/ (down = <<>> \/ conn = "reset") /\ part' = None
     \/ down # <<>> /\ part' \in {None, "bad", Head(down)} \ {"torn"}
     \/ ~inStep /\ part' \in Garbage
  /\ reader' = "stop" /\ down' = <<>>
  /\ UNCHANGED <<conn, session, up, spins, inStep, garbled, writerVars, inbox, outbox>>

-----------------------------------------------------------------------------
(***************************************************************************)
(* writeRoutine, the responder and the sensors.                            *)
(***************************************************************************)
AtSelect == writer = "on" /\ hand = None

\* The reader, which sends to the unbuffered shutdown, meets the writer.  It
\* goes on to the next error, and meets nobody any more.
Shutdown ==
  /\ reader = "stop" /\ AtSelect
  /\ writer' = "done" /\ reader' = "read" /\ part' = None
  /\ inbox' = IF part = None THEN inbox ELSE Append(inbox, part)
  /\ UNCHANGED <<linkVars, inStep, garbled, hand, outbox>>

WriterTake ==
  /\ AtSelect /\ outbox # <<>>
  /\ hand' = Head(outbox) /\ outbox' = Tail(outbox)
  /\ UNCHANGED <<linkVars, readerVars, writer, inbox>>

\* Both calls of conn.Write, which wait as long as the connection takes nothing.
Write ==
  /\ hand # None /\ conn \in {"up", "ended"} /\ Len(up) < MaxUp
  /\ up' = Append(up, hand) /\ hand' = None
  /\ UNCHANGED <<conn, session, down, spins, readerVars, writer, inbox, outbox>>

\* "Error writing to ESP": the message is lost.
WriteFails ==
  /\ hand # None /\ conn = "reset"
  /\ hand' = None
  /\ UNCHANGED <<linkVars, readerVars, writer, inbox, outbox>>

BugStatusAgain(m) == CASE m = "info" -> "login" [] m = "login" -> "config" [] OTHER -> "status"

BugLoginLate(m) == CASE m = "info" -> "config" [] m = "config" -> "status" [] OTHER -> None

\* processResponse: the request that follows on an answer.
NextRequest(m) ==
  CASE m = "info"   -> "login"
    [] m = "login"  -> "config"
    [] m = "config" -> "status"
    [] OTHER        -> None

\* There is an answer, and the responder does not wait to put a request into
\* Writebytes.
ResponderRuns == inbox # <<>> /\ Waiting \subseteq {"perf"}

Respond ==
  /\ ResponderRuns
  /\ inbox' = Tail(inbox)
  /\ LET r == NextRequest(Head(inbox)) IN
       outbox' = IF r = None THEN outbox ELSE Append(outbox, r)
  /\ UNCHANGED <<linkVars, readerVars, writerVars>>

BugReport ==
  /\ Len(outbox) < Cap + 3
  /\ outbox' = Append(outbox, "perf")
  /\ UNCHANGED <<linkVars, readerVars, writerVars, inbox>>

\* The sensors' interval is over.  It is a second at least, in which the
\* responder's turn comes.  A temperature or a load that cannot be read skips
\* the report of this interval.
Report ==
  /\ "perf" \notin Waiting
  /\ ~ResponderRuns
  /\ outbox' \in {outbox, Append(outbox, "perf")}
  /\ UNCHANGED <<linkVars, readerVars, writerVars, inbox>>

Reader     == ReadPacket \/ ReadCut \/ ReadGarbage \/ ReadOn \/ ReadEnd
Writer     == WriterTake \/ Write \/ WriteFails
Controller == Greet \/ Serve \/ Reject \/ Spin

Next == Reader \/ Shutdown \/ Writer \/ Respond \/ Report \/ Controller \/ Close \/ Reset

Spec == Init /\ [][Next]_vars

\* Goroutines that can run do, and so does the controller.  A select with two
\* ready cases takes each of them again and again, a packet has an end, a
\* connection that is closed and written to is reset, and the sensors do not
\* fail from some time on for ever.
Fairness ==
  /\ WF_vars(Reader) /\ WF_vars(Writer) /\ WF_vars(Respond) /\ WF_vars(Report)
  /\ SF_vars(Shutdown) /\ SF_vars(ReadOn)
  /\ WF_vars(Controller) /\ WF_vars(conn = "ended" /\ up # <<>> /\ Reset)

LiveSpec == Spec /\ Fairness

-----------------------------------------------------------------------------
\* The ranges of the variables: no more than one packet waits for room in
\* Readbytes, and no more than one message of each sender in Writebytes.
TypeOK ==
  /\ conn \in {"none", "up", "ended", "reset"} /\ session \in {"new", "greeted", "in"}
  /\ up \in Seq(Requests) /\ Len(up) <= MaxUp
  /\ down \in Seq(Sent) /\ Len(down) <= MaxDown /\ spins \in BOOLEAN
  /\ inStep \in BOOLEAN /\ garbled \in BOOLEAN
  /\ reader \in {"off", "read", "stop"} /\ part \in Packets \cup {None}
  /\ writer \in {"off", "on", "done"} /\ hand \in Requests \cup {None}
  /\ inbox \in Seq(Packets) /\ Len(inbox) <= Cap + 1
  /\ outbox \in Seq(Requests) /\ Len(outbox) <= Cap + 2

\* "Error reading from ESP": the read routine stops the write routine only
\* when the connection is gone, and no deadline that passes, idle or in the
\* middle of a packet, makes the agent stop reporting.
WriterEndsWithLink == writer = "done" => conn \in {"ended", "reset"}

Count(s, S) == Cardinality({i \in DOMAIN s : s[i] \in S})
Held(m, S)  == IF m \in S THEN 1 ELSE 0

Asks     == {"login", "config", "status"}
Prompts  == {"info", "login", "config"}
InFlight ==
  Count(outbox, Asks) + Held(hand, Asks) + Count(up, Asks)
    + Count(down, Prompts) + Held(part, Prompts) + Count(inbox, Prompts)

\* The handshake of processResponse is one conversation, whatever reports and
\* their answers run beside it: as long as the reader is in step, there is
\* never more than one request of it, or answer that leads to one, anywhere.
OneHandshake == ~garbled => InFlight <= 1

\* The status request leaves the agent only on a connection that the
\* controller has logged in (it would close another one): processResponse
\* trusts the order of the answers for it.
StatusAfterLogin ==
  ~garbled =>
    (Count(outbox, {"status"}) + Held(hand, {"status"}) + Count(up, {"status"}) > 0 => session = "in")

\* Nobody waits on everybody: while the connection is up and the reader is in
\* step, reports are written again and again, although every queue on the way
\* round (Writebytes, the connection, Readbytes) can be full.
ReportsGoOn ==
  <>[](conn = "up") /\ []~garbled => []<><<hand = "perf" /\ hand' = None>>_vars

\* The write routine is told of the end of the connection.
WriterStops == conn \in {"ended", "reset"} ~> writer = "done"
=============================================================================
