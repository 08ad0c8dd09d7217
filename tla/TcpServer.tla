----------------------------- MODULE TcpServer -----------------------------
(***************************************************************************)
(* vTaskTCPServer of src/network.c, the sessions in its table client_info  *)
(* and the packets it reads from them, with the peers and the network as   *)
(* its environment.  What a request does inside of the target component is *)
(* the module Target's; here it succeeds or aborts the firmware.           *)
(*                                                                         *)
(* A packet is a header of HeaderLen bytes, which announces the body, and  *)
(* a body of BodyLen bytes.  The network cuts a stream where it likes.     *)
(* sock_recv does not put the pieces of a body together: it writes the     *)
(* second one over memory that is not its own.  The model has that write   *)
(* (RecvAstray), but of what the firmware then makes of its memory only    *)
(* the restart: what the properties say, they say of the time from each    *)
(* start to the first such write.                                          *)
(***************************************************************************)
EXTENDS Integers, Sequences, FiniteSets

CONSTANTS
  Peers,           \* the processes that connect
  NumSlots,        \* the entries of client_info, CONFIG_LWIP_MAX_SOCKETS
  Requests,        \* the requests the peers send
  HeaderLen,       \* 4 in the code
  BodyLen,         \* the bytes of a body
  MaxInFlight,     \* bound: packets of one peer the server has not read
  Cuts             \* how many bytes a peer that dies in a packet may have sent

\* "invalid": also a body that does not decode; "unknown": no case of the switch.
Ops == {"invalid", "info", "login", "badLogin", "perf", "duty", "status", "config", "unknown", "tooBig"}

FrameLen == HeaderLen + BodyLen
NoPeer   == "nobody"

ASSUME TcpAssumption ==
  /\ NoPeer \notin Peers
  /\ NumSlots \in Nat \ {0} /\ HeaderLen \in Nat \ {0} /\ BodyLen \in Nat \ {0}
  /\ MaxInFlight \in Nat \ {0}
  /\ Requests \subseteq Ops /\ Cuts \subseteq 1 .. FrameLen - 1

Slots == 1 .. NumSlots

VARIABLES
  up,              \* the firmware runs
  conn,            \* each peer's connection: "closed", "pending" (not accepted) or "open"
  life,            \* its end of it: "alive", "finished" (shut down) or "reset"
  stream,          \* the packets sent and not wholly read
  arrived,         \* the bytes of the first of them that can be read
  reply,           \* the packet last sent to the peer
  client,          \* client_info
  pc, listening, todo,  \* the loop's next step, and what select() found ready
  loggedIn,        \* history: the peers whose connection has sent the token
  heard,           \* history: the peers whose connection gave the target a command
  stray            \* history: a piece of a body was written outside of pck_buf

peerVars   == <<life, stream, arrived>>
loopVars   == <<pc, listening, todo>>
tcpHistory == <<loggedIn, heard, stray>>
vars == <<up, conn, peerVars, reply, client, loopVars, tcpHistory>>

\* An unused sock_info_t: socket, state, pck_len and pck_buf_len.
FreeSlot == [peer |-> NoPeer, auth |-> FALSE, want |-> 0, have |-> 0]

Init ==
  /\ up = TRUE
  /\ conn = [p \in Peers |-> "closed"] /\ life = [p \in Peers |-> "alive"]
  /\ stream = [p \in Peers |-> <<>>] /\ arrived = [p \in Peers |-> 0]
  /\ reply = [p \in Peers |-> "none"]
  /\ client = [s \in Slots |-> FreeSlot]
  /\ pc = "select" /\ listening = FALSE /\ todo = {}
  /\ loggedIn = {} /\ heard = {} /\ stray = FALSE

Abort == up' = FALSE /\ UNCHANGED <<conn, stream, arrived, reply, client, tcpHistory>>

\* The restart, after an abort or whatever a spoilt memory leads to: every
\* connection is gone.
Reboot ==
  /\ ~up \/ stray
  /\ up' = TRUE
  /\ conn' = [p \in Peers |-> "closed"] /\ life' = [p \in Peers |-> "alive"]
  /\ stream' = [p \in Peers |-> <<>>] /\ arrived' = [p \in Peers |-> 0]
  /\ reply' = [p \in Peers |-> "none"]
  /\ client' = [s \in Slots |-> FreeSlot]
  /\ pc' = "select" /\ listening' = FALSE /\ todo' = {}
  /\ loggedIn' = {} /\ heard' = {} /\ stray' = FALSE

-----------------------------------------------------------------------------
(***************************************************************************)
(* The peers and the network.                                              *)
(***************************************************************************)
Connect(p) ==
  /\ conn[p] = "closed"
  /\ conn' = [conn EXCEPT ![p] = "pending"] /\ life' = [life EXCEPT ![p] = "alive"]
  /\ stream' = [stream EXCEPT ![p] = <<>>] /\ arrived' = [arrived EXCEPT ![p] = 0]
  /\ reply' = [reply EXCEPT ![p] = "none"]
  /\ loggedIn' = loggedIn \ {p} /\ heard' = heard \ {p}
  /\ UNCHANGED <<up, client, loopVars, stray>>

Frame(r, n) == [req |-> r, size |-> n, left |-> n]

CanSend(p) == conn[p] # "closed" /\ life[p] = "alive" /\ Len(stream[p]) < MaxInFlight

Send(p, r) ==
  /\ CanSend(p)
  /\ stream' = [stream EXCEPT ![p] = Append(@, Frame(r, FrameLen))]
  /\ UNCHANGED <<up, conn, life, arrived, reply, client, loopVars, tcpHistory>>

\* The peer dies after n bytes of a packet.
SendCut(p, r, n) ==
  /\ CanSend(p)
  /\ stream' = [stream EXCEPT ![p] = Append(@, Frame(r, n))]
  /\ life' = [life EXCEPT ![p] = "finished"]
  /\ UNCHANGED <<up, conn, arrived, reply, client, loopVars, tcpHistory>>

Finish(p) ==
  /\ conn[p] # "closed" /\ life[p] = "alive"
  /\ life' = [life EXCEPT ![p] = "finished"]
  /\ UNCHANGED <<up, conn, stream, arrived, reply, client, loopVars, tcpHistory>>

\* A reset takes a pending connection out of the backlog.
ResetConn(p) ==
  /\ conn[p] # "closed" /\ life[p] # "reset"
  /\ life' = [life EXCEPT ![p] = "reset"]
  /\ conn' = IF conn[p] = "pending" THEN [conn EXCEPT ![p] = "closed"] ELSE conn
  /\ UNCHANGED <<up, stream, arrived, reply, client, loopVars, tcpHistory>>

\* The network brings more of the first packet.
Deliver(p) ==
  /\ conn[p] # "closed" /\ life[p] # "reset" /\ stream[p] # <<>>
  /\ \E n \in arrived[p] + 1 .. Head(stream[p]).left : arrived' = [arrived EXCEPT ![p] = n]
  /\ UNCHANGED <<up, conn, life, stream, reply, client, loopVars, tcpHistory>>

-----------------------------------------------------------------------------
(***************************************************************************)
(* The loop: select(), accept(), then sock_recv() for each ready client.   *)
(***************************************************************************)
BugAtEnd(p) == FALSE

\* All that was sent is read and no more will come: recv() returns 0.
AtEnd(p) == life[p] = "finished" /\ stream[p] = <<>>

Readable(p) == arrived[p] > 0 \/ AtEnd(p) \/ life[p] = "reset"

Pending == {p \in Peers : conn[p] = "pending"}

BugSelect ==
  /\ pc = "select"
  /\ listening' = FALSE
  /\ todo' = {s \in Slots : client[s].peer # NoPeer /\ Readable(client[s].peer)}
  /\ todo' # {}
  /\ pc' = "accept"
  /\ UNCHANGED <<up, conn, peerVars, reply, client, tcpHistory>>

Select ==
  /\ pc = "select"
  /\ listening' = (Pending # {})
  /\ todo' = {s \in Slots : client[s].peer # NoPeer /\ Readable(client[s].peer)}
  /\ listening' \/ todo' # {}
  /\ pc' = "accept"
  /\ UNCHANGED <<up, conn, peerVars, reply, client, tcpHistory>>

NotListening ==
  /\ pc = "accept" /\ ~listening
  /\ pc' = "serve"
  /\ UNCHANGED <<up, conn, peerVars, reply, client, listening, todo, tcpHistory>>

\* Faulty: the scan ends before the last entry.
BugFreeSlots == {s \in Slots : client[s].peer = NoPeer /\ s < NumSlots}

FreeSlots == {s \in Slots : client[s].peer = NoPeer}

\* The clients that are ready wait for the next select().
BreakLoop == pc' = "select" /\ todo' = {} /\ UNCHANGED listening

\* The connection was reset before accept() could return it.
AcceptFails ==
  /\ pc = "accept" /\ listening /\ Pending = {}
  /\ BreakLoop
  /\ UNCHANGED <<up, conn, peerVars, reply, client, tcpHistory>>

\* "No more clients available".
AcceptRefuses(p) ==
  /\ pc = "accept" /\ listening /\ p \in Pending /\ FreeSlots = {}
  /\ conn' = [conn EXCEPT ![p] = "closed"]
  /\ BreakLoop
  /\ UNCHANGED <<up, peerVars, reply, client, tcpHistory>>

\* The first free entry gets the connection's socket; its other fields are
\* left as they are.
Accept(p, s) ==
  /\ pc = "accept" /\ listening /\ p \in Pending
  /\ s \in FreeSlots /\ \A t \in FreeSlots : s <= t
  /\ conn' = [conn EXCEPT ![p] = "open"]
  /\ client' = [client EXCEPT ![s].peer = p]
  /\ pc' = "info"
  /\ UNCHANGED <<up, peerVars, reply, listening, todo, tcpHistory>>

\* send_infopck to the client just accepted, inside ESP_ERROR_CHECK.
SendInfo(p) ==
  /\ pc = "info" /\ conn[p] = "open" /\ reply[p] = "none"
  /\ IF life[p] = "reset"
     THEN Abort /\ UNCHANGED <<life, loopVars>>
     ELSE /\ reply' = [reply EXCEPT ![p] = "info"]
          /\ pc' = "serve"
          /\ UNCHANGED <<up, conn, peerVars, client, listening, todo, tcpHistory>>

ServeEnds ==
  /\ pc = "serve" /\ todo = {}
  /\ pc' = "select"
  /\ UNCHANGED <<up, conn, peerVars, reply, client, listening, todo, tcpHistory>>

\* Faulty: one client only is served.
BugServed(s) == todo' = {} /\ UNCHANGED <<pc, listening>>

\* The next client the loop serves.
Turn(s) == pc = "serve" /\ s \in todo /\ \A t \in todo : s <= t
Served(s) == todo' = todo \ {s} /\ UNCHANGED <<pc, listening>>

BugCleared(c) == [c EXCEPT !.peer = NoPeer, !.want = 0, !.have = 0]

\* What socket_close makes of an entry.
Cleared(c) == FreeSlot

BugSocketClose(s) ==
  /\ stream' = [stream EXCEPT ![client[s].peer] = <<>>]
  /\ arrived' = [arrived EXCEPT ![client[s].peer] = 0]
  /\ client' = [client EXCEPT ![s] = Cleared(@)]
  /\ UNCHANGED <<up, conn, life, reply>>

SocketClose(s) ==
  /\ conn' = [conn EXCEPT ![client[s].peer] = "closed"]
  /\ stream' = [stream EXCEPT ![client[s].peer] = <<>>]
  /\ arrived' = [arrived EXCEPT ![client[s].peer] = 0]
  /\ client' = [client EXCEPT ![s] = Cleared(@)]
  /\ UNCHANGED <<up, life, reply>>

CloseSlot(s) == SocketClose(s) /\ UNCHANGED tcpHistory

\* fcntl() fails for the socket just accepted, before its info is sent.
AcceptUnset(s) ==
  /\ pc = "info" /\ client[s].peer # NoPeer /\ reply[client[s].peer] = "none"
  /\ CloseSlot(s)
  /\ BreakLoop

(***************************************************************************)
(* sock_recv.  Of a connection that was reset, recv() fails or still       *)
(* returns what had come; a reset after recv() and before the answer is    *)
(* the latter case.                                                        *)
(***************************************************************************)
\* A reset, or the end of the stream.
RecvGone(s) ==
  LET p == client[s].peer IN
  /\ Turn(s) /\ Served(s)
  /\ life[p] = "reset" \/ (arrived[p] = 0 /\ AtEnd(p))
  /\ CloseSlot(s)

\* A part of a header: recv(MSG_PEEK) leaves it, and nothing happens.
RecvPartHeader(s) ==
  LET p == client[s].peer IN
  /\ Turn(s) /\ Served(s)
  /\ client[s].want = 0 /\ arrived[p] \in 1 .. HeaderLen - 1
  /\ UNCHANGED <<up, conn, peerVars, reply, client, tcpHistory>>

\* "Packet too big".
RecvTooBig(s) ==
  LET p == client[s].peer IN
  /\ Turn(s) /\ Served(s)
  /\ client[s].want = 0
  /\ arrived[p] >= HeaderLen /\ Head(stream[p]).req = "tooBig"
  /\ CloseSlot(s)

\* The header, if it is still to come, and then what there is of the body.
HeaderDue(s) == IF client[s].want = 0 THEN HeaderLen ELSE 0
BodyHere(s)  == arrived[client[s].peer] - HeaderDue(s)

CanRead(s) ==
  LET p == client[s].peer IN
  /\ Turn(s) /\ arrived[p] > 0
  /\ client[s].want = 0 => arrived[p] >= HeaderLen /\ Head(stream[p]).req # "tooBig"

\* n bytes are taken from the stream.
Take(p, n) ==
  LET h == Head(stream[p]) IN
  /\ stream' = [stream EXCEPT ![p] =
       IF h.left = n THEN Tail(@) ELSE <<[h EXCEPT !.left = h.left - n]>> \o Tail(@)]
  /\ arrived' = [arrived EXCEPT ![p] = @ - n]
  /\ UNCHANGED life

\* Nothing comes after the header: the peer died, or its connection did.
NoBody(p) ==
  life[p] = "reset" \/ (life[p] = "finished" /\ Len(stream[p]) = 1 /\ Head(stream[p]).left = HeaderLen)

\* recv() for the body fails, or returns 0.
RecvHeaderOnly(s) ==
  /\ CanRead(s) /\ Served(s)
  /\ BodyHere(s) = 0 /\ NoBody(client[s].peer)
  /\ CloseSlot(s)

BugRecvPart(s) ==
  LET n == BodyHere(s) IN
  /\ CanRead(s) /\ Served(s)
  /\ client[s].have = 0 /\ n <= BodyLen
  /\ Take(client[s].peer, HeaderDue(s) + n)
  /\ client' = [client EXCEPT ![s].want = BodyLen, ![s].have = n]
  /\ UNCHANGED <<up, conn, reply, tcpHistory>>

\* "Got Partial Packet", or a body of which nothing has come.
RecvPart(s) ==
  LET n == BodyHere(s) IN
  /\ CanRead(s) /\ Served(s)
  /\ client[s].have = 0 /\ n < BodyLen
  /\ n = 0 => ~NoBody(client[s].peer)
  /\ Take(client[s].peer, HeaderDue(s) + n)
  /\ client' = [client EXCEPT ![s].want = BodyLen, ![s].have = n]
  /\ UNCHANGED <<up, conn, reply, tcpHistory>>

\* What an entry that was written over may hold.
AnyEntry == [peer: Peers \cup {NoPeer}, auth: BOOLEAN, want: {0, BodyLen}, have: 0 .. BodyLen]

\* A later piece of a body goes to &pck_buf + have, which is not pck_buf + have
\* but have times the whole of pck_buf further on: over the entries behind
\* this one, or what the linker put behind the table.
RecvAstray(s) ==
  LET n == BodyHere(s) IN
  /\ CanRead(s) /\ Served(s)
  /\ client[s].have > 0
  /\ Take(client[s].peer, n)
  /\ \E over \in [s + 1 .. NumSlots -> AnyEntry] :
       client' = [t \in Slots |-> CASE t < s -> client[t]
                                   [] t = s -> [client[s] EXCEPT !.have = @ + n]
                                   [] t > s -> over[t]]
  /\ stray' = TRUE
  /\ UNCHANGED <<up, conn, reply, loggedIn, heard>>

-----------------------------------------------------------------------------
(***************************************************************************)
(* process_request.                                                        *)
(***************************************************************************)
\* The entry of a request: its packet is in the buffer.
Full(c) == [c EXCEPT !.want = BodyLen, !.have = BodyLen]

\* Faulty: pck_len is not reset.
BugIdle(c, auth) == [c EXCEPT !.auth = auth, !.have = 0]

\* The entry after a request: no packet in the buffer.
Idle(c, auth) == [c EXCEPT !.auth = auth, !.want = 0, !.have = 0]

\* What recv() takes for the whole body.
Rest(s) == HeaderDue(s) + BodyLen

Stays(s, auth) ==
  /\ client' = [client EXCEPT ![s] = Idle(Full(@), auth)]
  /\ Take(client[s].peer, Rest(s))
  /\ UNCHANGED <<up, conn>>

\* send_response; when send() fails the connection is closed.
Answer(s, auth, kind) ==
  LET p == client[s].peer IN
  IF life[p] = "reset" THEN SocketClose(s)
  ELSE Stays(s, auth) /\ reply' = [reply EXCEPT ![p] = kind]

BugAuthorised(s, op) == op \in {"duty", "status"} => client[s].auth

\* check_auth: these operations close a connection that has not logged in.
Authorised(s, op) == op \in {"perf", "duty", "status"} => client[s].auth

\* Login answers only a connection that is logged in, by this token or one
\* before.
ProcessLogin(s, op) ==
  LET auth == op = "login" \/ client[s].auth IN
  /\ op \in {"login", "badLogin"} /\ auth
  /\ Answer(s, auth, "login")
  /\ loggedIn' = IF op = "login" THEN loggedIn \cup {client[s].peer} ELSE loggedIn
  /\ UNCHANGED <<heard, stray>>

\* A duty gets no answer at all.
ProcessCommand(s, op) ==
  /\ op \in {"perf", "duty"} /\ Authorised(s, op)
  /\ IF op = "perf" THEN Answer(s, client[s].auth, "status")
     ELSE Stays(s, client[s].auth) /\ UNCHANGED reply
  /\ heard' = heard \cup {client[s].peer}
  /\ UNCHANGED <<loggedIn, stray>>

ProcessQuery(s, op) ==
  /\ op \in {"status", "config"} /\ Authorised(s, op)
  /\ Answer(s, client[s].auth, op)
  /\ UNCHANGED tcpHistory

\* "Unknown Operation": neither answered nor closed, with or without a login.
ProcessUnknown(s, op) ==
  op = "unknown" /\ Stays(s, client[s].auth) /\ UNCHANGED <<reply, tcpHistory>>

Refused(s, op) ==
  \/ op \in {"invalid", "info"}
  \/ op = "badLogin" /\ ~client[s].auth
  \/ ~Authorised(s, op)

\* A call into the target component fails inside ESP_ERROR_CHECK.
TargetFails(s, op) ==
  op \in {"perf", "duty", "status"} /\ Authorised(s, op) /\ Abort /\ UNCHANGED life

Process(s, op) ==
  ProcessLogin(s, op) \/ ProcessCommand(s, op) \/ ProcessQuery(s, op) \/ ProcessUnknown(s, op)

\* The body has come in one piece: the request is decoded and carried out.
RecvLast(s) ==
  LET op == Head(stream[client[s].peer]).req IN
  /\ CanRead(s) /\ Served(s)
  /\ client[s].have = 0 /\ BodyHere(s) = BodyLen
  /\ Process(s, op) \/ TargetFails(s, op) \/ (Refused(s, op) /\ CloseSlot(s))

Recv(s) ==
  \/ RecvGone(s) \/ RecvPartHeader(s) \/ RecvTooBig(s)
  \/ RecvHeaderOnly(s) \/ RecvPart(s) \/ RecvAstray(s) \/ RecvLast(s)

Server ==
  \/ Select \/ NotListening \/ AcceptFails \/ ServeEnds
  \/ \E p \in Peers : AcceptRefuses(p) \/ SendInfo(p) \/ \E s \in Slots : Accept(p, s)
  \/ \E s \in Slots : AcceptUnset(s) \/ Recv(s)

Next ==
  \/ Reboot
  \/ /\ up /\ ~stray
     /\ \/ Server
        \/ \E p \in Peers :
             \/ Connect(p) \/ Finish(p) \/ ResetConn(p) \/ Deliver(p)
             \/ \E r \in Requests : Send(p, r) \/ \E n \in Cuts : SendCut(p, r, n)

Spec == Init /\ [][Next]_vars

\* The server's task runs when it can, the network delivers what is sent, a
\* restart completes.  Peers do as they like.
Fairness ==
  /\ WF_vars(~up /\ Reboot) /\ WF_vars(up /\ ~stray /\ Server)
  /\ \A p \in Peers : WF_vars(up /\ ~stray /\ Deliver(p))

LiveSpec == Spec /\ Fairness

-----------------------------------------------------------------------------
Frames    == [req: Requests, size: 1 .. FrameLen, left: 1 .. FrameLen]
SlotTypes == [peer: Peers \cup {NoPeer}, auth: BOOLEAN, want: {0, BodyLen}, have: 0 .. BodyLen - 1]
Replies   == {"none", "info", "login", "status", "config"}

\* The ranges of the variables.  As long as every piece was written into its
\* pck_buf, pck_buf_len stays below pck_len between two calls of sock_recv.
TypeOK ==
  /\ up \in BOOLEAN
  /\ conn \in [Peers -> {"closed", "pending", "open"}]
  /\ life \in [Peers -> {"alive", "finished", "reset"}]
  /\ stream \in [Peers -> Seq(Frames)] /\ arrived \in [Peers -> 0 .. FrameLen]
  /\ reply \in [Peers -> Replies]
  /\ client \in [Slots -> IF stray THEN AnyEntry ELSE SlotTypes]
  /\ pc \in {"select", "accept", "info", "serve"} /\ listening \in BOOLEAN
  /\ todo \subseteq Slots
  /\ loggedIn \subseteq Peers /\ heard \subseteq Peers
  /\ stray \in BOOLEAN

\* As long as every piece was written into its pck_buf: every accepted
\* connection has exactly one entry of client_info, and an entry has no
\* connection that is closed.  No path of sock_recv, of a response or of a
\* failed accept loses a socket or uses it twice.
SlotPerConnection ==
  ~stray =>
    /\ \A p \in Peers : conn[p] = "open" <=> \E s \in Slots : client[s].peer = p
    /\ \A s, t \in Slots : client[s].peer = client[t].peer /\ client[s].peer # NoPeer => s = t

\* As long as every piece was written into its pck_buf: a connection is
\* treated as logged in only if it sent the token itself.  It inherits nothing
\* from the connection that had its entry before.
LoginNotInherited == ~stray => \A s \in Slots : client[s].auth => client[s].peer \in loggedIn

\* The target component hears only connections that have logged in, up to the
\* first piece that was written outside of its pck_buf: check_auth trusts a
\* `state' that such a piece can write.
OnlyLoggedInHeard == ~stray => heard \subseteq loggedIn

\* The peers that check_auth lets pass.
Members == {client[s].peer : s \in {t \in Slots : client[t].auth}}

Abs == INSTANCE Sessions
         WITH Capacity <- NumSlots, link <- conn, end <- life, members <- Members, lost <- stray

\* The loop and its table behave as Sessions says: a connection is refused
\* only when NumSlots others are open, is logged in by itself and until its
\* own end, and is heard only then, whatever entry it was given.  From a piece
\* of a body that is written outside of its pck_buf to the restart, Sessions
\* and so this property promise nothing.
ImplementsSessions == Abs!Spec

\* Between two calls of sock_recv, what an entry says of the packet it is in
\* is where it is in the peer's stream: wherever the network cut header and
\* body, and whatever the entry was used for before, a header is read as a
\* header, up to the first second piece of a body, whose bytes go elsewhere.
InStep ==
  ~stray =>
    \A s \in Slots :
      LET p == client[s].peer IN
      p # NoPeer /\ stream[p] # <<>> =>
        Head(stream[p]).size - Head(stream[p]).left =
          IF client[s].want = 0 THEN 0 ELSE HeaderLen + client[s].have

\* "make sure pck_len isn't bigger than our buffer": a packet that passes this
\* check stays in its client's buffer, so that sock_recv changes the entry of
\* its own client and of no other.
OwnEntryOnly ==
  [][\A s \in Slots : Recv(s) => \A t \in Slots \ {s} : client'[t] = client[t]]_vars

\* Peers do not go on resetting connections for ever, nor does fcntl go on
\* failing (either makes the loop skip its clients), and from some time on no
\* body comes in pieces.
Calm ==
  /\ <>[][/\ \A p \in Peers : life'[p] = "reset" => life[p] = "reset"
          /\ \A s \in Slots : ~AcceptUnset(s)]_vars
  /\ <>[]~stray

\* A connection that is pending is accepted or refused.
PendingAnswered == Calm => \A p \in Peers : conn[p] = "pending" ~> conn[p] # "pending"

\* What a connected peer has sent is read, or its connection ends.
RequestsRead ==
  Calm => \A p \in Peers : conn[p] = "open" /\ stream[p] # <<>> ~> stream[p] = <<>> \/ conn[p] # "open"

\* "Header Peek: Connection closed": a peer that is gone gives its entry back.
GonePeerFreesSlot ==
  Calm => \A p \in Peers : conn[p] = "open" /\ life[p] # "alive" ~> conn[p] # "open"
=============================================================================
