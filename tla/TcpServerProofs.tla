-------------------------- MODULE TcpServerProofs --------------------------
(***************************************************************************)
(* The safety of the TCP server's sessions, for any peers, any number of   *)
(* entries, any lengths of header and body and any cuts by the network,    *)
(* from each start to the first second piece of a body, which sock_recv    *)
(* writes over memory that is not its own (stray).                         *)
(***************************************************************************)
EXTENDS TcpServer, FiniteSetTheorems, SequenceTheorems, TLAPS

-----------------------------------------------------------------------------
(***************************************************************************)
(* The strengthening.                                                      *)
(***************************************************************************)
LeftOf(str) == IF str = <<>> THEN 0 ELSE str[1].left

\* Of what a peer has sent, only the first packet may be read in part, and
\* only the last may be cut, by a peer that sends no more.
StreamInv ==
  \A p \in Peers :
    /\ \A i \in 1 .. Len(stream[p]) :
         /\ i # 1 \/ conn[p] = "pending" => stream[p][i].left = stream[p][i].size
         /\ stream[p][i].size # FrameLen => i = Len(stream[p]) /\ life[p] # "alive"
    /\ arrived[p] <= LeftOf(stream[p])

\* Between two calls, an entry without a peer is as new, one that waits for a
\* header has no bytes, and one that is ready has a peer.
EntryInv ==
  /\ \A s \in Slots :
       /\ client[s].peer = NoPeer => client[s] = FreeSlot
       /\ client[s].want = 0 => client[s].have = 0
  /\ \A s \in todo : client[s].peer # NoPeer

\* A packet in progress whose bytes have all been read was cut.
CutInv ==
  \A s \in Slots :
    client[s].want # 0 /\ client[s].peer # NoPeer =>
      (stream[client[s].peer] = <<>> => life[client[s].peer] # "alive")

\* What holds as long as every piece was written into its pck_buf.
TcpInv ==
  /\ ~stray
  /\ TypeOK /\ SlotPerConnection /\ LoginNotInherited /\ OnlyLoggedInHeard /\ InStep
  /\ StreamInv /\ EntryInv /\ CutInv

\* And what holds after that.
TcpOrStray == TypeOK /\ (~stray => TcpInv)

-----------------------------------------------------------------------------
(***************************************************************************)
(* Streams.                                                                *)
(***************************************************************************)
LEMMA Lengths ==
  /\ HeaderLen \in Nat \ {0} /\ BodyLen \in Nat \ {0} /\ NumSlots \in Nat \ {0}
  /\ FrameLen \in Nat /\ FrameLen = HeaderLen + BodyLen
  /\ NoPeer \notin Peers
  BY TcpAssumption DEF FrameLen

\* Another packet behind those of a stream.
LEMMA AppendStream ==
  ASSUME NEW str \in Seq(Frames), NEW f \in Frames
  PROVE  /\ Append(str, f) \in Seq(Frames) /\ Append(str, f) # <<>>
         /\ Len(Append(str, f)) = Len(str) + 1
         /\ \A i \in 1 .. Len(str) : Append(str, f)[i] = str[i]
         /\ Append(str, f)[Len(str) + 1] = f
  BY AppendProperties

\* A stream without its first packet.
LEMMA TailStream ==
  ASSUME NEW str \in Seq(Frames), str # <<>>
  PROVE  /\ Head(str) = str[1] /\ str[1] \in Frames
         /\ Tail(str) \in Seq(Frames) /\ Len(Tail(str)) = Len(str) - 1 /\ Len(str) \in Nat \ {0}
         /\ \A i \in 1 .. Len(Tail(str)) : Tail(str)[i] = str[i + 1]
         /\ (Tail(str) # <<>> => Len(Tail(str)) \in Nat \ {0} /\ Len(str) # 1)
<1>1. /\ Head(str) = str[1] /\ Head(str) \in Frames
      /\ Tail(str) \in Seq(Frames) /\ Len(Tail(str)) = Len(str) - 1
      /\ \A i \in 1 .. Len(Tail(str)) : Tail(str)[i] = str[i + 1]
  BY HeadTailProperties
<1>2. Len(str) \in Nat \ {0} /\ (Tail(str) # <<>> => Len(Tail(str)) \in Nat \ {0})
  BY <1>1, EmptySeq
<1>3. QED BY <1>1, <1>2

\* A stream whose first packet is replaced.
LEMMA HeadStream ==
  ASSUME NEW str \in Seq(Frames), str # <<>>, NEW f \in Frames
  PROVE  LET new == <<f>> \o Tail(str) IN
         /\ new \in Seq(Frames) /\ new # <<>> /\ Len(new) = Len(str) /\ new[1] = f
         /\ \A i \in 2 .. Len(str) : new[i] = str[i]
<1>1. <<f>> \in Seq(Frames) /\ Len(<<f>>) = 1 /\ <<f>>[1] = f
  OBVIOUS
<1>2. Tail(str) \in Seq(Frames) /\ Len(Tail(str)) = Len(str) - 1 /\ Len(str) \in Nat \ {0}
  BY TailStream
<1>3. <<f>> \o Tail(str) \in Seq(Frames) /\ Len(<<f>> \o Tail(str)) = 1 + Len(Tail(str))
  BY <1>1, <1>2, ConcatProperties
<1>4. \A i \in 1 .. 1 + Len(Tail(str)) :
        (<<f>> \o Tail(str))[i] = IF i <= 1 THEN <<f>>[i] ELSE Tail(str)[i - 1]
  BY <1>1, <1>2, ConcatProperties
<1>5. \A i \in 2 .. Len(str) : (<<f>> \o Tail(str))[i] = str[i]
  BY <1>2, <1>4, TailStream
<1>6. QED BY <1>1, <1>2, <1>3, <1>4, <1>5, EmptySeq

-----------------------------------------------------------------------------
(***************************************************************************)
(* Every step keeps the invariant: first those after which all is new.     *)
(***************************************************************************)
LEMMA InitInv == Init => TcpInv
<1> SUFFICES ASSUME Init PROVE TcpInv
  OBVIOUS
<1>1. TypeOK
  <2>1. up \in BOOLEAN /\ listening \in BOOLEAN /\ stray \in BOOLEAN /\ ~stray
    BY Zenon DEF Init
  <2>2. FreeSlot \in SlotTypes
    BY Lengths DEF FreeSlot, SlotTypes
  <2>3. <<>> \in Seq(Frames)
    BY EmptySeq
  <2>4. client \in [Slots -> SlotTypes] /\ stream \in [Peers -> Seq(Frames)]
    BY <2>1, <2>2, <2>3 DEF Init
  <2>5. /\ conn \in [Peers -> {"closed", "pending", "open"}]
        /\ life \in [Peers -> {"alive", "finished", "reset"}]
        /\ arrived \in [Peers -> 0 .. FrameLen] /\ reply \in [Peers -> Replies]
        /\ pc = "select" /\ todo = {} /\ loggedIn = {} /\ heard = {}
    BY Lengths DEF Init, Replies
  <2>6. QED BY <2>1, <2>4, <2>5 DEF TypeOK
<1>2. SlotPerConnection /\ LoginNotInherited /\ OnlyLoggedInHeard /\ InStep
  BY Lengths DEF Init, SlotPerConnection, LoginNotInherited, OnlyLoggedInHeard, InStep, FreeSlot
<1>3. StreamInv /\ EntryInv /\ CutInv
  BY EmptySeq DEF Init, StreamInv, LeftOf, EntryInv, CutInv, FreeSlot
<1>4. QED BY <1>1, <1>2, <1>3 DEF TcpInv, Init

LEMMA RebootStep == Reboot => TcpInv'
<1> SUFFICES ASSUME Reboot PROVE TcpInv'
  OBVIOUS
<1>1. TypeOK'
  <2>1. up' \in BOOLEAN /\ listening' \in BOOLEAN /\ stray' \in BOOLEAN /\ ~stray'
    BY Zenon DEF Reboot
  <2>2. FreeSlot \in SlotTypes
    BY Lengths DEF FreeSlot, SlotTypes
  <2>3. <<>> \in Seq(Frames)
    BY EmptySeq
  <2>4. client' \in [Slots -> SlotTypes] /\ stream' \in [Peers -> Seq(Frames)]
    BY <2>1, <2>2, <2>3 DEF Reboot
  <2>5. /\ conn' \in [Peers -> {"closed", "pending", "open"}]
        /\ life' \in [Peers -> {"alive", "finished", "reset"}]
        /\ arrived' \in [Peers -> 0 .. FrameLen] /\ reply' \in [Peers -> Replies]
        /\ pc' = "select" /\ todo' = {} /\ loggedIn' = {} /\ heard' = {}
    BY Lengths DEF Reboot, Replies
  <2>6. QED BY <2>1, <2>4, <2>5 DEF TypeOK
<1>2. (SlotPerConnection /\ LoginNotInherited /\ OnlyLoggedInHeard /\ InStep)'
  BY Lengths DEF Reboot, SlotPerConnection, LoginNotInherited, OnlyLoggedInHeard, InStep, FreeSlot
<1>3. (StreamInv /\ EntryInv /\ CutInv)'
  BY EmptySeq DEF Reboot, StreamInv, LeftOf, EntryInv, CutInv, FreeSlot
<1>4. QED BY <1>1, <1>2, <1>3 DEF TcpInv, Reboot

\* A step of the loop that changes no connection and no entry.
LEMMA QuietStep ==
  ASSUME TcpInv, UNCHANGED <<conn, peerVars, client, tcpHistory>>,
         up' \in BOOLEAN, reply' \in [Peers -> Replies],
         pc' \in {"select", "accept", "info", "serve"}, listening' \in BOOLEAN,
         todo' \subseteq Slots, \A s \in todo' : client[s].peer # NoPeer
  PROVE  TcpInv'
<1>1. TypeOK'
  BY DEF TcpInv, TypeOK, peerVars, tcpHistory
<1>2. (SlotPerConnection /\ LoginNotInherited /\ OnlyLoggedInHeard /\ InStep)'
  BY DEF TcpInv, SlotPerConnection, LoginNotInherited, OnlyLoggedInHeard, InStep, peerVars, tcpHistory
<1>3. (StreamInv /\ EntryInv /\ CutInv)'
  BY DEF TcpInv, StreamInv, LeftOf, EntryInv, CutInv, peerVars
<1>4. ~stray'
  BY DEF TcpInv, tcpHistory
<1>5. QED BY <1>1, <1>2, <1>3, <1>4 DEF TcpInv

-----------------------------------------------------------------------------
(***************************************************************************)
(* The peers and the network.                                              *)
(***************************************************************************)
\* The peer of an entry is connected, and has that entry alone.
LEMMA PeerOfEntry ==
  ASSUME TcpInv, NEW s \in Slots, client[s].peer # NoPeer
  PROVE  /\ client[s].peer \in Peers /\ conn[client[s].peer] = "open"
         /\ \A t \in Slots : client[t].peer = client[s].peer => t = s
  BY DEF TcpInv, TypeOK, SlotTypes, SlotPerConnection

LEMMA ConnectStep == ASSUME TcpInv, NEW p \in Peers, Connect(p) PROVE TcpInv'
<1>1. TypeOK'
  BY Lengths, EmptySeq DEF Connect, TcpInv, TypeOK, loopVars, Replies
<1>2. SlotPerConnection' /\ (\A s \in Slots : client[s].peer # p)
  BY Lengths DEF Connect, TcpInv, TypeOK, SlotPerConnection
<1>3. (LoginNotInherited /\ OnlyLoggedInHeard)'
  BY <1>2 DEF Connect, TcpInv, LoginNotInherited, OnlyLoggedInHeard
<1>4. \A q \in Peers : q # p => UNCHANGED <<conn[q], life[q], stream[q], arrived[q]>>
  BY DEF Connect, TcpInv, TypeOK
<1>5. stream'[p] = <<>> /\ arrived'[p] = 0
  BY DEF Connect, TcpInv, TypeOK
<1>6. (InStep /\ CutInv)'
  BY <1>2, <1>4, PeerOfEntry DEF Connect, TcpInv, InStep, CutInv
<1>7. (StreamInv /\ EntryInv)'
  BY <1>4, <1>5, EmptySeq DEF Connect, TcpInv, StreamInv, LeftOf, EntryInv, loopVars
<1>8. ~stray'
  BY DEF TcpInv, Connect
<1>9. QED BY <1>1, <1>2, <1>3, <1>6, <1>7, <1>8 DEF TcpInv

\* Another packet, whole or the last of the peer.
LEMMA SendStep ==
  ASSUME TcpInv, NEW p \in Peers, CanSend(p), NEW r \in Requests, NEW n \in 1 .. FrameLen,
         stream' = [stream EXCEPT ![p] = Append(@, Frame(r, n))],
         (life' = life /\ n = FrameLen) \/ life' = [life EXCEPT ![p] = "finished"],
         UNCHANGED <<up, conn, arrived, reply, client, loopVars, tcpHistory>>
  PROVE  TcpInv'
<1> DEFINE f == Frame(r, n)
<1>1. /\ f \in Frames /\ f.left = n /\ f.size = n /\ stream[p] \in Seq(Frames)
      /\ conn[p] # "closed" /\ life[p] = "alive" /\ n \in Nat
  <2>1. f = [req |-> r, size |-> n, left |-> n]
    BY DEF Frame
  <2>2. f \in Frames /\ f.left = n /\ f.size = n /\ n \in Nat
    BY <2>1, Lengths DEF Frames
  <2>3. stream[p] \in Seq(Frames) /\ conn[p] # "closed" /\ life[p] = "alive"
    BY DEF TcpInv, TypeOK, CanSend
  <2>4. QED BY <2>2, <2>3
<1>2. stream'[p] = Append(stream[p], f)
  BY DEF TcpInv, TypeOK
<1> HIDE DEF f
<1>3. \A q \in Peers : q # p => UNCHANGED <<life[q], stream[q]>>
  BY DEF TcpInv, TypeOK
<1>4. /\ stream'[p] \in Seq(Frames) /\ stream'[p] # <<>> /\ Len(stream'[p]) = Len(stream[p]) + 1
      /\ \A i \in 1 .. Len(stream[p]) : stream'[p][i] = stream[p][i]
      /\ stream'[p][Len(stream[p]) + 1] = f /\ Len(stream[p]) \in Nat
  BY <1>1, <1>2, AppendStream, LenProperties
<1>5. TypeOK'
  <2>1. stream' \in [Peers -> Seq(Frames)]
    BY <1>3, <1>4 DEF TcpInv, TypeOK
  <2>2. QED BY <2>1 DEF TcpInv, TypeOK, loopVars, tcpHistory
<1>6. (SlotPerConnection /\ LoginNotInherited /\ OnlyLoggedInHeard /\ EntryInv)'
  BY DEF TcpInv, SlotPerConnection, LoginNotInherited, OnlyLoggedInHeard, EntryInv, loopVars, tcpHistory
<1>7. CutInv'
  BY <1>3, <1>4, PeerOfEntry DEF TcpInv, CutInv
<1>8. /\ stream[p] = <<>> => Head(stream'[p]) = f
      /\ stream[p] # <<>> => Head(stream'[p]) = Head(stream[p])
  BY <1>1, <1>4, EmptySeq, TailStream
<1>9. InStep'
  <2> SUFFICES ASSUME NEW s \in Slots, client[s].peer # NoPeer,
                      stream'[client[s].peer] # <<>>
               PROVE  Head(stream'[client[s].peer]).size - Head(stream'[client[s].peer]).left =
                        IF client[s].want = 0 THEN 0 ELSE HeaderLen + client[s].have
    BY DEF InStep
  <2>1. CASE client[s].peer # p
    BY <2>1, <1>3, PeerOfEntry DEF TcpInv, InStep
  <2>2. CASE client[s].peer = p /\ stream[p] # <<>>
    BY <2>2, <1>8 DEF TcpInv, InStep
  <2>3. CASE client[s].peer = p /\ stream[p] = <<>>
    BY <2>3, <1>1, <1>8 DEF TcpInv, CutInv
  <2>4. QED BY <2>1, <2>2, <2>3
<1>10. StreamInv'
  <2> SUFFICES ASSUME NEW q \in Peers
               PROVE  /\ \A i \in 1 .. Len(stream'[q]) :
                           /\ i # 1 \/ conn[q] = "pending" => stream'[q][i].left = stream'[q][i].size
                           /\ stream'[q][i].size # FrameLen => i = Len(stream'[q]) /\ life'[q] # "alive"
                      /\ arrived[q] <= LeftOf(stream'[q])
    BY DEF StreamInv
  <2>1. CASE q # p
    BY <2>1, <1>3 DEF TcpInv, StreamInv
  <2>2. CASE q = p
    <3>1. ASSUME NEW i \in 1 .. Len(stream'[p])
          PROVE  /\ i # 1 \/ conn[p] = "pending" => stream'[p][i].left = stream'[p][i].size
                 /\ stream'[p][i].size # FrameLen => i = Len(stream'[p]) /\ life'[p] # "alive"
      <4>1. CASE i \in 1 .. Len(stream[p])
        BY <4>1, <1>1, <1>4 DEF TcpInv, StreamInv
      <4>2. CASE i = Len(stream[p]) + 1
        BY <4>2, <1>1, <1>4 DEF TcpInv, TypeOK
      <4>3. QED BY <4>1, <4>2, <1>4
    <3>2. arrived[p] <= LeftOf(stream'[p])
      <4>1. arrived[p] \in Int /\ arrived[p] <= LeftOf(stream[p])
        BY Lengths DEF TcpInv, TypeOK, StreamInv
      <4>2. CASE stream[p] = <<>>
        <5>1. stream'[p][1] = f BY <4>2, <1>4, EmptySeq
        <5>2. QED BY <4>1, <4>2, <5>1, <1>1, <1>4 DEF LeftOf
      <4>3. CASE stream[p] # <<>>
        <5>1. stream'[p][1] = stream[p][1] BY <4>3, <1>1, <1>4, EmptySeq
        <5>2. QED BY <4>1, <4>3, <5>1, <1>4 DEF LeftOf
      <4>4. QED BY <4>2, <4>3
    <3>3. QED BY <2>2, <3>1, <3>2
  <2>3. QED BY <2>1, <2>2
<1>11. ~stray'
  BY DEF TcpInv, tcpHistory
<1>12. QED BY <1>5, <1>6, <1>7, <1>9, <1>10, <1>11 DEF TcpInv

LEMMA FinishStep == ASSUME TcpInv, NEW p \in Peers, Finish(p) PROVE TcpInv'
<1>1. TypeOK'
  BY DEF Finish, TcpInv, TypeOK, loopVars, tcpHistory
<1>2. \A q \in Peers : life'[q] = "alive" => life[q] = "alive"
  BY DEF Finish, TcpInv, TypeOK
<1>3. (SlotPerConnection /\ LoginNotInherited /\ OnlyLoggedInHeard /\ EntryInv /\ InStep)'
  BY DEF Finish, TcpInv, SlotPerConnection, LoginNotInherited, OnlyLoggedInHeard, EntryInv, InStep,
         loopVars, tcpHistory
<1>4. (StreamInv /\ CutInv)'
  BY <1>2, PeerOfEntry DEF Finish, TcpInv, StreamInv, LeftOf, CutInv
<1>5. ~stray'
  BY DEF TcpInv, Finish, tcpHistory
<1>6. QED BY <1>1, <1>3, <1>4, <1>5 DEF TcpInv

LEMMA ResetStep == ASSUME TcpInv, NEW p \in Peers, ResetConn(p) PROVE TcpInv'
<1>1. TypeOK'
  BY DEF ResetConn, TcpInv, TypeOK, loopVars, tcpHistory
<1>2. \A q \in Peers : life'[q] = "alive" => life[q] = "alive"
  BY DEF ResetConn, TcpInv, TypeOK
<1>3. \A q \in Peers : /\ conn'[q] = "open" <=> conn[q] = "open"
                       /\ conn'[q] = "pending" => conn[q] = "pending"
  BY DEF ResetConn, TcpInv, TypeOK
<1>4. (SlotPerConnection /\ LoginNotInherited /\ OnlyLoggedInHeard /\ EntryInv /\ InStep)'
  BY <1>3 DEF ResetConn, TcpInv, SlotPerConnection, LoginNotInherited, OnlyLoggedInHeard, EntryInv,
         InStep, loopVars, tcpHistory
<1>5. (StreamInv /\ CutInv)'
  BY <1>2, <1>3, PeerOfEntry DEF ResetConn, TcpInv, StreamInv, LeftOf, CutInv
<1>6. ~stray'
  BY DEF TcpInv, ResetConn, tcpHistory
<1>7. QED BY <1>1, <1>4, <1>5, <1>6 DEF TcpInv

LEMMA DeliverStep == ASSUME TcpInv, NEW p \in Peers, Deliver(p) PROVE TcpInv'
<1> PICK n \in arrived[p] + 1 .. Head(stream[p]).left : arrived' = [arrived EXCEPT ![p] = n]
  BY DEF Deliver
<1>1. /\ stream[p] # <<>> /\ Head(stream[p]) = stream[p][1] /\ stream[p][1] \in Frames
      /\ arrived[p] \in Nat
  BY Lengths, TailStream DEF Deliver, TcpInv, TypeOK
<1>2. n \in 0 .. FrameLen /\ n <= LeftOf(stream[p])
  BY <1>1, Lengths DEF Frames, LeftOf
<1>3. TypeOK'
  BY <1>2 DEF Deliver, TcpInv, TypeOK, loopVars, tcpHistory
<1>4. (SlotPerConnection /\ LoginNotInherited /\ OnlyLoggedInHeard /\ EntryInv /\ InStep /\ CutInv)'
  BY DEF Deliver, TcpInv, SlotPerConnection, LoginNotInherited, OnlyLoggedInHeard, EntryInv,
         InStep, CutInv, loopVars, tcpHistory
<1>5. StreamInv'
  BY <1>2 DEF Deliver, TcpInv, TypeOK, StreamInv
<1>6. ~stray'
  BY DEF TcpInv, Deliver, tcpHistory
<1>7. QED BY <1>3, <1>4, <1>5, <1>6 DEF TcpInv

-----------------------------------------------------------------------------
(***************************************************************************)
(* The server's loop.                                                      *)
(***************************************************************************)
LEMMA RefuseStep == ASSUME TcpInv, NEW p \in Peers, AcceptRefuses(p) PROVE TcpInv'
<1>1. /\ todo' = {} /\ pc' = "select" /\ UNCHANGED <<up, peerVars, reply, client, tcpHistory, listening>>
      /\ conn[p] = "pending" /\ conn' = [conn EXCEPT ![p] = "closed"]
  BY DEF AcceptRefuses, Pending, BreakLoop
<1>2. TypeOK'
  BY <1>1 DEF TcpInv, TypeOK, peerVars, tcpHistory
<1>3. \A q \in Peers : /\ conn'[q] = "open" <=> conn[q] = "open"
                       /\ conn'[q] = "pending" => conn[q] = "pending"
  BY <1>1 DEF TcpInv, TypeOK
<1>4. (SlotPerConnection /\ LoginNotInherited /\ OnlyLoggedInHeard /\ EntryInv /\ InStep)'
  BY <1>1, <1>3 DEF TcpInv, SlotPerConnection, LoginNotInherited, OnlyLoggedInHeard, EntryInv,
                    InStep, peerVars, tcpHistory
<1>5. (StreamInv /\ CutInv)'
  BY <1>1, <1>3 DEF TcpInv, StreamInv, LeftOf, CutInv, peerVars
<1>6. ~stray'
  BY <1>1 DEF TcpInv, tcpHistory
<1>7. QED BY <1>2, <1>4, <1>5, <1>6 DEF TcpInv

LEMMA AcceptStep ==
  ASSUME TcpInv, NEW p \in Peers, NEW s \in Slots, Accept(p, s)
  PROVE  TcpInv'
<1>1. /\ pc' = "info" /\ UNCHANGED <<up, peerVars, reply, tcpHistory, listening, todo>>
      /\ conn[p] = "pending" /\ conn' = [conn EXCEPT ![p] = "open"]
      /\ client[s].peer = NoPeer /\ client' = [client EXCEPT ![s].peer = p]
  BY DEF Accept, Pending, FreeSlots
<1>2. client[s] = FreeSlot /\ p # NoPeer
  BY <1>1, Lengths DEF TcpInv, EntryInv
<1>3. /\ client'[s] = [peer |-> p, auth |-> FALSE, want |-> 0, have |-> 0]
      /\ \A t \in Slots : t # s => client'[t] = client[t]
  <2>1. client'[s] = [client[s] EXCEPT !.peer = p] /\ \A t \in Slots : t # s => client'[t] = client[t]
    BY <1>1 DEF TcpInv, TypeOK
  <2>2. client'[s] = [FreeSlot EXCEPT !.peer = p]
    BY <2>1, <1>2
  <2>3. client'[s] = [peer |-> p, auth |-> FALSE, want |-> 0, have |-> 0]
    BY <2>2 DEF FreeSlot
  <2>4. QED BY <2>1, <2>3
<1>4. /\ conn'[p] = "open" /\ \A q \in Peers : q # p => conn'[q] = conn[q]
      /\ \A t \in Slots : client[t].peer # p
  BY <1>1, <1>2 DEF TcpInv, TypeOK, SlotPerConnection
<1>5. TypeOK'
  <2>1. client'[s] \in SlotTypes
    BY <1>3, Lengths DEF SlotTypes
  <2>2. client' \in [Slots -> SlotTypes]
    BY <1>1, <2>1, <1>3 DEF TcpInv, TypeOK
  <2>3. QED BY <1>1, <2>2 DEF TcpInv, TypeOK, peerVars, tcpHistory
<1>6. SlotPerConnection'
  <2>1. \A t \in Slots : client'[t].peer = IF t = s THEN p ELSE client[t].peer
    BY <1>3
  <2>2. ASSUME NEW q \in Peers PROVE conn'[q] = "open" <=> \E t \in Slots : client'[t].peer = q
    <3>1. CASE q = p BY <3>1, <2>1, <1>4
    <3>2. CASE q # p
      BY <3>2, <2>1, <1>1, <1>2, <1>4, Lengths DEF TcpInv, SlotPerConnection
    <3>3. QED BY <3>1, <3>2
  <2>3. \A t, u \in Slots : client'[t].peer = client'[u].peer /\ client'[t].peer # NoPeer => t = u
    BY <2>1, <1>4 DEF TcpInv, SlotPerConnection
  <2>4. QED BY <2>2, <2>3 DEF SlotPerConnection
<1>7. LoginNotInherited' /\ OnlyLoggedInHeard'
  BY <1>1, <1>3 DEF TcpInv, LoginNotInherited, OnlyLoggedInHeard, tcpHistory
<1>8. EntryInv' /\ CutInv'
  BY <1>1, <1>2, <1>3 DEF TcpInv, EntryInv, CutInv, peerVars
<1>9. InStep'
  <2>1. ASSUME stream[p] # <<>>
        PROVE  Head(stream[p]).size - Head(stream[p]).left = 0
    <3>1. Head(stream[p]) = stream[p][1] /\ stream[p][1] \in Frames /\ Len(stream[p]) \in Nat \ {0}
      BY <2>1, TailStream DEF TcpInv, TypeOK
    <3>2. stream[p][1].left = stream[p][1].size
      BY <3>1, <1>1 DEF TcpInv, StreamInv
    <3>3. QED BY <3>1, <3>2, Lengths DEF Frames
  <2>2. QED BY <1>1, <1>3, <2>1 DEF TcpInv, InStep, peerVars
<1>10. StreamInv'
  BY <1>1, <1>4 DEF TcpInv, StreamInv, LeftOf, peerVars
<1>11. ~stray'
  BY <1>1 DEF TcpInv, tcpHistory
<1>12. QED BY <1>5, <1>6, <1>7, <1>8, <1>9, <1>10, <1>11 DEF TcpInv

\* An entry is closed.  What the request did before that may count as a login
\* or as a command of a connection that has logged in.
LEMMA CloseStep ==
  ASSUME TcpInv, NEW s \in Slots, client[s].peer # NoPeer, SocketClose(s),
         pc' \in {"select", "accept", "info", "serve"}, listening' = listening,
         todo' \subseteq todo \ {s}, stray' = stray,
         loggedIn \subseteq loggedIn', loggedIn' \subseteq Peers, heard' \subseteq loggedIn'
  PROVE  TcpInv'
<1> DEFINE p == client[s].peer
<1>1. /\ p \in Peers /\ p # NoPeer /\ conn[p] = "open"
      /\ \A t \in Slots : client[t].peer = p => t = s
  BY PeerOfEntry
<1> HIDE DEF p
<1>2. /\ conn' = [conn EXCEPT ![p] = "closed"] /\ stream' = [stream EXCEPT ![p] = <<>>]
      /\ arrived' = [arrived EXCEPT ![p] = 0] /\ client' = [client EXCEPT ![s] = FreeSlot]
      /\ UNCHANGED <<up, life, reply>>
  BY DEF SocketClose, Cleared, p
<1>3. /\ conn'[p] = "closed" /\ stream'[p] = <<>> /\ arrived'[p] = 0
      /\ \A q \in Peers : q # p => UNCHANGED <<conn[q], stream[q], arrived[q]>>
      /\ client'[s] = FreeSlot /\ \A t \in Slots : t # s => client'[t] = client[t]
  BY <1>1, <1>2 DEF TcpInv, TypeOK
<1>4. TypeOK'
  <2>1. FreeSlot \in SlotTypes
    BY Lengths DEF FreeSlot, SlotTypes
  <2>2. client' \in [Slots -> SlotTypes]
    BY <1>2, <2>1 DEF TcpInv, TypeOK
  <2>3. <<>> \in Seq(Frames) /\ stream \in [Peers -> Seq(Frames)]
    BY EmptySeq DEF TcpInv, TypeOK
  <2>4. stream' \in [Peers -> Seq(Frames)]
    BY <1>2, <2>3
  <2>5. conn' \in [Peers -> {"closed", "pending", "open"}]
    BY <1>2 DEF TcpInv, TypeOK
  <2>6. 0 \in 0 .. FrameLen /\ arrived \in [Peers -> 0 .. FrameLen]
    BY Lengths DEF TcpInv, TypeOK
  <2>7. arrived' \in [Peers -> 0 .. FrameLen]
    BY <1>2, <2>6
  <2>8. QED BY <1>2, <2>2, <2>4, <2>5, <2>7 DEF TcpInv, TypeOK
<1>5. SlotPerConnection'
  BY <1>1, <1>3, Lengths DEF FreeSlot, TcpInv, SlotPerConnection
<1>6. LoginNotInherited' /\ OnlyLoggedInHeard'
  BY <1>3 DEF TcpInv, LoginNotInherited, OnlyLoggedInHeard, FreeSlot
<1>7. EntryInv'
  BY <1>2, <1>3 DEF TcpInv, EntryInv, TypeOK, FreeSlot
<1>8. ASSUME NEW t \in Slots, client'[t].peer # NoPeer
      PROVE  /\ client'[t] = client[t] /\ client[t].peer \in Peers /\ client[t].peer # p
             /\ stream'[client[t].peer] = stream[client[t].peer]
  BY <1>1, <1>3, <1>8, PeerOfEntry DEF FreeSlot
<1>9. InStep' /\ CutInv'
  BY <1>2, <1>8 DEF TcpInv, InStep, CutInv
<1>10. StreamInv'
  BY <1>2, <1>3, EmptySeq DEF TcpInv, StreamInv, LeftOf
<1>11. QED BY <1>4, <1>5, <1>6, <1>7, <1>9, <1>10 DEF TcpInv

-----------------------------------------------------------------------------
(***************************************************************************)
(* sock_recv reads.                                                        *)
(***************************************************************************)
\* What can be read belongs to the packet the entry is in.
LEMMA Reading ==
  ASSUME TcpInv, NEW s \in Slots, CanRead(s), NEW p, p = client[s].peer
  PROVE  /\ p \in Peers /\ p # NoPeer /\ conn[p] = "open"
         /\ \A t \in Slots : client[t].peer = p => t = s
         /\ stream[p] # <<>> /\ stream[p] \in Seq(Frames) /\ arrived[p] \in 1 .. Head(stream[p]).left
         /\ Head(stream[p]) \in Frames
         /\ HeaderDue(s) + BodyHere(s) = arrived[p] /\ BodyHere(s) \in Nat
         /\ Head(stream[p]).size - Head(stream[p]).left =
              IF client[s].want = 0 THEN 0 ELSE HeaderLen + client[s].have
         /\ client[s] \in SlotTypes /\ (client[s].want = 0 => client[s].have = 0)
<1>1. /\ p \in Peers /\ p # NoPeer /\ conn[p] = "open"
      /\ \A t \in Slots : client[t].peer = p => t = s
  BY PeerOfEntry, Lengths DEF CanRead, Turn, TcpInv, EntryInv
<1>2. /\ arrived[p] \in Nat /\ arrived[p] > 0 /\ arrived[p] <= LeftOf(stream[p])
      /\ stream[p] \in Seq(Frames) /\ client[s] \in SlotTypes
      /\ (client[s].want = 0 => client[s].have = 0)
      /\ (client[s].want = 0 => arrived[p] >= HeaderLen)
  BY <1>1, Lengths DEF CanRead, TcpInv, TypeOK, StreamInv, EntryInv
<1>3. stream[p] # <<>>
  BY <1>2 DEF LeftOf
<1>4. Head(stream[p]) = stream[p][1] /\ Head(stream[p]) \in Frames
  BY <1>2, <1>3, TailStream
<1>5. arrived[p] \in 1 .. Head(stream[p]).left
  BY <1>2, <1>3, <1>4, Lengths DEF LeftOf, Frames
<1>6. HeaderDue(s) + BodyHere(s) = arrived[p] /\ BodyHere(s) \in Nat
  BY <1>2, Lengths DEF HeaderDue, BodyHere
<1>7. Head(stream[p]).size - Head(stream[p]).left =
        IF client[s].want = 0 THEN 0 ELSE HeaderLen + client[s].have
  BY <1>1, <1>3 DEF TcpInv, InStep
<1>8. QED BY <1>1, <1>2, <1>3, <1>4, <1>5, <1>6, <1>7

\* What recv() leaves of a stream of which it takes all that has come.
LEMMA Taking ==
  ASSUME TcpInv, NEW p \in Peers, stream[p] # <<>>, stream[p] \in Seq(Frames),
         arrived[p] \in 1 .. Head(stream[p]).left, conn[p] = "open", conn' = conn,
         Take(p, arrived[p])
  PROVE  /\ stream' \in [Peers -> Seq(Frames)] /\ arrived' \in [Peers -> 0 .. FrameLen]
         /\ life' = life /\ StreamInv'
         /\ \A q \in Peers : q # p => stream'[q] = stream[q]
         /\ arrived[p] # Head(stream[p]).left =>
              /\ stream'[p] # <<>> /\ Head(stream'[p]).size = Head(stream[p]).size
              /\ Head(stream'[p]).left = Head(stream[p]).left - arrived[p]
         /\ arrived[p] = Head(stream[p]).left =>
              /\ stream'[p] # <<>> => Head(stream'[p]).size - Head(stream'[p]).left = 0
              /\ Head(stream[p]).size # FrameLen => stream'[p] = <<>> /\ life[p] # "alive"
<1> DEFINE h == Head(stream[p])
           n == arrived[p]
           rest == [h EXCEPT !.left = h.left - n]
<1>1. /\ h = stream[p][1] /\ h \in Frames /\ Len(stream[p]) \in Nat \ {0}
      /\ Tail(stream[p]) \in Seq(Frames) /\ Len(Tail(stream[p])) = Len(stream[p]) - 1
      /\ \A i \in 1 .. Len(Tail(stream[p])) : Tail(stream[p])[i] = stream[p][i + 1]
      /\ Tail(stream[p]) # <<>> => Len(Tail(stream[p])) \in Nat \ {0} /\ Len(stream[p]) # 1
  BY TailStream
<1>2. h.size \in 1 .. FrameLen /\ h.left \in 1 .. FrameLen /\ n \in 1 .. h.left
  BY <1>1 DEF Frames
<1>3. n # h.left => rest \in Frames /\ rest.size = h.size /\ rest.left = h.left - n
  <2>1. h \in [req: Requests, size: 1 .. FrameLen, left: 1 .. FrameLen]
    BY <1>1 DEF Frames
  <2>2. rest.req = h.req /\ rest.size = h.size /\ rest.left = h.left - n
    BY <2>1
  <2>3. n # h.left => h.left - n \in 1 .. FrameLen
    BY <1>2, Lengths
  <2>4. n # h.left => rest \in Frames
    BY <2>1, <2>3 DEF Frames
  <2>5. QED BY <2>2, <2>4
<1>4. /\ stream'[p] = IF h.left = n THEN Tail(stream[p]) ELSE <<rest>> \o Tail(stream[p])
      /\ \A q \in Peers : q # p => stream'[q] = stream[q] /\ arrived'[q] = arrived[q]
      /\ life' = life /\ arrived'[p] = 0
  <2>1. /\ stream \in [Peers -> Seq(Frames)] /\ arrived \in [Peers -> 0 .. FrameLen]
        /\ arrived[p] - arrived[p] = 0
    BY <1>2, Lengths DEF TcpInv, TypeOK
  <2>2. /\ stream' = [stream EXCEPT ![p] =
                       IF h.left = n THEN Tail(stream[p]) ELSE <<rest>> \o Tail(stream[p])]
        /\ arrived' = [arrived EXCEPT ![p] = n - n] /\ life' = life
    BY Zenon DEF Take
  <2>3. QED BY <2>1, <2>2
<1> HIDE DEF h, n, rest
<1>5. \A i \in 1 .. Len(stream[p]) :
        /\ i # 1 => stream[p][i].left = stream[p][i].size
        /\ stream[p][i].size # FrameLen => i = Len(stream[p]) /\ life[p] # "alive"
  BY DEF TcpInv, StreamInv
<1>6. CASE h.left = n
  <2>1. stream'[p] = Tail(stream[p]) BY <1>4, <1>6
  <2>2. ASSUME NEW i \in 1 .. Len(stream'[p])
        PROVE  /\ stream'[p][i].left = stream'[p][i].size
               /\ stream'[p][i].size # FrameLen => i = Len(stream'[p]) /\ life[p] # "alive"
    <3>1. i + 1 \in 1 .. Len(stream[p]) /\ i + 1 # 1 /\ stream'[p][i] = stream[p][i + 1]
      BY <2>1, <1>1
    <3>2. i + 1 = Len(stream[p]) => i = Len(stream'[p])
      BY <2>1, <1>1
    <3>3. QED BY <3>1, <3>2, <1>5
  <2>3. ASSUME stream'[p] # <<>>
        PROVE  /\ Head(stream'[p]) = stream'[p][1] /\ stream'[p][1] \in Frames
               /\ Len(stream'[p]) \in Nat \ {0}
    BY <2>1, <2>3, <1>1, TailStream
  <2>4. stream'[p] # <<>> => Head(stream'[p]).size - Head(stream'[p]).left = 0
    <3> SUFFICES ASSUME stream'[p] # <<>> PROVE Head(stream'[p]).size - Head(stream'[p]).left = 0
      OBVIOUS
    <3>1. stream'[p][1].left = stream'[p][1].size
      BY <2>2, <2>3
    <3>2. stream'[p][1].size \in Nat
      BY <2>3, Lengths DEF Frames
    <3>3. QED BY <2>3, <3>1, <3>2
  <2>5. h.size # FrameLen => stream'[p] = <<>> /\ life[p] # "alive"
    BY <2>1, <1>1, <1>5
  <2>6. 0 <= LeftOf(stream'[p])
    BY <2>3, Lengths DEF LeftOf, Frames
  <2>7. StreamInv'
    <3>1. ASSUME NEW q \in Peers, q # p
          PROVE  UNCHANGED <<conn[q], life[q], stream[q], arrived[q]>>
      BY <3>1, <1>4
    <3>2. conn'[p] # "pending" /\ life'[p] = life[p] /\ arrived'[p] <= LeftOf(stream'[p])
      BY <2>6, <1>4
    <3>3. QED BY <3>1, <3>2, <2>2 DEF TcpInv, StreamInv
  <2>8. stream' \in [Peers -> Seq(Frames)] /\ arrived' \in [Peers -> 0 .. FrameLen]
    <3>1. stream'[p] \in Seq(Frames) /\ arrived'[p] \in 0 .. FrameLen
      BY <2>1, <1>1, <1>4, Lengths
    <3>2. \A q \in Peers : stream'[q] \in Seq(Frames) /\ arrived'[q] \in 0 .. FrameLen
      BY <3>1, <1>4 DEF TcpInv, TypeOK
    <3>3. DOMAIN stream' = Peers /\ DOMAIN arrived' = Peers
      BY DEF Take, TcpInv, TypeOK
    <3>4. stream' = [q \in Peers |-> stream'[q]] /\ arrived' = [q \in Peers |-> arrived'[q]]
      BY <3>3 DEF Take, TcpInv, TypeOK
    <3>5. QED BY <3>2, <3>4
  <2>9. QED BY <2>4, <2>5, <2>7, <2>8, <1>4, <1>6 DEF h, n
<1>7. CASE h.left # n
  <2>1. stream'[p] = <<rest>> \o Tail(stream[p]) BY <1>4, <1>7
  <2>2. /\ stream'[p] \in Seq(Frames) /\ stream'[p] # <<>> /\ Len(stream'[p]) = Len(stream[p])
        /\ stream'[p][1] = rest /\ \A i \in 2 .. Len(stream[p]) : stream'[p][i] = stream[p][i]
    BY <2>1, <1>3, <1>7, HeadStream
  <2>3. Head(stream'[p]) = rest
    BY <2>2, TailStream
  <2>4. ASSUME NEW i \in 1 .. Len(stream'[p])
        PROVE  /\ i # 1 => stream'[p][i].left = stream'[p][i].size
               /\ stream'[p][i].size # FrameLen => i = Len(stream'[p]) /\ life[p] # "alive"
    <3>1. CASE i = 1
      BY <3>1, <2>2, <1>1, <1>3, <1>5, <1>7
    <3>2. CASE i # 1
      BY <3>2, <2>2, <1>1, <1>5
    <3>3. QED BY <3>1, <3>2
  <2>5. 0 <= LeftOf(stream'[p])
    BY <2>2, <1>3, <1>7, Lengths DEF LeftOf, Frames
  <2>6. StreamInv'
    <3>1. ASSUME NEW q \in Peers, q # p
          PROVE  UNCHANGED <<conn[q], life[q], stream[q], arrived[q]>>
      BY <3>1, <1>4
    <3>2. conn'[p] # "pending" /\ life'[p] = life[p] /\ arrived'[p] <= LeftOf(stream'[p])
      BY <2>5, <1>4
    <3>3. QED BY <3>1, <3>2, <2>4 DEF TcpInv, StreamInv
  <2>7. stream' \in [Peers -> Seq(Frames)] /\ arrived' \in [Peers -> 0 .. FrameLen]
    <3>1. stream'[p] \in Seq(Frames) /\ arrived'[p] \in 0 .. FrameLen
      BY <2>2, <1>4, Lengths
    <3>2. \A q \in Peers : stream'[q] \in Seq(Frames) /\ arrived'[q] \in 0 .. FrameLen
      BY <3>1, <1>4 DEF TcpInv, TypeOK
    <3>3. DOMAIN stream' = Peers /\ DOMAIN arrived' = Peers
      BY DEF Take, TcpInv, TypeOK
    <3>4. stream' = [q \in Peers |-> stream'[q]] /\ arrived' = [q \in Peers |-> arrived'[q]]
      BY <3>3 DEF Take, TcpInv, TypeOK
    <3>5. QED BY <3>2, <3>4
  <2>8. QED BY <2>2, <2>3, <2>6, <2>7, <1>3, <1>4, <1>7 DEF h, n
<1>8. QED BY <1>6, <1>7

\* Either way, the entry is in step with what is left of the stream.
LEMMA ReadStep ==
  ASSUME TcpInv, NEW s \in Slots, CanRead(s), Served(s), Take(client[s].peer, arrived[client[s].peer]),
         UNCHANGED <<up, conn, stray>>, reply' \in [Peers -> Replies],
         loggedIn \subseteq loggedIn', loggedIn' \subseteq Peers, heard' \subseteq loggedIn',
         NEW c \in SlotTypes, client' = [client EXCEPT ![s] = c], c.peer = client[s].peer,
         c.auth => c.peer \in loggedIn', c.want = 0 => c.have = 0,
         IF c.want = 0 THEN client[s].have + BodyHere(s) = BodyLen
         ELSE c.have = client[s].have + BodyHere(s)
  PROVE  TcpInv'
<1> DEFINE p == client[s].peer
           h == Head(stream[p])
           read == IF client[s].want = 0 THEN 0 ELSE HeaderLen + client[s].have
<1>1. /\ p \in Peers /\ p # NoPeer /\ conn[p] = "open"
      /\ \A t \in Slots : client[t].peer = p => t = s
      /\ stream[p] # <<>> /\ stream[p] \in Seq(Frames) /\ arrived[p] \in 1 .. h.left
      /\ h \in Frames /\ h.size - h.left = read
      /\ HeaderDue(s) + BodyHere(s) = arrived[p] /\ BodyHere(s) \in Nat
      /\ client[s] \in SlotTypes /\ (client[s].want = 0 => client[s].have = 0)
  BY Reading
<1>2. /\ stream' \in [Peers -> Seq(Frames)] /\ arrived' \in [Peers -> 0 .. FrameLen]
      /\ life' = life /\ StreamInv'
      /\ \A q \in Peers : q # p => stream'[q] = stream[q]
      /\ arrived[p] # h.left =>
           /\ stream'[p] # <<>> /\ Head(stream'[p]).size = h.size
           /\ Head(stream'[p]).left = h.left - arrived[p]
      /\ arrived[p] = h.left =>
           /\ stream'[p] # <<>> => Head(stream'[p]).size - Head(stream'[p]).left = 0
           /\ h.size # FrameLen => stream'[p] = <<>> /\ life[p] # "alive"
  BY <1>1, Taking
<1>3. /\ h.size \in 1 .. FrameLen /\ h.left \in 1 .. FrameLen
      /\ client[s].have \in 0 .. BodyLen - 1 /\ c.have \in 0 .. BodyLen - 1 /\ c.want \in {0, BodyLen}
  BY <1>1 DEF Frames, SlotTypes
<1>4. read + arrived[p] = HeaderLen + client[s].have + BodyHere(s)
  BY <1>1, <1>3, Lengths DEF HeaderDue
<1> HIDE DEF p, h, read
<1>5. client'[s] = c /\ \A t \in Slots : t # s => client'[t] = client[t]
  BY DEF TcpInv, TypeOK
<1>6. /\ c.peer = p /\ client[s].peer = p
      /\ UNCHANGED <<up, conn, stray, pc, listening>> /\ todo' = todo \ {s}
  BY DEF p, Served
<1>7. TypeOK'
  <2>1. client' \in [Slots -> SlotTypes]
    BY DEF TcpInv, TypeOK
  <2>2. QED BY <1>2, <1>6, <2>1 DEF TcpInv, TypeOK
<1>8. SlotPerConnection'
  <2>1. \A t \in Slots : client'[t].peer = client[t].peer
    BY <1>5, <1>6
  <2>2. QED BY <1>6, <2>1 DEF TcpInv, SlotPerConnection
<1>9. LoginNotInherited' /\ OnlyLoggedInHeard'
  BY <1>5 DEF TcpInv, LoginNotInherited, OnlyLoggedInHeard
<1>10. EntryInv'
  BY <1>1, <1>5, <1>6 DEF TcpInv, EntryInv, TypeOK
<1>11. ASSUME NEW t \in Slots, t # s, client[t].peer # NoPeer
       PROVE  /\ client'[t] = client[t] /\ client[t].peer \in Peers
              /\ stream'[client[t].peer] = stream[client[t].peer]
  BY <1>1, <1>2, <1>5, <1>11, PeerOfEntry
<1>12. CASE c.want = 0
  <2>1. read + arrived[p] = FrameLen
    <3>1. client[s].have + BodyHere(s) = BodyLen
      BY <1>12
    <3>2. HeaderLen + client[s].have + BodyHere(s) = HeaderLen + (client[s].have + BodyHere(s))
      BY <1>1, <1>3, Lengths
    <3>3. QED BY <3>1, <3>2, <1>4, Lengths
  <2>2. h.left = arrived[p]
    BY <2>1, <1>1, <1>3, Lengths
  <2>3. stream'[p] # <<>> => Head(stream'[p]).size - Head(stream'[p]).left = 0
    BY <2>2, <1>2
  <2>4. InStep'
    BY <2>3, <1>5, <1>6, <1>11, <1>12 DEF TcpInv, InStep
  <2>5. CutInv'
    <3>1. client'[s].want = 0
      BY <1>5, <1>12
    <3> SUFFICES ASSUME NEW t \in Slots, client'[t].want # 0, client'[t].peer # NoPeer,
                        stream'[client'[t].peer] = <<>>
                 PROVE  life'[client'[t].peer] # "alive"
      BY DEF CutInv
    <3>2. t # s
      BY <3>1
    <3>3. client'[t] = client[t] /\ client[t].peer # NoPeer
      BY <3>2, <1>5
    <3>4. stream[client[t].peer] = <<>>
      BY <3>2, <3>3, <1>11
    <3>5. QED BY <3>3, <3>4, <1>2 DEF TcpInv, CutInv
  <2>6. QED BY <2>4, <2>5, <1>2, <1>7, <1>8, <1>9, <1>10 DEF TcpInv
<1>13. CASE c.want # 0
  <2>1. read + arrived[p] = HeaderLen + c.have /\ read + arrived[p] < FrameLen
    BY <1>1, <1>3, <1>4, <1>13, Lengths
  <2>2. h.left = arrived[p] => stream'[p] = <<>> /\ life[p] # "alive"
    BY <2>1, <1>1, <1>2, <1>3, Lengths
  <2>3. stream'[p] # <<>> => Head(stream'[p]).size - Head(stream'[p]).left = HeaderLen + c.have
    BY <2>1, <2>2, <1>1, <1>2, <1>3, Lengths
  <2>4. stream'[p] = <<>> => life'[p] # "alive"
    BY <2>2, <1>2
  <2>5. InStep'
    BY <2>3, <1>5, <1>6, <1>11, <1>13 DEF TcpInv, InStep
  <2>6. CutInv'
    BY <2>4, <1>2, <1>5, <1>6, <1>11 DEF TcpInv, CutInv
  <2>7. QED BY <2>5, <2>6, <1>2, <1>7, <1>8, <1>9, <1>10 DEF TcpInv
<1>14. QED BY <1>12, <1>13

LEMMA RecvPartStep == ASSUME TcpInv, NEW s \in Slots, RecvPart(s) PROVE TcpInv'
<1> DEFINE p == client[s].peer
           n == BodyHere(s)
           c == [client[s] EXCEPT !.want = BodyLen, !.have = n]
<1>1. /\ CanRead(s) /\ Served(s) /\ client[s].have = 0 /\ n < BodyLen /\ Take(p, HeaderDue(s) + n)
      /\ client' = [client EXCEPT ![s] = c]
      /\ UNCHANGED <<up, conn, reply, tcpHistory>>
  BY DEF RecvPart, TcpInv, TypeOK
<1>2. HeaderDue(s) + n = arrived[p] /\ n \in Nat /\ client[s] \in SlotTypes
  BY <1>1, Reading
<1>3. c.peer = p /\ c.auth = client[s].auth /\ c.want = BodyLen /\ c.have = client[s].have + n
  BY <1>1, <1>2 DEF SlotTypes
<1>4. c \in SlotTypes
  <2>1. n \in 0 .. BodyLen - 1
    BY <1>1, <1>2, Lengths
  <2>2. QED BY <2>1, <1>2 DEF SlotTypes
<1> HIDE DEF c
<1>5. reply' \in [Peers -> Replies] /\ loggedIn' = loggedIn /\ heard' = heard /\ stray' = stray
  BY <1>1 DEF TcpInv, TypeOK, tcpHistory
<1>6. loggedIn \subseteq Peers /\ heard \subseteq loggedIn /\ (c.auth => c.peer \in loggedIn)
  BY <1>3 DEF TcpInv, TypeOK, OnlyLoggedInHeard, LoginNotInherited
<1>7. QED BY <1>1, <1>2, <1>3, <1>4, <1>5, <1>6, Lengths, ReadStep

-----------------------------------------------------------------------------
(***************************************************************************)
(* process_request.                                                        *)
(***************************************************************************)
\* After a request the connection stays, and the entry has no packet.
LEMMA StayStep ==
  ASSUME TcpInv, NEW s \in Slots, CanRead(s), Served(s), client[s].have = 0,
         BodyHere(s) = BodyLen, stray' = stray,
         NEW auth \in BOOLEAN, Stays(s, auth), reply' \in [Peers -> Replies],
         loggedIn \subseteq loggedIn', loggedIn' \subseteq Peers, heard' \subseteq loggedIn',
         auth => client[s].peer \in loggedIn'
  PROVE  TcpInv'
<1> DEFINE p == client[s].peer
           c == Idle(Full(client[s]), auth)
<1>1. /\ arrived[p] \in Nat /\ HeaderDue(s) + BodyHere(s) = arrived[p] /\ BodyHere(s) \in Nat
      /\ client[s] \in SlotTypes
  <2>1. /\ client[s] \in SlotTypes /\ p \in Peers /\ BodyHere(s) \in Nat
        /\ HeaderDue(s) + BodyHere(s) = arrived[p]
    BY Reading
  <2>2. QED BY <2>1, Lengths DEF TcpInv, TypeOK
<1>2. Rest(s) = arrived[p]
  BY <1>1, Lengths DEF Rest, HeaderDue
<1>3. Take(p, arrived[p]) /\ client' = [client EXCEPT ![s] = c] /\ UNCHANGED <<up, conn>>
  BY <1>2 DEF Stays, TcpInv, TypeOK
<1>4. c.peer = p /\ c.auth = auth /\ c.want = 0 /\ c.have = 0
  BY <1>1 DEF Idle, Full, SlotTypes
<1>5. c \in SlotTypes
  <2>1. TRUE \in BOOLEAN BY Zenon
  <2>2. 0 \in {0, BodyLen} /\ 0 \in 0 .. BodyLen - 1 BY Lengths
  <2>3. QED BY <2>1, <2>2, <1>1 DEF Idle, Full, SlotTypes
<1> HIDE DEF c
<1>6. client[s].have + BodyHere(s) = BodyLen
  BY Lengths
<1>7. QED BY <1>3, <1>4, <1>5, <1>6, ReadStep

LEMMA AnswerStep ==
  ASSUME TcpInv, NEW s \in Slots, CanRead(s), Served(s), client[s].have = 0,
         BodyHere(s) = BodyLen, stray' = stray,
         NEW auth \in BOOLEAN, NEW kind \in Replies, Answer(s, auth, kind),
         loggedIn \subseteq loggedIn', loggedIn' \subseteq Peers, heard' \subseteq loggedIn',
         auth => client[s].peer \in loggedIn'
  PROVE  TcpInv'
<1>1. CASE SocketClose(s)
  <2>1. /\ client[s].peer # NoPeer /\ pc' \in {"select", "accept", "info", "serve"}
        /\ listening' = listening /\ todo' \subseteq todo \ {s}
    BY Reading DEF Served, TcpInv, TypeOK
  <2>2. QED BY <1>1, <2>1, CloseStep
<1>2. CASE Stays(s, auth) /\ reply' = [reply EXCEPT ![client[s].peer] = kind]
  <2>1. reply' \in [Peers -> Replies]
    BY <1>2 DEF TcpInv, TypeOK
  <2>2. QED BY <1>2, <2>1, StayStep
<1>3. QED BY <1>1, <1>2 DEF Answer

\* What the histories say before the request.
LEMMA History ==
  ASSUME TcpInv, NEW s \in Slots, CanRead(s)
  PROVE  /\ loggedIn \subseteq Peers /\ heard \subseteq loggedIn /\ client[s].peer \in Peers
         /\ client[s].auth \in BOOLEAN /\ (client[s].auth => client[s].peer \in loggedIn)
<1>1. client[s].peer \in Peers /\ client[s] \in SlotTypes
  BY Reading
<1>2. client[s].auth \in BOOLEAN
  BY <1>1 DEF SlotTypes
<1>3. QED BY <1>1, <1>2 DEF TcpInv, TypeOK, LoginNotInherited, OnlyLoggedInHeard

LEMMA ProcessStep ==
  ASSUME TcpInv, NEW s \in Slots, CanRead(s), Served(s), client[s].have = 0,
         BodyHere(s) = BodyLen, stray' = stray,
         NEW op, Process(s, op)
  PROVE  TcpInv'
<1>1. CASE ProcessLogin(s, op)
  <2>1. /\ op = "login" \/ client[s].auth
        /\ Answer(s, TRUE, "login") /\ heard' = heard
        /\ loggedIn' = IF op = "login" THEN loggedIn \cup {client[s].peer} ELSE loggedIn
    <3>1. (op = "login" \/ client[s].auth) = TRUE
      BY <1>1 DEF ProcessLogin
    <3>2. QED BY <1>1, <3>1 DEF ProcessLogin
  <2>2. /\ loggedIn \subseteq loggedIn' /\ loggedIn' \subseteq Peers /\ heard' \subseteq loggedIn'
        /\ client[s].peer \in loggedIn'
    BY <2>1, History
  <2>3. "login" \in Replies BY DEF Replies
  <2>4. QED BY <2>1, <2>2, <2>3, AnswerStep
<1>2. CASE ProcessCommand(s, op)
  <2>1. client[s].auth /\ heard' = heard \cup {client[s].peer} /\ loggedIn' = loggedIn
    BY <1>2 DEF ProcessCommand, Authorised
  <2>2. /\ loggedIn \subseteq loggedIn' /\ loggedIn' \subseteq Peers /\ heard' \subseteq loggedIn'
        /\ client[s].peer \in loggedIn' /\ client[s].auth \in BOOLEAN
    BY <2>1, History
  <2>3. CASE op = "perf"
    <3>1. Answer(s, client[s].auth, "status") /\ "status" \in Replies
      BY <1>2, <2>3 DEF ProcessCommand, Replies
    <3>2. QED BY <2>2, <3>1, AnswerStep
  <2>4. CASE op # "perf"
    <3>1. Stays(s, client[s].auth) /\ reply' \in [Peers -> Replies]
      BY <1>2, <2>4 DEF ProcessCommand, TcpInv, TypeOK
    <3>2. QED BY <2>2, <3>1, StayStep
  <2>5. QED BY <2>3, <2>4
<1>3. CASE ProcessQuery(s, op)
  <2>1. /\ Answer(s, client[s].auth, op) /\ op \in Replies
        /\ loggedIn' = loggedIn /\ heard' = heard
    BY <1>3 DEF ProcessQuery, Replies, tcpHistory
  <2>2. QED BY <2>1, History, AnswerStep
<1>4. CASE ProcessUnknown(s, op)
  <2>1. /\ Stays(s, client[s].auth) /\ reply' \in [Peers -> Replies]
        /\ loggedIn' = loggedIn /\ heard' = heard
    BY <1>4 DEF ProcessUnknown, TcpInv, TypeOK, tcpHistory
  <2>2. QED BY <2>1, History, StayStep
<1>5. QED BY <1>1, <1>2, <1>3, <1>4 DEF Process

\* A step that closes an entry, or aborts.
LEMMA CloseSlotStep ==
  ASSUME TcpInv, NEW s \in Slots, Turn(s), Served(s), CloseSlot(s)
  PROVE  TcpInv'
<1>1. SocketClose(s) /\ loggedIn' = loggedIn /\ heard' = heard /\ stray' = stray
  BY DEF CloseSlot, tcpHistory
<1>2. loggedIn \subseteq Peers /\ heard \subseteq loggedIn
  BY DEF TcpInv, TypeOK, OnlyLoggedInHeard
<1>3. /\ client[s].peer # NoPeer /\ pc' \in {"select", "accept", "info", "serve"}
      /\ listening' = listening /\ todo' \subseteq todo \ {s}
  BY DEF Turn, Served, TcpInv, TypeOK, EntryInv
<1>4. QED BY <1>1, <1>2, <1>3, CloseStep

\* The accepted socket is closed again.
LEMMA AcceptUnsetStep ==
  ASSUME TcpInv, NEW s \in Slots, AcceptUnset(s)
  PROVE  TcpInv'
<1>1. SocketClose(s) /\ loggedIn' = loggedIn /\ heard' = heard /\ stray' = stray
  BY DEF AcceptUnset, CloseSlot, tcpHistory
<1>2. loggedIn \subseteq Peers /\ heard \subseteq loggedIn
  BY DEF TcpInv, TypeOK, OnlyLoggedInHeard
<1>3. /\ client[s].peer # NoPeer /\ pc' \in {"select", "accept", "info", "serve"}
      /\ listening' = listening /\ todo' \subseteq todo \ {s}
  BY DEF AcceptUnset, BreakLoop
<1>4. QED BY <1>1, <1>2, <1>3, CloseStep

\* The step that ends what the properties say: the types are kept.
LEMMA AstrayStep ==
  ASSUME TcpInv, NEW s \in Slots, RecvAstray(s)
  PROVE  TypeOK' /\ stray'
<1> DEFINE p == client[s].peer
           n == BodyHere(s)
<1>1. CanRead(s) /\ Served(s) /\ client[s].have > 0 /\ Take(p, n) /\ stray' = TRUE
  BY DEF RecvAstray
<1>2. /\ p \in Peers /\ conn[p] = "open" /\ stream[p] # <<>> /\ stream[p] \in Seq(Frames)
      /\ arrived[p] \in 1 .. Head(stream[p]).left /\ Head(stream[p]) \in Frames
      /\ HeaderDue(s) + n = arrived[p] /\ n \in Nat
      /\ Head(stream[p]).size - Head(stream[p]).left =
           IF client[s].want = 0 THEN 0 ELSE HeaderLen + client[s].have
      /\ client[s] \in SlotTypes /\ (client[s].want = 0 => client[s].have = 0)
  BY <1>1, Reading
<1>3. client[s].have \in 0 .. BodyLen - 1 /\ client[s].want # 0 /\ HeaderDue(s) = 0 /\ n = arrived[p]
  BY <1>1, <1>2, Lengths DEF SlotTypes, HeaderDue
<1>4. client[s].have + n \in 0 .. BodyLen
  <2>1. Head(stream[p]).size \in 1 .. FrameLen /\ Head(stream[p]).left \in 1 .. FrameLen
    BY <1>2 DEF Frames
  <2>2. /\ Head(stream[p]).size - Head(stream[p]).left = HeaderLen + client[s].have
        /\ n \in 1 .. Head(stream[p]).left
    BY <1>2, <1>3
  <2> HIDE DEF p, n
  <2>3. QED BY <2>1, <2>2, <1>3, Lengths
<1>5. stream' \in [Peers -> Seq(Frames)] /\ arrived' \in [Peers -> 0 .. FrameLen] /\ life' = life
  <2>1. conn' = conn BY DEF RecvAstray
  <2>2. QED BY <2>1, <1>1, <1>2, <1>3, Taking
<1>6. client' \in [Slots -> AnyEntry]
  <2>1. SlotTypes \subseteq AnyEntry
    BY Lengths DEF SlotTypes, AnyEntry
  <2>2. client \in [Slots -> SlotTypes]
    BY DEF TcpInv, TypeOK
  <2>3. [client[s] EXCEPT !.have = client[s].have + n] \in AnyEntry
    BY <1>2, <1>4 DEF SlotTypes, AnyEntry
  <2>4. PICK over \in [s + 1 .. NumSlots -> AnyEntry] :
          client' = [t \in Slots |-> CASE t < s -> client[t]
                                      [] t = s -> [client[s] EXCEPT !.have = @ + n]
                                      [] t > s -> over[t]]
    BY DEF RecvAstray
  <2>5. ASSUME NEW t \in Slots PROVE client'[t] \in AnyEntry
    <3>1. CASE t < s
      BY <3>1, <2>1, <2>2, <2>4, Lengths DEF Slots
    <3>2. CASE t = s
      <4>1. client'[s] = [client[s] EXCEPT !.have = client[s].have + n]
        BY <3>2, <2>4, Lengths DEF Slots
      <4>2. QED BY <3>2, <4>1, <2>3
    <3>3. CASE t > s
      <4>1. t \in s + 1 .. NumSlots
        BY <3>3, Lengths DEF Slots
      <4>2. QED BY <3>3, <4>1, <2>4, Lengths DEF Slots
    <3>4. QED BY <3>1, <3>2, <3>3, Lengths DEF Slots
  <2>6. QED BY <2>4, <2>5
<1>7. UNCHANGED <<up, conn, reply, loggedIn, heard, pc, listening>> /\ todo' = todo \ {s}
  BY <1>1 DEF RecvAstray, Served
<1> HIDE DEF p, n
<1>8. stray' \in BOOLEAN
  BY <1>1, Zenon
<1>9. QED BY <1>1, <1>5, <1>6, <1>7, <1>8 DEF TcpInv, TypeOK

LEMMA TcpIsType == TcpInv' => TcpOrStray'
  BY DEF TcpInv, TcpOrStray

LEMMA RecvStep ==
  ASSUME TcpInv, NEW s \in Slots, Recv(s)
  PROVE  TcpOrStray'
<1>1. CASE RecvGone(s)
  BY <1>1, CloseSlotStep, TcpIsType DEF RecvGone
<1>2. CASE RecvPartHeader(s)
  <2>1. /\ UNCHANGED <<up, conn, peerVars, reply, client, tcpHistory, pc, listening>>
        /\ todo' \subseteq todo
    BY <1>2 DEF RecvPartHeader, Served
  <2>2. TcpInv'
    BY <2>1, QuietStep DEF TcpInv, TypeOK, EntryInv
  <2>3. QED BY <2>2, TcpIsType
<1>3. CASE RecvTooBig(s)
  BY <1>3, CloseSlotStep, TcpIsType DEF RecvTooBig
<1>4. CASE RecvHeaderOnly(s)
  BY <1>4, CloseSlotStep, TcpIsType DEF RecvHeaderOnly, CanRead
<1>5. CASE RecvPart(s)
  BY <1>5, RecvPartStep, TcpIsType
<1>6. CASE RecvLast(s)
  <2>1. CanRead(s) /\ Served(s) /\ client[s].have = 0 /\ BodyHere(s) = BodyLen
    BY <1>6 DEF RecvLast
  <2>2. \/ \E op : Process(s, op)
        \/ Abort /\ UNCHANGED life
        \/ CloseSlot(s)
    BY <1>6 DEF RecvLast, TargetFails
  <2>3. CASE \E op : Process(s, op)
    <3>1. stray' = stray
      BY <2>3 DEF Process, ProcessLogin, ProcessCommand, ProcessQuery, ProcessUnknown, tcpHistory
    <3>2. QED BY <2>1, <2>3, <3>1, ProcessStep, TcpIsType
  <2>4. CASE Abort /\ UNCHANGED life
    <3>1. /\ UNCHANGED <<conn, peerVars, reply, client, tcpHistory, pc, listening>>
          /\ up' = FALSE /\ todo' \subseteq todo
      BY <2>1, <2>4 DEF Abort, Served, peerVars, tcpHistory
    <3>2. up' \in BOOLEAN BY Zenon, <3>1
    <3>3. TcpInv'
      BY <3>1, <3>2, QuietStep DEF TcpInv, TypeOK, EntryInv
    <3>4. QED BY <3>3, TcpIsType
  <2>5. CASE CloseSlot(s)
    BY <2>1, <2>5, CloseSlotStep, TcpIsType DEF CanRead
  <2>6. QED BY <2>2, <2>3, <2>4, <2>5
<1>7. CASE RecvAstray(s)
  BY <1>7, AstrayStep DEF TcpOrStray
<1>8. QED BY <1>1, <1>2, <1>3, <1>4, <1>5, <1>6, <1>7 DEF Recv

LEMMA ServerStep == TcpInv /\ Server => TcpOrStray'
<1> SUFFICES ASSUME TcpInv, Server PROVE TcpOrStray'
  OBVIOUS
<1>1. ASSUME Select PROVE TcpInv'
  <2>1. /\ UNCHANGED <<up, conn, peerVars, reply, client, tcpHistory>> /\ pc' = "accept"
        /\ todo' \subseteq Slots /\ \A s \in todo' : client[s].peer # NoPeer
    BY <1>1 DEF Select
  <2>2. listening' \in BOOLEAN
    BY <1>1, Zenon DEF Select
  <2>3. QED BY <2>1, <2>2, QuietStep DEF TcpInv, TypeOK
<1>2. ASSUME NotListening PROVE TcpInv'
  BY <1>2, QuietStep DEF NotListening, TcpInv, TypeOK, EntryInv
<1>3. ASSUME AcceptFails PROVE TcpInv'
  BY <1>3, QuietStep DEF AcceptFails, BreakLoop, TcpInv, TypeOK
<1>4. ASSUME ServeEnds PROVE TcpInv'
  BY <1>4, QuietStep DEF ServeEnds, TcpInv, TypeOK, EntryInv
<1>5. ASSUME NEW p \in Peers, AcceptRefuses(p) PROVE TcpInv'
  BY <1>5, RefuseStep
<1>6. ASSUME NEW p \in Peers, SendInfo(p) PROVE TcpInv'
  <2>1. CASE Abort /\ UNCHANGED <<life, loopVars>>
    <3>1. /\ UNCHANGED <<conn, peerVars, reply, client, tcpHistory, pc, listening, todo>>
          /\ up' = FALSE
      BY <2>1 DEF Abort, peerVars, loopVars
    <3>2. up' \in BOOLEAN BY Zenon, <3>1
    <3>3. QED BY <3>1, <3>2, QuietStep DEF TcpInv, TypeOK, EntryInv
  <2>2. CASE /\ reply' = [reply EXCEPT ![p] = "info"] /\ pc' = "serve"
             /\ UNCHANGED <<up, conn, peerVars, client, listening, todo, tcpHistory>>
    <3>1. reply' \in [Peers -> Replies]
      BY <2>2 DEF TcpInv, TypeOK, Replies
    <3>2. QED BY <2>2, <3>1, QuietStep DEF TcpInv, TypeOK, EntryInv
  <2>3. QED BY <1>6, <2>1, <2>2 DEF SendInfo
<1>7. ASSUME NEW p \in Peers, NEW s \in Slots, Accept(p, s) PROVE TcpInv'
  BY <1>7, AcceptStep
<1>8. ASSUME NEW s \in Slots, AcceptUnset(s) PROVE TcpInv'
  BY <1>8, AcceptUnsetStep
<1>9. ASSUME NEW s \in Slots, Recv(s) PROVE TcpOrStray'
  BY <1>9, RecvStep
<1>10. CASE \E s \in Slots : Recv(s)
  BY <1>9, <1>10
<1>11. CASE ~\E s \in Slots : Recv(s)
  <2>1. TcpInv'
    BY <1>1, <1>2, <1>3, <1>4, <1>5, <1>6, <1>7, <1>8, <1>11 DEF Server
  <2>2. QED BY <2>1, TcpIsType
<1>12. QED BY <1>10, <1>11

-----------------------------------------------------------------------------
(***************************************************************************)
(* The theorems.                                                           *)
(***************************************************************************)
LEMMA NextStep == TcpOrStray /\ [Next]_vars => TcpOrStray'
<1>1. ASSUME Reboot PROVE TcpInv'
  BY <1>1, RebootStep
<1>2. ASSUME TcpInv, NEW p \in Peers, Connect(p) \/ Finish(p) \/ ResetConn(p) \/ Deliver(p) PROVE TcpInv'
  BY <1>2, ConnectStep, FinishStep, ResetStep, DeliverStep
<1>3. ASSUME TcpInv, NEW p \in Peers, NEW r \in Requests, Send(p, r) PROVE TcpInv'
  <2>1. FrameLen \in 1 .. FrameLen BY Lengths
  <2>2. QED BY <1>3, <2>1, SendStep DEF Send
<1>4. ASSUME TcpInv, NEW p \in Peers, NEW r \in Requests, NEW n \in Cuts, SendCut(p, r, n) PROVE TcpInv'
  <2>1. n \in 1 .. FrameLen BY Lengths, TcpAssumption
  <2>2. QED BY <1>4, <2>1, SendStep DEF SendCut
<1>5. ASSUME TcpOrStray, UNCHANGED vars PROVE TcpOrStray'
  <2>1. TypeOK'
    BY <1>5 DEF TcpOrStray, TypeOK, vars, peerVars, loopVars, tcpHistory
  <2>2. ASSUME ~stray' PROVE TcpInv'
    <3>1. TcpInv /\ UNCHANGED <<up, conn, peerVars, reply, client, pc, listening, todo, tcpHistory>>
      BY <1>5, <2>2 DEF TcpOrStray, vars, loopVars, tcpHistory
    <3>2. QED BY <3>1, QuietStep DEF TcpInv, TypeOK, EntryInv
  <2>3. QED BY <2>1, <2>2 DEF TcpOrStray
<1>6. ASSUME TcpOrStray, Next PROVE TcpOrStray'
  <2>1. CASE Reboot
    BY <1>1, <2>1, TcpIsType
  <2>2. CASE ~Reboot
    <3>1. TcpInv
      BY <1>6, <2>2 DEF Next, TcpOrStray
    <3>2. CASE Server
      BY <3>1, <3>2, ServerStep
    <3>3. CASE ~Server
      <4>1. TcpInv'
        BY <1>2, <1>3, <1>4, <1>6, <2>2, <3>1, <3>3 DEF Next
      <4>2. QED BY <4>1, TcpIsType
    <3>4. QED BY <3>2, <3>3
  <2>3. QED BY <2>1, <2>2
<1>7. QED BY <1>5, <1>6

\* The invariant the results below are parts of: as long as every piece of a
\* body was written into its pck_buf, entries, streams, sockets and logins agree
\* for any peers, entries and lengths; from the first other piece to the
\* restart the variables still have their types, and nothing else is said.
THEOREM SessionInvariant == Spec => []TcpOrStray
<1>1. Init => TcpOrStray
  BY InitInv DEF TcpInv, TcpOrStray
<1>2. QED BY <1>1, NextStep, PTL DEF Spec

\* Every variable keeps to its type.  Up to the first second piece of a body,
\* pck_buf_len is below pck_len between two calls of sock_recv.
THEOREM TypeCorrect == Spec => []TypeOK
<1>1. TcpOrStray => TypeOK BY DEF TcpOrStray
<1>2. QED BY <1>1, SessionInvariant, PTL

\* However many peers there are for however many entries, no path of sock_recv,
\* of an answer or of a failed accept loses a socket or uses it for two
\* connections, up to the first second piece of a body.
THEOREM SocketsKept == Spec => []SlotPerConnection
<1>1. TcpOrStray => SlotPerConnection BY DEF TcpOrStray, TcpInv, SlotPerConnection
<1>2. QED BY <1>1, SessionInvariant, PTL

\* Up to the first second piece of a body, a connection never has the login of
\* the one before it in its entry.
THEOREM LoginsApart == Spec => []LoginNotInherited
<1>1. TcpOrStray => LoginNotInherited BY DEF TcpOrStray, TcpInv, LoginNotInherited
<1>2. QED BY <1>1, SessionInvariant, PTL

\* Up to the first second piece of a body, the target component hears nobody
\* who has not logged in.
THEOREM StrangersUnheard == Spec => []OnlyLoggedInHeard
<1>1. TcpOrStray => OnlyLoggedInHeard BY DEF TcpOrStray, TcpInv, OnlyLoggedInHeard
<1>2. QED BY <1>1, SessionInvariant, PTL

\* Wherever the network cuts headers, or a body from its header, and whatever
\* their lengths, sock_recv takes a header for a header, up to the first second
\* piece of a body.
THEOREM StreamsInStep == Spec => []InStep
<1>1. TcpOrStray => InStep BY DEF TcpOrStray, TcpInv, InStep
<1>2. QED BY <1>1, SessionInvariant, PTL

-----------------------------------------------------------------------------
(***************************************************************************)
(* The server implements Sessions: every step maps to a step of it, or to  *)
(* none.                                                                   *)
(***************************************************************************)
AbsStep == Abs!Next \/ UNCHANGED <<conn, life, Members, heard, stray>>

\* A step of one connection.
LEMMA AbsMove ==
  ASSUME TcpInv, stray' = stray, NEW p \in Peers,
         \/ Abs!Connect(p) \/ Abs!Finish(p) \/ Abs!Reset(p) \/ Abs!Refuse(p) \/ Abs!Admit(p)
         \/ Abs!Login(p) \/ Abs!Close(p) \/ Abs!Command(p)
  PROVE  AbsStep
<1>1. ~stray /\ stray \in BOOLEAN
  BY DEF TcpInv, TypeOK
<1>2. ~stray /\ stray' = FALSE
  BY <1>1, Zenon
<1>3. QED BY <1>2 DEF AbsStep, Abs!Next

\* The entries in use are as many as the connections that are open.
LEMMA RoomIffFree ==
  ASSUME TcpInv
  PROVE  /\ NumSlots \in Nat /\ Abs!Cardinality(Abs!Open) \in Nat
         /\ FreeSlots = {} => Abs!Cardinality(Abs!Open) = NumSlots
         /\ FreeSlots # {} => Abs!Cardinality(Abs!Open) < NumSlots
<1> DEFINE U == {s \in Slots : client[s].peer # NoPeer}
           f == [s \in U |-> client[s].peer]
           O == {p \in Peers : conn[p] = "open"}
<1>1. NumSlots \in Nat /\ IsFiniteSet(Slots) /\ Cardinality(Slots) = NumSlots
  BY Lengths, FS_Interval DEF Slots
<1>2. IsFiniteSet(U) /\ Cardinality(U) <= NumSlots /\ (Cardinality(U) = NumSlots => U = Slots)
  <2>1. U \in SUBSET Slots
    OBVIOUS
  <2>2. QED BY <1>1, <2>1, FS_Subset
<1>3. Cardinality(U) \in Nat
  BY <1>2, FS_CardinalityType
<1>4. Cardinality(O) = Cardinality(U)
  <2>1. \A s \in U : client[s].peer \in O /\ \A t \in U : client[t].peer = client[s].peer => t = s
    BY PeerOfEntry
  <2>2. \A p \in O : \E s \in U : client[s].peer = p
    BY Lengths DEF TcpInv, SlotPerConnection
  <2>3. f \in [U -> O] /\ \A s \in U : f[s] = client[s].peer
    BY <2>1
  <2>4. f \in Bijection(U, O)
    BY <2>1, <2>2, <2>3 DEF Bijection, Injection, Surjection, IsInjective
  <2>5. ExistsBijection(U, O)
    BY <2>4 DEF ExistsBijection
  <2>6. QED BY <1>2, <2>5, FS_Bijection
<1>5. FreeSlots = {} <=> U = Slots
  BY DEF FreeSlots
<1>6. Abs!Open = O
  BY DEF Abs!Open
<1>7. Abs!Cardinality(O) = Cardinality(O)
  BY DEF Abs!Cardinality, Cardinality
<1> HIDE DEF U, O, f
<1>8. QED BY <1>1, <1>2, <1>3, <1>4, <1>5, <1>6, <1>7

\* Who is a member is said by the entry of its connection.
LEMMA MemberEntry ==
  ASSUME TcpInv, NEW s \in Slots, client[s].peer # NoPeer
  PROVE  client[s].peer \in Members <=> client[s].auth
  BY PeerOfEntry DEF Members

\* A closed entry is the end of its connection.
LEMMA CloseRefines ==
  ASSUME TcpInv, NEW s \in Slots, client[s].peer # NoPeer, SocketClose(s)
  PROVE  Abs!End(client[s].peer)
<1> DEFINE p == client[s].peer
<1>1. /\ p \in Peers /\ conn[p] = "open" /\ \A t \in Slots : client[t].peer = p => t = s
  BY PeerOfEntry
<1>2. /\ conn' = [conn EXCEPT ![p] = "closed"] /\ life' = life
      /\ client' = [client EXCEPT ![s] = FreeSlot]
  BY DEF SocketClose, Cleared
<1>3. ~client'[s].auth /\ \A t \in Slots : t # s => client'[t] = client[t]
  BY <1>2 DEF TcpInv, TypeOK, FreeSlot
<1> HIDE DEF p
<1>4. \A t \in Slots : client'[t].auth <=> client[t].auth /\ t # s
  BY <1>3
<1>5. \A t \in Slots : t # s => client'[t].peer = client[t].peer /\ client[t].peer # p
  BY <1>1, <1>3
<1>6. client[s].peer = p
  BY DEF p
<1>7. Members' = Members \ {p}
  BY <1>4, <1>5, <1>6 DEF Members
<1>8. QED BY <1>1, <1>2, <1>6, <1>7 DEF Abs!End, Abs!Moves

\* An answer is the end of a connection that is reset, or a login, or nothing.
LEMMA StaysRefines ==
  ASSUME TcpInv, NEW s \in Slots, CanRead(s), NEW auth \in BOOLEAN, Stays(s, auth),
         client[s].auth => auth
  PROVE  /\ UNCHANGED <<conn, life>>
         /\ Members' = IF auth THEN Members \cup {client[s].peer} ELSE Members
<1> DEFINE p == client[s].peer
<1>1. /\ client[s] \in SlotTypes /\ client' = [client EXCEPT ![s] = Idle(Full(client[s]), auth)]
      /\ UNCHANGED <<conn, life>>
  BY Reading DEF Stays, Take, TcpInv, TypeOK
<1>2. client'[s].peer = p /\ (client'[s].auth <=> auth)
  BY <1>1 DEF Idle, Full, SlotTypes, TcpInv, TypeOK
<1>3. \A t \in Slots : t # s => client'[t] = client[t]
  BY <1>1 DEF TcpInv, TypeOK
<1>4. \A t \in Slots : client'[t].peer = client[t].peer /\ (t # s => client'[t].auth = client[t].auth)
  BY <1>2, <1>3
<1>5. CASE auth
  <2>1. Members' = Members \cup {p}
    BY <1>2, <1>4, <1>5 DEF Members
  <2>2. QED BY <1>1, <1>5, <2>1
<1>6. CASE ~auth
  <2>1. \A t \in Slots : client'[t].auth <=> client[t].auth
    BY <1>2, <1>4, <1>6
  <2>2. Members' = Members
    BY <1>4, <2>1 DEF Members
  <2>3. QED BY <1>1, <1>6, <2>2
<1>7. QED BY <1>5, <1>6

LEMMA AnswerRefines ==
  ASSUME TcpInv, NEW s \in Slots, CanRead(s), NEW auth \in BOOLEAN, NEW kind, Answer(s, auth, kind),
         client[s].auth => auth
  PROVE  LET p == client[s].peer IN
         \/ life[p] = "reset" /\ Abs!End(p)
         \/ /\ UNCHANGED <<conn, life>>
            /\ Members' = IF auth THEN Members \cup {p} ELSE Members
<1>1. client[s].peer # NoPeer
  BY Reading
<1>2. QED BY <1>1, CloseRefines, StaysRefines DEF Answer

LEMMA ProcessRefines ==
  ASSUME TcpInv, NEW s \in Slots, CanRead(s), NEW op, Process(s, op), stray' = stray
  PROVE  AbsStep
<1> DEFINE p == client[s].peer
<1>1. p \in Peers /\ conn[p] = "open" /\ client[s].auth \in BOOLEAN /\ (p \in Members <=> client[s].auth)
  BY Reading, History, MemberEntry
<1> HIDE DEF p
<1>2. CASE ProcessLogin(s, op)
  <2>1. Answer(s, TRUE, "login") /\ heard' = heard
    <3>1. (op = "login" \/ client[s].auth) = TRUE
      BY <1>2 DEF ProcessLogin
    <3>2. QED BY <1>2, <3>1 DEF ProcessLogin
  <2>2. \/ Abs!End(p)
        \/ UNCHANGED <<conn, life>> /\ Members' = Members \cup {p}
    BY <2>1, AnswerRefines DEF p
  <2>3. Abs!Close(p) \/ Abs!Login(p)
    BY <1>1, <2>1, <2>2 DEF Abs!Close, Abs!Login
  <2>4. QED BY <1>1, <2>3, AbsMove
<1>3. CASE ProcessCommand(s, op)
  <2>1. client[s].auth /\ heard' = heard \cup {p}
    BY <1>3 DEF ProcessCommand, Authorised, p
  <2>2. Members \cup {p} = Members
    BY <1>1, <2>1
  <2>3. \/ life[p] = "reset" /\ Abs!End(p)
        \/ UNCHANGED <<conn, life>> /\ Members' = Members
    <3>1. CASE op = "perf"
      BY <1>1, <1>3, <2>1, <2>2, <3>1, AnswerRefines DEF ProcessCommand, p
    <3>2. CASE op # "perf"
      BY <1>1, <1>3, <2>1, <2>2, <3>2, StaysRefines DEF ProcessCommand, p
    <3>3. QED BY <3>1, <3>2
  <2>4. Abs!Command(p)
    BY <1>1, <2>1, <2>3 DEF Abs!Command
  <2>5. QED BY <1>1, <2>4, AbsMove
<1>4. CASE ProcessQuery(s, op)
  <2>1. Answer(s, client[s].auth, op) /\ heard' = heard
    BY <1>4 DEF ProcessQuery, tcpHistory
  <2>2. \/ Abs!End(p)
        \/ UNCHANGED <<conn, life>> /\ Members' = IF client[s].auth THEN Members \cup {p} ELSE Members
    BY <1>1, <2>1, AnswerRefines DEF p
  <2>3. Abs!Close(p) \/ UNCHANGED <<conn, life, Members, heard>>
    BY <1>1, <2>1, <2>2 DEF Abs!Close
  <2>4. QED BY <1>1, <2>3, AbsMove DEF AbsStep
<1>5. CASE ProcessUnknown(s, op)
  <2>1. Stays(s, client[s].auth) /\ heard' = heard
    BY <1>5 DEF ProcessUnknown, tcpHistory
  <2>2. /\ UNCHANGED <<conn, life>>
        /\ Members' = IF client[s].auth THEN Members \cup {p} ELSE Members
    BY <1>1, <2>1, StaysRefines DEF p
  <2>3. QED BY <1>1, <2>1, <2>2 DEF AbsStep
<1>6. QED BY <1>2, <1>3, <1>4, <1>5 DEF Process

LEMMA CloseSlotRefines ==
  ASSUME TcpInv, NEW s \in Slots, client[s].peer # NoPeer, CloseSlot(s)
  PROVE  AbsStep
<1>1. SocketClose(s) /\ heard' = heard /\ stray' = stray
  BY DEF CloseSlot, tcpHistory
<1>2. client[s].peer \in Peers /\ Abs!Close(client[s].peer)
  BY <1>1, PeerOfEntry, CloseRefines DEF Abs!Close
<1>3. QED BY <1>1, <1>2, AbsMove

LEMMA RecvRefines ==
  ASSUME TcpInv, NEW s \in Slots, Recv(s)
  PROVE  AbsStep
<1>1. CASE RecvGone(s) \/ RecvTooBig(s) \/ RecvHeaderOnly(s)
  <2>1. client[s].peer # NoPeer /\ CloseSlot(s)
    BY <1>1 DEF RecvGone, RecvTooBig, RecvHeaderOnly, CanRead, Turn, TcpInv, EntryInv
  <2>2. QED BY <2>1, CloseSlotRefines
<1>2. CASE RecvPartHeader(s)
  BY <1>2 DEF RecvPartHeader, peerVars, tcpHistory, AbsStep, Members
<1>3. CASE RecvPart(s)
  <2>1. UNCHANGED <<conn, life, heard, stray>>
    BY <1>3 DEF RecvPart, Take, tcpHistory
  <2>2. \A t \in Slots : client'[t].peer = client[t].peer /\ client'[t].auth = client[t].auth
    BY <1>3 DEF RecvPart, TcpInv, TypeOK, SlotTypes
  <2>3. Members' = Members
    BY <2>2 DEF Members
  <2>4. QED BY <2>1, <2>3 DEF AbsStep
<1>4. CASE RecvLast(s)
  <2>1. CanRead(s) /\ client[s].peer # NoPeer
    BY <1>4, Reading DEF RecvLast
  <2>2. \/ \E op : Process(s, op)
        \/ Abort /\ UNCHANGED life
        \/ CloseSlot(s)
    BY <1>4 DEF RecvLast, TargetFails
  <2>3. CASE \E op : Process(s, op)
    <3>1. stray' = stray
      BY <2>3 DEF Process, ProcessLogin, ProcessCommand, ProcessQuery, ProcessUnknown, tcpHistory
    <3>2. QED BY <2>1, <2>3, <3>1, ProcessRefines
  <2>4. CASE Abort /\ UNCHANGED life
    BY <2>4 DEF Abort, tcpHistory, AbsStep, Members
  <2>5. CASE CloseSlot(s)
    BY <2>1, <2>5, CloseSlotRefines
  <2>6. QED BY <2>2, <2>3, <2>4, <2>5
<1>5. CASE RecvAstray(s)
  <2>1. Abs!Lose
    BY <1>5 DEF RecvAstray, Abs!Lose
  <2>2. QED BY <2>1 DEF AbsStep, Abs!Next
<1>6. QED BY <1>1, <1>2, <1>3, <1>4, <1>5 DEF Recv

LEMMA AcceptRefines ==
  ASSUME TcpInv, NEW p \in Peers
  PROVE  /\ AcceptRefuses(p) => AbsStep
         /\ \A s \in Slots : Accept(p, s) => AbsStep
<1>1. ASSUME AcceptRefuses(p) PROVE AbsStep
  <2>1. /\ conn[p] = "pending" /\ conn' = [conn EXCEPT ![p] = "closed"] /\ FreeSlots = {}
        /\ UNCHANGED <<life, client, heard, stray>>
    BY <1>1 DEF AcceptRefuses, Pending, peerVars, tcpHistory
  <2>2. Members' = Members /\ Abs!Cardinality(Abs!Open) = NumSlots
    BY <2>1, RoomIffFree DEF Members
  <2>3. Abs!Refuse(p)
    BY <2>1, <2>2 DEF Abs!Refuse, Abs!Moves, Abs!Open
  <2>4. QED BY <2>1, <2>3, AbsMove
<1>2. ASSUME NEW s \in Slots, Accept(p, s) PROVE AbsStep
  <2>1. /\ conn[p] = "pending" /\ conn' = [conn EXCEPT ![p] = "open"] /\ FreeSlots # {}
        /\ client[s].peer = NoPeer /\ client' = [client EXCEPT ![s].peer = p]
        /\ UNCHANGED <<life, heard, stray>>
    BY <1>2 DEF Accept, FreeSlots, Pending, peerVars, tcpHistory
  <2>2. client[s] \in SlotTypes /\ ~client[s].auth
    BY <2>1 DEF TcpInv, TypeOK, EntryInv, FreeSlot
  <2>3. ~client'[s].auth /\ \A t \in Slots : t # s => client'[t] = client[t]
    BY <2>1, <2>2 DEF TcpInv, TypeOK, SlotTypes
  <2>4. Members' = Members
    BY <2>2, <2>3 DEF Members
  <2>5. Abs!Cardinality(Abs!Open) < NumSlots
    BY <2>1, RoomIffFree
  <2>6. Abs!Admit(p)
    BY <2>1, <2>4, <2>5 DEF Abs!Admit, Abs!Moves, Abs!Open
  <2>7. QED BY <2>1, <2>6, AbsMove
<1>3. QED BY <1>1, <1>2

LEMMA SessionsInit == (Init => Abs!Init) /\ (Reboot => Abs!Restart)
<1>1. (\A s \in Slots : client[s] = FreeSlot) => Members = {}
  BY DEF Members, FreeSlot
<1>2. (\A s \in Slots : client'[s] = FreeSlot) => Members' = {}
  BY DEF Members, FreeSlot
<1>3. Init => Abs!Init
  BY <1>1 DEF Init, Abs!Init
<1>4. Reboot => Abs!Restart
  BY <1>2 DEF Reboot, Abs!Restart, Abs!Init
<1>5. QED BY <1>3, <1>4

LEMMA SessionsStep == TcpOrStray /\ [Next]_vars => AbsStep
<1> SUFFICES ASSUME TcpOrStray, [Next]_vars PROVE AbsStep
  OBVIOUS
<1>1. CASE Reboot
  BY <1>1, SessionsInit DEF AbsStep, Abs!Next
<1>2. ASSUME Select \/ NotListening \/ AcceptFails \/ ServeEnds \/ UNCHANGED vars PROVE AbsStep
  BY <1>2 DEF Select, NotListening, AcceptFails, ServeEnds, vars, peerVars, tcpHistory, AbsStep, Members
<1>3. ASSUME NEW p \in Peers, SendInfo(p) PROVE AbsStep
  BY <1>3 DEF SendInfo, Abort, peerVars, tcpHistory, AbsStep, Members
<1>4. ASSUME TcpInv, NEW p \in Peers, Connect(p) \/ Finish(p) \/ ResetConn(p) \/ Deliver(p) PROVE AbsStep
  <2>0. stray' = stray
    BY <1>4 DEF Connect, Finish, ResetConn, Deliver, tcpHistory
  <2>1. Members' = Members
    BY <1>4 DEF Connect, Finish, ResetConn, Deliver, Members
  <2>2. CASE Connect(p)
    <3>1. Abs!Connect(p)
      BY <2>1, <2>2 DEF Connect, Abs!Connect, Abs!Moves
    <3>2. QED BY <1>4, <2>0, <3>1, AbsMove
  <2>3. CASE Finish(p)
    <3>1. Abs!Finish(p)
      BY <2>1, <2>3 DEF Finish, tcpHistory, Abs!Finish
    <3>2. QED BY <1>4, <2>0, <3>1, AbsMove
  <2>4. CASE ResetConn(p)
    <3>1. Abs!Reset(p)
      BY <1>4, <2>1, <2>4 DEF ResetConn, tcpHistory, Abs!Reset, Abs!Moves, TcpInv, TypeOK
    <3>2. QED BY <1>4, <2>0, <3>1, AbsMove
  <2>5. CASE Deliver(p)
    BY <2>0, <2>1, <2>5 DEF Deliver, tcpHistory, AbsStep
  <2>6. QED BY <1>4, <2>2, <2>3, <2>4, <2>5
<1>5. ASSUME NEW p \in Peers, NEW r \in Requests, Send(p, r) PROVE AbsStep
  BY <1>5 DEF Send, tcpHistory, AbsStep, Members
<1>6. ASSUME TcpInv, NEW p \in Peers, NEW r \in Requests, NEW n \in Cuts, SendCut(p, r, n) PROVE AbsStep
  <2>1. Abs!Finish(p) /\ stray' = stray
    BY <1>6 DEF SendCut, CanSend, tcpHistory, Abs!Finish, Members
  <2>2. QED BY <1>6, <2>1, AbsMove
<1>7. ASSUME TcpInv, NEW s \in Slots, AcceptUnset(s) PROVE AbsStep
  BY <1>7, CloseSlotRefines DEF AcceptUnset
<1>8. ASSUME TcpInv, Server PROVE AbsStep
  BY <1>2, <1>3, <1>7, <1>8, AcceptRefines, RecvRefines DEF Server
<1>9. CASE ~Reboot /\ Next
  <2>1. TcpInv
    BY <1>9 DEF Next, TcpOrStray
  <2>2. QED BY <2>1, <1>4, <1>5, <1>6, <1>8, <1>9 DEF Next
<1>10. QED BY <1>1, <1>2, <1>9

\* For any peers, entries, lengths and cuts, the loop with its table of entries
\* (vTaskTCPServer, sock_recv, process_request, socket_close) implements
\* Sessions: a connection is refused only when NumSlots others are open, and it
\* is heard only between its own login and its own end; from the first second
\* piece of a body to the restart, Sessions promises nothing.
THEOREM Implementation == Spec => ImplementsSessions
<1>1. TcpOrStray /\ [Next]_vars => [Abs!Next]_(Abs!vars)
  BY SessionsStep DEF AbsStep, Abs!vars
<1>2. QED BY SessionsInit, SessionInvariant, <1>1, PTL DEF Spec, ImplementsSessions, Abs!Spec

\* No more connections are open than client_info has entries, however peers
\* come, end and come again, up to the first second piece of a body.
RoomKept == ~stray => Cardinality({p \in Peers : conn[p] = "open"}) <= NumSlots

THEOREM RoomEnough == Spec => []RoomKept
<1>1. ASSUME TcpInv PROVE RoomKept
  <2>1. Abs!Cardinality(Abs!Open) = Cardinality({p \in Peers : conn[p] = "open"})
    BY DEF Abs!Open, Abs!Cardinality, Cardinality
  <2>2. Abs!Cardinality(Abs!Open) <= NumSlots
    BY <1>1, RoomIffFree
  <2>3. QED BY <2>1, <2>2 DEF RoomKept
<1>2. TcpOrStray => RoomKept
  BY <1>1 DEF TcpOrStray, RoomKept
<1>3. QED BY <1>2, SessionInvariant, PTL
=============================================================================
