---------------------------- MODULE AgentProofs ----------------------------
(***************************************************************************)
(* Theorems about the agent, for channels and connections of any capacity: *)
(* its write routine stops only with its connection, its handshake is one  *)
(* conversation, and what waits for room in its channels is bounded.       *)
(***************************************************************************)
EXTENDS Agent, FiniteSetTheorems, SequenceTheorems, TLAPS

-----------------------------------------------------------------------------
(***************************************************************************)
(* The end of the connection.                                              *)
(***************************************************************************)

Gone == conn \in {"ended", "reset"}

\* The strengthening: the reader is on its way to stop the writer only at the
\* end of the connection, which does not come back.
StopInv == reader = "stop" \/ writer = "done" => Gone

LEMMA StopInit == Init => StopInv
  BY DEF Init, StopInv

\* A connection that is gone stays so: no step of the agent or of the
\* controller opens it again.
LEMMA GoneStays == Gone /\ Next => Gone'
<1> SUFFICES ASSUME Gone, Next PROVE Gone'
    OBVIOUS
<1>1. CASE Reader
      BY <1>1 DEF Gone, Reader, ReadPacket, ReadCut, ReadGarbage, ReadOn, ReadEnd, linkVars
<1>2. CASE Shutdown \/ Respond \/ Report
      BY <1>2 DEF Gone, Shutdown, Respond, Report, linkVars
<1>3. CASE Writer
      BY <1>3 DEF Gone, Writer, WriterTake, Write, WriteFails, linkVars
<1>4. CASE Controller \/ Close \/ Reset
      BY <1>4 DEF Gone, Controller, Greet, Spin, Serve, Reject, Close, Reset
<1>5. QED BY <1>1, <1>2, <1>3, <1>4 DEF Next

LEMMA StopStep == StopInv /\ [Next]_vars => StopInv'
<1> SUFFICES ASSUME StopInv, [Next]_vars PROVE StopInv'
    OBVIOUS
<1>1. CASE Reader
  <2>1. CASE ReadEnd
        BY <2>1 DEF ReadEnd, StopInv, Gone
  <2>2. CASE ReadPacket \/ ReadCut \/ ReadGarbage \/ ReadOn
        BY <2>2 DEF ReadPacket, ReadCut, ReadGarbage, ReadOn, StopInv, Gone,
                    linkVars, readerVars, writerVars
  <2>3. QED BY <1>1, <2>1, <2>2 DEF Reader
<1>2. CASE Shutdown
      BY <1>2 DEF Shutdown, StopInv, Gone, linkVars
<1>3. CASE Writer
      BY <1>3 DEF Writer, WriterTake, Write, WriteFails, StopInv, Gone, linkVars, readerVars
<1>4. CASE Respond \/ Report
      BY <1>4 DEF Respond, Report, StopInv, Gone, linkVars, readerVars, writerVars
<1>5. CASE Controller \/ Close \/ Reset
  <2>1. UNCHANGED <<reader, writer>>
        BY <1>5 DEF Controller, Greet, Spin, Serve, Reject, Close, Reset, readerVars, writerVars
  <2>2. Gone => Gone'
        BY <1>5, GoneStays DEF Next
  <2>3. QED BY <2>1, <2>2 DEF StopInv
<1>6. CASE UNCHANGED vars
      BY <1>6 DEF vars, linkVars, readerVars, writerVars, StopInv, Gone
<1>7. QED BY <1>1, <1>2, <1>3, <1>4, <1>5, <1>6 DEF Next

\* No deadline that passes, no answer and no full queue makes the write
\* routine stop while the connection is up.
THEOREM WriterStopsOnlyWithLink == Spec => []WriterEndsWithLink
<1>1. StopInv => WriterEndsWithLink
      BY DEF StopInv, WriterEndsWithLink, Gone
<1>2. QED BY StopInit, StopStep, <1>1, PTL DEF Spec

-----------------------------------------------------------------------------
(***************************************************************************)
(* Lemmas about Count: how many elements of a sequence are in a set.       *)
(***************************************************************************)
LEMMA CountFinite ==
  ASSUME NEW T, NEW s \in Seq(T), NEW S
  PROVE  /\ IsFiniteSet({i \in DOMAIN s : s[i] \in S})
         /\ Count(s, S) \in Nat
<1> DEFINE D == {i \in DOMAIN s : s[i] \in S}
<1>1. Len(s) \in Nat /\ DOMAIN s = 1 .. Len(s)
      BY LenProperties
<1>2. IsFiniteSet(1 .. Len(s))
      BY <1>1, FS_Interval
<1>3. IsFiniteSet(D)
      BY <1>1, <1>2, FS_Subset
<1>4. Cardinality(D) \in Nat
      BY <1>3, FS_CardinalityType
<1>5. QED BY <1>3, <1>4 DEF Count

LEMMA CountEmpty == ASSUME NEW S PROVE Count(<<>>, S) = 0
<1>1. {i \in DOMAIN <<>> : <<>>[i] \in S} = {}
      OBVIOUS
<1>2. QED BY <1>1, FS_EmptySet DEF Count

LEMMA CountAppend ==
  ASSUME NEW T, NEW s \in Seq(T), NEW e \in T, NEW S
  PROVE  Count(Append(s, e), S) = Count(s, S) + Held(e, S)
<1> DEFINE D == {i \in DOMAIN s : s[i] \in S}
           E == {i \in DOMAIN Append(s, e) : Append(s, e)[i] \in S}
           n == Len(s) + 1
<1>1. Len(s) \in Nat /\ DOMAIN s = 1 .. Len(s)
      BY LenProperties
<1>2. /\ DOMAIN Append(s, e) = 1 .. n
      /\ \A i \in 1 .. Len(s) : Append(s, e)[i] = s[i]
      /\ Append(s, e)[n] = e
      BY <1>1
<1>3. IsFiniteSet(D) /\ Cardinality(D) \in Nat
      BY CountFinite DEF Count
<1>4. CASE e \in S
  <2>1. E = D \cup {n}
        BY <1>1, <1>2, <1>4
  <2>2. n \notin D
        BY <1>1
  <2>3. Cardinality(E) = Cardinality(D) + 1
        BY <1>3, <2>1, <2>2, FS_AddElement
  <2>4. QED BY <2>3, <1>4 DEF Count, Held
<1>5. CASE e \notin S
  <2>1. E = D
        BY <1>1, <1>2, <1>5
  <2> HIDE DEF D, E
  <2>2. Cardinality(E) = Cardinality(D) + 0
        BY <1>3, <2>1
  <2> USE DEF D, E
  <2>3. QED BY <2>2, <1>5 DEF Count, Held
<1>6. QED BY <1>4, <1>5

LEMMA CountTail ==
  ASSUME NEW T, NEW s \in Seq(T), s # <<>>, NEW S
  PROVE  Count(s, S) = Count(Tail(s), S) + Held(Head(s), S)
<1> DEFINE D == {i \in DOMAIN s : s[i] \in S}
           E == {i \in DOMAIN Tail(s) : Tail(s)[i] \in S}
           f == [i \in E |-> i + 1]
<1>1. Len(s) \in Nat \ {0} /\ DOMAIN s = 1 .. Len(s)
      BY LenProperties, EmptySeq
<1>2. /\ Tail(s) \in Seq(T) /\ Len(Tail(s)) = Len(s) - 1
      /\ DOMAIN Tail(s) = 1 .. Len(s) - 1
      /\ \A i \in 1 .. Len(s) - 1 : Tail(s)[i] = s[i + 1]
      BY <1>1, HeadTailProperties, LenProperties
<1>3. IsFiniteSet(D) /\ Cardinality(D) \in Nat
      BY CountFinite DEF Count
<1>4. IsFiniteSet(E) /\ Cardinality(E) \in Nat
      BY <1>2, CountFinite DEF Count
<1>5. ExistsBijection(E, D \ {1})
  <2>1. \A i \in E : i \in 1 .. Len(s) - 1 /\ i + 1 \in D \ {1}
        BY <1>1, <1>2
  <2>2. \A j \in D \ {1} : j \in Nat /\ j - 1 \in E /\ f[j - 1] = j
        BY <1>1, <1>2
  <2>3. f \in [E -> D \ {1}]
        BY <2>1
  <2>4. \A a, b \in E : f[a] = f[b] => a = b
        BY <2>1
  <2>5. f \in Bijection(E, D \ {1})
        BY <2>2, <2>3, <2>4 DEF Bijection, Injection, Surjection, IsInjective
  <2>6. QED BY <2>5 DEF ExistsBijection
<1>6. Cardinality(D \ {1}) = Cardinality(E)
      BY <1>4, <1>5, FS_Bijection
<1>7. Head(s) = s[1]
      BY <1>1
<1>8. Cardinality(D \ {1}) = IF 1 \in D THEN Cardinality(D) - 1 ELSE Cardinality(D)
      BY <1>3, FS_RemoveElement
<1>9. 1 \in D <=> Head(s) \in S
      BY <1>1, <1>7
<1> HIDE DEF D, E
<1>10. Cardinality(D) = Cardinality(E) + Held(Head(s), S)
  <2>1. CASE 1 \in D
        BY <1>3, <1>4, <1>6, <1>8, <1>9, <2>1 DEF Held
  <2>2. CASE 1 \notin D
        BY <1>3, <1>4, <1>6, <1>8, <1>9, <2>2 DEF Held
  <2>3. QED BY <2>1, <2>2
<1> USE DEF D, E
<1>11. QED BY <1>10 DEF Count

\* The more of the elements count, the larger the count.
LEMMA CountMonotone ==
  ASSUME NEW T, NEW s \in Seq(T), NEW S, NEW R, R \subseteq S
  PROVE  Count(s, R) <= Count(s, S)
<1>1. IsFiniteSet({i \in DOMAIN s : s[i] \in S})
      BY CountFinite
<1>2. {i \in DOMAIN s : s[i] \in R} \in SUBSET {i \in DOMAIN s : s[i] \in S}
      OBVIOUS
<1>3. QED BY <1>1, <1>2, FS_Subset DEF Count

LEMMA HeldType == ASSUME NEW m, NEW S PROVE Held(m, S) \in {0, 1}
  BY DEF Held

-----------------------------------------------------------------------------
(***************************************************************************)
(* The strengthening of the handshake and of the types.                    *)
(***************************************************************************)
\* The requests of A and the answers of P on their way, wherever they are.
Total(A, P) ==
  Count(outbox, A) + Held(hand, A) + Count(up, A)
    + Count(down, P) + Held(part, P) + Count(inbox, P)

\* A sensor and the responder are the only senders to Writebytes, and each
\* waits for room with one message at most; the reader is the only one to
\* Readbytes.
RoomInv ==
  /\ \A i, j \in Cap + 1 .. Len(outbox) : (outbox[i] = "perf" <=> outbox[j] = "perf") => i = j
  /\ reader = "stop" => Len(inbox) <= Cap

\* Until the controller's greeting nothing has come from it, and no request
\* but reports is on its way to it.
NewInv ==
  session = "new" => down = <<>> /\ (~garbled => InFlight = 0)

\* What follows on the answer to the login, up to the request of the status.
AfterLogin == {"config", "status"}
OfLogin    == {"login", "config"}

LoggedInv == ~garbled => (Total(AfterLogin, OfLogin) > 0 => session = "in")

AgentInv ==
  /\ TypeOK /\ RoomInv /\ NewInv /\ LoggedInv /\ OneHandshake
  /\ ~garbled => inStep

-----------------------------------------------------------------------------
(***************************************************************************)
(* The room in the channels, and the types.                                *)
(***************************************************************************)

\* Of three messages behind the channel's buffer, two are of the same sender.
LEMMA RoomBound ==
  ASSUME NEW s \in Seq(Requests),
         \A i, j \in Cap + 1 .. Len(s) : (s[i] = "perf" <=> s[j] = "perf") => i = j
  PROVE  Len(s) <= Cap + 2
<1> SUFFICES ASSUME ~(Len(s) <= Cap + 2) PROVE FALSE
    OBVIOUS
<1>1. Cap \in Nat /\ Len(s) \in Nat
      BY AgentAssumption, LenProperties
<1> DEFINE I == Cap + 1 .. Len(s)
           Perf(i) == s[i] = "perf"
<1>2. Cap + 1 \in I /\ Cap + 2 \in I /\ Cap + 3 \in I
      BY <1>1
<1>3. \A i, j \in I : (Perf(i) <=> Perf(j)) => i = j
      OBVIOUS
<1> HIDE DEF I, Perf
<1>4. (Perf(Cap + 1) <=> Perf(Cap + 2)) => Cap + 1 = Cap + 2
      BY <1>2, <1>3
<1>5. (Perf(Cap + 1) <=> Perf(Cap + 3)) => Cap + 1 = Cap + 3
      BY <1>2, <1>3
<1>6. (Perf(Cap + 2) <=> Perf(Cap + 3)) => Cap + 2 = Cap + 3
      BY <1>2, <1>3
<1>7. QED BY <1>1, <1>4, <1>5, <1>6

\* A sender that has no message waiting may send one, which may have to wait.
LEMMA RoomForOne ==
  ASSUME RoomInv, TypeOK, NEW m \in Requests, outbox' = Append(outbox, m),
         (m = "perf" /\ "perf" \notin Waiting) \/ (m # "perf" /\ Waiting \subseteq {"perf"})
  PROVE  \A i, j \in Cap + 1 .. Len(outbox') :
           (outbox'[i] = "perf" <=> outbox'[j] = "perf") => i = j
<1> DEFINE n == Len(outbox) + 1
<1>1. Cap \in Nat /\ Len(outbox) \in Nat /\ outbox \in Seq(Requests)
      BY AgentAssumption, LenProperties DEF TypeOK
<1>2. /\ Len(outbox') = n /\ outbox'[n] = m
      /\ \A i \in Cap + 1 .. n : i # n => i \in Cap + 1 .. Len(outbox) /\ outbox'[i] = outbox[i]
      BY <1>1
<1>3. \A i \in Cap + 1 .. Len(outbox) : ~(outbox[i] = "perf" <=> m = "perf")
      BY DEF Waiting
<1>4. \A i \in Cap + 1 .. n : i # n => ~(outbox'[i] = "perf" <=> outbox'[n] = "perf")
      BY <1>2, <1>3
<1>5. SUFFICES ASSUME NEW i \in Cap + 1 .. n, NEW j \in Cap + 1 .. n,
                      outbox'[i] = "perf" <=> outbox'[j] = "perf"
               PROVE  i = j
      BY <1>2
<1>6. CASE i = n \/ j = n
  <2>1. i \in Cap + 1 .. n /\ j \in Cap + 1 .. n
        OBVIOUS
  <2> HIDE DEF n
  <2>2. CASE i = n
        BY <1>4, <1>5, <2>1, <2>2, Zenon
  <2>3. CASE j = n
        BY <1>4, <1>5, <2>1, <2>3, Zenon
  <2>4. QED BY <1>6, <2>2, <2>3
<1>7. CASE i # n /\ j # n
      BY <1>2, <1>5, <1>7 DEF RoomInv
<1>8. QED BY <1>6, <1>7

LEMMA RoomStep ==
  ASSUME TypeOK, RoomInv, [Next]_vars
  PROVE  RoomInv'
<1> DEFINE Apart == \A i, j \in Cap + 1 .. Len(outbox) :
                      (outbox[i] = "perf" <=> outbox[j] = "perf") => i = j
<1>1. CASE ReadPacket \/ ReadCut \/ ReadGarbage \/ ReadOn
  <2>1. UNCHANGED outbox /\ reader' = "read"
        BY <1>1 DEF ReadPacket, ReadCut, ReadGarbage, ReadOn, Reading, readerVars
  <2>2. QED BY <2>1 DEF RoomInv
<1>2. CASE ReadEnd
      BY <1>2 DEF ReadEnd, Reading, RoomInv
<1>3. CASE Shutdown
      BY <1>3 DEF Shutdown, RoomInv
<1>4. CASE WriterTake
  <2>1. UNCHANGED <<reader, inbox>>
        BY <1>4 DEF WriterTake, readerVars
  <2>2. /\ Cap \in Nat /\ Len(outbox) \in Nat /\ Len(outbox') = Len(outbox) - 1
        /\ \A i \in 1 .. Len(outbox') : outbox'[i] = outbox[i + 1]
        BY <1>4, AgentAssumption, HeadTailProperties, LenProperties DEF WriterTake, TypeOK
  <2>3. \A i \in Cap + 1 .. Len(outbox') :
          i + 1 \in Cap + 1 .. Len(outbox) /\ outbox'[i] = outbox[i + 1]
        BY <2>2
  <2>4. SUFFICES ASSUME NEW i \in Cap + 1 .. Len(outbox'), NEW j \in Cap + 1 .. Len(outbox'),
                        outbox'[i] = "perf" <=> outbox'[j] = "perf"
                 PROVE  i = j
        BY <2>1 DEF RoomInv
  <2>5. i + 1 = j + 1
        BY <2>3, <2>4 DEF RoomInv
  <2>6. QED BY <2>2, <2>5
<1>5. CASE Respond
  <2>1. reader' = reader /\ inbox' = Tail(inbox) /\ Len(inbox') <= Len(inbox)
        <3>1. inbox \in Seq(Packets) /\ inbox # <<>>
              BY <1>5 DEF Respond, ResponderRuns, TypeOK
        <3>2. Len(Tail(inbox)) = Len(inbox) - 1 /\ Len(inbox) \in Nat
              BY <3>1, HeadTailProperties, LenProperties
        <3>3. QED BY <1>5, <3>2 DEF Respond, readerVars
  <2>2. Len(inbox) \in Nat /\ Len(inbox') \in Nat /\ Cap \in Nat
        BY <1>5, AgentAssumption, HeadTailProperties, LenProperties DEF Respond, ResponderRuns, TypeOK
  <2>3. CASE outbox' = outbox
        BY <2>1, <2>2, <2>3 DEF RoomInv
  <2>4. CASE outbox' # outbox
    <3>1. PICK m \in Requests \ {"perf"} : outbox' = Append(outbox, m)
          BY <1>5, <2>4 DEF Respond, NextRequest, Requests, None
    <3>2. Waiting \subseteq {"perf"}
          BY <1>5 DEF Respond, ResponderRuns
    <3>3. Apart'
          BY <3>1, <3>2, RoomForOne
    <3>4. QED BY <2>1, <2>2, <3>3 DEF RoomInv
  <2>5. QED BY <2>3, <2>4
<1>6. CASE Report
  <2>1. UNCHANGED <<reader, inbox>>
        BY <1>6 DEF Report, readerVars
  <2>2. CASE outbox' = outbox
        BY <2>1, <2>2 DEF RoomInv
  <2>3. CASE outbox' = Append(outbox, "perf")
    <3>1. Apart'
          BY <1>6, <2>3, RoomForOne DEF Report, Requests
    <3>2. QED BY <2>1, <3>1 DEF RoomInv
  <2>4. QED BY <1>6, <2>2, <2>3 DEF Report
<1>7. CASE Write \/ WriteFails \/ Controller \/ Close \/ Reset \/ UNCHANGED vars
  <2>1. UNCHANGED <<reader, inbox, outbox>>
        BY <1>7 DEF Write, WriteFails, Controller, Greet, Spin, Serve, Reject, Close, Reset,
                    vars, readerVars
  <2>2. QED BY <2>1 DEF RoomInv
<1>8. QED BY <1>1, <1>2, <1>3, <1>4, <1>5, <1>6, <1>7 DEF Next, Reader, Writer

\* The types of the connection, and those of the agent's own variables but for
\* the bound of Writebytes, which follows from RoomInv.
LinkTypes ==
  /\ conn \in {"none", "up", "ended", "reset"} /\ session \in {"new", "greeted", "in"}
  /\ up \in Seq(Requests) /\ Len(up) <= MaxUp
  /\ down \in Seq(Sent) /\ Len(down) <= MaxDown /\ spins \in BOOLEAN

AgentTypes ==
  /\ inStep \in BOOLEAN /\ garbled \in BOOLEAN
  /\ reader \in {"off", "read", "stop"} /\ part \in Packets \cup {None}
  /\ writer \in {"off", "on", "done"} /\ hand \in Requests \cup {None}
  /\ inbox \in Seq(Packets) /\ Len(inbox) <= Cap + 1
  /\ outbox \in Seq(Requests)

LEMMA LinkTypesStep ==
  ASSUME TypeOK, NewInv, [Next]_vars
  PROVE  LinkTypes'
<1> USE DEF TypeOK, LinkTypes
<1>1. Len(up) \in Nat /\ Len(down) \in Nat /\ MaxUp \in Nat \ {0} /\ MaxDown \in Nat \ {0}
      BY AgentAssumption, LenProperties
<1>2. CASE Greet
  <2>1. down = <<>> /\ UNCHANGED <<conn, up, spins>> /\ session' = "greeted"
        BY <1>2 DEF Greet, NewInv
  <2>2. down' \in Seq(Sent) /\ Len(down') = 1
        BY <1>2, <2>1 DEF Greet, Sent, Answers
  <2>3. QED BY <1>1, <2>1, <2>2
<1>3. CASE Spin
      BY <1>3 DEF Spin
<1>4. CASE Serve
  <2>1. up # <<>> /\ Head(up) \in Requests /\ Tail(up) \in Seq(Requests)
          /\ Len(Tail(up)) = Len(up) - 1
        BY <1>4, HeadTailProperties DEF Serve, Answering
  <2>2. Reply(Head(up)) \in Sent /\ "torn" \in Sent
        BY <2>1 DEF Reply, Requests, Sent, Answers
  <2>3. down' \in Seq(Sent) /\ Len(down') = Len(down) + 1 /\ Len(down) < MaxDown
        BY <1>4, <2>2 DEF Serve
  <2>4. session' \in {"new", "greeted", "in"} /\ conn' = conn /\ up' = Tail(up)
        BY <1>4 DEF Serve
  <2>5. Len(up') <= MaxUp /\ Len(down') <= MaxDown
        BY <1>1, <2>1, <2>3, <2>4
  <2>6. spins' \in BOOLEAN
        BY <1>4, Zenon DEF Serve
  <2>7. QED BY <2>1, <2>3, <2>4, <2>5, <2>6
<1>5. CASE Reject
  <2>1. Tail(up) \in Seq(Requests) /\ Len(Tail(up)) = Len(up) - 1
        BY <1>5, HeadTailProperties DEF Reject
  <2>2. Len(up') <= MaxUp
        BY <1>1, <1>5, <2>1 DEF Reject
  <2>3. spins' \in BOOLEAN
        BY <1>5, Zenon DEF Reject
  <2>4. QED BY <1>5, <2>1, <2>2, <2>3 DEF Reject
<1>6. CASE Close
      BY <1>6 DEF Close
<1>7. CASE Reset
  <2>1. <<>> \in Seq(Requests) /\ Len(<<>>) = 0
        BY EmptySeq
  <2>2. Len(up') <= MaxUp
        BY <1>1, <1>7, <2>1 DEF Reset
  <2>3. spins' \in BOOLEAN
        BY <1>7, Zenon DEF Reset
  <2>4. QED BY <1>7, <2>1, <2>2, <2>3 DEF Reset
<1>8. CASE ReadPacket
  <2>1. Tail(down) \in Seq(Sent) /\ Len(Tail(down)) = Len(down) - 1
        BY <1>8, HeadTailProperties DEF ReadPacket
  <2>2. QED BY <1>1, <1>8, <2>1 DEF ReadPacket
<1>9. CASE ReadOn
  <2>1. PICK n \in 1 .. Len(down) : down' = SubSeq(down, n + 1, Len(down))
        BY <1>9 DEF ReadOn
  <2>2. \A i \in n + 1 .. Len(down) : down[i] \in Sent
        BY <1>1, <2>1, ElementOfSeq
  <2>3. n + 1 \in Int /\ Len(down) \in Int
        BY <1>1
  <2>4. /\ down' \in Seq(Sent)
        /\ Len(down') = IF n + 1 <= Len(down) THEN Len(down) - (n + 1) + 1 ELSE 0
        BY <2>1, <2>2, <2>3, SubSeqProperties
  <2>5. Len(down') <= MaxDown
        BY <1>1, <2>4
  <2>6. UNCHANGED <<conn, session, up, spins>>
        BY <1>9 DEF ReadOn
  <2>7. QED BY <2>4, <2>5, <2>6
<1>10. CASE ReadEnd
  <2>1. <<>> \in Seq(Sent) /\ Len(<<>>) = 0
        BY EmptySeq
  <2>2. QED BY <1>1, <1>10, <2>1 DEF ReadEnd
<1>11. CASE Write
  <2>1. hand \in Requests
        BY <1>11 DEF Write
  <2>2. up' \in Seq(Requests) /\ Len(up') = Len(up) + 1
        BY <1>11, <2>1 DEF Write
  <2>3. QED BY <1>1, <1>11, <2>2 DEF Write
<1>12. CASE ReadCut \/ ReadGarbage \/ Shutdown \/ WriterTake \/ WriteFails \/ Respond \/ Report
            \/ UNCHANGED vars
      BY <1>12 DEF ReadCut, ReadGarbage, Shutdown, WriterTake, WriteFails, Respond, Report,
                   vars, linkVars
<1>13. QED BY <1>2, <1>3, <1>4, <1>5, <1>6, <1>7, <1>8, <1>9, <1>10, <1>11, <1>12
             DEF Next, Reader, Writer, Controller

LEMMA AgentTypesStep ==
  ASSUME TypeOK, RoomInv, [Next]_vars
  PROVE  AgentTypes'
<1> USE DEF TypeOK, AgentTypes
<1>1. Len(inbox) \in Nat /\ Cap \in Nat \ {0} /\ Garbage \subseteq Packets
      BY AgentAssumption, LenProperties
<1>2. ASSUME NEW m \in Packets, Len(inbox) <= Cap, inbox' = Append(inbox, m)
      PROVE  inbox' \in Seq(Packets) /\ Len(inbox') <= Cap + 1
      BY <1>1, <1>2
<1>3. CASE ReadPacket
  <2>1. Head(down) \in Packets
        BY <1>3, HeadTailProperties DEF ReadPacket, Sent, Packets
  <2>2. inbox' \in Seq(Packets) /\ Len(inbox') <= Cap + 1
        BY <1>2, <1>3, <2>1 DEF ReadPacket, Reading
  <2>3. QED BY <1>3, <2>2 DEF ReadPacket, readerVars, writerVars
<1>4. CASE ReadCut
      BY <1>4 DEF ReadCut, writerVars
<1>5. CASE ReadGarbage
  <2>1. inbox' \in Seq(Packets) /\ Len(inbox') <= Cap + 1
        BY <1>1, <1>2, <1>5 DEF ReadGarbage, Reading
  <2>2. QED BY <1>5, <2>1 DEF ReadGarbage, readerVars, writerVars
<1>6. CASE ReadOn
  <2>1. inbox' \in Seq(Packets) /\ Len(inbox') <= Cap + 1
        BY <1>1, <1>2, <1>6 DEF ReadOn, Reading
  <2>2. inStep' \in BOOLEAN
        BY <1>6, Zenon DEF ReadOn
  <2>3. UNCHANGED <<garbled, reader, part, writer, hand, outbox>>
        BY <1>6 DEF ReadOn, writerVars
  <2>4. QED BY <2>1, <2>2, <2>3
<1>7. CASE ReadEnd
  <2>1. down # <<>> => Head(down) \in Sent
        BY HeadTailProperties
  <2>2. part' \in Packets \cup {None}
        BY <1>1, <1>7, <2>1 DEF ReadEnd, Sent, Packets
  <2>3. QED BY <1>7, <2>2 DEF ReadEnd, writerVars
<1>8. CASE Shutdown
  <2>1. Len(inbox) <= Cap
        BY <1>8 DEF Shutdown, RoomInv
  <2>2. inbox' \in Seq(Packets) /\ Len(inbox') <= Cap + 1
        BY <1>1, <1>2, <1>8, <2>1 DEF Shutdown
  <2>3. QED BY <1>8, <2>2 DEF Shutdown
<1>9. CASE WriterTake
      BY <1>9, HeadTailProperties DEF WriterTake, readerVars
<1>10. CASE Write \/ WriteFails
      BY <1>10 DEF Write, WriteFails, readerVars
<1>11. CASE Respond
  <2>1. inbox' \in Seq(Packets) /\ Len(inbox') = Len(inbox) - 1
        BY <1>11, HeadTailProperties DEF Respond, ResponderRuns
  <2>2. outbox' \in Seq(Requests)
        BY <1>11 DEF Respond, NextRequest, Requests, None
  <2>3. QED BY <1>1, <1>11, <2>1, <2>2 DEF Respond, readerVars, writerVars
<1>12. CASE Report
  <2>1. UNCHANGED <<readerVars, writerVars, inbox>>
        BY <1>12 DEF Report
  <2>2. outbox' = outbox \/ outbox' = Append(outbox, "perf")
        BY <1>12 DEF Report
  <2>3. "perf" \in Requests
        BY DEF Requests
  <2>4. outbox \in Seq(Requests)
        OBVIOUS
  <2>5. Append(outbox, "perf") \in Seq(Requests)
        BY <2>3, <2>4, AppendProperties
  <2>6. QED BY <1>1, <2>1, <2>2, <2>4, <2>5 DEF readerVars, writerVars
<1>13. CASE Controller \/ Close \/ Reset \/ UNCHANGED vars
      BY <1>13 DEF Controller, Greet, Spin, Serve, Reject, Close, Reset, vars, readerVars, writerVars
<1>14. QED BY <1>3, <1>4, <1>5, <1>6, <1>7, <1>8, <1>9, <1>10, <1>11, <1>12, <1>13
             DEF Next, Reader, Writer

LEMMA TypesStep ==
  ASSUME TypeOK, RoomInv, NewInv, [Next]_vars
  PROVE  TypeOK'
<1>1. LinkTypes' /\ AgentTypes' /\ RoomInv'
      BY LinkTypesStep, AgentTypesStep, RoomStep
<1>2. Len(outbox') <= Cap + 2
  <2>1. Cap \in Nat /\ outbox' \in Seq(Requests)
        BY <1>1, AgentAssumption DEF AgentTypes
  <2>2. QED BY <1>1, <2>1, RoomBound DEF RoomInv
<1>3. QED BY <1>1, <1>2 DEF LinkTypes, AgentTypes, TypeOK

-----------------------------------------------------------------------------
(***************************************************************************)
(* The conversation: how many of its requests and answers are on their way.*)
(***************************************************************************)

\* Out of step once, out of step for the history.
LEMMA StepIsKept ==
  ASSUME ~garbled => inStep, [Next]_vars, ~garbled'
  PROVE  ~garbled /\ inStep /\ inStep' /\ ~ReadCut /\ ~ReadGarbage /\ ~ReadOn
<1>1. CASE Reader
  <2>1. garbled' = garbled \/ ReadCut
        BY <1>1 DEF Reader, ReadPacket, ReadGarbage, ReadOn, ReadEnd, readerVars
  <2>2. ReadCut => garbled' = TRUE
        BY DEF ReadCut
  <2>3. ~garbled /\ inStep /\ ~ReadCut
        BY <2>1, <2>2
  <2>4. ~ReadGarbage /\ ~ReadOn
        BY <2>3 DEF ReadGarbage, ReadOn
  <2>5. inStep' = inStep
        BY <1>1, <2>3, <2>4 DEF Reader, ReadPacket, ReadEnd, readerVars
  <2>6. QED BY <2>3, <2>4, <2>5
<1>2. CASE ~Reader
  <2>1. UNCHANGED <<garbled, inStep>>
        BY <1>2 DEF Next, Shutdown, Writer, WriterTake, Write, WriteFails, Respond, Report,
                    Controller, Greet, Serve, Reject, Spin, Close, Reset, vars, readerVars
  <2>2. QED BY <1>2, <2>1 DEF Reader
<1>3. QED BY <1>1, <1>2

\* What is on its way is passed on, answered by the agent with the request that
\* follows, or lost, but it never multiplies on the way: it takes the controller
\* (Greet and Serve) to add to it.  A contains no request that the agent makes
\* without an answer of P.
LEMMA NothingMultiplies ==
  ASSUME TypeOK, TypeOK', ~garbled => inStep, [Next]_vars, ~garbled', ~Greet, ~Serve,
         NEW CONSTANT A, NEW CONSTANT P,
         {"perf", None} \cap A = {}, {"bad", None} \cap P = {},
         \A m \in Packets : NextRequest(m) \in A => m \in P
  PROVE  Total(A, P)' <= Total(A, P)
<1>1. /\ up \in Seq(Requests) /\ down \in Seq(Sent) /\ inbox \in Seq(Packets)
      /\ outbox \in Seq(Requests) /\ hand \in Requests \cup {None}
      BY DEF TypeOK
<1>2. /\ Count(outbox, A) \in Nat /\ Count(up, A) \in Nat
      /\ Count(down, P) \in Nat /\ Count(inbox, P) \in Nat
      /\ Count(outbox', A) \in Nat /\ Count(up', A) \in Nat
      /\ Count(down', P) \in Nat /\ Count(inbox', P) \in Nat
      BY CountFinite DEF TypeOK
<1>3. /\ Held(hand, A) \in {0, 1} /\ Held(hand', A) \in {0, 1}
      /\ Held(part, P) \in {0, 1} /\ Held(part', P) \in {0, 1}
      /\ Held(None, A) = 0 /\ Held(None, P) = 0 /\ Held("bad", P) = 0 /\ Held("perf", A) = 0
      BY DEF Held
<1>4. Count(<<>>, A) = 0 /\ Count(<<>>, P) = 0
      BY CountEmpty
<1>5. ~garbled /\ inStep /\ ~ReadCut /\ ~ReadGarbage /\ ~ReadOn
      BY StepIsKept
<1>6. CASE ReadPacket
  <2>1. Count(down, P) = Count(down', P) + Held(Head(down), P)
        BY <1>1, <1>6, CountTail DEF ReadPacket
  <2>2. Head(down) \in Packets
        BY <1>1, <1>6, HeadTailProperties DEF ReadPacket, Sent, Packets
  <2>3. Count(inbox', P) = Count(inbox, P) + Held(Head(down), P)
        BY <1>1, <1>6, <2>2, CountAppend DEF ReadPacket
  <2>4. UNCHANGED <<outbox, hand, up, part>>
        BY <1>6 DEF ReadPacket, readerVars, writerVars
  <2>5. Held(Head(down), P) \in {0, 1}
        BY HeldType
  <2>6. QED BY <1>2, <1>3, <2>1, <2>3, <2>4, <2>5 DEF Total
<1>7. CASE ReadEnd
  <2>1. Count(down', P) = 0 /\ UNCHANGED <<outbox, hand, up, inbox>>
        BY <1>4, <1>7 DEF ReadEnd, writerVars
  <2>2. part' \in {None, "bad"} \/ (down # <<>> /\ part' = Head(down))
        BY <1>5, <1>7 DEF ReadEnd
  <2>3. down # <<>> => Held(Head(down), P) <= Count(down, P)
    <3>1. SUFFICES ASSUME down # <<>> PROVE Held(Head(down), P) <= Count(down, P)
          OBVIOUS
    <3>2. Tail(down) \in Seq(Sent)
          BY <1>1, <3>1, HeadTailProperties
    <3>3. Count(Tail(down), P) \in Nat
          BY <3>2, CountFinite
    <3>4. Count(down, P) = Count(Tail(down), P) + Held(Head(down), P)
          BY <1>1, <3>1, CountTail
    <3>5. Held(Head(down), P) \in {0, 1}
          BY HeldType
    <3>6. QED BY <3>3, <3>4, <3>5
  <2>4. Held(part', P) <= Count(down, P)
        BY <1>2, <1>3, <2>2, <2>3
  <2>5. QED BY <1>2, <1>3, <2>1, <2>4 DEF Total
<1>8. CASE Shutdown
  <2>1. Held(part', P) = 0 /\ UNCHANGED <<outbox, hand, up, down>>
        BY <1>3, <1>8 DEF Shutdown, linkVars
  <2>2. CASE part = None
        BY <1>2, <1>3, <1>8, <2>1, <2>2 DEF Shutdown, Total
  <2>3. CASE part # None
    <3>1. part \in Packets /\ inbox' = Append(inbox, part)
          BY <1>8, <2>3 DEF Shutdown, TypeOK
    <3>2. Count(inbox', P) = Count(inbox, P) + Held(part, P)
          BY <1>1, <3>1, CountAppend
    <3>3. QED BY <1>2, <1>3, <2>1, <3>2 DEF Total
  <2>4. QED BY <2>2, <2>3
<1>9. CASE WriterTake
  <2>1. Count(outbox, A) = Count(outbox', A) + Held(hand', A)
        BY <1>1, <1>9, CountTail DEF WriterTake
  <2>2. UNCHANGED <<up, down, part, inbox>>
        BY <1>9 DEF WriterTake, linkVars, readerVars
  <2>3. QED BY <1>2, <1>3, <2>1, <2>2 DEF Total
<1>10. CASE Write
  <2>1. hand \in Requests /\ up' = Append(up, hand) /\ hand' = None
        BY <1>1, <1>10 DEF Write
  <2>2. Count(up', A) = Count(up, A) + Held(hand, A)
        BY <1>1, <2>1, CountAppend
  <2>3. UNCHANGED <<outbox, down, part, inbox>>
        BY <1>10 DEF Write, readerVars
  <2>4. QED BY <1>2, <1>3, <2>1, <2>2, <2>3 DEF Total
<1>11. CASE WriteFails
  <2>1. hand' = None /\ UNCHANGED <<outbox, up, down, part, inbox>>
        BY <1>11 DEF WriteFails, linkVars, readerVars
  <2>2. QED BY <1>2, <1>3, <2>1 DEF Total
<1>12. CASE Respond
  <2> DEFINE m == Head(inbox)
             r == NextRequest(m)
  <2>1. m \in Packets /\ UNCHANGED <<hand, up, down, part>>
        BY <1>1, <1>12, HeadTailProperties DEF Respond, ResponderRuns, linkVars, readerVars, writerVars
  <2>2. Count(inbox, P) = Count(inbox', P) + Held(m, P)
        BY <1>1, <1>12, CountTail DEF Respond, ResponderRuns
  <2>3. r \in A => m \in P
        BY <2>1
  <2>4. r \in Requests \cup {None} /\ outbox' = (IF r = None THEN outbox ELSE Append(outbox, r))
        BY <1>12 DEF Respond, NextRequest, Requests
  <2> HIDE DEF m, r
  <2>5. CASE r = None
        BY <1>2, <1>3, <2>1, <2>2, <2>4, <2>5, HeldType DEF Total
  <2>6. CASE r # None
    <3>1. Count(outbox', A) = Count(outbox, A) + Held(r, A)
          BY <1>1, <2>4, <2>6, CountAppend
    <3>2. Held(r, A) <= Held(m, P)
          BY <2>3 DEF Held
    <3>3. Held(r, A) \in {0, 1} /\ Held(m, P) \in {0, 1}
          BY HeldType
    <3>4. QED BY <1>2, <1>3, <2>1, <2>2, <3>1, <3>2, <3>3 DEF Total
  <2>7. QED BY <2>5, <2>6
<1>13. CASE Report
  <2>1. UNCHANGED <<hand, up, down, part, inbox>>
        BY <1>13 DEF Report, linkVars, readerVars, writerVars
  <2>2. CASE outbox' = outbox
        BY <1>2, <1>3, <2>1, <2>2 DEF Total
  <2>3. CASE outbox' = Append(outbox, "perf")
    <3>1. Count(outbox', A) = Count(outbox, A) + Held("perf", A)
          BY <1>1, <2>3, CountAppend DEF Requests
    <3>2. QED BY <1>2, <1>3, <2>1, <3>1 DEF Total
  <2>4. QED BY <1>13, <2>2, <2>3 DEF Report
<1>14. CASE Reject
  <2>1. Count(up, A) = Count(up', A) + Held(Head(up), A)
        BY <1>1, <1>14, CountTail DEF Reject
  <2>2. UNCHANGED <<outbox, hand, down, part, inbox>>
        BY <1>14 DEF Reject, readerVars, writerVars
  <2>3. Held(Head(up), A) \in {0, 1}
        BY HeldType
  <2>4. QED BY <1>2, <1>3, <2>1, <2>2, <2>3 DEF Total
<1>15. CASE Reset
  <2>1. Count(up', A) = 0 /\ UNCHANGED <<outbox, hand, down, part, inbox>>
        BY <1>4, <1>15 DEF Reset, readerVars, writerVars
  <2>2. QED BY <1>2, <1>3, <2>1 DEF Total
<1>16. CASE Spin \/ Close \/ UNCHANGED vars
  <2>1. UNCHANGED <<outbox, hand, up, down, part, inbox>>
        BY <1>16 DEF Spin, Close, vars, linkVars, readerVars, writerVars
  <2>2. QED BY <1>2, <1>3, <2>1 DEF Total
<1>17. QED BY <1>5, <1>6, <1>7, <1>8, <1>9, <1>10, <1>11, <1>12, <1>13, <1>14, <1>15, <1>16
             DEF Next, Reader, Writer, Controller

\* What is on its way is a number.
LEMMA TotalType ==
  ASSUME NEW CONSTANT A, NEW CONSTANT P
  PROVE  /\ TypeOK => Total(A, P) \in Nat
         /\ TypeOK' => Total(A, P)' \in Nat
<1>1. ASSUME TypeOK PROVE Total(A, P) \in Nat
  <2>1. /\ Count(outbox, A) \in Nat /\ Count(up, A) \in Nat
        /\ Count(down, P) \in Nat /\ Count(inbox, P) \in Nat
        BY <1>1, CountFinite DEF TypeOK
  <2>2. Held(hand, A) \in {0, 1} /\ Held(part, P) \in {0, 1}
        BY HeldType
  <2>3. QED BY <2>1, <2>2 DEF Total
<1>2. ASSUME TypeOK' PROVE Total(A, P)' \in Nat
  <2>1. /\ Count(outbox', A) \in Nat /\ Count(up', A) \in Nat
        /\ Count(down', P) \in Nat /\ Count(inbox', P) \in Nat
        BY <1>2, CountFinite DEF TypeOK
  <2>2. Held(hand', A) \in {0, 1} /\ Held(part', P) \in {0, 1}
        BY HeldType
  <2>3. QED BY <2>1, <2>2 DEF Total
<1>3. QED BY <1>1, <1>2

\* The controller answers a request once.
LEMMA ServeDoesNotMultiply ==
  ASSUME TypeOK, TypeOK', Serve, NEW CONSTANT A, NEW CONSTANT P,
         "torn" \notin P, Reply(Head(up)) \in P => Head(up) \in A
  PROVE  Total(A, P)' <= Total(A, P)
<1> DEFINE a == IF spins THEN "torn" ELSE Reply(Head(up))
<1>1. up \in Seq(Requests) /\ up # <<>> /\ down \in Seq(Sent) /\ Head(up) \in Requests
      BY HeadTailProperties DEF TypeOK, Serve, Answering
<1>2. a \in Sent
      BY <1>1 DEF Reply, Requests, Sent, Answers
<1>3. Count(up, A) = Count(up', A) + Held(Head(up), A)
      BY <1>1, CountTail DEF Serve
<1>4. Count(down', P) = Count(down, P) + Held(a, P)
      BY <1>1, <1>2, CountAppend DEF Serve
<1>5. Held(a, P) <= Held(Head(up), A)
      BY DEF Held
<1>6. Held(a, P) \in {0, 1} /\ Held(Head(up), A) \in {0, 1} /\ Held(hand, A) \in {0, 1}
      /\ Held(part, P) \in {0, 1}
      BY HeldType
<1>7. /\ Count(up, A) \in Nat /\ Count(up', A) \in Nat /\ Count(outbox, A) \in Nat
      /\ Count(down, P) \in Nat /\ Count(down', P) \in Nat /\ Count(inbox, P) \in Nat
      BY CountFinite DEF TypeOK
<1>8. UNCHANGED <<outbox, hand, part, inbox>>
      BY DEF Serve, readerVars, writerVars
<1> HIDE DEF a
<1>9. QED BY <1>3, <1>4, <1>5, <1>6, <1>7, <1>8 DEF Total

LEMMA GreetAddsOne ==
  ASSUME TypeOK, Greet, NEW CONSTANT A, NEW CONSTANT P
  PROVE  Total(A, P)' = Total(A, P) + Held("info", P)
<1>1. Count(down', P) = Count(down, P) + Held("info", P)
  <2>1. down \in Seq(Sent) /\ "info" \in Sent /\ down' = Append(down, "info")
        BY DEF TypeOK, Greet, Sent, Answers
  <2>2. QED BY <2>1, CountAppend
<1>2. /\ Count(up, A) \in Nat /\ Count(outbox, A) \in Nat
      /\ Count(down, P) \in Nat /\ Count(inbox, P) \in Nat
      BY CountFinite DEF TypeOK
<1>3. Held("info", P) \in {0, 1} /\ Held(hand, A) \in {0, 1} /\ Held(part, P) \in {0, 1}
      BY HeldType
<1>4. UNCHANGED <<outbox, hand, up, part, inbox>>
      BY DEF Greet, readerVars, writerVars
<1>5. QED BY <1>1, <1>2, <1>3, <1>4 DEF Total

\* A session goes from new to greeted to logged in, and does not come back.
LEMMA SessionStep ==
  ASSUME TypeOK, [Next]_vars
  PROVE  /\ session' = "new" => session = "new" /\ ~Greet /\ ~Serve
         /\ session = "in" => session' = "in"
<1>1. CASE Greet
      BY <1>1 DEF Greet
<1>2. CASE Serve
      BY <1>2 DEF Serve, Answering
<1>3. CASE ~Greet /\ ~Serve
  <2>1. session' = session
        BY <1>3 DEF Next, Reader, Writer, Controller, ReadPacket, ReadCut, ReadGarbage, ReadOn, ReadEnd,
                    Shutdown, WriterTake, Write, WriteFails, Respond, Report, Reject, Spin, Close,
                    Reset, vars, linkVars
  <2>2. QED BY <1>3, <2>1
<1>4. QED BY <1>1, <1>2, <1>3

LEMMA NewStep ==
  ASSUME TypeOK, TypeOK', NewInv, ~garbled => inStep, [Next]_vars
  PROVE  NewInv'
<1> SUFFICES ASSUME session' = "new"
             PROVE  down' = <<>> /\ (~garbled' => InFlight' = 0)
    BY DEF NewInv
<1>1. session = "new" /\ ~Greet /\ ~Serve /\ down = <<>>
      BY SessionStep DEF NewInv
<1>2. down' = <<>>
  <2>1. Len(down) = 0
        BY <1>1, EmptySeq
  <2>2. ~ReadPacket /\ ~ReadOn
        BY <1>1, <2>1 DEF ReadPacket, ReadOn
  <2>3. QED BY <1>1, <2>2
            DEF Next, Reader, Writer, Controller, ReadCut, ReadGarbage, ReadEnd, Shutdown, WriterTake,
                Write, WriteFails, Respond, Report, Reject, Spin, Close, Reset, vars, linkVars
<1>3. ASSUME ~garbled' PROVE InFlight' = 0
  <2>1. ~garbled
        BY <1>3, StepIsKept
  <2>2. Total(Asks, Prompts) = 0
        BY <1>1, <2>1 DEF NewInv, InFlight, Total
  <2>3. Total(Asks, Prompts)' <= Total(Asks, Prompts)
        BY <1>1, <1>3, NothingMultiplies DEF Asks, Prompts, NextRequest, None, Packets, Answers
  <2>4. Total(Asks, Prompts)' \in Nat
        BY TotalType
  <2>5. Total(Asks, Prompts)' = 0
        BY <2>2, <2>3, <2>4
  <2>6. QED BY <2>5 DEF InFlight, Total
<1>4. QED BY <1>2, <1>3

LEMMA OneStep ==
  ASSUME TypeOK, TypeOK', NewInv, OneHandshake, ~garbled => inStep, [Next]_vars
  PROVE  OneHandshake'
<1> SUFFICES ASSUME ~garbled' PROVE InFlight' <= 1
    BY DEF OneHandshake
<1>1. ~garbled
      BY StepIsKept
<1>2. Total(Asks, Prompts) <= 1 /\ Total(Asks, Prompts) \in Nat
      BY <1>1, TotalType DEF OneHandshake, InFlight, Total
<1>3. Total(Asks, Prompts)' \in Nat
      BY TotalType
<1>4. CASE Greet
  <2>1. Total(Asks, Prompts) = 0
        BY <1>1, <1>4 DEF Greet, NewInv, InFlight, Total
  <2>2. Total(Asks, Prompts)' = Total(Asks, Prompts) + Held("info", Prompts)
        BY <1>4, GreetAddsOne
  <2>3. Held("info", Prompts) \in {0, 1}
        BY HeldType
  <2>4. Total(Asks, Prompts)' <= 1
        BY <2>1, <2>2, <2>3
  <2>5. QED BY <2>4 DEF InFlight, Total
<1>5. CASE ~Greet
  <2>1. Total(Asks, Prompts)' <= Total(Asks, Prompts)
    <3>1. CASE Serve
      <4>1. Reply(Head(up)) \in Prompts => Head(up) \in Asks
            BY <3>1, HeadTailProperties DEF Asks, Prompts, Reply, TypeOK, Serve, Answering, Requests
      <4>2. QED BY <3>1, <4>1, ServeDoesNotMultiply DEF Prompts
    <3>2. CASE ~Serve
          BY <1>5, <3>2, NothingMultiplies DEF Asks, Prompts, NextRequest, None, Packets, Answers
    <3>3. QED BY <3>1, <3>2
  <2>2. Total(Asks, Prompts)' <= 1
        BY <1>2, <1>3, <2>1
  <2>3. QED BY <2>2 DEF InFlight, Total
<1>6. QED BY <1>4, <1>5

LEMMA LoggedStep ==
  ASSUME TypeOK, TypeOK', LoggedInv, ~garbled => inStep, [Next]_vars
  PROVE  LoggedInv'
<1> SUFFICES ASSUME ~garbled', session' # "in" PROVE ~(Total(AfterLogin, OfLogin)' > 0)
    BY DEF LoggedInv
<1>1. ~garbled /\ session # "in"
      BY StepIsKept, SessionStep
<1>2. ~(Total(AfterLogin, OfLogin) > 0) /\ Total(AfterLogin, OfLogin) \in Nat
      BY <1>1, TotalType DEF LoggedInv
<1>3. Total(AfterLogin, OfLogin)' \in Nat
      BY TotalType
<1>4. Total(AfterLogin, OfLogin)' <= Total(AfterLogin, OfLogin)
  <2>1. CASE Greet
    <3>1. Total(AfterLogin, OfLogin)' = Total(AfterLogin, OfLogin) + Held("info", OfLogin)
          BY <2>1, GreetAddsOne
    <3>2. Held("info", OfLogin) = 0
          BY DEF Held, OfLogin
    <3>3. QED BY <1>2, <3>1, <3>2
  <2>2. CASE Serve
    <3>1. Head(up) # "login"
          BY <2>2 DEF Serve
    <3>2. Reply(Head(up)) \in OfLogin => Head(up) \in AfterLogin
          BY <3>1 DEF Reply, OfLogin, AfterLogin
    <3>3. QED BY <2>2, <3>2, ServeDoesNotMultiply DEF OfLogin
  <2>3. CASE ~Greet /\ ~Serve
        BY <2>3, NothingMultiplies DEF AfterLogin, OfLogin, NextRequest, None, Packets, Answers
  <2>4. QED BY <2>1, <2>2, <2>3
<1>5. QED BY <1>2, <1>3, <1>4

LEMMA AgentInit == Init => AgentInv
<1> SUFFICES ASSUME Init PROVE AgentInv
    OBVIOUS
<1>1. /\ up = <<>> /\ down = <<>> /\ inbox = <<>> /\ outbox = <<>>
      /\ hand = None /\ part = None /\ reader # "stop" /\ inStep = TRUE
      BY DEF Init
<1>2. /\ <<>> \in Seq(Requests) /\ <<>> \in Seq(Sent) /\ <<>> \in Seq(Packets) /\ Len(<<>>) = 0
      BY EmptySeq
<1>3. Cap \in Nat \ {0} /\ MaxUp \in Nat \ {0} /\ MaxDown \in Nat \ {0}
      BY AgentAssumption
<1>4. TypeOK
  <2>1. spins \in BOOLEAN /\ inStep \in BOOLEAN /\ garbled \in BOOLEAN
        BY Zenon DEF Init
  <2>2. Len(<<>>) <= MaxUp /\ Len(<<>>) <= MaxDown /\ Len(<<>>) <= Cap + 1 /\ Len(<<>>) <= Cap + 2
        BY <1>2, <1>3
  <2>3. QED BY <1>2, <2>1, <2>2 DEF Init, TypeOK
<1>5. RoomInv
      BY <1>1, <1>2, <1>3 DEF RoomInv
<1>6. ASSUME NEW CONSTANT A, NEW CONSTANT P, None \notin A, None \notin P
      PROVE  Total(A, P) = 0
  <2>1. Count(<<>>, A) = 0 /\ Count(<<>>, P) = 0
        BY CountEmpty
  <2>2. Held(None, A) = 0 /\ Held(None, P) = 0
        BY <1>6 DEF Held
  <2>3. QED BY <1>1, <2>1, <2>2 DEF Total
<1>7. Total(Asks, Prompts) = 0 /\ Total(AfterLogin, OfLogin) = 0
      BY <1>6 DEF Asks, Prompts, AfterLogin, OfLogin, None
<1>8. InFlight = 0
      BY <1>7 DEF InFlight, Total
<1>9. NewInv /\ LoggedInv /\ OneHandshake
      BY <1>1, <1>7, <1>8 DEF NewInv, LoggedInv, OneHandshake
<1>10. QED BY <1>1, <1>4, <1>5, <1>9 DEF AgentInv

LEMMA AgentStep == AgentInv /\ [Next]_vars => AgentInv'
<1> SUFFICES ASSUME AgentInv, [Next]_vars PROVE AgentInv'
    OBVIOUS
<1> USE DEF AgentInv
<1>1. TypeOK' /\ RoomInv'
      BY TypesStep, RoomStep
<1>2. NewInv' /\ OneHandshake' /\ LoggedInv'
      BY <1>1, NewStep, OneStep, LoggedStep
<1>3. ~garbled' => inStep'
      BY StepIsKept
<1>4. QED BY <1>1, <1>2, <1>3

LEMMA AgentInvariant == Spec => []AgentInv
  BY AgentInit, AgentStep, PTL DEF Spec

\* No channel of the agent holds more than its buffer and one message of each
\* of its senders, and no connection more than it takes, for any sizes.
THEOREM TypeCorrect == Spec => []TypeOK
<1>1. AgentInv => TypeOK
      BY DEF AgentInv
<1>2. QED BY AgentInvariant, <1>1, PTL

\* Whatever reports and answers to them run beside it, there is never more
\* than one request of the handshake, or answer that leads to one.
THEOREM OneConversation == Spec => []OneHandshake
<1>1. AgentInv => OneHandshake
      BY DEF AgentInv
<1>2. QED BY AgentInvariant, <1>1, PTL

\* The agent asks for the status only where the login has been answered, on
\* which the controller would otherwise end the connection.
THEOREM StatusOnlyLoggedIn == Spec => []StatusAfterLogin
<1>1. AgentInv => StatusAfterLogin
  <2>1. SUFFICES ASSUME AgentInv, ~garbled,
                        Count(outbox, {"status"}) + Held(hand, {"status"}) + Count(up, {"status"}) > 0
                 PROVE  session = "in"
        BY DEF StatusAfterLogin
  <2>2. outbox \in Seq(Requests) /\ up \in Seq(Requests) /\ down \in Seq(Sent) /\ inbox \in Seq(Packets)
        BY <2>1 DEF AgentInv, TypeOK
  <2>3. {"status"} \subseteq AfterLogin
        BY DEF AfterLogin
  <2>4. Count(outbox, {"status"}) <= Count(outbox, AfterLogin) /\ Count(up, {"status"}) <= Count(up, AfterLogin)
        BY <2>2, <2>3, CountMonotone
  <2>5. Held(hand, {"status"}) <= Held(hand, AfterLogin)
        BY <2>3 DEF Held
  <2>6. /\ Count(outbox, {"status"}) \in Nat /\ Count(up, {"status"}) \in Nat
        /\ Count(outbox, AfterLogin) \in Nat /\ Count(up, AfterLogin) \in Nat
        /\ Count(down, OfLogin) \in Nat /\ Count(inbox, OfLogin) \in Nat
        BY <2>2, CountFinite
  <2>7. /\ Held(hand, {"status"}) \in {0, 1} /\ Held(hand, AfterLogin) \in {0, 1}
        /\ Held(part, OfLogin) \in {0, 1}
        BY HeldType
  <2>8. Total(AfterLogin, OfLogin) > 0
        BY <2>1, <2>4, <2>5, <2>6, <2>7 DEF Total
  <2>9. QED BY <2>1, <2>8 DEF AgentInv, LoggedInv
<1>2. QED BY AgentInvariant, <1>1, PTL
=============================================================================
