------------------------------ MODULE Sessions ------------------------------
(***************************************************************************)
(* What the TCP server promises, without its table, its loop or the bytes  *)
(* of a packet: each connection is refused or admitted, and refused only   *)
(* when Capacity others are open; it is a member from its own login to its *)
(* own end and is heard only while it is one; a restart ends everything.   *)
(* A server that writes over its own memory promises nothing more until    *)
(* that restart.  TcpServer implements it.                                 *)
(***************************************************************************)
EXTENDS Integers, FiniteSets

CONSTANTS
  Peers,           \* the processes that connect, once at a time each
  Capacity         \* how many connections may be open

VARIABLES
  link,            \* each peer's connection: "closed", "pending" or "open"
  end,             \* the peer's own end of it: "alive", "finished" or "reset"
  members,         \* the peers whose open connection has logged in
  heard,           \* those whose connection has given the target a command
  lost             \* the server has written over its own memory

vars == <<link, end, members, heard, lost>>

Init ==
  /\ link = [p \in Peers |-> "closed"] /\ end = [p \in Peers |-> "alive"]
  /\ members = {} /\ heard = {} /\ lost = FALSE

Open == {p \in Peers : link[p] = "open"}

Moves(p, from, to) == link[p] = from /\ link' = [link EXCEPT ![p] = to]

Connect(p) ==
  /\ Moves(p, "closed", "pending") /\ end' = [end EXCEPT ![p] = "alive"]
  /\ heard' = heard \ {p} /\ UNCHANGED members

Finish(p) ==
  /\ link[p] # "closed" /\ end[p] = "alive" /\ end' = [end EXCEPT ![p] = "finished"]
  /\ UNCHANGED <<link, members, heard>>

\* A peer's reset takes back a connection that is pending.
Reset(p) ==
  /\ end' = [end EXCEPT ![p] = "reset"]
  /\ Moves(p, "pending", "closed") \/ (link[p] = "open" /\ UNCHANGED link)
  /\ UNCHANGED <<members, heard>>

Refuse(p) ==
  /\ Moves(p, "pending", "closed") /\ Cardinality(Open) = Capacity
  /\ UNCHANGED <<end, members, heard>>

Admit(p) ==
  /\ Moves(p, "pending", "open") /\ Cardinality(Open) < Capacity
  /\ UNCHANGED <<end, members, heard>>

Login(p) ==
  /\ link[p] = "open" /\ members' = members \cup {p}
  /\ UNCHANGED <<link, end, heard>>

End(p) == Moves(p, "open", "closed") /\ members' = members \ {p} /\ UNCHANGED end

Close(p) == End(p) /\ UNCHANGED heard

\* A command is carried out even where its answer finds the connection reset.
Command(p) ==
  /\ p \in members /\ heard' = heard \cup {p}
  /\ UNCHANGED <<link, end, members>> \/ (end[p] = "reset" /\ End(p))

Restart == Init'

\* All else may change in any way.
Lose == lost' = TRUE

Next ==
  \/ Restart \/ Lose
  \/ /\ ~lost /\ lost' = FALSE
     /\ \E p \in Peers :
          \/ Connect(p) \/ Finish(p) \/ Reset(p) \/ Refuse(p) \/ Admit(p)
          \/ Login(p) \/ Close(p) \/ Command(p)

Spec == Init /\ [][Next]_vars
=============================================================================
