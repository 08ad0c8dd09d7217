---------------------------- MODULE MCTcpServer ----------------------------
(***************************************************************************)
(* TcpServer with packets of a few bytes, the shortest that the network    *)
(* can cut in every way.                                                   *)
(***************************************************************************)
EXTENDS TcpServer, TLC

PeerSymmetry == Permutations(Peers)
=============================================================================
