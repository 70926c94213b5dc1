----------------------------- MODULE MCTcpListener -----------------------------
(* TcpListener for model checking; the connections are interchangeable. *)
EXTENDS TcpListener, TLC

Connections == Permutations(Peer)
===============================================================================
