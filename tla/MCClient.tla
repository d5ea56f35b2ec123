------------------------------ MODULE MCClient ------------------------------
(* The supervisor and its connections, for TLC. *)
EXTENDS Client

Plain == [conns |-> 3, faults |-> {}]
Faulty == [conns |-> 2, faults |-> {"handler_raises", "handshake_rejected"}]

PlainAndFaulty == {Plain, Faulty}
EarlyStop == {[conns |-> 2, faults |-> {"stop_while_connecting"}]}
=============================================================================
