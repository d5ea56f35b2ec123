--------------------------- MODULE OrderedChannel ---------------------------
(***************************************************************************)
(* What a transport promises one direction of a connection: the receiver   *)
(* gets what was sent, in the order it was sent, each thing once, and as   *)
(* long as the socket lasts it gets everything.                            *)
(***************************************************************************)
EXTENDS Naturals, Sequences

CONSTANT Nodes

VARIABLES
  given,  \* what was sent, in order
  got     \* what the receiver has of it

Send(x) == given' = Append(given, x) /\ UNCHANGED got

Get ==
  /\ Len(got) < Len(given)
  /\ got' = Append(got, given[Len(got) + 1])
  /\ UNCHANGED given

Init == given = <<>> /\ got = <<>>

Next == (\E x \in Nodes : Send(x)) \/ Get

Spec == Init /\ [][Next]_<<given, got>> /\ WF_<<given, got>>(Get)

=============================================================================
