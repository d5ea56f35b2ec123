-------------------------- MODULE MCDoubleRatchet --------------------------
(* Two parties, for TLC. *)
EXTENDS DoubleRatchet, TLC

CONSTANTS alice, bob

Both == {alice, bob}
SignedOf == alice :> 1 @@ bob :> 2

OneStarts == [initiators |-> {alice}, ahead |-> 2000, sends |-> 7]
BothStart == [initiators |-> Both, ahead |-> 1, sends |-> 4]

OneOrBoth == {OneStarts, BothStart}
Simultaneous == {[initiators |-> Both, ahead |-> 2000, sends |-> 6]}
=============================================================================
