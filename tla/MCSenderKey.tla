---------------------------- MODULE MCSenderKey ----------------------------
(***************************************************************************)
(* Instances of SenderKey for TLC.  me is a companion device of the        *)
(* account whose device 0 is phone; peer is another member of the group.   *)
(***************************************************************************)
EXTENDS SenderKey

CONSTANTS me, phone, peer

Pair == {me, peer}
OwnPrimaries == [d \in Pair |-> d]

Account == {me, phone}
SharedPrimary == [d \in Account |-> phone]
=============================================================================
