---------------------------- MODULE MCSendRelay ----------------------------
(* A chat with media and two group messages to the same devices, for TLC. *)
EXTENDS SendRelay

CONSTANTS d1, g1, g2, mine, r1, hosted

SameList == [t \in Sends |-> Devices]
=============================================================================
