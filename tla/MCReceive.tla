----------------------------- MODULE MCReceive -----------------------------
(* Incoming messages of each kind, for TLC. *)
EXTENDS Receive

Mixed ==
  <<[kind |-> "skdm"], [kind |-> "group", key |-> 1],
    [kind |-> "history", parts |-> {"contacts", "messages"}], [kind |-> "bare"]>>
=============================================================================
