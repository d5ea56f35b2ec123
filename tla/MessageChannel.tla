--------------------------- MODULE MessageChannel ---------------------------
(***************************************************************************)
(* What an encrypted session promises its two ends: a text that is read    *)
(* was posted before, by the other end, and no text is read twice.  The    *)
(* network may lose, repeat and reorder, so nothing promises that a text   *)
(* is read, or when.                                                       *)
(***************************************************************************)
EXTENDS Naturals

CONSTANTS Senders, Texts

VARIABLES
  posted,  \* the texts posted, each with its sender
  copies   \* how often each was read at the other end

Post(x) ==
  /\ x \notin posted
  /\ posted' = posted \cup {x}
  /\ UNCHANGED copies

Take(x) ==
  /\ x \in posted
  /\ copies[x] = 0
  /\ copies' = [copies EXCEPT ![x] = 1]
  /\ UNCHANGED posted

Init ==
  /\ posted = {}
  /\ copies = [x \in Senders \X Texts |-> 0]

Next == \E x \in Senders \X Texts : Post(x) \/ Take(x)

Spec == Init /\ [][Next]_<<posted, copies>>

=============================================================================
