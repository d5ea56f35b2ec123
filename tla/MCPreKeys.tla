----------------------------- MODULE MCPreKeys -----------------------------
(* One account, its server and its peers, for TLC. *)
EXTENDS PreKeys
=============================================================================
