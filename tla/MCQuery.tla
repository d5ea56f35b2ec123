------------------------------ MODULE MCQuery ------------------------------
(* User, background and inline queries of one connection, for TLC. *)
EXTENDS Query

CONSTANTS u1, u2, p1, p2, i1, i2

Two == <<p1, p2>>
One == <<p1>>
NoPostLogin == <<>>
=============================================================================
