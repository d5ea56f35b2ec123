-------------------------- MODULE MCNoiseTransport --------------------------
(* Senders, a reader and a server, for TLC. *)
EXTENDS NoiseTransport

CONSTANTS s1, s2, s3
=============================================================================
