--------------------------- MODULE NoiseHandshake ---------------------------
(***************************************************************************)
(* The key schedule of the Noise XX handshake of transport/noise.py.       *)
(*                                                                         *)
(* Cryptography is symbolic: a hash and a chaining key are the sequences   *)
(* of what was mixed into them, a shared secret is the pair of keys it is  *)
(* made from, and a ciphertext opens with the key, the counter and the     *)
(* handshake hash it was made with.                                        *)
(***************************************************************************)
EXTENDS Naturals, Sequences

SharedSecret(private, public) == {private, public}

\* NoiseHandler.__init__: the header and the client's ephemeral key are hashed.
Authenticate(h, data) == [h EXCEPT !.hash = Append(@, data)]
Seeded(ephemeral) ==
  Authenticate(Authenticate([hash |-> <<"mode">>, salt |-> <<"mode">>, key |-> <<"mode">>,
                             counter |-> 0], "header"), ephemeral)

\* mix_into_key: the two halves of the hash become the chaining key and the cipher key.
MixIntoKey(h, secret) ==
  [h EXCEPT !.salt = Append(@, secret), !.key = Append(h.salt, secret) \o <<"key">>,
            !.counter = 0]

\* encrypt and decrypt: the next counter, and the ciphertext is hashed.
Sealed(h, plain) == [key |-> h.key, counter |-> h.counter, hash |-> h.hash, plain |-> plain]
Opens(h, c) == <<c.key, c.counter, c.hash>> = <<h.key, h.counter, h.hash>>
After(h, c) == [Authenticate(h, c) EXCEPT !.counter = @ + 1]

\* finish_init: the initiator writes with the first half, the responder with the second.
TransportKeys(h) == [write |-> h.salt \o <<"write">>, read |-> h.salt \o <<"read">>]

-----------------------------------------------------------------------------
\* process_handshake of the client, whose keys are its ephemeral and its static one,
\* with the server's hello; step by step e and ee, s, es, the certificate, s, se.

MixedEphemeral(ephemeral, hello) ==
  MixIntoKey(Authenticate(Seeded(ephemeral), hello.ephemeral),
             SharedSecret(ephemeral, hello.ephemeral))
MixedStatic(ephemeral, hello) ==
  MixIntoKey(After(MixedEphemeral(ephemeral, hello), hello.static),
             SharedSecret(ephemeral, hello.static.plain))

\* The static key and the certificate open, and the certificate verifies.
Accepted(ephemeral, hello) ==
  /\ Opens(MixedEphemeral(ephemeral, hello), hello.static)
  /\ Opens(MixedStatic(ephemeral, hello), hello.payload)
  /\ hello.payload.plain = "certificate"

\* The client's static key and its payload, and the keys of the transport.
Answered(ephemeral, static, hello) ==
  LET h == After(MixedStatic(ephemeral, hello), hello.payload)
      key_enc == Sealed(h, static)
      mixed == MixIntoKey(After(h, key_enc), SharedSecret(static, hello.ephemeral))
      payload == Sealed(mixed, "payload")
  IN  [finish |-> [static |-> key_enc, payload |-> payload],
       keys |-> TransportKeys(After(mixed, payload))]

-----------------------------------------------------------------------------
\* The server: its hello, and what it makes of the client's finish.

Hello(ephemeral, private, static, certificate) ==
  LET h == MixIntoKey(Authenticate(Seeded(ephemeral), private), SharedSecret(private, ephemeral))
      static_enc == Sealed(h, static)
      mixed == MixIntoKey(After(h, static_enc), SharedSecret(static, ephemeral))
      payload == Sealed(mixed, certificate)
  IN  [hello |-> [ephemeral |-> private, static |-> static_enc, payload |-> payload],
       noise |-> After(mixed, payload)]

\* The responder's view of the finish: none if it does not open.
Finished(noise, private, finish) ==
  LET mixed == MixIntoKey(After(noise, finish.static), SharedSecret(finish.static.plain, private))
  IN  IF Opens(noise, finish.static) /\ Opens(mixed, finish.payload)
      THEN {TransportKeys(After(mixed, finish.payload))} ELSE {}

=============================================================================
