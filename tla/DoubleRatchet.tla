--------------------------- MODULE DoubleRatchet ---------------------------
(***************************************************************************)
(* One-to-one sessions: crypto/double_ratchet.py over the session part of  *)
(* crypto/signal_store.py, saved to disk by client.py.                     *)
(*                                                                         *)
(* Each party keeps a record of sessions for the other one.  The network   *)
(* keeps, reorders, repeats and loses what was sent: it is a set from      *)
(* which nothing is removed and nothing must be read.                      *)
(*                                                                         *)
(* Keys are symbolic.  A key pair is a number; an agreement is the set of  *)
(* its two key pairs; a root is the sequence of the agreements mixed into  *)
(* it and also names the chain derived with it; a message key is a chain   *)
(* and a counter.  A MAC verifies when sender and receiver derived the     *)
(* same message key.                                                       *)
(***************************************************************************)
EXTENDS Integers, Sequences, FiniteSets, Bags

CONSTANTS
  Parties,        \* the two ends
  SignedPreKey,   \* party -> its signed pre-key pair
  OneTime,        \* whether a bundle carries a one-time pre-key
  ArchivedLimit,  \* SessionRecord.ARCHIVED_LIMIT
  MaxSessions,    \* bound: sessions a party starts
  MaxSends,       \* bound: messages sent altogether in any scenario
  MaxKeys,        \* bound: key pairs drawn by steps of the ratchet
  Scenarios       \* the scenarios of a run: see Scenario

\* The parties that fetch bundles and start sessions; the 2000 of _fill_message_keys;
\* the bound on the messages sent.
Scenario == [initiators: SUBSET Parties, ahead: Nat \ {0}, sends: 0..MaxSends]

ASSUME DoubleRatchetAssumption ==
  /\ IsFiniteSet(Parties) /\ Cardinality(Parties) = 2
  /\ SignedPreKey \in [Parties -> 1..2]
  /\ OneTime \in BOOLEAN
  /\ {ArchivedLimit, MaxSessions, MaxSends, MaxKeys} \subseteq Nat
  /\ Scenarios \subseteq Scenario

VARIABLES
  scenario,  \* the scenario of this behaviour, which never changes
  record,    \* record[p]: p's SessionRecord.sessions for the other party, newest first
  pre_keys,  \* pre_keys[p]: p's one-time pre-key pairs
  disk,      \* the key file of each party: its record and pre-keys
  keys,      \* the number of the last key pair drawn
  started,   \* sessions each party has started
  sent,      \* every message ever given to the network
  read       \* the bag of messages a decrypt returned (history)

vars == <<scenario, record, pre_keys, disk, keys, started, sent, read>>

Peer(p) == CHOOSE q \in Parties : q # p

Key == Nat
Root == Seq(SUBSET Key)
Chain == [counter: Int, open: BOOLEAN, sending: BOOLEAN, seed: Root,
          message_keys: SUBSET Nat]

\* A Session; pre_key = 0 stands for a bundle without a one-time pre-key.
IsSession(s) ==
  /\ s.root \in Root
  /\ {s.ephemeral, s.last_remote, s.base_key, s.pre_key} \subseteq Key
  /\ s.previous_counter \in Nat \cup {-1}
  /\ {s.closed, s.pending} \subseteq BOOLEAN
  /\ DOMAIN s.chains \subseteq Key
  /\ \A k \in DOMAIN s.chains :
       LET c == s.chains[k]
       IN  /\ c \in Chain
           /\ c.message_keys \subseteq 0..c.counter
           /\ c.sending => c.open /\ c.message_keys = {} /\ k = s.ephemeral

NewChain(seed, sending) ==
  [counter |-> -1, open |-> TRUE, sending |-> sending, seed |-> seed, message_keys |-> {}]

\* f with f[k] = c, k in the domain or not (add_chain).
With(f, k, c) == [x \in DOMAIN f \cup {k} |-> IF x = k THEN c ELSE f[x]]
Less(f, k) == [x \in DOMAIN f \ {k} |-> f[x]]

-----------------------------------------------------------------------------
\* Building a session.

\* The X3DH master secret: signed pre-key and identities are fixed, so the base
\* key and the one-time pre-key determine it.
Master(base_key, pre_key) == <<{base_key, pre_key}>>

\* Slip: the initiator does not remember to wrap its messages.
NotPending(base_key, pre_key, ephemeral, remote) ==
  LET root == Append(Master(base_key, pre_key), {remote, ephemeral})
  IN  [root |-> root, ephemeral |-> ephemeral, last_remote |-> remote,
       previous_counter |-> 0, base_key |-> base_key, pre_key |-> pre_key,
       closed |-> FALSE, pending |-> FALSE,
       chains |-> [k \in {ephemeral} |-> NewChain(root, TRUE)]]

\* _init_session as initiator: remote is the peer's signed pre-key.
Initiated(base_key, pre_key, ephemeral, remote) ==
  LET root == Append(Master(base_key, pre_key), {remote, ephemeral})
  IN  [root |-> root, ephemeral |-> ephemeral, last_remote |-> remote,
       previous_counter |-> 0, base_key |-> base_key, pre_key |-> pre_key,
       closed |-> FALSE, pending |-> TRUE,
       chains |-> [k \in {ephemeral} |-> NewChain(root, TRUE)]]

\* _init_session as responder: no chain yet, the signed pre-key is our ephemeral.
Responded(base_key, pre_key, signed) ==
  [root |-> Master(base_key, pre_key), ephemeral |-> signed, last_remote |-> base_key,
   previous_counter |-> 0, base_key |-> base_key, pre_key |-> 0,
   closed |-> FALSE, pending |-> FALSE, chains |-> <<>>]

OpenOnes(sessions) == {j \in 1..Len(sessions) : ~sessions[j].closed}
OpenOne(sessions) == CHOOSE j \in OpenOnes(sessions) : \A k \in OpenOnes(sessions) : j <= k

\* Slip: the open session is not closed first.
PutInFront(sessions, s) == <<s>> \o sessions

\* close_session of the open session, then set_session.
SetSession(sessions, s) ==
  <<s>> \o [j \in 1..Len(sessions) |->
              IF OpenOnes(sessions) # {} /\ j = OpenOne(sessions)
              THEN [sessions[j] EXCEPT !.closed = TRUE] ELSE sessions[j]]

OfBaseKey(sessions, b) == {j \in 1..Len(sessions) : sessions[j].base_key = b}

\* remove_old_sessions
Recent(sessions) ==
  SubSeq(sessions, 1, IF Len(sessions) > ArchivedLimit + 1 THEN ArchivedLimit + 1
                      ELSE Len(sessions))

-----------------------------------------------------------------------------
\* _do_decrypt on one session, k being the key pair it draws if it steps.

CanFill(c, n) == n > c.counter => c.open /\ n - c.counter <= scenario.ahead
Fill(c, n) ==
  IF n <= c.counter THEN c
  ELSE [c EXCEPT !.counter = n, !.message_keys = @ \cup (c.counter + 1 .. n)]

\* Slip: the receiving chain is closed without the keys of its late messages.
ClosedEarly(chains, last, n) ==
  IF last \in DOMAIN chains THEN [chains EXCEPT ![last].open = FALSE] ELSE chains

\* The receiving chain in use, filled up to the peer's previous counter, closed.
Closed(chains, last, n) ==
  IF last \in DOMAIN chains
  THEN [chains EXCEPT ![last] = [Fill(@, n) EXCEPT !.open = FALSE]]
  ELSE chains

Stepped(s, m, k) ==
  LET receiving == Append(s.root, {m.ratchet_key, s.ephemeral})
      sending == Append(receiving, {m.ratchet_key, k})
      old == Closed(s.chains, s.last_remote, m.previous_counter)
      kept == Less(With(old, m.ratchet_key, NewChain(receiving, FALSE)), s.ephemeral)
  IN  [s EXCEPT !.root = sending, !.ephemeral = k, !.last_remote = m.ratchet_key,
                !.previous_counter = IF s.ephemeral \in DOMAIN s.chains
                                     THEN s.chains[s.ephemeral].counter ELSE @,
                !.chains = With(kept, k, NewChain(sending, TRUE))]

Steps(s, m) == m.ratchet_key \notin DOMAIN s.chains
StepFails(s, m) ==
  /\ Steps(s, m)
  /\ s.last_remote \in DOMAIN s.chains
  /\ ~CanFill(s.chains[s.last_remote], m.previous_counter)

\* _maybe_step_ratchet
Entered(s, m, k) == IF Steps(s, m) /\ ~StepFails(s, m) THEN Stepped(s, m, k) ELSE s

\* The chain m asks for can be filled; its key is there; its MAC verifies.
Reaches(s, m, k) ==
  /\ ~StepFails(s, m)
  /\ LET c == Entered(s, m, k).chains[m.ratchet_key]
     IN  ~c.sending /\ CanFill(c, m.counter)
Decrypts(s, m, k) ==
  /\ Reaches(s, m, k)
  /\ LET c == Fill(Entered(s, m, k).chains[m.ratchet_key], m.counter)
     IN  m.counter \in c.message_keys /\ c.seed = m.seed

\* Slip: the message key is read, not popped.
Peeked(c, n) == c
Popped(c, n) == [c EXCEPT !.message_keys = @ \ {n}]

\* The session _do_decrypt leaves, whether it returns or raises.
Tried(s, m, k) ==
  LET e == Entered(s, m, k)
  IN  IF Reaches(s, m, k)
      THEN [e EXCEPT !.chains[m.ratchet_key] = Popped(Fill(@, m.counter), m.counter),
                     !.pending = @ /\ ~Decrypts(s, m, k)]
      ELSE e

-----------------------------------------------------------------------------
\* Slip: the file is written from the records as they were before the call.
SaveBefore(p) ==
  disk' = [disk EXCEPT ![p] = [record |-> record[p], pre_keys |-> pre_keys'[p]]]

\* store_session -> on_change -> _save_keys
Save(p) ==
  disk' = [disk EXCEPT ![p] = [record |-> record'[p], pre_keys |-> pre_keys'[p]]]

Init ==
  /\ scenario \in Scenarios
  /\ record = [p \in Parties |-> <<>>]
  /\ pre_keys = [p \in Parties |-> {}]
  /\ disk = [p \in Parties |-> [record |-> <<>>, pre_keys |-> {}]]
  /\ keys = Cardinality(Parties)
  /\ started = [p \in Parties |-> 0]
  /\ sent = {}
  /\ read = EmptyBag

\* init_outgoing with a bundle of the peer.  The peer drew and saved the one-time
\* pre-key when it uploaded it; the model draws it when the server hands it out.
InitOutgoing(p) ==
  LET q == Peer(p)
      base_key == keys + 1
      ephemeral == keys + 2
      pre_key == IF OneTime THEN keys + 3 ELSE 0
      session == Initiated(base_key, pre_key, ephemeral, SignedPreKey[q])
      uploaded == {pre_key} \ {0}
  IN  /\ started[p] < MaxSessions
      /\ started' = [started EXCEPT ![p] = @ + 1]
      /\ keys' = keys + 3
      /\ record' = [record EXCEPT ![p] = SetSession(@, session)]
      /\ pre_keys' = [pre_keys EXCEPT ![q] = @ \cup uploaded]
      /\ disk' = [disk EXCEPT ![p] = [record |-> record'[p], pre_keys |-> pre_keys[p]],
                              ![q].pre_keys = @ \cup uploaded]
      /\ UNCHANGED <<scenario, sent, read>>

\* SessionCipher.encrypt: stored before the message leaves.  A ratchet that stepped
\* past a chain it never sent on has the previous counter -1, which the wire format
\* (uint32) refuses: encrypt raises with the chain already moved.
Encrypt(p) ==
  LET sessions == record[p]
      j == OpenOne(sessions)
      s == sessions[j]
      c == s.chains[s.ephemeral]
      n == c.counter + 1
      moved == [sessions EXCEPT ![j].chains[s.ephemeral] = Popped(Fill(c, n), n)]
  IN  /\ Cardinality(sent) < scenario.sends
      /\ OpenOnes(sessions) # {}
      /\ s.ephemeral \in DOMAIN s.chains
      /\ c.sending /\ CanFill(c, n)
      /\ UNCHANGED <<scenario, pre_keys, keys, started, read>>
      /\ \/ /\ s.previous_counter >= 0
            /\ record' = [record EXCEPT ![p] = Recent(moved)]
            /\ sent' = sent \cup
                 {[from |-> p, prekey |-> s.pending, base_key |-> s.base_key,
                   pre_key |-> s.pre_key, ratchet_key |-> s.ephemeral, counter |-> n,
                   previous_counter |-> s.previous_counter, seed |-> c.seed,
                   body |-> Cardinality(sent)]}
            /\ Save(p)
         \/ /\ s.previous_counter < 0 /\ n < scenario.sends
            /\ record' = [record EXCEPT ![p] = moved]
            /\ UNCHANGED <<sent, disk>>

\* init_incoming finds the pre-keys it needs, or an "already replied" session.
Known(p, m) == OfBaseKey(record[p], m.base_key) # {}
Accepts(p, m) == Known(p, m) \/ m.pre_key \in pre_keys[p] \cup {0}
Incoming(p, m) ==
  IF Known(p, m) THEN record[p]
  ELSE SetSession(record[p], Responded(m.base_key, m.pre_key, SignedPreKey[p]))

\* decrypt_prekey_message: the session of the base key is tried.
PreKeyTarget(p, m) ==
  LET S == OfBaseKey(Incoming(p, m), m.base_key) IN CHOOSE j \in S : \A k \in S : j <= k
PreKeyDecrypts(p, m) ==
  Accepts(p, m) /\ Decrypts(Incoming(p, m)[PreKeyTarget(p, m)], m, keys + 1)
DecryptPreKeyMessage(p, m) ==
  LET tried == [Incoming(p, m) EXCEPT ![PreKeyTarget(p, m)] = Tried(@, m, keys + 1)]
  IN  /\ m.from # p /\ m.prekey
      /\ Accepts(p, m)
      /\ keys < MaxKeys
      /\ keys' = IF Steps(Incoming(p, m)[PreKeyTarget(p, m)], m) THEN keys + 1 ELSE keys
      /\ \/ /\ PreKeyDecrypts(p, m)
            /\ record' = [record EXCEPT ![p] = tried]
            /\ pre_keys' = [pre_keys EXCEPT ![p] =
                              IF Known(p, m) THEN @ ELSE @ \ {m.pre_key}]
            /\ read' = read (+) SetToBag({m})
            /\ Save(p)
         \/ /\ ~PreKeyDecrypts(p, m)
            /\ record[p] # <<>>  \* a record of its own is dropped when this raises
            /\ record' = [record EXCEPT ![p] = tried]
            /\ record' # record
            /\ UNCHANGED <<pre_keys, read, disk>>
      /\ UNCHANGED <<scenario, started, sent>>

\* decrypt_message: the sessions are tried in turn, each keeping what the try did.
Tries(p, m, j) == \A i \in 1..(j - 1) : ~Decrypts(record[p][i], m, keys + i)
MessageDecrypts(p, m) == \E j \in 1..Len(record[p]) : Decrypts(record[p][j], m, keys + j)
DecryptMessage(p, m) ==
  LET tried == [j \in 1..Len(record[p]) |->
                  IF Tries(p, m, j) THEN Tried(record[p][j], m, keys + j) ELSE record[p][j]]
  IN  /\ m.from # p /\ ~m.prekey
      /\ UNCHANGED <<scenario, pre_keys, started, sent>>
      /\ keys < MaxKeys
      /\ record' = [record EXCEPT ![p] = tried]
      /\ keys' = IF \E s \in {record[p][j] : j \in 1..Len(record[p])} : Steps(s, m)
                 THEN keys + Len(record[p]) ELSE keys
      /\ \/ /\ MessageDecrypts(p, m)
            /\ read' = read (+) SetToBag({m})
            /\ Save(p)
         \/ /\ ~MessageDecrypts(p, m)
            /\ record' # record
            /\ UNCHANGED <<read, disk>>

\* The process dies and Client.__init__ loads the key file.
Restart(p) ==
  /\ record' = [record EXCEPT ![p] = disk[p].record]
  /\ pre_keys' = [pre_keys EXCEPT ![p] = disk[p].pre_keys]
  /\ UNCHANGED <<scenario, disk, keys, started, sent, read>>

Next ==
  \/ \E p \in scenario.initiators : InitOutgoing(p)
  \/ \E p \in Parties : Encrypt(p)
  \/ \E p \in Parties : \E m \in sent : DecryptPreKeyMessage(p, m)
  \/ \E p \in Parties : \E m \in sent : DecryptMessage(p, m)
  \/ \E p \in Parties : Restart(p)

Spec == Init /\ [][Next]_vars

-----------------------------------------------------------------------------
Message(m) ==
  /\ m.from \in Parties /\ m.prekey \in BOOLEAN
  /\ {m.base_key, m.pre_key, m.ratchet_key} \subseteq Key
  /\ {m.counter, m.previous_counter, m.body} \subseteq Nat
  /\ m.seed \in Root

Sessions(p) == {record[p][j] : j \in 1..Len(record[p])}

\* Types: records of sessions, sets of key numbers, messages.  A session has one
\* sending chain at most, under its own ephemeral, with no message key left in it.
TypeOK ==
  /\ scenario \in Scenarios
  /\ \A p \in Parties : \A s \in Sessions(p) : IsSession(s)
  /\ pre_keys \in [Parties -> SUBSET Key]
  /\ keys \in Nat /\ started \in [Parties -> 0..MaxSessions]
  /\ \A m \in sent : Message(m)
  /\ BagToSet(read) \subseteq sent

\* No message key encrypts two messages: encrypt stores the chain it moved before
\* the message leaves, and a restart comes back to nothing older.
NoKeyReuse ==
  \A m1, m2 \in sent : m1.seed = m2.seed /\ m1.counter = m2.counter => m1 = m2

\* At most one session is open, it is the newest, and remove_old_sessions keeps it.
OneOpenSession ==
  \A p \in Parties :
    /\ OpenOnes(record[p]) \subseteq {1}
    /\ record[p] # <<>> => OpenOnes(record[p]) = {1}

\* What a party sends unwrapped (type 1) is of a session the peer has: the pending
\* pre-key is dropped only after the peer answered in the session.
PeerKnowsSession ==
  \A m \in sent :
    ~m.prekey => \E s \in Sessions(Peer(m.from)) : s.root[1] = m.seed[1]

\* The handler of m's type would return its text.
Readable(m) ==
  LET p == Peer(m.from)
  IN  IF m.prekey THEN PreKeyDecrypts(p, m) ELSE MessageDecrypts(p, m)

\* Every message that was not read yet can be read now, whatever overtook it
\* (test_out_of_order_delivery; "for out-of-order msgs", double_ratchet.py:89).
EveryMessageReadable == \A m \in sent : ~BagIn(m, read) => Readable(m)

\* The same as long as one party alone starts sessions, and starts one.
OneSidedReadable == Cardinality(scenario.initiators) = 1 => EveryMessageReadable

\* No message is read twice (test_replay_is_rejected), as long as no session is pruned:
\* a message can build a pruned session again if its one-time pre-key is still there,
\* or if it needs none (README).
ReadOnce == \A m \in BagToSet(read) : read[m] = 1

\* The service the two parties give each other is the one of MessageChannel.
Channel == INSTANCE MessageChannel WITH
  Senders <- Parties,
  Texts <- 0..(MaxSends - 1),
  posted <- {<<m.from, m.body>> : m \in sent},
  copies <- [x \in Parties \X (0..(MaxSends - 1)) |->
               LET S == {m \in BagToSet(read) : <<m.from, m.body>> = x}
               IN  IF S = {} THEN 0 ELSE read[CHOOSE m \in S : TRUE]]
Implements == Channel!Spec

=============================================================================
