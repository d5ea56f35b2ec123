------------------------------ MODULE SenderKey ------------------------------
(***************************************************************************)
(* Group sender keys: crypto/sender_key.py over the sender-key part of     *)
(* crypto/signal_store.py, saved to disk by client.py.                     *)
(*                                                                         *)
(* Every device runs the same code.  An author creates a sender key,       *)
(* announces it in distribution messages (SKDM) and encrypts with its      *)
(* chain; the others install the SKDM and ratchet their copy forward.      *)
(* The network keeps, reorders, repeats and loses what was sent: it is a   *)
(* set from which nothing is removed and nothing must be read.             *)
(*                                                                         *)
(* The chain seed after n steps is a function of the key and of n, so a    *)
(* chain is its iteration and a message key is the pair of key id and      *)
(* iteration.  Signatures always verify: a damaged message is rejected     *)
(* before the record is touched (sender_key.py:281).                       *)
(***************************************************************************)
EXTENDS Integers, Sequences, FiniteSets

CONSTANTS
  Devices,       \* the devices of a group, and their names in the store
  Primary,       \* device -> device 0 of the same user: jid_normalized_user
  Authors,       \* the devices that send to the group
  MaxKeys,       \* MAX_MESSAGE_KEYS
  MaxIteration,  \* bound: an author's chain stops here
  MaxStates,     \* bound: states one record may hold
  SaveMayFail    \* whether a write of the key file may fail

ASSUME SenderKeyAssumption ==
  /\ Primary \in [Devices -> Devices]
  /\ Authors \subseteq Devices
  /\ MaxKeys \in Nat \ {0}
  /\ MaxIteration \in Nat
  /\ MaxStates \in Nat
  /\ SaveMayFail \in BOOLEAN

VARIABLES
  record,  \* record[d][n]: device d's SenderKeyRecord.states for name n, newest first
  disk,    \* the records in each device's key file
  sent     \* every message ever given to the network

vars == <<record, disk, sent>>

(***************************************************************************)
(* A SenderKeyState.  key_id identifies the device whose create() drew it. *)
(* base (the iteration it was installed at) and consumed (the iterations   *)
(* whose key was taken from it, in order) are history.                     *)
(***************************************************************************)
State == [key_id: Devices, iteration: Nat, signing_private: BOOLEAN,
          message_keys: Seq(Nat), base: Nat, consumed: Seq(Nat)]

\* Slip: counters from -1, as those of the double ratchet's chains.
NewStateBehind(key_id, iteration, private) ==
  [key_id |-> key_id, iteration |-> iteration - 1, signing_private |-> private,
   message_keys |-> <<>>, base |-> iteration, consumed |-> <<>>]

NewState(key_id, iteration, private) ==
  [key_id |-> key_id, iteration |-> iteration, signing_private |-> private,
   message_keys |-> <<>>, base |-> iteration, consumed |-> <<>>]

Distribution == [type: {"skdm"}, author: Devices, key_id: Devices, iteration: Nat]
GroupMessage == [type: {"skmsg"}, author: Devices, key_id: Devices,
                 iteration: Nat, body: Nat]

Entries(q) == {q[j] : j \in 1..Len(q)}
Held(s) == Entries(s.message_keys)
Consumed(s) == Entries(s.consumed)

GroupMessages == {m \in sent : m.type = "skmsg"}
Distributions == {m \in sent : m.type = "skdm"}

OwnName(d) == Primary[d]

-----------------------------------------------------------------------------
\* The key lookup, as operators on one state.

\* Slip: add_message_key keeps every skipped key.
AllOf(q) == q

\* Slip: add_message_key evicts one key too early.
NewestButOne(q) ==
  IF Len(q) < MaxKeys THEN q
  ELSE [j \in 1..(MaxKeys - 1) |-> q[j + Len(q) - MaxKeys + 1]]

\* What the appends of add_message_key leave of q: the newest MaxKeys entries.
Newest(q) ==
  IF Len(q) <= MaxKeys THEN q
  ELSE [j \in 1..MaxKeys |-> q[j + Len(q) - MaxKeys]]

\* message_keys after skipping the iterations from..to-1.
Skip(q, from, to) ==
  Newest(q \o [j \in 1..(to - from) |-> from + j - 1])

\* Slip: remove_message_key returns the key and keeps it.
Kept(q, i) == q

\* remove_message_key: q without its first i.
Without(q, i) ==
  LET p == CHOOSE p \in 1..Len(q) : q[p] = i /\ \A k \in 1..Len(q) : q[k] = i => p <= k
  IN  [j \in 1..(Len(q) - 1) |-> IF j < p THEN q[j] ELSE q[j + 1]]

OldCounter(s, i) == s.iteration > i /\ i \notin Held(s)
TooFarAhead(s, i) == i - s.iteration > MaxKeys
Usable(s, i) == ~OldCounter(s, i) /\ ~TooFarAhead(s, i)

\* Slip: set_chain_key(chain), where the code advances to chain.next().
TakeKeyStays(s, i) ==
  IF s.iteration > i
  THEN [s EXCEPT !.message_keys = Without(@, i), !.consumed = Append(@, i)]
  ELSE [s EXCEPT !.message_keys = Skip(@, s.iteration, i),
                 !.iteration = i, !.consumed = Append(@, i)]

\* _get_sender_key on a usable iteration: the state it leaves.
TakeKey(s, i) ==
  IF s.iteration > i
  THEN [s EXCEPT !.message_keys = Without(@, i), !.consumed = Append(@, i)]
  ELSE [s EXCEPT !.message_keys = Skip(@, s.iteration, i),
                 !.iteration = i + 1, !.consumed = Append(@, i)]

\* get_state(key_id): the newest state of that key.
Matching(states, key_id) == {j \in 1..Len(states) : states[j].key_id = key_id}
NewestMatch(states, key_id) ==
  CHOOSE j \in Matching(states, key_id) : \A k \in Matching(states, key_id) : j <= k

\* encrypt asks for the chain's own iteration only on a fresh chain.
NextIteration(s) == IF s.iteration = 0 THEN 0 ELSE s.iteration + 1

-----------------------------------------------------------------------------
\* store_sender_key -> on_change -> _save_keys: all records of d are written,
\* or the failed write is swallowed.
Save(d) ==
  \/ disk' = [disk EXCEPT ![d] = record'[d]]
  \/ SaveMayFail /\ UNCHANGED disk

Init ==
  /\ record = [d \in Devices |-> [n \in Devices |-> <<>>]]
  /\ disk = record
  /\ sent = {}

\* create announces each key it draws.  Bound: a device draws one key.
Drawn(d) == \E m \in Distributions : m.key_id = d

\* GroupSessionBuilder.create: make our key if the record is empty, announce
\* the newest state of the record.
Create(d) ==
  LET states == record[d][OwnName(d)]
      fresh  == <<NewState(d, 0, TRUE)>>
      Announce(s) == [type |-> "skdm", author |-> d,
                      key_id |-> s.key_id, iteration |-> s.iteration]
  IN  \/ /\ states = <<>>
         /\ ~Drawn(d)
         /\ record' = [record EXCEPT ![d][OwnName(d)] = fresh]
         /\ Save(d)
         /\ sent' = sent \cup {Announce(fresh[1])}
      \/ /\ states # <<>>
         /\ sent' = sent \cup {Announce(states[1])}
         /\ UNCHANGED <<record, disk>>

\* GroupCipher.encrypt: without the private key the signature raises, after
\* the chain has moved and before the record is stored.
Encrypt(d) ==
  LET states == record[d][OwnName(d)]
      s == states[1]
      i == NextIteration(s)
  IN  /\ states # <<>>
      /\ i <= MaxIteration
      /\ Usable(s, i)
      /\ record' = [record EXCEPT ![d][OwnName(d)][1] = TakeKey(s, i)]
      /\ IF s.signing_private
         THEN /\ Save(d)
              /\ sent' = sent \cup {[type |-> "skmsg", author |-> d, key_id |-> s.key_id,
                                     iteration |-> i, body |-> Cardinality(GroupMessages)]}
         ELSE UNCHANGED <<disk, sent>>

\* GroupSessionBuilder.process: the announced state goes in front.
Process(d, m) ==
  /\ m.author # d
  /\ Len(record[d][m.author]) < MaxStates
  /\ record' = [record EXCEPT ![d][m.author] =
                  <<NewState(m.key_id, m.iteration, FALSE)>> \o @]
  /\ Save(d)
  /\ UNCHANGED sent

\* GroupCipher.decrypt: no state, an old counter and a jump too far raise
\* and leave the record alone.
Decrypt(d, m) ==
  LET states == record[d][m.author]
      j == NewestMatch(states, m.key_id)
  IN  /\ m.author # d
      /\ Matching(states, m.key_id) # {}
      /\ Usable(states[j], m.iteration)
      /\ record' = [record EXCEPT ![d][m.author][j] = TakeKey(@, m.iteration)]
      /\ Save(d)
      /\ UNCHANGED sent

\* The process dies and Client.__init__ loads the key file.
Restart(d) ==
  /\ record' = [record EXCEPT ![d] = disk[d]]
  /\ UNCHANGED <<disk, sent>>

Next ==
  \/ \E d \in Authors : Create(d)
  \/ \E d \in Authors : Encrypt(d)
  \/ \E d \in Devices : \E m \in Distributions : Process(d, m)
  \/ \E d \in Devices : \E m \in GroupMessages : Decrypt(d, m)
  \/ \E d \in Devices : Restart(d)

Spec == Init /\ [][Next]_vars

-----------------------------------------------------------------------------
\* Types: records of states per device and name, messages of the two kinds.
TypeOK ==
  /\ record \in [Devices -> [Devices -> Seq(State)]]
  /\ disk \in [Devices -> [Devices -> Seq(State)]]
  /\ sent \subseteq Distribution \cup GroupMessage

States(d, n) == Entries(record[d][n])

\* No message key encrypts two messages, whatever the interleaving of sends
\* and restarts: encrypt stores the advanced chain before the message leaves.
NoKeyReuse ==
  \A m1, m2 \in GroupMessages :
    m1.key_id = m2.key_id /\ m1.iteration = m2.iteration => m1 = m2

\* One installed state yields each message key once: a repeated group message
\* is refused unless another SKDM was installed in between.
KeyTakenOnce(s) ==
  \A j, k \in 1..Len(s.consumed) : s.consumed[j] = s.consumed[k] => j = k
AtMostOncePerState ==
  \A d, n \in Devices : \A s \in States(d, n) : KeyTakenOnce(s)

\* The skipped keys never outgrow MAX_MESSAGE_KEYS and none of them is a key
\* that was already taken (or that the chain has yet to reach).
CacheSound(s) ==
  /\ Len(s.message_keys) <= MaxKeys
  /\ Held(s) \cap Consumed(s) = {}
  /\ \A i \in Held(s) : s.base <= i /\ i < s.iteration
SkippedKeysBounded ==
  \A d, n \in Devices : \A s \in States(d, n) : CacheSound(s)

\* Late messages: a state still has the keys of the MAX_MESSAGE_KEYS iterations
\* before the newest it passed (and since it was installed), unless it took them.
WindowKept(s) ==
  \A i \in s.base..(s.iteration - 1) :
    i >= (s.iteration - 1) - MaxKeys => i \in Held(s) \cup Consumed(s)
LateMessagesReadable ==
  \A d, n \in Devices : \A s \in States(d, n) : WindowKept(s)

\* create() announces our own key (its docstring: "Create (if needed) our
\* sender key for name and return its SKDM bytes").  No run checks it: it does not
\* hold when device 0 of the account sends to the group too (README).
AnnouncesOwnKey == \A m \in Distributions : m.key_id = m.author

\* A delayed group message is read whenever some installed state of its key
\* could read it (test_out_of_order_group_messages).  No run checks it: it does not
\* hold once an SKDM is repeated (README).
DelayedMessageReadable ==
  \A d \in Devices : \A m \in GroupMessages :
    LET states == record[d][m.author]
        Able == {j \in Matching(states, m.key_id) :
                   /\ m.iteration >= states[j].base
                   /\ m.iteration \notin Consumed(states[j])
                   /\ Usable(states[j], m.iteration)}
    IN  (m.author # d /\ Able # {}) => NewestMatch(states, m.key_id) \in Able

=============================================================================
