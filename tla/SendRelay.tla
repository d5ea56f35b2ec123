----------------------------- MODULE SendRelay -----------------------------
(***************************************************************************)
(* Outgoing messages: send_text, send_group_text and send_media in user    *)
(* tasks of one connection (socket/connection.py, api/messages_send.py).   *)
(* A send asks the server for the devices, and for the pre-keys of those   *)
(* it has no session with, encrypts for each device, and writes one stanza *)
(* under _write_lock.  Sends of several tasks interleave at every await.   *)
(*                                                                         *)
(* query() is one step to ask and one to answer or raise (Query); a        *)
(* session is its number and counter (DoubleRatchet), the own sender key   *)
(* of the group its iteration (SenderKey).  Left out: the device identity, *)
(* which a stanza has if the account keeps one, and the attributes.        *)
(***************************************************************************)
EXTENDS Naturals, Sequences, FiniteSets, SequencesExt

CONSTANTS
  Sends,    \* the calls, each in a task of its own
  Groups,   \* those to the group
  Media,    \* those of send_media
  Devices,  \* devices of the account and of the others
  Own,      \* those of the account
  self,     \* this one
  Hosted,   \* hosted devices and device 99
  Listed    \* Listed[t]: the devices the server lists for t

ASSUME SendRelayAssumption ==
  /\ IsFiniteSet(Devices)
  /\ Groups \subseteq Sends /\ Media \subseteq Sends
  /\ self \in Own /\ Own \subseteq Devices /\ Hosted \subseteq Devices
  /\ Listed \in [Sends -> SUBSET Devices]

VARIABLES
  todo,     \* todo[t]: the answers t still waits for before it encrypts
  task,     \* task[t]: "idle", "asking", "sending", or how the call ended
  list,     \* list[t]: the devices t got
  need,     \* need[t]: those that had no session then
  body,     \* body[t]: the group part of the stanza of t
  stanza,   \* stanza[t]: the stanza, once it is encrypted
  session,  \* session[d]: the open session with d
  sessions, \* how many sessions were ever started
  chain,    \* the iteration of the own sender key
  line,     \* the tasks at _write_lock, the holder first
  wire,     \* the stanzas that left, in order
  online

vars == <<todo, task, list, need, body, stanza, session, sessions, chain, line, wire, online>>

NoSession == [id |-> 0, next |-> 0, pending |-> FALSE]
NoBody == [skdm |-> 1, skmsg |-> 0]  \* no group part
NoStanza == [to |-> {}, refused |-> {}]
Ended == {"returned", "raised"}

\* The queries of a call, and the upload, up to the device list.
Questions(t) ==
  (IF t \in Media THEN <<"media_conn", "upload">> ELSE <<>>)
    \o (IF t \in Groups THEN <<"metadata">> ELSE <<>>) \o <<"usync">>

Init ==
  /\ todo = [t \in Sends |-> <<>>] /\ task = [t \in Sends |-> "idle"]
  /\ list = [t \in Sends |-> {}] /\ need = [t \in Sends |-> {}]
  /\ body = [t \in Sends |-> NoBody] /\ stanza = [t \in Sends |-> NoStanza]
  /\ session = [d \in Devices |-> NoSession] /\ sessions = 0 /\ chain = 0
  /\ line = <<>> /\ wire = <<>> /\ online = TRUE

-----------------------------------------------------------------------------
\* A call begins with its first question.
Send(t) ==
  /\ task[t] = "idle"
  /\ task' = [task EXCEPT ![t] = "asking"]
  /\ todo' = [todo EXCEPT ![t] = Questions(t)]
  /\ UNCHANGED <<list, need, body, stanza, session, sessions, chain, line, wire, online>>

\* The answer to a question that is only carried on.
Goes(t) ==
  /\ task[t] = "asking" /\ Head(todo[t]) \in {"media_conn", "upload"}
  /\ Head(todo[t]) = "upload" \/ online
  /\ todo' = [todo EXCEPT ![t] = Tail(@)]
  /\ UNCHANGED <<task, list, need, body, stanza, session, sessions, chain, line, wire, online>>

\* GroupSessionBuilder.create announces the chain as it is before GroupCipher.encrypt,
\* which asks for iteration 0 on a fresh chain and skips one on any other.
NextIteration == IF chain = 0 THEN 0 ELSE chain + 1

\* Slip: the distribution message is built after the encryption.
AnnouncedAfter == NextIteration + 1
Announced == chain

\* Metadata: the sender key and the group part of the stanza, before any device is known.
GotMetadata(t) ==
  /\ task[t] = "asking" /\ Head(todo[t]) = "metadata" /\ online
  /\ body' = [body EXCEPT ![t] = [skdm |-> Announced, skmsg |-> NextIteration]]
  /\ chain' = NextIteration + 1
  /\ todo' = [todo EXCEPT ![t] = Tail(@)]
  /\ UNCHANGED <<task, list, need, stanza, session, sessions, line, wire, online>>

\* The devices of list L a stanza is for.
Targets(t, L) ==
  L \ (IF t \in Groups THEN {self} \cup Hosted ELSE {self})

\* inject_sessions: a new session with each device of B, in some order, whether or not
\* another call started one meanwhile.
Injected(B) ==
  LET order == SetToSeq(B)
      Place(d) == CHOOSE j \in 1..Len(order) : order[j] = d
  IN  [d \in Devices |->
         IF d \in B THEN [id |-> sessions + Place(d), next |-> 0, pending |-> TRUE]
         ELSE session[d]]

\* create_participant_nodes: a device without a session is skipped.
Node(s, d) == [to |-> d, id |-> s[d].id, counter |-> s[d].next, pkmsg |-> s[d].pending]
Nodes(s, D) == {Node(s, d) : d \in {d \in D : s[d] # NoSession}}

\* Slip: only the devices that needed a session are encrypted for.
OnlyNew(t, B) == B
For(t, B) == Targets(t, list'[t])

\* Slip: the counter does not move on.
Same(s, D) == s
Moved(s, D) ==
  [d \in Devices |->
     IF d \in D /\ s[d] # NoSession THEN [s[d] EXCEPT !.next = @ + 1] ELSE s[d]]

\* Slip: a task gets the lock before those that wait.
Pushed(t) == IF line = <<>> THEN <<t>> ELSE <<Head(line), t>> \o Tail(line)
Queued(t) == Append(line, t)

\* The bundles B are there: sessions, ciphertexts and stanza, in one step of the loop.
EncryptWith(t, B) ==
  LET s == Injected(B)
      N == Nodes(s, For(t, B))
  IN  /\ sessions' = sessions + Cardinality(B)
      /\ session' = Moved(s, For(t, B))
      /\ stanza' = [stanza EXCEPT ![t] = [to |-> N, refused |-> need'[t] \ B]]
      /\ task' = [task EXCEPT ![t] = "sending"]
      /\ line' = Queued(t)

\* The device list, which an error answer leaves empty: the pre-keys of the devices
\* without a session are asked for, if any.
GotDevices(t) ==
  /\ task[t] = "asking" /\ Head(todo[t]) = "usync" /\ online
  /\ \E L \in {Listed[t], {}} : list' = [list EXCEPT ![t] = L]
  /\ need' = [need EXCEPT ![t] = {d \in Targets(t, list'[t]) : session[d] = NoSession}]
  /\ IF need'[t] = {}
     THEN /\ EncryptWith(t, {})
          /\ todo' = [todo EXCEPT ![t] = <<>>]
     ELSE /\ todo' = [todo EXCEPT ![t] = <<"bundles">>]
          /\ UNCHANGED <<task, stanza, session, sessions, line>>
  /\ UNCHANGED <<body, chain, wire, online>>

\* The bundles, of the devices that have one.
GotBundles(t) ==
  /\ task[t] = "asking" /\ Head(todo[t]) = "bundles" /\ online
  /\ UNCHANGED <<list, need>>
  /\ \E B \in SUBSET need[t] : EncryptWith(t, B)
  /\ todo' = [todo EXCEPT ![t] = <<>>]
  /\ UNCHANGED <<body, chain, wire, online>>

\* A bundle's keys make init_outgoing raise: the sessions before it are there.
BundleRefused(t) ==
  /\ task[t] = "asking" /\ Head(todo[t]) = "bundles" /\ online
  /\ \E B \in SUBSET need[t] \ {need[t]} :
       session' = Injected(B) /\ sessions' = sessions + Cardinality(B)
  /\ task' = [task EXCEPT ![t] = "raised"]
  /\ todo' = [todo EXCEPT ![t] = <<>>]
  /\ UNCHANGED <<list, need, body, stanza, chain, line, wire, online>>

\* A query raises: its timeout, a lost connection, or an answer that cannot be parsed.
Fails(t) ==
  /\ task[t] = "asking"
  /\ task' = [task EXCEPT ![t] = "raised"]
  /\ todo' = [todo EXCEPT ![t] = <<>>]
  /\ UNCHANGED <<list, need, body, stanza, session, sessions, chain, line, wire, online>>

\* Slip: a send that raises keeps the lock.
HeldOnRaise == IF online THEN Tail(line) ELSE line
Released == Tail(line)

\* _send_node: the holder of the lock writes its stanza, or the send raises.
Writes ==
  /\ line # <<>> /\ line' = Released
  /\ IF online
     THEN /\ wire' = Append(wire, Head(line))
          /\ task' = [task EXCEPT ![Head(line)] = "returned"]
     ELSE /\ task' = [task EXCEPT ![Head(line)] = "raised"]
          /\ UNCHANGED wire
  /\ UNCHANGED <<todo, list, need, body, stanza, session, sessions, chain, online>>

\* A device answered in the session: the pending pre-key is dropped.
On(t, d) == {n \in stanza[t].to : n.to = d}
DeviceAnswers(d) ==
  /\ session[d].pending
  /\ \E t \in Range(wire) : \E n \in On(t, d) : n.id = session[d].id
  /\ session' = [session EXCEPT ![d].pending = FALSE]
  /\ UNCHANGED <<todo, task, list, need, body, stanza, sessions, chain, line, wire, online>>

Lost ==
  /\ online /\ online' = FALSE
  /\ UNCHANGED <<todo, task, list, need, body, stanza, session, sessions, chain, line, wire>>

Answer(t) == Goes(t) \/ GotMetadata(t) \/ GotDevices(t) \/ GotBundles(t) \/ BundleRefused(t) \/ Fails(t)

Next ==
  \/ \E t \in Sends : Send(t) \/ Answer(t)
  \/ Writes \/ Lost
  \/ \E d \in Devices : DeviceAnswers(d)

\* Every query ends (Query), and the lock is passed on.
Spec ==
  /\ Init /\ [][Next]_vars
  /\ \A t \in Sends : WF_vars(Answer(t))
  /\ WF_vars(Writes)

-----------------------------------------------------------------------------
\* Types; who is at the lock has a stanza.
TypeOK ==
  /\ task \in [Sends -> {"idle", "asking", "sending"} \cup Ended]
  /\ \A t \in Sends : task[t] = "asking" <=> todo[t] # <<>>
  /\ {list, need} \subseteq [Sends -> SUBSET Devices]
  /\ body \in [Sends -> [skdm : Nat, skmsg : Nat]]
  /\ DOMAIN stanza = Sends
  /\ \A t \in Sends :
       /\ stanza[t].to \subseteq [to : Devices, id : Nat, counter : Nat, pkmsg : BOOLEAN]
       /\ stanza[t] # NoStanza => task[t] \in {"sending"} \cup Ended
  /\ session \in [Devices -> [id : 0..sessions, next : Nat, pending : BOOLEAN]]
  /\ sessions \in Nat /\ chain \in Nat /\ online \in BOOLEAN
  /\ line \in Seq(Sends) /\ wire \in Seq(Sends) /\ IsInjective(line) /\ IsInjective(wire)
  /\ Range(line) = {t \in Sends : task[t] = "sending"}
  /\ Range(wire) = {t \in Sends : task[t] = "returned"}

\* Whatever the calls overtake each other at, a device gets the sessions in the order
\* they were started and the messages of a session in the order of their counters: the
\* last session it opens is the one this device goes on with.
WireOrder ==
  \A i, j \in 1..Len(wire) : i < j =>
    \A d \in Devices : \A m \in On(wire[i], d), n \in On(wire[j], d) :
      \/ m.id < n.id
      \/ m.id = n.id /\ m.counter < n.counter

\* No two ciphertexts are made with one key, those of stanzas that never left included.
FreshKeys ==
  \A t, u \in Sends : t # u =>
    /\ \A m \in stanza[t].to, n \in stanza[u].to :
         m.to = n.to /\ m.id = n.id => m.counter # n.counter
    /\ body[t] # NoBody /\ body[u] # NoBody => body[t].skmsg # body[u].skmsg

\* A device that installs the distribution message of a group stanza can read the
\* message next to it, however the calls overtook each other.
GroupReadable == \A t \in Range(wire) \cap Groups : body[t].skdm <= body[t].skmsg

\* A stanza reaches every device of the list that had a session or a bundle, however
\* the sessions changed while the call waited, and nobody else.
ReachesAll ==
  \A t \in Range(wire) :
    LET to == {n.to : n \in stanza[t].to}
    IN  /\ Targets(t, list[t]) \ stanza[t].refused \subseteq to
        /\ to \subseteq list[t] \ {self}

\* Every call returns or raises.
SendsEnd == \A t \in Sends : task[t] = "asking" ~> task[t] \in Ended

\* A call that returned an id went to a device of somebody else.  No run checks it:
\* it does not hold when the bundles of all of them are missing (README).
SentToSomebody ==
  \A t \in Range(wire) : Listed[t] \ Own # {} => \E n \in stanza[t].to : n.to \notin Own

=============================================================================
