------------------------------ MODULE Receive ------------------------------
(***************************************************************************)
(* Incoming messages, from the socket to the application: the read loop    *)
(* hands a <message> to MessageReceiver.handle (api/messages_recv.py),     *)
(* which decrypts it, installs a sender key, starts a history download and *)
(* emits the event; the store listens first, then the application; last    *)
(* comes the ack (socket/connection.py).  Whatever was not acked the       *)
(* server sends again on the next connection.                              *)
(*                                                                         *)
(* Everything from the decryption to the application's first await is one  *)
(* step of the event loop, and a killed process may stop inside it.        *)
(***************************************************************************)
EXTENDS Naturals, Sequences, FiniteSets, SequencesExt

CONSTANTS
  Script,       \* the messages, in the order the server has them
  Durable,      \* db_path is given: SqliteStore, and not MemoryStore
  StoreMayFail, \* whether a write of the store may raise
  MaxDrops,     \* bound: lost connections
  MaxRestarts   \* bound: restarts of the process, clean or killed

Messages == 1..Len(Script)
Parts == {"contacts", "chats", "messages"}

\* A message is [kind |-> "dm"], "bare" (no <enc>), "skdm", "group" with the message
\* that brings its sender key, or "history" with the parts its blob has.
ASSUME ReceiveAssumption ==
  /\ Len(Script) \in Nat
  /\ \A m \in Messages :
       /\ Script[m].kind \in {"dm", "bare", "skdm", "group", "history"}
       /\ Script[m].kind = "group" => Script[m].key \in Messages
       /\ Script[m].kind = "history" => Script[m].parts \subseteq Parts
  /\ Durable \in BOOLEAN /\ StoreMayFail \in BOOLEAN
  /\ MaxDrops \in Nat /\ MaxRestarts \in Nat

VARIABLES
  next,     \* the next message of Script the server will have
  owed,     \* the messages the server has no ack for
  inbox,    \* nodes on their way to the read loop
  acks,     \* acks on their way to the server
  online,   \* the connection is up
  reader,   \* the read loop: idle, telling a message or acking it
  keys,     \* SignalStore: messages whose key was taken, sender keys installed
  saved,    \* the key file
  stored,   \* Client.store: live messages and parts of a history
  job,      \* job[m]: what the history task of m has still to do
  told,     \* the messages.upsert (notify) the application got, in order
  errors,   \* the messages it got a decryptError for
  complete, \* the histories it got messaging-history.set for
  drops, restarts,
  killed    \* the process was killed while it handled a message

vars == <<next, owed, inbox, acks, online, reader, keys, saved, stored, job,
          told, errors, complete, drops, restarts, killed>>
server == <<next, owed>>
faults == <<drops, restarts, killed>>

Idle == [at |-> "idle"]
NoKeys == [taken |-> {}, installed |-> {}]
Kind(m) == Script[m].kind
Outcomes == IF StoreMayFail THEN BOOLEAN ELSE {TRUE}

Init ==
  /\ next = 1 /\ owed = {} /\ inbox = <<>> /\ acks = {} /\ online = FALSE
  /\ reader = Idle /\ keys = NoKeys /\ saved = NoKeys /\ stored = {}
  /\ job = [m \in Messages |-> <<>>]
  /\ told = <<>> /\ errors = {} /\ complete = {}
  /\ drops = 0 /\ restarts = 0 /\ killed = FALSE

-----------------------------------------------------------------------------
\* The ciphers: a message key is there once, a group message also needs its sender's.
Decrypts(m) ==
  /\ m \notin keys.taken
  /\ Kind(m) = "group" => Script[m].key \in keys.installed

\* Decryption takes the key; then the distribution message, if any, is installed.
Taken(m) == [keys EXCEPT !.taken = @ \cup {m}]

\* Slip: the distribution message is not looked for.
NotInstalled(m) == Taken(m)
Installed(m) ==
  IF Kind(m) = "skdm" THEN [Taken(m) EXCEPT !.installed = @ \cup {m}] ELSE Taken(m)

Written(k) == k

\* What the history task does: download, one event per part that is there, the summary.
Present(m, part) == IF part \in Script[m].parts THEN <<part>> ELSE <<>>

\* Slip: the summary is emitted before the messages.
SummaryEarly(m) ==
  <<"download">> \o Present(m, "contacts") \o Present(m, "chats")
    \o <<"set">> \o Present(m, "messages")
Stages(m) ==
  <<"download">> \o Present(m, "contacts") \o Present(m, "chats")
    \o Present(m, "messages") \o <<"set">>

\* The store's listener: a row that is there is replaced.
Put(m, part) == stored \cup {<<m, part>>}

-----------------------------------------------------------------------------
\* Slip: the newest node is handled first.
Newest(q) == Last(q)
First(q) == Head(q)

\* No <enc>: nothing is told.
TakeBare ==
  /\ reader = Idle /\ online /\ inbox # <<>>
  /\ LET m == First(inbox)
     IN  /\ Kind(m) = "bare"
         /\ reader' = [at |-> "acking", m |-> m]
  /\ inbox' = Tail(inbox)
  /\ UNCHANGED <<server, acks, online, keys, saved, stored, job, told, errors,
                 complete, faults>>

\* Slip: a message that cannot be decrypted is dropped without a word.
Silent(m) == errors
Reported(m) == errors \cup {m}

\* The decryption raises: the application is told so.
TakeUnreadable ==
  /\ reader = Idle /\ online /\ inbox # <<>>
  /\ LET m == First(inbox)
     IN  /\ Kind(m) # "bare" /\ ~Decrypts(m)
         /\ errors' = Reported(m)
         /\ reader' = [at |-> "telling", m |-> m]
  /\ inbox' = Tail(inbox)
  /\ UNCHANGED <<server, acks, online, keys, saved, stored, job, told, complete,
                 faults>>

\* Decrypted: keys are saved as they change, a history task starts, the store gets the
\* message and then the application.  A store that raises ends the emit.
TakeReadable ==
  /\ reader = Idle /\ online /\ inbox # <<>>
  /\ LET m == First(inbox)
     IN  /\ Kind(m) # "bare" /\ Decrypts(m)
         /\ keys' = Installed(m) /\ saved' = Written(Installed(m))
         /\ job' = IF Kind(m) = "history" THEN [job EXCEPT ![m] = Stages(m)] ELSE job
         /\ \E ok \in Outcomes :
              /\ stored' = IF ok THEN Put(m, "live") ELSE stored
              /\ told' = IF ok THEN Append(told, m) ELSE told
              /\ reader' = [at |-> IF ok THEN "telling" ELSE "acking", m |-> m]
  /\ inbox' = Tail(inbox)
  /\ UNCHANGED <<server, acks, online, errors, complete, faults>>

\* The application's listener is done, or raised; _on_message goes on either way.
\* Slip: only a message that could be read is acked.
OnlyRead(m) == m \notin errors
AckAnyway(m) == TRUE
ListenerDone ==
  /\ reader.at = "telling"
  /\ reader' = IF AckAnyway(reader.m) THEN [reader EXCEPT !.at = "acking"] ELSE Idle
  /\ UNCHANGED <<server, inbox, acks, online, keys, saved, stored, job, told, errors,
                 complete, faults>>

\* _send_ack: on a connection that is gone the send raises, and that is ignored.
Ack ==
  /\ reader.at = "acking" /\ reader' = Idle
  /\ acks' = IF online THEN acks \cup {reader.m} ELSE acks
  /\ UNCHANGED <<server, inbox, online, keys, saved, stored, job, told, errors,
                 complete, faults>>

\* close() cancels the read loop where it awaits.
ReaderCancelled ==
  /\ ~online /\ reader # Idle /\ reader' = Idle
  /\ UNCHANGED <<server, inbox, acks, online, keys, saved, stored, job, told, errors,
                 complete, faults>>

-----------------------------------------------------------------------------
\* The history task goes on with its next stage, or ends: _handle_history tells the
\* application that a download failed, and a listener that raises ends the task.
Advances(m) == [job EXCEPT ![m] = Tail(@)]
Ends(m) == [job EXCEPT ![m] = <<>>]

DownloadHistory(m) ==
  /\ job[m] # <<>> /\ Head(job[m]) = "download"
  /\ job' \in {Advances(m), Ends(m)}
  /\ UNCHANGED <<stored, complete>>

EmitPart(m) ==
  /\ job[m] # <<>> /\ Head(job[m]) \in Parts
  /\ \E ok \in Outcomes :
       /\ stored' = IF ok THEN Put(m, Head(job[m])) ELSE stored
       /\ job' \in IF ok THEN {Advances(m), Ends(m)} ELSE {Ends(m)}
  /\ UNCHANGED complete

EmitSummary(m) ==
  /\ job[m] # <<>> /\ Head(job[m]) = "set"
  /\ complete' = complete \cup {m}
  /\ job' \in {Advances(m), Ends(m)}
  /\ UNCHANGED stored

\* One emit at a time; the task outlives the connection.
HistoryStep(m) ==
  /\ DownloadHistory(m) \/ EmitPart(m) \/ EmitSummary(m)
  /\ UNCHANGED <<server, inbox, acks, online, reader, keys, saved, told, errors, faults>>

-----------------------------------------------------------------------------
\* The server and the network.
ServerGets ==
  /\ next \in Messages /\ next' = next + 1
  /\ owed' = owed \cup {next}
  /\ inbox' = IF online THEN Append(inbox, next) ELSE inbox
  /\ UNCHANGED <<acks, online, reader, keys, saved, stored, job, told, errors,
                 complete, faults>>

ServerTakesAck(m) ==
  /\ m \in acks /\ acks' = acks \ {m} /\ owed' = owed \ {m}
  /\ UNCHANGED <<next, inbox, online, reader, keys, saved, stored, job, told, errors,
                 complete, faults>>

Increasing(q) == \A i, j \in 1..Len(q) : i < j => q[i] < q[j]
InOrder(S) == {q \in [1..Cardinality(S) -> S] : Range(q) = S /\ Increasing(q)}

\* A new connection, once the read loop of the last one ended: what is owed comes again,
\* in the order the server has it.
Connect ==
  /\ ~online /\ reader = Idle
  /\ online' = TRUE /\ inbox' \in InOrder(owed)
  /\ UNCHANGED <<server, acks, reader, keys, saved, stored, job, told, errors,
                 complete, faults>>

Drop ==
  /\ online /\ drops < MaxDrops /\ drops' = drops + 1
  /\ online' = FALSE /\ inbox' = <<>> /\ acks' = {}
  /\ UNCHANGED <<server, reader, keys, saved, stored, job, told, errors, complete,
                 restarts, killed>>

Reopened(s) == IF Durable THEN s ELSE {}

\* The process starts again from its files k and s.
StartsAgain(k, s) ==
  /\ restarts < MaxRestarts /\ restarts' = restarts + 1
  /\ keys' = k /\ saved' = k /\ stored' = Reopened(s)
  /\ online' = FALSE /\ inbox' = <<>> /\ acks' = {} /\ reader' = Idle
  /\ job' = [m \in Messages |-> <<>>]
  /\ UNCHANGED <<server, told, errors, complete, drops>>

Restart == StartsAgain(saved, stored) /\ UNCHANGED killed

\* Killed inside TakeReadable: after the decryption was saved, after the sender key was,
\* or after the store committed.
Killed ==
  /\ reader = Idle /\ online /\ inbox # <<>>
  /\ LET m == First(inbox)
     IN  /\ Kind(m) # "bare" /\ Decrypts(m)
         /\ \/ StartsAgain(Written(Taken(m)), stored)
            \/ StartsAgain(Written(Installed(m)), stored)
            \/ StartsAgain(Written(Installed(m)), Put(m, "live"))
  /\ killed' = TRUE

Take == TakeBare \/ TakeUnreadable \/ TakeReadable

Next ==
  \/ Take \/ ListenerDone \/ Ack \/ ReaderCancelled
  \/ \E m \in Messages : HistoryStep(m) \/ ServerTakesAck(m)
  \/ ServerGets \/ Connect \/ Drop \/ Restart \/ Killed

\* The loop runs what can run, start() connects again, listeners return.
Fairness ==
  /\ WF_vars(Take) /\ WF_vars(ListenerDone) /\ WF_vars(Ack) /\ WF_vars(Connect)
  /\ \A m \in Messages : WF_vars(ServerTakesAck(m))

Spec == Init /\ [][Next]_vars /\ Fairness

-----------------------------------------------------------------------------
\* Types; what is on its way to the read loop was not acked yet.
TypeOK ==
  /\ next \in 1..(Len(Script) + 1) /\ owed \subseteq 1..(next - 1)
  /\ inbox \in Seq(Nat) /\ Increasing(inbox)
  /\ Range(inbox) \subseteq owed /\ acks \subseteq owed \ Range(inbox)
  /\ online \in BOOLEAN
  /\ reader = Idle \/ reader \in [at : {"telling", "acking"}, m : Messages]
  /\ keys \in [taken : SUBSET Messages, installed : SUBSET Messages] /\ saved = keys
  /\ stored \subseteq Messages \X (Parts \cup {"live"})
  /\ job \in [Messages -> Seq(Parts \cup {"download", "set"})]
  /\ told \in Seq(Nat) /\ Range(told) \subseteq Messages
  /\ errors \subseteq Messages /\ complete \subseteq Messages

\* The application gets each message once, however often it is sent, and in the order the
\* server has them: over lost acks, new connections, restarts and kills.
ToldInOrder == Increasing(told)

\* An acked message never comes again, and what the application got may be asked for
\* later (docs of SqliteStore: "history and conversations survive restarts"): it is
\* archived for good, or the application was told that it cannot be read.
Archived(m) == <<m, "live">> \in stored
NothingVanishes ==
  Durable =>
    /\ \A m \in Range(told) : Archived(m)
    /\ \A m \in 1..(next - 1) \ owed : Kind(m) # "bare" => Archived(m) \/ m \in errors

\* Unless a kill fell between two writes, only a repetition cannot be decrypted: the
\* sender key is there whenever a group message is.
OnlyRepeatsFail == ~killed => errors \subseteq Range(told)

\* messaging-history.set comes when the store has all of it.
HistoryComplete ==
  Durable => \A m \in complete : \A part \in Script[m].parts : <<m, part>> \in stored

\* Every message is acked in the end, those that cannot be read too: none is sent
\* again forever.
AllAcked == \A m \in Messages : m < next ~> m \notin owed

=============================================================================
