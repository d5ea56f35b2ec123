------------------------------- MODULE Query -------------------------------
(***************************************************************************)
(* The queries of one logged-in connection (socket/connection.py): query() *)
(* in user tasks, in the background task _post_login and, if the           *)
(* application awaits one in a listener, on the read loop itself; the      *)
(* read loop that resolves them, their timeouts, and close().              *)
(*                                                                         *)
(* A future is resolved or cancelled in one step and its task resumes in a *)
(* later one.  The socket is an ordered channel (NoiseTransport); the      *)
(* server answers in any order, or not at all.                             *)
(***************************************************************************)
EXTENDS Naturals, Sequences, FiniteSets, SequencesExt

CONSTANTS
  Users,      \* queries of user tasks
  PostLogin,  \* the queries of _post_login, in order
  Inline,     \* queries awaited in a listener on the read loop
  Isolated,   \* those of them whose listener is one of messages
  Messages    \* bound: incoming messages and receipts

Queries == Users \cup Range(PostLogin) \cup Inline

ASSUME QueryAssumption ==
  /\ IsInjective(PostLogin)
  /\ Users \cap Inline = {} /\ Range(PostLogin) \cap (Users \cup Inline) = {}
  /\ Isolated \subseteq Inline
  /\ {"nobody", "reading", "ended", "message", "receipt"} \cap Queries = {}
  /\ Messages \in Nat

VARIABLES
  task,     \* task[q]: where query() is, or how it ended
  fut,      \* fut[q]: its future
  late,     \* late[q]: its timer, and not a cancellation, cancelled the future
  pending,  \* Connection._pending: the ids with an entry
  lock,     \* the query that holds _write_lock while it sends, or "nobody"
  asked,    \* the queries the server has and has not answered
  down,     \* nodes on their way to the reader: answers, messages and receipts
  messages, \* messages and receipts so far
  reader,   \* the read loop: "reading", the inline query it awaits, or "ended"
  socket,   \* the socket
  closer    \* close()

vars == <<task, fut, late, pending, lock, asked, down, messages, reader, socket, closer>>
query == <<task, fut, late, pending>>
net == <<asked, down, messages>>

Ended == {"answered", "timed out", "cancelled", "raised"}
Begun(q) == task[q] # "idle"

-----------------------------------------------------------------------------
Init ==
  /\ task = [q \in Queries |-> "idle"] /\ fut = [q \in Queries |-> "none"]
  /\ late = [q \in Queries |-> FALSE]
  /\ pending = {} /\ lock = "nobody"
  /\ asked = {} /\ down = <<>> /\ messages = 0
  /\ reader = "reading" /\ socket = "open" /\ closer = "idle"

\* _post_login goes on to the next query however the last one failed, and stops when
\* it was cancelled; close() cancels it where it is.
Turn(q) ==
  /\ q \in Range(PostLogin) => closer = "idle"
  /\ \A j \in 1..Len(PostLogin) :
       q = PostLogin[j] /\ j > 1 => task[PostLogin[j - 1]] \in Ended \ {"cancelled"}

\* query(): the entry, then _send_node, which waits for the lock.
Ask(q) ==
  /\ task[q] = "idle" /\ Turn(q)
  /\ q \in Inline => reader = q
  /\ task' = [task EXCEPT ![q] = "queued"]
  /\ fut' = [fut EXCEPT ![q] = "open"]
  /\ pending' = pending \cup {q}
  /\ UNCHANGED <<late, lock, net, reader, socket, closer>>

\* Slip: the lock is not released when the send raises.
Held(q) == lock
Released(q) == IF lock = q THEN "nobody" ELSE lock

\* The lock is free: the frame is written and drains; or, on a socket that is closing
\* or gone, the send raises before the try that would remove the entry.
Written(q) ==
  /\ task[q] = "queued" /\ lock = "nobody" /\ socket = "open"
  /\ lock' = q /\ asked' = asked \cup {q}
  /\ task' = [task EXCEPT ![q] = "draining"]
  /\ UNCHANGED <<fut, late, pending, down, messages, reader, socket, closer>>

SendRaises(q) ==
  /\ \/ task[q] = "queued" /\ lock = "nobody" /\ socket # "open"
     \/ task[q] = "draining" /\ socket = "gone"
  /\ task' = [task EXCEPT ![q] = "raised"]
  /\ lock' = Released(q)
  /\ UNCHANGED <<fut, late, pending, net, reader, socket, closer>>

\* Sent: wait_for; a future that was resolved or cancelled meanwhile ends it at once.
Drained(q) ==
  /\ task[q] = "draining" /\ socket # "gone"
  /\ task' = [task EXCEPT ![q] = "waiting"]
  /\ lock' = "nobody"
  /\ UNCHANGED <<fut, late, pending, net, reader, socket, closer>>

\* The timer of wait_for.  It may beat the task of a resolved future to it.
TimerFires(q) ==
  /\ task[q] = "waiting" /\ ~late[q]
  /\ late' = [late EXCEPT ![q] = TRUE]
  /\ fut' = [fut EXCEPT ![q] = IF @ = "open" THEN "cancelled" ELSE @]
  /\ UNCHANGED <<task, pending, lock, net, reader, socket, closer>>

\* The task resumes, through the finally block.
Resume(q) ==
  /\ task[q] = "waiting" /\ fut[q] # "open"
  /\ task' = [task EXCEPT ![q] = IF late[q] THEN "timed out"
                                 ELSE IF fut[q] = "result" THEN "answered" ELSE "cancelled"]
  /\ pending' = pending \ {q}
  /\ UNCHANGED <<fut, late, lock, net, reader, socket, closer>>

\* The caller's task is cancelled: while it sends, the entry stays.
CancelCaller(q) ==
  /\ q \in Users
  /\ \/ /\ task[q] \in {"queued", "draining"}
        /\ task' = [task EXCEPT ![q] = "cancelled"]
        /\ lock' = Released(q)
        /\ UNCHANGED fut
     \/ /\ task[q] = "waiting" /\ fut[q] = "open"
        /\ fut' = [fut EXCEPT ![q] = "cancelled"]
        /\ UNCHANGED <<task, lock>>
  /\ UNCHANGED <<late, pending, net, reader, socket, closer>>

-----------------------------------------------------------------------------
\* Slip: _on_node resolves a future without looking whether it is done.
Always(q) == TRUE
NotDone(q) == fut[q] = "open"

\* _on_node with an answer: the entry goes, and its future is resolved; set_result on
\* a future that is done raises out of the read loop.
Resolve ==
  /\ reader = "reading" /\ socket # "gone"
  /\ down # <<>> /\ Head(down) \in Queries
  /\ LET q == Head(down)
         live == q \in pending
     IN  /\ pending' = pending \ {q}
         /\ fut' = [fut EXCEPT ![q] = IF live /\ @ = "open" THEN "result" ELSE @]
         /\ reader' = IF live /\ NotDone(q) /\ fut[q] # "open" THEN "ended" ELSE reader
  /\ down' = Tail(down)
  /\ UNCHANGED <<task, late, lock, asked, messages, socket, closer>>

\* _on_node with a message, or with a receipt or a notification, whose listener may await
\* a query.  The ack is a send whose exception is swallowed.
ListenersOf(node) == IF node = "message" THEN Isolated ELSE Inline \ Isolated
Incoming ==
  /\ reader = "reading" /\ socket # "gone"
  /\ down # <<>> /\ Head(down) \in {"message", "receipt"}
  /\ down' = Tail(down)
  /\ reader' \in {"reading"} \cup {q \in ListenersOf(Head(down)) : task[q] = "idle"}
  /\ UNCHANGED <<query, lock, asked, messages, socket, closer>>

\* Slip: whatever a listener raises goes out of the read loop.
Unguarded(q) == task[q] # "answered"

\* What a listener raises is swallowed with its message: handle() is guarded.  Out of the
\* loop go a CancelledError, which is no Exception, and what a listener of receipts raises,
\* which TypedEventEmitter does not isolate.
Escapes(q) == task[q] = "cancelled" \/ (q \notin Isolated /\ task[q] # "answered")

\* The listener returns or raises, and the loop reads on or ends.
ListenerDone ==
  /\ reader \in Inline /\ task[reader] \in Ended
  /\ reader' = IF Escapes(reader) THEN "ended" ELSE "reading"
  /\ UNCHANGED <<query, lock, net, socket, closer>>

LoopEnds ==
  /\ reader = "reading" /\ socket = "gone"
  /\ reader' = "ended"
  /\ UNCHANGED <<query, lock, net, socket, closer>>

-----------------------------------------------------------------------------
\* Slip: close() forgets the futures and does not cancel them.
Forgotten(q) == fut[q]
Dropped(q) == IF q \in pending /\ fut[q] = "open" THEN "cancelled" ELSE fut[q]

\* The query _post_login is in; its task is cancelled where it is suspended.
InPostLogin(q) == q \in Range(PostLogin) /\ task[q] \notin {"idle"} \cup Ended

\* close() up to the closing handshake: the background task and every pending future
\* are cancelled, the entries cleared; from now on a send raises.
CloseBegins ==
  /\ closer = "idle" /\ closer' = "closing"
  /\ fut' = [q \in Queries |->
               IF InPostLogin(q) /\ fut[q] = "open" THEN "cancelled" ELSE Dropped(q)]
  /\ task' = [q \in Queries |->
                IF InPostLogin(q) /\ task[q] # "waiting" THEN "cancelled" ELSE task[q]]
  /\ lock' = IF lock # "nobody" /\ lock \in Range(PostLogin) THEN "nobody" ELSE lock
  /\ pending' = {}
  /\ socket' = IF socket = "open" THEN "closing" ELSE socket
  /\ UNCHANGED <<late, net, reader>>

\* The closing handshake is over; the reader is cancelled, and with it an inline query.
CloseEnds ==
  /\ closer = "closing" /\ closer' = "closed"
  /\ socket' = "gone"
  /\ reader' = "ended"
  /\ IF reader \in Inline /\ task[reader] \notin {"idle"} \cup Ended
     THEN /\ task' = [task EXCEPT ![reader] = "cancelled"]
          /\ pending' = IF task[reader] = "waiting" THEN pending \ {reader} ELSE pending
          /\ lock' = IF lock = reader THEN "nobody" ELSE lock
     ELSE UNCHANGED <<task, pending, lock>>
  /\ UNCHANGED <<fut, late, net>>

\* The server and the network.
ServerAnswers(q) ==
  /\ q \in asked /\ socket # "gone"
  /\ asked' = asked \ {q} /\ down' = Append(down, q)
  /\ UNCHANGED <<query, lock, messages, reader, socket, closer>>

ServerSends ==
  /\ messages < Messages /\ socket # "gone"
  /\ messages' = messages + 1
  /\ \E node \in {"message", "receipt"} : down' = Append(down, node)
  /\ UNCHANGED <<query, lock, asked, reader, socket, closer>>

SocketLost ==
  /\ socket = "open" /\ socket' = "gone"
  /\ UNCHANGED <<query, lock, net, reader, closer>>

TaskStep(q) ==
  \/ Ask(q) \/ Written(q) \/ SendRaises(q) \/ Drained(q) \/ TimerFires(q) \/ Resume(q)

ReaderStep == Resolve \/ Incoming \/ ListenerDone \/ LoopEnds

Next ==
  \/ \E q \in Queries : TaskStep(q) \/ CancelCaller(q) \/ ServerAnswers(q)
  \/ ReaderStep \/ CloseBegins \/ CloseEnds \/ ServerSends \/ SocketLost

\* The loop runs every task that can run, the lock goes to one of those that wait for
\* it, and timers fire.  Nothing is assumed of the server.
Fairness ==
  /\ WF_vars(\E q \in Queries : Written(q) \/ SendRaises(q))
  /\ \A q \in Queries : WF_vars(Drained(q)) /\ WF_vars(Resume(q))
  /\ \A q \in Queries \ Users : WF_vars(Ask(q))
  /\ WF_vars(\E q \in Queries : TimerFires(q))
  /\ WF_vars(ReaderStep) /\ WF_vars(CloseEnds)

Spec == Init /\ [][Next]_vars /\ Fairness

-----------------------------------------------------------------------------
\* Types; who drains holds the lock, and a future is there once query() began.
TypeOK ==
  /\ task \in [Queries -> {"idle", "queued", "draining", "waiting"} \cup Ended]
  /\ fut \in [Queries -> {"none", "open", "result", "cancelled"}]
  /\ late \in [Queries -> BOOLEAN]
  /\ pending \subseteq Queries /\ asked \subseteq Queries
  /\ reader \in {"reading", "ended"} \cup Inline
  /\ socket \in {"open", "closing", "gone"} /\ closer \in {"idle", "closing", "closed"}
  /\ \A q \in Queries : Begun(q) <=> fut[q] # "none"
  /\ \A q \in Queries : lock = q <=> task[q] = "draining"

\* The read loop lives as long as its connection: no answer, late, doubled or unknown, and no
\* listener of a message that raises or times out ends it ("must never kill the read loop"),
\* only the loss of the socket, close(), and a listener of receipts that raised.
ReaderSurvives ==
  reader = "ended" =>
    \/ socket = "gone" \/ closer # "idle"
    \/ \E q \in Inline \ Isolated : task[q] \in {"timed out", "raised"}

\* Once close() has begun no query is left to sit out its timeout: those that were
\* waiting were cancelled, and those that come later cannot send.
CloseReleases ==
  closer # "idle" => \A q \in Queries : task[q] = "waiting" => fut[q] # "open"

\* "resolve any pending query() awaiting this id": an entry is of a query that is
\* still there.  No run checks it: it does not hold after a send that raised (README).
PendingIsAwaited == \A q \in pending : task[q] \notin Ended

\* Every query that began ends, whatever the server does and even on the read loop.
QueriesEnd == \A q \in Queries : Begun(q) ~> task[q] \in Ended

=============================================================================
