------------------------------- MODULE Client -------------------------------
(***************************************************************************)
(* The life of a client: the supervisor of client.py over the connections  *)
(* of socket/connection.py, as asyncio tasks that interleave where the     *)
(* code awaits.                                                            *)
(*                                                                         *)
(* The tasks: start() (the supervisor), one stop(), and for each           *)
(* connection its reader and its keepalive.  A step is what a task does    *)
(* between two awaits.  task.cancel() takes effect at the next await of    *)
(* the task: a reader with cancelled set does nothing but raise there.     *)
(* Environment: the network drops sockets, the server sends frames that    *)
(* fit the phase of the login.  Queries are in module Query.               *)
(***************************************************************************)
EXTENDS Naturals, FiniteSets

CONSTANTS
  MaxConns,   \* bound: connections of any scenario
  Scenarios   \* the scenarios of a run: see Scenario

FaultKinds == {
  "handler_raises",        \* handling a frame raises out of the read loop
  "handshake_rejected",    \* the server's hello does not verify
  "stop_while_connecting"} \* stop() before the socket is there

\* conns bounds the connections, the last of which is not made to fail; faults says
\* what may happen besides drops and errors of the server.
Scenario == [conns: 1..MaxConns, faults: SUBSET FaultKinds]

ASSUME ClientAssumption ==
  /\ MaxConns \in Nat \ {0}
  /\ Scenarios \subseteq Scenario

VARIABLES
  scenario,   \* the scenario of this behaviour, which never changes
  main,       \* where start() is
  running,    \* Client._running
  stopper,    \* where stop() is
  n,          \* Client._conn: the number of the last connection
  me,         \* creds.me is set
  known,      \* the server has our reply to its pairing
  new_login,  \* Client._pending_new_login
  ws,         \* ws[c]: the socket of connection c
  state,      \* state[c]: Connection.state
  closed,     \* closed[c]: the event _closed
  reason,     \* reason[c]: close_reason
  reader,     \* reader[c]: where _read_loop is
  cancelled,  \* cancelled[c]: the reader was cancelled and has not raised yet
  keepalive,  \* keepalive[c]: where _keepalive_loop is
  phase,      \* phase[c]: what the server does next on connection c
  told,       \* the last "connection" the application was told (history)
  paired,     \* a pairing since the last login (history)
  flagged     \* is_new_login as it should be and as it was told (history)

conn == <<ws, state, closed, reason, reader, cancelled, keepalive, phase>>
creds == <<me, known, new_login>>
history == <<told, paired, flagged>>
vars == <<scenario, main, running, stopper, n, creds, conn, history>>

Conns == 1..MaxConns

\* close_reason: none yet, and the codes the code tells apart.
Reasons == {"none", "closed", "lost", "restart", "logged_out", "other"}
Permanent == {"logged_out"}

-----------------------------------------------------------------------------
\* Pieces of Connection.close(), as new values of one connection's state.

Default(r) == IF r = "none" THEN "closed" ELSE r

\* Slip: close() leaves the keepalive alone.
LeftAlone(k) == k

\* task.cancel() of the keepalive: it swallows the CancelledError and ends.
EndKeepalive(k) == IF k = "none" THEN "none" ELSE "ended"

\* task.cancel() of a reader that exists and has not ended.
Cancellable(c) == reader[c] \notin {"none", "ended"}

\* Slip: close() does not wait for the closing handshake.
NotAwaited(w) == w

\* A transport that is still connecting has no socket to close.
AfterClose(w) == IF w = "opening" THEN w ELSE "gone"

\* The end of close(), after the transport was closed.
FinishClose(c) ==
  /\ ws' = [ws EXCEPT ![c] = AfterClose(@)]
  /\ cancelled' = [cancelled EXCEPT ![c] = Cancellable(c)]
  /\ state' = [state EXCEPT ![c] = "closed"]
  /\ closed' = [closed EXCEPT ![c] = TRUE]

\* close() has a socket to close and awaits the closing handshake.
HasSocket(c) == ws[c] \in {"open", "lost", "closing"}

\* Slip: no "close" for a connection that is closed already.
ToldOnce(c) == IF closed[c] THEN told ELSE "close"
Told(c) == "close"

\* The finally block of the read loop, up to the first await of a listener; cut says
\* that a cancellation is still due and hits there.
ReadLoopEnds(c, cut) ==
  /\ reason' = [reason EXCEPT ![c] = Default(@)]
  /\ state' = [state EXCEPT ![c] = "closed"]
  /\ closed' = [closed EXCEPT ![c] = TRUE]
  /\ reader' = [reader EXCEPT ![c] = IF cut THEN "ended" ELSE "emitting"]
  /\ cancelled' = [cancelled EXCEPT ![c] = FALSE]
  /\ told' = Told(c)

-----------------------------------------------------------------------------
Init ==
  /\ scenario \in Scenarios
  /\ main = "top" /\ running = FALSE /\ stopper = "idle" /\ n = 0
  /\ me \in BOOLEAN /\ known = me /\ new_login = FALSE
  /\ ws = [c \in Conns |-> "none"]
  /\ state = [c \in Conns |-> "closed"]
  /\ closed = [c \in Conns |-> FALSE]
  /\ reason = [c \in Conns |-> "none"]
  /\ reader = [c \in Conns |-> "none"]
  /\ cancelled = [c \in Conns |-> FALSE]
  /\ keepalive = [c \in Conns |-> "none"]
  /\ phase = [c \in Conns |-> "none"]
  /\ told = "none" /\ paired = FALSE /\ flagged = {}

-----------------------------------------------------------------------------
\* start(): the supervisor.

\* Slip: while True.
Forever == TRUE
GoesOn == running

\* A new Connection, whose connect() awaits the socket.
Connects ==
  /\ n < scenario.conns
  /\ n' = n + 1
  /\ main' = "connecting"
  /\ ws' = [ws EXCEPT ![n + 1] = "opening"]
  /\ state' = [state EXCEPT ![n + 1] = "connecting"]
  /\ told' = "connecting"
  /\ UNCHANGED <<closed, reason, reader, cancelled, keepalive, phase>>

\* The test of the loop: another connection, or the end.
Loop ==
  /\ UNCHANGED running
  /\ IF GoesOn THEN Connects ELSE main' = "ended" /\ UNCHANGED <<n, conn, told>>

\* The first step of the task sets _running and, without an await, makes a connection:
\* a stop() that came before has left no trace.
Start ==
  /\ main = "top" /\ running' = TRUE /\ Connects
  /\ UNCHANGED <<scenario, stopper, creds, paired, flagged>>

\* transport.connect() returns; the handshake begins.  A cancelled reader has raised by
\* then: that takes one turn of the event loop, and a socket many.
Opened ==
  /\ main = "connecting" /\ \A c \in Conns : ~cancelled[c]
  /\ ws' = [ws EXCEPT ![n] = "open"]
  /\ main' = "handshaking"
  /\ UNCHANGED <<scenario, running, stopper, n, creds, state, closed, reason, reader,
                 cancelled, keepalive, phase, history>>

\* The handshake is done: connect() creates the reader and returns.
Connected ==
  /\ main = "handshaking" /\ ws[n] = "open"
  /\ main' = "waiting"
  /\ reader' = [reader EXCEPT ![n] = "reading"]
  /\ phase' = [phase EXCEPT ![n] =
                 IF ~me THEN "pair" ELSE IF known THEN "login" ELSE "refuse"]
  /\ UNCHANGED <<scenario, running, stopper, n, creds, ws, state, closed, reason,
                 cancelled, keepalive, history>>

\* connect() raises: no socket, a socket that went away, or a hello that does not
\* verify, which leaves the socket open.
ConnectFails ==
  /\ \/ main = "connecting" /\ n < scenario.conns /\ ws' = [ws EXCEPT ![n] = "none"]
     \/ main = "handshaking" /\ ws[n] # "open" /\ UNCHANGED ws
     \/ /\ main = "handshaking" /\ ws[n] = "open" /\ n < scenario.conns
        /\ "handshake_rejected" \in scenario.faults
        /\ UNCHANGED ws
  /\ told' = "close"
  /\ main' = IF running THEN "sleeping" ELSE "ended"
  /\ UNCHANGED <<scenario, running, stopper, n, creds, state, closed, reason, reader,
                 cancelled, keepalive, phase, paired, flagged>>

\* Slip: the supervisor waits for a reason instead of the event.
HasReason(c) == reason[c] # "none"
IsClosed(c) == closed[c]

\* wait_closed() returns: restart at once, give up, or back off.
WaitReturns ==
  /\ main = "waiting" /\ IsClosed(n)
  /\ UNCHANGED <<scenario, stopper, creds, paired, flagged>>
  /\ \/ /\ running /\ reason[n] = "restart"
        /\ Loop
     \/ /\ running /\ reason[n] \in Permanent
        /\ main' = "ended" /\ running' = FALSE /\ told' = "close"
        /\ UNCHANGED <<n, conn>>
     \/ /\ running /\ reason[n] \notin Permanent \cup {"restart"}
        /\ main' = "sleeping"
        /\ UNCHANGED <<n, running, conn, told>>
     \/ /\ ~running
        /\ main' = "ended"
        /\ UNCHANGED <<n, running, conn, told>>

\* The backoff is over.
Wake ==
  /\ main = "sleeping" /\ Loop
  /\ UNCHANGED <<scenario, stopper, creds, paired, flagged>>

-----------------------------------------------------------------------------
\* stop(): Connection.close() from a task of its own.  One that comes before the first step
\* of start() finds no connection, clears a flag that is not set yet, and returns
\* ("too_soon"); it may be called again.

Stop ==
  /\ stopper \in {"idle", "too_soon"} /\ main # "ended"
  /\ main = "connecting" => "stop_while_connecting" \in scenario.faults
  /\ running' = FALSE
  /\ IF n = 0
     THEN stopper' = "too_soon" /\ UNCHANGED conn
     ELSE /\ reason' = [reason EXCEPT ![n] = Default(@)]
          /\ keepalive' = [keepalive EXCEPT ![n] = EndKeepalive(@)]
          /\ IF HasSocket(n)
             THEN /\ ws' = [ws EXCEPT ![n] = "closing"]
                  /\ stopper' = "closing"
                  /\ UNCHANGED <<cancelled, state, closed>>
             ELSE FinishClose(n) /\ stopper' = "done"
          /\ UNCHANGED <<reader, phase>>
  /\ UNCHANGED <<scenario, main, n, creds, history>>

StopFinishes ==
  /\ stopper = "closing"
  /\ FinishClose(n)
  /\ stopper' = "done"
  /\ UNCHANGED <<scenario, main, running, n, creds, reason, reader, keepalive, phase, history>>

-----------------------------------------------------------------------------
\* The read loop of connection c.

Reading(c) == reader[c] = "reading" /\ ~cancelled[c]
Suspended(c, at) == reader[c] = at /\ ~cancelled[c]
GoTo(c, at) == reader' = [reader EXCEPT ![c] = at]

supervisor == <<scenario, main, running, stopper, n>>

\* A frame whose handling awaits something and changes nothing here.
Frame(c) ==
  /\ Reading(c) /\ ws[c] = "open"
  /\ GoTo(c, "handling")
  /\ UNCHANGED <<supervisor, creds, ws, state, closed, reason, cancelled, keepalive,
                 phase, history>>

Handled(c) ==
  /\ Suspended(c, "handling")
  /\ GoTo(c, "reading")
  /\ UNCHANGED <<supervisor, creds, ws, state, closed, reason, cancelled, keepalive,
                 phase, history>>

\* An exception in _on_node ends the loop and leaves the socket to itself.
HandlerRaises(c) ==
  /\ "handler_raises" \in scenario.faults /\ c < scenario.conns
  /\ Suspended(c, "handling")
  /\ ReadLoopEnds(c, FALSE)
  /\ UNCHANGED <<supervisor, creds, ws, keepalive, phase, paired, flagged>>

\* _on_pair_success up to the creds.update listeners; without a socket the reply
\* raises after creds.me was set.
PairSuccess(c) ==
  /\ Reading(c) /\ HasSocket(c) /\ phase[c] = "pair" /\ c < scenario.conns
  /\ me' = TRUE
  /\ phase' = [phase EXCEPT ![c] = "paired"]
  /\ IF ws[c] = "open"
     THEN /\ known' = TRUE /\ paired' = TRUE
          /\ GoTo(c, "pairing")
          /\ UNCHANGED <<state, closed, reason, cancelled, told>>
     ELSE ReadLoopEnds(c, FALSE) /\ UNCHANGED <<known, paired>>
  /\ UNCHANGED <<supervisor, new_login, ws, keepalive, flagged>>

\* The pairing.success listener of the Client.
PairFinishes(c) ==
  /\ Suspended(c, "pairing")
  /\ new_login' = TRUE
  /\ GoTo(c, "reading")
  /\ UNCHANGED <<supervisor, me, known, ws, state, closed, reason, cancelled, keepalive,
                 phase, history>>

\* _on_success up to the creds.update listeners.
Success(c) ==
  /\ Reading(c) /\ HasSocket(c) /\ phase[c] = "login"
  /\ phase' = [phase EXCEPT ![c] = "online"]
  /\ state' = [state EXCEPT ![c] = "open"]
  /\ keepalive' = [keepalive EXCEPT ![c] = "asleep"]
  /\ GoTo(c, "greeting")
  /\ UNCHANGED <<supervisor, creds, ws, closed, reason, cancelled, history>>

\* Slip: the flag is not reset.
StaysNew == new_login
AfterLogin == FALSE

\* The "open" update through Client._on_conn_update.
Greeted(c) ==
  /\ Suspended(c, "greeting")
  /\ told' = "open"
  /\ flagged' = flagged \cup {<<paired, new_login>>}
  /\ new_login' = AfterLogin /\ paired' = FALSE
  /\ GoTo(c, "handling")
  /\ UNCHANGED <<supervisor, me, known, ws, state, closed, reason, cancelled, keepalive,
                 phase>>

\* The codes the server may send in each phase of the login.
Codes(c) ==
  IF phase[c] = "paired" THEN {"restart"}
  ELSE IF phase[c] = "refuse" THEN {"logged_out"}
  ELSE IF phase[c] \in {"login", "online"} THEN {"logged_out", "other"}
  ELSE {}

\* _fail: close() from the read loop itself, up to the closing handshake.
Fail(c, r) ==
  /\ Reading(c) /\ HasSocket(c) /\ r \in Codes(c)
  /\ r # "logged_out" => c < scenario.conns
  /\ reason' = [reason EXCEPT ![c] = r]
  /\ keepalive' = [keepalive EXCEPT ![c] = EndKeepalive(@)]
  /\ ws' = [ws EXCEPT ![c] = "closing"]
  /\ phase' = [phase EXCEPT ![c] = "over"]
  /\ GoTo(c, "failing")
  /\ UNCHANGED <<supervisor, creds, state, closed, cancelled, history>>

\* close() cancels the task it runs in: the loop raises at its next await, which is
\* in messages() or, if the socket has nothing left, in a listener of the finally block.
FailFinishes(c) ==
  /\ Suspended(c, "failing")
  /\ ws' = [ws EXCEPT ![c] = AfterClose(@)]
  /\ \/ /\ GoTo(c, "reading")
        /\ cancelled' = [cancelled EXCEPT ![c] = TRUE]
        /\ state' = [state EXCEPT ![c] = "closed"]
        /\ closed' = [closed EXCEPT ![c] = TRUE]
        /\ UNCHANGED <<reason, told>>
     \/ ReadLoopEnds(c, TRUE)
  /\ UNCHANGED <<supervisor, creds, keepalive, phase, paired, flagged>>

\* Slip: messages() ends only on a socket this side closed.
ClosedHere(c) == ws[c] \in {"closing", "gone"}
Exhausted(c) == ws[c] \in {"lost", "closing", "gone"}

\* messages() is exhausted.
StreamEnds(c) ==
  /\ Reading(c) /\ Exhausted(c)
  /\ ReadLoopEnds(c, FALSE)
  /\ UNCHANGED <<supervisor, creds, ws, keepalive, phase, paired, flagged>>

\* A cancelled reader raises where it awaits.
ReaderCancelled(c) ==
  /\ cancelled[c]
  /\ IF reader[c] = "emitting"
     THEN /\ GoTo(c, "ended")
          /\ cancelled' = [cancelled EXCEPT ![c] = FALSE]
          /\ UNCHANGED <<state, closed, reason, told>>
     ELSE ReadLoopEnds(c, FALSE)
  /\ UNCHANGED <<supervisor, creds, ws, keepalive, phase, paired, flagged>>

EmitDone(c) ==
  /\ Suspended(c, "emitting")
  /\ GoTo(c, "ended")
  /\ UNCHANGED <<supervisor, creds, ws, state, closed, reason, cancelled, keepalive,
                 phase, history>>

-----------------------------------------------------------------------------
\* The keepalive loop of connection c.

StillOpen(c) == state[c] = "open"

KeepaliveWakes(c) ==
  /\ keepalive[c] = "asleep"
  /\ keepalive' = [keepalive EXCEPT ![c] = IF StillOpen(c) THEN "sending" ELSE "ended"]
  /\ UNCHANGED <<supervisor, creds, ws, state, closed, reason, reader, cancelled, phase,
                 history>>

PingSent(c) ==
  /\ keepalive[c] = "sending" /\ ws[c] = "open"
  /\ keepalive' = [keepalive EXCEPT ![c] = "asleep"]
  /\ UNCHANGED <<supervisor, creds, ws, state, closed, reason, reader, cancelled, phase,
                 history>>

\* The ping raises: close() cancels the keepalive itself, so it gets no further than
\* the first await of the closing handshake, if there is one.
PingFails(c) ==
  /\ keepalive[c] = "sending" /\ ws[c] # "open"
  /\ reason' = [reason EXCEPT ![c] = "lost"]
  /\ keepalive' = [keepalive EXCEPT ![c] = "ended"]
  /\ \/ FinishClose(c)
     \/ HasSocket(c) /\ UNCHANGED <<ws, cancelled, state, closed>>
  /\ UNCHANGED <<supervisor, creds, reader, phase, history>>

-----------------------------------------------------------------------------
\* The network.
Drop(c) ==
  /\ ws[c] = "open" /\ c < scenario.conns
  /\ ws' = [ws EXCEPT ![c] = "lost"]
  /\ UNCHANGED <<supervisor, creds, state, closed, reason, reader, cancelled, keepalive,
                 phase, history>>

ReaderStep(c) ==
  \/ Handled(c) \/ PairFinishes(c) \/ Greeted(c) \/ FailFinishes(c)
  \/ StreamEnds(c) \/ ReaderCancelled(c) \/ EmitDone(c)

KeepaliveStep(c) == KeepaliveWakes(c) \/ PingSent(c) \/ PingFails(c)

Next ==
  \/ Start \/ Opened \/ Connected \/ ConnectFails \/ WaitReturns \/ Wake
  \/ Stop \/ StopFinishes
  \/ \E c \in Conns :
       \/ Frame(c) \/ HandlerRaises(c) \/ PairSuccess(c) \/ Success(c)
       \/ \E r \in Reasons : Fail(c, r)
       \/ ReaderStep(c) \/ KeepaliveStep(c) \/ Drop(c)

\* The event loop runs every task that can run; listeners return; a socket opens or
\* fails within open_timeout, and closes within the library's close timeout.
Fairness ==
  /\ WF_vars(Start) /\ WF_vars(Opened \/ ConnectFails) /\ WF_vars(WaitReturns)
  /\ WF_vars(Wake) /\ WF_vars(StopFinishes)
  /\ \A c \in Conns : WF_vars(ReaderStep(c)) /\ WF_vars(KeepaliveStep(c))

Spec == Init /\ [][Next]_vars /\ Fairness

-----------------------------------------------------------------------------
\* Types; a connection not made yet has no part, and a cancellation is due only to a
\* reader that can still raise.
TypeOK ==
  /\ scenario \in Scenarios
  /\ main \in {"top", "connecting", "handshaking", "waiting", "sleeping", "ended"}
  /\ stopper \in {"idle", "too_soon", "closing", "done"}
  /\ {running, me, known, new_login, paired} \subseteq BOOLEAN
  /\ n \in 0..MaxConns
  /\ ws \in [Conns -> {"none", "opening", "open", "lost", "closing", "gone"}]
  /\ state \in [Conns -> {"closed", "connecting", "open"}]
  /\ closed \in [Conns -> BOOLEAN] /\ reason \in [Conns -> Reasons]
  /\ reader \in [Conns -> {"none", "reading", "handling", "pairing", "greeting", "failing",
                           "emitting", "ended"}]
  /\ cancelled \in [Conns -> BOOLEAN]
  /\ keepalive \in [Conns -> {"none", "asleep", "sending", "ended"}]
  /\ phase \in [Conns -> {"none", "pair", "paired", "login", "refuse", "online", "over"}]
  /\ told \in {"none", "connecting", "open", "close"}
  /\ flagged \subseteq BOOLEAN \X BOOLEAN
  /\ \A c \in Conns :
       /\ c > n => ws[c] = "none" /\ reader[c] = "none" /\ keepalive[c] = "none"
       /\ cancelled[c] => reader[c] \notin {"none", "ended"}

\* A permanent logout is final: whatever the keepalive and stop() do meanwhile, the
\* reason stays and no other connection is made.
LogoutIsFinal ==
  [][\A c \in Conns :
       reason[c] = "logged_out" => reason'[c] = "logged_out" /\ n' = n]_vars

\* The login that follows a pairing, and no other, is told as a new login
\* ("a fresh pairing on one connection becomes a new login on the next").
NewLoginExact == \A f \in flagged : f[1] = f[2]

\* "Connection handles a single socket, Client supervises a sequence of connections":
\* an older connection has no socket, except one whose handshake was rejected or whose
\* read loop ended in a handler that raised; and nobody reads such a socket any more.
Live(c) == ws[c] \in {"open", "closing"}
OneSocket ==
  \A c \in 1..(n - 1) : Live(c) =>
    \/ "handshake_rejected" \in scenario.faults /\ reader[c] = "none"
    \/ "handler_raises" \in scenario.faults /\ reader[c] \in {"emitting", "ended"}

\* stop() closes the active connection: once stop() and start() have returned, the
\* socket of the last connection is not open (docstring of Client.stop).
StopLeavesNothing ==
  stopper = "done" /\ main = "ended" => \A c \in Conns : c = n => ~Live(c)

\* A socket that goes away is noticed, and the client connects again or ends.
DropsRecovered ==
  \A c \in Conns :
    ws[c] = "lost" /\ reader[c] # "none" ~> n > c \/ main \in {"connecting", "ended"}

\* stop() ends start() ("stop the supervisor"), wherever that awaits, if start() has begun:
\* one that was too soon is lost, and the client connects and goes on.
StopEnds == stopper \in {"closing", "done"} ~> main = "ended"

=============================================================================
