--------------------------- MODULE NoiseTransport ---------------------------
(***************************************************************************)
(* A socket with its Noise state: transport/noise.py under _handshake and  *)
(* _send_node of socket/connection.py, over transport/websocket.py.        *)
(*                                                                         *)
(* Many tasks send; a task may be cancelled wherever it awaits.  The       *)
(* websockets library holds a mutex of its own while it writes and drains, *)
(* and the closing handshake takes it too.  Outbound and inbound are byte  *)
(* streams: a frame is a length of three digits and a body, and a body is  *)
(* encrypted with the counter of its direction.                            *)
(*                                                                         *)
(* A body is a sequence of equal tokens, as long as the body is, which say *)
(* the key, the counter, the node and the length; it decrypts only whole   *)
(* and with the key and counter it was made with.  Handshake bodies are    *)
(* not encrypted as a whole: they have the key <<>>.  What they hold is    *)
(* module NoiseHandshake.                                                  *)
(***************************************************************************)
EXTENDS Naturals, Sequences, SequencesExt

Noise == INSTANCE NoiseHandshake

CONSTANTS
  Senders,   \* the tasks that call _send_node
  Base,      \* what one byte of the length can hold: 256
  Sizes,     \* the lengths a node may have once it is encrypted
  MaxSends,  \* bound: calls of _send_node
  MaxFrames  \* bound: frames the server sends

ASSUME NoiseTransportAssumption ==
  /\ Base \in Nat \ {0, 1}
  /\ Sizes \subseteq Nat \ {0}
  /\ {MaxSends, MaxFrames} \subseteq Nat
  /\ {"nobody", "closer"} \cap Senders = {}

VARIABLES
  phase,          \* where _handshake is
  keys,           \* the keys of TransportState, once it is there
  intro_sent,     \* NoiseHandler._sent_intro
  write_counter,  \* TransportState._write_counter
  read_counter,   \* TransportState._read_counter
  inbuf,          \* NoiseHandler._in
  task,           \* task[s]: where the call of s is
  frame,          \* frame[s]: the node s sends, then its frame
  lock,           \* the holder of Connection._write_lock, or "nobody"
  lock_queue,     \* who waits for it
  mutex,          \* the holder of the library's mutex, or "nobody"
  closing,        \* the closing handshake has begun
  calls,          \* calls of _send_node made
  reader,         \* where the reader is
  server,         \* the server: what it has read, what it has sent
  up, down,       \* the two byte streams, what is under way
  written, heard, \* nodes written, nodes the server decrypted (history)
  spoken, read    \* nodes the server sent, nodes the reader yielded (history)

sending == <<task, frame, lock, lock_queue, mutex, calls>>
outbound == <<sending, keys, intro_sent, write_counter, closing, up, written>>
inbound == <<inbuf, read_counter, reader, read>>
far == <<server, down, heard, spoken>>
vars == <<phase, outbound, inbound, far>>

-----------------------------------------------------------------------------
\* Framing.

Prefix(n) == <<(n \div (Base * Base)) % Base, (n \div Base) % Base, n % Base>>
Size(buf) == buf[1] * Base * Base + buf[2] * Base + buf[3]
Complete(buf) == Len(buf) >= 3 /\ Len(buf) >= Size(buf) + 3
FirstFrame(buf) == SubSeq(buf, 4, Size(buf) + 3)
AfterFirst(buf) == SubSeq(buf, Size(buf) + 4, Len(buf))

Body(key, counter, node, n) ==
  [j \in 1..n |-> [key |-> key, counter |-> counter, node |-> node, size |-> n]]
Decrypts(body, key, counter) ==
  /\ body # <<>> /\ body[1].size = Len(body)
  /\ body[1].key = key /\ body[1].counter = counter

\* A handshake message: its bytes as they are.
Raw(message, n) == Body(<<>>, 0, message, n)

\* The routing header before the very first frame; one digit stands for it.
Intro == IF intro_sent THEN <<>> ELSE <<0>>

\* encode_frame
Encoded(body) == Intro \o Prefix(Len(body)) \o body

-----------------------------------------------------------------------------
Init ==
  /\ phase = "hello" /\ keys = [write |-> <<>>, read |-> <<>>] /\ intro_sent = FALSE /\ write_counter = 0 /\ read_counter = 0
  /\ inbuf = <<>>
  /\ task = [s \in Senders |-> "idle"] /\ frame = [s \in Senders |-> <<>>]
  /\ lock = "nobody" /\ lock_queue = <<>> /\ mutex = "nobody"
  /\ closing = FALSE /\ calls = 0 /\ reader = "none"
  /\ \E certificate \in {"certificate", "forged"} :
       server = [in |-> <<>>, state |-> "intro", counter |-> 0, dropped |-> FALSE,
                 certificate |-> certificate, noise |-> <<>>, keys |-> <<>>]
  /\ up = <<>> /\ down = <<>>
  /\ written = <<>> /\ heard = <<>> /\ spoken = <<>> /\ read = <<>>

\* _handshake: the client hello with the ephemeral key "e".
Hello ==
  /\ phase = "hello" /\ phase' = "answer"
  /\ up' = up \o Encoded(Raw("e", 1))
  /\ intro_sent' = TRUE
  /\ UNCHANGED <<sending, keys, write_counter, closing, written, inbound, far>>

\* The server's hello, whose frame may come in pieces, is processed and the client finish
\* sent; one that does not open or verify raises out of connect().
Answer(k) ==
  LET buf == inbuf \o SubSeq(down, 1, k)
      hello == FirstFrame(buf)[1].node
      answer == Noise!Answered("e", "noise_key", hello)
  IN  /\ phase = "answer" /\ k \in 1..Len(down)
      /\ down' = SubSeq(down, k + 1, Len(down))
      /\ inbuf' = IF Complete(buf) THEN AfterFirst(buf) ELSE buf
      /\ IF ~Complete(buf) THEN UNCHANGED <<phase, keys, up>>
         ELSE IF Noise!Accepted("e", hello)
         THEN /\ phase' = "finish" /\ keys' = answer.keys
              /\ up' = up \o Encoded(Raw(answer.finish, 1))
         ELSE phase' = "failed" /\ UNCHANGED <<keys, up>>
      /\ UNCHANGED <<sending, intro_sent, write_counter, closing, written, read_counter,
                     reader, read, server, heard, spoken>>

\* The finish is sent: finish_init, then connect() makes the reader.
Finish ==
  /\ phase = "finish" /\ phase' = "transport"
  /\ write_counter' = 0 /\ read_counter' = 0
  /\ reader' = "waiting"
  /\ UNCHANGED <<sending, keys, intro_sent, closing, up, written, inbuf, read, far>>

-----------------------------------------------------------------------------
\* _send_node of task s, from await to await.

\* Slip: no lock.
NoLock(s) == TRUE
MayEnter(s) == lock = "nobody" /\ (lock_queue = <<>> \/ Head(lock_queue) = s)

Without(q, s) == SelectSeq(q, LAMBDA x : x # s)

\* The call; without the lock it waits its turn.
Call(s) ==
  /\ phase = "transport" /\ task[s] = "idle" /\ calls < MaxSends
  /\ calls' = calls + 1
  /\ task' = [task EXCEPT ![s] = "queued"]
  /\ frame' = [frame EXCEPT ![s] = <<calls + 1>>]
  /\ lock_queue' = Append(lock_queue, s)
  /\ UNCHANGED <<phase, lock, mutex, keys, intro_sent, write_counter, closing,
                 up, written, inbound, far>>

\* Slip: the counter stays.
SameCounter(c) == c
NextCounter(c) == c + 1

\* The lock is there: the frame is encrypted, and ws.send wants the library's mutex.
Encode(s) ==
  /\ task[s] = "queued" /\ MayEnter(s)
  /\ lock' = s /\ lock_queue' = Without(lock_queue, s)
  /\ \E n \in Sizes :
       frame' = [frame EXCEPT ![s] = Encoded(Body(keys.write, write_counter, @[1], n))]
  /\ write_counter' = NextCounter(write_counter)
  /\ task' = [task EXCEPT ![s] = "sending"]
  /\ UNCHANGED <<phase, mutex, calls, keys, intro_sent, closing, up, written, inbound, far>>

\* The frame is written in one piece and the buffer drains; if it need not, the task
\* goes on at once, so a cancellation cannot hit between Encode and Write of a task
\* that finds the mutex free.
Write(s) ==
  /\ task[s] = "sending" /\ mutex = "nobody" /\ ~closing
  /\ mutex' = s
  /\ up' = up \o frame[s]
  /\ written' = Append(written, Last(frame[s]).node)
  /\ task' = [task EXCEPT ![s] = "draining"]
  /\ UNCHANGED <<phase, frame, lock, lock_queue, calls, keys, intro_sent, write_counter,
                 closing, inbound, far>>

\* The call leaves the two locks and returns or raises.
Leave(s) ==
  /\ task' = [task EXCEPT ![s] = "idle"]
  /\ frame' = [frame EXCEPT ![s] = <<>>]
  /\ lock' = IF lock = s THEN "nobody" ELSE lock
  /\ lock_queue' = Without(lock_queue, s)
  /\ mutex' = IF mutex = s THEN "nobody" ELSE mutex
  /\ UNCHANGED <<phase, calls, keys, intro_sent, write_counter, closing, up, written,
                 inbound, far>>

Drained(s) == task[s] = "draining" /\ Leave(s)

SendRaises(s) == task[s] = "sending" /\ mutex = "nobody" /\ closing /\ Leave(s)

\* A task is cancelled where it is suspended.
Cancel(s) ==
  /\ \/ task[s] \in {"queued", "draining"}
     \/ task[s] = "sending" /\ mutex # "nobody"
  /\ Leave(s)

\* ws.close() holds the mutex for its close frame; no data is written after it.
Close ==
  /\ phase = "transport" /\ ~closing /\ mutex = "nobody"
  /\ closing' = TRUE /\ mutex' = "closer"
  /\ UNCHANGED <<phase, task, frame, lock, lock_queue, calls, keys, intro_sent, write_counter,
                 up, written, inbound, far>>

CloseDrained ==
  /\ mutex = "closer" /\ mutex' = "nobody"
  /\ UNCHANGED <<phase, task, frame, lock, lock_queue, calls, keys, intro_sent, write_counter,
                 closing, up, written, inbound, far>>

-----------------------------------------------------------------------------
\* The read loop.

\* One websocket message: any piece of the stream.
Receive(k) ==
  /\ reader = "waiting" /\ k \in 1..Len(down)
  /\ inbuf' = inbuf \o SubSeq(down, 1, k)
  /\ down' = SubSeq(down, k + 1, Len(down))
  /\ reader' = "decoding"
  /\ UNCHANGED <<phase, outbound, read_counter, read, server, heard, spoken>>

\* Slip: one frame of each message.
OneFrame == "waiting"
AfterYield == "decoding"

\* The next frame of decode_frames, decrypted; the node is handled before the next
\* one, and a frame that does not decrypt ends the loop.
Yield ==
  /\ reader = "decoding" /\ Complete(inbuf)
  /\ inbuf' = AfterFirst(inbuf)
  /\ read_counter' = read_counter + 1
  /\ IF Decrypts(FirstFrame(inbuf), keys.read, read_counter)
     THEN /\ read' = Append(read, FirstFrame(inbuf)[1].node)
          /\ reader' = AfterYield
     ELSE reader' = "ended" /\ UNCHANGED read
  /\ UNCHANGED <<phase, outbound, far>>

Exhausted ==
  /\ reader = "decoding" /\ ~Complete(inbuf)
  /\ reader' = "waiting"
  /\ UNCHANGED <<phase, outbound, inbuf, read_counter, read, far>>

-----------------------------------------------------------------------------
\* The server: it drops the connection at a frame it cannot decrypt.

ServerHears(k) ==
  /\ k \in 1..Len(up)
  /\ server' = [server EXCEPT !.in = @ \o SubSeq(up, 1, k)]
  /\ up' = SubSeq(up, k + 1, Len(up))
  /\ UNCHANGED <<phase, sending, keys, intro_sent, write_counter, closing, written, inbound,
                 down, heard, spoken>>

\* The routing header comes first, and once.
ServerIntro ==
  /\ server.state = "intro" /\ server.in # <<>>
  /\ server' = [server EXCEPT !.in = Tail(@), !.state = "hello"]
  /\ UNCHANGED <<phase, outbound, inbound, down, heard, spoken>>

ServerReads ==
  LET body == FirstFrame(server.in)
      left == [server EXCEPT !.in = AfterFirst(@)]
      answer == Noise!Hello(body[1].node, "server_e", "server_static", server.certificate)
      finished == Noise!Finished(server.noise, "server_e", body[1].node)
  IN  /\ server.state # "intro" /\ ~server.dropped
      /\ Complete(server.in)
      /\ \/ /\ server.state = "hello"
            /\ server' = [left EXCEPT !.state = "finish", !.noise = answer.noise]
            /\ down' = down \o Prefix(2) \o Raw(answer.hello, 2)
            /\ UNCHANGED heard
         \/ /\ server.state = "finish" /\ finished # {}
            /\ server' = [left EXCEPT !.state = "transport", !.noise = <<>>,
                                      !.keys = CHOOSE k \in finished : TRUE]
            /\ UNCHANGED <<down, heard>>
         \/ /\ server.state = "transport" /\ Decrypts(body, server.keys.write, server.counter)
            /\ server' = [left EXCEPT !.counter = @ + 1]
            /\ heard' = Append(heard, body[1].node)
            /\ UNCHANGED down
         \/ /\ \/ server.state = "finish" /\ finished = {}
               \/ /\ server.state = "transport"
                  /\ ~Decrypts(body, server.keys.write, server.counter)
            /\ server' = [left EXCEPT !.dropped = TRUE]
            /\ UNCHANGED <<down, heard>>
      /\ UNCHANGED <<phase, outbound, inbound, spoken>>

\* What the initiator reads with, the responder writes with.
ServerSends(n) ==
  /\ server.state = "transport" /\ Len(spoken) < MaxFrames
  /\ down' = down \o Prefix(n) \o Body(server.keys.read, Len(spoken), Len(spoken) + 1, n)
  /\ spoken' = Append(spoken, Len(spoken) + 1)
  /\ UNCHANGED <<phase, outbound, inbound, server, heard>>

Next ==
  \/ Hello \/ Finish \/ (\E k \in 1..Len(down) : Answer(k))
  \/ \E s \in Senders :
       Call(s) \/ Encode(s) \/ Write(s) \/ Drained(s) \/ SendRaises(s) \/ Cancel(s)
  \/ Close \/ CloseDrained
  \/ (\E k \in 1..Len(down) : Receive(k)) \/ Yield \/ Exhausted
  \/ (\E k \in 1..Len(up) : ServerHears(k)) \/ ServerIntro \/ ServerReads
  \/ \E n \in Sizes : ServerSends(n)

\* The network delivers, the server reads, and connect() and the read loop are resumed.
Fairness ==
  /\ WF_vars(Finish)
  /\ WF_vars(\E k \in 1..Len(up) : ServerHears(k)) /\ WF_vars(ServerIntro \/ ServerReads)
  /\ WF_vars(\E k \in 1..Len(down) : Receive(k)) /\ WF_vars(Yield \/ Exhausted)

Spec == Init /\ [][Next]_vars /\ Fairness

-----------------------------------------------------------------------------
\* Types; who is past the queue has the lock, and who drains has the mutex.
TypeOK ==
  /\ phase \in {"hello", "answer", "finish", "transport", "failed"}
  /\ {intro_sent, closing, server.dropped} \subseteq BOOLEAN
  /\ {write_counter, read_counter, calls, server.counter} \subseteq Nat
  /\ task \in [Senders -> {"idle", "queued", "sending", "draining"}]
  /\ lock \in Senders \cup {"nobody"} /\ mutex \in Senders \cup {"nobody", "closer"}
  /\ reader \in {"none", "waiting", "decoding", "ended"}
  /\ \A s \in Senders :
       /\ lock = s <=> task[s] \in {"sending", "draining"}
       /\ mutex = s <=> task[s] = "draining"

\* "so concurrent senders can't desync the transport write counter / IV (which would
\* make the server drop the connection)": the server decrypts all it
\* reads, and the reader all it yields.
InStep == ~server.dropped /\ reader # "ended"

\* Each direction is an ordered channel that delivers, whatever the pieces the stream
\* comes in and whoever is cancelled: no frame waits for the next message, and no
\* counter is spent on a frame that is not written.
Outbound == INSTANCE OrderedChannel WITH
  Nodes <- 1..MaxSends, given <- written, got <- heard
ImplementsOutbound == Outbound!Spec

Inbound == INSTANCE OrderedChannel WITH
  Nodes <- 1..MaxFrames, given <- spoken, got <- read
ImplementsInbound == Inbound!Spec

=============================================================================
