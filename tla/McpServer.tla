------------------------------ MODULE McpServer ------------------------------
(***************************************************************************)
(* The tools of mcp_server.py over a live Client.                          *)
(*                                                                         *)
(* The server extends module Client, whose every step it takes and whose   *)
(* connection updates _on_update hears.  Tool calls are tasks: they wait   *)
(* for the client to be online, poll for a QR code, or wait for incoming   *)
(* messages on one asyncio.Queue, and may expire or be cancelled where     *)
(* they wait.  Files go out through the upload hosts and come back through *)
(* download_media (module Media).                                          *)
(*                                                                         *)
(* A behaviour is of one kind: "online" has the whole client, in "waits"   *)
(* and "media" the client stays online.                                    *)
(***************************************************************************)
EXTENDS Client, Media, SequencesExt

CONSTANTS
  Callers,   \* the tool calls that run at the same time
  Chats,     \* chats messages come from
  Polls,     \* how often start_pairing looks for a code: 24
  Settings   \* what the behaviours of a run may be

\* A message with media, or another, that is sent: by send_file, or by another application,
\* in wrappers, in a field that fits its type, and perhaps without the digests.
File ==
  [by : {"us"}, type : DOMAIN MEDIA_MSG_FIELD] \cup
  {f \in [by : {"peer"}, type : STRING, field : STRING \ WRAPPERS, wrappers : Seq(WRAPPERS),
          digests : BOOLEAN] :
     f.field \in DOMAIN MEDIA_FIELDS => HkdfInfo(f.type) = MEDIA_FIELDS[f.field]}

\* client: the scenario of module Client; batches: the messages each messages.upsert
\* brings; files: what is sent.
Setting == [kind : {"online", "waits", "media"}, client : Scenarios,
            batches : Seq(Seq([id : Nat, chat : Chats, fromMe : BOOLEAN])), files : Seq(File)]

ASSUME McpServerAssumption == Polls \in Nat /\ Settings \subseteq Setting

VARIABLES
  setting,   \* the setting of this behaviour, which never changes
  live,      \* state.client is not None
  online,    \* the event state.online
  qr,        \* state.pairing_qr: the connection it is of, or none
  lifespan,  \* "serving", or "over" once the runner was cancelled
  call,      \* call[c]: where the tool call of c is
  incoming,  \* state.incoming: the queue
  getters,   \* the calls asleep in its get(), in order
  woken,     \* those of them that were woken and have not run
  arrived,   \* batches told (history)
  log,       \* the messages taken from the queue, and who got them (history)
  posted,    \* messages that were sent, with the file and what was uploaded
  results    \* what download_media made of which body (history)

client == vars
server == <<live, online, qr, lifespan>>
queue == <<incoming, getters, woken, arrived, log>>
files == <<posted, results>>
server_vars == <<setting, server, client, call, queue, files>>

Idle == [at |-> "idle"]
At(c, x) == call' = [call EXCEPT ![c] = x]
Ends(c) == At(c, Idle)

\* Client.is_open
IsOpen == live /\ n > 0 /\ state[n] = "open"

-----------------------------------------------------------------------------
\* The life of the client.

\* The server stands at the end of its lifespan: stop() has returned, also one that came
\* before start() ran, and the next thing, without an await, is runner.cancel().
Leaving == stopper \in {"too_soon", "done"} /\ lifespan = "serving"

\* _on_update hears what a step of the client tells; setting the event wakes every call
\* asleep in _ensure_online.
OnUpdate ==
  /\ online' = (told' = "open" \/ (told' # "close" /\ online))
  /\ call' = [c \in Callers |-> IF told' = "open" /\ call[c].at = "asleep"
                                THEN [at |-> "awake"] ELSE call[c]]

\* A step of the client; stop() is the end of the lifespan.  The stanza that holds the
\* code is one of the frames the client handles while it waits to be paired.
ClientStep ==
  /\ setting.kind = "online" /\ live /\ ~Leaving
  /\ UNCHANGED <<setting, live, lifespan, queue, files>>
  /\ \/ Next /\ qr' = IF told' = "open" THEN {} ELSE qr
     \/ \E c \in 1..MaxConns : phase[c] = "pair" /\ Handled(c) /\ qr' = {c}
  /\ OnUpdate

\* Slip: the runner is left alone.
LeftRunning(m) == m
Cancelled(m) == "ended"

\* runner.cancel(): start() ends where it awaits; a socket it is opening is given up by
\* the library.
RunnerCancelled ==
  /\ Leaving /\ lifespan' = "over"
  /\ main' = Cancelled(main)
  /\ ws' = IF main = "connecting" /\ main' = "ended" THEN [ws EXCEPT ![n] = "none"] ELSE ws
  /\ UNCHANGED <<setting, live, online, qr, call, queue, files, scenario, running, stopper,
                 n, creds, state, closed, reason, reader, cancelled, keepalive, phase, history>>

-----------------------------------------------------------------------------
\* Tools that need the client.

Serving == ~Leaving /\ stopper = "idle"

\* start_pairing, unless the client is online: a client, if there is none, and the wait
\* for a code.  A client that has ended is not started again.
StartPairing(c) ==
  /\ setting.kind = "online" /\ Serving /\ call[c] = Idle /\ ~IsOpen
  /\ live' = TRUE
  /\ At(c, [at |-> "polling", left |-> Polls])
  /\ UNCHANGED <<setting, client, online, qr, lifespan, queue, files>>

\* It sleeps and looks again, or answers with what there is.
Poll(c) ==
  /\ call[c].at = "polling" /\ Serving
  /\ IF qr # {} \/ online \/ call[c].left = 0 THEN Ends(c)
     ELSE At(c, [call[c] EXCEPT !.left = @ - 1])
  /\ UNCHANGED <<setting, client, server, queue, files>>

\* _ensure_online of send_message, send_file and list_groups.  An open client, or an event
\* still set, lets the call go on to the client, which raises unless it is open; the
\* rest of the call is that of the connection.
EnsureOnline(c) ==
  /\ setting.kind = "online" /\ Serving /\ call[c] = Idle
  /\ live /\ ~IsOpen /\ ~online
  /\ At(c, [at |-> "asleep"])
  /\ UNCHANGED <<setting, client, server, queue, files>>

\* The call runs again, or its timeout comes first.
Proceeds(c) ==
  /\ call[c].at \in {"asleep", "awake"} /\ Serving
  /\ Ends(c)
  /\ UNCHANGED <<setting, client, server, queue, files>>

-----------------------------------------------------------------------------
\* The queue of incoming messages.

\* put_nowait wakes the first getter of each message.
WakeUp(k, asleep, up) ==
  LET m == IF k < Len(asleep) THEN k ELSE Len(asleep)
  IN  /\ getters' = SubSeq(asleep, m + 1, Len(asleep))
      /\ woken' = up \cup {asleep[i] : i \in 1..m}

\* _on_incoming: a batch of messages, ours left out.
Incoming(b) == FlattenSeq([i \in 1..Len(b) |-> IF b[i].fromMe THEN <<>> ELSE <<b[i]>>])
OnIncoming ==
  /\ setting.kind = "waits" /\ arrived < Len(setting.batches)
  /\ arrived' = arrived + 1
  /\ LET new == Incoming(setting.batches[arrived + 1])
     IN  incoming' = incoming \o new /\ WakeUp(Len(new), getters, woken)
  /\ UNCHANGED <<setting, client, server, call, log, files>>

\* Slip: the messages are read and not taken.
Peeked(q) == q
Drained(q) == <<>>

\* One turn of the loop of wait_for_messages: the queue is drained, what is of another
\* chat is dropped; with nothing left the call sleeps, or its time is over.
Turn(c, chats) ==
  /\ incoming' = Drained(incoming)
  /\ log' = log \o [i \in 1..Len(incoming) |->
              [msg |-> incoming[i], to |-> IF incoming[i].chat \in chats THEN {c} ELSE {}]]
  /\ \/ Ends(c) /\ UNCHANGED getters
     \/ /\ \A i \in 1..Len(incoming) : incoming[i].chat \notin chats
        /\ At(c, [at |-> "waiting", chats |-> chats])
        /\ getters' = Append(getters, c)
  /\ UNCHANGED <<setting, client, server, arrived, files>>

\* Without a chat_jid every chat is wanted.
WaitForMessages(c, chats) ==
  /\ setting.kind = "waits" /\ call[c] = Idle
  /\ Turn(c, chats) /\ UNCHANGED woken

\* get() returns, or finds that another call was faster and sleeps again.
Resumed(c) ==
  /\ c \in woken /\ woken' = woken \ {c}
  /\ IF incoming # <<>> THEN Turn(c, call[c].chats)
     ELSE /\ getters' = Append(getters, c)
          /\ UNCHANGED <<setting, client, server, call, incoming, arrived, log, files>>

\* The timeout of wait_for, or a cancelled call: get() hands a wake-up on.
GivesUp(c) ==
  /\ call[c].at = "waiting" /\ Ends(c)
  /\ IF c \in woken
     THEN WakeUp(IF incoming = <<>> THEN 0 ELSE 1, getters, woken \ {c})
     ELSE /\ \E i \in 1..Len(getters) : getters[i] = c /\ getters' = RemoveAt(getters, i)
          /\ UNCHANGED woken
  /\ UNCHANGED <<setting, client, server, incoming, arrived, log, files>>

-----------------------------------------------------------------------------
\* Files.

\* The file, the key and the plaintext of the next message are named by its number.
This == setting.files[Len(posted) + 1]
Encrypted == EncryptMedia(<<"file", Len(posted)>>, This.type, <<"key", Len(posted)>>)
HasFile(by) == setting.kind = "media" /\ Len(posted) < Len(setting.files) /\ This.by = by

\* send_file asks for the upload hosts: an answer, or none.
SendFile(c) ==
  /\ HasFile("us") /\ \A d \in Callers : call[d] = Idle
  /\ \/ \E hosts \in {<<>>, <<"h1">>, <<"h1", "h2">>} :
          At(c, [at |-> "uploading", hosts |-> ParseMediaConn(hosts)])
     \/ UNCHANGED call
  /\ UNCHANGED <<setting, client, server, queue, files>>

Post(message, e) ==
  posted' = Append(posted, [message |-> message, enc |-> e.enc, plain |-> <<"file", Len(posted)>>])

\* upload_media: the first host that works takes the file, and the message goes out; the
\* next host is tried after one that fails, and after the last the call raises.
Upload(c) ==
  /\ call[c].at = "uploading"
  /\ \/ \E upload \in [url : {{}, {"url"}}, directPath : {{}, {"path"}}] :
          Post(BuildMediaMessage(This.type, upload, Encrypted), Encrypted) /\ Ends(c)
     \/ /\ UNCHANGED posted
        /\ IF Len(call[c].hosts) > 1
           THEN At(c, [call[c] EXCEPT !.hosts = Tail(@)]) ELSE Ends(c)
  /\ UNCHANGED <<setting, client, server, queue, results>>

\* Another application sends: in wrappers, with a sticker, without the digests, or text.
PeerSends ==
  /\ HasFile("peer")
  /\ LET e == Encrypted
         bare == [field |-> This.field, url |-> {}, directPath |-> {"path"},
                  mediaKey |-> e.mediaKey,
                  fileSha256 |-> IF This.digests THEN e.fileSha256 ELSE {},
                  fileEncSha256 |-> IF This.digests THEN e.fileEncSha256 ELSE {}]
     IN  Post([i \in 1..Len(This.wrappers) |-> [field |-> This.wrappers[i]]] \o <<bare>>, e)
  /\ UNCHANGED <<setting, client, server, call, queue, results>>

\* What a host may answer: what was uploaded, mixed up in any way.
Bodies == {[ciphertext |-> posted[i].enc.ciphertext, mac |-> posted[j].enc.mac] :
             i, j \in 1..Len(posted)}

\* The tool download_media on an archived message, whose media host answers with body.
DownloadTool(i, body) ==
  LET info == ExtractMediaInfo(posted[i].message)
  IN  /\ setting.kind = "media"
      /\ results' = results \cup
           {[of |-> i, body |-> body,
             data |-> UNION {DownloadMedia(x, body) : x \in {x \in info : DownloadUrl(x) # {}}}]}
      /\ UNCHANGED <<setting, client, server, call, queue, posted>>

-----------------------------------------------------------------------------
\* The client as it is after a login that went well.
OnlineClient ==
  /\ scenario = setting.client
  /\ main = "waiting" /\ running = TRUE /\ stopper = "idle" /\ n = 1
  /\ me = TRUE /\ known = TRUE /\ new_login = FALSE
  /\ ws = [c \in Conns |-> IF c = 1 THEN "open" ELSE "none"]
  /\ state = [c \in Conns |-> IF c = 1 THEN "open" ELSE "closed"]
  /\ closed = [c \in Conns |-> FALSE]
  /\ reason = [c \in Conns |-> "none"]
  /\ reader = [c \in Conns |-> IF c = 1 THEN "reading" ELSE "none"]
  /\ cancelled = [c \in Conns |-> FALSE]
  /\ keepalive = [c \in Conns |-> IF c = 1 THEN "asleep" ELSE "none"]
  /\ phase = [c \in Conns |-> IF c = 1 THEN "online" ELSE "none"]
  /\ told = "open" /\ paired = FALSE /\ flagged = {<<FALSE, FALSE>>}

\* _lifespan starts a client if the credentials are there.
ServerInit ==
  /\ setting \in Settings
  /\ IF setting.kind = "online"
     THEN Init /\ scenario = setting.client /\ live \in BOOLEAN /\ online = FALSE
     ELSE OnlineClient /\ live = TRUE /\ online = TRUE
  /\ qr = {} /\ lifespan = "serving"
  /\ call = [c \in Callers |-> Idle]
  /\ incoming = <<>> /\ getters = <<>> /\ woken = {} /\ arrived = 0 /\ log = <<>>
  /\ posted = <<>> /\ results = {}

ServerNext ==
  \/ ClientStep \/ RunnerCancelled
  \/ \E c \in Callers :
       \/ StartPairing(c) \/ Poll(c) \/ EnsureOnline(c) \/ Proceeds(c)
       \/ \E chats \in {Chats} \cup {{x} : x \in Chats} : WaitForMessages(c, chats)
       \/ Resumed(c) \/ GivesUp(c)
       \/ SendFile(c) \/ Upload(c)
  \/ OnIncoming \/ PeerSends
  \/ \E i \in 1..Len(posted), body \in Bodies : DownloadTool(i, body)

ServerSpec == ServerInit /\ [][ServerNext]_server_vars

-----------------------------------------------------------------------------
\* Types; a call is in the queue's books only while it waits there.
ServerTypeOK ==
  /\ setting \in Settings /\ scenario = setting.client /\ {live, online} \subseteq BOOLEAN
  /\ qr \subseteq 1..MaxConns /\ lifespan \in {"serving", "over"}
  /\ \A c \in Callers :
       call[c].at \in {"idle", "polling", "asleep", "awake", "waiting", "uploading"}
  /\ ToSet(getters) \cup woken = {c \in Callers : call[c].at = "waiting"}
  /\ ToSet(getters) \cap woken = {}

\* What the tools believe is what the client is ("online.set()", "online.clear()"): the event
\* differs from is_open only while an update is on its way: "open" from a reader at its
\* login, "close" from one that closes or is cancelled.  Once it is set no call sleeps in
\* _ensure_online and no code is left to scan.
OnlineExact ==
  /\ online /\ ~IsOpen => \E c \in Conns : cancelled[c] \/ reader[c] = "failing"
  /\ IsOpen /\ ~online => reader[n] = "greeting"
  /\ online => qr = {} /\ \A c \in Callers : call[c].at # "asleep"

\* Once the lifespan is over and start() has ended, the client has no socket, also when the
\* server ends while connect() still awaits it.
ShutdownLeavesNothing ==
  lifespan = "over" /\ main = "ended" => \A c \in Conns : ~Live(c)

\* Each message somebody else sent is taken from the queue once and in order, whichever calls
\* expire, are cancelled or overtake each other, and is handed to one call, unless that
\* asked for another chat; and no message waits while every call sleeps.
Others == FlattenSeq([i \in 1..arrived |-> Incoming(setting.batches[i])])
HandedOnce ==
  /\ [i \in 1..Len(log) |-> log[i].msg] \o incoming = Others
  /\ incoming # <<>> /\ getters # <<>> => woken # {}

\* A file that is saved is the one that was sent, whatever body the host answers with; and the
\* body that was uploaded gives the file, of every type, in wrappers and without digests.
MediaArrives ==
  \A r \in results :
    LET p == posted[r.of]
        info == ExtractMediaInfo(p.message)
    IN  /\ r.data \subseteq {p.plain}
        /\ r.body = p.enc /\ (\E x \in info : DownloadUrl(x) # {}) => r.data = {p.plain}

=============================================================================
