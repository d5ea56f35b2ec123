# piwapp: a verification project

piwapp is an asyncio WhatsApp multi-device client in Python.  The modules here
model its protocol core from the code in `src/piwapp/` (paths below are relative
to it), TLC checks them on small instances, and TLAPS proves most of their safety
properties for every value of the constants.  `PROJECT.json` maps each definition to
the lines it stands for and lists the runs, the mutants that show each property
can fail, the hazards and the theorems.

To repeat a check: `tlc -config SenderKey_core.cfg MCSenderKey` (the runs are in
the table below); to repeat the proofs of a module: `tlapm SenderKeyProofs.tla`.

## 1. Inventory

| component | source | state | operations | interacts with |
|---|---|---|---|---|
| Client (supervisor) | client.py | `_running`, `_conn`, `_pending_new_login` | start, stop, save keys, on_pairing, on_conn_update | makes a Connection per attempt, waits for its `_closed`, reads `close_reason` |
| Connection, life | socket/connection.py 105-345, 616-694, 745-923 | `state`, `_closed`, `close_reason`, reader, keepalive, background tasks | connect, read loop, login, pairing, failures, keepalive, close | Noise handler, websocket, emitter, creds |
| Connection, queries | connection.py 318-328, 638-677, 696-720, 917-918 | `_pending` | query, post-login queries | the read loop resolves the futures |
| Connection, outgoing | connection.py 371-535, api/messages_send.py | the stanza under way, `_write_lock` | send_text, send_group_text, send_media | queries, sessions, sender key |
| Connection, incoming | connection.py 616-629, api/messages_recv.py, api/history.py | background history tasks | handle, `_handle_history` | ciphers, emitter, ack |
| Noise transport | transport/noise.py, transport/websocket.py | counters, `_in`, `_sent_intro` | handshake, encode_frame, decode_frame | `_send_node`, read loop |
| Double Ratchet | crypto/double_ratchet.py | a record of sessions for each address | init_outgoing, init_incoming, encrypt, decrypt_* | Signal store |
| Sender keys | crypto/sender_key.py | a record of states for each name | create, process, encrypt, decrypt | Signal store |
| Signal store, key file | crypto/signal_store.py, client.py 72-80 | sessions, pre-keys, sender keys | load, store, on_change, dump | every write of a table rewrites the file |
| Pre-key upload | api/prekeys.py, connection.py 722-743 | `creds.next_pre_key_id`, pre-keys | upload if the server is low | query, creds file, key file |
| Stores | store/memory_store.py, store/sqlite_store.py | chats, contacts, messages | bound handlers, queries | emitter |
| Event emitter | events/emitter.py | handlers | on, emit | everything |
| Event buffer | events/buffer.py | depth, queue | buffer, flush | used by no code of the package |
| Node router | socket/router.py | handlers, ids | route | used by no code of the package |
| Length framing | transport/framing.py | buffer | encode, feed | used by no code of the package |
| Binary codec, JIDs | binary/, models/jid.py | none | encode, decode | pure; `_send_node`, the read loop |
| Media | api/media.py | none | encrypt, upload, describe, download | query, upload and media hosts |
| Groups queries, QR | api/groups.py, auth/qr.py | none | parse, format | query |
| MCP server | mcp_server.py | client task, queue of incoming messages, online event, QR code | tools, lifespan | Client, store |
| Credentials, models, configuration, primitives, CLI, generated protobuf | auth/creds.py, models, config.py, crypto/, `__main__.py`, `_proto` | plain data | | |

**What is hard.**  Everything runs on one event loop, so a step is what a task
does between two awaits; but user sends, the read loop, the keepalive, the
post-login task, history downloads, the supervisor and `stop()` interleave at
every await, and `close()` is called from the very tasks it cancels.  The network
delays, repeats and loses; the server sends again what was not acked.  The
process may die between a write of the key file, the creds file and the message
store.  The ciphers change their state while they decrypt and have to survive
reordering.  `hazards` of `PROJECT.json` lists the places with the properties that
watch them, section 6 those where the code falls short.  A few hazards are listed only
here, because the part they are in is not modelled or is used by nothing:
`flush` of the event buffer awaits between dispatches, so that later events
overtake, and a handler that raises loses the rest (events/buffer.py:42); a history is
acked before its download is done and a restart loses it (api/messages_recv.py:87);
INSERT OR REPLACE drops the columns a later, smaller event does not carry
(store/sqlite_store.py:113).

**What makes each part correct.**  Ciphers: no key encrypts twice, nothing is
read twice, late messages stay readable.  Transport: each direction is an ordered
channel as long as the socket lives.  Client: at most one live socket, a dropped
one is noticed, `stop()` leaves nothing behind, a permanent logout is final.
Queries: each ends.  Incoming: each message is told once, archived or reported,
and acked.  Outgoing: each device gets its ciphertexts in the order of its
session, and the sender key before what needs it.  Pre-keys: every key the server
can hand out can be used.  Wire: a node and the names in it arrive as they were sent.
MCP server: what the tools believe of the client is true, and each message goes to
one call.

## 2. The modules and the code

Each module says in its header what it abstracts.  Definitions whose comment
begins with "Slip:" are plausible mistakes; no action uses them.  They are the
bodies the mutants of `PROJECT.json` put in place of the faithful definitions.

**SenderKey** (crypto/sender_key.py, the sender-key table of the store, the key
file).  `record[d][n]` is `SenderKeyRecord.states` of device d for name n, newest
first; `disk` is the file.  `Create`, `Encrypt`, `Process`, `Decrypt` are the four
operations with the save at their end, `Restart` reloads the file.  The seed after
n steps is a function of key and n, so a chain is its iteration and a message key
is (key id, iteration).  `TakeKey` is `_get_message_key`: skipping fills
`message_keys`, `add_message_key` evicts the oldest at MAX_MESSAGE_KEYS.

**DoubleRatchet** (crypto/double_ratchet.py, the sessions and one-time pre-keys of
the store) implements **MessageChannel**: a text that is read was posted by the
other end, and no text is read twice.  `record[p]` is `SessionRecord.sessions`.
`InitOutgoing`, `Encrypt`, `DecryptPreKeyMessage`, `DecryptMessage`, `Restart` are
the actions.  `Tried` is one attempt of `_do_decrypt` with everything it changes
before the MAC check, and `DecryptMessage` tries the sessions in turn as the code
does.  Keys are symbolic: an agreement is the set of its two key pairs, a root the
sequence of agreements mixed into it; a MAC verifies iff both ends derived the
same key.

**Client** (client.py over the connection's life cycle).  `main` is where
`start()` is, `stopper` where `stop()` is; the first step of `start()` sets `running` and
makes a connection, so that a `stop()` before it is lost (`too_soon`) and may be called again. `ws`, `state`, `closed`, `reason`,
`reader`, `cancelled`, `keepalive` are per connection.  `task.cancel()` is a flag
that takes effect at the next await of the task, as in asyncio.  `Frame`,
`PairSuccess`, `Success`, `Fail` are what the read loop handles;
`FinishClose` is `close()` after its await; `StreamEnds`, `ReaderCancelled` and
`EmitDone` are the two ends of `_read_loop` and its `finally`.

**NoiseTransport** (transport/noise.py under `_handshake`, `_send_node` and the
read loop) implements **OrderedChannel** once in each direction.  Frames are
sequences of bytes: a length of three digits in base `Base` and a body, cut by the
network at any place.  `lock` is `_write_lock`, `mutex` the one the websockets
library holds while it writes and drains.  `Call`, `Encode`, `Write`, `Drained`,
`SendRaises` and `Cancel` are the steps of a sender; `Receive`, `Yield` and
`Exhausted` those of the reader.

**Query** (`query`, `_post_login`, `_on_node`, `close`).  `fut[q]`, `late[q]` and
`task[q]` are apart, since asyncio resolves or cancels a future in one turn of the
loop and resumes its task in a later one; that gap is where a late answer meets a
timer.  `Inline` queries are awaited by a listener on the read loop itself (`Incoming`): those
in `Isolated` by a listener of messages, whose exceptions are swallowed with their message
(connection.py:622-627), the others by one of receipts or notifications, where they are not
(connection.py:562-575, events/emitter.py:78-89).  `Escapes` says which end the loop.

**PreKeys** (api/prekeys.py and `_upload_prekeys_if_required`).  `next_id` and
`store` are the memory, `next_saved` and `store_saved` the two files, which have
different owners; `server`, `handed` and `flying` are the other side.

**Receive** (api/messages_recv.py, the ack in `_on_message`, the stores as
listeners).  `TakeBare`, `TakeUnreadable` and `TakeReadable` are `handle` up to the
application's first await; `EmitPart` and `EmitSummary` are the steps of the
history task; `Killed` is a kill between the writes inside `handle`.

**SendRelay** (`_relay_dm`, `_relay_group`, `send_media`, api/messages_send.py).
`todo[t]` are the answers a call still waits for; `GotMetadata`, `GotDevices`,
`GotBundles`, `BundleRefused` and `Fails` continue the call, `EncryptWith` is
everything from the last answer to the write lock, `Writes` sends the stanza of
the holder.  A session is its number and counter (DoubleRatchet has the inside),
the own sender key its iteration (SenderKey has it).

**NoiseHandshake** (the XX handshake of transport/noise.py) is used by NoiseTransport:
`Seeded` is `__init__`, `MixIntoKey`, `Sealed`, `Opens` are the primitives with their
transcript, `MixedStatic`, `Accepted`, `Answered` are `process_handshake` step by
step.  In NoiseTransport the server runs the other half, with a good or a forged
certificate, and the transport keys both ends arrive at are the keys of every frame.

**Jids**, **BinaryCodec**, **Router** and **Wire** (binary/, models/jid.py,
transport/framing.py, socket/router.py).  Strings are sequences of symbols.  `EncodeBinaryNode` and
`DecodeBinaryNode` are the two directions, with one operator for each function of
codec.py; `Arrived` in Wire says, without the codec, what a string becomes on its way.
Router is `MessageRouter`: `Dispatch` is a node with the waiter of its id, `CallNext` one
handler of `dispatch`, `Raise` the end of one whose handler raises, `On` and `Off` come between
any two.  Wire sends nodes through the framing over a stream cut at any place, decodes them and
takes the steps of Router; `Yield` is a frame that is complete.

**Media** (api/media.py) is the key schedule of files, their encryption and MAC, and
what a message says of them; a message is the fields that survive its way, one layer on
another.  **McpServer** (mcp_server.py) extends Client, takes its steps
and hears what it tells (`OnUpdate`); its tools are tasks beside it.  `setting` says which of its three
parts a behaviour is about: the tools that wait for the client, the queue, or the files.
`RunnerCancelled` is the end of the lifespan, `StartPairing`/`Poll` and
`EnsureOnline`/`Proceeds` are the tools that wait for the client, `Turn`,
`WaitForMessages`, `Resumed`, `GivesUp` the loop over asyncio.Queue, whose `getters` wake
in order; `SendFile`, `Upload` and `DownloadTool` use Media.

The modules meet at these seams: Query and SendRelay take the socket as the
ordered channel that NoiseTransport implements; SendRelay takes "every query ends"
from Query; Receive takes "a key decrypts once" from the two cipher modules;
Client's reader is the one of Query and NoiseTransport, and Wire is what NoiseTransport
carries.  McpServer and Client are composed; the others are not, one state space would be
out of reach.

## 3. The runs

| run | module, configuration | what it shows | states |
|---|---|---|---|
| sender_key_core | MCSenderKey, SenderKey_core | One author and one receiver, restarts of both, repeated SKDMs: no key is used twice, each installed state reads once, the cache is bounded and holds no taken key, the last MaxKeys iterations stay readable | 202,400 |
| ratchet | MCDoubleRatchet, DoubleRatchet | What one side started can be read in any order; if both start, at most one session is open and the peer can find it; no key encrypts twice; MessageChannel is implemented | 191,033 |
| ratchet_simultaneous | MCDoubleRatchet, DoubleRatchet_simultaneous | A violation, see 6 | |
| client | MCClient, Client | One live socket, `stop()` leaves nothing and ends a `start()` that has begun, only the login after a pairing is new, a permanent logout is final, a drop is noticed; with handlers that raise and rejected handshakes | 122,764 |
| client_stop | MCClient, Client_stop | A violation, see 6 | |
| noise | MCNoiseTransport, NoiseTransport | A handshake with either certificate, then three senders, cancellations, closing: both ends have the same keys, the counters stay in step and both directions are ordered channels | 88,305 |
| query | MCQuery, Query | The read loop survives late answers and listeners of messages that raise, `close()` leaves nobody waiting, each query ends whatever the server does | 133,975 |
| receive | MCReceive, Receive | Each message is told once, in order, archived or reported, and acked in the end | 76,650 |
| send_relay | MCSendRelay, SendRelay | Three interleaved sends to the same devices: sessions and ciphertexts reach the wire in order, keys are fresh, the SKDM precedes what needs it, every call ends | 504,058 |
| prekeys | MCPreKeys, PreKeys | Every key the server can hand out is usable, over lost requests, lost replies and restarts | 27,259 |
| wire | MCWire, Wire | Nodes with each kind of content and name arrive as they were sent, over a stream cut anywhere; names stay what they are; of handlers that come and go each is called once, unless one raises | 121,803 |
| mcp | MCMcpServer, McpServer | The online event agrees with the client, the end of the server leaves no socket, waiting calls get each message once and in order, a saved file is the one that was sent | 2,368,775 |

**Scenarios.**  DoubleRatchet, Client, Wire and McpServer have a constant `Scenarios`
and a variable that holds the one of the behaviour: who may start a session, which
faults occur, what is sent.  One run covers them all, and each scenario has the bound
it can afford.  The same code is behind every scenario.

**Bounds.**
- *sender_key_core*: MaxKeys 3 stands for 2000 so that eviction happens; chains go
  to 8, more than two caches long; MaxStates
  2 is enough for a repeated SKDM to stand in front of the state it repeats.
- *ratchet*: 7 messages if one party starts the session and 4 if both do, in which the
  ratchet steps several times in both directions; `ahead` is 1 where both start, so that
  the limit of 2000 is met;
  ArchivedLimit 6 is the code's.  MaxKeys (20) stops no behaviour with one starter (the
  states are the same with 40); with two, a message tried on the wrong session draws
  a key pair each time it comes again, so MaxKeys bounds how often that is tried.
- *client*: three connections cover pairing, the restart it asks for, and another
  drop; two are enough with handlers that raise and rejected handshakes.  The last
  connection is not made to fail, so that the bound does not end the program.
- *noise*: Base 4 stands for 256; every length needs its three digits whatever the base, so cuts
  inside the length occur.  Three sends and two received frames are enough for a waiter, a
  canceller and a holder at one lock.
- *query*: one query of a user and one of `_post_login`, one that a listener of messages and one
  that a listener of receipts awaits, and one node for either.
- *receive*: one message of each kind, two drops, one restart or kill.
- *send_relay*: a chat with media and two group messages over four devices
  (this one, another of ours, one of the other side, a hosted one).
- *prekeys*: 3, 2 and 1 stand for 30, 20 and 5 and keep their order; eight pairs are
  several uploads.
- *wire*: every string of at most four of eight symbols, and device names with every
  combination of user, agent, device (0, 7, 255, 256, negative, none, not a number) and
  server; contents on both sides of the limits 127, 256 and of the two forms of a list.  LongList 20
  stands for 256 (a list that long would be slow, the two bytes are written the same
  way) and LengthBase 10 for 256 in the framing, so that 990 and 1000 bytes meet its limit.
  Lengths of 2^20 and more are modelled and not reached.  The token tables are a sample with a
  word of both tables; UTF-8 is one byte for a symbol.
- *mcp*: three connections, or two with `stop()` while one is being opened; two calls, which is
  enough for one to overtake or cancel the other; Polls 1 stands for 24; five messages in
  three batches, one of them ours, of two chats; two files for each order of
  sending, with each body the hosts can mix from what was uploaded.

`CHECK_DEADLOCK FALSE` is in every configuration: the user may stop asking, and
each bound ends the behaviour.

**Type invariants.**  Every state machine states `TypeOK`; it is checked in
sender_key_core, and proved for each module of section 4.  Add it as an INVARIANT to
another configuration to check it there.

**Fairness**, and why the code has it.
- *Client*: weak fairness of every step of a task, because the event loop runs what
  can run; of `Opened \/ ConnectFails`, because the websockets library has an open
  timeout; of the end of `close()`, because it has a close timeout.  None for the
  user, the server and drops.
- *NoiseTransport*: the network delivers, the server reads, `connect()` and the read loop
  resume.  None for senders: the safety part of OrderedChannel needs none, and a frame on
  the wire is read without them.
- *Query*: tasks resume, the lock passes on, timers fire.  Nothing of the server.
- *Receive*: the read loop and its listeners go on, `start()` connects again, the
  server takes acks.  None for the history task.
- *SendRelay*: a query is answered or raises (QueriesEnd of Query), the lock passes on.
- *SenderKey, DoubleRatchet, PreKeys, Wire, McpServer*: none; their properties are safety.

## 4. What is proved

A theorem holds for every value of the constants that the module's `ASSUME` allows: any
number of devices, senders, queries, messages or connections, where the runs have a
few.  A hypothesis of a theorem beyond that is named in the table and explained
below it.  Each proof module also proves `TypeOK`.

| theorem | says | hypothesis |
|---|---|---|
| SenderKeyProofs: TypeCorrect | `TypeOK` | |
| NoReplayWithinState | one installed state never yields a key twice | |
| SkippedKeysSafe | the cache holds at most MAX_MESSAGE_KEYS keys, none of them taken | |
| LateMessages | each of the last MAX_MESSAGE_KEYS iterations is held until it is taken | |
| KeysNeverReused | no message key encrypts two messages, over restarts | `SaveMayFail = FALSE` |
| DoubleRatchetProofs: OneOpenSessionHolds | at most one session of a record is open, and it is the newest | |
| NoKeyReuseHolds | no message key encrypts two messages, of one party or of both, over restarts | |
| OneSidedReadableHolds | every message can be read until it was, in any order, over steps of the ratchet and restarts | `Modest` |
| PeerKnowsSessionHolds | the peer has the session of every message sent unwrapped | `NoPruning` |
| ImplementsChannel | each step is a step of MessageChannel or a stutter; with ReadOnceHolds, nothing is read twice | `NoPruning` |
| PreKeysProofs: IdsStayFresh | no id ever stands for two keys | `~CrashBetweenFiles` |
| PeersCanUsePreKeys | every key the server can hand out has its private key here | `~CrashBetweenFiles` |
| QueryProofs: ReaderOutlives | the read loop ends only with its socket, with `close()`, or by a listener of receipts that raised: no late, doubled or unknown answer and no listener of a message ends it | |
| CloseReleasesAll | after `close()` began no query is left to its timeout | |
| EachHandlerCalled | a dispatch calls each handler registered when it began and not removed since, unless one raises, and no waiter of an id is left behind | `frames` |
| ReceiveProofs: EachToldOnceInOrder | each message is told once, in the server's order | `KeysFirst` |
| NothingButRepeatsFails | only what was told before, or whose handling was killed, fails to decrypt | `KeysFirst`, `~StoreMayFail` |
| AckedIsArchived | an acked message is archived or was reported | `~StoreMayFail` |
| SetMeansStored | when a history is announced the store has all its parts | |
| SendRelayProofs: StanzasInOrder | each device gets its sessions, and the messages of each, in order | |
| NoKeyTwice | no two ciphertexts have the same key | |
| AnnouncedIsReadable | who installs what a group stanza announces can read it | |
| EveryDeviceReached | a stanza reaches all that had a session or a bundle, and nobody else | |
| ClientProofs: OneSocketOnly | only the last connection has a socket, with the two exceptions of the code | |
| LogoutStays | a permanent logout is never overwritten, nothing connects after it | |
| NewLoginTold | the login after a pairing is told as new, and no other | |
| StopLeaves | after `start()` and `stop()` returned no socket is open | no `stop_while_connecting` |
| BelievesRight | the online event is set while the client is open, but for the moments in which a login or an end is being told; then no call sleeps and no QR code is left | |
| ShutdownLeaves | the end of the MCP server leaves no socket | no other fault than `stop_while_connecting` |
| EachHandedOnce | what the calls took and what is queued are the messages in order, each once; nobody waits beside a message | |
| FileArrives | a file that is saved is the one that was sent | |
| NoiseTransportProofs: InStepAlways | what is read off the socket decrypts, at both ends | `SizesFit` |
| OutboundInOrder, InboundInOrder | each step is a step of OrderedChannel, in each direction, or a stutter | `SizesFit` |

**The hypotheses** but `frames` leave out cases in which the property is false; the run that shows it is
in section 6 for each.  A write of the key file that fails leaves a chain in the file that is
behind (`SaveMayFail`); a process that dies between the two files draws ids again
(`CrashBetweenFiles`); a store that raises keeps the message from the application
(`StoreMayFail`); a `stop()` before there is a socket closes nothing.  `SizesFit` says
that nodes are shorter than Base^3 bytes, 16 MB.  `NoPruning` is
`2 * MaxSessions <= ArchivedLimit + 1`: both parties' sessions together fit a record, so
that `remove_old_sessions` finds nothing to remove.  With the code's limit of 6 these are three
sessions started by each side, with any number of messages, ratchet steps and restarts in them.
`Modest` is about a party that alone starts sessions: it starts one, and no more messages are
sent than a chain may be ahead of what was read, 2000 in the code.  Of two sessions the newer is
tried first and a message of the older damages it; a message too far ahead is refused by
`_fill_message_keys`.
`KeysFirst` is about the environment, not the code: the distribution message of a sender
key is sent before what it encrypts, as `_relay_group` does (SendRelay checks that it does).  Without it the text is
told when the key came and the server sends again, out of order.
StopLeaves and ShutdownLeaves leave out opposite faults: `stop()` leaves a socket only if
it comes before there is one, and the lifespan of the MCP server cancels the task that
runs the client then, so that what `stop()` misses is closed; but a handler that raises or a handshake that is
rejected leaves a socket that nothing closes.  `frames` is what Router is given: each is a node, with
a list of attributes, or could not be decoded.

**The inductive invariants.**  None of the properties is inductive as it stands.

*Sender keys, one state.*  `StateInv` adds `Spread`: the held iterations are in increasing
order and two that are n places apart differ by at least n.  That is why dropping the
*oldest* entry can only drop one that is MaxKeys behind the chain, which is what
`LateMessages` needs; the author's habit of skipping one key at each message leaves the
cache spread as well.  `SkipKeys`, `Gap`, `WithoutKey` and `ConsumeOne` say what
each change does to the list, `TakeKeyInv` that `TakeKey` preserves `StateInv`, and
`StepInv` that each action preserves it in memory and on disk (`IInv`).

*Sender keys, reuse.*  `OwnChains` says that a record holds at most
one state with a private key and that its chain is past every message sent with that
key.  `ReuseInv` has it of the records in memory and of those in the file, since a restart
takes up the file's.

*Double ratchet.*  A party has two views of its sessions, the record in memory and the one in
the key file (`Views`), and `RatchetInv` speaks of both, because a restart turns
one into the other.  `Sound` says of each session that the seeds of its chains are its root as it was
at different steps, that its last agreement is of key pairs already drawn, and that a record has
one session of a base key and only its first is open.  `Apart` says that no view of one
party has a root to send on that a view of the other has, and `Past` that the sending chain of
every view is past every message sent with that seed.  The two parts make a new message's key a new one:
`Past` against the party's own messages, `Apart` against its peer's.  `Novel` and `Resumes`
(together `Heir`) say where a root after a step comes from, and carry `Apart` over it: it
mixes in a key pair that was just drawn, or a view had it before.  `KeptInv` adds what needs
`NoPruning`: `Counted` (there are no more base keys in the views than sessions were started, so that
nothing is pruned), `Met` (sender and reader of an unwrapped message have its session in both views),
`Remembered` (in every view of the reader the key of a message it read is used up) and
`Numbered` (a body names one message).  `Turn` describes one action by what these four
need to know of it.  The refinement is then short: an `Encrypt` that sends is `Post` and a
decrypt that returns is `Take`, whose guard is `Remembered`.
`LevelInv` is about a session that one party started.  One of its two ends took the last step of the
ratchet (`Ahead`): its root is the other's with one more agreement, and it has an open chain for what
the other sends.  Each message is `Filed` in a chain of the end it is for, which holds its key or can still
reach it unless it was read, or it `Brings` the step that opens its chain; and what was sent on the chain
that this step closes is not past the previous counter it brings (`Linked`), so that closing it keeps
all of its keys.  Every action leaves one end ahead: the same one, or, after a step, the other.
The end that is not there yet is the one `_init_session` would make of the first message (`End`).

*Pre-keys.*  `UseInv` adds that every id ever offered is below `next_pre_key_id`, and that a
pre-key is in one place only (at the server, handed out, or in the message of a peer), so
that the private key a used one takes along is nobody else's.

*Queries.*  `Uncut` says that an inline query is cancelled by `close()` alone, `EndsStay` that how a
query ended stays, and `ReaderEnds` that the read loop ends in three ways, of which an answer and a listener of a
message are none.  `CloseInv` says that until `close()` begins an open future has
its entry in `_pending`, which is what `close()` goes through, and from then on the socket takes
no frame, so that no new one begins to wait.

*Incoming messages.*  `OrderInv` calls a message settled if it is told, has no text, or
lost its sender key to a kill; everything before a message whose key was taken is settled, and
so is everything acked, and everything the connection has delivered.  `ReadInv` says which keys
are used up, `ArchiveInv` that what is acked or about to be is archived or reported,
`HistoryInv` that what a history job has left to do, with what is stored, is all of it.

*Outgoing messages.*  `KeyInv` orders calls by the moment they encrypt, not by the lock: of any
two, all of the ciphertexts of one precede those of the other, for every device both are for,
and queue and wire keep that order.  `BodyInv` has the sender key's chain past every body.
`ReachInv` needs that a session once started stays (`MovesOn`), so that what a call saw when
it asked for bundles is still there when it encrypts.

*Client.*  `Life` says of one connection where its parts come from (`Whence`: a reader has a socket
that was opened, a keepalive an online phase, a cancelled reader no socket) and what
became of it when the supervisor left it (`Whither`: its reader is quiet, its socket
gone, but for the two ways the code forgets one).  `StopInv` and `PairInv` add the stopper, and
the flag of the new login while its listener is under way.

*MCP server.*  The tools run over Client, so its `LifeInv` comes first.  `LinkInv` adds what the tools
rely on: a connection is open from its login to its end and its reader knows (`Login`), the readers of older
connections have told their end before the next handshake (`Handover`), and there is a
connection whose login was told and whose end was not while the event is set (`Linked`).
`Served` has the runner cancelled only after `stop()` returned, or came before `start()` had begun (`Ending` is what `stop()` leaves on the way), and
`NoneAsleep` that no call sleeps while the event is set.  `QueueInv` is the property with
the types of the queue; `Others`, all that arrived, is a concatenation, and what one more
batch does to it is shown by induction over the batches (`Least`, through the well-foundedness of the natural
numbers, which needs no operator as a parameter).  `FilesInv` says of each
upload which file and which key it is of, and so what a message that points to it says.

*Router.*  A handler that is due has a call to come (`Owed`): it was not seen, and it is in the rest of the
snapshot or under a key still to come.

*Noise transport.*  `Carries(stream, tokens)` says that a stream is the concatenation of
the frames of a list of tokens, whatever pieces it comes in.  `UpInv` says that what the server
has in its buffer and what is on the wire carry exactly the frames written
after the last one heard, numbered by the counter; `DownInv` is the other direction.  `Tasks`
says who holds the write lock and the library's mutex and that a counter is spent on a
frame that is not written only once the socket closes; `Stage` that nothing flows before
the handshake ends with equal keys.  `FirstToken` says that a complete frame at the front is
the first token of the list, so that cutting it off leaves the rest.

**Only model-checked.**
- Liveness: `DropsRecovered`, `StopEnds`, `QueriesEnd`, `AllAcked`, `SendsEnd` and the fairness part
  of `ImplementsOutbound` and `ImplementsInbound`.  Liveness under fairness and ENABLED are out
  of reach of this prover.
- `NodesArrive` and `NamesKept` of Wire: BinaryCodec and Jids decode trees of nodes and strings with
  RECURSIVE operators, which the prover cannot expand.
- What DoubleRatchet does once sessions are pruned, but for `OneOpenSession` and `NoKeyReuse`.

## 5. What is not modelled

- Cryptography is ideal: signatures and MACs verify exactly when they should, a key is
  what it was derived from.  The signatures of the pairing and inside of the certificate are not there:
  a certificate is good or forged, and `verify_cert` is on, its default.
- The length of the backoff (only that it ends), a second `start()`, a second `stop()` but for one
  whose first came before `start()`.
- Parsing of answers: a list, an empty list or an exception in SendRelay.
- The device identity a stanza carries if the account keeps one, and its attributes.
- Notifications, receipts and calls, which are acked and change no state; what their listeners
  do to the read loop is in Query.
- What a row of a store contains, the archive's queries, filters of the emitter.
- Of the MCP server: the archive tools, which only query the store, `_pair`, a program of its own
  that waits for a login and exits, and formatting.
- zlib, which is an opaque form; the `is_jid_*` predicates.
- The event buffer: no code of the package makes one.
- QR rotation: config.py:38 speaks of a new QR "roughly every this many ms", but
  `_emit_next_qr` (connection.py:762) has one caller and nothing rotates.
- Generated protobuf code, the primitives themselves, formatting of QR codes, command line.

## 6. Where code and documents disagree

Two runs end in a violation, by what the code does:

1. *ratchet_simultaneous*, `EveryMessageReadable`.  `decrypt_message` tries the
   sessions in turn and `_do_decrypt` steps the ratchet of the live session before
   the MAC is checked (double_ratchet.py:448, 466-483), with no way back.  After
   both parties started a session, a late message of the archived one damages the
   open one and later messages cannot be read.  The record is said to keep
   archived sessions "for out-of-order msgs" (double_ratchet.py:89).
2. *client_stop*, `StopLeavesNothing`.  `stop()` while `connect()` awaits the socket
   finds nothing to close (client.py:134); `connect()` completes and its socket stays
   open after `start()` and `stop()` returned.

The following have no run of their own.  Change the configuration as shown and TLC finds
the counterexample.

| property | change | what happens |
|---|---|---|
| SenderKey!AnnouncesOwnKey | `Devices <- Account`, `Primary <- SharedPrimary` | our own key is filed under device 0 of the account (connection.py:386-390), where an SKDM of the phone goes in front of it (messages_recv.py:77-79); `create` then announces the phone's key (sender_key.py:237) |
| SenderKey!DelayedMessageReadable | none, SenderKey_core | a repeated SKDM goes in front of the state it repeats; delayed messages are looked up in the newer one and are lost (sender_key.py:248) |
| SenderKey!NoKeyReuse | `SaveMayFail = TRUE` | a failed write of the key file is swallowed (client.py:79); after a restart the chain repeats |
| DoubleRatchet!ReadOnce | DoubleRatchet with `ArchivedLimit = 0`, `OneTime = FALSE`, `MaxSessions = 2` | the first message of a pruned session builds it again and is read twice |
| the same | DoubleRatchet with `ArchivedLimit = 0`, `MaxSessions = 2` | with one-time pre-keys too: if the first message tried does not decrypt (too far ahead, say), the session stays and every later one finds it, so that `init_incoming` returns no id and the pre-key is never removed (double_ratchet.py:261-262, 434-439); after the session was pruned a repeated message builds it again |
| DoubleRatchet!OneSidedReadable | DoubleRatchet with `MaxSessions = 2` | one starter is enough for the first violation above: a late answer in the older session steps the ratchet of the newer one |
| DoubleRatchet!PeerKnowsSession | DoubleRatchet with `ArchivedLimit = 0`, `MaxSessions = 2` | a party sends unwrapped in a session that its peer has pruned, and cannot be read |
| PreKeys!PreKeysUsable | `CrashBetweenFiles = TRUE` | the key file is ahead of the creds file; ids are reused with other keys |
| Client!OneSocket without its second exception | none, Client | a handler that raises ends the read loop and its socket stays open beside the next one (connection.py:305) |
| Client!StopEnds with `stopper # "idle"` in place of its left side | none, Client | `start()` sets `_running` in its first step (client.py:89): a `stop()` that runs before that step leaves no trace, and the client connects and goes on |
| Query!ReaderSurvives without its last disjunct | none, Query | a listener of receipts that raises, a query's timeout say, ends the read loop (connection.py:562-575, 305): `TypedEventEmitter` isolates none, though a listener is said to "never kill the read loop" (connection.py:88-89) |
| Query!PendingIsAwaited | none, Query | `_send_node` is outside of the `try` of `query`: a send that raises leaves its entry until `close()` |
| Receive!NothingVanishes | `StoreMayFail = TRUE` | a store that raises ends the emit before the application is told, and the message is acked |
| SendRelay!SentToSomebody | none, SendRelay | devices without a session are skipped; a stanza may go to nobody of the other side and its id is returned |
| NoiseTransport!InStep | `Base = 2`, `Sizes = {1, 8}` | a frame of Base^3 bytes wraps its length (noise.py:210; framing.py checks its limit) |

Read off the code while modelling, with no property of their own:

- `handle` reads the first `<enc>` of a node only (messages_recv.py:37), so of a stanza
  that carries a sender key and a text side by side one is lost.
- `on_group` never fires for `messages.upsert`, whose payload has neither `jid` nor `key`
  (events/emitter.py:19-32, 42), though the module is about subscribing to a group.
- Names of other systems come as `user:device@server` (codec.py:367-384) and are written back
  with the domain of `s.whatsapp.net` (codec.py:124, jids.py:83-91): an ack to one goes to another
  name.  `NamesKept` is about names this encoder wrote.  A device above 255 is
  written modulo 256, and attributes that are not strings are counted and not written
  (codec.py:127, 188-197).
- `start_pairing` starts a client only if there is none (mcp_server.py:270): after the client
  ended it answers "call start_pairing again in a moment" (line 294), or the QR code of the
  connection that is gone, however often it is called.
- A `wait_for_messages` with a `chat_jid` takes the messages of other chats from the queue
  and drops them (mcp_server.py:397).
- History messages enter the same queue as new ones (mcp_server.py:67), where the tool speaks
  of messages that arrive while it waits.
- The copy of a message in a history has no caption (history.py:102, where the live path uses
  models/message.py:32) and replaces the row that had it (sqlite_store.py:97).  A push name
  replaces a contact's row and its name (sqlite_store.py:125).
- What `send_message` sends is told by no event, so `last_sent_message` does not
  know it until another device of the account sends it back.
- `list_chats` lists "the most recent chats" (mcp_server.py:199) by a table that only the chats
  of a history fill (messages_recv.py:118-119, where the live path at 102 emits the message
  alone): a new message moves no chat up and changes no time of last activity.

## 7. Plan

Written, in this order: SenderKey with its proofs, DoubleRatchet over
MessageChannel, Client, NoiseTransport over OrderedChannel, Query, PreKeys,
Receive, SendRelay; then the handshake of NoiseTransport, Jids, BinaryCodec, Wire, Media and
McpServer over Client.  The ciphers and the life of a connection came first, because
what goes wrong there is lost for good or leaves the program deaf.

To extend, most important first:
1. Receive: nodes with two `<enc>`; stores with columns, where INSERT OR REPLACE
   (sqlite_store.py:113) drops what the memory store merges.
2. EventBuffer, once some code makes one: order of dispatch while `flush` awaits, and merging,
   which moves an item in front of others (two adds of a participant around a remove).

Proved, in this order: SenderKey, PreKeys, Query, Receive, SendRelay, Client,
NoiseTransport, DoubleRatchet with its refinement of MessageChannel, McpServer over Client,
Router, and the readability of one session.

To prove next: MessageChannel under a hypothesis weaker than `NoPruning` (that a pruned
session's one-time pre-key is gone).  Wire's codec is recursive and stays with TLC.  New runs
should replace or merge with those that ask a shallower question rather than add to them.
