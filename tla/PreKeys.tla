------------------------------ MODULE PreKeys ------------------------------
(***************************************************************************)
(* One-time pre-keys: api/prekeys.py and _upload_prekeys_if_required of    *)
(* socket/connection.py, with the two files of the process (the creds and  *)
(* the Signal keys), the server that hands the keys out, and the peers     *)
(* that use them.                                                          *)
(*                                                                         *)
(* A pre-key pair is a number; a pre-key is <<id, pair>>.  Requests and    *)
(* replies may be lost, the connection may break, the process may die      *)
(* between any two steps: CrashBetweenFiles says whether also while the    *)
(* creds in memory are ahead of their file.                                *)
(***************************************************************************)
EXTENDS Naturals, FiniteSets, Functions

CONSTANTS
  Initial,            \* upload_count for an empty server: 30
  Refill,             \* upload_count otherwise: 20
  Low,                \* the server is low with that many or fewer: 5
  CrashBetweenFiles,
  MaxDrawn            \* bound: key pairs generated

ASSUME PreKeysAssumption ==
  /\ {Initial, Refill} \subseteq Nat \ {0}
  /\ {Low, MaxDrawn} \subseteq Nat
  /\ CrashBetweenFiles \in BOOLEAN

VARIABLES
  next_id,      \* creds.next_pre_key_id
  next_saved,   \* ... in the creds file
  store,        \* SignalStore._pre_keys: id -> pair
  store_saved,  \* ... in the key file
  online,       \* a connection is logged in
  upload,       \* _upload_prekeys_if_required: where it is
  flying,       \* the pre-keys of an upload on its way
  server,       \* what the server can hand out
  handed,       \* what it handed out and no message used yet
  drawn,        \* key pairs generated so far
  offered       \* every pre-key ever put in an upload (history)

mem == <<next_id, store>>
files == <<next_saved, store_saved>>
far == <<server, handed>>
vars == <<mem, files, online, upload, flying, far, drawn, offered>>

-----------------------------------------------------------------------------
\* Slips: next_pre_key_id stays; it is one short.
NotAdvanced(id, count) == id
OneShort(id, count) == id + count - 1
Advanced(id, count) == id + count

\* The decision on the server's count.
Needed(server_count) == server_count <= Low \/ store = <<>>
UploadCount(server_count) == IF server_count = 0 \/ store = <<>> THEN Initial ELSE Refill

\* generate_pre_keys
Batch(id, count) == {<<id + i, drawn + 1 + i>> : i \in 0..(count - 1)}

Pairs(f) == {<<id, f[id]>> : id \in DOMAIN f}
Ids(S) == {p[1] : p \in S}

\* on_change -> _save_keys
Saved(f) == f

\* f with the pre-keys of S put in.
Put(f, S) ==
  [id \in DOMAIN f \cup Ids(S) |->
     IF id \in Ids(S) THEN (CHOOSE p \in S : p[1] = id)[2] ELSE f[id]]

-----------------------------------------------------------------------------
Init ==
  /\ next_id = 1 /\ next_saved = 1
  /\ store = <<>> /\ store_saved = <<>>
  /\ online = FALSE /\ upload = "none" /\ flying = {}
  /\ server = {} /\ handed = {} /\ drawn = 0 /\ offered = {}

\* <success>: creds.update is emitted, then _post_login begins with the count query.
Login ==
  /\ ~online /\ online' = TRUE
  /\ next_saved' = next_id
  /\ upload' = "counting"
  /\ UNCHANGED <<mem, store_saved, flying, far, drawn, offered>>

\* The count comes back; if keys are needed they are generated, stored, saved and sent.
CountReply ==
  LET c == Cardinality(server)
      new == Batch(next_id, UploadCount(c))
  IN  /\ upload = "counting"
      /\ \/ /\ ~Needed(c)
            /\ upload' = "none"
            /\ UNCHANGED <<mem, store_saved, flying, drawn, offered>>
         \/ /\ Needed(c)
            /\ drawn + Cardinality(new) <= MaxDrawn
            /\ drawn' = drawn + Cardinality(new)
            /\ store' = Put(store, new) /\ store_saved' = Saved(store')
            /\ next_id' = Advanced(next_id, UploadCount(c))
            /\ flying' = new /\ offered' = offered \cup new
            /\ upload' = "uploading"
      /\ UNCHANGED <<next_saved, online, far>>

\* The upload reaches the server, which replaces keys by their ids.
ServerStores ==
  /\ flying # {}
  /\ server' = {p \in server : p[1] \notin Ids(flying)} \cup flying
  /\ flying' = {}
  /\ UNCHANGED <<mem, files, online, upload, handed, drawn, offered>>

\* The server's reply: creds.update is emitted again.
UploadReply ==
  /\ upload = "uploading" /\ flying = {}
  /\ upload' = "none" /\ next_saved' = next_id
  /\ UNCHANGED <<mem, store_saved, online, flying, far, drawn, offered>>

\* A query ends without its answer: prekeys.error.
QueryFails ==
  /\ upload # "none" /\ upload' = "none"
  /\ UNCHANGED <<mem, files, online, flying, far, drawn, offered>>

\* The connection breaks; what was on its way arrives yet or never.
Disconnect ==
  /\ online /\ online' = FALSE
  /\ upload' = "none"
  /\ flying' \in {{}, flying}
  /\ UNCHANGED <<mem, files, far, drawn, offered>>

\* A peer fetches a bundle.
HandOut(p) ==
  /\ p \in server
  /\ server' = server \ {p} /\ handed' = handed \cup {p}
  /\ UNCHANGED <<mem, files, online, upload, flying, drawn, offered>>

\* The first message of the session the peer built arrives: load_pre_key, and
\* remove_pre_key once it decrypted.
Readable(p) == p[1] \in DOMAIN store /\ store[p[1]] = p[2]
MessageArrives(p) ==
  /\ online /\ p \in handed /\ Readable(p)
  /\ handed' = handed \ {p}
  /\ store' = Restrict(store, DOMAIN store \ {p[1]}) /\ store_saved' = Saved(store')
  /\ UNCHANGED <<next_id, next_saved, online, upload, flying, server, drawn, offered>>

\* The process dies and starts again from its files.
Restart ==
  /\ CrashBetweenFiles \/ next_id = next_saved
  /\ next_id' = next_saved /\ store' = store_saved
  /\ online' = FALSE /\ upload' = "none"
  /\ flying' \in {{}, flying}
  /\ UNCHANGED <<files, far, drawn, offered>>

Next ==
  \/ Login \/ CountReply \/ ServerStores \/ UploadReply \/ QueryFails \/ Disconnect
  \/ (\E p \in server : HandOut(p)) \/ (\E p \in handed : MessageArrives(p))
  \/ Restart

Spec == Init /\ [][Next]_vars

-----------------------------------------------------------------------------
PreKey == (Nat \ {0}) \X (1..drawn)

\* Types; the key file is what memory is, the creds file may be behind.
TypeOK ==
  /\ next_id \in Nat \ {0} /\ next_saved \in 1..next_id
  /\ Pairs(store) \subseteq PreKey /\ store_saved = store
  /\ online \in BOOLEAN /\ upload \in {"none", "counting", "uploading"}
  /\ upload # "none" => online
  /\ drawn \in Nat /\ offered \subseteq PreKey
  /\ server \cup handed \cup flying \subseteq offered

\* An id never stands for two keys (test_consecutive_uploads_use_fresh_ids).
FreshIds == \A p, q \in offered : p[1] = q[1] => p = q

\* Whatever the server may hand out, has handed out or is about to get, we hold the
\* private key of, so that the session a peer builds with it can be read.
PreKeysUsable == \A p \in server \cup handed \cup flying : Readable(p)

=============================================================================
