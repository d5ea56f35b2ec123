---------------------------- MODULE MCMcpServer ----------------------------
(* Clients, messages and files for TLC. *)
EXTENDS McpServer

CONSTANTS t1, t2, a, b

Online(conns, faults) ==
  [kind |-> "online", client |-> [conns |-> conns, faults |-> faults],
   batches |-> <<>>, files |-> <<>>]
With(kind, batches, sends) ==
  [kind |-> kind, client |-> [conns |-> 1, faults |-> {}], batches |-> batches, files |-> sends]

Msg(i, chat) == [id |-> i, chat |-> chat, fromMe |-> FALSE]
Mine(i, chat) == [id |-> i, chat |-> chat, fromMe |-> TRUE]

Peer(type, field, wrappers, digests) ==
  [by |-> "peer", type |-> type, field |-> field, wrappers |-> wrappers, digests |-> digests]
Us(type) == [by |-> "us", type |-> type]

Waits == <<<<Msg(1, a)>>, <<Mine(2, a), Msg(3, b)>>, <<Msg(4, a), Msg(5, a)>>>>

All == {
  Online(3, {}), Online(2, {"stop_while_connecting"}),
  With("waits", Waits, <<>>),
  With("media", <<>>, <<Us("image"), Peer("sticker", "stickerMessage", <<>>, FALSE)>>),
  With("media", <<>>, <<Us("document"), Us("audio")>>),
  With("media", <<>>, <<Peer("video", "videoMessage", <<"viewOnceMessage", "ephemeralMessage">>, TRUE),
                        Peer("image", "conversation", <<>>, FALSE)>>)}

Clients == {s.client : s \in All}
=============================================================================
