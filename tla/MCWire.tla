------------------------------- MODULE MCWire -------------------------------
(* Strings, nodes and streams for TLC. *)
EXTENDS Wire, TLC

CONSTANTS h1, h2

Symbols == <<"0", "1", "2", "5", "6", "7", "9", "A", "F", "x", "i", "-", ".", "@", ":", "_",
             "lid", "hosted", "hosted.lid", "s.whatsapp.net", "g.us", "c.us", "id", "to",
             "iq", "set", "pair-device", "read-self", "interop">>

\* Some words with their bytes in tokens.py; "set" stands for a word of both tables.
Singles == 3 :> <<"s.whatsapp.net">> @@ 8 :> <<"id">> @@ 17 :> <<"to">> @@ 25 :> <<"iq">>
           @@ 28 :> <<"g.us">> @@ 45 :> <<"0">> @@ 90 :> <<"set">> @@ 118 :> <<"lid">>
Doubles == 0 :> (0 :> <<"read-self">>) @@ 1 :> (7 :> <<"set">>)

iq == <<"iq">>
With(name, s) == Node(iq, <<<<<<name>>, {s}>>>>, None)
Alone(node, zipped) ==
  [traffic |-> <<[node |-> node, zipped |-> zipped, raw |-> {}]>>, cuts |-> FALSE, routing |-> FALSE]

\* Every string of up to four symbols, and the names of devices with all their parts.
Short == BoundedSeq({"1", "A", "x", "-", "@", ":", "_", "lid"}, 4)
Users == {<<>>, <<"x">>, <<"1", "2">>}
Agents == {<<>>, <<"_", "1">>, <<"_", "1", "2", "9">>, <<"_", "x">>}
Devices == {<<>>, <<":", "0">>, <<":", "7">>, <<":", "2", "5", "5">>, <<":", "2", "5", "6">>,
            <<":", "-", "1">>, <<":", "x">>}
Servers == {<<>>} \cup {<<s>> : s \in {"lid", "hosted", "hosted.lid", "s.whatsapp.net", "g.us", "c.us"}}
Jids == {user \o agent \o device \o <<"@">> \o server :
           user \in Users, agent \in Agents, device \in Devices, server \in Servers}

Many(n, x) == [i \in 1..n |-> x]
Contents ==
  {Bytes(Many(n, 200)) : n \in {0, 1, 255, 256, 257, 990, 1000}}
  \cup {Text(s) : s \in {<<>>, <<"x", ".">>, <<"iq">>, <<"1", "2">>, <<"x", ":", "7", "@", "lid">>}}
  \cup {Text(Many(n, "1")) : n \in {126, 127, 128}}
  \cup {Text(Many(n, "A")) : n \in {127, 128}}
  \cup {List(Many(n, Node(iq, <<>>, None))) : n \in {0, 1, 2, 19, 20}}
  \cup {List(<<Node(<<"x">>, <<>>, Bytes(<<0, 2, 255>>)), With("to", <<"F", "9", "0">>)>>),
        List(<<Node(iq, <<>>, List(<<With("to", <<"1", ".", "5">>)>>)), Node(<<>>, <<>>, None)>>)}
Attrs == {<<>>, <<<<<<"id">>, {}>>>>,
          <<<<<<"id">>, {}>>, <<<<"to">>, {<<"set">>}>>, <<<<"x">>, {<<"A", "1">>}>>>>}
Nodes == {Node(iq, attrs, content) : attrs \in Attrs, content \in Contents}

\* Three frames, and what they are cut into.
Ack == With("id", <<"i">>)
Pair == Node(iq, <<<<<<"id">>, {<<"i">>}>>>>, List(<<Node(<<"pair-device">>, <<>>, None)>>))
Stream(nodes, cuts) ==
  [traffic |-> [i \in 1..Len(nodes) |-> [node |-> nodes[i], zipped |-> i = 2, raw |-> {}]],
   cuts |-> cuts, routing |-> ~cuts]

\* Names of other systems, as the server writes them, with and without a server.
Foreign(s, bytes) ==
  [traffic |-> <<[node |-> With("to", s), zipped |-> FALSE,
                  raw |-> {<<0, LIST_8, 3, 25, 17>> \o bytes}]>>,
   cuts |-> FALSE, routing |-> FALSE]
FromServer == {
  Foreign(<<"0", ":", "0", "@", "lid">>, <<FB_JID, 45, 0, 0, 118>>),
  Foreign(<<"2", "5", "6", "-", "0", ":", "7", "@", "g.us">>, <<INTEROP_JID, 45, 0, 7, 1, 0, 28>>),
  Foreign(<<"1", "-", "0", ":", "7", "@", "interop">>, <<INTEROP_JID, 45, 0, 7, 0, 1>>)}

All ==
  FromServer \cup
  {Alone(With("to", s), FALSE) : s \in Short \cup Jids}
  \cup {Alone(node, zipped) : node \in Nodes, zipped \in BOOLEAN}
  \cup {Stream(<<Ack, Node(iq, <<>>, None), With("to", <<"x">>)>>, TRUE),
        Stream(<<Pair, Ack>>, FALSE)}

Both == {h1, h2}
Registered == {<<iq, <<"id">>, <<"i">>>>, <<iq, <<>>, <<"pair-device">>>>, <<iq>>}
=============================================================================
