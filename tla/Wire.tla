-------------------------------- MODULE Wire --------------------------------
(***************************************************************************)
(* Nodes on their way: the codec over the length framing of                *)
(* transport/framing.py into the router of socket/router.py.               *)
(*                                                                         *)
(* The sender's nodes are frames of one stream of bytes, which arrives cut *)
(* at any place.  Each frame is decoded and given to the router (module    *)
(* Router); one that cannot be read is skipped, as the read loop does.     *)
(* Noise encryption, which stands between the two, is NoiseTransport.      *)
(***************************************************************************)
EXTENDS BinaryCodec, Router, FiniteSetsExt

CONSTANTS
  LengthBase,  \* 256 in the code: a length is three digits in this base
  MaxFutures,  \* bound: futures of wait_for_id
  Scenarios    \* what is sent, and what happens to it: see Scenario

\* traffic: nodes in the order they are sent, each with whether it is compressed and, for
\* one of the server's, whose encoder knows more than this one, with its bytes (raw).
\* cuts: the stream is cut at any place, not only between frames.
\* routing: handlers and waiters come and go.
ASSUME WireAssumption ==
  /\ LengthBase \in Nat \ {0, 1} /\ MaxFutures \in Nat
  /\ \A c \in Scenarios :
       /\ {c.cuts, c.routing} \subseteq BOOLEAN
       /\ \A i \in 1..Len(c.traffic) : c.traffic[i].zipped \in BOOLEAN

VARIABLES
  scenario,  \* the scenario of this behaviour, which never changes
  sent,      \* how many of its nodes were given to the encoder (history)
  framed,    \* those of them that went onto the line (history)
  line,      \* bytes under way
  buf        \* FrameDecoder._buf

stream == <<sent, framed, line, buf>>
vars == <<scenario, stream, router>>

-----------------------------------------------------------------------------
\* Framing.

MAX_FRAME_LENGTH == LengthBase ^ 3 - 1
Digits3(n) == [k \in 1..3 |-> (n \div LengthBase ^ (3 - k)) % LengthBase]
EncodeFrame(payload) == Digits3(Len(payload)) \o payload

FrameLength(b) == FoldLeft(LAMBDA sum, d : LengthBase * sum + d, 0, SubSeq(b, 1, 3))

HasFrame(b) == Len(b) >= 3 /\ Len(b) >= 3 + FrameLength(b)

Zipped(data) == <<2>> \o Deflated(Tail(data))
Payload(x) ==
  LET data == IF x.raw = {} THEN EncodeBinaryNode(x.node) ELSE CHOOSE b \in x.raw : TRUE
  IN  IF x.zipped THEN Zipped(data) ELSE data

\* The encoder refuses a node without a tag, the framing one that is too large.
Send ==
  LET x == scenario.traffic[sent + 1]
  IN  /\ sent < Len(scenario.traffic)
      /\ sent' = sent + 1
      /\ IF Encodable(x.node) /\ Len(Payload(x)) <= MAX_FRAME_LENGTH
         THEN line' = line \o EncodeFrame(Payload(x)) /\ framed' = Append(framed, x)
         ELSE UNCHANGED <<line, framed>>
      /\ UNCHANGED <<scenario, buf, router>>

\* FrameDecoder.feed with the next n bytes, the frames before them having been taken.
Feed(n) ==
  /\ ~HasFrame(buf)
  /\ buf' = buf \o SubSeq(line, 1, n)
  /\ line' = SubSeq(line, n + 1, Len(line))
  /\ UNCHANGED <<scenario, sent, framed, router>>

\* The frame at the head of buf is decoded and goes to the router.
Yield ==
  LET decoded == DecodeBinaryNode(SubSeq(buf, 4, 3 + FrameLength(buf)))
  IN  /\ HasFrame(buf)
      /\ buf' = SubSeq(buf, 4 + FrameLength(buf), Len(buf))
      /\ Dispatch(IF decoded.ok THEN {decoded.val} ELSE {})
      /\ UNCHANGED <<scenario, sent, framed, line>>

\* The router goes on, and its users come and go; none registers twice.
Routing ==
  /\ \/ CallNext
     \/ Raise
     \/ \E k \in Routes, h \in Handlers :
          \/ scenario.routing /\ h \notin ToSet(handlers[k]) /\ On(k, h)
          \/ Off(k, h)
     \/ scenario.routing /\ futures < MaxFutures /\ WaitForId
  /\ UNCHANGED <<scenario, stream>>

Init ==
  /\ scenario \in Scenarios
  /\ sent = 0 /\ framed = <<>> /\ line = <<>> /\ buf = <<>>
  /\ RouterInit

Next ==
  \/ Send \/ Yield \/ Routing
  \/ \E n \in 1..Len(line) : (scenario.cuts \/ n = Len(line)) /\ Feed(n)

Spec == Init /\ [][Next]_vars

-----------------------------------------------------------------------------
\* Types: bytes on the line, known handlers, a waiter that was made.
TypeOK ==
  /\ scenario \in Scenarios
  /\ sent \in 0..Len(scenario.traffic) /\ Len(framed) <= sent
  /\ \A b \in ToSet(line) \cup ToSet(buf) : b \in 0..255
  /\ \A k \in Routes : handlers[k] \in Seq(Handlers)
  /\ waiter \cup resolved \subseteq (1..futures) \X (0..Len(inbox))
  /\ dispatch.seen \cup due \subseteq Handlers

\* What a string becomes on the way, if it can be read at the other end at all: only
\* the names of devices change.  A device takes a byte; with one, the server is
\* told by the domain; without one, an agent is dropped.
RECURSIVE Arrived(_)
Arrived(s) ==
  IF s = <<>> \/ IsToken(s) \/ IsNibble(s) \/ IsHex(s) \/ JidDecode(s) = {} THEN {s}
  ELSE UNION {
    IF j.device # {}
    THEN {JidEncode(j.user, ServerFromDomainType(Whatsapp, j.domain_type % 256),
                    {d % 256 : d \in j.device}, {})}
    ELSE {j.user \o <<"@">> \o server : server \in Arrived(j.server) \ {<<>>}}
    : j \in JidDecode(s)}

\* Strings as content: what is not packed, a word or a name arrives as bytes.
ArrivedText(s) ==
  IF s = <<>> \/ (~IsToken(s) /\ ~IsNibble(s) /\ ~IsHex(s) /\ JidDecode(s) = {})
  THEN {Bytes(Utf8(s))} ELSE {Text(t) : t \in Arrived(s)}

\* One choice from each of a sequence of sets.
OneOfEach(sets) ==
  FoldLeft(LAMBDA done, S : {Append(d, x) : d \in done, x \in S}, {<<>>}, sets)

RECURSIVE ArrivedNode(_)
ArrivedContent(c) ==
  CASE c.kind = "str" -> ArrivedText(c.str)
    [] c.kind = "list" ->
         {List(l) : l \in OneOfEach([i \in 1..Len(c.items) |-> ArrivedNode(c.items[i])])}
    [] OTHER -> {c}
ArrivedNode(node) ==
  LET given == ValidAttrs(node)
      attrs == OneOfEach([i \in 1..Len(given) |->
                 {<<k, {v}>> : k \in Arrived(given[i][1]),
                              v \in UNION {Arrived(s) : s \in given[i][2]}}])
  IN  {Node(tag, a, c) : tag \in Arrived(node.tag), a \in attrs,
                         c \in ArrivedContent(node.content)}

\* Each node the encoder accepts arrives once, in order and as Arrived says, whatever
\* the stream is cut into, and nothing is left over: tables, packing, lengths and lists
\* come back as they were written (test_roundtrip_property, test_split_frame_across_feeds).
NodesArrive ==
  /\ inbox = [i \in 1..Len(inbox) |->
                IF framed[i].raw = {} THEN ArrivedNode(framed[i].node) ELSE {framed[i].node}]
  /\ line = <<>> /\ ~HasFrame(buf) => buf = <<>> /\ Len(inbox) = Len(framed)

\* The name of a device that arrives names the user and the device that was sent, and is
\* stable: sent back, as acks and sessions do, parsed or normalised, it stays as it is.
Names(node) == {s \in UNION {a[2] : a \in ToSet(node.attrs)} : JidDecode(s) # {}}
Device(s) == UNION {{d % 256 : d \in j.device} : j \in JidDecode(s)} \ {0}
NamesKept ==
  \A i \in 1..Len(inbox) : framed[i].raw = {} => \A node \in inbox[i] :
    /\ \A t \in Names(node) : Arrived(t) = {t} /\ Reparsed(t) = {t}
    /\ \A s \in Names(framed[i].node) : \E t \in Names(node) :
         /\ AreJidsSameUser(s, t) /\ Device(s) = Device(t)
         /\ JidNormalizedUser(t) = JidNormalizedUser(JidNormalizedUser(t))

=============================================================================
