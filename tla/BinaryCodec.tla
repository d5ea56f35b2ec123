---------------------------- MODULE BinaryCodec ----------------------------
(***************************************************************************)
(* Nodes to bytes and back: binary/codec.py with the tables of             *)
(* binary/tokens.py.                                                       *)
(*                                                                         *)
(* A node is a tag, a sequence of attributes (the dict in its order) and a *)
(* content: none, bytes, a string or a list of nodes.  UTF-8 is one byte   *)
(* for each symbol of Alphabet, from 32 on.  Writing gives the bytes;      *)
(* reading gives a value and the next position, or Fail (WABinaryError).   *)
(***************************************************************************)
EXTENDS Jids

CONSTANTS
  Alphabet,      \* the symbols of strings
  SingleTokens,  \* SINGLE_BYTE_TOKENS: a byte -> a string, some of them
  LongList,      \* 256 in the code: from here on the size of a list takes two bytes
  DoubleTokens   \* DOUBLE_BYTE_TOKENS: a dictionary 0..3 -> a byte -> a string

ASSUME BinaryCodecAssumption ==
  /\ DOMAIN SingleTokens \subseteq 1..235
  /\ DOMAIN DoubleTokens \subseteq 0..3
  /\ \A d \in DOMAIN DoubleTokens : DOMAIN DoubleTokens[d] \subseteq 0..255
  /\ LongList \in 1..256
  /\ Len(Alphabet) <= 224

\* TAGS
LIST_EMPTY == 0
DICTIONARY_0 == 236
INTEROP_JID == 245
FB_JID == 246
AD_JID == 247
LIST_8 == 248
LIST_16 == 249
JID_PAIR == 250
HEX_8 == 251
BINARY_8 == 252
BINARY_20 == 253
BINARY_32 == 254
NIBBLE_8 == 255
PACKED_MAX == 127

None == [kind |-> "none"]
Bytes(b) == [kind |-> "bytes", data |-> b]
Text(s) == [kind |-> "str", str |-> s]
List(nodes) == [kind |-> "list", items |-> nodes]
Node(tag, attrs, content) == [tag |-> tag, attrs |-> attrs, content |-> content]

Utf8(s) == [i \in 1..Len(s) |-> 32 + Code(Alphabet, s[i])]
FromUtf8(b) == [i \in 1..Len(b) |-> Alphabet[b[i] - 31]]

-----------------------------------------------------------------------------
\* Writing.

PushInt(value, n) == [k \in 1..n |-> (value \div 256 ^ (n - k)) % 256]
PushInt20(value) == <<(value \div 65536) % 16, (value \div 256) % 256, value % 256>>

\* The error for 2^32 bytes is out of TLC's integers.
WriteByteLength(n) ==
  IF n >= 2 ^ 20 THEN <<BINARY_32>> \o PushInt(n, 4)
  ELSE IF n >= 256 THEN <<BINARY_20>> \o PushInt20(n)
  ELSE <<BINARY_8, n>>

WriteStringRaw(s) == WriteByteLength(Len(s)) \o Utf8(s)

NibbleAlphabet == Digits \o <<"-", ".">>
HexAlphabet == Digits \o <<"A", "B", "C", "D", "E", "F">>

Packable(alphabet, s) == s # <<>> /\ Len(s) <= PACKED_MAX /\ Over(alphabet, s)
IsNibble(s) == Packable(NibbleAlphabet, s)
IsHex(s) == Packable(HexAlphabet, s)

\* Slip: an odd length is not marked.
WritePackedEven(s, tag, alphabet) ==
  LET Pack(i) == IF i > Len(s) THEN 15 ELSE Code(alphabet, s[i])
      rounded == (Len(s) + 1) \div 2
  IN  <<tag, rounded>> \o [i \in 1..rounded |-> 16 * Pack(2 * i - 1) + Pack(2 * i)]

\* Two symbols in a byte; an odd one is followed by the 15 of "\0".
WritePackedBytes(s, tag, alphabet) ==
  LET Pack(i) == IF i > Len(s) THEN 15 ELSE Code(alphabet, s[i])
      rounded == (Len(s) + 1) \div 2
  IN  <<tag, IF Len(s) % 2 # 0 THEN rounded + 128 ELSE rounded>>
        \o [i \in 1..rounded |-> 16 * Pack(2 * i - 1) + Pack(2 * i)]

\* TOKEN_MAP: a word of both tables has the bytes of the double one.
DoubleToken(s) ==
  {t \in UNION {{d} \X DOMAIN DoubleTokens[d] : d \in DOMAIN DoubleTokens} :
     DoubleTokens[t[1]][t[2]] = s}
SingleToken(s) == {i \in DOMAIN SingleTokens : SingleTokens[i] = s}
IsToken(s) == DoubleToken(s) # {} \/ SingleToken(s) # {}
WriteToken(s) ==
  IF DoubleToken(s) # {}
  THEN LET t == CHOOSE t \in DoubleToken(s) : TRUE IN <<DICTIONARY_0 + t[1], t[2]>>
  ELSE <<CHOOSE i \in SingleToken(s) : TRUE>>

RECURSIVE WriteString(_)

\* Slip: the device in front of the domain.
WriteJidSwapped(j) ==
  IF j.device # {}
  THEN <<AD_JID, (CHOOSE n \in j.device : TRUE) % 256, j.domain_type % 256>>
         \o WriteString(j.user)
  ELSE <<JID_PAIR>> \o WriteString(j.user) \o WriteString(j.server)

\* _write_jid: with a device the server is left to the domain type.
WriteJid(j) ==
  IF j.device # {}
  THEN <<AD_JID, j.domain_type % 256, (CHOOSE n \in j.device : TRUE) % 256>>
         \o WriteString(j.user)
  ELSE <<JID_PAIR>> \o (IF j.user = <<>> THEN <<LIST_EMPTY>> ELSE WriteString(j.user))
         \o WriteString(j.server)

WriteString(s) ==
  IF s = <<>> THEN WriteStringRaw(s)
  ELSE IF IsToken(s) THEN WriteToken(s)
  ELSE IF IsNibble(s) THEN WritePackedBytes(s, NIBBLE_8, NibbleAlphabet)
  ELSE IF IsHex(s) THEN WritePackedBytes(s, HEX_8, HexAlphabet)
  ELSE IF JidDecode(s) # {} THEN WriteJid(CHOOSE j \in JidDecode(s) : TRUE)
  ELSE WriteStringRaw(s)

WriteListStart(size) ==
  IF size = 0 THEN <<LIST_EMPTY>>
  ELSE IF size < LongList THEN <<LIST_8, size>>
  ELSE <<LIST_16>> \o PushInt(size, 2)

\* Attributes whose value is None (here {}) are left out; a value is {string}.
ValidAttrs(node) == SelectSeq(node.attrs, LAMBDA a : a[2] # {})
WriteAttr(a) == WriteString(a[1]) \o WriteString(CHOOSE s \in a[2] : TRUE)

RECURSIVE EncodeInner(_)
EncodeContent(c) ==
  CASE c.kind = "none" -> <<>>
    [] c.kind = "str" -> WriteString(c.str)
    [] c.kind = "bytes" -> WriteByteLength(Len(c.data)) \o c.data
    [] c.kind = "list" -> WriteListStart(Len(c.items))
         \o FlattenSeq([i \in 1..Len(c.items) |-> EncodeInner(c.items[i])])
EncodeInner(node) ==
  LET attrs == ValidAttrs(node)
  IN  WriteListStart(2 * Len(attrs) + 1 + (IF node.content.kind = "none" THEN 0 ELSE 1))
        \o WriteString(node.tag)
        \o FlattenSeq([i \in 1..Len(attrs) |-> WriteAttr(attrs[i])])
        \o EncodeContent(node.content)

\* An empty tag, here or in a child, raises.
RECURSIVE Encodable(_)
Encodable(node) ==
  /\ node.tag # <<>>
  /\ node.content.kind = "list" =>
       \A i \in 1..Len(node.content.items) : Encodable(node.content.items[i])

EncodeBinaryNode(node) == <<0>> \o EncodeInner(node)

-----------------------------------------------------------------------------
\* Reading: from b at position i.

Fail == [ok |-> FALSE]
Got(val, next) == [ok |-> TRUE, val |-> val, next |-> next]
Then(r, Rest(_, _)) == IF r.ok THEN Rest(r.val, r.next) ELSE Fail

ReadBytes(b, i, n) ==
  IF i + n - 1 > Len(b) THEN Fail ELSE Got(SubSeq(b, i, i + n - 1), i + n)
ReadByte(b, i) == IF i > Len(b) THEN Fail ELSE Got(b[i], i + 1)
BigEndian(bytes) == FoldLeft(LAMBDA sum, byte : 256 * sum + byte, 0, bytes)
ReadInt(b, i, n) == Then(ReadBytes(b, i, n), LAMBDA x, k : Got(BigEndian(x), k))
ReadInt20(b, i) ==
  Then(ReadBytes(b, i, 3), LAMBDA x, k : Got(BigEndian([x EXCEPT ![1] = @ % 16]), k))

\* The length behind a BINARY_ tag and what it is the length of.
IsBinary(tag) == tag \in {BINARY_8, BINARY_20, BINARY_32}
ReadData(b, i, tag) ==
  Then(CASE tag = BINARY_8 -> ReadByte(b, i)
         [] tag = BINARY_20 -> ReadInt20(b, i)
         [] tag = BINARY_32 -> ReadInt(b, i, 4),
       LAMBDA n, k : ReadBytes(b, k, n))

\* _unpack_nibble and _unpack_hex: 15 is "\0" among nibbles, the rest is an error.
Unpacked(alphabet, v) == IF v < Len(alphabet) THEN alphabet[v + 1] ELSE "0x0"
Unpackable(alphabet, v) == v < Len(alphabet) \/ v = 15

\* _read_packed8
ReadPacked8(b, i, alphabet) ==
  Then(ReadByte(b, i), LAMBDA start, j :
    Then(ReadBytes(b, j, start % 128), LAMBDA x, k :
      LET halves == FlattenSeq([p \in 1..Len(x) |-> <<x[p] \div 16, x[p] % 16>>])
          value == [p \in 1..Len(halves) |-> Unpacked(alphabet, halves[p])]
      IN  IF \A p \in 1..Len(halves) : Unpackable(alphabet, halves[p])
          THEN Got(IF start > 127 THEN Front(value) ELSE value, k) ELSE Fail))

IsListTag(tag) == tag \in {LIST_EMPTY, LIST_8, LIST_16}
ReadListSize(b, i, tag) ==
  CASE tag = LIST_EMPTY -> Got(0, i)
    [] tag = LIST_8 -> ReadByte(b, i)
    [] tag = LIST_16 -> ReadInt(b, i, 2)
    [] OTHER -> Fail

\* The words of the tables the model does not name are left out of what is read.
ReadToken(b, i, tag) ==
  IF tag < DICTIONARY_0
  THEN IF tag \in DOMAIN SingleTokens THEN Got(SingleTokens[tag], i) ELSE Fail
  ELSE Then(ReadByte(b, i), LAMBDA index, k :
         LET d == tag - DICTIONARY_0
         IN  IF d \in DOMAIN DoubleTokens /\ index \in DOMAIN DoubleTokens[d]
             THEN Got(DoubleTokens[d][index], k) ELSE Fail)

RECURSIVE ReadStringTagged(_, _, _)
ReadString(b, i) == Then(ReadByte(b, i), LAMBDA tag, k : ReadStringTagged(b, k, tag))

ReadJidPair(b, i) ==
  Then(ReadString(b, i), LAMBDA user, j :
    Then(ReadString(b, j), LAMBDA server, k :
      IF server = <<>> THEN Fail ELSE Got(user \o <<"@">> \o server, k)))

ReadAdJid(b, i) ==
  Then(ReadBytes(b, i, 2), LAMBDA x, j :
    Then(ReadString(b, j), LAMBDA user, k :
      Got(JidEncode(user, ServerFromDomainType(Whatsapp, x[1]), {x[2]}, {}), k)))

\* Names of other systems: the device is written even if it is 0.
ReadFbJid(b, i) ==
  Then(ReadString(b, i), LAMBDA user, j :
    Then(ReadInt(b, j, 2), LAMBDA device, k :
      Then(ReadString(b, k), LAMBDA server, m :
        Got(user \o <<":">> \o Str(device) \o <<"@">> \o server, m))))

\* A server that cannot be read is "interop", and what was read of it is read again.
ReadInteropJid(b, i) ==
  Then(ReadString(b, i), LAMBDA user, j :
    Then(ReadInt(b, j, 2), LAMBDA device, k :
      Then(ReadInt(b, k, 2), LAMBDA integrator, m :
        LET server == ReadString(b, m)
            name == Str(integrator) \o <<"-">> \o user \o <<":">> \o Str(device) \o <<"@">>
        IN  IF server.ok THEN Got(name \o server.val, server.next)
            ELSE Got(name \o <<"interop">>, m))))

\* _read_string
ReadStringTagged(b, i, tag) ==
  CASE tag \in 1..(DICTIONARY_0 + 3) -> ReadToken(b, i, tag)
    [] tag = LIST_EMPTY -> Got(<<>>, i)
    [] IsBinary(tag) -> Then(ReadData(b, i, tag), LAMBDA x, k : Got(FromUtf8(x), k))
    [] tag = JID_PAIR -> ReadJidPair(b, i)
    [] tag = FB_JID -> ReadFbJid(b, i)
    [] tag = INTEROP_JID -> ReadInteropJid(b, i)
    [] tag = AD_JID -> ReadAdJid(b, i)
    [] tag = HEX_8 -> ReadPacked8(b, i, HexAlphabet)
    [] tag = NIBBLE_8 -> ReadPacked8(b, i, NibbleAlphabet)
    [] OTHER -> Fail

\* n things read one after the other by Read.
RECURSIVE ReadAll(_, _, _, _)
ReadAll(Read(_, _), b, i, n) ==
  IF n = 0 THEN Got(<<>>, i)
  ELSE Then(Read(b, i), LAMBDA x, k :
         Then(ReadAll(Read, b, k, n - 1), LAMBDA rest, m : Got(<<x>> \o rest, m)))

ReadAttr(b, i) ==
  Then(ReadString(b, i), LAMBDA key, j :
    Then(ReadString(b, j), LAMBDA value, k : Got(<<key, {value}>>, k)))

RECURSIVE DecodeNode(_, _)
\* A list, bytes (a raw string, too) or any other string.
DecodeContent(b, i) ==
  Then(ReadByte(b, i), LAMBDA tag, j :
    IF IsListTag(tag)
    THEN Then(ReadListSize(b, j, tag), LAMBDA n, k :
           Then(ReadAll(DecodeNode, b, k, n), LAMBDA nodes, m : Got(List(nodes), m)))
    ELSE IF IsBinary(tag)
    THEN Then(ReadData(b, j, tag), LAMBDA x, k : Got(Bytes(x), k))
    ELSE Then(ReadStringTagged(b, j, tag), LAMBDA s, k : Got(Text(s), k)))

\* _decode_node
DecodeNode(b, i) ==
  Then(ReadByte(b, i), LAMBDA list_tag, j :
    Then(ReadListSize(b, j, list_tag), LAMBDA list_size, k :
      Then(ReadString(b, k), LAMBDA header, m :
        IF list_size = 0 \/ header = <<>> THEN Fail
        ELSE Then(ReadAll(ReadAttr, b, m, (list_size - 1) \div 2), LAMBDA attrs, p :
               Then(IF list_size % 2 = 0 THEN DecodeContent(b, p) ELSE Got(None, p),
                    LAMBDA content, q : Got(Node(header, attrs, content), q))))))

\* zlib, the server's choice for large frames: an opaque form with a mark in front.
Deflated(b) == <<120>> \o b

\* decompress_if_required and decode_binary_node; what follows the node is ignored.
DecodeBinaryNode(buffer) ==
  IF buffer = <<>> THEN Fail
  ELSE IF (buffer[1] \div 2) % 2 = 0 THEN DecodeNode(Tail(buffer), 1)
  ELSE IF Len(buffer) > 1 /\ buffer[2] = 120 THEN DecodeNode(SubSeq(buffer, 3, Len(buffer)), 1)
  ELSE Fail

=============================================================================
