-------------------------------- MODULE Jids --------------------------------
(***************************************************************************)
(* Names of users and devices: binary/jids.py and models/jid.py.           *)
(*                                                                         *)
(* A string is a sequence of symbols.  A symbol is a character, or a word  *)
(* no rule looks into, such as the name of a server.  What may be None is  *)
(* a set of at most one element.                                           *)
(***************************************************************************)
EXTENDS Integers, Sequences, SequencesExt

Digits == <<"0", "1", "2", "3", "4", "5", "6", "7", "8", "9">>

Code(alphabet, c) == (CHOOSE i \in 1..Len(alphabet) : alphabet[i] = c) - 1
Over(alphabet, s) == ToSet(s) \subseteq ToSet(alphabet)

\* str(n)
Decimal[n \in Nat] ==
  IF n < 10 THEN <<Digits[n + 1]>> ELSE Append(Decimal[n \div 10], Digits[(n % 10) + 1])
Str(n) == IF n < 0 THEN <<"-">> \o Decimal[-n] ELSE Decimal[n]

\* _safe_int with the default None.  Of what int() reads, a sign or a space before the
\* digits and an underscore between them are left out but for the minus.
SafeInt(s) ==
  LET negative == s # <<>> /\ s[1] = "-"
      digits == IF negative THEN Tail(s) ELSE s
      n == FoldLeft(LAMBDA sum, c : 10 * sum + Code(Digits, c), 0, digits)
  IN  IF digits = <<>> \/ ~Over(Digits, digits) THEN {} ELSE {IF negative THEN -n ELSE n}

\* The parts of s around the first c.
First(s, c) == SelectInSeq(s, LAMBDA x : x = c)
Before(s, c) == IF c \in ToSet(s) THEN SubSeq(s, 1, First(s, c) - 1) ELSE s
After(s, c) == IF c \in ToSet(s) THEN SubSeq(s, First(s, c) + 1, Len(s)) ELSE <<>>

-----------------------------------------------------------------------------
WHATSAPP == 0
LID == 1
HOSTED == 128
HOSTED_LID == 129

Whatsapp == <<"s.whatsapp.net">>

\* server_from_domain_type, and the same table inside of _read_ad_jid.
ServerFromDomainType(initial_server, domain_type) ==
  CASE domain_type = LID -> <<"lid">>
    [] domain_type = HOSTED -> <<"hosted">>
    [] domain_type = HOSTED_LID -> <<"hosted.lid">>
    [] OTHER -> initial_server

Part(prefix, ns) == IF ns \subseteq {0} THEN <<>> ELSE <<prefix>> \o Str(CHOOSE n \in ns : TRUE)

\* jid_encode: neither an agent nor a device 0 is written.
JidEncode(user, server, device, agent) ==
  user \o Part("_", agent) \o Part(":", device) \o <<"@">> \o server

DomainType(server, agent) ==
  CASE server = <<"lid">> -> LID
    [] server = <<"hosted">> -> HOSTED
    [] server = <<"hosted.lid">> -> HOSTED_LID
    [] OTHER -> IF SafeInt(agent) = {} THEN WHATSAPP ELSE CHOOSE n \in SafeInt(agent) : TRUE

\* jid_decode: what follows a second ":" or "_" is lost.
JidDecode(s) ==
  IF "@" \notin ToSet(s) THEN {}
  ELSE LET combined == Before(s, "@")
           user_agent == Before(combined, ":")
       IN  {[user |-> Before(user_agent, "_"), server |-> After(s, "@"),
             device |-> SafeInt(Before(After(combined, ":"), ":")),
             domain_type |-> DomainType(After(s, "@"), Before(After(user_agent, "_"), "_"))]}

\* are_jids_same_user and JID.same_user
AreJidsSameUser(s, t) == \E a \in JidDecode(s), b \in JidDecode(t) : a.user = b.user

\* jid_normalized_user and JID.normalized
JidNormalizedUser(s) ==
  IF JidDecode(s) = {} THEN <<>>
  ELSE LET j == CHOOSE j \in JidDecode(s) : TRUE
       IN  JidEncode(j.user, IF j.server = <<"c.us">> THEN Whatsapp ELSE j.server, {}, {})

\* JID.parse and JID.__str__: {} is the ValueError.
Reparsed(s) == {JidEncode(j.user, j.server, j.device, {}) : j \in JidDecode(s)}

=============================================================================
