--------------------------- MODULE SendRelayProofs ---------------------------
(***************************************************************************)
(* For any number of calls, devices and lists: whatever sends overtake     *)
(* each other at, the stanzas leave in the order of their keys, no key     *)
(* encrypts twice, a group message can be read with what it announces, and *)
(* a stanza reaches every device it could.                                 *)
(***************************************************************************)
EXTENDS SendRelay, SequenceTheorems, FiniteSetTheorems, TLAPS

NodeType == [to : Devices, id : Nat, counter : Nat, pkmsg : BOOLEAN]
Started(d) == session[d] # NoSession

-----------------------------------------------------------------------------
\* Lemmas on sequences without repetitions.

LEMMA Enters ==
  ASSUME NEW S, NEW q \in Seq(S), NEW x \in S, IsInjective(q), x \notin Range(q)
  PROVE  /\ Append(q, x) \in Seq(S) /\ IsInjective(Append(q, x))
         /\ Range(Append(q, x)) = Range(q) \cup {x}
         /\ Len(Append(q, x)) = Len(q) + 1 /\ Len(q) \in Nat
         /\ \A i \in 1..Len(q) : Append(q, x)[i] = q[i]
         /\ Append(q, x)[Len(q) + 1] = x
<1>1. /\ Append(q, x) \in Seq(S) /\ Len(Append(q, x)) = Len(q) + 1 /\ Len(q) \in Nat
      /\ \A i \in 1..Len(q) : Append(q, x)[i] = q[i]
      /\ Append(q, x)[Len(q) + 1] = x
  BY AppendProperties
<1>2. Range(q) = {q[i] : i \in 1..Len(q)} BY RangeEquality
<1>3. Range(Append(q, x)) = {Append(q, x)[i] : i \in 1..(Len(q) + 1)}
  BY <1>1, RangeEquality
<1>4. DOMAIN q = 1..Len(q) /\ DOMAIN Append(q, x) = 1..(Len(q) + 1)
  BY <1>1, LenProperties
<1>5. IsInjective(Append(q, x))
  <2>. SUFFICES ASSUME NEW i \in 1..(Len(q) + 1), NEW j \in 1..(Len(q) + 1),
                       Append(q, x)[i] = Append(q, x)[j]
                PROVE  i = j
    BY <1>4 DEF IsInjective
  <2>1. i \in 1..Len(q) \/ i = Len(q) + 1 BY <1>1
  <2>2. j \in 1..Len(q) \/ j = Len(q) + 1 BY <1>1
  <2>. QED BY <1>1, <1>2, <1>4, <2>1, <2>2 DEF IsInjective
<1>6. Range(Append(q, x)) = Range(q) \cup {x} BY <1>1, <1>2, <1>3
<1>. QED BY <1>1, <1>5, <1>6

LEMMA Leaves ==
  ASSUME NEW S, NEW q \in Seq(S), q # <<>>, IsInjective(q)
  PROVE  /\ Head(q) \in Range(q) /\ Head(q) \in S
         /\ Tail(q) \in Seq(S) /\ IsInjective(Tail(q))
         /\ Range(Tail(q)) = Range(q) \ {Head(q)}
         /\ Head(q) = q[1] /\ Len(Tail(q)) = Len(q) - 1 /\ Len(q) \in Nat \ {0}
         /\ \A i \in 1..Len(Tail(q)) : Tail(q)[i] = q[i + 1]
<1>1. Len(q) \in Nat \ {0} /\ DOMAIN q = 1..Len(q) /\ Head(q) = q[1] OBVIOUS
<1>2. /\ Tail(q) \in Seq(S) /\ Len(Tail(q)) = Len(q) - 1
      /\ \A i \in 1..Len(Tail(q)) : Tail(q)[i] = q[i + 1]
  BY HeadTailProperties
<1>3. Range(q) = {q[i] : i \in 1..Len(q)} BY RangeEquality
<1>4. Range(Tail(q)) = {Tail(q)[i] : i \in 1..Len(Tail(q))} BY <1>2, RangeEquality
<1>5. DOMAIN Tail(q) = 1..Len(Tail(q)) BY <1>2, LenProperties
<1>6. IsInjective(Tail(q))
  <2>. SUFFICES ASSUME NEW i \in 1..Len(Tail(q)), NEW j \in 1..Len(Tail(q)),
                       Tail(q)[i] = Tail(q)[j]
                PROVE  i = j
    BY <1>5 DEF IsInjective
  <2>1. i + 1 \in 1..Len(q) /\ j + 1 \in 1..Len(q) BY <1>1, <1>2
  <2>2. q[i + 1] = q[j + 1] BY <1>2
  <2>3. i + 1 = j + 1 BY <1>1, <2>1, <2>2 DEF IsInjective
  <2>. QED BY <2>3
<1>7. Head(q) \in Range(q) BY <1>1, <1>3
<1>8. \A x \in Range(Tail(q)) : x \in Range(q) \ {Head(q)}
  <2>. SUFFICES ASSUME NEW i \in 1..Len(Tail(q))
                PROVE  Tail(q)[i] \in Range(q) /\ Tail(q)[i] # Head(q)
    BY <1>4
  <2>1. i + 1 \in 1..Len(q) /\ i + 1 # 1 /\ 1 \in 1..Len(q) BY <1>1, <1>2
  <2>. QED BY <1>1, <1>2, <1>3, <2>1 DEF IsInjective
<1>9. \A x \in Range(q) \ {Head(q)} : x \in Range(Tail(q))
  <2>. SUFFICES ASSUME NEW i \in 1..Len(q), q[i] # Head(q) PROVE q[i] \in Range(Tail(q))
    BY <1>3
  <2>1. i - 1 \in 1..Len(Tail(q)) BY <1>1, <1>2
  <2>2. Tail(q)[i - 1] = q[i] BY <1>1, <1>2, <2>1
  <2>. QED BY <1>4, <2>1, <2>2
<1>10. Head(q) \in S BY <1>1, ElementOfSeq
<1>. QED BY <1>1, <1>2, <1>6, <1>7, <1>8, <1>9, <1>10

LEMMA Joined ==
  ASSUME NEW S, NEW q \in Seq(S), NEW r \in Seq(S), NEW x \in S,
         Len(r) = Len(q) + 1, \A i \in 1..Len(q) : r[i] = q[i], r[Len(q) + 1] = x
  PROVE  q \o <<x>> = r
<1>1. <<x>> \in Seq(S) /\ Len(<<x>>) = 1 /\ <<x>>[1] = x /\ Len(q) \in Nat OBVIOUS
<1>2. /\ q \o <<x>> \in Seq(S) /\ Len(q \o <<x>>) = Len(q) + 1
      /\ \A i \in 1..(Len(q) + 1) : 
           (q \o <<x>>)[i] = IF i <= Len(q) THEN q[i] ELSE <<x>>[i - Len(q)]
  BY <1>1, ConcatProperties
<1>3. \A i \in 1..(Len(q) + 1) : (q \o <<x>>)[i] = r[i]
  <2>. SUFFICES ASSUME NEW i \in 1..(Len(q) + 1) PROVE (q \o <<x>>)[i] = r[i] OBVIOUS
  <2>1. CASE i <= Len(q)
    <3>1. i \in 1..Len(q) BY <1>1, <2>1
    <3>. QED BY <1>2, <2>1, <3>1
  <2>2. CASE i = Len(q) + 1
    <3>1. i - Len(q) = 1 /\ ~(i <= Len(q)) BY <1>1, <2>2
    <3>. QED BY <1>1, <1>2, <2>2, <3>1
  <2>. QED BY <1>1, <2>1, <2>2
<1>. QED BY <1>2, <1>3, SeqEqual


LEMMA Tuples ==
  /\ \A a, b : <<a>> \o <<b>> = <<a, b>>
  /\ \A a, b, c : <<a, b>> \o <<c>> = <<a, b, c>>
  /\ \A a, b, c, d : <<a, b, c>> \o <<d>> = <<a, b, c, d>>
<1>1. ASSUME NEW a, NEW b PROVE <<a>> \o <<b>> = <<a, b>>
  <2>. DEFINE S == {a, b}  q == <<a>>  r == <<a, b>>
  <2>1. /\ q \in Seq(S) /\ r \in Seq(S) /\ b \in S /\ Len(r) = Len(q) + 1
        /\ r[Len(q) + 1] = b /\ \A i \in 1..Len(q) : r[i] = q[i]
    OBVIOUS
  <2>. HIDE DEF S, q, r
  <2>2. q \o <<b>> = r BY <2>1, Joined
  <2>. QED BY <2>2 DEF q, r
<1>2. ASSUME NEW a, NEW b, NEW c PROVE <<a, b>> \o <<c>> = <<a, b, c>>
  <2>. DEFINE S == {a, b, c}  q == <<a, b>>  r == <<a, b, c>>
  <2>1. /\ q \in Seq(S) /\ r \in Seq(S) /\ c \in S /\ Len(r) = Len(q) + 1
        /\ r[Len(q) + 1] = c /\ \A i \in 1..Len(q) : r[i] = q[i]
    OBVIOUS
  <2>. HIDE DEF S, q, r
  <2>2. q \o <<c>> = r BY <2>1, Joined
  <2>. QED BY <2>2 DEF q, r
<1>3. ASSUME NEW a, NEW b, NEW c, NEW d PROVE <<a, b, c>> \o <<d>> = <<a, b, c, d>>
  <2>. DEFINE S == {a, b, c, d}  q == <<a, b, c>>  r == <<a, b, c, d>>
  <2>1. /\ q \in Seq(S) /\ r \in Seq(S) /\ d \in S /\ Len(r) = Len(q) + 1
        /\ r[Len(q) + 1] = d /\ \A i \in 1..Len(q) : r[i] = q[i]
    OBVIOUS
  <2>. HIDE DEF S, q, r
  <2>2. q \o <<d>> = r BY <2>1, Joined
  <2>. QED BY <2>2 DEF q, r
<1>. QED BY <1>1, <1>2, <1>3

-----------------------------------------------------------------------------
\* Sessions.

\* inject_sessions gives each device of B a session of its own, newer than any before.
LEMMA InjectedIsNew ==
  ASSUME TypeOK, NEW B \in SUBSET Devices
  PROVE  /\ Cardinality(B) \in Nat
         /\ Injected(B) \in
              [Devices -> [id : 0..(sessions + Cardinality(B)), next : Nat, pending : BOOLEAN]]
         /\ \A d \in B : /\ Injected(B)[d].id > sessions /\ Injected(B)[d].pending
                         /\ Injected(B)[d] # NoSession
         /\ \A d \in Devices \ B : Injected(B)[d] = session[d]
<1>. DEFINE n == Cardinality(B)
            order == SetToSeq(B)
            Place(d) == CHOOSE j \in 1..Len(order) : order[j] = d
<1>1. IsFiniteSet(B) BY SendRelayAssumption, FS_Subset
<1>2. n \in Nat /\ ExistsBijection(1..n, B) BY <1>1, FS_CardinalityType
<1>3. \E f \in [1..n -> B] : IsInjective(f)
  BY <1>2 DEF ExistsBijection, Bijection, Injection, IsInjective
<1>4. order \in [1..n -> B] /\ IsInjective(order) BY <1>3 DEF SetToSeq
<1>5. order \in Surjection(1..n, B)
  <2>1. order \in Injection(1..n, B) BY <1>4 DEF Injection
  <2>2. IsFiniteSet(1..n) /\ Cardinality(1..n) = n BY <1>2, FS_Interval
  <2>. QED BY <1>1, <2>1, <2>2, FS_Injection
<1>. HIDE DEF order, n
<1>6. Len(order) = n /\ \A d \in B : \E j \in 1..n : order[j] = d
  BY <1>2, <1>4, <1>5 DEF Surjection
<1>7. \A d \in B : Place(d) \in 1..n BY <1>6
<1>8. Injected(B) =
        [d \in Devices |->
           IF d \in B THEN [id |-> sessions + Place(d), next |-> 0, pending |-> TRUE]
           ELSE session[d]]
  BY DEF Injected, order
<1>. HIDE DEF Place
<1>9. sessions \in Nat
      /\ session \in [Devices -> [id : 0..sessions, next : Nat, pending : BOOLEAN]]
  BY DEF TypeOK
<1>10. ASSUME NEW d \in B
       PROVE  /\ Injected(B)[d] \in [id : 0..(sessions + n), next : Nat, pending : BOOLEAN]
              /\ Injected(B)[d].id > sessions /\ Injected(B)[d].pending
              /\ Injected(B)[d] # NoSession
  <2>. DEFINE id == sessions + Place(d)
  <2>1. id \in 0..(sessions + n) /\ id > sessions /\ id # 0 BY <1>2, <1>7, <1>9
  <2>2. Injected(B)[d] = [id |-> id, next |-> 0, pending |-> TRUE] BY <1>8
  <2>. HIDE DEF id
  <2>3. NoSession.id = 0 BY DEF NoSession
  <2>. QED BY <2>1, <2>2, <2>3
<1>12. \A d \in Devices \ B : Injected(B)[d] = session[d] BY <1>8
<1>13. \A d \in Devices :
         Injected(B)[d] \in [id : 0..(sessions + n), next : Nat, pending : BOOLEAN]
  <2>2. 0..sessions \subseteq 0..(sessions + n) BY <1>2, <1>9
  <2>3. \A d \in Devices \ B :
          Injected(B)[d] \in [id : 0..(sessions + n), next : Nat, pending : BOOLEAN]
    BY <1>9, <1>12, <2>2
  <2>. QED BY <1>10, <2>3
<1>14. DOMAIN Injected(B) = Devices /\ Injected(B) = [d \in Devices |-> Injected(B)[d]] BY <1>8
<1>15. Injected(B) \in [Devices -> [id : 0..(sessions + n), next : Nat, pending : BOOLEAN]]
  BY <1>13, <1>14
<1>. QED BY <1>2, <1>10, <1>12, <1>15 DEF n

\* A node is made with a key that its session moved past.
Passed(n) ==
  \/ n.id < session[n.to].id
  \/ n.id = session[n.to].id /\ n.counter < session[n.to].next

\* Sessions only move on, and one that was started stays so.
MovesOn ==
  /\ sessions' \in Nat
  /\ session' \in [Devices -> [id : 0..sessions', next : Nat, pending : BOOLEAN]]
  /\ \A d \in Devices :
       /\ \/ session[d].id < session'[d].id
          \/ session[d].id = session'[d].id /\ session[d].next <= session'[d].next
       /\ session'[d] # NoSession => Started(d) \/ session'[d].id > 0

\* The nodes of a call that encrypts now: one for each device that has a session or got
\* one, with a key no earlier node has.
LEMMA Encrypting ==
  ASSUME TypeOK, NEW t \in Sends, NEW B \in SUBSET Devices,
         list' \in [Sends -> SUBSET Devices], EncryptWith(t, B)
  PROVE  /\ MovesOn
         /\ DOMAIN stanza' = Sends /\ \A u \in Sends \ {t} : stanza'[u] = stanza[u]
         /\ stanza'[t].to \subseteq NodeType /\ stanza'[t].refused = need'[t] \ B
         /\ \A n \in stanza'[t].to :
              /\ n.to \in Targets(t, list'[t])
              /\ \/ session[n.to].id < n.id
                 \/ session[n.to].id = n.id /\ session[n.to].next <= n.counter
              /\ n.id = session'[n.to].id /\ n.counter < session'[n.to].next
         /\ \A d \in Targets(t, list'[t]) :
              Started(d) \/ d \in B => \E n \in stanza'[t].to : n.to = d
<1>. DEFINE s == Injected(B)
            D == Targets(t, list'[t])
            N == Nodes(s, D)
<1>1. /\ sessions' = sessions + Cardinality(B) /\ session' = Moved(s, D)
      /\ stanza' = [stanza EXCEPT ![t] = [to |-> N, refused |-> need'[t] \ B]]
  BY DEF EncryptWith, For
<1>2. D \subseteq Devices BY DEF Targets
<1>3. /\ Cardinality(B) \in Nat
      /\ s \in [Devices -> [id : 0..(sessions + Cardinality(B)), next : Nat, pending : BOOLEAN]]
      /\ \A d \in B : s[d].id > sessions /\ s[d].pending /\ s[d] # NoSession
      /\ \A d \in Devices \ B : s[d] = session[d]
  BY InjectedIsNew
<1>4. sessions \in Nat
      /\ session \in [Devices -> [id : 0..sessions, next : Nat, pending : BOOLEAN]]
      /\ DOMAIN stanza = Sends
  BY DEF TypeOK
<1>. HIDE DEF s, D
<1>5. \A d \in Devices :
        session'[d] = IF d \in D /\ s[d] # NoSession THEN [s[d] EXCEPT !.next = @ + 1]
                      ELSE s[d]
  BY <1>1 DEF Moved
<1>6. DOMAIN session' = Devices /\ session' = [d \in Devices |-> session'[d]]
  BY <1>1 DEF Moved
<1>7. \A d \in Devices :
        /\ session'[d] \in [id : 0..sessions', next : Nat, pending : BOOLEAN]
        /\ session'[d].id = s[d].id
        /\ session'[d].next = IF d \in D /\ s[d] # NoSession THEN s[d].next + 1 ELSE s[d].next
  <2>. SUFFICES ASSUME NEW d \in Devices
                PROVE  /\ session'[d] \in [id : 0..sessions', next : Nat, pending : BOOLEAN]
                       /\ session'[d].id = s[d].id
                       /\ session'[d].next = IF d \in D /\ s[d] # NoSession
                                             THEN s[d].next + 1 ELSE s[d].next
    OBVIOUS
  <2>1. s[d] \in [id : 0..sessions', next : Nat, pending : BOOLEAN] BY <1>1, <1>3
  <2>2. s[d].next + 1 \in Nat BY <2>1
  <2>3. [s[d] EXCEPT !.next = s[d].next + 1] \in [id : 0..sessions', next : Nat, pending : BOOLEAN]
    BY <2>1, <2>2
  <2>. QED BY <1>5, <2>1, <2>3
<1>9. MovesOn
  <2>1. session' \in [Devices -> [id : 0..sessions', next : Nat, pending : BOOLEAN]]
    BY <1>6, <1>7
  <2>2. sessions' \in Nat BY <1>1, <1>3, <1>4
  <2>3. ASSUME NEW d \in Devices
        PROVE  /\ \/ session[d].id < session'[d].id
                  \/ session[d].id = session'[d].id /\ session[d].next <= session'[d].next
               /\ session'[d] # NoSession => Started(d) \/ session'[d].id > 0
    <3>1. CASE d \in B
      <4>1. session[d].id <= sessions /\ session[d].id \in Nat BY <1>4
      <4>2. session'[d].id > sessions BY <1>3, <1>7, <3>1
      <4>3. session'[d].id \in Nat BY <1>7, <2>2
      <4>. QED BY <1>4, <4>1, <4>2, <4>3
    <3>2. CASE d \notin B
      <4>1. s[d] = session[d] BY <1>3, <3>2
      <4>2. session[d].id \in Nat /\ session[d].next \in Nat BY <1>4
      <4>3. session'[d] # NoSession => Started(d) BY <1>5, <4>1 DEF Started
      <4>. QED BY <1>7, <4>1, <4>2, <4>3
    <3>. QED BY <3>1, <3>2
  <2>. QED BY <2>1, <2>2, <2>3 DEF MovesOn
<1>10. N = {Node(s, d) : d \in {d \in D : s[d] # NoSession}} BY DEF Nodes
<1>11. stanza'[t] = [to |-> N, refused |-> need'[t] \ B]
  BY <1>1, <1>4
<1>12. ASSUME NEW d \in D, s[d] # NoSession
       PROVE  LET n == Node(s, d)
              IN  /\ n \in NodeType /\ n.to = d
                  /\ \/ session[d].id < n.id
                     \/ session[d].id = n.id /\ session[d].next <= n.counter
                  /\ n.id = session'[d].id /\ n.counter < session'[d].next
  <2>1. d \in Devices BY <1>2 DEF D
  <2>2. /\ s[d].id \in Nat /\ s[d].next \in Nat /\ s[d].pending \in BOOLEAN
        /\ session[d].id \in 0..sessions /\ session[d].next \in Nat
    BY <1>3, <1>4, <2>1
  <2>3. CASE d \in B BY <1>3, <1>4, <1>7, <1>12, <2>1, <2>2, <2>3 DEF Node, NodeType
  <2>4. CASE d \notin B
    <3>1. s[d] = session[d] BY <1>3, <2>1, <2>4
    <3>. QED BY <1>7, <1>12, <2>1, <2>2, <3>1 DEF Node, NodeType
  <2>. QED BY <2>3, <2>4
<1>13. \A n \in N : \E d \in D : s[d] # NoSession /\ n = Node(s, d) BY <1>10
<1>14. \A n \in N :
         /\ n \in NodeType /\ n.to \in D
         /\ \/ session[n.to].id < n.id
            \/ session[n.to].id = n.id /\ session[n.to].next <= n.counter
         /\ n.id = session'[n.to].id /\ n.counter < session'[n.to].next
  BY <1>12, <1>13
<1>15. ASSUME NEW d \in D, Started(d) \/ d \in B PROVE \E n \in N : n.to = d
  <2>1. s[d] # NoSession BY <1>2, <1>3, <1>15 DEF Started, D
  <2>2. Node(s, d) \in N BY <1>10, <2>1
  <2>. QED BY <1>12, <2>1, <2>2
<1>. HIDE DEF N
<1>16. stanza'[t].to = N /\ stanza'[t].refused = need'[t] \ B
  BY <1>11
<1>17. DOMAIN stanza' = Sends /\ \A u \in Sends \ {t} : stanza'[u] = stanza[u]
  BY <1>1, <1>4
<1>. QED BY <1>9, <1>14, <1>15, <1>16, <1>17 DEF D

\* An answer drops the pending pre-key and nothing else.
LEMMA Answering ==
  ASSUME TypeOK, NEW d \in Devices, DeviceAnswers(d)
  PROVE  /\ session' \in [Devices -> [id : 0..sessions, next : Nat, pending : BOOLEAN]]
         /\ \A e \in Devices :
              /\ session'[e].id = session[e].id /\ session'[e].next = session[e].next
              /\ session'[e] # NoSession => Started(e)
<1>1. session \in [Devices -> [id : 0..sessions, next : Nat, pending : BOOLEAN]] BY DEF TypeOK
<1>2. session' = [session EXCEPT ![d] = [session[d] EXCEPT !.pending = FALSE]]
      /\ session[d].pending
  BY DEF DeviceAnswers
<1>. DEFINE T == [id : 0..sessions, next : Nat, pending : BOOLEAN]
            x == [session[d] EXCEPT !.pending = FALSE]
<1>3. session[d] \in T BY <1>1
<1>4. x \in T /\ x.id = session[d].id /\ x.next = session[d].next BY <1>3
<1>5. session[d] # NoSession BY <1>2 DEF NoSession
<1>. HIDE DEF T, x
<1>6. session' = [session EXCEPT ![d] = x] BY <1>2 DEF x
<1>7. session' \in [Devices -> T] BY <1>1, <1>4, <1>6 DEF T
<1>8. \A e \in Devices :
        /\ session'[e].id = session[e].id /\ session'[e].next = session[e].next
        /\ session'[e] # NoSession => Started(e)
  BY <1>1, <1>4, <1>5, <1>6 DEF Started
<1>. QED BY <1>7, <1>8 DEF T

-----------------------------------------------------------------------------
\* Types.

\* The questions a call can have left: with its metadata to come, without a group part,
\* and after it.
BeforeBody == {<<"media_conn", "upload", "metadata", "usync">>,
               <<"upload", "metadata", "usync">>, <<"metadata", "usync">>}
NoGroup == {<<"media_conn", "upload", "usync">>, <<"upload", "usync">>}
AfterBody == {<<"usync">>, <<"bundles">>}

AskInv ==
  /\ DOMAIN todo = Sends
  /\ \A t \in Sends : task[t] = "asking" =>
       /\ todo[t] \in BeforeBody \cup NoGroup \cup AfterBody
       /\ t \in Groups => todo[t] \notin NoGroup

Typed == TypeOK /\ AskInv

LEMMA Questioned ==
  ASSUME NEW t \in Sends
  PROVE  /\ Questions(t) \in BeforeBody \cup NoGroup \cup AfterBody
         /\ t \in Groups => Questions(t) \notin NoGroup
         /\ Questions(t) # <<"bundles">>
         /\ t \in Groups => Questions(t) \in BeforeBody
<1>1. CASE t \in Media /\ t \in Groups
  <2>1. <<"media_conn", "upload">> \o <<"metadata">> = <<"media_conn", "upload", "metadata">>
    BY Tuples
  <2>2. <<"media_conn", "upload", "metadata">> \o <<"usync">>
          = <<"media_conn", "upload", "metadata", "usync">>
    BY Tuples
  <2>3. Questions(t) = <<"media_conn", "upload", "metadata", "usync">>
    BY <1>1, <2>1, <2>2 DEF Questions
  <2>. QED BY <2>3 DEF BeforeBody, NoGroup
<1>2. CASE t \in Media /\ t \notin Groups
  <2>1. <<"media_conn", "upload">> \o <<>> = <<"media_conn", "upload">> OBVIOUS
  <2>2. <<"media_conn", "upload">> \o <<"usync">> = <<"media_conn", "upload", "usync">>
    BY Tuples
  <2>3. Questions(t) = <<"media_conn", "upload", "usync">>
    BY <1>2, <2>1, <2>2 DEF Questions
  <2>. QED BY <1>2, <2>3 DEF NoGroup
<1>3. CASE t \notin Media /\ t \in Groups
  <2>1. <<>> \o <<"metadata">> = <<"metadata">> OBVIOUS
  <2>2. <<"metadata">> \o <<"usync">> = <<"metadata", "usync">> BY Tuples
  <2>3. Questions(t) = <<"metadata", "usync">> BY <1>3, <2>1, <2>2 DEF Questions
  <2>. QED BY <2>3 DEF BeforeBody, NoGroup
<1>4. CASE t \notin Media /\ t \notin Groups
  <2>1. <<>> \o <<>> = <<>> /\ <<>> \o <<"usync">> = <<"usync">> OBVIOUS
  <2>2. Questions(t) = <<"usync">> BY <1>4, <2>1 DEF Questions
  <2>. QED BY <1>4, <2>2 DEF AfterBody
<1>. QED BY <1>1, <1>2, <1>3, <1>4

\* What is left after a question that is carried on, or after the metadata.
LEMMA Carried ==
  ASSUME NEW q \in BeforeBody \cup NoGroup \cup AfterBody
  PROVE  /\ q # <<>>
         /\ Head(q) \in {"media_conn", "upload"} =>
              /\ Tail(q) \in BeforeBody \cup NoGroup \cup {<<"usync">>}
              /\ q \in BeforeBody => Tail(q) \in BeforeBody
              /\ q \notin AfterBody
         /\ Head(q) = "metadata" => Tail(q) = <<"usync">>
         /\ Head(q) \in {"usync", "bundles"} => q \in AfterBody
<1>1. CASE q = <<"media_conn", "upload", "metadata", "usync">>
  BY <1>1 DEF BeforeBody, NoGroup, AfterBody
<1>2. CASE q = <<"upload", "metadata", "usync">> BY <1>2 DEF BeforeBody, NoGroup, AfterBody
<1>3. CASE q = <<"metadata", "usync">> BY <1>3 DEF BeforeBody, NoGroup, AfterBody
<1>4. CASE q = <<"media_conn", "upload", "usync">>
  BY <1>4 DEF BeforeBody, NoGroup, AfterBody
<1>5. CASE q = <<"upload", "usync">> BY <1>5 DEF BeforeBody, NoGroup, AfterBody
<1>6. CASE q \in AfterBody BY <1>6 DEF AfterBody
<1>. QED BY <1>1, <1>2, <1>3, <1>4, <1>5, <1>6 DEF BeforeBody, NoGroup

LEMMA InitTyped == Init => Typed
<1>. SUFFICES ASSUME Init PROVE Typed
  OBVIOUS
<1>1. Range(<<>>) = {} /\ IsInjective(<<>>) /\ <<>> \in Seq(Sends) BY DEF Range, IsInjective
<1>2. NoBody \in [skdm : Nat, skmsg : Nat] BY DEF NoBody
<1>3. NoSession \in [id : 0..0, next : Nat, pending : BOOLEAN] BY DEF NoSession
<1>4. NoStanza.to = {} BY DEF NoStanza
<1>5. AskInv BY DEF Init, AskInv
<1>6. TypeOK BY <1>1, <1>2, <1>3, <1>4 DEF Init, TypeOK, Ended
<1>. QED BY <1>5, <1>6 DEF Typed

\* A call that encrypts goes to the lock with its stanza.
LEMMA EncryptTyped ==
  ASSUME Typed, NEW t \in Sends, NEW B \in SUBSET Devices, task[t] = "asking",
         {list', need'} \subseteq [Sends -> SUBSET Devices], EncryptWith(t, B),
         todo' = [todo EXCEPT ![t] = <<>>], UNCHANGED <<body, chain, wire, online>>
  PROVE  Typed'
<1>0. TypeOK /\ AskInv BY DEF Typed
<1>1. /\ MovesOn
      /\ DOMAIN stanza' = Sends /\ \A u \in Sends \ {t} : stanza'[u] = stanza[u]
      /\ stanza'[t].to \subseteq NodeType
  BY <1>0, Encrypting
<1>2. task' = [task EXCEPT ![t] = "sending"] /\ line' = Append(line, t)
  BY DEF EncryptWith, Queued
<1>3. t \notin Range(line) /\ t \notin Range(wire) BY <1>0 DEF TypeOK
<1>4. line' \in Seq(Sends) /\ IsInjective(line') /\ Range(line') = Range(line) \cup {t}
  BY <1>0, <1>2, <1>3, Enters DEF TypeOK
<1>5. /\ task' \in [Sends -> {"idle", "asking", "sending"} \cup Ended]
      /\ Range(line') = {u \in Sends : task'[u] = "sending"}
      /\ Range(wire') = {u \in Sends : task'[u] = "returned"}
  BY <1>0, <1>2, <1>4 DEF TypeOK
<1>6. \A u \in Sends : task'[u] = "asking" <=> todo'[u] # <<>>
  BY <1>0, <1>2 DEF TypeOK, AskInv
<1>7. \A u \in Sends :
        /\ stanza'[u].to \subseteq NodeType
        /\ stanza'[u] # NoStanza => task'[u] \in {"sending"} \cup Ended
  <2>1. ASSUME NEW u \in Sends, u # t
        PROVE  /\ stanza'[u].to \subseteq NodeType
               /\ stanza'[u] # NoStanza => task'[u] \in {"sending"} \cup Ended
    BY <1>0, <1>1, <1>2, <2>1 DEF TypeOK, NodeType
  <2>2. task'[t] = "sending" BY <1>0, <1>2 DEF TypeOK
  <2>. QED BY <1>1, <2>1, <2>2
<1>8. AskInv' BY <1>0, <1>2 DEF AskInv, TypeOK
<1>9. TypeOK' BY <1>0, <1>1, <1>4, <1>5, <1>6, <1>7 DEF TypeOK, MovesOn, NodeType
<1>. QED BY <1>8, <1>9 DEF Typed

\* The device list of a call and the devices it still needs.
LEMMA DevicesTyped ==
  ASSUME TypeOK, NEW t \in Sends, GotDevices(t)
  PROVE  /\ list' \in [Sends -> SUBSET Devices] /\ need' \in [Sends -> SUBSET Devices]
         /\ need'[t] = {d \in Targets(t, list'[t]) : session[d] = NoSession}
         /\ \A u \in Sends \ {t} : list'[u] = list[u] /\ need'[u] = need[u]
<1>1. PICK L \in {Listed[t], {}} : list' = [list EXCEPT ![t] = L] BY DEF GotDevices
<1>2. L \subseteq Devices BY SendRelayAssumption
<1>3. list' \in [Sends -> SUBSET Devices] /\ list'[t] = L BY <1>1, <1>2 DEF TypeOK
<1>4. Targets(t, L) \subseteq Devices BY <1>2 DEF Targets
<1>. DEFINE n == {d \in Targets(t, L) : session[d] = NoSession}
<1>5. need' = [need EXCEPT ![t] = n] BY <1>3 DEF GotDevices
<1>6. n \subseteq Devices BY <1>4
<1>7. need \in [Sends -> SUBSET Devices] /\ list \in [Sends -> SUBSET Devices] BY DEF TypeOK
<1>. HIDE DEF n
<1>8. need' \in [Sends -> SUBSET Devices] /\ need'[t] = n BY <1>5, <1>6, <1>7
<1>9. \A u \in Sends \ {t} : list'[u] = list[u] /\ need'[u] = need[u] BY <1>1, <1>5, <1>7
<1>. QED BY <1>3, <1>8, <1>9 DEF n

LEMMA StepTyped == Typed /\ [Next]_vars => Typed'
<1>. SUFFICES ASSUME Typed, [Next]_vars PROVE Typed'
  OBVIOUS
<1>0. TypeOK /\ AskInv BY DEF Typed
<1>1. ASSUME NEW t \in Sends, Send(t) PROVE Typed'
  <2>1. AskInv' BY <1>0, <1>1, Questioned DEF Send, AskInv, TypeOK
  <2>2. Questions(t) # <<>> BY Questioned, Carried
  <2>3. TypeOK' BY <1>0, <1>1, <2>2 DEF Send, AskInv, TypeOK, Ended
  <2>. QED BY <2>1, <2>3 DEF Typed
<1>2. ASSUME NEW t \in Sends, Goes(t) PROVE Typed'
  <2>1. /\ Tail(todo[t]) \in BeforeBody \cup NoGroup \cup {<<"usync">>}
        /\ t \in Groups => Tail(todo[t]) \notin NoGroup
    <3>1. todo[t] \in BeforeBody \cup NoGroup \cup AfterBody
      BY <1>0, <1>2 DEF Goes, AskInv
    <3>2. t \in Groups => todo[t] \in BeforeBody
      BY <1>0, <1>2, <3>1, Carried DEF Goes, AskInv
    <3>3. \A q \in BeforeBody : q \notin NoGroup BY DEF BeforeBody, NoGroup
    <3>. QED BY <1>2, <3>1, <3>2, <3>3, Carried DEF Goes
  <2>2. <<"usync">> \in AfterBody BY DEF AfterBody
  <2>3. AskInv' BY <1>0, <1>2, <2>1, <2>2 DEF Goes, AskInv
  <2>4. Tail(todo[t]) # <<>> BY <2>1, <2>2, Carried
  <2>5. TypeOK' BY <1>0, <1>2, <2>4 DEF Goes, AskInv, TypeOK
  <2>. QED BY <2>3, <2>5 DEF Typed
<1>3. ASSUME NEW t \in Sends, GotMetadata(t) PROVE Typed'
  <2>1. Tail(todo[t]) = <<"usync">> /\ <<"usync">> \in AfterBody /\ <<"usync">> \notin NoGroup
    <3>1. <<"usync">> \in AfterBody /\ <<"usync">> \notin NoGroup BY DEF AfterBody, NoGroup
    <3>. QED BY <1>0, <1>3, <3>1, Carried DEF GotMetadata, AskInv
  <2>2. AskInv' BY <1>0, <1>3, <2>1 DEF GotMetadata, AskInv
  <2>3. Tail(todo[t]) # <<>> BY <2>1
  <2>4. Announced \in Nat /\ NextIteration \in Nat
    BY <1>0 DEF Announced, NextIteration, TypeOK
  <2>5. body' \in [Sends -> [skdm : Nat, skmsg : Nat]]
    BY <1>0, <1>3, <2>4 DEF GotMetadata, TypeOK
  <2>6. chain' \in Nat BY <1>3, <2>4 DEF GotMetadata
  <2>7. \A u \in Sends : task'[u] = "asking" <=> todo'[u] # <<>>
    <3>1. /\ todo' = [todo EXCEPT ![t] = Tail(todo[t])] /\ task' = task
          /\ task[t] = "asking"
      BY <1>3 DEF GotMetadata
    <3>2. \A u \in Sends : task[u] = "asking" <=> todo[u] # <<>> BY <1>0 DEF TypeOK
    <3>3. DOMAIN todo = Sends BY <1>0 DEF AskInv
    <3>. QED BY <2>3, <3>1, <3>2, <3>3
  <2>8. UNCHANGED <<task, list, need, stanza, session, sessions, line, wire, online>>
    BY <1>3 DEF GotMetadata
  <2>9. TypeOK' BY <1>0, <2>5, <2>6, <2>7, <2>8 DEF TypeOK
  <2>. QED BY <2>2, <2>9 DEF Typed
<1>4. ASSUME NEW t \in Sends, GotDevices(t) PROVE Typed'
  <2>1. {list', need'} \subseteq [Sends -> SUBSET Devices] BY <1>0, <1>4, DevicesTyped
  <2>5. CASE need'[t] = {}
    BY <1>0, <1>4, <2>1, <2>5, EncryptTyped DEF GotDevices, Typed
  <2>6. CASE need'[t] # {}
    <3>1. /\ todo' = [todo EXCEPT ![t] = <<"bundles">>]
          /\ UNCHANGED <<task, stanza, session, sessions, line, body, chain, wire, online>>
      BY <1>4, <2>6 DEF GotDevices
    <3>2. <<"bundles">> \in AfterBody /\ <<"bundles">> \notin NoGroup BY DEF AfterBody, NoGroup
    <3>3. task[t] = "asking" BY <1>4 DEF GotDevices
    <3>4. AskInv' BY <1>0, <3>1, <3>2, <3>3 DEF AskInv
    <3>5. <<"bundles">> # <<>> OBVIOUS
    <3>6. TypeOK' BY <1>0, <2>1, <3>1, <3>3, <3>5 DEF TypeOK, AskInv
    <3>. QED BY <3>4, <3>6 DEF Typed
  <2>. QED BY <2>5, <2>6
<1>5. ASSUME NEW t \in Sends, GotBundles(t) PROVE Typed'
  <2>1. PICK B \in SUBSET need[t] : EncryptWith(t, B) BY <1>5 DEF GotBundles
  <2>2. B \in SUBSET Devices BY <1>0 DEF TypeOK
  <2>. QED BY <1>0, <1>5, <2>1, <2>2, EncryptTyped DEF GotBundles, TypeOK, Typed
<1>6. ASSUME NEW t \in Sends, BundleRefused(t) PROVE Typed'
  <2>1. PICK B \in SUBSET need[t] :
               session' = Injected(B) /\ sessions' = sessions + Cardinality(B)
    BY <1>6 DEF BundleRefused
  <2>2. B \in SUBSET Devices BY <1>0 DEF TypeOK
  <2>3. sessions' \in Nat
        /\ session' \in [Devices -> [id : 0..sessions', next : Nat, pending : BOOLEAN]]
    <3>1. /\ Cardinality(B) \in Nat
          /\ Injected(B) \in
               [Devices -> [id : 0..(sessions + Cardinality(B)), next : Nat, pending : BOOLEAN]]
      BY <1>0, <2>2, InjectedIsNew
    <3>2. sessions \in Nat BY <1>0 DEF TypeOK
    <3>. QED BY <2>1, <3>1, <3>2
  <2>4. AskInv' BY <1>0, <1>6 DEF BundleRefused, AskInv, TypeOK
  <2>5. TypeOK' BY <1>0, <1>6, <2>3 DEF BundleRefused, TypeOK, AskInv, Ended
  <2>. QED BY <2>4, <2>5 DEF Typed
<1>7. ASSUME NEW t \in Sends, Fails(t) PROVE Typed'
  <2>1. AskInv' BY <1>0, <1>7 DEF Fails, AskInv, TypeOK
  <2>2. TypeOK' BY <1>0, <1>7 DEF Fails, TypeOK, AskInv, Ended
  <2>. QED BY <2>1, <2>2 DEF Typed
<1>8. CASE Writes
  <2>1. /\ Head(line) \in Range(line) /\ Head(line) \in Sends
        /\ Tail(line) \in Seq(Sends) /\ IsInjective(Tail(line))
        /\ Range(Tail(line)) = Range(line) \ {Head(line)}
    BY <1>0, <1>8, Leaves DEF Writes, TypeOK
  <2>. DEFINE t == Head(line)
  <2>2. task[t] = "sending" /\ t \notin Range(wire) BY <1>0, <2>1 DEF TypeOK
  <2>3. /\ Append(wire, t) \in Seq(Sends) /\ IsInjective(Append(wire, t))
        /\ Range(Append(wire, t)) = Range(wire) \cup {t}
    BY <1>0, <2>1, <2>2, Enters DEF TypeOK
  <2>4. /\ line' = Tail(line) /\ UNCHANGED <<todo, list, need, body, stanza, session, sessions,
                                            chain, online>>
        /\ \/ wire' = Append(wire, t) /\ task' = [task EXCEPT ![t] = "returned"]
           \/ wire' = wire /\ task' = [task EXCEPT ![t] = "raised"]
    BY <1>8 DEF Writes, Released
  <2>. HIDE DEF t
  <2>5. /\ task' \in [Sends -> {"idle", "asking", "sending"} \cup Ended]
        /\ \A u \in Sends : task'[u] = "asking" <=> task[u] = "asking"
        /\ \A u \in Sends : task'[u] \in Ended \/ (u # t /\ task'[u] = task[u])
    BY <1>0, <2>1, <2>2, <2>4 DEF TypeOK, Ended, t
  <2>6. AskInv' BY <1>0, <2>4, <2>5 DEF AskInv
  <2>7. /\ line' \in Seq(Sends) /\ IsInjective(line')
        /\ wire' \in Seq(Sends) /\ IsInjective(wire')
    BY <1>0, <2>1, <2>3, <2>4 DEF TypeOK
  <2>8. Range(line') = {u \in Sends : task'[u] = "sending"}
    <3>1. Range(line') = {u \in Sends : task[u] = "sending"} \ {t}
      BY <1>0, <2>1, <2>4 DEF TypeOK, t
    <3>2. \A u \in Sends : task'[u] = "sending" <=> task[u] = "sending" /\ u # t
      <4>1. task' = [task EXCEPT ![t] = "returned"] \/ task' = [task EXCEPT ![t] = "raised"]
        BY <2>4
      <4>. QED BY <1>0, <4>1 DEF TypeOK
    <3>. QED BY <3>1, <3>2
  <2>9. Range(wire') = {u \in Sends : task'[u] = "returned"}
    <3>1. Range(wire) = {u \in Sends : task[u] = "returned"} /\ DOMAIN task = Sends
      BY <1>0 DEF TypeOK
    <3>2. t \in Sends BY <2>1 DEF t
    <3>3. CASE wire' = Append(wire, t) /\ task' = [task EXCEPT ![t] = "returned"]
      BY <2>3, <3>1, <3>2, <3>3
    <3>4. CASE wire' = wire /\ task' = [task EXCEPT ![t] = "raised"]
      BY <2>2, <3>1, <3>2, <3>4
    <3>. QED BY <2>4, <3>3, <3>4
  <2>10. \A u \in Sends : stanza'[u] # NoStanza => task'[u] \in {"sending"} \cup Ended
    BY <1>0, <2>4, <2>5 DEF TypeOK
  <2>11. \A u \in Sends : task'[u] = "asking" <=> todo'[u] # <<>>
    BY <1>0, <2>4, <2>5 DEF TypeOK
  <2>12. UNCHANGED <<todo, list, need, body, stanza, session, sessions, chain, online>>
    BY <2>4
  <2>13. task' \in [Sends -> {"idle", "asking", "sending"} \cup Ended] BY <2>5
  <2>. HIDE DEF t
  <2>14. /\ ({list, need} \subseteq [Sends -> SUBSET Devices])'
         /\ (body \in [Sends -> [skdm : Nat, skmsg : Nat]])'
         /\ (session \in [Devices -> [id : 0..sessions, next : Nat, pending : BOOLEAN]])'
         /\ (sessions \in Nat /\ chain \in Nat /\ online \in BOOLEAN)'
    BY <1>0, <2>12 DEF TypeOK
  <2>15. (DOMAIN stanza = Sends)' /\ \A u \in Sends : (stanza[u].to \subseteq NodeType)'
    BY <1>0, <2>12 DEF TypeOK, NodeType
  <2>16. TypeOK' BY <2>7, <2>8, <2>9, <2>10, <2>11, <2>13, <2>14, <2>15 DEF TypeOK, NodeType
  <2>. QED BY <2>6, <2>16 DEF Typed
<1>9. ASSUME NEW d \in Devices, DeviceAnswers(d) PROVE Typed'
  <2>1. AskInv' BY <1>0, <1>9 DEF DeviceAnswers, AskInv
  <2>2. session' \in [Devices -> [id : 0..sessions, next : Nat, pending : BOOLEAN]]
    BY <1>0, <1>9, Answering
  <2>3. UNCHANGED <<todo, task, list, need, body, stanza, sessions, chain, line, wire, online>>
    BY <1>9 DEF DeviceAnswers
  <2>4. TypeOK' BY <1>0, <2>2, <2>3 DEF TypeOK
  <2>. QED BY <2>1, <2>4 DEF Typed
<1>10. CASE Lost BY <1>0, <1>10 DEF Lost, Typed, TypeOK, AskInv
<1>11. CASE UNCHANGED vars BY <1>0, <1>11 DEF vars, Typed, TypeOK, AskInv
<1>. QED
  BY <1>1, <1>2, <1>3, <1>4, <1>5, <1>6, <1>7, <1>8, <1>9, <1>10, <1>11 DEF Next, Answer

\* Every call at the lock is in the line once, and every stanza on the wire is of a call
\* that returned.
THEOREM SendRelayTyped == Spec => []TypeOK
<1>1. Typed => TypeOK BY DEF Typed
<1>. QED BY <1>1, InitTyped, StepTyped, PTL DEF Spec

\* In no step does a session go back.
LEMMA StepMovesOn == Typed /\ [Next]_vars => MovesOn
<1>. SUFFICES ASSUME Typed, [Next]_vars PROVE MovesOn
  OBVIOUS
<1>0. TypeOK BY DEF Typed
<1>1. sessions \in Nat
      /\ session \in [Devices -> [id : 0..sessions, next : Nat, pending : BOOLEAN]]
  BY <1>0 DEF TypeOK
<1>2. ASSUME UNCHANGED <<session, sessions>> PROVE MovesOn BY <1>1, <1>2 DEF MovesOn, Started
<1>3. ASSUME NEW t \in Sends, Send(t) \/ Goes(t) \/ GotMetadata(t) \/ Fails(t) PROVE MovesOn
  BY <1>2, <1>3 DEF Send, Goes, GotMetadata, Fails
<1>4. ASSUME NEW t \in Sends, GotDevices(t) PROVE MovesOn
  <2>1. CASE need'[t] = {}
    BY <1>0, <1>4, <2>1, DevicesTyped, Encrypting DEF GotDevices
  <2>2. CASE need'[t] # {} BY <1>2, <1>4, <2>2 DEF GotDevices
  <2>. QED BY <2>1, <2>2
<1>5. ASSUME NEW t \in Sends, GotBundles(t) PROVE MovesOn
  <2>1. PICK B \in SUBSET need[t] : EncryptWith(t, B) BY <1>5 DEF GotBundles
  <2>2. B \in SUBSET Devices /\ list \in [Sends -> SUBSET Devices] BY <1>0 DEF TypeOK
  <2>. QED BY <1>0, <1>5, <2>1, <2>2, Encrypting DEF GotBundles
<1>6. ASSUME NEW t \in Sends, BundleRefused(t) PROVE MovesOn
  <2>1. PICK B \in SUBSET need[t] :
               session' = Injected(B) /\ sessions' = sessions + Cardinality(B)
    BY <1>6 DEF BundleRefused
  <2>2. B \in SUBSET Devices BY <1>0 DEF TypeOK
  <2>3. /\ Cardinality(B) \in Nat
        /\ session' \in
             [Devices -> [id : 0..(sessions + Cardinality(B)), next : Nat, pending : BOOLEAN]]
        /\ \A d \in B : session'[d].id > sessions
        /\ \A d \in Devices \ B : session'[d] = session[d]
    BY <1>0, <2>1, <2>2, InjectedIsNew
  <2>4. sessions' \in Nat
        /\ session' \in [Devices -> [id : 0..sessions', next : Nat, pending : BOOLEAN]]
    BY <1>1, <2>1, <2>3
  <2>5. ASSUME NEW d \in Devices
        PROVE  /\ \/ session[d].id < session'[d].id
                  \/ session[d].id = session'[d].id /\ session[d].next <= session'[d].next
               /\ session'[d] # NoSession => Started(d) \/ session'[d].id > 0
    <3>1. session[d].id \in 0..sessions /\ session[d].next \in Nat BY <1>1
    <3>2. session'[d].id \in Nat BY <2>4
    <3>3. CASE d \in B BY <1>1, <2>3, <3>1, <3>2, <3>3
    <3>4. CASE d \notin B BY <2>3, <3>1, <3>4 DEF Started
    <3>. QED BY <3>3, <3>4
  <2>. QED BY <2>4, <2>5 DEF MovesOn
<1>7. CASE Writes BY <1>2, <1>7 DEF Writes
<1>8. ASSUME NEW d \in Devices, DeviceAnswers(d) PROVE MovesOn
  <2>1. /\ session' \in [Devices -> [id : 0..sessions, next : Nat, pending : BOOLEAN]]
        /\ \A e \in Devices :
             /\ session'[e].id = session[e].id /\ session'[e].next = session[e].next
             /\ session'[e] # NoSession => Started(e)
    BY <1>0, <1>8, Answering
  <2>2. \A e \in Devices : session[e].next \in Nat BY <1>1
  <2>3. sessions' = sessions BY <1>8 DEF DeviceAnswers
  <2>. QED BY <1>1, <2>1, <2>2, <2>3 DEF MovesOn
<1>9. CASE Lost BY <1>2, <1>9 DEF Lost
<1>10. CASE UNCHANGED vars BY <1>2, <1>10 DEF vars
<1>. QED BY <1>3, <1>4, <1>5, <1>6, <1>7, <1>8, <1>9, <1>10 DEF Next, Answer

-----------------------------------------------------------------------------
\* Keys.

\* The nodes of t come before those of u, for every device both are for.
Precedes(st, t, u) ==
  \A m \in st[t].to, n \in st[u].to : m.to = n.to =>
    \/ m.id < n.id
    \/ m.id = n.id /\ m.counter < n.counter

Ordered(st, q) == \A i, j \in 1..Len(q) : i < j => Precedes(st, q[i], q[j])

\* Two calls encrypt one after the other; those that reach the lock do so in the order
\* in which they encrypted, and no session is behind a node made in it.
KeyInv ==
  /\ \A d \in Devices : Started(d) => session[d].id > 0
  /\ \A t \in Sends : \A n \in stanza[t].to : Passed(n)
  /\ \A t, u \in Sends : t # u => Precedes(stanza, t, u) \/ Precedes(stanza, u, t)
  /\ Ordered(stanza, wire) /\ Ordered(stanza, line)
  /\ \A t \in Range(wire), u \in Range(line) : Precedes(stanza, t, u)

LEMMA InitKeys == Init => KeyInv
<1>. SUFFICES ASSUME Init PROVE KeyInv
  OBVIOUS
<1>1. Range(<<>>) = {} /\ Len(<<>>) = 0 /\ 1..0 = {} BY DEF Range
<1>2. \A t \in Sends : stanza[t].to = {} BY DEF Init, NoStanza
<1>3. \A d \in Devices : ~Started(d) BY DEF Init, Started
<1>4. wire = <<>> /\ line = <<>> BY DEF Init
<1>. QED BY <1>1, <1>2, <1>3, <1>4 DEF KeyInv, Precedes, Ordered

\* A session that moves on stays ahead of the nodes made in it.
LEMMA StaysAhead ==
  ASSUME TypeOK, KeyInv, MovesOn
  PROVE  /\ \A d \in Devices : session'[d] # NoSession => session'[d].id > 0
         /\ \A t \in Sends : \A n \in stanza[t].to : Passed(n)'
<1>1. /\ session \in [Devices -> [id : 0..sessions, next : Nat, pending : BOOLEAN]]
      /\ session' \in [Devices -> [id : 0..sessions', next : Nat, pending : BOOLEAN]]
      /\ sessions \in Nat /\ sessions' \in Nat
  BY DEF TypeOK, MovesOn
<1>2. \A d \in Devices : /\ session[d].id \in Nat /\ session[d].next \in Nat
                         /\ session'[d].id \in Nat /\ session'[d].next \in Nat
  BY <1>1
<1>3. \A d \in Devices : session'[d] # NoSession => session'[d].id > 0
  BY <1>2 DEF KeyInv, MovesOn
<1>4. ASSUME NEW t \in Sends, NEW n \in stanza[t].to PROVE Passed(n)'
  <2>1. Passed(n) BY DEF KeyInv
  <2>2. n.to \in Devices /\ n.id \in Nat /\ n.counter \in Nat BY DEF TypeOK
  <2>3. \/ session[n.to].id < session'[n.to].id
        \/ session[n.to].id = session'[n.to].id /\ session[n.to].next <= session'[n.to].next
    BY <2>2 DEF MovesOn
  <2>. QED BY <1>2, <2>1, <2>2, <2>3 DEF Passed
<1>. QED BY <1>3, <1>4

LEMMA QuietKeys ==
  ASSUME TypeOK, KeyInv, MovesOn, UNCHANGED <<stanza, line, wire>>
  PROVE  KeyInv'
<1>1. /\ \A d \in Devices : session'[d] # NoSession => session'[d].id > 0
      /\ \A t \in Sends : \A n \in stanza[t].to : Passed(n)'
  BY StaysAhead
<1>2. (\A d \in Devices : Started(d) => session[d].id > 0)' BY <1>1 DEF Started
<1>3. (\A t \in Sends : \A n \in stanza[t].to : Passed(n))' BY <1>1
<1>. QED BY <1>2, <1>3 DEF KeyInv

\* A call that encrypts comes after all that encrypted before it.
LEMMA EncryptKeys ==
  ASSUME TypeOK, KeyInv, NEW t \in Sends, NEW B \in SUBSET Devices, task[t] = "asking",
         list' \in [Sends -> SUBSET Devices], EncryptWith(t, B), UNCHANGED wire
  PROVE  KeyInv'
<1>1. /\ MovesOn
      /\ DOMAIN stanza' = Sends /\ \A u \in Sends \ {t} : stanza'[u] = stanza[u]
      /\ stanza'[t].to \subseteq NodeType
      /\ \A n \in stanza'[t].to :
           /\ \/ session[n.to].id < n.id
              \/ session[n.to].id = n.id /\ session[n.to].next <= n.counter
           /\ n.id = session'[n.to].id /\ n.counter < session'[n.to].next
  BY Encrypting
<1>2. /\ \A d \in Devices : session'[d] # NoSession => session'[d].id > 0
      /\ \A u \in Sends : \A n \in stanza[u].to : Passed(n)'
  BY <1>1, StaysAhead
<1>3. (\A d \in Devices : Started(d) => session[d].id > 0)' BY <1>2 DEF Started
<1>4. (\A u \in Sends : \A n \in stanza[u].to : Passed(n))'
  <2>. SUFFICES ASSUME NEW u \in Sends, NEW n \in stanza'[u].to PROVE Passed(n)'
    OBVIOUS
  <2>1. CASE u = t BY <1>1, <2>1 DEF Passed
  <2>2. CASE u # t BY <1>1, <1>2, <2>2
  <2>. QED BY <2>1, <2>2
<1>5. ASSUME NEW u \in Sends \ {t} PROVE Precedes(stanza', u, t)
  <2>. SUFFICES ASSUME NEW m \in stanza[u].to, NEW n \in stanza'[t].to, m.to = n.to
                PROVE  m.id < n.id \/ (m.id = n.id /\ m.counter < n.counter)
    BY <1>1 DEF Precedes
  <2>1. Passed(m) BY DEF KeyInv
  <2>2. /\ m.to \in Devices /\ m.id \in Nat /\ m.counter \in Nat
        /\ session[m.to].id \in Nat /\ session[m.to].next \in Nat
    BY DEF TypeOK
  <2>3. n.id \in Nat /\ n.counter \in Nat BY <1>1 DEF NodeType
  <2>. QED BY <1>1, <2>1, <2>2, <2>3 DEF Passed
<1>6. \A u, v \in Sends \ {t} : Precedes(stanza', u, v) <=> Precedes(stanza, u, v)
  BY <1>1 DEF Precedes
<1>7. \A u, v \in Sends : u # v => Precedes(stanza', u, v) \/ Precedes(stanza', v, u)
  BY <1>5, <1>6 DEF KeyInv
<1>8. /\ line \in Seq(Sends) /\ wire \in Seq(Sends) /\ IsInjective(line)
      /\ t \notin Range(line) /\ t \notin Range(wire) /\ line' = Append(line, t)
  BY DEF TypeOK, EncryptWith, Queued
<1>9. /\ Range(line') = Range(line) \cup {t} /\ Len(line') = Len(line) + 1
      /\ Len(line) \in Nat /\ line'[Len(line) + 1] = t
      /\ \A i \in 1..Len(line) : line'[i] = line[i]
  BY <1>8, Enters
<1>10. /\ \A i \in 1..Len(line) : line[i] \in Sends \ {t}
       /\ \A i \in 1..Len(wire) : wire[i] \in Sends \ {t}
       /\ Range(line) \subseteq Sends \ {t} /\ Range(wire) \subseteq Sends \ {t}
  <2>1. /\ Range(line) = {line[i] : i \in 1..Len(line)}
        /\ Range(wire) = {wire[i] : i \in 1..Len(wire)}
    BY <1>8, RangeEquality
  <2>2. /\ \A i \in 1..Len(line) : line[i] \in Sends
        /\ \A i \in 1..Len(wire) : wire[i] \in Sends
    BY <1>8
  <2>. QED BY <1>8, <2>1, <2>2
<1>11. Ordered(stanza', wire) BY <1>6, <1>10 DEF KeyInv, Ordered
<1>12. Ordered(stanza', line')
  <2>. SUFFICES ASSUME NEW i \in 1..(Len(line) + 1), NEW j \in 1..(Len(line) + 1), i < j
                PROVE  Precedes(stanza', line'[i], line'[j])
    BY <1>9 DEF Ordered
  <2>1. i \in 1..Len(line) BY <1>9
  <2>2. CASE j \in 1..Len(line) BY <1>6, <1>9, <1>10, <2>1, <2>2 DEF KeyInv, Ordered
  <2>3. CASE j = Len(line) + 1 BY <1>5, <1>9, <1>10, <2>1, <2>3
  <2>. QED BY <1>9, <2>2, <2>3
<1>13. \A u \in Range(wire), v \in Range(line') : Precedes(stanza', u, v)
  BY <1>5, <1>6, <1>9, <1>10 DEF KeyInv
<1>. QED BY <1>3, <1>4, <1>7, <1>11, <1>12, <1>13 DEF KeyInv

\* The holder of the lock is the oldest that still has to write.
LEMMA WritesKeys == TypeOK /\ KeyInv /\ Writes => KeyInv'
<1>. SUFFICES ASSUME TypeOK, KeyInv, Writes PROVE KeyInv'
  OBVIOUS
<1>1. line \in Seq(Sends) /\ wire \in Seq(Sends) /\ IsInjective(line) /\ IsInjective(wire)
      /\ line # <<>>
  BY DEF TypeOK, Writes
<1>2. /\ Head(line) \in Range(line) /\ Head(line) \in Sends
      /\ Range(Tail(line)) = Range(line) \ {Head(line)}
      /\ Head(line) = line[1] /\ Len(Tail(line)) = Len(line) - 1 /\ Len(line) \in Nat \ {0}
      /\ \A i \in 1..Len(Tail(line)) : Tail(line)[i] = line[i + 1]
      /\ Tail(line) \in Seq(Sends)
  BY <1>1, Leaves
<1>3. PICK t \in Sends : t = Head(line) BY <1>2
<1>4. t \notin Range(wire)
  <2>1. task[t] = "sending" BY <1>2, <1>3 DEF TypeOK
  <2>. QED BY <2>1 DEF TypeOK
<1>5. /\ Append(wire, t) \in Seq(Sends) /\ Range(Append(wire, t)) = Range(wire) \cup {t}
      /\ Len(Append(wire, t)) = Len(wire) + 1 /\ Len(wire) \in Nat
      /\ Append(wire, t)[Len(wire) + 1] = t
      /\ \A i \in 1..Len(wire) : Append(wire, t)[i] = wire[i]
  BY <1>1, <1>4, Enters
<1>6. /\ line' = Tail(line) /\ UNCHANGED <<stanza, session>>
      /\ wire' = Append(wire, t) \/ wire' = wire
  BY <1>3 DEF Writes, Released
<1>7. Ordered(stanza, line')
  <2>. SUFFICES ASSUME NEW i \in 1..Len(Tail(line)), NEW j \in 1..Len(Tail(line)), i < j
                PROVE  Precedes(stanza, Tail(line)[i], Tail(line)[j])
    BY <1>6 DEF Ordered
  <2>1. i + 1 \in 1..Len(line) /\ j + 1 \in 1..Len(line) /\ i + 1 < j + 1 BY <1>2
  <2>. QED BY <1>2, <2>1 DEF KeyInv, Ordered
<1>8. \A u \in Range(Tail(line)) : Precedes(stanza, t, u)
  <2>1. Range(Tail(line)) = {Tail(line)[i] : i \in 1..Len(Tail(line))} BY <1>2, RangeEquality
  <2>. SUFFICES ASSUME NEW i \in 1..Len(Tail(line)) PROVE Precedes(stanza, t, Tail(line)[i])
    BY <2>1
  <2>2. i + 1 \in 1..Len(line) /\ 1 \in 1..Len(line) /\ 1 < i + 1 BY <1>2
  <2>. QED BY <1>2, <1>3, <2>2 DEF KeyInv, Ordered
<1>9. Ordered(stanza, Append(wire, t))
  <2>. SUFFICES ASSUME NEW i \in 1..(Len(wire) + 1), NEW j \in 1..(Len(wire) + 1), i < j
                PROVE  Precedes(stanza, Append(wire, t)[i], Append(wire, t)[j])
    BY <1>5 DEF Ordered
  <2>1. i \in 1..Len(wire) BY <1>5
  <2>2. CASE j \in 1..Len(wire) BY <1>5, <2>1, <2>2 DEF KeyInv, Ordered
  <2>3. CASE j = Len(wire) + 1
    <3>1. wire[i] \in Range(wire) BY <1>1, <2>1, RangeEquality
    <3>. QED BY <1>2, <1>3, <1>5, <2>1, <2>3, <3>1 DEF KeyInv
  <2>. QED BY <1>5, <2>2, <2>3
<1>10. Ordered(stanza, wire') /\ \A v \in Range(wire'), u \in Range(line') : Precedes(stanza, v, u)
  <2>1. CASE wire' = wire BY <1>2, <1>6, <2>1 DEF KeyInv
  <2>2. CASE wire' = Append(wire, t)
    <3>1. Range(wire') = Range(wire) \cup {t} /\ Ordered(stanza, wire') BY <1>5, <1>9, <2>2
    <3>2. \A v \in Range(wire), u \in Range(line') : Precedes(stanza, v, u)
      BY <1>2, <1>6 DEF KeyInv
    <3>3. \A u \in Range(line') : Precedes(stanza, t, u) BY <1>6, <1>8
    <3>. QED BY <3>1, <3>2, <3>3
  <2>. QED BY <1>6, <2>1, <2>2
<1>11. (\A d \in Devices : Started(d) => session[d].id > 0)' BY <1>6 DEF KeyInv, Started
<1>12. (\A u \in Sends : \A n \in stanza[u].to : Passed(n))' BY <1>6 DEF KeyInv, Passed
<1>13. (\A u, v \in Sends : u # v => Precedes(stanza, u, v) \/ Precedes(stanza, v, u))'
  BY <1>6 DEF KeyInv
<1>. QED BY <1>6, <1>7, <1>10, <1>11, <1>12, <1>13 DEF KeyInv

LEMMA StepKeys == Typed /\ KeyInv /\ [Next]_vars => KeyInv'
<1>. SUFFICES ASSUME Typed, KeyInv, [Next]_vars PROVE KeyInv'
  OBVIOUS
<1>0. TypeOK /\ MovesOn BY StepMovesOn DEF Typed
<1>1. ASSUME UNCHANGED <<stanza, line, wire>> PROVE KeyInv' BY <1>0, <1>1, QuietKeys
<1>2. ASSUME NEW t \in Sends, Send(t) \/ Goes(t) \/ GotMetadata(t) \/ BundleRefused(t) \/ Fails(t)
      PROVE  KeyInv'
  BY <1>1, <1>2 DEF Send, Goes, GotMetadata, BundleRefused, Fails
<1>3. ASSUME NEW t \in Sends, GotDevices(t) PROVE KeyInv'
  <2>1. CASE need'[t] = {}
    BY <1>0, <1>3, <2>1, DevicesTyped, EncryptKeys DEF GotDevices
  <2>2. CASE need'[t] # {} BY <1>1, <1>3, <2>2 DEF GotDevices
  <2>. QED BY <2>1, <2>2
<1>4. ASSUME NEW t \in Sends, GotBundles(t) PROVE KeyInv'
  <2>1. PICK B \in SUBSET need[t] : EncryptWith(t, B) BY <1>4 DEF GotBundles
  <2>2. B \in SUBSET Devices /\ list \in [Sends -> SUBSET Devices] BY <1>0 DEF TypeOK
  <2>. QED BY <1>0, <1>4, <2>1, <2>2, EncryptKeys DEF GotBundles
<1>5. CASE Writes BY <1>0, <1>5, WritesKeys
<1>6. ASSUME NEW d \in Devices, DeviceAnswers(d) PROVE KeyInv' BY <1>1, <1>6 DEF DeviceAnswers
<1>7. CASE Lost BY <1>1, <1>7 DEF Lost
<1>8. CASE UNCHANGED vars BY <1>1, <1>8 DEF vars
<1>. QED BY <1>2, <1>3, <1>4, <1>5, <1>6, <1>7, <1>8 DEF Next, Answer

\* For any calls, devices and lists, and however the sends interleave: a device gets the
\* sessions in the order they were started and the messages of each in the order of
\* their counters.
THEOREM StanzasInOrder == Spec => []WireOrder
<1>1. TypeOK /\ KeyInv => WireOrder BY DEF KeyInv, Ordered, Precedes, WireOrder, On
<1>2. Typed => TypeOK BY DEF Typed
<1>. QED BY <1>1, <1>2, InitTyped, StepTyped, InitKeys, StepKeys, PTL DEF Spec

-----------------------------------------------------------------------------
\* Group parts.

\* A call that has its group part.
Covered(t) ==
  \/ task[t] = "asking" /\ todo[t] \in AfterBody
  \/ task[t] \in {"sending", "returned"}

\* Every iteration is used once and the chain is past it; what a group stanza announces
\* is not past its message.
BodyInv ==
  /\ \A t \in Sends : body[t] # NoBody => body[t].skmsg < chain
  /\ \A t, u \in Sends : t # u /\ body[t] # NoBody /\ body[u] # NoBody
                           => body[t].skmsg # body[u].skmsg
  /\ \A t \in Groups : Covered(t) => body[t].skdm <= body[t].skmsg

LEMMA InitBody == Init => BodyInv
BY SendRelayAssumption DEF Init, BodyInv, Covered

LEMMA StepBody == Typed /\ BodyInv /\ [Next]_vars => BodyInv'
<1>. SUFFICES ASSUME Typed, BodyInv, [Next]_vars PROVE BodyInv'
  OBVIOUS
<1>0. TypeOK /\ AskInv /\ Groups \subseteq Sends BY SendRelayAssumption DEF Typed
<1>1. ASSUME UNCHANGED <<body, chain>>, \A t \in Groups : Covered(t)' => Covered(t)
      PROVE  BodyInv'
  BY <1>1 DEF BodyInv
<1>2. \A t \in Sends : task[t] = "asking" /\ Head(todo[t]) \in {"usync", "bundles"} => Covered(t)
  BY <1>0, Carried DEF AskInv, Covered
<1>3. \A q \in BeforeBody : q \notin AfterBody BY DEF BeforeBody, AfterBody
<1>4. ASSUME NEW t \in Sends, Send(t) PROVE BodyInv'
  <2>1. ASSUME NEW u \in Groups, Covered(u)' PROVE Covered(u)
    <3>1. CASE u = t
      <4>1. todo'[t] = Questions(t) /\ task'[t] = "asking" BY <1>0, <1>4 DEF Send, TypeOK, AskInv
      <4>2. todo'[t] \notin AfterBody BY <1>3, <3>1, <4>1, Questioned
      <4>. QED BY <2>1, <3>1, <4>1, <4>2 DEF Covered
    <3>2. CASE u # t BY <1>0, <1>4, <2>1, <3>2 DEF Send, Covered, TypeOK, AskInv
    <3>. QED BY <3>1, <3>2
  <2>. QED BY <1>1, <1>4, <2>1 DEF Send
<1>5. ASSUME NEW t \in Sends, Goes(t) PROVE BodyInv'
  <2>1. ASSUME NEW u \in Groups, Covered(u)' PROVE Covered(u)
    <3>1. CASE u = t
      <4>1. todo[t] \in BeforeBody \cup NoGroup \cup AfterBody
            /\ task[t] = "asking" /\ Head(todo[t]) \in {"media_conn", "upload"}
            /\ todo[t] \notin NoGroup
        BY <1>0, <1>5, <3>1 DEF Goes, AskInv
      <4>2. Tail(todo[t]) \in BeforeBody BY <4>1, Carried
      <4>3. todo'[t] = Tail(todo[t]) /\ task'[t] = "asking" BY <1>0, <1>5 DEF Goes, AskInv
      <4>. QED BY <1>3, <2>1, <3>1, <4>2, <4>3 DEF Covered
    <3>2. CASE u # t BY <1>0, <1>5, <2>1, <3>2 DEF Goes, Covered, AskInv
    <3>. QED BY <3>1, <3>2
  <2>. QED BY <1>1, <1>5, <2>1 DEF Goes
<1>6. ASSUME NEW t \in Sends, GotMetadata(t) PROVE BodyInv'
  <2>. DEFINE b == [skdm |-> chain, skmsg |-> NextIteration]
  <2>1. /\ body' = [body EXCEPT ![t] = b] /\ chain' = NextIteration + 1 /\ task' = task
        /\ todo' = [todo EXCEPT ![t] = Tail(@)]
    BY <1>6 DEF GotMetadata, Announced
  <2>2. chain \in Nat /\ NextIteration \in Nat /\ chain <= NextIteration
        /\ (chain # 0 => chain < NextIteration)
    BY <1>0 DEF NextIteration, TypeOK
  <2>3. b.skdm = chain /\ b.skmsg = NextIteration OBVIOUS
  <2>. HIDE DEF b
  <2>4. body \in [Sends -> [skdm : Nat, skmsg : Nat]] BY <1>0 DEF TypeOK
  <2>5. body'[t] = b /\ \A u \in Sends \ {t} : body'[u] = body[u] BY <2>1, <2>4
  <2>6. \A u \in Sends : body[u].skmsg \in Nat BY <2>4
  <2>7. \A u \in Sends : body[u] # NoBody => body[u].skmsg < NextIteration
    BY <2>2, <2>6 DEF BodyInv
  <2>8. \A u \in Sends : body'[u] # NoBody => body'[u].skmsg < chain'
    BY <2>1, <2>2, <2>3, <2>5, <2>6, <2>7
  <2>9. ASSUME NEW u \in Sends, NEW v \in Sends, u # v, body'[u] # NoBody, body'[v] # NoBody
        PROVE  body'[u].skmsg # body'[v].skmsg
    <3>1. CASE u = t BY <2>2, <2>3, <2>5, <2>6, <2>7, <2>9, <3>1
    <3>2. CASE v = t BY <2>2, <2>3, <2>5, <2>6, <2>7, <2>9, <3>2
    <3>3. CASE u # t /\ v # t BY <2>5, <2>9, <3>3 DEF BodyInv
    <3>. QED BY <3>1, <3>2, <3>3
  <2>10. ASSUME NEW u \in Groups, Covered(u)' PROVE body'[u].skdm <= body'[u].skmsg
    <3>1. CASE u = t BY <2>2, <2>3, <2>5, <3>1
    <3>2. CASE u # t
      <4>1. Covered(u) BY <1>0, <2>1, <2>10, <3>2 DEF Covered, AskInv
      <4>. QED BY <1>0, <2>5, <3>2, <4>1 DEF BodyInv
    <3>. QED BY <3>1, <3>2
  <2>. QED BY <2>8, <2>9, <2>10 DEF BodyInv
<1>7. ASSUME NEW t \in Sends, GotDevices(t) \/ GotBundles(t) \/ BundleRefused(t) PROVE BodyInv'
  <2>1. Covered(t) BY <1>2, <1>7 DEF GotDevices, GotBundles, BundleRefused
  <2>2. \A u \in Sends \ {t} : task'[u] = task[u] /\ todo'[u] = todo[u]
    BY <1>0, <1>7 DEF GotDevices, GotBundles, BundleRefused, EncryptWith, TypeOK, AskInv
  <2>3. UNCHANGED <<body, chain>> BY <1>7 DEF GotDevices, GotBundles, BundleRefused
  <2>4. \A u \in Groups : Covered(u)' => Covered(u) BY <1>0, <2>1, <2>2 DEF Covered
  <2>. QED BY <1>1, <2>3, <2>4
<1>8. ASSUME NEW t \in Sends, Fails(t) PROVE BodyInv'
  <2>1. \A u \in Groups : Covered(u)' => Covered(u)
    BY <1>0, <1>8 DEF Fails, Covered, TypeOK, AskInv
  <2>. QED BY <1>1, <1>8, <2>1 DEF Fails
<1>9. CASE Writes
  <2>1. Head(line) \in Range(line) BY <1>0, <1>9, Leaves DEF Writes, TypeOK
  <2>2. PICK t \in Sends : t = Head(line) /\ task[t] = "sending" BY <1>0, <2>1 DEF TypeOK
  <2>3. \A u \in Groups : Covered(u)' => Covered(u)
    BY <1>0, <1>9, <2>2 DEF Writes, Covered, TypeOK
  <2>. QED BY <1>1, <1>9, <2>3 DEF Writes
<1>10. ASSUME NEW d \in Devices, DeviceAnswers(d) PROVE BodyInv'
  BY <1>1, <1>10 DEF DeviceAnswers, Covered
<1>11. CASE Lost BY <1>1, <1>11 DEF Lost, Covered
<1>12. CASE UNCHANGED vars BY <1>1, <1>12 DEF vars, Covered
<1>. QED
  BY <1>4, <1>5, <1>6, <1>7, <1>8, <1>9, <1>10, <1>11, <1>12 DEF Next, Answer

\* For any calls and devices no two ciphertexts are made with one key, whichever of them
\* leave.
THEOREM NoKeyTwice == Spec => []FreshKeys
<1>1. ASSUME TypeOK, KeyInv, BodyInv PROVE FreshKeys
  <2>. SUFFICES ASSUME NEW t \in Sends, NEW u \in Sends, t # u
                PROVE  /\ \A m \in stanza[t].to, n \in stanza[u].to :
                            m.to = n.to /\ m.id = n.id => m.counter # n.counter
                       /\ body[t] # NoBody /\ body[u] # NoBody => body[t].skmsg # body[u].skmsg
    BY DEF FreshKeys
  <2>1. ASSUME NEW m \in stanza[t].to, NEW n \in stanza[u].to, m.to = n.to, m.id = n.id
        PROVE  m.counter # n.counter
    <3>1. m.id \in Nat /\ n.id \in Nat /\ m.counter \in Nat /\ n.counter \in Nat
      BY <1>1 DEF TypeOK
    <3>2. Precedes(stanza, t, u) \/ Precedes(stanza, u, t) BY <1>1 DEF KeyInv
    <3>. QED BY <2>1, <3>1, <3>2 DEF Precedes
  <2>. QED BY <1>1, <2>1 DEF BodyInv
<1>2. Typed => TypeOK BY DEF Typed
<1>. QED
  BY <1>1, <1>2, InitTyped, StepTyped, InitKeys, StepKeys, InitBody, StepBody, PTL DEF Spec

\* Who installs what a group stanza announces can read the message next to it.
THEOREM AnnouncedIsReadable == Spec => []GroupReadable
<1>1. ASSUME TypeOK, BodyInv PROVE GroupReadable
  <2>1. \A t \in Range(wire) \cap Groups : Covered(t) BY <1>1 DEF TypeOK, Covered
  <2>. QED BY <1>1, <2>1 DEF GroupReadable, BodyInv
<1>2. Typed => TypeOK BY DEF Typed
<1>. QED BY <1>1, <1>2, InitTyped, StepTyped, InitBody, StepBody, PTL DEF Spec

-----------------------------------------------------------------------------
\* Whom a stanza reaches.

\* Once started, a session with the device stays.
LEMMA StaysStarted ==
  ASSUME Typed, KeyInv, MovesOn, NEW d \in Devices, Started(d) PROVE Started(d)'
<1>1. /\ session \in [Devices -> [id : 0..sessions, next : Nat, pending : BOOLEAN]]
      /\ session' \in [Devices -> [id : 0..sessions', next : Nat, pending : BOOLEAN]]
      /\ sessions \in Nat /\ sessions' \in Nat
  BY DEF Typed, TypeOK, MovesOn
<1>2. session[d].id \in Nat /\ session'[d].id \in Nat /\ session[d].id > 0
  BY <1>1 DEF KeyInv
<1>3. session'[d].id > 0 BY <1>2 DEF MovesOn
<1>. QED BY <1>3 DEF Started, NoSession

Reaches(t) ==
  /\ \A d \in Targets(t, list[t]) \ stanza[t].refused : \E n \in stanza[t].to : n.to = d
  /\ \A n \in stanza[t].to : n.to \in list[t] \ {self}

\* A call that waits for bundles misses the session of nobody but whom it asked for.
ReachInv ==
  \A t \in Sends :
    /\ task[t] = "asking" /\ todo[t] = <<"bundles">> =>
         \A d \in Targets(t, list[t]) \ need[t] : Started(d)
    /\ task[t] \in {"sending", "returned"} => Reaches(t)

LEMMA InitReach == Init => ReachInv
BY DEF Init, ReachInv

\* The call that encrypts with the bundles B of those it asked for.
LEMMA EncryptReaches ==
  ASSUME TypeOK, NEW t \in Sends, NEW B \in SUBSET Devices,
         list' \in [Sends -> SUBSET Devices], EncryptWith(t, B),
         \A d \in Targets(t, list'[t]) \ need'[t] : Started(d)
  PROVE  Reaches(t)' /\ \A u \in Sends \ {t} : stanza'[u] = stanza[u]
<1>1. /\ \A u \in Sends \ {t} : stanza'[u] = stanza[u]
      /\ stanza'[t].refused = need'[t] \ B
      /\ \A n \in stanza'[t].to : n.to \in Targets(t, list'[t])
      /\ \A d \in Targets(t, list'[t]) :
           Started(d) \/ d \in B => \E n \in stanza'[t].to : n.to = d
  BY Encrypting
<1>2. \A n \in stanza'[t].to : n.to \in list'[t] \ {self} BY <1>1 DEF Targets
<1>3. \A d \in Targets(t, list'[t]) \ stanza'[t].refused : \E n \in stanza'[t].to : n.to = d
  BY <1>1
<1>. QED BY <1>1, <1>2, <1>3 DEF Reaches

LEMMA StepReach == Typed /\ KeyInv /\ ReachInv /\ [Next]_vars => ReachInv'
<1>. SUFFICES ASSUME Typed, KeyInv, ReachInv, [Next]_vars PROVE ReachInv'
  OBVIOUS
<1>0. TypeOK /\ AskInv /\ MovesOn BY StepMovesOn DEF Typed
<1>1. \A d \in Devices : Started(d) => Started(d)' BY <1>0, StaysStarted
<1>2. \A t \in Sends : Targets(t, list[t]) \subseteq Devices BY <1>0 DEF Targets, TypeOK
<1>. DEFINE Waits(t) == task[t] = "asking" /\ todo[t] = <<"bundles">>
            Has(t) == task[t] \in {"sending", "returned"}
\* A call whose list and stanza stay, and that comes no further.
<1>3. ASSUME NEW t \in Sends, list'[t] = list[t], need'[t] = need[t], stanza'[t] = stanza[t],
             Waits(t)' => Waits(t), Has(t)' => Has(t)
      PROVE  /\ Waits(t)' => \A d \in Targets(t, list'[t]) \ need'[t] : Started(d)'
             /\ Has(t)' => Reaches(t)'
  BY <1>1, <1>2, <1>3 DEF ReachInv, Reaches
<1>4. ASSUME UNCHANGED <<list, need, stanza>>,
             \A t \in Sends : (Waits(t)' => Waits(t)) /\ (Has(t)' => Has(t))
      PROVE  ReachInv'
  BY <1>3, <1>4 DEF ReachInv
<1>5. ASSUME NEW t \in Sends, NEW B \in SUBSET Devices, EncryptWith(t, B),
             list' \in [Sends -> SUBSET Devices], todo' = [todo EXCEPT ![t] = <<>>],
             \A u \in Sends \ {t} : list'[u] = list[u] /\ need'[u] = need[u],
             \A d \in Targets(t, list'[t]) \ need'[t] : Started(d)
      PROVE  ReachInv'
  <2>1. Reaches(t)' /\ \A u \in Sends \ {t} : stanza'[u] = stanza[u]
    BY <1>0, <1>5, EncryptReaches
  <2>2. task' = [task EXCEPT ![t] = "sending"] BY <1>5 DEF EncryptWith
  <2>3. \A u \in Sends \ {t} : task'[u] = task[u] /\ todo'[u] = todo[u]
    BY <1>0, <1>5, <2>2 DEF TypeOK, AskInv
  <2>4. task'[t] = "sending" BY <1>0, <2>2 DEF TypeOK
  <2>. QED BY <1>3, <1>5, <2>1, <2>3, <2>4 DEF ReachInv
<1>6. ASSUME NEW t \in Sends, Send(t) PROVE ReachInv'
  <2>1. /\ todo'[t] # <<"bundles">> /\ task'[t] = "asking"
        /\ \A u \in Sends \ {t} : task'[u] = task[u] /\ todo'[u] = todo[u]
    BY <1>0, <1>6, Questioned DEF Send, TypeOK, AskInv
  <2>. QED BY <1>4, <1>6, <2>1 DEF Send
<1>7. ASSUME NEW t \in Sends, Goes(t) \/ GotMetadata(t) PROVE ReachInv'
  <2>1. todo[t] \in BeforeBody \cup NoGroup \cup AfterBody
        /\ Head(todo[t]) \in {"media_conn", "upload", "metadata"}
    BY <1>0, <1>7 DEF Goes, GotMetadata, AskInv
  <2>2. Tail(todo[t]) # <<"bundles">>
    <3>1. <<"bundles">> \notin BeforeBody \cup NoGroup \cup {<<"usync">>}
      BY DEF BeforeBody, NoGroup
    <3>2. Head(todo[t]) = "metadata" => Tail(todo[t]) = <<"usync">> BY <2>1, Carried
    <3>3. Head(todo[t]) \in {"media_conn", "upload"} =>
            Tail(todo[t]) \in BeforeBody \cup NoGroup \cup {<<"usync">>}
      BY <2>1, Carried
    <3>. QED BY <2>1, <3>1, <3>2, <3>3
  <2>3. /\ todo'[t] = Tail(todo[t]) /\ task' = task
        /\ \A u \in Sends \ {t} : todo'[u] = todo[u]
    BY <1>0, <1>7 DEF Goes, GotMetadata, AskInv
  <2>4. UNCHANGED <<list, need, stanza>> BY <1>7 DEF Goes, GotMetadata
  <2>. QED BY <1>4, <2>2, <2>3, <2>4
<1>8. ASSUME NEW t \in Sends, GotDevices(t) PROVE ReachInv'
  <2>1. /\ list' \in [Sends -> SUBSET Devices] /\ need' \in [Sends -> SUBSET Devices]
        /\ need'[t] = {d \in Targets(t, list'[t]) : session[d] = NoSession}
        /\ \A u \in Sends \ {t} : list'[u] = list[u] /\ need'[u] = need[u]
    BY <1>0, <1>8, DevicesTyped
  <2>2. \A d \in Targets(t, list'[t]) \ need'[t] : Started(d) BY <2>1 DEF Started
  <2>3. CASE need'[t] = {} BY <1>5, <1>8, <2>1, <2>2, <2>3 DEF GotDevices
  <2>4. CASE need'[t] # {}
    <3>1. todo' = [todo EXCEPT ![t] = <<"bundles">>] /\ UNCHANGED <<task, stanza>>
          /\ task[t] = "asking"
      BY <1>8, <2>4 DEF GotDevices
    <3>2. \A u \in Sends \ {t} : todo'[u] = todo[u] BY <1>0, <3>1 DEF AskInv
    <3>3. Targets(t, list'[t]) \subseteq Devices BY <2>1 DEF Targets
    <3>4. \A d \in Targets(t, list'[t]) \ need'[t] : Started(d)' BY <1>1, <2>2, <3>3
    <3>5. task'[t] = "asking" BY <3>1
    <3>. QED BY <1>3, <2>1, <3>1, <3>2, <3>4, <3>5 DEF ReachInv
  <2>. QED BY <2>3, <2>4
<1>9. ASSUME NEW t \in Sends, GotBundles(t) PROVE ReachInv'
  <2>1. PICK B \in SUBSET need[t] : EncryptWith(t, B) BY <1>9 DEF GotBundles
  <2>2. B \in SUBSET Devices /\ list \in [Sends -> SUBSET Devices] BY <1>0 DEF TypeOK
  <2>3. /\ UNCHANGED <<list, need>> /\ todo' = [todo EXCEPT ![t] = <<>>]
        /\ task[t] = "asking" /\ Head(todo[t]) = "bundles"
    BY <1>9 DEF GotBundles
  <2>4. todo[t] = <<"bundles">> BY <1>0, <2>3, Carried DEF AskInv, AfterBody
  <2>5. \A d \in Targets(t, list'[t]) \ need'[t] : Started(d) BY <2>3, <2>4 DEF ReachInv
  <2>. QED BY <1>5, <2>1, <2>2, <2>3, <2>5
<1>10. ASSUME NEW t \in Sends, BundleRefused(t) \/ Fails(t) PROVE ReachInv'
  <2>1. task'[t] = "raised" /\ \A u \in Sends \ {t} : task'[u] = task[u] /\ todo'[u] = todo[u]
    BY <1>0, <1>10 DEF BundleRefused, Fails, TypeOK, AskInv
  <2>2. UNCHANGED <<list, need, stanza>> BY <1>10 DEF BundleRefused, Fails
  <2>. QED BY <1>4, <2>1, <2>2
<1>11. CASE Writes
  <2>1. Head(line) \in Range(line) BY <1>0, <1>11, Leaves DEF Writes, TypeOK
  <2>2. PICK t \in Sends : t = Head(line) /\ task[t] = "sending" BY <1>0, <2>1 DEF TypeOK
  <2>3. /\ task'[t] \in {"returned", "raised"}
        /\ \A u \in Sends \ {t} : task'[u] = task[u]
        /\ todo' = todo
    BY <1>0, <1>11, <2>2 DEF Writes, TypeOK
  <2>4. UNCHANGED <<list, need, stanza>> BY <1>11 DEF Writes
  <2>. QED BY <1>4, <2>2, <2>3, <2>4
<1>12. ASSUME NEW d \in Devices, DeviceAnswers(d) PROVE ReachInv'
  BY <1>4, <1>12 DEF DeviceAnswers
<1>13. CASE Lost BY <1>4, <1>13 DEF Lost
<1>14. CASE UNCHANGED vars BY <1>4, <1>14 DEF vars
<1>. QED
  BY <1>6, <1>7, <1>8, <1>9, <1>10, <1>11, <1>12, <1>13, <1>14 DEF Next, Answer

\* However the sessions change while a call waits, its stanza reaches every device of the
\* list that had a session or a bundle, and nobody else.
THEOREM EveryDeviceReached == Spec => []ReachesAll
<1>1. ASSUME TypeOK, ReachInv PROVE ReachesAll
  <2>1. \A t \in Range(wire) : t \in Sends /\ Reaches(t) BY <1>1 DEF TypeOK, ReachInv
  <2>. QED BY <2>1 DEF ReachesAll, Reaches
<1>2. Typed => TypeOK BY DEF Typed
<1>. QED
  BY <1>1, <1>2, InitTyped, StepTyped, InitKeys, StepKeys, InitReach, StepReach, PTL DEF Spec

=============================================================================
