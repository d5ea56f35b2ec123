--------------------------- MODULE SenderKeyProofs ---------------------------
(***************************************************************************)
(* What one sender-key state promises, and that no message key is used     *)
(* twice, for every number of devices, every MAX_MESSAGE_KEYS and chains   *)
(* of any length.                                                          *)
(***************************************************************************)
EXTENDS SenderKey, SequenceTheorems, FiniteSetTheorems, TLAPS

\* Skipped keys are held in the order the chain passed them; two positions
\* that are n apart hold iterations at least n apart.
Spread(q) == \A j, k \in 1..Len(q) : j <= k => q[k] - q[j] >= k - j

\* The inductive form of the three properties of one state.
StateInv(s) ==
  /\ s \in State
  /\ s.base <= s.iteration
  /\ Spread(s.message_keys)
  /\ KeyTakenOnce(s)
  /\ \A i \in Consumed(s) : s.base <= i /\ i < s.iteration
  /\ CacheSound(s)
  /\ WindowKept(s)

-----------------------------------------------------------------------------
\* Lemmas on message_keys.

\* Newest keeps a suffix of at most MaxKeys entries, and all of a short one.
LEMMA NewestSuffix ==
  ASSUME NEW q \in Seq(Nat)
  PROVE  LET n == Newest(q)
         IN  /\ n \in Seq(Nat)
             /\ Len(n) = IF Len(q) <= MaxKeys THEN Len(q) ELSE MaxKeys
             /\ \A j \in 1..Len(n) : n[j] = q[j + (Len(q) - Len(n))]
<1>0. MaxKeys \in Nat \ {0} BY SenderKeyAssumption
<1>1. CASE Len(q) <= MaxKeys
  <2>1. Newest(q) = q BY <1>1 DEF Newest
  <2>. QED BY <2>1, <1>1
<1>2. CASE ~(Len(q) <= MaxKeys)
  <2>. DEFINE r == [j \in 1..MaxKeys |-> q[j + Len(q) - MaxKeys]]
  <2>1. \A j \in 1..MaxKeys : q[j + Len(q) - MaxKeys] \in Nat
    BY <1>0, <1>2, ElementOfSeq
  <2>2. r \in Seq(Nat) BY <1>0, <2>1, IsASeq
  <2>3. Len(r) = MaxKeys BY <1>0, <2>2
  <2>4. Newest(q) = r BY <1>0, <1>2, <2>1 DEF Newest
  <2>5. \A j \in 1..MaxKeys : r[j] = q[j + (Len(q) - MaxKeys)]
    BY <1>0, <1>2, LenProperties
  <2>. HIDE DEF r
  <2>. QED BY <2>2, <2>3, <2>4, <2>5, <1>0, <1>2
<1>. QED BY <1>1, <1>2

\* Skipping from..to-1 appends exactly these iterations before the cut.
LEMMA SkippedAppended ==
  ASSUME NEW q \in Seq(Nat), NEW from \in Nat, NEW to \in Nat, from <= to
  PROVE  LET full == q \o [j \in 1..(to - from) |-> from + j - 1]
         IN  /\ full \in Seq(Nat)
             /\ Len(full) = Len(q) + (to - from)
             /\ \A k \in 1..Len(full) :
                  full[k] = IF k <= Len(q) THEN q[k] ELSE from + (k - Len(q)) - 1
<1>. DEFINE r == [j \in 1..(to - from) |-> from + j - 1]
<1>1. r \in Seq(Nat) BY IsASeq
<1>2. Len(r) = to - from BY <1>1
<1>. QED BY <1>1, <1>2, ConcatProperties

\* Removing a held key closes the gap and keeps the others.
LEMMA WithoutKey ==
  ASSUME NEW q \in Seq(Nat), NEW i \in Entries(q), Spread(q)
  PROVE  LET r == Without(q, i)
         IN  /\ r \in Seq(Nat)
             /\ Len(r) = Len(q) - 1
             /\ Spread(r)
             /\ Entries(r) = Entries(q) \ {i}
<1>. DEFINE p == CHOOSE p \in 1..Len(q) : q[p] = i /\ \A k \in 1..Len(q) : q[k] = i => p <= k
            r == [j \in 1..(Len(q) - 1) |-> IF j < p THEN q[j] ELSE q[j + 1]]
<1>0. Len(q) \in Nat BY LenProperties
<1>e. \A k \in 1..Len(q) : q[k] \in Nat BY ElementOfSeq
<1>1. PICK a \in 1..Len(q) : q[a] = i BY DEF Entries
<1>2. \A k \in 1..Len(q) : q[k] = i => k = a
  <2>. SUFFICES ASSUME NEW k \in 1..Len(q), q[k] = i PROVE k = a OBVIOUS
  <2>1. a <= k => q[k] - q[a] >= k - a BY DEF Spread
  <2>2. k <= a => q[a] - q[k] >= a - k BY DEF Spread
  <2>3. q[k] \in Nat /\ k \in Int /\ a \in Int BY <1>0, <1>e
  <2>. QED BY <2>1, <2>2, <2>3, <1>1
<1>3. p = a BY <1>0, <1>1, <1>2
<1>. HIDE DEF p
<1>4. \A j \in 1..(Len(q) - 1) : (IF j < p THEN q[j] ELSE q[j + 1]) \in Nat
  BY <1>0, <1>e, <1>1, <1>3
<1>5. r \in Seq(Nat) BY <1>0, <1>1, <1>4, IsASeq
<1>6. /\ Len(r) = Len(q) - 1
      /\ \A j \in 1..(Len(q) - 1) : r[j] = IF j < a THEN q[j] ELSE q[j + 1]
  BY <1>0, <1>1, <1>3
<1>7. Without(q, i) = r BY DEF Without, p
<1>. HIDE DEF r
<1>8. Spread(r)
  <2>. SUFFICES ASSUME NEW j \in 1..(Len(q) - 1), NEW k \in 1..(Len(q) - 1), j <= k
                PROVE  r[k] - r[j] >= k - j
    BY <1>6 DEF Spread
  <2>. DEFINE u == IF j < a THEN j ELSE j + 1
              v == IF k < a THEN k ELSE k + 1
  <2>1. /\ u \in 1..Len(q) /\ v \in 1..Len(q) /\ u <= v /\ v - u >= k - j
    BY <1>0, <1>1
  <2>2. r[j] = q[u] /\ r[k] = q[v] BY <1>6
  <2>. HIDE DEF u, v
  <2>3. q[v] - q[u] >= v - u BY <2>1 DEF Spread
  <2>4. q[u] \in Nat /\ q[v] \in Nat BY <1>e, <2>1
  <2>5. u \in Int /\ v \in Int /\ v - u >= k - j BY <2>1, <1>0
  <2>6. q[v] - q[u] >= k - j
    <3>. DEFINE qv == q[v]
                qu == q[u]
    <3>1. qv - qu >= v - u /\ qv \in Nat /\ qu \in Nat BY <2>3, <2>4
    <3>. HIDE DEF qv, qu
    <3>2. qv - qu >= k - j BY <3>1, <2>5
    <3>. QED BY <3>2 DEF qv, qu
  <2>. QED BY <2>2, <2>6
<1>9. ASSUME NEW j \in 1..(Len(q) - 1)
      PROVE  r[j] \in Entries(q) /\ r[j] # i
  <2>1. CASE j < a
    <3>1. r[j] = q[j] /\ j \in 1..Len(q) /\ j # a BY <2>1, <1>0, <1>1, <1>6
    <3>. QED BY <3>1, <1>2 DEF Entries
  <2>2. CASE ~(j < a)
    <3>1. r[j] = q[j + 1] /\ j + 1 \in 1..Len(q) /\ j + 1 # a BY <2>2, <1>0, <1>1, <1>6
    <3>. QED BY <3>1, <1>2 DEF Entries
  <2>. QED BY <2>1, <2>2
<1>10. ASSUME NEW k \in 1..Len(q), q[k] # i
       PROVE  q[k] \in Entries(r)
  <2>1. CASE k < a
    <3>1. r[k] = q[k] /\ k \in 1..Len(r) BY <2>1, <1>0, <1>1, <1>6
    <3>. QED BY <3>1 DEF Entries
  <2>2. CASE k > a
    <3>1. r[k - 1] = q[k] /\ k - 1 \in 1..Len(r) BY <2>2, <1>0, <1>1, <1>6
    <3>. QED BY <3>1 DEF Entries
  <2>. QED BY <2>1, <2>2, <1>10, <1>0, <1>1
<1>11. Entries(r) = Entries(q) \ {i}
  <2>1. Entries(r) \subseteq Entries(q) \ {i} BY <1>6, <1>9 DEF Entries
  <2>2. Entries(q) \ {i} \subseteq Entries(r) BY <1>10 DEF Entries
  <2>. QED BY <2>1, <2>2
<1>. QED BY <1>5, <1>6, <1>7, <1>8, <1>11

\* The distance between an old entry and one derived now, across the old end.
LEMMA Gap ==
  ASSUME NEW a \in Nat, NEW b \in Nat, NEW from \in Nat,
         NEW n \in Nat, NEW j \in Int, NEW k \in Int,
         b - a >= n - j, b < from
  PROVE  (from + (k - n) - 1) - a >= k - j
OBVIOUS

\* Skipping ahead keeps the order and the bound, invents no key, and drops
\* none of the last MaxKeys iterations.
LEMMA SkipKeys ==
  ASSUME NEW q \in Seq(Nat), Spread(q),
         NEW from \in Nat, NEW to \in Nat, from <= to,
         \A e \in Entries(q) : e < from
  PROVE  LET r == Skip(q, from, to)
         IN  /\ r \in Seq(Nat)
             /\ Len(r) <= MaxKeys
             /\ Spread(r)
             /\ \A e \in Entries(r) : e \in Entries(q) \/ (from <= e /\ e < to)
             /\ \A w \in Nat : /\ w \in Entries(q) \/ (from <= w /\ w < to)
                               /\ w >= to - MaxKeys
                               => w \in Entries(r)
<1>. DEFINE full == q \o [j \in 1..(to - from) |-> from + j - 1]
            r == Newest(full)
            off == Len(full) - Len(r)
<1>0. MaxKeys \in Nat \ {0} BY SenderKeyAssumption
<1>1. Len(q) \in Nat BY LenProperties
<1>e. \A k \in 1..Len(q) : q[k] \in Nat /\ q[k] < from
  BY ElementOfSeq DEF Entries
<1>2. /\ full \in Seq(Nat)
      /\ Len(full) = Len(q) + (to - from)
  BY SkippedAppended
<1>h. /\ \A k \in 1..Len(q) : k \in 1..Len(full) /\ full[k] = q[k]
      /\ \A k \in 1..Len(full) : k > Len(q) => full[k] = from + (k - Len(q)) - 1
  BY <1>1, <1>2, SkippedAppended
<1>. HIDE DEF full
<1>3. /\ r \in Seq(Nat)
      /\ Len(r) = IF Len(full) <= MaxKeys THEN Len(full) ELSE MaxKeys
      /\ \A j \in 1..Len(r) : r[j] = full[j + (Len(full) - Len(r))]
  BY <1>2, NewestSuffix
<1>4. Skip(q, from, to) = r BY DEF Skip, full
<1>. HIDE DEF r
<1>5. /\ off \in Nat
      /\ Len(r) \in Nat
      /\ Len(r) <= MaxKeys
      /\ off > 0 => Len(r) = MaxKeys
      /\ Len(full) \in Nat
      /\ off + Len(r) = Len(full)
  BY <1>0, <1>1, <1>2, <1>3
<1>s. \A j \in 1..Len(r) : r[j] = full[j + off] BY <1>3
<1>. HIDE DEF off
<1>6. ASSUME NEW k \in 1..Len(full)
      PROVE  full[k] \in Nat /\ full[k] < to
  <2>1. CASE k \in 1..Len(q) BY <2>1, <1>e, <1>h
  <2>2. CASE k > Len(q)
    <3>1. full[k] = from + (k - Len(q)) - 1 BY <2>2, <1>h
    <3>. QED BY <3>1, <2>2, <1>1, <1>2, <1>5
  <2>. QED BY <2>1, <2>2, <1>1, <1>5
<1>7. Spread(full)
  <2>. SUFFICES ASSUME NEW j \in 1..Len(full), NEW k \in 1..Len(full), j <= k
                PROVE  full[k] - full[j] >= k - j
    BY DEF Spread
  <2>1. CASE k \in 1..Len(q)
    <3>1. j \in 1..Len(q) BY <2>1, <1>1, <1>5
    <3>2. q[k] - q[j] >= k - j BY <3>1, <2>1 DEF Spread
    <3>. QED BY <3>1, <3>2, <1>h, <2>1
  <2>2. CASE j > Len(q)
    <3>1. k > Len(q) BY <2>2, <1>1, <1>5
    <3>2. /\ full[k] = from + (k - Len(q)) - 1
          /\ full[j] = from + (j - Len(q)) - 1
      BY <2>2, <3>1, <1>h
    <3>. QED BY <3>2, <1>1, <1>5
  <2>3. CASE j \in 1..Len(q) /\ k > Len(q)
    <3>1. Len(q) \in 1..Len(q) /\ j <= Len(q) BY <2>3, <1>1
    <3>2. q[Len(q)] - q[j] >= Len(q) - j BY <3>1, <2>3 DEF Spread
    <3>3. q[Len(q)] < from /\ q[Len(q)] \in Nat /\ q[j] \in Nat BY <2>3, <3>1, <1>e
    <3>4. full[k] = from + (k - Len(q)) - 1 /\ full[j] = q[j]
      BY <2>3, <1>h
    <3>5. Len(q) \in Nat /\ j \in Int /\ k \in Int BY <1>1
    <3>6. (from + (k - Len(q)) - 1) - q[j] >= k - j
      BY <3>2, <3>3, <3>5, Gap
    <3>. QED BY <3>4, <3>6
  <2>. QED BY <2>1, <2>2, <2>3, <1>1, <1>5
<1>8. Spread(r)
  <2>. SUFFICES ASSUME NEW j \in 1..Len(r), NEW k \in 1..Len(r), j <= k
                PROVE  r[k] - r[j] >= k - j
    BY DEF Spread
  <2>1. j + off \in 1..Len(full) /\ k + off \in 1..Len(full) /\ j + off <= k + off
    BY <1>5
  <2>2. full[k + off] - full[j + off] >= (k + off) - (j + off)
    BY <2>1, <1>7 DEF Spread
  <2>3. r[k] = full[k + off] /\ r[j] = full[j + off] BY <1>s
  <2>. QED BY <2>2, <2>3, <1>5
<1>9. ASSUME NEW j \in 1..Len(r)
      PROVE  r[j] \in Entries(q) \/ (from <= r[j] /\ r[j] < to)
  <2>1. j + off \in 1..Len(full) BY <1>5
  <2>2. r[j] = full[j + off] BY <1>s
  <2>3. CASE j + off \in 1..Len(q)
    BY <2>2, <2>3, <1>h DEF Entries
  <2>4. CASE j + off > Len(q)
    <3>1. full[j + off] = from + ((j + off) - Len(q)) - 1 BY <2>1, <2>4, <1>h
    <3>2. full[j + off] < to BY <2>1, <1>6
    <3>. QED BY <3>1, <3>2, <2>1, <2>2, <2>4, <1>1, <1>5
  <2>. QED BY <2>1, <2>3, <2>4, <1>1, <1>5
<1>10. ASSUME NEW k \in 1..Len(full), full[k] >= to - MaxKeys
       PROVE  full[k] \in Entries(r)
  <2>0. Len(full) \in 1..Len(full) /\ k <= Len(full) BY <1>5
  <2>1. full[Len(full)] - full[k] >= Len(full) - k
    BY <2>0, <1>7 DEF Spread
  <2>2. /\ full[Len(full)] \in Nat /\ full[Len(full)] < to
        /\ full[k] \in Nat
    BY <2>0, <1>6
  <2>3. k > off
    <3>1. CASE off = 0 BY <3>1
    <3>2. CASE off > 0
      <4>1. Len(full) - k < MaxKeys BY <2>1, <2>2, <1>10, <1>0, <1>5
      <4>. QED BY <4>1, <3>2, <1>5, <1>0
    <3>. QED BY <3>1, <3>2, <1>5
  <2>4. k - off \in 1..Len(r) /\ (k - off) + off = k
    BY <2>3, <1>5
  <2>5. r[k - off] = full[k] BY <2>4, <1>s
  <2>. QED BY <2>4, <2>5 DEF Entries
<1>11. ASSUME NEW w \in Nat, w \in Entries(q) \/ (from <= w /\ w < to)
       PROVE  \E k \in 1..Len(full) : full[k] = w
  <2>1. CASE w \in Entries(q)
    <3>1. PICK k \in 1..Len(q) : q[k] = w BY <2>1 DEF Entries
    <3>. QED BY <3>1, <1>h
  <2>2. CASE from <= w /\ w < to
    <3>. DEFINE k == Len(q) + (w - from) + 1
    <3>1. /\ k \in 1..Len(full) /\ k > Len(q)
          /\ w = from + (k - Len(q)) - 1
      BY <2>2, <1>1, <1>2
    <3>. HIDE DEF k
    <3>. QED BY <3>1, <1>h
  <2>. QED BY <2>1, <2>2, <1>11
<1>12. \A e \in Entries(r) : e \in Entries(q) \/ (from <= e /\ e < to)
  BY <1>9 DEF Entries
<1>13. \A w \in Nat : /\ w \in Entries(q) \/ (from <= w /\ w < to)
                      /\ w >= to - MaxKeys
                      => w \in Entries(r)
  BY <1>10, <1>11
<1>. QED BY <1>3, <1>4, <1>5, <1>8, <1>12, <1>13

-----------------------------------------------------------------------------
\* One state.

\* A freshly installed state satisfies the invariant.
LEMMA NewStateInv ==
  ASSUME NEW k \in Devices, NEW i \in Nat, NEW p \in BOOLEAN
  PROVE  /\ StateInv(NewState(k, i, p))
         /\ NewState(k, i, p).signing_private = p
         /\ NewState(k, i, p).key_id = k
         /\ NewState(k, i, p).iteration = i
<1>. DEFINE s == NewState(k, i, p)
<1>0. MaxKeys \in Nat BY SenderKeyAssumption
<1>1. s \in State BY DEF NewState, State
<1>2. /\ s.base = i /\ s.iteration = i /\ s.key_id = k /\ s.signing_private = p
      /\ s.message_keys = <<>> /\ s.consumed = <<>>
  BY DEF NewState
<1>3. Held(s) = {} /\ Consumed(s) = {} /\ Len(s.message_keys) = 0 /\ Len(s.consumed) = 0
  BY <1>2 DEF Held, Consumed, Entries
<1>. HIDE DEF s
<1>4. StateInv(s)
  BY <1>0, <1>1, <1>2, <1>3 DEF StateInv, Spread, KeyTakenOnce, CacheSound, WindowKept
<1>. QED BY <1>2, <1>4 DEF s

\* Appending one more taken key.
LEMMA ConsumeOne ==
  ASSUME NEW q \in Seq(Nat), NEW i \in Nat, i \notin Entries(q),
         \A j, k \in 1..Len(q) : q[j] = q[k] => j = k
  PROVE  /\ Append(q, i) \in Seq(Nat)
         /\ Entries(Append(q, i)) = Entries(q) \cup {i}
         /\ \A j, k \in 1..Len(Append(q, i)) :
              Append(q, i)[j] = Append(q, i)[k] => j = k
<1>. DEFINE r == Append(q, i)
<1>1. /\ r \in Seq(Nat) /\ Len(q) \in Nat /\ Len(r) = Len(q) + 1
      /\ r[Len(q) + 1] = i
      /\ \A j \in 1..Len(q) : r[j] = q[j]
  BY AppendProperties, LenProperties
<1>. HIDE DEF r
<1>2. \A j \in 1..Len(r) : j \in 1..Len(q) \/ j = Len(q) + 1 BY <1>1
<1>3. Entries(r) = Entries(q) \cup {i}
  <2>1. Entries(r) \subseteq Entries(q) \cup {i} BY <1>1, <1>2 DEF Entries
  <2>2. \A j \in 1..Len(q) : j \in 1..Len(r) /\ r[j] = q[j] BY <1>1
  <2>3. Entries(q) \subseteq Entries(r) BY <2>2 DEF Entries
  <2>4. i \in Entries(r)
    <3>1. Len(q) + 1 \in 1..Len(r) BY <1>1
    <3>. QED BY <3>1, <1>1 DEF Entries
  <2>. QED BY <2>1, <2>3, <2>4
<1>4. \A j \in 1..Len(q) : r[j] # i BY <1>1 DEF Entries
<1>5. \A j, k \in 1..Len(r) : r[j] = r[k] => j = k
  BY <1>1, <1>2, <1>4
<1>. QED BY <1>1, <1>3, <1>5 DEF r

\* _get_sender_key preserves the invariant of the state it takes a key from.
LEMMA TakeKeyInv ==
  ASSUME NEW s, StateInv(s), NEW i \in Nat, Usable(s, i)
  PROVE  /\ StateInv(TakeKey(s, i))
         /\ TakeKey(s, i).key_id = s.key_id
         /\ TakeKey(s, i).signing_private = s.signing_private
         /\ TakeKey(s, i).iteration >= s.iteration
         /\ TakeKey(s, i).iteration > i
<1>. DEFINE t == TakeKey(s, i)
<1>0. MaxKeys \in Nat \ {0} BY SenderKeyAssumption
<1>1. /\ s \in State /\ s.base \in Nat /\ s.iteration \in Nat
      /\ s.message_keys \in Seq(Nat) /\ s.consumed \in Seq(Nat)
      /\ s.key_id \in Devices /\ s.signing_private \in BOOLEAN
      /\ s.base <= s.iteration
  BY DEF StateInv, State
<1>2. /\ Spread(s.message_keys)
      /\ Len(s.message_keys) <= MaxKeys
      /\ Held(s) \cap Consumed(s) = {}
      /\ \A e \in Held(s) : s.base <= e /\ e < s.iteration
      /\ \A e \in Consumed(s) : s.base <= e /\ e < s.iteration
  BY DEF StateInv, CacheSound
<1>3. /\ \A j, k \in 1..Len(s.consumed) : s.consumed[j] = s.consumed[k] => j = k
      /\ \A e \in s.base..(s.iteration - 1) :
           e >= (s.iteration - 1) - MaxKeys => e \in Held(s) \cup Consumed(s)
  BY DEF StateInv, KeyTakenOnce, WindowKept
<1>4. CASE s.iteration > i
  <2>1. i \in Held(s) BY <1>4 DEF Usable, OldCounter
  <2>. DEFINE q == Without(s.message_keys, i)
              c == Append(s.consumed, i)
  <2>2. /\ q \in Seq(Nat) /\ Len(q) = Len(s.message_keys) - 1 /\ Spread(q)
        /\ Entries(q) = Held(s) \ {i}
    BY <1>1, <1>2, <2>1, WithoutKey DEF Held
  <2>3. /\ c \in Seq(Nat) /\ Entries(c) = Consumed(s) \cup {i}
        /\ \A j, k \in 1..Len(c) : c[j] = c[k] => j = k
    <3>1. i \notin Entries(s.consumed) BY <2>1, <1>2 DEF Consumed
    <3>. QED BY <3>1, <1>1, <1>3, ConsumeOne DEF Consumed
  <2>. HIDE DEF q, c
  <2>4. t = [s EXCEPT !.message_keys = q, !.consumed = c]
    BY <1>4 DEF TakeKey, q, c
  <2>. HIDE DEF t
  <2>5. /\ t \in State
        /\ t.base = s.base /\ t.iteration = s.iteration /\ t.message_keys = q
        /\ t.consumed = c /\ t.key_id = s.key_id /\ t.signing_private = s.signing_private
    BY <1>1, <2>2, <2>3, <2>4 DEF State
  <2>6. Held(t) = Held(s) \ {i} /\ Consumed(t) = Consumed(s) \cup {i}
    BY <2>2, <2>3, <2>5 DEF Held, Consumed
  <2>7. KeyTakenOnce(t) /\ Spread(t.message_keys)
    BY <2>2, <2>3, <2>5 DEF KeyTakenOnce
  <2>8. \A e \in Consumed(t) : t.base <= e /\ e < t.iteration
    BY <2>1, <2>5, <2>6, <1>2
  <2>9. CacheSound(t)
    <3>1. Len(q) <= MaxKeys
      BY <2>2, <1>0, <1>1, <1>2, LenProperties
    <3>. QED BY <3>1, <2>1, <2>5, <2>6, <1>2 DEF CacheSound
  <2>10. WindowKept(t)
    BY <1>3, <2>5, <2>6 DEF WindowKept
  <2>11. StateInv(t)
    BY <1>1, <2>5, <2>7, <2>8, <2>9, <2>10 DEF StateInv
  <2>. QED BY <2>5, <2>11, <1>1, <1>4 DEF t
<1>5. CASE ~(s.iteration > i)
  <2>. DEFINE q == Skip(s.message_keys, s.iteration, i)
              c == Append(s.consumed, i)
  <2>1. s.iteration <= i BY <1>5, <1>1
  <2>2. /\ q \in Seq(Nat) /\ Len(q) <= MaxKeys /\ Spread(q)
        /\ \A e \in Entries(q) : e \in Held(s) \/ (s.iteration <= e /\ e < i)
        /\ \A e \in Nat : /\ e \in Held(s) \/ (s.iteration <= e /\ e < i)
                          /\ e >= i - MaxKeys
                          => e \in Entries(q)
    BY <1>1, <1>2, <2>1, SkipKeys DEF Held
  <2>3. /\ c \in Seq(Nat) /\ Entries(c) = Consumed(s) \cup {i}
        /\ \A j, k \in 1..Len(c) : c[j] = c[k] => j = k
    <3>1. i \notin Entries(s.consumed)
      <4>1. ASSUME i \in Entries(s.consumed) PROVE FALSE
        <5>1. i < s.iteration BY <4>1, <1>2 DEF Consumed
        <5>. QED BY <5>1, <2>1, <1>1
      <4>. QED BY <4>1
    <3>. QED BY <3>1, <1>1, <1>3, ConsumeOne DEF Consumed
  <2>. HIDE DEF q, c
  <2>4. t = [s EXCEPT !.message_keys = q, !.iteration = i + 1, !.consumed = c]
    BY <1>5 DEF TakeKey, q, c
  <2>. HIDE DEF t
  <2>5. /\ t \in State
        /\ t.base = s.base /\ t.iteration = i + 1 /\ t.message_keys = q
        /\ t.consumed = c /\ t.key_id = s.key_id /\ t.signing_private = s.signing_private
    <3>1. s = [key_id |-> s.key_id, iteration |-> s.iteration,
               signing_private |-> s.signing_private, message_keys |-> s.message_keys,
               base |-> s.base, consumed |-> s.consumed]
      BY <1>1 DEF State
    <3>2. t = [key_id |-> s.key_id, iteration |-> i + 1,
               signing_private |-> s.signing_private, message_keys |-> q,
               base |-> s.base, consumed |-> c]
      BY <2>4, <3>1
    <3>3. i + 1 \in Nat OBVIOUS
    <3>. QED BY <1>1, <2>2, <2>3, <3>2, <3>3 DEF State
  <2>6. Held(t) = Entries(q) /\ Consumed(t) = Consumed(s) \cup {i}
    BY <2>3, <2>5 DEF Held, Consumed
  <2>7. KeyTakenOnce(t) /\ Spread(t.message_keys)
    BY <2>2, <2>3, <2>5 DEF KeyTakenOnce
  <2>8. ASSUME NEW e \in Consumed(t) PROVE t.base <= e /\ e < t.iteration
    <3>1. CASE e = i BY <3>1, <2>1, <2>5, <1>1
    <3>2. CASE e \in Consumed(s)
      <4>1. e \in Nat BY <3>2, <1>1, ElementOfSeq DEF Consumed, Entries
      <4>2. s.base <= e /\ e < s.iteration BY <3>2, <1>2
      <4>. QED BY <4>1, <4>2, <2>1, <2>5, <1>1
    <3>. QED BY <3>1, <3>2, <2>6
  <2>e. \A e \in Entries(q) : e \in Nat BY <2>2, ElementOfSeq DEF Entries
  <2>9. CacheSound(t)
    <3>1. ASSUME NEW e \in Held(t) PROVE s.base <= e /\ e < i /\ e \notin Consumed(t)
      <4>0. e \in Nat BY <2>e, <2>6
      <4>1. CASE e \in Held(s)
        <5>1. s.base <= e /\ e < s.iteration /\ e \notin Consumed(s) BY <4>1, <1>2
        <5>. QED BY <5>1, <4>0, <2>1, <2>6, <1>1
      <4>2. CASE s.iteration <= e /\ e < i
        <5>1. e \notin Consumed(s)
          <6>1. ASSUME e \in Consumed(s) PROVE FALSE
            <7>1. e < s.iteration BY <6>1, <1>2
            <7>. QED BY <7>1, <4>0, <4>2, <1>1
          <6>. QED BY <6>1
        <5>. QED BY <5>1, <4>0, <4>2, <2>6, <1>1
      <4>. QED BY <4>1, <4>2, <2>2, <2>6
    <3>2. \A e \in Held(t) : t.base <= e /\ e < t.iteration
      BY <3>1, <2>5, <2>6, <2>e
    <3>. QED BY <3>1, <3>2, <2>2, <2>5 DEF CacheSound
  <2>10. WindowKept(t)
    <3>. SUFFICES ASSUME NEW e \in s.base..i, e >= ((i + 1) - 1) - MaxKeys
                  PROVE  e \in Held(t) \cup Consumed(t)
      BY <2>5 DEF WindowKept
    <3>0. e \in Nat /\ e >= i - MaxKeys BY <1>0, <1>1
    <3>1. CASE e = i BY <3>1, <2>6
    <3>2. CASE s.iteration <= e /\ e < i BY <3>0, <3>2, <2>2, <2>6
    <3>3. CASE e < s.iteration
      <4>1. e \in s.base..(s.iteration - 1) /\ e >= (s.iteration - 1) - MaxKeys
        BY <3>0, <3>3, <2>1, <1>0, <1>1
      <4>2. e \in Held(s) \cup Consumed(s) BY <4>1, <1>3
      <4>. QED BY <4>2, <3>0, <2>2, <2>6
    <3>. QED BY <3>0, <3>1, <3>2, <3>3, <1>1
  <2>11. StateInv(t)
    <3>1. t.base <= t.iteration BY <2>1, <2>5, <1>1
    <3>. QED BY <3>1, <2>5, <2>7, <2>8, <2>9, <2>10 DEF StateInv
  <2>. QED BY <2>1, <2>5, <2>11, <1>1 DEF t
<1>. QED BY <1>4, <1>5

-----------------------------------------------------------------------------
\* The records of all devices, in memory and on disk.

Store == [Devices -> [Devices -> Seq(State)]]
Sound(q) == \A j \in 1..Len(q) : StateInv(q[j])
AllSound(R) == R \in Store /\ \A d, n \in Devices : Sound(R[d][n])

IInv ==
  /\ AllSound(record)
  /\ AllSound(disk)
  /\ sent \subseteq Distribution \cup GroupMessage
  /\ IsFiniteSet(sent)

LEMMA UpdateSound ==
  ASSUME NEW R, AllSound(R), NEW d \in Devices, NEW n \in Devices,
         NEW q \in Seq(State), Sound(q)
  PROVE  AllSound([R EXCEPT ![d][n] = q])
BY DEF AllSound, Store

LEMMA SaveSound ==
  ASSUME NEW d \in Devices, AllSound(record'), AllSound(disk), Save(d)
  PROVE  AllSound(disk')
BY DEF AllSound, Store, Save

LEMMA ReplaceSound ==
  ASSUME NEW q \in Seq(State), Sound(q), NEW j \in 1..Len(q), NEW s \in State, StateInv(s)
  PROVE  /\ [q EXCEPT ![j] = s] \in Seq(State)
         /\ Sound([q EXCEPT ![j] = s])
BY ExceptSeq DEF Sound

LEMMA SingletonSound ==
  ASSUME NEW s \in State, StateInv(s)
  PROVE  <<s>> \in Seq(State) /\ Sound(<<s>>)
<1>1. <<s>> \in Seq(State) /\ Len(<<s>>) = 1 /\ <<s>>[1] = s OBVIOUS
<1>2. \A j \in 1..Len(<<s>>) : <<s>>[j] = s BY <1>1
<1>. QED BY <1>1, <1>2 DEF Sound

LEMMA PushSound ==
  ASSUME NEW q \in Seq(State), Sound(q), NEW s \in State, StateInv(s)
  PROVE  /\ <<s>> \o q \in Seq(State)
         /\ Sound(<<s>> \o q)
         /\ Len(<<s>> \o q) = Len(q) + 1
         /\ (<<s>> \o q)[1] = s
         /\ \A k \in 2..(Len(q) + 1) : (<<s>> \o q)[k] = q[k - 1]
<1>1. <<s>> \in Seq(State) /\ Len(<<s>>) = 1 /\ <<s>>[1] = s OBVIOUS
<1>2. /\ <<s>> \o q \in Seq(State)
      /\ Len(<<s>> \o q) = 1 + Len(q)
      /\ \A k \in 1..(1 + Len(q)) :
           (<<s>> \o q)[k] = IF k <= 1 THEN <<s>>[k] ELSE q[k - 1]
  BY <1>1, ConcatProperties
<1>3. Len(q) \in Nat BY LenProperties
<1>4. (<<s>> \o q)[1] = s BY <1>1, <1>2, <1>3
<1>5. \A k \in 2..(Len(q) + 1) : (<<s>> \o q)[k] = q[k - 1] /\ k - 1 \in 1..Len(q)
  BY <1>2, <1>3
<1>6. \A k \in 1..(Len(q) + 1) : k = 1 \/ k \in 2..(Len(q) + 1) BY <1>3
<1>7. \A k \in 1..Len(<<s>> \o q) : StateInv((<<s>> \o q)[k])
  BY <1>2, <1>3, <1>4, <1>5, <1>6 DEF Sound
<1>. QED BY <1>2, <1>3, <1>4, <1>5, <1>7 DEF Sound

\* The state get_state returns is one of the record's, with the key asked for.
LEMMA NewestMatchFound ==
  ASSUME NEW q \in Seq(State), NEW k, Matching(q, k) # {}
  PROVE  NewestMatch(q, k) \in 1..Len(q) /\ q[NewestMatch(q, k)].key_id = k
<1>. DEFINE S == Matching(q, k)
<1>1. S \subseteq Nat /\ S # {} BY DEF Matching
<1>2. \E j \in S : \A l \in S : j <= l
  <2>. DEFINE R == OpToRel(<, Nat)
  <2>1. IsWellFoundedOn(R, Nat) BY NatLessThanWellFounded
  <2>2. \A l, j \in Nat : l < j => <<l, j>> \in R BY DEF OpToRel
  <2>. HIDE DEF R
  <2>3. PICK j \in S : \A l \in S : ~ (<<l, j>> \in R) BY <1>1, <2>1, WFMin
  <2>4. j \in Nat /\ \A l \in S : l \in Nat /\ ~ (l < j) BY <1>1, <2>2, <2>3
  <2>. QED BY <2>4
<1>3. NewestMatch(q, k) \in S BY <1>2 DEF NewestMatch
<1>. QED BY <1>3 DEF Matching

\* Adding a message keeps the network well typed and finite.
LEMMA SendTyped ==
  ASSUME sent \subseteq Distribution \cup GroupMessage, IsFiniteSet(sent),
         NEW m \in Distribution \cup GroupMessage
  PROVE  /\ sent \cup {m} \subseteq Distribution \cup GroupMessage
         /\ IsFiniteSet(sent \cup {m})
BY FS_AddElement

\* The initial records are empty.
LEMMA InitInv == Init => IInv
<1>. SUFFICES ASSUME Init PROVE IInv OBVIOUS
<1>1. \A d, n \in Devices : record[d][n] = <<>> BY DEF Init
<1>2. AllSound(record)
  BY <1>1 DEF Init, AllSound, Store, Sound
<1>. QED BY <1>2, FS_EmptySet DEF Init, IInv

\* Every action preserves the invariant of every state it touches.
LEMMA StepInv == IInv /\ [Next]_vars => IInv'
<1>. SUFFICES ASSUME IInv, [Next]_vars PROVE IInv' OBVIOUS
<1>. USE DEF IInv
<1>0. /\ Primary \in [Devices -> Devices] /\ Authors \subseteq Devices
      /\ \A d, n \in Devices : record[d][n] \in Seq(State) /\ Sound(record[d][n])
      /\ \A d \in Devices : OwnName(d) \in Devices
  BY SenderKeyAssumption DEF AllSound, Store, OwnName
<1>1. ASSUME NEW d \in Authors, Create(d) PROVE IInv'
  <2>. DEFINE states == record[d][OwnName(d)]
              fresh == <<NewState(d, 0, TRUE)>>
  <2>0. d \in Devices /\ OwnName(d) \in Devices BY <1>0
  <2>1. CASE states = <<>>
    <3>1. NewState(d, 0, TRUE) \in State /\ StateInv(NewState(d, 0, TRUE))
      BY <2>0, NewStateInv DEF StateInv
    <3>2. fresh \in Seq(State) /\ Sound(fresh) BY <3>1, SingletonSound
    <3>3. record' = [record EXCEPT ![d][OwnName(d)] = fresh] /\ Save(d)
      BY <1>1, <2>1 DEF Create
    <3>4. AllSound(record') BY <3>2, <3>3, <2>0, UpdateSound
    <3>5. AllSound(disk') BY <3>3, <3>4, <2>0, SaveSound
    <3>6. [type |-> "skdm", author |-> d, key_id |-> fresh[1].key_id,
           iteration |-> fresh[1].iteration] \in Distribution
      BY <2>0, <3>1 DEF Distribution, State
    <3>. QED BY <3>4, <3>5, <3>6, SendTyped, <1>1, <2>1 DEF Create
  <2>2. CASE states # <<>>
    <3>1. states[1] \in State
      BY <2>0, <2>2, <1>0, EmptySeq, ElementOfSeq
    <3>2. [type |-> "skdm", author |-> d, key_id |-> states[1].key_id,
           iteration |-> states[1].iteration] \in Distribution
      BY <2>0, <3>1 DEF Distribution, State
    <3>. QED BY <3>2, SendTyped, <1>1, <2>2 DEF Create
  <2>. QED BY <2>1, <2>2
<1>2. ASSUME NEW d \in Authors, Encrypt(d) PROVE IInv'
  <2>. DEFINE states == record[d][OwnName(d)]
              s == states[1]
              i == NextIteration(s)
              t == TakeKey(s, i)
              q == [states EXCEPT ![1] = t]
  <2>0. d \in Devices /\ OwnName(d) \in Devices BY <1>0
  <2>1. states \in Seq(State) /\ Sound(states) /\ 1 \in 1..Len(states)
    BY <2>0, <1>0, <1>2, EmptySeq DEF Encrypt
  <2>2. StateInv(s) /\ s \in State BY <2>1 DEF Sound, StateInv
  <2>3. i \in Nat BY <2>2 DEF NextIteration, State
  <2>4. Usable(s, i) BY <1>2 DEF Encrypt
  <2>5. StateInv(t) /\ t \in State BY <2>2, <2>3, <2>4, TakeKeyInv DEF StateInv
  <2>6. q \in Seq(State) /\ Sound(q) BY <2>1, <2>5, ReplaceSound
  <2>7. record' = [record EXCEPT ![d][OwnName(d)] = q]
    BY <1>2, <2>0 DEF Encrypt, AllSound, Store
  <2>8. AllSound(record') BY <2>0, <2>6, <2>7, UpdateSound
  <2>9. CASE s.signing_private
    <3>1. Save(d) BY <1>2, <2>9 DEF Encrypt
    <3>2. AllSound(disk') BY <2>0, <2>8, <3>1, SaveSound
    <3>3. Cardinality(GroupMessages) \in Nat
      BY FS_Subset, FS_CardinalityType DEF GroupMessages
    <3>4. [type |-> "skmsg", author |-> d, key_id |-> s.key_id, iteration |-> i,
           body |-> Cardinality(GroupMessages)] \in GroupMessage
      BY <2>0, <2>2, <2>3, <3>3 DEF GroupMessage, State
    <3>. QED BY <2>8, <2>9, <3>2, <3>4, SendTyped, <1>2 DEF Encrypt
  <2>10. CASE ~s.signing_private BY <1>2, <2>8, <2>10 DEF Encrypt
  <2>. QED BY <2>9, <2>10
<1>3. ASSUME NEW d \in Devices, NEW m \in Distributions, Process(d, m) PROVE IInv'
  <2>1. m \in Distribution /\ m.author \in Devices /\ m.key_id \in Devices /\ m.iteration \in Nat
    BY DEF Distributions, Distribution, GroupMessage
  <2>. DEFINE s == NewState(m.key_id, m.iteration, FALSE)
              q == <<s>> \o record[d][m.author]
  <2>2. s \in State /\ StateInv(s) BY <2>1, NewStateInv DEF StateInv
  <2>3. q \in Seq(State) /\ Sound(q) BY <2>1, <2>2, <1>0, PushSound
  <2>4. record' = [record EXCEPT ![d][m.author] = q] /\ Save(d) /\ sent' = sent
    BY <1>3 DEF Process
  <2>5. AllSound(record') BY <2>1, <2>3, <2>4, UpdateSound
  <2>. QED BY <2>4, <2>5, SaveSound
<1>4. ASSUME NEW d \in Devices, NEW m \in GroupMessages, Decrypt(d, m) PROVE IInv'
  <2>1. m.author \in Devices /\ m.key_id \in Devices /\ m.iteration \in Nat
    BY DEF GroupMessages, Distribution, GroupMessage
  <2>. DEFINE states == record[d][m.author]
              j == NewestMatch(states, m.key_id)
              t == TakeKey(states[j], m.iteration)
              q == [states EXCEPT ![j] = t]
  <2>2. states \in Seq(State) /\ Sound(states) BY <2>1, <1>0
  <2>3. j \in 1..Len(states) BY <2>2, <1>4, NewestMatchFound DEF Decrypt
  <2>4. Usable(states[j], m.iteration) BY <1>4 DEF Decrypt
  <2>5. StateInv(states[j]) BY <2>2, <2>3 DEF Sound
  <2>6. StateInv(t) /\ t \in State BY <2>1, <2>4, <2>5, TakeKeyInv DEF StateInv
  <2>7. q \in Seq(State) /\ Sound(q) BY <2>2, <2>3, <2>6, ReplaceSound
  <2>8. record' = [record EXCEPT ![d][m.author] = q] /\ Save(d) /\ sent' = sent
    BY <1>4, <2>1 DEF Decrypt, AllSound, Store
  <2>9. AllSound(record') BY <2>1, <2>7, <2>8, UpdateSound
  <2>. QED BY <2>8, <2>9, SaveSound
<1>5. ASSUME NEW d \in Devices, Restart(d) PROVE IInv'
  BY <1>5 DEF Restart, AllSound, Store
<1>6. CASE UNCHANGED vars BY <1>6 DEF vars
<1>. QED BY <1>1, <1>2, <1>3, <1>4, <1>5, <1>6 DEF Next

\* The records and messages are well typed.
THEOREM TypeCorrect == Spec => []TypeOK
<1>1. IInv => TypeOK
  BY DEF IInv, AllSound, Store, TypeOK
<1>. QED BY <1>1, InitInv, StepInv, PTL DEF Spec

\* Every state that is reachable satisfies the invariant of one state.
LEMMA EveryState ==
  ASSUME IInv, NEW d \in Devices, NEW n \in Devices, NEW s \in States(d, n)
  PROVE  StateInv(s)
BY DEF IInv, AllSound, Sound, States, Entries

\* A repeated group message is refused by the state that read it.
THEOREM NoReplayWithinState == Spec => []AtMostOncePerState
<1>1. IInv => AtMostOncePerState
  BY EveryState DEF AtMostOncePerState, StateInv
<1>. QED BY <1>1, InitInv, StepInv, PTL DEF Spec

\* The cache of skipped keys is bounded and disjoint from the keys taken.
THEOREM SkippedKeysSafe == Spec => []SkippedKeysBounded
<1>1. IInv => SkippedKeysBounded
  BY EveryState DEF SkippedKeysBounded, StateInv
<1>. QED BY <1>1, InitInv, StepInv, PTL DEF Spec

\* Late messages within MAX_MESSAGE_KEYS of the chain remain readable.
THEOREM LateMessages == Spec => []LateMessagesReadable
<1>1. IInv => LateMessagesReadable
  BY EveryState DEF LateMessagesReadable, StateInv
<1>. QED BY <1>1, InitInv, StepInv, PTL DEF Spec

-----------------------------------------------------------------------------
\* No message key is used twice, when no write of the key file fails.

\* In a store R, with the group messages G sent: only a device's own record
\* holds private states, one at most, and it is past every message of its key.
OwnChain(R, G, d, n, j) ==
  R[d][n][j].signing_private =>
    /\ n = OwnName(d)
    /\ R[d][n][j].key_id = d
    /\ \A m \in G : m.key_id = d => m.iteration < R[d][n][j].iteration
    /\ \A k \in 1..Len(R[d][n]) : R[d][n][k].signing_private => k = j

OwnChains(R, G) ==
  /\ \A d, n \in Devices : \A j \in 1..Len(R[d][n]) : OwnChain(R, G, d, n, j)
  /\ \A m \in G : R[m.key_id][OwnName(m.key_id)] # <<>>

ReuseInv ==
  /\ NoKeyReuse
  /\ OwnChains(record, GroupMessages)
  /\ OwnChains(disk, GroupMessages)

\* What the invariant needs to know of the messages in G.
Typed(G) == \A m \in G : m.key_id \in Devices /\ m.iteration \in Nat

\* Initially nothing was sent.
LEMMA InitReuse == Init => ReuseInv
<1>. SUFFICES ASSUME Init PROVE ReuseInv OBVIOUS
<1>1. GroupMessages = {} BY DEF Init, GroupMessages
<1>2. \A d, n \in Devices : record[d][n] = <<>> /\ Len(record[d][n]) = 0
  BY DEF Init
<1>. QED BY <1>1, <1>2 DEF Init, ReuseInv, NoKeyReuse, OwnChains

\* A state may move forward in place.
LEMMA OwnReplace ==
  ASSUME NEW R, R \in Store, NEW G, Typed(G), OwnChains(R, G),
         NEW d \in Devices, NEW n \in Devices, NEW j \in 1..Len(R[d][n]), NEW t \in State,
         t.signing_private = R[d][n][j].signing_private,
         t.key_id = R[d][n][j].key_id,
         t.iteration >= R[d][n][j].iteration
  PROVE  OwnChains([R EXCEPT ![d][n] = [R[d][n] EXCEPT ![j] = t]], G)
<1>. DEFINE Q == [R EXCEPT ![d][n] = [R[d][n] EXCEPT ![j] = t]]
<1>1. R[d][n] \in Seq(State) /\ R[d][n][j] \in State BY ElementOfSeq DEF Store
<1>2. /\ Len(Q[d][n]) = Len(R[d][n])
      /\ Q[d][n][j] = t
      /\ \A k \in 1..Len(R[d][n]) : k # j => Q[d][n][k] = R[d][n][k]
  BY <1>1, ExceptSeq DEF Store
<1>3. \A e, l \in Devices : ~(e = d /\ l = n) => Q[e][l] = R[e][l] BY DEF Store
<1>. HIDE DEF Q
<1>4. ASSUME NEW e \in Devices, NEW l \in Devices, NEW k \in 1..Len(Q[e][l])
      PROVE  OwnChain(Q, G, e, l, k)
  <2>1. CASE ~(e = d /\ l = n)
    <3>1. Q[e][l] = R[e][l] BY <1>3, <2>1
    <3>2. OwnChain(R, G, e, l, k) BY <3>1 DEF OwnChains
    <3>. QED BY <3>1, <3>2 DEF OwnChain
  <2>2. CASE e = d /\ l = n
    <3>1. OwnChain(R, G, d, n, k) BY <1>2, <2>2 DEF OwnChains
    <3>2. \A x \in 1..Len(R[d][n]) :
            /\ Q[d][n][x].signing_private = R[d][n][x].signing_private
            /\ Q[d][n][x].key_id = R[d][n][x].key_id
      BY <1>2
    <3>3. ASSUME NEW m \in G, m.iteration < R[d][n][k].iteration
          PROVE  m.iteration < Q[d][n][k].iteration
      <4>1. CASE k = j
        <5>1. t.iteration \in Nat /\ R[d][n][j].iteration \in Nat /\ m.iteration \in Nat
          BY <1>1 DEF State, Typed
        <5>2. m.iteration < R[d][n][j].iteration BY <3>3, <4>1
        <5>3. m.iteration < t.iteration BY <5>1, <5>2
        <5>. QED BY <5>3, <4>1, <1>2
      <4>2. CASE k # j
        <5>1. k \in 1..Len(R[d][n]) BY <1>2, <2>2
        <5>2. Q[d][n][k] = R[d][n][k] BY <5>1, <1>2, <4>2
        <5>. QED BY <5>2, <3>3
      <4>. QED BY <4>1, <4>2
    <3>. QED BY <3>1, <3>2, <3>3, <1>2, <2>2 DEF OwnChain
  <2>. QED BY <2>1, <2>2
<1>5. ASSUME NEW m \in G PROVE Q[m.key_id][OwnName(m.key_id)] # <<>>
  <2>1. R[m.key_id][OwnName(m.key_id)] # <<>> BY DEF OwnChains
  <2>2. m.key_id \in Devices /\ OwnName(m.key_id) \in Devices
    BY SenderKeyAssumption DEF Typed, OwnName
  <2>3. CASE m.key_id = d /\ OwnName(m.key_id) = n
    <3>1. Len(Q[d][n]) # 0 BY <1>1, <1>2, LenProperties
    <3>. QED BY <2>3, <3>1
  <2>. QED BY <2>1, <2>2, <2>3, <1>3
<1>. QED BY <1>4, <1>5 DEF OwnChains, Q

\* A state without the private key may be put in front.
LEMMA OwnPush ==
  ASSUME NEW R, AllSound(R), NEW G, Typed(G), OwnChains(R, G),
         NEW d \in Devices, NEW n \in Devices, NEW t \in State, StateInv(t),
         ~t.signing_private
  PROVE  OwnChains([R EXCEPT ![d][n] = <<t>> \o R[d][n]], G)
<1>. DEFINE Q == [R EXCEPT ![d][n] = <<t>> \o R[d][n]]
<1>1. R \in Store /\ R[d][n] \in Seq(State) /\ Sound(R[d][n]) BY DEF AllSound, Store
<1>2. /\ Len(Q[d][n]) = Len(R[d][n]) + 1
      /\ Q[d][n][1] = t
      /\ \A k \in 2..(Len(R[d][n]) + 1) : Q[d][n][k] = R[d][n][k - 1]
      /\ Len(R[d][n]) \in Nat
  BY <1>1, PushSound, LenProperties DEF Store
<1>3. \A e, l \in Devices : ~(e = d /\ l = n) => Q[e][l] = R[e][l] BY <1>1 DEF Store
<1>. HIDE DEF Q
<1>4. ASSUME NEW e \in Devices, NEW l \in Devices, NEW k \in 1..Len(Q[e][l])
      PROVE  OwnChain(Q, G, e, l, k)
  <2>1. CASE ~(e = d /\ l = n)
    <3>1. Q[e][l] = R[e][l] BY <1>3, <2>1
    <3>2. OwnChain(R, G, e, l, k) BY <3>1 DEF OwnChains
    <3>. QED BY <3>1, <3>2 DEF OwnChain
  <2>2. CASE e = d /\ l = n
    <3>1. CASE k = 1 BY <3>1, <2>2, <1>2 DEF OwnChain
    <3>2. CASE k # 1
      <4>0. k \in 2..(Len(R[d][n]) + 1) BY <1>2, <2>2, <3>2
      <4>1. k - 1 \in 1..Len(R[d][n]) /\ Q[d][n][k] = R[d][n][k - 1]
        <5>1. Q[d][n][k] = R[d][n][k - 1] BY <4>0, <1>2
        <5>. QED BY <4>0, <5>1, <1>2
      <4>2. OwnChain(R, G, d, n, k - 1) BY <4>1 DEF OwnChains
      <4>3. ASSUME NEW x \in 1..Len(Q[d][n]), Q[d][n][x].signing_private,
                   Q[d][n][k].signing_private
            PROVE  x = k
        <5>1. x # 1 BY <4>3, <1>2
        <5>2. x - 1 \in 1..Len(R[d][n]) /\ Q[d][n][x] = R[d][n][x - 1] BY <5>1, <1>2
        <5>3. x - 1 = k - 1 BY <5>2, <4>1, <4>2, <4>3 DEF OwnChain
        <5>. QED BY <5>3, <1>2, <2>2
      <4>. QED BY <4>1, <4>2, <4>3, <2>2 DEF OwnChain
    <3>. QED BY <3>1, <3>2
  <2>. QED BY <2>1, <2>2
<1>5. ASSUME NEW m \in G PROVE Q[m.key_id][OwnName(m.key_id)] # <<>>
  <2>1. R[m.key_id][OwnName(m.key_id)] # <<>> BY DEF OwnChains
  <2>2. m.key_id \in Devices /\ OwnName(m.key_id) \in Devices
    BY SenderKeyAssumption DEF Typed, OwnName
  <2>3. CASE m.key_id = d /\ OwnName(m.key_id) = n
    <3>1. Len(Q[d][n]) # 0 BY <1>2
    <3>. QED BY <2>3, <3>1
  <2>. QED BY <2>1, <2>2, <2>3, <1>3
<1>. QED BY <1>4, <1>5 DEF OwnChains, Q

\* An empty own record may get its first key: no message was sent with it.
LEMMA OwnCreate ==
  ASSUME NEW R, R \in Store, NEW G, Typed(G), OwnChains(R, G),
         NEW d \in Devices, R[d][OwnName(d)] = <<>>,
         NEW t \in State, t.key_id = d
  PROVE  OwnChains([R EXCEPT ![d][OwnName(d)] = <<t>>], G)
<1>. DEFINE n == OwnName(d)
            Q == [R EXCEPT ![d][n] = <<t>>]
<1>0. n \in Devices BY SenderKeyAssumption DEF OwnName
<1>1. Q[d][n] = <<t>> /\ Len(Q[d][n]) = 1 /\ Q[d][n][1] = t BY <1>0 DEF Store
<1>2. \A e, l \in Devices : ~(e = d /\ l = n) => Q[e][l] = R[e][l] BY DEF Store
<1>3. \A m \in G : m.key_id # d BY DEF OwnChains
<1>. HIDE DEF Q
<1>4. ASSUME NEW e \in Devices, NEW l \in Devices, NEW k \in 1..Len(Q[e][l])
      PROVE  OwnChain(Q, G, e, l, k)
  <2>1. CASE ~(e = d /\ l = n)
    <3>1. Q[e][l] = R[e][l] BY <1>2, <2>1
    <3>2. OwnChain(R, G, e, l, k) BY <3>1 DEF OwnChains
    <3>. QED BY <3>1, <3>2 DEF OwnChain
  <2>2. CASE e = d /\ l = n
    <3>1. k = 1 BY <2>2, <1>1
    <3>. QED BY <3>1, <2>2, <1>1, <1>3 DEF OwnChain
  <2>. QED BY <2>1, <2>2
<1>5. ASSUME NEW m \in G PROVE Q[m.key_id][OwnName(m.key_id)] # <<>>
  <2>1. m.key_id \in Devices /\ OwnName(m.key_id) \in Devices
    BY SenderKeyAssumption DEF Typed, OwnName
  <2>. QED BY <2>1, <1>2, <1>3 DEF OwnChains
<1>. QED BY <1>4, <1>5 DEF OwnChains, Q

\* One device's records may be copied from one store to the other.
LEMMA OwnCopy ==
  ASSUME NEW R, R \in Store, NEW D, D \in Store, NEW G, Typed(G),
         OwnChains(R, G), OwnChains(D, G), NEW d \in Devices
  PROVE  OwnChains([D EXCEPT ![d] = R[d]], G)
<1>. DEFINE Q == [D EXCEPT ![d] = R[d]]
<1>1. Q[d] = R[d] /\ \A e \in Devices : e # d => Q[e] = D[e] BY DEF Store
<1>. HIDE DEF Q
<1>2. ASSUME NEW e \in Devices, NEW l \in Devices, NEW k \in 1..Len(Q[e][l])
      PROVE  OwnChain(Q, G, e, l, k)
  <2>1. CASE e = d
    <3>1. Q[e] = R[e] BY <2>1, <1>1
    <3>2. OwnChain(R, G, e, l, k) BY <3>1 DEF OwnChains
    <3>. QED BY <3>1, <3>2 DEF OwnChain
  <2>2. CASE e # d
    <3>1. Q[e] = D[e] BY <2>2, <1>1
    <3>2. OwnChain(D, G, e, l, k) BY <3>1 DEF OwnChains
    <3>. QED BY <3>1, <3>2 DEF OwnChain
  <2>. QED BY <2>1, <2>2
<1>3. \A m \in G : Q[m.key_id][OwnName(m.key_id)] # <<>>
  BY <1>1 DEF OwnChains, Typed
<1>. QED BY <1>2, <1>3 DEF OwnChains, Q

\* A message may be sent with the key of a private state that is past it.
LEMMA OwnSend ==
  ASSUME NEW R, R \in Store, NEW G, OwnChains(R, G), NEW d \in Devices, NEW m,
         m.key_id = d, R[d][OwnName(d)] # <<>>, R[d][OwnName(d)][1].signing_private,
         m.iteration < R[d][OwnName(d)][1].iteration
  PROVE  OwnChains(R, G \cup {m})
<1>0. OwnName(d) \in Devices BY SenderKeyAssumption DEF OwnName
<1>1. 1 \in 1..Len(R[d][OwnName(d)]) BY <1>0, EmptySeq DEF Store
<1>2. ASSUME NEW e \in Devices, NEW l \in Devices, NEW k \in 1..Len(R[e][l])
      PROVE  OwnChain(R, G \cup {m}, e, l, k)
  <2>1. OwnChain(R, G, e, l, k) BY DEF OwnChains
  <2>2. CASE e # d BY <2>1, <2>2 DEF OwnChain
  <2>3. CASE e = d
    <3>. SUFFICES ASSUME R[d][l][k].signing_private
                  PROVE  m.iteration < R[d][l][k].iteration
      BY <2>1, <2>3 DEF OwnChain
    <3>1. l = OwnName(d) BY <2>1, <2>3 DEF OwnChain
    <3>2. k = 1 BY <2>1, <2>3, <3>1, <1>1 DEF OwnChain
    <3>. QED BY <3>1, <3>2
  <2>. QED BY <2>2, <2>3
<1>. QED BY <1>2 DEF OwnChains

\* What a successful save leaves on disk.
LEMMA SavedOwn ==
  ASSUME NEW d \in Devices, NEW G, Typed(G), SaveMayFail = FALSE, Save(d),
         record' \in Store, disk \in Store, OwnChains(record', G), OwnChains(disk, G)
  PROVE  /\ OwnChains(disk', G)
         /\ disk' = [disk EXCEPT ![d] = record'[d]]
<1>1. disk' = [disk EXCEPT ![d] = record'[d]] BY DEF Save
<1>. QED BY <1>1, OwnCopy

\* TakeKey moves forward and keeps the key and its private half.
LEMMA TakeKeyForward ==
  ASSUME NEW s \in State, NEW i \in Nat
  PROVE  /\ TakeKey(s, i).signing_private = s.signing_private
         /\ TakeKey(s, i).key_id = s.key_id
         /\ TakeKey(s, i).iteration >= s.iteration
         /\ s.iteration <= i => TakeKey(s, i).iteration = i + 1
<1>1. s.iteration \in Nat BY DEF State
<1>2. CASE s.iteration > i BY <1>1, <1>2 DEF TakeKey, State
<1>3. CASE ~(s.iteration > i)
  <2>1. /\ TakeKey(s, i).iteration = i + 1
        /\ TakeKey(s, i).signing_private = s.signing_private
        /\ TakeKey(s, i).key_id = s.key_id
    BY <1>3 DEF TakeKey, State
  <2>. QED BY <2>1, <1>1, <1>3
<1>. QED BY <1>2, <1>3

\* When no write fails, every action preserves the invariant of key use.
LEMMA StepReuse ==
  SaveMayFail = FALSE /\ IInv /\ IInv' /\ ReuseInv /\ [Next]_vars => ReuseInv'
<1>. SUFFICES ASSUME SaveMayFail = FALSE, IInv, IInv', ReuseInv, [Next]_vars
              PROVE  ReuseInv'
  OBVIOUS
<1>. DEFINE G == GroupMessages
<1>0. /\ Authors \subseteq Devices
      /\ record \in Store /\ disk \in Store /\ record' \in Store /\ disk' \in Store
      /\ AllSound(record)
      /\ \A d, n \in Devices : record[d][n] \in Seq(State)
      /\ \A d \in Devices : OwnName(d) \in Devices
  BY SenderKeyAssumption DEF IInv, AllSound, Store, OwnName
<1>g. Typed(G) /\ \A m \in G : m.author \in Devices
  BY DEF IInv, Typed, GroupMessages, Distribution, GroupMessage
<1>r. OwnChains(record, G) /\ OwnChains(disk, G) /\ NoKeyReuse BY DEF ReuseInv
<1>. HIDE DEF G
<1>k. ASSUME GroupMessages' = G, OwnChains(record', G), OwnChains(disk', G) PROVE ReuseInv'
  BY <1>k, <1>r DEF ReuseInv, NoKeyReuse, G
<1>1. ASSUME NEW d \in Authors, Create(d) PROVE ReuseInv'
  <2>. DEFINE n == OwnName(d)
              t == NewState(d, 0, TRUE)
  <2>0. d \in Devices /\ n \in Devices BY <1>0
  <2>1. GroupMessages' = G
    <3>. DEFINE Skdm(x) == [type |-> "skdm", author |-> d,
                            key_id |-> x.key_id, iteration |-> x.iteration]
    <3>1. \/ sent' = sent \cup {Skdm(<<t>>[1])}
          \/ sent' = sent \cup {Skdm(record[d][n][1])}
      BY <1>1 DEF Create
    <3>2. \A x : Skdm(x).type = "skdm" OBVIOUS
    <3>. HIDE DEF Skdm
    <3>3. PICK m : sent' = sent \cup {m} /\ m.type = "skdm" BY <3>1, <3>2
    <3>. QED BY <3>3 DEF GroupMessages, G
  <2>2. CASE record[d][n] = <<>>
    <3>1. record' = [record EXCEPT ![d][n] = <<t>>] /\ Save(d) BY <1>1, <2>2 DEF Create
    <3>2. t \in State /\ t.key_id = d
      <4>1. t \in State BY <2>0, NewStateInv DEF StateInv
      <4>2. t.key_id = d BY DEF NewState
      <4>. QED BY <4>1, <4>2
    <3>3. OwnChains(record', G) BY <2>0, <2>2, <3>1, <3>2, <1>0, <1>g, <1>r, OwnCreate
    <3>. QED BY <2>0, <2>1, <3>1, <3>3, <1>0, <1>g, <1>r, <1>k, SavedOwn
  <2>3. CASE record[d][n] # <<>>
    <3>1. record' = record /\ disk' = disk BY <1>1, <2>3 DEF Create
    <3>. QED BY <2>1, <3>1, <1>r, <1>k
  <2>. QED BY <2>2, <2>3
<1>2. ASSUME NEW d \in Authors, Encrypt(d) PROVE ReuseInv'
  <2>. DEFINE n == OwnName(d)
              s == record[d][n][1]
              i == NextIteration(s)
              t == TakeKey(s, i)
              m == [type |-> "skmsg", author |-> d, key_id |-> s.key_id, iteration |-> i,
                    body |-> Cardinality(GroupMessages)]
  <2>0. d \in Devices /\ n \in Devices BY <1>0
  <2>1. record[d][n] # <<>> /\ 1 \in 1..Len(record[d][n])
    BY <2>0, <1>0, <1>2, EmptySeq DEF Encrypt
  <2>2. s \in State /\ s.iteration \in Nat
    <3>1. record[d][n] \in Seq(State) BY <2>0, <1>0
    <3>2. s \in State BY <3>1, <2>1, ElementOfSeq
    <3>. QED BY <3>2 DEF State
  <2>3. i \in Nat /\ s.iteration <= i BY <2>2 DEF NextIteration
  <2>4. /\ t.signing_private = s.signing_private /\ t.key_id = s.key_id
        /\ t.iteration >= s.iteration /\ t.iteration = i + 1
    BY <2>2, <2>3, TakeKeyForward
  <2>5. t \in State
    <3>1. StateInv(s) BY <2>0, <2>1, <1>0 DEF AllSound, Sound
    <3>2. Usable(s, i) BY <1>2 DEF Encrypt
    <3>. QED BY <2>3, <3>1, <3>2, TakeKeyInv DEF StateInv
  <2>6. record' = [record EXCEPT ![d][n] = [record[d][n] EXCEPT ![1] = t]]
    BY <1>2, <2>0, <1>0 DEF Encrypt, Store
  <2>7. OwnChains(record', G)
    <3>. HIDE DEF n, t, s, i
    <3>1. t.signing_private = record[d][n][1].signing_private
          /\ t.key_id = record[d][n][1].key_id /\ t.iteration >= record[d][n][1].iteration
      BY <2>4 DEF s
    <3>. QED BY <2>0, <2>1, <2>5, <2>6, <3>1, <1>0, <1>g, <1>r, OwnReplace
  <2>8. CASE s.signing_private
    <3>1. Save(d) /\ sent' = sent \cup {m} BY <1>2, <2>8 DEF Encrypt
    <3>2. OwnChains(disk', G) /\ disk'[d][n] = record'[d][n]
      BY <2>0, <2>7, <3>1, <1>0, <1>g, <1>r, SavedOwn DEF Store
    <3>3. s.key_id = d /\ \A x \in G : x.key_id = d => x.iteration < s.iteration
      BY <2>0, <2>1, <2>8, <1>r DEF OwnChains, OwnChain
    <3>4. /\ record'[d][n] # <<>> /\ record'[d][n][1].signing_private
          /\ i < record'[d][n][1].iteration
      <4>1. record'[d][n] = [record[d][n] EXCEPT ![1] = t] BY <2>0, <2>6, <1>0 DEF Store
      <4>2. record'[d][n][1] = t /\ Len(record'[d][n]) = Len(record[d][n])
        BY <4>1, <2>0, <2>1, <2>5, <1>0, ExceptSeq
      <4>3. Len(record'[d][n]) # 0 BY <4>2, <2>1
      <4>. QED BY <4>2, <4>3, <2>3, <2>4, <2>8
    <3>5. GroupMessages' = G \cup {m} BY <3>1 DEF GroupMessages, G
    <3>6. m.key_id = d /\ m.iteration = i BY <3>3
    <3>7. OwnChains(record', G \cup {m}) /\ OwnChains(disk', G \cup {m})
      <4>. HIDE DEF m, i, s, t
      <4>. QED BY <2>0, <2>7, <3>2, <3>4, <3>6, <1>0, OwnSend
    <3>8. \A x \in G : x.key_id = m.key_id => x.iteration # m.iteration
      <4>1. ASSUME NEW x \in G, x.key_id = m.key_id PROVE x.iteration # m.iteration
        <5>1. x.iteration \in Nat BY <1>g DEF Typed
        <5>2. x.iteration < s.iteration BY <4>1, <3>3
        <5>3. x.iteration < i BY <5>1, <5>2, <2>2, <2>3
        <5>. QED BY <5>1, <5>3, <3>6, <2>3
      <4>. QED BY <4>1
    <3>9. NoKeyReuse'
      <4>. HIDE DEF m
      <4>. QED BY <3>5, <3>8, <1>r DEF NoKeyReuse, G
    <3>. QED BY <3>5, <3>7, <3>9 DEF ReuseInv
  <2>9. CASE ~s.signing_private
    <3>1. disk' = disk /\ sent' = sent BY <1>2, <2>9 DEF Encrypt
    <3>2. GroupMessages' = G BY <3>1 DEF GroupMessages, G
    <3>. QED BY <2>7, <3>1, <3>2, <1>r, <1>k
  <2>. QED BY <2>8, <2>9
<1>3. ASSUME NEW d \in Devices, NEW m \in Distributions, Process(d, m) PROVE ReuseInv'
  <2>1. m.author \in Devices /\ m.key_id \in Devices /\ m.iteration \in Nat
    BY DEF IInv, Distributions, Distribution, GroupMessage
  <2>. DEFINE t == NewState(m.key_id, m.iteration, FALSE)
  <2>2. t \in State /\ StateInv(t) BY <2>1, NewStateInv DEF StateInv
  <2>3. ~t.signing_private BY DEF NewState
  <2>4. record' = [record EXCEPT ![d][m.author] = <<t>> \o record[d][m.author]]
        /\ Save(d) /\ sent' = sent
    BY <1>3 DEF Process
  <2>. HIDE DEF t
  <2>5. OwnChains(record', G) BY <2>1, <2>2, <2>3, <2>4, <1>0, <1>g, <1>r, OwnPush
  <2>6. OwnChains(disk', G) BY <2>4, <2>5, <1>0, <1>g, <1>r, SavedOwn
  <2>. QED BY <2>4, <2>5, <2>6, <1>k DEF GroupMessages, G
<1>4. ASSUME NEW d \in Devices, NEW m \in GroupMessages, Decrypt(d, m) PROVE ReuseInv'
  <2>1. m.author \in Devices /\ m.iteration \in Nat
    BY DEF IInv, GroupMessages, Distribution, GroupMessage
  <2>. DEFINE n == m.author
              j == NewestMatch(record[d][n], m.key_id)
              s == record[d][n][j]
              t == TakeKey(s, m.iteration)
  <2>2. record[d][n] \in Seq(State) /\ j \in 1..Len(record[d][n])
    BY <2>1, <1>0, <1>4, NewestMatchFound DEF Decrypt
  <2>3. s \in State /\ StateInv(s)
    BY <2>1, <2>2, <1>0, ElementOfSeq DEF AllSound, Sound
  <2>4. Usable(s, m.iteration) BY <1>4 DEF Decrypt
  <2>5. t \in State BY <2>1, <2>3, <2>4, TakeKeyInv DEF StateInv
  <2>6. /\ t.signing_private = s.signing_private /\ t.key_id = s.key_id
        /\ t.iteration >= s.iteration
    BY <2>1, <2>3, TakeKeyForward
  <2>7. record' = [record EXCEPT ![d][n] = [record[d][n] EXCEPT ![j] = t]]
        /\ Save(d) /\ sent' = sent
    BY <1>4, <2>1, <1>0 DEF Decrypt, Store
  <2>8. OwnChains(record', G)
    <3>1. /\ t.signing_private = record[d][n][j].signing_private
          /\ t.key_id = record[d][n][j].key_id
          /\ t.iteration >= record[d][n][j].iteration
      BY <2>6
    <3>. HIDE DEF n, j, s, t
    <3>2. n \in Devices BY <2>1 DEF n
    <3>. QED BY <2>2, <2>5, <2>7, <3>1, <3>2, <1>0, <1>g, <1>r, OwnReplace
  <2>9. OwnChains(disk', G) BY <2>7, <2>8, <1>0, <1>g, <1>r, SavedOwn
  <2>. QED BY <2>7, <2>8, <2>9, <1>k DEF GroupMessages, G
<1>5. ASSUME NEW d \in Devices, Restart(d) PROVE ReuseInv'
  <2>1. record' = [record EXCEPT ![d] = disk[d]] /\ disk' = disk /\ sent' = sent
    BY <1>5 DEF Restart
  <2>2. OwnChains(record', G) BY <2>1, <1>0, <1>g, <1>r, OwnCopy
  <2>. QED BY <2>1, <2>2, <1>r, <1>k DEF GroupMessages, G
<1>6. CASE UNCHANGED vars
  BY <1>6, <1>r, <1>k DEF vars, GroupMessages, G
<1>. QED BY <1>1, <1>2, <1>3, <1>4, <1>5, <1>6 DEF Next

\* If every write of the key file succeeds, no message key encrypts two
\* messages, in any interleaving of sends, distribution messages and restarts.
THEOREM KeysNeverReused == ASSUME SaveMayFail = FALSE PROVE Spec => []NoKeyReuse
<1>1. Init => IInv /\ ReuseInv BY InitInv, InitReuse
<1>2. IInv /\ ReuseInv /\ [Next]_vars => IInv' /\ ReuseInv' BY StepInv, StepReuse
<1>3. ReuseInv => NoKeyReuse BY DEF ReuseInv
<1>. QED BY <1>1, <1>2, <1>3, PTL DEF Spec

=============================================================================
