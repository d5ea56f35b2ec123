------------------------- MODULE DoubleRatchetProofs -------------------------
(***************************************************************************)
(* For any number of sessions, messages and key pairs, either party        *)
(* starting sessions, and a network that reorders, repeats and loses: no   *)
(* message key encrypts twice and at most one session is open; and, as     *)
(* long as no session is pruned, the peer has the session of every message *)
(* that is sent unwrapped, and the two records implement MessageChannel.   *)
(* In a session that one party alone started, every message can be read    *)
(* until it was.                                                           *)
(***************************************************************************)
EXTENDS DoubleRatchet, SequenceTheorems, FiniteSetTheorems, TLAPS

\* The one-time pre-key that the server hands out with a base key.
PreKeyOf(b) == IF OneTime THEN b + 2 ELSE 0

Chains == UNION {[K -> Chain] : K \in SUBSET Key}
SessionType ==
  [root : Root, ephemeral : Key, last_remote : Key, previous_counter : Nat \cup {-1},
   base_key : Key, pre_key : Key, closed : BOOLEAN, pending : BOOLEAN, chains : Chains]

\* The last agreement of a root is of key pairs drawn so far.
Below(root, top) == root[Len(root)] \subseteq 0..top

\* A chain of a session with this root; sends: whether it is under the own ephemeral.
ChainInv(root, c, sends) ==
  /\ c.counter \in Nat \cup {-1} /\ c.message_keys \subseteq 0..c.counter
  /\ c.sending = sends
  /\ Len(c.seed) >= 2 /\ c.seed[1] = root[1]
  /\ IF sends THEN c.open /\ c.message_keys = {} /\ c.seed = root
              ELSE Len(c.seed) < Len(root)

\* A session, when top is the last key pair drawn: there is a sending chain from the first
\* step on, and the seeds of its chains are the root as it was at different steps.
SessionInv(s, top) ==
  /\ s \in SessionType
  /\ s.base_key \in 3..top
  /\ Len(s.root) >= 1 /\ s.root[1] = {s.base_key, PreKeyOf(s.base_key)}
  /\ Len(s.root) > 1 => Below(s.root, top)
  /\ DOMAIN s.chains \subseteq 3..top
  /\ s.ephemeral \in 1..2 \cup DOMAIN s.chains
  /\ s.ephemeral \in DOMAIN s.chains <=> Len(s.root) > 1
  /\ s.pending => s.pre_key = PreKeyOf(s.base_key)
  /\ \A k \in DOMAIN s.chains : ChainInv(s.root, s.chains[k], k = s.ephemeral)
  /\ \A k, l \in DOMAIN s.chains : k # l => Len(s.chains[k].seed) # Len(s.chains[l].seed)

\* The message key of this chain and counter is gone from the session.
Used(s, seed, n) ==
  \E k \in DOMAIN s.chains : /\ ~s.chains[k].sending /\ s.chains[k].seed = seed
                             /\ n <= s.chains[k].counter /\ n \notin s.chains[k].message_keys

\* A party tries m on a session, and if the ratchet steps it draws the key pair k.
Due(s, m, k, top, new) ==
  /\ {top, new, k} \subseteq Nat /\ top < k /\ top <= new
  /\ Steps(s, m) => k <= new
  /\ SessionInv(s, top)
  /\ m.ratchet_key \in 3..top /\ {m.previous_counter, m.counter} \subseteq Nat

-----------------------------------------------------------------------------
\* The two parties, and maps of chains.

LEMMA TwoParties ==
  /\ \A p \in Parties : Peer(p) \in Parties /\ Peer(p) # p /\ Parties = {p, Peer(p)}
  /\ \A p \in Parties : Peer(Peer(p)) = p
<1>1. IsFiniteSet(Parties) /\ Cardinality(Parties) = 2 BY DoubleRatchetAssumption
<1>2. ASSUME NEW p \in Parties PROVE \E q : q # p /\ Parties = {p, q}
  <2>1. IsFiniteSet(Parties \ {p}) /\ Cardinality(Parties \ {p}) = 1
    BY <1>1, FS_RemoveElement
  <2>2. PICK q : Parties \ {p} = {q} BY <2>1, FS_Singleton
  <2>. QED BY <2>2
<1>3. \A p \in Parties : Peer(p) \in Parties /\ Peer(p) # p BY <1>2 DEF Peer
<1>. QED BY <1>2, <1>3

LEMMA ChainsAre ==
  ASSUME NEW f \in Chains
  PROVE  /\ DOMAIN f \subseteq Key /\ f = [x \in DOMAIN f |-> f[x]]
         /\ \A x \in DOMAIN f : f[x] \in Chain
<1>1. PICK K \in SUBSET Key : f \in [K -> Chain] BY DEF Chains
<1>. QED BY <1>1

LEMMA AreChains ==
  ASSUME NEW f, DOMAIN f \subseteq Key, f \in [DOMAIN f -> Chain]
  PROVE  f \in Chains
BY DEF Chains

LEMMA Puts ==
  \A f \in Chains, k \in Key, c \in Chain :
    /\ With(f, k, c) \in Chains /\ DOMAIN With(f, k, c) = DOMAIN f \cup {k}
    /\ With(f, k, c)[k] = c /\ \A x \in DOMAIN f \ {k} : With(f, k, c)[x] = f[x]
<1>. SUFFICES ASSUME NEW f \in Chains, NEW k \in Key, NEW c \in Chain
     PROVE  /\ With(f, k, c) \in Chains /\ DOMAIN With(f, k, c) = DOMAIN f \cup {k}
            /\ With(f, k, c)[k] = c /\ \A x \in DOMAIN f \ {k} : With(f, k, c)[x] = f[x]
  OBVIOUS
<1>1. DOMAIN f \subseteq Key /\ \A x \in DOMAIN f : f[x] \in Chain BY ChainsAre
<1>2. /\ DOMAIN With(f, k, c) = DOMAIN f \cup {k}
      /\ With(f, k, c)[k] = c /\ \A x \in DOMAIN f \ {k} : With(f, k, c)[x] = f[x]
  BY DEF With
<1>3. With(f, k, c) \in [DOMAIN f \cup {k} -> Chain] BY <1>1 DEF With
<1>4. With(f, k, c) \in Chains BY <1>1, <1>3 DEF Chains
<1>. QED BY <1>2, <1>4

LEMMA Drops ==
  \A f \in Chains : \A k :
    /\ Less(f, k) \in Chains /\ DOMAIN Less(f, k) = DOMAIN f \ {k}
    /\ \A x \in DOMAIN f \ {k} : Less(f, k)[x] = f[x]
<1>. SUFFICES ASSUME NEW f \in Chains, NEW k
     PROVE  /\ Less(f, k) \in Chains /\ DOMAIN Less(f, k) = DOMAIN f \ {k}
            /\ \A x \in DOMAIN f \ {k} : Less(f, k)[x] = f[x]
  OBVIOUS
<1>1. DOMAIN f \subseteq Key /\ \A x \in DOMAIN f : f[x] \in Chain BY ChainsAre
<1>2. DOMAIN Less(f, k) = DOMAIN f \ {k} /\ \A x \in DOMAIN f \ {k} : Less(f, k)[x] = f[x]
  BY DEF Less
<1>3. Less(f, k) \in [DOMAIN f \ {k} -> Chain] BY <1>1 DEF Less
<1>4. Less(f, k) \in Chains BY <1>1, <1>3 DEF Chains
<1>. QED BY <1>2, <1>4

LEMMA Changes ==
  ASSUME NEW f \in Chains, NEW k \in DOMAIN f, NEW c \in Chain
  PROVE  /\ [f EXCEPT ![k] = c] \in Chains /\ DOMAIN [f EXCEPT ![k] = c] = DOMAIN f
         /\ [f EXCEPT ![k] = c][k] = c
         /\ \A x \in DOMAIN f \ {k} : [f EXCEPT ![k] = c][x] = f[x]
<1>1. /\ DOMAIN f \subseteq Key /\ f = [x \in DOMAIN f |-> f[x]]
      /\ \A x \in DOMAIN f : f[x] \in Chain
  BY ChainsAre
<1>2. [f EXCEPT ![k] = c] \in [DOMAIN f -> Chain] BY <1>1
<1>3. [f EXCEPT ![k] = c] \in Chains BY <1>1, <1>2 DEF Chains
<1>. QED BY <1>1, <1>2, <1>3

-----------------------------------------------------------------------------
\* One session: filling a chain, stepping the ratchet, trying a message.

LEMMA Extended ==
  ASSUME NEW r \in Root, Len(r) >= 1, NEW a \in SUBSET Key
  PROVE  /\ Append(r, a) \in Root /\ Len(Append(r, a)) = Len(r) + 1
         /\ Append(r, a)[Len(r) + 1] = a /\ Append(r, a)[1] = r[1] /\ Len(r) \in Nat
<1>1. Len(r) \in Nat /\ 1 \in 1..Len(r) BY DEF Root
<1>2. /\ Append(r, a) \in Root /\ Len(Append(r, a)) = Len(r) + 1
      /\ Append(r, a)[Len(r) + 1] = a /\ \A i \in 1..Len(r) : Append(r, a)[i] = r[i]
  BY AppendProperties DEF Root
<1>. QED BY <1>1, <1>2

\* d is what became of the chain c: no message key that is gone comes back.
Onward(c, d) ==
  /\ d.sending = c.sending /\ d.seed = c.seed /\ c.counter <= d.counter
  /\ \A i \in Nat : i <= c.counter /\ i \notin c.message_keys => i \notin d.message_keys

LEMMA Filled ==
  ASSUME NEW c \in Chain, NEW n \in Nat,
         c.counter \in Nat \cup {-1}, c.message_keys \subseteq 0..c.counter
  PROVE  /\ Fill(c, n) \in Chain /\ Onward(c, Fill(c, n)) /\ Fill(c, n).open = c.open
         /\ Fill(c, n).counter \in Nat \cup {-1} /\ n <= Fill(c, n).counter
         /\ Fill(c, n).message_keys \subseteq 0..Fill(c, n).counter
<1>1. CASE n <= c.counter
  <2>1. Fill(c, n) = c BY <1>1 DEF Fill
  <2>. QED BY <1>1, <2>1 DEF Onward, Chain
<1>2. CASE ~(n <= c.counter)
  <2>1. Fill(c, n) = [c EXCEPT !.counter = n, !.message_keys = @ \cup (c.counter + 1 .. n)]
    BY <1>2 DEF Fill
  <2>2. /\ Fill(c, n).counter = n /\ Fill(c, n).open = c.open
        /\ Fill(c, n).sending = c.sending /\ Fill(c, n).seed = c.seed
        /\ Fill(c, n).message_keys = c.message_keys \cup (c.counter + 1 .. n)
    BY <2>1 DEF Chain
  <2>3. c.counter + 1 .. n \subseteq 0..n /\ 0..c.counter \subseteq 0..n BY <1>2
  <2>4. Fill(c, n) \in Chain
    <3>. DEFINE held == c.message_keys \cup (c.counter + 1 .. n)
    <3>1. held \in SUBSET Nat /\ n \in Int BY <2>3 DEF Chain
    <3>2. Fill(c, n) = [c EXCEPT !.counter = n, !.message_keys = held] BY <2>1
    <3>. HIDE DEF held
    <3>. QED BY <3>1, <3>2 DEF Chain
  <2>5. \A i \in Nat : i <= c.counter => i \notin c.counter + 1 .. n OBVIOUS
  <2>. QED BY <1>2, <2>2, <2>3, <2>4, <2>5 DEF Onward
<1>. QED BY <1>1, <1>2

\* What closing a receiving chain leaves of the chains.
LEMMA Closing ==
  ASSUME NEW f \in Chains, NEW last, NEW n \in Nat,
         \A x \in DOMAIN f : /\ f[x].counter \in Nat \cup {-1}
                             /\ f[x].message_keys \subseteq 0..f[x].counter
  PROVE  /\ Closed(f, last, n) \in Chains /\ DOMAIN Closed(f, last, n) = DOMAIN f
         /\ \A x \in DOMAIN f :
              /\ Closed(f, last, n)[x] \in Chain /\ Onward(f[x], Closed(f, last, n)[x])
              /\ Closed(f, last, n)[x].counter \in Nat \cup {-1}
              /\ Closed(f, last, n)[x].message_keys \subseteq 0..Closed(f, last, n)[x].counter
<1>1. DOMAIN f \subseteq Key /\ \A x \in DOMAIN f : f[x] \in Chain BY ChainsAre
<1>2. CASE last \in DOMAIN f
  <2>. DEFINE c == Fill(f[last], n)  d == [c EXCEPT !.open = FALSE]
  <2>1. /\ c \in Chain /\ Onward(f[last], c) /\ c.counter \in Nat \cup {-1}
        /\ c.message_keys \subseteq 0..c.counter
    BY <1>1, <1>2, Filled
  <2>2. Closed(f, last, n) = [f EXCEPT ![last] = d] BY <1>2 DEF Closed
  <2>. HIDE DEF c
  <2>3. /\ d \in Chain /\ d.counter = c.counter /\ d.message_keys = c.message_keys
        /\ d.sending = c.sending /\ d.seed = c.seed
    BY <2>1 DEF Chain
  <2>4. Onward(f[last], d) BY <2>1, <2>3 DEF Onward
  <2>. HIDE DEF d
  <2>5. /\ [f EXCEPT ![last] = d] \in Chains /\ DOMAIN [f EXCEPT ![last] = d] = DOMAIN f
        /\ [f EXCEPT ![last] = d][last] = d
        /\ \A x \in DOMAIN f \ {last} : [f EXCEPT ![last] = d][x] = f[x]
    BY <1>1, <1>2, <2>3, Changes
  <2>6. \A x \in DOMAIN f : Onward(f[x], f[x]) BY <1>1 DEF Onward, Chain
  <2>. QED BY <1>1, <2>1, <2>2, <2>3, <2>4, <2>5, <2>6
<1>3. CASE last \notin DOMAIN f
  <2>1. Closed(f, last, n) = f BY <1>3 DEF Closed
  <2>2. \A x \in DOMAIN f : Onward(f[x], f[x]) BY <1>1 DEF Onward, Chain
  <2>. QED BY <1>1, <2>1, <2>2
<1>. QED BY <1>2, <1>3

LEMMA Parted ==
  ASSUME NEW s, NEW top, SessionInv(s, top)
  PROVE  /\ s.root \in Root /\ s.ephemeral \in Key /\ s.last_remote \in Key
         /\ s.previous_counter \in Nat \cup {-1} /\ s.base_key \in Key /\ s.pre_key \in Key
         /\ s.closed \in BOOLEAN /\ s.pending \in BOOLEAN /\ s.chains \in Chains
BY DEF SessionInv, SessionType

\* The ratchet steps, drawing the key pair k.
SteppedTo(s, e, r, top, new) ==
  /\ SessionInv(e, new)
  /\ e.base_key = s.base_key /\ e.pre_key = s.pre_key
  /\ e.closed = s.closed /\ e.pending = s.pending
  /\ Len(e.root) > Len(s.root) + 1 /\ ~Below(e.root, top)
  /\ r \in DOMAIN e.chains
  /\ e.chains[r] = NewChain(Append(s.root, {r, s.ephemeral}), FALSE)
  /\ \A x \in DOMAIN s.chains \ {s.ephemeral} :
       x \in DOMAIN e.chains /\ Onward(s.chains[x], e.chains[x])

\* The two chains that the step draws, and what it does to the others.
Drawn(s, e, m, k) ==
  /\ e.root = Append(Append(s.root, {m.ratchet_key, s.ephemeral}), {m.ratchet_key, k})
  /\ e.ephemeral = k /\ e.last_remote = m.ratchet_key
  /\ e.previous_counter = IF s.ephemeral \in DOMAIN s.chains
                          THEN s.chains[s.ephemeral].counter ELSE s.previous_counter
  /\ DOMAIN e.chains = ((DOMAIN s.chains \cup {m.ratchet_key}) \ {s.ephemeral}) \cup {k}
  /\ e.chains[k].counter = -1
  /\ \A x \in DOMAIN s.chains \ {s.ephemeral} :
       e.chains[x] = Closed(s.chains, s.last_remote, m.previous_counter)[x]

LEMMA Stepping ==
  \A s, m, k, top, new :
    Due(s, m, k, top, new) /\ Steps(s, m) =>
      /\ SteppedTo(s, Stepped(s, m, k), m.ratchet_key, top, new)
      /\ Drawn(s, Stepped(s, m, k), m, k)
<1>. SUFFICES ASSUME NEW s, NEW m, NEW k, NEW top, NEW new,
                     Due(s, m, k, top, new), Steps(s, m)
              PROVE  /\ SteppedTo(s, Stepped(s, m, k), m.ratchet_key, top, new)
                     /\ Drawn(s, Stepped(s, m, k), m, k)
  OBVIOUS
<1>a. PICK r, e : r = m.ratchet_key /\ e = Stepped(s, m, k) OBVIOUS
<1>b. /\ top \in Nat /\ new \in Nat /\ k \in Nat /\ top < k /\ k <= new
      /\ SessionInv(s, top) /\ r \in 3..top /\ m.previous_counter \in Nat
  BY <1>a DEF Due
<1>. DEFINE receiving == Append(s.root, {r, s.ephemeral})
            sending == Append(receiving, {r, k})
            first == NewChain(receiving, FALSE)
            last == NewChain(sending, TRUE)
            old == Closed(s.chains, s.last_remote, m.previous_counter)
            one == With(old, r, first)
            kept == Less(one, s.ephemeral)
            all == With(kept, k, last)
            n == IF s.ephemeral \in DOMAIN s.chains
                 THEN s.chains[s.ephemeral].counter ELSE s.previous_counter
<1>0. /\ s.root \in Root /\ s.ephemeral \in Key /\ s.last_remote \in Key
      /\ s.previous_counter \in Nat \cup {-1} /\ s.chains \in Chains /\ s \in SessionType
  BY <1>b, Parted DEF SessionInv
<1>1. /\ s.base_key \in 3..top /\ Len(s.root) >= 1 /\ Len(s.root) \in Nat
      /\ s.root[1] = {s.base_key, PreKeyOf(s.base_key)}
      /\ DOMAIN s.chains \subseteq 3..top /\ s.ephemeral \in 1..2 \cup DOMAIN s.chains
      /\ s.ephemeral \in DOMAIN s.chains <=> Len(s.root) > 1
      /\ s.pending => s.pre_key = PreKeyOf(s.base_key)
      /\ \A x \in DOMAIN s.chains : ChainInv(s.root, s.chains[x], x = s.ephemeral)
      /\ \A x, y \in DOMAIN s.chains :
           x # y => Len(s.chains[x].seed) # Len(s.chains[y].seed)
  BY <1>0, <1>b DEF SessionInv, Root
<1>2. /\ r \in Key /\ k \in Key /\ r \in 3..top /\ r # k
      /\ k \notin DOMAIN s.chains /\ r \notin DOMAIN s.chains
      /\ r # s.ephemeral /\ k # s.ephemeral
  <2>1. /\ r \in Key /\ k \in Key /\ r # k
        /\ ~(r \in 1..2) /\ ~(k \in 1..2) /\ ~(k \in 3..top)
    BY <1>b DEF Key
  <2>2. r \notin DOMAIN s.chains BY <1>a DEF Steps
  <2>. QED BY <1>1, <1>b, <2>1, <2>2
<1>3. /\ receiving \in Root /\ Len(receiving) = Len(s.root) + 1 /\ receiving[1] = s.root[1]
      /\ sending \in Root /\ Len(sending) = Len(s.root) + 2 /\ sending[1] = s.root[1]
      /\ sending[Len(sending)] = {r, k}
  <2>1. {r, s.ephemeral} \in SUBSET Key /\ {r, k} \in SUBSET Key BY <1>0, <1>2 DEF Key
  <2>2. /\ receiving \in Root /\ Len(receiving) = Len(s.root) + 1 /\ receiving[1] = s.root[1]
    BY <1>0, <1>1, <2>1, Extended
  <2>. HIDE DEF receiving
  <2>3. /\ sending \in Root /\ Len(sending) = Len(receiving) + 1 /\ sending[1] = receiving[1]
        /\ sending[Len(receiving) + 1] = {r, k} /\ Len(receiving) >= 1
    <3>1. receiving \in Root /\ Len(receiving) >= 1 /\ {r, k} \in SUBSET Key BY <1>1, <2>1, <2>2
    <3>. QED BY ONLY <3>1, Extended
  <2>. QED BY <1>1, <2>2, <2>3
<1>. HIDE DEF receiving, sending
<1>4. /\ first \in Chain /\ first.counter = -1 /\ first.message_keys = {} /\ first.open
      /\ first.sending = FALSE /\ first.seed = receiving
      /\ last \in Chain /\ last.counter = -1 /\ last.message_keys = {} /\ last.open
      /\ last.sending = TRUE /\ last.seed = sending
  BY <1>3 DEF NewChain, Chain
<1>. HIDE DEF first, last
<1>5. \A x \in DOMAIN s.chains : /\ s.chains[x].counter \in Nat \cup {-1}
                                 /\ s.chains[x].message_keys \subseteq 0..s.chains[x].counter
  BY <1>1 DEF ChainInv
<1>6. /\ old \in Chains /\ DOMAIN old = DOMAIN s.chains
      /\ \A x \in DOMAIN s.chains :
           /\ old[x] \in Chain /\ Onward(s.chains[x], old[x])
           /\ old[x].counter \in Nat \cup {-1}
           /\ old[x].message_keys \subseteq 0..old[x].counter
  <2>1. s.chains \in Chains /\ m.previous_counter \in Nat BY <1>0, <1>b
  <2>. QED BY ONLY <2>1, <1>5, Closing DEF old
<1>. HIDE DEF old
<1>7. /\ one \in Chains /\ DOMAIN one = DOMAIN old \cup {r} /\ one[r] = first
      /\ \A x \in DOMAIN old \ {r} : one[x] = old[x]
  <2>1. old \in Chains /\ r \in Key /\ first \in Chain BY <1>2, <1>4, <1>6
  <2>. QED BY ONLY <2>1, Puts, Zenon
<1>. HIDE DEF one
<1>8. /\ kept \in Chains /\ DOMAIN kept = DOMAIN one \ {s.ephemeral}
      /\ \A x \in DOMAIN one \ {s.ephemeral} : kept[x] = one[x]
  BY <1>7, Drops
<1>. HIDE DEF kept
<1>9. /\ all \in Chains /\ DOMAIN all = DOMAIN kept \cup {k} /\ all[k] = last
      /\ \A x \in DOMAIN kept \ {k} : all[x] = kept[x]
  <2>1. kept \in Chains /\ k \in Key /\ last \in Chain BY <1>2, <1>4, <1>8
  <2>. QED BY ONLY <2>1, Puts, Zenon
<1>. HIDE DEF all
<1>10. /\ DOMAIN all = ((DOMAIN s.chains \cup {r}) \ {s.ephemeral}) \cup {k}
       /\ all[r] = first /\ all[k] = last
       /\ \A x \in DOMAIN s.chains \ {s.ephemeral} : all[x] = old[x]
  BY <1>2, <1>6, <1>7, <1>8, <1>9
<1>11. n \in Nat \cup {-1} BY <1>0, <1>5
<1>. HIDE DEF n
<1>12. e = [s EXCEPT !.root = sending, !.ephemeral = k, !.last_remote = r,
                     !.previous_counter = n, !.chains = all]
  BY <1>a DEF Stepped, receiving, sending, n, all, kept, one, old, first, last
<1>13. /\ e \in SessionType /\ e.root = sending /\ e.ephemeral = k /\ e.last_remote = r
       /\ e.previous_counter = n /\ e.chains = all
       /\ e.base_key = s.base_key /\ e.pre_key = s.pre_key
       /\ e.closed = s.closed /\ e.pending = s.pending
  <2>1. /\ s \in SessionType /\ sending \in Root /\ k \in Key /\ r \in Key
        /\ n \in Nat \cup {-1} /\ all \in Chains
    BY <1>0, <1>2, <1>3, <1>9, <1>11
  <2>. QED BY ONLY <2>1, <1>12 DEF SessionType
<1>14. ASSUME NEW x \in DOMAIN all PROVE ChainInv(sending, all[x], x = k)
  <2>0. {} \subseteq 0..(-1) /\ -1 \in Nat \cup {-1} OBVIOUS
  <2>1. CASE x = k
    <3>1. Len(sending) >= 2 BY <1>1, <1>3
    <3>. QED BY <1>3, <1>4, <1>10, <2>0, <2>1, <3>1 DEF ChainInv
  <2>2. CASE x = r
    <3>1. Len(receiving) >= 2 /\ Len(receiving) < Len(sending) BY <1>1, <1>3
    <3>. QED BY <1>2, <1>3, <1>4, <1>10, <2>0, <2>2, <3>1 DEF ChainInv
  <2>3. CASE x # k /\ x # r
    <3>1. x \in DOMAIN s.chains /\ x # s.ephemeral /\ all[x] = old[x] BY <1>10, <2>3
    <3>2. ChainInv(s.root, s.chains[x], FALSE) BY <1>1, <3>1
    <3>3. Onward(s.chains[x], old[x]) /\ old[x].counter \in Nat \cup {-1}
          /\ old[x].message_keys \subseteq 0..old[x].counter
      BY <1>6, <3>1
    <3>4. s.chains[x].seed \in Root BY <1>0, <3>1, ChainsAre DEF Chain
    <3>5. Len(s.chains[x].seed) \in Nat BY <3>4 DEF Root
    <3>6. /\ old[x].sending = FALSE /\ old[x].seed = s.chains[x].seed
          /\ Len(s.chains[x].seed) >= 2 /\ s.chains[x].seed[1] = s.root[1]
          /\ Len(s.chains[x].seed) < Len(s.root)
      BY <3>2, <3>3 DEF ChainInv, Onward
    <3>7. Len(s.chains[x].seed) < Len(sending) BY <1>1, <1>3, <3>5, <3>6
    <3>. QED BY <1>3, <2>3, <3>1, <3>3, <3>6, <3>7 DEF ChainInv
  <2>. QED BY <2>1, <2>2, <2>3
<1>15. \A x \in DOMAIN s.chains \ {s.ephemeral} :
         all[x].seed = s.chains[x].seed /\ Len(all[x].seed) < Len(s.root)
  BY <1>1, <1>6, <1>10 DEF ChainInv, Onward
<1>16. all[r].seed = receiving /\ all[k].seed = sending BY <1>4, <1>10
<1>17. ASSUME NEW x \in DOMAIN all, NEW y \in DOMAIN all, x # y
       PROVE  Len(all[x].seed) # Len(all[y].seed)
  <2>1. \A z \in DOMAIN all : z = k \/ z = r \/ z \in DOMAIN s.chains \ {s.ephemeral} BY <1>10
  <2>2. CASE x \in DOMAIN s.chains \ {s.ephemeral} /\ y \in DOMAIN s.chains \ {s.ephemeral}
    BY <1>1, <1>15, <1>17, <2>2
  <2>3. CASE x \in {k, r} /\ y \in {k, r} BY <1>1, <1>3, <1>16, <1>17, <2>3
  <2>4. CASE x \in {k, r} /\ y \in DOMAIN s.chains \ {s.ephemeral}
    <3>1. Len(all[x].seed) > Len(s.root) /\ Len(all[x].seed) \in Nat
      BY <1>1, <1>3, <1>16, <2>4
    <3>2. Len(all[y].seed) < Len(s.root) BY <1>15, <2>4
    <3>3. \A a, b \in Nat : \A c : c < b /\ a > b => a # c OBVIOUS
    <3>. QED BY <1>1, <3>1, <3>2, <3>3
  <2>5. CASE y \in {k, r} /\ x \in DOMAIN s.chains \ {s.ephemeral}
    <3>1. Len(all[y].seed) > Len(s.root) /\ Len(all[y].seed) \in Nat
      BY <1>1, <1>3, <1>16, <2>5
    <3>2. Len(all[x].seed) < Len(s.root) BY <1>15, <2>5
    <3>3. \A a, b \in Nat : \A c : c < b /\ a > b => a # c OBVIOUS
    <3>. QED BY <1>1, <3>1, <3>2, <3>3
  <2>. QED BY <2>1, <2>2, <2>3, <2>4, <2>5
<1>18. DOMAIN all \subseteq 3..new /\ k \in DOMAIN all /\ s.base_key \in 3..new
  <2>1. \A x \in 3..top : x \in 3..new BY <1>b
  <2>2. k \in 3..new BY <1>1, <1>b
  <2>. QED BY <1>1, <1>2, <1>10, <2>1, <2>2
<1>19. Below(sending, new) /\ ~Below(sending, top)
  <2>1. r \in 0..new /\ k \in 0..new /\ ~(k \in 0..top) BY <1>2, <1>b DEF Key
  <2>. QED BY <1>3, <2>1 DEF Below
<1>20. SessionInv(e, new)
  BY <1>1, <1>3, <1>13, <1>14, <1>17, <1>18, <1>19 DEF SessionInv
<1>21. \A x \in DOMAIN s.chains \ {s.ephemeral} :
         x \in DOMAIN all /\ Onward(s.chains[x], all[x])
  BY <1>6, <1>10
<1>22. r \in DOMAIN all BY <1>2, <1>10
<1>23. Len(sending) > Len(s.root) + 1 BY <1>1, <1>3
<1>24. Drawn(s, e, m, k)
  <2>1. e.chains[k].counter = -1 BY <1>4, <1>10, <1>13
  <2>2. \A x \in DOMAIN s.chains \ {s.ephemeral} :
          e.chains[x] = Closed(s.chains, s.last_remote, m.previous_counter)[x]
    BY <1>10, <1>13 DEF old
  <2>. QED BY <1>a, <1>10, <1>13, <2>1, <2>2 DEF Drawn, sending, receiving, n
<1>. QED BY <1>a, <1>10, <1>13, <1>19, <1>20, <1>21, <1>22, <1>23, <1>24
     DEF receiving, first, SteppedTo

\* A receiving chain d takes the place of the chain it grew from.
Replace(e, r, d, b) == [e EXCEPT !.chains[r] = d, !.pending = b]
Replaces(e, r, d, b, new) ==
  /\ new \in Nat /\ SessionInv(e, new) /\ r \in DOMAIN e.chains
  /\ e.chains[r].sending = FALSE /\ d \in Chain /\ Onward(e.chains[r], d)
  /\ d.counter \in Nat \cup {-1} /\ d.message_keys \subseteq 0..d.counter
  /\ b \in BOOLEAN /\ (b => e.pending)

LEMMA Replaced ==
  \A e, r, d, b, new, f : Replaces(e, r, d, b, new) /\ f = Replace(e, r, d, b) =>
    /\ SessionInv(f, new)
    /\ f.base_key = e.base_key /\ f.pre_key = e.pre_key /\ f.closed = e.closed
    /\ f.pending = b /\ f.root = e.root /\ f.ephemeral = e.ephemeral
    /\ f.last_remote = e.last_remote /\ f.previous_counter = e.previous_counter
    /\ DOMAIN f.chains = DOMAIN e.chains /\ f.chains[r] = d /\ r # e.ephemeral
    /\ \A x \in DOMAIN e.chains \ {r} : f.chains[x] = e.chains[x]
<1>. SUFFICES ASSUME NEW e, NEW r, NEW d, NEW b, NEW new, NEW f,
                     Replaces(e, r, d, b, new), f = Replace(e, r, d, b)
     PROVE  /\ SessionInv(f, new)
            /\ f.base_key = e.base_key /\ f.pre_key = e.pre_key /\ f.closed = e.closed
            /\ f.pending = b /\ f.root = e.root /\ f.ephemeral = e.ephemeral
            /\ f.last_remote = e.last_remote /\ f.previous_counter = e.previous_counter
            /\ DOMAIN f.chains = DOMAIN e.chains /\ f.chains[r] = d /\ r # e.ephemeral
            /\ \A x \in DOMAIN e.chains \ {r} : f.chains[x] = e.chains[x]
  OBVIOUS
<1>a. /\ new \in Nat /\ SessionInv(e, new) /\ r \in DOMAIN e.chains
      /\ e.chains[r].sending = FALSE /\ d \in Chain /\ Onward(e.chains[r], d)
      /\ d.counter \in Nat \cup {-1} /\ d.message_keys \subseteq 0..d.counter
      /\ b \in BOOLEAN /\ (b => e.pending)
  BY DEF Replaces
<1>. DEFINE all == [e.chains EXCEPT ![r] = d]
<1>0. e.chains \in Chains /\ e \in SessionType BY <1>a, Parted DEF SessionInv
<1>1. /\ e.base_key \in 3..new /\ Len(e.root) >= 1
      /\ e.root[1] = {e.base_key, PreKeyOf(e.base_key)}
      /\ Len(e.root) > 1 => Below(e.root, new)
      /\ DOMAIN e.chains \subseteq 3..new /\ e.ephemeral \in 1..2 \cup DOMAIN e.chains
      /\ e.ephemeral \in DOMAIN e.chains <=> Len(e.root) > 1
      /\ e.pending => e.pre_key = PreKeyOf(e.base_key)
      /\ \A x \in DOMAIN e.chains : ChainInv(e.root, e.chains[x], x = e.ephemeral)
      /\ \A x, y \in DOMAIN e.chains :
           x # y => Len(e.chains[x].seed) # Len(e.chains[y].seed)
  BY <1>a DEF SessionInv
<1>2. /\ all \in Chains /\ DOMAIN all = DOMAIN e.chains /\ all[r] = d
      /\ \A x \in DOMAIN e.chains \ {r} : all[x] = e.chains[x]
  BY <1>0, <1>a, Changes
<1>3. f = [e EXCEPT !.chains = all, !.pending = b] BY <1>0 DEF Replace
<1>. HIDE DEF all
<1>4. /\ f \in SessionType /\ f.root = e.root /\ f.ephemeral = e.ephemeral /\ f.chains = all
      /\ f.last_remote = e.last_remote /\ f.previous_counter = e.previous_counter
      /\ f.base_key = e.base_key /\ f.pre_key = e.pre_key
      /\ f.closed = e.closed /\ f.pending = b
  <2>1. e \in SessionType /\ all \in Chains /\ b \in BOOLEAN BY <1>0, <1>a, <1>2
  <2>. QED BY ONLY <2>1, <1>3 DEF SessionType
<1>5. r # e.ephemeral BY <1>1, <1>a DEF ChainInv
<1>6. d.sending = FALSE /\ d.seed = e.chains[r].seed BY <1>a DEF Onward
<1>7. ChainInv(e.root, d, FALSE)
  <2>1. ChainInv(e.root, e.chains[r], FALSE) BY <1>1, <1>5, <1>a
  <2>. QED BY <1>6, <1>a, <2>1 DEF ChainInv
<1>8. \A x \in DOMAIN all : ChainInv(e.root, all[x], x = e.ephemeral)
  <2>1. (r = e.ephemeral) = FALSE BY <1>5
  <2>2. ChainInv(e.root, all[r], r = e.ephemeral) BY <1>2, <1>7, <1>a, <2>1
  <2>. QED BY <1>1, <1>2, <2>2
<1>9. \A x \in DOMAIN all : all[x].seed = e.chains[x].seed BY <1>2, <1>6
<1>10. \A x, y \in DOMAIN all : x # y => Len(all[x].seed) # Len(all[y].seed)
  BY <1>1, <1>2, <1>9
<1>11. SessionInv(f, new) BY <1>1, <1>2, <1>4, <1>8, <1>10, <1>a DEF SessionInv
<1>. QED BY <1>2, <1>4, <1>5, <1>11

\* Either the sending chain stays, or the session has a new one under a key pair that
\* nobody had.
Continues(s, e, top) ==
  \/ /\ e.root = s.root /\ e.ephemeral = s.ephemeral
     /\ s.ephemeral \in DOMAIN s.chains => e.chains[s.ephemeral] = s.chains[s.ephemeral]
  \/ Len(e.root) > 1 /\ ~Below(e.root, top)

LEMMA Higher ==
  ASSUME NEW top \in Nat, NEW new \in Nat, top <= new, NEW s, SessionInv(s, top)
  PROVE  SessionInv(s, new)
<1>1. 0..top \subseteq 0..new /\ 3..top \subseteq 3..new OBVIOUS
<1>2. Below(s.root, top) => Below(s.root, new) BY <1>1 DEF Below
<1>. QED BY <1>1, <1>2 DEF SessionInv

\* _maybe_step_ratchet.
EnteredTo(s, e, top, new) ==
  /\ SessionInv(e, new)
  /\ e.base_key = s.base_key /\ e.pre_key = s.pre_key
  /\ e.closed = s.closed /\ e.pending = s.pending
  /\ Continues(s, e, top)
  /\ \A x \in DOMAIN s.chains : s.chains[x].sending = FALSE =>
       x \in DOMAIN e.chains /\ Onward(s.chains[x], e.chains[x])

LEMMA Entering ==
  \A s, m, k, top, new : Due(s, m, k, top, new) =>
    /\ EnteredTo(s, Entered(s, m, k), top, new)
    /\ ~StepFails(s, m) =>
         /\ m.ratchet_key \in DOMAIN Entered(s, m, k).chains
         /\ \/ Entered(s, m, k) = s
            \/ Len(Entered(s, m, k).chains[m.ratchet_key].seed) > Len(s.root)
<1>. SUFFICES ASSUME NEW s, NEW m, NEW k, NEW top, NEW new, Due(s, m, k, top, new),
                     NEW r, r = m.ratchet_key, NEW e, e = Entered(s, m, k)
     PROVE  /\ EnteredTo(s, e, top, new)
            /\ ~StepFails(s, m) =>
                 /\ r \in DOMAIN e.chains
                 /\ e = s \/ Len(e.chains[r].seed) > Len(s.root)
  OBVIOUS
<1>a. /\ top \in Nat /\ new \in Nat /\ top <= new /\ SessionInv(s, top) /\ r \in 3..top
  BY DEF Due
<1>0. /\ s.root \in Root /\ s.chains \in Chains /\ Len(s.root) \in Nat /\ Len(s.root) >= 1
      /\ s.ephemeral \in Key
      /\ \A x \in DOMAIN s.chains : ChainInv(s.root, s.chains[x], x = s.ephemeral)
  BY <1>a, Parted DEF SessionInv, Root
<1>1. CASE Steps(s, m) /\ ~StepFails(s, m)
  <2>1. e = Stepped(s, m, k) BY <1>1 DEF Entered
  <2>2. SteppedTo(s, e, r, top, new) BY <1>1, <2>1, Stepping
  <2>3. r \in DOMAIN e.chains /\ e.chains[r].seed = Append(s.root, {r, s.ephemeral})
    BY <2>2 DEF NewChain, SteppedTo
  <2>4. Len(e.chains[r].seed) > Len(s.root)
    <3>0. r \in Nat BY <1>a
    <3>1. r \in Key /\ s.ephemeral \in Key BY <1>0, <3>0 DEF Key
    <3>2. Len(Append(s.root, {r, s.ephemeral})) = Len(s.root) + 1
      <4>1. {r, s.ephemeral} \in SUBSET Key BY ONLY <3>1
      <4>. QED BY <1>0, <4>1, Extended
    <3>. QED BY <1>0, <2>3, <3>2
  <2>5. SessionInv(e, new) /\ Len(e.root) > Len(s.root) + 1 BY <2>2 DEF SteppedTo
  <2>6. Len(e.root) > 1
    <3>1. e.root \in Root /\ Len(e.root) \in Nat BY <2>5, Parted DEF Root
    <3>. QED BY <1>0, <2>5, <3>1
  <2>7. \A x \in DOMAIN s.chains : s.chains[x].sending = FALSE => x # s.ephemeral
    BY <1>0 DEF ChainInv
  <2>8. EnteredTo(s, e, top, new) BY <2>2, <2>6, <2>7 DEF SteppedTo, EnteredTo, Continues
  <2>. QED BY <2>3, <2>4, <2>8
<1>2. CASE ~(Steps(s, m) /\ ~StepFails(s, m))
  <2>1. e = s BY <1>2 DEF Entered
  <2>2. SessionInv(e, new) BY <1>a, <2>1, Higher
  <2>3. ~StepFails(s, m) => r \in DOMAIN s.chains BY <1>2 DEF Steps
  <2>4. \A x \in DOMAIN s.chains : Onward(s.chains[x], s.chains[x])
    BY <1>0, ChainsAre DEF Onward, Chain
  <2>. QED BY <2>1, <2>2, <2>3, <2>4 DEF Continues, EnteredTo
<1>. QED BY <1>1, <1>2

LEMMA PoppedKey ==
  ASSUME NEW c \in Chain, NEW n \in Nat,
         c.counter \in Nat \cup {-1}, c.message_keys \subseteq 0..c.counter
  PROVE  /\ Popped(c, n) \in Chain /\ Onward(c, Popped(c, n))
         /\ Popped(c, n).counter = c.counter
         /\ Popped(c, n).message_keys = c.message_keys \ {n}
<1>. DEFINE held == c.message_keys \ {n}
<1>1. held \in SUBSET Nat BY DEF Chain
<1>2. Popped(c, n) = [c EXCEPT !.message_keys = held] BY DEF Popped
<1>. HIDE DEF held
<1>3. /\ Popped(c, n) \in Chain /\ Popped(c, n).counter = c.counter
      /\ Popped(c, n).sending = c.sending /\ Popped(c, n).seed = c.seed
      /\ Popped(c, n).message_keys = held
  BY <1>1, <1>2 DEF Chain
<1>. QED BY <1>3 DEF Onward, held

LEMMA UsedStays ==
  ASSUME NEW s, NEW e, s.chains \in Chains, e.chains \in Chains,
         \A x \in DOMAIN s.chains : s.chains[x].sending = FALSE =>
           x \in DOMAIN e.chains /\ Onward(s.chains[x], e.chains[x])
  PROVE  \A seed : \A i \in Nat : Used(s, seed, i) => Used(e, seed, i)
<1>. SUFFICES ASSUME NEW seed, NEW i \in Nat, Used(s, seed, i) PROVE Used(e, seed, i)
  OBVIOUS
<1>1. PICK x \in DOMAIN s.chains : /\ ~s.chains[x].sending /\ s.chains[x].seed = seed
                                   /\ i <= s.chains[x].counter
                                   /\ i \notin s.chains[x].message_keys
  BY DEF Used
<1>2. s.chains[x] \in Chain BY ChainsAre
<1>3. x \in DOMAIN e.chains /\ Onward(s.chains[x], e.chains[x]) BY <1>1, <1>2 DEF Chain
<1>4. e.chains[x] \in Chain BY <1>3, ChainsAre
<1>5. i <= e.chains[x].counter BY <1>1, <1>2, <1>3, <1>4 DEF Onward, Chain
<1>. QED BY <1>1, <1>3, <1>5 DEF Onward, Used

LEMMA OnwardOn ==
  ASSUME NEW a \in Chain, NEW b \in Chain, NEW c \in Chain, Onward(a, b), Onward(b, c)
  PROVE  Onward(a, c)
<1>1. a.counter \in Int /\ b.counter \in Int /\ c.counter \in Int BY DEF Chain
<1>2. \A i \in Nat : i <= a.counter => i <= b.counter BY <1>1 DEF Onward
<1>. QED BY <1>1, <1>2 DEF Onward

TriedTo(s, e, top, new) ==
  /\ SessionInv(e, new)
  /\ e.base_key = s.base_key /\ e.pre_key = s.pre_key /\ e.closed = s.closed
  /\ Continues(s, e, top)
  /\ \A seed : \A n \in Nat : Used(s, seed, n) => Used(e, seed, n)

\* _do_decrypt: whether it returns or raises, the session stays sound and remembers what
\* was read; if it returns, the message key was there before and is not now.
LEMMA Trying ==
  \A s, m, k, top, new : Due(s, m, k, top, new) =>
    /\ TriedTo(s, Tried(s, m, k), top, new)
    /\ Tried(s, m, k).pending = (s.pending /\ ~Decrypts(s, m, k))
    /\ Decrypts(s, m, k) => /\ m.seed[1] = s.root[1]
                            /\ ~Used(s, m.seed, m.counter)
                            /\ Used(Tried(s, m, k), m.seed, m.counter)
<1>. SUFFICES ASSUME NEW s, NEW m, NEW k, NEW top, NEW new, Due(s, m, k, top, new),
                     NEW r, r = m.ratchet_key, NEW n, n = m.counter,
                     NEW e, e = Entered(s, m, k), NEW f, f = Tried(s, m, k)
     PROVE  /\ TriedTo(s, f, top, new)
            /\ f.pending = (s.pending /\ ~Decrypts(s, m, k))
            /\ Decrypts(s, m, k) => /\ m.seed[1] = s.root[1]
                                    /\ ~Used(s, m.seed, n) /\ Used(f, m.seed, n)
  OBVIOUS
<1>a. /\ top \in Nat /\ new \in Nat /\ top <= new /\ SessionInv(s, top) /\ r \in 3..top
      /\ n \in Nat
  BY DEF Due
<1>b. /\ s.root \in Root /\ s.chains \in Chains /\ Len(s.root) \in Nat
      /\ \A x \in DOMAIN s.chains : s.chains[x] \in Chain
      /\ \A x \in DOMAIN s.chains : ChainInv(s.root, s.chains[x], x = s.ephemeral)
      /\ \A x, y \in DOMAIN s.chains :
           x # y => Len(s.chains[x].seed) # Len(s.chains[y].seed)
  BY <1>a, Parted, ChainsAre DEF SessionInv, Root
<1>c. /\ EnteredTo(s, e, top, new)
      /\ ~StepFails(s, m) => /\ r \in DOMAIN e.chains
                             /\ e = s \/ Len(e.chains[r].seed) > Len(s.root)
  BY Entering
<1>d. /\ SessionInv(e, new) /\ e.base_key = s.base_key /\ e.pre_key = s.pre_key
      /\ e.closed = s.closed /\ e.pending = s.pending /\ Continues(s, e, top)
      /\ \A x \in DOMAIN s.chains : s.chains[x].sending = FALSE =>
           x \in DOMAIN e.chains /\ Onward(s.chains[x], e.chains[x])
  BY <1>c DEF EnteredTo
<1>e. s.pending \in BOOLEAN /\ e.pending \in BOOLEAN BY <1>a, <1>d, Parted
<1>1. CASE ~Reaches(s, m, k)
  <2>1. f = e /\ ~Decrypts(s, m, k) BY <1>1 DEF Tried, Decrypts
  <2>2. \A seed : \A i \in Nat : Used(s, seed, i) => Used(e, seed, i)
    BY <1>a, <1>d, Parted, UsedStays
  <2>. QED BY <1>d, <1>e, <2>1, <2>2 DEF TriedTo
<1>2. CASE Reaches(s, m, k)
  <2>. DEFINE b == s.pending /\ ~Decrypts(s, m, k)
  <2>1. PICK c : c = e.chains[r] OBVIOUS
  <2>2. PICK g : g = Fill(c, n) OBVIOUS
  <2>3. PICK d : d = Popped(g, n) OBVIOUS
  <2>4. /\ ~StepFails(s, m) /\ r \in DOMAIN e.chains /\ c \in Chain /\ c.sending = FALSE
        /\ e = s \/ Len(c.seed) > Len(s.root)
    <3>1. ~StepFails(s, m) /\ ~c.sending BY <1>2, <2>1 DEF Reaches
    <3>2. r \in DOMAIN e.chains BY <1>c, <3>1
    <3>3. c \in Chain BY <1>d, <2>1, <3>2, Parted, ChainsAre
    <3>4. c.sending = FALSE BY <3>1, <3>3 DEF Chain
    <3>. QED BY <1>c, <2>1, <3>1, <3>2, <3>3, <3>4
  <2>5. ChainInv(e.root, c, r = e.ephemeral) BY <1>d, <2>1, <2>4 DEF SessionInv
  <2>6. /\ c.counter \in Nat \cup {-1} /\ c.message_keys \subseteq 0..c.counter
        /\ c.seed[1] = e.root[1]
    BY <2>5 DEF ChainInv
  <2>7. /\ g \in Chain /\ Onward(c, g) /\ g.counter \in Nat \cup {-1} /\ n <= g.counter
        /\ g.message_keys \subseteq 0..g.counter
    BY <1>a, <2>2, <2>4, <2>6, Filled
  <2>8. /\ d \in Chain /\ Onward(g, d) /\ d.counter = g.counter
        /\ d.message_keys = g.message_keys \ {n}
    BY <1>a, <2>3, <2>7, PoppedKey
  <2>9. Onward(c, d) BY <2>4, <2>7, <2>8, OnwardOn
  <2>10. d.counter \in Nat \cup {-1} /\ d.message_keys \subseteq 0..d.counter BY <2>7, <2>8
  <2>11. f = [e EXCEPT !.chains[r] = d, !.pending = b]
    BY <1>2, <1>d, <2>1, <2>2, <2>3 DEF Tried
  <2>12. b \in BOOLEAN /\ (b => e.pending) BY <1>d, <1>e
  <2>. HIDE DEF b
  <2>13. /\ SessionInv(f, new)
         /\ f.base_key = e.base_key /\ f.pre_key = e.pre_key /\ f.closed = e.closed
         /\ f.pending = b /\ f.root = e.root /\ f.ephemeral = e.ephemeral
         /\ DOMAIN f.chains = DOMAIN e.chains /\ f.chains[r] = d /\ r # e.ephemeral
         /\ \A x \in DOMAIN e.chains \ {r} : f.chains[x] = e.chains[x]
    <3>1. Replaces(e, r, d, b, new)
      BY <1>a, <1>d, <2>1, <2>4, <2>8, <2>9, <2>10, <2>12 DEF Replaces
    <3>2. f = Replace(e, r, d, b) BY <2>11 DEF Replace
    <3>. QED BY ONLY <3>1, <3>2, Replaced
  <2>14. \A seed : \A i \in Nat : Used(s, seed, i) => Used(f, seed, i)
    <3>1. ASSUME NEW x \in DOMAIN s.chains, s.chains[x].sending = FALSE
          PROVE  x \in DOMAIN f.chains /\ Onward(s.chains[x], f.chains[x])
      <4>1. x \in DOMAIN e.chains /\ Onward(s.chains[x], e.chains[x]) BY <1>d, <3>1
      <4>2. e.chains[x] \in Chain /\ s.chains[x] \in Chain
        BY <1>b, <1>d, <4>1, Parted, ChainsAre
      <4>3. CASE x = r BY <2>1, <2>8, <2>9, <2>13, <4>1, <4>2, <4>3, OnwardOn
      <4>4. CASE x # r BY <2>13, <4>1, <4>4
      <4>. QED BY <4>3, <4>4
    <3>. QED BY <1>b, <2>13, <3>1, Parted, UsedStays
  <2>15. Continues(s, f, top)
    <3>1. CASE Len(e.root) > 1 /\ ~Below(e.root, top) BY <2>13, <3>1 DEF Continues
    <3>2. CASE /\ e.root = s.root /\ e.ephemeral = s.ephemeral
               /\ s.ephemeral \in DOMAIN s.chains =>
                    e.chains[s.ephemeral] = s.chains[s.ephemeral]
      <4>1. s.ephemeral \in DOMAIN s.chains => s.ephemeral \in DOMAIN e.chains
        BY <1>a, <1>d, <3>2 DEF SessionInv
      <4>. QED BY <2>13, <3>2, <4>1 DEF Continues
    <3>. QED BY <1>d, <3>1, <3>2 DEF Continues
  <2>16. ASSUME Decrypts(s, m, k)
         PROVE  m.seed[1] = s.root[1] /\ ~Used(s, m.seed, n) /\ Used(f, m.seed, n)
    <3>1. n \in g.message_keys /\ g.seed = m.seed BY <2>1, <2>2, <2>16 DEF Decrypts
    <3>2. c.seed = m.seed /\ d.seed = m.seed /\ d.sending = FALSE
      BY <2>4, <2>7, <2>8, <3>1 DEF Onward
    <3>3. e.root[1] = s.root[1] BY <1>a, <1>d DEF SessionInv
    <3>4. Used(f, m.seed, n) BY <2>4, <2>7, <2>8, <2>13, <3>2 DEF Used
    <3>5. ~Used(s, m.seed, n)
      <4>. SUFFICES ASSUME NEW x \in DOMAIN s.chains, ~s.chains[x].sending,
                           s.chains[x].seed = c.seed, n <= s.chains[x].counter,
                           n \notin s.chains[x].message_keys
                    PROVE  FALSE
        BY <3>2 DEF Used
      <4>1. s.chains[x].sending = FALSE BY <1>b DEF Chain
      <4>2. Len(c.seed) < Len(s.root) BY <1>b, <4>1 DEF ChainInv
      <4>3. e = s
        <5>1. Len(c.seed) \in Nat BY <2>4 DEF Chain, Root
        <5>. QED BY <1>b, <2>4, <4>2, <5>1
      <4>4. x = r BY <1>b, <2>1, <2>4, <4>3
      <4>5. g = c BY <2>1, <2>2, <4>3, <4>4 DEF Fill
      <4>. QED BY <2>1, <3>1, <4>3, <4>4, <4>5
    <3>. QED BY <2>6, <3>2, <3>3, <3>4, <3>5
  <2>. QED BY <1>d, <2>13, <2>14, <2>15, <2>16 DEF TriedTo, b
<1>. QED BY <1>1, <1>2

-----------------------------------------------------------------------------
\* Records: a party's sessions for the other, in memory or in the key file.

\* The newest session is the open one, and each has its own base key.
RecordInv(V, top) ==
  /\ V \in Seq(SessionType)
  /\ \A j \in 1..Len(V) : SessionInv(V[j], top) /\ V[j].closed = (j # 1)
  /\ \A i, j \in 1..Len(V) : i # j => V[i].base_key # V[j].base_key

Bases(V) == {V[j].base_key : j \in 1..Len(V)}
UsedIn(V, seed, n) == \E j \in 1..Len(V) : Used(V[j], seed, n)

\* e sends on the chain of s, no earlier in it.
Resumes(s, e) ==
  /\ e.root = s.root /\ e.ephemeral = s.ephemeral
  /\ s.ephemeral \in DOMAIN s.chains =>
       s.chains[s.ephemeral].counter <= e.chains[s.ephemeral].counter

\* e sends on no chain so far, or on one that nobody had.
Novel(e, top) == Len(e.root) = 1 \/ ~Below(e.root, top)

\* What the record U, made out of V, sends on.
Heir(V, U, top) ==
  \A j \in 1..Len(U) : Novel(U[j], top) \/ \E i \in 1..Len(V) : Resumes(V[i], U[j])

\* Nothing is forgotten; a session that b is not the base key of is not new, and
\* nor is that its messages go unwrapped.
Keeps(V, U, b) ==
  /\ Bases(V) \subseteq Bases(U) /\ Bases(U) \subseteq Bases(V) \cup {b}
  /\ \A seed : \A n \in Nat : UsedIn(V, seed, n) => UsedIn(U, seed, n)
  /\ \A j \in 1..Len(U) : U[j].pending = FALSE =>
       U[j].base_key = b \/ \E i \in 1..Len(V) : /\ V[i].base_key = U[j].base_key
                                                 /\ V[i].pending = FALSE

Grown(V, U, top, new, b) == RecordInv(U, new) /\ Heir(V, U, top) /\ Keeps(V, U, b)

\* A message key pair belongs to one chain, and a chain to one session.
LEMMA OneBase ==
  ASSUME NEW a \in Nat, NEW b \in Nat, a >= 3, b >= 3,
         {a, PreKeyOf(a)} = {b, PreKeyOf(b)}
  PROVE  a = b
<1>1. CASE OneTime
  <2>1. {a, a + 2} = {b, b + 2} BY <1>1 DEF PreKeyOf
  <2>2. a = b \/ (a = b + 2 /\ b = a + 2) BY <2>1
  <2>. QED BY <2>2
<1>2. CASE ~OneTime
  <2>1. {a, 0} = {b, 0} BY <1>2 DEF PreKeyOf
  <2>2. a \in {b, 0} /\ a # 0 BY <2>1
  <2>. QED BY <2>2
<1>. QED BY <1>1, <1>2

LEMMA OpenIsFirst ==
  ASSUME NEW V, NEW top, RecordInv(V, top)
  PROVE  /\ OpenOnes(V) \subseteq {1} /\ (V # <<>> => OpenOnes(V) = {1} /\ OpenOne(V) = 1)
         /\ (V = <<>> => OpenOnes(V) = {}) /\ Len(V) \in Nat
<1>1. V \in Seq(SessionType) /\ Len(V) \in Nat /\ \A j \in 1..Len(V) : V[j].closed = (j # 1)
  BY DEF RecordInv
<1>2. OpenOnes(V) = {j \in 1..Len(V) : j = 1} BY <1>1 DEF OpenOnes
<1>3. CASE V = <<>>
  <2>1. Len(V) = 0 BY <1>3
  <2>. QED BY <1>2, <1>3, <2>1
<1>4. CASE V # <<>>
  <2>1. 1 \in 1..Len(V) BY <1>1, <1>4
  <2>2. OpenOnes(V) = {1} BY <1>2, <2>1
  <2>. QED BY <1>1, <1>4, <2>2 DEF OpenOne
<1>. QED BY <1>3, <1>4

\* The same session but for whether it is closed.
Alike(s, e) ==
  /\ e.root = s.root /\ e.ephemeral = s.ephemeral /\ e.chains = s.chains
  /\ e.base_key = s.base_key /\ e.pre_key = s.pre_key /\ e.pending = s.pending

LEMMA ShutIsSound ==
  ASSUME NEW s, NEW top, SessionInv(s, top), NEW e, e = [s EXCEPT !.closed = TRUE]
  PROVE  SessionInv(e, top) /\ Alike(s, e) /\ e.closed = TRUE
<1>1. s \in SessionType BY DEF SessionInv
<1>2. /\ e \in SessionType /\ e.root = s.root /\ e.ephemeral = s.ephemeral
      /\ e.chains = s.chains /\ e.base_key = s.base_key /\ e.pre_key = s.pre_key
      /\ e.pending = s.pending /\ e.closed = TRUE
  BY <1>1 DEF SessionType
<1>3. SessionInv(e, top) BY <1>2 DEF SessionInv
<1>. QED BY <1>2, <1>3 DEF Alike

\* close_session, then set_session of a session with another base key.
LEMMA SettingSession ==
  ASSUME NEW V, NEW top, RecordInv(V, top), NEW s, SessionInv(s, top), s.closed = FALSE,
         s.base_key \notin Bases(V), NEW U, U = SetSession(V, s)
  PROVE  /\ RecordInv(U, top) /\ Len(U) = Len(V) + 1 /\ Len(V) \in Nat /\ U[1] = s
         /\ \A j \in 1..Len(V) : Alike(V[j], U[j + 1])
<1>1. /\ V \in Seq(SessionType) /\ Len(V) \in Nat
      /\ \A j \in 1..Len(V) : SessionInv(V[j], top) /\ V[j].closed = (j # 1)
      /\ \A i, j \in 1..Len(V) : i # j => V[i].base_key # V[j].base_key
      /\ \A j \in 1..Len(V) : V[j] \in SessionType
  BY DEF RecordInv, SessionInv
<1>. DEFINE old == [j \in 1..Len(V) |->
                      IF OpenOnes(V) # {} /\ j = OpenOne(V)
                      THEN [V[j] EXCEPT !.closed = TRUE] ELSE V[j]]
<1>2. ASSUME NEW j \in 1..Len(V)
      PROVE  SessionInv(old[j], top) /\ Alike(V[j], old[j]) /\ old[j].closed = TRUE
  <2>1. V # <<>> BY <1>1
  <2>2. OpenOnes(V) = {1} /\ OpenOne(V) = 1 BY <2>1, OpenIsFirst
  <2>3. CASE j = 1
    <3>1. old[j] = [V[j] EXCEPT !.closed = TRUE] BY <2>2, <2>3
    <3>. HIDE DEF old
    <3>. QED BY <1>1, <3>1, ShutIsSound
  <2>4. CASE j # 1
    <3>1. old[j] = V[j] BY <2>2, <2>4
    <3>. QED BY <1>1, <2>4, <3>1 DEF Alike
  <2>. QED BY <2>3, <2>4
<1>3. DOMAIN old = 1..Len(V) OBVIOUS
<1>4. U = <<s>> \o old BY DEF SetSession
<1>5. old \in Seq(SessionType) /\ Len(old) = Len(V)
  <2>1. old = [j \in 1..Len(V) |-> old[j]] OBVIOUS
  <2>2. \A j \in 1..Len(V) : old[j] \in SessionType BY <1>2 DEF SessionInv
  <2>. HIDE DEF old
  <2>3. old \in [1..Len(V) -> SessionType] BY <2>1, <2>2
  <2>. QED BY <1>1, <2>3, LenProperties
<1>. HIDE DEF old
<1>6. <<s>> \in Seq(SessionType) /\ Len(<<s>>) = 1 /\ <<s>>[1] = s BY DEF SessionInv
<1>7. /\ U \in Seq(SessionType) /\ Len(U) = Len(V) + 1 /\ U[1] = s
      /\ \A j \in 1..Len(V) : U[j + 1] = old[j]
  <2>1. /\ U \in Seq(SessionType) /\ Len(U) = 1 + Len(V)
        /\ \A j \in 1..(1 + Len(V)) : U[j] = IF j <= 1 THEN <<s>>[j] ELSE old[j - 1]
    BY <1>1, <1>4, <1>5, <1>6, ConcatProperties
  <2>2. U[1] = s BY <1>1, <1>6, <2>1
  <2>3. ASSUME NEW j \in 1..Len(V) PROVE U[j + 1] = old[j]
    <3>1. j + 1 \in 1..(1 + Len(V)) /\ ~(j + 1 <= 1) /\ (j + 1) - 1 = j BY <1>1
    <3>. QED BY <2>1, <3>1
  <2>. QED BY <1>1, <2>1, <2>2, <2>3
<1>8. \A j \in 1..Len(U) : j = 1 \/ \E i \in 1..Len(V) : j = i + 1
  <2>. SUFFICES ASSUME NEW j \in 1..Len(U), j # 1 PROVE \E i \in 1..Len(V) : j = i + 1
    OBVIOUS
  <2>1. j - 1 \in 1..Len(V) /\ j = (j - 1) + 1 BY <1>1, <1>7
  <2>. QED BY <2>1
<1>9. \A j \in 1..Len(U) : SessionInv(U[j], top) /\ U[j].closed = (j # 1)
  <2>1. \A i \in 1..Len(V) : i + 1 # 1 BY <1>1
  <2>. QED BY <1>2, <1>7, <1>8, <2>1
<1>10. \A j \in 1..Len(V) : U[j + 1].base_key = V[j].base_key /\ V[j].base_key # s.base_key
  BY <1>2, <1>7 DEF Alike, Bases
<1>11. \A i, j \in 1..Len(U) : i # j => U[i].base_key # U[j].base_key
  BY <1>1, <1>7, <1>8, <1>10
<1>. QED BY <1>1, <1>2, <1>7, <1>9, <1>11 DEF RecordInv

LEMMA RecordHigher ==
  ASSUME NEW top \in Nat, NEW new \in Nat, top <= new, NEW V, RecordInv(V, top)
  PROVE  RecordInv(V, new)
<1>1. \A j \in 1..Len(V) : SessionInv(V[j], new) BY Higher DEF RecordInv
<1>. QED BY <1>1 DEF RecordInv

LEMMA CountersAre ==
  \A s, top : SessionInv(s, top) => \A x \in DOMAIN s.chains : s.chains[x].counter \in Int
<1>1. \A root, c, b : ChainInv(root, c, b) => c.counter \in Int BY DEF ChainInv
<1>. QED BY <1>1 DEF SessionInv

LEMMA ResumesItself ==
  ASSUME NEW s, NEW e, NEW top, SessionInv(s, top), e.root = s.root, e.ephemeral = s.ephemeral,
         s.ephemeral \in DOMAIN s.chains =>
           e.chains[s.ephemeral] = s.chains[s.ephemeral]
  PROVE  Resumes(s, e)
<1>1. s.ephemeral \in DOMAIN s.chains => s.chains[s.ephemeral].counter \in Int
  BY DEF SessionInv, ChainInv
<1>2. \A x \in Int : x <= x OBVIOUS
<1>. QED BY <1>1, <1>2 DEF Resumes

LEMMA SameRecord ==
  ASSUME NEW top \in Nat, NEW new \in Nat, top <= new, NEW V, RecordInv(V, top), NEW b
  PROVE  Grown(V, V, top, new, b)
<1>1. RecordInv(V, new) BY RecordHigher
<1>2. \A j \in 1..Len(V) : Resumes(V[j], V[j]) BY ResumesItself DEF RecordInv
<1>. QED BY <1>1, <1>2 DEF Grown, Heir, Keeps

\* A step from U that was a step from V before is a step from V.
LEMMA GrownOn ==
  ASSUME NEW top \in Nat, NEW mid \in Nat, NEW new \in Nat, NEW b, NEW V, NEW U, NEW W,
         RecordInv(V, top), Grown(V, U, top, mid, b), Grown(U, W, top, new, b)
  PROVE  Grown(V, W, top, new, b)
<1>1. RecordInv(W, new) BY DEF Grown
<1>2. ASSUME NEW j \in 1..Len(W)
      PROVE  Novel(W[j], top) \/ \E i \in 1..Len(V) : Resumes(V[i], W[j])
  <2>1. CASE Novel(W[j], top) BY <2>1
  <2>2. CASE \E h \in 1..Len(U) : Resumes(U[h], W[j])
    <3>1. PICK h \in 1..Len(U) : Resumes(U[h], W[j]) BY <2>2
    <3>2. W[j].root = U[h].root BY <3>1 DEF Resumes
    <3>3. CASE Novel(U[h], top) BY <3>2, <3>3 DEF Novel
    <3>4. CASE \E i \in 1..Len(V) : Resumes(V[i], U[h])
      <4>1. PICK i \in 1..Len(V) : Resumes(V[i], U[h]) BY <3>4
      <4>2. SessionInv(V[i], top) /\ SessionInv(U[h], mid) /\ SessionInv(W[j], new)
        BY <1>1 DEF Grown, RecordInv
      <4>3. ASSUME V[i].ephemeral \in DOMAIN V[i].chains
            PROVE  V[i].chains[V[i].ephemeral].counter <= W[j].chains[V[i].ephemeral].counter
        <5>1. PICK x : x = V[i].ephemeral OBVIOUS
        <5>2. U[h].ephemeral = x /\ W[j].ephemeral = x BY <3>1, <4>1, <5>1 DEF Resumes
        <5>3. x \in DOMAIN V[i].chains /\ x \in DOMAIN U[h].chains /\ x \in DOMAIN W[j].chains
          BY <3>2, <4>1, <4>2, <4>3, <5>1, <5>2 DEF Resumes, SessionInv
        <5>4. /\ V[i].chains[x].counter \in Int /\ U[h].chains[x].counter \in Int
              /\ W[j].chains[x].counter \in Int
          BY ONLY <4>2, <5>3, CountersAre
        <5>5. /\ V[i].chains[x].counter <= U[h].chains[x].counter
              /\ U[h].chains[x].counter <= W[j].chains[x].counter
          BY <3>1, <4>1, <5>1, <5>2, <5>3 DEF Resumes
        <5>. QED BY <5>1, <5>4, <5>5
      <4>. QED BY <3>1, <4>1, <4>3 DEF Resumes
    <3>. QED BY <3>3, <3>4 DEF Grown, Heir
  <2>. QED BY <2>1, <2>2 DEF Grown, Heir
<1>3. /\ Bases(V) \subseteq Bases(W) /\ Bases(W) \subseteq Bases(V) \cup {b}
      /\ \A seed : \A n \in Nat : UsedIn(V, seed, n) => UsedIn(W, seed, n)
  BY DEF Grown, Keeps
<1>4. ASSUME NEW j \in 1..Len(W), W[j].pending = FALSE, W[j].base_key # b
      PROVE  \E i \in 1..Len(V) : V[i].base_key = W[j].base_key /\ V[i].pending = FALSE
  <2>1. PICK h \in 1..Len(U) : U[h].base_key = W[j].base_key /\ U[h].pending = FALSE
    BY <1>4 DEF Grown, Keeps
  <2>. QED BY <1>4, <2>1 DEF Grown, Keeps
<1>. QED BY <1>1, <1>2, <1>3, <1>4 DEF Grown, Heir, Keeps

-----------------------------------------------------------------------------
\* A new session is put in front.
Opens(V, s, top, new) ==
  /\ {top, new} \subseteq Nat /\ top <= new /\ RecordInv(V, top)
  /\ SessionInv(s, new) /\ s.closed = FALSE /\ Novel(s, top) /\ s.base_key \notin Bases(V)

LEMMA SettingGrows ==
  \A V, s, top, new, U : Opens(V, s, top, new) /\ U = SetSession(V, s) =>
    /\ Grown(V, U, top, new, s.base_key)
    /\ U[1] = s /\ Len(U) = Len(V) + 1 /\ Len(V) \in Nat
    /\ \A j \in 1..Len(V) : U[j + 1].pending = V[j].pending
<1>. SUFFICES ASSUME NEW V, NEW s, NEW top, NEW new, NEW U, Opens(V, s, top, new),
                     U = SetSession(V, s)
     PROVE  /\ Grown(V, U, top, new, s.base_key)
            /\ U[1] = s /\ Len(U) = Len(V) + 1 /\ Len(V) \in Nat
            /\ \A j \in 1..Len(V) : U[j + 1].pending = V[j].pending
  OBVIOUS
<1>a. /\ top \in Nat /\ new \in Nat /\ top <= new /\ RecordInv(V, top)
      /\ SessionInv(s, new) /\ s.closed = FALSE /\ Novel(s, top)
      /\ s.base_key \notin Bases(V)
  BY DEF Opens
<1>0. RecordInv(V, new) BY <1>a, RecordHigher
<1>1. /\ RecordInv(U, new) /\ Len(U) = Len(V) + 1 /\ Len(V) \in Nat /\ U[1] = s
      /\ \A j \in 1..Len(V) : Alike(V[j], U[j + 1])
  BY <1>0, <1>a, SettingSession
<1>2. ASSUME NEW j \in 1..Len(U) PROVE j = 1 \/ \E i \in 1..Len(V) : j = i + 1
  <2>1. j = 1 \/ (j - 1 \in 1..Len(V) /\ j = (j - 1) + 1) BY <1>1
  <2>. QED BY <2>1
<1>3. \A i \in 1..Len(V) : i + 1 \in 1..Len(U) BY <1>1
<1>4. \A i \in 1..Len(V) : Resumes(V[i], U[i + 1])
  <2>. SUFFICES ASSUME NEW i \in 1..Len(V) PROVE Resumes(V[i], U[i + 1])
    OBVIOUS
  <2>1. SessionInv(V[i], top) BY <1>a DEF RecordInv
  <2>2. /\ U[i + 1].root = V[i].root /\ U[i + 1].ephemeral = V[i].ephemeral
        /\ U[i + 1].chains = V[i].chains
    BY <1>1 DEF Alike
  <2>. QED BY <2>1, <2>2, ResumesItself
<1>5. Heir(V, U, top) BY <1>a, <1>1, <1>2, <1>4 DEF Heir
<1>6. \A i \in 1..Len(V) : /\ U[i + 1].base_key = V[i].base_key
                           /\ U[i + 1].pending = V[i].pending
                           /\ U[i + 1].chains = V[i].chains
  BY <1>1 DEF Alike
<1>7. Bases(V) \subseteq Bases(U) /\ Bases(U) \subseteq Bases(V) \cup {s.base_key}
  <2>1. \A i \in 1..Len(V) : V[i].base_key \in Bases(U) BY <1>3, <1>6 DEF Bases
  <2>2. \A j \in 1..Len(U) : U[j].base_key \in Bases(V) \cup {s.base_key}
    <3>. SUFFICES ASSUME NEW j \in 1..Len(U)
                  PROVE  U[j].base_key \in Bases(V) \/ U[j].base_key = s.base_key
      OBVIOUS
    <3>1. CASE j = 1 BY <1>1, <3>1
    <3>2. CASE \E i \in 1..Len(V) : j = i + 1 BY <1>6, <3>2 DEF Bases
    <3>. QED BY <1>2, <3>1, <3>2
  <2>. QED BY <2>1, <2>2 DEF Bases
<1>8. ASSUME NEW seed, NEW n \in Nat, UsedIn(V, seed, n) PROVE UsedIn(U, seed, n)
  <2>1. PICK i \in 1..Len(V) : Used(V[i], seed, n) BY <1>8 DEF UsedIn
  <2>2. Used(U[i + 1], seed, n) BY <1>6, <2>1 DEF Used
  <2>. QED BY <1>3, <2>2 DEF UsedIn
<1>9. \A j \in 1..Len(U) : U[j].pending = FALSE =>
        U[j].base_key = s.base_key \/ \E i \in 1..Len(V) : /\ V[i].base_key = U[j].base_key
                                                           /\ V[i].pending = FALSE
  <2>. SUFFICES ASSUME NEW j \in 1..Len(U), U[j].pending = FALSE
                PROVE  \/ U[j].base_key = s.base_key
                       \/ \E i \in 1..Len(V) : /\ V[i].base_key = U[j].base_key
                                               /\ V[i].pending = FALSE
    OBVIOUS
  <2>1. CASE j = 1 BY <1>1, <2>1
  <2>2. CASE \E i \in 1..Len(V) : j = i + 1
    <3>1. PICK i \in 1..Len(V) : j = i + 1 BY <2>2
    <3>. QED BY <1>6, <3>1
  <2>. QED BY <1>2, <2>1, <2>2
<1>10. Keeps(V, U, s.base_key) BY <1>7, <1>8, <1>9 DEF Keeps
<1>. QED BY <1>1, <1>5, <1>6, <1>10 DEF Grown

\* init_outgoing's session, with the key pairs after top.
LEMMA InitiatedIsSound ==
  ASSUME NEW top \in Nat, top >= 2, NEW remote \in 1..2,
         NEW s, s = Initiated(top + 1, IF OneTime THEN top + 3 ELSE 0, top + 2, remote)
  PROVE  /\ SessionInv(s, top + 3) /\ Novel(s, top) /\ s.base_key = top + 1
         /\ s.closed = FALSE /\ s.pending = TRUE
<1>1. PICK base, eph, pre, first, second :
        /\ base = top + 1 /\ eph = top + 2 /\ pre = PreKeyOf(base)
        /\ first = {base, pre} /\ second = {remote, eph}
  OBVIOUS
<1>2. /\ base \in Key /\ eph \in Key /\ pre \in Key /\ remote \in Key
      /\ base \in 3..(top + 3) /\ eph \in 3..(top + 3)
      /\ first \in SUBSET Key /\ second \in SUBSET Key
      /\ second \subseteq 0..(top + 3) /\ ~(second \subseteq 0..top)
  <2>1. /\ base \in 3..(top + 3) /\ eph \in 3..(top + 3) /\ remote \in 0..(top + 3)
        /\ eph \in 0..(top + 3) /\ ~(eph \in 0..top)
    BY <1>1
  <2>2. base \in Key /\ eph \in Key /\ remote \in Key /\ pre \in Key
    BY <1>1 DEF Key, PreKeyOf
  <2>. QED BY <1>1, <2>1, <2>2
<1>3. PICK root : root = Append(<<first>>, second) OBVIOUS
<1>4. root \in Root /\ Len(root) = 2 /\ root[1] = first /\ root[2] = second
  <2>1. PICK one : one = <<first>> OBVIOUS
  <2>2. one \in Root /\ Len(one) = 1 /\ one[1] = first BY <1>2, <2>1 DEF Root
  <2>3. Len(one) >= 1 /\ second \in SUBSET Key BY <1>2, <2>2
  <2>4. /\ Append(one, second) \in Root /\ Len(Append(one, second)) = Len(one) + 1
        /\ Append(one, second)[Len(one) + 1] = second /\ Append(one, second)[1] = one[1]
    BY ONLY <2>2, <2>3, Extended
  <2>5. root = Append(one, second) /\ Len(one) + 1 = 2 BY <1>3, <2>1, <2>2
  <2>. QED BY ONLY <2>2, <2>4, <2>5
<1>5. PICK chain : chain = NewChain(root, TRUE) OBVIOUS
<1>6. /\ chain \in Chain /\ chain.counter = -1 /\ chain.open = TRUE /\ chain.sending = TRUE
      /\ chain.seed = root /\ chain.message_keys = {}
  BY <1>4, <1>5 DEF Chain, NewChain
<1>7. PICK chains : chains = [x \in {eph} |-> chain] OBVIOUS
<1>8. chains \in Chains /\ DOMAIN chains = {eph} /\ chains[eph] = chain
  <2>1. DOMAIN chains = {eph} /\ chains[eph] = chain /\ chains \in [{eph} -> Chain]
    BY <1>6, <1>7
  <2>2. {eph} \in SUBSET Key BY <1>2
  <2>. QED BY <2>1, <2>2 DEF Chains
<1>9. s = [root |-> root, ephemeral |-> eph, last_remote |-> remote,
           previous_counter |-> 0, base_key |-> base, pre_key |-> pre,
           closed |-> FALSE, pending |-> TRUE, chains |-> chains]
  BY <1>1, <1>3, <1>5, <1>7 DEF Initiated, Master, PreKeyOf
<1>10. /\ s.root = root /\ s.ephemeral = eph /\ s.base_key = base /\ s.pre_key = pre
       /\ s.chains = chains /\ s.closed = FALSE /\ s.pending = TRUE /\ s \in SessionType
  <2>1. 0 \in Nat \cup {-1} OBVIOUS
  <2>. QED BY ONLY <1>2, <1>4, <1>8, <1>9, <2>1 DEF SessionType
<1>11. ChainInv(root, chain, TRUE)
  <2>1. {} \subseteq 0..(-1) /\ -1 \in Nat \cup {-1} OBVIOUS
  <2>2. chain.counter \in Nat \cup {-1} /\ chain.message_keys \subseteq 0..chain.counter
    BY <1>6, <2>1
  <2>3. Len(chain.seed) >= 2 /\ chain.seed[1] = root[1]
    <3>1. Len(root) >= 2 BY <1>4
    <3>. QED BY <1>6, <3>1
  <2>. QED BY ONLY <1>6, <2>2, <2>3, Zenon DEF ChainInv
<1>12. Below(root, top + 3) /\ ~Below(root, top) BY ONLY <1>2, <1>4 DEF Below
<1>13. SessionInv(s, top + 3)
  <2>1. \A x, y \in {eph} : x = y OBVIOUS
  <2>2. s.root[1] = {s.base_key, PreKeyOf(s.base_key)} BY <1>1, <1>4, <1>10
  <2>3. \A x \in DOMAIN s.chains : ChainInv(s.root, s.chains[x], x = s.ephemeral)
    <3>1. (eph = eph) = TRUE OBVIOUS
    <3>2. ChainInv(root, chains[eph], eph = eph) BY <1>8, <1>11, <3>1
    <3>. QED BY <1>8, <1>10, <3>2
  <2>4. \A x, y \in DOMAIN s.chains : x # y => Len(s.chains[x].seed) # Len(s.chains[y].seed)
    BY <1>8, <1>10, <2>1
  <2>5. Len(s.root) >= 1 /\ Len(s.root) > 1
    <3>1. Len(root) >= 1 /\ Len(root) > 1 BY <1>4
    <3>. QED BY <1>10, <3>1
  <2>6. /\ DOMAIN s.chains \subseteq 3..(top + 3) /\ s.ephemeral \in DOMAIN s.chains
        /\ s.base_key \in 3..(top + 3) /\ Below(s.root, top + 3)
        /\ s.pre_key = PreKeyOf(s.base_key)
    BY <1>1, <1>2, <1>8, <1>10, <1>12
  <2>. QED BY <1>10, <2>2, <2>3, <2>4, <2>5, <2>6 DEF SessionInv
<1>. QED BY <1>1, <1>10, <1>12, <1>13 DEF Novel

\* init_incoming's session.
Responds(s, b, signed, top) ==
  top \in Nat /\ b \in 3..top /\ signed \in 1..2 /\ s = Responded(b, PreKeyOf(b), signed)

LEMMA RespondedIsSound ==
  \A s, b, signed, top : Responds(s, b, signed, top) =>
    /\ SessionInv(s, top) /\ Novel(s, top) /\ s.base_key = b
    /\ s.closed = FALSE /\ s.pending = FALSE
<1>. SUFFICES ASSUME NEW s, NEW b, NEW signed, NEW top, Responds(s, b, signed, top)
              PROVE  /\ SessionInv(s, top) /\ Novel(s, top) /\ s.base_key = b
                     /\ s.closed = FALSE /\ s.pending = FALSE
  OBVIOUS
<1>a. /\ top \in Nat /\ b \in 3..top /\ signed \in 1..2
      /\ s = Responded(b, PreKeyOf(b), signed)
  BY DEF Responds
<1>. DEFINE pre == PreKeyOf(b)
            first == {b, pre}
            root == <<first>>
            chains == <<>>
<1>1. /\ b \in Key /\ pre \in Key /\ signed \in Key /\ b # 0 BY <1>a DEF Key, PreKeyOf
<1>2. root \in Root /\ Len(root) = 1 /\ root[1] = first BY <1>1 DEF Root
<1>3. chains \in Chains /\ DOMAIN chains = {}
  <2>1. chains \in [{} -> Chain] OBVIOUS
  <2>. QED BY <2>1 DEF Chains
<1>. HIDE DEF chains, root
<1>4. s = [root |-> root, ephemeral |-> signed, last_remote |-> b,
           previous_counter |-> 0, base_key |-> b, pre_key |-> 0,
           closed |-> FALSE, pending |-> FALSE, chains |-> chains]
  BY <1>a DEF Responded, Master, root, chains
<1>5. s \in SessionType BY <1>a, <1>1, <1>2, <1>3, <1>4 DEF SessionType, Key
<1>6. SessionInv(s, top)
  <2>1. /\ s.root = root /\ s.ephemeral = signed /\ s.base_key = b /\ s.pending = FALSE
        /\ s.chains = chains
    BY <1>4
  <2>2. ~(Len(root) > 1) /\ Len(root) >= 1 BY <1>2
  <2>3. s.root[1] = {s.base_key, PreKeyOf(s.base_key)} BY <1>2, <2>1
  <2>. QED BY <1>a, <1>2, <1>3, <1>5, <2>1, <2>2, <2>3 DEF SessionInv
<1>. QED BY <1>2, <1>4, <1>6 DEF Novel

-----------------------------------------------------------------------------
\* A message is tried on sessions of a record.

\* m was made in a session with its base key.
Based(m, top) ==
  m.base_key \in 3..top /\ m.seed[1] = {m.base_key, PreKeyOf(m.base_key)}

\* What the try of m left of s: m may not have been tried on it.
TriedOn(s, e, m, top, new) ==
  /\ top \in Nat /\ new \in Nat /\ top <= new /\ SessionInv(s, top) /\ Based(m, top)
  /\ e = s \/ \E k : Due(s, m, k, top, new) /\ e = Tried(s, m, k)

SessionGrows(s, e, m, top, new) ==
  /\ SessionInv(e, new) /\ e.base_key = s.base_key /\ e.closed = s.closed
  /\ Novel(e, top) \/ Resumes(s, e)
  /\ \A seed : \A n \in Nat : Used(s, seed, n) => Used(e, seed, n)
  /\ e.pending = FALSE => s.pending = FALSE \/ s.base_key = m.base_key

\* A message is decrypted in the session of its base key and in no other.
LEMMA DecryptsBase ==
  \A s, m, k, top, new :
    Due(s, m, k, top, new) /\ Based(m, top) /\ Decrypts(s, m, k) =>
      s.base_key = m.base_key
<1>. SUFFICES ASSUME NEW s, NEW m, NEW k, NEW top, NEW new, Due(s, m, k, top, new),
                     Based(m, top), Decrypts(s, m, k)
              PROVE  s.base_key = m.base_key
  OBVIOUS
<1>1. m.seed[1] = s.root[1] BY Trying
<1>2. top \in Nat /\ SessionInv(s, top) BY DEF Due
<1>3. /\ s.base_key \in 3..top /\ s.root[1] = {s.base_key, PreKeyOf(s.base_key)}
      /\ m.base_key \in 3..top /\ m.seed[1] = {m.base_key, PreKeyOf(m.base_key)}
  BY <1>2 DEF SessionInv, Based
<1>4. /\ s.base_key \in Nat /\ s.base_key >= 3 /\ m.base_key \in Nat /\ m.base_key >= 3
  BY <1>2, <1>3
<1>. QED BY <1>1, <1>3, <1>4, OneBase

LEMMA TriedGrows ==
  \A s, e, m, top, new : TriedOn(s, e, m, top, new) => SessionGrows(s, e, m, top, new)
<1>. SUFFICES ASSUME NEW s, NEW e, NEW m, NEW top, NEW new, TriedOn(s, e, m, top, new)
              PROVE  SessionGrows(s, e, m, top, new)
  OBVIOUS
<1>1. top \in Nat /\ new \in Nat /\ top <= new /\ SessionInv(s, top) /\ Based(m, top)
  BY DEF TriedOn
<1>2. CASE e = s
  <2>1. SessionInv(s, new) BY <1>1, Higher
  <2>2. Resumes(s, s) BY <1>1, ResumesItself
  <2>. QED BY <1>2, <2>1, <2>2 DEF SessionGrows
<1>3. ASSUME NEW k, Due(s, m, k, top, new), e = Tried(s, m, k)
      PROVE  SessionGrows(s, e, m, top, new)
  <2>1. TriedTo(s, e, top, new) /\ e.pending = (s.pending /\ ~Decrypts(s, m, k))
    BY <1>3, Trying
  <2>2. e.pending = FALSE => s.pending = FALSE \/ s.base_key = m.base_key
    <3>1. s.pending \in BOOLEAN BY <1>1, Parted
    <3>. QED BY <1>1, <1>3, <2>1, <3>1, DecryptsBase
  <2>3. Novel(e, top) \/ Resumes(s, e)
    <3>1. CASE Len(e.root) > 1 /\ ~Below(e.root, top) BY <3>1 DEF Novel
    <3>2. CASE /\ e.root = s.root /\ e.ephemeral = s.ephemeral
               /\ s.ephemeral \in DOMAIN s.chains =>
                    e.chains[s.ephemeral] = s.chains[s.ephemeral]
      BY <1>1, <3>2, ResumesItself
    <3>. QED BY <2>1, <3>1, <3>2 DEF TriedTo, Continues
  <2>. QED BY <2>1, <2>2, <2>3 DEF TriedTo, SessionGrows
<1>. QED BY <1>2, <1>3 DEF TriedOn

LEMMA TryingGrows ==
  ASSUME NEW top \in Nat, NEW new \in Nat, top <= new, NEW V, RecordInv(V, top),
         NEW m, NEW U, DOMAIN U = 1..Len(V), U = [j \in 1..Len(V) |-> U[j]],
         \A j \in 1..Len(V) : TriedOn(V[j], U[j], m, top, new)
  PROVE  Grown(V, U, top, new, m.base_key) /\ Len(U) = Len(V)
<1>1. /\ V \in Seq(SessionType) /\ Len(V) \in Nat
      /\ \A j \in 1..Len(V) : SessionInv(V[j], top) /\ V[j].closed = (j # 1)
      /\ \A i, j \in 1..Len(V) : i # j => V[i].base_key # V[j].base_key
  BY DEF RecordInv
<1>2. \A j \in 1..Len(V) : SessionGrows(V[j], U[j], m, top, new) BY TriedGrows
<1>3. \A j \in 1..Len(V) :
        /\ SessionInv(U[j], new) /\ U[j].base_key = V[j].base_key
        /\ U[j].closed = V[j].closed
        /\ Novel(U[j], top) \/ Resumes(V[j], U[j])
        /\ \A seed : \A n \in Nat : Used(V[j], seed, n) => Used(U[j], seed, n)
        /\ U[j].pending = FALSE => V[j].pending = FALSE \/ V[j].base_key = m.base_key
  BY <1>2 DEF SessionGrows
<1>4. U \in Seq(SessionType) /\ Len(U) = Len(V)
  <2>1. \A j \in 1..Len(V) : U[j] \in SessionType BY <1>3 DEF SessionInv
  <2>2. U \in [1..Len(V) -> SessionType] BY <2>1
  <2>. QED BY <1>1, <2>2, LenProperties
<1>5. RecordInv(U, new)
  <2>1. \A j \in 1..Len(U) : SessionInv(U[j], new) /\ U[j].closed = (j # 1)
    BY <1>1, <1>3, <1>4
  <2>2. \A i, j \in 1..Len(U) : i # j => U[i].base_key # U[j].base_key
    BY <1>1, <1>3, <1>4
  <2>. QED BY <1>4, <2>1, <2>2 DEF RecordInv
<1>6. Heir(V, U, top) BY <1>3, <1>4 DEF Heir
<1>7. Bases(V) = Bases(U)
  <2>1. \A j \in 1..Len(V) : U[j].base_key = V[j].base_key BY <1>3
  <2>. QED BY <1>4, <2>1 DEF Bases
<1>8. \A seed : \A n \in Nat : UsedIn(V, seed, n) => UsedIn(U, seed, n)
  BY <1>3, <1>4 DEF UsedIn
<1>9. \A j \in 1..Len(U) : U[j].pending = FALSE =>
        U[j].base_key = m.base_key \/ \E i \in 1..Len(V) : /\ V[i].base_key = U[j].base_key
                                                           /\ V[i].pending = FALSE
  BY <1>3, <1>4
<1>. QED BY <1>4, <1>5, <1>6, <1>7, <1>8, <1>9 DEF Grown, Keeps

\* If m is decrypted in session j, no session had used its message key before.
LEMMA ReadsNew ==
  ASSUME NEW top \in Nat, NEW new \in Nat, top <= new, NEW V, RecordInv(V, top),
         NEW m, Based(m, top), NEW k, NEW j \in 1..Len(V),
         Due(V[j], m, k, top, new), Decrypts(V[j], m, k)
  PROVE  /\ ~UsedIn(V, m.seed, m.counter)
         /\ \A U : j \in 1..Len(U) /\ U[j] = Tried(V[j], m, k) =>
              UsedIn(U, m.seed, m.counter)
<1>1. /\ m.seed[1] = V[j].root[1] /\ ~Used(V[j], m.seed, m.counter)
      /\ Used(Tried(V[j], m, k), m.seed, m.counter)
  BY Trying
<1>2. ASSUME NEW i \in 1..Len(V), Used(V[i], m.seed, m.counter) PROVE i = j
  <2>1. SessionInv(V[i], top) /\ SessionInv(V[j], top) BY DEF RecordInv
  <2>2. PICK x \in DOMAIN V[i].chains : V[i].chains[x].seed = m.seed BY <1>2 DEF Used
  <2>3. V[i].chains[x].seed[1] = V[i].root[1] BY <2>1 DEF SessionInv, ChainInv
  <2>4. V[i].root[1] = V[j].root[1] BY <1>1, <2>2, <2>3
  <2>5. /\ V[i].base_key \in Nat /\ V[i].base_key >= 3
        /\ V[j].base_key \in Nat /\ V[j].base_key >= 3
        /\ V[i].root[1] = {V[i].base_key, PreKeyOf(V[i].base_key)}
        /\ V[j].root[1] = {V[j].base_key, PreKeyOf(V[j].base_key)}
    BY <2>1 DEF SessionInv
  <2>6. V[i].base_key = V[j].base_key BY <2>4, <2>5, OneBase
  <2>. QED BY <2>6 DEF RecordInv
<1>. QED BY <1>1, <1>2 DEF UsedIn

-----------------------------------------------------------------------------
\* encrypt moves the sending chain of the open session, and remove_old_sessions.

\* The sending chain d takes the place of c, one message further.
LEMMA SendingOn ==
  ASSUME NEW c \in Chain, c.counter \in Nat \cup {-1}, c.message_keys = {},
         NEW n, n = c.counter + 1, NEW d, d = Popped(Fill(c, n), n)
  PROVE  /\ d \in Chain /\ d.counter = n /\ d.message_keys = {} /\ d.open = c.open
         /\ d.sending = c.sending /\ d.seed = c.seed /\ n \in Nat /\ c.counter < n
<1>1. n \in Nat /\ ~(n <= c.counter) /\ c.counter < n OBVIOUS
<1>2. PICK g : g = Fill(c, n) OBVIOUS
<1>3. g = [c EXCEPT !.counter = n, !.message_keys = @ \cup (c.counter + 1 .. n)]
  BY <1>1, <1>2 DEF Fill
<1>4. c.counter + 1 .. n = {n} BY <1>1
<1>5. /\ g.counter = n /\ g.message_keys = {n} /\ g.open = c.open
      /\ g.sending = c.sending /\ g.seed = c.seed
  BY <1>3, <1>4 DEF Chain
<1>6. g \in Chain
  <2>1. c.message_keys \cup (c.counter + 1 .. n) = {n} BY <1>4
  <2>2. g = [c EXCEPT !.counter = n, !.message_keys = {n}] BY <1>3, <2>1
  <2>3. {n} \in SUBSET Nat /\ n \in Int BY <1>1
  <2>. QED BY <2>2, <2>3 DEF Chain
<1>7. g.counter \in Nat \cup {-1} /\ g.message_keys \subseteq 0..g.counter BY <1>1, <1>5
<1>8. /\ Popped(g, n) \in Chain /\ Onward(g, Popped(g, n)) /\ Popped(g, n).counter = g.counter
      /\ Popped(g, n).message_keys = g.message_keys \ {n}
  BY <1>1, <1>6, <1>7, PoppedKey
<1>9. Popped(g, n).open = g.open BY <1>6 DEF Popped, Chain
<1>. QED BY <1>1, <1>2, <1>5, <1>8, <1>9 DEF Onward

SentOn(s, e, n) ==
  /\ e.root = s.root /\ e.ephemeral = s.ephemeral /\ e.base_key = s.base_key
  /\ e.pre_key = s.pre_key /\ e.closed = s.closed /\ e.pending = s.pending
  /\ e.last_remote = s.last_remote /\ e.previous_counter = s.previous_counter
  /\ Resumes(s, e) /\ e.chains[s.ephemeral].counter = n
  /\ DOMAIN e.chains = DOMAIN s.chains
  /\ \A k \in DOMAIN s.chains \ {s.ephemeral} : e.chains[k] = s.chains[k]
  /\ \A seed : \A i \in Nat : Used(s, seed, i) => Used(e, seed, i)

\* The session after its sending chain moved to n.
MovedTo(s, d) == [s EXCEPT !.chains[s.ephemeral] = d]

LEMMA MovingOne ==
  ASSUME NEW top, NEW s, SessionInv(s, top), s.ephemeral \in DOMAIN s.chains,
         NEW n, n = s.chains[s.ephemeral].counter + 1,
         NEW e, e = MovedTo(s, Popped(Fill(s.chains[s.ephemeral], n), n))
  PROVE  SessionInv(e, top) /\ SentOn(s, e, n) /\ n \in Nat
<1>1. PICK x, c : x = s.ephemeral /\ c = s.chains[s.ephemeral] OBVIOUS
<1>2. PICK d : d = Popped(Fill(c, n), n) OBVIOUS
<1>3. /\ s.base_key \in 3..top /\ Len(s.root) >= 1
      /\ s.root[1] = {s.base_key, PreKeyOf(s.base_key)}
      /\ Len(s.root) > 1 => Below(s.root, top)
      /\ DOMAIN s.chains \subseteq 3..top /\ s.ephemeral \in 1..2 \cup DOMAIN s.chains
      /\ s.ephemeral \in DOMAIN s.chains <=> Len(s.root) > 1
      /\ s.pending => s.pre_key = PreKeyOf(s.base_key)
      /\ \A k \in DOMAIN s.chains : ChainInv(s.root, s.chains[k], k = s.ephemeral)
      /\ \A k, l \in DOMAIN s.chains :
           k # l => Len(s.chains[k].seed) # Len(s.chains[l].seed)
  BY DEF SessionInv
<1>4. s.chains \in Chains /\ s \in SessionType /\ x \in DOMAIN s.chains
  BY <1>1, Parted DEF SessionInv
<1>5. c \in Chain BY <1>1, <1>4, ChainsAre
<1>6. ChainInv(s.root, c, TRUE)
  <2>1. (x = s.ephemeral) = TRUE BY <1>1
  <2>2. ChainInv(s.root, s.chains[x], x = s.ephemeral) BY <1>3, <1>4
  <2>. QED BY <1>1, <2>1, <2>2
<1>7. /\ c.counter \in Nat \cup {-1} /\ c.sending = TRUE /\ c.open /\ c.message_keys = {}
      /\ c.seed = s.root /\ Len(c.seed) >= 2
  BY <1>6, Zenon DEF ChainInv
<1>8. /\ d \in Chain /\ d.counter = n /\ d.message_keys = {} /\ d.open = c.open
      /\ d.sending = c.sending /\ d.seed = c.seed /\ n \in Nat /\ c.counter < n
  BY <1>1, <1>2, <1>5, <1>7, SendingOn
<1>9. PICK all : all = [s.chains EXCEPT ![x] = d] OBVIOUS
<1>10. /\ all \in Chains /\ DOMAIN all = DOMAIN s.chains /\ all[x] = d
       /\ \A k \in DOMAIN s.chains \ {x} : all[k] = s.chains[k]
  BY <1>4, <1>8, <1>9, Changes
<1>11. e = [s EXCEPT !.chains = all] BY <1>1, <1>2, <1>4, <1>9 DEF MovedTo
<1>12. /\ e \in SessionType /\ e.root = s.root /\ e.ephemeral = s.ephemeral /\ e.chains = all
       /\ e.last_remote = s.last_remote /\ e.previous_counter = s.previous_counter
       /\ e.base_key = s.base_key /\ e.pre_key = s.pre_key
       /\ e.closed = s.closed /\ e.pending = s.pending
  BY ONLY <1>4, <1>10, <1>11 DEF SessionType
<1>13. ChainInv(s.root, d, TRUE)
  <2>1. n \in Nat \cup {-1} /\ {} \subseteq 0..n BY <1>8
  <2>2. d.counter \in Nat \cup {-1} /\ d.message_keys \subseteq 0..d.counter BY <1>8, <2>1
  <2>3. Len(d.seed) >= 2 /\ d.seed[1] = s.root[1] BY <1>7, <1>8
  <2>4. d.sending = TRUE /\ d.open /\ d.message_keys = {} /\ d.seed = s.root BY <1>7, <1>8
  <2>. QED BY ONLY <2>2, <2>3, <2>4, Zenon DEF ChainInv
<1>14. \A k \in DOMAIN all : ChainInv(s.root, all[k], k = s.ephemeral)
  <2>1. (x = s.ephemeral) = TRUE BY <1>1
  <2>2. ChainInv(s.root, all[x], x = s.ephemeral) BY <1>10, <1>13, <2>1
  <2>. QED BY <1>3, <1>10, <2>2
<1>15. \A k \in DOMAIN all : all[k].seed = s.chains[k].seed BY <1>1, <1>8, <1>10
<1>16. \A k, l \in DOMAIN all : k # l => Len(all[k].seed) # Len(all[l].seed)
  BY <1>3, <1>10, <1>15
<1>17. SessionInv(e, top)
  <2>1. /\ e.base_key \in 3..top /\ Len(e.root) >= 1
        /\ e.root[1] = {e.base_key, PreKeyOf(e.base_key)}
        /\ Len(e.root) > 1 => Below(e.root, top)
    BY ONLY <1>3, <1>12
  <2>2. /\ DOMAIN e.chains \subseteq 3..top /\ e.ephemeral \in 1..2 \cup DOMAIN e.chains
        /\ e.ephemeral \in DOMAIN e.chains <=> Len(e.root) > 1
    BY ONLY <1>3, <1>10, <1>12
  <2>3. e.pending => e.pre_key = PreKeyOf(e.base_key) BY ONLY <1>3, <1>12
  <2>4. \A k \in DOMAIN e.chains : ChainInv(e.root, e.chains[k], k = e.ephemeral)
    BY ONLY <1>12, <1>14
  <2>5. \A k, l \in DOMAIN e.chains : k # l => Len(e.chains[k].seed) # Len(e.chains[l].seed)
    BY ONLY <1>12, <1>16
  <2>. QED BY ONLY <1>12, <2>1, <2>2, <2>3, <2>4, <2>5 DEF SessionInv
<1>18. Resumes(s, e)
  <2>1. c.counter \in Int /\ n \in Int /\ c.counter < n BY <1>7, <1>8
  <2>2. c.counter <= n BY <2>1
  <2>. QED BY <1>1, <1>8, <1>10, <1>12, <2>2 DEF Resumes
<1>19. \A seed : \A i \in Nat : Used(s, seed, i) => Used(e, seed, i)
  <2>. SUFFICES ASSUME NEW seed, NEW i \in Nat, Used(s, seed, i) PROVE Used(e, seed, i)
    OBVIOUS
  <2>1. PICK k \in DOMAIN s.chains : /\ ~s.chains[k].sending /\ s.chains[k].seed = seed
                                     /\ i <= s.chains[k].counter
                                     /\ i \notin s.chains[k].message_keys
    BY DEF Used
  <2>2. k # x BY <1>1, <1>7, <2>1
  <2>3. k \in DOMAIN e.chains /\ e.chains[k] = s.chains[k] BY <1>10, <1>12, <2>2
  <2>. QED BY <2>1, <2>3 DEF Used
<1>20. /\ DOMAIN e.chains = DOMAIN s.chains
       /\ \A k \in DOMAIN s.chains \ {s.ephemeral} : e.chains[k] = s.chains[k]
  BY <1>1, <1>10, <1>12
<1>. QED BY <1>1, <1>8, <1>10, <1>12, <1>17, <1>18, <1>19, <1>20 DEF SentOn

Sending(V, s, n, top) ==
  /\ top \in Nat /\ RecordInv(V, top) /\ V # <<>>
  /\ s = V[1] /\ s.ephemeral \in DOMAIN s.chains /\ n = s.chains[s.ephemeral].counter + 1
MovedRecord(V, s, n) ==
  [V EXCEPT ![1].chains[s.ephemeral] = Popped(Fill(s.chains[s.ephemeral], n), n)]

LEMMA Moving ==
  \A V, s, n, top, U : Sending(V, s, n, top) /\ U = MovedRecord(V, s, n) =>
    /\ \A b : Grown(V, U, top, top, b)
    /\ Len(U) = Len(V) /\ 1 \in 1..Len(U) /\ n \in Nat
    /\ SentOn(s, U[1], n) /\ \A j \in 1..Len(U) \ {1} : U[j] = V[j]
<1>. SUFFICES ASSUME NEW V, NEW s, NEW n, NEW top, NEW U,
                     Sending(V, s, n, top), U = MovedRecord(V, s, n)
     PROVE  /\ \A b : Grown(V, U, top, top, b)
            /\ Len(U) = Len(V) /\ 1 \in 1..Len(U) /\ n \in Nat
            /\ SentOn(s, U[1], n) /\ \A j \in 1..Len(U) \ {1} : U[j] = V[j]
  OBVIOUS
<1>a. /\ top \in Nat /\ RecordInv(V, top) /\ V # <<>>
      /\ s = V[1] /\ s.ephemeral \in DOMAIN s.chains
      /\ n = s.chains[s.ephemeral].counter + 1
  BY DEF Sending
<1>1. /\ V \in Seq(SessionType) /\ Len(V) \in Nat /\ 1 \in 1..Len(V)
      /\ \A j \in 1..Len(V) : SessionInv(V[j], top) /\ V[j].closed = (j # 1)
      /\ \A i, j \in 1..Len(V) : i # j => V[i].base_key # V[j].base_key
      /\ \A j \in 1..Len(V) : V[j] \in SessionType
  BY <1>a DEF RecordInv, SessionInv
<1>2. PICK e : e = MovedTo(s, Popped(Fill(s.chains[s.ephemeral], n), n)) OBVIOUS
<1>3. SessionInv(e, top) /\ SentOn(s, e, n) /\ n \in Nat BY <1>a, <1>1, <1>2, MovingOne
<1>4. U = [V EXCEPT ![1] = e] BY <1>a, <1>1, <1>2 DEF MovedTo, MovedRecord
<1>5. /\ U \in Seq(SessionType) /\ Len(U) = Len(V) /\ U[1] = e
      /\ \A j \in 1..Len(V) \ {1} : U[j] = V[j]
  <2>1. e \in SessionType BY <1>3 DEF SessionInv
  <2>. QED BY ONLY <1>1, <1>4, <2>1
<1>6. \A j \in 1..Len(V) : /\ U[j].base_key = V[j].base_key /\ U[j].closed = V[j].closed
                           /\ U[j].pending = V[j].pending /\ SessionInv(U[j], top)
  BY <1>a, <1>1, <1>3, <1>5 DEF SentOn
<1>7. RecordInv(U, top) BY <1>1, <1>5, <1>6 DEF RecordInv
<1>8. \A j \in 1..Len(V) : Resumes(V[j], U[j])
  <2>. SUFFICES ASSUME NEW j \in 1..Len(V) PROVE Resumes(V[j], U[j])
    OBVIOUS
  <2>1. CASE j = 1 BY <1>a, <1>3, <1>5, <2>1 DEF SentOn
  <2>2. CASE j # 1 BY <1>1, <1>5, <2>2, ResumesItself
  <2>. QED BY <2>1, <2>2
<1>9. Heir(V, U, top) BY <1>5, <1>8 DEF Heir
<1>10. Bases(V) = Bases(U) BY <1>5, <1>6 DEF Bases
<1>11. \A seed : \A i \in Nat : UsedIn(V, seed, i) => UsedIn(U, seed, i)
  BY <1>a, <1>3, <1>5 DEF UsedIn, SentOn
<1>12. \A b : Keeps(V, U, b) BY <1>5, <1>6, <1>10, <1>11 DEF Keeps
<1>. QED BY <1>1, <1>3, <1>5, <1>7, <1>9, <1>12 DEF Grown

LEMMA RecentIsSound ==
  ASSUME NEW top \in Nat, NEW V, RecordInv(V, top)
  PROVE  /\ RecordInv(Recent(V), top) /\ Len(Recent(V)) <= Len(V) /\ Len(Recent(V)) \in Nat
         /\ \A j \in 1..Len(Recent(V)) : j \in 1..Len(V) /\ Recent(V)[j] = V[j]
         /\ V # <<>> => 1 \in 1..Len(Recent(V))
         /\ Len(V) <= ArchivedLimit + 1 => Recent(V) = V
<1>0. ArchivedLimit \in Nat BY DoubleRatchetAssumption
<1>1. V \in Seq(SessionType) /\ Len(V) \in Nat BY DEF RecordInv
<1>2. PICK n : n = IF Len(V) > ArchivedLimit + 1 THEN ArchivedLimit + 1 ELSE Len(V) OBVIOUS
<1>3. n \in Nat /\ n <= Len(V) /\ (Len(V) <= ArchivedLimit + 1 => n = Len(V))
      /\ (Len(V) # 0 => n >= 1)
  BY <1>0, <1>1, <1>2
<1>4. PICK U : U = Recent(V) OBVIOUS
<1>5. U = SubSeq(V, 1, n) BY <1>2, <1>4 DEF Recent
<1>6. U \in Seq(SessionType) /\ Len(U) = n /\ \A j \in 1..n : U[j] = V[j]
  <2>1. U = [i \in 1..n |-> V[i]]
    <3>1. SubSeq(V, 1, n) = [i \in 1..(1 + n - 1) |-> V[i + 1 - 1]] BY <1>1, <1>3
    <3>2. 1 + n - 1 = n /\ \A i \in 1..n : i + 1 - 1 = i BY <1>3
    <3>. QED BY <1>5, <3>1, <3>2
  <2>2. \A i \in 1..n : V[i] \in SessionType BY <1>1, <1>3
  <2>3. U \in [1..n -> SessionType] BY <2>1, <2>2
  <2>. QED BY <1>3, <2>1, <2>3, LenProperties
<1>7. \A j \in 1..Len(U) : j \in 1..Len(V) /\ U[j] = V[j] BY <1>1, <1>3, <1>6
<1>8. RecordInv(U, top) BY <1>6, <1>7 DEF RecordInv
<1>9. V # <<>> => 1 \in 1..Len(U) BY <1>1, <1>3, <1>6
<1>10. Len(V) <= ArchivedLimit + 1 => U = V
  <2>. SUFFICES ASSUME Len(V) <= ArchivedLimit + 1 PROVE U = V
    OBVIOUS
  <2>1. Len(U) = Len(V) BY <1>3, <1>6
  <2>. QED BY <1>1, <1>6, <1>7, <2>1, SeqEqual
<1>. QED BY <1>1, <1>3, <1>4, <1>6, <1>7, <1>8, <1>9, <1>10

-----------------------------------------------------------------------------
\* The inductive invariant of the two parties, their files and the network.

\* The two records of a party that can matter to what follows.
Views(p) == {record[p], disk[p].record}
NextViews(p) == {record'[p], disk'[p].record}

MessageInv(m, top) ==
  /\ m.from \in Parties /\ m.prekey \in BOOLEAN /\ m.body \in Nat /\ m.pre_key \in Key
  /\ Based(m, top) /\ m.ratchet_key \in 3..top
  /\ {m.counter, m.previous_counter} \subseteq Nat
  /\ m.seed \in Root /\ Len(m.seed) > 1 /\ Below(m.seed, top)
  /\ m.prekey => m.pre_key = PreKeyOf(m.base_key)

Shapes ==
  /\ scenario \in Scenarios /\ keys \in Nat /\ keys >= 2
  /\ record \in [Parties -> Seq(SessionType)] /\ pre_keys \in [Parties -> SUBSET Key]
  /\ disk \in [Parties -> [record : Seq(SessionType), pre_keys : SUBSET Key]]
  /\ started \in [Parties -> 0..MaxSessions] /\ IsFiniteSet(sent)
  /\ DOMAIN read \subseteq sent /\ read \in [DOMAIN read -> Nat \ {0}]

Sound == /\ \A p \in Parties : \A V \in Views(p) : RecordInv(V, keys)
         /\ \A m \in sent : MessageInv(m, keys)

\* No two parties send on the same chain, whatever a restart brings back.
Apart ==
  \A p \in Parties : \A V \in Views(p), W \in Views(Peer(p)) :
    \A i \in 1..Len(V), j \in 1..Len(W) : Len(V[i].root) > 1 => V[i].root # W[j].root

\* No view of a party is behind what was sent on its sending chains.
Past ==
  \A p \in Parties : \A V \in Views(p) : \A i \in 1..Len(V) : \A m \in sent :
    m.seed = V[i].root => m.counter <= V[i].chains[V[i].ephemeral].counter

RatchetInv == Shapes /\ Sound /\ Apart /\ Past /\ NoKeyReuse

\* remove_old_sessions has nothing to remove.
Whole == \A p \in Parties : Len(record[p]) <= ArchivedLimit + 1

\* What a step of p does to the records.
Becomes(V, U, b) == RecordInv(U, keys') /\ Heir(V, U, keys) /\ (Whole => Keeps(V, U, b))
Acts(p, b) ==
  /\ p \in Parties /\ keys' \in Nat /\ keys <= keys'
  /\ NextViews(Peer(p)) \subseteq Views(Peer(p))
  /\ \A U \in NextViews(p) : \E V \in Views(p) : Becomes(V, U, b)

\* What a step of p that sends m does to the network.
Says(p, m) ==
  /\ sent' = sent \cup {m} /\ MessageInv(m, keys') /\ m.from = p
  /\ \A U \in NextViews(p) : \A j \in 1..Len(U) :
       m.seed = U[j].root => m.counter <= U[j].chains[U[j].ephemeral].counter
  /\ \A W \in Views(Peer(p)) : \A j \in 1..Len(W) : m.seed # W[j].root
  /\ \A x \in sent : x.seed = m.seed => x.counter # m.counter

LEMMA MessageHigher ==
  ASSUME NEW top \in Nat, NEW new \in Nat, top <= new, NEW m, MessageInv(m, top)
  PROVE  MessageInv(m, new)
<1>1. 0..top \subseteq 0..new /\ 3..top \subseteq 3..new OBVIOUS
<1>. QED BY <1>1 DEF MessageInv, Based, Below

LEMMA SoundNext ==
  ASSUME Shapes, Sound, NEW p, NEW b, Acts(p, b),
         sent' = sent \/ \E m : Says(p, m)
  PROVE  /\ \A q \in Parties : \A U \in NextViews(q) : RecordInv(U, keys')
         /\ \A m \in sent' : MessageInv(m, keys')
<1>1. p \in Parties /\ keys \in Nat /\ keys' \in Nat /\ keys <= keys' BY DEF Acts, Shapes
<1>2. \A U \in NextViews(p) : RecordInv(U, keys') BY DEF Acts, Becomes
<1>3. \A U \in NextViews(Peer(p)) : RecordInv(U, keys')
  <2>. SUFFICES ASSUME NEW U \in NextViews(Peer(p)) PROVE RecordInv(U, keys')
    OBVIOUS
  <2>1. RecordInv(U, keys) BY <1>1, TwoParties DEF Acts, Sound
  <2>. QED BY <1>1, <2>1, RecordHigher
<1>4. \A q \in Parties : q = p \/ q = Peer(p) BY <1>1, TwoParties
<1>5. ASSUME NEW m \in sent PROVE MessageInv(m, keys')
  <2>1. MessageInv(m, keys) BY DEF Sound
  <2>. QED BY <1>1, <2>1, MessageHigher
<1>6. \A m \in sent' : MessageInv(m, keys') BY <1>5 DEF Says
<1>. QED BY <1>2, <1>3, <1>4, <1>6

\* A root that nobody had, or the root of a session the party had.
LEMMA RootsNext ==
  ASSUME Shapes, Sound, NEW p, NEW b, Acts(p, b), NEW U \in NextViews(p),
         NEW j \in 1..Len(U), Len(U[j].root) > 1
  PROVE  ~Below(U[j].root, keys) \/ \E V \in Views(p) : \E i \in 1..Len(V) : Resumes(V[i], U[j])
<1>1. Len(U[j].root) # 1
  <2>1. SessionInv(U[j], keys') BY DEF Acts, Becomes, RecordInv
  <2>2. PICK n : n = Len(U[j].root) OBVIOUS
  <2>3. n \in Nat BY <2>1, <2>2, Parted DEF Root
  <2>4. n > 1 BY <2>2
  <2>5. n # 1 BY ONLY <2>3, <2>4
  <2>. QED BY ONLY <2>2, <2>5, Zenon
<1>. QED BY <1>1 DEF Acts, Becomes, Heir, Novel

LEMMA ApartNext ==
  ASSUME Shapes, Sound, Apart, NEW p, NEW b, Acts(p, b)
  PROVE  Apart'
<1>1. p \in Parties /\ Peer(p) \in Parties /\ Peer(Peer(p)) = p BY TwoParties DEF Acts
<1>2. \A q \in Parties : q = p \/ q = Peer(p) BY <1>1, TwoParties
<1>3. ASSUME NEW U \in NextViews(p), NEW W \in NextViews(Peer(p)),
             NEW i \in 1..Len(U), NEW j \in 1..Len(W), Len(U[i].root) > 1
      PROVE  U[i].root # W[j].root
  <2>1. W \in Views(Peer(p)) BY DEF Acts
  <2>2. CASE ~Below(U[i].root, keys)
    <3>1. SessionInv(W[j], keys) BY <1>1, <2>1 DEF Sound, RecordInv
    <3>2. Len(W[j].root) > 1 => Below(W[j].root, keys) BY <3>1 DEF SessionInv
    <3>. QED BY <1>3, <2>2, <3>2
  <2>3. CASE \E V \in Views(p) : \E h \in 1..Len(V) : Resumes(V[h], U[i])
    <3>1. PICK V \in Views(p) : \E h \in 1..Len(V) : Resumes(V[h], U[i]) BY <2>3
    <3>2. PICK h \in 1..Len(V) : Resumes(V[h], U[i]) BY <3>1
    <3>3. V[h].root = U[i].root BY <3>2 DEF Resumes
    <3>. QED BY <1>1, <1>3, <2>1, <3>3 DEF Apart
  <2>. QED BY <1>3, <2>2, <2>3, RootsNext
<1>4. ASSUME NEW q \in Parties, NEW U \in NextViews(q), NEW W \in NextViews(Peer(q)),
             NEW i \in 1..Len(U), NEW j \in 1..Len(W), Len(U[i].root) > 1
      PROVE  U[i].root # W[j].root
  <2>1. CASE q = p BY <1>3, <1>4, <2>1
  <2>2. CASE q = Peer(p) BY <1>1, <1>3, <1>4, <2>2
  <2>. QED BY <1>2, <2>1, <2>2
<1>5. \A q : Views(q)' = NextViews(q) BY DEF Views, NextViews
<1>6. \A q \in Parties : \A U \in Views(q)', W \in Views(Peer(q))' :
        \A i \in 1..Len(U), j \in 1..Len(W) : Len(U[i].root) > 1 => U[i].root # W[j].root
  BY <1>4, <1>5
<1>. QED BY <1>6 DEF Apart

LEMMA PastNext ==
  ASSUME Shapes, Sound, Apart, Past, NEW p, NEW b, Acts(p, b),
         sent' = sent \/ \E m : Says(p, m)
  PROVE  Past'
<1>1. p \in Parties /\ Peer(p) \in Parties BY TwoParties DEF Acts
<1>2. \A q \in Parties : q = p \/ q = Peer(p) BY <1>1, TwoParties
<1>3. ASSUME NEW U \in NextViews(p), NEW i \in 1..Len(U), NEW m \in sent, m.seed = U[i].root
      PROVE  m.counter <= U[i].chains[U[i].ephemeral].counter
  <2>1. m.seed \in Root /\ Len(m.seed) > 1 /\ Below(m.seed, keys) /\ m.counter \in Nat
    BY DEF Sound, MessageInv
  <2>2. PICK V \in Views(p) : \E h \in 1..Len(V) : Resumes(V[h], U[i])
    BY <1>3, <2>1, RootsNext
  <2>3. PICK h \in 1..Len(V) : Resumes(V[h], U[i]) BY <2>2
  <2>4. V[h].root = U[i].root /\ V[h].ephemeral = U[i].ephemeral BY <2>3 DEF Resumes
  <2>5. SessionInv(V[h], keys) /\ SessionInv(U[i], keys')
    BY <1>1, SoundNext DEF Sound, RecordInv, Acts, Becomes
  <2>6. PICK x : x = U[i].ephemeral OBVIOUS
  <2>7. x \in DOMAIN V[h].chains /\ x \in DOMAIN U[i].chains
    BY <1>3, <2>1, <2>4, <2>5, <2>6 DEF SessionInv
  <2>8. V[h].chains[x].counter \in Int /\ U[i].chains[x].counter \in Int
    BY ONLY <2>5, <2>7, CountersAre
  <2>9. m.counter <= V[h].chains[x].counter BY <1>1, <1>3, <2>4, <2>6 DEF Past
  <2>10. V[h].chains[x].counter <= U[i].chains[x].counter
    BY <2>3, <2>4, <2>6, <2>7 DEF Resumes
  <2>. QED BY <2>1, <2>6, <2>8, <2>9, <2>10
<1>4. ASSUME NEW q \in Parties, NEW U \in NextViews(q), NEW i \in 1..Len(U),
             NEW m \in sent', m.seed = U[i].root
      PROVE  m.counter <= U[i].chains[U[i].ephemeral].counter
  <2>1. CASE m \in sent
    <3>1. CASE q = p BY <1>3, <1>4, <2>1, <3>1
    <3>2. CASE q = Peer(p)
      <4>1. U \in Views(Peer(p)) BY <3>2 DEF Acts
      <4>. QED BY <1>1, <1>4, <2>1, <4>1 DEF Past
    <3>. QED BY <1>2, <3>1, <3>2
  <2>2. CASE m \notin sent
    <3>1. Says(p, m) BY <2>2 DEF Says
    <3>2. CASE q = p BY <1>4, <3>1, <3>2 DEF Says
    <3>3. CASE q = Peer(p)
      <4>1. U \in Views(Peer(p)) BY <3>3 DEF Acts
      <4>. QED BY <1>4, <3>1, <4>1 DEF Says
    <3>. QED BY <1>2, <3>2, <3>3
  <2>. QED BY <2>1, <2>2
<1>5. \A q : Views(q)' = NextViews(q) BY DEF Views, NextViews
<1>6. \A q \in Parties : \A U \in Views(q)' : \A i \in 1..Len(U) : \A m \in sent' :
        m.seed = U[i].root => m.counter <= U[i].chains[U[i].ephemeral].counter
  BY <1>4, <1>5
<1>. QED BY <1>6 DEF Past

LEMMA ActsKeep ==
  ASSUME RatchetInv, Shapes', NEW p, NEW b, Acts(p, b),
         sent' = sent \/ \E m : Says(p, m)
  PROVE  RatchetInv'
<1>1. \A q : Views(q)' = NextViews(q) BY DEF Views, NextViews
<1>2. Sound'
  <2>1. /\ \A q \in Parties : \A U \in NextViews(q) : RecordInv(U, keys')
        /\ \A m \in sent' : MessageInv(m, keys')
    BY SoundNext DEF RatchetInv
  <2>. QED BY <1>1, <2>1 DEF Sound
<1>3. Apart' BY ApartNext DEF RatchetInv
<1>4. Past' BY PastNext DEF RatchetInv
<1>5. NoKeyReuse'
  <2>1. ASSUME NEW m1 \in sent', NEW m2 \in sent', m1.seed = m2.seed, m1.counter = m2.counter
        PROVE  m1 = m2
    <3>1. CASE sent' = sent BY <2>1, <3>1 DEF RatchetInv, NoKeyReuse
    <3>2. ASSUME NEW m, Says(p, m) PROVE m1 = m2
      <4>1. \A x \in sent' : x \in sent \/ x = m BY <3>2 DEF Says
      <4>2. \A x \in sent : x.seed = m.seed => x.counter # m.counter BY <3>2 DEF Says
      <4>. QED BY <2>1, <4>1, <4>2 DEF RatchetInv, NoKeyReuse
    <3>. QED BY <3>1, <3>2
  <2>. QED BY <2>1 DEF NoKeyReuse
<1>. QED BY <1>2, <1>3, <1>4, <1>5 DEF RatchetInv

-----------------------------------------------------------------------------
\* Every action is a step of one party, and sends one message or none.

LEMMA OneChanges ==
  ASSUME Shapes, NEW p \in Parties, NEW U, record' = [record EXCEPT ![p] = U],
         NEW K, disk' = disk \/ disk' = [disk EXCEPT ![p] = [record |-> U, pre_keys |-> K]]
  PROVE  /\ record'[p] = U /\ NextViews(p) \subseteq {U, disk[p].record}
         /\ NextViews(Peer(p)) = Views(Peer(p))
<1>1. Peer(p) \in Parties /\ Peer(p) # p BY TwoParties
<1>2. DOMAIN record = Parties /\ DOMAIN disk = Parties BY DEF Shapes
<1>3. record'[p] = U /\ record'[Peer(p)] = record[Peer(p)] BY <1>1, <1>2
<1>4. disk'[Peer(p)].record = disk[Peer(p)].record BY <1>1, <1>2
<1>5. disk'[p].record \in {U, disk[p].record} BY <1>2
<1>. QED BY <1>3, <1>4, <1>5 DEF Views, NextViews

LEMMA Acting ==
  ASSUME Shapes, Sound, NEW p \in Parties, NEW U, NEW b, keys' \in Nat, keys <= keys',
         Becomes(record[p], U, b), NextViews(p) \subseteq {U, disk[p].record},
         NextViews(Peer(p)) = Views(Peer(p))
  PROVE  Acts(p, b)
<1>1. record[p] \in Views(p) /\ disk[p].record \in Views(p) BY DEF Views
<1>2. RecordInv(disk[p].record, keys) BY <1>1 DEF Sound
<1>3. Becomes(disk[p].record, disk[p].record, b)
  <2>1. keys \in Nat BY DEF Shapes
  <2>2. Grown(disk[p].record, disk[p].record, keys, keys', b) BY <1>2, <2>1, SameRecord
  <2>. QED BY <2>2 DEF Grown, Becomes
<1>. QED BY <1>1, <1>3 DEF Acts

LEMMA RecordsType ==
  ASSUME Shapes, NEW p \in Parties, NEW U, NEW top, RecordInv(U, top),
         NEW K, K \in SUBSET Key
  PROVE  /\ [record EXCEPT ![p] = U] \in [Parties -> Seq(SessionType)]
         /\ [disk EXCEPT ![p] = [record |-> U, pre_keys |-> K]] \in
              [Parties -> [record : Seq(SessionType), pre_keys : SUBSET Key]]
<1>1. U \in Seq(SessionType) BY DEF RecordInv
<1>2. [record |-> U, pre_keys |-> K] \in [record : Seq(SessionType), pre_keys : SUBSET Key]
  BY <1>1
<1>. QED BY <1>1, <1>2 DEF Shapes

\* The bag of what was read, with one more.
Adds(R, B, m) ==
  /\ DOMAIN B = DOMAIN R \cup {m} /\ B \in [DOMAIN B -> Nat \ {0}]
  /\ m \notin DOMAIN R => B[m] = 1
  /\ \A x \in DOMAIN R \ {m} : B[x] = R[x]

LEMMA OneMore ==
  ASSUME Shapes, NEW m, NEW B, B = read (+) SetToBag({m}) PROVE Adds(read, B, m)
<1>1. DOMAIN B = DOMAIN read \cup {m} BY DEF (+), SetToBag
<1>2. ASSUME NEW x \in DOMAIN B
      PROVE  B[x] = (IF x \in DOMAIN read THEN read[x] ELSE 0) + (IF x = m THEN 1 ELSE 0)
  BY <1>1 DEF (+), SetToBag
<1>3. \A x \in DOMAIN read : read[x] \in Nat \ {0} BY DEF Shapes
<1>4. ASSUME NEW x \in DOMAIN B PROVE B[x] \in Nat \ {0}
  <2>1. CASE x = m /\ x \in DOMAIN read
    <3>1. B[x] = read[x] + 1 BY <1>2, <2>1
    <3>. QED BY <1>3, <2>1, <3>1
  <2>2. CASE x = m /\ x \notin DOMAIN read
    <3>1. B[x] = 0 + 1 BY <1>2, <2>2
    <3>. QED BY <3>1
  <2>3. CASE x # m
    <3>1. x \in DOMAIN read BY <1>1, <2>3
    <3>2. B[x] = read[x] + 0 BY <1>2, <2>3, <3>1
    <3>. QED BY <1>3, <3>1, <3>2
  <2>. QED BY <2>1, <2>2, <2>3
<1>5. B = [x \in DOMAIN B |-> B[x]] BY DEF (+)
<1>6. B \in [DOMAIN B -> Nat \ {0}] BY <1>4, <1>5
<1>7. m \notin DOMAIN read => B[m] = 1 BY <1>1, <1>2
<1>8. \A x \in DOMAIN read \ {m} : B[x] = read[x] BY <1>1, <1>2, <1>3
<1>. QED BY <1>1, <1>6, <1>7, <1>8 DEF Adds

LEMMA InitOutgoingActs ==
  ASSUME RatchetInv, NEW p \in Parties, InitOutgoing(p)
  PROVE  /\ Shapes' /\ Acts(p, keys + 1) /\ sent' = sent
         /\ \A U \in NextViews(p) : \A j \in 1..Len(U) :
              U[j].base_key = keys + 1 => U[j].pending = TRUE
<1>. DEFINE q == Peer(p)
            pre == IF OneTime THEN keys + 3 ELSE 0
            up == {pre} \ {0}
<1>1. Shapes /\ Sound /\ q \in Parties /\ q # p /\ keys \in Nat /\ keys >= 2
  BY TwoParties DEF RatchetInv, Shapes
<1>2. PICK V, s, U : /\ V = record[p] /\ U = SetSession(V, s)
                     /\ s = Initiated(keys + 1, pre, keys + 2, SignedPreKey[q])
  OBVIOUS
<1>3. /\ record' = [record EXCEPT ![p] = U] /\ keys' = keys + 3
      /\ started[p] < MaxSessions /\ started' = [started EXCEPT ![p] = @ + 1]
      /\ pre_keys' = [pre_keys EXCEPT ![q] = @ \cup up]
      /\ disk' = [disk EXCEPT ![p] = [record |-> record'[p], pre_keys |-> pre_keys[p]],
                              ![q].pre_keys = @ \cup up]
      /\ scenario' = scenario /\ sent' = sent /\ read' = read
  BY <1>2 DEF InitOutgoing
<1>4. SignedPreKey[q] \in 1..2 BY <1>1, DoubleRatchetAssumption
<1>5. /\ SessionInv(s, keys + 3) /\ Novel(s, keys) /\ s.base_key = keys + 1
      /\ s.closed = FALSE /\ s.pending = TRUE
  BY <1>1, <1>2, <1>4, InitiatedIsSound
<1>6. RecordInv(V, keys) BY <1>1, <1>2 DEF Sound, Views
<1>7. s.base_key \notin Bases(V)
  <2>1. \A j \in 1..Len(V) : V[j].base_key \in 3..keys BY <1>6 DEF RecordInv, SessionInv
  <2>2. keys + 1 \notin 3..keys BY <1>1
  <2>. QED BY <1>5, <2>1, <2>2 DEF Bases
<1>8. /\ Grown(V, U, keys, keys + 3, keys + 1)
      /\ U[1] = s /\ Len(U) = Len(V) + 1 /\ Len(V) \in Nat
      /\ \A j \in 1..Len(V) : U[j + 1].pending = V[j].pending
  <2>1. keys + 3 \in Nat /\ keys <= keys + 3 BY <1>1
  <2>2. /\ Grown(V, U, keys, keys + 3, s.base_key)
        /\ U[1] = s /\ Len(U) = Len(V) + 1 /\ Len(V) \in Nat
        /\ \A j \in 1..Len(V) : U[j + 1].pending = V[j].pending
    <3>1. PICK top, new : top = keys /\ new = keys + 3 OBVIOUS
    <3>2. Opens(V, s, top, new) BY <1>1, <1>5, <1>6, <1>7, <2>1, <3>1 DEF Opens
    <3>3. U = SetSession(V, s) BY <1>2
    <3>. QED BY ONLY <3>1, <3>2, <3>3, SettingGrows
  <2>. QED BY <1>5, <2>2
<1>9. \A j \in 1..Len(U) : U[j].base_key = keys + 1 => U[j].pending = TRUE
  <2>1. RecordInv(U, keys + 3) BY <1>8 DEF Grown
  <2>2. 1 \in 1..Len(U) BY <1>8
  <2>3. \A j \in 1..Len(U) : U[j].base_key = U[1].base_key => j = 1
    BY <2>1, <2>2 DEF RecordInv
  <2>. QED BY <1>5, <1>8, <2>3
<1>10. /\ record'[p] = U /\ record'[q] = record[q]
       /\ disk'[p].record = U /\ disk'[q].record = disk[q].record
  <2>1. /\ DOMAIN record = Parties /\ DOMAIN disk = Parties
        /\ disk[q] = [record |-> disk[q].record, pre_keys |-> disk[q].pre_keys]
    BY <1>1 DEF Shapes
  <2>2. record'[p] = U /\ record'[q] = record[q] BY <1>1, <1>3, <2>1
  <2>. QED BY <1>1, <1>3, <2>1, <2>2
<1>11. NextViews(p) = {U} /\ NextViews(q) = Views(q) BY <1>10 DEF NextViews, Views
<1>12. Acts(p, keys + 1)
  <2>1. Becomes(V, U, keys + 1) BY <1>3, <1>8 DEF Grown, Becomes
  <2>2. NextViews(p) \subseteq {U, disk[p].record} BY <1>11
  <2>3. keys' \in Nat /\ keys <= keys' BY <1>1, <1>3
  <2>. QED BY <1>1, <1>2, <1>11, <2>1, <2>2, <2>3, Acting
<1>13. Shapes'
  <2>1. pre \in Nat /\ up \in SUBSET Key BY <1>1 DEF Key
  <2>. HIDE DEF pre, up
  <2>2. U \in Seq(SessionType) BY <1>8 DEF Grown, RecordInv
  <2>3. record' \in [Parties -> Seq(SessionType)] BY <1>1, <1>3, <2>2 DEF Shapes
  <2>4. pre_keys' \in [Parties -> SUBSET Key] BY <1>1, <1>3, <2>1 DEF Shapes
  <2>5. disk' \in [Parties -> [record : Seq(SessionType), pre_keys : SUBSET Key]]
    <3>1. U \in Seq(SessionType) /\ pre_keys[p] \in SUBSET Key BY <1>1, <2>2 DEF Shapes
    <3>2. PICK one : one = [record |-> U, pre_keys |-> pre_keys[p]] OBVIOUS
    <3>3. one \in [record : Seq(SessionType), pre_keys : SUBSET Key] BY <3>1, <3>2
    <3>4. disk \in [Parties -> [record : Seq(SessionType), pre_keys : SUBSET Key]]
      BY <1>1 DEF Shapes
    <3>5. PICK held : held = disk[q].pre_keys \cup up OBVIOUS
    <3>6. PICK other : other = [record |-> disk[q].record, pre_keys |-> held] OBVIOUS
    <3>7. other \in [record : Seq(SessionType), pre_keys : SUBSET Key]
      BY <1>1, <2>1, <3>4, <3>5, <3>6
    <3>8. disk' = [x \in Parties |-> IF x = p THEN one ELSE IF x = q THEN other ELSE disk[x]]
      <4>1. disk' = [x \in Parties |-> disk'[x]] BY <1>1, <1>3, <3>4
      <4>2. disk'[p] = one BY <1>1, <1>3, <1>10, <3>2, <3>4
      <4>3. disk'[q] = other BY <1>1, <1>3, <3>4, <3>5, <3>6
      <4>4. \A x \in Parties : x = p \/ x = q BY TwoParties
      <4>. QED BY <1>1, <4>1, <4>2, <4>3, <4>4
    <3>. QED BY <3>3, <3>4, <3>7, <3>8
  <2>6. started' \in [Parties -> 0..MaxSessions]
    <3>1. started[p] + 1 \in 0..MaxSessions BY <1>1, <1>3, DoubleRatchetAssumption DEF Shapes
    <3>. QED BY <1>1, <1>3, <3>1 DEF Shapes
  <2>7. keys' \in Nat /\ keys' >= 2 BY <1>1, <1>3
  <2>. QED BY <1>1, <1>3, <2>3, <2>4, <2>5, <2>6, <2>7 DEF Shapes
<1>. QED BY <1>3, <1>9, <1>11, <1>12, <1>13

LEMMA RestartActs ==
  ASSUME RatchetInv, NEW p \in Parties, Restart(p), NEW b
  PROVE  Shapes' /\ Acts(p, b) /\ sent' = sent
<1>1. Shapes /\ Sound /\ keys \in Nat BY DEF RatchetInv, Shapes
<1>2. PICK U : U = disk[p].record OBVIOUS
<1>3. /\ record' = [record EXCEPT ![p] = U]
      /\ pre_keys' = [pre_keys EXCEPT ![p] = disk[p].pre_keys]
      /\ disk' = disk /\ keys' = keys /\ started' = started /\ scenario' = scenario
      /\ sent' = sent /\ read' = read
  BY <1>2 DEF Restart
<1>4. RecordInv(U, keys) BY <1>1, <1>2 DEF Sound, Views
<1>5. NextViews(p) = {U} /\ NextViews(Peer(p)) = Views(Peer(p))
  <2>1. record'[p] = U /\ NextViews(Peer(p)) = Views(Peer(p)) BY <1>1, <1>3, OneChanges
  <2>. QED BY <1>2, <1>3, <2>1 DEF NextViews
<1>6. Becomes(U, U, b)
  <2>1. Grown(U, U, keys, keys', b) BY <1>1, <1>3, <1>4, SameRecord
  <2>. QED BY <2>1 DEF Grown, Becomes
<1>7. Acts(p, b)
  <2>1. U \in Views(p) BY <1>2 DEF Views
  <2>. QED BY <1>1, <1>3, <1>5, <1>6, <2>1 DEF Acts
<1>8. Shapes'
  <2>1. U \in Seq(SessionType) /\ disk[p].pre_keys \in SUBSET Key BY <1>1, <1>2 DEF Shapes
  <2>. QED BY <1>1, <1>3, <2>1 DEF Shapes
<1>. QED BY <1>3, <1>7, <1>8

\* The session and the network after encrypt.
Spoken(p, m) ==
  /\ Says(p, m) /\ m.body = Cardinality(sent) /\ Cardinality(sent) < scenario.sends
  /\ record[p] # <<>> /\ m.base_key = record[p][1].base_key
  /\ m.prekey = record[p][1].pending
  /\ \A U \in NextViews(p) : m.base_key \in Bases(U)

\* The message key that encrypts next was never used.
LEMMA SpeaksNew ==
  ASSUME RatchetInv, NEW p \in Parties, NEW s, record[p] # <<>>, s = record[p][1],
         s.ephemeral \in DOMAIN s.chains,
         NEW n, n = s.chains[s.ephemeral].counter + 1, NEW m,
         m.seed = s.root, m.counter = n
  PROVE  /\ \A W \in Views(Peer(p)) : \A j \in 1..Len(W) : m.seed # W[j].root
         /\ \A x \in sent : x.seed = m.seed => x.counter # m.counter
<1>1. record[p] \in Views(p) BY DEF Views
<1>2. RecordInv(record[p], keys) /\ 1 \in 1..Len(record[p])
  <2>1. RecordInv(record[p], keys) BY <1>1 DEF RatchetInv, Sound
  <2>2. record[p] \in Seq(SessionType) BY <2>1 DEF RecordInv
  <2>. QED BY <2>1, <2>2
<1>3. SessionInv(s, keys) BY <1>2 DEF RecordInv
<1>4. Len(s.root) > 1 BY <1>3 DEF SessionInv
<1>5. s.chains[s.ephemeral].counter \in Int
  <2>1. \A x \in DOMAIN s.chains : s.chains[x].counter \in Int BY ONLY <1>3, CountersAre
  <2>. QED BY <2>1
<1>6. \A W \in Views(Peer(p)) : \A j \in 1..Len(W) : m.seed # W[j].root
  BY <1>1, <1>2, <1>4 DEF RatchetInv, Apart
<1>7. ASSUME NEW x \in sent, x.seed = m.seed PROVE x.counter # m.counter
  <2>1. x.counter <= s.chains[s.ephemeral].counter
    BY <1>1, <1>2, <1>7 DEF RatchetInv, Past
  <2>2. x.counter \in Nat BY DEF RatchetInv, Sound, MessageInv
  <2>. QED BY <1>5, <2>1, <2>2
<1>. QED BY <1>6, <1>7

LEMMA EncryptActs ==
  ASSUME RatchetInv, NEW p \in Parties, Encrypt(p), NEW b
  PROVE  /\ Shapes' /\ Acts(p, b) /\ started' = started /\ read' = read /\ keys' = keys
         /\ scenario' = scenario
         /\ sent' = sent \/ \E m : Spoken(p, m)
<1>1. Shapes /\ Sound /\ keys \in Nat /\ IsFiniteSet(sent) BY DEF RatchetInv, Shapes
<1>2. PICK V : V = record[p] OBVIOUS
<1>3. RecordInv(V, keys) BY <1>1, <1>2 DEF Sound, Views
<1>4. V # <<>> /\ OpenOne(V) = 1
  <2>1. OpenOnes(V) # {} BY <1>2 DEF Encrypt
  <2>. QED BY <1>3, <2>1, OpenIsFirst
<1>5. PICK s, c : s = V[1] /\ c = s.chains[s.ephemeral] OBVIOUS
<1>6. PICK n : n = c.counter + 1 OBVIOUS
<1>7. PICK M : M = [V EXCEPT ![1].chains[s.ephemeral] = Popped(Fill(c, n), n)] OBVIOUS
<1>8. PICK m : m = [from |-> p, prekey |-> s.pending, base_key |-> s.base_key,
                    pre_key |-> s.pre_key, ratchet_key |-> s.ephemeral, counter |-> n,
                    previous_counter |-> s.previous_counter, seed |-> c.seed,
                    body |-> Cardinality(sent)]
  OBVIOUS
<1>9. /\ Cardinality(sent) < scenario.sends /\ s.ephemeral \in DOMAIN s.chains
      /\ scenario' = scenario /\ pre_keys' = pre_keys /\ keys' = keys
      /\ started' = started /\ read' = read
      /\ \/ /\ s.previous_counter >= 0
            /\ record' = [record EXCEPT ![p] = Recent(M)] /\ sent' = sent \cup {m}
            /\ disk' = [disk EXCEPT ![p] = [record |-> record'[p], pre_keys |-> pre_keys'[p]]]
         \/ record' = [record EXCEPT ![p] = M] /\ sent' = sent /\ disk' = disk
  BY <1>2, <1>4, <1>5, <1>6, <1>7, <1>8 DEF Encrypt, Save
<1>10. /\ \A a : Grown(V, M, keys, keys, a)
       /\ Len(M) = Len(V) /\ 1 \in 1..Len(M) /\ n \in Nat
       /\ SentOn(s, M[1], n) /\ \A j \in 1..Len(M) \ {1} : M[j] = V[j]
  <2>1. Sending(V, s, n, keys) BY <1>1, <1>3, <1>4, <1>5, <1>6, <1>9 DEF Sending
  <2>2. M = MovedRecord(V, s, n) BY <1>5, <1>7 DEF MovedRecord
  <2>. QED BY ONLY <2>1, <2>2, Moving
<1>11. RecordInv(M, keys) BY <1>10 DEF Grown
<1>12. /\ RecordInv(Recent(M), keys) /\ Len(Recent(M)) <= Len(M) /\ 1 \in 1..Len(Recent(M))
       /\ \A j \in 1..Len(Recent(M)) : j \in 1..Len(M) /\ Recent(M)[j] = M[j]
       /\ Len(M) <= ArchivedLimit + 1 => Recent(M) = M
  <2>1. M # <<>> BY <1>10
  <2>. QED BY <1>1, <1>11, <2>1, RecentIsSound
<1>13. Becomes(V, M, b) BY <1>9, <1>10 DEF Grown, Becomes
<1>14. Becomes(V, Recent(M), b)
  <2>1. Heir(V, Recent(M), keys) BY <1>12, <1>13 DEF Becomes, Heir
  <2>2. Whole => Recent(M) = M BY <1>2, <1>10, <1>12 DEF Whole
  <2>3. Whole => Keeps(V, Recent(M), b) BY <1>13, <2>2 DEF Becomes
  <2>. QED BY <1>9, <1>12, <2>1, <2>3 DEF Becomes
<1>15. keys' \in Nat /\ keys <= keys' BY <1>1, <1>9
<1>16. pre_keys[p] \in SUBSET Key BY <1>1 DEF Shapes
<1>17. CASE record' = [record EXCEPT ![p] = M] /\ sent' = sent /\ disk' = disk
  <2>1. NextViews(p) \subseteq {M, disk[p].record} /\ NextViews(Peer(p)) = Views(Peer(p))
    BY <1>1, <1>17, OneChanges
  <2>2. Acts(p, b) BY <1>1, <1>2, <1>13, <1>15, <2>1, Acting
  <2>3. [record EXCEPT ![p] = M] \in [Parties -> Seq(SessionType)]
    BY <1>1, <1>11, <1>16, RecordsType
  <2>4. Shapes' BY <1>1, <1>9, <1>17, <2>3 DEF Shapes
  <2>. QED BY <1>9, <1>17, <2>2, <2>4
<1>18. CASE /\ s.previous_counter >= 0
            /\ record' = [record EXCEPT ![p] = Recent(M)] /\ sent' = sent \cup {m}
            /\ disk' = [disk EXCEPT ![p] = [record |-> record'[p], pre_keys |-> pre_keys'[p]]]
  <2>1. PICK U : U = Recent(M) OBVIOUS
  <2>2. record'[p] = U BY <1>1, <1>18, <2>1 DEF Shapes
  <2>3. disk' = [disk EXCEPT ![p] = [record |-> U, pre_keys |-> pre_keys[p]]]
    BY <1>9, <1>18, <2>2
  <2>4. NextViews(p) \subseteq {U, disk[p].record} /\ NextViews(Peer(p)) = Views(Peer(p))
    BY <1>1, <1>18, <2>1, <2>3, OneChanges
  <2>5. NextViews(p) = {U} BY <1>1, <2>2, <2>3 DEF NextViews, Shapes
  <2>6. Acts(p, b) BY <1>1, <1>2, <1>14, <1>15, <2>1, <2>4, Acting
  <2>7. Shapes'
    <3>1. /\ [record EXCEPT ![p] = U] \in [Parties -> Seq(SessionType)]
          /\ [disk EXCEPT ![p] = [record |-> U, pre_keys |-> pre_keys[p]]] \in
               [Parties -> [record : Seq(SessionType), pre_keys : SUBSET Key]]
      BY <1>1, <1>12, <1>16, <2>1, RecordsType
    <3>2. IsFiniteSet(sent') BY <1>1, <1>18, FS_AddElement
    <3>. QED BY <1>1, <1>9, <1>18, <2>1, <2>3, <3>1, <3>2 DEF Shapes
  <2>8. SessionInv(s, keys) /\ 1 \in 1..Len(V) BY <1>3, <1>5, <1>10 DEF RecordInv
  <2>9. c.seed = s.root /\ Len(s.root) > 1 /\ s.ephemeral \in 3..keys
    <3>1. ChainInv(s.root, c, TRUE)
      <4>1. PICK x : x = s.ephemeral OBVIOUS
      <4>2. ChainInv(s.root, s.chains[x], x = s.ephemeral) BY <1>9, <2>8, <4>1 DEF SessionInv
      <4>3. (x = s.ephemeral) = TRUE BY <4>1
      <4>. QED BY <1>5, <4>1, <4>2, <4>3
    <3>2. c.seed = s.root BY <3>1, Zenon DEF ChainInv
    <3>. QED BY <1>9, <2>8, <3>2 DEF SessionInv
  <2>10. /\ m.from = p /\ m.prekey = s.pending /\ m.base_key = s.base_key
         /\ m.pre_key = s.pre_key /\ m.ratchet_key = s.ephemeral /\ m.counter = n
         /\ m.previous_counter = s.previous_counter /\ m.seed = s.root
         /\ m.body = Cardinality(sent)
    BY <1>8, <2>9
  <2>11. MessageInv(m, keys)
    <3>1. /\ s.root \in Root /\ s.pending \in BOOLEAN /\ s.pre_key \in Key
          /\ s.previous_counter \in Nat \cup {-1}
      BY <2>8, Parted
    <3>2. s.previous_counter \in Nat BY <1>18, <3>1
    <3>3. Cardinality(sent) \in Nat BY <1>1, FS_CardinalityType
    <3>4. /\ s.base_key \in 3..keys /\ s.root[1] = {s.base_key, PreKeyOf(s.base_key)}
          /\ Below(s.root, keys)
      BY <2>8, <2>9 DEF SessionInv
    <3>5. Based(m, keys) BY <2>10, <3>4 DEF Based
    <3>6. m.prekey => m.pre_key = PreKeyOf(m.base_key) BY <2>8, <2>10 DEF SessionInv
    <3>7. /\ m.from \in Parties /\ m.prekey \in BOOLEAN /\ m.body \in Nat /\ m.pre_key \in Key
          /\ m.ratchet_key \in 3..keys
      BY <2>9, <2>10, <3>1, <3>3
    <3>8. m.counter \in Nat /\ m.previous_counter \in Nat BY <1>10, <2>10, <3>2
    <3>9. m.seed \in Root /\ Len(m.seed) > 1 /\ Below(m.seed, keys)
      <4>1. s.root \in Root /\ Len(s.root) > 1 /\ Below(s.root, keys) BY <2>9, <3>1, <3>4
      <4>2. m.seed = s.root BY <2>10
      <4>. QED BY ONLY <4>1, <4>2, Zenon
    <3>. QED BY <3>5, <3>6, <3>7, <3>8, <3>9 DEF MessageInv
  <2>12. /\ \A W \in Views(Peer(p)) : \A j \in 1..Len(W) : m.seed # W[j].root
         /\ \A x \in sent : x.seed = m.seed => x.counter # m.counter
    BY <1>2, <1>4, <1>5, <1>6, <1>9, <2>10, SpeaksNew
  <2>13. U[1] = M[1] /\ M[1].base_key = s.base_key /\ 1 \in 1..Len(U)
    BY <1>10, <1>12, <2>1 DEF SentOn
  <2>14. ASSUME NEW j \in 1..Len(U), m.seed = U[j].root
         PROVE  m.counter <= U[j].chains[U[j].ephemeral].counter
    <3>1. j = 1
      <4>1. SessionInv(U[j], keys) /\ SessionInv(U[1], keys) BY <1>12, <2>1, <2>13 DEF RecordInv
      <4>2. U[1].root = s.root BY <1>10, <2>13 DEF SentOn
      <4>3. U[j].root[1] = U[1].root[1] BY <2>10, <2>14, <4>2
      <4>4. /\ U[j].base_key \in Nat /\ U[j].base_key >= 3
            /\ U[1].base_key \in Nat /\ U[1].base_key >= 3
            /\ U[j].root[1] = {U[j].base_key, PreKeyOf(U[j].base_key)}
            /\ U[1].root[1] = {U[1].base_key, PreKeyOf(U[1].base_key)}
        BY <1>1, <4>1 DEF SessionInv
      <4>5. U[j].base_key = U[1].base_key BY <4>3, <4>4, OneBase
      <4>. QED BY <1>12, <2>1, <2>13, <4>5 DEF RecordInv
    <3>2. U[1].ephemeral = s.ephemeral /\ U[1].chains[s.ephemeral].counter = n
      BY <1>10, <2>13 DEF SentOn
    <3>3. n <= n BY <1>10
    <3>. QED BY <2>10, <3>1, <3>2, <3>3
  <2>15. Says(p, m)
    BY <1>9, <1>18, <2>5, <2>10, <2>11, <2>12, <2>14 DEF Says
  <2>16. \A W \in NextViews(p) : m.base_key \in Bases(W) BY <2>5, <2>10, <2>13 DEF Bases
  <2>17. Spoken(p, m)
    BY <1>2, <1>4, <1>5, <1>9, <2>10, <2>15, <2>16 DEF Spoken
  <2>. QED BY <1>9, <2>6, <2>7, <2>17
<1>. QED BY <1>9, <1>17, <1>18

-----------------------------------------------------------------------------
\* The handlers of the two message types.

\* What a decrypt that returned says of the sessions before and after it.
Reads(p, m) ==
  /\ read' = read (+) SetToBag({m}) /\ ~UsedIn(record[p], m.seed, m.counter)
  /\ \A U \in NextViews(p) : UsedIn(U, m.seed, m.counter)

\* The record and, if the decrypt returned, the key file after a handler.
HandlerActs(p, m, U) ==
  /\ record' = [record EXCEPT ![p] = U] /\ Grown(record[p], U, keys, keys', m.base_key)
  /\ keys' \in Nat /\ keys <= keys'
  /\ scenario' = scenario /\ started' = started /\ sent' = sent
  /\ pre_keys' \in [Parties -> SUBSET Key]
  /\ \/ disk' = disk /\ read' = read
     \/ /\ disk' = [disk EXCEPT ![p] = [record |-> record'[p], pre_keys |-> pre_keys'[p]]]
        /\ read' = read (+) SetToBag({m})
        /\ ~UsedIn(record[p], m.seed, m.counter) /\ UsedIn(U, m.seed, m.counter)

LEMMA Handling ==
  ASSUME RatchetInv, NEW p \in Parties, NEW m \in sent, NEW U, HandlerActs(p, m, U)
  PROVE  /\ Shapes' /\ Acts(p, m.base_key) /\ sent' = sent /\ started' = started
         /\ scenario' = scenario
         /\ read' = read \/ Reads(p, m)
<1>1. Shapes /\ Sound BY DEF RatchetInv
<1>2. /\ record' = [record EXCEPT ![p] = U] /\ Grown(record[p], U, keys, keys', m.base_key)
      /\ keys' \in Nat /\ keys <= keys'
      /\ scenario' = scenario /\ started' = started /\ sent' = sent
      /\ pre_keys' \in [Parties -> SUBSET Key]
  BY DEF HandlerActs
<1>3. RecordInv(U, keys') /\ Becomes(record[p], U, m.base_key) BY <1>2 DEF Grown, Becomes
<1>4. pre_keys'[p] \in SUBSET Key /\ keys' >= 2
  <2>1. keys \in Nat /\ keys >= 2 BY <1>1 DEF Shapes
  <2>. QED BY <1>2, <2>1
<1>5. /\ [record EXCEPT ![p] = U] \in [Parties -> Seq(SessionType)]
      /\ [disk EXCEPT ![p] = [record |-> U, pre_keys |-> pre_keys'[p]]] \in
           [Parties -> [record : Seq(SessionType), pre_keys : SUBSET Key]]
  <2>1. PICK K, top : K = pre_keys'[p] /\ top = keys' OBVIOUS
  <2>2. RecordInv(U, top) /\ K \in SUBSET Key BY <1>3, <1>4, <2>1
  <2>. QED BY <1>1, <2>1, <2>2, RecordsType
<1>6. record'[p] = U BY <1>1, <1>2 DEF Shapes
<1>7. CASE disk' = disk /\ read' = read
  <2>1. NextViews(p) \subseteq {U, disk[p].record} /\ NextViews(Peer(p)) = Views(Peer(p))
    BY <1>1, <1>2, <1>7, OneChanges
  <2>2. Acts(p, m.base_key) BY <1>1, <1>2, <1>3, <2>1, Acting
  <2>3. Shapes' BY <1>1, <1>2, <1>4, <1>5, <1>7 DEF Shapes
  <2>. QED BY <1>2, <1>7, <2>2, <2>3
<1>8. CASE /\ disk' = [disk EXCEPT ![p] = [record |-> record'[p], pre_keys |-> pre_keys'[p]]]
           /\ read' = read (+) SetToBag({m})
           /\ ~UsedIn(record[p], m.seed, m.counter) /\ UsedIn(U, m.seed, m.counter)
  <2>1. PICK K : K = pre_keys'[p] OBVIOUS
  <2>2. disk' = [disk EXCEPT ![p] = [record |-> U, pre_keys |-> K]] BY <1>6, <1>8, <2>1
  <2>3. NextViews(p) \subseteq {U, disk[p].record} /\ NextViews(Peer(p)) = Views(Peer(p))
    BY <1>1, <1>2, <2>2, OneChanges
  <2>4. NextViews(p) = {U} BY <1>1, <1>6, <2>2 DEF NextViews, Shapes
  <2>5. Acts(p, m.base_key) BY <1>1, <1>2, <1>3, <2>3, Acting
  <2>6. DOMAIN read' \subseteq sent' /\ read' \in [DOMAIN read' -> Nat \ {0}]
    <3>1. PICK B : B = read (+) SetToBag({m}) OBVIOUS
    <3>2. DOMAIN B = DOMAIN read \cup {m} /\ B \in [DOMAIN B -> Nat \ {0}]
      BY <1>1, <3>1, OneMore DEF Adds
    <3>3. read' = B BY <1>8, <3>1
    <3>. QED BY <1>1, <1>2, <3>2, <3>3 DEF Shapes
  <2>7. Shapes' BY <1>1, <1>2, <1>4, <1>5, <2>1, <2>2, <2>6 DEF Shapes
  <2>8. Reads(p, m) BY <1>8, <2>4 DEF Reads
  <2>. QED BY <1>2, <2>5, <2>7, <2>8
<1>. QED BY <1>7, <1>8 DEF HandlerActs

\* The session a pre-key message is for: the one of its base key, made now or before.
LEMMA IncomingIsSound ==
  ASSUME RatchetInv, NEW p \in Parties, NEW m \in sent, m.prekey
  PROVE  /\ Grown(record[p], Incoming(p, m), keys, keys, m.base_key)
         /\ PreKeyTarget(p, m) \in 1..Len(Incoming(p, m))
<1>1. Shapes /\ Sound /\ keys \in Nat BY DEF RatchetInv, Shapes
<1>2. PICK V, W : V = record[p] /\ W = Incoming(p, m) OBVIOUS
<1>3. RecordInv(V, keys) BY <1>1, <1>2 DEF Sound, Views
<1>4. Based(m, keys) /\ m.pre_key = PreKeyOf(m.base_key) BY <1>1 DEF Sound, MessageInv
<1>5. Grown(V, W, keys, keys, m.base_key) /\ OfBaseKey(W, m.base_key) # {}
  <2>1. CASE Known(p, m)
    <3>1. W = V BY <1>2, <2>1 DEF Incoming
    <3>2. Grown(V, V, keys, keys, m.base_key) BY <1>1, <1>3, SameRecord
    <3>. QED BY <1>2, <2>1, <3>1, <3>2 DEF Known
  <2>2. CASE ~Known(p, m)
    <3>1. PICK s : s = Responded(m.base_key, PreKeyOf(m.base_key), SignedPreKey[p]) OBVIOUS
    <3>2. W = SetSession(V, s) BY <1>2, <1>4, <2>2, <3>1 DEF Incoming
    <3>3. SignedPreKey[p] \in 1..2 BY DoubleRatchetAssumption
    <3>4. m.base_key \in 3..keys BY <1>4 DEF Based
    <3>5. /\ SessionInv(s, keys) /\ Novel(s, keys) /\ s.base_key = m.base_key
          /\ s.closed = FALSE /\ s.pending = FALSE
      <4>1. Responds(s, m.base_key, SignedPreKey[p], keys)
        BY <1>1, <3>1, <3>3, <3>4 DEF Responds
      <4>. QED BY ONLY <4>1, RespondedIsSound
    <3>6. s.base_key \notin Bases(V)
      BY <1>2, <2>2, <3>5 DEF Known, OfBaseKey, Bases
    <3>7. Opens(V, s, keys, keys) BY <1>1, <1>3, <3>5, <3>6 DEF Opens
    <3>8. Grown(V, W, keys, keys, s.base_key) /\ W[1] = s /\ Len(W) = Len(V) + 1 /\ Len(V) \in Nat
      BY ONLY <3>2, <3>7, SettingGrows
    <3>9. 1 \in OfBaseKey(W, m.base_key) BY <3>5, <3>8 DEF OfBaseKey
    <3>. QED BY <3>5, <3>8, <3>9
  <2>. QED BY <2>1, <2>2
<1>6. PICK S : S = OfBaseKey(W, m.base_key) OBVIOUS
<1>7. PICK i \in S : TRUE BY <1>5, <1>6
<1>8. S \subseteq 1..Len(W) /\ \A k \in S : k = i
  <2>1. RecordInv(W, keys) BY <1>5 DEF Grown
  <2>. QED BY <1>6, <1>7, <2>1 DEF OfBaseKey, RecordInv
<1>9. (CHOOSE j \in S : \A k \in S : j <= k) = i
  <2>1. i <= i BY <1>7, <1>8
  <2>2. \A k \in S : i <= k BY <1>8, <2>1
  <2>. QED BY <1>7, <1>8, <2>2
<1>10. PreKeyTarget(p, m) = i BY <1>2, <1>6, <1>9 DEF PreKeyTarget
<1>. QED BY <1>2, <1>5, <1>7, <1>8, <1>10

LEMMA PreKeyMessageActs ==
  ASSUME RatchetInv, NEW p \in Parties, NEW m \in sent, DecryptPreKeyMessage(p, m)
  PROVE  \E U : HandlerActs(p, m, U)
<1>1. Shapes /\ Sound /\ keys \in Nat BY DEF RatchetInv, Shapes
<1>2. PICK V, W, j, k : /\ V = record[p] /\ W = Incoming(p, m) /\ j = PreKeyTarget(p, m)
                        /\ k = keys + 1
  OBVIOUS
<1>3. PICK U : U = [W EXCEPT ![j] = Tried(W[j], m, k)] OBVIOUS
<1>4. /\ m.prekey
      /\ keys' = IF Steps(W[j], m) THEN k ELSE keys
      /\ record' = [record EXCEPT ![p] = U]
      /\ scenario' = scenario /\ started' = started /\ sent' = sent
      /\ \/ /\ Decrypts(W[j], m, k)
            /\ pre_keys' = [pre_keys EXCEPT ![p] = IF Known(p, m) THEN @ ELSE @ \ {m.pre_key}]
            /\ read' = read (+) SetToBag({m})
            /\ disk' = [disk EXCEPT ![p] = [record |-> record'[p], pre_keys |-> pre_keys'[p]]]
         \/ pre_keys' = pre_keys /\ read' = read /\ disk' = disk
  BY <1>2, <1>3 DEF DecryptPreKeyMessage, PreKeyDecrypts, Save
<1>5. RecordInv(V, keys) BY <1>1, <1>2 DEF Sound, Views
<1>6. Grown(V, W, keys, keys, m.base_key) /\ j \in 1..Len(W) BY <1>2, <1>4, IncomingIsSound
<1>7. RecordInv(W, keys) /\ Len(W) \in Nat /\ W \in Seq(SessionType)
  BY <1>6 DEF Grown, RecordInv
<1>8. keys' \in Nat /\ keys <= keys' BY <1>1, <1>2, <1>4
<1>9. Based(m, keys) /\ m.ratchet_key \in 3..keys /\ {m.counter, m.previous_counter} \subseteq Nat
  BY <1>1 DEF Sound, MessageInv
<1>10. Due(W[j], m, k, keys, keys')
  <2>1. k \in Nat /\ keys < k /\ (Steps(W[j], m) => k <= keys') BY <1>1, <1>2, <1>4
  <2>2. SessionInv(W[j], keys) BY <1>6, <1>7 DEF RecordInv
  <2>. QED BY <1>1, <1>8, <1>9, <2>1, <2>2 DEF Due
<1>11. /\ DOMAIN U = 1..Len(W) /\ U = [i \in 1..Len(W) |-> U[i]]
       /\ U[j] = Tried(W[j], m, k) /\ \A i \in 1..Len(W) \ {j} : U[i] = W[i]
  <2>1. W \in [1..Len(W) -> SessionType] BY <1>7, LenProperties
  <2>2. DOMAIN W = 1..Len(W) /\ DOMAIN U = DOMAIN W BY <1>3, <2>1
  <2>3. U = [i \in 1..Len(W) |-> U[i]] BY <1>3, <2>2
  <2>. QED BY <1>3, <1>6, <2>2, <2>3
<1>12. ASSUME NEW i \in 1..Len(W) PROVE TriedOn(W[i], U[i], m, keys, keys')
  <2>1. SessionInv(W[i], keys) BY <1>7 DEF RecordInv
  <2>2. CASE i = j BY <1>1, <1>8, <1>9, <1>10, <1>11, <2>1, <2>2 DEF TriedOn
  <2>3. CASE i # j BY <1>1, <1>8, <1>9, <1>11, <2>1, <2>3 DEF TriedOn
  <2>. QED BY <2>2, <2>3
<1>13. Grown(W, U, keys, keys', m.base_key) /\ Len(U) = Len(W)
  <2>1. PICK top, new : top = keys /\ new = keys' OBVIOUS
  <2>2. \A i \in 1..Len(W) : TriedOn(W[i], U[i], m, top, new) BY <1>12, <2>1
  <2>3. top \in Nat /\ new \in Nat /\ top <= new /\ RecordInv(W, top)
    BY <1>1, <1>7, <1>8, <2>1
  <2>4. Grown(W, U, top, new, m.base_key) /\ Len(U) = Len(W)
    BY <1>11, <2>2, <2>3, TryingGrows
  <2>. QED BY <2>1, <2>4
<1>14. Grown(V, U, keys, keys', m.base_key)
  <2>1. PICK top, new, b : top = keys /\ new = keys' /\ b = m.base_key OBVIOUS
  <2>2. /\ top \in Nat /\ new \in Nat /\ RecordInv(V, top)
        /\ Grown(V, W, top, top, b) /\ Grown(W, U, top, new, b)
    BY <1>1, <1>5, <1>6, <1>8, <1>13, <2>1
  <2>3. Grown(V, U, top, new, b) BY ONLY <2>2, GrownOn
  <2>. QED BY <2>1, <2>3
<1>15. Decrypts(W[j], m, k) =>
         ~UsedIn(V, m.seed, m.counter) /\ UsedIn(U, m.seed, m.counter)
  <2>. SUFFICES ASSUME Decrypts(W[j], m, k)
                PROVE  ~UsedIn(V, m.seed, m.counter) /\ UsedIn(U, m.seed, m.counter)
    OBVIOUS
  <2>1. PICK top, new : top = keys /\ new = keys' OBVIOUS
  <2>2. /\ top \in Nat /\ new \in Nat /\ top <= new /\ RecordInv(W, top) /\ Based(m, top)
        /\ Due(W[j], m, k, top, new)
    BY <1>1, <1>7, <1>8, <1>9, <1>10, <2>1
  <2>3. /\ ~UsedIn(W, m.seed, m.counter)
        /\ \A X : j \in 1..Len(X) /\ X[j] = Tried(W[j], m, k) => UsedIn(X, m.seed, m.counter)
    BY <1>6, <2>2, ReadsNew
  <2>4. UsedIn(U, m.seed, m.counter) BY <1>6, <1>11, <1>13, <2>3
  <2>5. UsedIn(V, m.seed, m.counter) => UsedIn(W, m.seed, m.counter)
    BY <1>6, <1>9 DEF Grown, Keeps
  <2>. QED BY <2>3, <2>4, <2>5
<1>16. pre_keys' \in [Parties -> SUBSET Key]
  <2>1. pre_keys \in [Parties -> SUBSET Key] BY <1>1 DEF Shapes
  <2>2. pre_keys[p] \ {m.pre_key} \in SUBSET Key BY <2>1
  <2>. QED BY <1>4, <2>1, <2>2
<1>. QED BY <1>2, <1>4, <1>8, <1>14, <1>15, <1>16 DEF HandlerActs

LEMMA MessageActs ==
  ASSUME RatchetInv, NEW p \in Parties, NEW m \in sent, DecryptMessage(p, m)
  PROVE  \E U : HandlerActs(p, m, U)
<1>1. Shapes /\ Sound /\ keys \in Nat BY DEF RatchetInv, Shapes
<1>2. PICK V : V = record[p] OBVIOUS
<1>3. PICK U : U = [j \in 1..Len(V) |-> IF Tries(p, m, j) THEN Tried(V[j], m, keys + j)
                                       ELSE V[j]]
  OBVIOUS
<1>4. /\ record' = [record EXCEPT ![p] = U]
      /\ scenario' = scenario /\ pre_keys' = pre_keys /\ started' = started /\ sent' = sent
      /\ keys' = IF \E s \in {V[j] : j \in 1..Len(V)} : Steps(s, m)
                 THEN keys + Len(V) ELSE keys
      /\ \/ /\ \E j \in 1..Len(V) : Decrypts(V[j], m, keys + j)
            /\ read' = read (+) SetToBag({m})
            /\ disk' = [disk EXCEPT ![p] = [record |-> record'[p], pre_keys |-> pre_keys'[p]]]
         \/ read' = read /\ disk' = disk
  BY <1>2, <1>3 DEF DecryptMessage, MessageDecrypts, Save
<1>5. RecordInv(V, keys) /\ Len(V) \in Nat
  <2>1. RecordInv(V, keys) BY <1>1, <1>2 DEF Sound, Views
  <2>. QED BY <2>1 DEF RecordInv
<1>6. keys' \in Nat /\ keys <= keys' BY <1>1, <1>4, <1>5
<1>7. Based(m, keys) /\ m.ratchet_key \in 3..keys /\ {m.counter, m.previous_counter} \subseteq Nat
  BY <1>1 DEF Sound, MessageInv
<1>8. ASSUME NEW j \in 1..Len(V) PROVE Due(V[j], m, keys + j, keys, keys')
  <2>1. keys + j \in Nat /\ keys < keys + j /\ keys + j <= keys + Len(V) BY <1>1, <1>5
  <2>2. Steps(V[j], m) => keys' = keys + Len(V) BY <1>4
  <2>3. Steps(V[j], m) => keys + j <= keys' BY <2>1, <2>2
  <2>4. SessionInv(V[j], keys) BY <1>5 DEF RecordInv
  <2>. QED BY <1>1, <1>6, <1>7, <2>1, <2>3, <2>4 DEF Due
<1>9. /\ DOMAIN U = 1..Len(V) /\ U = [i \in 1..Len(V) |-> U[i]]
      /\ \A j \in 1..Len(V) : U[j] = IF Tries(p, m, j) THEN Tried(V[j], m, keys + j) ELSE V[j]
  BY <1>3
<1>10. ASSUME NEW j \in 1..Len(V) PROVE TriedOn(V[j], U[j], m, keys, keys')
  <2>1. SessionInv(V[j], keys) BY <1>5 DEF RecordInv
  <2>2. U[j] = V[j] \/ U[j] = Tried(V[j], m, keys + j) BY <1>9
  <2>. QED BY <1>1, <1>6, <1>7, <1>8, <2>1, <2>2 DEF TriedOn
<1>11. Grown(V, U, keys, keys', m.base_key) /\ Len(U) = Len(V)
  <2>1. PICK top, new : top = keys /\ new = keys' OBVIOUS
  <2>2. \A i \in 1..Len(V) : TriedOn(V[i], U[i], m, top, new) BY <1>10, <2>1
  <2>3. top \in Nat /\ new \in Nat /\ top <= new /\ RecordInv(V, top)
    BY <1>1, <1>5, <1>6, <2>1
  <2>4. Grown(V, U, top, new, m.base_key) /\ Len(U) = Len(V)
    BY <1>9, <2>2, <2>3, TryingGrows
  <2>. QED BY <2>1, <2>4
<1>12. ASSUME NEW i \in 1..Len(V), Decrypts(V[i], m, keys + i)
       PROVE  ~UsedIn(V, m.seed, m.counter) /\ UsedIn(U, m.seed, m.counter)
  <2>1. PICK top, new : top = keys /\ new = keys' OBVIOUS
  <2>2. /\ top \in Nat /\ new \in Nat /\ top <= new /\ RecordInv(V, top) /\ Based(m, top)
        /\ \A j \in 1..Len(V) : Due(V[j], m, top + j, top, new)
    BY <1>1, <1>5, <1>6, <1>7, <1>8, <2>1
  <2>3. ASSUME NEW j \in 1..Len(V), Decrypts(V[j], m, keys + j)
        PROVE  /\ ~UsedIn(V, m.seed, m.counter)
               /\ \A X : j \in 1..Len(X) /\ X[j] = Tried(V[j], m, keys + j) =>
                    UsedIn(X, m.seed, m.counter)
    <3>1. PICK k : k = keys + j OBVIOUS
    <3>2. Due(V[j], m, k, top, new) /\ Decrypts(V[j], m, k) BY <2>1, <2>2, <2>3, <3>1
    <3>3. /\ ~UsedIn(V, m.seed, m.counter)
          /\ \A X : j \in 1..Len(X) /\ X[j] = Tried(V[j], m, k) => UsedIn(X, m.seed, m.counter)
      BY <2>2, <3>2, ReadsNew
    <3>. QED BY <3>1, <3>3
  <2>4. ASSUME NEW j \in 1..Len(V), Decrypts(V[j], m, keys + j) PROVE j = i
    <3>1. Due(V[i], m, keys + i, keys, keys') /\ Due(V[j], m, keys + j, keys, keys') BY <1>8
    <3>2. V[i].base_key = m.base_key /\ V[j].base_key = m.base_key
      BY <1>7, <1>12, <2>4, <3>1, DecryptsBase
    <3>. QED BY <1>5, <3>2 DEF RecordInv
  <2>5. Tries(p, m, i)
    <3>. SUFFICES ASSUME NEW h \in 1..(i - 1), Decrypts(V[h], m, keys + h) PROVE FALSE
      BY <1>2 DEF Tries
    <3>1. h \in 1..Len(V) /\ h # i BY <1>5
    <3>. QED BY <2>4, <3>1
  <2>6. U[i] = Tried(V[i], m, keys + i) BY <1>9, <2>5
  <2>. QED BY <1>11, <1>12, <2>3, <2>6
<1>13. pre_keys' \in [Parties -> SUBSET Key] BY <1>1, <1>4 DEF Shapes
<1>. QED BY <1>2, <1>4, <1>6, <1>11, <1>12, <1>13 DEF HandlerActs

-----------------------------------------------------------------------------
\* The invariant holds, and what it says of types, open sessions and message keys.

LEMMA InitRatchet == Init => RatchetInv
<1>. SUFFICES ASSUME Init PROVE RatchetInv
  OBVIOUS
<1>1. /\ scenario \in Scenarios /\ keys = 2 /\ sent = {} /\ read = EmptyBag
      /\ record = [p \in Parties |-> <<>>] /\ pre_keys = [p \in Parties |-> {}]
      /\ disk = [p \in Parties |-> [record |-> <<>>, pre_keys |-> {}]]
      /\ started = [p \in Parties |-> 0]
  BY DoubleRatchetAssumption DEF Init
<1>2. Shapes
  <2>1. DOMAIN read = {} /\ read \in [DOMAIN read -> Nat \ {0}]
    BY <1>1 DEF EmptyBag, SetToBag
  <2>2. IsFiniteSet(sent) BY <1>1, FS_EmptySet
  <2>3. <<>> \in Seq(SessionType) /\ {} \in SUBSET Key OBVIOUS
  <2>4. 0 \in 0..MaxSessions BY DoubleRatchetAssumption
  <2>5. [record |-> <<>>, pre_keys |-> {}] \in [record : Seq(SessionType), pre_keys : SUBSET Key]
    BY <2>3
  <2>6. disk \in [Parties -> [record : Seq(SessionType), pre_keys : SUBSET Key]] BY <1>1, <2>5
  <2>. QED BY <1>1, <2>1, <2>2, <2>3, <2>4, <2>6 DEF Shapes
<1>3. \A p \in Parties : \A V \in Views(p) : V = <<>> BY <1>1 DEF Views
<1>4. RecordInv(<<>>, keys) BY DEF RecordInv
<1>5. Sound BY <1>1, <1>3, <1>4 DEF Sound
<1>6. 1..Len(<<>>) = {} OBVIOUS
<1>7. Apart BY <1>3, <1>6, TwoParties DEF Apart
<1>8. Past BY <1>3, <1>6 DEF Past
<1>9. NoKeyReuse BY <1>1 DEF NoKeyReuse
<1>. QED BY <1>2, <1>5, <1>7, <1>8, <1>9 DEF RatchetInv

LEMMA StarterIsParty == ASSUME Shapes, NEW p \in scenario.initiators PROVE p \in Parties
BY DoubleRatchetAssumption DEF Shapes, Scenario

LEMMA NextRatchet == RatchetInv /\ [Next]_vars => RatchetInv'
<1>. SUFFICES ASSUME RatchetInv, [Next]_vars PROVE RatchetInv'
  OBVIOUS
<1>1. ASSUME NEW p \in scenario.initiators, InitOutgoing(p) PROVE RatchetInv'
  <2>1. p \in Parties BY StarterIsParty DEF RatchetInv
  <2>. QED BY <1>1, <2>1, InitOutgoingActs, ActsKeep
<1>2. ASSUME NEW p \in Parties, Encrypt(p) PROVE RatchetInv'
  <2>1. /\ Shapes' /\ Acts(p, 0)
        /\ sent' = sent \/ \E m : Spoken(p, m)
    BY <1>2, EncryptActs
  <2>2. sent' = sent \/ \E m : Says(p, m) BY <2>1 DEF Spoken
  <2>. QED BY <2>1, <2>2, ActsKeep
<1>3. ASSUME NEW p \in Parties, NEW m \in sent, DecryptPreKeyMessage(p, m) PROVE RatchetInv'
  <2>1. PICK U : HandlerActs(p, m, U) BY <1>3, PreKeyMessageActs
  <2>2. Shapes' /\ Acts(p, m.base_key) /\ sent' = sent BY <2>1, Handling
  <2>. QED BY <2>2, ActsKeep
<1>4. ASSUME NEW p \in Parties, NEW m \in sent, DecryptMessage(p, m) PROVE RatchetInv'
  <2>1. PICK U : HandlerActs(p, m, U) BY <1>4, MessageActs
  <2>2. Shapes' /\ Acts(p, m.base_key) /\ sent' = sent BY <2>1, Handling
  <2>. QED BY <2>2, ActsKeep
<1>5. ASSUME NEW p \in Parties, Restart(p) PROVE RatchetInv'
  <2>1. Shapes' /\ Acts(p, 0) /\ sent' = sent BY <1>5, RestartActs
  <2>. QED BY <2>1, ActsKeep
<1>6. CASE UNCHANGED vars
  BY <1>6 DEF vars, RatchetInv, Shapes, Sound, Apart, Past, NoKeyReuse, Views
<1>. QED BY <1>1, <1>2, <1>3, <1>4, <1>5, <1>6 DEF Next

\* The inductive invariant: whatever the network and the restarts do, every view of a party
\* is a sound record, the two parties send on different chains, and no view is behind what
\* was sent.
THEOREM RatchetInvariant == Spec => []RatchetInv
<1>. QED BY InitRatchet, NextRatchet, PTL DEF Spec

\* Types: sessions, key pairs and messages as IsSession and Message describe them; one
\* sending chain a session, under its own ephemeral, with no message key left in it
\* (double_ratchet.py).
THEOREM RatchetTyped == Spec => []TypeOK
<1>1. ASSUME RatchetInv PROVE TypeOK
  <2>1. Shapes /\ Sound BY <1>1 DEF RatchetInv
  <2>2. ASSUME NEW p \in Parties, NEW s \in Sessions(p) PROVE IsSession(s)
    <3>1. PICK j \in 1..Len(record[p]) : s = record[p][j] BY DEF Sessions
    <3>2. record[p] \in Views(p) BY DEF Views
    <3>3. SessionInv(s, keys) BY <2>1, <3>1, <3>2 DEF Sound, RecordInv
    <3>4. /\ s.root \in Root /\ s.ephemeral \in Key /\ s.last_remote \in Key
          /\ s.previous_counter \in Nat \cup {-1} /\ s.base_key \in Key /\ s.pre_key \in Key
          /\ s.closed \in BOOLEAN /\ s.pending \in BOOLEAN /\ s.chains \in Chains
      BY <3>3, Parted
    <3>5. DOMAIN s.chains \subseteq Key /\ \A k \in DOMAIN s.chains : s.chains[k] \in Chain
      BY <3>4, ChainsAre
    <3>6. ASSUME NEW k \in DOMAIN s.chains, NEW c, c = s.chains[k]
          PROVE  /\ c \in Chain /\ c.message_keys \subseteq 0..c.counter
                 /\ c.sending => c.open /\ c.message_keys = {} /\ k = s.ephemeral
      <4>1. ChainInv(s.root, c, k = s.ephemeral) BY <3>3, <3>6 DEF SessionInv
      <4>2. c \in Chain BY <3>5, <3>6
      <4>3. /\ c.message_keys \subseteq 0..c.counter /\ c.sending = (k = s.ephemeral)
            /\ k = s.ephemeral => c.open /\ c.message_keys = {}
        BY <4>1 DEF ChainInv
      <4>. QED BY <4>2, <4>3
    <3>. QED BY <3>4, <3>5, <3>6 DEF IsSession
  <2>3. ASSUME NEW m \in sent PROVE Message(m)
    <3>1. MessageInv(m, keys) BY <2>1 DEF Sound
    <3>2. keys \in Nat BY <2>1 DEF Shapes
    <3>3. m.base_key \in Nat /\ m.ratchet_key \in Nat BY <3>1, <3>2 DEF MessageInv, Based
    <3>. QED BY <3>1, <3>3 DEF Message, MessageInv, Key
  <2>4. BagToSet(read) \subseteq sent BY <2>1 DEF Shapes, BagToSet
  <2>. QED BY <2>1, <2>2, <2>3, <2>4 DEF TypeOK, Shapes
<1>. QED BY <1>1, RatchetInvariant, PTL

\* At most one session of a record is open, it is the newest, and remove_old_sessions keeps
\* it (get_open_session, set_session and close_session, double_ratchet.py:99-114).
THEOREM OneOpenSessionHolds == Spec => []OneOpenSession
<1>1. ASSUME RatchetInv PROVE OneOpenSession
  <2>1. \A p \in Parties : RecordInv(record[p], keys) BY <1>1 DEF RatchetInv, Sound, Views
  <2>. QED BY <2>1, OpenIsFirst DEF OneOpenSession
<1>. QED BY <1>1, RatchetInvariant, PTL

\* No message key encrypts two messages, for all that the process may die between storing
\* the moved chain and sending (SessionCipher.encrypt), and for both parties together.
THEOREM NoKeyReuseHolds == Spec => []NoKeyReuse
<1>1. RatchetInv => NoKeyReuse BY DEF RatchetInv
<1>. QED BY <1>1, RatchetInvariant, PTL

-----------------------------------------------------------------------------
\* While no session is pruned.  A party starts MaxSessions sessions at most, so each has
\* twice as many at most, and ArchivedLimit + 1 are kept.
NoPruning == 2 * MaxSessions <= ArchivedLimit + 1

\* A message's sender has its session, and so has the reader of an unwrapped message; the
\* peer has the session of a party that wraps no more.
Met ==
  /\ \A m \in sent : \A V \in Views(m.from) : m.base_key \in Bases(V)
  /\ \A m \in sent : m.prekey = FALSE => \A V \in Views(Peer(m.from)) : m.base_key \in Bases(V)
  /\ \A p \in Parties : \A V \in Views(p), W \in Views(Peer(p)) : \A i \in 1..Len(V) :
       V[i].pending = FALSE => V[i].base_key \in Bases(W)

\* There are no more base keys than sessions started.
Holds(B) == /\ B \subseteq Nat /\ IsFiniteSet(B)
            /\ \A p \in Parties : \A V \in Views(p) : Bases(V) \subseteq B
Counted == \E B : Holds(B) /\ \A p \in Parties : Cardinality(B) <= started[p] + started[Peer(p)]

\* The reader will not read again what it read, also after a restart.
Remembered ==
  \A m \in DOMAIN read : /\ read[m] = 1
                         /\ \A V \in Views(Peer(m.from)) : UsedIn(V, m.seed, m.counter)

\* The bodies number the messages.
Numbered == /\ \A m \in sent : m.body < Cardinality(sent) /\ m.body < MaxSends
            /\ \A m1, m2 \in sent : m1.body = m2.body => m1 = m2

KeptInv == RatchetInv /\ Met /\ Counted /\ Remembered /\ Numbered

\* One step of p; b is the base key of the session it is about, or 0.
Vouched(p, b) ==
  \/ \A U \in NextViews(p) : \A j \in 1..Len(U) : U[j].base_key = b => U[j].pending = TRUE
  \/ \A W \in Views(Peer(p)) : b \in Bases(W)
Traffic(p) ==
  \/ read' = read /\ (sent' = sent \/ \E m : Spoken(p, m))
  \/ sent' = sent /\ \E m \in sent : m.from # p /\ Reads(p, m)
Turn(p, b) ==
  /\ Acts(p, b) /\ Vouched(p, b) /\ Traffic(p) /\ scenario' = scenario
  /\ \/ started' = started /\ (b = 0 \/ \E V \in Views(Peer(p)) : b \in Bases(V))
     \/ started' = [started EXCEPT ![p] = @ + 1] /\ b \in Nat

LEMMA UpTo == \A n \in Nat : Cardinality(1..n) = n
<1>. SUFFICES ASSUME NEW n \in Nat PROVE Cardinality(1..n) = n
  OBVIOUS
<1>1. 1 \in Int /\ n \in Int OBVIOUS
<1>2. Cardinality(1..n) = IF 1 > n THEN 0 ELSE n - 1 + 1 BY ONLY <1>1, FS_Interval
<1>3. (IF 1 > n THEN 0 ELSE n - 1 + 1) = n OBVIOUS
<1>. QED BY ONLY <1>2, <1>3

LEMMA CountedWhole == ASSUME NoPruning, RatchetInv, Counted PROVE Whole
<1>. SUFFICES ASSUME NEW p \in Parties PROVE Len(record[p]) <= ArchivedLimit + 1
  BY DEF Whole
<1>1. PICK B : Holds(B) /\ Cardinality(B) <= started[p] + started[Peer(p)]
  BY DEF Counted
<1>2. PICK V : V = record[p] OBVIOUS
<1>3. RecordInv(V, keys) /\ Bases(V) \subseteq B /\ IsFiniteSet(B)
  BY <1>1, <1>2 DEF RatchetInv, Sound, Views, Holds
<1>4. Len(V) \in Nat BY <1>3 DEF RecordInv
<1>5. PICK f : f = [j \in 1..Len(V) |-> V[j].base_key] OBVIOUS
<1>6. f \in [1..Len(V) -> B] BY <1>3, <1>5 DEF Bases
<1>7. \A i, j \in 1..Len(V) : f[i] = f[j] => i = j BY <1>3, <1>5 DEF RecordInv
<1>8. Cardinality(1..Len(V)) <= Cardinality(B)
  <2>1. f \in Injection(1..Len(V), B) BY <1>6, <1>7 DEF Injection, IsInjective
  <2>. QED BY <1>3, <2>1, FS_Injection
<1>9. Cardinality(1..Len(V)) = Len(V) BY <1>4, UpTo
<1>10. Cardinality(B) \in Nat BY <1>3, FS_CardinalityType
<1>11. /\ started[p] \in 0..MaxSessions /\ started[Peer(p)] \in 0..MaxSessions
       /\ MaxSessions \in Nat /\ ArchivedLimit \in Nat
  BY TwoParties, DoubleRatchetAssumption DEF RatchetInv, Shapes
<1>12. started[p] + started[Peer(p)] <= 2 * MaxSessions BY <1>11
<1>. QED BY <1>1, <1>2, <1>4, <1>8, <1>9, <1>10, <1>11, <1>12 DEF NoPruning

\* Where a new view comes from.
LEMMA Ancestor ==
  ASSUME Whole, NEW p, NEW b, Acts(p, b), NEW U \in NextViews(p)
  PROVE  \E V \in Views(p) : RecordInv(U, keys') /\ Keeps(V, U, b)
BY DEF Acts, Becomes

LEMMA MetNext ==
  ASSUME RatchetInv, Met, Whole, NEW p, NEW b, Acts(p, b), Vouched(p, b),
         sent' = sent \/ \E m : Spoken(p, m)
  PROVE  Met'
<1>1. /\ p \in Parties /\ Peer(p) \in Parties /\ Peer(Peer(p)) = p
      /\ NextViews(Peer(p)) \subseteq Views(Peer(p))
  BY TwoParties DEF Acts
<1>2. \A q \in Parties : q = p \/ q = Peer(p) BY <1>1, TwoParties
<1>3. ASSUME NEW q \in Parties, NEW U \in NextViews(q)
      PROVE  \E V \in Views(q) : Bases(V) \subseteq Bases(U)
  <2>1. CASE q = p BY <1>3, <2>1, Ancestor DEF Keeps
  <2>2. CASE q = Peer(p) BY <1>1, <1>3, <2>2
  <2>. QED BY <1>2, <2>1, <2>2
<1>4. \A m \in sent : m.from \in Parties /\ Peer(m.from) \in Parties
  BY TwoParties DEF RatchetInv, Sound, MessageInv
<1>5. ASSUME NEW m \in sent', NEW U \in NextViews(m.from) PROVE m.base_key \in Bases(U)
  <2>1. CASE m \in sent
    <3>1. PICK V \in Views(m.from) : Bases(V) \subseteq Bases(U) BY <1>3, <1>4, <1>5, <2>1
    <3>. QED BY <2>1, <3>1 DEF Met
  <2>2. CASE m \notin sent
    <3>1. Spoken(p, m) BY <2>2 DEF Spoken, Says
    <3>. QED BY <1>5, <3>1 DEF Spoken, Says
  <2>. QED BY <2>1, <2>2
<1>6. ASSUME NEW m \in sent', m.prekey = FALSE, NEW U \in NextViews(Peer(m.from))
      PROVE  m.base_key \in Bases(U)
  <2>1. CASE m \in sent
    <3>1. PICK V \in Views(Peer(m.from)) : Bases(V) \subseteq Bases(U)
      BY <1>3, <1>4, <1>6, <2>1
    <3>. QED BY <1>6, <2>1, <3>1 DEF Met
  <2>2. CASE m \notin sent
    <3>1. Spoken(p, m) BY <2>2 DEF Spoken, Says
    <3>2. /\ m.from = p /\ record[p] # <<>> /\ m.base_key = record[p][1].base_key
          /\ record[p][1].pending = FALSE
      BY <1>6, <3>1 DEF Spoken, Says
    <3>3. record[p] \in Views(p) /\ U \in Views(Peer(p)) BY <1>1, <1>6, <3>2 DEF Views
    <3>4. 1 \in 1..Len(record[p])
      <4>1. record[p] \in Seq(SessionType) BY <1>1, <3>3 DEF RatchetInv, Sound, RecordInv
      <4>. QED BY <3>2, <4>1
    <3>. QED BY <1>1, <3>2, <3>3, <3>4 DEF Met
  <2>. QED BY <2>1, <2>2
<1>7. ASSUME NEW q \in Parties, NEW U \in NextViews(q), NEW W \in NextViews(Peer(q)),
             NEW i \in 1..Len(U), U[i].pending = FALSE
      PROVE  U[i].base_key \in Bases(W)
  <2>1. CASE q = p
    <3>1. W \in Views(Peer(p)) BY <1>1, <1>7, <2>1
    <3>2. PICK V \in Views(p) : RecordInv(U, keys') /\ Keeps(V, U, b)
      BY <1>7, <2>1, Ancestor
    <3>3. CASE U[i].base_key = b BY <1>7, <2>1, <3>1, <3>3 DEF Vouched
    <3>4. CASE U[i].base_key # b
      <4>1. PICK h \in 1..Len(V) : V[h].base_key = U[i].base_key /\ V[h].pending = FALSE
        BY <1>7, <3>2, <3>4 DEF Keeps
      <4>2. V[h].base_key \in Bases(W) BY <1>1, <3>1, <4>1 DEF Met
      <4>. QED BY <4>1, <4>2
    <3>. QED BY <3>3, <3>4
  <2>2. CASE q = Peer(p)
    <3>1. U \in Views(Peer(p)) /\ W \in NextViews(p) BY <1>1, <1>7, <2>2
    <3>2. PICK V \in Views(p) : Bases(V) \subseteq Bases(W) BY <1>1, <1>3, <3>1
    <3>3. U[i].base_key \in Bases(V) BY <1>1, <1>7, <3>1 DEF Met
    <3>. QED BY <3>2, <3>3
  <2>. QED BY <1>2, <2>1, <2>2
<1>8. \A q : Views(q)' = NextViews(q) BY DEF Views, NextViews
<1>9. \A m \in sent' : \A V \in Views(m.from)' : m.base_key \in Bases(V) BY <1>5, <1>8
<1>10. \A m \in sent' : m.prekey = FALSE =>
         \A V \in Views(Peer(m.from))' : m.base_key \in Bases(V)
  BY <1>6, <1>8
<1>11. \A q \in Parties : \A V \in Views(q)', W \in Views(Peer(q))' : \A i \in 1..Len(V) :
         V[i].pending = FALSE => V[i].base_key \in Bases(W)
  BY <1>7, <1>8
<1>. QED BY <1>9, <1>10, <1>11 DEF Met

LEMMA CountedNext ==
  ASSUME RatchetInv, RatchetInv', Counted, Whole, NEW p, NEW b, Turn(p, b)
  PROVE  Counted'
<1>1. /\ p \in Parties /\ Peer(p) \in Parties /\ Peer(p) # p /\ Peer(Peer(p)) = p
      /\ NextViews(Peer(p)) \subseteq Views(Peer(p)) /\ Acts(p, b)
  BY TwoParties DEF Acts, Turn
<1>2. \A q \in Parties : q = p \/ q = Peer(p) BY <1>1, TwoParties
<1>3. PICK B : Holds(B) /\ \A q \in Parties : Cardinality(B) <= started[q] + started[Peer(q)]
  BY DEF Counted
<1>4. ASSUME NEW U \in NextViews(p)
      PROVE  Bases(U) \subseteq (B \cup {b}) \ {0}
  <2>1. PICK V \in Views(p) : RecordInv(U, keys') /\ Keeps(V, U, b)
    BY <1>1, <1>4, Ancestor
  <2>2. Bases(U) \subseteq B \cup {b} BY <1>1, <1>3, <2>1 DEF Holds, Keeps
  <2>3. \A j \in 1..Len(U) : U[j].base_key # 0 BY <2>1 DEF RecordInv, SessionInv
  <2>. QED BY <2>2, <2>3 DEF Bases
<1>5. ASSUME NEW C, C \subseteq Nat, IsFiniteSet(C), B \subseteq C, b = 0 \/ b \in C
      PROVE  Holds(C)'
  <2>1. \A U \in NextViews(p) : Bases(U) \subseteq C BY <1>4, <1>5
  <2>2. \A U \in NextViews(Peer(p)) : Bases(U) \subseteq C BY <1>1, <1>3, <1>5 DEF Holds
  <2>3. \A q \in Parties : \A U \in Views(q)' : Bases(U) \subseteq C
    <3>1. \A q : Views(q)' = NextViews(q) BY DEF Views, NextViews
    <3>. QED BY <1>2, <2>1, <2>2, <3>1
  <2>. QED BY <1>5, <2>3 DEF Holds
<1>6. CASE started' = started /\ (b = 0 \/ \E V \in Views(Peer(p)) : b \in Bases(V))
  <2>1. b = 0 \/ b \in B BY <1>1, <1>3, <1>6 DEF Holds
  <2>2. Holds(B)' BY <1>3, <1>5, <2>1 DEF Holds
  <2>. QED BY <1>3, <1>6, <2>2 DEF Counted
<1>7. CASE started' = [started EXCEPT ![p] = @ + 1] /\ b \in Nat
  <2>1. PICK C : C = B \cup {b} OBVIOUS
  <2>2. /\ IsFiniteSet(C) /\ Cardinality(C) <= Cardinality(B) + 1 /\ Cardinality(C) \in Nat
        /\ Cardinality(B) \in Nat
    <3>1. IsFiniteSet(B) BY <1>3 DEF Holds
    <3>2. IsFiniteSet(C) /\ (Cardinality(C) = Cardinality(B) \/ Cardinality(C) = Cardinality(B) + 1)
      BY <2>1, <3>1, FS_AddElement
    <3>3. Cardinality(C) \in Nat /\ Cardinality(B) \in Nat BY <3>1, <3>2, FS_CardinalityType
    <3>. QED BY <3>2, <3>3
  <2>3. Holds(C)'
    <3>1. C \subseteq Nat /\ B \subseteq C /\ b \in C BY <1>3, <1>7, <2>1 DEF Holds
    <3>. QED BY <1>5, <2>2, <3>1
  <2>4. started[p] \in Nat /\ started[Peer(p)] \in Nat
    BY <1>1, DoubleRatchetAssumption DEF RatchetInv, Shapes
  <2>5. started'[p] = started[p] + 1 /\ started'[Peer(p)] = started[Peer(p)]
    BY <1>1, <1>7 DEF RatchetInv, Shapes
  <2>6. ASSUME NEW q \in Parties PROVE Cardinality(C) <= started'[q] + started'[Peer(q)]
    <3>1. Cardinality(B) <= started[p] + started[Peer(p)] BY <1>1, <1>3
    <3>2. started'[q] + started'[Peer(q)] = started[p] + 1 + started[Peer(p)]
      BY <1>1, <1>2, <2>4, <2>5
    <3>. QED BY <2>2, <2>4, <3>1, <3>2
  <2>. QED BY <2>3, <2>6 DEF Counted
<1>. QED BY <1>6, <1>7 DEF Turn

LEMMA RememberedNext ==
  ASSUME RatchetInv, Remembered, Whole, NEW p, NEW b, Turn(p, b)
  PROVE  Remembered'
<1>1. /\ p \in Parties /\ Peer(p) \in Parties /\ Peer(Peer(p)) = p
      /\ NextViews(Peer(p)) \subseteq Views(Peer(p)) /\ Acts(p, b)
  BY TwoParties DEF Acts, Turn
<1>2. \A q \in Parties : q = p \/ q = Peer(p) BY <1>1, TwoParties
<1>3. Shapes /\ Sound BY DEF RatchetInv
<1>4. ASSUME NEW m \in DOMAIN read, NEW U \in NextViews(Peer(m.from))
      PROVE  UsedIn(U, m.seed, m.counter)
  <2>1. Peer(m.from) \in Parties /\ m.counter \in Nat
    BY <1>3, TwoParties DEF Shapes, Sound, MessageInv
  <2>2. CASE Peer(m.from) = p
    <3>1. PICK V \in Views(p) : Keeps(V, U, b) BY <1>1, <1>4, <2>2, Ancestor
    <3>2. UsedIn(V, m.seed, m.counter) BY <2>2, <3>1 DEF Remembered
    <3>. QED BY <2>1, <3>1, <3>2 DEF Keeps
  <2>3. CASE Peer(m.from) = Peer(p) BY <1>1, <1>4, <2>3 DEF Remembered
  <2>. QED BY <1>2, <2>1, <2>2, <2>3
<1>5. \A q : Views(q)' = NextViews(q) BY DEF Views, NextViews
<1>6. CASE read' = read
  <2>1. \A m \in DOMAIN read' : read'[m] = 1 BY <1>6 DEF Remembered
  <2>2. \A m \in DOMAIN read' : \A U \in Views(Peer(m.from))' : UsedIn(U, m.seed, m.counter)
    BY <1>4, <1>5, <1>6
  <2>. QED BY <2>1, <2>2 DEF Remembered
<1>7. ASSUME NEW n \in sent, n.from # p, Reads(p, n) PROVE Remembered'
  <2>1. PICK B : B = read (+) SetToBag({n}) OBVIOUS
  <2>2. read' = B BY <1>7, <2>1 DEF Reads
  <2>3. Peer(n.from) = p BY <1>1, <1>2, <1>3, <1>7, TwoParties DEF Sound, MessageInv
  <2>4. n \notin DOMAIN read
    <3>1. record[p] \in Views(Peer(n.from)) BY <2>3 DEF Views
    <3>. QED BY <1>7, <3>1 DEF Reads, Remembered
  <2>5. /\ DOMAIN B = DOMAIN read \cup {n} /\ B[n] = 1
        /\ \A x \in DOMAIN read \ {n} : B[x] = read[x]
    <3>1. Adds(read, B, n) BY <1>3, <2>1, OneMore
    <3>. QED BY <2>4, <3>1 DEF Adds
  <2>6. \A m \in DOMAIN B : B[m] = 1 BY <2>5 DEF Remembered
  <2>7. \A U \in NextViews(Peer(n.from)) : UsedIn(U, n.seed, n.counter)
    BY <1>7, <2>3 DEF Reads
  <2>8. \A m \in DOMAIN B : \A U \in NextViews(Peer(m.from)) : UsedIn(U, m.seed, m.counter)
    BY <1>4, <2>5, <2>7
  <2>9. \A m \in DOMAIN read' : \A U \in Views(Peer(m.from))' : UsedIn(U, m.seed, m.counter)
    BY <1>5, <2>2, <2>8
  <2>. QED BY <2>2, <2>6, <2>9 DEF Remembered
<1>. QED BY <1>6, <1>7 DEF Turn, Traffic

LEMMA SendsBound == ASSUME Shapes PROVE scenario.sends \in 0..MaxSends /\ MaxSends \in Nat
BY DoubleRatchetAssumption DEF Shapes, Scenario

LEMMA NumberedNext ==
  ASSUME RatchetInv, Numbered, NEW p, Traffic(p)
  PROVE  Numbered'
<1>1. Shapes /\ IsFiniteSet(sent) /\ Cardinality(sent) \in Nat
  BY FS_CardinalityType DEF RatchetInv, Shapes
<1>2. CASE sent' = sent BY <1>2 DEF Numbered
<1>3. ASSUME NEW m, Spoken(p, m) PROVE Numbered'
  <2>1. sent' = sent \cup {m} /\ m.body = Cardinality(sent) /\ Cardinality(sent) < scenario.sends
    BY <1>3 DEF Spoken, Says
  <2>2. \A x \in sent : x.body \in Nat /\ x.body < Cardinality(sent) /\ x.body < MaxSends
    BY DEF RatchetInv, Sound, MessageInv, Numbered
  <2>3. m \notin sent
    <3>1. ~(Cardinality(sent) < Cardinality(sent)) BY <1>1
    <3>. QED BY <2>1, <2>2, <3>1
  <2>4. Cardinality(sent') = Cardinality(sent) + 1 BY <1>1, <2>1, <2>3, FS_AddElement
  <2>5. scenario.sends \in 0..MaxSends /\ MaxSends \in Nat BY <1>1, SendsBound
  <2>6. m.body < MaxSends /\ m.body < Cardinality(sent) + 1 BY <1>1, <2>1, <2>5
  <2>7. \A x \in sent : x.body < Cardinality(sent) + 1 /\ x.body # m.body
    BY <1>1, <2>1, <2>2
  <2>8. \A x \in sent' : x.body < Cardinality(sent') /\ x.body < MaxSends
    BY <2>1, <2>2, <2>4, <2>6, <2>7
  <2>9. \A x, y \in sent' : x.body = y.body => x = y
    <3>1. \A x \in sent' : x \in sent \/ x = m BY <2>1
    <3>. QED BY <2>7, <3>1 DEF Numbered
  <2>. QED BY <2>8, <2>9 DEF Numbered
<1>. QED BY <1>2, <1>3 DEF Traffic

LEMMA TurnKeeps ==
  ASSUME NoPruning, KeptInv, RatchetInv', NEW p, NEW b, Turn(p, b)
  PROVE  KeptInv'
<1>1. RatchetInv /\ Met /\ Counted /\ Remembered /\ Numbered BY DEF KeptInv
<1>2. Whole BY <1>1, CountedWhole
<1>3. /\ Acts(p, b) /\ Vouched(p, b) /\ Traffic(p)
      /\ sent' = sent \/ \E m : Spoken(p, m)
  BY DEF Turn, Traffic
<1>4. Met' BY <1>1, <1>2, <1>3, MetNext
<1>5. Counted' BY <1>1, <1>2, CountedNext
<1>6. Remembered' BY <1>1, <1>2, RememberedNext
<1>7. Numbered' BY <1>1, <1>3, NumberedNext
<1>. QED BY <1>4, <1>5, <1>6, <1>7 DEF KeptInv

\* No session has the base key 0.
LEMMA NobodyIsZero ==
  ASSUME RatchetInv', NEW p, Acts(p, 0) PROVE Vouched(p, 0)
<1>1. Views(p)' = NextViews(p) BY DEF Views, NextViews
<1>2. p \in Parties BY DEF Acts
<1>3. ASSUME NEW U \in NextViews(p), NEW j \in 1..Len(U) PROVE U[j].base_key # 0
  <2>1. RecordInv(U, keys') BY <1>1, <1>2 DEF RatchetInv, Sound
  <2>. QED BY <2>1 DEF RecordInv, SessionInv
<1>. QED BY <1>3 DEF Vouched

LEMMA NextTurns ==
  ASSUME RatchetInv, Met, RatchetInv', Next
  PROVE  \E p, b : Turn(p, b)
<1>1. ASSUME NEW p \in scenario.initiators, InitOutgoing(p) PROVE \E q, b : Turn(q, b)
  <2>1. p \in Parties /\ keys \in Nat BY StarterIsParty DEF RatchetInv, Shapes
  <2>2. PICK b : b = keys + 1 OBVIOUS
  <2>3. /\ Acts(p, b) /\ sent' = sent
        /\ \A U \in NextViews(p) : \A j \in 1..Len(U) :
             U[j].base_key = b => U[j].pending = TRUE
    BY <1>1, <2>1, <2>2, InitOutgoingActs
  <2>4. read' = read /\ scenario' = scenario /\ started' = [started EXCEPT ![p] = @ + 1]
    BY <1>1 DEF InitOutgoing
  <2>5. Vouched(p, b) BY <2>3 DEF Vouched
  <2>6. Turn(p, b) BY <2>1, <2>2, <2>3, <2>4, <2>5 DEF Turn, Traffic
  <2>. QED BY <2>6
<1>2. ASSUME NEW p \in Parties, Encrypt(p) PROVE \E q, b : Turn(q, b)
  <2>1. /\ Acts(p, 0) /\ started' = started /\ read' = read /\ scenario' = scenario
        /\ sent' = sent \/ \E m : Spoken(p, m)
    BY <1>2, EncryptActs
  <2>2. Turn(p, 0) BY <2>1, NobodyIsZero DEF Turn, Traffic
  <2>. QED BY <2>2
<1>3. ASSUME NEW p \in Parties, NEW m \in sent,
             DecryptPreKeyMessage(p, m) \/ DecryptMessage(p, m)
      PROVE  \E q, b : Turn(q, b)
  <2>1. PICK U : HandlerActs(p, m, U) BY <1>3, PreKeyMessageActs, MessageActs
  <2>2. /\ Acts(p, m.base_key) /\ sent' = sent /\ started' = started /\ scenario' = scenario
        /\ read' = read \/ Reads(p, m)
    BY <2>1, Handling
  <2>3. m.from # p BY <1>3 DEF DecryptPreKeyMessage, DecryptMessage
  <2>4. m.from = Peer(p) BY <2>3, TwoParties DEF RatchetInv, Sound, MessageInv
  <2>5. \A W \in Views(Peer(p)) : m.base_key \in Bases(W) BY <2>4 DEF Met
  <2>6. record[Peer(p)] \in Views(Peer(p)) BY DEF Views
  <2>7. Vouched(p, m.base_key) BY <2>5 DEF Vouched
  <2>8. Traffic(p) BY <2>2, <2>3 DEF Traffic
  <2>9. Turn(p, m.base_key) BY <2>2, <2>5, <2>6, <2>7, <2>8 DEF Turn
  <2>. QED BY <2>9
<1>4. ASSUME NEW p \in Parties, Restart(p) PROVE \E q, b : Turn(q, b)
  <2>1. Acts(p, 0) /\ sent' = sent BY <1>4, RestartActs
  <2>2. started' = started /\ read' = read /\ scenario' = scenario BY <1>4 DEF Restart
  <2>3. Turn(p, 0) BY <2>1, <2>2, NobodyIsZero DEF Turn, Traffic
  <2>. QED BY <2>3
<1>. QED BY <1>1, <1>2, <1>3, <1>4 DEF Next

LEMMA InitKept == Init => KeptInv
<1>. SUFFICES ASSUME Init PROVE KeptInv
  OBVIOUS
<1>1. RatchetInv BY InitRatchet
<1>2. /\ sent = {} /\ read = EmptyBag /\ record = [p \in Parties |-> <<>>]
      /\ disk = [p \in Parties |-> [record |-> <<>>, pre_keys |-> {}]]
      /\ started = [p \in Parties |-> 0]
  BY DEF Init
<1>3. \A p \in Parties : \A V \in Views(p) : V = <<>> BY <1>2 DEF Views
<1>4. 1..Len(<<>>) = {} /\ Bases(<<>>) = {} BY DEF Bases
<1>5. Met BY <1>2, <1>3, <1>4, TwoParties DEF Met
<1>6. Counted
  <2>1. Holds({}) BY <1>3, <1>4, FS_EmptySet DEF Holds
  <2>2. Cardinality({}) = 0 BY FS_EmptySet
  <2>3. \A p \in Parties : Cardinality({}) <= started[p] + started[Peer(p)]
    BY <1>2, <2>2, TwoParties
  <2>. QED BY <2>1, <2>3 DEF Counted
<1>7. Remembered BY <1>2 DEF Remembered, EmptyBag, SetToBag
<1>8. Numbered BY <1>2 DEF Numbered
<1>. QED BY <1>1, <1>5, <1>6, <1>7, <1>8 DEF KeptInv

LEMMA NextKept == ASSUME NoPruning PROVE KeptInv /\ [Next]_vars => KeptInv'
<1>. SUFFICES ASSUME KeptInv, [Next]_vars PROVE KeptInv'
  OBVIOUS
<1>1. RatchetInv' BY NextRatchet DEF KeptInv
<1>2. CASE Next
  <2>1. PICK p, b : Turn(p, b) BY <1>1, <1>2, NextTurns DEF KeptInv
  <2>. QED BY <1>1, <2>1, TurnKeeps
<1>3. CASE UNCHANGED vars
  <2>1. \A q : Views(q)' = Views(q) BY <1>3 DEF vars, Views
  <2>2. Met' /\ Remembered' /\ Numbered'
    BY <1>3, <2>1 DEF vars, KeptInv, Met, Remembered, Numbered
  <2>3. Counted' BY <1>3, <2>1 DEF vars, KeptInv, Counted, Holds
  <2>. QED BY <1>1, <2>2, <2>3 DEF KeptInv
<1>. QED BY <1>2, <1>3

\* While no session is pruned: both ends of a message have its session, and the views of
\* the reader remember what was read.
THEOREM KeptInvariant == ASSUME NoPruning PROVE Spec => []KeptInv
<1>1. KeptInv /\ [Next]_vars => KeptInv' BY NextKept
<1>. QED BY <1>1, InitKept, PTL DEF Spec

\* The peer has the session of every message that is sent unwrapped: the pending pre-key is
\* dropped only after an answer in the session was decrypted (double_ratchet.py:486).
THEOREM PeerKnowsSessionHolds == ASSUME NoPruning PROVE Spec => []PeerKnowsSession
<1>1. ASSUME KeptInv PROVE PeerKnowsSession
  <2>. SUFFICES ASSUME NEW m \in sent, ~m.prekey
                PROVE  \E s \in Sessions(Peer(m.from)) : s.root[1] = m.seed[1]
    BY DEF PeerKnowsSession
  <2>1. PICK q, V : q = Peer(m.from) /\ V = record[q] OBVIOUS
  <2>2. MessageInv(m, keys) BY <1>1 DEF KeptInv, RatchetInv, Sound
  <2>3. q \in Parties /\ V \in Views(q) BY <2>1, <2>2, TwoParties DEF MessageInv, Views
  <2>4. RecordInv(V, keys) BY <1>1, <2>3 DEF KeptInv, RatchetInv, Sound
  <2>5. m.prekey = FALSE BY <2>2 DEF MessageInv
  <2>6. m.base_key \in Bases(V) BY <1>1, <2>1, <2>3, <2>5 DEF KeptInv, Met
  <2>7. PICK j \in 1..Len(V) : V[j].base_key = m.base_key BY <2>6 DEF Bases
  <2>8. V[j].root[1] = m.seed[1]
    BY <2>2, <2>4, <2>7 DEF RecordInv, SessionInv, MessageInv, Based
  <2>9. V[j] \in Sessions(q) BY <2>1 DEF Sessions
  <2>. QED BY <2>1, <2>8, <2>9
<1>. QED BY <1>1, KeptInvariant, PTL


-----------------------------------------------------------------------------
\* The refinement.

\* The name of a message at the channel, and how often each was read if none was read twice.
NameOf(m) == <<m.from, m.body>>
Names == Parties \X (0..(MaxSends - 1))
Named(M) == {<<m.from, m.body>> : m \in M}
Once(R) == [x \in Names |-> IF x \in Named(DOMAIN R) THEN 1 ELSE 0]
CopiesOf(R) ==
  [x \in Parties \X (0..(MaxSends - 1)) |->
     LET S == {m \in BagToSet(R) : <<m.from, m.body>> = x}
     IN  IF S = {} THEN 0 ELSE R[CHOOSE m \in S : TRUE]]

LEMMA CopiesAreOnce == \A R : (\A m \in DOMAIN R : R[m] = 1) => CopiesOf(R) = Once(R)
<1>. SUFFICES ASSUME NEW R, \A m \in DOMAIN R : R[m] = 1 PROVE CopiesOf(R) = Once(R)
  OBVIOUS
<1>1. BagToSet(R) = DOMAIN R BY DEF BagToSet
<1>2. ASSUME NEW x \in Names PROVE CopiesOf(R)[x] = Once(R)[x]
  <2>1. PICK S : S = {m \in BagToSet(R) : <<m.from, m.body>> = x} OBVIOUS
  <2>2. CopiesOf(R)[x] = IF S = {} THEN 0 ELSE R[CHOOSE m \in S : TRUE]
    BY <2>1 DEF CopiesOf, Names
  <2>3. CASE S = {}
    <3>1. x \notin Named(DOMAIN R) BY <1>1, <2>1, <2>3 DEF Named
    <3>. QED BY <2>2, <2>3, <3>1 DEF Once
  <2>4. CASE S # {}
    <3>1. PICK m : m = CHOOSE n \in S : TRUE OBVIOUS
    <3>2. m \in S BY <2>4, <3>1
    <3>3. m \in DOMAIN R /\ x \in Named(DOMAIN R) BY <1>1, <2>1, <3>2 DEF Named
    <3>. QED BY <2>2, <2>4, <3>1, <3>3 DEF Once
  <2>. QED BY <2>3, <2>4
<1>3. DOMAIN CopiesOf(R) = Names /\ DOMAIN Once(R) = Names BY DEF CopiesOf, Once, Names
<1>4. CopiesOf(R) = [x \in Names |-> CopiesOf(R)[x]] /\ Once(R) = [x \in Names |-> Once(R)[x]]
  BY <1>3 DEF CopiesOf, Once, Names
<1>. QED BY <1>2, <1>4

\* What the channel's steps are for the two histories.
LEMMA Posting ==
  ASSUME KeptInv, NEW p, NEW m, Spoken(p, m)
  PROVE  /\ NameOf(m) \in Names /\ NameOf(m) \notin Named(sent)
         /\ Named(sent') = Named(sent) \cup {NameOf(m)}
<1>1. /\ sent' = sent \cup {m} /\ m.body = Cardinality(sent)
      /\ Cardinality(sent) < scenario.sends /\ m.from = p /\ m.from \in Parties
  BY DEF Spoken, Says, MessageInv
<1>2. scenario.sends \in 0..MaxSends /\ MaxSends \in Nat /\ IsFiniteSet(sent)
  BY SendsBound DEF KeptInv, RatchetInv, Shapes
<1>3. Cardinality(sent) \in Nat BY <1>2, FS_CardinalityType
<1>4. m.body \in 0..(MaxSends - 1) BY <1>1, <1>2, <1>3
<1>5. \A x \in sent : x.body < Cardinality(sent) BY DEF KeptInv, Numbered
<1>6. ~(Cardinality(sent) < Cardinality(sent)) BY <1>3
<1>7. \A x \in sent : x.body # m.body BY <1>1, <1>5, <1>6
<1>8. NameOf(m) \in Names BY <1>1, <1>4 DEF NameOf, Names
<1>9. NameOf(m) \notin Named(sent) BY <1>7 DEF NameOf, Named
<1>10. Named(sent') = Named(sent) \cup {NameOf(m)} BY <1>1 DEF NameOf, Named
<1>. QED BY <1>8, <1>9, <1>10

LEMMA Taking ==
  ASSUME KeptInv, NEW p, NEW b, Acts(p, b), NEW m \in sent, m.from # p, Reads(p, m)
  PROVE  /\ NameOf(m) \in Names /\ NameOf(m) \in Named(sent)
         /\ Once(read)[NameOf(m)] = 0
         /\ Once(read') = [Once(read) EXCEPT ![NameOf(m)] = 1]
<1>1. Shapes /\ Remembered /\ Numbered /\ MessageInv(m, keys)
  BY DEF KeptInv, RatchetInv, Sound
<1>2. p \in Parties /\ m.from \in Parties /\ Peer(m.from) = p
  BY <1>1, TwoParties DEF Acts, MessageInv
<1>3. m \notin DOMAIN read
  <2>1. record[p] \in Views(p) /\ ~UsedIn(record[p], m.seed, m.counter)
    BY DEF Views, Reads
  <2>. QED BY <1>1, <1>2, <2>1 DEF Remembered
<1>4. m.body \in Nat /\ m.body < MaxSends /\ MaxSends \in Nat
  BY <1>1, SendsBound DEF MessageInv, Numbered
<1>5. NameOf(m) \in Names
  <2>1. m.body \in 0..(MaxSends - 1) BY <1>4
  <2>. QED BY <1>2, <2>1 DEF NameOf, Names
<1>6. NameOf(m) \in Named(sent) BY DEF NameOf, Named
<1>7. NameOf(m) \notin Named(DOMAIN read)
  <2>1. \A x \in DOMAIN read : x \in sent BY <1>1 DEF Shapes
  <2>2. \A x \in DOMAIN read : x.body # m.body BY <1>1, <1>3, <2>1 DEF Numbered
  <2>. QED BY <2>2 DEF NameOf, Named
<1>8. PICK B : B = read (+) SetToBag({m}) OBVIOUS
<1>9. DOMAIN B = DOMAIN read \cup {m} BY <1>1, <1>8, OneMore DEF Adds
<1>10. Named(DOMAIN B) = Named(DOMAIN read) \cup {NameOf(m)} BY <1>9 DEF NameOf, Named
<1>11. Once(B) = [Once(read) EXCEPT ![NameOf(m)] = 1] BY <1>5, <1>10 DEF Once
<1>12. Once(read)[NameOf(m)] = 0 BY <1>5, <1>7 DEF Once
<1>13. read' = B BY <1>8 DEF Reads
<1>. QED BY <1>5, <1>6, <1>11, <1>12, <1>13

LEMMA ChannelSteps ==
  ASSUME NoPruning, KeptInv, KeptInv', [Next]_vars
  PROVE  [Channel!Next]_<<{<<m.from, m.body>> : m \in sent}, CopiesOf(read)>>
<1>1. \A m \in DOMAIN read : read[m] = 1 BY DEF KeptInv, Remembered
<1>2. \A m \in DOMAIN read' : read'[m] = 1 BY DEF KeptInv, Remembered
<1>3. CopiesOf(read) = Once(read) BY <1>1, CopiesAreOnce
<1>4. CopiesOf(read') = Once(read') BY <1>2, CopiesAreOnce
<1>5. CASE UNCHANGED vars
  BY <1>5 DEF vars, CopiesOf
<1>6. CASE Next
  <2>1. PICK p, b : Turn(p, b) BY <1>6, NextTurns DEF KeptInv
  <2>2. Acts(p, b) /\ Traffic(p) BY <2>1 DEF Turn
  <2>3. CASE read' = read /\ sent' = sent BY <2>3 DEF CopiesOf
  <2>4. ASSUME NEW m, Spoken(p, m), read' = read
        PROVE  Channel!Next
    <3>1. /\ NameOf(m) \in Names /\ NameOf(m) \notin Named(sent)
          /\ Named(sent') = Named(sent) \cup {NameOf(m)}
      BY <2>4, Posting
    <3>2. Channel!Post(NameOf(m)) BY <2>4, <3>1 DEF Channel!Post, Named
    <3>. QED BY <3>1, <3>2 DEF Channel!Next, Names
  <2>5. ASSUME NEW m \in sent, m.from # p, Reads(p, m), sent' = sent
        PROVE  Channel!Next
    <3>1. /\ NameOf(m) \in Names /\ NameOf(m) \in Named(sent)
          /\ Once(read)[NameOf(m)] = 0
          /\ Once(read') = [Once(read) EXCEPT ![NameOf(m)] = 1]
      BY <2>2, <2>5, Taking
    <3>2. CopiesOf(read') = [CopiesOf(read) EXCEPT ![NameOf(m)] = 1]
          /\ CopiesOf(read)[NameOf(m)] = 0
      BY <1>3, <1>4, <3>1
    <3>3. Channel!Take(NameOf(m)) BY <2>5, <3>1, <3>2 DEF Channel!Take, Named, CopiesOf
    <3>. QED BY <3>1, <3>3 DEF Channel!Next, Names
  <2>. QED BY <2>2, <2>3, <2>4, <2>5 DEF Traffic
<1>. QED BY <1>5, <1>6

\* The two records implement MessageChannel: what a decrypt returns was sent by the other
\* party, and nothing is returned twice, whatever the network repeats and whenever the
\* parties restart.
THEOREM ImplementsChannel == ASSUME NoPruning PROVE Spec => Implements
<1>1. Init => Channel!Init
  <2>. SUFFICES ASSUME Init PROVE Channel!Init
    OBVIOUS
  <2>1. sent = {} /\ read = EmptyBag BY DEF Init
  <2>2. DOMAIN read = {} BY <2>1 DEF EmptyBag, SetToBag
  <2>3. CopiesOf(read) = Once(read) BY <2>2, CopiesAreOnce
  <2>4. Once(read) = [x \in Names |-> 0] BY <2>2 DEF Once, Named
  <2>5. CopiesOf(read) = [x \in Parties \X (0..(MaxSends - 1)) |-> 0]
    BY <2>3, <2>4 DEF Names
  <2>. QED BY <2>1, <2>5 DEF Channel!Init, CopiesOf
<1>2. KeptInv /\ [Next]_vars => KeptInv' BY NextKept
<1>3. KeptInv /\ KeptInv' /\ [Next]_vars =>
        [Channel!Next]_<<{<<m.from, m.body>> : m \in sent}, CopiesOf(read)>>
  BY ChannelSteps
<1>4. Spec => []KeptInv BY KeptInvariant
<1>. QED BY <1>1, <1>2, <1>3, <1>4, PTL DEF Spec, Implements, Channel!Spec, CopiesOf

\* No message is read twice (test_replay_is_rejected).
THEOREM ReadOnceHolds == ASSUME NoPruning PROVE Spec => []ReadOnce
<1>1. KeptInv => ReadOnce BY DEF KeptInv, Remembered, ReadOnce, BagToSet
<1>. QED BY <1>1, KeptInvariant, PTL

-----------------------------------------------------------------------------
\* A session that one party alone started, and its two ends.

\* X took the last step of the ratchet: Y has the key pair it was taken with and not yet the
\* new one.  What Y sends goes to the open chain that X has for it.
Ahead(X, Y) ==
  /\ X.root = Append(Y.root, {X.ephemeral, Y.ephemeral})
  /\ X.last_remote = Y.ephemeral /\ X.ephemeral \notin DOMAIN Y.chains
  /\ X.previous_counter >= 0 /\ Y.previous_counter >= 0
  /\ Y.last_remote # Y.ephemeral
  /\ Y.last_remote \in DOMAIN Y.chains => Y.chains[Y.last_remote].open
  /\ Y.ephemeral \in DOMAIN Y.chains =>
       /\ Y.ephemeral \in DOMAIN X.chains
       /\ X.chains[Y.ephemeral].seed = Y.root /\ X.chains[Y.ephemeral].open
       /\ X.chains[Y.ephemeral].counter <= Y.chains[Y.ephemeral].counter
       /\ Y.chains[Y.ephemeral].counter >= 0

\* The chain c has the key of m, or can reach it; R is what was read.
Serves(c, m, R) ==
  /\ c.seed = m.seed
  /\ m.counter <= c.counter => m.counter \in c.message_keys \/ m \in R
  /\ m.counter > c.counter => c.open
Filed(m, Y, R) ==
  m.ratchet_key \in DOMAIN Y.chains \ {Y.ephemeral} /\ Serves(Y.chains[m.ratchet_key], m, R)

\* m is of the chain that X drew last, which Y gets with the step that m brings.
Brings(m, X) ==
  /\ m.ratchet_key = X.ephemeral /\ m.seed = X.root
  /\ m.previous_counter = X.previous_counter

\* M and N are what the sides of X and Y sent.  When Y takes the step, it closes its receiving
\* chain behind all that X sent on it.
Linked(X, Y, M, N, R) ==
  /\ Ahead(X, Y)
  /\ \A m \in M : Filed(m, Y, R) \/ Brings(m, X)
  /\ \A m \in N : Filed(m, X, R)
  /\ Y.last_remote \in DOMAIN Y.chains =>
       \A m \in M : m.ratchet_key = Y.last_remote => m.counter <= X.previous_counter
Joined(X, Y, M, N, R) == Linked(X, Y, M, N, R) \/ Linked(Y, X, N, M, R)

\* What RatchetInv says of an end and what its side sent.
Speaks(X, M, top) ==
  /\ top \in Nat /\ SessionInv(X, top)
  /\ \A m \in M : /\ m.counter \in Nat /\ m.previous_counter \in Nat /\ m.ratchet_key \in 3..top
                  /\ m.seed = X.root => m.counter <= X.chains[X.ephemeral].counter
  /\ \A m1, m2 \in M : m1.seed = m2.seed /\ m1.counter = m2.counter => m1 = m2

LEMMA FillIs ==
  ASSUME NEW c \in Chain, NEW n \in Nat, c.counter \in Nat \cup {-1}
  PROVE  /\ Fill(c, n) \in Chain
         /\ Fill(c, n).counter = IF n <= c.counter THEN c.counter ELSE n
         /\ Fill(c, n).message_keys = c.message_keys \cup (c.counter + 1 .. n)
         /\ Fill(c, n).open = c.open /\ Fill(c, n).sending = c.sending
         /\ Fill(c, n).seed = c.seed
<1>1. CASE n <= c.counter
  <2>1. Fill(c, n) = c BY <1>1 DEF Fill
  <2>2. c.counter + 1 .. n = {} BY <1>1
  <2>. QED BY <1>1, <2>1, <2>2
<1>2. CASE ~(n <= c.counter)
  <2>1. PICK held : held = c.message_keys \cup (c.counter + 1 .. n) OBVIOUS
  <2>2. held \in SUBSET Nat
    <3>1. c.message_keys \in SUBSET Nat BY DEF Chain
    <3>2. c.counter + 1 .. n \subseteq Nat OBVIOUS
    <3>. QED BY <2>1, <3>1, <3>2
  <2>3. Fill(c, n) = [c EXCEPT !.counter = n, !.message_keys = held] BY <1>2, <2>1 DEF Fill
  <2>4. n \in Int OBVIOUS
  <2>5. /\ Fill(c, n) \in Chain /\ Fill(c, n).counter = n /\ Fill(c, n).message_keys = held
        /\ Fill(c, n).open = c.open /\ Fill(c, n).sending = c.sending
        /\ Fill(c, n).seed = c.seed
    BY ONLY <2>2, <2>3, <2>4, c \in Chain DEF Chain
  <2>. QED BY <1>2, <2>1, <2>5
<1>. QED BY <1>1, <1>2

LEMMA PopIs ==
  ASSUME NEW c \in Chain, NEW n
  PROVE  /\ Popped(c, n) \in Chain /\ Popped(c, n).counter = c.counter
         /\ Popped(c, n).message_keys = c.message_keys \ {n} /\ Popped(c, n).open = c.open
         /\ Popped(c, n).sending = c.sending /\ Popped(c, n).seed = c.seed
         /\ n \notin c.message_keys => Popped(c, n) = c
<1>1. PICK held : held = c.message_keys \ {n} OBVIOUS
<1>2. held \in SUBSET Nat BY <1>1 DEF Chain
<1>3. Popped(c, n) = [c EXCEPT !.message_keys = held] BY <1>1 DEF Popped
<1>4. n \notin c.message_keys => held = c.message_keys BY <1>1
<1>5. [c EXCEPT !.message_keys = c.message_keys] = c BY DEF Chain
<1>. QED BY <1>1, <1>2, <1>3, <1>4, <1>5 DEF Chain

\* Filling a chain, closing it behind a message and taking a key leave the others readable.
LEMMA ServesFill ==
  ASSUME NEW c \in Chain, NEW n \in Nat, c.counter \in Nat \cup {-1},
         NEW x, x.counter \in Nat, NEW R, Serves(c, x, R)
  PROVE  Serves(Fill(c, n), x, R)
<1>1. PICK d : d = Fill(c, n) OBVIOUS
<1>2. /\ d.counter = (IF n <= c.counter THEN c.counter ELSE n)
      /\ d.message_keys = c.message_keys \cup (c.counter + 1 .. n)
      /\ d.open = c.open /\ d.seed = c.seed
  BY <1>1, FillIs
<1>3. c.seed = x.seed BY DEF Serves
<1>4. x.counter <= d.counter => x.counter \in d.message_keys \/ x \in R
  <2>1. CASE x.counter <= c.counter BY <1>2, <2>1 DEF Serves
  <2>2. CASE ~(x.counter <= c.counter)
    <3>1. x.counter <= d.counter => x.counter \in c.counter + 1 .. n BY <1>2, <2>2
    <3>. QED BY <1>2, <3>1
  <2>. QED BY <2>1, <2>2
<1>5. x.counter > d.counter => d.open
  <2>1. x.counter > d.counter => x.counter > c.counter BY <1>2
  <2>. QED BY <1>2, <2>1 DEF Serves
<1>. QED BY <1>1, <1>2, <1>3, <1>4, <1>5 DEF Serves

LEMMA ServesShut ==
  ASSUME NEW c \in Chain, NEW n \in Nat, c.counter \in Nat \cup {-1},
         NEW x, x.counter \in Nat, NEW R, Serves(c, x, R), x.counter <= n
  PROVE  Serves([Fill(c, n) EXCEPT !.open = FALSE], x, R)
<1>1. PICK d : d = Fill(c, n) OBVIOUS
<1>2. d \in Chain /\ d.counter = (IF n <= c.counter THEN c.counter ELSE n) BY <1>1, FillIs
<1>3. Serves(d, x, R) BY <1>1, ServesFill
<1>4. ~(x.counter > d.counter) BY <1>2
<1>5. PICK e : e = [d EXCEPT !.open = FALSE] OBVIOUS
<1>6. e.counter = d.counter /\ e.message_keys = d.message_keys /\ e.seed = d.seed
  BY <1>2, <1>5 DEF Chain
<1>. QED BY <1>1, <1>3, <1>4, <1>5, <1>6 DEF Serves

LEMMA ServesPopped ==
  ASSUME NEW c \in Chain, NEW n, NEW m, NEW x, NEW R, Serves(c, x, R),
         x.seed = c.seed /\ x.counter = n => x = m
  PROVE  Serves(Popped(c, n), x, R \cup {m})
<1>1. PICK d : d = Popped(c, n) OBVIOUS
<1>2. /\ d.counter = c.counter /\ d.message_keys = c.message_keys \ {n} /\ d.open = c.open
      /\ d.seed = c.seed
  BY <1>1, PopIs
<1>. QED BY <1>1, <1>2 DEF Serves

\* What a try of m does to an end that has a chain for it, when it decrypts.
Took(s, e, m, top) ==
  /\ SessionInv(e, top)
  /\ e.root = s.root /\ e.ephemeral = s.ephemeral /\ e.last_remote = s.last_remote
  /\ e.previous_counter = s.previous_counter /\ e.base_key = s.base_key
  /\ DOMAIN e.chains = DOMAIN s.chains /\ m.ratchet_key # s.ephemeral
  /\ e.chains[m.ratchet_key] = Popped(Fill(s.chains[m.ratchet_key], m.counter), m.counter)
  /\ \A x \in DOMAIN s.chains \ {m.ratchet_key} : e.chains[x] = s.chains[x]

\* The counter of m is in reach of any chain.
Near(m) == m.counter \in Nat /\ m.counter < scenario.ahead /\ scenario.ahead \in Nat

LEMMA ReadsFiled ==
  ASSUME NEW s, NEW top, SessionInv(s, top), top \in Nat, NEW m, NEW R, Near(m), NEW k,
         Filed(m, s, R)
  PROVE  /\ ~Steps(s, m)
         /\ m \notin R => Decrypts(s, m, k)
         /\ ~Decrypts(s, m, k) => Tried(s, m, k) = s
         /\ Decrypts(s, m, k) => Took(s, Tried(s, m, k), m, top)
<1>1. PICK r, n, c, g, d, f : /\ r = m.ratchet_key /\ n = m.counter /\ c = s.chains[r]
                              /\ g = Fill(c, n) /\ d = Popped(g, n) /\ f = Tried(s, m, k)
  OBVIOUS
<1>2. r \in DOMAIN s.chains /\ r # s.ephemeral /\ Serves(c, m, R) /\ n \in Nat
  BY <1>1 DEF Filed, Near
<1>3. s.chains \in Chains /\ s.pending \in BOOLEAN /\ s \in SessionType BY Parted DEF SessionInv
<1>4. c \in Chain BY <1>1, <1>2, <1>3, ChainsAre
<1>5. /\ c.counter \in Nat \cup {-1} /\ c.message_keys \subseteq 0..c.counter
      /\ c.sending = FALSE
  <2>1. ChainInv(s.root, c, r = s.ephemeral) BY <1>1, <1>2 DEF SessionInv
  <2>2. (r = s.ephemeral) = FALSE BY <1>2
  <2>. QED BY <2>1, <2>2, Zenon DEF ChainInv
<1>6. /\ g \in Chain /\ g.counter = (IF n <= c.counter THEN c.counter ELSE n)
      /\ g.message_keys = c.message_keys \cup (c.counter + 1 .. n)
      /\ g.open = c.open /\ g.sending = c.sending /\ g.seed = c.seed
  BY <1>1, <1>2, <1>4, <1>5, FillIs
<1>7. ~Steps(s, m) /\ ~StepFails(s, m) /\ Entered(s, m, k) = s
  BY <1>1, <1>2 DEF Steps, StepFails, Entered
<1>8. CanFill(c, n)
  <2>1. n - c.counter <= scenario.ahead BY <1>1, <1>5 DEF Near
  <2>. QED BY <1>1, <1>2, <2>1 DEF CanFill, Serves
<1>9. Reaches(s, m, k) BY <1>1, <1>5, <1>7, <1>8 DEF Reaches
<1>10. Decrypts(s, m, k) <=> n \in g.message_keys
  BY <1>1, <1>2, <1>6, <1>7, <1>9 DEF Decrypts, Serves
<1>11. n > c.counter => n \in g.message_keys
  <2>1. n > c.counter => n \in c.counter + 1 .. n BY <1>2, <1>5
  <2>. QED BY <1>6, <2>1
<1>12. m \notin R => n \in g.message_keys
  <2>1. CASE n <= c.counter BY <1>1, <1>2, <1>6, <2>1 DEF Serves
  <2>2. CASE ~(n <= c.counter) BY <1>2, <1>5, <1>11, <2>2
  <2>. QED BY <2>1, <2>2
<1>13. f = [s EXCEPT !.chains[r] = d, !.pending = s.pending /\ ~Decrypts(s, m, k)]
  BY <1>1, <1>2, <1>3, <1>7, <1>9 DEF Tried
<1>14. ASSUME ~Decrypts(s, m, k) PROVE f = s
  <2>1. n \notin g.message_keys /\ n <= c.counter BY <1>2, <1>5, <1>10, <1>11, <1>14
  <2>2. g = c BY <1>1, <2>1 DEF Fill
  <2>3. d = c BY <1>1, <1>4, <2>1, <2>2, PopIs
  <2>4. [s.chains EXCEPT ![r] = c] = s.chains
    <3>1. s.chains = [x \in DOMAIN s.chains |-> s.chains[x]] BY <1>3, ChainsAre
    <3>. QED BY <1>1, <3>1
  <2>5. PICK b : b = (s.pending /\ ~Decrypts(s, m, k)) OBVIOUS
  <2>6. b = s.pending BY <1>3, <1>14, <2>5
  <2>7. f = [s EXCEPT !.chains = s.chains, !.pending = s.pending]
    BY <1>3, <1>13, <2>3, <2>4, <2>5, <2>6 DEF SessionType
  <2>. QED BY <1>3, <2>7 DEF SessionType
<1>15. ASSUME Decrypts(s, m, k) PROVE Took(s, f, m, top)
  <2>1. PICK b : b = (s.pending /\ ~Decrypts(s, m, k)) OBVIOUS
  <2>2. b = FALSE BY <1>15, <2>1
  <2>3. f = Replace(s, r, d, b) BY <1>13, <2>1 DEF Replace
  <2>4. Onward(c, g) /\ n <= g.counter /\ g.message_keys \subseteq 0..g.counter
        /\ g.counter \in Nat \cup {-1}
    BY <1>1, <1>2, <1>4, <1>5, Filled
  <2>5. d \in Chain /\ Onward(g, d) /\ d.counter = g.counter
        /\ d.message_keys = g.message_keys \ {n}
    BY <1>1, <1>2, <1>6, <2>4, PoppedKey
  <2>6. Onward(c, d) BY <1>4, <1>6, <2>4, <2>5, OnwardOn
  <2>7. Replaces(s, r, d, b, top) BY <1>1, <1>2, <1>5, <2>2, <2>4, <2>5, <2>6 DEF Replaces
  <2>8. /\ SessionInv(f, top)
        /\ f.base_key = s.base_key /\ f.pre_key = s.pre_key /\ f.closed = s.closed
        /\ f.pending = b /\ f.root = s.root /\ f.ephemeral = s.ephemeral
        /\ f.last_remote = s.last_remote /\ f.previous_counter = s.previous_counter
        /\ DOMAIN f.chains = DOMAIN s.chains /\ f.chains[r] = d /\ r # s.ephemeral
        /\ \A x \in DOMAIN s.chains \ {r} : f.chains[x] = s.chains[x]
    BY ONLY <2>3, <2>7, Replaced
  <2>. QED BY <1>1, <2>8 DEF Took
<1>. QED BY <1>1, <1>7, <1>10, <1>12, <1>14, <1>15

\* What a try of m does to the end Y that takes the step which m brings from X.
Stept(X, Y, e, m, k) ==
  /\ SessionInv(e, k) /\ e.base_key = Y.base_key
  /\ e.root = Append(X.root, {k, X.ephemeral})
  /\ e.ephemeral = k /\ e.last_remote = X.ephemeral
  /\ e.previous_counter = IF Y.ephemeral \in DOMAIN Y.chains
                          THEN Y.chains[Y.ephemeral].counter ELSE Y.previous_counter
  /\ DOMAIN e.chains = ((DOMAIN Y.chains \cup {X.ephemeral}) \ {Y.ephemeral}) \cup {k}
  /\ e.chains[k].counter = -1
  /\ e.chains[X.ephemeral] = Popped(Fill(NewChain(X.root, FALSE), m.counter), m.counter)
  /\ \A x \in DOMAIN Y.chains \ {Y.ephemeral} :
       e.chains[x] = Closed(Y.chains, Y.last_remote, m.previous_counter)[x]

LEMMA ReadsBrought ==
  ASSUME NEW X, NEW Y, NEW top \in Nat, SessionInv(X, top), SessionInv(Y, top), Ahead(X, Y),
         NEW m, Brings(m, X), Near(m), m.ratchet_key \in 3..top,
         m.previous_counter \in Nat, m.previous_counter < scenario.ahead, NEW k, k = top + 1
  PROVE  Steps(Y, m) /\ Decrypts(Y, m, k) /\ Stept(X, Y, Tried(Y, m, k), m, k)
<1>1. PICK r, n, e, f : /\ r = m.ratchet_key /\ n = m.counter /\ e = Stepped(Y, m, k)
                        /\ f = Tried(Y, m, k)
  OBVIOUS
<1>2. /\ r = X.ephemeral /\ r \notin DOMAIN Y.chains /\ n \in Nat /\ r \in 3..top
      /\ X.root = Append(Y.root, {r, Y.ephemeral})
      /\ Y.last_remote \in DOMAIN Y.chains => Y.chains[Y.last_remote].open
      /\ m.seed = X.root
  BY <1>1 DEF Ahead, Brings, Near
<1>3. Steps(Y, m) BY <1>1, <1>2 DEF Steps
<1>4. Y.chains \in Chains /\ Y.pending \in BOOLEAN /\ Y.ephemeral \in Key /\ Y.root \in Root
  BY Parted
<1>5. ~StepFails(Y, m)
  <2>. SUFFICES ASSUME Y.last_remote \in DOMAIN Y.chains
                PROVE  CanFill(Y.chains[Y.last_remote], m.previous_counter)
    BY DEF StepFails
  <2>1. PICK c : c = Y.chains[Y.last_remote] OBVIOUS
  <2>2. c.counter \in Nat \cup {-1} BY <2>1 DEF SessionInv, ChainInv
  <2>3. m.previous_counter - c.counter <= scenario.ahead BY <2>2 DEF Near
  <2>. QED BY <1>2, <2>1, <2>3 DEF CanFill
<1>6. Due(Y, m, k, top, k)
  <2>1. {top, k} \subseteq Nat /\ top < k /\ top <= k OBVIOUS
  <2>2. {m.previous_counter, m.counter} \subseteq Nat BY <1>1, <1>2
  <2>3. k <= k OBVIOUS
  <2>. QED BY <2>1, <2>2, <2>3 DEF Due
<1>7. SteppedTo(Y, e, r, top, k) /\ Drawn(Y, e, m, k) BY <1>1, <1>3, <1>6, Stepping
<1>8. Entered(Y, m, k) = e BY <1>1, <1>3, <1>5 DEF Entered
<1>9. PICK c, g, d : c = NewChain(X.root, FALSE) /\ g = Fill(c, n) /\ d = Popped(g, n)
  OBVIOUS
<1>10. r \in DOMAIN e.chains /\ e.chains[r] = c /\ SessionInv(e, k) /\ e.pending = Y.pending
       /\ e.base_key = Y.base_key
  BY <1>2, <1>7, <1>9 DEF SteppedTo
<1>11. /\ c \in Chain /\ c.counter = -1 /\ c.sending = FALSE /\ c.open = TRUE /\ c.message_keys = {}
       /\ c.seed = X.root
  <2>1. X.root \in Root BY Parted
  <2>. QED BY <1>9, <2>1 DEF NewChain, Chain
<1>12. /\ g \in Chain /\ g.message_keys = (0 .. n) /\ g.seed = X.root
  <2>1. c.counter + 1 .. n = 0 .. n BY <1>11
  <2>2. c.counter \in Nat \cup {-1} BY <1>11
  <2>. QED BY <1>2, <1>9, <1>11, <2>1, <2>2, FillIs
<1>13. CanFill(c, n)
  <2>1. n - c.counter <= scenario.ahead BY <1>1, <1>11 DEF Near
  <2>. QED BY <1>11, <2>1 DEF CanFill
<1>14. Reaches(Y, m, k) BY <1>1, <1>5, <1>8, <1>10, <1>11, <1>13 DEF Reaches
<1>15. Decrypts(Y, m, k)
  <2>1. n \in 0..n BY <1>2
  <2>. QED BY <1>1, <1>2, <1>8, <1>9, <1>10, <1>12, <1>14, <2>1 DEF Decrypts
<1>16. e.chains \in Chains /\ e \in SessionType BY <1>10, Parted DEF SessionInv
<1>17. PICK b : b = (Y.pending /\ ~Decrypts(Y, m, k)) OBVIOUS
<1>18. b = FALSE BY <1>15, <1>17
<1>19. f = [e EXCEPT !.chains[r] = d, !.pending = b]
  BY <1>1, <1>8, <1>9, <1>10, <1>14, <1>17 DEF Tried
<1>20. /\ SessionInv(f, k) /\ f.base_key = e.base_key /\ f.root = e.root
       /\ f.ephemeral = e.ephemeral
       /\ f.last_remote = e.last_remote /\ f.previous_counter = e.previous_counter
       /\ DOMAIN f.chains = DOMAIN e.chains /\ f.chains[r] = d
       /\ \A x \in DOMAIN e.chains \ {r} : f.chains[x] = e.chains[x]
  <2>1. c.counter \in Nat \cup {-1} /\ c.message_keys \subseteq 0..c.counter BY <1>11
  <2>2. Onward(c, g) /\ n <= g.counter /\ g.message_keys \subseteq 0..g.counter
        /\ g.counter \in Nat \cup {-1}
    BY <1>2, <1>9, <1>11, <2>1, Filled
  <2>3. d \in Chain /\ Onward(g, d) /\ d.counter = g.counter
        /\ d.message_keys = g.message_keys \ {n}
    BY <1>2, <1>9, <1>12, <2>2, PoppedKey
  <2>4. Onward(c, d) BY <1>11, <1>12, <2>2, <2>3, OnwardOn
  <2>5. Replaces(e, r, d, b, k)
    <3>1. k \in Nat OBVIOUS
    <3>2. d.counter \in Nat \cup {-1} /\ d.message_keys \subseteq 0..d.counter BY <2>2, <2>3
    <3>3. e.chains[r].sending = FALSE /\ Onward(e.chains[r], d) BY <1>10, <1>11, <2>4
    <3>. QED BY ONLY <1>10, <1>18, <2>3, <3>1, <3>2, <3>3 DEF Replaces
  <2>6. f = Replace(e, r, d, b) BY <1>19 DEF Replace
  <2>. QED BY ONLY <2>5, <2>6, Replaced
<1>21. f.root = Append(X.root, {k, X.ephemeral})
  <2>1. {r, k} = {k, X.ephemeral} BY <1>2
  <2>2. e.root = Append(Append(Y.root, {r, Y.ephemeral}), {r, k}) BY <1>1, <1>7 DEF Drawn
  <2>. QED BY <1>2, <1>20, <2>1, <2>2
<1>22. k # r /\ k \in DOMAIN e.chains BY <1>1, <1>2, <1>7 DEF Drawn
<1>23. \A x \in DOMAIN Y.chains \ {Y.ephemeral} : x \in DOMAIN e.chains \ {r}
  BY <1>1, <1>2, <1>7 DEF Drawn
<1>24. Stept(X, Y, f, m, k)
  <2>1. /\ e.ephemeral = k /\ e.last_remote = r
        /\ e.previous_counter = (IF Y.ephemeral \in DOMAIN Y.chains
                                 THEN Y.chains[Y.ephemeral].counter ELSE Y.previous_counter)
        /\ DOMAIN e.chains = ((DOMAIN Y.chains \cup {r}) \ {Y.ephemeral}) \cup {k}
        /\ e.chains[k].counter = -1
        /\ \A x \in DOMAIN Y.chains \ {Y.ephemeral} :
             e.chains[x] = Closed(Y.chains, Y.last_remote, m.previous_counter)[x]
    BY <1>1, <1>7 DEF Drawn
  <2>2. f.chains[k].counter = -1 BY <1>20, <1>22, <2>1
  <2>3. \A x \in DOMAIN Y.chains \ {Y.ephemeral} :
          f.chains[x] = Closed(Y.chains, Y.last_remote, m.previous_counter)[x]
    BY <1>20, <1>23, <2>1
  <2>4. f.chains[X.ephemeral] = Popped(Fill(NewChain(X.root, FALSE), m.counter), m.counter)
    BY <1>1, <1>2, <1>9, <1>20
  <2>5. f.ephemeral = k /\ f.last_remote = X.ephemeral /\ f.base_key = Y.base_key
        /\ SessionInv(f, k)
    BY <1>2, <1>10, <1>20, <2>1
  <2>6. f.previous_counter = (IF Y.ephemeral \in DOMAIN Y.chains
                              THEN Y.chains[Y.ephemeral].counter ELSE Y.previous_counter)
    BY <1>20, <2>1
  <2>7. DOMAIN f.chains = ((DOMAIN Y.chains \cup {X.ephemeral}) \ {Y.ephemeral}) \cup {k}
    BY <1>2, <1>20, <2>1
  <2>. QED BY ONLY <1>21, <2>2, <2>3, <2>4, <2>5, <2>6, <2>7 DEF Stept
<1>. QED BY <1>1, <1>3, <1>15, <1>24

LEMMA ChainOf ==
  ASSUME NEW s, NEW top, SessionInv(s, top), NEW x \in DOMAIN s.chains
  PROVE  s.chains[x] \in Chain /\ s.chains[x].counter \in Nat \cup {-1}
<1>1. s.chains \in Chains BY Parted
<1>. QED BY <1>1, ChainsAre DEF SessionInv, ChainInv

LEMMA FiledTook ==
  ASSUME NEW s, NEW top, SessionInv(s, top), NEW m, m.counter \in Nat, NEW R, Filed(m, s, R),
         NEW e, Took(s, e, m, top), NEW x, x.counter \in Nat, Filed(x, s, R),
         x.seed = m.seed /\ x.counter = m.counter => x = m
  PROVE  Filed(x, e, R \cup {m})
<1>1. PICK r, c, g : r = m.ratchet_key /\ c = s.chains[r] /\ g = Fill(c, m.counter) OBVIOUS
<1>2. r \in DOMAIN s.chains /\ r # s.ephemeral /\ c.seed = m.seed BY <1>1 DEF Filed, Serves
<1>3. c \in Chain /\ c.counter \in Nat \cup {-1} BY <1>1, <1>2, ChainOf
<1>4. DOMAIN e.chains = DOMAIN s.chains /\ e.ephemeral = s.ephemeral BY DEF Took
<1>5. CASE x.ratchet_key = r
  <2>1. Serves(c, x, R) BY <1>1, <1>5 DEF Filed
  <2>2. Serves(g, x, R) BY <1>1, <1>3, <2>1, ServesFill
  <2>3. g \in Chain /\ g.seed = c.seed BY <1>1, <1>3, FillIs
  <2>4. Serves(Popped(g, m.counter), x, R \cup {m}) BY <1>2, <2>2, <2>3, ServesPopped
  <2>5. e.chains[r] = Popped(g, m.counter) BY <1>1 DEF Took
  <2>. QED BY <1>2, <1>4, <1>5, <2>4, <2>5 DEF Filed
<1>6. CASE x.ratchet_key # r
  <2>1. e.chains[x.ratchet_key] = s.chains[x.ratchet_key] BY <1>1, <1>6 DEF Filed, Took
  <2>. QED BY <1>4, <2>1 DEF Filed, Serves
<1>. QED BY <1>5, <1>6

\* The end that is ahead reads.
LEMMA AheadReads ==
  ASSUME NEW X, NEW Y, NEW M, NEW N, NEW R, NEW top, Linked(X, Y, M, N, R),
         SessionInv(X, top), Speaks(Y, N, top), NEW m \in N, NEW e, Took(X, e, m, top)
  PROVE  Linked(e, Y, M, N, R \cup {m})
<1>1. /\ Ahead(X, Y) /\ Filed(m, X, R) /\ m.counter \in Nat
      /\ m.seed = Y.root => m.counter <= Y.chains[Y.ephemeral].counter
  BY DEF Linked, Speaks
<1>2. /\ e.root = X.root /\ e.ephemeral = X.ephemeral /\ e.last_remote = X.last_remote
      /\ e.previous_counter = X.previous_counter /\ DOMAIN e.chains = DOMAIN X.chains
  BY DEF Took
<1>3. Ahead(e, Y)
  <2>1. ASSUME Y.ephemeral \in DOMAIN Y.chains
        PROVE  /\ Y.ephemeral \in DOMAIN e.chains
               /\ e.chains[Y.ephemeral].seed = Y.root /\ e.chains[Y.ephemeral].open
               /\ e.chains[Y.ephemeral].counter <= Y.chains[Y.ephemeral].counter
    <3>1. PICK c, d : c = X.chains[Y.ephemeral] /\ d = e.chains[Y.ephemeral] OBVIOUS
    <3>2. /\ Y.ephemeral \in DOMAIN X.chains /\ c.seed = Y.root /\ c.open
          /\ c.counter <= Y.chains[Y.ephemeral].counter
      BY <1>1, <2>1, <3>1 DEF Ahead
    <3>3. CASE m.ratchet_key = Y.ephemeral
      <4>1. c \in Chain /\ c.counter \in Nat \cup {-1} BY <3>1, <3>2, ChainOf
      <4>2. m.counter <= Y.chains[Y.ephemeral].counter
        BY <1>1, <3>1, <3>2, <3>3 DEF Filed, Serves
      <4>3. PICK g : g = Fill(c, m.counter) OBVIOUS
      <4>4. /\ g \in Chain /\ g.counter = (IF m.counter <= c.counter THEN c.counter ELSE m.counter)
            /\ g.open = c.open /\ g.seed = c.seed
        BY <1>1, <4>1, <4>3, FillIs
      <4>5. d = Popped(g, m.counter) BY <3>1, <3>3, <4>3 DEF Took
      <4>6. d.counter = g.counter /\ d.open = g.open /\ d.seed = g.seed BY <4>4, <4>5, PopIs
      <4>. QED BY <1>2, <3>1, <3>2, <4>2, <4>4, <4>6
    <3>4. CASE m.ratchet_key # Y.ephemeral
      <4>1. d = c BY <3>1, <3>2, <3>4 DEF Took
      <4>. QED BY <1>2, <3>1, <3>2, <4>1
    <3>. QED BY <3>3, <3>4
  <2>. QED BY <1>1, <1>2, <2>1 DEF Ahead
<1>4. \A x \in M : Filed(x, Y, R \cup {m}) \/ Brings(x, e)
  BY <1>2 DEF Linked, Filed, Serves, Brings
<1>5. ASSUME NEW x \in N PROVE Filed(x, e, R \cup {m})
  <2>1. /\ Filed(x, X, R) /\ x.counter \in Nat
        /\ x.seed = m.seed /\ x.counter = m.counter => x = m
    BY DEF Linked, Speaks
  <2>. QED BY <1>1, <2>1, FiledTook
<1>. QED BY <1>2, <1>3, <1>4, <1>5 DEF Linked

\* The end that is behind reads what it has a chain for.
LEMMA BehindReads ==
  ASSUME NEW X, NEW Y, NEW M, NEW N, NEW R, NEW top, Linked(X, Y, M, N, R),
         SessionInv(Y, top), Speaks(X, M, top), NEW m \in M, Filed(m, Y, R),
         NEW e, Took(Y, e, m, top)
  PROVE  Linked(X, e, M, N, R \cup {m})
<1>1. Ahead(X, Y) /\ m.counter \in Nat BY DEF Linked, Speaks
<1>2. /\ e.root = Y.root /\ e.ephemeral = Y.ephemeral /\ e.last_remote = Y.last_remote
      /\ e.previous_counter = Y.previous_counter /\ DOMAIN e.chains = DOMAIN Y.chains
      /\ m.ratchet_key # Y.ephemeral
  BY DEF Took
<1>3. Y.ephemeral \in DOMAIN Y.chains => e.chains[Y.ephemeral] = Y.chains[Y.ephemeral]
  BY <1>2 DEF Took
<1>4. ASSUME Y.last_remote \in DOMAIN Y.chains PROVE e.chains[Y.last_remote].open
  <2>1. PICK c, d : c = Y.chains[Y.last_remote] /\ d = e.chains[Y.last_remote] OBVIOUS
  <2>2. c.open /\ c \in Chain /\ c.counter \in Nat \cup {-1}
    BY <1>1, <1>4, <2>1, ChainOf DEF Ahead
  <2>3. CASE m.ratchet_key = Y.last_remote
    <3>1. PICK g : g = Fill(c, m.counter) OBVIOUS
    <3>2. g \in Chain /\ g.open = c.open BY <1>1, <2>2, <3>1, FillIs
    <3>3. d = Popped(g, m.counter) BY <2>1, <2>3, <3>1 DEF Took
    <3>4. d.open = g.open BY <3>2, <3>3, PopIs
    <3>. QED BY ONLY <2>1, <2>2, <3>2, <3>4, Zenon
  <2>4. CASE m.ratchet_key # Y.last_remote
    <3>1. d = c BY <1>4, <2>1, <2>4 DEF Took
    <3>. QED BY <2>1, <2>2, <3>1
  <2>. QED BY <2>3, <2>4
<1>5. Ahead(X, e) BY <1>1, <1>2, <1>3, <1>4 DEF Ahead
<1>6. ASSUME NEW x \in M PROVE Filed(x, e, R \cup {m}) \/ Brings(x, X)
  <2>1. /\ x.counter \in Nat
        /\ x.seed = m.seed /\ x.counter = m.counter => x = m
    BY DEF Speaks
  <2>2. CASE Filed(x, Y, R) BY <1>1, <2>1, <2>2, FiledTook
  <2>. QED BY <2>2 DEF Linked
<1>7. \A x \in N : Filed(x, X, R \cup {m}) BY DEF Linked, Filed, Serves
<1>. QED BY <1>2, <1>5, <1>6, <1>7 DEF Linked

\* The end that is behind takes the step, and is ahead then.
LEMMA BehindSteps ==
  ASSUME NEW X, NEW Y, NEW M, NEW N, NEW R, NEW top \in Nat, Linked(X, Y, M, N, R),
         Speaks(X, M, top), Speaks(Y, N, top), NEW m \in M, Brings(m, X),
         NEW k, k = top + 1, NEW e, Stept(X, Y, e, m, k)
  PROVE  Linked(e, X, N, M, R \cup {m})
<1>1. PICK x, y, n, c : /\ x = X.ephemeral /\ y = Y.ephemeral /\ n = m.counter
                        /\ c = NewChain(X.root, FALSE)
  OBVIOUS
<1>2. Ahead(X, Y) /\ SessionInv(X, top) /\ SessionInv(Y, top) /\ n \in Nat
      /\ m.ratchet_key = x /\ m.seed = X.root /\ m.previous_counter = X.previous_counter
      /\ n <= X.chains[x].counter /\ m.previous_counter \in Nat
  BY <1>1 DEF Linked, Speaks, Brings
<1>3. /\ X.root \in Root /\ DOMAIN X.chains \subseteq 3..top /\ DOMAIN Y.chains \subseteq 3..top
      /\ x \in 1..2 \cup DOMAIN X.chains /\ y \in 1..2 \cup DOMAIN Y.chains /\ x \in 3..top
  BY <1>1, <1>2, Parted DEF SessionInv, Speaks
<1>4. /\ x \in DOMAIN X.chains /\ x \notin DOMAIN Y.chains /\ x # y
      /\ k \notin DOMAIN X.chains /\ k \notin DOMAIN Y.chains /\ k # x
      /\ y \notin DOMAIN Y.chains => y \notin DOMAIN X.chains
  <2>1. x \notin DOMAIN Y.chains BY <1>1, <1>2 DEF Ahead
  <2>2. k \notin 3..top /\ ~(x \in 1..2) /\ \A i \in 1..2 : i \notin 3..top BY <1>3
  <2>. QED BY <1>3, <2>1, <2>2
<1>5. /\ e.root = Append(X.root, {k, x}) /\ e.ephemeral = k /\ e.last_remote = x
      /\ e.previous_counter = (IF y \in DOMAIN Y.chains THEN Y.chains[y].counter
                               ELSE Y.previous_counter)
      /\ DOMAIN e.chains = ((DOMAIN Y.chains \cup {x}) \ {y}) \cup {k}
      /\ e.chains[x] = Popped(Fill(c, n), n)
      /\ \A z \in DOMAIN Y.chains \ {y} :
           e.chains[z] = Closed(Y.chains, Y.last_remote, m.previous_counter)[z]
  BY <1>1 DEF Stept
<1>6. /\ c \in Chain /\ c.counter = -1 /\ c.message_keys = {} /\ c.open = TRUE /\ c.seed = X.root
  BY <1>1, <1>3 DEF NewChain, Chain
<1>7. PICK g, d : g = Fill(c, n) /\ d = Popped(g, n) OBVIOUS
<1>8. g \in Chain /\ g.counter = n /\ g.open = TRUE /\ g.seed = X.root
  BY <1>2, <1>6, <1>7, FillIs
<1>9. d.counter = n /\ d.open = TRUE /\ d.seed = X.root /\ e.chains[x] = d
  BY <1>5, <1>7, <1>8, PopIs
<1>10. Ahead(e, X)
  <2>1. /\ X.last_remote = y /\ X.previous_counter >= 0 /\ Y.previous_counter >= 0
        /\ y \in DOMAIN Y.chains => /\ y \in DOMAIN X.chains /\ X.chains[y].open
                                    /\ Y.chains[y].counter >= 0
    BY <1>1, <1>2 DEF Ahead
  <2>2. e.previous_counter >= 0 BY <1>5, <2>1
  <2>3. e.ephemeral \notin DOMAIN X.chains /\ X.last_remote # x BY <1>4, <1>5, <2>1
  <2>4. X.last_remote \in DOMAIN X.chains => X.chains[X.last_remote].open BY <1>4, <2>1
  <2>5. x \in DOMAIN e.chains BY <1>4, <1>5
  <2>6. X.chains[x].counter >= 0
    <3>1. X.chains[x].counter \in Nat \cup {-1} BY <1>2, <1>4, ChainOf
    <3>. QED BY <1>2, <3>1
  <2>. QED BY <1>1, <1>2, <1>5, <1>9, <2>1, <2>2, <2>3, <2>4, <2>5, <2>6 DEF Ahead
<1>11. ASSUME NEW z \in N PROVE Filed(z, X, R \cup {m}) BY <1>11 DEF Linked, Filed, Serves
<1>12. ASSUME NEW z \in M PROVE Filed(z, e, R \cup {m})
  <2>1. z.counter \in Nat /\ (z.seed = m.seed /\ z.counter = m.counter => z = m)
    BY DEF Speaks
  <2>2. CASE Brings(z, X)
    <3>1. z.ratchet_key = x /\ z.seed = X.root BY <1>1, <2>2 DEF Brings
    <3>2. Serves(c, z, R)
      <4>1. ~(z.counter <= c.counter) BY <1>6, <2>1
      <4>. QED BY <1>6, <3>1, <4>1 DEF Serves
    <3>3. Serves(g, z, R) BY <1>2, <1>6, <1>7, <2>1, <3>2, ServesFill
    <3>4. z.seed = g.seed /\ z.counter = n => z = m BY <1>1, <1>2, <1>8, <2>1
    <3>5. Serves(d, z, R \cup {m}) BY <1>7, <1>8, <3>3, <3>4, ServesPopped
    <3>. QED BY <1>4, <1>5, <1>9, <3>1, <3>5 DEF Filed
  <2>3. CASE Filed(z, Y, R)
    <3>1. PICK r, b : r = z.ratchet_key /\ b = Y.chains[r] OBVIOUS
    <3>2. r \in DOMAIN Y.chains /\ r # y /\ Serves(b, z, R) BY <1>1, <2>3, <3>1 DEF Filed
    <3>3. b \in Chain /\ b.counter \in Nat \cup {-1} BY <1>2, <3>1, <3>2, ChainOf
    <3>4. r \in DOMAIN e.chains /\ r # k BY <1>4, <1>5, <3>2
    <3>5. PICK f : f = Closed(Y.chains, Y.last_remote, m.previous_counter) OBVIOUS
    <3>6. e.chains[r] = f[r] BY <1>5, <3>2, <3>5
    <3>7. Serves(f[r], z, R)
      <4>1. Y.chains = [i \in DOMAIN Y.chains |-> Y.chains[i]] BY <1>2, Parted, ChainsAre
      <4>2. CASE Y.last_remote = r
        <5>1. z.counter <= m.previous_counter BY <1>2, <3>1, <3>2, <4>2 DEF Linked
        <5>2. f[r] = [Fill(b, m.previous_counter) EXCEPT !.open = FALSE]
          BY <3>1, <3>2, <3>5, <4>1, <4>2 DEF Closed
        <5>. QED BY <1>2, <2>1, <3>2, <3>3, <5>1, <5>2, ServesShut
      <4>3. CASE Y.last_remote # r
        <5>1. f[r] = b BY <3>1, <3>2, <3>5, <4>1, <4>3 DEF Closed
        <5>. QED BY <3>2, <5>1
      <4>. QED BY <4>2, <4>3
    <3>. QED BY <1>5, <3>1, <3>4, <3>6, <3>7 DEF Filed, Serves
  <2>. QED BY <2>2, <2>3 DEF Linked
<1>13. ASSUME X.last_remote \in DOMAIN X.chains, NEW z \in N, z.ratchet_key = X.last_remote
       PROVE  z.counter <= e.previous_counter
  <2>1. X.last_remote = y BY <1>1, <1>2 DEF Ahead
  <2>2. y \in DOMAIN Y.chains BY <1>4, <1>13, <2>1
  <2>3. X.chains[y].seed = Y.root BY <1>1, <1>2, <2>2 DEF Ahead
  <2>4. z.seed = Y.root BY <1>13, <2>1, <2>3 DEF Linked, Filed, Serves
  <2>5. z.counter <= Y.chains[y].counter BY <1>1, <2>4 DEF Speaks
  <2>. QED BY <1>5, <2>2, <2>5
<1>. QED BY <1>10, <1>11, <1>12, <1>13 DEF Linked

\* m is the next message of an end that sends.
Speaking(s, e, m, n) ==
  /\ s.ephemeral \in DOMAIN s.chains /\ n = s.chains[s.ephemeral].counter + 1
  /\ SentOn(s, e, n) /\ m.ratchet_key = s.ephemeral /\ m.counter = n /\ m.seed = s.root
  /\ m.previous_counter = s.previous_counter

LEMMA AheadSends ==
  ASSUME NEW X, NEW Y, NEW M, NEW N, NEW R, NEW top, Linked(X, Y, M, N, R),
         SessionInv(X, top), NEW e, NEW m, NEW n, Speaking(X, e, m, n)
  PROVE  Linked(e, Y, M \cup {m}, N, R)
<1>1. /\ e.root = X.root /\ e.ephemeral = X.ephemeral /\ e.last_remote = X.last_remote
      /\ e.previous_counter = X.previous_counter /\ DOMAIN e.chains = DOMAIN X.chains
      /\ \A z \in DOMAIN X.chains \ {X.ephemeral} : e.chains[z] = X.chains[z]
  BY DEF Speaking, SentOn
<1>2. Ahead(X, Y) BY DEF Linked
<1>3. X.ephemeral \notin DOMAIN Y.chains BY <1>2 DEF Ahead
<1>4. Y.ephemeral \in DOMAIN Y.chains => e.chains[Y.ephemeral] = X.chains[Y.ephemeral]
  BY <1>1, <1>2, <1>3 DEF Ahead
<1>5. Ahead(e, Y) BY <1>1, <1>2, <1>4 DEF Ahead
<1>6. \A z \in M \cup {m} : Filed(z, Y, R) \/ Brings(z, e)
  BY <1>1 DEF Linked, Brings, Speaking
<1>7. \A z \in N : Filed(z, e, R) BY <1>1 DEF Linked, Filed
<1>8. Y.last_remote \in DOMAIN Y.chains =>
        \A z \in M \cup {m} : z.ratchet_key = Y.last_remote => z.counter <= e.previous_counter
  BY <1>1, <1>3 DEF Linked, Speaking
<1>. QED BY <1>5, <1>6, <1>7, <1>8 DEF Linked

LEMMA BehindSends ==
  ASSUME NEW X, NEW Y, NEW M, NEW N, NEW R, NEW top, Linked(X, Y, M, N, R),
         SessionInv(X, top), SessionInv(Y, top), NEW e, NEW m, NEW n, Speaking(Y, e, m, n)
  PROVE  Linked(X, e, M, N \cup {m}, R)
<1>1. /\ e.root = Y.root /\ e.ephemeral = Y.ephemeral /\ e.last_remote = Y.last_remote
      /\ e.previous_counter = Y.previous_counter /\ DOMAIN e.chains = DOMAIN Y.chains
      /\ \A z \in DOMAIN Y.chains \ {Y.ephemeral} : e.chains[z] = Y.chains[z]
      /\ e.chains[Y.ephemeral].counter = n
  BY DEF Speaking, SentOn
<1>2. PICK y, c : y = Y.ephemeral /\ c = X.chains[y] OBVIOUS
<1>3. /\ Ahead(X, Y) /\ y \in DOMAIN Y.chains /\ X.ephemeral \notin DOMAIN Y.chains
      /\ y \in DOMAIN X.chains /\ c.seed = Y.root /\ c.open
      /\ c.counter <= Y.chains[y].counter /\ Y.chains[y].counter >= 0
      /\ n = Y.chains[y].counter + 1
  BY <1>2 DEF Linked, Ahead, Speaking
<1>4. Y.chains[y].counter \in Nat /\ c.counter \in Nat \cup {-1}
  <2>1. Y.chains[y].counter \in Nat \cup {-1} BY <1>3, ChainOf
  <2>. QED BY <1>2, <1>3, <2>1, ChainOf
<1>5. Ahead(X, e)
  <2>1. c.counter <= n /\ n >= 0 BY <1>3, <1>4
  <2>2. Y.last_remote \in DOMAIN Y.chains => e.chains[Y.last_remote].open
    BY <1>1, <1>3 DEF Ahead
  <2>. QED BY <1>1, <1>2, <1>3, <2>1, <2>2 DEF Ahead
<1>6. Filed(m, X, R)
  <2>1. m.ratchet_key = y /\ m.counter = n /\ m.seed = Y.root BY <1>2 DEF Speaking
  <2>2. ~(m.counter <= c.counter) BY <1>3, <1>4, <2>1
  <2>3. X.ephemeral # y BY <1>3
  <2>. QED BY <1>2, <1>3, <2>1, <2>2, <2>3 DEF Filed, Serves
<1>7. \A z \in M : Filed(z, e, R) \/ Brings(z, X) BY <1>1 DEF Linked, Filed
<1>. QED BY <1>1, <1>5, <1>6, <1>7 DEF Linked

\* The end S reads from the end T.
LEMMA JoinedReads ==
  ASSUME NEW S, NEW T, NEW M, NEW N, NEW R, NEW top \in Nat, Joined(S, T, M, N, R),
         Speaks(S, M, top), Speaks(T, N, top), NEW m \in N, Near(m),
         m.previous_counter < scenario.ahead, NEW k, k = top + 1, NEW e, e = Tried(S, m, k)
  PROVE  /\ m \notin R => Decrypts(S, m, k)
         /\ ~Decrypts(S, m, k) => e = S
         /\ Decrypts(S, m, k) =>
              /\ Joined(e, T, M, N, R \cup {m}) /\ e.base_key = S.base_key
              /\ \/ /\ e.previous_counter = S.previous_counter /\ e.ephemeral = S.ephemeral
                    /\ DOMAIN e.chains = DOMAIN S.chains
                    /\ S.ephemeral \in DOMAIN S.chains =>
                         e.chains[S.ephemeral] = S.chains[S.ephemeral]
                 \/ /\ e.previous_counter = (IF S.ephemeral \in DOMAIN S.chains
                                             THEN S.chains[S.ephemeral].counter
                                             ELSE S.previous_counter)
                    /\ e.chains[e.ephemeral].counter = -1
<1>1. /\ SessionInv(S, top) /\ SessionInv(T, top) /\ m.ratchet_key \in 3..top
      /\ m.previous_counter \in Nat
  BY DEF Speaks
<1>2. CASE Filed(m, S, R)
  <2>1. /\ m \notin R => Decrypts(S, m, k)
        /\ ~Decrypts(S, m, k) => e = S
        /\ Decrypts(S, m, k) => Took(S, e, m, top)
    BY <1>1, <1>2, ReadsFiled
  <2>2. ASSUME Decrypts(S, m, k) PROVE Joined(e, T, M, N, R \cup {m})
    <3>1. Took(S, e, m, top) BY <2>1, <2>2
    <3>2. CASE Linked(S, T, M, N, R) BY <1>1, <3>1, <3>2, AheadReads DEF Joined
    <3>3. CASE Linked(T, S, N, M, R) BY <1>1, <1>2, <3>1, <3>3, BehindReads DEF Joined
    <3>. QED BY <3>2, <3>3 DEF Joined
  <2>. QED BY <2>1, <2>2 DEF Took
<1>3. CASE ~Filed(m, S, R)
  <2>1. Linked(T, S, N, M, R) /\ Brings(m, T) /\ Ahead(T, S) BY <1>3 DEF Joined, Linked
  <2>2. Decrypts(S, m, k) /\ Stept(T, S, e, m, k) BY <1>1, <2>1, ReadsBrought
  <2>3. Linked(e, T, M, N, R \cup {m}) BY <2>1, <2>2, BehindSteps
  <2>. QED BY <2>2, <2>3 DEF Joined, Stept
<1>. QED BY <1>2, <1>3

LEMMA JoinedSends ==
  ASSUME NEW S, NEW T, NEW M, NEW N, NEW R, NEW top, Joined(S, T, M, N, R),
         SessionInv(S, top), SessionInv(T, top), NEW e, NEW m, NEW n, Speaking(S, e, m, n)
  PROVE  Joined(e, T, M \cup {m}, N, R)
BY AheadSends, BehindSends DEF Joined

LEMMA JoinedSwaps ==
  ASSUME NEW S, NEW T, NEW M, NEW N, NEW R
  PROVE  /\ Joined(S, T, M, N, R) <=> Joined(T, S, N, M, R)
         /\ Joined(S, T, M, N, R) => S.previous_counter >= 0
BY DEF Joined, Linked, Ahead

-----------------------------------------------------------------------------
\* One party starts one session, and no limit is met.

\* The end of p: the session it has, or the one it makes of the first message.
End(p, b) ==
  IF record[p] = <<>> THEN Responded(b, PreKeyOf(b), SignedPreKey[p]) ELSE record[p][1]
Said(p) == {m \in sent : m.from = p}

\* No counter is above the number of messages.
Sized(s, c) ==
  /\ s.previous_counter < c \/ s.previous_counter = 0
  /\ s.ephemeral \in DOMAIN s.chains => s.chains[s.ephemeral].counter < c

\* The session with the base key b, which a started.
Session(a, b) ==
  /\ record[a] = <<End(a, b)>> /\ record[Peer(a)] \in {<<>>, <<End(Peer(a), b)>>}
  /\ \A m \in sent : m.base_key = b
  /\ \A p \in Parties :
       /\ End(p, b).base_key = b /\ Sized(End(p, b), Cardinality(sent))
       /\ Joined(End(p, b), End(Peer(p), b), Said(p), Said(Peer(p)), DOMAIN read)
  /\ record[Peer(a)] = <<>> =>
       /\ End(a, b).pending = TRUE /\ PreKeyOf(b) \in pre_keys[Peer(a)] \cup {0}
       /\ \A m \in sent : m.from = a /\ m.prekey = TRUE
Level(a) ==
  /\ \A p \in Parties : disk[p] = [record |-> record[p], pre_keys |-> pre_keys[p]]
  /\ Cardinality(sent) <= scenario.sends
  /\ \A m \in sent : m.counter < Cardinality(sent) /\ m.previous_counter < Cardinality(sent)
  /\ \/ sent = {} /\ \A p \in Parties : record[p] = <<>>
     \/ started[a] = 1 /\ \E b \in 3..keys : Session(a, b)
LevelInv == \A a \in Parties : scenario.initiators = {a} => Level(a)

\* One session for each party that starts one, and no chain can be asked for too much.
Modest ==
  /\ MaxSessions <= 1
  /\ \A s \in Scenarios : Cardinality(s.initiators) = 1 => s.sends <= s.ahead

\* a started the session b and nobody else any.
Alone(a, b) ==
  /\ RatchetInv /\ Modest /\ a \in Parties /\ scenario.initiators = {a}
  /\ b \in 3..keys /\ Session(a, b) /\ Level(a)

LEMMA ScenarioIs ==
  ASSUME RatchetInv, Modest, NEW a, scenario.initiators = {a}
  PROVE  /\ scenario.ahead \in Nat /\ scenario.sends \in Nat /\ scenario.sends <= scenario.ahead
<1>1. scenario \in Scenarios /\ scenario \in Scenario
  BY DoubleRatchetAssumption DEF RatchetInv, Shapes
<1>2. scenario.ahead \in Nat /\ scenario.sends \in 0..MaxSends /\ MaxSends \in Nat
  BY <1>1, DoubleRatchetAssumption DEF Scenario
<1>3. Cardinality(scenario.initiators) = 1 BY FS_Singleton
<1>. QED BY <1>1, <1>2, <1>3 DEF Modest

LEMMA EndSpeaks ==
  ASSUME RatchetInv, NEW p \in Parties, NEW b \in 3..keys, NEW s, s = End(p, b),
         record[p] \in {<<>>, <<s>>}
  PROVE  Speaks(s, Said(p), keys)
<1>1. keys \in Nat /\ record[p] \in Views(p) BY DEF RatchetInv, Shapes, Views
<1>2. \A m \in Said(p) : MessageInv(m, keys) BY DEF RatchetInv, Sound, Said
<1>3. CASE record[p] = <<>>
  <2>1. SignedPreKey[p] \in 1..2 BY DoubleRatchetAssumption
  <2>2. s = Responded(b, PreKeyOf(b), SignedPreKey[p]) BY <1>3 DEF End
  <2>3. SessionInv(s, keys) BY <1>1, <2>1, <2>2, RespondedIsSound DEF Responds
  <2>4. Len(s.root) = 1 BY <2>2 DEF Responded, Master
  <2>5. ASSUME NEW m \in Said(p) PROVE m.seed # s.root
    <3>1. Len(m.seed) > 1 BY <1>2 DEF MessageInv
    <3>. SUFFICES ASSUME m.seed = s.root PROVE FALSE OBVIOUS
    <3>2. Len(m.seed) = 1 BY ONLY <2>4, m.seed = s.root
    <3>. QED BY ONLY <3>1, <3>2
  <2>. QED BY <1>1, <1>2, <2>3, <2>5 DEF Speaks, RatchetInv, NoKeyReuse, Said, MessageInv
<1>4. CASE record[p] # <<>>
  <2>1. record[p] = <<s>> BY <1>4
  <2>2. 1 \in 1..Len(record[p]) /\ record[p][1] = s BY <2>1
  <2>3. SessionInv(s, keys) BY <1>1, <2>2 DEF RatchetInv, Sound, RecordInv
  <2>4. \A m \in Said(p) : m.seed = s.root => m.counter <= s.chains[s.ephemeral].counter
    BY <1>1, <2>2 DEF RatchetInv, Past, Said
  <2>. QED BY <1>1, <1>2, <2>3, <2>4 DEF Speaks, RatchetInv, NoKeyReuse, Said, MessageInv
<1>. QED BY <1>3, <1>4

LEMMA SetFirst ==
  ASSUME NEW s, NEW top, SessionInv(s, top), s.closed = FALSE
  PROVE  SetSession(<<>>, s) = <<s>>
<1>1. PICK U, V : V = <<>> /\ U = SetSession(V, s) OBVIOUS
<1>2. RecordInv(V, top) /\ Bases(V) = {} /\ Len(V) = 0 BY <1>1 DEF RecordInv, Bases
<1>3. RecordInv(U, top) /\ Len(U) = 1 /\ U[1] = s
  <2>1. s.base_key \notin Bases(V) /\ U = SetSession(V, s) BY <1>1, <1>2
  <2>0. RecordInv(V, top) BY <1>2
  <2>2. RecordInv(U, top) /\ Len(U) = Len(V) + 1 /\ U[1] = s
    BY ONLY <2>0, <2>1, SessionInv(s, top), s.closed = FALSE, SettingSession
  <2>. QED BY <1>2, <2>2
<1>4. U \in Seq(SessionType) BY <1>3 DEF RecordInv
<1>5. U = <<s>> BY <1>3, <1>4
<1>. QED BY <1>1, <1>5

\* The two ends are of one session, and what either reads the other sent.
LEMMA EndsAre ==
  ASSUME NEW a, NEW b, Alone(a, b), NEW p \in Parties, NEW q, q = Peer(p)
  PROVE  /\ q \in Parties /\ q # p /\ Peer(q) = p /\ Parties = {p, q}
         /\ record[p] \in {<<>>, <<End(p, b)>>} /\ record[q] \in {<<>>, <<End(q, b)>>}
         /\ record[p] = <<>> => q = a /\ p # a
         /\ Speaks(End(p, b), Said(p), keys) /\ Speaks(End(q, b), Said(q), keys)
         /\ Joined(End(p, b), End(q, b), Said(p), Said(q), DOMAIN read)
         /\ keys \in Nat
<1>1. q \in Parties /\ q # p /\ Peer(q) = p /\ Parties = {p, q} BY TwoParties
<1>2. Session(a, b) /\ a \in Parties /\ RatchetInv /\ b \in 3..keys BY DEF Alone
<1>3. record[a] = <<End(a, b)>> /\ record[Peer(a)] \in {<<>>, <<End(Peer(a), b)>>}
  BY <1>2 DEF Session
<1>4. a = p \/ a = q BY <1>1, <1>2
<1>5. record[p] \in {<<>>, <<End(p, b)>>} /\ record[q] \in {<<>>, <<End(q, b)>>}
  BY <1>1, <1>3, <1>4
<1>6. record[a] # <<>> BY <1>3
<1>7. Speaks(End(p, b), Said(p), keys) /\ Speaks(End(q, b), Said(q), keys)
  BY <1>1, <1>2, <1>5, EndSpeaks
<1>8. Joined(End(p, b), End(q, b), Said(p), Said(q), DOMAIN read) BY <1>2 DEF Session
<1>. QED BY <1>1, <1>2, <1>4, <1>5, <1>6, <1>7, <1>8 DEF RatchetInv, Shapes

\* p tries m on its end s of the session, which leaves e.
Faces(a, b, p, m, s, k, e) ==
  /\ Alone(a, b) /\ m \in sent /\ p \in Parties /\ m.from # p
  /\ s = End(p, b) /\ k = keys + 1 /\ e = Tried(s, m, k)

\* What it then is.
Fares(b, p, m, s, k, e) ==
  /\ m.base_key = b /\ MessageInv(m, keys)
  /\ m \notin DOMAIN read => Decrypts(s, m, k)
  /\ ~Decrypts(s, m, k) => e = s
  /\ Decrypts(s, m, k) =>
       /\ Joined(e, End(Peer(p), b), Said(p), Said(Peer(p)), DOMAIN read \cup {m})
       /\ e.base_key = b /\ Sized(e, Cardinality(sent))

LEMMA EndReads ==
  ASSUME NEW a, NEW b, NEW p, NEW m, NEW s, NEW k, NEW e, Faces(a, b, p, m, s, k, e)
  PROVE  Fares(b, p, m, s, k, e)
<1>0. /\ Alone(a, b) /\ m \in sent /\ p \in Parties /\ m.from # p
      /\ s = End(p, b) /\ k = keys + 1 /\ e = Tried(s, m, k)
  BY DEF Faces
<1>1. PICK q : q = Peer(p) OBVIOUS
<1>2. /\ q \in Parties /\ q # p /\ Peer(q) = p /\ Parties = {p, q}
      /\ Speaks(End(p, b), Said(p), keys) /\ Speaks(End(q, b), Said(q), keys)
      /\ Joined(End(p, b), End(q, b), Said(p), Said(q), DOMAIN read) /\ keys \in Nat
  BY <1>0, <1>1, EndsAre
<1>3. RatchetInv /\ Session(a, b) /\ Level(a) /\ Modest /\ scenario.initiators = {a}
  BY <1>0 DEF Alone
<1>4. MessageInv(m, keys) BY <1>0, <1>3 DEF RatchetInv, Sound
<1>5. m.from = q /\ m \in Said(q) BY <1>0, <1>2, <1>4 DEF MessageInv, Said
<1>6. m.base_key = b /\ s.base_key = b /\ Sized(s, Cardinality(sent)) BY <1>0, <1>3 DEF Session
<1>7. PICK c : c = Cardinality(sent) OBVIOUS
<1>8. c \in Nat BY <1>3, <1>7, FS_CardinalityType DEF RatchetInv, Shapes
<1>9. m.counter \in Nat /\ m.previous_counter \in Nat /\ m.counter < c
      /\ m.previous_counter < c /\ c <= scenario.sends
  BY <1>0, <1>3, <1>4, <1>7 DEF Level, MessageInv
<1>10. /\ scenario.ahead \in Nat /\ scenario.sends \in Nat
       /\ scenario.sends <= scenario.ahead
  BY <1>3, ScenarioIs
<1>11. m.counter < scenario.ahead /\ m.previous_counter < scenario.ahead BY <1>8, <1>9, <1>10
<1>12. Near(m) BY <1>9, <1>10, <1>11 DEF Near
<1>13. PICK t, M, N, R : t = End(q, b) /\ M = Said(p) /\ N = Said(q) /\ R = DOMAIN read
  OBVIOUS
<1>14. /\ m \notin R => Decrypts(s, m, k)
       /\ ~Decrypts(s, m, k) => e = s
       /\ Decrypts(s, m, k) =>
            /\ Joined(e, t, M, N, R \cup {m}) /\ e.base_key = s.base_key
            /\ \/ /\ e.previous_counter = s.previous_counter /\ e.ephemeral = s.ephemeral
                  /\ DOMAIN e.chains = DOMAIN s.chains
                  /\ s.ephemeral \in DOMAIN s.chains =>
                       e.chains[s.ephemeral] = s.chains[s.ephemeral]
               \/ /\ e.previous_counter = (IF s.ephemeral \in DOMAIN s.chains
                                           THEN s.chains[s.ephemeral].counter
                                           ELSE s.previous_counter)
                  /\ e.chains[e.ephemeral].counter = -1
  <2>1. /\ Joined(s, t, M, N, R) /\ Speaks(s, M, keys) /\ Speaks(t, N, keys) /\ m \in N
    BY <1>0, <1>2, <1>5, <1>13
  <2>2. k = keys + 1 /\ e = Tried(s, m, k) BY <1>0
  <2>. QED BY ONLY <2>1, <1>2, <1>11, <1>12, <2>2, JoinedReads
<1>15. ASSUME Decrypts(s, m, k) PROVE Sized(e, c)
  <2>1. Sized(s, c) BY <1>6, <1>7
  <2>2. CASE /\ e.previous_counter = s.previous_counter /\ e.ephemeral = s.ephemeral
             /\ DOMAIN e.chains = DOMAIN s.chains
             /\ s.ephemeral \in DOMAIN s.chains =>
                  e.chains[s.ephemeral] = s.chains[s.ephemeral]
    BY <2>1, <2>2 DEF Sized
  <2>3. CASE /\ e.previous_counter = (IF s.ephemeral \in DOMAIN s.chains
                                      THEN s.chains[s.ephemeral].counter
                                      ELSE s.previous_counter)
             /\ e.chains[e.ephemeral].counter = -1
    <3>1. -1 < c BY <1>8
    <3>. QED BY <2>1, <2>3, <3>1 DEF Sized
  <2>. QED BY <1>14, <1>15, <2>2, <2>3
<1>. QED BY <1>1, <1>4, <1>6, <1>7, <1>13, <1>14, <1>15 DEF Fares

\* The party p has the end e of the session b now, and its file too.
Turned(a, b, p, e) ==
  /\ Alone(a, b) /\ p \in Parties /\ RatchetInv'
  /\ record' = [record EXCEPT ![p] = <<e>>] /\ e.base_key = b
  /\ disk' = [disk EXCEPT ![p] = [record |-> record'[p], pre_keys |-> pre_keys'[p]]]
  /\ pre_keys' \in [Parties -> SUBSET Key] /\ pre_keys'[Peer(p)] = pre_keys[Peer(p)]
  /\ keys' \in Nat /\ keys <= keys' /\ scenario' = scenario /\ started' = started

LEMMA EndsNext ==
  ASSUME NEW a, NEW b, NEW p, NEW e, Turned(a, b, p, e)
  PROVE  /\ record'[p] = <<e>> /\ End(p, b)' = e
         /\ record'[Peer(p)] = record[Peer(p)] /\ End(Peer(p), b)' = End(Peer(p), b)
         /\ \A q \in Parties : disk'[q] = [record |-> record'[q], pre_keys |-> pre_keys'[q]]
<1>1. PICK q, W : q = Peer(p) /\ W = record' OBVIOUS
<1>2. q \in Parties /\ q # p /\ p \in Parties /\ Parties = {p, q}
  BY <1>1, TwoParties DEF Turned
<1>3. /\ record \in [Parties -> Seq(SessionType)]
      /\ disk \in [Parties -> [record : Seq(SessionType), pre_keys : SUBSET Key]]
  BY DEF Turned, Alone, RatchetInv, Shapes
<1>4. W = [record EXCEPT ![p] = <<e>>] BY <1>1 DEF Turned
<1>5. W[p] = <<e>> /\ W[q] = record[q] BY <1>2, <1>3, <1>4
<1>6. W[p] # <<>> /\ W[p][1] = e BY <1>5
<1>7. End(p, b)' = e
  <2>1. record'[p] # <<>> /\ record'[p][1] = e BY <1>1, <1>6
  <2>. QED BY <2>1 DEF End
<1>8. End(q, b)' = End(q, b)
  <2>1. record'[q] = record[q] BY <1>1, <1>5
  <2>. QED BY <2>1 DEF End
<1>9. disk[q] = [record |-> record[q], pre_keys |-> pre_keys[q]]
  BY <1>2 DEF Turned, Alone, Level
<1>10. disk' = [disk EXCEPT ![p] = [record |-> W[p], pre_keys |-> pre_keys'[p]]]
  BY <1>1 DEF Turned
<1>11. disk'[p] = [record |-> W[p], pre_keys |-> pre_keys'[p]] /\ disk'[q] = disk[q]
  BY <1>2, <1>3, <1>10
<1>12. pre_keys'[q] = pre_keys[q] BY <1>1 DEF Turned
<1>13. ASSUME NEW x \in Parties
       PROVE  disk'[x] = [record |-> record'[x], pre_keys |-> pre_keys'[x]]
  <2>1. CASE x = p BY <1>1, <1>11, <2>1
  <2>2. CASE x = q BY <1>1, <1>5, <1>9, <1>11, <1>12, <2>2
  <2>. QED BY <1>2, <2>1, <2>2
<1>. QED BY <1>1, <1>5, <1>7, <1>8, <1>13

\* What is left to show that the session goes on.
Carries(a, b, p, e) ==
  /\ \A m \in sent' : m.base_key = b /\ m.counter < Cardinality(sent')
                      /\ m.previous_counter < Cardinality(sent')
  /\ Cardinality(sent') <= scenario.sends
  /\ Sized(e, Cardinality(sent')) /\ Sized(End(Peer(p), b), Cardinality(sent'))
  /\ Joined(e, End(Peer(p), b), Said(p)', Said(Peer(p))', DOMAIN read')
  /\ p = a /\ record[Peer(a)] = <<>> =>
       e.pending = TRUE /\ \A m \in sent' : m.from = a /\ m.prekey = TRUE

LEMMA LevelNext ==
  ASSUME NEW a, NEW b, NEW p, NEW e, Turned(a, b, p, e), Carries(a, b, p, e)
  PROVE  Level(a)'
<1>1. PICK q, V : q = Peer(p) /\ V = record'[Peer(a)] OBVIOUS
<1>2. /\ q \in Parties /\ q # p /\ p \in Parties /\ Parties = {p, q} /\ Peer(q) = p
      /\ a \in Parties
  BY <1>1, TwoParties DEF Turned, Alone
<1>3. a = p \/ a = q BY <1>2
<1>4. /\ record'[p] = <<e>> /\ End(p, b)' = e
      /\ record'[q] = record[q] /\ End(q, b)' = End(q, b)
      /\ \A x \in Parties : disk'[x] = [record |-> record'[x], pre_keys |-> pre_keys'[x]]
  BY <1>1, EndsNext
<1>5. Alone(a, b) /\ Session(a, b) /\ Level(a) /\ RatchetInv BY DEF Turned, Alone
<1>6. /\ record[a] = <<End(a, b)>> /\ record[q] \in {<<>>, <<End(q, b)>>} /\ record[a] # <<>>
      /\ End(q, b).base_key = b
  <2>1. record[a] = <<End(a, b)>> /\ End(q, b).base_key = b BY <1>2, <1>5 DEF Session
  <2>2. record[q] \in {<<>>, <<End(q, b)>>} BY <1>1, <1>2, <1>5, EndsAre
  <2>. QED BY <2>1, <2>2
<1>7. b \in 3..keys'
  <2>1. PICK k : k = keys' OBVIOUS
  <2>2. b \in 3..keys /\ keys \in Nat /\ k \in Nat /\ keys <= k
    BY <2>1 DEF Turned, Alone, RatchetInv, Shapes
  <2>. QED BY <2>1, <2>2
<1>8. started'[a] = 1
  <2>2. ~(\A x \in Parties : record[x] = <<>>) BY <1>2, <1>6
  <2>3. started[a] = 1 BY <1>5, <2>2 DEF Level
  <2>. QED BY <2>3 DEF Turned
<1>9. record'[a] = <<End(a, b)'>>
  <2>1. CASE a = p BY <1>4, <2>1
  <2>2. CASE a = q BY <1>4, <1>6, <2>2
  <2>. QED BY <1>3, <2>1, <2>2
<1>10. record'[Peer(a)] \in {<<>>, <<End(Peer(a), b)'>>}
  <2>1. CASE a = p BY <1>1, <1>4, <1>6, <2>1
  <2>2. CASE a = q BY <1>2, <1>4, <2>2
  <2>. QED BY <1>3, <2>1, <2>2
<1>11. \A m \in sent' : m.base_key = b BY DEF Carries
<1>12. ASSUME NEW x \in Parties
       PROVE  /\ End(x, b)'.base_key = b /\ Sized(End(x, b)', Cardinality(sent'))
              /\ Joined(End(x, b)', End(Peer(x), b)', Said(x)', Said(Peer(x))', DOMAIN read')
  <2>1. CASE x = p BY <1>1, <1>4, <2>1 DEF Carries, Turned
  <2>2. CASE x = q
    <3>1. Joined(e, End(q, b), Said(p)', Said(q)', DOMAIN read') BY <1>1 DEF Carries
    <3>2. Joined(End(q, b), e, Said(q)', Said(p)', DOMAIN read') BY <3>1, JoinedSwaps
    <3>3. Sized(End(q, b), Cardinality(sent')) BY <1>1 DEF Carries
    <3>. QED BY <1>2, <1>4, <1>6, <2>2, <3>2, <3>3
  <2>. QED BY <1>2, <2>1, <2>2
<1>13. ASSUME record'[Peer(a)] = <<>>
       PROVE  /\ End(a, b)'.pending = TRUE /\ PreKeyOf(b) \in pre_keys'[Peer(a)] \cup {0}
              /\ \A m \in sent' : m.from = a /\ m.prekey = TRUE
  <2>1. <<e>> # <<>> OBVIOUS
  <2>2. a = p /\ Peer(a) = q /\ record[q] = <<>> BY <1>1, <1>2, <1>3, <1>4, <1>13, <2>1
  <2>3. PreKeyOf(b) \in pre_keys[q] \cup {0} BY <1>5, <2>2 DEF Session
  <2>4. pre_keys'[q] = pre_keys[q] BY <1>1 DEF Turned
  <2>5. e.pending = TRUE /\ \A m \in sent' : m.from = a /\ m.prekey = TRUE
    BY <1>1, <2>2 DEF Carries
  <2>. QED BY <1>4, <2>2, <2>3, <2>4, <2>5
<1>14. Session(a, b)' BY ONLY <1>9, <1>10, <1>11, <1>12, <1>13 DEF Session, PreKeyOf
<1>15. Cardinality(sent') <= scenario'.sends BY DEF Carries, Turned
<1>16. \A m \in sent' : m.counter < Cardinality(sent') /\ m.previous_counter < Cardinality(sent')
  BY DEF Carries
<1>. QED BY ONLY <1>4, <1>7, <1>8, <1>14, <1>15, <1>16 DEF Level
LEMMA ReadingGoesOn ==
  ASSUME NEW a, NEW b, Alone(a, b), NEW m \in sent, NEW p \in Parties, m.from # p,
         NEW k, k = keys + 1, Decrypts(End(p, b), m, k),
         NEW e, e = Tried(End(p, b), m, k), Turned(a, b, p, e),
         sent' = sent, DOMAIN read' = DOMAIN read \cup {m}
  PROVE  Level(a)'
<1>1. PICK q, s, c : q = Peer(p) /\ s = End(p, b) /\ c = Cardinality(sent) OBVIOUS
<1>2. /\ q \in Parties /\ q # p /\ Parties = {p, q} BY <1>1, TwoParties
<1>3. /\ Joined(e, End(q, b), Said(p), Said(q), DOMAIN read \cup {m}) /\ Sized(e, c)
  <2>1. Faces(a, b, p, m, s, k, e) BY <1>1 DEF Faces
  <2>2. Decrypts(s, m, k) BY <1>1
  <2>3. Fares(b, p, m, s, k, e) BY ONLY <2>1, EndReads
  <2>. QED BY <1>1, <2>2, <2>3 DEF Fares
<1>4. Session(a, b) /\ Level(a) BY DEF Alone
<1>5. Sized(End(q, b), c) BY <1>1, <1>2, <1>4 DEF Session
<1>6. Said(p)' = Said(p) /\ Said(q)' = Said(q) BY DEF Said
<1>7. \A x \in sent : x.base_key = b /\ x.counter < c /\ x.previous_counter < c
  BY <1>1, <1>4 DEF Session, Level
<1>8. c <= scenario.sends BY <1>1, <1>4 DEF Level
<1>9. p = a => record[Peer(a)] # <<>>
  <2>1. SUFFICES ASSUME p = a, record[Peer(a)] = <<>> PROVE FALSE OBVIOUS
  <2>2. m.from = a BY <1>4, <2>1 DEF Session
  <2>. QED BY <2>1, <2>2
<1>10. Joined(e, End(q, b), Said(p)', Said(q)', DOMAIN read') BY <1>3, <1>6
<1>11. Carries(a, b, p, e)
  BY ONLY <1>1, <1>3, <1>5, <1>7, <1>8, <1>9, <1>10, sent' = sent DEF Carries
<1>. QED BY <1>11, LevelNext

\* The next message of the end s of p.
NextOf(p, s, m, n) ==
  /\ m.from = p /\ m.prekey = s.pending /\ m.base_key = s.base_key
  /\ m.ratchet_key = s.ephemeral /\ m.counter = n /\ m.seed = s.root
  /\ m.previous_counter = s.previous_counter /\ n = s.chains[s.ephemeral].counter + 1

LEMMA SendingGoesOn ==
  ASSUME NEW a, NEW b, Alone(a, b), NEW p \in Parties, NEW s, s = End(p, b),
         record[p] = <<s>>, s.ephemeral \in DOMAIN s.chains, NEW m, NEW n, NextOf(p, s, m, n),
         NEW e, SentOn(s, e, n), Turned(a, b, p, e),
         Cardinality(sent) < scenario.sends, sent' = sent \cup {m}, read' = read
  PROVE  Level(a)'
<1>1. PICK q, c : q = Peer(p) /\ c = Cardinality(sent) OBVIOUS
<1>2. /\ q \in Parties /\ q # p /\ Parties = {p, q} /\ keys \in Nat
      /\ Speaks(s, Said(p), keys) /\ Speaks(End(q, b), Said(q), keys)
      /\ Joined(s, End(q, b), Said(p), Said(q), DOMAIN read)
  BY <1>1, EndsAre
<1>3. Session(a, b) /\ Level(a) /\ RatchetInv /\ scenario.initiators = {a} /\ Modest
  BY DEF Alone
<1>4. Joined(e, End(q, b), Said(p) \cup {m}, Said(q), DOMAIN read)
  <2>1. Speaking(s, e, m, n) BY DEF Speaking, NextOf
  <2>2. SessionInv(s, keys) /\ SessionInv(End(q, b), keys) BY <1>2 DEF Speaks
  <2>. QED BY <1>2, <2>1, <2>2, JoinedSends
<1>5. Said(p)' = Said(p) \cup {m} /\ Said(q)' = Said(q) BY <1>2 DEF Said, NextOf
<1>6. Sized(s, c) /\ Sized(End(q, b), c) /\ s.base_key = b BY <1>1, <1>2, <1>3 DEF Session
<1>7. m \notin sent
  <2>1. record[p] # <<>> /\ s = record[p][1] OBVIOUS
  <2>2. \A x \in sent : x.seed = m.seed => x.counter # m.counter
    BY <1>3, <2>1, SpeaksNew DEF NextOf
  <2>. QED BY <2>2
<1>8. IsFiniteSet(sent) BY <1>3 DEF RatchetInv, Shapes
<1>9. c \in Nat /\ Cardinality(sent') = c + 1
  BY <1>1, <1>7, <1>8, FS_CardinalityType, FS_AddElement
<1>10. SessionInv(s, keys) /\ SessionInv(End(q, b), keys) BY <1>2 DEF Speaks
<1>11. s.chains[s.ephemeral].counter \in Nat \cup {-1} BY <1>10, ChainOf
<1>12. n < c + 1 /\ m.counter < c + 1
  <2>1. s.chains[s.ephemeral].counter < c BY <1>6 DEF Sized
  <2>. QED BY <1>9, <1>11, <2>1 DEF NextOf
<1>13. s.previous_counter \in Nat \cup {-1} BY <1>10, Parted
<1>14. s.previous_counter < c + 1 BY <1>6, <1>9, <1>13 DEF Sized
<1>15. Sized(e, c + 1)
  BY <1>12, <1>14 DEF Sized, SentOn
<1>16. Sized(End(q, b), c + 1)
  <2>1. PICK t : t = End(q, b) OBVIOUS
  <2>2. t.previous_counter \in Nat \cup {-1} BY <1>10, <2>1, Parted
  <2>3. t.previous_counter < c + 1 BY <1>6, <1>9, <2>1, <2>2 DEF Sized
  <2>4. ASSUME t.ephemeral \in DOMAIN t.chains PROVE t.chains[t.ephemeral].counter < c + 1
    <3>1. t.chains[t.ephemeral].counter \in Nat \cup {-1} BY <1>10, <2>1, <2>4, ChainOf
    <3>2. t.chains[t.ephemeral].counter < c BY <1>6, <2>1, <2>4 DEF Sized
    <3>. QED BY <1>9, <3>1, <3>2
  <2>. QED BY <2>1, <2>3, <2>4 DEF Sized
<1>17. ASSUME NEW x \in sent'
       PROVE  x.base_key = b /\ x.counter < c + 1 /\ x.previous_counter < c + 1
  <2>1. CASE x = m BY <1>6, <1>12, <1>14, <2>1 DEF NextOf
  <2>2. CASE x \in sent
    <3>1. x.counter \in Nat /\ x.previous_counter \in Nat
      BY <1>3, <2>2 DEF RatchetInv, Sound, MessageInv
    <3>2. x.counter < c /\ x.previous_counter < c BY <1>1, <1>3, <2>2 DEF Level
    <3>3. x.base_key = b BY <1>3, <2>2 DEF Session
    <3>. QED BY <1>9, <3>1, <3>2, <3>3
  <2>. QED BY <2>1, <2>2
<1>18. c + 1 <= scenario.sends
  <2>1. scenario.sends \in Nat BY <1>3, ScenarioIs
  <2>. QED BY <1>1, <1>9, <2>1
<1>19. ASSUME p = a, record[Peer(a)] = <<>>
       PROVE  e.pending = TRUE /\ \A x \in sent' : x.from = a /\ x.prekey = TRUE
  <2>1. s.pending = TRUE /\ \A x \in sent : x.from = a /\ x.prekey = TRUE
    BY <1>3, <1>19 DEF Session
  <2>. QED BY <1>19, <2>1 DEF SentOn, NextOf
<1>20. Carries(a, b, p, e)
  BY <1>1, <1>4, <1>5, <1>9, <1>15, <1>16, <1>17, <1>18, <1>19 DEF Carries
<1>. QED BY <1>20, LevelNext

\* A record of one session.
LEMMA OneSession ==
  ASSUME NEW s
  PROVE  /\ Len(<<s>>) = 1 /\ <<s>>[1] = s /\ <<s>> # <<>> /\ 1..Len(<<s>>) = {1}
         /\ \A e : [<<s>> EXCEPT ![1] = e] = <<e>>
         /\ OfBaseKey(<<s>>, s.base_key) = {1} /\ OfBaseKey(<<>>, s.base_key) = {}
<1>1. Len(<<s>>) = 1 /\ <<s>>[1] = s /\ <<s>> # <<>> OBVIOUS
<1>2. 1..Len(<<s>>) = {1} /\ 1..Len(<<>>) = {} OBVIOUS
<1>3. \A e : [<<s>> EXCEPT ![1] = e] = <<e>> OBVIOUS
<1>4. OfBaseKey(<<s>>, s.base_key) = {1} BY <1>1, <1>2 DEF OfBaseKey
<1>5. OfBaseKey(<<>>, s.base_key) = {} BY <1>2 DEF OfBaseKey
<1>. QED BY <1>1, <1>2, <1>3, <1>4, <1>5

\* With one session, the handler of a pre-key message tries that one.
LEMMA TriesPreKey ==
  ASSUME NEW a, NEW b, Alone(a, b), NEW m \in sent, m.prekey, NEW p \in Parties, m.from # p,
         NEW s, s = End(p, b)
  PROVE  Accepts(p, m) /\ Incoming(p, m) = <<s>> /\ PreKeyTarget(p, m) = 1
<1>1. /\ record[p] \in {<<>>, <<s>>} /\ Speaks(s, Said(p), keys) /\ keys \in Nat
      /\ record[p] = <<>> => Peer(p) = a /\ p # a
  BY EndsAre
<1>2. /\ RatchetInv /\ Session(a, b) /\ b \in 3..keys /\ a \in Parties BY DEF Alone
<1>3. m.base_key = b /\ s.base_key = b BY <1>2 DEF Session
<1>4. MessageInv(m, keys) BY <1>2 DEF RatchetInv, Sound
<1>5. m.pre_key = PreKeyOf(b) BY <1>3, <1>4 DEF MessageInv
<1>6. OfBaseKey(<<s>>, b) = {1} /\ OfBaseKey(<<>>, b) = {} BY <1>3, OneSession
<1>7. Accepts(p, m) /\ Incoming(p, m) = <<s>>
  <2>1. CASE record[p] = <<s>>
    <3>1. Known(p, m) BY <1>3, <1>6, <2>1 DEF Known
    <3>. QED BY <2>1, <3>1 DEF Accepts, Incoming
  <2>2. CASE record[p] = <<>>
    <3>1. ~Known(p, m) BY <1>3, <1>6, <2>2 DEF Known
    <3>2. Peer(a) = p BY <1>1, <2>2, TwoParties
    <3>3. PreKeyOf(b) \in pre_keys[p] \cup {0} BY <1>2, <2>2, <3>2 DEF Session
    <3>4. s = Responded(b, PreKeyOf(b), SignedPreKey[p]) BY <2>2 DEF End
    <3>5. SessionInv(s, keys) BY <1>1 DEF Speaks
    <3>6. s.closed = FALSE BY <3>4 DEF Responded
    <3>7. SetSession(<<>>, s) = <<s>> BY <3>5, <3>6, SetFirst
    <3>8. Incoming(p, m) = SetSession(<<>>, s)
      BY <1>3, <1>5, <2>2, <3>1, <3>4 DEF Incoming
    <3>. QED BY <1>5, <3>3, <3>7, <3>8 DEF Accepts
  <2>. QED BY <1>1, <2>1, <2>2
<1>8. PreKeyTarget(p, m) = 1
  <2>1. OfBaseKey(Incoming(p, m), m.base_key) = {1} BY <1>3, <1>6, <1>7
  <2>2. (CHOOSE j \in {1} : \A k \in {1} : j <= k) = 1 OBVIOUS
  <2>. QED BY <2>1, <2>2 DEF PreKeyTarget
<1>. QED BY <1>7, <1>8

\* And so does the handler of the other messages.
LEMMA TriesMessage ==
  ASSUME NEW a, NEW b, Alone(a, b), NEW m \in sent, ~m.prekey, NEW p \in Parties, m.from # p,
         NEW s, s = End(p, b)
  PROVE  record[p] = <<s>>
<1>1. /\ record[p] \in {<<>>, <<s>>}
      /\ record[p] = <<>> => Peer(p) = a
  BY EndsAre
<1>2. Session(a, b) BY DEF Alone
<1>3. record[p] # <<>>
  <2>1. SUFFICES ASSUME record[p] = <<>> PROVE FALSE OBVIOUS
  <2>2. Peer(a) = p BY <1>1, <2>1, TwoParties
  <2>3. m.prekey = TRUE BY <1>2, <2>1, <2>2 DEF Session
  <2>. QED BY <2>3
<1>. QED BY <1>1, <1>3

LEMMA PreKeyReads ==
  ASSUME NEW a, NEW b, Alone(a, b), NEW m \in sent, m.prekey, NEW p \in Parties, m.from # p
  PROVE  PreKeyDecrypts(p, m) <=> Decrypts(End(p, b), m, keys + 1)
<1>1. PICK s : s = End(p, b) OBVIOUS
<1>2. Accepts(p, m) /\ Incoming(p, m) = <<s>> /\ PreKeyTarget(p, m) = 1 BY <1>1, TriesPreKey
<1>3. Incoming(p, m)[PreKeyTarget(p, m)] = s BY <1>2
<1>. QED BY <1>1, <1>2, <1>3 DEF PreKeyDecrypts

LEMMA MessageReads ==
  ASSUME NEW a, NEW b, Alone(a, b), NEW m \in sent, ~m.prekey, NEW p \in Parties, m.from # p
  PROVE  MessageDecrypts(p, m) <=> Decrypts(End(p, b), m, keys + 1)
<1>1. PICK s : s = End(p, b) OBVIOUS
<1>2. record[p] = <<s>> BY <1>1, TriesMessage
<1>3. 1..Len(record[p]) = {1} /\ record[p][1] = s BY <1>2, OneSession
<1>. QED BY <1>1, <1>3 DEF MessageDecrypts

LEMMA PreKeyMessageLevel ==
  ASSUME NEW a, NEW b, Alone(a, b), RatchetInv', NEW m \in sent, NEW p \in Parties,
         DecryptPreKeyMessage(p, m)
  PROVE  Level(a)'
<1>1. PICK s, k, e : s = End(p, b) /\ k = keys + 1 /\ e = Tried(s, m, k) OBVIOUS
<1>2. m.from # p /\ m.prekey BY DEF DecryptPreKeyMessage
<1>3. Accepts(p, m) /\ Incoming(p, m) = <<s>> /\ PreKeyTarget(p, m) = 1
  BY <1>1, <1>2, TriesPreKey
<1>4. PreKeyDecrypts(p, m) <=> Decrypts(s, m, k) BY <1>1, <1>2, PreKeyReads
<1>5. [Incoming(p, m) EXCEPT ![PreKeyTarget(p, m)] = Tried(@, m, keys + 1)] = <<e>>
  <2>1. [<<s>> EXCEPT ![1] = Tried(<<s>>[1], m, keys + 1)] = <<e>> BY <1>1, OneSession
  <2>. QED BY <1>3, <2>1
<1>6. /\ RatchetInv /\ keys \in Nat /\ record[p] \in {<<>>, <<s>>} /\ Level(a)
      /\ record \in [Parties -> Seq(SessionType)] /\ pre_keys \in [Parties -> SUBSET Key]
  BY <1>1, EndsAre DEF Alone, RatchetInv, Shapes
<1>7. /\ ~Decrypts(s, m, k) => e = s
      /\ Decrypts(s, m, k) => e.base_key = b
  <2>1. Faces(a, b, p, m, s, k, e) BY <1>1, <1>2 DEF Faces
  <2>2. Fares(b, p, m, s, k, e) BY ONLY <2>1, EndReads
  <2>. QED BY ONLY <2>2 DEF Fares
<1>8. keys' \in Nat /\ keys <= keys' BY <1>6 DEF DecryptPreKeyMessage
<1>9. scenario' = scenario /\ started' = started /\ sent' = sent BY DEF DecryptPreKeyMessage
<1>10. CASE PreKeyDecrypts(p, m)
  <2>1. PICK K : K = IF Known(p, m) THEN pre_keys[p] ELSE pre_keys[p] \ {m.pre_key} OBVIOUS
  <2>2. /\ record' = [record EXCEPT ![p] = <<e>>] /\ pre_keys' = [pre_keys EXCEPT ![p] = K]
        /\ read' = read (+) SetToBag({m}) /\ Save(p)
    BY <1>5, <1>10, <2>1 DEF DecryptPreKeyMessage
  <2>3. K \in SUBSET Key BY <1>6, <2>1
  <2>4. pre_keys' \in [Parties -> SUBSET Key] /\ pre_keys'[Peer(p)] = pre_keys[Peer(p)]
    BY <1>6, <2>2, <2>3, TwoParties
  <2>5. Decrypts(s, m, k) /\ e.base_key = b BY <1>4, <1>7, <1>10
  <2>6. Turned(a, b, p, e) BY <1>8, <1>9, <2>2, <2>4, <2>5 DEF Turned, Save
  <2>7. DOMAIN read' = DOMAIN read \cup {m}
    <3>1. PICK B : B = read' OBVIOUS
    <3>2. B = read (+) SetToBag({m}) BY <2>2, <3>1
    <3>3. Shapes BY <1>6 DEF RatchetInv
    <3>4. Adds(read, B, m) BY ONLY <3>2, <3>3, OneMore
    <3>. QED BY <3>1, <3>4 DEF Adds
  <2>. QED BY <1>1, <1>2, <1>9, <2>5, <2>6, <2>7, ReadingGoesOn
<1>11. CASE ~PreKeyDecrypts(p, m)
  <2>1. record' = [record EXCEPT ![p] = <<e>>] /\ record' # record /\ record[p] # <<>>
    BY <1>5, <1>11 DEF DecryptPreKeyMessage
  <2>2. e = s BY <1>4, <1>7, <1>11
  <2>3. record[p] = <<e>> BY <1>6, <2>1, <2>2
  <2>4. [record EXCEPT ![p] = <<e>>] = record BY <1>6, <2>3
  <2>. QED BY <2>1, <2>4
<1>. QED BY <1>10, <1>11

LEMMA MessageLevel ==
  ASSUME NEW a, NEW b, Alone(a, b), RatchetInv', NEW m \in sent, NEW p \in Parties,
         DecryptMessage(p, m)
  PROVE  Level(a)'
<1>1. PICK s, k, e : s = End(p, b) /\ k = keys + 1 /\ e = Tried(s, m, k) OBVIOUS
<1>2. m.from # p /\ ~m.prekey BY DEF DecryptMessage
<1>3. record[p] = <<s>> BY <1>1, <1>2, TriesMessage
<1>4. MessageDecrypts(p, m) <=> Decrypts(s, m, k) BY <1>1, <1>2, MessageReads
<1>5. [j \in 1..Len(record[p]) |->
         IF Tries(p, m, j) THEN Tried(record[p][j], m, keys + j) ELSE record[p][j]] = <<e>>
  <2>1. Tries(p, m, 1)
    <3>1. 1..(1 - 1) = {} OBVIOUS
    <3>. QED BY <3>1 DEF Tries
  <2>2. 1..Len(record[p]) = {1} /\ record[p][1] = s BY <1>3, OneSession
  <2>3. [j \in {1} |-> e] = <<e>> OBVIOUS
  <2>. QED BY <1>1, <2>1, <2>2, <2>3
<1>6. /\ RatchetInv /\ keys \in Nat /\ Level(a)
      /\ record \in [Parties -> Seq(SessionType)] /\ pre_keys \in [Parties -> SUBSET Key]
  BY <1>1, EndsAre DEF Alone, RatchetInv, Shapes
<1>7. /\ ~Decrypts(s, m, k) => e = s
      /\ Decrypts(s, m, k) => e.base_key = b
  <2>1. Faces(a, b, p, m, s, k, e) BY <1>1, <1>2 DEF Faces
  <2>2. Fares(b, p, m, s, k, e) BY ONLY <2>1, EndReads
  <2>. QED BY ONLY <2>2 DEF Fares
<1>8. keys' \in Nat /\ keys <= keys'
  <2>1. Len(record[p]) = 1 BY <1>3, OneSession
  <2>2. keys' = keys \/ keys' = keys + Len(record[p]) BY DEF DecryptMessage
  <2>. QED BY <1>6, <2>1, <2>2
<1>9. scenario' = scenario /\ started' = started /\ sent' = sent /\ pre_keys' = pre_keys
  BY DEF DecryptMessage
<1>10. record' = [record EXCEPT ![p] = <<e>>] BY <1>5 DEF DecryptMessage
<1>11. CASE MessageDecrypts(p, m)
  <2>1. read' = read (+) SetToBag({m}) /\ Save(p) BY <1>11 DEF DecryptMessage
  <2>2. Decrypts(s, m, k) /\ e.base_key = b BY <1>4, <1>7, <1>11
  <2>3. pre_keys' \in [Parties -> SUBSET Key] /\ pre_keys'[Peer(p)] = pre_keys[Peer(p)]
    BY <1>6, <1>9
  <2>4. Turned(a, b, p, e) BY <1>8, <1>9, <1>10, <2>1, <2>2, <2>3 DEF Turned, Save
  <2>5. DOMAIN read' = DOMAIN read \cup {m}
    <3>1. PICK B : B = read' OBVIOUS
    <3>2. B = read (+) SetToBag({m}) BY <2>1, <3>1
    <3>3. Shapes BY <1>6 DEF RatchetInv
    <3>4. Adds(read, B, m) BY ONLY <3>2, <3>3, OneMore
    <3>. QED BY <3>1, <3>4 DEF Adds
  <2>. QED BY <1>1, <1>2, <1>9, <2>2, <2>4, <2>5, ReadingGoesOn
<1>12. CASE ~MessageDecrypts(p, m)
  <2>1. record' # record BY <1>12 DEF DecryptMessage
  <2>2. e = s BY <1>4, <1>7, <1>12
  <2>3. [record EXCEPT ![p] = <<e>>] = record BY <1>3, <1>6, <2>2
  <2>. QED BY <1>10, <2>1, <2>3
<1>. QED BY <1>11, <1>12

LEMMA EncryptLevel ==
  ASSUME NEW a, NEW b, Alone(a, b), RatchetInv', NEW p \in Parties, Encrypt(p)
  PROVE  Level(a)'
<1>1. PICK V, s : V = record[p] /\ s = End(p, b) OBVIOUS
<1>2. /\ Shapes /\ keys \in Nat /\ V \in {<<>>, <<s>>}
      /\ Joined(s, End(Peer(p), b), Said(p), Said(Peer(p)), DOMAIN read)
  BY <1>1, EndsAre DEF Alone, RatchetInv
<1>3. RecordInv(V, keys) BY <1>1 DEF Alone, RatchetInv, Sound, Views
<1>4. V # <<>> /\ OpenOne(V) = 1
  <2>1. OpenOnes(V) # {} BY <1>1 DEF Encrypt
  <2>. QED BY <1>3, <2>1, OpenIsFirst
<1>5. V = <<s>> /\ V[1] = s /\ Len(V) = 1 BY <1>2, <1>4
<1>6. PICK c, n : c = s.chains[s.ephemeral] /\ n = c.counter + 1 OBVIOUS
<1>7. PICK M : M = [V EXCEPT ![1].chains[s.ephemeral] = Popped(Fill(c, n), n)] OBVIOUS
<1>8. PICK m : m = [from |-> p, prekey |-> s.pending, base_key |-> s.base_key,
                    pre_key |-> s.pre_key, ratchet_key |-> s.ephemeral, counter |-> n,
                    previous_counter |-> s.previous_counter, seed |-> c.seed,
                    body |-> Cardinality(sent)]
  OBVIOUS
<1>9. s.previous_counter >= 0 /\ ~(s.previous_counter < 0)
  <2>1. SessionInv(s, keys) BY <1>3, <1>5 DEF RecordInv
  <2>2. s.previous_counter \in Nat \cup {-1} BY <2>1, Parted
  <2>3. s.previous_counter >= 0 BY <1>2, JoinedSwaps
  <2>. QED BY <2>2, <2>3
<1>10. /\ Cardinality(sent) < scenario.sends /\ s.ephemeral \in DOMAIN s.chains
       /\ scenario' = scenario /\ pre_keys' = pre_keys /\ keys' = keys
       /\ started' = started /\ read' = read
       /\ record' = [record EXCEPT ![p] = Recent(M)] /\ sent' = sent \cup {m}
       /\ disk' = [disk EXCEPT ![p] = [record |-> record'[p], pre_keys |-> pre_keys'[p]]]
  BY <1>1, <1>4, <1>5, <1>6, <1>7, <1>8, <1>9 DEF Encrypt, Save
<1>11. RecordInv(M, keys) /\ Len(M) = 1 /\ SentOn(s, M[1], n)
  <2>1. Sending(V, s, n, keys) BY <1>2, <1>3, <1>4, <1>5, <1>6, <1>10 DEF Sending
  <2>2. M = MovedRecord(V, s, n) BY <1>6, <1>7 DEF MovedRecord
  <2>3. Grown(V, M, keys, keys, b) /\ Len(M) = Len(V) /\ SentOn(s, M[1], n)
    BY ONLY <2>1, <2>2, Moving
  <2>. QED BY <1>5, <2>3 DEF Grown
<1>12. PICK e : e = M[1] OBVIOUS
<1>13. M = <<e>>
  <2>1. M \in Seq(SessionType) BY <1>11 DEF RecordInv
  <2>. QED BY <1>11, <1>12, <2>1
<1>14. Recent(M) = M
  <2>1. Len(M) <= ArchivedLimit + 1 BY <1>11, DoubleRatchetAssumption
  <2>. QED BY <1>2, <1>11, <2>1, RecentIsSound
<1>15. s.base_key = b BY <1>1 DEF Alone, Session
<1>16. SentOn(s, e, n) /\ e.base_key = b BY <1>11, <1>12, <1>15 DEF SentOn
<1>17. Turned(a, b, p, e)
  <2>1. record' = [record EXCEPT ![p] = <<e>>] BY <1>10, <1>13, <1>14
  <2>2. keys' \in Nat /\ keys <= keys' BY <1>2, <1>10
  <2>3. pre_keys' \in [Parties -> SUBSET Key] /\ pre_keys'[Peer(p)] = pre_keys[Peer(p)]
    BY <1>2, <1>10 DEF Shapes
  <2>. QED BY <1>10, <1>16, <2>1, <2>2, <2>3 DEF Turned
<1>18. c.seed = s.root
  <2>1. SessionInv(s, keys) BY <1>3, <1>5 DEF RecordInv
  <2>2. PICK x : x = s.ephemeral OBVIOUS
  <2>3. ChainInv(s.root, s.chains[x], x = s.ephemeral) BY <1>10, <2>1, <2>2 DEF SessionInv
  <2>4. (x = s.ephemeral) = TRUE BY <2>2
  <2>5. ChainInv(s.root, c, TRUE) BY <1>6, <2>2, <2>3, <2>4
  <2>. QED BY <2>5, Zenon DEF ChainInv
<1>19. NextOf(p, s, m, n) BY <1>6, <1>8, <1>18 DEF NextOf
<1>20. record[p] = <<s>> BY <1>1, <1>5
<1>. QED BY <1>1, <1>10, <1>16, <1>17, <1>19, <1>20, SendingGoesOn

\* The two ends as the start of the session makes them.
LEMMA StartJoins ==
  ASSUME NEW b \in Nat, NEW i \in Nat, NEW signed \in 1..2, b > 2, NEW R,
         NEW x, x = Initiated(b, PreKeyOf(b), i, signed),
         NEW y, y = Responded(b, PreKeyOf(b), signed)
  PROVE  Linked(x, y, {}, {}, R) /\ Sized(x, 0) /\ Sized(y, 0)
<1>1. /\ x.root = Append(Master(b, PreKeyOf(b)), {signed, i}) /\ x.ephemeral = i
      /\ x.last_remote = signed /\ x.previous_counter = 0
      /\ x.chains = [k \in {i} |-> NewChain(Append(Master(b, PreKeyOf(b)), {signed, i}), TRUE)]
  BY DEF Initiated
<1>2. /\ y.root = Master(b, PreKeyOf(b)) /\ y.ephemeral = signed /\ y.last_remote = b
      /\ y.previous_counter = 0 /\ y.chains = <<>>
  BY DEF Responded
<1>3. DOMAIN y.chains = {} BY <1>2
<1>4. {signed, i} = {i, signed} /\ b # signed OBVIOUS
<1>5. Ahead(x, y) BY <1>1, <1>2, <1>3, <1>4 DEF Ahead
<1>6. Linked(x, y, {}, {}, R) BY <1>3, <1>5 DEF Linked
<1>7. x.chains[x.ephemeral].counter = -1 BY <1>1 DEF NewChain
<1>8. Sized(x, 0)
  <2>1. x.previous_counter = 0 BY <1>1
  <2>2. x.chains[x.ephemeral].counter < 0 BY <1>7
  <2>. QED BY ONLY <2>1, <2>2 DEF Sized
<1>9. Sized(y, 0) BY <1>2, <1>3 DEF Sized
<1>. QED BY <1>6, <1>8, <1>9

LEMMA StartLevel ==
  ASSUME RatchetInv, RatchetInv', Modest, NEW a \in Parties, scenario.initiators = {a},
         Level(a), InitOutgoing(a)
  PROVE  Level(a)'
<1>1. PICK q, b, s : /\ q = Peer(a) /\ b = keys + 1
                     /\ s = Initiated(b, PreKeyOf(b), keys + 2, SignedPreKey[q])
  OBVIOUS
<1>2. PICK up : up = {PreKeyOf(b)} \ {0} OBVIOUS
<1>3. /\ Shapes /\ keys \in Nat /\ keys >= 2 /\ q \in Parties /\ q # a /\ Parties = {a, q}
  BY <1>1, TwoParties DEF RatchetInv, Shapes
<1>4. PreKeyOf(b) = (IF OneTime THEN keys + 3 ELSE 0) BY <1>1, <1>3 DEF PreKeyOf
<1>5. /\ record' = [record EXCEPT ![a] = SetSession(record[a], s)] /\ keys' = keys + 3
      /\ started[a] < MaxSessions /\ started' = [started EXCEPT ![a] = @ + 1]
      /\ pre_keys' = [pre_keys EXCEPT ![q] = @ \cup up]
      /\ disk' = [disk EXCEPT ![a] = [record |-> record'[a], pre_keys |-> pre_keys[a]],
                              ![q].pre_keys = @ \cup up]
      /\ scenario' = scenario /\ sent' = sent /\ read' = read
  BY <1>1, <1>2, <1>4 DEF InitOutgoing
<1>6. started[a] = 0
  <2>1. started[a] \in 0..MaxSessions /\ MaxSessions \in Nat /\ MaxSessions <= 1
    BY DoubleRatchetAssumption DEF RatchetInv, Shapes, Modest
  <2>. QED BY <1>5, <2>1
<1>7. sent = {} /\ \A p \in Parties : record[p] = <<>> BY <1>6 DEF Level
<1>8. SignedPreKey[q] \in 1..2 BY <1>3, DoubleRatchetAssumption
<1>9. SessionInv(s, keys + 3) /\ s.base_key = b /\ s.closed = FALSE /\ s.pending = TRUE
  BY <1>1, <1>3, <1>4, <1>8, InitiatedIsSound
<1>10. SetSession(record[a], s) = <<s>> BY <1>7, <1>9, SetFirst
<1>11. PICK W, F, P : W = record' /\ F = disk' /\ P = pre_keys' OBVIOUS
<1>12. /\ record \in [Parties -> Seq(SessionType)] /\ pre_keys \in [Parties -> SUBSET Key]
       /\ disk \in [Parties -> [record : Seq(SessionType), pre_keys : SUBSET Key]]
       /\ started \in [Parties -> 0..MaxSessions]
  BY <1>3 DEF Shapes
<1>13. W[a] = <<s>> /\ W[q] = <<>> BY <1>3, <1>5, <1>7, <1>10, <1>11, <1>12
<1>14. P[a] = pre_keys[a] /\ P[q] = pre_keys[q] \cup up BY <1>3, <1>5, <1>11, <1>12
<1>15. ASSUME NEW p \in Parties
       PROVE  disk'[p] = [record |-> record'[p], pre_keys |-> pre_keys'[p]]
  <2>1. F = [disk EXCEPT ![a] = [record |-> W[a], pre_keys |-> pre_keys[a]],
                         ![q].pre_keys = @ \cup up]
    BY <1>5, <1>11
  <2>2. F[a] = [record |-> W[a], pre_keys |-> pre_keys[a]]
    BY <1>3, <1>12, <2>1
  <2>3. F[q] = [disk[q] EXCEPT !.pre_keys = @ \cup up] BY <1>3, <1>12, <2>1
  <2>4. disk[q] = [record |-> record[q], pre_keys |-> pre_keys[q]] BY <1>3 DEF Level
  <2>5. F[q] = [record |-> record[q], pre_keys |-> pre_keys[q] \cup up] BY <2>3, <2>4
  <2>6. F[q] = [record |-> W[q], pre_keys |-> P[q]]
    BY <1>3, <1>7, <1>13, <1>14, <2>5
  <2>. QED BY <1>3, <1>11, <1>14, <2>2, <2>6
<1>16. PICK y : y = Responded(b, PreKeyOf(b), SignedPreKey[q]) OBVIOUS
<1>17. End(a, b)' = s
  <2>1. record'[a] # <<>> /\ record'[a][1] = s BY <1>11, <1>13
  <2>. QED BY <2>1 DEF End
<1>18. End(q, b)' = y
  <2>1. record'[q] = <<>> BY <1>11, <1>13
  <2>. QED BY <1>16, <2>1 DEF End, PreKeyOf
<1>19. Linked(s, y, {}, {}, DOMAIN read) /\ Sized(s, 0) /\ Sized(y, 0)
  <2>1. b \in Nat /\ keys + 2 \in Nat /\ b > 2 BY <1>1, <1>3
  <2>. QED BY <1>1, <1>8, <1>16, <2>1, StartJoins
<1>20. sent' = {} /\ Cardinality(sent') = 0 BY <1>5, <1>7, FS_EmptySet
<1>21. \A p \in Parties : Said(p)' = {} BY <1>20 DEF Said
<1>22. Joined(s, y, {}, {}, DOMAIN read') /\ Joined(y, s, {}, {}, DOMAIN read')
  BY <1>5, <1>19 DEF Joined
<1>23. ASSUME NEW p \in Parties
       PROVE  /\ End(p, b)'.base_key = b /\ Sized(End(p, b)', Cardinality(sent'))
              /\ Joined(End(p, b)', End(Peer(p), b)', Said(p)', Said(Peer(p))', DOMAIN read')
  <2>1. y.base_key = b BY <1>16 DEF Responded
  <2>2. Peer(a) = q /\ Peer(q) = a BY <1>1, TwoParties
  <2>3. CASE p = a
    BY <1>3, <1>9, <1>17, <1>18, <1>19, <1>20, <1>21, <1>22, <2>2, <2>3
  <2>4. CASE p = q
    BY <1>3, <1>17, <1>18, <1>19, <1>20, <1>21, <1>22, <2>1, <2>2, <2>4
  <2>. QED BY <1>3, <2>3, <2>4
<1>24. record'[a] = <<End(a, b)'>> /\ record'[Peer(a)] \in {<<>>, <<End(Peer(a), b)'>>}
  BY <1>1, <1>11, <1>13, <1>17
<1>25. PreKeyOf(b) \in pre_keys'[Peer(a)] \cup {0}
  <2>1. PreKeyOf(b) \in up \cup {0} BY <1>2
  <2>. QED BY <1>1, <1>11, <1>14, <2>1
<1>26. End(a, b)'.pending = TRUE BY <1>9, <1>17
<1>27. Session(a, b)' BY ONLY <1>20, <1>23, <1>24, <1>25, <1>26 DEF Session, PreKeyOf
<1>28. started'[a] = 1 BY <1>5, <1>6, <1>12
<1>29. b \in 3..keys' BY <1>1, <1>3, <1>5
<1>30. Cardinality(sent') <= scenario'.sends
  <2>1. scenario.sends \in Nat BY ScenarioIs
  <2>. QED BY <1>5, <1>20, <2>1
<1>. QED BY ONLY <1>15, <1>20, <1>27, <1>28, <1>29, <1>30 DEF Level

\* Nobody speaks before there is a session.
LEMMA NothingYet ==
  ASSUME NEW p \in Parties, record[p] = <<>>, Encrypt(p) PROVE FALSE
<1>1. OpenOnes(<<>>) = {}
  <2>1. 1..Len(<<>>) = {} OBVIOUS
  <2>. QED BY <2>1 DEF OpenOnes
<1>. QED BY <1>1 DEF Encrypt

LEMMA RestartLevel ==
  ASSUME RatchetInv, NEW a, Level(a), NEW p \in Parties, Restart(p)
  PROVE  UNCHANGED vars
<1>1. Shapes /\ disk[p] = [record |-> record[p], pre_keys |-> pre_keys[p]]
  BY DEF Level, RatchetInv
<1>2. /\ record \in [Parties -> Seq(SessionType)] /\ pre_keys \in [Parties -> SUBSET Key]
  BY <1>1 DEF Shapes
<1>3. record' = record /\ pre_keys' = pre_keys BY <1>1, <1>2 DEF Restart
<1>. QED BY <1>3 DEF Restart, vars

LEMMA NextLevel ==
  ASSUME Modest, RatchetInv, RatchetInv', LevelInv, Next, NEW a \in Parties,
         scenario'.initiators = {a}
  PROVE  Level(a)'
<1>1. scenario' = scenario
  BY DEF Next, InitOutgoing, Encrypt, DecryptPreKeyMessage, DecryptMessage, Restart
<1>2. scenario.initiators = {a} /\ Level(a) BY <1>1 DEF LevelInv
<1>3. \/ sent = {} /\ \A p \in Parties : record[p] = <<>>
      \/ \E b : Alone(a, b)
  BY <1>2 DEF Level, Alone
<1>4. ASSUME NEW p \in scenario.initiators, InitOutgoing(p) PROVE Level(a)'
  <2>1. p = a BY <1>2
  <2>. QED BY <1>2, <1>4, <2>1, StartLevel
<1>5. ASSUME NEW p \in Parties, Encrypt(p) PROVE Level(a)'
  BY <1>3, <1>5, NothingYet, EncryptLevel
<1>6. ASSUME NEW p \in Parties, NEW m \in sent, DecryptPreKeyMessage(p, m) PROVE Level(a)'
  BY <1>3, <1>6, PreKeyMessageLevel
<1>7. ASSUME NEW p \in Parties, NEW m \in sent, DecryptMessage(p, m) PROVE Level(a)'
  BY <1>3, <1>7, MessageLevel
<1>8. ASSUME NEW p \in Parties, Restart(p) PROVE Level(a)'
  <2>1. UNCHANGED vars BY <1>2, <1>8, RestartLevel
  <2>. QED BY <1>2, <2>1 DEF vars, Level, Session, End, Said
<1>. QED BY <1>4, <1>5, <1>6, <1>7, <1>8 DEF Next

LEMMA InitLevel == Init => LevelInv
<1>. SUFFICES ASSUME Init, NEW a \in Parties, scenario.initiators = {a} PROVE Level(a)
  BY DEF LevelInv
<1>1. /\ scenario \in Scenarios /\ sent = {}
      /\ record = [p \in Parties |-> <<>>] /\ pre_keys = [p \in Parties |-> {}]
      /\ disk = [p \in Parties |-> [record |-> <<>>, pre_keys |-> {}]]
  BY DEF Init
<1>2. scenario.sends \in 0..MaxSends /\ MaxSends \in Nat
  BY <1>1, DoubleRatchetAssumption DEF Scenario
<1>3. Cardinality(sent) = 0 BY <1>1, FS_EmptySet
<1>4. Cardinality(sent) <= scenario.sends BY <1>2, <1>3
<1>5. \A p \in Parties : disk[p] = [record |-> record[p], pre_keys |-> pre_keys[p]] BY <1>1
<1>. QED BY <1>1, <1>4, <1>5 DEF Level

\* The inductive invariant of a conversation that one party started in one session: one end
\* is a step of the ratchet ahead of the other, and every message is filed in a chain of the
\* end it is for, or brings the step that opens one.
THEOREM LevelInvariant == ASSUME Modest PROVE Spec => []LevelInv
<1>1. RatchetInv /\ LevelInv /\ [Next]_vars => LevelInv'
  <2>. SUFFICES ASSUME RatchetInv, LevelInv, [Next]_vars, NEW a \in Parties,
                       scenario'.initiators = {a}
                PROVE  Level(a)'
    BY DEF LevelInv
  <2>1. RatchetInv' BY NextRatchet
  <2>2. CASE Next BY <2>1, <2>2, NextLevel
  <2>3. CASE UNCHANGED vars
    <3>1. Level(a) BY <2>3 DEF vars, LevelInv
    <3>. QED BY <2>3, <3>1 DEF vars, Level, Session, End, Said
  <2>. QED BY <2>2, <2>3
<1>. QED BY <1>1, InitLevel, RatchetInvariant, PTL DEF Spec

\* As long as one party alone starts sessions, and starts one, every message can be read
\* until it was, in whatever order the messages come and whatever was lost
\* (test_out_of_order_delivery; "for out-of-order msgs", double_ratchet.py:89).
THEOREM OneSidedReadableHolds == ASSUME Modest PROVE Spec => []OneSidedReadable
<1>1. ASSUME RatchetInv, LevelInv PROVE OneSidedReadable
  <2>. SUFFICES ASSUME Cardinality(scenario.initiators) = 1, NEW m \in sent,
                       ~BagIn(m, read)
                PROVE  Readable(m)
    BY DEF OneSidedReadable, EveryMessageReadable
  <2>1. PICK a : scenario.initiators = {a} /\ a \in Parties
    <3>1. scenario.initiators \subseteq Parties
      BY <1>1, DoubleRatchetAssumption DEF RatchetInv, Shapes, Scenario
    <3>2. IsFiniteSet(scenario.initiators) BY <3>1, DoubleRatchetAssumption, FS_Subset
    <3>3. PICK a : scenario.initiators = {a} BY <3>2, FS_Singleton
    <3>. QED BY <3>1, <3>3
  <2>2. PICK b : Alone(a, b)
    <3>1. Level(a) BY <1>1, <2>1 DEF LevelInv
    <3>2. sent # {} OBVIOUS
    <3>3. \E b \in 3..keys : Session(a, b) BY <3>1, <3>2 DEF Level
    <3>. QED BY <1>1, <2>1, <3>1, <3>3 DEF Alone
  <2>3. MessageInv(m, keys) BY <1>1 DEF RatchetInv, Sound
  <2>4. PICK p : p = Peer(m.from) OBVIOUS
  <2>5. p \in Parties /\ m.from # p BY <2>3, <2>4, TwoParties DEF MessageInv
  <2>6. PICK s, k, e : s = End(p, b) /\ k = keys + 1 /\ e = Tried(s, m, k) OBVIOUS
  <2>7. Fares(b, p, m, s, k, e)
    <3>1. Faces(a, b, p, m, s, k, e) BY <2>2, <2>5, <2>6 DEF Faces
    <3>. QED BY ONLY <3>1, EndReads
  <2>8. m \notin DOMAIN read BY DEF BagIn, BagToSet
  <2>9. Decrypts(End(p, b), m, keys + 1) BY <2>6, <2>7, <2>8 DEF Fares
  <2>10. CASE m.prekey
    <3>1. PreKeyDecrypts(p, m) BY <2>2, <2>5, <2>9, <2>10, PreKeyReads
    <3>. QED BY <2>4, <2>10, <3>1 DEF Readable
  <2>11. CASE ~m.prekey
    <3>1. MessageDecrypts(p, m) BY <2>2, <2>5, <2>9, <2>11, MessageReads
    <3>. QED BY <2>4, <2>11, <3>1 DEF Readable
  <2>. QED BY <2>10, <2>11
<1>. QED BY <1>1, RatchetInvariant, LevelInvariant, PTL

=============================================================================
