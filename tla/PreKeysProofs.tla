--------------------------- MODULE PreKeysProofs ---------------------------
(***************************************************************************)
(* No id of a pre-key stands for two keys and every pre-key a peer may use *)
(* has its private key here, for every batch size, threshold and number of *)
(* uploads, if the process never dies between the key file and the creds   *)
(* file.                                                                   *)
(***************************************************************************)
EXTENDS PreKeys, FiniteSetTheorems, TLAPS

\* The pre-keys somebody else has or is about to have.
Out == server \cup handed \cup flying

\* The inductive form: ids grow with next_pre_key_id, and a pre-key is in one place, so
\* that the use of one takes no other's private key.
UseInv ==
  /\ \A p \in offered : p[1] < next_id
  /\ FreshIds
  /\ PreKeysUsable
  /\ server \cap handed = {} /\ server \cap flying = {} /\ handed \cap flying = {}

-----------------------------------------------------------------------------
\* Lemmas on a batch of new pre-keys and on the store it is put in.

\* A batch has count pre-keys, with the ids from id on and the next pairs.
LEMMA BatchOf ==
  ASSUME NEW id \in Nat \ {0}, NEW count \in Nat \ {0}, drawn \in Nat
  PROVE  LET B == Batch(id, count)
         IN  /\ IsFiniteSet(B) /\ Cardinality(B) = count
             /\ \A p \in B : /\ p = <<p[1], p[2]>>
                             /\ p[1] \in id..(id + count - 1)
                             /\ p[2] \in (drawn + 1)..(drawn + count)
             /\ \A p, q \in B : p[1] = q[1] => p = q
<1>. DEFINE B == Batch(id, count)
            f == [i \in 0..(count - 1) |-> <<id + i, drawn + 1 + i>>]
<1>1. f \in Bijection(0..(count - 1), B)
  <2>1. f \in [0..(count - 1) -> B] BY DEF Batch
  <2>2. \A i, j \in 0..(count - 1) : f[i] = f[j] => i = j OBVIOUS
  <2>3. \A p \in B : \E i \in 0..(count - 1) : f[i] = p BY DEF Batch
  <2>. QED BY <2>1, <2>2, <2>3 DEF Bijection, Injection, IsInjective, Surjection
<1>2. IsFiniteSet(0..(count - 1)) /\ Cardinality(0..(count - 1)) = count
  BY FS_Interval
<1>3. IsFiniteSet(B) /\ Cardinality(B) = count
  <2>1. ExistsBijection(0..(count - 1), B) BY <1>1 DEF ExistsBijection
  <2>. HIDE DEF f, B
  <2>. QED BY <2>1, <1>2, FS_Bijection
<1>4. ASSUME NEW p \in B
      PROVE  /\ p = <<p[1], p[2]>>
             /\ p[1] \in id..(id + count - 1)
             /\ p[2] \in (drawn + 1)..(drawn + count)
  BY DEF Batch
<1>5. \A p, q \in B : p[1] = q[1] => p = q BY DEF Batch
<1>. QED BY <1>3, <1>4, <1>5

\* What is put in is there; what has another id stays; nothing else is there.
LEMMA PutIn ==
  ASSUME NEW f, NEW S, \A p, q \in S : p[1] = q[1] => p = q
  PROVE  /\ DOMAIN Put(f, S) = DOMAIN f \cup Ids(S)
         /\ \A p \in S : Put(f, S)[p[1]] = p[2]
         /\ \A id \in DOMAIN f \ Ids(S) : Put(f, S)[id] = f[id]
<1>1. DOMAIN Put(f, S) = DOMAIN f \cup Ids(S) BY DEF Put
<1>2. ASSUME NEW p \in S PROVE Put(f, S)[p[1]] = p[2]
  <2>1. p[1] \in Ids(S) BY DEF Ids
  <2>2. (CHOOSE q \in S : q[1] = p[1]) = p OBVIOUS
  <2>. QED BY <2>1, <2>2 DEF Put
<1>3. \A id \in DOMAIN f \ Ids(S) : Put(f, S)[id] = f[id] BY DEF Put
<1>. QED BY <1>1, <1>2, <1>3

LEMMA UploadCounts == \A c : UploadCount(c) \in Nat \ {0}
BY PreKeysAssumption DEF UploadCount

-----------------------------------------------------------------------------
\* What every step does to the pre-keys, whatever the process is doing otherwise.

LEMMA InitTypes == Init => TypeOK
<1>. SUFFICES ASSUME Init PROVE TypeOK
  OBVIOUS
<1>1. DOMAIN << >> = {} OBVIOUS
<1>2. Pairs(store) = {} BY <1>1 DEF Init, Pairs
<1>3. Pairs(store) \subseteq PreKey BY <1>2
<1>4. next_id \in Nat \ {0} /\ next_saved \in 1..next_id BY DEF Init
<1>5. store_saved = store /\ drawn \in Nat BY DEF Init
<1>6. online \in BOOLEAN /\ upload = "none" BY DEF Init
<1>7. offered = {} /\ server \cup handed \cup flying = {} BY DEF Init
<1>. QED BY <1>3, <1>4, <1>5, <1>6, <1>7 DEF TypeOK

\* The types are preserved by every action, with a crash between the files too.
LEMMA StepTypes == TypeOK /\ [Next]_vars => TypeOK'
<1>. SUFFICES ASSUME TypeOK, [Next]_vars PROVE TypeOK'
  OBVIOUS
<1>. USE PreKeysAssumption DEF TypeOK, mem, files, far
<1>1. CASE Login BY <1>1 DEF Login, PreKey, Pairs
<1>2. CASE CountReply
  <2>. DEFINE c == Cardinality(server)
              new == Batch(next_id, UploadCount(c))
  <2>1. CASE ~Needed(c)
    <3>1. UNCHANGED <<mem, store_saved, flying, drawn, offered, next_saved, online, far>>
          /\ upload' = "none"
      BY <1>2, <2>1 DEF CountReply
    <3>. QED BY <3>1 DEF PreKey, Pairs
  <2>2. CASE Needed(c)
    <3>1. /\ drawn' = drawn + Cardinality(new)
          /\ store' = Put(store, new) /\ store_saved' = store'
          /\ next_id' = next_id + UploadCount(c)
          /\ flying' = new /\ offered' = offered \cup new
          /\ upload' = "uploading" /\ upload = "counting"
          /\ UNCHANGED <<next_saved, online, server, handed>>
      BY <1>2, <2>2 DEF CountReply, Saved, Advanced
    <3>2. next_id \in Nat \ {0} /\ drawn \in Nat /\ UploadCount(c) \in Nat \ {0}
      BY UploadCounts
    <3>3. /\ Cardinality(new) = UploadCount(c)
          /\ \A p \in new : /\ p = <<p[1], p[2]>>
                            /\ p[1] \in next_id..(next_id + UploadCount(c) - 1)
                            /\ p[2] \in (drawn + 1)..(drawn + UploadCount(c))
          /\ \A p, q \in new : p[1] = q[1] => p = q
      BY <3>2, BatchOf
    <3>. HIDE DEF c, new
    <3>4. PreKey \subseteq PreKey' BY <3>1, <3>2, <3>3 DEF PreKey
    <3>5. new \subseteq PreKey' BY <3>1, <3>2, <3>3 DEF PreKey
    <3>6. Pairs(store)' \subseteq Pairs(store) \cup new
      <4>1. /\ DOMAIN store' = DOMAIN store \cup Ids(new)
            /\ \A p \in new : store'[p[1]] = p[2]
            /\ \A id \in DOMAIN store \ Ids(new) : store'[id] = store[id]
        <5>1. \A p, q \in new : p[1] = q[1] => p = q BY <3>3
        <5>2. /\ DOMAIN Put(store, new) = DOMAIN store \cup Ids(new)
              /\ \A p \in new : Put(store, new)[p[1]] = p[2]
              /\ \A id \in DOMAIN store \ Ids(new) : Put(store, new)[id] = store[id]
          BY <5>1, PutIn
        <5>. QED BY <3>1, <5>2
      <4>2. ASSUME NEW id \in DOMAIN store'
            PROVE  <<id, store'[id]>> \in Pairs(store) \cup new
        <5>1. CASE id \in Ids(new)
          <6>1. PICK p \in new : p[1] = id BY <5>1 DEF Ids
          <6>. QED BY <6>1, <4>1, <3>3
        <5>2. CASE id \notin Ids(new) BY <5>2, <4>1 DEF Pairs
        <5>. QED BY <5>1, <5>2
      <4>. QED BY <4>2 DEF Pairs
    <3>7. next_id' \in Nat \ {0} /\ next_saved' \in 1..next_id' BY <3>1, <3>2
    <3>8. offered' \subseteq PreKey' /\ drawn' \in Nat BY <3>1, <3>2, <3>3, <3>4, <3>5
    <3>9. Pairs(store)' \subseteq PreKey' BY <3>4, <3>5, <3>6
    <3>10. server' \cup handed' \cup flying' \subseteq offered' BY <3>1
    <3>11. online' \in BOOLEAN /\ upload' = "uploading" /\ online' BY <3>1
    <3>. QED BY <3>1, <3>7, <3>8, <3>9, <3>10, <3>11
  <2>. QED BY <2>1, <2>2
<1>3. CASE ServerStores BY <1>3 DEF ServerStores, PreKey, Pairs
<1>4. CASE UploadReply BY <1>4 DEF UploadReply, PreKey, Pairs
<1>5. CASE QueryFails BY <1>5 DEF QueryFails, PreKey, Pairs
<1>6. CASE Disconnect BY <1>6 DEF Disconnect, PreKey, Pairs
<1>7. ASSUME NEW p \in server, HandOut(p) PROVE TypeOK'
  BY <1>7 DEF HandOut, PreKey, Pairs
<1>8. ASSUME NEW p \in handed, MessageArrives(p) PROVE TypeOK'
  BY <1>8 DEF MessageArrives, PreKey, Pairs, Saved, Restrict
<1>9. CASE Restart
  <2>1. /\ next_id' = next_saved /\ store' = store_saved /\ online' = FALSE
        /\ upload' = "none" /\ flying' \in {{}, flying}
        /\ UNCHANGED <<files, far, drawn, offered>>
    BY <1>9 DEF Restart
  <2>2. flying' \subseteq flying BY <2>1
  <2>3. Pairs(store)' = Pairs(store) /\ PreKey' = PreKey BY <2>1 DEF PreKey, Pairs
  <2>4. next_id' \in Nat \ {0} /\ next_saved' \in 1..next_id' BY <2>1
  <2>5. Pairs(store)' \subseteq PreKey' /\ store_saved' = store' BY <2>1, <2>3
  <2>6. /\ drawn' \in Nat /\ offered' \subseteq PreKey'
        /\ server' \cup handed' \cup flying' \subseteq offered'
    BY <2>1, <2>2, <2>3
  <2>. QED BY <2>1, <2>4, <2>5, <2>6
<1>10. CASE UNCHANGED vars BY <1>10 DEF vars, PreKey, Pairs
<1>. QED BY <1>1, <1>2, <1>3, <1>4, <1>5, <1>6, <1>7, <1>8, <1>9, <1>10 DEF Next

\* The creds in memory, the two files and the server's copies keep their types.
THEOREM PreKeysTyped == Spec => []TypeOK
BY InitTypes, StepTypes, PTL DEF Spec

-----------------------------------------------------------------------------
\* Without a crash between the files, ids stay fresh and private keys stay here.

LEMMA InitUse == Init => UseInv
BY DEF Init, UseInv, FreshIds, PreKeysUsable

\* A step that neither draws keys nor uses one only moves pre-keys between those who
\* may use them.
LEMMA MovesOnly ==
  ASSUME UseInv, Out' \subseteq Out,
         UNCHANGED <<next_id, store, offered>>,
         server' \cap handed' = {}, server' \cap flying' = {}, handed' \cap flying' = {}
  PROVE  UseInv'
<1>1. FreshIds' /\ \A p \in offered' : p[1] < next_id' BY DEF UseInv, FreshIds
<1>2. PreKeysUsable' BY DEF UseInv, PreKeysUsable, Readable, Out
<1>. QED BY <1>1, <1>2 DEF UseInv

LEMMA StepUse ==
  ASSUME ~CrashBetweenFiles, TypeOK, UseInv, [Next]_vars
  PROVE  UseInv'
<1>. USE DEF mem, files, far
<1>0. /\ Out \subseteq offered
      /\ \A p \in offered : p[1] \in Nat
      /\ next_id \in Nat \ {0} /\ drawn \in Nat
  BY DEF TypeOK, PreKey, Out
<1>s. /\ server \cap handed = {} /\ server \cap flying = {} /\ handed \cap flying = {}
  BY DEF UseInv
<1>1. CASE Login BY <1>1, <1>s, MovesOnly DEF Login, Out
<1>2. CASE CountReply
  <2>. DEFINE c == Cardinality(server)
              new == Batch(next_id, UploadCount(c))
  <2>1. CASE ~Needed(c)
    <3>1. UNCHANGED <<next_id, store, offered, server, handed, flying>>
      BY <1>2, <2>1 DEF CountReply
    <3>. QED BY <3>1, <1>s, MovesOnly DEF Out
  <2>2. CASE Needed(c)
    <3>1. /\ store' = Put(store, new) /\ next_id' = next_id + UploadCount(c)
          /\ flying' = new /\ offered' = offered \cup new
          /\ UNCHANGED <<server, handed>>
      BY <1>2, <2>2 DEF CountReply, Advanced
    <3>2. UploadCount(c) \in Nat \ {0} BY UploadCounts
    <3>3. /\ \A p \in new : /\ p = <<p[1], p[2]>>
                            /\ p[1] \in next_id..(next_id + UploadCount(c) - 1)
          /\ \A p, q \in new : p[1] = q[1] => p = q
      BY <1>0, <3>2, BatchOf
    <3>. HIDE DEF c, new
    <3>4. /\ DOMAIN Put(store, new) = DOMAIN store \cup Ids(new)
          /\ \A p \in new : Put(store, new)[p[1]] = p[2]
          /\ \A id \in DOMAIN store \ Ids(new) : Put(store, new)[id] = store[id]
      <4>1. \A p, q \in new : p[1] = q[1] => p = q BY <3>3
      <4>. QED BY <4>1, PutIn
    <3>5. \A p \in offered : p[1] < next_id BY DEF UseInv
    <3>6. \A p \in offered, q \in new : p[1] # q[1] BY <1>0, <3>2, <3>3, <3>5
    <3>7. \A p \in offered' : p[1] < next_id' BY <1>0, <3>1, <3>2, <3>3, <3>5
    <3>8. FreshIds' BY <3>1, <3>3, <3>6 DEF UseInv, FreshIds
    <3>9. ASSUME NEW p \in new PROVE Readable(p)'
      <4>1. p[1] \in Ids(new) BY DEF Ids
      <4>. QED BY <4>1, <3>1, <3>4 DEF Readable
    <3>10. ASSUME NEW p \in server \cup handed PROVE Readable(p)'
      <4>1. p \in offered /\ Readable(p) BY <1>0 DEF UseInv, PreKeysUsable, Out
      <4>2. p[1] \notin Ids(new) BY <4>1, <3>6 DEF Ids
      <4>. QED BY <4>1, <4>2, <3>1, <3>4 DEF Readable
    <3>11. PreKeysUsable' BY <3>1, <3>9, <3>10 DEF PreKeysUsable
    <3>12. server' \cap flying' = {} /\ handed' \cap flying' = {}
      BY <3>1, <3>6, <1>0 DEF Out
    <3>. QED BY <3>1, <3>7, <3>8, <3>11, <3>12, <1>s DEF UseInv
  <2>. QED BY <2>1, <2>2
<1>3. CASE ServerStores BY <1>3, <1>s, MovesOnly DEF ServerStores, Out
<1>4. CASE UploadReply BY <1>4, <1>s, MovesOnly DEF UploadReply, Out
<1>5. CASE QueryFails BY <1>5, <1>s, MovesOnly DEF QueryFails, Out
<1>6. CASE Disconnect
  <2>1. flying' \subseteq flying /\ UNCHANGED <<next_id, store, offered, server, handed>>
    BY <1>6 DEF Disconnect
  <2>. QED BY <2>1, <1>s, MovesOnly DEF Out
<1>7. ASSUME NEW p \in server, HandOut(p) PROVE UseInv'
  BY <1>7, <1>s, MovesOnly DEF HandOut, Out
<1>8. ASSUME NEW p \in handed, MessageArrives(p) PROVE UseInv'
  <2>1. /\ handed' = handed \ {p}
        /\ store' = [id \in DOMAIN store \ {p[1]} |-> store[id]]
        /\ UNCHANGED <<next_id, offered, server, flying>>
    BY <1>8 DEF MessageArrives, Restrict
  <2>2. \A q \in server' \cup handed' \cup flying' : q[1] # p[1]
    <3>1. \A q \in server' \cup handed' \cup flying' : q \in offered /\ q # p
      BY <2>1, <1>0, <1>s DEF Out
    <3>2. p \in offered BY <1>0 DEF Out
    <3>. QED BY <3>1, <3>2 DEF UseInv, FreshIds
  <2>3. PreKeysUsable' BY <2>1, <2>2 DEF UseInv, PreKeysUsable, Readable
  <2>. QED BY <2>1, <2>3, <1>s DEF UseInv, FreshIds
<1>9. CASE Restart
  <2>1. /\ next_id' = next_id /\ store' = store
        /\ flying' \in {{}, flying} /\ UNCHANGED <<far, offered>>
    BY <1>9 DEF Restart, TypeOK
  <2>2. flying' \subseteq flying BY <2>1
  <2>. QED BY <2>1, <2>2, <1>s, MovesOnly DEF Out
<1>10. CASE UNCHANGED vars BY <1>10, <1>s, MovesOnly DEF vars, Out
<1>. QED BY <1>1, <1>2, <1>3, <1>4, <1>5, <1>6, <1>7, <1>8, <1>9, <1>10 DEF Next

\* Unless the process dies between the two files, an id never stands for two keys
\* (test_consecutive_uploads_use_fresh_ids), however uploads fail and are repeated.
THEOREM IdsStayFresh == ASSUME ~CrashBetweenFiles PROVE Spec => []FreshIds
<1>1. Init => TypeOK /\ UseInv BY InitTypes, InitUse
<1>2. TypeOK /\ UseInv /\ [Next]_vars => TypeOK' /\ UseInv' BY StepTypes, StepUse
<1>3. UseInv => FreshIds BY DEF UseInv
<1>. QED BY <1>1, <1>2, <1>3, PTL DEF Spec

\* Unless the process dies between the two files, every pre-key that a peer may build a
\* session with has its private key here, through lost uploads, restarts and reuse.
THEOREM PeersCanUsePreKeys == ASSUME ~CrashBetweenFiles PROVE Spec => []PreKeysUsable
<1>1. Init => TypeOK /\ UseInv BY InitTypes, InitUse
<1>2. TypeOK /\ UseInv /\ [Next]_vars => TypeOK' /\ UseInv' BY StepTypes, StepUse
<1>3. UseInv => PreKeysUsable BY DEF UseInv
<1>. QED BY <1>1, <1>2, <1>3, PTL DEF Spec

=============================================================================
