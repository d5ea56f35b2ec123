---------------------------- MODULE ReceiveProofs ----------------------------
(***************************************************************************)
(* For every script of messages and any number of lost connections,        *)
(* restarts and kills: the application gets each message once and in the   *)
(* server's order, nothing that was acked is lost, only repetitions fail,  *)
(* and a history is complete when it is said to be.                        *)
(***************************************************************************)
EXTENDS Receive, SequenceTheorems, FiniteSetTheorems, TLAPS

\* The sender's distribution message comes before the messages of its chain.
KeysFirst ==
  \A m \in Messages :
    Kind(m) = "group" => Script[m].key < m /\ Kind(Script[m].key) = "skdm"

Busy == reader.at # "idle"

\* What is on its way belongs to the connection that is up; what the read loop works
\* on was not acked.
Flow ==
  /\ ~online => inbox = <<>> /\ acks = {}
  /\ online /\ Busy => reader.m \in owed \ (Range(inbox) \cup acks)

\* m will not be told any more: it has no text, its key is gone, or it needs a sender
\* key that a kill lost.
Settled(m) ==
  \/ Kind(m) = "bare" \/ m \in keys.taken
  \/ Kind(m) = "group" /\ Script[m].key \in keys.taken \ keys.installed

\* Whatever precedes a message whose key was taken is settled, and so is all that was
\* acked, and all that the connection has delivered.
OrderInv ==
  /\ keys.taken \subseteq 1..(next - 1) /\ keys.installed \subseteq keys.taken
  /\ Range(told) \subseteq keys.taken
  /\ \A t \in keys.taken : \A m \in 1..(t - 1) : Settled(m)
  /\ \A m \in 1..(next - 1) \ owed : Settled(m)
  /\ online => \A m \in 1..(next - 1) \ Range(inbox) : Settled(m)
  /\ ToldInOrder

-----------------------------------------------------------------------------
\* Lemmas on increasing sequences.

LEMMA FirstOf ==
  ASSUME NEW q \in Seq(Nat), q # <<>>, Increasing(q)
  PROVE  /\ Head(q) \in Range(q)
         /\ Tail(q) \in Seq(Nat) /\ Increasing(Tail(q))
         /\ Range(Tail(q)) = Range(q) \ {Head(q)}
         /\ \A x \in Range(Tail(q)) : Head(q) < x
<1>1. Len(q) \in Nat \ {0} /\ DOMAIN q = 1..Len(q) /\ Head(q) = q[1] OBVIOUS
<1>2. \A i \in 1..Len(q) : q[i] \in Nat BY ElementOfSeq
<1>3. /\ Tail(q) \in Seq(Nat) /\ Len(Tail(q)) = Len(q) - 1
      /\ \A i \in 1..Len(Tail(q)) : Tail(q)[i] = q[i + 1]
  BY HeadTailProperties
<1>4. Range(q) = {q[i] : i \in 1..Len(q)} BY RangeEquality
<1>5. Range(Tail(q)) = {Tail(q)[i] : i \in 1..Len(Tail(q))} BY <1>3, RangeEquality
<1>6. Increasing(Tail(q)) BY <1>1, <1>2, <1>3 DEF Increasing
<1>7. \A x \in Range(Tail(q)) : x \in Range(q) /\ Head(q) < x
  BY <1>1, <1>2, <1>3, <1>4, <1>5 DEF Increasing
<1>8. \A x \in Range(q) \ {Head(q)} : x \in Range(Tail(q))
  <2>. SUFFICES ASSUME NEW i \in 1..Len(q), q[i] # Head(q) PROVE q[i] \in Range(Tail(q))
    BY <1>4
  <2>1. i - 1 \in 1..Len(Tail(q)) BY <1>1, <1>3
  <2>2. Tail(q)[i - 1] = q[i] BY <1>1, <1>3, <2>1
  <2>. QED BY <1>5, <2>1, <2>2
<1>9. Head(q) \in Nat BY <1>1, <1>2
<1>10. Head(q) \in Range(q) BY <1>1, <1>4
<1>. QED BY <1>3, <1>6, <1>7, <1>8, <1>9, <1>10, <1>2, <1>4

LEMMA Added ==
  ASSUME NEW q \in Seq(Nat), NEW x \in Nat
  PROVE  /\ Append(q, x) \in Seq(Nat) /\ Range(Append(q, x)) = Range(q) \cup {x}
         /\ Increasing(q) /\ (\A y \in Range(q) : y < x) => Increasing(Append(q, x))
<1>1. /\ Append(q, x) \in Seq(Nat) /\ Len(Append(q, x)) = Len(q) + 1 /\ Len(q) \in Nat
      /\ \A i \in 1..Len(q) : Append(q, x)[i] = q[i]
      /\ Append(q, x)[Len(q) + 1] = x
  BY AppendProperties
<1>2. Range(q) = {q[i] : i \in 1..Len(q)} BY RangeEquality
<1>3. Range(Append(q, x)) = {Append(q, x)[i] : i \in 1..(Len(q) + 1)}
  BY <1>1, RangeEquality
<1>4. ASSUME Increasing(q), \A y \in Range(q) : y < x PROVE Increasing(Append(q, x))
  BY <1>1, <1>2, <1>4 DEF Increasing
<1>5. Range(Append(q, x)) = Range(q) \cup {x} BY <1>1, <1>2, <1>3
<1>. QED BY <1>1, <1>4, <1>5

\* What a new connection delivers is what is owed, in order.
LEMMA InOrderOf ==
  ASSUME NEW S, S \subseteq 1..Len(Script), NEW q \in InOrder(S)
  PROVE  q \in Seq(Nat) /\ Increasing(q) /\ Range(q) = S
<1>1. Len(Script) \in Nat BY ReceiveAssumption
<1>2. Cardinality(S) \in Nat
  <2>1. IsFiniteSet(1..Len(Script)) BY <1>1, FS_Interval
  <2>2. IsFiniteSet(S) BY <2>1, FS_Subset
  <2>. QED BY <2>2, FS_CardinalityType
<1>3. q \in Seq(S) BY <1>2, IsASeq DEF InOrder
<1>4. S \subseteq Nat BY <1>1
<1>5. q \in Seq(Nat) BY <1>3, <1>4, SeqMonotonic
<1>. QED BY <1>3, <1>5 DEF InOrder

-----------------------------------------------------------------------------
\* Types, and what is on its way.

Stage == Parts \cup {"download", "set"}

LEMMA StagesTyped ==
  ASSUME NEW m \in Messages
  PROVE  Stages(m) \in Seq(Stage)
<1>1. \A part \in Parts : Present(m, part) \in Seq(Stage) BY DEF Present, Stage
<1>2. <<"download">> \in Seq(Stage) /\ <<"set">> \in Seq(Stage) BY DEF Stage
<1>3. {"contacts", "chats", "messages"} \subseteq Parts BY DEF Parts
<1>. HIDE DEF Stage, Parts, Present
<1>4. \A s, t \in Seq(Stage) : s \o t \in Seq(Stage) BY ConcatProperties
<1>. QED BY <1>1, <1>2, <1>3, <1>4 DEF Stages

Typed == TypeOK /\ Flow

LEMMA InitTyped == Init => Typed
<1>. SUFFICES ASSUME Init PROVE Typed
  OBVIOUS
<1>1. Range(<<>>) = {} /\ Increasing(<<>>) BY DEF Range, Increasing
<1>2. [m \in Messages |-> <<>>] \in [Messages -> Seq(Stage)] OBVIOUS
<1>3. Len(Script) \in Nat BY ReceiveAssumption
<1>4. <<>> \in Seq(Nat) /\ 1 \in 1..(Len(Script) + 1) BY <1>3
<1>5. NoKeys \in [taken : SUBSET Messages, installed : SUBSET Messages] BY DEF NoKeys
<1>6. TypeOK BY <1>1, <1>2, <1>4, <1>5 DEF Init, TypeOK, Stage
<1>7. Flow BY DEF Init, Flow
<1>. QED BY <1>6, <1>7 DEF Typed

\* The node in front of the inbox is a message that is owed and was not acked.
LEMMA InFront ==
  ASSUME TypeOK, inbox # <<>>
  PROVE  /\ Head(inbox) \in Messages /\ Head(inbox) \in owed
         /\ Head(inbox) \in Range(inbox) /\ Head(inbox) \notin Range(Tail(inbox))
         /\ Tail(inbox) \in Seq(Nat) /\ Increasing(Tail(inbox))
         /\ Range(Tail(inbox)) \subseteq Range(inbox)
<1>1. Head(inbox) \in Range(inbox) /\ Range(Tail(inbox)) = Range(inbox) \ {Head(inbox)}
      /\ Tail(inbox) \in Seq(Nat) /\ Increasing(Tail(inbox))
  BY FirstOf DEF TypeOK
<1>2. next - 1 <= Len(Script) /\ next \in Nat /\ Len(Script) \in Nat
  BY ReceiveAssumption DEF TypeOK
<1>3. Head(inbox) \in owed /\ owed \subseteq 1..(next - 1) BY <1>1 DEF TypeOK
<1>4. 1..(next - 1) \subseteq Messages BY <1>2 DEF Messages
<1>. QED BY <1>1, <1>3, <1>4

\* A node leaves the inbox for the read loop.
LEMMA Takes ==
  ASSUME Typed, inbox # <<>>, online, inbox' = Tail(inbox),
         reader'.m = Head(inbox), reader' \in [at : {"telling", "acking"}, m : Messages],
         UNCHANGED <<next, owed, acks, online>>
  PROVE  /\ inbox' \in Seq(Nat) /\ Increasing(inbox') /\ Range(inbox') \subseteq owed'
         /\ acks' \subseteq owed' \ Range(inbox') /\ Flow'
BY InFront DEF Typed, TypeOK, Flow

LEMMA StepTyped == Typed /\ [Next]_vars => Typed'
<1>. SUFFICES ASSUME Typed, [Next]_vars PROVE Typed'
  OBVIOUS
<1>0. TypeOK /\ Flow BY DEF Typed
<1>. DEFINE Carried == /\ inbox' \in Seq(Nat) /\ Increasing(inbox')
                       /\ Range(inbox') \subseteq owed'
                       /\ acks' \subseteq owed' \ Range(inbox')
<1>1. CASE TakeBare
  <2>1. Head(inbox) \in Messages BY <1>0, <1>1, InFront DEF TakeBare
  <2>2. Carried /\ Flow' BY <1>0, <1>1, <2>1, Takes DEF TakeBare, First, server, Typed
  <2>. HIDE DEF Carried
  <2>3. reader' \in [at : {"telling", "acking"}, m : Messages]
    BY <1>1, <2>1 DEF TakeBare, First
  <2>. QED BY <1>0, <1>1, <2>2, <2>3 DEF TakeBare, Typed, TypeOK, server, faults, Carried
<1>2. CASE TakeUnreadable
  <2>1. Head(inbox) \in Messages BY <1>0, <1>2, InFront DEF TakeUnreadable
  <2>3. reader' \in [at : {"telling", "acking"}, m : Messages] /\ reader'.m = Head(inbox)
    BY <1>2, <2>1 DEF TakeUnreadable, First
  <2>2. Carried /\ Flow' BY <1>0, <1>2, <2>1, <2>3, Takes DEF TakeUnreadable, server, Typed
  <2>. HIDE DEF Carried
  <2>. QED BY <1>0, <1>2, <2>1, <2>2, <2>3
           DEF TakeUnreadable, Typed, TypeOK, server, faults, Carried, First, Reported
<1>3. CASE TakeReadable
  <2>. DEFINE m == Head(inbox)
  <2>1. m \in Messages BY <1>0, <1>3, InFront DEF TakeReadable
  <2>2. PICK ok \in Outcomes : /\ stored' = IF ok THEN Put(m, "live") ELSE stored
                               /\ told' = IF ok THEN Append(told, m) ELSE told
                               /\ reader' = [at |-> IF ok THEN "telling" ELSE "acking", m |-> m]
    BY <1>3 DEF TakeReadable, First
  <2>3. reader' \in [at : {"telling", "acking"}, m : Messages] /\ reader'.m = m
    BY <2>1, <2>2
  <2>4. Carried /\ Flow' BY <1>0, <1>3, <2>1, <2>3, Takes DEF TakeReadable, server, Typed
  <2>5. /\ keys' \in [taken : SUBSET Messages, installed : SUBSET Messages]
        /\ saved' = keys'
    BY <1>0, <1>3, <2>1 DEF TakeReadable, First, Installed, Taken, Written, TypeOK
  <2>6. stored' \subseteq Messages \X (Parts \cup {"live"})
    BY <1>0, <2>1, <2>2 DEF TypeOK, Put
  <2>7. told' \in Seq(Nat) /\ Range(told') \subseteq Messages
    <3>1. m \in Nat BY <2>1 DEF Messages
    <3>2. Append(told, m) \in Seq(Nat) /\ Range(Append(told, m)) = Range(told) \cup {m}
      BY <1>0, <3>1, Added DEF TypeOK
    <3>. QED BY <1>0, <2>1, <2>2, <3>2 DEF TypeOK
  <2>8. job' \in [Messages -> Seq(Stage)]
    BY <1>0, <1>3, <2>1, StagesTyped DEF TakeReadable, First, TypeOK, Stage
  <2>. HIDE DEF Carried, m
  <2>. QED BY <1>0, <1>3, <2>3, <2>4, <2>5, <2>6, <2>7, <2>8
           DEF TakeReadable, Typed, TypeOK, server, faults, Carried, Stage
<1>4. CASE ListenerDone
  <2>1. reader' = [reader EXCEPT !.at = "acking"] BY <1>4 DEF ListenerDone, AckAnyway
  <2>2. reader \in [at : {"telling", "acking"}, m : Messages]
    BY <1>0, <1>4 DEF ListenerDone, TypeOK, Idle
  <2>. QED BY <1>0, <1>4, <2>1, <2>2
           DEF ListenerDone, Typed, TypeOK, Flow, Busy, server, faults
<1>5. CASE Ack
  <2>1. reader \in [at : {"telling", "acking"}, m : Messages] /\ Busy
    BY <1>0, <1>5 DEF Ack, TypeOK, Idle, Busy
  <2>. QED BY <1>0, <1>5, <2>1 DEF Ack, Typed, TypeOK, Flow, Busy, Idle, server, faults
<1>6. CASE ReaderCancelled
  BY <1>0, <1>6 DEF ReaderCancelled, Typed, TypeOK, Flow, Busy, Idle, server, faults
<1>7. ASSUME NEW m \in Messages, HistoryStep(m) PROVE Typed'
  <2>1. job[m] # <<>> /\ job' \in {Advances(m), Ends(m)}
    BY <1>7 DEF HistoryStep, DownloadHistory, EmitPart, EmitSummary
  <2>2. job' \in [Messages -> Seq(Stage)]
    <3>1. job \in [Messages -> Seq(Stage)] /\ job[m] \in Seq(Stage) BY <1>0 DEF TypeOK, Stage
    <3>2. Tail(job[m]) \in Seq(Stage) /\ <<>> \in Seq(Stage)
      BY <2>1, <3>1, HeadTailProperties
    <3>. QED BY <2>1, <3>1, <3>2 DEF Advances, Ends
  <2>3. stored' \subseteq Messages \X (Parts \cup {"live"}) /\ complete' \subseteq Messages
    BY <1>0, <1>7 DEF HistoryStep, DownloadHistory, EmitPart, EmitSummary, TypeOK, Put
  <2>. QED BY <1>0, <1>7, <2>2, <2>3
           DEF HistoryStep, Typed, TypeOK, Flow, Busy, Stage, server, faults
<1>8. CASE ServerGets
  <2>1. /\ next \in Nat /\ next' = next + 1 /\ next' \in 1..(Len(Script) + 1)
        /\ owed \subseteq 1..(next - 1) /\ owed' = owed \cup {next}
        /\ owed' \subseteq 1..(next' - 1) /\ next \notin owed
    BY <1>0, <1>8, ReceiveAssumption DEF ServerGets, TypeOK, Messages
  <2>2. \A y \in Range(inbox) : y < next BY <1>0, <2>1 DEF TypeOK
  <2>3. Carried /\ Flow'
    <3>1. Append(inbox, next) \in Seq(Nat) /\ Increasing(Append(inbox, next))
          /\ Range(Append(inbox, next)) = Range(inbox) \cup {next}
      BY <1>0, <2>1, <2>2, Added DEF TypeOK
    <3>. QED BY <1>0, <1>8, <2>1, <3>1 DEF ServerGets, TypeOK, Flow, Busy
  <2>. HIDE DEF Carried
  <2>. QED BY <1>0, <1>8, <2>1, <2>3 DEF ServerGets, Typed, TypeOK, faults, Carried
<1>9. ASSUME NEW m \in Messages, ServerTakesAck(m) PROVE Typed'
  BY <1>0, <1>9 DEF ServerTakesAck, Typed, TypeOK, Flow, Busy, faults
<1>10. CASE Connect
  <2>1. owed \subseteq 1..Len(Script)
    BY <1>0, ReceiveAssumption DEF TypeOK
  <2>2. inbox' \in Seq(Nat) /\ Increasing(inbox') /\ Range(inbox') = owed
    BY <1>10, <2>1, InOrderOf DEF Connect
  <2>3. acks = {} /\ acks' = {} /\ reader.at = "idle" /\ reader' = reader /\ owed' = owed
    BY <1>0, <1>10 DEF Connect, Flow, Idle, server
  <2>. QED BY <1>0, <1>10, <2>2, <2>3
           DEF Connect, Typed, TypeOK, Flow, Busy, server, faults
<1>11. CASE Drop
  <2>1. Range(<<>>) = {} /\ Increasing(<<>>) /\ <<>> \in Seq(Nat) BY DEF Range, Increasing
  <2>. QED BY <1>0, <1>11, <2>1 DEF Drop, Typed, TypeOK, Flow, Busy, server
<1>12. ASSUME NEW k \in [taken : SUBSET Messages, installed : SUBSET Messages],
              NEW s \in SUBSET (Messages \X (Parts \cup {"live"})), StartsAgain(k, s)
       PROVE  Typed'
  <2>1. Range(<<>>) = {} /\ Increasing(<<>>) /\ <<>> \in Seq(Nat) BY DEF Range, Increasing
  <2>2. [m \in Messages |-> <<>>] \in [Messages -> Seq(Stage)] OBVIOUS
  <2>. QED BY <1>0, <1>12, <2>1, <2>2
           DEF StartsAgain, Reopened, Typed, TypeOK, Flow, Busy, Idle, Stage, server
<1>13. CASE Restart BY <1>0, <1>12, <1>13 DEF Restart, TypeOK
<1>14. CASE Killed
  <2>. DEFINE m == Head(inbox)
  <2>1. m \in Messages BY <1>0, <1>14, InFront DEF Killed
  <2>2. /\ Taken(m) \in [taken : SUBSET Messages, installed : SUBSET Messages]
        /\ Installed(m) \in [taken : SUBSET Messages, installed : SUBSET Messages]
    BY <1>0, <2>1 DEF Taken, Installed, TypeOK
  <2>3. stored \in SUBSET (Messages \X (Parts \cup {"live"}))
        /\ Put(m, "live") \in SUBSET (Messages \X (Parts \cup {"live"}))
    BY <1>0, <2>1 DEF TypeOK, Put
  <2>4. \/ StartsAgain(Taken(m), stored) \/ StartsAgain(Installed(m), stored)
        \/ StartsAgain(Installed(m), Put(m, "live"))
    BY <1>14 DEF Killed, First, Written
  <2>. HIDE DEF m
  <2>. QED BY <1>12, <2>2, <2>3, <2>4
<1>15. CASE UNCHANGED vars
  BY <1>0, <1>15 DEF vars, Typed, TypeOK, Flow, Busy, server, faults
<1>. QED
  BY <1>1, <1>2, <1>3, <1>4, <1>5, <1>6, <1>7, <1>8, <1>9, <1>10, <1>11, <1>13, <1>14,
     <1>15 DEF Next, Take

\* What is on its way to the read loop was not acked yet, in the order the server has
\* it, over lost connections, restarts and kills.
THEOREM ReceiveTyped == Spec => []TypeOK
<1>1. Typed => TypeOK BY DEF Typed
<1>. QED BY <1>1, InitTyped, StepTyped, PTL DEF Spec

-----------------------------------------------------------------------------
\* Order.

LEMMA Numbers ==
  ASSUME TypeOK
  PROVE  /\ next \in Nat /\ Messages \subseteq Nat /\ owed \subseteq 1..(next - 1)
         /\ 1..(next - 1) \subseteq Messages
         /\ \A y \in Range(inbox) : y \in 1..(next - 1) /\ y < next
<1>1. next \in Nat /\ next - 1 <= Len(Script) /\ Len(Script) \in Nat
  BY ReceiveAssumption DEF TypeOK
<1>2. 1..(next - 1) \subseteq Messages /\ Messages \subseteq Nat BY <1>1 DEF Messages
<1>3. \A y \in 1..(next - 1) : y < next BY <1>1
<1>. QED BY <1>1, <1>2, <1>3 DEF TypeOK

\* All that precedes the node in front of the inbox was settled when it came up, and
\* taking its key unsettles nothing.
LEMMA TakingAKey ==
  ASSUME KeysFirst, Typed, OrderInv, online, inbox # <<>>,
         NEW m \in Messages, m = Head(inbox), Kind(m) # "bare", Decrypts(m),
         keys' \in {Taken(m), Installed(m)}
  PROVE  /\ keys'.taken = keys.taken \cup {m} /\ keys'.installed \subseteq keys'.taken
         /\ \A x \in Messages : Settled(x) => Settled(x)'
         /\ \A t \in keys'.taken : \A x \in 1..(t - 1) : Settled(x)'
         /\ \A t \in Range(told) : t < m
<1>1. /\ keys'.taken = keys.taken \cup {m} /\ keys'.installed \subseteq keys.installed \cup {m}
      /\ m \notin keys.taken
  BY DEF Taken, Installed, Decrypts, Typed, TypeOK
<1>2. \A x \in Messages : Settled(x) => Settled(x)' BY <1>1 DEF Settled
<1>3. /\ m \in 1..(next - 1) /\ next \in Nat /\ 1..(next - 1) \subseteq Messages
      /\ \A x \in Range(inbox) : ~(x < m)
  <2>1. m \in Range(inbox) /\ Range(Tail(inbox)) = Range(inbox) \ {m}
        /\ \A x \in Range(Tail(inbox)) : m < x
    BY FirstOf DEF Typed, TypeOK
  <2>2. next \in Nat /\ 1..(next - 1) \subseteq Messages
    BY ReceiveAssumption DEF Typed, TypeOK, Messages
  <2>3. Range(inbox) \subseteq 1..(next - 1) BY DEF Typed, TypeOK
  <2>. QED BY <2>1, <2>2, <2>3
<1>4. \A x \in 1..(m - 1) : Settled(x)
  <2>1. \A x \in 1..(m - 1) : x \in 1..(next - 1) /\ x \notin Range(inbox) BY <1>3
  <2>. QED BY <2>1 DEF OrderInv
<1>5. \A t \in keys'.taken : t \in 1..(next - 1) /\ \A x \in 1..(t - 1) : Settled(x)
  BY <1>1, <1>3, <1>4 DEF OrderInv
<1>6. \A t \in keys'.taken : \A x \in 1..(t - 1) : Settled(x)'
  <2>1. \A t \in 1..(next - 1) : \A x \in 1..(t - 1) : x \in 1..(next - 1) BY <1>3
  <2>. QED BY <1>2, <1>3, <1>5, <2>1
<1>7. ~Settled(m) BY <1>1 DEF Settled, Decrypts
<1>8. \A t \in Range(told) : t < m
  <2>. SUFFICES ASSUME NEW t \in Range(told) PROVE t < m OBVIOUS
  <2>1. t \in keys.taken BY DEF OrderInv
  <2>2. t \in 1..(next - 1) /\ t # m BY <1>1, <2>1 DEF OrderInv
  <2>3. m \notin 1..(t - 1) BY <1>7, <2>1 DEF OrderInv
  <2>. QED BY <1>3, <2>2, <2>3
<1>9. keys'.installed \subseteq keys'.taken BY <1>1 DEF OrderInv
<1>. QED BY <1>1, <1>2, <1>6, <1>8, <1>9

\* A message that cannot be read never will be: when it came up, the distribution
\* message before it had been taken.
LEMMA UnreadableIsSettled ==
  ASSUME KeysFirst, Typed, OrderInv, TakeUnreadable
  PROVE  Head(inbox) \in Messages /\ Settled(Head(inbox))
<1>0. TypeOK /\ Flow BY DEF Typed
<1>. DEFINE m == Head(inbox)
<1>1. m \in Messages /\ m \in owed BY <1>0, InFront DEF TakeUnreadable
<1>2. CASE m \in keys.taken BY <1>1, <1>2 DEF Settled
<1>3. CASE m \notin keys.taken
  <2>1. Kind(m) = "group" /\ Script[m].key \notin keys.installed
    BY <1>3 DEF TakeUnreadable, First, Decrypts
  <2>2. Script[m].key \in Messages /\ Script[m].key < m /\ Kind(Script[m].key) = "skdm"
    BY <1>1, <2>1, ReceiveAssumption DEF KeysFirst, Kind
  <2>3. Script[m].key \in 1..(next - 1) /\ Script[m].key \notin Range(inbox)
    <3>1. m \in 1..(next - 1) /\ next \in Nat BY <1>0, <1>1, Numbers
    <3>2. Range(Tail(inbox)) = Range(inbox) \ {m} /\ \A x \in Range(Tail(inbox)) : m < x
      BY <1>0, FirstOf DEF TypeOK, TakeUnreadable
    <3>3. Range(inbox) \subseteq Nat BY <1>0, Numbers
    <3>. QED BY <2>2, <3>1, <3>2, <3>3 DEF Messages
  <2>4. Settled(Script[m].key) BY <2>3 DEF TakeUnreadable, OrderInv
  <2>. QED BY <1>1, <2>1, <2>2, <2>4 DEF Settled
<1>. QED BY <1>2, <1>3

LEMMA StepOrder ==
  ASSUME KeysFirst, Typed, Typed', OrderInv, [Next]_vars
  PROVE  OrderInv'
<1>0. TypeOK /\ Flow BY DEF Typed
<1>. DEFINE Same == UNCHANGED <<keys, told>>
<1>1. ASSUME Same, UNCHANGED <<next, owed, online, inbox>> PROVE OrderInv'
  BY <1>1 DEF OrderInv, Settled, ToldInOrder
<1>2. ASSUME Same, UNCHANGED <<next, owed, online>>, inbox # <<>>, inbox' = Tail(inbox),
             Settled(Head(inbox))
      PROVE  OrderInv'
  <2>1. Range(inbox') = Range(inbox) \ {Head(inbox)} BY <1>0, <1>2, FirstOf DEF TypeOK
  <2>. QED BY <1>2, <2>1 DEF OrderInv, Settled, ToldInOrder
<1>3. CASE TakeBare
  BY <1>2, <1>3 DEF TakeBare, server, First, Settled
<1>4. CASE TakeUnreadable
  <2>. DEFINE m == Head(inbox)
  <2>2. Settled(m) BY <1>4, UnreadableIsSettled
  <2>. QED BY <1>2, <1>4, <2>2 DEF TakeUnreadable, server
<1>5. CASE TakeReadable
  <2>1. PICK m \in Messages : m = Head(inbox) /\ m \in owed
    BY <1>0, <1>5, InFront DEF TakeReadable
  <2>2. /\ keys'.taken = keys.taken \cup {m} /\ keys'.installed \subseteq keys'.taken
        /\ \A x \in Messages : Settled(x) => Settled(x)'
        /\ \A t \in keys'.taken : \A x \in 1..(t - 1) : Settled(x)'
        /\ \A t \in Range(told) : t < m
    BY <1>5, <2>1, TakingAKey DEF TakeReadable, First
  <2>3. told' \in {told, Append(told, m)} BY <1>5, <2>1 DEF TakeReadable, First
  <2>4. Range(told') \subseteq keys'.taken /\ Increasing(told')
    <3>1. m \in Nat BY <2>1 DEF Messages
    <3>2. Range(Append(told, m)) = Range(told) \cup {m} /\ Increasing(Append(told, m))
      BY <1>0, <2>2, <3>1, Added DEF TypeOK, OrderInv, ToldInOrder
    <3>. QED BY <2>2, <2>3, <3>2 DEF OrderInv, ToldInOrder
  <2>5. /\ next' = next /\ owed' = owed /\ online' = online /\ m \in 1..(next - 1)
        /\ Range(inbox') = Range(inbox) \ {m} /\ 1..(next - 1) \subseteq Messages
    <3>1. Range(Tail(inbox)) = Range(inbox) \ {Head(inbox)}
      BY <1>0, <1>5, FirstOf DEF TakeReadable, TypeOK
    <3>. QED BY <1>0, <1>5, <2>1, <3>1, Numbers DEF TakeReadable, server
  <2>6. Settled(m)' BY <2>2 DEF Settled
  <2>7. /\ \A x \in 1..(next' - 1) \ owed' : Settled(x)'
        /\ online' => \A x \in 1..(next' - 1) \ Range(inbox') : Settled(x)'
    BY <2>2, <2>5, <2>6 DEF OrderInv
  <2>8. keys'.taken \subseteq 1..(next' - 1) BY <2>2, <2>5 DEF OrderInv
  <2>. QED BY <2>2, <2>4, <2>7, <2>8 DEF OrderInv, ToldInOrder
<1>6. CASE ListenerDone \/ Ack \/ ReaderCancelled
  BY <1>1, <1>6 DEF ListenerDone, Ack, ReaderCancelled, server
<1>7. ASSUME NEW m \in Messages, HistoryStep(m) PROVE OrderInv'
  BY <1>1, <1>7 DEF HistoryStep, server
<1>8. CASE ServerGets
  <2>1. /\ next \in Nat /\ next' = next + 1 /\ owed' = owed \cup {next} /\ Same
        /\ online' = online
        /\ online => Range(inbox') = Range(inbox) \cup {next}
    <3>1. next \in Nat /\ \A y \in Range(inbox) : y < next BY <1>0, Numbers
    <3>. QED BY <1>0, <1>8, <3>1, Added DEF ServerGets, TypeOK
  <2>2. \A x \in 1..(next' - 1) : x \in 1..(next - 1) \/ x = next BY <2>1
  <2>3. 1..(next - 1) \subseteq 1..(next' - 1) BY <2>1
  <2>. QED BY <2>1, <2>2, <2>3 DEF OrderInv, Settled, ToldInOrder
<1>9. ASSUME NEW m \in Messages, ServerTakesAck(m) PROVE OrderInv'
  <2>1. online /\ m \notin Range(inbox) /\ m \in 1..(next - 1)
    BY <1>0, <1>9 DEF ServerTakesAck, Flow, TypeOK
  <2>2. Settled(m) BY <2>1 DEF OrderInv
  <2>. QED BY <1>9, <2>2 DEF ServerTakesAck, OrderInv, Settled, ToldInOrder
<1>10. CASE Connect
  <2>1. owed \subseteq 1..Len(Script) BY <1>0, ReceiveAssumption DEF TypeOK
  <2>2. Range(inbox') = owed BY <1>10, <2>1, InOrderOf DEF Connect
  <2>. QED BY <1>10, <2>2 DEF Connect, OrderInv, Settled, ToldInOrder, server
<1>11. CASE Drop BY <1>11 DEF Drop, OrderInv, Settled, ToldInOrder, server
<1>12. CASE Restart
  BY <1>0, <1>12 DEF Restart, StartsAgain, TypeOK, OrderInv, Settled, ToldInOrder, server
<1>13. CASE Killed
  <2>1. PICK m \in Messages : m = Head(inbox) /\ m \in owed
    BY <1>0, <1>13, InFront DEF Killed
  <2>2. keys' \in {Taken(m), Installed(m)}
    BY <1>13, <2>1 DEF Killed, StartsAgain, First, Written
  <2>3. /\ keys'.taken = keys.taken \cup {m} /\ keys'.installed \subseteq keys'.taken
        /\ \A x \in Messages : Settled(x) => Settled(x)'
        /\ \A t \in keys'.taken : \A x \in 1..(t - 1) : Settled(x)'
    BY <1>13, <2>1, <2>2, TakingAKey DEF Killed, First
  <2>4. next' = next /\ owed' = owed /\ told' = told /\ online' = FALSE
    BY <1>13 DEF Killed, StartsAgain, server
  <2>5. m \in 1..(next - 1) /\ 1..(next - 1) \subseteq Messages
    BY <1>0, <2>1, Numbers
  <2>. QED BY <2>3, <2>4, <2>5 DEF OrderInv, ToldInOrder
<1>14. CASE UNCHANGED vars BY <1>1, <1>14 DEF vars, server
<1>. QED
  BY <1>3, <1>4, <1>5, <1>6, <1>7, <1>8, <1>9, <1>10, <1>11, <1>12, <1>13, <1>14
     DEF Next, Take

LEMMA InitOrder == Init => OrderInv
<1>. SUFFICES ASSUME Init PROVE OrderInv
  OBVIOUS
<1>1. Range(<<>>) = {} /\ Increasing(<<>>) BY DEF Range, Increasing
<1>2. 1..(next - 1) = {} BY DEF Init
<1>. QED BY <1>1, <1>2 DEF Init, OrderInv, NoKeys, ToldInOrder

\* Wherever the sender keys come first, the application gets each message once and in
\* the order the server has them, over lost acks, new connections, restarts and kills,
\* and whether or not the store raises.
THEOREM EachToldOnceInOrder == ASSUME KeysFirst PROVE Spec => []ToldInOrder
<1>1. OrderInv => ToldInOrder BY DEF OrderInv
<1>2. Typed /\ OrderInv /\ Typed' /\ [Next]_vars => OrderInv' BY StepOrder
<1>. QED BY <1>1, <1>2, InitTyped, InitOrder, StepTyped, PTL DEF Spec

-----------------------------------------------------------------------------
\* What fails, and what is kept.

\* Unless a kill fell in between, a key that was taken has its text told and its
\* distribution message installed.
ReadInv ==
  ~killed =>
    /\ keys.taken \subseteq Range(told)
    /\ \A m \in keys.taken : Kind(m) = "skdm" => m \in keys.installed
    /\ errors \subseteq Range(told)

LEMMA StepRead ==
  ASSUME KeysFirst, ~StoreMayFail, Typed, OrderInv, ReadInv, [Next]_vars
  PROVE  ReadInv'
<1>0. TypeOK /\ Flow BY DEF Typed
<1>1. ASSUME UNCHANGED <<keys, told, errors, killed>> PROVE ReadInv' BY <1>1 DEF ReadInv
<1>2. CASE TakeUnreadable
  <2>. DEFINE m == Head(inbox)
  <2>1. Settled(m) /\ m \in Messages BY <1>2, UnreadableIsSettled
  <2>2. ASSUME ~killed PROVE m \in Range(told)
    <3>1. \/ m \in keys.taken
          \/ Kind(m) = "group" /\ Script[m].key \in keys.taken \ keys.installed
      BY <1>2, <2>1 DEF Settled, TakeUnreadable, First
    <3>2. Kind(m) = "group" => Kind(Script[m].key) = "skdm" BY <2>1 DEF KeysFirst
    <3>. QED BY <2>2, <3>1, <3>2 DEF ReadInv
  <2>3. keys' = keys /\ told' = told /\ killed' = killed /\ errors' = errors \cup {m}
    BY <1>2 DEF TakeUnreadable, First, Reported, faults
  <2>. QED BY <2>2, <2>3 DEF ReadInv
<1>3. CASE TakeReadable
  <2>1. PICK m \in Messages : m = Head(inbox) BY <1>0, <1>3, InFront DEF TakeReadable
  <2>2. told' = Append(told, m) /\ keys' = Installed(m) /\ UNCHANGED <<errors, killed>>
    BY <1>3, <2>1 DEF TakeReadable, First, Outcomes, faults
  <2>3. Range(told') = Range(told) \cup {m}
    BY <1>0, <2>2, Numbers, Added DEF TypeOK
  <2>4. /\ keys'.taken = keys.taken \cup {m}
        /\ keys'.installed = IF Kind(m) = "skdm" THEN keys.installed \cup {m} ELSE keys.installed
    BY <1>0, <2>2 DEF Installed, Taken, TypeOK
  <2>. QED BY <2>2, <2>3, <2>4 DEF ReadInv
<1>4. CASE TakeBare \/ ListenerDone \/ Ack \/ ReaderCancelled
  BY <1>1, <1>4 DEF TakeBare, ListenerDone, Ack, ReaderCancelled, faults
<1>5. ASSUME NEW m \in Messages, HistoryStep(m) \/ ServerTakesAck(m) PROVE ReadInv'
  BY <1>1, <1>5 DEF HistoryStep, ServerTakesAck, faults
<1>6. CASE ServerGets \/ Connect \/ Drop
  BY <1>1, <1>6 DEF ServerGets, Connect, Drop, faults
<1>7. CASE Restart
  BY <1>0, <1>1, <1>7 DEF Restart, StartsAgain, TypeOK
<1>8. CASE Killed BY <1>8 DEF Killed, ReadInv
<1>9. CASE UNCHANGED vars BY <1>1, <1>9 DEF vars, faults
<1>. QED
  BY <1>2, <1>3, <1>4, <1>5, <1>6, <1>7, <1>8, <1>9 DEF Next, Take

\* With a store that does not raise and sender keys that come first, only a message the
\* application got before fails to decrypt, unless a kill fell inside its handling: what
\* is sent again after a lost ack or a restart fails, and nothing else.
THEOREM NothingButRepeatsFails ==
  ASSUME KeysFirst, ~StoreMayFail PROVE Spec => []OnlyRepeatsFail
<1>1. Init => ReadInv BY DEF Init, ReadInv, NoKeys
<1>2. ReadInv => OnlyRepeatsFail BY DEF ReadInv, OnlyRepeatsFail
<1>3. Typed /\ OrderInv /\ ReadInv /\ [Next]_vars => ReadInv' BY StepRead
<1>4. Typed /\ OrderInv /\ Typed' /\ [Next]_vars => OrderInv' BY StepOrder
<1>. QED BY <1>1, <1>2, <1>3, <1>4, InitTyped, InitOrder, StepTyped, PTL DEF Spec

\* A message that is acked, or about to be, is archived or was reported.
Safe(m) == Kind(m) = "bare" \/ Archived(m) \/ m \in errors
ArchiveInv ==
  /\ \A m \in Range(told) : Archived(m)
  /\ \A m \in (1..(next - 1) \ owed) \cup acks : Safe(m)
  /\ \A m \in Messages : Busy /\ reader.m = m => Safe(m)

LEMMA StepArchive ==
  ASSUME Durable, ~StoreMayFail, Typed, ArchiveInv, [Next]_vars
  PROVE  ArchiveInv'
<1>0. TypeOK /\ Flow BY DEF Typed
<1>1. ASSUME stored \subseteq stored', errors \subseteq errors'
      PROVE  \A m \in Messages : (Safe(m) => Safe(m)') /\ (Archived(m) => Archived(m)')
  BY <1>1 DEF Safe, Archived
<1>2. /\ 1..(next - 1) \subseteq Messages /\ acks \subseteq Messages /\ next \in Nat
      /\ Range(told) \subseteq Messages
      /\ Busy => reader.m \in Messages
  <2>1. Busy => reader.m \in Messages BY <1>0 DEF TypeOK, Busy, Idle
  <2>. QED BY <1>0, <2>1, Numbers DEF TypeOK
<1>3. CASE TakeBare
  BY <1>0, <1>1, <1>2, <1>3
     DEF TakeBare, ArchiveInv, Safe, Archived, Busy, server, First
<1>4. CASE TakeUnreadable
  <2>1. PICK m \in Messages : m = Head(inbox) BY <1>0, <1>4, InFront DEF TakeUnreadable
  <2>2. /\ errors' = errors \cup {m} /\ reader'.m = m
        /\ UNCHANGED <<stored, told, next, owed, acks>>
    BY <1>4, <2>1 DEF TakeUnreadable, First, Reported, server
  <2>3. Safe(m)' BY <2>2 DEF Safe
  <2>. QED BY <1>1, <1>2, <2>2, <2>3 DEF ArchiveInv
<1>5. CASE TakeReadable
  <2>1. PICK m \in Messages : m = Head(inbox) BY <1>0, <1>5, InFront DEF TakeReadable
  <2>2. /\ stored' = stored \cup {<<m, "live">>} /\ told' = Append(told, m) /\ reader'.m = m
        /\ UNCHANGED <<errors, next, owed, acks>>
    BY <1>5, <2>1 DEF TakeReadable, First, Outcomes, Put, server
  <2>3. Range(told') = Range(told) \cup {m}
    BY <1>0, <2>2, Numbers, Added DEF TypeOK
  <2>4. Archived(m)' /\ Safe(m)' BY <2>2 DEF Archived, Safe
  <2>. QED BY <1>1, <1>2, <2>2, <2>3, <2>4 DEF ArchiveInv
<1>6. CASE ListenerDone
  <2>1. Busy /\ reader'.m = reader.m
    BY <1>0, <1>6 DEF ListenerDone, AckAnyway, Busy, TypeOK, Idle
  <2>. QED BY <1>1, <1>2, <1>6, <2>1 DEF ListenerDone, ArchiveInv, server
<1>7. CASE Ack
  <2>1. Busy /\ ~Busy' /\ acks' \subseteq acks \cup {reader.m}
    BY <1>0, <1>7 DEF Ack, Busy, TypeOK, Idle
  <2>. QED BY <1>1, <1>2, <1>7, <2>1 DEF Ack, ArchiveInv, server
<1>8. CASE ReaderCancelled
  <2>1. ~Busy' BY <1>8 DEF ReaderCancelled, Busy, Idle
  <2>. QED BY <1>1, <1>2, <1>8, <2>1 DEF ReaderCancelled, ArchiveInv, server
<1>9. ASSUME NEW m \in Messages, HistoryStep(m) PROVE ArchiveInv'
  <2>1. stored \subseteq stored'
    BY <1>9 DEF HistoryStep, DownloadHistory, EmitPart, EmitSummary, Put
  <2>. QED BY <1>1, <1>2, <1>9, <2>1 DEF HistoryStep, ArchiveInv, Busy, server
<1>10. ASSUME NEW m \in Messages, ServerTakesAck(m) PROVE ArchiveInv'
  BY <1>1, <1>2, <1>10 DEF ServerTakesAck, ArchiveInv, Busy
<1>11. CASE ServerGets
  <2>1. 1..(next' - 1) \ owed' \subseteq 1..(next - 1) \ owed
    BY <1>2, <1>11 DEF ServerGets
  <2>. QED BY <1>1, <1>2, <1>11, <2>1 DEF ServerGets, ArchiveInv, Busy
<1>12. CASE Connect BY <1>1, <1>2, <1>12 DEF Connect, ArchiveInv, Busy, server
<1>13. CASE Drop BY <1>1, <1>2, <1>13 DEF Drop, ArchiveInv, Busy, server
<1>14. CASE Restart \/ Killed
  <2>1. /\ stored \subseteq stored' /\ acks' = {} /\ reader' = Idle
        /\ UNCHANGED <<next, owed, told, errors>>
    BY <1>14 DEF Restart, Killed, StartsAgain, Reopened, Put, server
  <2>2. ~Busy' BY <2>1 DEF Busy, Idle
  <2>. QED BY <1>1, <1>2, <2>1, <2>2 DEF ArchiveInv
<1>15. CASE UNCHANGED vars BY <1>1, <1>2, <1>15 DEF vars, server, ArchiveInv, Busy
<1>. QED
  BY <1>3, <1>4, <1>5, <1>6, <1>7, <1>8, <1>9, <1>10, <1>11, <1>12, <1>13, <1>14, <1>15
     DEF Next, Take

\* With a database file that takes every write, what the application got is archived for
\* good, and what was acked is archived or was reported: over kills inside the handling
\* and restarts.
THEOREM AckedIsArchived == ASSUME ~StoreMayFail PROVE Spec => []NothingVanishes
<1>1. CASE Durable
  <2>1. Init => ArchiveInv
    <3>1. Init => Range(told) = {} /\ 1..(next - 1) = {} BY DEF Init, Range
    <3>. QED BY <3>1 DEF Init, ArchiveInv, Busy, Idle
  <2>2. ArchiveInv => NothingVanishes BY DEF ArchiveInv, NothingVanishes, Safe
  <2>3. Typed /\ ArchiveInv /\ [Next]_vars => ArchiveInv' BY <1>1, StepArchive
  <2>. QED BY <2>1, <2>2, <2>3, InitTyped, StepTyped, PTL DEF Spec
<1>2. CASE ~Durable
  <2>1. NothingVanishes BY <1>2 DEF NothingVanishes
  <2>. QED BY <2>1, PTL
<1>. QED BY <1>1, <1>2

-----------------------------------------------------------------------------
\* Histories.

\* q is what is left for the history task of m: every part that is not in s is still
\* to come, and the summary comes last.
Left(m, q, s) ==
  /\ Kind(m) = "history"
  /\ \A j \in 1..(Len(q) - 1) : q[j] # "set"
  /\ \A part \in Script[m].parts : <<m, part>> \in s \/ part \in Range(q)

HistoryInv ==
  /\ \A m \in Messages : job[m] # <<>> => Left(m, job[m], stored)
  /\ HistoryComplete

LEMMA StagesComplete ==
  ASSUME NEW m \in Messages, Kind(m) = "history"
  PROVE  Left(m, Stages(m), stored)
<1>. DEFINE one == Present(m, "contacts")
            two == Present(m, "chats")
            three == Present(m, "messages")
            parts == <<"download">> \o one \o two \o three
<1>1. Script[m].parts \subseteq {"contacts", "chats", "messages"}
  BY ReceiveAssumption DEF Kind, Parts
<1>2. ASSUME NEW part \in Parts
      PROVE  /\ Present(m, part) \in Seq(Parts)
             /\ part \in Script[m].parts => part \in Range(Present(m, part))
  <2>1. <<part>> \in Seq(Parts) /\ <<>> \in Seq(Parts) OBVIOUS
  <2>2. part \in Range(<<part>>) BY DEF Range
  <2>. QED BY <2>1, <2>2 DEF Present
<1>a. {"contacts", "chats", "messages"} = Parts BY DEF Parts
<1>3. /\ one \in Seq(Stage \ {"set"}) /\ two \in Seq(Stage \ {"set"})
      /\ three \in Seq(Stage \ {"set"})
  <2>1. Parts \subseteq Stage \ {"set"} BY DEF Parts, Stage
  <2>2. one \in Seq(Parts) /\ two \in Seq(Parts) /\ three \in Seq(Parts) BY <1>2, <1>a
  <2>. HIDE DEF one, two, three
  <2>. QED BY <2>1, <2>2, SeqMonotonic
<1>4. <<"download">> \in Seq(Stage \ {"set"}) BY DEF Stage
<1>5. \A s, t \in Seq(Stage \ {"set"}) :
        s \o t \in Seq(Stage \ {"set"}) /\ Range(s \o t) = Range(s) \cup Range(t)
  BY ConcatProperties, RangeConcatenation
<1>6. parts \in Seq(Stage \ {"set"})
      /\ Range(one) \cup Range(two) \cup Range(three) \subseteq Range(parts)
  <2>. DEFINE front == (<<"download">> \o one) \o two
  <2>. HIDE DEF one, two, three
  <2>1. <<"download">> \o one \in Seq(Stage \ {"set"})
        /\ Range(one) \subseteq Range(<<"download">> \o one)
    BY <1>3, <1>4, <1>5
  <2>2. front \in Seq(Stage \ {"set"}) /\ Range(one) \cup Range(two) \subseteq Range(front)
    BY <1>3, <1>5, <2>1
  <2>. HIDE DEF front
  <2>3. front \o three \in Seq(Stage \ {"set"})
        /\ Range(front \o three) = Range(front) \cup Range(three)
    BY <1>3, <1>5, <2>2
  <2>. QED BY <2>2, <2>3 DEF front, parts
<1>7. Stages(m) = parts \o <<"set">> BY DEF Stages, one, two, three
<1>. HIDE DEF parts
<1>8. parts \in Seq(Stage) /\ <<"set">> \in Seq(Stage)
  BY <1>6, SeqMonotonic DEF Stage
<1>9. /\ Len(parts \o <<"set">>) = Len(parts) + 1 /\ Len(parts) \in Nat
      /\ \A j \in 1..Len(parts) : (parts \o <<"set">>)[j] = parts[j]
  BY <1>8, ConcatProperties
<1>10. \A j \in 1..Len(parts) : parts[j] # "set" BY <1>6, ElementOfSeq
<1>11. Range(parts) \subseteq Range(Stages(m))
  <2>1. Range(parts \o <<"set">>) = Range(parts) \cup Range(<<"set">>)
    BY <1>8, RangeConcatenation
  <2>. QED BY <1>7, <2>1
<1>12. \A part \in Script[m].parts : part \in Range(Stages(m))
  <2>1. \A part \in Script[m].parts : part \in Range(Present(m, part)) /\ part \in Parts
    BY <1>1, <1>2, <1>a
  <2>2. ASSUME NEW part \in Script[m].parts PROVE part \in Range(parts)
    BY <1>6, <1>a, <2>1, <2>2
  <2>. QED BY <1>11, <2>2
<1>13. \A j \in 1..(Len(Stages(m)) - 1) : Stages(m)[j] # "set" BY <1>7, <1>9, <1>10
<1>. QED BY <1>12, <1>13 DEF Left

\* A stage that is no part, or whose part is stored now, may be crossed off.
LEMMA NextStage ==
  ASSUME NEW m \in Messages, NEW q \in Seq(Stage), q # <<>>, NEW s, NEW t,
         Left(m, q, s), s \subseteq t, Head(q) \in Parts => <<m, Head(q)>> \in t
  PROVE  Left(m, Tail(q), t)
<1>1. /\ Tail(q) \in Seq(Stage) /\ Len(q) \in Nat \ {0} /\ Len(Tail(q)) = Len(q) - 1
      /\ \A i \in 1..Len(Tail(q)) : Tail(q)[i] = q[i + 1]
      /\ Head(q) = q[1]
  BY HeadTailProperties
<1>2. Range(q) = {q[i] : i \in 1..Len(q)} /\ Range(Tail(q)) = {Tail(q)[i] : i \in 1..Len(Tail(q))}
  BY <1>1, RangeEquality
<1>3. \A x \in Range(q) : x = Head(q) \/ x \in Range(Tail(q))
  <2>. SUFFICES ASSUME NEW i \in 1..Len(q), i # 1 PROVE q[i] \in Range(Tail(q))
    BY <1>1, <1>2
  <2>1. i - 1 \in 1..Len(Tail(q)) BY <1>1
  <2>2. Tail(q)[i - 1] = q[i] BY <1>1, <2>1
  <2>. QED BY <1>2, <2>1, <2>2
<1>4. Script[m].parts \subseteq Parts BY ReceiveAssumption DEF Left, Kind
<1>5. \A j \in 1..(Len(Tail(q)) - 1) : Tail(q)[j] # "set"
  <2>1. \A j \in 1..(Len(Tail(q)) - 1) :
          j \in 1..Len(Tail(q)) /\ j + 1 \in 1..(Len(q) - 1)
    BY <1>1
  <2>. QED BY <1>1, <2>1 DEF Left
<1>. QED BY <1>3, <1>4, <1>5 DEF Left

\* The summary is the last stage, and then all is stored.
LEMMA AtSummary ==
  ASSUME NEW m \in Messages, NEW q \in Seq(Stage), q # <<>>, Left(m, q, stored), Head(q) = "set"
  PROVE  \A part \in Script[m].parts : <<m, part>> \in stored
<1>1. Len(q) \in Nat \ {0} /\ q[1] = "set" OBVIOUS
<1>2. Len(q) = 1
  <2>1. ~(1 \in 1..(Len(q) - 1)) BY <1>1 DEF Left
  <2>2. \A k \in Nat \ {0} : ~(1 \in 1..(k - 1)) => k = 1 OBVIOUS
  <2>. QED BY <1>1, <2>1, <2>2
<1>3. Range(q) = {"set"} BY <1>1, <1>2, RangeEquality
<1>4. "set" \notin Parts BY DEF Parts
<1>5. Script[m].parts \subseteq Parts BY ReceiveAssumption DEF Left, Kind
<1>. QED BY <1>3, <1>4, <1>5 DEF Left

LEMMA StepHistory ==
  ASSUME Durable, Typed, HistoryInv, [Next]_vars
  PROVE  HistoryInv'
<1>0. TypeOK BY DEF Typed
<1>1. ASSUME stored \subseteq stored', job' = job, complete' = complete PROVE HistoryInv'
  BY <1>1 DEF HistoryInv, HistoryComplete, Left
<1>2. CASE TakeReadable
  <2>1. PICK m \in Messages : m = Head(inbox) BY <1>0, <1>2, InFront DEF TakeReadable
  <2>2. stored \subseteq stored' /\ complete' = complete
    BY <1>2 DEF TakeReadable, Put
  <2>3. \A x \in Messages : \A q : Left(x, q, stored) => Left(x, q, stored') BY <2>2 DEF Left
  <2>4. CASE Kind(m) = "history"
    <3>1. job' = [job EXCEPT ![m] = Stages(m)] BY <1>2, <2>1, <2>4 DEF TakeReadable, First
    <3>2. Left(m, Stages(m), stored') BY <2>3, <2>4, StagesComplete
    <3>3. job \in [Messages -> Seq(Stage)] BY <1>0 DEF TypeOK, Stage
    <3>4. ASSUME NEW x \in Messages, job'[x] # <<>> PROVE Left(x, job'[x], stored')
      <4>1. CASE x = m BY <3>1, <3>2, <3>3, <4>1
      <4>2. CASE x # m BY <2>3, <3>1, <3>3, <3>4, <4>2 DEF HistoryInv
      <4>. QED BY <4>1, <4>2
    <3>. QED BY <2>2, <3>4 DEF HistoryInv, HistoryComplete, Left
  <2>5. CASE Kind(m) # "history"
    <3>1. job' = job BY <1>2, <2>1, <2>5 DEF TakeReadable, First
    <3>. QED BY <1>1, <2>2, <3>1
  <2>. QED BY <2>4, <2>5
<1>3. ASSUME NEW m \in Messages, HistoryStep(m) PROVE HistoryInv'
  <2>1. /\ job[m] # <<>> /\ job' \in {Advances(m), Ends(m)} /\ stored \subseteq stored'
        /\ job'[m] # <<>> => (Head(job[m]) \in Parts => <<m, Head(job[m])>> \in stored')
    <3>1. job \in [Messages -> Seq(Stage)] BY <1>0 DEF TypeOK, Stage
    <3>2. CASE DownloadHistory(m) BY <3>2 DEF DownloadHistory, Parts
    <3>3. CASE EmitPart(m)
      <4>1. PICK ok \in Outcomes :
              /\ stored' = IF ok THEN Put(m, Head(job[m])) ELSE stored
              /\ job' \in IF ok THEN {Advances(m), Ends(m)} ELSE {Ends(m)}
        BY <3>3 DEF EmitPart
      <4>. QED BY <3>1, <3>3, <4>1 DEF EmitPart, Put, Ends
    <3>4. CASE EmitSummary(m) BY <3>4 DEF EmitSummary, Parts
    <3>. QED BY <1>3, <3>2, <3>3, <3>4 DEF HistoryStep
  <2>2. job \in [Messages -> Seq(Stage)] /\ job[m] \in Seq(Stage) BY <1>0 DEF TypeOK, Stage
  <2>3. \A x \in Messages : \A q : Left(x, q, stored) => Left(x, q, stored') BY <2>1 DEF Left
  <2>4. ASSUME NEW x \in Messages, job'[x] # <<>> PROVE Left(x, job'[x], stored')
    <3>1. CASE x = m
      <4>1. job'[m] = Tail(job[m]) BY <2>1, <2>2, <2>4, <3>1 DEF Advances, Ends
      <4>2. Left(m, job[m], stored) BY <2>1 DEF HistoryInv
      <4>. QED BY <2>1, <2>2, <2>4, <3>1, <4>1, <4>2, NextStage
    <3>2. CASE x # m
      <4>1. job'[x] = job[x] BY <2>1, <2>2, <3>2 DEF Advances, Ends
      <4>. QED BY <2>3, <2>4, <4>1 DEF HistoryInv
    <3>. QED BY <3>1, <3>2
  <2>5. ASSUME NEW x \in complete' PROVE \A part \in Script[x].parts : <<x, part>> \in stored'
    <3>1. CASE x \in complete BY <2>1, <3>1 DEF HistoryInv, HistoryComplete
    <3>2. CASE x \notin complete
      <4>1. x = m /\ Head(job[m]) = "set"
        BY <1>3, <3>2, <2>5 DEF HistoryStep, DownloadHistory, EmitPart, EmitSummary
      <4>. QED BY <2>1, <2>2, <4>1, AtSummary DEF HistoryInv
    <3>. QED BY <3>1, <3>2
  <2>. QED BY <2>4, <2>5 DEF HistoryInv, HistoryComplete, Left
<1>4. CASE TakeBare \/ TakeUnreadable \/ ListenerDone \/ Ack \/ ReaderCancelled
  BY <1>1, <1>4 DEF TakeBare, TakeUnreadable, ListenerDone, Ack, ReaderCancelled
<1>5. ASSUME NEW m \in Messages, ServerTakesAck(m) PROVE HistoryInv'
  BY <1>1, <1>5 DEF ServerTakesAck
<1>6. CASE ServerGets \/ Connect \/ Drop BY <1>1, <1>6 DEF ServerGets, Connect, Drop
<1>7. CASE Restart \/ Killed
  <2>1. /\ stored \subseteq stored' /\ complete' = complete
        /\ job' = [m \in Messages |-> <<>>]
    BY <1>7 DEF Restart, Killed, StartsAgain, Reopened, Put
  <2>. QED BY <2>1 DEF HistoryInv, HistoryComplete
<1>8. CASE UNCHANGED vars BY <1>1, <1>8 DEF vars
<1>. QED BY <1>2, <1>3, <1>4, <1>5, <1>6, <1>7, <1>8 DEF Next, Take

\* With a database file, whatever listener raises and whenever the process is killed: when
\* the application gets messaging-history.set, the store has every part of that history.
THEOREM SetMeansStored == Spec => []HistoryComplete
<1>1. CASE Durable
  <2>1. Init => HistoryInv
    <3>1. Init => \A m \in Messages : job[m] = <<>> BY DEF Init
    <3>. QED BY <3>1 DEF Init, HistoryInv, HistoryComplete
  <2>2. HistoryInv => HistoryComplete BY DEF HistoryInv
  <2>3. Typed /\ HistoryInv /\ [Next]_vars => HistoryInv' BY <1>1, StepHistory
  <2>. QED BY <2>1, <2>2, <2>3, InitTyped, StepTyped, PTL DEF Spec
<1>2. CASE ~Durable
  <2>1. HistoryComplete BY <1>2 DEF HistoryComplete
  <2>. QED BY <2>1, PTL
<1>. QED BY <1>1, <1>2

=============================================================================
