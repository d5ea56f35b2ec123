---------------------------- MODULE QueryProofs ----------------------------
(***************************************************************************)
(* For every set of queries and every number of messages: one query at a   *)
(* time holds the write lock, neither answers nor listeners of messages    *)
(* kill the read loop, and close() releases every query that waits.  For    *)
(* every node and every registration:                                      *)
(* dispatch() of socket/router.py leaves out no handler and no waiter.      *)
(***************************************************************************)
EXTENDS Query, Router, SequenceTheorems, TLAPS

Running == {"queued", "draining", "waiting"}

\* A query whose future is open has its entry until close() begins; from then on the
\* socket takes no frame, and no query that was sent has an open future.
CloseInv ==
  /\ closer = "idle" =>
       \A q \in Queries : task[q] \in Running /\ fut[q] = "open" => q \in pending
  /\ closer # "idle" =>
       /\ socket # "open"
       /\ \A q \in Queries : task[q] \in {"draining", "waiting"} => fut[q] # "open"

-----------------------------------------------------------------------------
LEMMA Names ==
  /\ {"nobody", "message", "receipt"} \cap Queries = {}
  /\ "reading" \notin Inline /\ "ended" \notin Inline
  /\ Isolated \subseteq Inline /\ Inline \subseteq Queries /\ Inline \cap Users = {}
  /\ Users \subseteq Queries /\ Range(PostLogin) \subseteq Queries
BY QueryAssumption DEF Queries

LEMMA InitTypes == Init => TypeOK
BY Names DEF Init, TypeOK, Begun, Ended

\* Who drains has the lock and nobody else, whoever is cancelled, times out or raises,
\* and whatever close() stops meanwhile.
LEMMA StepTypes == TypeOK /\ [Next]_vars => TypeOK'
<1>. SUFFICES ASSUME TypeOK, [Next]_vars PROVE TypeOK'
  OBVIOUS
<1>. USE Names DEF TypeOK, Begun, Ended, query, net
<1>1. ASSUME NEW q \in Queries, Ask(q) PROVE TypeOK' BY <1>1 DEF Ask
<1>2. ASSUME NEW q \in Queries, Written(q) PROVE TypeOK' BY <1>2 DEF Written
<1>3. ASSUME NEW q \in Queries, SendRaises(q) PROVE TypeOK'
  BY <1>3 DEF SendRaises, Released
<1>4. ASSUME NEW q \in Queries, Drained(q) PROVE TypeOK' BY <1>4 DEF Drained
<1>5. ASSUME NEW q \in Queries, TimerFires(q) PROVE TypeOK' BY <1>5 DEF TimerFires
<1>6. ASSUME NEW q \in Queries, Resume(q) PROVE TypeOK' BY <1>6 DEF Resume
<1>7. ASSUME NEW q \in Queries, CancelCaller(q) PROVE TypeOK'
  <2>1. CASE task[q] \in {"queued", "draining"} /\ task' = [task EXCEPT ![q] = "cancelled"]
             /\ lock' = Released(q) /\ UNCHANGED fut
    BY <1>7, <2>1 DEF CancelCaller, Released
  <2>2. CASE task[q] = "waiting" /\ fut[q] = "open"
             /\ fut' = [fut EXCEPT ![q] = "cancelled"] /\ UNCHANGED <<task, lock>>
    BY <1>7, <2>2 DEF CancelCaller
  <2>. QED BY <1>7, <2>1, <2>2 DEF CancelCaller
<1>8. ASSUME NEW q \in Queries, ServerAnswers(q) PROVE TypeOK' BY <1>8 DEF ServerAnswers
<1>9. CASE Resolve BY <1>9 DEF Resolve
<1>10. CASE Incoming BY <1>10 DEF Incoming, ListenersOf
<1>11. CASE ListenerDone BY <1>11 DEF ListenerDone
<1>12. CASE LoopEnds BY <1>12 DEF LoopEnds
<1>13. CASE CloseBegins BY <1>13 DEF CloseBegins, InPostLogin, Dropped
<1>14. CASE CloseEnds BY <1>14 DEF CloseEnds
<1>15. CASE ServerSends BY <1>15 DEF ServerSends
<1>16. CASE SocketLost BY <1>16 DEF SocketLost
<1>17. CASE UNCHANGED vars BY <1>17 DEF vars
<1>. QED
  BY <1>1, <1>2, <1>3, <1>4, <1>5, <1>6, <1>7, <1>8, <1>9, <1>10, <1>11, <1>12, <1>13,
     <1>14, <1>15, <1>16, <1>17 DEF Next, TaskStep, ReaderStep

\* At most one query holds the write lock: the one that drains.
THEOREM QueryTyped == Spec => []TypeOK
BY InitTypes, StepTypes, PTL DEF Spec

-----------------------------------------------------------------------------
\* A query that ended stays as it ended, and a socket that is gone stays gone.
LEMMA EndsStay ==
  ASSUME TypeOK, [Next]_vars
  PROVE  /\ \A q \in Queries : task[q] \in Ended => task'[q] = task[q]
         /\ socket = "gone" => socket' = "gone"
         /\ closer # "idle" => closer' # "idle"
<1>. USE Names DEF TypeOK, Ended, query, net
<1>. DEFINE Stay == /\ \A q \in Queries : task[q] \in Ended => task'[q] = task[q]
                    /\ socket = "gone" => socket' = "gone"
                    /\ closer # "idle" => closer' # "idle"
<1>1. ASSUME NEW q \in Queries, TaskStep(q) \/ CancelCaller(q) \/ ServerAnswers(q) PROVE Stay
  BY <1>1 DEF TaskStep, Ask, Written, SendRaises, Drained, TimerFires, Resume,
              CancelCaller, ServerAnswers
<1>2. CASE ReaderStep BY <1>2 DEF ReaderStep, Resolve, Incoming, ListenerDone, LoopEnds
<1>3. CASE CloseBegins BY <1>3 DEF CloseBegins, InPostLogin
<1>4. CASE CloseEnds BY <1>4 DEF CloseEnds
<1>5. CASE ServerSends \/ SocketLost BY <1>5 DEF ServerSends, SocketLost
<1>6. CASE UNCHANGED vars BY <1>6 DEF vars
<1>. QED BY <1>1, <1>2, <1>3, <1>4, <1>5, <1>6 DEF Next

\* An inline query is cancelled by close() and by nothing else: its caller is the read loop.
Uncut ==
  \A q \in Inline :
    /\ task[q] = "cancelled" => closer # "idle"
    /\ fut[q] = "cancelled" => late[q] \/ closer # "idle"

LEMMA StepUncut == TypeOK /\ Uncut /\ [Next]_vars => Uncut'
<1>. SUFFICES ASSUME TypeOK, Uncut, [Next]_vars PROVE Uncut'
  OBVIOUS
<1>. USE Names DEF TypeOK, Uncut, Ended, Begun, query, net
<1>1. ASSUME NEW q \in Queries, Ask(q) PROVE Uncut' BY <1>1 DEF Ask
<1>2. ASSUME NEW q \in Queries, Written(q) PROVE Uncut' BY <1>2 DEF Written
<1>3. ASSUME NEW q \in Queries, SendRaises(q) PROVE Uncut' BY <1>3 DEF SendRaises
<1>4. ASSUME NEW q \in Queries, Drained(q) PROVE Uncut' BY <1>4 DEF Drained
<1>5. ASSUME NEW q \in Queries, TimerFires(q) PROVE Uncut' BY <1>5 DEF TimerFires
<1>6. ASSUME NEW q \in Queries, Resume(q) PROVE Uncut'
  <2>1. fut[q] \in {"result", "cancelled"} BY <1>6 DEF Resume
  <2>. QED BY <1>6, <2>1 DEF Resume
<1>7. ASSUME NEW q \in Queries, CancelCaller(q) PROVE Uncut' BY <1>7 DEF CancelCaller
<1>8. ASSUME NEW q \in Queries, ServerAnswers(q) PROVE Uncut' BY <1>8 DEF ServerAnswers
<1>9. CASE Resolve BY <1>9 DEF Resolve
<1>10. CASE Incoming \/ ListenerDone \/ LoopEnds
  BY <1>10 DEF Incoming, ListenerDone, LoopEnds
<1>11. CASE CloseBegins BY <1>11 DEF CloseBegins
<1>12. CASE CloseEnds BY <1>12 DEF CloseEnds
<1>13. CASE ServerSends \/ SocketLost BY <1>13 DEF ServerSends, SocketLost
<1>14. CASE UNCHANGED vars BY <1>14 DEF vars
<1>. QED
  BY <1>1, <1>2, <1>3, <1>4, <1>5, <1>6, <1>7, <1>8, <1>9, <1>10, <1>11, <1>12, <1>13,
     <1>14 DEF Next, TaskStep, ReaderStep

\* The read loop ends in three ways only; an answer and a listener of messages are none.
LEMMA ReaderEnds ==
  ASSUME TypeOK, Uncut, [Next]_vars, reader' = "ended", reader # "ended"
  PROVE  \/ socket' = "gone" \/ closer' # "idle"
         \/ reader \in Inline \ Isolated /\ task[reader] \in {"timed out", "raised"}
<1>. USE Names DEF TypeOK, query, net
<1>1. ASSUME NEW q \in Queries, TaskStep(q) \/ CancelCaller(q) \/ ServerAnswers(q)
      PROVE  reader' = reader
  BY <1>1 DEF TaskStep, Ask, Written, SendRaises, Drained, TimerFires, Resume,
              CancelCaller, ServerAnswers
<1>2. CASE Resolve
  <2>1. reader' = reader BY <1>2 DEF Resolve, NotDone
  <2>. QED BY <2>1
<1>3. CASE Incoming BY <1>3 DEF Incoming, ListenersOf
<1>4. CASE ListenerDone
  <2>1. reader \in Inline /\ task[reader] \in Ended /\ Escapes(reader) /\ closer' = closer
    BY <1>4 DEF ListenerDone
  <2>. QED BY <2>1 DEF Escapes, Ended, Uncut
<1>5. CASE LoopEnds BY <1>5 DEF LoopEnds
<1>6. CASE CloseBegins BY <1>6 DEF CloseBegins
<1>7. CASE CloseEnds BY <1>7 DEF CloseEnds
<1>8. CASE ServerSends \/ SocketLost BY <1>8 DEF ServerSends, SocketLost
<1>9. CASE UNCHANGED vars BY <1>9 DEF vars
<1>. QED BY <1>1, <1>2, <1>3, <1>4, <1>5, <1>6, <1>7, <1>8, <1>9 DEF Next, ReaderStep

LEMMA StepReader ==
  TypeOK /\ Uncut /\ ReaderSurvives /\ [Next]_vars => ReaderSurvives'
<1>. SUFFICES ASSUME TypeOK, Uncut, ReaderSurvives, [Next]_vars, reader' = "ended"
              PROVE  \/ socket' = "gone" \/ closer' # "idle"
                     \/ \E q \in Inline \ Isolated : task'[q] \in {"timed out", "raised"}
  BY DEF ReaderSurvives
<1>1. ASSUME NEW q \in Inline \ Isolated, task[q] \in {"timed out", "raised"}
      PROVE  task'[q] \in {"timed out", "raised"}
  BY <1>1, Names, EndsStay DEF Ended
<1>2. CASE reader = "ended" BY <1>1, <1>2, EndsStay DEF ReaderSurvives
<1>3. CASE reader # "ended" BY <1>1, <1>3, ReaderEnds
<1>. QED BY <1>2, <1>3

\* The read loop lives as long as its connection: whatever answers come late, doubled or for
\* nobody, and however the listeners of messages raise or time out, only the loss of the
\* socket, close(), and a listener of receipts that raised end it (_on_node, _on_message).
THEOREM ReaderOutlives == Spec => []ReaderSurvives
<1>1. Init => ReaderSurvives /\ Uncut BY Names DEF Init, ReaderSurvives, Uncut
<1>. QED BY <1>1, InitTypes, StepTypes, StepUncut, StepReader, PTL DEF Spec

-----------------------------------------------------------------------------
LEMMA StepClose == TypeOK /\ CloseInv /\ [Next]_vars => CloseInv'
<1>. SUFFICES ASSUME TypeOK, CloseInv, [Next]_vars PROVE CloseInv'
  OBVIOUS
<1>. USE Names DEF TypeOK, CloseInv, Running, Ended, query, net
<1>1. ASSUME NEW q \in Queries, Ask(q) PROVE CloseInv' BY <1>1 DEF Ask
<1>2. ASSUME NEW q \in Queries, Written(q) PROVE CloseInv' BY <1>2 DEF Written
<1>3. ASSUME NEW q \in Queries, SendRaises(q) PROVE CloseInv' BY <1>3 DEF SendRaises
<1>4. ASSUME NEW q \in Queries, Drained(q) PROVE CloseInv' BY <1>4 DEF Drained
<1>5. ASSUME NEW q \in Queries, TimerFires(q) PROVE CloseInv' BY <1>5 DEF TimerFires
<1>6. ASSUME NEW q \in Queries, Resume(q) PROVE CloseInv' BY <1>6 DEF Resume
<1>7. ASSUME NEW q \in Queries, CancelCaller(q) PROVE CloseInv' BY <1>7 DEF CancelCaller
<1>8. ASSUME NEW q \in Queries, ServerAnswers(q) PROVE CloseInv' BY <1>8 DEF ServerAnswers
<1>9. CASE Resolve BY <1>9 DEF Resolve
<1>10. CASE Incoming \/ ListenerDone \/ LoopEnds
  BY <1>10 DEF Incoming, ListenerDone, LoopEnds
<1>11. CASE CloseBegins BY <1>11 DEF CloseBegins, InPostLogin, Dropped
<1>12. CASE CloseEnds BY <1>12 DEF CloseEnds
<1>13. CASE ServerSends \/ SocketLost BY <1>13 DEF ServerSends, SocketLost
<1>14. CASE UNCHANGED vars BY <1>14 DEF vars
<1>. QED
  BY <1>1, <1>2, <1>3, <1>4, <1>5, <1>6, <1>7, <1>8, <1>9, <1>10, <1>11, <1>12, <1>13,
     <1>14 DEF Next, TaskStep, ReaderStep

\* Once close() has begun no query sits out its timeout, one that was half sent when it
\* began included.
THEOREM CloseReleasesAll == Spec => []CloseReleases
<1>1. Init => CloseInv BY DEF Init, CloseInv, Running
<1>2. CloseInv => CloseReleases BY DEF CloseInv, CloseReleases
<1>. QED BY <1>1, <1>2, InitTypes, StepTypes, StepClose, PTL DEF Spec

-----------------------------------------------------------------------------
\* The router.

\* A handler with a call to come: in the rest of the snapshot, or under a key still to come.
InList(h, list) == \E i \in 1..Len(list) : list[i] = h
Owed(h) ==
  /\ h \notin dispatch.seen
  /\ \/ InList(h, dispatch.queue)
     \/ \E i \in 1..Len(dispatch.keys) : InList(h, HandlersOf(dispatch.keys[i]))

RouterTyped ==
  /\ \E S : inbox \in Seq(S)
  /\ handlers \in [Routes -> Seq(Handlers)]
  /\ futures \in Nat
  /\ \E S : dispatch.keys \in Seq(S)
  /\ dispatch.queue \in Seq(Handlers)
  /\ \A w \in waiter : w[2] \in Nat

RouterInv == RouterTyped /\ Routed /\ \A h \in due : Owed(h)

LEMMA KeysTyped ==
  ASSUME NEW node, Len(node.attrs) \in Nat
  PROVE  \E S : RoutingKeys(node) \in Seq(S)
<1>1. PICK k \in Nat : k = 3 * Len(node.attrs) OBVIOUS
<1>2. PICK s : s = [i \in 1..k |-> KeysOf(node, node.attrs[(i + 2) \div 3])[1 + ((i - 1) % 3)]]
  OBVIOUS
<1>3. PICK t : t = <<<<node.tag, <<>>, Child(node)>>, <<node.tag>>>> OBVIOUS
<1>4. PICK S : S = {s[i] : i \in 1..k} \cup {t[1], t[2]} OBVIOUS
<1>5. s \in Seq(S)
  <2>1. s = [i \in 1..k |-> s[i]] BY <1>2
  <2>2. \A i \in 1..k : s[i] \in S BY <1>4
  <2>. QED BY ONLY <1>1, <2>1, <2>2
<1>6. t \in Seq(S)
  <2>1. PICK a, b : a = t[1] /\ b = t[2] OBVIOUS
  <2>2. t = <<a, b>> BY <1>3, <2>1
  <2>3. a \in S /\ b \in S BY <1>4, <2>1
  <2>4. <<a, b>> \in Seq(S) BY ONLY <2>3
  <2>. QED BY ONLY <2>2, <2>4
<1>7. RoutingKeys(node) = s \o t BY <1>1, <1>2, <1>3 DEF RoutingKeys
<1>. QED BY <1>5, <1>6, <1>7, ConcatProperties

LEMMA HandlersTyped ==
  ASSUME RouterTyped, NEW key
  PROVE  HandlersOf(key) \in Seq(Handlers)
BY DEF RouterTyped, HandlersOf

\* The next handler of a list is called: what is owed is the rest of the list, or under the
\* keys that are kept.
LEMMA CallRoutes ==
  ASSUME RouterInv, NEW list \in Seq(Handlers), NEW keys, \E S : keys \in Seq(S),
         Call(list, keys), UNCHANGED <<inbox, handlers, waiter, futures, resolved>>,
         \A h \in due : InList(h, list) \/ \E i \in 1..Len(keys) : InList(h, HandlersOf(keys[i]))
  PROVE  RouterInv'
<1>1. PICK i \in 1..Len(list) :
        /\ list[i] \notin dispatch.seen
        /\ \A j \in 1..Len(list) : list[j] \notin dispatch.seen => i <= j
        /\ dispatch' = [keys |-> keys, queue |-> SubSeq(list, i + 1, Len(list)),
                        seen |-> dispatch.seen \cup {list[i]}]
        /\ due' = due \ {list[i]}
  BY DEF Call, Unseen, Earliest
<1>2. PICK rest : rest = SubSeq(list, i + 1, Len(list)) OBVIOUS
<1>3. /\ rest \in Seq(Handlers) /\ Len(rest) = Len(list) - i
      /\ \A j \in 1..Len(rest) : rest[j] = list[i + j]
  <2>1. i + 1 \in 1..(Len(list) + 1) BY <1>1
  <2>2. \A j \in (i + 1)..Len(list) : list[j] \in Handlers BY <1>1
  <2>. QED BY <1>1, <1>2, <2>1, <2>2, SubSeqProperties
<1>4. /\ dispatch'.keys = keys /\ dispatch'.queue = rest
      /\ dispatch'.seen = dispatch.seen \cup {list[i]}
  BY <1>1, <1>2
<1>5. RouterTyped' BY <1>3, <1>4 DEF RouterInv, RouterTyped
<1>6. dispatch' # Idle
  <2>1. dispatch'.seen # {} BY <1>4
  <2>. QED BY <2>1 DEF Idle
<1>7. Routed' BY <1>6 DEF RouterInv, Routed
<1>8. ASSUME NEW h \in due' PROVE Owed(h)'
  <2>1. h \in due /\ h # list[i] BY <1>1, <1>8
  <2>2. h \notin dispatch.seen BY <2>1 DEF RouterInv, Owed
  <2>3. ASSUME NEW j \in 1..Len(list), list[j] = h PROVE InList(h, rest)
    <3>1. i <= j /\ j # i BY <1>1, <2>1, <2>2, <2>3
    <3>2. j - i \in 1..Len(rest) /\ rest[j - i] = list[i + (j - i)] BY <1>1, <1>3, <2>3, <3>1
    <3>3. i + (j - i) = j BY <1>1, <2>3
    <3>. QED BY <2>3, <3>2, <3>3 DEF InList
  <2>4. \A k : HandlersOf(k)' = HandlersOf(k) BY DEF HandlersOf
  <2>. QED BY <1>4, <2>1, <2>2, <2>3, <2>4 DEF Owed, InList
<1>. QED BY <1>5, <1>7, <1>8 DEF RouterInv

\* A node begins: each handler of its keys is owed a call, and the waiter of its id goes.
LEMMA DispatchRoutes ==
  ASSUME RouterInv, NEW frame, Dispatch(frame),
         frame = {} \/ \E node : frame = {node} /\ Len(node.attrs) \in Nat
  PROVE  RouterInv'
<1>. USE DEF RouterInv
<1>1. PICK S : inbox \in Seq(S) BY DEF RouterTyped
<1>2. PICK T : T = S \cup {frame} OBVIOUS
<1>3. inbox' = Append(inbox, frame) BY DEF Dispatch
<1>4. /\ inbox' \in Seq(T) /\ Len(inbox') = Len(inbox) + 1 /\ Len(inbox) \in Nat
      /\ \A i \in 1..Len(inbox) : inbox'[i] = inbox[i]
      /\ inbox'[Len(inbox) + 1] = frame
  BY <1>1, <1>2, <1>3
<1>5. \E U : inbox' \in Seq(U) BY <1>4
<1>6. UNCHANGED <<handlers, futures>> /\ dispatch = Idle BY DEF Dispatch
<1>7. CASE frame = {} /\ UNCHANGED <<waiter, resolved, dispatch, due>>
  <2>1. RouterTyped' BY <1>5, <1>6, <1>7 DEF RouterTyped
  <2>2. ASSUME NEW w \in waiter, NEW i \in (w[2] + 1)..Len(inbox'), NEW node \in inbox'[i]
        PROVE Id \notin IdsOf(node)
    <3>1. i \in 1..(Len(inbox) + 1) BY <1>4, <2>2 DEF RouterTyped
    <3>2. i # Len(inbox) + 1 BY <1>4, <1>7, <2>2
    <3>3. i \in (w[2] + 1)..Len(inbox) /\ inbox'[i] = inbox[i]
      BY <1>4, <2>2, <3>1, <3>2 DEF RouterTyped
    <3>. QED BY <2>2, <3>3 DEF Routed
  <2>3. Routed' BY <1>6, <1>7, <2>2 DEF Routed, IdsOf
  <2>4. \A h \in due' : Owed(h)' BY <1>6, <1>7 DEF Owed, InList, HandlersOf
  <2>. QED BY <2>1, <2>3, <2>4
<1>8. CASE frame # {}
  <2>1. PICK node : frame = {node} /\ Len(node.attrs) \in Nat BY <1>8
  <2>2. PICK keys : keys = RoutingKeys(node) OBVIOUS
  <2>3. /\ IF Id \in IdsOf(node)
           THEN waiter' = {} /\ resolved' = resolved \cup waiter
           ELSE UNCHANGED <<waiter, resolved>>
        /\ dispatch' = [Idle EXCEPT !.keys = keys]
        /\ due' = {h \in Handlers : \E k \in ToSet(keys) : h \in ToSet(HandlersOf(k))}
    BY <1>8, <2>1, <2>2 DEF Dispatch
  <2>4. PICK K : keys \in Seq(K) BY <2>1, <2>2, KeysTyped
  <2>5. dispatch'.keys = keys /\ dispatch'.queue = <<>> /\ dispatch'.seen = {}
    BY <2>3 DEF Idle
  <2>6. waiter' \subseteq waiter BY <2>3
  <2>7. RouterTyped' BY <1>5, <1>6, <2>4, <2>5, <2>6 DEF RouterTyped
  <2>8. ASSUME NEW h \in due' PROVE Owed(h)'
    <3>1. PICK k \in ToSet(keys) : h \in ToSet(HandlersOf(k)) BY <2>3, <2>8
    <3>2. PICK i \in 1..Len(keys) : keys[i] = k BY <2>4, <3>1 DEF ToSet
    <3>3. HandlersOf(k) \in Seq(Handlers) BY HandlersTyped
    <3>4. PICK j \in 1..Len(HandlersOf(k)) : HandlersOf(k)[j] = h BY <3>1, <3>3 DEF ToSet
    <3>5. HandlersOf(k)' = HandlersOf(k) BY <1>6 DEF HandlersOf
    <3>. QED BY <2>5, <3>2, <3>4, <3>5, <1>6 DEF Owed, InList, HandlersOf
  <2>9. ASSUME NEW w \in waiter', NEW i \in (w[2] + 1)..Len(inbox'), NEW n \in inbox'[i]
        PROVE Id \notin IdsOf(n)
    <3>1. w \in waiter /\ Id \notin IdsOf(node) BY <2>3, <2>9
    <3>2. i \in 1..(Len(inbox) + 1) BY <1>4, <2>9, <3>1 DEF RouterTyped
    <3>3. CASE i = Len(inbox) + 1
      <4>1. n = node BY <1>4, <2>1, <2>9, <3>3
      <4>. QED BY <3>1, <4>1
    <3>4. CASE i # Len(inbox) + 1
      <4>1. i \in (w[2] + 1)..Len(inbox) /\ inbox'[i] = inbox[i]
        BY <1>4, <2>9, <3>1, <3>2, <3>4 DEF RouterTyped
      <4>. QED BY <2>9, <3>1, <4>1 DEF Routed
    <3>. QED BY <3>3, <3>4
  <2>10. dispatch' = Idle => due' = {}
    <3>1. SUFFICES ASSUME dispatch' = Idle, NEW h \in due' PROVE FALSE OBVIOUS
    <3>2. keys = <<>> BY <2>5, <3>1 DEF Idle
    <3>. QED BY <2>3, <3>1, <3>2 DEF ToSet
  <2>11. Routed' BY <2>9, <2>10 DEF Routed, IdsOf
  <2>. QED BY <2>7, <2>8, <2>11
<1>. QED BY <1>7, <1>8 DEF Dispatch

\* The first member of a set of positions.
LEMMA EarliestIs ==
  ASSUME NEW S, NEW i \in Earliest(S)
  PROVE  i \in S /\ \A j \in S : i <= j
BY DEF Earliest

\* dispatch() goes on: with its snapshot, with the next key, or to its end with nobody owed.
LEMMA CallNextRoutes ==
  ASSUME RouterInv, CallNext
  PROVE  RouterInv'
<1>. USE DEF RouterInv
<1>1. UNCHANGED <<inbox, handlers, waiter, futures, resolved>> BY DEF CallNext
<1>2. PICK keys : keys = dispatch.keys OBVIOUS
<1>3. PICK K : keys \in Seq(K) BY <1>2 DEF RouterTyped
<1>4. dispatch.queue \in Seq(Handlers) BY DEF RouterTyped
<1>5. \A h \in due : /\ h \notin dispatch.seen
                     /\ \/ InList(h, dispatch.queue)
                        \/ \E i \in 1..Len(keys) : InList(h, HandlersOf(keys[i]))
  BY <1>2 DEF Owed
<1>6. CASE Call(dispatch.queue, dispatch.keys)
  <2>1. Call(dispatch.queue, keys) BY <1>2, <1>6
  <2>. QED BY <1>1, <1>3, <1>4, <1>5, <2>1, CallRoutes
<1>7. Unseen(dispatch.queue) = {} => \A h \in due : ~InList(h, dispatch.queue)
  BY <1>5 DEF Unseen, InList
<1>8. CASE /\ Unseen(dispatch.queue) = {}
           /\ \E i \in Earliest(ToCall(dispatch.keys)) :
                Call(HandlersOf(dispatch.keys[i]),
                     SubSeq(dispatch.keys, i + 1, Len(dispatch.keys)))
  <2>1. PICK i \in Earliest(ToCall(keys)) :
          Call(HandlersOf(keys[i]), SubSeq(keys, i + 1, Len(keys)))
    BY <1>2, <1>8
  <2>2. /\ i \in 1..Len(keys) /\ Unseen(HandlersOf(keys[i])) # {}
        /\ \A j \in 1..Len(keys) : Unseen(HandlersOf(keys[j])) # {} => i <= j
    BY <2>1, EarliestIs DEF ToCall
  <2>3. PICK list : list = HandlersOf(keys[i]) OBVIOUS
  <2>4. PICK rest : rest = SubSeq(keys, i + 1, Len(keys)) OBVIOUS
  <2>5. list \in Seq(Handlers) BY <2>3, HandlersTyped
  <2>6. /\ rest \in Seq(K) /\ Len(rest) = Len(keys) - i
        /\ \A j \in 1..Len(rest) : rest[j] = keys[i + j]
    <3>1. i + 1 \in 1..(Len(keys) + 1) BY <1>3, <2>2
    <3>2. \A j \in (i + 1)..Len(keys) : keys[j] \in K BY <1>3, <2>2
    <3>. QED BY <1>3, <2>2, <2>4, <3>1, <3>2, SubSeqProperties
  <2>7. ASSUME NEW h \in due
        PROVE InList(h, list) \/ \E j \in 1..Len(rest) : InList(h, HandlersOf(rest[j]))
    <3>1. PICK j \in 1..Len(keys) : InList(h, HandlersOf(keys[j]))
      BY <1>5, <1>7, <1>8, <2>7
    <3>2. Unseen(HandlersOf(keys[j])) # {} BY <1>5, <2>7, <3>1 DEF InList, Unseen
    <3>3. i <= j BY <2>2, <3>2
    <3>4. CASE i = j BY <2>3, <3>1, <3>4
    <3>5. CASE i # j
      <4>1. j - i \in 1..Len(rest) BY <1>3, <2>2, <2>6, <3>3, <3>5
      <4>2. i + (j - i) = j BY <1>3, <2>2
      <4>3. rest[j - i] = keys[j] BY <2>6, <4>1, <4>2
      <4>. QED BY <3>1, <4>1, <4>3
    <3>. QED BY <3>4, <3>5
  <2>8. Call(list, rest) BY <2>1, <2>3, <2>4
  <2>. QED BY <1>1, <2>5, <2>6, <2>7, <2>8, CallRoutes
<1>9. CASE /\ Unseen(dispatch.queue) = {} /\ ToCall(dispatch.keys) = {}
           /\ dispatch' = Idle /\ UNCHANGED due
  <2>1. ASSUME NEW h \in due PROVE FALSE
    <3>1. PICK j \in 1..Len(keys) : InList(h, HandlersOf(keys[j]))
      BY <1>5, <1>7, <1>9, <2>1
    <3>2. Unseen(HandlersOf(keys[j])) # {} BY <1>5, <2>1, <3>1 DEF InList, Unseen
    <3>3. j \in ToCall(keys) BY <3>2 DEF ToCall
    <3>. QED BY <1>2, <1>9, <3>3
  <2>2. due' = {} BY <1>9, <2>1
  <2>3. /\ dispatch'.keys = <<>> /\ dispatch'.queue = <<>>
    BY <1>9 DEF Idle
  <2>4. <<>> \in Seq(Handlers) OBVIOUS
  <2>5. RouterTyped' BY <1>1, <2>3, <2>4 DEF RouterTyped
  <2>6. Routed' BY <1>1, <2>2 DEF Routed
  <2>. QED BY <2>2, <2>5, <2>6
<1>. QED BY <1>6, <1>8, <1>9 DEF CallNext

\* After a handler that raised, nobody is owed a call.
LEMMA RaiseRoutes ==
  ASSUME RouterInv, Raise
  PROVE  RouterInv'
<1>1. /\ dispatch' = Idle /\ due' = {}
      /\ UNCHANGED <<inbox, handlers, waiter, futures, resolved>>
  BY DEF Raise
<1>2. dispatch'.keys \in Seq({}) /\ dispatch'.queue \in Seq(Handlers) BY <1>1 DEF Idle
<1>3. RouterTyped' BY <1>1, <1>2 DEF RouterInv, RouterTyped
<1>4. Routed' BY <1>1 DEF RouterInv, Routed
<1>. QED BY <1>1, <1>3, <1>4 DEF RouterInv

\* What is registered while a handler is awaited takes no handler out of a list.
LEMMA OnRoutes ==
  ASSUME RouterInv, NEW key \in Routes, NEW g \in Handlers, On(key, g)
  PROVE  RouterInv'
<1>. USE DEF RouterInv
<1>1. /\ handlers' = [handlers EXCEPT ![key] = Append(@, g)]
      /\ UNCHANGED <<inbox, waiter, futures, resolved, dispatch, due>>
  BY DEF On
<1>2. handlers \in [Routes -> Seq(Handlers)] BY DEF RouterTyped
<1>3. \A k \in Routes : handlers'[k] = IF k = key THEN Append(handlers[k], g) ELSE handlers[k]
  BY <1>1, <1>2
<1>4. Append(handlers[key], g) \in Seq(Handlers) BY <1>2
<1>5. handlers' \in [Routes -> Seq(Handlers)] BY <1>1, <1>2, <1>4
<1>6. RouterTyped' BY <1>1, <1>5 DEF RouterTyped
<1>7. Routed' BY <1>1 DEF Routed
<1>8. ASSUME NEW h, NEW k, InList(h, HandlersOf(k)) PROVE InList(h, HandlersOf(k)')
  <2>1. CASE k \notin Routes BY <1>8, <2>1 DEF HandlersOf
  <2>2. CASE k \in Routes
    <3>1. PICK i \in 1..Len(handlers[k]) : handlers[k][i] = h
      BY <1>8, <2>2 DEF HandlersOf, InList
    <3>2. handlers[k] \in Seq(Handlers) BY <1>2, <2>2
    <3>3. PICK old : old = handlers[k] OBVIOUS
    <3>4. /\ i \in 1..Len(Append(old, g)) /\ Append(old, g)[i] = h
          /\ i \in 1..Len(old) /\ old[i] = h
      BY <3>1, <3>2, <3>3
    <3>5. i \in 1..Len(handlers'[k]) /\ handlers'[k][i] = h BY <1>3, <2>2, <3>3, <3>4
    <3>. QED BY <2>2, <3>5 DEF HandlersOf, InList
  <2>. QED BY <2>1, <2>2
<1>9. \A h \in due' : Owed(h)'
  <2>1. SUFFICES ASSUME NEW h \in due PROVE Owed(h)' BY <1>1
  <2>2. PICK keys : keys = dispatch.keys OBVIOUS
  <2>3. /\ h \notin dispatch.seen
        /\ \/ InList(h, dispatch.queue)
           \/ \E i \in 1..Len(keys) : InList(h, HandlersOf(keys[i]))
    BY <2>2 DEF Owed
  <2>4. \/ InList(h, dispatch.queue)
        \/ \E i \in 1..Len(keys) : InList(h, HandlersOf(keys[i])')
    BY <1>8, <2>3
  <2>. QED BY <1>1, <2>2, <2>3, <2>4 DEF Owed, InList, HandlersOf
<1>. QED BY <1>6, <1>7, <1>9

\* A handler that is removed is owed nothing; the others stay in their lists.
LEMMA OffRoutes ==
  ASSUME RouterInv, NEW key \in Routes, NEW g \in Handlers, Off(key, g)
  PROVE  RouterInv'
<1>. USE DEF RouterInv
<1>1. PICK n \in Earliest({i \in 1..Len(handlers[key]) : handlers[key][i] = g}) :
        handlers' = [handlers EXCEPT ![key] = RemoveAt(@, n)]
  BY DEF Off
<1>2. n \in 1..Len(handlers[key]) /\ handlers[key][n] = g BY <1>1, EarliestIs
<1>3. due' = due \ {g} /\ UNCHANGED <<inbox, waiter, futures, resolved, dispatch>> BY DEF Off
<1>4. handlers \in [Routes -> Seq(Handlers)] BY DEF RouterTyped
<1>5. PICK old : old = handlers[key] OBVIOUS
<1>6. PICK new : new = SubSeq(old, 1, n - 1) \o SubSeq(old, n + 1, Len(old)) OBVIOUS
<1>7. /\ new \in Seq(Handlers)
      /\ \A i \in 1..Len(old) : i # n => \E j \in 1..Len(new) : new[j] = old[i]
  <2>1. old \in Seq(Handlers) /\ Len(old) \in Nat /\ n \in 1..Len(old) /\ n \in Nat
    BY <1>2, <1>4, <1>5
  <2>2. PICK a : a = SubSeq(old, 1, n - 1) OBVIOUS
  <2>3. PICK b : b = SubSeq(old, n + 1, Len(old)) OBVIOUS
  <2>4. /\ a \in Seq(Handlers) /\ Len(a) = n - 1
        /\ \A j \in 1..Len(a) : a[j] = old[j]
    BY <2>1, <2>2
  <2>5. /\ b \in Seq(Handlers) /\ Len(b) = Len(old) - n
        /\ \A j \in 1..Len(b) : b[j] = old[n + j]
    <3>1. n + 1 \in 1..(Len(old) + 1) BY <2>1
    <3>2. \A j \in (n + 1)..Len(old) : old[j] \in Handlers BY <2>1
    <3>. QED BY <2>1, <2>3, <3>1, <3>2, SubSeqProperties
  <2>6. new = a \o b BY <1>6, <2>2, <2>3
  <2>7. /\ new \in Seq(Handlers) /\ Len(new) = Len(old) - 1
        /\ \A j \in 1..Len(new) : new[j] = IF j <= n - 1 THEN a[j] ELSE b[j - (n - 1)]
    <3>1. new \in Seq(Handlers) BY ONLY <2>4, <2>5, <2>6
    <3>2. Len(new) = Len(old) - 1
      <4>1. Len(a \o b) = Len(a) + Len(b) BY ONLY <2>4, <2>5, ConcatProperties
      <4>2. Len(new) = (n - 1) + (Len(old) - n) BY ONLY <2>4, <2>5, <2>6, <4>1
      <4>. QED BY ONLY <2>1, <4>2
    <3>3. \A j \in 1..Len(a \o b) : (a \o b)[j] = IF j <= Len(a) THEN a[j] ELSE b[j - Len(a)]
      BY ONLY <2>4, <2>5, ConcatProperties
    <3>. QED BY <2>4, <2>6, <3>1, <3>2, <3>3
  <2>8. ASSUME NEW i \in 1..Len(old), i < n PROVE i \in 1..Len(new) /\ new[i] = old[i]
    BY <2>1, <2>4, <2>7, <2>8
  <2>9. ASSUME NEW i \in 1..Len(old), i > n PROVE i - 1 \in 1..Len(new) /\ new[i - 1] = old[i]
    <3>1. i - 1 \in 1..Len(new) /\ ~(i - 1 <= n - 1) BY <2>1, <2>7, <2>9
    <3>2. i - n \in 1..Len(b) /\ (i - 1) - (n - 1) = i - n /\ n + (i - n) = i
      BY <2>1, <2>5, <2>9
    <3>3. b[i - n] = old[i] BY <2>5, <3>2
    <3>4. new[i - 1] = b[(i - 1) - (n - 1)] BY <2>7, <3>1
    <3>. QED BY <3>1, <3>2, <3>3, <3>4
  <2>10. \A i \in 1..Len(old) : i # n => i < n \/ i > n BY <2>1
  <2>. QED BY <2>7, <2>8, <2>9, <2>10
<1>8. \A k \in Routes : handlers'[k] = IF k = key THEN new ELSE handlers[k]
  BY <1>1, <1>4, <1>5, <1>6 DEF RemoveAt
<1>9. handlers' \in [Routes -> Seq(Handlers)]
  <2>1. handlers' = [handlers EXCEPT ![key] = new] BY <1>1, <1>4, <1>5, <1>6 DEF RemoveAt
  <2>. QED BY <1>4, <1>7, <2>1
<1>10. RouterTyped' BY <1>3, <1>9 DEF RouterTyped
<1>11. Routed' BY <1>3 DEF Routed
<1>12. ASSUME NEW h, h # g, NEW k, InList(h, HandlersOf(k)) PROVE InList(h, HandlersOf(k)')
  <2>1. CASE k \notin Routes BY <1>12, <2>1 DEF HandlersOf
  <2>2. CASE k \in Routes /\ k # key BY <1>8, <1>12, <2>2 DEF HandlersOf, InList
  <2>3. CASE k = key
    <3>1. PICK i \in 1..Len(old) : old[i] = h BY <1>5, <1>12, <2>3 DEF HandlersOf, InList
    <3>2. i # n BY <1>2, <1>5, <1>12, <3>1
    <3>3. HandlersOf(k)' = new BY <1>8, <2>3 DEF HandlersOf
    <3>. QED BY <1>7, <3>1, <3>2, <3>3 DEF InList
  <2>. QED BY <2>1, <2>2, <2>3
<1>13. \A h \in due' : Owed(h)'
  <2>1. SUFFICES ASSUME NEW h \in due, h # g PROVE Owed(h)' BY <1>3
  <2>2. PICK keys : keys = dispatch.keys OBVIOUS
  <2>3. /\ h \notin dispatch.seen
        /\ \/ InList(h, dispatch.queue)
           \/ \E i \in 1..Len(keys) : InList(h, HandlersOf(keys[i]))
    BY <2>2 DEF Owed
  <2>4. \/ InList(h, dispatch.queue)
        \/ \E i \in 1..Len(keys) : InList(h, HandlersOf(keys[i])')
    BY <1>12, <2>1, <2>3
  <2>. QED BY <1>3, <2>2, <2>3, <2>4 DEF Owed, InList, HandlersOf
<1>. QED BY <1>10, <1>11, <1>13

\* A waiter begins with the frames read so far behind it.
LEMMA WaitRoutes ==
  ASSUME RouterInv, WaitForId
  PROVE  RouterInv'
<1>1. /\ waiter' = {<<futures + 1, Len(inbox)>>} /\ futures' = futures + 1
      /\ UNCHANGED <<inbox, handlers, resolved, dispatch, due>>
  BY DEF WaitForId
<1>2. Len(inbox) \in Nat /\ futures \in Nat BY DEF RouterInv, RouterTyped
<1>3. RouterTyped' BY <1>1, <1>2 DEF RouterInv, RouterTyped
<1>4. \A w \in waiter' : (w[2] + 1)..Len(inbox') = {} BY <1>1, <1>2
<1>5. Routed' BY <1>1, <1>4 DEF RouterInv, Routed
<1>6. \A h \in due' : Owed(h)' BY <1>1 DEF RouterInv, Owed, InList, HandlersOf
<1>. QED BY <1>3, <1>5, <1>6 DEF RouterInv

LEMMA RouterStarts == RouterInit => RouterInv
<1>1. SUFFICES ASSUME RouterInit PROVE RouterInv OBVIOUS
<1>2. inbox \in Seq({}) /\ dispatch.keys \in Seq({}) /\ dispatch.queue \in Seq(Handlers)
  BY <1>1 DEF RouterInit, Idle
<1>3. RouterTyped BY <1>1, <1>2 DEF RouterInit, RouterTyped
<1>. QED BY <1>1, <1>3 DEF RouterInit, RouterInv, Routed

\* Whatever nodes arrive, under however many keys, and whoever registers, removes or waits
\* while a handler is awaited: dispatch() leaves out no handler that was registered for the
\* node and not removed, unless one raises, and leaves no waiter of an id that has come.
THEOREM EachHandlerCalled ==
  ASSUME NEW CONSTANT frames,
         \A f \in frames : f = {} \/ \E node : f = {node} /\ Len(node.attrs) \in Nat
  PROVE  RouterSpec(frames) => []Routed
<1>1. RouterInit => RouterInv BY RouterStarts
<1>2. RouterInv /\ [RouterNext(frames)]_router => RouterInv'
  <2>1. SUFFICES ASSUME RouterInv, [RouterNext(frames)]_router PROVE RouterInv' OBVIOUS
  <2>2. CASE UNCHANGED router
    <3>1. RouterTyped' BY <2>1, <2>2 DEF router, RouterInv, RouterTyped
    <3>2. Routed' BY <2>1, <2>2 DEF router, RouterInv, Routed
    <3>3. \A h \in due' : Owed(h)'
      BY <2>1, <2>2 DEF router, RouterInv, Owed, InList, HandlersOf
    <3>. QED BY <3>1, <3>2, <3>3 DEF RouterInv
  <2>3. ASSUME NEW frame \in frames, Dispatch(frame) PROVE RouterInv'
    BY <2>1, <2>3, DispatchRoutes
  <2>4. CASE CallNext BY <2>1, <2>4, CallNextRoutes
  <2>5. CASE Raise BY <2>1, <2>5, RaiseRoutes
  <2>6. CASE WaitForId BY <2>1, <2>6, WaitRoutes
  <2>7. ASSUME NEW k \in Routes, NEW h \in Handlers, On(k, h) \/ Off(k, h) PROVE RouterInv'
    BY <2>1, <2>7, OnRoutes, OffRoutes
  <2>. QED BY <2>1, <2>2, <2>3, <2>4, <2>5, <2>6, <2>7 DEF RouterNext
<1>3. RouterInv => Routed BY DEF RouterInv
<1>. QED BY <1>1, <1>2, <1>3, PTL DEF RouterSpec

=============================================================================
