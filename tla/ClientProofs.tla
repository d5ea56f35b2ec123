---------------------------- MODULE ClientProofs ----------------------------
(***************************************************************************)
(* For any number of connections and any scenarios: a permanent logout is  *)
(* final, the connections before the last hold no socket but in the two    *)
(* cases the code leaves one, a new login is told exactly after a pairing, *)
(* and a stop() that does not come before the socket leaves none.          *)
(*                                                                         *)
(* And of the tools over a client, for any calls, batches and files: what  *)
(* they believe of the client is what it is, a server that ends leaves no  *)
(* socket, each message is handed out once and in order, and a file that   *)
(* is saved is the one that was sent.                                      *)
(***************************************************************************)
EXTENDS McpServer, SequenceTheorems, WellFoundedInduction, TLAPS

-----------------------------------------------------------------------------
\* Types, of the client and of the parts of its connections.

Whole ==
  /\ scenario \in Scenarios
  /\ main \in {"top", "connecting", "handshaking", "waiting", "sleeping", "ended"}
  /\ stopper \in {"idle", "too_soon", "closing", "done"}
  /\ {running, me, known, new_login, paired} \subseteq BOOLEAN
  /\ n \in 0..MaxConns
  /\ told \in {"none", "connecting", "open", "close"}
  /\ flagged \subseteq BOOLEAN \X BOOLEAN

Parts ==
  /\ ws \in [Conns -> {"none", "opening", "open", "lost", "closing", "gone"}]
  /\ state \in [Conns -> {"closed", "connecting", "open"}]
  /\ closed \in [Conns -> BOOLEAN] /\ reason \in [Conns -> Reasons]
  /\ reader \in [Conns -> {"none", "reading", "handling", "pairing", "greeting", "failing",
                           "emitting", "ended"}]
  /\ cancelled \in [Conns -> BOOLEAN]
  /\ keepalive \in [Conns -> {"none", "asleep", "sending", "ended"}]
  /\ phase \in [Conns -> {"none", "pair", "paired", "login", "refuse", "online", "over"}]

Bounds ==
  \A c \in Conns :
    /\ c > n => ws[c] = "none" /\ reader[c] = "none" /\ keepalive[c] = "none"
    /\ cancelled[c] => reader[c] \notin {"none", "ended"}

LEMMA TypesSplit == TypeOK <=> Whole /\ Parts /\ Bounds
BY DEF TypeOK, Whole, Parts, Bounds

\* What the end of close() does to its connection.
LEMMA Finished ==
  ASSUME Parts, NEW c \in Conns, FinishClose(c)
  PROVE  /\ ws' \in [Conns -> {"none", "opening", "open", "lost", "closing", "gone"}]
         /\ state' \in [Conns -> {"closed", "connecting", "open"}]
         /\ closed' \in [Conns -> BOOLEAN] /\ cancelled' \in [Conns -> BOOLEAN]
         /\ ws'[c] = AfterClose(ws[c]) /\ closed'[c] = TRUE
         /\ cancelled'[c] = (reader[c] \notin {"none", "ended"})
         /\ \A d \in Conns \ {c} :
              /\ ws'[d] = ws[d] /\ closed'[d] = closed[d] /\ cancelled'[d] = cancelled[d]
<1>1. AfterClose(ws[c]) \in {"none", "opening", "open", "lost", "closing", "gone"}
  BY DEF AfterClose, Parts
<1>2. Cancellable(c) \in BOOLEAN /\ Cancellable(c) = (reader[c] \notin {"none", "ended"})
  BY DEF Cancellable
<1>3. /\ ws' = [ws EXCEPT ![c] = AfterClose(ws[c])]
      /\ cancelled' = [cancelled EXCEPT ![c] = Cancellable(c)]
      /\ state' = [state EXCEPT ![c] = "closed"]
      /\ closed' = [closed EXCEPT ![c] = TRUE]
  BY DEF FinishClose
<1>4. /\ ws' \in [Conns -> {"none", "opening", "open", "lost", "closing", "gone"}]
      /\ ws'[c] = AfterClose(ws[c]) /\ \A d \in Conns \ {c} : ws'[d] = ws[d]
  BY <1>1, <1>3 DEF Parts
<1>5. /\ cancelled' \in [Conns -> BOOLEAN] /\ cancelled'[c] = Cancellable(c)
      /\ \A d \in Conns \ {c} : cancelled'[d] = cancelled[d]
  BY <1>2, <1>3 DEF Parts
<1>6. state' \in [Conns -> {"closed", "connecting", "open"}] BY <1>3 DEF Parts
<1>7. /\ closed' \in [Conns -> BOOLEAN] /\ closed'[c] = TRUE
      /\ \A d \in Conns \ {c} : closed'[d] = closed[d]
  BY <1>3 DEF Parts
<1>. QED BY <1>2, <1>4, <1>5, <1>6, <1>7

\* What the end of the read loop does to its connection.
LEMMA LoopEnded ==
  ASSUME Parts, NEW c \in Conns, NEW cut \in BOOLEAN, ReadLoopEnds(c, cut)
  PROVE  /\ state' \in [Conns -> {"closed", "connecting", "open"}]
         /\ closed' \in [Conns -> BOOLEAN] /\ reason' \in [Conns -> Reasons]
         /\ reader' \in [Conns -> {"none", "reading", "handling", "pairing", "greeting",
                                   "failing", "emitting", "ended"}]
         /\ cancelled' \in [Conns -> BOOLEAN] /\ told' = "close"
         /\ closed'[c] = TRUE /\ cancelled'[c] = FALSE
         /\ reader'[c] \in {"emitting", "ended"} /\ (~cut => reader'[c] = "emitting")
         /\ reason[c] # "none" => reason'[c] = reason[c]
         /\ reason'[c] = "logged_out" => reason[c] = "logged_out"
         /\ \A d \in Conns \ {c} :
              /\ closed'[d] = closed[d] /\ cancelled'[d] = cancelled[d]
              /\ reader'[d] = reader[d] /\ reason'[d] = reason[d]
<1>. DEFINE r == Default(reason[c])
            e == IF cut THEN "ended" ELSE "emitting"
<1>1. /\ r \in Reasons /\ (reason[c] # "none" => r = reason[c])
      /\ (r = "logged_out" => reason[c] = "logged_out")
  BY DEF Default, Reasons, Parts
<1>2. e \in {"emitting", "ended"} /\ (~cut => e = "emitting") OBVIOUS
<1>3. /\ reason' = [reason EXCEPT ![c] = r] /\ reader' = [reader EXCEPT ![c] = e]
      /\ state' = [state EXCEPT ![c] = "closed"]
      /\ closed' = [closed EXCEPT ![c] = TRUE]
      /\ cancelled' = [cancelled EXCEPT ![c] = FALSE]
      /\ told' = "close"
  BY DEF ReadLoopEnds, Told
<1>. HIDE DEF r, e
<1>4. /\ reason' \in [Conns -> Reasons] /\ reason'[c] = r
      /\ \A d \in Conns \ {c} : reason'[d] = reason[d]
  BY <1>1, <1>3 DEF Parts
<1>5. /\ reader' \in [Conns -> {"none", "reading", "handling", "pairing", "greeting",
                                "failing", "emitting", "ended"}]
      /\ reader'[c] = e /\ \A d \in Conns \ {c} : reader'[d] = reader[d]
  BY <1>2, <1>3 DEF Parts
<1>6. state' \in [Conns -> {"closed", "connecting", "open"}] BY <1>3 DEF Parts
<1>7. /\ closed' \in [Conns -> BOOLEAN] /\ closed'[c] = TRUE
      /\ \A d \in Conns \ {c} : closed'[d] = closed[d]
  BY <1>3 DEF Parts
<1>8. /\ cancelled' \in [Conns -> BOOLEAN] /\ cancelled'[c] = FALSE
      /\ \A d \in Conns \ {c} : cancelled'[d] = cancelled[d]
  BY <1>3 DEF Parts
<1>. QED BY <1>1, <1>2, <1>3, <1>4, <1>5, <1>6, <1>7, <1>8

LEMMA InitTyped == Init => TypeOK
<1>. SUFFICES ASSUME Init PROVE TypeOK
  OBVIOUS
<1>1. MaxConns \in Nat \ {0} BY ClientAssumption
<1>2. n \in 0..MaxConns BY <1>1 DEF Init
<1>5. Whole BY <1>2 DEF Init, Whole
<1>3. Parts BY <1>1 DEF Init, Parts, Reasons
<1>4. Bounds BY DEF Init, Bounds
<1>. QED BY <1>3, <1>4, <1>5, TypesSplit

\* start() makes another connection.
LEMMA ConnectsTyped ==
  ASSUME TypeOK, Connects, running' \in BOOLEAN, UNCHANGED <<scenario, stopper, creds, paired, flagged>>
  PROVE  TypeOK'
<1>. USE DEF conn, creds, history, supervisor
<1>0. /\ MaxConns \in Nat \ {0} /\ scenario.conns \in 1..MaxConns /\ n \in 0..MaxConns
      /\ Whole /\ Parts /\ Bounds
  BY ClientAssumption, TypesSplit DEF Scenario, TypeOK
<1>1. n + 1 \in Conns /\ n' = n + 1 /\ n' \in 0..MaxConns /\ main' = "connecting"
  BY <1>0 DEF Connects, Conns
<1>2. /\ ws' = [ws EXCEPT ![n + 1] = "opening"]
      /\ state' = [state EXCEPT ![n + 1] = "connecting"]
      /\ told' = "connecting"
      /\ UNCHANGED <<closed, reason, reader, cancelled, keepalive, phase>>
  BY DEF Connects
<1>3. Whole' BY <1>0, <1>1, <1>2 DEF Whole
<1>4. Parts' BY <1>0, <1>1, <1>2 DEF Parts
<1>5. \A c \in Conns : c > n' => c > n /\ c # n + 1 BY <1>0, <1>1 DEF Conns
<1>6. \A c \in Conns : c > n' => ws'[c] = ws[c] BY <1>0, <1>2, <1>5 DEF Parts
<1>7. Bounds' BY <1>0, <1>2, <1>5, <1>6 DEF Bounds
<1>. QED BY <1>3, <1>4, <1>7 DEF TypeOK, Whole, Parts, Bounds

\* The loop of start() makes another connection, or ends.
LEMMA LoopTyped ==
  ASSUME TypeOK, Loop, UNCHANGED <<scenario, stopper, creds, paired, flagged>>
  PROVE  TypeOK'
<1>. USE DEF conn, creds, history, supervisor
<1>1. CASE running
  <2>1. Connects /\ running' \in BOOLEAN BY <1>1 DEF Loop, GoesOn, TypeOK
  <2>. QED BY <2>1, ConnectsTyped
<1>2. CASE ~running
  <2>1. main' = "ended" /\ UNCHANGED <<n, running, conn, told>>
    BY <1>2 DEF Loop, GoesOn
  <2>. QED BY <2>1 DEF TypeOK
<1>. QED BY <1>1, <1>2

LEMMA EndTyped ==
  ASSUME TypeOK, NEW c \in Conns, ReadLoopEnds(c, FALSE), reader[c] # "none",
         UNCHANGED <<supervisor, creds, ws, keepalive, phase, paired, flagged>>
  PROVE  TypeOK'
<1>. USE DEF conn, creds, history, supervisor
<1>0. Whole /\ Parts /\ Bounds BY TypesSplit
<1>1. Whole' BY <1>0, LoopEnded DEF Whole
<1>2. Parts' BY <1>0, LoopEnded DEF Parts
<1>3. /\ reader'[c] # "none" /\ cancelled'[c] = FALSE 
      /\ \A d \in Conns \ {c} : reader'[d] = reader[d] /\ cancelled'[d] = cancelled[d]
  BY <1>0, LoopEnded
<1>4. Bounds' BY <1>0, <1>3 DEF Bounds
<1>. QED BY <1>1, <1>2, <1>4 DEF TypeOK, Whole, Parts, Bounds

LEMMA StepTyped == TypeOK /\ [Next]_vars => TypeOK'
<1>. SUFFICES ASSUME TypeOK, [Next]_vars PROVE TypeOK'
  OBVIOUS
<1>. USE DEF conn, creds, history, supervisor
<1>0. Whole /\ Parts /\ Bounds /\ MaxConns \in Nat \ {0} /\ n \in Nat
  BY ClientAssumption, TypesSplit DEF Whole
<1>a. ASSUME Whole', Parts', Bounds' PROVE TypeOK'
  BY <1>a DEF TypeOK, Whole, Parts, Bounds
<1>1. CASE Start BY <1>1, ConnectsTyped DEF Start
<1>2. CASE Opened
  <2>1. Whole' BY <1>0, <1>2 DEF Opened, Whole
  <2>2. Parts' BY <1>0, <1>2 DEF Opened, Parts
  <2>3. Bounds' BY <1>0, <1>2 DEF Opened, Parts, Bounds, Conns
  <2>. QED BY <1>a, <2>1, <2>2, <2>3
<1>3. CASE Connected
  <2>1. Whole' BY <1>0, <1>3 DEF Connected, Whole
  <2>2. Parts' BY <1>0, <1>3 DEF Connected, Parts
  <2>3. Bounds' BY <1>0, <1>3 DEF Connected, Parts, Bounds, Conns
  <2>. QED BY <1>a, <2>1, <2>2, <2>3
<1>4. CASE ConnectFails
  <2>1. Whole' BY <1>0, <1>4 DEF ConnectFails, Whole
  <2>2. Parts' BY <1>0, <1>4 DEF ConnectFails, Parts
  <2>3. Bounds' BY <1>0, <1>4 DEF ConnectFails, Parts, Bounds, Conns
  <2>. QED BY <1>a, <2>1, <2>2, <2>3
<1>5. CASE WaitReturns
  <2>1. CASE Loop BY <1>5, <2>1, LoopTyped DEF WaitReturns
  <2>2. CASE ~Loop
    <3>1. Whole' BY <1>0, <1>5, <2>2 DEF WaitReturns, Whole
    <3>2. UNCHANGED <<n, conn>> BY <1>5, <2>2 DEF WaitReturns
    <3>3. Parts' /\ Bounds' BY <1>0, <3>2 DEF Parts, Bounds
    <3>. QED BY <1>a, <3>1, <3>3
  <2>. QED BY <2>1, <2>2
<1>6. CASE Wake BY <1>6, LoopTyped DEF Wake
<1>7. CASE Stop
  <2>1. Whole' BY <1>0, <1>7 DEF Stop, FinishClose, Whole
  <2>2. CASE n = 0
    <3>1. UNCHANGED <<n, conn>> BY <1>7, <2>2 DEF Stop
    <3>. QED BY <1>0, <1>a, <2>1, <3>1 DEF Parts, Bounds
  <2>3. CASE n # 0
    <3>1. n \in Conns BY <1>0, <2>3 DEF Whole, Conns
    <3>2. /\ Default(reason[n]) \in Reasons
          /\ EndKeepalive(keepalive[n]) \in {"none", "ended"}
          /\ keepalive[n] = "none" => EndKeepalive(keepalive[n]) = "none"
      BY <1>0, <3>1 DEF Default, EndKeepalive, Parts, Reasons
    <3>3. /\ reason' = [reason EXCEPT ![n] = Default(reason[n])]
          /\ keepalive' = [keepalive EXCEPT ![n] = EndKeepalive(keepalive[n])]
          /\ UNCHANGED <<reader, phase, n>>
      BY <1>7, <2>3 DEF Stop
    <3>4. reason' \in [Conns -> Reasons] BY <1>0, <3>2, <3>3 DEF Parts
    <3>5. /\ keepalive' \in [Conns -> {"none", "asleep", "sending", "ended"}]
          /\ \A d \in Conns : keepalive[d] = "none" => keepalive'[d] = "none"
      BY <1>0, <3>1, <3>2, <3>3 DEF Parts
    <3>6. CASE HasSocket(n)
      <4>1. ws' = [ws EXCEPT ![n] = "closing"] /\ UNCHANGED <<cancelled, state, closed>>
        BY <1>7, <2>3, <3>6 DEF Stop
      <4>2. Parts' BY <1>0, <3>3, <3>4, <3>5, <4>1 DEF Parts
      <4>3. \A d \in Conns : d > n => d # n /\ ws'[d] = ws[d] BY <1>0, <4>1 DEF Parts, Conns
      <4>4. Bounds' BY <1>0, <3>3, <3>5, <4>1, <4>3 DEF Bounds
      <4>. QED BY <1>a, <2>1, <4>2, <4>4
    <3>7. CASE ~HasSocket(n)
      <4>1. FinishClose(n) BY <1>7, <2>3, <3>7 DEF Stop
      <4>2. Parts' BY <1>0, <3>1, <3>3, <3>4, <3>5, <4>1, Finished DEF Parts
      <4>3. \A d \in Conns : d > n => d # n BY <1>0 DEF Conns
      <4>5. /\ ws'[n] = AfterClose(ws[n]) /\ cancelled'[n] = (reader[n] \notin {"none", "ended"})
            /\ \A d \in Conns \ {n} : ws'[d] = ws[d] /\ cancelled'[d] = cancelled[d]
        BY <1>0, <3>1, <4>1, Finished
      <4>4. Bounds' BY <1>0, <3>1, <3>3, <3>5, <4>3, <4>5 DEF Bounds
      <4>. QED BY <1>a, <2>1, <4>2, <4>4
    <3>. QED BY <3>6, <3>7
  <2>. QED BY <2>2, <2>3
<1>8. CASE StopFinishes
  <2>1. Whole' BY <1>0, <1>8 DEF StopFinishes, Whole
  <2>2. FinishClose(n) /\ UNCHANGED <<n, reason, reader, keepalive, phase>>
    BY <1>8 DEF StopFinishes
  <2>3. CASE n \in Conns
    <3>1. Parts' BY <1>0, <2>2, <2>3, Finished DEF Parts
    <3>2. \A d \in Conns : d > n => d # n BY <1>0 DEF Conns
    <3>4. /\ ws'[n] = AfterClose(ws[n]) /\ cancelled'[n] = (reader[n] \notin {"none", "ended"})
          /\ \A d \in Conns \ {n} : ws'[d] = ws[d] /\ cancelled'[d] = cancelled[d]
      BY <1>0, <2>2, <2>3, Finished
    <3>3. Bounds' BY <1>0, <2>2, <2>3, <3>2, <3>4 DEF Bounds
    <3>. QED BY <1>a, <2>1, <3>1, <3>3
  <2>4. CASE n \notin Conns
    <3>1. UNCHANGED <<ws, cancelled, state, closed>>
      BY <1>0, <2>2, <2>4 DEF FinishClose, Parts
    <3>. QED BY <1>0, <1>a, <2>1, <2>2, <3>1 DEF Parts, Bounds
  <2>. QED BY <2>3, <2>4
<1>9. ASSUME NEW c \in Conns,
             Frame(c) \/ Handled(c) \/ PairFinishes(c) \/ Greeted(c) \/ EmitDone(c)
      PROVE  TypeOK'
  <2>1. Whole'
    <3>1. CASE Greeted(c)
      <4>1. <<paired, new_login>> \in BOOLEAN \X BOOLEAN BY <1>0 DEF Whole
      <4>2. (flagged \subseteq BOOLEAN \X BOOLEAN)' BY <1>0, <3>1, <4>1 DEF Greeted, Whole
      <4>. QED BY <1>0, <3>1, <4>2 DEF Greeted, AfterLogin, Whole
    <3>2. CASE Frame(c) \/ Handled(c) \/ PairFinishes(c) \/ EmitDone(c)
      BY <1>0, <3>2 DEF Frame, Handled, PairFinishes, EmitDone, Whole
    <3>. QED BY <1>9, <3>1, <3>2
  <2>2. Parts' BY <1>0, <1>9 DEF Frame, Handled, PairFinishes, Greeted, EmitDone, GoTo, Parts
  <2>3. Bounds'
    BY <1>0, <1>9 DEF Frame, Handled, PairFinishes, Greeted, EmitDone, GoTo, Reading,
                      Suspended, Parts, Bounds
  <2>. QED BY <1>a, <2>1, <2>2, <2>3
<1>10. ASSUME NEW c \in Conns, HandlerRaises(c) \/ StreamEnds(c) PROVE TypeOK'
  <2>1. /\ ReadLoopEnds(c, FALSE) /\ reader[c] # "none"
        /\ UNCHANGED <<supervisor, creds, ws, keepalive, phase, paired, flagged>>
    BY <1>10 DEF HandlerRaises, StreamEnds, Suspended, Reading
  <2>. QED BY <1>0, <1>a, <2>1, EndTyped
<1>11. ASSUME NEW c \in Conns, ReaderCancelled(c) PROVE TypeOK'
  <2>1. reader[c] # "none" /\ UNCHANGED <<supervisor, creds, ws, keepalive, phase, paired, flagged>>
    BY <1>0, <1>11 DEF ReaderCancelled, Bounds
  <2>2. CASE reader[c] = "emitting"
    <3>1. /\ reader' = [reader EXCEPT ![c] = "ended"]
          /\ cancelled' = [cancelled EXCEPT ![c] = FALSE]
          /\ UNCHANGED <<state, closed, reason, told>>
      BY <1>11, <2>2 DEF ReaderCancelled, GoTo
    <3>2. Whole' BY <1>0, <2>1, <3>1 DEF Whole
    <3>3. Parts' BY <1>0, <2>1, <3>1 DEF Parts
    <3>4. Bounds' BY <1>0, <2>1, <3>1 DEF Parts, Bounds
    <3>. QED BY <1>a, <3>2, <3>3, <3>4
  <2>3. CASE reader[c] # "emitting"
    BY <1>0, <1>11, <2>1, <2>3, EndTyped DEF ReaderCancelled
  <2>. QED BY <2>2, <2>3
<1>12. ASSUME NEW c \in Conns, PairSuccess(c) PROVE TypeOK'
  <2>1. /\ me' = TRUE /\ phase' = [phase EXCEPT ![c] = "paired"]
        /\ reader[c] = "reading" /\ UNCHANGED <<supervisor, new_login, ws, keepalive, flagged>>
    BY <1>12 DEF PairSuccess, Reading
  <2>2. CASE ws[c] = "open"
    <3>1. /\ known' = TRUE /\ paired' = TRUE /\ reader' = [reader EXCEPT ![c] = "pairing"]
          /\ UNCHANGED <<state, closed, reason, cancelled, told>>
      BY <1>12, <2>2 DEF PairSuccess, GoTo
    <3>2. Whole' BY <1>0, <2>1, <3>1 DEF Whole
    <3>3. Parts' BY <1>0, <2>1, <3>1 DEF Parts
    <3>4. Bounds' BY <1>0, <2>1, <3>1 DEF Parts, Bounds
    <3>. QED BY <1>a, <3>2, <3>3, <3>4
  <2>3. CASE ws[c] # "open"
    <3>1. ReadLoopEnds(c, FALSE) /\ UNCHANGED <<known, paired>> BY <1>12, <2>3 DEF PairSuccess
    <3>2. Whole' BY <1>0, <2>1, <3>1, LoopEnded DEF Whole
    <3>3. phase' \in [Conns -> {"none", "pair", "paired", "login", "refuse", "online", "over"}]
      BY <1>0, <2>1 DEF Parts
    <3>4. Parts' BY <1>0, <2>1, <3>1, <3>3, LoopEnded DEF Parts
    <3>5. Bounds' BY <1>0, <2>1, <3>1, LoopEnded DEF Bounds
    <3>. QED BY <1>a, <3>2, <3>4, <3>5
  <2>. QED BY <2>2, <2>3
<1>13. ASSUME NEW c \in Conns, Success(c) PROVE TypeOK'
  <2>1. Whole' BY <1>0, <1>13 DEF Success, Whole
  <2>2. Parts' BY <1>0, <1>13 DEF Success, GoTo, Parts
  <2>3. Bounds' BY <1>0, <1>13 DEF Success, GoTo, Reading, Parts, Bounds
  <2>. QED BY <1>a, <2>1, <2>2, <2>3
<1>14. ASSUME NEW c \in Conns, NEW r \in Reasons, Fail(c, r) PROVE TypeOK'
  <2>1. Whole' BY <1>0, <1>14 DEF Fail, Whole
  <2>2. Parts' BY <1>0, <1>14 DEF Fail, GoTo, EndKeepalive, Parts
  <2>3. Bounds' BY <1>0, <1>14 DEF Fail, GoTo, Reading, EndKeepalive, Parts, Bounds
  <2>. QED BY <1>a, <2>1, <2>2, <2>3
<1>15. ASSUME NEW c \in Conns, FailFinishes(c) PROVE TypeOK'
  <2>1. /\ reader[c] = "failing" /\ ws' = [ws EXCEPT ![c] = AfterClose(ws[c])]
        /\ UNCHANGED <<supervisor, creds, keepalive, phase, paired, flagged>>
    BY <1>15 DEF FailFinishes, Suspended
  <2>2. /\ ws' \in [Conns -> {"none", "opening", "open", "lost", "closing", "gone"}]
        /\ \A d \in Conns \ {c} : ws'[d] = ws[d]
    BY <1>0, <2>1 DEF AfterClose, Parts
  <2>3. CASE ReadLoopEnds(c, TRUE)
    <3>1. Whole' BY <1>0, <2>1, <2>3, LoopEnded DEF Whole
    <3>2. Parts' BY <1>0, <2>1, <2>2, <2>3, LoopEnded DEF Parts
    <3>4. /\ reader'[c] # "none" /\ cancelled'[c] = FALSE
          /\ \A d \in Conns \ {c} : reader'[d] = reader[d] /\ cancelled'[d] = cancelled[d]
      BY <1>0, <2>3, LoopEnded
    <3>5. c \in Conns /\ ~(c > n) BY <1>0, <2>1 DEF Bounds
    <3>3. Bounds' BY <1>0, <2>1, <2>2, <3>4, <3>5 DEF Bounds
    <3>. QED BY <1>a, <3>1, <3>2, <3>3
  <2>4. CASE ~ReadLoopEnds(c, TRUE)
    <3>1. /\ reader' = [reader EXCEPT ![c] = "reading"]
          /\ cancelled' = [cancelled EXCEPT ![c] = TRUE]
          /\ state' = [state EXCEPT ![c] = "closed"]
          /\ closed' = [closed EXCEPT ![c] = TRUE]
          /\ UNCHANGED <<reason, told>>
      BY <1>15, <2>4 DEF FailFinishes, GoTo
    <3>2. Whole' BY <1>0, <2>1, <3>1 DEF Whole
    <3>3. Parts' BY <1>0, <2>1, <2>2, <3>1 DEF Parts
    <3>4. Bounds' BY <1>0, <2>1, <2>2, <3>1 DEF Parts, Bounds
    <3>. QED BY <1>a, <3>2, <3>3, <3>4
  <2>. QED BY <2>3, <2>4
<1>16. ASSUME NEW c \in Conns, KeepaliveStep(c) PROVE TypeOK'
  <2>1. UNCHANGED <<supervisor, creds, reader, phase, history>>
    BY <1>16 DEF KeepaliveStep, KeepaliveWakes, PingSent, PingFails
  <2>2. Whole' BY <1>0, <2>1 DEF Whole
  <2>3. /\ keepalive[c] # "none"
        /\ \E k \in {"asleep", "sending", "ended"} : keepalive' = [keepalive EXCEPT ![c] = k]
    BY <1>16 DEF KeepaliveStep, KeepaliveWakes, PingSent, PingFails
  <2>4. /\ keepalive' \in [Conns -> {"none", "asleep", "sending", "ended"}]
        /\ \A d \in Conns : keepalive[d] = "none" => keepalive'[d] = "none"
    BY <1>0, <2>3 DEF Parts
  <2>5. reason' \in [Conns -> Reasons]
    BY <1>0, <1>16 DEF KeepaliveStep, KeepaliveWakes, PingSent, PingFails, Parts, Reasons
  <2>6. CASE UNCHANGED <<ws, cancelled, state, closed>>
    BY <1>0, <1>a, <2>1, <2>2, <2>4, <2>5, <2>6 DEF Parts, Bounds
  <2>7. CASE FinishClose(c)
    <3>1. Parts' BY <1>0, <2>1, <2>4, <2>5, <2>7, Finished DEF Parts
    <3>3. /\ ws'[c] = AfterClose(ws[c]) /\ cancelled'[c] = (reader[c] \notin {"none", "ended"})
          /\ \A d \in Conns \ {c} : ws'[d] = ws[d] /\ cancelled'[d] = cancelled[d]
      BY <1>0, <2>7, Finished
    <3>4. c \in Conns /\ ~(c > n) BY <1>0, <2>3 DEF Bounds
    <3>2. Bounds' BY <1>0, <2>1, <2>4, <3>3, <3>4 DEF Bounds
    <3>. QED BY <1>a, <2>2, <3>1, <3>2
  <2>. QED BY <1>16, <2>6, <2>7 DEF KeepaliveStep, KeepaliveWakes, PingSent, PingFails
<1>17. ASSUME NEW c \in Conns, Drop(c) PROVE TypeOK'
  <2>1. Whole' BY <1>0, <1>17 DEF Drop, Whole
  <2>2. Parts' BY <1>0, <1>17 DEF Drop, Parts
  <2>3. Bounds' BY <1>0, <1>17 DEF Drop, Parts, Bounds
  <2>. QED BY <1>a, <2>1, <2>2, <2>3
<1>18. CASE UNCHANGED vars BY <1>18 DEF vars, TypeOK
<1>. QED
  BY <1>1, <1>2, <1>3, <1>4, <1>5, <1>6, <1>7, <1>8, <1>9, <1>10, <1>11, <1>12, <1>13,
     <1>14, <1>15, <1>16, <1>17, <1>18 DEF Next, ReaderStep

\* Every codeword is in its set.
THEOREM ClientTyped == Spec => []TypeOK
<1>. QED BY InitTyped, StepTyped, PTL DEF Spec

-----------------------------------------------------------------------------
\* The life of a connection.

\* Nothing more comes of a reader that has ended, or that a cancellation ends first.
Quiet(c) == reader[c] \in {"none", "emitting", "ended"} \/ cancelled[c]

\* A connection the supervisor has left or is about to leave.
Left(c) == c < n \/ (c = n /\ main = "sleeping") \/ (c = n /\ running /\ closed[c])

\* No socket, or one of the two kinds the code forgets.
Dead(c) ==
  \/ ws[c] \in {"none", "lost", "gone"}
  \/ "handshake_rejected" \in scenario.faults /\ reader[c] = "none"
  \/ "handler_raises" \in scenario.faults /\ reader[c] \in {"emitting", "ended"}

\* How the parts of a connection go together: the socket opens before there is a reader,
\* a cancelled reader has no socket, a keepalive lives while the login holds, and only
\* this side's own failure or a stop() closes a socket.
Whence(c) ==
  /\ c > n => phase[c] = "none" /\ ~closed[c] /\ reason[c] = "none"
  /\ ws[c] = "opening" <=> c = n /\ main = "connecting"
  /\ c = n /\ main \in {"connecting", "handshaking"} =>
       reader[c] = "none" /\ (running => ~closed[c])
  /\ c = n /\ main = "handshaking" => ws[c] # "none"
  /\ reader[c] # "none" => ws[c] \in {"open", "lost", "closing", "gone"}
  /\ reader[c] = "none" => phase[c] = "none" /\ keepalive[c] = "none"
  /\ cancelled[c] => ws[c] = "gone"
  /\ keepalive[c] \in {"asleep", "sending"} => phase[c] = "online"
  /\ reader[c] = "pairing" => phase[c] = "paired"
  /\ reader[c] = "failing" => phase[c] = "over" /\ ws[c] \in {"closing", "gone"}
  /\ ws[c] = "closing" => reader[c] = "failing" \/ ~running
  /\ reason[c] = "logged_out" => phase[c] = "over"

\* What became of it when the supervisor goes on to another.
Whither(c) ==
  /\ Left(c) => Quiet(c)
  /\ Left(c) /\ (c = n => running) => Dead(c)
  /\ reason[c] = "logged_out" => ~running \/ (c = n /\ main = "waiting")

Life(c) == Whence(c) /\ Whither(c)

\* A stop() that came after start() had begun.
Stopping == stopper \in {"closing", "done"}

Stages ==
  /\ main = "top" => n = 0 /\ ~running /\ ~Stopping
  /\ main \in {"connecting", "handshaking", "waiting", "sleeping"} => n > 0
  /\ main = "ended" \/ Stopping => ~running

LifeInv == TypeOK /\ Stages /\ \A c \in Conns : Life(c)

LEMMA InitLife == Init => LifeInv
<1>. SUFFICES ASSUME Init PROVE LifeInv
  OBVIOUS
<1>1. TypeOK BY InitTyped
<1>2. Stages BY DEF Init, Stages, Stopping
<1>3. \A c \in Conns : c # 0 /\ ~(c < 0) BY DEF Conns
<1>4. ASSUME NEW c \in Conns PROVE Life(c)
  BY <1>3, <1>4 DEF Init, Life, Whence, Whither, Left, Quiet, Dead
<1>. QED BY <1>1, <1>2, <1>4 DEF LifeInv

\* A step that leaves a connection alone.
Same(c) ==
  /\ ws'[c] = ws[c] /\ closed'[c] = closed[c] /\ reason'[c] = reason[c]
  /\ reader'[c] = reader[c] /\ cancelled'[c] = cancelled[c]
  /\ keepalive'[c] = keepalive[c] /\ phase'[c] = phase[c]

LEMMA Kept ==
  ASSUME NEW c \in Conns, Life(c), Same(c), UNCHANGED <<scenario, main, n>>,
         running' => running
  PROVE  Life(c)'
BY DEF Same, Life, Whence, Whither, Left, Quiet, Dead

\* start() with another connection, from a place where there is none or the last is left.
LEMMA ConnectsLife ==
  ASSUME LifeInv, Connects, running', UNCHANGED scenario, UNCHANGED stopper,
         ~Stopping, running \/ n = 0, main # "connecting", TypeOK',
         \A c \in Conns : c = n => Left(c) /\ reason[c] # "logged_out"
  PROVE  LifeInv'
<1>0. TypeOK /\ Stages /\ \A c \in Conns : Life(c) BY DEF LifeInv
<1>1. Parts /\ Bounds /\ n \in Nat /\ MaxConns \in Nat
  <2>1. Whole /\ Parts /\ Bounds BY <1>0, TypesSplit
  <2>2. n \in 0..MaxConns BY <2>1 DEF Whole
  <2>. QED BY <2>1, <2>2, ClientAssumption
<1>2. /\ n' = n + 1 /\ main' = "connecting" /\ ws' = [ws EXCEPT ![n + 1] = "opening"]
      /\ UNCHANGED <<closed, reason, reader, cancelled, keepalive, phase>>
  BY DEF Connects
<1>3. Stages' BY <1>1, <1>2 DEF Stages, Stopping
<1>4. ASSUME NEW c \in Conns
      PROVE  /\ ws[c] = "closing" => reader[c] = "failing"
             /\ reason[c] # "logged_out"
             /\ Left(c) => Dead(c)
  <2>1. CASE running BY <1>0, <2>1 DEF Life, Whence, Whither
  <2>2. CASE n = 0
    <3>1. c > n BY <2>2 DEF Conns
    <3>. QED BY <1>0, <1>1, <3>1 DEF Bounds, Life, Whence, Dead
  <2>. QED BY <2>1, <2>2
<1>5. ASSUME NEW c \in Conns PROVE Life(c)'
  <2>1. c \in Nat BY <1>1 DEF Conns
  <2>2. CASE c = n + 1
    <3>1. /\ c > n /\ c = n' /\ ws'[c] = "opening"
      BY <1>1, <1>2, <2>1, <2>2 DEF Parts
    <3>2. reader[c] = "none" /\ keepalive[c] = "none" /\ ~cancelled[c]
      BY <1>0, <3>1 DEF TypeOK
    <3>3. phase[c] = "none" /\ ~closed[c] /\ reason[c] = "none"
      BY <1>0, <3>1 DEF Life, Whence
    <3>4. Whence(c)' BY <1>2, <3>1, <3>2, <3>3 DEF Whence
    <3>5. Whither(c)' BY <1>1, <1>2, <2>1, <2>2, <3>2, <3>3 DEF Whither, Left, Quiet
    <3>. QED BY <3>4, <3>5 DEF Life
  <2>3. CASE c # n + 1
    <3>1. ws'[c] = ws[c] BY <1>1, <1>2, <2>3 DEF Parts
    <3>2. c < n' => c < n \/ c = n BY <1>1, <1>2, <2>1
    <3>3. c > n' => c > n BY <1>1, <1>2, <2>1
    <3>4. c # n' BY <1>2, <2>3
    <3>5. ws[c] # "opening" BY <1>0 DEF Life, Whence
    <3>6. Whence(c)' BY <1>0, <1>2, <1>4, <3>1, <3>3, <3>4, <3>5 DEF Life, Whence
    <3>7. Left(c)' => Left(c) BY <1>2, <3>2, <3>4 DEF Left
    <3>8. Whither(c)'
      BY <1>0, <1>2, <1>4, <3>1, <3>7 DEF Life, Whither, Quiet, Dead
    <3>. QED BY <3>6, <3>8 DEF Life
  <2>. QED BY <2>2, <2>3
<1>. QED BY <1>3, <1>5 DEF LifeInv

\* The loop of start() with another connection, or the end, from a place where the last
\* connection is left.
LEMMA LoopLife ==
  ASSUME LifeInv, Loop, UNCHANGED scenario, UNCHANGED stopper,
         main # "connecting", TypeOK',
         running => \A c \in Conns : c = n => Left(c) /\ reason[c] # "logged_out"
  PROVE  LifeInv'
<1>0. TypeOK /\ Stages /\ \A c \in Conns : Life(c) BY DEF LifeInv
<1>2. CASE ~running
  <2>1. main' = "ended" /\ UNCHANGED <<n, ws, state, running, closed, reason, reader,
                                      cancelled, keepalive, phase>>
    BY <1>2 DEF Loop, GoesOn, conn
  <2>2. Stages' BY <1>2, <2>1 DEF Stages, Stopping
  <2>3. ASSUME NEW c \in Conns PROVE Life(c)'
    BY <1>0, <1>2, <2>1 DEF Life, Whence, Whither, Left, Quiet, Dead
  <2>. QED BY <2>2, <2>3 DEF LifeInv
<1>3. CASE running
  <2>1. Connects /\ running' /\ ~Stopping BY <1>0, <1>3 DEF Loop, GoesOn, Stages
  <2>. QED BY <1>3, <2>1, ConnectsLife
<1>. QED BY <1>0, <1>2, <1>3 DEF TypeOK

\* A step at one connection.
LEMMA StepAt ==
  ASSUME LifeInv, TypeOK', NEW c \in Conns, Life(c)', UNCHANGED supervisor,
         \A d \in Conns \ {c} : Same(d)
  PROVE  LifeInv'
<1>1. UNCHANGED <<scenario, main, running, stopper, n>> BY DEF supervisor
<1>2. Stages' BY <1>1 DEF LifeInv, Stages, Stopping
<1>3. ASSUME NEW d \in Conns, d # c PROVE Life(d)' BY <1>1, <1>3, Kept DEF LifeInv
<1>. QED BY <1>2, <1>3 DEF LifeInv

\* The read loop of c ends, and its last frame may have been the pairing.
LEMMA EndLife ==
  ASSUME LifeInv, TypeOK', NEW c \in Conns, NEW cut \in BOOLEAN, ReadLoopEnds(c, cut),
         reader[c] # "none", reader[c] = "failing" => ws[c] = "gone", UNCHANGED supervisor, UNCHANGED <<ws, keepalive>>,
         \A d \in Conns \ {c} : phase'[d] = phase[d],
         phase'[c] = phase[c] \/ (phase[c] = "pair" /\ phase'[c] = "paired"),
         \/ ws[c] \in {"lost", "gone"} \/ ~running
         \/ "handler_raises" \in scenario.faults
  PROVE  LifeInv'
<1>1. Parts /\ Life(c) /\ UNCHANGED <<scenario, main, running, stopper, n>>
  BY TypesSplit DEF LifeInv, supervisor
<1>2. /\ closed'[c] = TRUE /\ cancelled'[c] = FALSE
      /\ reader'[c] \in {"emitting", "ended"}
      /\ reason'[c] = "logged_out" => reason[c] = "logged_out"
      /\ \A d \in Conns \ {c} :
           /\ closed'[d] = closed[d] /\ cancelled'[d] = cancelled[d]
           /\ reader'[d] = reader[d] /\ reason'[d] = reason[d]
  BY <1>1, LoopEnded
<1>3. \A d \in Conns \ {c} : Same(d) BY <1>2 DEF Same
<1>4. ~(c > n) BY DEF LifeInv, TypeOK
<1>5. n \in Nat /\ c \in Nat
  <2>1. MaxConns \in Nat BY ClientAssumption
  <2>2. n \in 0..MaxConns BY DEF LifeInv, TypeOK
  <2>. QED BY <2>1, <2>2 DEF Conns
<1>6. Whence(c)' BY <1>1, <1>2, <1>4 DEF Life, Whence
<1>7. Whither(c)'
  <2>1. Quiet(c)' BY <1>2 DEF Quiet
  <2>2. c < n \/ c = n BY <1>4, <1>5
  <2>3. Left(c)' /\ (c = n => running) => Dead(c)' BY <1>1, <1>2, <2>2 DEF Left, Dead, Life, Whither
  <2>4. reason'[c] = "logged_out" => ~running \/ (c = n /\ main = "waiting")
    BY <1>1, <1>2 DEF Life, Whither
  <2>. QED BY <1>1, <2>1, <2>3, <2>4 DEF Whither
<1>. QED BY <1>3, <1>6, <1>7, StepAt DEF Life


\* close() ends at connection c: by stop(), or by the keepalive while running.
LEMMA CloseLife ==
  ASSUME LifeInv, TypeOK', NEW c \in Conns, FinishClose(c), c <= n,
         UNCHANGED <<scenario, main, n, reader, phase>>, running' => running,
         \A d \in Conns \ {c} : reason'[d] = reason[d] /\ keepalive'[d] = keepalive[d],
         reason'[c] = "logged_out" => reason[c] = "logged_out",
         keepalive'[c] \in {"asleep", "sending"} => keepalive[c] \in {"asleep", "sending"},
         reader[c] = "none" => keepalive'[c] = "none",
         reader[c] = "none" => ~running'
  PROVE  \A d \in Conns : Life(d)'
<1>1. Parts /\ Life(c) BY TypesSplit DEF LifeInv
<1>2. /\ ws'[c] = AfterClose(ws[c]) /\ closed'[c] = TRUE
      /\ cancelled'[c] = (reader[c] \notin {"none", "ended"})
      /\ \A d \in Conns \ {c} :
           /\ ws'[d] = ws[d] /\ closed'[d] = closed[d] /\ cancelled'[d] = cancelled[d]
  BY <1>1, Finished
<1>3. ASSUME NEW d \in Conns, d # c PROVE Life(d)'
  <2>1. Same(d) BY <1>2, <1>3 DEF Same
  <2>. QED BY <2>1, Kept DEF LifeInv
<1>4. n \in Nat /\ c \in Nat
  <2>1. MaxConns \in Nat BY ClientAssumption
  <2>2. n \in 0..MaxConns BY DEF LifeInv, TypeOK
  <2>. QED BY <2>1, <2>2 DEF Conns
<1>5. ~(c > n) /\ (c < n \/ c = n) BY <1>4
<1>6. reader[c] # "none" => ws[c] # "opening" BY <1>1 DEF Life, Whence
<1>7. ws'[c] = "opening" <=> ws[c] = "opening" BY <1>2 DEF AfterClose
<1>8. ws'[c] \in {"opening", "gone"} BY <1>2 DEF AfterClose
<1>9. Whence(c)' BY <1>1, <1>2, <1>5, <1>6, <1>7, <1>8 DEF Life, Whence
<1>10. Quiet(c)' BY <1>2 DEF Quiet
<1>11. Left(c)' /\ (c = n => running') => Dead(c)'
  <2>1. c < n \/ running' => ws'[c] = "gone"
    <3>1. CASE c < n
      <4>1. c # n BY <1>4, <3>1
      <4>2. ws[c] # "opening" BY <1>1, <4>1 DEF Life, Whence
      <4>. QED BY <1>7, <1>8, <4>2
    <3>2. CASE running' BY <1>6, <1>7, <1>8, <3>2
    <3>. QED BY <3>1, <3>2
  <2>. QED BY <1>5, <2>1 DEF Dead
<1>12. Whither(c)' BY <1>1, <1>10, <1>11 DEF Life, Whither
<1>. QED BY <1>3, <1>9, <1>12 DEF Life

LEMMA StepLife == LifeInv /\ [Next]_vars => LifeInv'
<1>. SUFFICES ASSUME LifeInv, [Next]_vars PROVE LifeInv'
  OBVIOUS
<1>0. /\ TypeOK /\ TypeOK' /\ Stages /\ Whole /\ Parts /\ Bounds
      /\ \A c \in Conns : Life(c)
  BY StepTyped, TypesSplit DEF LifeInv
<1>a. MaxConns \in Nat /\ n \in Nat /\ \A c \in Conns : c \in Nat /\ c # 0
  <2>1. MaxConns \in Nat BY ClientAssumption
  <2>2. n \in 0..MaxConns BY <1>0 DEF Whole
  <2>. QED BY <2>1, <2>2 DEF Conns
<1>1. CASE Start
  <2>1. /\ main = "top" /\ n = 0 /\ ~Stopping /\ running' /\ Connects
        /\ UNCHANGED scenario /\ UNCHANGED stopper
    <3>1. main = "top" /\ n = 0 /\ ~Stopping BY <1>0, <1>1 DEF Start, Stages
    <3>. QED BY <1>0, <1>1, <3>1 DEF Start, Stages
  <2>2. \A c \in Conns : c # n BY <1>a, <2>1
  <2>. QED BY <1>0, <2>1, <2>2, ConnectsLife
<1>2. CASE Opened
  <2>1. /\ main = "connecting" /\ main' = "handshaking"
        /\ \A c \in Conns : ~cancelled[c]
        /\ ws' = [ws EXCEPT ![n] = "open"]
        /\ UNCHANGED <<scenario, running, stopper, n, state, closed, reason, reader,
                       cancelled, keepalive, phase>>
    BY <1>2 DEF Opened
  <2>2. Stages' BY <1>0, <2>1 DEF Stages, Stopping
  <2>3. ASSUME NEW c \in Conns PROVE Life(c)'
    <3>1. CASE c = n
      <4>1. ws'[c] = "open" BY <1>0, <2>1, <3>1 DEF Parts
      <4>2. reader[c] = "none" /\ keepalive[c] = "none" /\ reason[c] # "logged_out"
            /\ (running => ~closed[c])
        BY <1>0, <2>1, <3>1 DEF Life, Whence
      <4>3. ~(c > n) /\ ~(c < n) BY <1>a, <3>1
      <4>4. Whence(c)' BY <1>0, <2>1, <3>1, <4>1, <4>2, <4>3 DEF Life, Whence
      <4>5. Whither(c)' BY <2>1, <3>1, <4>2, <4>3 DEF Whither, Left
      <4>. QED BY <4>4, <4>5 DEF Life
    <3>2. CASE c # n
      <4>1. ws'[c] = ws[c] BY <1>0, <2>1, <3>2 DEF Parts
      <4>. QED BY <1>0, <2>1, <3>2, <4>1 DEF Life, Whence, Whither, Left, Quiet, Dead
    <3>. QED BY <3>1, <3>2
  <2>. QED BY <1>0, <2>2, <2>3 DEF LifeInv
<1>3. CASE Connected
  <2>1. /\ main = "handshaking" /\ ws[n] = "open" /\ main' = "waiting"
        /\ reader' = [reader EXCEPT ![n] = "reading"]
        /\ \E p \in {"pair", "login", "refuse"} : phase' = [phase EXCEPT ![n] = p]
        /\ UNCHANGED <<scenario, running, stopper, n, ws, closed, reason, cancelled, keepalive>>
    BY <1>3 DEF Connected
  <2>2. Stages' BY <1>0, <2>1 DEF Stages, Stopping
  <2>3. ASSUME NEW c \in Conns PROVE Life(c)'
    <3>1. CASE c = n
      <4>1. reader'[c] = "reading" /\ phase'[c] \in {"pair", "login", "refuse"}
        BY <1>0, <2>1, <3>1 DEF Parts
      <4>2. /\ reader[c] = "none" /\ keepalive[c] = "none" /\ reason[c] # "logged_out"
            /\ ~cancelled[c] /\ (running => ~closed[c])
        BY <1>0, <2>1, <3>1 DEF Life, Whence, TypeOK
      <4>3. ~(c > n) /\ ~(c < n) BY <1>a, <3>1
      <4>4. Whence(c)' BY <1>0, <2>1, <3>1, <4>1, <4>2, <4>3 DEF Life, Whence
      <4>5. Whither(c)' BY <1>0, <2>1, <3>1, <4>1, <4>2, <4>3 DEF Whither, Left
      <4>. QED BY <4>4, <4>5 DEF Life
    <3>2. CASE c # n
      <4>1. reader'[c] = reader[c] /\ phase'[c] = phase[c] BY <1>0, <2>1, <3>2 DEF Parts
      <4>. QED BY <1>0, <2>1, <3>2, <4>1 DEF Life, Whence, Whither, Left, Quiet, Dead
    <3>. QED BY <3>1, <3>2
  <2>. QED BY <1>0, <2>2, <2>3 DEF LifeInv

<1>4. CASE ConnectFails
  <2>1. /\ main \in {"connecting", "handshaking"}
        /\ main' = IF running THEN "sleeping" ELSE "ended"
        /\ UNCHANGED <<scenario, running, stopper, n, closed, reason, reader, cancelled,
                       keepalive, phase>>
        /\ \/ main = "connecting" /\ ws' = [ws EXCEPT ![n] = "none"]
           \/ main = "handshaking" /\ ws' = ws /\ ws[n] # "open"
           \/ main = "handshaking" /\ ws' = ws /\ "handshake_rejected" \in scenario.faults
    BY <1>4 DEF ConnectFails
  <2>2. Stages' BY <1>0, <2>1 DEF Stages, Stopping
  <2>3. ASSUME NEW c \in Conns PROVE Life(c)'
    <3>1. CASE c = n
      <4>1. /\ reader[c] = "none" /\ keepalive[c] = "none" /\ phase[c] = "none"
            /\ reason[c] # "logged_out" /\ ~cancelled[c]
        BY <1>0, <2>1, <3>1 DEF Life, Whence, TypeOK
      <4>2. ~(c > n) /\ ~(c < n) BY <1>a, <3>1
      <4>3. \/ ws'[c] = "none"
            \/ main = "handshaking" /\ ws'[c] = ws[c] /\ ws[c] \notin {"open", "opening", "none"}
            \/ main = "handshaking" /\ ws'[c] = ws[c] /\ ws[c] # "opening"
               /\ "handshake_rejected" \in scenario.faults
        BY <1>0, <2>1, <3>1 DEF Parts, Life, Whence
      <4>4. ws[c] = "closing" => ~running BY <1>0, <4>1 DEF Life, Whence
      <4>5. ws[c] \in {"none", "opening", "open", "lost", "closing", "gone"} BY <1>0 DEF Parts
      <4>6. ws'[c] # "opening" /\ (ws'[c] = "closing" => ~running) BY <4>3, <4>4
      <4>7. main' \notin {"connecting", "handshaking"} BY <2>1
      <4>8. Whence(c)' BY <2>1, <4>1, <4>2, <4>6, <4>7 DEF Whence
      <4>9. running => Dead(c)' BY <2>1, <4>1, <4>3, <4>4, <4>5 DEF Dead
      <4>10. Whither(c)' BY <2>1, <3>1, <4>1, <4>2, <4>9 DEF Whither, Quiet
      <4>. QED BY <4>8, <4>10 DEF Life
    <3>2. CASE c # n
      <4>1. ws'[c] = ws[c] BY <1>0, <2>1, <3>2 DEF Parts
      <4>. QED BY <1>0, <2>1, <3>2, <4>1 DEF Life, Whence, Whither, Left, Quiet, Dead
    <3>. QED BY <3>1, <3>2
  <2>. QED BY <1>0, <2>2, <2>3 DEF LifeInv
<1>5. CASE WaitReturns
  <2>1. main = "waiting" /\ closed[n] /\ n > 0 /\ UNCHANGED <<scenario, stopper>>
    BY <1>0, <1>5 DEF WaitReturns, IsClosed, Stages
  <2>2. CASE running /\ reason[n] = "restart" /\ Loop
    <3>1. \A c \in Conns : c = n => Left(c) BY <2>1, <2>2 DEF Left
    <3>2. \A c \in Conns : c = n => reason[c] # "logged_out" BY <2>2
    <3>3. TypeOK' /\ Loop /\ main # "connecting" /\ UNCHANGED scenario /\ UNCHANGED stopper
      BY <1>0, <2>1, <2>2
    <3>. QED BY <3>1, <3>2, <3>3, LoopLife
  <2>3. CASE main' = "ended" /\ ~running' /\ UNCHANGED <<n, conn>>
    <3>1. Stages' BY <1>0, <2>1, <2>3 DEF Stages, Stopping
    <3>2. UNCHANGED <<n, ws, closed, reason, reader, cancelled, keepalive, phase>>
      BY <2>3 DEF conn
    <3>3. ASSUME NEW c \in Conns PROVE Life(c)'
      BY <1>0, <2>1, <2>3, <3>2 DEF Life, Whence, Whither, Left, Quiet, Dead
    <3>. QED BY <1>0, <3>1, <3>3 DEF LifeInv
  <2>4. CASE running /\ reason[n] # "logged_out" /\ main' = "sleeping" /\ UNCHANGED <<n, running, conn>>
    <3>1. Stages' BY <1>0, <2>1, <2>4 DEF Stages, Stopping
    <3>2. UNCHANGED <<n, running, ws, closed, reason, reader, cancelled, keepalive, phase>>
      BY <2>4 DEF conn
    <3>3. ASSUME NEW c \in Conns PROVE Life(c)'
      BY <1>0, <2>1, <2>4, <3>2 DEF Life, Whence, Whither, Left, Quiet, Dead
    <3>. QED BY <1>0, <3>1, <3>3 DEF LifeInv
  <2>. QED BY <1>5, <2>2, <2>3, <2>4 DEF WaitReturns, Permanent
<1>6. CASE Wake
  <2>1. main = "sleeping" /\ n > 0 /\ UNCHANGED <<scenario, stopper>> /\ Loop
    BY <1>0, <1>6 DEF Wake, Stages
  <2>2. running => \A c \in Conns : c = n => Left(c) /\ reason[c] # "logged_out"
    BY <1>0, <2>1 DEF Left, Life, Whither
  <2>. QED BY <1>0, <2>1, <2>2, LoopLife
<1>7. CASE Stop
  <2>1. ~running' /\ UNCHANGED <<scenario, main, n>> BY <1>7 DEF Stop
  <2>2. Stages'
    <3>1. n = 0 => ~Stopping' BY <1>7 DEF Stop, Stopping
    <3>2. main = "top" => n = 0 /\ ~running BY <1>0 DEF Stages
    <3>3. main \in {"connecting", "handshaking", "waiting", "sleeping"} => n > 0
      BY <1>0 DEF Stages
    <3>. QED BY <2>1, <3>1, <3>2, <3>3 DEF Stages
  <2>3. CASE n = 0
    <3>1. UNCHANGED <<ws, closed, reason, reader, cancelled, keepalive, phase>>
      BY <1>7, <2>3 DEF Stop, conn
    <3>2. ASSUME NEW c \in Conns PROVE Life(c)' BY <1>0, <2>1, <3>1, Kept DEF Same
    <3>. QED BY <1>0, <2>2, <3>2 DEF LifeInv
  <2>4. CASE n # 0
    <3>1. n \in Conns BY <1>0, <1>a, <2>4 DEF Whole, Conns
    <3>2. /\ reason' = [reason EXCEPT ![n] = Default(@)]
          /\ keepalive' = [keepalive EXCEPT ![n] = EndKeepalive(@)]
          /\ UNCHANGED <<reader, phase>>
      BY <1>7, <2>4 DEF Stop
    <3>3. /\ reason'[n] = "logged_out" => reason[n] = "logged_out"
          /\ keepalive'[n] \notin {"asleep", "sending"}
          /\ keepalive[n] = "none" => keepalive'[n] = "none"
          /\ \A d \in Conns \ {n} : reason'[d] = reason[d] /\ keepalive'[d] = keepalive[d]
      BY <1>0, <3>1, <3>2 DEF Default, EndKeepalive, Parts
    <3>4. reader[n] = "none" => keepalive'[n] = "none" BY <1>0, <3>1, <3>3 DEF Life, Whence
    <3>5. CASE HasSocket(n)
      <4>1. ws' = [ws EXCEPT ![n] = "closing"] /\ UNCHANGED <<cancelled, closed>>
        BY <1>7, <2>4, <3>5 DEF Stop
      <4>2. ws'[n] = "closing" /\ \A d \in Conns \ {n} : ws'[d] = ws[d]
        BY <1>0, <3>1, <4>1 DEF Parts
      <4>3. ws[n] \in {"open", "lost", "closing"} BY <3>5 DEF HasSocket
      <4>4. ~cancelled[n] BY <1>0, <3>1, <4>3 DEF Life, Whence
      <4>5. ~(n > n) /\ ~(n < n) BY <1>a
      <4>6. main # "connecting" BY <1>0, <3>1, <4>3 DEF Life, Whence
      <4>7. Whence(n)'
        BY <1>0, <2>1, <3>1, <3>2, <3>3, <3>4, <4>1, <4>2, <4>4, <4>5, <4>6 DEF Life, Whence
      <4>8. Whither(n)'
        BY <1>0, <2>1, <3>1, <3>2, <4>1, <4>5 DEF Life, Whither, Left, Quiet
      <4>9. ASSUME NEW d \in Conns, d # n PROVE Life(d)'
        <5>1. Same(d) BY <3>2, <3>3, <4>1, <4>2, <4>9 DEF Same
        <5>. QED BY <1>0, <2>1, <5>1, Kept
      <4>10. \A d \in Conns : Life(d)' BY <2>1, <4>7, <4>8, <4>9 DEF Life
      <4>. QED BY <1>0, <2>2, <4>10 DEF LifeInv
    <3>6. CASE ~HasSocket(n)
      <4>1. FinishClose(n) BY <1>7, <2>4, <3>6 DEF Stop
      <4>2. n <= n BY <1>a
      <4>3. \A d \in Conns : Life(d)'
        BY <1>0, <2>1, <3>1, <3>2, <3>3, <3>4, <4>1, <4>2, CloseLife
      <4>. QED BY <1>0, <2>2, <4>3 DEF LifeInv
    <3>. QED BY <3>5, <3>6
  <2>. QED BY <2>3, <2>4
<1>8. CASE StopFinishes
  <2>1. /\ FinishClose(n) /\ UNCHANGED <<scenario, main, running, n, reason, reader,
                                         keepalive, phase>>
        /\ ~running /\ main # "top"
    BY <1>0, <1>8 DEF StopFinishes, Stages, Stopping
  <2>2. Stages' BY <1>0, <2>1 DEF Stages
  <2>3. CASE n = 0
    <3>1. n \notin Conns BY <1>a, <2>3
    <3>2. UNCHANGED <<ws, cancelled, closed>> BY <1>0, <2>1, <3>1 DEF FinishClose, Parts
    <3>3. ASSUME NEW c \in Conns PROVE Life(c)' BY <1>0, <2>1, <3>2, Kept DEF Same
    <3>. QED BY <1>0, <2>2, <3>3 DEF LifeInv
  <2>4. CASE n # 0
    <3>1. n \in Conns /\ n <= n BY <1>0, <1>a, <2>4 DEF Whole, Conns
    <3>2. reader[n] = "none" => keepalive[n] = "none" BY <1>0, <3>1 DEF Life, Whence
    <3>3. \A d \in Conns : Life(d)' BY <1>0, <2>1, <3>1, <3>2, CloseLife
    <3>. QED BY <1>0, <2>2, <3>3 DEF LifeInv
  <2>. QED BY <2>3, <2>4
<1>9. ASSUME NEW c \in Conns,
             Frame(c) \/ Handled(c) \/ PairFinishes(c) \/ Greeted(c) \/ EmitDone(c)
      PROVE  LifeInv'
  <2>1. /\ UNCHANGED supervisor
        /\ UNCHANGED <<ws, closed, reason, cancelled, keepalive, phase>>
        /\ ~cancelled[c] /\ reader[c] \notin {"none", "failing"}
        /\ \E x \in {"reading", "handling", "ended"} :
             /\ reader' = [reader EXCEPT ![c] = x]
             /\ x = "ended" <=> reader[c] = "emitting"
        /\ reader[c] # "ended"
    BY <1>9 DEF Frame, Handled, PairFinishes, Greeted, EmitDone, GoTo, Reading, Suspended
  <2>2. /\ reader'[c] \in {"reading", "handling", "ended"}
        /\ reader'[c] = "ended" <=> reader[c] = "emitting"
        /\ \A d \in Conns \ {c} : reader'[d] = reader[d]
    BY <1>0, <2>1 DEF Parts
  <2>3. Whence(c)' BY <1>0, <2>1, <2>2 DEF Life, Whence, supervisor
  <2>4. Whither(c)' BY <1>0, <2>1, <2>2 DEF Life, Whither, Left, Quiet, Dead, supervisor
  <2>5. \A d \in Conns \ {c} : Same(d) BY <2>1, <2>2 DEF Same
  <2>. QED BY <1>0, <2>1, <2>3, <2>4, <2>5, StepAt DEF Life
<1>10. ASSUME NEW c \in Conns, HandlerRaises(c) \/ StreamEnds(c) PROVE LifeInv'
  <2>1. /\ ReadLoopEnds(c, FALSE) /\ reader[c] \in {"handling", "reading"}
        /\ UNCHANGED supervisor /\ UNCHANGED <<ws, keepalive, phase>>
        /\ \/ "handler_raises" \in scenario.faults
           \/ ws[c] \in {"lost", "closing", "gone"}
    BY <1>10 DEF HandlerRaises, StreamEnds, Suspended, Reading, Exhausted
  <2>2. ws[c] = "closing" => ~running BY <1>0, <2>1 DEF Life, Whence
  <2>. QED BY <1>0, <2>1, <2>2, EndLife
<1>11. ASSUME NEW c \in Conns, ReaderCancelled(c) PROVE LifeInv'
  <2>1. /\ cancelled[c] /\ UNCHANGED supervisor /\ UNCHANGED <<ws, keepalive, phase>>
        /\ ws[c] = "gone" /\ reader[c] # "none"
    BY <1>0, <1>11 DEF ReaderCancelled, Life, Whence, Bounds
  <2>2. CASE reader[c] = "emitting"
    <3>1. /\ reader' = [reader EXCEPT ![c] = "ended"]
          /\ cancelled' = [cancelled EXCEPT ![c] = FALSE]
          /\ UNCHANGED <<closed, reason>>
      BY <1>11, <2>2 DEF ReaderCancelled, GoTo
    <3>2. /\ reader'[c] = "ended" /\ ~cancelled'[c]
          /\ \A d \in Conns \ {c} : reader'[d] = reader[d] /\ cancelled'[d] = cancelled[d]
      BY <1>0, <3>1 DEF Parts
    <3>3. Whence(c)' BY <1>0, <2>1, <2>2, <3>1, <3>2 DEF Life, Whence, supervisor
    <3>4. Whither(c)'
      BY <1>0, <2>1, <2>2, <3>1, <3>2 DEF Life, Whither, Left, Quiet, Dead, supervisor
    <3>5. \A d \in Conns \ {c} : Same(d) BY <2>1, <3>1, <3>2 DEF Same
    <3>. QED BY <1>0, <2>1, <3>3, <3>4, <3>5, StepAt DEF Life
  <2>3. CASE reader[c] # "emitting"
    BY <1>0, <1>11, <2>1, <2>3, EndLife DEF ReaderCancelled
  <2>. QED BY <2>2, <2>3
<1>12. ASSUME NEW c \in Conns, PairSuccess(c) PROVE LifeInv'
  <2>1. /\ reader[c] = "reading" /\ ~cancelled[c] /\ phase[c] = "pair"
        /\ ws[c] \in {"open", "lost", "closing"}
        /\ phase' = [phase EXCEPT ![c] = "paired"]
        /\ UNCHANGED supervisor /\ UNCHANGED <<ws, keepalive>>
    BY <1>12 DEF PairSuccess, Reading, HasSocket
  <2>2. phase'[c] = "paired" /\ \A d \in Conns \ {c} : phase'[d] = phase[d]
    BY <1>0, <2>1 DEF Parts
  <2>3. CASE ws[c] = "open"
    <3>1. reader' = [reader EXCEPT ![c] = "pairing"] /\ UNCHANGED <<closed, reason, cancelled>>
      BY <1>12, <2>3 DEF PairSuccess, GoTo
    <3>2. reader'[c] = "pairing" /\ \A d \in Conns \ {c} : reader'[d] = reader[d]
      BY <1>0, <3>1 DEF Parts
    <3>3. Whence(c)' BY <1>0, <2>1, <2>2, <2>3, <3>1, <3>2 DEF Life, Whence, supervisor
    <3>4. Whither(c)' BY <1>0, <2>1, <3>1 DEF Life, Whither, Left, Quiet, supervisor
    <3>5. \A d \in Conns \ {c} : Same(d) BY <2>1, <2>2, <3>1, <3>2 DEF Same
    <3>. QED BY <1>0, <2>1, <3>3, <3>4, <3>5, StepAt DEF Life
  <2>4. CASE ws[c] # "open"
    <3>1. ReadLoopEnds(c, FALSE) BY <1>12, <2>4 DEF PairSuccess
    <3>2. ws[c] = "closing" => ~running BY <1>0, <2>1 DEF Life, Whence
    <3>. QED BY <1>0, <2>1, <2>2, <2>4, <3>1, <3>2, EndLife
  <2>. QED BY <2>3, <2>4
<1>13. ASSUME NEW c \in Conns, Success(c) PROVE LifeInv'
  <2>1. /\ reader[c] = "reading" /\ ~cancelled[c] /\ phase[c] = "login"
        /\ phase' = [phase EXCEPT ![c] = "online"]
        /\ keepalive' = [keepalive EXCEPT ![c] = "asleep"]
        /\ reader' = [reader EXCEPT ![c] = "greeting"]
        /\ UNCHANGED supervisor /\ UNCHANGED <<ws, closed, reason, cancelled>>
    BY <1>13 DEF Success, Reading, GoTo
  <2>2. /\ phase'[c] = "online" /\ reader'[c] = "greeting" /\ keepalive'[c] = "asleep"
        /\ \A d \in Conns \ {c} : /\ phase'[d] = phase[d] /\ reader'[d] = reader[d]
                                  /\ keepalive'[d] = keepalive[d]
    BY <1>0, <2>1 DEF Parts
  <2>3. Whence(c)' BY <1>0, <2>1, <2>2 DEF Life, Whence, supervisor
  <2>4. Whither(c)' BY <1>0, <2>1 DEF Life, Whither, Left, Quiet, supervisor
  <2>5. \A d \in Conns \ {c} : Same(d) BY <2>1, <2>2 DEF Same
  <2>. QED BY <1>0, <2>1, <2>3, <2>4, <2>5, StepAt DEF Life
<1>14. ASSUME NEW c \in Conns, NEW r \in Reasons, Fail(c, r) PROVE LifeInv'
  <2>1. /\ reader[c] = "reading" /\ ~cancelled[c]
        /\ ws[c] \in {"open", "lost", "closing"}
        /\ phase' = [phase EXCEPT ![c] = "over"]
        /\ keepalive' = [keepalive EXCEPT ![c] = EndKeepalive(@)]
        /\ reader' = [reader EXCEPT ![c] = "failing"]
        /\ ws' = [ws EXCEPT ![c] = "closing"] /\ reason' = [reason EXCEPT ![c] = r]
        /\ UNCHANGED supervisor /\ UNCHANGED <<closed, cancelled>>
    BY <1>14 DEF Fail, Reading, HasSocket, GoTo
  <2>2. /\ phase'[c] = "over" /\ reader'[c] = "failing" /\ ws'[c] = "closing"
        /\ keepalive'[c] \notin {"asleep", "sending"}
        /\ \A d \in Conns \ {c} : /\ phase'[d] = phase[d] /\ reader'[d] = reader[d]
                                  /\ keepalive'[d] = keepalive[d] /\ ws'[d] = ws[d]
                                  /\ reason'[d] = reason[d]
    BY <1>0, <2>1 DEF Parts, EndKeepalive
  <2>3. ~(c > n) BY <1>0, <2>1 DEF Bounds
  <2>4. ws[c] # "opening" /\ main \in {"connecting", "handshaking"} => c # n
    BY <1>0, <2>1 DEF Life, Whence
  <2>5. Whence(c)' BY <1>0, <2>1, <2>2, <2>3, <2>4 DEF Life, Whence, supervisor
  <2>6. ~Left(c) BY <1>0, <2>1 DEF Life, Whither, Quiet
  <2>7. c = n BY <1>a, <2>3, <2>6 DEF Left
  <2>8. running => main = "waiting"
    <3>1. main \notin {"connecting", "handshaking"} BY <1>0, <2>1, <2>7 DEF Life, Whence
    <3>2. main # "sleeping" BY <2>6, <2>7 DEF Left
    <3>3. main # "top" BY <1>0, <1>a, <2>7 DEF Stages
    <3>. QED BY <1>0, <3>1, <3>2, <3>3 DEF Whole, Stages
  <2>9. Whither(c)' BY <2>1, <2>6, <2>7, <2>8 DEF Whither, Left, supervisor
  <2>10. \A d \in Conns \ {c} : Same(d) BY <2>1, <2>2 DEF Same
  <2>. QED BY <1>0, <2>1, <2>5, <2>9, <2>10, StepAt DEF Life
<1>15. ASSUME NEW c \in Conns, FailFinishes(c) PROVE LifeInv'
  <2>1. /\ reader[c] = "failing" /\ ~cancelled[c] /\ ws' = [ws EXCEPT ![c] = AfterClose(@)]
        /\ UNCHANGED supervisor /\ UNCHANGED <<keepalive, phase>>
    BY <1>15 DEF FailFinishes, Suspended
  <2>2. ws[c] \in {"closing", "gone"} BY <1>0, <2>1 DEF Life, Whence
  <2>3. ws'[c] = "gone" /\ \A d \in Conns \ {c} : ws'[d] = ws[d]
    BY <1>0, <2>1, <2>2 DEF AfterClose, Parts
  <2>4. /\ reader'[c] \in {"reading", "emitting", "ended"}
        /\ reader'[c] = "reading" => cancelled'[c]
        /\ closed'[c] /\ (reason'[c] = "logged_out" => reason[c] = "logged_out")
        /\ \A d \in Conns \ {c} :
             /\ closed'[d] = closed[d] /\ cancelled'[d] = cancelled[d]
             /\ reader'[d] = reader[d] /\ reason'[d] = reason[d]
    <3>1. CASE ReadLoopEnds(c, TRUE) BY <1>0, <3>1, LoopEnded
    <3>2. CASE ~ReadLoopEnds(c, TRUE)
      <4>1. /\ reader' = [reader EXCEPT ![c] = "reading"]
            /\ cancelled' = [cancelled EXCEPT ![c] = TRUE]
            /\ closed' = [closed EXCEPT ![c] = TRUE] /\ UNCHANGED reason
        BY <1>15, <3>2 DEF FailFinishes, GoTo
      <4>. QED BY <1>0, <4>1 DEF Parts
    <3>. QED BY <3>1, <3>2
  <2>5. ~(c > n) BY <1>0, <2>1 DEF Bounds
  <2>6. Whence(c)' BY <1>0, <2>1, <2>2, <2>3, <2>4, <2>5 DEF Life, Whence, supervisor
  <2>7. Quiet(c)' BY <2>4 DEF Quiet
  <2>8. Dead(c)' BY <2>3 DEF Dead
  <2>9. Whither(c)' BY <1>0, <2>1, <2>4, <2>7, <2>8 DEF Life, Whither, supervisor
  <2>10. \A d \in Conns \ {c} : Same(d) BY <2>1, <2>3, <2>4 DEF Same
  <2>. QED BY <1>0, <2>1, <2>6, <2>9, <2>10, StepAt DEF Life
<1>16. ASSUME NEW c \in Conns, KeepaliveStep(c) PROVE LifeInv'
  <2>1. /\ UNCHANGED supervisor /\ UNCHANGED <<reader, phase>>
        /\ keepalive[c] \in {"asleep", "sending"}
        /\ \E k \in {"asleep", "sending", "ended"} : keepalive' = [keepalive EXCEPT ![c] = k]
    BY <1>16 DEF KeepaliveStep, KeepaliveWakes, PingSent, PingFails
  <2>2. /\ keepalive'[c] \in {"asleep", "sending", "ended"}
        /\ \A d \in Conns \ {c} : keepalive'[d] = keepalive[d]
    BY <1>0, <2>1 DEF Parts
  <2>3. phase[c] = "online" /\ reader[c] # "none" BY <1>0, <2>1 DEF Life, Whence
  <2>4. ~(c > n) /\ c <= n
    <3>1. ~(c > n) BY <1>0, <2>3 DEF Bounds
    <3>. QED BY <1>a, <3>1
  <2>5. reason' = reason \/ reason' = [reason EXCEPT ![c] = "lost"]
    BY <1>16 DEF KeepaliveStep, KeepaliveWakes, PingSent, PingFails
  <2>6. reason'[c] # "logged_out" /\ \A d \in Conns \ {c} : reason'[d] = reason[d]
    <3>1. reason[c] # "logged_out" BY <1>0, <2>3 DEF Life, Whence
    <3>. QED BY <1>0, <2>5, <3>1 DEF Parts
  <2>7. UNCHANGED <<scenario, main, running, stopper, n>> BY <2>1 DEF supervisor
  <2>8. CASE UNCHANGED <<ws, cancelled, closed>>
    <3>1. Whence(c)' BY <1>0, <2>1, <2>2, <2>3, <2>4, <2>6, <2>7, <2>8 DEF Life, Whence
    <3>2. Whither(c)' BY <1>0, <2>1, <2>6, <2>7, <2>8 DEF Life, Whither, Left, Quiet, Dead
    <3>3. \A d \in Conns \ {c} : Same(d) BY <2>1, <2>2, <2>6, <2>8 DEF Same
    <3>. QED BY <1>0, <2>1, <3>1, <3>2, <3>3, StepAt DEF Life
  <2>9. CASE FinishClose(c)
    <3>1. \A d \in Conns : Life(d)'
      BY <1>0, <2>1, <2>2, <2>3, <2>4, <2>6, <2>7, <2>9, CloseLife
    <3>2. Stages' BY <1>0, <2>7 DEF Stages, Stopping
    <3>. QED BY <1>0, <3>1, <3>2 DEF LifeInv
  <2>. QED BY <1>16, <2>8, <2>9 DEF KeepaliveStep, KeepaliveWakes, PingSent, PingFails
<1>17. ASSUME NEW c \in Conns, Drop(c) PROVE LifeInv'
  <2>1. /\ ws[c] = "open" /\ ws' = [ws EXCEPT ![c] = "lost"] /\ UNCHANGED supervisor
        /\ UNCHANGED <<closed, reason, reader, cancelled, keepalive, phase>>
    BY <1>17 DEF Drop
  <2>2. ws'[c] = "lost" /\ \A d \in Conns \ {c} : ws'[d] = ws[d] BY <1>0, <2>1 DEF Parts
  <2>3. Whence(c)' BY <1>0, <2>1, <2>2 DEF Life, Whence, supervisor
  <2>4. Whither(c)' BY <1>0, <2>1, <2>2 DEF Life, Whither, Left, Quiet, Dead, supervisor
  <2>5. \A d \in Conns \ {c} : Same(d) BY <2>1, <2>2 DEF Same
  <2>. QED BY <1>0, <2>1, <2>3, <2>4, <2>5, StepAt DEF Life
<1>18. CASE UNCHANGED vars
  BY <1>0, <1>18 DEF vars, conn, LifeInv, Stages, Stopping, Life, Whence, Whither, Left, Quiet, Dead
<1>. QED
  BY <1>1, <1>2, <1>3, <1>4, <1>5, <1>6, <1>7, <1>8, <1>9, <1>10, <1>11, <1>12, <1>13,
     <1>14, <1>15, <1>16, <1>17, <1>18 DEF Next, ReaderStep

LEMMA AlwaysLife == Spec => []LifeInv
<1>. QED BY InitLife, StepLife, PTL DEF Spec

\* "Connection handles a single socket, Client supervises a sequence of connections":
\* an older connection has no socket but one whose handshake was rejected or whose
\* reader a handler ended, for any number of connections.
THEOREM OneSocketOnly == Spec => []OneSocket
<1>1. ASSUME LifeInv PROVE OneSocket
  <2>1. n \in 0..MaxConns /\ MaxConns \in Nat
    BY <1>1, ClientAssumption DEF LifeInv, TypeOK
  <2>2. SUFFICES ASSUME NEW c \in 1..(n - 1), Live(c)
                 PROVE  \/ /\ "handshake_rejected" \in scenario.faults
                           /\ reader[c] = "none"
                        \/ /\ "handler_raises" \in scenario.faults
                           /\ reader[c] \in {"emitting", "ended"}
    BY DEF OneSocket
  <2>3. c \in Conns /\ c < n /\ c # n BY <2>1, <2>2 DEF Conns
  <2>4. Dead(c) BY <1>1, <2>3 DEF LifeInv, Life, Whither, Left
  <2>. QED BY <2>2, <2>4 DEF Dead, Live
<1>. QED BY <1>1, AlwaysLife, PTL

-----------------------------------------------------------------------------
\* A permanent logout is final: the reason of the connection stays and no other
\* connection is made, whatever the keepalive, the read loop and stop() do meanwhile.
THEOREM LogoutStays == Spec => LogoutIsFinal
<1>1. ASSUME LifeInv, [Next]_vars, NEW c \in Conns, reason[c] = "logged_out"
      PROVE  reason'[c] = "logged_out" /\ n' = n
  <2>0. /\ Parts /\ Stages /\ phase[c] = "over" /\ (running => c = n /\ main = "waiting")
        /\ (Left(c) => Quiet(c)) /\ (reader[c] = "none" => phase[c] = "none")
        /\ (keepalive[c] \in {"asleep", "sending"} => phase[c] = "online")
    BY <1>1, TypesSplit DEF LifeInv, Life, Whence, Whither
  <2>1. CASE Loop /\ (running => reason[n] # "logged_out" \/ main # "waiting")
    <3>1. ~running BY <1>1, <2>0, <2>1
    <3>. QED BY <1>1, <2>1, <3>1 DEF Loop, GoesOn, conn
  <2>2. CASE WaitReturns \/ Wake
    <3>1. CASE Loop
      <4>1. running => reason[n] # "logged_out" \/ main # "waiting"
        BY <2>2, <3>1 DEF WaitReturns, Wake, Loop, GoesOn, Connects
      <4>. QED BY <2>1, <3>1, <4>1
    <3>2. CASE ~Loop
      BY <1>1, <2>2, <3>2 DEF WaitReturns, Wake, conn
    <3>. QED BY <3>1, <3>2
  <2>11. ~Start
    <3>1. SUFFICES ASSUME Start PROVE FALSE
      OBVIOUS
    <3>2. n = 0 BY <2>0, <3>1 DEF Start, Stages
    <3>3. c > n BY <3>2, ClientAssumption DEF Conns
    <3>. QED BY <1>1, <3>3 DEF LifeInv, Life, Whence
  <2>3. CASE Opened \/ Connected \/ ConnectFails \/ StopFinishes
    BY <1>1, <2>3 DEF Opened, Connected, ConnectFails, StopFinishes
  <2>4. CASE Stop
    BY <1>1, <2>0, <2>4 DEF Stop, conn, Default, Parts
  <2>5. ASSUME NEW d \in Conns,
               \/ Frame(d) \/ Success(d) \/ Handled(d) \/ PairFinishes(d) \/ Greeted(d)
               \/ EmitDone(d) \/ KeepaliveWakes(d) \/ PingSent(d) \/ Drop(d)
        PROVE  reason'[c] = "logged_out" /\ n' = n
    BY <1>1, <2>5 DEF Frame, Success, Handled, PairFinishes, Greeted, EmitDone,
                      KeepaliveWakes, PingSent, Drop, supervisor
  <2>6. ASSUME NEW d \in Conns, NEW cut \in BOOLEAN, ReadLoopEnds(d, cut), UNCHANGED supervisor
        PROVE  reason'[c] = "logged_out" /\ n' = n
    <3>1. n' = n BY <2>6 DEF supervisor
    <3>2. /\ (reason[d] # "none" => reason'[d] = reason[d])
          /\ \A e \in Conns \ {d} : reason'[e] = reason[e]
      BY <2>0, <2>6, LoopEnded
    <3>. QED BY <1>1, <3>1, <3>2
  <2>7. ASSUME NEW d \in Conns,
               \/ HandlerRaises(d) \/ PairSuccess(d) \/ FailFinishes(d)
               \/ StreamEnds(d) \/ ReaderCancelled(d)
        PROVE  reason'[c] = "logged_out" /\ n' = n
    <3>1. UNCHANGED supervisor
      BY <2>7 DEF HandlerRaises, PairSuccess, FailFinishes, StreamEnds, ReaderCancelled
    <3>2. ReadLoopEnds(d, TRUE) \/ ReadLoopEnds(d, FALSE) \/ UNCHANGED reason
      BY <2>7 DEF HandlerRaises, PairSuccess, FailFinishes, StreamEnds, ReaderCancelled
    <3>3. CASE UNCHANGED reason BY <1>1, <3>1, <3>3 DEF supervisor
    <3>. QED BY <2>6, <3>1, <3>2, <3>3
  <2>8. ASSUME NEW d \in Conns, NEW r \in Reasons, Fail(d, r)
        PROVE  reason'[c] = "logged_out" /\ n' = n
    <3>1. c # d BY <2>0, <2>8 DEF Fail, Codes
    <3>. QED BY <1>1, <2>0, <2>8, <3>1 DEF Fail, supervisor, Parts
  <2>9. ASSUME NEW d \in Conns, PingFails(d)
        PROVE  reason'[c] = "logged_out" /\ n' = n
    <3>1. c # d BY <2>0, <2>9 DEF PingFails
    <3>. QED BY <1>1, <2>0, <2>9, <3>1 DEF PingFails, supervisor, Parts
  <2>10. CASE UNCHANGED vars BY <1>1, <2>10 DEF vars, conn
  <2>. QED
    BY <1>1, <2>2, <2>3, <2>4, <2>5, <2>7, <2>8, <2>9, <2>10, <2>11
    DEF Next, ReaderStep, KeepaliveStep
<1>2. LifeInv /\ [Next]_vars =>
        [\A c \in Conns :
           reason[c] = "logged_out" => reason'[c] = "logged_out" /\ n' = n]_vars
  BY <1>1
<1>. QED BY <1>2, AlwaysLife, PTL DEF Spec, LogoutIsFinal

-----------------------------------------------------------------------------
\* A stop() that does not come while the socket opens.

StopInv ==
  /\ Stopping => main # "connecting"
  /\ stopper = "done" => \A c \in Conns : c = n => ws[c] = "gone"
  /\ stopper = "closing" => n > 0

LEMMA StepStop ==
  ASSUME \A s \in Scenarios : "stop_while_connecting" \notin s.faults,
         LifeInv, StopInv, [Next]_vars
  PROVE  StopInv'
<1>0. Parts /\ Stages /\ scenario \in Scenarios /\ n \in Nat
  <2>1. MaxConns \in Nat BY ClientAssumption
  <2>2. Parts /\ Stages /\ scenario \in Scenarios /\ n \in 0..MaxConns
    BY TypesSplit DEF LifeInv, Whole
  <2>. QED BY <2>1, <2>2
<1>1. ASSUME NEW c \in Conns PROVE ws[c] = "opening" <=> c = n /\ main = "connecting"
  BY DEF LifeInv, Life, Whence
<1>2. ASSUME UNCHANGED <<stopper, main, n>>,
             \A c \in Conns : ws[c] = "gone" => ws'[c] = "gone"
      PROVE  StopInv'
  BY <1>2 DEF StopInv, Stopping
<1>3. CASE Start \/ WaitReturns \/ Wake
  <2>1. UNCHANGED stopper BY <1>3 DEF Start, WaitReturns, Wake
  <2>2. CASE running \/ Start
    <3>1. ~Stopping BY <1>0, <2>2 DEF Stages, Start
    <3>. QED BY <2>1, <3>1 DEF StopInv, Stopping
  <2>3. CASE ~running /\ ~Start
    <3>1. main' = "ended" /\ UNCHANGED <<n, ws>>
      BY <1>3, <2>3 DEF WaitReturns, Wake, Loop, GoesOn, conn
    <3>. QED BY <2>1, <3>1 DEF StopInv, Stopping
  <2>. QED BY <2>2, <2>3
<1>4. CASE Opened
  BY <1>4 DEF Opened, StopInv, Stopping
<1>5. CASE Connected \/ ConnectFails
  BY <1>5 DEF Connected, ConnectFails, StopInv, Stopping
<1>6. CASE Stop
  <2>1. main # "connecting" /\ UNCHANGED <<main, n>> BY <1>0, <1>6 DEF Stop
  <2>2. CASE n = 0
    <3>1. stopper' = "too_soon" BY <1>6, <2>2 DEF Stop
    <3>. QED BY <2>1, <3>1 DEF StopInv, Stopping
  <2>3. CASE n # 0 /\ HasSocket(n)
    <3>1. stopper' = "closing" BY <1>6, <2>3 DEF Stop
    <3>2. n > 0 BY <1>0, <2>3
    <3>. QED BY <2>1, <3>1, <3>2 DEF StopInv, Stopping
  <2>4. CASE n # 0 /\ ~HasSocket(n)
    <3>1. stopper' = "done" /\ FinishClose(n) BY <1>6, <2>4 DEF Stop
    <3>2. ASSUME NEW c \in Conns, c = n PROVE ws'[c] = "gone"
      <4>1. ws'[c] = AfterClose(ws[c]) BY <1>0, <3>1, <3>2 DEF FinishClose, Parts
      <4>2. ws[c] # "opening" BY <1>1, <2>1, <3>2
      <4>. QED BY <4>1, <4>2 DEF AfterClose
    <3>. QED BY <2>1, <3>1, <3>2 DEF StopInv, Stopping
  <2>. QED BY <2>2, <2>3, <2>4
<1>7. CASE StopFinishes
  <2>1. /\ stopper = "closing" /\ stopper' = "done" /\ FinishClose(n) /\ UNCHANGED <<main, n>>
    BY <1>7 DEF StopFinishes
  <2>2. main # "connecting" BY <2>1 DEF StopInv, Stopping
  <2>3. ASSUME NEW c \in Conns, c = n PROVE ws'[c] = "gone"
    <3>1. ws'[c] = AfterClose(ws[c]) BY <1>0, <2>1, <2>3 DEF FinishClose, Parts
    <3>2. ws[c] # "opening" BY <1>1, <2>2, <2>3
    <3>. QED BY <3>1, <3>2 DEF AfterClose
  <2>. QED BY <2>1, <2>2, <2>3 DEF StopInv, Stopping
<1>8. ASSUME NEW c \in Conns,
             \/ Frame(c) \/ HandlerRaises(c) \/ PairSuccess(c) \/ Success(c) \/ Handled(c)
             \/ PairFinishes(c) \/ Greeted(c) \/ StreamEnds(c) \/ ReaderCancelled(c)
             \/ EmitDone(c) \/ KeepaliveWakes(c) \/ PingSent(c)
      PROVE  StopInv'
  <2>1. UNCHANGED ws /\ UNCHANGED supervisor
    BY <1>8 DEF Frame, HandlerRaises, PairSuccess, Success, Handled, PairFinishes, Greeted,
                StreamEnds, ReaderCancelled, EmitDone, KeepaliveWakes, PingSent
  <2>. QED BY <1>2, <2>1 DEF supervisor
<1>9. ASSUME NEW c \in Conns, NEW w, ws[c] = "gone" => w = "gone",
             ws' = [ws EXCEPT ![c] = w], UNCHANGED supervisor
      PROVE  StopInv'
  <2>1. \A d \in Conns : ws[d] = "gone" => ws'[d] = "gone" BY <1>0, <1>9 DEF Parts
  <2>. QED BY <1>2, <1>9, <2>1 DEF supervisor
<1>10. ASSUME NEW c \in Conns, NEW r \in Reasons, Fail(c, r) PROVE StopInv'
  <2>1. ws[c] # "gone" /\ ws' = [ws EXCEPT ![c] = "closing"] /\ UNCHANGED supervisor
    BY <1>10 DEF Fail, HasSocket
  <2>. QED BY <1>9, <2>1
<1>11. ASSUME NEW c \in Conns, FailFinishes(c) \/ PingFails(c) PROVE StopInv'
  <2>1. /\ ws' = [ws EXCEPT ![c] = AfterClose(ws[c])] \/ UNCHANGED ws
        /\ UNCHANGED supervisor
    BY <1>11 DEF FailFinishes, PingFails, FinishClose
  <2>2. ws[c] = "gone" => AfterClose(ws[c]) = "gone" BY DEF AfterClose
  <2>3. CASE UNCHANGED ws BY <1>2, <2>1, <2>3 DEF supervisor
  <2>. QED BY <1>9, <2>1, <2>2, <2>3
<1>12. ASSUME NEW c \in Conns, Drop(c) PROVE StopInv'
  <2>1. ws[c] = "open" /\ ws' = [ws EXCEPT ![c] = "lost"] /\ UNCHANGED supervisor
    BY <1>12 DEF Drop
  <2>. QED BY <1>9, <2>1
<1>13. CASE UNCHANGED vars BY <1>2, <1>13 DEF vars, conn
<1>. QED
  BY <1>3, <1>4, <1>5, <1>6, <1>7, <1>8, <1>10, <1>11, <1>12, <1>13
  DEF Next, ReaderStep, KeepaliveStep

\* stop() closes the active connection: once stop() and start() have returned, the socket
\* of the last connection is not open, if no stop() came before the socket was there.  (In
\* that window close() has nothing to close: see the run client_stop.)
THEOREM StopLeaves ==
  ASSUME \A s \in Scenarios : "stop_while_connecting" \notin s.faults
  PROVE  Spec => []StopLeavesNothing
<1>1. Init => StopInv BY DEF Init, StopInv, Stopping
<1>2. LifeInv /\ StopInv /\ [Next]_vars => StopInv' BY StepStop
<1>3. StopInv => StopLeavesNothing BY DEF StopInv, StopLeavesNothing, Live
<1>. QED BY <1>1, <1>2, <1>3, AlwaysLife, PTL DEF Spec

-----------------------------------------------------------------------------
\* A pairing and the login that follows it.

\* The reader is on its way to the flag of the new login.
Awaited(c) == reader[c] = "pairing" /\ ~cancelled[c]

\* The supervisor ends, and this was its last connection.
Over(c) == ~running /\ Quiet(c) /\ main \notin {"connecting", "handshaking"}

\* Flag and pairing agree, but while the listener sets the flag, or for good when a stop()
\* cancelled the listener.
PairInv ==
  /\ NewLoginExact
  /\ \A c \in Conns : reader[c] = "pairing" => IF cancelled[c] THEN ~running ELSE paired
  /\ paired # new_login => \E c \in Conns : c = n /\ (Awaited(c) \/ Over(c))

\* A step of a connection that neither begins nor ends a pairing.
LEMMA PairKept ==
  ASSUME LifeInv, PairInv, NEW c \in Conns,
         UNCHANGED <<main, n, paired, new_login, flagged>>, running' => running,
         \A d \in Conns \ {c} : reader'[d] = reader[d] /\ cancelled'[d] = cancelled[d],
         Quiet(c) => Quiet(c)',
         Awaited(c) => Awaited(c)' \/ (~running' /\ Quiet(c)'),
         reader'[c] = "pairing" =>
           /\ reader[c] = "pairing" /\ (cancelled[c] => cancelled'[c])
           /\ (cancelled'[c] => cancelled[c] \/ ~running')
  PROVE  PairInv'
<1>1. NewLoginExact' BY DEF PairInv, NewLoginExact
<1>2. ASSUME NEW d \in Conns, reader'[d] = "pairing"
      PROVE  IF cancelled'[d] THEN ~running' ELSE paired'
  BY <1>2 DEF PairInv
<1>3. ASSUME NEW d \in Conns, d = n, Awaited(d) \/ Over(d)
      PROVE  Awaited(d)' \/ Over(d)'
  <2>1. reader[d] # "none" => main \notin {"connecting", "handshaking"}
    BY <1>3 DEF LifeInv, Life, Whence
  <2>2. CASE d # c BY <1>3, <2>2 DEF Awaited, Over, Quiet
  <2>3. CASE d = c BY <1>3, <2>1, <2>3 DEF Awaited, Over
  <2>. QED BY <2>2, <2>3
<1>4. paired' # new_login' => \E d \in Conns : d = n' /\ (Awaited(d)' \/ Over(d)')
  BY <1>3 DEF PairInv
<1>5. paired' # new_login' => (\E d \in Conns : d = n /\ (Awaited(d) \/ Over(d)))'
  BY <1>4
<1>. QED BY <1>1, <1>2, <1>5 DEF PairInv

\* A step that leaves every reader where it was.
LEMMA PairStays ==
  ASSUME PairInv, UNCHANGED <<n, paired, new_login, flagged, reader, cancelled>>,
         running' => running,
         \A c \in Conns : c = n /\ Over(c) => Over(c)'
  PROVE  PairInv'
<1>1. NewLoginExact' BY DEF PairInv, NewLoginExact
<1>2. ASSUME NEW d \in Conns, reader'[d] = "pairing"
      PROVE  IF cancelled'[d] THEN ~running' ELSE paired'
  BY <1>2 DEF PairInv
<1>3. paired' # new_login' => \E d \in Conns : d = n' /\ (Awaited(d)' \/ Over(d)')
  BY DEF PairInv, Awaited
<1>4. paired' # new_login' => (\E d \in Conns : d = n /\ (Awaited(d) \/ Over(d)))'
  BY <1>3
<1>. QED BY <1>1, <1>2, <1>4 DEF PairInv

\* The loop of start(), from a place where the last connection is left.
LEMMA PairLoop ==
  ASSUME LifeInv, PairInv, Loop, UNCHANGED <<paired, new_login, flagged>>,
         running => \A c \in Conns : c = n => Left(c)
  PROVE  PairInv'
<1>1. UNCHANGED <<running, reader, cancelled>> BY DEF Loop, Connects, conn
<1>2. CASE running
  <2>1. ASSUME NEW c \in Conns, c = n PROVE ~Awaited(c) /\ ~Over(c)
    BY <1>2, <2>1 DEF LifeInv, Life, Whither, Quiet, Awaited, Over
  <2>2. paired = new_login BY <2>1 DEF PairInv
  <2>3. NewLoginExact' BY DEF PairInv, NewLoginExact
  <2>. QED BY <1>1, <2>2, <2>3 DEF PairInv
<1>3. CASE ~running
  <2>1. main' = "ended" /\ n' = n BY <1>3 DEF Loop, GoesOn
  <2>2. ASSUME NEW c \in Conns, Over(c) PROVE Over(c)'
    BY <1>1, <2>1, <2>2 DEF Over, Quiet
  <2>. QED BY <1>1, <2>1, <2>2, PairStays
<1>. QED BY <1>2, <1>3

\* A reader that is there and not quiet is that of the last connection.
LEMMA ReaderIsLast ==
  ASSUME LifeInv, NEW c \in Conns, ~Quiet(c)
  PROVE  c = n
<1>1. ~Left(c) /\ ~(c > n)
  BY DEF LifeInv, Life, Whither, Quiet, TypeOK
<1>2. n \in 0..MaxConns /\ MaxConns \in Nat
  BY ClientAssumption DEF LifeInv, TypeOK
<1>3. n \in Nat /\ c \in Nat BY <1>2 DEF Conns
<1>. QED BY <1>1, <1>3 DEF Left

LEMMA StepPair == LifeInv /\ PairInv /\ [Next]_vars => PairInv'
<1>. SUFFICES ASSUME LifeInv, PairInv, [Next]_vars PROVE PairInv'
  OBVIOUS
<1>0. /\ Parts /\ Whole /\ Stages /\ n \in Nat /\ \A c \in Conns : c \in Nat /\ c # 0
      /\ \A c \in Conns : Whence(c) /\ Whither(c)
  <2>1. MaxConns \in Nat BY ClientAssumption
  <2>2. Parts /\ Whole /\ Stages /\ \A c \in Conns : Whence(c) /\ Whither(c)
    BY TypesSplit DEF LifeInv, Life
  <2>3. n \in 0..MaxConns BY <2>2 DEF Whole
  <2>. QED BY <2>1, <2>2, <2>3 DEF Conns
<1>1. CASE Start
  <2>1. n = 0 /\ UNCHANGED <<paired, new_login, flagged, reader, cancelled>>
    BY <1>0, <1>1 DEF Start, Connects, creds, Stages
  <2>2. \A c \in Conns : c > n BY <1>0, <2>1
  <2>3. paired = new_login BY <1>0, <2>1 DEF PairInv
  <2>4. \A c \in Conns : reader[c] # "pairing" BY <2>2 DEF LifeInv, TypeOK
  <2>5. NewLoginExact' BY <2>1 DEF PairInv, NewLoginExact
  <2>. QED BY <2>1, <2>3, <2>4, <2>5 DEF PairInv
<1>2. CASE main \in {"connecting", "handshaking"} /\ UNCHANGED <<n, paired, new_login, flagged>>
           /\ UNCHANGED <<running, cancelled>>
           /\ (UNCHANGED reader \/ reader' = [reader EXCEPT ![n] = "reading"])
  <2>1. \A c \in Conns : c = n => ~Awaited(c) /\ ~Over(c)
    BY <1>0, <1>2 DEF Whence, Awaited, Over
  <2>2. paired = new_login BY <2>1 DEF PairInv
  <2>3. NewLoginExact' BY <1>2 DEF PairInv, NewLoginExact
  <2>4. \A c \in Conns : reader'[c] = "pairing" => reader[c] = "pairing"
    BY <1>0, <1>2 DEF Parts
  <2>. QED BY <1>2, <2>2, <2>3, <2>4 DEF PairInv
<1>3. CASE Opened \/ Connected \/ ConnectFails
  BY <1>2, <1>3 DEF Opened, Connected, ConnectFails, creds, history
<1>4. CASE WaitReturns
  <2>1. main = "waiting" /\ closed[n] /\ UNCHANGED <<paired, new_login, flagged>>
    BY <1>4 DEF WaitReturns, IsClosed, creds
  <2>2. CASE running /\ Loop
    <3>1. \A c \in Conns : c = n => Left(c) BY <2>1, <2>2 DEF Left
    <3>. QED BY <2>1, <2>2, <3>1, PairLoop
  <2>3. CASE ~(running /\ Loop)
    <3>1. /\ UNCHANGED <<n, reader, cancelled>> /\ (running' => running)
          /\ main' \in {"sleeping", "ended"}
      BY <1>4, <2>3 DEF WaitReturns, conn
    <3>2. ASSUME NEW c \in Conns, Over(c) PROVE Over(c)'
      BY <3>1, <3>2 DEF Over, Quiet
    <3>. QED BY <2>1, <3>1, <3>2, PairStays
  <2>. QED BY <2>2, <2>3
<1>5. CASE Wake
  <2>1. main = "sleeping" /\ Loop /\ UNCHANGED <<paired, new_login, flagged>>
    BY <1>5 DEF Wake, creds
  <2>2. \A c \in Conns : c = n => Left(c) BY <2>1 DEF Left
  <2>. QED BY <2>1, <2>2, PairLoop
<1>6. ASSUME NEW c \in Conns, FinishClose(c), UNCHANGED <<main, n, reader>>,
             UNCHANGED <<paired, new_login, flagged>>, running' => running,
             reader[c] = "pairing" => ~running'
      PROVE  PairInv'
  <2>1. /\ cancelled'[c] = (reader[c] \notin {"none", "ended"})
        /\ \A d \in Conns \ {c} : cancelled'[d] = cancelled[d]
    BY <1>0, <1>6, Finished
  <2>2. Quiet(c)' BY <1>6, <2>1 DEF Quiet
  <2>3. Awaited(c) => ~running' BY <1>6 DEF Awaited
  <2>4. reader'[c] = "pairing" => reader[c] = "pairing" /\ cancelled'[c] /\ ~running'
    BY <1>6, <2>1
  <2>. QED BY <1>6, <2>1, <2>2, <2>3, <2>4, PairKept
<1>7. CASE Stop
  <2>1. /\ ~running' /\ UNCHANGED <<main, n, reader>> /\ UNCHANGED <<paired, new_login, flagged>>
    BY <1>7 DEF Stop, conn, creds, history
  <2>2. CASE UNCHANGED cancelled
    <3>1. ASSUME NEW c \in Conns, Over(c) PROVE Over(c)'
      BY <2>1, <2>2, <3>1 DEF Over, Quiet
    <3>. QED BY <2>1, <2>2, <3>1, PairStays
  <2>3. CASE n # 0 /\ FinishClose(n)
    <3>1. n \in Conns BY <1>0, <2>3 DEF Whole, Conns
    <3>. QED BY <1>6, <2>1, <2>3, <3>1
  <2>. QED BY <1>7, <2>2, <2>3 DEF Stop, conn
<1>8. CASE StopFinishes
  <2>1. /\ ~running' /\ FinishClose(n)
        /\ UNCHANGED <<main, n, reader>> /\ UNCHANGED <<paired, new_login, flagged>>
    BY <1>0, <1>8 DEF StopFinishes, Stages, Stopping, creds, history
  <2>2. CASE n = 0
    <3>1. n \notin Conns BY <1>0, <2>2
    <3>2. UNCHANGED cancelled BY <1>0, <2>1, <3>1 DEF FinishClose, Parts
    <3>3. ASSUME NEW c \in Conns, Over(c) PROVE Over(c)'
      BY <2>1, <3>2, <3>3 DEF Over, Quiet
    <3>. QED BY <2>1, <3>2, <3>3, PairStays
  <2>3. CASE n # 0
    <3>1. n \in Conns BY <1>0, <2>3 DEF Whole, Conns
    <3>. QED BY <1>6, <2>1, <3>1
  <2>. QED BY <2>2, <2>3
\* A step of a reader from a place that is neither quiet nor a pairing.
<1>9. ASSUME NEW c \in Conns, UNCHANGED supervisor, UNCHANGED <<paired, new_login, flagged>>,
             ~Quiet(c), reader[c] # "pairing", reader'[c] # "pairing",
             \A d \in Conns \ {c} : reader'[d] = reader[d] /\ cancelled'[d] = cancelled[d]
      PROVE  PairInv'
  BY <1>9, PairKept DEF supervisor, Awaited
<1>10. ASSUME NEW c \in Conns, Frame(c) \/ Handled(c) \/ Success(c)
       PROVE  PairInv'
  <2>1. /\ ~cancelled[c] /\ reader[c] \in {"reading", "handling"}
        /\ UNCHANGED supervisor /\ UNCHANGED <<paired, new_login, flagged, cancelled>>
        /\ \E x \in {"reading", "handling", "greeting"} :
             reader' = [reader EXCEPT ![c] = x]
    BY <1>10 DEF Frame, Handled, Success, Reading, Suspended, GoTo, creds, history
  <2>2. /\ reader'[c] # "pairing" /\ \A d \in Conns \ {c} : reader'[d] = reader[d]
    BY <1>0, <2>1 DEF Parts
  <2>. QED BY <1>9, <2>1, <2>2 DEF Quiet
<1>11. ASSUME NEW c \in Conns, NEW r \in Reasons, Fail(c, r) PROVE PairInv'
  <2>1. /\ ~cancelled[c] /\ reader[c] = "reading"
        /\ UNCHANGED supervisor /\ UNCHANGED <<paired, new_login, flagged, cancelled>>
        /\ reader' = [reader EXCEPT ![c] = "failing"]
    BY <1>11 DEF Fail, Reading, GoTo, creds, history
  <2>2. /\ reader'[c] # "pairing" /\ \A d \in Conns \ {c} : reader'[d] = reader[d]
    BY <1>0, <2>1 DEF Parts
  <2>. QED BY <1>9, <2>1, <2>2 DEF Quiet
<1>12. ASSUME NEW c \in Conns, NEW cut \in BOOLEAN, ReadLoopEnds(c, cut),
              UNCHANGED supervisor, UNCHANGED <<paired, new_login, flagged>>,
              Quiet(c) \/ reader[c] # "pairing"
       PROVE  PairInv'
  <2>1. /\ reader'[c] \in {"emitting", "ended"}
        /\ \A d \in Conns \ {c} : reader'[d] = reader[d] /\ cancelled'[d] = cancelled[d]
    BY <1>0, <1>12, LoopEnded
  <2>2. Quiet(c)' BY <2>1 DEF Quiet
  <2>3. ~Awaited(c) BY <1>12 DEF Awaited, Quiet
  <2>. QED BY <1>12, <2>1, <2>2, <2>3, PairKept DEF supervisor
<1>13. ASSUME NEW c \in Conns, HandlerRaises(c) \/ StreamEnds(c) PROVE PairInv'
  <2>1. /\ ReadLoopEnds(c, FALSE) /\ UNCHANGED supervisor
        /\ UNCHANGED <<paired, new_login, flagged>> /\ reader[c] # "pairing"
    BY <1>13 DEF HandlerRaises, StreamEnds, Reading, Suspended, creds
  <2>. QED BY <1>12, <2>1
<1>14. ASSUME NEW c \in Conns, ReaderCancelled(c) PROVE PairInv'
  <2>1. cancelled[c] /\ UNCHANGED supervisor /\ UNCHANGED <<paired, new_login, flagged>>
    BY <1>14 DEF ReaderCancelled, creds
  <2>2. CASE reader[c] = "emitting"
    <3>1. /\ reader' = [reader EXCEPT ![c] = "ended"]
          /\ cancelled' = [cancelled EXCEPT ![c] = FALSE]
      BY <1>14, <2>2 DEF ReaderCancelled, GoTo
    <3>2. /\ reader'[c] = "ended"
          /\ \A d \in Conns \ {c} : reader'[d] = reader[d] /\ cancelled'[d] = cancelled[d]
      BY <1>0, <3>1 DEF Parts
    <3>3. Quiet(c)' /\ ~Awaited(c) BY <2>2, <3>2 DEF Quiet, Awaited
    <3>. QED BY <2>1, <3>2, <3>3, PairKept DEF supervisor
  <2>3. CASE reader[c] # "emitting"
    BY <1>12, <1>14, <2>1, <2>3 DEF ReaderCancelled, Quiet
  <2>. QED BY <2>2, <2>3
<1>15. ASSUME NEW c \in Conns, EmitDone(c) PROVE PairInv'
  <2>1. /\ reader[c] = "emitting" /\ reader' = [reader EXCEPT ![c] = "ended"]
        /\ UNCHANGED supervisor /\ UNCHANGED <<paired, new_login, flagged, cancelled>>
    BY <1>15 DEF EmitDone, Suspended, GoTo, creds, history
  <2>2. /\ reader'[c] = "ended" /\ \A d \in Conns \ {c} : reader'[d] = reader[d]
    BY <1>0, <2>1 DEF Parts
  <2>3. Quiet(c)' /\ ~Awaited(c) BY <2>1, <2>2 DEF Quiet, Awaited
  <2>. QED BY <2>1, <2>2, <2>3, PairKept DEF supervisor
<1>16. ASSUME NEW c \in Conns, FailFinishes(c) PROVE PairInv'
  <2>1. /\ reader[c] = "failing" /\ ~cancelled[c]
        /\ UNCHANGED supervisor /\ UNCHANGED <<paired, new_login, flagged>>
    BY <1>16 DEF FailFinishes, Suspended, creds
  <2>2. CASE ReadLoopEnds(c, TRUE) BY <1>12, <2>1, <2>2
  <2>3. CASE ~ReadLoopEnds(c, TRUE)
    <3>1. /\ reader' = [reader EXCEPT ![c] = "reading"]
          /\ cancelled' = [cancelled EXCEPT ![c] = TRUE]
      BY <1>16, <2>3 DEF FailFinishes, GoTo
    <3>2. /\ reader'[c] = "reading"
          /\ \A d \in Conns \ {c} : reader'[d] = reader[d] /\ cancelled'[d] = cancelled[d]
      BY <1>0, <3>1 DEF Parts
    <3>. QED BY <1>9, <2>1, <3>2 DEF Quiet
  <2>. QED BY <2>2, <2>3
<1>17. ASSUME NEW c \in Conns, PairSuccess(c) PROVE PairInv'
  <2>1. /\ reader[c] = "reading" /\ ~cancelled[c] /\ UNCHANGED supervisor
        /\ UNCHANGED <<new_login, flagged>>
    BY <1>17 DEF PairSuccess, Reading
  <2>2. CASE ws[c] # "open"
    <3>1. ReadLoopEnds(c, FALSE) /\ UNCHANGED paired BY <1>17, <2>2 DEF PairSuccess
    <3>. QED BY <1>12, <2>1, <3>1
  <2>3. CASE ws[c] = "open"
    <3>1. reader' = [reader EXCEPT ![c] = "pairing"] /\ UNCHANGED cancelled /\ paired' = TRUE
      BY <1>17, <2>3 DEF PairSuccess, GoTo
    <3>2. reader'[c] = "pairing" /\ \A d \in Conns \ {c} : reader'[d] = reader[d]
      BY <1>0, <3>1 DEF Parts
    <3>3. c = n BY <2>1, ReaderIsLast DEF Quiet
    <3>4. Awaited(c)' /\ c = n' BY <2>1, <3>1, <3>2, <3>3 DEF Awaited, supervisor
    <3>5. NewLoginExact' BY <2>1 DEF PairInv, NewLoginExact
    <3>6. \A d \in Conns : reader'[d] = "pairing" => IF cancelled'[d] THEN ~running' ELSE paired'
      BY <2>1, <3>1, <3>2 DEF PairInv, supervisor
    <3>7. (\E d \in Conns : d = n /\ (Awaited(d) \/ Over(d)))' BY <3>4
    <3>. QED BY <3>5, <3>6, <3>7 DEF PairInv
  <2>. QED BY <2>2, <2>3
<1>18. ASSUME NEW c \in Conns, PairFinishes(c) PROVE PairInv'
  <2>1. /\ reader[c] = "pairing" /\ ~cancelled[c] /\ new_login' = TRUE
        /\ reader' = [reader EXCEPT ![c] = "reading"]
        /\ UNCHANGED supervisor /\ UNCHANGED <<paired, flagged, cancelled>>
    BY <1>18 DEF PairFinishes, Suspended, GoTo, history
  <2>2. paired BY <2>1 DEF PairInv
  <2>3. paired' = new_login'
    <3>1. paired \in BOOLEAN BY <1>0 DEF Whole
    <3>. QED BY <2>1, <2>2, <3>1
  <2>4. reader'[c] = "reading" /\ \A d \in Conns \ {c} : reader'[d] = reader[d]
    BY <1>0, <2>1 DEF Parts
  <2>5. NewLoginExact' BY <2>1 DEF PairInv, NewLoginExact
  <2>6. \A d \in Conns : reader'[d] = "pairing" => IF cancelled'[d] THEN ~running' ELSE paired'
    BY <2>1, <2>4 DEF PairInv, supervisor
  <2>. QED BY <2>3, <2>5, <2>6 DEF PairInv
<1>19. ASSUME NEW c \in Conns, Greeted(c) PROVE PairInv'
  <2>1. /\ reader[c] = "greeting" /\ ~cancelled[c] /\ new_login' = FALSE /\ paired' = FALSE
        /\ flagged' = flagged \cup {<<paired, new_login>>}
        /\ reader' = [reader EXCEPT ![c] = "handling"]
        /\ UNCHANGED supervisor /\ UNCHANGED cancelled
    BY <1>19 DEF Greeted, Suspended, GoTo, AfterLogin
  <2>2. c = n BY <2>1, ReaderIsLast DEF Quiet
  <2>3. ~Awaited(c) /\ ~Over(c) BY <2>1 DEF Awaited, Over, Quiet
  <2>4. paired = new_login BY <2>2, <2>3 DEF PairInv
  <2>5. NewLoginExact' BY <2>1, <2>4 DEF PairInv, NewLoginExact
  <2>6. reader'[c] = "handling" /\ \A d \in Conns \ {c} : reader'[d] = reader[d]
    BY <1>0, <2>1 DEF Parts
  <2>7. ASSUME NEW d \in Conns, reader'[d] = "pairing" PROVE cancelled'[d] /\ ~running'
    <3>1. d # c /\ reader[d] = "pairing" BY <2>6, <2>7
    <3>2. Quiet(d) BY <2>2, <3>1, ReaderIsLast
    <3>. QED BY <2>1, <3>1, <3>2 DEF Quiet, PairInv, supervisor
  <2>. QED BY <2>1, <2>5, <2>7 DEF PairInv
<1>20. ASSUME UNCHANGED <<supervisor, creds, reader, cancelled, history>> PROVE PairInv'
  <2>1. ASSUME NEW c \in Conns, Over(c) PROVE Over(c)'
    BY <1>20, <2>1 DEF Over, Quiet, supervisor
  <2>. QED BY <1>20, <2>1, PairStays DEF supervisor, creds, history
<1>21. ASSUME NEW c \in Conns, KeepaliveStep(c) \/ Drop(c) PROVE PairInv'
  <2>1. UNCHANGED supervisor /\ UNCHANGED reader /\ UNCHANGED creds /\ UNCHANGED history
    BY <1>21 DEF KeepaliveStep, KeepaliveWakes, PingSent, PingFails, Drop
  <2>2. CASE UNCHANGED cancelled BY <1>20, <2>1, <2>2
  <2>3. CASE ~UNCHANGED cancelled
    <3>1. FinishClose(c) /\ keepalive[c] = "sending"
      BY <1>21, <2>3 DEF KeepaliveStep, KeepaliveWakes, PingSent, PingFails, Drop
    <3>2. reader[c] # "pairing" BY <1>0, <3>1 DEF Whence
    <3>3. UNCHANGED <<main, n, reader>> /\ UNCHANGED <<paired, new_login, flagged>> /\ running' = running
      BY <2>1 DEF supervisor, creds, history
    <3>. QED BY <1>6, <3>1, <3>2, <3>3
  <2>. QED BY <2>2, <2>3
<1>22. CASE UNCHANGED vars BY <1>20, <1>22 DEF vars, conn, supervisor
<1>. QED
  BY <1>1, <1>3, <1>4, <1>5, <1>7, <1>8, <1>10, <1>11, <1>13, <1>14, <1>15, <1>16, <1>17,
     <1>18, <1>19, <1>21, <1>22 DEF Next, ReaderStep

\* The login that follows a pairing, and no other, is told to the application as a new
\* login, for any number of connections and wherever the network, the server and stop()
\* cut in between.
THEOREM NewLoginTold == Spec => []NewLoginExact
<1>1. Init => PairInv BY DEF Init, PairInv, NewLoginExact
<1>2. PairInv => NewLoginExact BY DEF PairInv
<1>. QED BY <1>1, <1>2, StepPair, AlwaysLife, PTL DEF Spec

-----------------------------------------------------------------------------
\* The tools and the client.

\* A login: the connection is open from its success to its end, and a closed one is quiet.
Login(c) ==
  /\ state[c] = "open" =>
       /\ ~closed[c] /\ ~cancelled[c] /\ phase[c] \in {"online", "over"}
       /\ reader[c] \in {"greeting", "reading", "handling", "failing"}
  /\ reader[c] = "greeting" => phase[c] = "online"
  /\ reader[c] \in {"greeting", "reading", "handling"} /\ ~cancelled[c] /\ phase[c] \in {"online", "over"} =>
       state[c] = "open" /\ phase[c] = "online"
  /\ closed[c] => Quiet(c)

\* Before the handshake of a connection the readers of the older ones have told their end.
Handover ==
  \A c, d \in Conns :
    c = n /\ d < n /\ (main = "handshaking" \/ reader[c] # "none") /\ cancelled[d] =>
      reader[d] = "emitting"

\* What stop() leaves on the way to the end.
Ending ==
  /\ main = "handshaking" => \A c \in Conns : c = n /\ closed[c] => ws[c] = "gone"
  /\ ~running => Stopping \/ main \in {"top", "ended"}
  /\ stopper = "closing" => n > 0 /\ main # "connecting"
  /\ stopper = "done" => \A c \in Conns : c = n => ws[c] \in {"none", "opening", "gone"}

\* A connection whose login was told and whose end was not.
Met(c) == reader[c] \in {"reading", "handling", "failing"} /\ phase[c] \in {"online", "over"}

Linked ==
  /\ online \in BOOLEAN
  /\ told = "open" => online
  /\ told = "close" => ~online
  /\ online => \E c \in Conns : Met(c)
  /\ \A c \in Conns : c = n /\ state[c] = "open" /\ ~online => reader[c] = "greeting"

LinkInv == (\A c \in Conns : Login(c)) /\ Handover /\ Ending /\ Linked

\* What _on_update makes of the event.
Hears == online' = (told' = "open" \/ (told' # "close" /\ online))

\* What a step of one connection may do to the links.
Fits(c) ==
  /\ reader[c] = "none" <=> reader'[c] = "none"
  /\ cancelled'[c] => (cancelled[c] /\ reader'[c] = reader[c]) \/ reader'[c] = "emitting" \/ c = n
  /\ ws'[c] = ws[c] \/ ws'[c] = "gone" \/ HasSocket(c)
  /\ closed'[c] => closed[c] \/ reader[c] # "none"
  /\ ws[c] = "gone" => ws'[c] = "gone"

Tells(c) ==
  \/ /\ told' = told /\ (Met(c) => Met(c)')
     /\ state'[c] = "open" => reader'[c] = "greeting" \/ (state[c] = "open" /\ reader[c] # "greeting")
  \/ told' = "close" /\ state'[c] = "closed" /\ reader[c] \notin {"none", "emitting", "ended"}
  \/ told' = "open" /\ Met(c)'

LEMMA LoginKept ==
  ASSUME NEW c \in Conns, Login(c), Same(c), state'[c] = state[c]
  PROVE  Login(c)' /\ (Met(c) <=> Met(c)')
BY DEF Same, Login, Quiet, Met

LEMMA LinkAt ==
  ASSUME LifeInv, LinkInv, NEW c \in Conns, UNCHANGED supervisor,
         \A d \in Conns \ {c} : Same(d) /\ state'[d] = state[d],
         Login(c)', Fits(c), Tells(c), Hears
  PROVE  LinkInv'
<1>1. UNCHANGED <<scenario, main, running, stopper, n>> BY DEF supervisor
<1>2. (\A d \in Conns : Life(d) /\ Login(d)) /\ Handover /\ Ending /\ Linked /\ Bounds
  BY TypesSplit DEF LifeInv, LinkInv
<1>3. n \in Nat /\ \A d \in Conns : d \in Nat /\ ~(d < d)
  <2>1. MaxConns \in Nat BY ClientAssumption
  <2>2. n \in 0..MaxConns BY DEF LifeInv, TypeOK
  <2>. QED BY <2>1, <2>2 DEF Conns
<1>4. \A d \in Conns \ {c} : Login(d)' /\ (Met(d) <=> Met(d)') BY <1>2, LoginKept
<1>5. \A d \in Conns : Login(d)' BY <1>4
<1>6. ASSUME NEW a \in Conns, NEW d \in Conns, a = n', d < n', cancelled'[d],
             main' = "handshaking" \/ reader'[a] # "none"
      PROVE  reader'[d] = "emitting"
  <2>1. reader[a] = "none" <=> reader'[a] = "none" BY DEF Fits, Same
  <2>2. a = n /\ d < n /\ (main = "handshaking" \/ reader[a] # "none") BY <1>1, <1>6, <2>1
  <2>3. cancelled[d] => reader[d] = "emitting" BY <1>2, <2>2 DEF Handover
  <2>4. CASE d = c BY <1>3, <1>6, <2>2, <2>3, <2>4 DEF Fits
  <2>5. CASE d # c BY <1>6, <2>3, <2>5 DEF Same
  <2>. QED BY <2>4, <2>5
<1>7. Handover' BY <1>6 DEF Handover
<1>8. Ending'
  <2>1. ASSUME main' = "handshaking", NEW d \in Conns, d = n', closed'[d] PROVE ws'[d] = "gone"
    <3>1. main = "handshaking" /\ d = n BY <1>1, <2>1
    <3>2. reader[d] = "none" BY <1>2, <3>1 DEF Life, Whence
    <3>3. closed[d] BY <2>1, <3>2 DEF Fits, Same
    <3>4. ws[d] = "gone" BY <1>2, <3>1, <3>3 DEF Ending
    <3>. QED BY <3>4 DEF Fits, Same
  <2>2. ASSUME stopper' = "done", NEW d \in Conns, d = n'
        PROVE  ws'[d] \in {"none", "opening", "gone"}
    <3>1. ws[d] \in {"none", "opening", "gone"} BY <1>1, <1>2, <2>2 DEF Ending
    <3>. QED BY <3>1 DEF Fits, Same, HasSocket
  <2>3. /\ ~running' => Stopping' \/ main' \in {"top", "ended"}
        /\ stopper' = "closing" => n' > 0 /\ main' # "connecting"
    BY <1>1, <1>2 DEF Ending, Stopping
  <2>. QED BY <2>1, <2>2, <2>3 DEF Ending
<1>9. Linked'
  <2>0. /\ online \in BOOLEAN /\ (told = "open" => online) /\ (told = "close" => ~online)
        /\ online => \E d \in Conns : Met(d)
        /\ \A d \in Conns : d = n /\ state[d] = "open" /\ ~online => reader[d] = "greeting"
    BY <1>2 DEF Linked
  <2>1. CASE /\ told' = told /\ (Met(c) => Met(c)')
             /\ state'[c] = "open" => reader'[c] = "greeting" \/ (state[c] = "open" /\ reader[c] # "greeting")
    <3>1. online' = online BY <2>0, <2>1 DEF Hears
    <3>2. online' => \E d \in Conns : Met(d)' BY <1>4, <2>0, <2>1, <3>1
    <3>3. ASSUME NEW d \in Conns, d = n', state'[d] = "open", ~online' PROVE reader'[d] = "greeting"
      <4>1. d = n /\ (state[d] = "open" => reader[d] = "greeting") BY <1>1, <2>0, <3>1, <3>3
      <4>2. CASE d = c BY <2>1, <3>3, <4>1, <4>2
      <4>3. CASE d # c BY <3>3, <4>1, <4>3 DEF Same
      <4>. QED BY <4>2, <4>3
    <3>. QED BY <2>0, <2>1, <3>1, <3>2, <3>3 DEF Linked
  <2>2. CASE told' = "close" /\ state'[c] = "closed" /\ reader[c] \notin {"none", "emitting", "ended"}
    <3>1. ~online' /\ online' \in BOOLEAN BY <2>2 DEF Hears
    <3>2. ASSUME NEW d \in Conns, d = n', state'[d] = "open" PROVE FALSE
      <4>1. d # c /\ d = n BY <1>1, <2>2, <3>2
      <4>2. state[d] = "open" BY <3>2, <4>1
      <4>3. reader[d] # "none" BY <1>2, <4>2 DEF Login
      <4>4. ~(c > n) BY <1>2, <2>2 DEF Bounds
      <4>5. c < n BY <1>3, <4>1, <4>4
      <4>6. cancelled[c] BY <1>2, <2>2, <4>5 DEF Life, Whither, Left, Quiet
      <4>7. reader[c] = "emitting" BY <1>2, <4>1, <4>3, <4>5, <4>6 DEF Handover
      <4>. QED BY <2>2, <4>7
    <3>. QED BY <2>2, <3>1, <3>2 DEF Linked
  <2>3. CASE told' = "open" /\ Met(c)'
    <3>1. online' = TRUE BY <2>3 DEF Hears
    <3>. QED BY <2>3, <3>1 DEF Linked
  <2>. QED BY <2>1, <2>2, <2>3 DEF Tells
<1>. QED BY <1>5, <1>7, <1>8, <1>9 DEF LinkInv

\* The read loop of c ends.
LEMMA EndLink ==
  ASSUME LifeInv, LinkInv, NEW c \in Conns, NEW cut \in BOOLEAN, ReadLoopEnds(c, cut),
         reader[c] \notin {"none", "emitting", "ended"}, UNCHANGED supervisor, UNCHANGED keepalive,
         \A d \in Conns \ {c} : phase'[d] = phase[d] /\ ws'[d] = ws[d],
         ws'[c] = ws[c] \/ ws'[c] = "gone", Hears
  PROVE  LinkInv'
<1>1. Parts BY TypesSplit DEF LifeInv
<1>2. /\ closed'[c] = TRUE /\ cancelled'[c] = FALSE /\ told' = "close"
      /\ reader'[c] \in {"emitting", "ended"}
      /\ \A d \in Conns \ {c} :
           /\ closed'[d] = closed[d] /\ cancelled'[d] = cancelled[d]
           /\ reader'[d] = reader[d] /\ reason'[d] = reason[d]
  BY <1>1, LoopEnded
<1>3. state' = [state EXCEPT ![c] = "closed"] BY DEF ReadLoopEnds
<1>4. state'[c] = "closed" /\ \A d \in Conns \ {c} : state'[d] = state[d] BY <1>1, <1>3 DEF Parts
<1>5. \A d \in Conns \ {c} : Same(d) /\ state'[d] = state[d] BY <1>2, <1>4 DEF Same
<1>6. Login(c)' BY <1>2, <1>4 DEF Login, Quiet
<1>7. Fits(c) BY <1>2 DEF Fits
<1>8. Tells(c) BY <1>2, <1>4 DEF Tells
<1>. QED BY <1>5, <1>6, <1>7, <1>8, LinkAt

\* A step of one connection or of its keepalive.
ConnStep(c) ==
  \/ Frame(c) \/ HandlerRaises(c) \/ PairSuccess(c) \/ Success(c)
  \/ \E r \in Reasons : Fail(c, r)
  \/ ReaderStep(c) \/ KeepaliveStep(c) \/ Drop(c)

LEMMA ConnLink ==
  ASSUME LifeInv, LinkInv, NEW c \in Conns, ConnStep(c), Hears
  PROVE  LinkInv'
<1>0. /\ Parts /\ Bounds /\ Login(c) /\ Life(c) /\ told \in {"none", "connecting", "open", "close"}
  BY TypesSplit DEF LifeInv, LinkInv, Whole
<1>. DEFINE Quietly == \A d \in Conns \ {c} : Same(d) /\ state'[d] = state[d]
\* Only the reader moves on, its login is as it was.
<1>1. ASSUME NEW at, reader' = [reader EXCEPT ![c] = at], at # "none", reader[c] # "none", at # "failing",
             UNCHANGED <<supervisor, ws, state, closed, reason, cancelled, keepalive, phase>>,
             Login(c)', cancelled'[c] => (cancelled[c] /\ at = reader[c]) \/ at = "emitting",
             Tells(c)
      PROVE  LinkInv'
  <2>1. reader'[c] = at /\ \A d \in Conns \ {c} : reader'[d] = reader[d] BY <1>0, <1>1 DEF Parts
  <2>2. Quietly BY <1>1, <2>1 DEF Same
  <2>3. Fits(c) BY <1>1, <2>1 DEF Fits
  <2>. QED BY <1>1, <2>2, <2>3, LinkAt
<1>2. CASE Frame(c)
  <2>1. /\ reader[c] = "reading" /\ ~cancelled[c] /\ reader' = [reader EXCEPT ![c] = "handling"]
        /\ UNCHANGED <<supervisor, ws, state, closed, reason, cancelled, keepalive, phase, told>>
    BY <1>2 DEF Frame, Reading, GoTo, history
  <2>2. reader'[c] = "handling" BY <1>0, <2>1 DEF Parts
  <2>3. Login(c)' BY <1>0, <2>1, <2>2 DEF Login, Quiet
  <2>4. Tells(c) BY <2>1, <2>2 DEF Tells, Met
  <2>5. cancelled'[c] = FALSE BY <1>0, <2>1 DEF Parts
  <2>. QED BY <1>1, <2>1, <2>3, <2>4, <2>5
<1>3. CASE Handled(c)
  <2>1. /\ reader[c] = "handling" /\ ~cancelled[c] /\ reader' = [reader EXCEPT ![c] = "reading"]
        /\ UNCHANGED <<supervisor, ws, state, closed, reason, cancelled, keepalive, phase, told>>
    BY <1>3 DEF Handled, Suspended, GoTo, history
  <2>2. reader'[c] = "reading" BY <1>0, <2>1 DEF Parts
  <2>3. Login(c)' BY <1>0, <2>1, <2>2 DEF Login, Quiet
  <2>4. Tells(c) BY <2>1, <2>2 DEF Tells, Met
  <2>5. cancelled'[c] = FALSE BY <1>0, <2>1 DEF Parts
  <2>. QED BY <1>1, <2>1, <2>3, <2>4, <2>5
<1>4. CASE PairFinishes(c)
  <2>1. /\ reader[c] = "pairing" /\ ~cancelled[c] /\ reader' = [reader EXCEPT ![c] = "reading"]
        /\ UNCHANGED <<supervisor, ws, state, closed, reason, cancelled, keepalive, phase>>
        /\ UNCHANGED told
    BY <1>4 DEF PairFinishes, Suspended, GoTo, history
  <2>2. reader'[c] = "reading" BY <1>0, <2>1 DEF Parts
  <2>6. phase[c] = "paired" BY <1>0, <2>1 DEF Life, Whence
  <2>3. Login(c)' BY <1>0, <2>1, <2>2, <2>6 DEF Login, Quiet
  <2>4. Tells(c) BY <1>0, <2>1, <2>2 DEF Tells, Met, Login
  <2>5. cancelled'[c] = FALSE BY <1>0, <2>1 DEF Parts
  <2>. QED BY <1>1, <2>1, <2>3, <2>4, <2>5
<1>5. CASE Greeted(c)
  <2>1. /\ reader[c] = "greeting" /\ ~cancelled[c] /\ reader' = [reader EXCEPT ![c] = "handling"]
        /\ UNCHANGED <<supervisor, ws, state, closed, reason, cancelled, keepalive, phase>>
        /\ told' = "open"
    BY <1>5 DEF Greeted, Suspended, GoTo
  <2>2. reader'[c] = "handling" BY <1>0, <2>1 DEF Parts
  <2>3. Login(c)' BY <1>0, <2>1, <2>2 DEF Login, Quiet
  <2>4. Tells(c) BY <1>0, <2>1, <2>2 DEF Tells, Met, Login
  <2>5. cancelled'[c] = FALSE BY <1>0, <2>1 DEF Parts
  <2>. QED BY <1>1, <2>1, <2>3, <2>4, <2>5
<1>6. CASE EmitDone(c)
  <2>1. /\ reader[c] = "emitting" /\ ~cancelled[c] /\ reader' = [reader EXCEPT ![c] = "ended"]
        /\ UNCHANGED <<supervisor, ws, state, closed, reason, cancelled, keepalive, phase, told>>
    BY <1>6 DEF EmitDone, Suspended, GoTo, history
  <2>2. reader'[c] = "ended" BY <1>0, <2>1 DEF Parts
  <2>3. Login(c)' BY <1>0, <2>1, <2>2 DEF Login, Quiet
  <2>4. Tells(c) BY <1>0, <2>1, <2>2 DEF Tells, Met, Login
  <2>5. cancelled'[c] = FALSE BY <1>0, <2>1 DEF Parts
  <2>. QED BY <1>1, <2>1, <2>3, <2>4, <2>5
<1>7. CASE ReaderCancelled(c)
  <2>1. CASE reader[c] = "emitting"
    <3>1. /\ cancelled[c] /\ reader' = [reader EXCEPT ![c] = "ended"]
          /\ cancelled' = [cancelled EXCEPT ![c] = FALSE]
          /\ UNCHANGED <<supervisor, ws, state, closed, reason, keepalive, phase, told>>
      BY <1>7, <2>1 DEF ReaderCancelled, GoTo
    <3>2. /\ reader'[c] = "ended" /\ cancelled'[c] = FALSE
          /\ \A d \in Conns \ {c} : reader'[d] = reader[d] /\ cancelled'[d] = cancelled[d]
      BY <1>0, <3>1 DEF Parts
    <3>3. Quietly BY <3>1, <3>2 DEF Same
    <3>4. Login(c)' BY <1>0, <3>1, <3>2 DEF Login, Quiet
    <3>5. Fits(c) BY <2>1, <3>1, <3>2 DEF Fits
    <3>6. Tells(c) BY <1>0, <2>1, <3>1, <3>2 DEF Tells, Met, Login
    <3>. QED BY <3>1, <3>3, <3>4, <3>5, <3>6, LinkAt
  <2>2. CASE reader[c] # "emitting"
    <3>1. ReadLoopEnds(c, FALSE) /\ UNCHANGED <<supervisor, ws, keepalive, phase>> /\ cancelled[c]
      BY <1>7, <2>2 DEF ReaderCancelled
    <3>2. reader[c] \notin {"none", "emitting", "ended"} BY <1>0, <2>2, <3>1 DEF Bounds
    <3>. QED BY <3>1, <3>2, EndLink
  <2>. QED BY <2>1, <2>2
<1>8. CASE HandlerRaises(c) \/ StreamEnds(c)
  <2>1. ReadLoopEnds(c, FALSE) /\ UNCHANGED <<supervisor, ws, keepalive, phase>>
        /\ reader[c] \in {"reading", "handling"}
    BY <1>8 DEF HandlerRaises, StreamEnds, Reading, Suspended
  <2>. QED BY <2>1, EndLink
<1>9. CASE PairSuccess(c)
  <2>1. /\ reader[c] = "reading" /\ ~cancelled[c] /\ phase[c] = "pair"
        /\ phase' = [phase EXCEPT ![c] = "paired"]
        /\ UNCHANGED <<supervisor, ws, keepalive>>
    BY <1>9 DEF PairSuccess, Reading
  <2>2. phase'[c] = "paired" /\ \A d \in Conns \ {c} : phase'[d] = phase[d] BY <1>0, <2>1 DEF Parts
  <2>3. CASE ws[c] = "open"
    <3>1. reader' = [reader EXCEPT ![c] = "pairing"]
          /\ UNCHANGED <<state, closed, reason, cancelled, told>>
      BY <1>9, <2>3 DEF PairSuccess, GoTo
    <3>2. reader'[c] = "pairing" /\ \A d \in Conns \ {c} : reader'[d] = reader[d]
      BY <1>0, <3>1 DEF Parts
    <3>3. Quietly BY <2>1, <2>2, <3>1, <3>2 DEF Same
    <3>4. Login(c)' BY <1>0, <2>1, <2>2, <3>1, <3>2 DEF Login, Quiet
    <3>5. Fits(c) BY <2>1, <3>1, <3>2 DEF Fits
    <3>6. Tells(c) BY <1>0, <2>1, <2>2, <3>1, <3>2 DEF Tells, Met, Login
    <3>. QED BY <2>1, <3>3, <3>4, <3>5, <3>6, LinkAt
  <2>4. CASE ws[c] # "open"
    <3>1. ReadLoopEnds(c, FALSE) BY <1>9, <2>4 DEF PairSuccess
    <3>. QED BY <2>1, <2>2, <3>1, EndLink
  <2>. QED BY <2>3, <2>4
<1>10. CASE Success(c)
  <2>1. /\ reader[c] = "reading" /\ ~cancelled[c] /\ phase[c] = "login"
        /\ phase' = [phase EXCEPT ![c] = "online"] /\ state' = [state EXCEPT ![c] = "open"]
        /\ keepalive' = [keepalive EXCEPT ![c] = "asleep"]
        /\ reader' = [reader EXCEPT ![c] = "greeting"]
        /\ UNCHANGED <<supervisor, ws, closed, reason, cancelled, told>>
    BY <1>10 DEF Success, Reading, GoTo, history
  <2>2. /\ phase'[c] = "online" /\ state'[c] = "open" /\ reader'[c] = "greeting"
        /\ \A d \in Conns \ {c} : /\ phase'[d] = phase[d] /\ state'[d] = state[d]
                                  /\ reader'[d] = reader[d] /\ keepalive'[d] = keepalive[d]
    BY <1>0, <2>1 DEF Parts
  <2>3. Quietly BY <2>1, <2>2 DEF Same
  <2>4. Login(c)' BY <1>0, <2>1, <2>2 DEF Login, Quiet
  <2>5. Fits(c) BY <2>1, <2>2 DEF Fits
  <2>6. Tells(c) BY <2>1, <2>2 DEF Tells, Met
  <2>. QED BY <2>1, <2>3, <2>4, <2>5, <2>6, LinkAt
<1>11. ASSUME NEW r \in Reasons, Fail(c, r) PROVE LinkInv'
  <2>1. /\ reader[c] = "reading" /\ ~cancelled[c] /\ HasSocket(c)
        /\ phase' = [phase EXCEPT ![c] = "over"] /\ reason' = [reason EXCEPT ![c] = r]
        /\ keepalive' = [keepalive EXCEPT ![c] = EndKeepalive(@)]
        /\ ws' = [ws EXCEPT ![c] = "closing"]
        /\ reader' = [reader EXCEPT ![c] = "failing"]
        /\ UNCHANGED <<supervisor, state, closed, cancelled, told>>
    BY <1>11 DEF Fail, Reading, GoTo, history
  <2>2. /\ phase'[c] = "over" /\ reader'[c] = "failing" /\ ws'[c] = "closing"
        /\ \A d \in Conns \ {c} : /\ phase'[d] = phase[d] /\ reason'[d] = reason[d]
                                  /\ reader'[d] = reader[d] /\ keepalive'[d] = keepalive[d]
                                  /\ ws'[d] = ws[d]
    BY <1>0, <2>1 DEF Parts
  <2>3. Quietly BY <2>1, <2>2 DEF Same
  <2>4. Login(c)' BY <1>0, <2>1, <2>2 DEF Login, Quiet
  <2>5. Fits(c) BY <2>1, <2>2 DEF Fits, HasSocket
  <2>6. Tells(c) BY <2>1, <2>2 DEF Tells, Met
  <2>. QED BY <2>1, <2>3, <2>4, <2>5, <2>6, LinkAt
<1>12. CASE FailFinishes(c)
  <2>1. /\ reader[c] = "failing" /\ ~cancelled[c] /\ ws' = [ws EXCEPT ![c] = AfterClose(@)]
        /\ UNCHANGED <<supervisor, keepalive, phase>>
    BY <1>12 DEF FailFinishes, Suspended
  <2>2. phase[c] = "over" /\ ws[c] \in {"closing", "gone"} BY <1>0, <2>1 DEF Life, Whence
  <2>3. ws'[c] = "gone" /\ \A d \in Conns \ {c} : ws'[d] = ws[d]
    BY <1>0, <2>1, <2>2 DEF Parts, AfterClose
  <2>4. CASE ReadLoopEnds(c, TRUE) BY <2>1, <2>3, <2>4, EndLink
  <2>5. CASE /\ GoTo(c, "reading") /\ cancelled' = [cancelled EXCEPT ![c] = TRUE]
             /\ state' = [state EXCEPT ![c] = "closed"] /\ closed' = [closed EXCEPT ![c] = TRUE]
             /\ UNCHANGED <<reason, told>>
    <3>1. /\ reader'[c] = "reading" /\ cancelled'[c] = TRUE /\ state'[c] = "closed" /\ closed'[c] = TRUE
          /\ \A d \in Conns \ {c} :
               /\ reader'[d] = reader[d] /\ cancelled'[d] = cancelled[d]
               /\ state'[d] = state[d] /\ closed'[d] = closed[d]
      BY <1>0, <2>5 DEF Parts, GoTo
    <3>2. Quietly BY <2>1, <2>3, <2>5, <3>1 DEF Same
    <3>3. Login(c)' BY <3>1 DEF Login, Quiet
    <3>4. c = n
      <4>1. ~(c > n) BY <1>0, <2>1 DEF Bounds
      <4>2. ~(c < n) BY <1>0, <2>1 DEF Life, Whither, Left, Quiet
      <4>3. MaxConns \in Nat /\ n \in 0..MaxConns BY ClientAssumption DEF LifeInv, TypeOK
      <4>. QED BY <4>1, <4>2, <4>3 DEF Conns
    <3>5. Fits(c) BY <2>1, <2>3, <3>1, <3>4 DEF Fits
    <3>6. Tells(c) BY <2>1, <2>2, <2>5, <3>1 DEF Tells, Met
    <3>. QED BY <2>1, <3>2, <3>3, <3>5, <3>6, LinkAt
  <2>. QED BY <1>12, <2>4, <2>5 DEF FailFinishes
<1>13. CASE KeepaliveWakes(c) \/ PingSent(c)
  <2>1. /\ UNCHANGED <<supervisor, ws, state, closed, reason, reader, cancelled, phase, told>>
        /\ \E k : keepalive' = [keepalive EXCEPT ![c] = k]
    BY <1>13 DEF KeepaliveWakes, PingSent, history
  <2>2. \A d \in Conns \ {c} : keepalive'[d] = keepalive[d] BY <1>0, <2>1 DEF Parts
  <2>3. Quietly BY <2>1, <2>2 DEF Same
  <2>4. Login(c)' BY <1>0, <2>1 DEF Login, Quiet
  <2>5. Fits(c) BY <2>1 DEF Fits
  <2>6. Tells(c) BY <2>1 DEF Tells, Met
  <2>. QED BY <2>1, <2>3, <2>4, <2>5, <2>6, LinkAt
<1>14. CASE PingFails(c)
  <2>1. /\ keepalive[c] = "sending" /\ UNCHANGED <<supervisor, reader, phase, told>>
        /\ reason' = [reason EXCEPT ![c] = "lost"] /\ keepalive' = [keepalive EXCEPT ![c] = "ended"]
    BY <1>14 DEF PingFails, history
  <2>2. /\ \A d \in Conns \ {c} : reason'[d] = reason[d] /\ keepalive'[d] = keepalive[d]
        /\ reader[c] # "none"
    BY <1>0, <2>1 DEF Parts, Life, Whence
  <2>3. CASE FinishClose(c)
    <3>1. /\ ws'[c] = AfterClose(ws[c]) /\ closed'[c] = TRUE
          /\ cancelled'[c] = (reader[c] \notin {"none", "ended"})
          /\ \A d \in Conns \ {c} :
               /\ ws'[d] = ws[d] /\ closed'[d] = closed[d] /\ cancelled'[d] = cancelled[d]
      BY <1>0, <2>3, Finished
    <3>2. state'[c] = "closed" /\ \A d \in Conns \ {c} : state'[d] = state[d]
      BY <1>0, <2>3 DEF FinishClose, Parts
    <3>3. ws'[c] = "gone"
      <4>1. ws[c] # "opening" BY <1>0, <2>2 DEF Life, Whence
      <4>. QED BY <3>1, <4>1 DEF AfterClose
    <3>4. Quietly BY <2>1, <2>2, <3>1, <3>2 DEF Same
    <3>5. Login(c)' BY <2>1, <3>1, <3>2, <1>0 DEF Login, Quiet
    <3>6. c = n \/ (cancelled'[c] => cancelled[c] \/ reader[c] = "emitting")
      <4>1. ~(c > n) BY <1>0, <2>2 DEF Bounds
      <4>2. MaxConns \in Nat /\ n \in 0..MaxConns BY ClientAssumption DEF LifeInv, TypeOK
      <4>3. c = n \/ c < n BY <4>1, <4>2 DEF Conns
      <4>4. c < n => Quiet(c) BY <1>0 DEF Life, Whither, Left
      <4>. QED BY <3>1, <4>3, <4>4 DEF Quiet
    <3>7. Fits(c) BY <2>1, <2>2, <3>1, <3>3, <3>6 DEF Fits
    <3>8. Tells(c) BY <2>1, <3>2 DEF Tells, Met
    <3>. QED BY <2>1, <3>4, <3>5, <3>7, <3>8, LinkAt
  <2>4. CASE UNCHANGED <<ws, cancelled, state, closed>>
    <3>1. Quietly BY <2>1, <2>2, <2>4 DEF Same
    <3>2. Login(c)' BY <1>0, <2>1, <2>4 DEF Login, Quiet
    <3>3. Fits(c) BY <2>1, <2>4 DEF Fits
    <3>4. Tells(c) BY <2>1, <2>4 DEF Tells, Met
    <3>. QED BY <2>1, <3>1, <3>2, <3>3, <3>4, LinkAt
  <2>. QED BY <1>14, <2>3, <2>4 DEF PingFails
<1>15. CASE Drop(c)
  <2>1. /\ ws[c] = "open" /\ ws' = [ws EXCEPT ![c] = "lost"]
        /\ UNCHANGED <<supervisor, state, closed, reason, reader, cancelled, keepalive, phase, told>>
    BY <1>15 DEF Drop, history
  <2>2. \A d \in Conns \ {c} : ws'[d] = ws[d] BY <1>0, <2>1 DEF Parts
  <2>3. Quietly BY <2>1, <2>2 DEF Same
  <2>4. Login(c)' BY <1>0, <2>1 DEF Login, Quiet
  <2>5. Fits(c) BY <2>1 DEF Fits, HasSocket
  <2>6. Tells(c) BY <2>1 DEF Tells, Met
  <2>. QED BY <2>1, <2>3, <2>4, <2>5, <2>6, LinkAt
<1>. QED BY <1>2, <1>3, <1>4, <1>5, <1>6, <1>7, <1>8, <1>9, <1>10, <1>11, <1>12, <1>13, <1>14, <1>15
     DEF ConnStep, ReaderStep, KeepaliveStep

\* The links that depend on the supervisor stay where it does nothing to the readers.
LEMMA LinkedKept ==
  ASSUME LinkInv, Hears, UNCHANGED <<reader, phase>>,
         \/ told' = "connecting" \/ told' = told
         \/ told' = "close" /\ \A c \in Conns : c = n' => state'[c] # "open",
         \A c \in Conns : c = n' /\ state'[c] = "open" => c = n /\ state[c] = "open"
  PROVE  Linked'
<1>0. Linked BY DEF LinkInv
<1>1. CASE told' = "close" /\ \A c \in Conns : c = n' => state'[c] # "open"
  <2>1. ~online' /\ online' \in BOOLEAN BY <1>1 DEF Hears
  <2>. QED BY <1>1, <2>1 DEF Linked
<1>2. CASE told' = "connecting" \/ told' = told
  <2>1. online' = online /\ online \in BOOLEAN BY <1>0, <1>2 DEF Hears, Linked
  <2>2. online' => \E c \in Conns : Met(c)' BY <1>0, <2>1 DEF Linked, Met
  <2>3. \A c \in Conns : c = n' /\ state'[c] = "open" /\ ~online' => reader'[c] = "greeting"
    BY <1>0, <2>1 DEF Linked
  <2>4. (told' = "open" => online') /\ (told' = "close" => ~online')
    BY <1>0, <1>2, <2>1 DEF Linked
  <2>. QED BY <2>1, <2>2, <2>3, <2>4 DEF Linked
<1>. QED BY <1>1, <1>2

\* start() makes a connection.
LEMMA ConnectsLink ==
  ASSUME LifeInv, LinkInv, Connects, running', ~Stopping, UNCHANGED stopper, Hears
  PROVE  LinkInv'
<1>0. /\ Parts /\ Bounds /\ (\A c \in Conns : Life(c) /\ Login(c)) /\ Handover
  BY TypesSplit DEF LifeInv, LinkInv
<1>a. MaxConns \in Nat /\ n \in Nat /\ \A c \in Conns : c \in Nat /\ c # 0
  <2>1. MaxConns \in Nat BY ClientAssumption
  <2>2. n \in 0..MaxConns BY DEF LifeInv, TypeOK
  <2>. QED BY <2>1, <2>2 DEF Conns
<1>1. /\ n' = n + 1 /\ main' = "connecting" /\ state' = [state EXCEPT ![n + 1] = "connecting"]
      /\ told' = "connecting"
      /\ UNCHANGED <<closed, reason, reader, cancelled, keepalive, phase>>
  BY DEF Connects
<1>2. \A c \in Conns : state'[c] = IF c = n' THEN "connecting" ELSE state[c]
  BY <1>0, <1>1 DEF Parts
<1>3. \A c \in Conns : c = n' => c > n BY <1>a, <1>1
<1>4. \A c \in Conns : c = n' => reader[c] = "none" /\ ~closed[c] /\ ~cancelled[c]
  BY <1>0, <1>3 DEF Bounds, Life, Whence
<1>5. ASSUME NEW c \in Conns PROVE Login(c)'
  <2>1. CASE c = n' BY <1>1, <1>2, <1>4, <2>1 DEF Login
  <2>2. CASE c # n' BY <1>0, <1>1, <1>2, <2>2 DEF Login, Quiet
  <2>. QED BY <2>1, <2>2
<1>6. Handover' BY <1>1, <1>4 DEF Handover
<1>7. Ending' BY <1>1 DEF Ending, Stopping
<1>8. Linked' BY <1>1, <1>2, LinkedKept
<1>. QED BY <1>5, <1>6, <1>7, <1>8 DEF LinkInv

\* The loop of start().
LEMMA LoopLink ==
  ASSUME LifeInv, LinkInv, Loop, UNCHANGED stopper, main # "connecting", Hears
  PROVE  LinkInv'
<1>1. CASE ~running
  <2>1. main' = "ended" /\ UNCHANGED <<n, ws, state, told, running, closed, reason, reader,
                                      cancelled, keepalive, phase>>
    BY <1>1 DEF Loop, GoesOn, conn
  <2>2. \A c \in Conns : Login(c)' BY <2>1 DEF LinkInv, Login, Quiet
  <2>3. Handover' BY <2>1 DEF LinkInv, Handover
  <2>4. Ending' BY <2>1 DEF LinkInv, Ending, Stopping
  <2>5. Linked' BY <2>1, LinkedKept
  <2>. QED BY <2>2, <2>3, <2>4, <2>5 DEF LinkInv
<1>2. CASE running
  <2>1. Connects /\ running' /\ ~Stopping BY <1>2 DEF Loop, GoesOn, LifeInv, Stages
  <2>. QED BY <2>1, ConnectsLink
<1>. QED BY <1>1, <1>2

\* close() ends for the last connection, by stop().
LEMMA CloseLink ==
  ASSUME LifeInv, LinkInv, FinishClose(n), n # 0, main # "connecting" \/ ws[n] = "opening",
         stopper' = "done", UNCHANGED <<main, n, reader, phase, told>>, Hears
  PROVE  LinkInv'
<1>0. /\ Parts /\ Bounds /\ (\A c \in Conns : Life(c) /\ Login(c)) /\ Handover /\ Ending
  BY TypesSplit DEF LifeInv, LinkInv
<1>1. n \in Conns /\ n \in Nat
  <2>1. MaxConns \in Nat /\ n \in 0..MaxConns BY ClientAssumption DEF LifeInv, TypeOK
  <2>. QED BY <2>1 DEF Conns
<1>2. /\ ws'[n] = AfterClose(ws[n]) /\ closed'[n] = TRUE
      /\ cancelled'[n] = (reader[n] \notin {"none", "ended"})
      /\ \A d \in Conns \ {n} :
           /\ ws'[d] = ws[d] /\ closed'[d] = closed[d] /\ cancelled'[d] = cancelled[d]
  BY <1>0, <1>1, Finished
<1>3. state'[n] = "closed" /\ \A d \in Conns \ {n} : state'[d] = state[d]
  BY <1>0, <1>1 DEF FinishClose, Parts
<1>4. Login(n)' BY <1>0, <1>1, <1>2, <1>3 DEF Login, Quiet
<1>5. \A c \in Conns \ {n} : Login(c)' BY <1>0, <1>2, <1>3 DEF Login, Quiet
<1>6. Handover'
  <2>1. ~(n < n) BY <1>1
  <2>. QED BY <1>0, <1>2, <2>1 DEF Handover
<1>7. Ending'
  <2>1. ws'[n] \in {"opening", "gone"} BY <1>2 DEF AfterClose
  <2>2. main = "handshaking" => ws'[n] = "gone"
    <3>1. ws[n] = "opening" => main = "connecting" BY <1>0, <1>1 DEF Life, Whence
    <3>. QED BY <1>2, <3>1 DEF AfterClose
  <2>. QED BY <2>1, <2>2 DEF Ending, Stopping
<1>8. Linked' BY <1>1, <1>3, LinkedKept
<1>. QED BY <1>4, <1>5, <1>6, <1>7, <1>8 DEF LinkInv

LEMMA StepLink ==
  ASSUME LifeInv, LinkInv, Next, ~(stopper = "done" /\ main = "connecting"), Hears
  PROVE  LinkInv'
<1>0. /\ Whole /\ Parts /\ Bounds /\ Stages /\ (\A c \in Conns : Life(c) /\ Login(c))
      /\ Handover /\ Ending /\ Linked
  BY TypesSplit DEF LifeInv, LinkInv
<1>a. MaxConns \in Nat /\ n \in Nat /\ \A c \in Conns : c \in Nat /\ c # 0
  <2>1. MaxConns \in Nat BY ClientAssumption
  <2>2. n \in 0..MaxConns BY <1>0 DEF Whole
  <2>. QED BY <2>1, <2>2 DEF Conns
<1>1. CASE Start \/ Wake
  <2>1. CASE Start
    <3>1. Connects /\ running' /\ ~Stopping /\ UNCHANGED stopper
      BY <1>0, <2>1 DEF Start, Stages
    <3>. QED BY <3>1, ConnectsLink
  <2>2. CASE Wake BY <2>2, LoopLink DEF Wake
  <2>. QED BY <1>1, <2>1, <2>2
<1>2. CASE Opened
  <2>1. /\ main = "connecting" /\ main' = "handshaking" /\ \A c \in Conns : ~cancelled[c]
        /\ UNCHANGED <<running, stopper, n, state, closed, reader, cancelled, phase, told>>
    BY <1>2 DEF Opened, history
  <2>2. \A c \in Conns : Login(c)' BY <1>0, <2>1 DEF Login, Quiet
  <2>3. Handover' BY <2>1 DEF Handover
  <2>4. ~Stopping BY <1>0, <2>1 DEF Ending, Stopping
  <2>5. running BY <1>0, <2>1, <2>4 DEF Ending
  <2>6. \A c \in Conns : c = n => ~closed[c] BY <1>0, <2>1, <2>5 DEF Life, Whence
  <2>7. Ending' BY <2>1, <2>4, <2>5, <2>6 DEF Ending, Stopping
  <2>8. Linked' BY <2>1, LinkedKept
  <2>. QED BY <2>2, <2>3, <2>7, <2>8 DEF LinkInv
<1>3. CASE Connected
  <2>1. /\ main = "handshaking" /\ ws[n] = "open" /\ main' = "waiting"
        /\ reader' = [reader EXCEPT ![n] = "reading"]
        /\ \E p \in {"pair", "login", "refuse"} : phase' = [phase EXCEPT ![n] = p]
        /\ UNCHANGED <<running, stopper, n, ws, state, closed, cancelled, told>>
    BY <1>3 DEF Connected, history
  <2>2. /\ \A c \in Conns : c = n => reader'[c] = "reading" /\ phase'[c] \in {"pair", "login", "refuse"}
        /\ \A c \in Conns : c # n => reader'[c] = reader[c] /\ phase'[c] = phase[c]
    BY <1>0, <2>1 DEF Parts
  <2>3. \A c \in Conns : c = n => ~closed[c] /\ reader[c] = "none" /\ state[c] # "open"
    BY <1>0, <2>1 DEF Ending, Life, Whence, Login
  <2>4. ASSUME NEW c \in Conns PROVE Login(c)'
    <3>1. CASE c = n BY <2>1, <2>2, <2>3, <3>1 DEF Login
    <3>2. CASE c # n BY <1>0, <2>1, <2>2, <3>2 DEF Login, Quiet
    <3>. QED BY <3>1, <3>2
  <2>5. Handover'
    <3>1. \A d \in Conns : d < n => d # n BY <1>a
    <3>. QED BY <1>0, <2>1, <2>2, <3>1 DEF Handover
  <2>6. Ending' BY <1>0, <2>1 DEF Ending, Stopping
  <2>7. Linked'
    <3>1. online' = online BY <1>0, <2>1 DEF Hears, Linked
    <3>2. \A c \in Conns : Met(c) => Met(c)' BY <2>2, <2>3 DEF Met
    <3>3. online' => \E c \in Conns : Met(c)' BY <1>0, <3>1, <3>2 DEF Linked
    <3>4. \A c \in Conns : c = n' => state'[c] # "open" BY <2>1, <2>3
    <3>. QED BY <1>0, <2>1, <3>1, <3>3, <3>4 DEF Linked
  <2>. QED BY <2>4, <2>5, <2>6, <2>7 DEF LinkInv
<1>4. CASE ConnectFails
  <2>1. /\ main \in {"connecting", "handshaking"} /\ told' = "close"
        /\ main' = IF running THEN "sleeping" ELSE "ended"
        /\ UNCHANGED <<running, stopper, n, state, closed, reader, cancelled, phase>>
        /\ \/ main = "connecting" /\ ws' = [ws EXCEPT ![n] = "none"]
           \/ ws' = ws
    BY <1>4 DEF ConnectFails
  <2>2. \A c \in Conns : c = n => reader[c] = "none" /\ state[c] # "open"
    BY <1>0, <2>1 DEF Life, Whence, Login
  <2>3. \A c \in Conns : Login(c)' BY <1>0, <2>1 DEF Login, Quiet
  <2>4. Handover' BY <2>1, <2>2 DEF Handover
  <2>5. Ending'
    <3>1. \A c \in Conns : ws'[c] = ws[c] \/ ws'[c] = "none" BY <1>0, <2>1 DEF Parts
    <3>. QED BY <1>0, <2>1, <3>1 DEF Ending, Stopping
  <2>6. Linked' BY <2>1, <2>2, LinkedKept
  <2>. QED BY <2>3, <2>4, <2>5, <2>6 DEF LinkInv
<1>5. CASE WaitReturns
  <2>1. main = "waiting" /\ closed[n] /\ UNCHANGED stopper BY <1>5 DEF WaitReturns, IsClosed
  <2>2. CASE Loop BY <2>1, <2>2, LoopLink
  <2>3. CASE /\ UNCHANGED <<n, conn>> /\ (main' = "ended" \/ (main' = "sleeping" /\ running'))
             /\ told' = told \/ told' = "close"
    <3>1. UNCHANGED <<n, ws, state, closed, reader, cancelled, phase>> BY <2>3 DEF conn
    <3>2. \A c \in Conns : c = n => state[c] # "open" BY <1>0, <2>1 DEF Login
    <3>3. \A c \in Conns : Login(c)' BY <1>0, <3>1 DEF Login, Quiet
    <3>4. Handover' BY <1>0, <2>3, <3>1 DEF Handover
    <3>5. Ending' BY <1>0, <2>1, <2>3, <3>1 DEF Ending, Stopping
    <3>6. Linked' BY <2>3, <3>1, <3>2, LinkedKept
    <3>. QED BY <3>3, <3>4, <3>5, <3>6 DEF LinkInv
  <2>4. Loop \/ UNCHANGED <<n, conn>> BY <1>5 DEF WaitReturns
  <2>5. ASSUME ~Loop
        PROVE  (main' = "ended" \/ (main' = "sleeping" /\ running')) /\ (told' = told \/ told' = "close")
    BY <1>5, <2>5 DEF WaitReturns
  <2>. QED BY <2>2, <2>3, <2>4, <2>5
<1>6. CASE Stop
  <2>1. ~running' /\ UNCHANGED <<main, n, told>>
    BY <1>6 DEF Stop, history
  <2>2. CASE n = 0
    <3>1. stopper' = "too_soon" /\ UNCHANGED <<ws, state, closed, reader, cancelled, phase>>
      BY <1>6, <2>2 DEF Stop, conn
    <3>2. \A c \in Conns : Login(c)' BY <1>0, <3>1 DEF Login, Quiet
    <3>3. Handover' BY <1>0, <2>1, <3>1 DEF Handover
    <3>6. main \in {"top", "ended"} BY <1>0, <2>2 DEF Stages, Whole
    <3>4. Ending' BY <2>1, <3>1, <3>6 DEF Ending, Stopping
    <3>5. Linked' BY <2>1, <3>1, LinkedKept
    <3>. QED BY <3>2, <3>3, <3>4, <3>5 DEF LinkInv
  <2>3. CASE n # 0 /\ HasSocket(n)
    <3>1. /\ stopper' = "closing" /\ ws' = [ws EXCEPT ![n] = "closing"]
          /\ UNCHANGED <<state, closed, reader, cancelled, phase>>
      BY <1>6, <2>3 DEF Stop
    <3>2. n \in Conns BY <1>0, <1>a, <2>3 DEF Whole, Conns
    <3>3. ws[n] \notin {"opening", "gone"} BY <2>3 DEF HasSocket
    <3>4. main # "connecting" BY <1>0, <3>2, <3>3 DEF Life, Whence
    <3>5. \A c \in Conns : Login(c)' BY <1>0, <3>1 DEF Login, Quiet
    <3>6. Handover' BY <1>0, <2>1, <3>1 DEF Handover
    <3>7. main = "handshaking" => ~closed[n] BY <1>0, <3>2, <3>3 DEF Ending
    <3>8. Ending' BY <1>a, <2>1, <2>3, <3>1, <3>4, <3>7 DEF Ending, Stopping
    <3>9. Linked' BY <2>1, <3>1, LinkedKept
    <3>. QED BY <3>5, <3>6, <3>8, <3>9 DEF LinkInv
  <2>4. CASE n # 0 /\ ~HasSocket(n)
    <3>1. FinishClose(n) /\ stopper' = "done" /\ UNCHANGED <<reader, phase>>
      BY <1>6, <2>4 DEF Stop
    <3>2. n \in Conns BY <1>0, <1>a, <2>4 DEF Whole, Conns
    <3>3. main # "connecting" \/ ws[n] = "opening" BY <1>0, <3>2 DEF Life, Whence
    <3>. QED BY <2>1, <2>4, <3>1, <3>3, CloseLink
  <2>. QED BY <2>2, <2>3, <2>4
<1>7. CASE StopFinishes
  <2>1. /\ FinishClose(n) /\ stopper' = "done" /\ UNCHANGED <<main, n, reader, phase, told>>
        /\ n # 0 /\ main # "connecting"
    BY <1>0, <1>7 DEF StopFinishes, Ending, history
  <2>. QED BY <2>1, CloseLink
<1>8. ASSUME NEW c \in Conns, ConnStep(c) PROVE LinkInv' BY <1>8, ConnLink
<1>. QED BY <1>1, <1>2, <1>3, <1>4, <1>5, <1>6, <1>7, <1>8 DEF Next, ConnStep

\* A client that is serving, or whose runner was cancelled at the end of stop().
Served ==
  /\ setting \in Settings /\ scenario = setting.client
  /\ ~live => n = 0
  /\ lifespan \in {"serving", "over"}
  /\ lifespan = "over" => stopper \in {"too_soon", "done"} /\ main = "ended"
  /\ stopper = "too_soon" => n = 0 /\ main \in {"top", "ended"}

\* Nobody waits for what is there.
NoneAsleep ==
  /\ call = [c \in Callers |-> call[c]]
  /\ online => qr = {} /\ \A c \in Callers : call[c].at # "asleep"

ServerInv == LifeInv /\ LinkInv /\ Served /\ NoneAsleep

\* A client that is paired handles no frame of an unpaired one.
LEMMA NoneMet ==
  ASSUME LifeInv, LinkInv, NEW c \in Conns, phase[c] = "pair", reader[c] = "handling", ~cancelled[c]
  PROVE  ~online
<1>0. /\ Bounds /\ (\A d \in Conns : Life(d) /\ Login(d)) /\ Handover /\ Linked
  BY TypesSplit DEF LifeInv, LinkInv
<1>1. MaxConns \in Nat /\ n \in Nat /\ \A d \in Conns : d \in Nat
  <2>1. MaxConns \in Nat BY ClientAssumption
  <2>2. n \in 0..MaxConns BY DEF LifeInv, TypeOK
  <2>. QED BY <2>1, <2>2 DEF Conns
<1>2. SUFFICES ASSUME NEW d \in Conns, Met(d) PROVE FALSE BY <1>0 DEF Linked
<1>3. c = n
  <2>1. ~(c > n) BY <1>0 DEF Bounds
  <2>2. ~(c < n) BY <1>0 DEF Life, Whither, Left, Quiet
  <2>. QED BY <1>1, <2>1, <2>2
<1>4. d # c BY <1>2 DEF Met
<1>5. d < n
  <2>1. ~(d > n) BY <1>0, <1>2 DEF Bounds, Met
  <2>. QED BY <1>1, <1>3, <1>4, <2>1
<1>6. cancelled[d] BY <1>0, <1>2, <1>5 DEF Life, Whither, Left, Quiet, Met
<1>7. reader[d] = "emitting" BY <1>0, <1>3, <1>5, <1>6 DEF Handover
<1>. QED BY <1>2, <1>7 DEF Met

\* The tools leave the client as it is.
LEMMA ClientKept ==
  ASSUME LifeInv, LinkInv, UNCHANGED <<client, online>>
  PROVE  LifeInv' /\ LinkInv'
<1>1. UNCHANGED <<scenario, main, running, stopper, n, me, known, new_login, ws, state, closed,
                  reason, reader, cancelled, keepalive, phase, told, paired, flagged, online>>
  BY DEF client, vars, conn, creds, history
<1>2. LifeInv' BY StepLife DEF client
<1>3. \A c \in Conns : Login(c)' BY <1>1 DEF LinkInv, Login, Quiet
<1>4. Handover' /\ Ending' BY <1>1 DEF LinkInv, Handover, Ending, Stopping
<1>5. Linked' BY <1>1 DEF LinkInv, Linked, Met
<1>. QED BY <1>2, <1>3, <1>4, <1>5 DEF LinkInv

LEMMA StepServer ==
  ASSUME ServerInv, ClientStep
  PROVE  ServerInv'
<1>0. LifeInv /\ LinkInv /\ Served /\ NoneAsleep /\ Linked /\ Stages BY DEF ServerInv, LinkInv, LifeInv
<1>1. /\ live /\ ~Leaving /\ UNCHANGED <<setting, live, lifespan>> /\ OnUpdate
      /\ \/ Next /\ qr' = IF told' = "open" THEN {} ELSE qr
         \/ \E c \in 1..MaxConns : phase[c] = "pair" /\ Handled(c) /\ qr' = {c}
  BY DEF ClientStep
<1>2. Next
  <2>1. ASSUME NEW c \in 1..MaxConns, Handled(c) PROVE Next
    BY <2>1 DEF Next, ReaderStep, Conns
  <2>. QED BY <1>1, <2>1
<1>3. stopper \in {"too_soon", "done"} => lifespan = "over" /\ main = "ended"
  BY <1>0, <1>1 DEF Served, Leaving
<1>4. Hears BY <1>1 DEF OnUpdate, Hears
<1>5. LifeInv' BY <1>0, <1>2, StepLife
<1>6. LinkInv' BY <1>0, <1>2, <1>3, <1>4, StepLink
<1>7. UNCHANGED scenario
  BY <1>2 DEF Next, Start, Opened, Connected, ConnectFails, WaitReturns, Wake, Stop, StopFinishes,
       Frame, HandlerRaises, PairSuccess, Success, Fail, ReaderStep, Handled, PairFinishes, Greeted,
       FailFinishes, StreamEnds, ReaderCancelled, EmitDone, KeepaliveStep, KeepaliveWakes, PingSent,
       PingFails, Drop, supervisor
<1>8. main = "ended" /\ stopper \in {"too_soon", "done"} =>
        main' = "ended" /\ stopper' = stopper /\ n' = n
  BY <1>2 DEF Next, Start, Opened, Connected, ConnectFails, WaitReturns, Wake, Stop, StopFinishes,
       Frame, HandlerRaises, PairSuccess, Success, Fail, ReaderStep, Handled, PairFinishes, Greeted,
       FailFinishes, StreamEnds, ReaderCancelled, EmitDone, KeepaliveStep, KeepaliveWakes, PingSent,
       PingFails, Drop, supervisor
<1>13. stopper' = "too_soon" => n' = 0 /\ main' \in {"top", "ended"}
  <2>1. CASE Stop
    <3>1. UNCHANGED <<main, n>> BY <2>1 DEF Stop
    <3>2. stopper' = "too_soon" => n = 0 BY <2>1 DEF Stop
    <3>3. n = 0 => main \in {"top", "ended"} BY <1>0 DEF Stages, LifeInv, TypeOK
    <3>. QED BY <3>1, <3>2, <3>3
  <2>2. CASE ~Stop
    <3>1. stopper' = stopper \/ stopper' = "done"
      BY <1>2, <2>2 DEF Next, Start, Opened, Connected, ConnectFails, WaitReturns, Wake,
           StopFinishes, Frame, HandlerRaises, PairSuccess, Success, Fail, ReaderStep, Handled,
           PairFinishes, Greeted, FailFinishes, StreamEnds, ReaderCancelled, EmitDone,
           KeepaliveStep, KeepaliveWakes, PingSent, PingFails, Drop, supervisor
    <3>. QED BY <1>0, <1>3, <1>8, <3>1 DEF Served
  <2>. QED BY <2>1, <2>2
<1>9. Served' BY <1>0, <1>1, <1>7, <1>8, <1>13 DEF Served
<1>10. call' = [c \in Callers |-> call'[c]] BY <1>1 DEF OnUpdate
<1>11. ASSUME online' PROVE qr' = {} /\ \A c \in Callers : call'[c].at # "asleep"
  <2>1. \A c \in Callers : call'[c].at # "asleep"
    <3>1. told' = "open" \/ online BY <1>1, <1>11 DEF OnUpdate
    <3>2. CASE told' = "open" BY <1>1, <3>2 DEF OnUpdate
    <3>3. CASE told' # "open" /\ online BY <1>0, <1>1, <3>3 DEF OnUpdate, NoneAsleep
    <3>. QED BY <3>1, <3>2, <3>3
  <2>2. CASE qr' = IF told' = "open" THEN {} ELSE qr
    BY <1>0, <1>1, <1>11, <2>2 DEF OnUpdate, NoneAsleep
  <2>3. ASSUME NEW c \in 1..MaxConns, phase[c] = "pair", Handled(c) PROVE FALSE
    <3>1. reader[c] = "handling" /\ ~cancelled[c] /\ told' = told
      BY <2>3 DEF Handled, Suspended, history
    <3>2. c \in Conns BY DEF Conns
    <3>3. ~online BY <1>0, <2>3, <3>1, <3>2, NoneMet
    <3>. QED BY <1>0, <1>1, <1>11, <3>1, <3>3 DEF OnUpdate, Linked
  <2>. QED BY <1>1, <2>1, <2>2, <2>3
<1>12. NoneAsleep' BY <1>10, <1>11 DEF NoneAsleep
<1>. QED BY <1>5, <1>6, <1>9, <1>12 DEF ServerInv

LEMMA StepRunner ==
  ASSUME ServerInv, RunnerCancelled
  PROVE  ServerInv'
<1>0. /\ Whole /\ Parts /\ Bounds /\ Stages /\ (\A c \in Conns : Life(c) /\ Login(c))
      /\ Handover /\ Ending /\ Linked /\ Served /\ NoneAsleep /\ TypeOK
  BY TypesSplit DEF ServerInv, LifeInv, LinkInv
<1>1. /\ stopper \in {"too_soon", "done"} /\ lifespan' = "over" /\ main' = "ended"
      /\ ws' = IF main = "connecting" THEN [ws EXCEPT ![n] = "none"] ELSE ws
      /\ UNCHANGED <<setting, live, online, qr, call, scenario, running, stopper, n, me, known,
                     new_login, state, closed, reason, reader, cancelled, keepalive, phase,
                     told, paired, flagged>>
  BY DEF RunnerCancelled, Leaving, Cancelled, creds, history
<1>2. ~running BY <1>0, <1>1 DEF Stages, Stopping, Served
<1>3. /\ ws' \in [Conns -> {"none", "opening", "open", "lost", "closing", "gone"}]
      /\ \A c \in Conns : ws'[c] = IF main = "connecting" /\ c = n THEN "none" ELSE ws[c]
  BY <1>0, <1>1 DEF Parts
<1>4. n \in Nat /\ \A c \in Conns : c \in Nat
  <2>1. MaxConns \in Nat BY ClientAssumption
  <2>2. n \in 0..MaxConns BY <1>0 DEF Whole
  <2>. QED BY <2>1, <2>2 DEF Conns
<1>5. TypeOK'
  <2>1. Whole' BY <1>0, <1>1 DEF Whole
  <2>2. Parts' BY <1>0, <1>1, <1>3 DEF Parts
  <2>3. Bounds' BY <1>0, <1>1, <1>3 DEF Bounds
  <2>. QED BY <2>1, <2>2, <2>3 DEF TypeOK, Whole, Parts, Bounds
<1>6. Stages' BY <1>1, <1>2 DEF Stages, Stopping
<1>7. ASSUME NEW c \in Conns PROVE Life(c)'
  <2>1. CASE main = "connecting" /\ c = n
    <3>1. reader[c] = "none" /\ ~cancelled[c] /\ ws'[c] = "none"
      BY <1>0, <1>3, <2>1 DEF Life, Whence, Bounds
    <3>2. Whence(c)' BY <1>0, <1>1, <1>2, <2>1, <3>1 DEF Life, Whence
    <3>3. Whither(c)' BY <1>1, <1>2, <3>1 DEF Whither, Quiet, Dead
    <3>. QED BY <3>2, <3>3 DEF Life
  <2>2. CASE ~(main = "connecting" /\ c = n)
    <3>1. ws'[c] = ws[c] BY <1>3, <2>2
    <3>2. Whence(c)' BY <1>0, <1>1, <1>2, <2>2, <3>1 DEF Life, Whence
    <3>3. Whither(c)' BY <1>0, <1>1, <1>2, <3>1 DEF Life, Whither, Left, Quiet, Dead
    <3>. QED BY <3>2, <3>3 DEF Life
  <2>. QED BY <2>1, <2>2
<1>8. \A c \in Conns : Login(c)' BY <1>0, <1>1 DEF Login, Quiet
<1>9. Handover' BY <1>0, <1>1 DEF Handover
<1>10. Ending' BY <1>0, <1>1, <1>3 DEF Ending, Stopping
<1>11. Linked' BY <1>0, <1>1 DEF Linked, Met
<1>12. Served' /\ NoneAsleep' BY <1>0, <1>1 DEF Served, NoneAsleep
<1>. QED BY <1>5, <1>6, <1>7, <1>8, <1>9, <1>10, <1>11, <1>12 DEF ServerInv, LifeInv, LinkInv

\* A call goes somewhere else than to sleep.
LEMMA Woken ==
  ASSUME NoneAsleep, NEW c \in Callers, NEW x, At(c, x), x.at # "asleep", UNCHANGED <<online, qr>>
  PROVE  NoneAsleep'
<1>1. call' = [d \in Callers |-> call'[d]] /\ \A d \in Callers : call'[d] = IF d = c THEN x ELSE call[d]
  BY DEF NoneAsleep, At
<1>. QED BY <1>1 DEF NoneAsleep

LEMMA StepTools == ServerInv /\ [ServerNext]_server_vars => ServerInv'
<1>. SUFFICES ASSUME ServerInv, [ServerNext]_server_vars PROVE ServerInv'
  OBVIOUS
<1>0. LifeInv /\ LinkInv /\ Served /\ NoneAsleep BY DEF ServerInv
<1>i. Idle.at # "asleep" BY DEF Idle
<1>1. ASSUME UNCHANGED <<setting, client, live, online, lifespan>>, NoneAsleep' PROVE ServerInv'
  <2>1. LifeInv' /\ LinkInv' BY <1>0, <1>1, ClientKept
  <2>2. UNCHANGED <<scenario, n, stopper, main>> BY <1>1 DEF client, vars
  <2>3. Served' BY <1>0, <1>1, <2>2 DEF Served
  <2>. QED BY <1>1, <2>1, <2>3 DEF ServerInv
<1>2. ASSUME UNCHANGED <<setting, client, server, call>> PROVE ServerInv'
  <2>1. UNCHANGED <<live, online, qr, lifespan>> BY <1>2 DEF server
  <2>2. NoneAsleep' BY <1>0, <1>2, <2>1 DEF NoneAsleep
  <2>. QED BY <1>1, <1>2, <2>1, <2>2
<1>3. ASSUME NEW c \in Callers, NEW x, x.at # "asleep", At(c, x), UNCHANGED <<setting, client, server>>
      PROVE  ServerInv'
  <2>1. UNCHANGED <<live, online, qr, lifespan>> BY <1>3 DEF server
  <2>2. NoneAsleep' BY <1>0, <1>3, <2>1, Woken
  <2>. QED BY <1>1, <1>3, <2>1, <2>2
<1>4. CASE UNCHANGED server_vars BY <1>2, <1>4 DEF server_vars
<1>5. CASE ClientStep BY <1>5, StepServer
<1>6. CASE RunnerCancelled BY <1>6, StepRunner
<1>7. ASSUME NEW c \in Callers, StartPairing(c) PROVE ServerInv'
  <2>1. PICK x : x = [at |-> "polling", left |-> Polls] OBVIOUS
  <2>2. At(c, x) /\ x.at # "asleep" /\ live' = TRUE /\ UNCHANGED <<setting, client, online, qr, lifespan>>
    BY <1>7, <2>1 DEF StartPairing
  <2>3. NoneAsleep' BY <1>0, <2>2, Woken
  <2>4. LifeInv' /\ LinkInv' BY <1>0, <2>2, ClientKept
  <2>5. UNCHANGED <<scenario, n, stopper, main>> BY <2>2 DEF client, vars
  <2>6. Served' BY <1>0, <2>2, <2>5 DEF Served
  <2>. QED BY <2>3, <2>4, <2>6 DEF ServerInv
<1>8. ASSUME NEW c \in Callers, Poll(c) PROVE ServerInv'
  <2>1. PICK x : x = [call[c] EXCEPT !.left = call[c].left - 1] OBVIOUS
  <2>2. call[c].at = "polling" /\ (At(c, Idle) \/ At(c, x)) /\ UNCHANGED <<setting, client, server>>
    BY <1>8, <2>1 DEF Poll, Ends, At
  <2>3. x.at = "polling" BY <2>1, <2>2
  <2>. QED BY <1>i, <1>3, <2>2, <2>3
<1>9. ASSUME NEW c \in Callers, EnsureOnline(c) PROVE ServerInv'
  <2>1. /\ ~online /\ call' = [call EXCEPT ![c] = [at |-> "asleep"]]
        /\ UNCHANGED <<setting, client, live, online, qr, lifespan>>
    BY <1>9 DEF EnsureOnline, At, server
  <2>2. call' = [d \in Callers |-> call'[d]] BY <1>0, <2>1 DEF NoneAsleep
  <2>3. NoneAsleep' BY <2>1, <2>2 DEF NoneAsleep
  <2>. QED BY <1>1, <2>1, <2>3
<1>10. ASSUME NEW c \in Callers, Proceeds(c) PROVE ServerInv'
  <2>1. At(c, Idle) /\ UNCHANGED <<setting, client, server>> BY <1>10 DEF Proceeds, Ends
  <2>. QED BY <1>i, <1>3, <2>1
<1>11. ASSUME NEW c \in Callers, NEW chats, Turn(c, chats) PROVE ServerInv'
  <2>1. PICK x : x = [at |-> "waiting", chats |-> chats] OBVIOUS
  <2>2. (At(c, Idle) \/ At(c, x)) /\ x.at # "asleep" /\ UNCHANGED <<setting, client, server>>
    BY <1>11, <2>1 DEF Turn, Ends
  <2>. QED BY <1>i, <1>3, <2>2
<1>12. ASSUME NEW c \in Callers, NEW chats, WaitForMessages(c, chats) PROVE ServerInv'
  BY <1>11, <1>12 DEF WaitForMessages
<1>13. ASSUME NEW c \in Callers, Resumed(c) PROVE ServerInv'
  <2>1. CASE incoming # <<>>
    <3>1. PICK chats : chats = call[c].chats OBVIOUS
    <3>2. Turn(c, chats) BY <1>13, <2>1, <3>1 DEF Resumed
    <3>. QED BY <1>11, <3>2
  <2>2. CASE incoming = <<>> BY <1>2, <1>13, <2>2 DEF Resumed
  <2>. QED BY <2>1, <2>2
<1>14. ASSUME NEW c \in Callers, GivesUp(c) PROVE ServerInv'
  <2>1. At(c, Idle) /\ UNCHANGED <<setting, client, server>> BY <1>14 DEF GivesUp, Ends
  <2>. QED BY <1>i, <1>3, <2>1
<1>15. ASSUME NEW c \in Callers, SendFile(c) PROVE ServerInv'
  <2>1. UNCHANGED <<setting, client, server>> BY <1>15 DEF SendFile
  <2>2. ASSUME NEW hosts, At(c, [at |-> "uploading", hosts |-> ParseMediaConn(hosts)])
        PROVE  ServerInv'
    <3>1. PICK x : x = [at |-> "uploading", hosts |-> ParseMediaConn(hosts)] OBVIOUS
    <3>2. x.at # "asleep" /\ At(c, x) BY <2>2, <3>1
    <3>. QED BY <1>3, <2>1, <3>2
  <2>3. \/ \E hosts : At(c, [at |-> "uploading", hosts |-> ParseMediaConn(hosts)])
        \/ UNCHANGED call
    BY <1>15 DEF SendFile
  <2>. QED BY <1>2, <2>1, <2>2, <2>3
<1>16. ASSUME NEW c \in Callers, Upload(c) PROVE ServerInv'
  <2>1. call[c].at = "uploading" /\ UNCHANGED <<setting, client, server>> BY <1>16 DEF Upload
  <2>2. PICK x : x = [call[c] EXCEPT !.hosts = Tail(call[c].hosts)] OBVIOUS
  <2>3. At(c, Idle) \/ At(c, x) BY <1>16, <2>2 DEF Upload, Ends, At
  <2>4. x.at = "uploading" BY <2>1, <2>2
  <2>. QED BY <1>i, <1>3, <2>1, <2>3, <2>4
<1>17. CASE OnIncoming BY <1>2, <1>17 DEF OnIncoming
<1>18. CASE PeerSends BY <1>2, <1>18 DEF PeerSends
<1>19. ASSUME NEW i, NEW body, DownloadTool(i, body) PROVE ServerInv'
  BY <1>2, <1>19 DEF DownloadTool
<1>. QED BY <1>4, <1>5, <1>6, <1>7, <1>8, <1>9, <1>10, <1>12, <1>13, <1>14, <1>15, <1>16, <1>17,
            <1>18, <1>19 DEF ServerNext

LEMMA InitTools == ServerInit => ServerInv
<1>. SUFFICES ASSUME ServerInit PROVE ServerInv
  OBVIOUS
<1>1. setting \in Settings /\ setting.client \in Scenarios /\ MaxConns \in Nat \ {0}
  BY McpServerAssumption, ClientAssumption DEF ServerInit, Setting
<1>2. call = [c \in Callers |-> Idle] /\ qr = {} /\ lifespan = "serving" BY DEF ServerInit
<1>3. NoneAsleep
  <2>1. call = [c \in Callers |-> call[c]] BY <1>2
  <2>. QED BY <1>2, <2>1 DEF NoneAsleep, Idle
<1>4. \A c \in Conns : c \in Nat /\ c # 0 /\ (c = 1 \/ c > 1) BY <1>1 DEF Conns
<1>5. CASE setting.kind = "online"
  <2>1. Init /\ scenario = setting.client /\ online = FALSE BY <1>5 DEF ServerInit
  <2>2. LifeInv BY <2>1, InitLife
  <2>3. \A c \in Conns : Login(c) BY <2>1 DEF Init, Login, Quiet
  <2>4. Handover /\ Ending /\ Linked BY <1>4, <2>1 DEF Init, Handover, Ending, Linked
  <2>5. Served BY <1>1, <1>2, <2>1 DEF Init, Served
  <2>. QED BY <1>3, <2>2, <2>3, <2>4, <2>5 DEF ServerInv, LinkInv
<1>6. CASE setting.kind # "online"
  <2>1. OnlineClient /\ live = TRUE /\ online = TRUE BY <1>6 DEF ServerInit
  <2>2. Whole
    <3>1. n \in 0..MaxConns BY <1>1, <2>1 DEF OnlineClient
    <3>2. {running, me, known, new_login, paired} \subseteq BOOLEAN BY <2>1 DEF OnlineClient
    <3>3. flagged = {<<FALSE, FALSE>>} BY <2>1 DEF OnlineClient
    <3>4. <<FALSE, FALSE>> \in BOOLEAN \X BOOLEAN OBVIOUS
    <3>5. flagged \subseteq BOOLEAN \X BOOLEAN BY ONLY <3>3, <3>4
    <3>. QED BY <1>1, <2>1, <3>1, <3>2, <3>5 DEF OnlineClient, Whole
  <2>3. Parts BY <2>1 DEF OnlineClient, Parts, Reasons
  <2>4. Bounds BY <1>4, <2>1 DEF OnlineClient, Bounds
  <2>5. Stages BY <2>1 DEF OnlineClient, Stages, Stopping
  <2>6. ASSUME NEW c \in Conns PROVE Life(c) /\ Login(c)
    <3>1. CASE c = 1
      <4>1. Whence(c) BY <2>1, <3>1 DEF OnlineClient, Whence
      <4>2. Whither(c) BY <2>1, <3>1 DEF OnlineClient, Whither, Left
      <4>3. Login(c) BY <2>1, <3>1 DEF OnlineClient, Login
      <4>. QED BY <4>1, <4>2, <4>3 DEF Life
    <3>2. CASE c # 1
      <4>1. c > 1 /\ c \in Nat BY <1>4, <3>2
      <4>2. Whence(c) BY <2>1, <3>2, <4>1 DEF OnlineClient, Whence
      <4>3. Whither(c) BY <2>1, <3>2, <4>1 DEF OnlineClient, Whither, Left, Quiet, Dead
      <4>4. Login(c) BY <2>1, <3>2 DEF OnlineClient, Login, Quiet
      <4>. QED BY <4>2, <4>3, <4>4 DEF Life
    <3>. QED BY <3>1, <3>2
  <2>7. Handover /\ Ending BY <2>1 DEF OnlineClient, Handover, Ending
  <2>8. Linked
    <3>1. 1 \in Conns BY <1>1 DEF Conns
    <3>2. Met(1) BY <2>1, <3>1 DEF OnlineClient, Met
    <3>. QED BY <2>1, <3>1, <3>2 DEF OnlineClient, Linked
  <2>9. Served BY <1>1, <1>2, <2>1 DEF OnlineClient, Served
  <2>. QED BY <1>3, <2>2, <2>3, <2>4, <2>5, <2>6, <2>7, <2>8, <2>9, TypesSplit
         DEF ServerInv, LifeInv, LinkInv
<1>. QED BY <1>5, <1>6

LEMMA AlwaysServed == ServerSpec => []ServerInv
<1>. QED BY InitTools, StepTools, PTL DEF ServerSpec

\* What the tools believe is what the client is: the event "online" differs from is_open only
\* while an update of the client is on its way (_on_update, _ensure_online, start_pairing).
THEOREM BelievesRight == ServerSpec => []OnlineExact
<1>1. ASSUME ServerInv PROVE OnlineExact
  <2>0. /\ Bounds /\ Linked /\ Served /\ NoneAsleep /\ \A c \in Conns : Life(c) /\ Login(c)
    BY <1>1, TypesSplit DEF ServerInv, LifeInv, LinkInv
  <2>1. MaxConns \in Nat /\ n \in Nat /\ n \in 0..MaxConns /\ \A c \in Conns : c \in Nat /\ c # 0
    <3>1. MaxConns \in Nat BY ClientAssumption
    <3>2. n \in 0..MaxConns BY <1>1 DEF ServerInv, LifeInv, TypeOK
    <3>. QED BY <3>1, <3>2 DEF Conns
  <2>2. ASSUME online, ~IsOpen PROVE \E c \in Conns : cancelled[c] \/ reader[c] = "failing"
    <3>1. PICK c \in Conns : Met(c) BY <2>0, <2>2 DEF Linked
    <3>2. SUFFICES ASSUME ~cancelled[c], reader[c] # "failing" PROVE FALSE OBVIOUS
    <3>3. state[c] = "open" BY <2>0, <3>1, <3>2 DEF Login, Met
    <3>4. c = n
      <4>1. ~(c > n) BY <2>0, <3>1 DEF Bounds, Met
      <4>2. ~(c < n) BY <2>0, <3>1, <3>2 DEF Life, Whither, Left, Quiet, Met
      <4>. QED BY <2>1, <4>1, <4>2
    <3>5. n > 0 /\ live BY <2>0, <2>1, <3>4 DEF Served
    <3>. QED BY <2>2, <3>3, <3>4, <3>5 DEF IsOpen
  <2>3. ASSUME IsOpen, ~online PROVE reader[n] = "greeting"
    <3>1. n \in Conns /\ state[n] = "open" BY <2>1, <2>3 DEF IsOpen, Conns
    <3>. QED BY <2>0, <2>3, <3>1 DEF Linked
  <2>. QED BY <2>0, <2>2, <2>3 DEF OnlineExact, NoneAsleep
<1>. QED BY <1>1, AlwaysServed, PTL

\* Once the lifespan is over no connection has a socket, also where the server ends while
\* connect() awaits it: of the settings in which no server sends a bad handshake and no
\* handler raises, the two cases in which Connection itself leaves one (see OneSocketOnly).
THEOREM ShutdownLeaves ==
  ASSUME \A s \in Settings : s.client.faults \subseteq {"stop_while_connecting"}
  PROVE  ServerSpec => []ShutdownLeavesNothing
<1>1. ASSUME ServerInv PROVE ShutdownLeavesNothing
  <2>0. /\ Bounds /\ Ending /\ Served /\ \A c \in Conns : Life(c)
    BY <1>1, TypesSplit DEF ServerInv, LifeInv, LinkInv
  <2>1. n \in Nat /\ \A c \in Conns : c \in Nat
    <3>1. MaxConns \in Nat BY ClientAssumption
    <3>2. n \in 0..MaxConns BY <1>1 DEF ServerInv, LifeInv, TypeOK
    <3>. QED BY <3>1, <3>2 DEF Conns
  <2>2. scenario.faults \subseteq {"stop_while_connecting"} BY <2>0 DEF Served
  <2>3. ASSUME lifespan = "over", NEW c \in Conns PROVE ~Live(c)
    <3>1. CASE stopper = "too_soon"
      <4>1. c > n BY <2>0, <3>1, ClientAssumption DEF Served, Conns
      <4>. QED BY <2>0, <4>1 DEF Bounds, Live
    <3>5. stopper = "done" \/ stopper = "too_soon" BY <2>0, <2>3 DEF Served
    <3>2. CASE c = n /\ stopper = "done" BY <2>0, <3>2 DEF Ending, Live
    <3>3. CASE c < n
      <4>1. Dead(c) BY <2>0, <2>1, <3>3 DEF Life, Whither, Left
      <4>. QED BY <2>2, <4>1 DEF Dead, Live
    <3>4. CASE c > n BY <2>0, <3>4 DEF Bounds, Live
    <3>. QED BY <2>1, <3>1, <3>2, <3>3, <3>4, <3>5
  <2>. QED BY <2>3 DEF ShutdownLeavesNothing
<1>. QED BY <1>1, AlwaysServed, PTL

-----------------------------------------------------------------------------
\* What FlattenSeq returns, by induction on the length of its sequence.

\* Among numbers there is a least one.
LEMMA Least == \A S \in SUBSET Nat : S # {} => \E x \in S : \A y \in S : x <= y
<1>. SUFFICES ASSUME NEW S \in SUBSET Nat, S # {} PROVE \E x \in S : \A y \in S : x <= y
  OBVIOUS
<1>1. PICK R : R = OpToRel(<, Nat) OBVIOUS
<1>2. R = {ss \in Nat \X Nat : ss[1] < ss[2]} BY <1>1 DEF OpToRel
<1>3. IsWellFoundedOn(R, Nat) BY <1>1, NatLessThanWellFounded
<1>4. PICK x \in S : \A y \in S : ~(<<y, x>> \in R) BY <1>3, WFMin
<1>5. ASSUME NEW y \in S PROVE x <= y
  <2>1. x \in Nat /\ y \in Nat OBVIOUS
  <2>2. <<y, x>> \in Nat \X Nat /\ <<y, x>>[1] = y /\ <<y, x>>[2] = x BY <2>1
  <2>3. ~(y < x) BY <1>2, <1>4, <2>2
  <2>. QED BY <2>1, <2>3
<1>. QED BY <1>5

LEMMA Induct ==
  ASSUME NEW S, 0 \in S, \A x \in Nat : x \in S => x + 1 \in S
  PROVE  Nat \subseteq S
<1>. SUFFICES ASSUME Nat \ S # {} PROVE FALSE
  OBVIOUS
<1>1. PICK x \in Nat \ S : \A y \in Nat \ S : x <= y BY Least
<1>2. x # 0 BY <1>1
<1>3. x - 1 \in Nat /\ x - 1 < x BY <1>1, <1>2
<1>4. x - 1 \in S BY <1>1, <1>3
<1>5. (x - 1) + 1 = x BY <1>1
<1>6. x \in S BY <1>3, <1>4, <1>5
<1>. QED BY <1>1, <1>6

\* f is what FlattenSeq makes of the first k of s.
Flat(f, s, k) == f = [i \in 1..k |-> IF i = 1 THEN s[i] ELSE f[i - 1] \o s[i]]

SameUpTo(s, r, k) == \A i \in 1..k : s[i] = r[i]

LEMMA FlatThere ==
  ASSUME NEW X, NEW s \in Seq(Seq(X))
  PROVE  \E f \in [1..Len(s) -> Seq(X)] : Flat(f, s, Len(s))
<1>. DEFINE S == {k \in Nat : k <= Len(s) => \E f \in [1..k -> Seq(X)] : Flat(f, s, k)}
<1>1. 0 \in S
  <2>1. PICK f : f = [i \in 1..0 |-> <<>>] OBVIOUS
  <2>2. f \in [1..0 -> Seq(X)] BY <2>1
  <2>3. Flat(f, s, 0) BY <2>1 DEF Flat
  <2>. QED BY <2>2, <2>3
<1>2. ASSUME NEW k \in Nat, k \in S PROVE k + 1 \in S
  <2>. SUFFICES ASSUME k + 1 <= Len(s)
                PROVE  \E f \in [1..(k + 1) -> Seq(X)] : Flat(f, s, k + 1)
    OBVIOUS
  <2>1. PICK f \in [1..k -> Seq(X)] : Flat(f, s, k) BY <1>2
  <2>2. PICK g : g = [i \in 1..(k + 1) |-> IF i = 1 THEN s[i] ELSE f[i - 1] \o s[i]] OBVIOUS
  <2>3. ASSUME NEW i \in 1..k PROVE g[i] = f[i]
    <3>1. i \in 1..(k + 1) OBVIOUS
    <3>2. g[i] = IF i = 1 THEN s[i] ELSE f[i - 1] \o s[i] BY <2>2, <3>1
    <3>3. f = [j \in 1..k |-> IF j = 1 THEN s[j] ELSE f[j - 1] \o s[j]] BY <2>1 DEF Flat
    <3>4. f[i] = IF i = 1 THEN s[i] ELSE f[i - 1] \o s[i] BY ONLY <3>3, i \in 1..k
    <3>. QED BY <3>2, <3>4
  <2>4. ASSUME NEW i \in 1..(k + 1) PROVE s[i] \in Seq(X) /\ (i # 1 => f[i - 1] \in Seq(X))
    <3>1. i \in 1..Len(s) OBVIOUS
    <3>2. i # 1 => i - 1 \in 1..k OBVIOUS
    <3>. QED BY <2>1, <3>1, <3>2
  <2>5. ASSUME NEW i \in 1..(k + 1)
        PROVE  g[i] \in Seq(X) /\ g[i] = IF i = 1 THEN s[i] ELSE g[i - 1] \o s[i]
    <3>1. i # 1 => i - 1 \in 1..k OBVIOUS
    <3>2. g[i] = IF i = 1 THEN s[i] ELSE f[i - 1] \o s[i] BY <2>2
    <3>3. CASE i = 1 BY <2>4, <3>2, <3>3
    <3>4. CASE i # 1
      <4>1. g[i] = f[i - 1] \o s[i] /\ f[i - 1] = g[i - 1] BY <2>3, <3>1, <3>2, <3>4
      <4>2. f[i - 1] \o s[i] \in Seq(X) BY <2>4, <3>4, ConcatProperties
      <4>. QED BY <3>4, <4>1, <4>2
    <3>. QED BY <3>3, <3>4
  <2>6. g \in [1..(k + 1) -> Seq(X)] BY <2>2, <2>5
  <2>7. Flat(g, s, k + 1) BY <2>2, <2>5 DEF Flat
  <2>. QED BY <2>6, <2>7
<1>. HIDE DEF S
<1>3. Nat \subseteq S BY <1>1, <1>2, Induct
<1>4. Len(s) \in S BY <1>3
<1>. QED BY <1>4 DEF S

LEMMA FlatSame ==
  ASSUME NEW s, NEW r, NEW f, NEW g, NEW k \in Nat, NEW m \in Nat, k <= m,
         Flat(f, s, k), Flat(g, r, m), SameUpTo(s, r, k)
  PROVE  SameUpTo(f, g, k)
<1>. DEFINE S == {i \in Nat : i \in 1..k => f[i] = g[i]}
<1>1. 0 \in S OBVIOUS
<1>2. ASSUME NEW i \in Nat, i \in S PROVE i + 1 \in S
  <2>. SUFFICES ASSUME i + 1 \in 1..k PROVE f[i + 1] = g[i + 1]
    OBVIOUS
  <2>1. i + 1 \in 1..m /\ (i + 1) - 1 = i OBVIOUS
  <2>2. f[i + 1] = IF i + 1 = 1 THEN s[i + 1] ELSE f[i] \o s[i + 1] BY <2>1 DEF Flat
  <2>3. g[i + 1] = IF i + 1 = 1 THEN r[i + 1] ELSE g[i] \o r[i + 1] BY <2>1 DEF Flat
  <2>4. s[i + 1] = r[i + 1] BY DEF SameUpTo
  <2>5. i + 1 # 1 => f[i] = g[i] BY <1>2
  <2>. QED BY <2>2, <2>3, <2>4, <2>5
<1>. HIDE DEF S
<1>3. Nat \subseteq S BY <1>1, <1>2, Induct
<1>. QED BY <1>3 DEF S, SameUpTo

LEMMA FlatIs ==
  ASSUME NEW s, NEW f, Len(s) \in Nat \ {0}, Flat(f, s, Len(s))
  PROVE  FlattenSeq(s) = f[Len(s)]
<1>1. PICK k : k = Len(s) OBVIOUS
<1>2. PICK g : /\ g = CHOOSE h : h = [i \in 1..Len(s) |-> IF i = 1 THEN s[i] ELSE h[i - 1] \o s[i]]
               /\ FlattenSeq(s) = g[Len(s)]
  BY DEF FlattenSeq
<1>3. Flat(g, s, k) BY <1>1, <1>2 DEF Flat
<1>4. SameUpTo(s, s, k) BY DEF SameUpTo
<1>5. SameUpTo(f, g, k)
  <2>1. k \in Nat /\ k <= k /\ Flat(f, s, k) /\ Flat(g, s, k) /\ SameUpTo(s, s, k)
    BY <1>1, <1>3, <1>4
  <2>. QED BY ONLY <2>1, FlatSame
<1>6. k \in 1..k BY <1>1
<1>. QED BY <1>1, <1>2, <1>5, <1>6 DEF SameUpTo

LEMMA FlattenTyped == \A X : \A s \in Seq(Seq(X)) : FlattenSeq(s) \in Seq(X)
<1>. SUFFICES ASSUME NEW X, NEW s \in Seq(Seq(X)) PROVE FlattenSeq(s) \in Seq(X)
  OBVIOUS
<1>1. CASE Len(s) = 0
  <2>1. s = <<>> BY <1>1
  <2>. QED BY <1>1, <2>1 DEF FlattenSeq
<1>2. CASE Len(s) # 0
  <2>1. PICK f \in [1..Len(s) -> Seq(X)] : Flat(f, s, Len(s)) BY FlatThere
  <2>2. Len(s) \in Nat \ {0} BY <1>2
  <2>3. FlattenSeq(s) = f[Len(s)] BY <2>1, <2>2, FlatIs
  <2>4. Len(s) \in 1..Len(s) BY <2>2
  <2>. QED BY <2>1, <2>3, <2>4
<1>. QED BY <1>1, <1>2

\* One more sequence comes after the others.
LEMMA FlattenMore ==
  ASSUME NEW X, NEW s \in Seq(Seq(X)), NEW t \in Seq(X)
  PROVE  FlattenSeq(Append(s, t)) = FlattenSeq(s) \o t
<1>1. PICK r \in Seq(Seq(X)) : r = Append(s, t) BY AppendProperties
<1>2. PICK k \in Nat : k = Len(s) OBVIOUS
<1>3. Len(r) = k + 1 /\ r[k + 1] = t /\ \A i \in 1..k : r[i] = s[i] BY <1>1, <1>2
<1>4. PICK f \in [1..(k + 1) -> Seq(X)] : Flat(f, r, k + 1) BY <1>3, FlatThere
<1>5. FlattenSeq(r) = f[k + 1]
  <2>1. Len(r) \in Nat \ {0} /\ Flat(f, r, Len(r)) BY <1>3, <1>4
  <2>2. FlattenSeq(r) = f[Len(r)] BY ONLY <2>1, FlatIs
  <2>. QED BY <1>3, <2>2
<1>6. f[k + 1] = IF k + 1 = 1 THEN t ELSE f[k] \o t
  <2>1. k + 1 \in 1..(k + 1) /\ (k + 1) - 1 = k OBVIOUS
  <2>. QED BY <1>3, <1>4, <2>1 DEF Flat
<1>7. CASE k = 0
  <2>1. s = <<>> BY <1>2, <1>7, EmptySeq
  <2>2. FlattenSeq(s) = <<>> BY <1>2, <1>7, <2>1 DEF FlattenSeq
  <2>3. <<>> \o t = t OBVIOUS
  <2>4. f[k + 1] = t BY <1>6, <1>7
  <2>. QED BY <1>1, <1>5, <2>2, <2>3, <2>4
<1>8. CASE k # 0
  <2>1. PICK g \in [1..k -> Seq(X)] : Flat(g, s, k) BY <1>2, FlatThere
  <2>2. FlattenSeq(s) = g[k] BY <1>2, <1>8, <2>1, FlatIs
  <2>6. PICK m : m = k + 1 OBVIOUS
  <2>7. /\ k \in Nat /\ m \in Nat /\ k <= m
        /\ Flat(g, s, k) /\ Flat(f, r, m) /\ SameUpTo(s, r, k)
    BY <1>2, <1>3, <1>4, <2>1, <2>6 DEF SameUpTo
  <2>3. SameUpTo(g, f, k) BY ONLY <2>7, FlatSame
  <2>4. g[k] = f[k] BY <1>8, <2>3 DEF SameUpTo
  <2>5. f[k + 1] = f[k] \o t BY <1>6, <1>8
  <2>. QED BY <1>1, <1>5, <2>2, <2>4, <2>5
<1>. QED BY <1>7, <1>8

-----------------------------------------------------------------------------
\* The queue.

Message == [id : Nat, chat : Chats, fromMe : BOOLEAN]
Entry == [msg : Message, to : SUBSET Callers]

QueueTyped ==
  /\ setting \in Setting
  /\ arrived \in 0..Len(setting.batches)
  /\ incoming \in Seq(Message) /\ log \in Seq(Entry)
  /\ getters \in Seq(Callers) /\ woken \subseteq Callers

QueueInv == QueueTyped /\ HandedOnce

Taken(entries) == [i \in 1..Len(entries) |-> entries[i].msg]
Log(c, chats) ==
  [i \in 1..Len(incoming) |-> [msg |-> incoming[i],
                               to |-> IF incoming[i].chat \in chats THEN {c} ELSE {}]]

LEMMA IncomingTyped == \A b \in Seq(Message) : Incoming(b) \in Seq(Message)
<1>. SUFFICES ASSUME NEW b \in Seq(Message) PROVE Incoming(b) \in Seq(Message)
  OBVIOUS
<1>1. PICK s : s = [i \in 1..Len(b) |-> IF b[i].fromMe THEN <<>> ELSE <<b[i]>>] OBVIOUS
<1>2. ASSUME NEW i \in 1..Len(b) PROVE s[i] \in Seq(Message)
  <2>1. b[i] \in Message OBVIOUS
  <2>2. <<b[i]>> \in Seq(Message) /\ <<>> \in Seq(Message) BY <2>1
  <2>. QED BY <1>1, <2>2
<1>3. s \in Seq(Seq(Message)) BY <1>1, <1>2
<1>. QED BY <1>1, <1>3, FlattenTyped DEF Incoming

LEMMA TakenTyped ==
  ASSUME NEW s \in Seq(Entry), NEW t \in Seq(Entry)
  PROVE  /\ Taken(s) \in Seq(Message)
         /\ Taken(s \o t) = Taken(s) \o Taken(t)
<1>1. ASSUME NEW u \in Seq(Entry)
      PROVE  /\ Taken(u) \in Seq(Message) /\ Len(Taken(u)) = Len(u)
             /\ \A i \in 1..Len(u) : Taken(u)[i] = u[i].msg
  <2>1. \A i \in 1..Len(u) : u[i].msg \in Message
    <3>1. \A i \in 1..Len(u) : u[i] \in Entry OBVIOUS
    <3>2. \A x \in Entry : x.msg \in Message BY DEF Entry
    <3>. QED BY ONLY <3>1, <3>2
  <2>2. PICK k \in Nat : k = Len(u) OBVIOUS
  <2>3. Taken(u) = [i \in 1..k |-> u[i].msg] BY <2>2 DEF Taken
  <2>. HIDE DEF Message
  <2>4. Taken(u) \in Seq(Message) BY ONLY <2>1, <2>2, <2>3
  <2>. QED BY ONLY <2>1, <2>2, <2>3, <2>4
<1>2. PICK u \in Seq(Entry) : u = s \o t BY ConcatProperties
<1>3. /\ Len(u) = Len(s) + Len(t)
      /\ \A i \in 1..Len(u) : u[i] = IF i <= Len(s) THEN s[i] ELSE t[i - Len(s)]
  BY <1>2, ConcatProperties
<1>8. PICK a \in Seq(Message) : a = Taken(s) /\ Len(a) = Len(s) BY <1>1
<1>9. PICK b \in Seq(Message) : b = Taken(t) /\ Len(b) = Len(t) BY <1>1
<1>4. PICK v \in Seq(Message) : v = a \o b BY ConcatProperties
<1>10. Len(a \o b) = Len(a) + Len(b) BY ConcatProperties
<1>5. /\ Len(v) = Len(s) + Len(t)
      /\ \A i \in 1..Len(v) : v[i] = IF i <= Len(s) THEN Taken(s)[i] ELSE Taken(t)[i - Len(s)]
  BY <1>4, <1>8, <1>9, <1>10, ConcatProperties
<1>6. ASSUME NEW i \in 1..Len(u) PROVE Taken(u)[i] = v[i]
  <2>1. CASE i <= Len(s)
    <3>1. i \in 1..Len(s) BY <2>1
    <3>2. u[i] = s[i] /\ v[i] = Taken(s)[i] BY <1>3, <1>5, <2>1
    <3>. QED BY <1>1, <3>1, <3>2
  <2>2. CASE ~(i <= Len(s))
    <3>1. i - Len(s) \in 1..Len(t) BY <1>3, <2>2
    <3>2. u[i] = t[i - Len(s)] /\ v[i] = Taken(t)[i - Len(s)] BY <1>3, <1>5, <2>2
    <3>. QED BY <1>1, <3>1, <3>2
  <2>. QED BY <2>1, <2>2
<1>7. Taken(u) = v
  <2>1. Taken(u) \in Seq(Message) /\ Len(Taken(u)) = Len(v) BY <1>1, <1>3, <1>5
  <2>2. \A i \in 1..Len(Taken(u)) : Taken(u)[i] = v[i] BY <1>1, <1>6
  <2>. QED BY ONLY <1>4, <2>1, <2>2, SeqEqual
<1>. QED BY <1>1, <1>2, <1>4, <1>7, <1>8, <1>9

\* One more batch adds what it brings to what the others brought.
LEMMA OthersGrow ==
  ASSUME QueueTyped, arrived < Len(setting.batches),
         arrived' = arrived + 1, setting' = setting
  PROVE  /\ Incoming(setting.batches[arrived + 1]) \in Seq(Message)
         /\ Others' = Others \o Incoming(setting.batches[arrived + 1])
<1>1. PICK bs \in Seq(Seq(Message)) : bs = setting.batches
  BY DEF QueueTyped, Setting, Message
<1>2. PICK k \in Nat : k = arrived /\ k < Len(bs) BY <1>1 DEF QueueTyped
<1>3. \A i \in 1..(k + 1) : Incoming(bs[i]) \in Seq(Message)
  BY <1>1, <1>2, IncomingTyped
<1>4. PICK s : s = [i \in 1..k |-> Incoming(bs[i])] OBVIOUS
<1>5. PICK r : r = [i \in 1..(k + 1) |-> Incoming(bs[i])] OBVIOUS
<1>6. s \in Seq(Seq(Message)) /\ Len(s) = k BY <1>3, <1>4
<1>7. PICK t \in Seq(Message) : t = Incoming(bs[k + 1]) BY <1>3
<1>8. r = Append(s, t)
  <2>1. r \in Seq(Seq(Message)) /\ Len(r) = k + 1 BY <1>3, <1>5
  <2>2. \A i \in 1..(k + 1) : r[i] = Append(s, t)[i]
    BY <1>4, <1>5, <1>6, <1>7, AppendProperties
  <2>3. Append(s, t) \in Seq(Seq(Message)) /\ Len(Append(s, t)) = k + 1
    BY <1>6, AppendProperties
  <2>. QED BY ONLY <2>1, <2>2, <2>3, SeqEqual
<1>9. FlattenSeq(r) = FlattenSeq(s) \o t BY <1>6, <1>8, FlattenMore
<1>10. Others = FlattenSeq(s) BY <1>1, <1>2, <1>4 DEF Others
<1>11. Others' = FlattenSeq(r) BY <1>1, <1>2, <1>5 DEF Others
<1>. QED BY <1>1, <1>2, <1>7, <1>9, <1>10, <1>11

\* What put_nowait and get() leave asleep and awake.
LEMMA WokenTyped ==
  ASSUME NEW k \in Nat, NEW asleep \in Seq(Callers), NEW up \in SUBSET Callers,
         WakeUp(k, asleep, up)
  PROVE  /\ getters' \in Seq(Callers) /\ woken' \subseteq Callers
         /\ k # 0 /\ getters' # <<>> => woken' # {}
         /\ k = 0 => getters' = asleep /\ woken' = up
<1>1. PICK m : m = IF k < Len(asleep) THEN k ELSE Len(asleep) OBVIOUS
<1>2. m \in 0..Len(asleep) /\ (k = 0 => m = 0) /\ (k # 0 => m # 0 \/ Len(asleep) = 0)
  BY <1>1
<1>3. getters' = SubSeq(asleep, m + 1, Len(asleep)) /\ woken' = up \cup {asleep[i] : i \in 1..m}
  BY <1>1 DEF WakeUp
<1>4. getters' \in Seq(Callers)
  <2>1. \A i \in (m + 1)..Len(asleep) : asleep[i] \in Callers BY <1>2
  <2>. QED BY <1>2, <1>3, <2>1, SubSeqProperties
<1>5. woken' \subseteq Callers
  <2>1. \A i \in 1..m : asleep[i] \in Callers BY <1>2
  <2>. QED BY <1>3, <2>1
<1>6. ASSUME k # 0, getters' # <<>> PROVE woken' # {}
  <2>1. Len(asleep) # 0
    <3>1. Len(asleep) = 0 => Len(asleep) < m + 1 BY <1>2
    <3>2. Len(asleep) = 0 => SubSeq(asleep, m + 1, Len(asleep)) = <<>>
      BY <1>2, <3>1, SubSeqEmpty
    <3>. QED BY <1>3, <1>6, <3>2
  <2>2. 1 \in 1..m BY <1>2, <1>6, <2>1
  <2>3. asleep[1] \in woken' BY <1>3, <2>2
  <2>. QED BY <2>3
<1>7. ASSUME k = 0 PROVE getters' = asleep /\ woken' = up
  <2>1. m = 0 BY <1>2, <1>7
  <2>2. 1..m = {} BY <2>1
  <2>3. SubSeq(asleep, 1, Len(asleep)) = asleep OBVIOUS
  <2>. QED BY <1>3, <2>1, <2>2, <2>3
<1>. QED BY <1>4, <1>5, <1>6, <1>7

LEMMA QueueKept == QueueInv /\ UNCHANGED <<setting, queue>> => QueueInv'
BY DEF QueueInv, QueueTyped, HandedOnce, Others, queue

\* One turn of wait_for_messages.
LEMMA TurnQueue ==
  ASSUME QueueInv, NEW c \in Callers, NEW chats, Turn(c, chats), woken' \subseteq Callers
  PROVE  QueueInv'
<1>1. PICK taken : taken = Log(c, chats) OBVIOUS
<1>2. incoming' = <<>> /\ log' = log \o taken BY <1>1 DEF Turn, Drained, Log
<1>3. UNCHANGED <<setting, arrived>> /\ (getters' = getters \/ getters' = Append(getters, c))
  BY DEF Turn
<1>4. QueueTyped BY DEF QueueInv
<1>5. taken \in Seq(Entry) /\ Len(taken) = Len(incoming)
  <2>1. \A i \in 1..Len(incoming) : incoming[i] \in Message BY <1>4 DEF QueueTyped
  <2>2. PICK k \in Nat : k = Len(incoming) BY <1>4 DEF QueueTyped
  <2>3. taken = [i \in 1..k |-> [msg |-> incoming[i],
                                 to |-> IF incoming[i].chat \in chats THEN {c} ELSE {}]]
    BY <1>1, <2>2 DEF Log
  <2>4. \A i \in 1..k : taken[i] \in Entry BY <2>1, <2>2, <2>3 DEF Entry
  <2>. HIDE DEF Entry, Message
  <2>. QED BY ONLY <2>2, <2>3, <2>4
<1>6. Taken(taken) = incoming
  <2>1. \A i \in 1..Len(incoming) : taken[i].msg = incoming[i] BY <1>1 DEF Log
  <2>2. incoming = [i \in 1..Len(incoming) |-> incoming[i]] BY <1>4 DEF QueueTyped
  <2>3. Taken(taken) = [i \in 1..Len(incoming) |-> taken[i].msg] BY <1>5 DEF Taken
  <2>. QED BY ONLY <2>1, <2>2, <2>3
<1>7. log' \in Seq(Entry) BY <1>2, <1>4, <1>5, ConcatProperties DEF QueueTyped
<1>8. QueueTyped'
  <2>1. getters' \in Seq(Callers)
    <3>1. getters \in Seq(Callers) BY <1>4 DEF QueueTyped
    <3>2. Append(getters, c) \in Seq(Callers) BY <3>1, AppendProperties
    <3>. QED BY <1>3, <3>1, <3>2
  <2>2. incoming' \in Seq(Message) BY <1>2
  <2>. QED BY <1>3, <1>4, <1>7, <2>1, <2>2 DEF QueueTyped
<1>9. Taken(log') \o incoming' = Others
  <2>1. Taken(log') = Taken(log) \o incoming BY <1>2, <1>4, <1>5, <1>6, TakenTyped DEF QueueTyped
  <2>2. Taken(log') \in Seq(Message) BY <1>7, TakenTyped
  <2>3. Taken(log') \o <<>> = Taken(log') BY <2>2, ConcatEmptySeq
  <2>4. Taken(log) \o incoming = Others BY DEF QueueInv, HandedOnce, Taken
  <2>. QED BY <1>2, <2>1, <2>3, <2>4
<1>10. Others' = Others BY <1>3 DEF Others
<1>11. HandedOnce' BY <1>2, <1>9, <1>10 DEF HandedOnce, Taken
<1>. QED BY <1>8, <1>11 DEF QueueInv

LEMMA StepQueue == QueueInv /\ [ServerNext]_server_vars => QueueInv'
<1>. SUFFICES ASSUME QueueInv, [ServerNext]_server_vars PROVE QueueInv'
  OBVIOUS
<1>1. QueueTyped /\ HandedOnce BY DEF QueueInv
<1>2. CASE UNCHANGED server_vars BY <1>2, QueueKept DEF server_vars
<1>3. CASE ClientStep BY <1>3, QueueKept DEF ClientStep
<1>4. CASE RunnerCancelled BY <1>4, QueueKept DEF RunnerCancelled
<1>5. ASSUME NEW c \in Callers,
             StartPairing(c) \/ Poll(c) \/ EnsureOnline(c) \/ Proceeds(c) \/ SendFile(c) \/ Upload(c)
      PROVE  QueueInv'
  BY <1>5, QueueKept DEF StartPairing, Poll, EnsureOnline, Proceeds, SendFile, Upload
<1>6. ASSUME NEW c \in Callers, NEW chats, WaitForMessages(c, chats) PROVE QueueInv'
  <2>1. woken' \subseteq Callers BY <1>1, <1>6 DEF WaitForMessages, QueueTyped
  <2>2. Turn(c, chats) BY <1>6 DEF WaitForMessages
  <2>. QED BY <2>1, <2>2, TurnQueue
<1>7. ASSUME NEW c \in Callers, Resumed(c) PROVE QueueInv'
  <2>1. woken' \subseteq Callers BY <1>1, <1>7 DEF Resumed, QueueTyped
  <2>2. CASE incoming # <<>>
    <3>1. PICK chats : chats = call[c].chats OBVIOUS
    <3>2. Turn(c, chats) BY <1>7, <2>2, <3>1 DEF Resumed
    <3>. QED BY <2>1, <3>2, TurnQueue
  <2>3. CASE incoming = <<>>
    <3>1. /\ getters' = Append(getters, c)
          /\ UNCHANGED <<setting, incoming, arrived, log>>
      BY <1>7, <2>3 DEF Resumed
    <3>2. getters' \in Seq(Callers) BY <1>1, <3>1 DEF QueueTyped
    <3>3. QueueTyped' BY <1>1, <2>1, <3>1, <3>2 DEF QueueTyped
    <3>4. HandedOnce' BY <1>1, <2>3, <3>1 DEF HandedOnce, Others
    <3>. QED BY <3>3, <3>4 DEF QueueInv
  <2>. QED BY <2>2, <2>3
<1>8. ASSUME NEW c \in Callers, GivesUp(c) PROVE QueueInv'
  <2>0. UNCHANGED <<setting, incoming, arrived, log>> BY <1>8 DEF GivesUp
  <2>1. CASE c \in woken
    <3>1. PICK k \in Nat : k = IF incoming = <<>> THEN 0 ELSE 1 OBVIOUS
    <3>2. WakeUp(k, getters, woken \ {c}) BY <1>8, <2>1, <3>1 DEF GivesUp
    <3>3. getters \in Seq(Callers) /\ woken \ {c} \in SUBSET Callers BY <1>1 DEF QueueTyped
    <3>4. /\ getters' \in Seq(Callers) /\ woken' \subseteq Callers
          /\ k # 0 /\ getters' # <<>> => woken' # {}
      BY ONLY <3>2, <3>3, k \in Nat, WokenTyped
    <3>5. QueueTyped' BY <1>1, <2>0, <3>4 DEF QueueTyped
    <3>6. Others' = Others BY <2>0 DEF Others
    <3>7. incoming' # <<>> /\ getters' # <<>> => woken' # {} BY <2>0, <3>1, <3>4
    <3>8. HandedOnce' BY <1>1, <2>0, <3>6, <3>7 DEF HandedOnce
    <3>. QED BY <3>5, <3>8 DEF QueueInv
  <2>2. CASE c \notin woken
    <3>1. PICK i \in 1..Len(getters) : getters' = RemoveAt(getters, i)
      BY <1>8, <2>2 DEF GivesUp
    <3>2. woken' = woken BY <1>8, <2>2 DEF GivesUp
    <3>3. getters' \in Seq(Callers) /\ getters # <<>>
      <4>1. getters \in Seq(Callers) BY <1>1 DEF QueueTyped
      <4>2. getters' = SubSeq(getters, 1, i - 1) \o SubSeq(getters, i + 1, Len(getters))
        BY <3>1 DEF RemoveAt
      <4>3. SubSeq(getters, 1, i - 1) \in Seq(Callers) /\ SubSeq(getters, i + 1, Len(getters)) \in Seq(Callers)
        BY <4>1
      <4>. QED BY <4>1, <4>2, <4>3, ConcatProperties
    <3>4. QueueTyped' BY <1>1, <2>0, <3>2, <3>3 DEF QueueTyped
    <3>5. HandedOnce' BY <1>1, <2>0, <3>2, <3>3 DEF HandedOnce, Others
    <3>. QED BY <3>4, <3>5 DEF QueueInv
  <2>. QED BY <2>1, <2>2
<1>9. CASE OnIncoming
  <2>1. PICK new : new = Incoming(setting.batches[arrived + 1]) OBVIOUS
  <2>2. /\ arrived < Len(setting.batches) /\ arrived' = arrived + 1
        /\ setting' = setting /\ log' = log /\ incoming' = incoming \o new
        /\ WakeUp(Len(new), getters, woken)
    BY <1>9, <2>1 DEF OnIncoming
  <2>3. new \in Seq(Message) /\ Others' = Others \o new BY <1>1, <2>1, <2>2, OthersGrow
  <2>4. PICK k \in Nat : k = Len(new) BY <2>3
  <2>5. /\ getters' \in Seq(Callers) /\ woken' \subseteq Callers
        /\ k # 0 /\ getters' # <<>> => woken' # {}
        /\ k = 0 => getters' = getters /\ woken' = woken
    <3>1. getters \in Seq(Callers) /\ woken \in SUBSET Callers BY <1>1 DEF QueueTyped
    <3>2. WakeUp(k, getters, woken) BY <2>2, <2>4
    <3>. QED BY ONLY <3>1, <3>2, k \in Nat, WokenTyped
  <2>6. incoming' \in Seq(Message) BY <1>1, <2>2, <2>3, ConcatProperties DEF QueueTyped
  <2>7. QueueTyped'
    <3>1. Len(setting.batches) \in Nat BY <1>1 DEF QueueTyped, Setting
    <3>2. arrived' \in 0..Len(setting'.batches) BY <1>1, <2>2, <3>1 DEF QueueTyped
    <3>. QED BY <1>1, <2>2, <2>5, <2>6, <3>2 DEF QueueTyped
  <2>8. Taken(log) \o incoming' = Others'
    <3>1. Taken(log) \in Seq(Message) /\ incoming \in Seq(Message)
      BY <1>1, TakenTyped DEF QueueTyped
    <3>2. (Taken(log) \o incoming) \o new = Taken(log) \o (incoming \o new)
      BY <2>3, <3>1, ConcatAssociative
    <3>3. Taken(log) \o incoming = Others BY <1>1 DEF HandedOnce, Taken
    <3>. QED BY <2>2, <2>3, <3>2, <3>3
  <2>9. incoming' # <<>> /\ getters' # <<>> => woken' # {}
    <3>1. k = 0 => incoming' = incoming
      <4>1. k = 0 => new = <<>> BY <2>3, <2>4, EmptySeq
      <4>2. incoming \o <<>> = incoming BY <1>1, ConcatEmptySeq DEF QueueTyped
      <4>. QED BY <2>2, <4>1, <4>2
    <3>2. incoming # <<>> /\ getters # <<>> => woken # {} BY <1>1 DEF HandedOnce
    <3>. QED BY <2>5, <3>1, <3>2
  <2>10. [i \in 1..Len(log') |-> log'[i].msg] \o incoming' = Others'
    BY <2>2, <2>8 DEF Taken
  <2>11. HandedOnce' BY ONLY <2>9, <2>10 DEF HandedOnce
  <2>. QED BY <2>7, <2>11 DEF QueueInv
<1>10. CASE PeerSends BY <1>10, QueueKept DEF PeerSends, Post
<1>11. ASSUME NEW i, NEW body, DownloadTool(i, body) PROVE QueueInv'
  BY <1>11, QueueKept DEF DownloadTool
<1>. QED BY <1>2, <1>3, <1>4, <1>5, <1>6, <1>7, <1>8, <1>9, <1>10, <1>11 DEF ServerNext

LEMMA InitQueue == ServerInit => QueueInv
<1>. SUFFICES ASSUME ServerInit PROVE QueueInv
  OBVIOUS
<1>1. setting \in Setting BY McpServerAssumption DEF ServerInit
<1>2. arrived = 0 /\ incoming = <<>> /\ getters = <<>> /\ woken = {} /\ log = <<>>
  BY DEF ServerInit
<1>3. Len(setting.batches) \in Nat BY <1>1 DEF Setting
<1>4. QueueTyped BY <1>1, <1>2, <1>3 DEF QueueTyped
<1>5. Others = <<>>
  <2>1. PICK s : s = [i \in 1..0 |-> Incoming(setting.batches[i])] OBVIOUS
  <2>2. s = <<>> BY <2>1
  <2>3. Others = FlattenSeq(s) BY <1>2, <2>1 DEF Others
  <2>. QED BY <2>2, <2>3 DEF FlattenSeq
<1>6. [i \in 1..Len(log) |-> log[i].msg] = <<>> BY <1>2
<1>7. <<>> \o <<>> = <<>> OBVIOUS
<1>8. HandedOnce BY <1>2, <1>5, <1>6, <1>7 DEF HandedOnce
<1>. QED BY <1>4, <1>8 DEF QueueInv

\* Every message somebody else sent is taken from the queue once and in order, and none waits
\* while every call sleeps, for any batches and calls (_on_incoming, wait_for_messages).
THEOREM EachHandedOnce == ServerSpec => []HandedOnce
<1>1. QueueInv => HandedOnce BY DEF QueueInv
<1>. QED BY <1>1, InitQueue, StepQueue, PTL DEF ServerSpec

-----------------------------------------------------------------------------
\* Files.

LEMMA FirstField ==
  ASSUME NEW s, NEW k \in Nat, Len(s) = k + 1, s[k + 1].field \notin WRAPPERS,
         \A i \in 1..k : s[i].field \in WRAPPERS
  PROVE  UnwrapMessage(s) = s[k + 1]
<1>. DEFINE First(i) == s[i].field \notin WRAPPERS /\ \A j \in 1..(i - 1) : s[j].field \in WRAPPERS
<1>1. First(k + 1) /\ k + 1 \in 1..Len(s) OBVIOUS
<1>2. ASSUME NEW i \in 1..Len(s), First(i) PROVE i = k + 1
  <2>1. ~(i \in 1..k) BY <1>2
  <2>. QED BY <2>1
<1>3. UnwrapMessage(s) = s[CHOOSE i \in 1..Len(s) : First(i)] BY DEF UnwrapMessage
<1>. HIDE DEF First
<1>4. (CHOOSE i \in 1..Len(s) : First(i)) = k + 1 BY <1>1, <1>2
<1>. QED BY <1>3, <1>4

\* What unwrap_message finds under any wrappers.
LEMMA Unwrapped ==
  ASSUME NEW w \in Seq(WRAPPERS), NEW m, m.field \notin WRAPPERS
  PROVE  UnwrapMessage([i \in 1..Len(w) |-> [field |-> w[i]]] \o <<m>>) = m
<1>1. PICK k \in Nat : k = Len(w) OBVIOUS
<1>2. PICK u : u = [i \in 1..k |-> [field |-> w[i]]] OBVIOUS
<1>3. PICK X : X = {m} \cup {[field |-> x] : x \in WRAPPERS} OBVIOUS
<1>4. u \in Seq(X) /\ Len(u) = k
  <2>1. \A i \in 1..k : w[i] \in WRAPPERS BY <1>1
  <2>2. \A i \in 1..k : u[i] \in X BY <1>2, <1>3, <2>1
  <2>. QED BY <1>2, <2>2
<1>5. <<m>> \in Seq(X) /\ Len(<<m>>) = 1 /\ <<m>>[1] = m BY <1>3
<1>6. PICK s : s = u \o <<m>> OBVIOUS
<1>7. /\ Len(s) = k + 1
      /\ \A i \in 1..(k + 1) : s[i] = IF i <= k THEN u[i] ELSE <<m>>[i - k]
  BY ONLY <1>1, <1>4, <1>5, <1>6, ConcatProperties
<1>8. s[k + 1] = m
  <2>1. k + 1 \in 1..(k + 1) /\ ~(k + 1 <= k) /\ (k + 1) - k = 1 OBVIOUS
  <2>. QED BY <1>5, <1>7, <2>1
<1>9. ASSUME NEW i \in 1..k PROVE s[i].field \in WRAPPERS
  <2>1. s[i] = u[i] BY <1>7
  <2>2. u[i].field = w[i] /\ w[i] \in WRAPPERS BY <1>1, <1>2
  <2>. QED BY <2>1, <2>2
<1>10. UnwrapMessage(s) = s[k + 1] BY <1>7, <1>8, <1>9, FirstField
<1>. QED BY <1>1, <1>2, <1>6, <1>8, <1>10

LEMMA UnwrappedBare ==
  ASSUME NEW m, m.field \notin WRAPPERS PROVE UnwrapMessage(<<m>>) = m
<1>1. PICK s : s = <<m>> OBVIOUS
<1>2. Len(s) = 0 + 1 /\ s[0 + 1] = m /\ \A i \in 1..0 : s[i].field \in WRAPPERS BY <1>1
<1>3. UnwrapMessage(s) = s[0 + 1] BY <1>2, FirstField
<1>. QED BY <1>1, <1>2, <1>3

\* The k-th message: its file and keys are its own, and what is known of them is right.
File0(k) == <<"file", k>>
Key0(k) == <<"key", k>>
SentAs(p, k, type) ==
  /\ p.plain = File0(k) /\ p.enc = EncryptMedia(File0(k), type, Key0(k)).enc
  /\ \A x \in ExtractMediaInfo(p.message) :
       /\ x.mediaKey = Key0(k) /\ HkdfInfo(x.field) = HkdfInfo(type)
       /\ x.fileSha256 \subseteq {Sha256(p.plain)}
       /\ x.fileEncSha256 \subseteq {Sha256(p.enc)}
Sent(p, k) == \E type : SentAs(p, k, type)

\* A MAC holds only for the ciphertext it is of, under the keys it is of.
LEMMA OnlyItsOwn ==
  ASSUME NEW i, NEW j, NEW l, NEW a, NEW b, NEW d, NEW f, HkdfInfo(f) = HkdfInfo(a),
         NEW body,
         body = [ciphertext |-> EncryptMedia(File0(j), b, Key0(j)).enc.ciphertext,
                 mac |-> EncryptMedia(File0(l), d, Key0(l)).enc.mac]
  PROVE  /\ DecryptMedia(body, Key0(i), f) \subseteq {File0(i)}
         /\ body = EncryptMedia(File0(i), a, Key0(i)).enc =>
              DecryptMedia(body, Key0(i), f) = {File0(i)}
<1>1. PICK ki : ki = MediaKeys(Key0(i), f) OBVIOUS
<1>2. MediaKeys(Key0(i), a) = ki BY <1>1 DEF MediaKeys
<1>3. PICK kj : kj = MediaKeys(Key0(j), b) OBVIOUS
<1>4. PICK kl : kl = MediaKeys(Key0(l), d) OBVIOUS
<1>5. PICK ci : ci = AesCbc(ki["cipher_key"], ki["iv"], File0(i)) OBVIOUS
<1>6. PICK cj : cj = AesCbc(kj["cipher_key"], kj["iv"], File0(j)) OBVIOUS
<1>7. PICK cl : cl = AesCbc(kl["cipher_key"], kl["iv"], File0(l)) OBVIOUS
<1>8. body = [ciphertext |-> cj, mac |-> Hmac(kl["mac_key"], kl["iv"], cl)]
  BY <1>3, <1>4, <1>6, <1>7 DEF EncryptMedia
<1>9. EncryptMedia(File0(i), a, Key0(i)).enc =
        [ciphertext |-> ci, mac |-> Hmac(ki["mac_key"], ki["iv"], ci)]
  BY <1>2, <1>5 DEF EncryptMedia
<1>10. DecryptMedia(body, Key0(i), f) =
         IF Hmac(kl["mac_key"], kl["iv"], cl) # Hmac(ki["mac_key"], ki["iv"], cj) THEN {}
         ELSE {AesCbcDecrypt(cj, ki["cipher_key"], ki["iv"])}
  BY <1>1, <1>8 DEF DecryptMedia
<1>11. AesCbcDecrypt(ci, ki["cipher_key"], ki["iv"]) = File0(i) BY <1>5 DEF AesCbc, AesCbcDecrypt
<1>12. ASSUME Hmac(kl["mac_key"], kl["iv"], cl) = Hmac(ki["mac_key"], ki["iv"], cj)
       PROVE  cj = ci
  <2>1. kl["mac_key"] = ki["mac_key"] /\ cl = cj BY <1>12 DEF Hmac
  <2>2. /\ kl["mac_key"] = <<Key0(l), HkdfInfo(d), "mac_key">>
        /\ ki["mac_key"] = <<Key0(i), HkdfInfo(f), "mac_key">>
    BY <1>1, <1>4 DEF MediaKeys
  <2>7. <<Key0(l), HkdfInfo(d), "mac_key">> = <<Key0(i), HkdfInfo(f), "mac_key">>
    BY ONLY <2>1, <2>2
  <2>3. Key0(l) = Key0(i) /\ HkdfInfo(d) = HkdfInfo(f) BY ONLY <2>7
  <2>4. l = i BY <2>3 DEF Key0
  <2>5. kl = ki BY <1>1, <1>4, <2>3 DEF MediaKeys
  <2>6. cl = ci BY <1>5, <1>7, <2>4, <2>5
  <2>. QED BY <2>1, <2>6
<1>13. body = EncryptMedia(File0(i), a, Key0(i)).enc =>
         Hmac(kl["mac_key"], kl["iv"], cl) = Hmac(ki["mac_key"], ki["iv"], cj)
  BY ONLY <1>8, <1>9
<1>. QED BY ONLY <1>10, <1>11, <1>12, <1>13

\* An upload goes on for a file of ours, alone; what was posted and what was made of it.
Uploads ==
  \A c \in Callers : call[c].at = "uploading" =>
    /\ setting.kind = "media" /\ HasFile("us")
    /\ \A d \in Callers \ {c} : call[d] = Idle

Right(r) ==
  /\ r.data \subseteq {posted[r.of].plain}
  /\ (r.body = posted[r.of].enc /\ \E x \in ExtractMediaInfo(posted[r.of].message) : DownloadUrl(x) # {}) =>
       r.data = {posted[r.of].plain}

Postings ==
  /\ setting \in Setting
  /\ \E X : posted \in Seq(X)
  /\ \A i \in 1..Len(posted) : Sent(posted[i], i - 1)

FilesInv ==
  /\ call = [c \in Callers |-> call[c]] /\ Uploads /\ Postings
  /\ \A r \in results : r.of \in 1..Len(posted) /\ Right(r)

LEMMA FilesArrive == FilesInv => MediaArrives
BY DEF FilesInv, MediaArrives, Right

\* One more message.
LEMMA PostMore ==
  ASSUME Postings, NEW p, Sent(p, Len(posted)), posted' = Append(posted, p), setting' = setting,
         results' = results, \A r \in results : r.of \in 1..Len(posted) /\ Right(r)
  PROVE  Postings' /\ \A r \in results' : r.of \in 1..Len(posted') /\ Right(r)'
<1>1. PICK X : posted \in Seq(X) BY DEF Postings
<1>2. PICK Y : Y = X \cup {p} OBVIOUS
<1>3. posted \in Seq(Y) BY <1>1, <1>2, SeqMonotonic
<1>4. PICK k \in Nat : k = Len(posted) BY <1>1
<1>5. /\ posted' \in Seq(Y) /\ Len(posted') = k + 1 /\ posted'[k + 1] = p
      /\ \A i \in 1..k : posted'[i] = posted[i]
  BY <1>2, <1>3, <1>4, AppendProperties
<1>6. Sent(p, k) BY <1>4
<1>7. ASSUME NEW i \in 1..(k + 1) PROVE Sent(posted'[i], i - 1)
  <2>1. CASE i = k + 1
    <3>1. i - 1 = k BY <2>1
    <3>. QED BY <1>5, <1>6, <2>1, <3>1
  <2>2. CASE i # k + 1
    <3>1. i \in 1..k BY <2>2
    <3>. QED BY <1>4, <1>5, <3>1 DEF Postings
  <2>. QED BY <2>1, <2>2
<1>8. Postings'
  <2>1. \A i \in 1..Len(posted') : Sent(posted'[i], i - 1) BY <1>5, <1>7
  <2>2. setting' \in Setting BY DEF Postings
  <2>. QED BY <1>5, <2>1, <2>2 DEF Postings
<1>9. ASSUME NEW r \in results' PROVE r.of \in 1..Len(posted') /\ Right(r)'
  <2>1. r.of \in 1..k /\ Right(r) BY <1>4
  <2>2. posted'[r.of] = posted[r.of] BY <1>5, <2>1
  <2>. QED BY <1>5, <2>1, <2>2 DEF Right
<1>. QED BY <1>8, <1>9

\* What send_file sends.
LEMMA OurFile ==
  ASSUME Postings, HasFile("us"), NEW upload
  PROVE  Sent([message |-> BuildMediaMessage(This.type, upload, Encrypted), enc |-> Encrypted.enc,
               plain |-> <<"file", Len(posted)>>], Len(posted))
<1>1. PICK k \in Nat : k = Len(posted) BY DEF Postings
<1>2. This \in File /\ This.by = "us"
  <2>1. setting.files \in Seq(File) BY DEF Postings, Setting
  <2>2. k + 1 \in 1..Len(setting.files) BY <1>1, <2>1 DEF HasFile
  <2>. QED BY <1>1, <2>1, <2>2 DEF HasFile, This
<1>3. PICK type : type = This.type OBVIOUS
<1>4. type \in {"image", "video", "audio", "document"} BY <1>2, <1>3 DEF File, MEDIA_MSG_FIELD
<1>5. PICK e : e = EncryptMedia(<<"file", k>>, type, <<"key", k>>) OBVIOUS
<1>6. /\ e.enc = EncryptMedia(File0(k), type, Key0(k)).enc /\ e.mediaKey = Key0(k)
      /\ e.fileSha256 = {Sha256(File0(k))} /\ e.fileEncSha256 = {Sha256(e.enc)}
  BY <1>5 DEF EncryptMedia, File0, Key0
<1>7. PICK m : m = [field |-> MEDIA_MSG_FIELD[type], url |-> upload.url,
                    directPath |-> upload.directPath, mediaKey |-> e.mediaKey,
                    fileSha256 |-> e.fileSha256, fileEncSha256 |-> e.fileEncSha256]
  OBVIOUS
<1>8. /\ m.field \notin WRAPPERS /\ m.field \in DOMAIN MEDIA_FIELDS
      /\ MEDIA_FIELDS[m.field] = type
  BY <1>4, <1>7 DEF WRAPPERS, MEDIA_FIELDS, MEDIA_MSG_FIELD
<1>9. BuildMediaMessage(type, upload, e) = <<m>> BY <1>7 DEF BuildMediaMessage
<1>10. UnwrapMessage(<<m>>) = m BY <1>8, UnwrappedBare
<1>11. ExtractMediaInfo(<<m>>) = {[m EXCEPT !.field = type]} BY <1>8, <1>10 DEF ExtractMediaInfo
<1>12. PICK x : x = [m EXCEPT !.field = type] OBVIOUS
<1>13. /\ x.mediaKey = Key0(k) /\ x.field = type
       /\ x.fileSha256 = {Sha256(File0(k))} /\ x.fileEncSha256 = {Sha256(e.enc)}
  BY <1>6, <1>7, <1>12
<1>14. PICK p : p = [message |-> <<m>>, enc |-> e.enc, plain |-> <<"file", k>>] OBVIOUS
<1>15. p.plain = File0(k) /\ p.enc = e.enc /\ p.message = <<m>> BY <1>14 DEF File0
<1>16. SentAs(p, k, type) BY <1>6, <1>11, <1>12, <1>13, <1>15 DEF SentAs
<1>17. Sent(p, k) BY <1>16 DEF Sent
<1>18. Encrypted = e BY <1>1, <1>3, <1>5 DEF Encrypted
<1>. QED BY <1>1, <1>3, <1>9, <1>14, <1>17, <1>18

\* What another application sends.
LEMMA PeersFile ==
  ASSUME Postings, PeerSends
  PROVE  \E p : posted' = Append(posted, p) /\ Sent(p, Len(posted))
<1>1. PICK k \in Nat : k = Len(posted) BY DEF Postings
<1>2. This \in File /\ This.by = "peer"
  <2>1. setting.files \in Seq(File) BY DEF Postings, Setting
  <2>2. k + 1 \in 1..Len(setting.files) BY <1>1, <2>1 DEF PeerSends, HasFile
  <2>. QED BY <1>1, <2>1, <2>2 DEF PeerSends, HasFile, This
<1>3. PICK f : f = This OBVIOUS
<1>4. /\ f.field \notin WRAPPERS /\ f.wrappers \in Seq(WRAPPERS)
      /\ f.field \in DOMAIN MEDIA_FIELDS => HkdfInfo(f.type) = MEDIA_FIELDS[f.field]
  BY <1>2, <1>3 DEF File
<1>5. PICK e : e = EncryptMedia(<<"file", k>>, f.type, <<"key", k>>) OBVIOUS
<1>6. /\ e.enc = EncryptMedia(File0(k), f.type, Key0(k)).enc /\ e.mediaKey = Key0(k)
      /\ e.fileSha256 = {Sha256(File0(k))} /\ e.fileEncSha256 = {Sha256(e.enc)}
  BY <1>5 DEF EncryptMedia, File0, Key0
<1>7. PICK m : m = [field |-> f.field, url |-> {}, directPath |-> {"path"},
                    mediaKey |-> e.mediaKey,
                    fileSha256 |-> IF f.digests THEN e.fileSha256 ELSE {},
                    fileEncSha256 |-> IF f.digests THEN e.fileEncSha256 ELSE {}]
  OBVIOUS
<1>8. PICK s : s = [i \in 1..Len(f.wrappers) |-> [field |-> f.wrappers[i]]] \o <<m>> OBVIOUS
<1>9. UnwrapMessage(s) = m
  <2>1. m.field \notin WRAPPERS BY <1>4, <1>7
  <2>2. PICK w \in Seq(WRAPPERS) : w = f.wrappers BY <1>4
  <2>3. UnwrapMessage([i \in 1..Len(w) |-> [field |-> w[i]]] \o <<m>>) = m
    BY ONLY <2>1, w \in Seq(WRAPPERS), Unwrapped
  <2>. QED BY <1>8, <2>2, <2>3
<1>10. ASSUME NEW x \in ExtractMediaInfo(s)
       PROVE  /\ x.mediaKey = Key0(k) /\ HkdfInfo(x.field) = HkdfInfo(f.type)
              /\ x.fileSha256 \subseteq {Sha256(File0(k))}
              /\ x.fileEncSha256 \subseteq {Sha256(e.enc)}
  <2>1. /\ m.field \in DOMAIN MEDIA_FIELDS /\ x = [m EXCEPT !.field = MEDIA_FIELDS[m.field]]
    BY <1>9, <1>10 DEF ExtractMediaInfo
  <2>2. m.field = f.field BY <1>7
  <2>3. x.field = HkdfInfo(f.type) BY <1>4, <1>7, <2>1, <2>2
  <2>4. HkdfInfo(HkdfInfo(f.type)) = HkdfInfo(f.type) BY DEF HkdfInfo
  <2>. QED BY <1>6, <1>7, <2>1, <2>3, <2>4
<1>11. PICK p : p = [message |-> s, enc |-> e.enc, plain |-> <<"file", k>>] OBVIOUS
<1>12. p.plain = File0(k) /\ p.enc = e.enc /\ p.message = s BY <1>11 DEF File0
<1>13. SentAs(p, k, f.type) BY <1>6, <1>10, <1>12 DEF SentAs
<1>14. Sent(p, k) BY <1>13 DEF Sent
<1>15. Encrypted = e BY <1>1, <1>3, <1>5 DEF Encrypted
<1>16. posted' = Append(posted, p)
  BY <1>1, <1>3, <1>7, <1>8, <1>11, <1>15 DEF PeerSends, Post
<1>. QED BY <1>1, <1>14, <1>16

\* What download_media makes of any body.
LEMMA Downloaded ==
  ASSUME Postings, NEW i \in 1..Len(posted), NEW body \in Bodies,
         NEW r, r = [of |-> i, body |-> body,
           data |-> UNION {DownloadMedia(x, body) :
                             x \in {x \in ExtractMediaInfo(posted[i].message) : DownloadUrl(x) # {}}}]
  PROVE  Right(r)
<1>1. PICK k \in Nat : k = Len(posted) BY DEF Postings
<1>2. PICK j \in 1..k, l \in 1..k :
        body = [ciphertext |-> posted[j].enc.ciphertext, mac |-> posted[l].enc.mac]
  BY <1>1 DEF Bodies
<1>3. PICK a : SentAs(posted[i], i - 1, a) BY DEF Postings, Sent
<1>4. PICK b : SentAs(posted[j], j - 1, b) BY <1>1, <1>2 DEF Postings, Sent
<1>5. PICK d : SentAs(posted[l], l - 1, d) BY <1>1, <1>2 DEF Postings, Sent
<1>6. PICK i0 : i0 = i - 1 OBVIOUS
<1>7. PICK p : p = posted[i] OBVIOUS
<1>8. /\ p.plain = File0(i0) /\ p.enc = EncryptMedia(File0(i0), a, Key0(i0)).enc
  BY <1>3, <1>6, <1>7 DEF SentAs
<1>9. body = [ciphertext |-> EncryptMedia(File0(j - 1), b, Key0(j - 1)).enc.ciphertext,
              mac |-> EncryptMedia(File0(l - 1), d, Key0(l - 1)).enc.mac]
  BY <1>2, <1>4, <1>5 DEF SentAs
<1>10. ASSUME NEW x \in ExtractMediaInfo(p.message)
       PROVE  /\ DownloadMedia(x, body) \subseteq {p.plain}
              /\ body = p.enc => DownloadMedia(x, body) = {p.plain}
  <2>1. /\ x.mediaKey = Key0(i0) /\ HkdfInfo(x.field) = HkdfInfo(a)
        /\ x.fileSha256 \subseteq {Sha256(p.plain)} /\ x.fileEncSha256 \subseteq {Sha256(p.enc)}
    BY <1>3, <1>6, <1>7, <1>10 DEF SentAs
  <2>2. PICK D : D = DecryptMedia(body, x.mediaKey, x.field) OBVIOUS
  <2>3. PICK f : f = x.field OBVIOUS
  <2>4. /\ DecryptMedia(body, Key0(i0), f) \subseteq {File0(i0)}
        /\ body = EncryptMedia(File0(i0), a, Key0(i0)).enc =>
             DecryptMedia(body, Key0(i0), f) = {File0(i0)}
    BY <1>9, <2>1, <2>3, OnlyItsOwn
  <2>5. D \subseteq {p.plain} /\ (body = p.enc => D = {p.plain})
    BY <1>8, <2>1, <2>2, <2>3, <2>4
  <2>6. DownloadMedia(x, body) =
          {data \in IF Mismatch(x.fileEncSha256, body) THEN {} ELSE D : ~Mismatch(x.fileSha256, data)}
    BY <2>2 DEF DownloadMedia, DownloadEncrypted
  <2>7. ~Mismatch(x.fileSha256, p.plain) BY <2>1 DEF Mismatch
  <2>8. body = p.enc => ~Mismatch(x.fileEncSha256, body) BY <2>1 DEF Mismatch
  <2>. QED BY <2>5, <2>6, <2>7, <2>8
<1>11. r.of = i /\ r.body = body BY DEF Right
<1>12. r.data = UNION {DownloadMedia(x, body) :
                         x \in {x \in ExtractMediaInfo(p.message) : DownloadUrl(x) # {}}}
  BY <1>7
<1>13. r.data \subseteq {p.plain} BY <1>10, <1>12
<1>14. ASSUME body = p.enc, NEW x \in ExtractMediaInfo(p.message), DownloadUrl(x) # {}
       PROVE  r.data = {p.plain}
  <2>1. p.plain \in DownloadMedia(x, body) BY <1>10, <1>14
  <2>2. p.plain \in r.data BY <1>12, <1>14, <2>1
  <2>. QED BY <1>13, <2>2
<1>. QED BY <1>7, <1>11, <1>13, <1>14 DEF Right

\* Steps of calls that are not uploads.
LEMMA FilesKept ==
  ASSUME FilesInv, UNCHANGED <<setting, files>>, call' = [c \in Callers |-> call'[c]], Uploads'
  PROVE  FilesInv'
<1>1. Postings' BY DEF FilesInv, Postings, files
<1>2. \A r \in results' : r.of \in 1..Len(posted') /\ Right(r)' BY DEF FilesInv, Right, files
<1>. QED BY <1>1, <1>2 DEF FilesInv

\* A call that goes somewhere else while no file of ours is sent.
LEMMA Elsewhere ==
  ASSUME FilesInv, UNCHANGED <<setting, files>>, NEW c \in Callers, NEW x, At(c, x),
         x.at # "uploading", call[c] = Idle => setting.kind # "media"
  PROVE  FilesInv'
<1>1. call = [d \in Callers |-> call[d]] BY DEF FilesInv
<1>2. /\ call' = [d \in Callers |-> call'[d]]
      /\ \A d \in Callers : call'[d] = IF d = c THEN x ELSE call[d]
  BY <1>1 DEF At
<1>3. ASSUME NEW d \in Callers, call'[d].at = "uploading"
      PROVE  /\ setting'.kind = "media" /\ HasFile("us")'
             /\ \A o \in Callers \ {d} : call'[o] = Idle
  <2>1. d # c /\ call[d].at = "uploading" BY <1>2, <1>3
  <2>2. /\ setting.kind = "media" /\ HasFile("us")
        /\ \A o \in Callers \ {d} : call[o] = Idle
    BY <2>1 DEF FilesInv, Uploads
  <2>3. call[c] = Idle BY <2>1, <2>2
  <2>. QED BY <2>2, <2>3
<1>4. Uploads' BY <1>3 DEF Uploads
<1>. QED BY <1>2, <1>4, FilesKept

\* Nobody waits for messages while files are sent.
NoneWaits == setting.kind = "media" => getters = <<>> /\ woken = {}

LEMMA StepNoneWaits == NoneWaits /\ [ServerNext]_server_vars => NoneWaits'
<1>. SUFFICES ASSUME NoneWaits, [ServerNext]_server_vars, setting'.kind = "media"
              PROVE  getters' = <<>> /\ woken' = {}
  BY DEF NoneWaits
<1>1. CASE UNCHANGED server_vars BY <1>1 DEF NoneWaits, server_vars, queue
<1>2. CASE ClientStep BY <1>2 DEF NoneWaits, ClientStep, queue
<1>3. CASE RunnerCancelled BY <1>3 DEF NoneWaits, RunnerCancelled, queue
<1>4. ASSUME NEW c \in Callers,
             StartPairing(c) \/ Poll(c) \/ EnsureOnline(c) \/ Proceeds(c) \/ SendFile(c) \/ Upload(c)
      PROVE  getters' = <<>> /\ woken' = {}
  BY <1>4 DEF NoneWaits, StartPairing, Poll, EnsureOnline, Proceeds, SendFile, Upload, queue
<1>5. ASSUME NEW c \in Callers, NEW chats, WaitForMessages(c, chats) PROVE FALSE
  BY <1>5 DEF WaitForMessages, Turn
<1>6. ASSUME NEW c \in Callers, Resumed(c) PROVE FALSE
  <2>1. setting' = setting BY <1>6 DEF Resumed, Turn
  <2>. QED BY <1>6, <2>1 DEF NoneWaits, Resumed
<1>7. ASSUME NEW c \in Callers, GivesUp(c) PROVE FALSE
  <2>1. getters = <<>> /\ woken = {} BY <1>7 DEF NoneWaits, GivesUp
  <2>2. \E i \in 1..Len(getters) : getters[i] = c BY <1>7, <2>1 DEF GivesUp
  <2>. QED BY <2>1, <2>2
<1>8. CASE OnIncoming BY <1>8 DEF OnIncoming
<1>9. CASE PeerSends BY <1>9 DEF NoneWaits, PeerSends, Post, queue
<1>10. ASSUME NEW i, NEW body, DownloadTool(i, body) PROVE getters' = <<>> /\ woken' = {}
  BY <1>10 DEF NoneWaits, DownloadTool, queue
<1>. QED BY <1>1, <1>2, <1>3, <1>4, <1>5, <1>6, <1>7, <1>8, <1>9, <1>10 DEF ServerNext

LEMMA StepFiles == FilesInv /\ NoneWaits /\ [ServerNext]_server_vars => FilesInv'
<1>. SUFFICES ASSUME FilesInv, NoneWaits, [ServerNext]_server_vars PROVE FilesInv'
  OBVIOUS
<1>1. /\ call = [c \in Callers |-> call[c]] /\ Uploads /\ Postings
      /\ \A r \in results : r.of \in 1..Len(posted) /\ Right(r)
  BY DEF FilesInv
<1>0. Idle.at = "idle" BY DEF Idle
<1>15. ASSUME UNCHANGED <<setting, call, files>> PROVE FilesInv'
  <2>1. Uploads' BY <1>1, <1>15 DEF Uploads, HasFile, This, files
  <2>. QED BY <1>1, <1>15, <2>1, FilesKept
<1>2. CASE UNCHANGED server_vars BY <1>2, <1>15 DEF server_vars
<1>3. CASE ClientStep
  <2>1. /\ UNCHANGED <<setting, files>> /\ setting.kind = "online"
        /\ call' = [c \in Callers |-> IF told' = "open" /\ call[c].at = "asleep"
                                      THEN [at |-> "awake"] ELSE call[c]]
    BY <1>3 DEF ClientStep, OnUpdate
  <2>2. \A c \in Callers : call[c].at # "uploading" BY <1>1, <2>1 DEF Uploads
  <2>3. \A c \in Callers : call'[c].at # "uploading" BY <2>1, <2>2
  <2>4. Uploads' BY <2>3 DEF Uploads
  <2>. QED BY <2>1, <2>4, FilesKept
<1>4. CASE RunnerCancelled BY <1>4, <1>15 DEF RunnerCancelled
<1>5. ASSUME NEW c \in Callers, StartPairing(c) PROVE FilesInv'
  <2>1. PICK x : x = [at |-> "polling", left |-> Polls] OBVIOUS
  <2>2. At(c, x) /\ x.at # "uploading" /\ setting.kind # "media" /\ UNCHANGED <<setting, files>>
    BY <1>5, <2>1 DEF StartPairing
  <2>. QED BY <2>2, Elsewhere
<1>6. ASSUME NEW c \in Callers, Poll(c) PROVE FilesInv'
  <2>1. PICK x : x = [call[c] EXCEPT !.left = call[c].left - 1] OBVIOUS
  <2>2. call[c].at = "polling" /\ (At(c, Idle) \/ At(c, x)) /\ UNCHANGED <<setting, files>>
    BY <1>6, <2>1 DEF Poll, Ends, At
  <2>3. x.at = "polling" BY <2>1, <2>2
  <2>. QED BY <1>0, <2>2, <2>3, Elsewhere
<1>7. ASSUME NEW c \in Callers, EnsureOnline(c) PROVE FilesInv'
  <2>1. PICK x : x = [at |-> "asleep"] OBVIOUS
  <2>2. At(c, x) /\ x.at # "uploading" /\ setting.kind # "media" /\ UNCHANGED <<setting, files>>
    BY <1>7, <2>1 DEF EnsureOnline
  <2>. QED BY <2>2, Elsewhere
<1>8. ASSUME NEW c \in Callers, Proceeds(c) PROVE FilesInv'
  <2>1. call[c].at # "idle" /\ At(c, Idle) /\ UNCHANGED <<setting, files>>
    BY <1>8 DEF Proceeds, Ends
  <2>. QED BY <1>0, <2>1, Elsewhere
<1>9. ASSUME NEW c \in Callers, NEW chats, Turn(c, chats), call[c] = Idle => setting.kind # "media"
      PROVE  FilesInv'
  <2>1. PICK x : x = [at |-> "waiting", chats |-> chats] OBVIOUS
  <2>2. (At(c, Idle) \/ At(c, x)) /\ x.at # "uploading" /\ UNCHANGED <<setting, files>>
    BY <1>9, <2>1 DEF Turn, Ends
  <2>. QED BY <1>0, <1>9, <2>2, Elsewhere
<1>10. ASSUME NEW c \in Callers, NEW chats, WaitForMessages(c, chats) PROVE FilesInv'
  BY <1>9, <1>10 DEF WaitForMessages
<1>11. ASSUME NEW c \in Callers, Resumed(c) PROVE FilesInv'
  <2>1. setting.kind # "media" BY <1>11 DEF NoneWaits, Resumed
  <2>2. CASE incoming # <<>>
    <3>1. PICK chats : chats = call[c].chats OBVIOUS
    <3>2. Turn(c, chats) BY <1>11, <2>2, <3>1 DEF Resumed
    <3>. QED BY <1>9, <2>1, <3>2
  <2>3. CASE incoming = <<>> BY <1>11, <1>15, <2>3 DEF Resumed
  <2>. QED BY <2>2, <2>3
<1>12. ASSUME NEW c \in Callers, GivesUp(c) PROVE FilesInv'
  <2>1. call[c].at = "waiting" /\ At(c, Idle) /\ UNCHANGED <<setting, files>>
    BY <1>12 DEF GivesUp, Ends
  <2>. QED BY <1>0, <2>1, Elsewhere
<1>13. ASSUME NEW c \in Callers, SendFile(c) PROVE FilesInv'
  <2>1. /\ setting.kind = "media" /\ HasFile("us") /\ \A d \in Callers : call[d] = Idle
        /\ UNCHANGED <<setting, files>>
    BY <1>13 DEF SendFile, HasFile
  <2>2. call' = call \/ \E x : At(c, x) BY <1>13 DEF SendFile
  <2>3. call' = [d \in Callers |-> call'[d]] BY <1>1, <2>2 DEF At
  <2>4. \A d \in Callers \ {c} : call'[d] = Idle BY <1>1, <2>1, <2>2 DEF At
  <2>5. setting'.kind = "media" /\ HasFile("us")' BY <2>1 DEF HasFile, This, files
  <2>6. ASSUME NEW d \in Callers, call'[d].at = "uploading" PROVE d = c BY <1>0, <2>4, <2>6
  <2>7. Uploads' BY <2>4, <2>5, <2>6 DEF Uploads
  <2>. QED BY <2>1, <2>3, <2>7, FilesKept
<1>14. ASSUME NEW c \in Callers, Upload(c) PROVE FilesInv'
  <2>1. /\ HasFile("us") /\ setting.kind = "media"
        /\ \A d \in Callers \ {c} : call[d] = Idle
        /\ UNCHANGED <<setting, results>>
    BY <1>1, <1>14 DEF Upload, Uploads
  <2>2. ASSUME NEW upload, Post(BuildMediaMessage(This.type, upload, Encrypted), Encrypted), Ends(c)
        PROVE  FilesInv'
    <3>1. PICK p : p = [message |-> BuildMediaMessage(This.type, upload, Encrypted),
                        enc |-> Encrypted.enc, plain |-> <<"file", Len(posted)>>]
      OBVIOUS
    <3>2. Sent(p, Len(posted)) BY <1>1, <2>1, <3>1, OurFile
    <3>3. posted' = Append(posted, p) BY <2>2, <3>1 DEF Post
    <3>4. Postings' /\ \A r \in results' : r.of \in 1..Len(posted') /\ Right(r)'
      BY <1>1, <2>1, <3>2, <3>3, PostMore
    <3>5. call' = [d \in Callers |-> call'[d]] /\ \A d \in Callers : call'[d] = Idle
      BY <1>1, <2>1, <2>2 DEF Ends, At
    <3>6. Uploads' BY <1>0, <3>5 DEF Uploads
    <3>. QED BY <3>4, <3>5, <3>6 DEF FilesInv
  <2>3. ASSUME NEW x, At(c, x), posted' = posted PROVE FilesInv'
    <3>1. /\ call' = [d \in Callers |-> call'[d]]
          /\ \A d \in Callers \ {c} : call'[d] = Idle
      BY <1>1, <2>1, <2>3 DEF At
    <3>2. setting'.kind = "media" /\ HasFile("us")' BY <2>1, <2>3 DEF HasFile, This
    <3>3. ASSUME NEW d \in Callers, call'[d].at = "uploading" PROVE d = c BY <1>0, <3>1, <3>3
    <3>4. Uploads' BY <3>1, <3>2, <3>3 DEF Uploads
    <3>. QED BY <2>1, <2>3, <3>1, <3>4, FilesKept DEF files
  <2>4. \/ \E upload : Post(BuildMediaMessage(This.type, upload, Encrypted), Encrypted) /\ Ends(c)
        \/ posted' = posted /\ \E x : At(c, x)
    BY <1>14 DEF Upload, Ends
  <2>. QED BY <2>2, <2>3, <2>4
<1>16. CASE OnIncoming BY <1>15, <1>16 DEF OnIncoming
<1>17. CASE PeerSends
  <2>1. UNCHANGED <<setting, call, results>> /\ HasFile("peer") BY <1>17 DEF PeerSends
  <2>2. PICK p : posted' = Append(posted, p) /\ Sent(p, Len(posted)) BY <1>1, <1>17, PeersFile
  <2>3. Postings' /\ \A r \in results' : r.of \in 1..Len(posted') /\ Right(r)'
    BY <1>1, <2>1, <2>2, PostMore
  <2>4. \A c \in Callers : call[c].at # "uploading" BY <1>1, <2>1 DEF Uploads, HasFile
  <2>5. Uploads' BY <2>1, <2>4 DEF Uploads
  <2>. QED BY <1>1, <2>1, <2>3, <2>5 DEF FilesInv
<1>18. ASSUME NEW i \in 1..Len(posted), NEW body \in Bodies, DownloadTool(i, body) PROVE FilesInv'
  <2>1. PICK r : r = [of |-> i, body |-> body,
           data |-> UNION {DownloadMedia(x, body) :
                             x \in {x \in ExtractMediaInfo(posted[i].message) : DownloadUrl(x) # {}}}]
    OBVIOUS
  <2>2. results' = results \cup {r} /\ UNCHANGED <<setting, call, posted>>
    BY <1>18, <2>1 DEF DownloadTool
  <2>3. Right(r) BY <1>1, <2>1, Downloaded
  <2>4. r.of = i BY <2>1
  <2>5. \A q \in results' : q.of \in 1..Len(posted') /\ Right(q)'
    BY <1>1, <2>2, <2>3, <2>4 DEF Right
  <2>6. Uploads' BY <1>1, <2>2 DEF Uploads, HasFile, This
  <2>7. Postings' BY <1>1, <2>2 DEF Postings
  <2>. QED BY <1>1, <2>2, <2>5, <2>6, <2>7 DEF FilesInv
<1>. QED BY <1>2, <1>3, <1>4, <1>5, <1>6, <1>7, <1>8, <1>10, <1>11, <1>12, <1>13, <1>14, <1>16,
            <1>17, <1>18 DEF ServerNext

LEMMA InitFiles == ServerInit => FilesInv /\ NoneWaits
<1>. SUFFICES ASSUME ServerInit PROVE FilesInv /\ NoneWaits
  OBVIOUS
<1>1. setting \in Setting BY McpServerAssumption DEF ServerInit
<1>2. /\ call = [c \in Callers |-> Idle] /\ posted = <<>> /\ results = {}
      /\ getters = <<>> /\ woken = {}
  BY DEF ServerInit
<1>3. Uploads BY <1>2 DEF Uploads, Idle
<1>4. posted \in Seq({}) /\ Len(posted) = 0 BY <1>2
<1>5. Postings BY <1>1, <1>4 DEF Postings
<1>6. call = [c \in Callers |-> call[c]] BY <1>2
<1>. QED BY <1>2, <1>3, <1>5, <1>6 DEF FilesInv, NoneWaits

\* A file that download_media saves is the one that was sent, whatever body the host answers
\* with, and the body that was uploaded gives it (encrypt_media, decrypt_media, extract_media_info).
THEOREM FileArrives == ServerSpec => []MediaArrives
<1>1. ServerInit => FilesInv /\ NoneWaits BY InitFiles
<1>2. (FilesInv /\ NoneWaits) /\ [ServerNext]_server_vars => (FilesInv /\ NoneWaits)'
  BY StepFiles, StepNoneWaits
<1>3. FilesInv => MediaArrives BY FilesArrive
<1>. QED BY <1>1, <1>2, <1>3, PTL DEF ServerSpec

=============================================================================
