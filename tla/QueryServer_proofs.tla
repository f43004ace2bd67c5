-------------------------- MODULE QueryServer_proofs --------------------------
(* Theorems about QueryServer, for any set of bus connections. *)
EXTENDS QueryServer, TLAPS

Idle == \A o \in Ops : armed[o] = 0

\* Nothing is outstanding before start() and after a start() that failed.
DownIsIdle ==
  /\ acceptor \in {"down", "failed"} => sock = "null" /\ backlog = <<>>
  /\ sock = "null" => Idle /\ peer = NoConn /\ owed = NoConn

\* The inductive invariant.  The three properties need each other: a handler
\* replaces its own operation only because no other is outstanding.
Inv ==
  /\ TypeOK
  /\ OneOperation
  /\ OperationOwnsSocket
  /\ OwedHoldsSocket
  /\ DownIsIdle

LEMMA OpsDistinct ==
  /\ "accept" \in Ops /\ "read_len" \in Ops /\ "read_rest" \in Ops /\ "write" \in Ops
  BY DEF Ops

\* What Over and Rearm do to the counters of a handler whose operation is the
\* only one outstanding.
LEMMA OverIdle ==
  ASSUME armed \in [Ops -> 0..1], OneOperation, NEW op \in Ops, armed[op] > 0
  PROVE  /\ Over(op) \in [Ops -> 0..1]
         /\ \A o \in Ops : Over(op)[o] = 0
  BY DEF OneOperation, Over

LEMMA RearmOnly ==
  ASSUME armed \in [Ops -> 0..1], OneOperation,
         NEW op \in Ops, NEW next \in Ops, armed[op] > 0
  PROVE  /\ Rearm(op, next) \in [Ops -> 0..1]
         /\ \A o \in Ops : Rearm(op, next)[o] = IF o = next THEN 1 ELSE 0
  BY OverIdle DEF Rearm

\* The same of a handler that runs in a state of the invariant.
LEMMA RunRearms ==
  ASSUME Inv, NEW op \in Ops, NEW next \in Ops, Runs(op), armed' = Rearm(op, next)
  PROVE  /\ armed' \in [Ops -> 0..1]
         /\ \A o \in Ops : armed'[o] = IF o = next THEN 1 ELSE 0
<1>1. armed \in [Ops -> 0..1] /\ OneOperation /\ armed[op] > 0
  BY DEF Inv, TypeOK, Runs
<1> QED BY <1>1, RearmOnly

LEMMA RunEnds ==
  ASSUME Inv, NEW op \in Ops, Runs(op), armed' = Over(op)
  PROVE  /\ armed' \in [Ops -> 0..1]
         /\ \A o \in Ops : armed'[o] = 0
<1>1. armed \in [Ops -> 0..1] /\ OneOperation /\ armed[op] > 0
  BY DEF Inv, TypeOK, Runs
<1> QED BY <1>1, OverIdle

THEOREM InitInv == Init => Inv
  BY QueryServerAssumption
     DEF Init, Inv, TypeOK, OneOperation, OperationOwnsSocket, OwedHoldsSocket,
         DownIsIdle, Idle, Frames

\* Every handler that ends in recycle() leaves one accept outstanding.
LEMMA RecycleInv ==
  ASSUME Inv, NEW op \in Ops \ {"accept"}, armed[op] > 0, Recycle(op)
  PROVE  Inv'
<1> USE QueryServerAssumption DEF Inv, TypeOK
<1>1. /\ armed' \in [Ops -> 0..1]
      /\ \A o \in Ops : armed'[o] = IF o = "accept" THEN 1 ELSE 0
  <2>1. op \in Ops /\ "accept" \in Ops /\ armed' = Rearm(op, "accept")
    BY OpsDistinct DEF Recycle
  <2>2. armed \in [Ops -> 0..1] /\ OneOperation
    OBVIOUS
  <2>3. QED
    BY <2>1, <2>2, RearmOnly
<1>2. TypeOK'
  BY <1>1 DEF Recycle, Frames
<1>3. OneOperation' /\ OperationOwnsSocket' /\ OwedHoldsSocket'
  BY <1>1 DEF Recycle, OneOperation, OperationOwnsSocket, OwedHoldsSocket
<1>4. DownIsIdle'
  BY <1>1 DEF Recycle, DownIsIdle, Idle
<1>5. QED
  BY <1>2, <1>3, <1>4

THEOREM StepInv == Inv /\ [Next]_vars => Inv'
<1> SUFFICES ASSUME Inv, [Next]_vars PROVE Inv'
  OBVIOUS
<1> USE QueryServerAssumption, OpsDistinct DEF Inv, TypeOK
<1>1. CASE UNCHANGED vars
  BY <1>1 DEF vars, OneOperation, OperationOwnsSocket, OwedHoldsSocket, DownIsIdle, Idle
<1>2. CASE StartListening
  <2>1. armed' \in [Ops -> 0..1] /\ \A o \in Ops : armed'[o] = IF o = "accept" THEN 1 ELSE 0
    BY <1>2 DEF StartListening, DownIsIdle, Idle
  <2>2. QED
    BY <1>2, <2>1 DEF StartListening, OneOperation, OperationOwnsSocket, OwedHoldsSocket,
                      DownIsIdle, Idle
<1>3. CASE StartFails
  BY <1>3 DEF StartFails, OneOperation, OperationOwnsSocket, OwedHoldsSocket, DownIsIdle, Idle
<1>4. CASE Stop
  <2>1. backlog' \in Seq(Conns)
    <3>1. backlog # <<>> => Head(backlog) \in Conns
      OBVIOUS
    <3>2. backlog # <<>> => <<Head(backlog)>> \in Seq(Conns)
      BY <3>1
    <3>3. <<>> \in Seq(Conns)
      OBVIOUS
    <3>4. backlog' = <<>> \/ (backlog # <<>> /\ backlog' = <<Head(backlog)>>)
      BY <1>4 DEF Stop
    <3>5. QED
      BY <3>2, <3>3, <3>4
  <2>2. QED
    BY <1>4, <2>1 DEF Stop, OneOperation, OperationOwnsSocket, OwedHoldsSocket, DownIsIdle, Idle
<1>5. CASE Accept
  <2>1. /\ armed' \in [Ops -> 0..1]
        /\ \A o \in Ops : armed'[o] = IF o = "read_len" THEN 1 ELSE 0
    <3>1. Runs("accept") /\ armed' = Rearm("accept", "read_len")
      BY <1>5 DEF Accept
    <3> HIDE DEF Inv, TypeOK
    <3> QED BY <3>1, RunRearms
  <2>2. Head(backlog) \in Conns /\ Tail(backlog) \in Seq(Conns)
    BY <1>5 DEF Accept
  <2>3. owed = NoConn /\ acceptor \notin {"down", "failed"}
    BY <1>5 DEF Accept, Runs, OwedHoldsSocket, DownIsIdle, Idle
  <2>4. TypeOK' /\ OwedHoldsSocket' /\ DownIsIdle'
    BY <1>5, <2>1, <2>2, <2>3 DEF Accept, OwedHoldsSocket, DownIsIdle
  <2>5. OneOperation'
    BY <2>1 DEF OneOperation
  <2>6. OperationOwnsSocket'
    <3>1. sock' = "open" /\ peer' # NoConn /\ armed'["accept"] = 0
      BY <1>5, <2>1, <2>2 DEF Accept
    <3> QED BY <3>1 DEF OperationOwnsSocket
  <2>7. QED
    BY <2>4, <2>5, <2>6
<1>6. CASE AcceptThrows
  <2>1. armed' \in [Ops -> 0..1] /\ \A o \in Ops : armed'[o] = 0
    <3>1. Runs("accept") /\ armed' = Over("accept")
      BY <1>6 DEF AcceptThrows
    <3> HIDE DEF Inv, TypeOK
    <3> QED BY <3>1, RunEnds
  <2>2. Head(backlog) \in Conns /\ Tail(backlog) \in Seq(Conns)
    BY <1>6 DEF AcceptThrows
  <2>3. owed = NoConn /\ acceptor \notin {"down", "failed"}
    BY <1>6 DEF AcceptThrows, Runs, OwedHoldsSocket, DownIsIdle, Idle
  <2>4. running' \in BOOLEAN
    BY <1>6 DEF AcceptThrows
  <2>5. QED
    BY <1>6, <2>1, <2>2, <2>3, <2>4
       DEF AcceptThrows, OneOperation, OperationOwnsSocket, OwedHoldsSocket, DownIsIdle, Idle
<1>7. CASE AcceptAborted
  <2>1. /\ armed' \in [Ops -> 0..1]
        /\ \A o \in Ops : armed'[o] = IF o = "accept" THEN 1 ELSE 0
    <3>1. Runs("accept") /\ armed' = Rearm("accept", "accept")
      BY <1>7 DEF AcceptAborted
    <3> HIDE DEF Inv, TypeOK
    <3> QED BY <3>1, RunRearms
  <2>2. owed = NoConn /\ peer = NoConn
    BY <1>7 DEF AcceptAborted, Runs, OwedHoldsSocket, OperationOwnsSocket
  <2>3. QED
    BY <1>7, <2>1, <2>2
       DEF AcceptAborted, OneOperation, OperationOwnsSocket, OwedHoldsSocket, DownIsIdle, Idle
<1>8. CASE ReadLen
  <2>1. /\ armed' \in [Ops -> 0..1]
        /\ \A o \in Ops : armed'[o] = IF o = "read_rest" THEN 1 ELSE 0
    <3>1. Runs("read_len") /\ armed' = Rearm("read_len", "read_rest")
      BY <1>8 DEF ReadLen
    <3> HIDE DEF Inv, TypeOK
    <3> QED BY <3>1, RunRearms
  <2>2. /\ owed = NoConn /\ peer # NoConn /\ sock \in {"open", "closed"}
        /\ acceptor \notin {"down", "failed"}
    BY <1>8 DEF ReadLen, Runs, OwedHoldsSocket, OperationOwnsSocket, DownIsIdle, Idle
  <2>3. QED
    BY <1>8, <2>1, <2>2
       DEF ReadLen, OneOperation, OperationOwnsSocket, OwedHoldsSocket, DownIsIdle, Idle
<1>9. ASSUME NEW f \in Frames, ReadRest(f), owed' \in {peer, owed},
             owed' = peer => f = "query"
      PROVE  Inv'
  <2>1. armed' \in [Ops -> 0..1] /\ \A o \in Ops : armed'[o] = 0
    <3>1. Runs("read_rest") /\ armed' = Over("read_rest")
      BY <1>9 DEF ReadRest
    <3> HIDE DEF Inv, TypeOK
    <3> QED BY <3>1, RunEnds
  <2>2. owed = NoConn /\ peer # NoConn /\ sock \in {"open", "closed"}
    BY <1>9 DEF ReadRest, Runs, OwedHoldsSocket, OperationOwnsSocket
  <2>3. QED
    BY <1>9, <2>1, <2>2
       DEF ReadRest, OneOperation, OperationOwnsSocket, OwedHoldsSocket, DownIsIdle, Idle
<1>10. CASE ReadQuery
  BY <1>9, <1>10 DEF ReadQuery, Frames
<1>11. ASSUME NEW f \in Frames, ReadOther(f)
       PROVE  Inv'
  <2>1. owed = NoConn /\ peer # NoConn
    BY <1>11 DEF ReadOther, ReadRest, Runs, OwedHoldsSocket, OperationOwnsSocket
  <2>2. QED
    BY <1>9, <1>11, <2>1 DEF ReadOther
<1>12. ASSUME NEW op \in Ops, ReadFails(op)
       PROVE  Inv'
  BY <1>12, RecycleInv DEF ReadFails, Runs
<1>13. CASE Written
  BY <1>13, RecycleInv DEF Written, Runs
<1>14. CASE Reply
  <2>1. \A o \in Ops : armed[o] = 0
    BY <1>14 DEF Reply, OwedHoldsSocket
  <2>2. /\ armed' \in [Ops -> 0..1]
        /\ \A o \in Ops : armed'[o] = IF o = "write" /\ sock = "open" THEN 1 ELSE 0
    BY <1>14, <2>1 DEF Reply, SendReply
  <2>3. sock \in {"open", "closed"} /\ peer # NoConn /\ acceptor \notin {"down", "failed"}
    BY <1>14 DEF Reply, OwedHoldsSocket, DownIsIdle
  <2>4. QED
    BY <1>14, <2>2, <2>3
       DEF Reply, SendReply, OneOperation, OperationOwnsSocket, OwedHoldsSocket, DownIsIdle, Idle
<1>15. ASSUME NEW c \in Conns, Connect(c)
       PROVE  Inv'
  <2>1. backlog' \in Seq(Conns)
    BY <1>15 DEF Connect
  <2>2. QED
    BY <1>15, <2>1 DEF Connect, OneOperation, OperationOwnsSocket, OwedHoldsSocket, DownIsIdle, Idle
<1>16. ASSUME NEW c \in Conns, Hangup(c)
       PROVE  Inv'
  BY <1>16 DEF Hangup, OneOperation, OperationOwnsSocket, OwedHoldsSocket, DownIsIdle, Idle
<1>17. QED
  BY <1>1, <1>2, <1>3, <1>4, <1>5, <1>6, <1>7, <1>8, <1>10, <1>11, <1>12, <1>13, <1>14,
     <1>15, <1>16 DEF Next, Start, Handlers

LEMMA Invariance == Spec => []Inv
<1>1. QED
  BY InitInv, StepInv, PTL DEF Spec

\* The fields of the server keep their types.
THEOREM TypeCorrect == Spec => []TypeOK
<1>1. Inv => TypeOK
  BY DEF Inv
<1>2. QED
  BY <1>1, Invariance, PTL

\* The one socket and the one frame buffer never serve two operations at once.
THEOREM OneAtATime == Spec => []OneOperation
<1>1. Inv => OneOperation
  BY DEF Inv
<1>2. QED
  BY <1>1, Invariance, PTL

\* An accept is outstanding on a socket without peer, a read or a write on one
\* with a peer, and between its query and the reply a connection keeps it.
THEOREM SocketIsHeld == Spec => []SocketHeld
<1>1. Inv => SocketHeld
  BY DEF Inv, SocketHeld
<1>2. QED
  BY <1>1, Invariance, PTL
-------------------------------------------------------------------------------
(* When the server may be silent: the part of ServerFreed that needs no        *)
(* fairness.                                                                   *)

\* Started, it always has an operation outstanding or a reply to wait for,
\* unless the last frame of the connection it keeps was no query it can answer,
\* or was one whose reply stop() had made impossible.
SilenceHasCause ==
  running /\ sock # "null" =>
    \/ ~Idle
    \/ owed # NoConn
    \/ frame \in {"ignored", "undecodable"}
    \/ frame = "query" /\ acceptor = "closed"

\* The socket is closed by stop() only: recycle() replaces the one it closes.
OnlyStopCloses == sock = "closed" => acceptor = "closed"

Awake == SilenceHasCause /\ OnlyStopCloses

\* A handler that starts an operation ends no silence it could be blamed for.
LEMMA RearmWakes ==
  ASSUME Inv, NEW op \in Ops, NEW next \in Ops, Runs(op), armed' = Rearm(op, next)
  PROVE  SilenceHasCause'
<1>1. armed'[next] = 1
  BY RunRearms
<1>2. (~Idle)'
  BY <1>1 DEF Idle
<1>3. QED
  BY <1>2 DEF SilenceHasCause

LEMMA AwakeStep == Inv /\ Awake /\ [Next]_vars => Awake'
<1> SUFFICES ASSUME Inv, Awake, [Next]_vars PROVE Awake'
  OBVIOUS
<1> USE OpsDistinct DEF Awake
<1>1. CASE UNCHANGED vars
  BY <1>1 DEF vars, SilenceHasCause, OnlyStopCloses, Idle
<1>2. CASE StartListening
  <2>1. armed'["accept"] = 1
    <3>1. acceptor = "down" /\ armed["accept"] = 0 /\ armed \in [Ops -> 0..1]
      BY <1>2 DEF StartListening, Inv, TypeOK, DownIsIdle, Idle
    <3>2. QED
      BY <1>2, <3>1 DEF StartListening
  <2>2. QED
    BY <1>2, <2>1 DEF StartListening, SilenceHasCause, OnlyStopCloses, Idle
<1>3. CASE StartFails
  BY <1>3 DEF StartFails, SilenceHasCause, OnlyStopCloses, Inv, DownIsIdle
<1>4. CASE Stop
  BY <1>4 DEF Stop, SilenceHasCause, OnlyStopCloses, Idle
<1>5. CASE Accept
  BY <1>5, RearmWakes DEF Accept, OnlyStopCloses
<1>6. CASE AcceptThrows
  BY <1>6 DEF AcceptThrows, SilenceHasCause, OnlyStopCloses
<1>7. CASE AcceptAborted
  BY <1>7, RearmWakes DEF AcceptAborted, OnlyStopCloses
<1>8. CASE ReadLen
  BY <1>8, RearmWakes DEF ReadLen, OnlyStopCloses
<1>9. CASE ReadQuery
  <2>1. peer # NoConn
    BY <1>9 DEF ReadQuery, ReadRest, Runs, Inv, OperationOwnsSocket
  <2>2. QED
    BY <1>9, <2>1 DEF ReadQuery, ReadRest, SilenceHasCause, OnlyStopCloses
<1>10. ASSUME NEW f \in Frames, ReadOther(f)
       PROVE  Awake'
  BY <1>10 DEF ReadOther, ReadRest, SilenceHasCause, OnlyStopCloses
<1>11. ASSUME NEW op \in Ops, Runs(op), Recycle(op)
       PROVE  Awake'
  BY <1>11, RearmWakes DEF Recycle, OnlyStopCloses
<1>12. ASSUME NEW op \in Ops, ReadFails(op)
       PROVE  Awake'
  BY <1>11, <1>12 DEF ReadFails
<1>13. CASE Written
  BY <1>11, <1>13 DEF Written
<1>14. CASE Reply
  <2>1. sock \in {"open", "closed"} /\ frame = "query" /\ Idle
    BY <1>14 DEF Reply, Inv, OwedHoldsSocket, Idle
  <2>2. sock = "open" => armed'["write"] = 1
    BY <1>14, <2>1 DEF Reply, SendReply, Inv, TypeOK, Idle
  <2>3. sock = "open" => (~Idle)'
    BY <2>2 DEF Idle
  <2>4. UNCHANGED <<running, acceptor, sock, frame>>
    BY <1>14 DEF Reply, SendReply
  <2>5. QED
    BY <2>1, <2>3, <2>4 DEF SilenceHasCause, OnlyStopCloses
<1>15. ASSUME NEW c \in Conns, Connect(c) \/ Hangup(c)
       PROVE  Awake'
  BY <1>15 DEF Connect, Hangup, SilenceHasCause, OnlyStopCloses, Idle
<1>16. QED
  BY <1>1, <1>2, <1>3, <1>4, <1>5, <1>6, <1>7, <1>8, <1>9, <1>10, <1>12, <1>13, <1>14,
     <1>15 DEF Next, Start, Handlers

\* Whoever asks, hangs up or stops the server, and whenever: it goes silent for
\* one of these reasons only.
THEOREM SilentForACause == Spec => []SilenceHasCause
<1>1. Init => Awake
  BY DEF Init, Awake, SilenceHasCause, OnlyStopCloses
<1>2. Spec => []Awake
  BY <1>1, AwakeStep, Invariance, PTL DEF Spec
<1>3. Awake => SilenceHasCause
  BY DEF Awake
<1>4. QED
  BY <1>2, <1>3, PTL
===============================================================================
