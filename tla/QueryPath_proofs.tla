--------------------------- MODULE QueryPath_proofs ---------------------------
(***************************************************************************)
(* Theorems about QueryPath, for any connections, sessions, retry limit    *)
(* and number of challenges, and about BusProtocol, the frames of the      *)
(* path, for any base above the type tags, any word, any messages and any  *)
(* bytes.                                                                  *)
(*                                                                         *)
(* The theorems about the two components of the path are used as they are: *)
(* every step of the path is a step of QueryServer (its caller keeps the   *)
(* contract) and of GameGuardBridge, so their inductive invariants hold    *)
(* here.                                                                   *)
(***************************************************************************)
EXTENDS QueryPath, BusProtocol, WellFoundedInduction, TLAPS

BusP == INSTANCE QueryServer_proofs

BridgeP == INSTANCE GameGuardBridge_proofs WITH
             Wires   <- Roles,
             Queries <- 1..MaxQueries,
             NoQuery <- 0,
             live    <- {r \in Roles : Reaches(r)}

-------------------------------------------------------------------------------
(* The steps of the components as QueryPath and the theorems name them. *)

LEMMA BusInit == Bus!Init => BusP!Init
  BY DEF Bus!Init, BusP!Init, Bus!Ops, BusP!Ops

LEMMA BusFails ==
  ASSUME NEW op, Bus!ReadFails(op)
  PROVE  BusP!ReadFails(op)
  BY DEF Bus!ReadFails, BusP!ReadFails, Bus!Runs, BusP!Runs, Bus!Recycle, BusP!Recycle,
         Bus!Rearm, BusP!Rearm, Bus!Over, BusP!Over

LEMMA BusOther ==
  ASSUME NEW f, Bus!ReadOther(f)
  PROVE  BusP!ReadOther(f)
  BY DEF Bus!ReadOther, BusP!ReadOther, Bus!ReadRest, BusP!ReadRest, Bus!Runs, BusP!Runs,
         Bus!Over, BusP!Over

LEMMA BusPeers ==
  ASSUME NEW c
  PROVE  /\ Bus!Connect(c) => BusP!Connect(c)
         /\ Bus!Hangup(c) => BusP!Hangup(c)
  BY DEF Bus!Connect, BusP!Connect, Bus!Hangup, BusP!Hangup, Bus!Queued, BusP!Queued

LEMMA BusHandlers ==
  /\ Bus!Start => BusP!Start
  /\ Bus!Accept => BusP!Accept
  /\ Bus!AcceptThrows => BusP!AcceptThrows
  /\ Bus!ReadLen => BusP!ReadLen
  /\ Bus!ReadQuery => BusP!ReadQuery
  /\ Bus!Written => BusP!Written
<1>1. Bus!Start => BusP!Start
  BY DEF Bus!Start, BusP!Start, Bus!StartListening, BusP!StartListening,
         Bus!StartFails, BusP!StartFails
<1>2. Bus!Accept => BusP!Accept
  BY DEF Bus!Accept, BusP!Accept, Bus!Runs, BusP!Runs, Bus!Rearm, BusP!Rearm,
         Bus!Over, BusP!Over
<1>3. Bus!AcceptThrows => BusP!AcceptThrows
  BY DEF Bus!AcceptThrows, BusP!AcceptThrows, Bus!Runs, BusP!Runs, Bus!Over, BusP!Over
<1>4. Bus!ReadLen => BusP!ReadLen
  BY DEF Bus!ReadLen, BusP!ReadLen, Bus!Runs, BusP!Runs, Bus!Rearm, BusP!Rearm,
         Bus!Over, BusP!Over
<1>5. Bus!ReadQuery => BusP!ReadQuery
  BY DEF Bus!ReadQuery, BusP!ReadQuery, Bus!ReadRest, BusP!ReadRest, Bus!Runs, BusP!Runs,
         Bus!Over, BusP!Over
<1>6. Bus!Written => BusP!Written
  BY DEF Bus!Written, BusP!Written, Bus!Runs, BusP!Runs, Bus!Recycle, BusP!Recycle,
         Bus!Rearm, BusP!Rearm, Bus!Over, BusP!Over
<1>7. QED
  BY <1>1, <1>2, <1>3, <1>4, <1>5, <1>6

LEMMA BridgeSteps ==
  ASSUME NEW f, NEW q
  PROVE  /\ Bridge!Drop => BridgeP!Drop
         /\ Bridge!Forward(q) => BridgeP!Forward(q)
         /\ Bridge!ForwardFails(q) => BridgeP!ForwardFails(q)
         /\ Bridge!Resend => BridgeP!Resend
         /\ Bridge!ResendFails => BridgeP!ResendFails
         /\ Bridge!GiveUp => BridgeP!GiveUp
         /\ Bridge!Answer(f) => BridgeP!Answer(f)
         /\ Bridge!Pass(f) => BridgeP!Pass(f)
         /\ Bridge!Expire => BridgeP!Expire
         /\ Bridge!BindClientWire(q) => BridgeP!BindClientWire(q)
<1>1. Bridge!Drop => BridgeP!Drop
  BY DEF Bridge!Drop, BridgeP!Drop, Bridge!DropsQuery, BridgeP!DropsQuery,
         Bridge!bridgeVars, BridgeP!bridgeVars
<1>2. Bridge!Forward(q) => BridgeP!Forward(q)
  BY DEF Bridge!Forward, BridgeP!Forward, Bridge!DropsQuery, BridgeP!DropsQuery,
         Bridge!CanSend, BridgeP!CanSend
<1>3. Bridge!ForwardFails(q) => BridgeP!ForwardFails(q)
  BY DEF Bridge!ForwardFails, BridgeP!ForwardFails, Bridge!DropsQuery, BridgeP!DropsQuery,
         Bridge!CanSend, BridgeP!CanSend, Bridge!history, BridgeP!history
<1>4. Bridge!Resend => BridgeP!Resend
  BY DEF Bridge!Resend, BridgeP!Resend, Bridge!RetriesLeft, BridgeP!RetriesLeft,
         Bridge!CanSend, BridgeP!CanSend
<1>5. Bridge!ResendFails => BridgeP!ResendFails
  BY DEF Bridge!ResendFails, BridgeP!ResendFails, Bridge!RetriesLeft, BridgeP!RetriesLeft,
         Bridge!CanSend, BridgeP!CanSend, Bridge!Abandon, BridgeP!Abandon,
         Bridge!Reset, BridgeP!Reset
<1>6. Bridge!GiveUp => BridgeP!GiveUp
  BY DEF Bridge!GiveUp, BridgeP!GiveUp, Bridge!RetriesLeft, BridgeP!RetriesLeft,
         Bridge!Abandon, BridgeP!Abandon, Bridge!Reset, BridgeP!Reset
<1>7. Bridge!Answer(f) => BridgeP!Answer(f)
  BY DEF Bridge!Answer, BridgeP!Answer, Bridge!IsResponse, BridgeP!IsResponse,
         Bridge!Reset, BridgeP!Reset
<1>8. Bridge!Pass(f) => BridgeP!Pass(f)
  BY DEF Bridge!Pass, BridgeP!Pass, Bridge!IsResponse, BridgeP!IsResponse,
         Bridge!bridgeVars, BridgeP!bridgeVars
<1>9. Bridge!Expire => BridgeP!Expire
  BY DEF Bridge!Expire, BridgeP!Expire, Bridge!history, BridgeP!history
<1>10. Bridge!BindClientWire(q) => BridgeP!BindClientWire(q)
  BY DEF Bridge!BindClientWire, BridgeP!BindClientWire, Bridge!transaction,
         BridgeP!transaction, Bridge!history, BridgeP!history
<1>11. QED
  BY <1>1, <1>2, <1>3, <1>4, <1>5, <1>6, <1>7, <1>8, <1>9, <1>10

-------------------------------------------------------------------------------
(* The inductive invariant. *)

SessionTypes ==
  /\ link \in [Sessions -> Links]
  /\ target \in [Roles -> Sessions \cup {NoSession}]
  /\ toClient \in [Sessions -> Seq(1..MaxQueries)]
  /\ resent \in BOOLEAN
  /\ stale \in BOOLEAN

\* stop() is called after the io loop has ended, so while handlers run the
\* socket is closed only by recycle(), which replaces it.
NeverStopped == acceptor # "closed" /\ sock # "closed"

\* The number of the pending challenge is the number of challenges so far.
PendingIsLast == pending => query = accepted

\* Until something is sent twice there is at most one unanswered copy in the
\* whole system, it is a copy of the last challenge, and the connection that
\* asked for it still waits.  This is what StaleOnlyAfterResend rests on.
SingleCopy ==
  ~resent =>
    /\ ~stale
    /\ \A s \in Sessions : toClient[s] # <<>> =>
         /\ toClient[s] = <<accepted>>
         /\ owed # NoConn
         /\ \A t \in Sessions : toClient[t] # <<>> => t = s

ResentNeedsRetries == resent => MaxRetries > 0

Inv ==
  /\ BusP!Inv
  /\ BridgeP!Inv
  /\ SessionTypes
  /\ NeverStopped
  /\ PendingHoldsAsker
  /\ BoundIsOpen
  /\ PendingIsLast
  /\ SingleCopy
  /\ ResentNeedsRetries

LEMMA Bounds ==
  /\ MaxRetries \in Nat /\ MaxQueries \in Nat
  /\ NoWire \notin Roles
  BY QueryPathAssumption DEF Roles, NoWire

\* What the component invariants say, as far as it is needed below.
LEMMA BusFacts ==
  ASSUME BusP!Inv
  PROVE  /\ \A o \in Bus!Ops : armed[o] > 0 => owed = NoConn
         /\ peer \in Conns \cup {NoConn}
         /\ armed["read_rest"] > 0 => peer # NoConn /\ sock \in {"open", "closed"}
         /\ owed # NoConn => peer = owed /\ sock \in {"open", "closed"}
         /\ owed # NoConn => \A o \in Bus!Ops : armed[o] = 0
         /\ acceptor = "down" => owed = NoConn
  BY DEF BusP!Inv, BusP!TypeOK, BusP!OneOperation, BusP!OperationOwnsSocket,
         BusP!OwedHoldsSocket, BusP!DownIsIdle, BusP!Idle, BusP!Ops, Bus!Ops

LEMMA BridgeFacts ==
  ASSUME BridgeP!Inv
  PROVE  /\ pending \in BOOLEAN
         /\ accepted \in Nat
         /\ retry \in 0..MaxRetries
         /\ query \in (1..MaxQueries) \cup {0}
         /\ pending => query \in 1..MaxQueries
         /\ wire \in Roles \cup {NoWire}
  BY DEF BridgeP!Inv, BridgeP!TypeOK, BridgeP!RetriesCountCopies, NoWire

THEOREM InitInv == Init => Inv
<1> SUFFICES ASSUME Init PROVE Inv
  OBVIOUS
<1>1. BusP!Inv
  BY BusInit, BusP!InitInv, QueryPathAssumption DEF Init
<1>2. BridgeP!Inv
  <2>1. {r \in Roles : Reaches(r)} = {}
    BY DEF Init, Reaches
  <2>2. BridgeP!Init
    BY <2>1 DEF Init, BridgeP!Init, NoWire
  <2>3. QED
    BY <2>2, BridgeP!InitInv, QueryPathAssumption, Bounds
<1>3. NeverStopped
  BY DEF Init, Bus!Init, NeverStopped
<1>4. SessionTypes
  <2>1. <<>> \in Seq(1..MaxQueries)
    OBVIOUS
  <2>2. resent \in BOOLEAN /\ stale \in BOOLEAN
    BY DEF Init
  <2>3. QED
    BY <2>1, <2>2 DEF Init, SessionTypes, Links
<1>5. PendingHoldsAsker /\ BoundIsOpen /\ PendingIsLast /\ SingleCopy /\ ResentNeedsRetries
  BY DEF Init, PendingHoldsAsker, BoundIsOpen, PendingIsLast, SingleCopy, ResentNeedsRetries
<1>6. QED
  BY <1>1, <1>2, <1>3, <1>4, <1>5 DEF Inv

-------------------------------------------------------------------------------
(* A step of the path is a step of both components. *)

\* While a query is owed nothing is outstanding on the bus, so the bus can only
\* queue connections and learn of hangups.
LEMMA BusStepEffect ==
  ASSUME Inv, BusStep
  PROVE  /\ [BusP!Next]_(BusP!vars)
         /\ NeverStopped'
         /\ owed # NoConn => owed' = owed /\ peer' = peer /\ sock' = sock /\ armed' = armed
<1> USE DEF NeverStopped
<1>0. /\ BusP!Inv /\ NeverStopped
      /\ \A o \in Bus!Ops : armed[o] > 0 => owed = NoConn
      /\ acceptor = "down" => owed = NoConn
  BY BusFacts DEF Inv
<1>1. CASE Bus!Start
  <2>1. BusP!Next
    BY <1>1, BusHandlers DEF BusP!Next
  <2>2. QED
    BY <1>0, <1>1, <2>1 DEF Bus!Start, Bus!StartListening, Bus!StartFails
<1>2. CASE Bus!Accept
  <2>1. BusP!Next
    BY <1>2, BusHandlers DEF BusP!Next, BusP!Handlers
  <2>2. QED
    BY <1>0, <1>2, <2>1 DEF Bus!Accept, Bus!Runs, Bus!Ops
<1>3. CASE Bus!AcceptThrows
  <2>1. BusP!Next
    BY <1>3, BusHandlers DEF BusP!Next, BusP!Handlers
  <2>2. QED
    BY <1>0, <1>3, <2>1 DEF Bus!AcceptThrows, Bus!Runs, Bus!Ops
<1>4. CASE Bus!ReadLen
  <2>1. BusP!Next
    BY <1>4, BusHandlers DEF BusP!Next, BusP!Handlers
  <2>2. QED
    BY <1>0, <1>4, <2>1 DEF Bus!ReadLen, Bus!Runs, Bus!Ops
<1>5. CASE Bus!Written
  <2>1. BusP!Next
    BY <1>5, BusHandlers DEF BusP!Next, BusP!Handlers
  <2>2. QED
    BY <1>0, <1>5, <2>1 DEF Bus!Written, Bus!Recycle, Bus!Runs, Bus!Ops
<1>6. ASSUME NEW op \in Bus!Ops, Bus!ReadFails(op)
      PROVE  /\ [BusP!Next]_(BusP!vars)
             /\ NeverStopped'
             /\ owed = NoConn
  <2>1. BusP!Next
    BY <1>6, BusFails DEF BusP!Next, BusP!Handlers, Bus!Ops, BusP!Ops
  <2>2. QED
    BY <1>0, <1>6, <2>1 DEF Bus!ReadFails, Bus!Recycle, Bus!Runs, Bus!Ops
<1>7. ASSUME NEW f \in Bus!Frames, Bus!ReadOther(f)
      PROVE  /\ [BusP!Next]_(BusP!vars)
             /\ NeverStopped'
             /\ owed = NoConn
  <2>1. BusP!Next
    BY <1>7, BusOther DEF BusP!Next, BusP!Handlers, Bus!Frames, BusP!Frames
  <2>2. QED
    BY <1>0, <1>7, <2>1 DEF Bus!ReadOther, Bus!ReadRest, Bus!Runs, Bus!Ops
<1>8. ASSUME NEW c \in Conns, Bus!Connect(c) \/ Bus!Hangup(c)
      PROVE  /\ [BusP!Next]_(BusP!vars)
             /\ NeverStopped'
             /\ owed' = owed /\ peer' = peer /\ sock' = sock /\ armed' = armed
  <2>1. BusP!Next
    BY <1>8, BusPeers DEF BusP!Next
  <2>2. QED
    BY <1>0, <1>8, <2>1 DEF Bus!Connect, Bus!Hangup
<1>9. QED
  BY <1>1, <1>2, <1>3, <1>4, <1>5, <1>6, <1>7, <1>8 DEF BusStep

\* The connection whose query arrives is the one the bus then owes a reply.
LEMMA ReadQueryEffect ==
  ASSUME Inv, Bus!ReadQuery
  PROVE  /\ BusP!Next
         /\ NeverStopped'
         /\ owed = NoConn /\ owed' # NoConn
         /\ peer' = owed' /\ sock' = "open"
         /\ \A o \in Bus!Ops : armed'[o] = 0
<1>1. BusP!Next
  BY BusHandlers DEF BusP!Next, BusP!Handlers
<1>2. BusP!Inv /\ NeverStopped
  BY DEF Inv
<1>3. armed["read_rest"] > 0 /\ armed' = BusP!Over("read_rest")
  BY DEF Bus!ReadQuery, Bus!ReadRest, Bus!Runs, Bus!Over, BusP!Over
<1>4. \A o \in Bus!Ops : armed'[o] = 0
  <2>1. armed \in [BusP!Ops -> 0..1] /\ BusP!OneOperation /\ "read_rest" \in BusP!Ops
    BY <1>2 DEF BusP!Inv, BusP!TypeOK, BusP!Ops
  <2>2. QED
    BY <1>3, <2>1, BusP!OverIdle, QueryPathAssumption DEF Bus!Ops, BusP!Ops
<1>5. owed = NoConn /\ peer # NoConn /\ sock \in {"open", "closed"}
  BY <1>2, <1>3, BusFacts DEF Bus!Ops
<1>6. QED
  BY <1>1, <1>2, <1>4, <1>5 DEF Bus!ReadQuery, Bus!ReadRest, NeverStopped

\* The bridge replies only to a query that is owed a reply.
LEMMA SendReplyEffect ==
  ASSUME Inv, running, pending, Bus!SendReply
  PROVE  /\ BusP!Next
         /\ NeverStopped'
         /\ peer = owed
         /\ armed'["write"] = 1
<1>1. /\ BusP!Inv /\ NeverStopped
      /\ owed # NoConn /\ peer = owed /\ sock = "open" /\ armed["write"] = 0
  BY DEF Inv, PendingHoldsAsker, Bus!Ops
<1>2. BusP!Reply
  BY <1>1 DEF Bus!SendReply, BusP!SendReply, BusP!Reply
<1>3. armed \in [BusP!Ops -> 0..1]
  BY <1>1 DEF BusP!Inv, BusP!TypeOK
<1>4. QED
  BY <1>1, <1>2, <1>3 DEF BusP!Next, Bus!SendReply, NeverStopped, BusP!Ops

\* What a query does to the bridge, and where its challenge goes.
LEMMA QueryEffect ==
  ASSUME Inv, Query
  PROVE  /\ BridgeP!Ask \/ UNCHANGED BridgeP!bridgeVars
         /\ wire' = wire
         /\ PendingIsLast'
         /\ \/ accepted' = accepted /\ toClient' = toClient
            \/ /\ accepted' = accepted + 1
               /\ accepted' \in 1..MaxQueries
               /\ toClient' = Send(target[wire], accepted', toClient)
               /\ wire \in Roles
               /\ target[wire] \in Sessions
<1>0. BridgeP!Inv /\ PendingIsLast /\ SessionTypes /\ accepted \in Nat /\ accepted < MaxQueries
  BY BridgeFacts DEF Inv, Query
<1>1. accepted + 1 \in 1..MaxQueries
  BY <1>0, Bounds
<1>2. CASE Bridge!Drop /\ UNCHANGED toClient
  BY <1>0, <1>2 DEF PendingIsLast, Bridge!Drop, Bridge!bridgeVars, BridgeP!bridgeVars
<1>3. CASE Bridge!Forward(accepted + 1) /\ toClient' = Send(target[wire], accepted + 1, toClient)
  <2>1. BridgeP!OnQuery(accepted + 1)
    BY <1>3, BridgeSteps DEF BridgeP!OnQuery
  <2>2. BridgeP!Ask
    BY <1>0, <1>1, <2>1 DEF BridgeP!Ask
  <2>3. wire \in Roles /\ target[wire] \in Sessions
    BY <1>0, <1>3 DEF Bridge!Forward, Bridge!CanSend, Reaches, SessionTypes
  <2>4. QED
    BY <1>1, <1>3, <2>2, <2>3 DEF Bridge!Forward, PendingIsLast
<1>4. CASE Bridge!ForwardFails(accepted + 1) /\ UNCHANGED toClient
  <2>1. BridgeP!OnQuery(accepted + 1)
    BY <1>4, BridgeSteps DEF BridgeP!OnQuery
  <2>2. BridgeP!Ask
    BY <1>0, <1>1, <2>1 DEF BridgeP!Ask
  <2>3. ~pending'
    BY <1>4 DEF Bridge!ForwardFails, Bridge!DropsQuery
  <2>4. QED
    BY <1>4, <2>2, <2>3 DEF Bridge!ForwardFails, Bridge!history, PendingIsLast
<1>5. QED
  BY <1>2, <1>3, <1>4 DEF Query

\* What a chunk from a client does.
LEMMA DataEffect ==
  ASSUME Inv, running, NEW f \in Bridge!Frames, NEW pipes, Data(f, pipes)
  PROVE  /\ BridgeP!Traffic
         /\ [BusP!Next]_(BusP!vars)
         /\ wire' = wire /\ accepted' = accepted
         /\ PendingIsLast' /\ PendingHoldsAsker' /\ NeverStopped'
         /\ \/ /\ resent' = TRUE /\ answered' = answered
               /\ MaxRetries > 0
               /\ query \in 1..MaxQueries
               /\ toClient' = Send(target[wire], query, pipes)
               /\ target[wire] \in Sessions
            \/ /\ resent' = resent
               /\ toClient' = pipes
               /\ answered' = answered /\ owed' = owed
            \/ /\ resent' = resent
               /\ toClient' = pipes
               /\ f # "other" /\ pending /\ ~pending'
               /\ peer = owed /\ armed'["write"] = 1
<1>0. /\ BridgeP!Inv /\ PendingIsLast /\ PendingHoldsAsker /\ NeverStopped /\ SessionTypes
      /\ retry \in 0..MaxRetries /\ MaxRetries \in Nat
      /\ answered \in Nat
      /\ pending => query \in 1..MaxQueries
  BY BridgeFacts, Bounds DEF Inv, BridgeP!Inv, BridgeP!TypeOK
<1>1. f \in BridgeP!Frames
  BY DEF Bridge!Frames, BridgeP!Frames
<1>2. CASE Bridge!Resend /\ toClient' = Send(target[wire], query, pipes)
           /\ resent' = TRUE /\ UNCHANGED busVars
  <2>1. BridgeP!Traffic
    BY <1>1, <1>2, BridgeSteps DEF BridgeP!Traffic, BridgeP!MaybeConsume
  <2>2. target[wire] \in Sessions
    BY <1>0, <1>2 DEF Bridge!Resend, Bridge!CanSend, Reaches, SessionTypes
  <2>3. MaxRetries > 0
    BY <1>0, <1>2 DEF Bridge!Resend, Bridge!RetriesLeft
  <2>4. PendingIsLast' /\ PendingHoldsAsker' /\ NeverStopped'
    BY <1>0, <1>2 DEF Bridge!Resend, busVars, PendingIsLast, PendingHoldsAsker, NeverStopped
  <2>5. QED
    BY <1>0, <1>2, <2>1, <2>2, <2>3, <2>4 DEF Bridge!Resend, busVars, BusP!vars
<1>3. CASE (Bridge!ResendFails \/ Bridge!GiveUp \/ Bridge!Pass(f))
           /\ toClient' = pipes /\ UNCHANGED <<busVars, resent>>
  <2>1. BridgeP!Traffic
    BY <1>1, <1>3, BridgeSteps DEF BridgeP!Traffic, BridgeP!MaybeConsume
  <2>2. /\ wire' = wire /\ accepted' = accepted /\ answered' = answered
        /\ ~pending' \/ (pending' = pending /\ query' = query)
    BY <1>3 DEF Bridge!ResendFails, Bridge!GiveUp, Bridge!Pass, Bridge!Abandon, Bridge!Reset,
                Bridge!bridgeVars
  <2>3. PendingIsLast' /\ PendingHoldsAsker' /\ NeverStopped'
    BY <1>0, <1>3, <2>2 DEF busVars, PendingIsLast, PendingHoldsAsker, NeverStopped
  <2>4. QED
    BY <1>3, <2>1, <2>2, <2>3 DEF busVars, BusP!vars
<1>4. CASE Bridge!Answer(f) /\ Bus!SendReply /\ toClient' = pipes /\ UNCHANGED resent
  <2>1. BridgeP!Traffic
    BY <1>1, <1>4, BridgeSteps DEF BridgeP!Traffic, BridgeP!MaybeConsume
  <2>2. pending /\ ~pending' /\ wire' = wire /\ accepted' = accepted /\ f # "other"
    BY <1>4 DEF Bridge!Answer, Bridge!Reset, Bridge!IsResponse
  <2>3. BusP!Next /\ NeverStopped' /\ peer = owed /\ armed'["write"] = 1
    BY <1>4, <2>2, SendReplyEffect
  <2>4. PendingIsLast' /\ PendingHoldsAsker'
    BY <2>2 DEF PendingIsLast, PendingHoldsAsker
  <2>5. QED
    BY <1>4, <2>1, <2>2, <2>3, <2>4
<1>5. QED
  BY <1>2, <1>3, <1>4 DEF Data, Resends

LEMMA SendTypes ==
  ASSUME NEW pipes \in [Sessions -> Seq(1..MaxQueries)],
         NEW s \in Sessions, NEW q \in 1..MaxQueries
  PROVE  Send(s, q, pipes) \in [Sessions -> Seq(1..MaxQueries)]
  BY DEF Send

\* When nothing waits in any session, a send leaves one copy in one session.
LEMMA SendFirst ==
  ASSUME NEW s \in Sessions, NEW q \in 1..MaxQueries,
         NEW pipes \in [Sessions -> Seq(1..MaxQueries)],
         \A t \in Sessions : pipes[t] = <<>>,
         NEW t \in Sessions, Send(s, q, pipes)[t] # <<>>
  PROVE  t = s /\ Send(s, q, pipes)[t] = <<q>>
<1>1. Reading(s) /\ t = s
  BY DEF Send
<1>2. Append(pipes[s], q) = <<q>>
  <2>1. pipes[s] = <<>>
    OBVIOUS
  <2>2. Append(<<>>, q) = <<q>>
    OBVIOUS
  <2>3. QED
    BY <2>1, <2>2
<1>3. QED
  BY <1>1, <1>2 DEF Send

\* The parts of the invariant about sessions survive a chunk that leaves all
\* pipes as they are but for one, which is taken from the front.
LEMMA DataSessions ==
  ASSUME Inv, running, NEW f \in Bridge!Frames, NEW s \in Sessions, NEW pipes,
         Data(f, pipes), UNCHANGED <<link, target>>,
         \/ pipes = toClient /\ f = "other" /\ stale' = stale
         \/ /\ toClient[s] # <<>>
            /\ pipes = [toClient EXCEPT ![s] = Tail(@)]
            /\ stale' = (stale \/ (answered' # answered /\ Head(toClient[s]) # query))
  PROVE  SessionTypes' /\ SingleCopy' /\ BoundIsOpen' /\ ResentNeedsRetries'
<1>0. /\ SessionTypes /\ SingleCopy /\ BoundIsOpen /\ ResentNeedsRetries /\ PendingIsLast
      /\ BusP!Inv
  BY DEF Inv
<1>1. pipes \in [Sessions -> Seq(1..MaxQueries)]
  <2>1. toClient[s] # <<>> => Tail(toClient[s]) \in Seq(1..MaxQueries)
    BY <1>0 DEF SessionTypes
  <2>2. QED
    BY <1>0, <2>1 DEF SessionTypes
<1>2. toClient' \in [Sessions -> Seq(1..MaxQueries)]
  <2>1. \/ toClient' = pipes
        \/ /\ query \in 1..MaxQueries /\ target[wire] \in Sessions
           /\ toClient' = Send(target[wire], query, pipes)
    BY DataEffect
  <2>2. CASE toClient' = pipes
    BY <1>1, <2>2
  <2>3. CASE /\ query \in 1..MaxQueries /\ target[wire] \in Sessions
             /\ toClient' = Send(target[wire], query, pipes)
    <3>1. Send(target[wire], query, pipes) \in [Sessions -> Seq(1..MaxQueries)]
      BY <1>1, <2>3, SendTypes
    <3> QED BY <2>3, <3>1
  <2>4. QED
    BY <2>1, <2>2, <2>3
<1>3. resent' \in BOOLEAN /\ stale' \in BOOLEAN
  <2>1. resent' = TRUE \/ resent' = resent
    BY DataEffect
  <2>2. resent' \in BOOLEAN
    BY <1>0, <2>1 DEF SessionTypes
  <2>3. stale' \in BOOLEAN
    BY <1>0 DEF SessionTypes
  <2>4. QED
    BY <2>2, <2>3
<1>4. SessionTypes'
  BY <1>0, <1>2, <1>3 DEF SessionTypes
<1>5. BoundIsOpen'
  BY <1>0, DataEffect DEF BoundIsOpen
<1>6. ResentNeedsRetries'
  BY <1>0, DataEffect DEF ResentNeedsRetries
<1>7. SingleCopy'
  <2>1. SUFFICES ASSUME ~resent' PROVE SingleCopy'
    BY DEF SingleCopy
  <2>2. /\ ~resent /\ ~stale /\ accepted' = accepted /\ toClient' = pipes
        /\ \/ answered' = answered /\ owed' = owed
           \/ f # "other" /\ pending
    BY <1>0, <2>1, DataEffect DEF SessionTypes, SingleCopy
  <2>3. CASE pipes = toClient /\ f = "other" /\ stale' = stale
    BY <1>0, <2>2, <2>3 DEF SingleCopy
  <2>4. CASE /\ toClient[s] # <<>>
             /\ pipes = [toClient EXCEPT ![s] = Tail(@)]
             /\ stale' = (stale \/ (answered' # answered /\ Head(toClient[s]) # query))
    <3>1. toClient[s] = <<accepted>> /\ \A t \in Sessions : toClient[t] # <<>> => t = s
      BY <1>0, <2>2, <2>4 DEF SingleCopy
    <3>2. Head(toClient[s]) = accepted /\ Tail(toClient[s]) = <<>>
      BY <3>1
    <3>3. \A t \in Sessions : toClient'[t] = <<>>
      BY <1>0, <2>2, <2>4, <3>1, <3>2 DEF SessionTypes
    <3>4. ~stale'
      BY <1>0, <2>2, <2>4, <3>2 DEF PendingIsLast
    <3>5. QED
      BY <3>3, <3>4 DEF SingleCopy
  <2>5. QED
    BY <2>3, <2>4
<1>8. QED
  BY <1>4, <1>5, <1>6, <1>7

-------------------------------------------------------------------------------
(* The invariant is preserved. *)

\* The sessions that the bridge's wires find stay sessions of the two roles.
LEMMA LiveTypes == {r \in Roles : Reaches(r)}' \in SUBSET Roles
  BY DEF Reaches

\* The rest of the invariant, for the steps that leave the bus and the state of
\* the transaction alone.
LEMMA SessionStep ==
  ASSUME Inv, UNCHANGED busVars, UNCHANGED <<pending, query, accepted>>
  PROVE  NeverStopped' /\ PendingHoldsAsker' /\ PendingIsLast'
  BY DEF Inv, busVars, NeverStopped, PendingHoldsAsker, PendingIsLast

LEMMA BusStepInv ==
  ASSUME Inv, BusStep
  PROVE  /\ NeverStopped' /\ PendingHoldsAsker' /\ BoundIsOpen' /\ PendingIsLast'
         /\ SessionTypes' /\ SingleCopy' /\ ResentNeedsRetries'
<1>1. UNCHANGED <<bridgeVars, sessionVars, resent, stale>>
  BY DEF BusStep
<1>2. NeverStopped' /\ (owed # NoConn => owed' = owed /\ peer' = peer /\ sock' = sock /\ armed' = armed)
  BY BusStepEffect
<1>3. SessionTypes'
  BY <1>1 DEF Inv, SessionTypes, sessionVars
<1>4. BoundIsOpen' /\ PendingIsLast' /\ ResentNeedsRetries'
  BY <1>1 DEF Inv, BoundIsOpen, PendingIsLast, ResentNeedsRetries, bridgeVars, sessionVars
<1>5. PendingHoldsAsker'
  BY <1>1, <1>2 DEF Inv, PendingHoldsAsker, bridgeVars
<1>6. SingleCopy'
  BY <1>1, <1>2 DEF Inv, SingleCopy, bridgeVars, sessionVars
<1>7. QED
  BY <1>2, <1>3, <1>4, <1>5, <1>6

LEMMA QueryInv ==
  ASSUME Inv, Query
  PROVE  /\ NeverStopped' /\ PendingHoldsAsker' /\ BoundIsOpen' /\ PendingIsLast'
         /\ SessionTypes' /\ SingleCopy' /\ ResentNeedsRetries'
<1>1. /\ SessionTypes /\ SingleCopy /\ BoundIsOpen /\ ResentNeedsRetries
      /\ UNCHANGED <<link, target, resent, stale>>
  BY DEF Inv, Query
<1>2. /\ NeverStopped' /\ owed = NoConn /\ owed' # NoConn
      /\ peer' = owed' /\ sock' = "open" /\ \A o \in Bus!Ops : armed'[o] = 0
  BY ReadQueryEffect DEF Query
<1>3. SessionTypes'
  <2>1. toClient \in [Sessions -> Seq(1..MaxQueries)]
    BY <1>1 DEF SessionTypes
  <2>2. toClient' \in [Sessions -> Seq(1..MaxQueries)]
    BY <2>1, QueryEffect, SendTypes
  <2>3. QED
    BY <1>1, <2>2 DEF SessionTypes
<1>4. PendingHoldsAsker'
  BY <1>2 DEF PendingHoldsAsker
<1>5. BoundIsOpen' /\ ResentNeedsRetries'
  BY <1>1, QueryEffect DEF BoundIsOpen, ResentNeedsRetries
<1>6. SingleCopy'
  <2>1. SUFFICES ASSUME ~resent' PROVE SingleCopy'
    BY DEF SingleCopy
  <2>2. ~resent /\ ~stale' /\ \A t \in Sessions : toClient[t] = <<>>
    BY <1>1, <1>2, <2>1 DEF SingleCopy
  <2>3. CASE toClient' = toClient
    BY <2>2, <2>3 DEF SingleCopy
  <2>4. CASE /\ accepted' \in 1..MaxQueries
             /\ toClient' = Send(target[wire], accepted', toClient)
             /\ target[wire] \in Sessions
    <3>1. \A t \in Sessions : toClient'[t] # <<>> =>
            t = target[wire] /\ toClient'[t] = <<accepted'>>
      BY <1>1, <2>2, <2>4, SendFirst DEF SessionTypes
    <3>2. QED
      BY <1>2, <2>2, <3>1 DEF SingleCopy
  <2>5. QED
    BY <2>3, <2>4, QueryEffect
<1>7. QED
  BY <1>2, <1>3, <1>4, <1>5, <1>6, QueryEffect

LEMMA ConnectInv ==
  ASSUME Inv, NEW s \in Sessions, Connect(s)
  PROVE  BoundIsOpen' /\ SessionTypes' /\ SingleCopy' /\ ResentNeedsRetries'
<1>1. /\ SessionTypes /\ SingleCopy /\ BoundIsOpen /\ ResentNeedsRetries
      /\ UNCHANGED <<resent, stale, owed, accepted>>
  BY DEF Inv, Connect, busVars, Bridge!BindClientWire, Bridge!history
<1>2. RoleOf(s) \in Roles /\ s # NoSession
  BY QueryPathAssumption
<1>3. <<>> \in Seq(1..MaxQueries)
  OBVIOUS
<1>4. SessionTypes'
  BY <1>1, <1>2, <1>3 DEF SessionTypes, Connect, Links
<1>5. BoundIsOpen'
  BY <1>1, <1>2 DEF SessionTypes, BoundIsOpen, Connect, Bridge!BindClientWire
<1>6. ResentNeedsRetries'
  BY <1>1 DEF ResentNeedsRetries
<1>7. SingleCopy'
  BY <1>1 DEF SingleCopy, SessionTypes, Connect
<1>8. QED
  BY <1>4, <1>5, <1>6, <1>7

LEMMA DisconnectInv ==
  ASSUME Inv, NEW s \in Sessions, NEW next \in Links,
         Disconnect(s, next)
  PROVE  BoundIsOpen' /\ SessionTypes' /\ SingleCopy' /\ ResentNeedsRetries'
<1>1. /\ SessionTypes /\ SingleCopy /\ ResentNeedsRetries
      /\ UNCHANGED <<target, resent, stale, owed, accepted>>
  BY DEF Inv, Disconnect, busVars, Bridge!BindClientWire, Bridge!history
<1>2. <<>> \in Seq(1..MaxQueries)
  OBVIOUS
<1>3. SessionTypes'
  BY <1>1, <1>2 DEF SessionTypes, Disconnect, Unread
<1>4. BoundIsOpen'
  BY DEF BoundIsOpen, Disconnect, Bridge!BindClientWire
<1>5. ResentNeedsRetries'
  BY <1>1 DEF ResentNeedsRetries
<1>6. SingleCopy'
  BY <1>1 DEF SingleCopy, SessionTypes, Disconnect, Unread
<1>7. QED
  BY <1>3, <1>4, <1>5, <1>6

LEMMA VanishInv ==
  ASSUME Inv, NEW s \in Sessions, NEW next \in Links, Vanish(s, next)
  PROVE  BoundIsOpen' /\ SessionTypes' /\ SingleCopy' /\ ResentNeedsRetries'
<1>1. /\ SessionTypes /\ SingleCopy /\ ResentNeedsRetries /\ BoundIsOpen
      /\ UNCHANGED <<target, wire, resent, stale, owed, accepted>>
  BY DEF Inv, Vanish, busVars, bridgeVars
<1>2. <<>> \in Seq(1..MaxQueries)
  OBVIOUS
<1>3. SessionTypes'
  BY <1>1, <1>2 DEF SessionTypes, Vanish, Unread
<1>4. BoundIsOpen'
  BY <1>1 DEF BoundIsOpen, Vanish, Fades, SessionTypes
<1>5. ResentNeedsRetries'
  BY <1>1 DEF ResentNeedsRetries
<1>6. SingleCopy'
  BY <1>1 DEF SingleCopy, SessionTypes, Vanish, Unread
<1>7. QED
  BY <1>3, <1>4, <1>5, <1>6

LEMMA RespondData ==
  ASSUME Inv, NEW s \in Sessions, Chatter(s) \/ Respond(s)
  PROVE  /\ BridgeP!Traffic
         /\ [BusP!Next]_(BusP!vars)
         /\ answered' # answered => peer = owed /\ armed'["write"] = 1
         /\ PendingIsLast' /\ PendingHoldsAsker' /\ NeverStopped'
         /\ SessionTypes' /\ SingleCopy' /\ BoundIsOpen' /\ ResentNeedsRetries'
<1>1. CASE Chatter(s)
  <2>1. /\ running /\ Data("other", toClient) /\ "other" \in Bridge!Frames
        /\ UNCHANGED <<link, target>> /\ stale' = stale
    BY <1>1 DEF Chatter, Bridge!Frames
  <2>2. SessionTypes' /\ SingleCopy' /\ BoundIsOpen' /\ ResentNeedsRetries'
    BY <2>1, DataSessions
  <2>3. QED
    BY <2>1, <2>2, DataEffect
<1>2. CASE Respond(s)
  <2> DEFINE pipes == [toClient EXCEPT ![s] = Tail(@)]
  <2>1. PICK f \in {"09D0", "099F", "09D0 stub"} :
          /\ Data(f, pipes)
          /\ stale' = (stale \/ (answered' # answered /\ Head(toClient[s]) # query))
    BY <1>2 DEF Respond
  <2>2. /\ running /\ toClient[s] # <<>> /\ UNCHANGED <<link, target>>
        /\ f \in Bridge!Frames
    BY <1>2 DEF Respond, Bridge!Frames
  <2>3. SessionTypes' /\ SingleCopy' /\ BoundIsOpen' /\ ResentNeedsRetries'
    BY <2>1, <2>2, DataSessions
  <2> HIDE DEF pipes
  <2>4. QED
    BY <2>1, <2>2, <2>3, DataEffect
<1>3. QED
  BY <1>1, <1>2

\* Every step of the path is a step of the bus, a step of the bridge, and
\* preserves the rest of the invariant.
LEMMA StepFacts ==
  ASSUME Inv, [Next]_vars
  PROVE  /\ [BusP!Next]_(BusP!vars)
         /\ BridgeP!Next
         /\ answered' # answered => peer = owed /\ armed'["write"] = 1
         /\ NeverStopped' /\ PendingHoldsAsker' /\ BoundIsOpen' /\ PendingIsLast'
         /\ SessionTypes' /\ SingleCopy' /\ ResentNeedsRetries'
<1>0. {r \in Roles : Reaches(r)}' \in SUBSET Roles
  BY LiveTypes
<1>1. CASE UNCHANGED vars
  <2>1. UNCHANGED <<busVars, bridgeVars, link, target, toClient, resent, stale>>
    BY <1>1 DEF vars, sessionVars
  <2>2. UNCHANGED BusP!vars /\ UNCHANGED BridgeP!bridgeVars
    BY <2>1 DEF busVars, bridgeVars, BusP!vars, BridgeP!bridgeVars
  <2>3. NeverStopped' /\ PendingHoldsAsker' /\ PendingIsLast'
    BY <2>1, SessionStep DEF bridgeVars
  <2>4. BoundIsOpen' /\ SessionTypes' /\ SingleCopy' /\ ResentNeedsRetries'
    BY <2>1 DEF Inv, busVars, bridgeVars, BoundIsOpen, SessionTypes, SingleCopy,
                ResentNeedsRetries
  <2>5. QED
    BY <1>0, <2>1, <2>2, <2>3, <2>4 DEF BridgeP!Next, bridgeVars
<1>2. CASE BusStep
  <2>1. UNCHANGED bridgeVars
    BY <1>2 DEF BusStep
  <2>2. BridgeP!Next /\ answered' = answered
    BY <1>0, <2>1 DEF bridgeVars, BridgeP!bridgeVars, BridgeP!Next
  <2>3. QED
    BY <1>2, <2>2, BusStepEffect, BusStepInv
<1>3. CASE Query
  <2>1. BusP!Next
    BY <1>3, ReadQueryEffect DEF Query
  <2>2. BridgeP!Next
    BY <1>0, <1>3, QueryEffect DEF BridgeP!Next
  <2>3. answered' = answered
    BY <1>3 DEF Query, Bridge!Drop, Bridge!Forward, Bridge!ForwardFails,
                Bridge!bridgeVars, Bridge!history
  <2>4. QED
    BY <1>3, <2>1, <2>2, <2>3, QueryInv
<1>4. ASSUME UNCHANGED busVars, UNCHANGED <<pending, query, accepted, answered>>,
             BridgeP!Bind \/ UNCHANGED BridgeP!bridgeVars \/ BridgeP!Expire,
             BoundIsOpen' /\ SessionTypes' /\ SingleCopy' /\ ResentNeedsRetries'
      PROVE  /\ [BusP!Next]_(BusP!vars)
             /\ BridgeP!Next
             /\ answered' # answered => peer = owed /\ armed'["write"] = 1
             /\ NeverStopped' /\ PendingHoldsAsker' /\ BoundIsOpen' /\ PendingIsLast'
             /\ SessionTypes' /\ SingleCopy' /\ ResentNeedsRetries'
  <2>1. UNCHANGED BusP!vars
    BY <1>4 DEF busVars, BusP!vars
  <2>2. BridgeP!Next
    BY <1>0, <1>4 DEF BridgeP!Next
  <2>3. QED
    BY <1>4, <2>1, <2>2, SessionStep
<1>5. ASSUME NEW s \in Sessions, Connect(s)
      PROVE  /\ UNCHANGED busVars /\ UNCHANGED <<pending, query, accepted, answered>>
             /\ BridgeP!Bind
             /\ BoundIsOpen' /\ SessionTypes' /\ SingleCopy' /\ ResentNeedsRetries'
  <2>1. RoleOf(s) \in Roles /\ BridgeP!BindClientWire(RoleOf(s))
    BY <1>5, BridgeSteps, QueryPathAssumption DEF Connect
  <2>2. BridgeP!Bind
    BY <2>1 DEF BridgeP!Bind
  <2>3. UNCHANGED busVars /\ UNCHANGED <<pending, query, accepted, answered>>
    BY <1>5 DEF Connect, Bridge!BindClientWire, Bridge!transaction, Bridge!history
  <2>4. QED
    BY <1>5, <2>2, <2>3, ConnectInv
<1>6. ASSUME NEW s \in Sessions, NEW next \in Links,
             Disconnect(s, next)
      PROVE  /\ UNCHANGED busVars /\ UNCHANGED <<pending, query, accepted, answered>>
             /\ BridgeP!Bind
             /\ BoundIsOpen' /\ SessionTypes' /\ SingleCopy' /\ ResentNeedsRetries'
  <2>1. BridgeP!BindClientWire(NoWire)
    BY <1>6, BridgeSteps DEF Disconnect
  <2>2. BridgeP!Bind
    BY <2>1 DEF BridgeP!Bind, NoWire
  <2>3. UNCHANGED busVars /\ UNCHANGED <<pending, query, accepted, answered>>
    BY <1>6 DEF Disconnect, Bridge!BindClientWire, Bridge!transaction, Bridge!history
  <2>4. QED
    BY <1>6, <2>2, <2>3, DisconnectInv
<1>7. ASSUME NEW s \in Sessions, NEW next \in Links, Vanish(s, next)
      PROVE  /\ UNCHANGED busVars /\ UNCHANGED <<pending, query, accepted, answered>>
             /\ UNCHANGED BridgeP!bridgeVars
             /\ BoundIsOpen' /\ SessionTypes' /\ SingleCopy' /\ ResentNeedsRetries'
  BY <1>7, VanishInv DEF Vanish, bridgeVars, BridgeP!bridgeVars
<1>8. ASSUME NEW s \in Sessions, Chatter(s) \/ Respond(s)
      PROVE  /\ [BusP!Next]_(BusP!vars)
             /\ BridgeP!Next
             /\ answered' # answered => peer = owed /\ armed'["write"] = 1
             /\ NeverStopped' /\ PendingHoldsAsker' /\ BoundIsOpen' /\ PendingIsLast'
             /\ SessionTypes' /\ SingleCopy' /\ ResentNeedsRetries'
  <2>1. BridgeP!Next
    BY <1>0, <1>8, RespondData DEF BridgeP!Next
  <2>2. QED
    BY <1>8, <2>1, RespondData
<1>9. CASE Expire
  <2>1. BridgeP!Expire
    BY <1>9, BridgeSteps DEF Expire
  <2>2. /\ UNCHANGED <<busVars, sessionVars, resent, stale>>
        /\ UNCHANGED <<wire, pending, query, accepted, answered>>
    BY <1>9 DEF Expire, Bridge!Expire, Bridge!history
  <2>3. BoundIsOpen' /\ SessionTypes' /\ SingleCopy' /\ ResentNeedsRetries'
    BY <2>2 DEF Inv, busVars, sessionVars, BoundIsOpen, SessionTypes, SingleCopy,
                ResentNeedsRetries
  <2>4. QED
    BY <1>4, <2>1, <2>2, <2>3
<1>10. CASE Next
  <2>1. ASSUME NEW s \in Sessions, Connect(s)
        PROVE  BridgeP!Next
    BY <1>4, <1>5, <2>1
  <2>2. QED
    BY <1>2, <1>3, <1>4, <1>5, <1>6, <1>7, <1>8, <1>9, <1>10 DEF Next
<1>11. QED
  BY <1>1, <1>10

THEOREM StepInv == Inv /\ [Next]_vars => Inv'
<1> SUFFICES ASSUME Inv, [Next]_vars PROVE Inv'
  OBVIOUS
<1>1. BusP!Inv'
  <2>1. BusP!Inv /\ [BusP!Next]_(BusP!vars)
    BY StepFacts DEF Inv
  <2>2. QED
    BY <2>1, BusP!StepInv, QueryPathAssumption
<1>2. BridgeP!Inv'
  <2>1. BridgeP!Inv /\ [BridgeP!Next]_(BridgeP!vars)
    BY StepFacts DEF Inv
  <2>2. QED
    BY <2>1, BridgeP!StepInv, QueryPathAssumption, Bounds
<1>3. QED
  BY <1>1, <1>2, StepFacts DEF Inv

LEMMA Invariance == Spec => []Inv
<1>1. QED
  BY InitInv, StepInv, PTL DEF Spec

-------------------------------------------------------------------------------
(* The theorems. *)

\* A pending challenge's asker holds the bus socket, alone, and the bridge is
\* only ever bound to a session whose loss was not notified.
THEOREM NothingMisdirected == Spec => []NeverMisdirected
<1>1. Inv => NeverMisdirected
  BY DEF Inv, NeverMisdirected
<1>2. QED
  BY <1>1, Invariance, PTL

\* Only a resend can make an answer be taken for the answer to a later challenge.
THEOREM StaleNeedsResend == Spec => []StaleOnlyAfterResend
<1>1. Inv => StaleOnlyAfterResend
  BY DEF Inv, SingleCopy, StaleOnlyAfterResend
<1>2. QED
  BY <1>1, Invariance, PTL

\* With max_retries_ = 0 every reply answers the query it is the reply to: the
\* mismatch that ReplyAnswersItsQuery shows comes from the retries alone.
THEOREM NoRetriesNoStale ==
  ASSUME MaxRetries = 0
  PROVE  Spec => []ReplyAnswersItsQuery
<1>1. Inv => ReplyAnswersItsQuery
  BY DEF Inv, SingleCopy, ResentNeedsRetries, ReplyAnswersItsQuery
<1>2. QED
  BY <1>1, Invariance, PTL

\* Every reply the bridge hands over is written, to the connection that asked.
THEOREM RepliesAreWritten == Spec => AnswerIsWritten
<1>1. Inv /\ [Next]_vars => [answered' # answered => peer = owed /\ armed'["write"] = 1]_vars
  BY StepFacts
<1>2. QED
  BY <1>1, Invariance, PTL DEF Spec, AnswerIsWritten

\* BusP names QueryServer's operators through the module of its theorems.
LEMMA BusNext == BusP!Next => Bus!Next
<1>1. BusP!Start => Bus!Start
  BY DEF Bus!Start, BusP!Start, Bus!StartListening, BusP!StartListening,
         Bus!StartFails, BusP!StartFails
<1>2. BusP!Stop => Bus!Stop
  BY DEF Bus!Stop, BusP!Stop
<1>3. BusP!Accept => Bus!Accept
  BY DEF Bus!Accept, BusP!Accept, Bus!Runs, BusP!Runs, Bus!Rearm, BusP!Rearm,
         Bus!Over, BusP!Over
<1>4. BusP!AcceptThrows => Bus!AcceptThrows
  BY DEF Bus!AcceptThrows, BusP!AcceptThrows, Bus!Runs, BusP!Runs, Bus!Over, BusP!Over
<1>5. BusP!AcceptAborted => Bus!AcceptAborted
  BY DEF Bus!AcceptAborted, BusP!AcceptAborted, Bus!Runs, BusP!Runs, Bus!Rearm, BusP!Rearm,
         Bus!Over, BusP!Over
<1>6. BusP!ReadLen => Bus!ReadLen
  BY DEF Bus!ReadLen, BusP!ReadLen, Bus!Runs, BusP!Runs, Bus!Rearm, BusP!Rearm,
         Bus!Over, BusP!Over
<1>7. BusP!ReadQuery => Bus!ReadQuery
  BY DEF Bus!ReadQuery, BusP!ReadQuery, Bus!ReadRest, BusP!ReadRest, Bus!Runs, BusP!Runs,
         Bus!Over, BusP!Over
<1>8. BusP!Written => Bus!Written
  BY DEF Bus!Written, BusP!Written, Bus!Runs, BusP!Runs, Bus!Recycle, BusP!Recycle,
         Bus!Rearm, BusP!Rearm, Bus!Over, BusP!Over
<1>9. ASSUME NEW op \in BusP!Ops, BusP!ReadFails(op)
      PROVE  op \in Bus!Ops /\ Bus!ReadFails(op)
  BY <1>9 DEF Bus!ReadFails, BusP!ReadFails, Bus!Runs, BusP!Runs, Bus!Recycle, BusP!Recycle,
              Bus!Rearm, BusP!Rearm, Bus!Over, BusP!Over, Bus!Ops, BusP!Ops
<1>10. ASSUME NEW f \in BusP!Frames, BusP!ReadOther(f)
       PROVE  f \in Bus!Frames /\ Bus!ReadOther(f)
  BY <1>10 DEF Bus!ReadOther, BusP!ReadOther, Bus!ReadRest, BusP!ReadRest, Bus!Runs, BusP!Runs,
               Bus!Over, BusP!Over, Bus!Frames, BusP!Frames
<1>11. BusP!Reply => Bus!Reply
  BY DEF Bus!Reply, BusP!Reply, Bus!SendReply, BusP!SendReply
<1>12. ASSUME NEW c \in Conns, BusP!Connect(c) \/ BusP!Hangup(c)
       PROVE  Bus!Connect(c) \/ Bus!Hangup(c)
  BY <1>12 DEF Bus!Connect, BusP!Connect, Bus!Hangup, BusP!Hangup, Bus!Queued, BusP!Queued
<1>13. BusP!Handlers => Bus!Handlers
  BY <1>3, <1>4, <1>5, <1>6, <1>7, <1>8, <1>9, <1>10 DEF Bus!Handlers, BusP!Handlers
<1>14. QED
  BY <1>1, <1>2, <1>11, <1>12, <1>13 DEF Bus!Next, BusP!Next

\* QueryServer's caller keeps its contract, so all that is proved of QueryServer
\* holds of the composition.
THEOREM CallerKeepsContract == Spec => BusContract
<1>1. Init => Bus!Init
  BY DEF Init
<1>2. Inv /\ [Next]_vars => [Bus!Next]_(Bus!vars)
  <2>1. Inv /\ [Next]_vars => [BusP!Next]_(BusP!vars)
    BY StepFacts
  <2>2. [BusP!Next]_(BusP!vars) => [Bus!Next]_(Bus!vars)
    BY BusNext DEF Bus!vars, BusP!vars
  <2>3. QED
    BY <2>1, <2>2
<1>3. QED
  BY <1>1, <1>2, Invariance, PTL DEF Spec, BusContract, Bus!Spec

-------------------------------------------------------------------------------
(* The frames of the path, from here to the end.  First, induction and         *)
(* recursion up to a bound, through the least number of a set.                 *)

LEMMA LeastOf ==
  ASSUME NEW S \in SUBSET Nat, S # {}
  PROVE  \E x \in S : \A y \in S : x <= y
<1>1. PICK x \in S : \A y \in S : ~(<<y, x>> \in OpToRel(<, Nat))
  BY NatLessThanWellFounded, WFMin
<1>2. OpToRel(<, Nat) = {ss \in Nat \X Nat : ss[1] < ss[2]}
  BY Zenon DEF OpToRel
<1> DEFINE R == OpToRel(<, Nat)
<1>3. R = {ss \in Nat \X Nat : ss[1] < ss[2]} /\ \A y \in S : ~(<<y, x>> \in R)
  BY <1>1, <1>2
<1> HIDE DEF R
<1>4. \A y \in S : x <= y
  <2> SUFFICES ASSUME NEW y \in S PROVE x <= y
    OBVIOUS
  <2>1. ~(y < x)
    BY <1>3
  <2> QED BY <2>1
<1> QED BY <1>4

LEMMA UpTo ==
  ASSUME NEW N \in Nat, NEW S, 0 \in S, \A n \in 0..(N - 1) : n \in S => n + 1 \in S
  PROVE  0..N \subseteq S
<1> SUFFICES ASSUME NEW k \in 0..N, k \notin S PROVE FALSE
  OBVIOUS
<1> DEFINE T == {n \in 0..N : n \notin S}
<1>1. T \in SUBSET Nat /\ T # {}
  OBVIOUS
<1>2. PICK n \in T : \A y \in T : n <= y
  BY <1>1, LeastOf
<1>3. n # 0 /\ n - 1 \in 0..(N - 1) /\ n - 1 \notin T
  BY <1>2
<1>4. n - 1 \in S
  BY <1>3
<1>5. (n - 1) + 1 \in S
  BY <1>3, <1>4
<1> QED BY <1>2, <1>5

\* What is defined by a step from each number to the next is defined.
LEMMA Iterated ==
  ASSUME NEW N \in Nat, NEW base \in Nat, NEW step \in [1..N -> [Nat -> Nat]]
  PROVE  \E f \in [0..N -> Nat] : f[0] = base /\ \A n \in 1..N : f[n] = step[n][f[n - 1]]
<1> DEFINE P(g, k) == g[0] = base /\ \A n \in 1..k : g[n] = step[n][g[n - 1]]
           S == {k \in 0..N : \E g \in [0..k -> Nat] : P(g, k)}
<1>1. 0 \in S
  <2> DEFINE g == [n \in 0..0 |-> base]
  <2>1. g \in [0..0 -> Nat] /\ P(g, 0)
    OBVIOUS
  <2>2. 0 \in 0..N
    OBVIOUS
  <2> HIDE DEF g, P
  <2> QED BY <2>1, <2>2
<1>2. ASSUME NEW k \in 0..(N - 1), k \in S
      PROVE  k + 1 \in S
  <2>1. PICK g \in [0..k -> Nat] : P(g, k)
    BY <1>2
  <2> DEFINE w == step[k + 1][g[k]]
             h == [n \in 0..(k + 1) |-> IF n <= k THEN g[n] ELSE w]
  <2>2. k + 1 \in 1..N /\ g[k] \in Nat
    OBVIOUS
  <2>3. step[k + 1] \in [Nat -> Nat]
    BY <2>2
  <2>4. w \in Nat
    BY <2>2, <2>3
  <2>5. h \in [0..(k + 1) -> Nat]
    <3> HIDE DEF w
    <3> QED BY <2>4
  <2>6. h[0] = base
    BY <2>1
  <2>7. ASSUME NEW n \in 1..(k + 1) PROVE h[n] = step[n][h[n - 1]]
    <3>1. CASE n <= k
      <4>1. n \in 1..k /\ n - 1 \in 0..k /\ n - 1 <= k
        BY <3>1
      <4>2. h[n] = g[n] /\ h[n - 1] = g[n - 1]
        BY <3>1, <4>1
      <4> QED BY <2>1, <4>1, <4>2
    <3>2. CASE n = k + 1
      <4>1. h[n] = step[k + 1][g[k]] /\ h[n - 1] = g[k]
        BY <3>2
      <4> QED BY <3>2, <4>1
    <3> QED BY <3>1, <3>2
  <2> HIDE DEF h
  <2>8. P(h, k + 1)
    BY <2>6, <2>7
  <2>9. k + 1 \in 0..N
    BY <2>2
  <2> HIDE DEF P
  <2> QED BY <2>5, <2>8, <2>9
<1> HIDE DEF S
<1>3. N \in S
  <2>1. 0..N \subseteq S
    BY <1>1, <1>2, UpTo
  <2> QED BY <2>1
<1>4. PICK f \in [0..N -> Nat] : P(f, N)
  BY <1>3 DEF S
<1> QED BY <1>4

-------------------------------------------------------------------------------
(* Numbers and their bytes. *)

LEMMA BaseTyped == Base \in Nat /\ Base > 2 /\ Byte \subseteq Nat /\ 1 \in Byte
  BY BusAssumption DEF UInt, Byte

LEMMA ProductTyped ==
  ASSUME NEW a \in Nat, NEW b \in Nat
  PROVE  a * b \in Nat
  OBVIOUS

LEMMA Distributes ==
  ASSUME NEW a \in Nat, NEW b \in Nat, NEW c \in Nat
  PROVE  (a + b) * c = a * c + b * c
  BY SMT

\* A number is the digit and the rest it was made of.
LEMMA Digits ==
  ASSUME NEW a \in Nat \ {0}, NEW r \in 0..(a - 1), NEW q \in Nat
  PROVE  (r + a * q) % a = r /\ (r + a * q) \div a = q
<1> DEFINE n == r + a * q
           p == n \div a
<1>1. n \in Nat
  BY SMT
<1>2. n = a * p + (n % a) /\ n % a \in 0..(a - 1) /\ p \in Nat
  BY <1>1, SMT
<1>3. a * (q - p) = (n % a) - r /\ a * (p - q) = r - (n % a)
  BY <1>2, SMT
<1>4. \A k \in Nat \ {0} : a * k >= a
  BY SMT
<1> HIDE DEF n, p
<1>5. ~(q > p)
  <2> SUFFICES ASSUME q > p PROVE FALSE
    OBVIOUS
  <2>1. q - p \in Nat \ {0}
    BY <1>2, SMT
  <2> QED BY <2>1, <1>2, <1>3, <1>4, SMT
<1>6. ~(q < p)
  <2> SUFFICES ASSUME q < p PROVE FALSE
    OBVIOUS
  <2>1. p - q \in Nat \ {0}
    BY <1>2, SMT
  <2> QED BY <2>1, <1>2, <1>3, <1>4, SMT
<1>7. p = q
  BY <1>2, <1>5, <1>6, SMT
<1>8. n % a = r
  BY <1>2, <1>3, <1>7, SMT
<1> QED BY <1>7, <1>8 DEF n, p

\* The last byte of a number and the bytes before it.
LEMMA LastByte ==
  ASSUME NEW x \in Nat
  PROVE  /\ x % Base \in Byte
         /\ x \div Base \in Nat
         /\ (x \div Base) * Base + (x % Base) = x
         /\ \A b \in Nat : x < Base * b => x \div Base < b
         /\ x < Base => x \div Base = 0 /\ x % Base = x
<1>1. Base \in Nat /\ Base > 2
  BY BaseTyped
<1> DEFINE r == x % Base
           q == x \div Base
<1>2. q * Base + r = x /\ r \in 0..(Base - 1) /\ q \in Nat
  BY <1>1, SMT
<1> HIDE DEF q, r
<1>3. ASSUME NEW b \in Nat, x < Base * b PROVE q < b
  <2> SUFFICES ASSUME q >= b PROVE FALSE
    BY <1>2
  <2>1. PICK d \in Nat : q = b + d
    BY <1>2
  <2>2. q * Base = b * Base + d * Base /\ d * Base \in Nat /\ b * Base \in Nat
    BY <1>1, <2>1, SMT
  <2>3. x >= b * Base /\ b * Base = Base * b
    BY <1>1, <1>2, <2>2, SMT
  <2> QED BY <1>1, <1>3, <2>2, <2>3
<1>4. x < Base => q = 0
  <2> SUFFICES ASSUME x < Base PROVE q = 0
    OBVIOUS
  <2>1. x < Base * 1
    BY <1>1
  <2>2. q < 1
    BY <1>3, <2>1
  <2> QED BY <1>2, <2>2
<1>5. q = 0 => r = x
  BY <1>1, <1>2
<1> QED BY <1>2, <1>3, <1>4, <1>5 DEF q, r, Byte

LEMMA LimitsTyped ==
  /\ Limit24 \in Nat /\ Limit32 \in Nat
  /\ Limit24 = Base * (Base * Base) /\ Base * Base \in Nat
<1>1. Base \in Nat
  BY BaseTyped
<1>2. Base * Base \in Nat
  BY <1>1, ProductTyped
<1>3. Limit24 = Base * (Base * Base) /\ Limit24 \in Nat
  BY <1>1, <1>2, SMT DEF Limit24
<1>4. Limit32 \in Nat
  BY <1>1, <1>3, ProductTyped DEF Limit32
<1> QED BY <1>2, <1>3, <1>4

LEMMA ReadTyped ==
  ASSUME NEW b0 \in Byte, NEW b1 \in Byte, NEW b2 \in Byte, NEW b3 \in Byte
  PROVE  rd_be24(b0, b1, b2) \in Nat /\ rd_be32(b0, b1, b2, b3) \in Nat
<1>1. b0 \in Nat /\ b1 \in Nat /\ b2 \in Nat /\ b3 \in Nat /\ Base \in Nat
  BY BaseTyped
<1>2. b0 * Base + b1 \in Nat
  BY <1>1, ProductTyped
<1> DEFINE x == b0 * Base + b1
<1> HIDE DEF x
<1>3. x * Base + b2 \in Nat
  BY <1>1, <1>2, ProductTyped DEF x
<1> DEFINE y == x * Base + b2
<1> HIDE DEF y
<1>4. y * Base + b3 \in Nat
  BY <1>1, <1>3, ProductTyped DEF y
<1> QED BY <1>3, <1>4 DEF x, y, rd_be24, rd_be32

\* wr_be24 and wr_be32 write bytes; what they write is read back, unless it is cut.
LEMMA Write24 ==
  ASSUME NEW x \in Nat
  PROVE  LET w == wr_be24(x) IN
         /\ w \in Seq(Byte) /\ Len(w) = 3
         /\ w[1] \in Byte /\ w[2] \in Byte /\ w[3] \in Byte
         /\ x < Limit24 => rd_be24(w[1], w[2], w[3]) = x
<1> DEFINE x1 == x \div Base
           x2 == x1 \div Base
           w  == <<x2 % Base, x1 % Base, x % Base>>
<1>1. w = wr_be24(x)
  BY DEF wr_be24
<1>2. x1 \in Nat /\ x % Base \in Byte /\ x1 * Base + (x % Base) = x
  BY LastByte
<1>3. \A b \in Nat : x < Base * b => x1 < b
  BY LastByte
<1> HIDE DEF x1
<1>4. x2 \in Nat /\ x1 % Base \in Byte /\ x2 * Base + (x1 % Base) = x1
  BY <1>2, LastByte
<1>5. \A b \in Nat : x1 < Base * b => x2 < b
  BY <1>2, LastByte
<1> HIDE DEF x2
<1>6. x2 % Base \in Byte /\ (x2 < Base => x2 % Base = x2)
  BY <1>4, LastByte
<1>7. w \in Seq(Byte) /\ Len(w) = 3 /\ w[1] = x2 % Base /\ w[2] = x1 % Base /\ w[3] = x % Base
  BY <1>2, <1>4, <1>6
<1> HIDE DEF w
<1>8. ASSUME x < Limit24 PROVE rd_be24(w[1], w[2], w[3]) = x
  <2>1. x1 < Base * Base
    BY <1>3, <1>8, LimitsTyped
  <2>2. x2 < Base
    BY <1>5, <2>1, BaseTyped
  <2>3. w[1] = x2
    BY <1>6, <1>7, <2>2
  <2> QED BY <1>2, <1>4, <1>7, <2>3, Zenon DEF rd_be24
<1> QED BY <1>1, <1>2, <1>4, <1>6, <1>7, <1>8, Zenon

LEMMA Write32 ==
  ASSUME NEW x \in Nat
  PROVE  LET w == wr_be32(x) IN
         /\ w \in Seq(Byte) /\ Len(w) = 4
         /\ w[1] \in Byte /\ w[2] \in Byte /\ w[3] \in Byte /\ w[4] \in Byte
         /\ x < Limit32 => rd_be32(w[1], w[2], w[3], w[4]) = x
<1> DEFINE x1 == x \div Base
           x2 == x1 \div Base
           x3 == x2 \div Base
           low == wr_be24(x)
           w   == <<x3 % Base>> \o low
<1>1. w = wr_be32(x)
  BY DEF wr_be32
<1>2. x1 \in Nat /\ x % Base \in Byte /\ x1 * Base + (x % Base) = x
  BY LastByte
<1>3. \A b \in Nat : x < Base * b => x1 < b
  BY LastByte
<1>4. low = <<x2 % Base, x1 % Base, x % Base>>
  BY DEF wr_be24
<1> HIDE DEF x1
<1>5. x2 \in Nat /\ x1 % Base \in Byte /\ x2 * Base + (x1 % Base) = x1
  BY <1>2, LastByte
<1>6. \A b \in Nat : x1 < Base * b => x2 < b
  BY <1>2, LastByte
<1> HIDE DEF x2
<1>7. x3 \in Nat /\ x2 % Base \in Byte /\ x3 * Base + (x2 % Base) = x2
  BY <1>5, LastByte
<1>8. \A b \in Nat : x2 < Base * b => x3 < b
  BY <1>5, LastByte
<1> HIDE DEF x3
<1>9. x3 % Base \in Byte /\ (x3 < Base => x3 % Base = x3)
  BY <1>7, LastByte
<1> HIDE DEF low
<1>10. /\ w \in Seq(Byte) /\ Len(w) = 4
       /\ w[1] = x3 % Base /\ w[2] = x2 % Base /\ w[3] = x1 % Base /\ w[4] = x % Base
  BY <1>2, <1>4, <1>5, <1>7, <1>9
<1> HIDE DEF w
<1>11. ASSUME x < Limit32 PROVE rd_be32(w[1], w[2], w[3], w[4]) = x
  <2>1. x1 < Limit24
    BY <1>3, <1>11, LimitsTyped DEF Limit32
  <2>2. x2 < Base * Base
    BY <1>6, <2>1, LimitsTyped
  <2>3. x3 < Base
    BY <1>8, <2>2, BaseTyped
  <2>4. w[1] = x3
    BY <1>9, <1>10, <2>3
  <2> QED BY <1>2, <1>5, <1>7, <1>10, <2>4, Zenon DEF rd_be24, rd_be32
<1> QED BY <1>1, <1>2, <1>5, <1>7, <1>9, <1>10, <1>11, Zenon

-------------------------------------------------------------------------------
(* The loops over the bytes of an integer. *)

LEMMA PowerDefined ==
  /\ Power \in [0..Word -> Nat]
  /\ Power[0] = 1
  /\ \A n \in 1..Word : Power[n] = Base * Power[n - 1]
<1> DEFINE step == [n \in 1..Word |-> [y \in Nat |-> Base * y]]
<1>1. Word \in Nat /\ Base \in Nat
  BY BusAssumption
<1>2. step \in [1..Word -> [Nat -> Nat]]
  BY <1>1, ProductTyped
<1>3. \E f \in [0..Word -> Nat] :
        f[0] = 1 /\ \A n \in 1..Word : f[n] = step[n][f[n - 1]]
  <2>1. 1 \in Nat
    OBVIOUS
  <2> HIDE DEF step
  <2> QED BY <1>1, <1>2, <2>1, Iterated, Zenon
<1>4. PICK f \in [0..Word -> Nat] :
        f[0] = 1 /\ \A n \in 1..Word : f[n] = step[n][f[n - 1]]
  BY <1>3
<1>5. \A n \in 1..Word : step[n][f[n - 1]] = Base * f[n - 1]
  BY <1>1
<1> HIDE DEF step
<1>6. f = [n \in 0..Word |-> IF n = 0 THEN 1 ELSE Base * f[n - 1]]
  <2>1. \A n \in 0..Word : n # 0 => n \in 1..Word
    BY <1>1
  <2> QED BY <1>4, <1>5, <2>1
<1>7. Power = [n \in 0..Word |-> IF n = 0 THEN 1 ELSE Base * Power[n - 1]]
  BY <1>6, Zenon DEF Power
<1>8. Power[0] = 1 /\ \A n \in 1..Word : Power[n] = Base * Power[n - 1]
  <2>1. \A n \in 0..Word : Power[n] = IF n = 0 THEN 1 ELSE Base * Power[n - 1]
    BY <1>7, Zenon
  <2>2. 0 \in 0..Word /\ \A n \in 1..Word : n \in 0..Word /\ n # 0
    BY <1>1
  <2> QED BY <2>1, <2>2, Zenon
<1>9. Power \in [0..Word -> Nat]
  <2> DEFINE S == {n \in 0..Word : Power[n] \in Nat}
  <2>1. 0 \in S
    BY <1>1, <1>8
  <2>2. ASSUME NEW n \in 0..(Word - 1), n \in S PROVE n + 1 \in S
    <3>1. n + 1 \in 1..Word /\ (n + 1) - 1 = n /\ Power[n] \in Nat
      BY <1>1, <2>2
    <3>2. Power[n + 1] = Base * Power[n]
      BY <1>8, <3>1
    <3> QED BY <1>1, <3>1, <3>2, ProductTyped
  <2> HIDE DEF S
  <2>3. 0..Word \subseteq S
    BY <1>1, <2>1, <2>2, UpTo
  <2>4. \A n \in 0..Word : Power[n] \in Nat
    BY <2>3 DEF S
  <2> QED BY <1>7, <2>4
<1> QED BY <1>8, <1>9

LEMMA TurnsDefined ==
  ASSUME NEW x \in Nat
  PROVE  /\ Turns(x) \in [0..Word -> Nat]
         /\ Turns(x)[0] = x
         /\ \A n \in 1..Word : Turns(x)[n] = Turns(x)[n - 1] \div Base
<1> DEFINE step == [n \in 1..Word |-> [y \in Nat |-> y \div Base]]
<1>1. Word \in Nat
  BY BusAssumption
<1>2. step \in [1..Word -> [Nat -> Nat]]
  BY LastByte
<1>3. \E f \in [0..Word -> Nat] :
        f[0] = x /\ \A n \in 1..Word : f[n] = step[n][f[n - 1]]
  <2> HIDE DEF step
  <2> QED BY <1>1, <1>2, Iterated, Zenon
<1>4. PICK f \in [0..Word -> Nat] :
        f[0] = x /\ \A n \in 1..Word : f[n] = step[n][f[n - 1]]
  BY <1>3
<1>5. \A n \in 1..Word : step[n][f[n - 1]] = f[n - 1] \div Base
  BY <1>1
<1> HIDE DEF step
<1>6. f = [n \in 0..Word |-> IF n = 0 THEN x ELSE f[n - 1] \div Base]
  <2>1. \A n \in 0..Word : n # 0 => n \in 1..Word
    BY <1>1
  <2> QED BY <1>4, <1>5, <2>1
<1> DEFINE q == Turns(x)
<1>7. q = [n \in 0..Word |-> IF n = 0 THEN x ELSE q[n - 1] \div Base]
  BY <1>6, Zenon DEF Turns
<1> HIDE DEF q
<1>8. q[0] = x /\ \A n \in 1..Word : q[n] = q[n - 1] \div Base
  <2>1. \A n \in 0..Word : q[n] = IF n = 0 THEN x ELSE q[n - 1] \div Base
    BY <1>7, Zenon
  <2>2. 0 \in 0..Word /\ \A n \in 1..Word : n \in 0..Word /\ n # 0
    BY <1>1
  <2> QED BY <2>1, <2>2, Zenon
<1>9. q \in [0..Word -> Nat]
  <2> DEFINE S == {n \in 0..Word : q[n] \in Nat}
  <2>1. 0 \in S
    BY <1>1, <1>8
  <2>2. ASSUME NEW n \in 0..(Word - 1), n \in S PROVE n + 1 \in S
    <3>1. n + 1 \in 1..Word /\ (n + 1) - 1 = n /\ q[n] \in Nat
      BY <1>1, <2>2
    <3>2. q[n + 1] = q[n] \div Base
      BY <1>8, <3>1
    <3>3. q[n + 1] \in Nat
      BY <3>1, <3>2, LastByte
    <3> QED BY <1>1, <3>1, <3>3
  <2> HIDE DEF S
  <2>3. 0..Word \subseteq S
    BY <1>1, <2>1, <2>2, UpTo
  <2>4. \A n \in 0..Word : q[n] \in Nat
    BY <2>3 DEF S
  <2> QED BY <1>7, <2>4
<1> QED BY <1>8, <1>9 DEF q

\* A number that fits the word is gone after its last turn.
LEMMA TurnsEnd ==
  ASSUME NEW x \in Nat, x < Power[Word]
  PROVE  /\ Turns(x)[Word] = 0
         /\ \A n \in 0..Word : Turns(x)[n] < Power[Word]
<1> DEFINE q == Turns(x)
           p == Power
<1>1. Word \in Nat /\ Base \in Nat /\ Base > 2
  BY BusAssumption, BaseTyped
<1>2. /\ q \in [0..Word -> Nat] /\ q[0] = x
      /\ \A n \in 1..Word : q[n] = q[n - 1] \div Base
  BY TurnsDefined
<1>3. /\ p \in [0..Word -> Nat] /\ p[0] = 1
      /\ \A n \in 1..Word : p[n] = Base * p[n - 1]
  BY PowerDefined
<1> HIDE DEF q
<1> DEFINE S == {n \in 0..Word : q[n] * p[n] <= x /\ q[n] <= x}
<1>4. 0 \in S
  BY <1>1, <1>2, <1>3
<1>5. ASSUME NEW n \in 0..(Word - 1), n \in S PROVE n + 1 \in S
  <2> DEFINE a == q[n]
             b == q[n + 1]
             c == p[n]
  <2>1. n + 1 \in 1..Word /\ (n + 1) - 1 = n /\ n \in 0..Word /\ n + 1 \in 0..Word
    BY <1>1
  <2>2. b = a \div Base /\ p[n + 1] = Base * c /\ a \in Nat /\ b \in Nat /\ c \in Nat
    BY <1>2, <1>3, <2>1
  <2>3. a * c <= x /\ a <= x
    BY <1>5
  <2> HIDE DEF a, b, c
  <2>4. b * Base <= a /\ b * Base \in Nat
    <3>1. (a \div Base) * Base + (a % Base) = a /\ a % Base \in Nat
      BY <2>2, LastByte, BaseTyped
    <3>2. b * Base \in Nat
      BY <1>1, <2>2, ProductTyped
    <3> QED BY <2>2, <3>1, <3>2
  <2>5. b * (Base * c) <= a * c
    <3> DEFINE d == a - b * Base
    <3>1. d \in Nat /\ a = b * Base + d
      BY <2>2, <2>4
    <3> HIDE DEF d
    <3>2. (b * Base + d) * c = (b * Base) * c + d * c /\ d * c \in Nat /\ (b * Base) * c \in Nat
      BY <2>2, <2>4, <3>1, Distributes, ProductTyped
    <3>3. b * (Base * c) = (b * Base) * c
      BY <1>1, <2>2, SMT
    <3> QED BY <3>1, <3>2, <3>3
  <2>6. b <= a
    <3>1. b * Base >= b
      BY <1>1, <2>2, SMT
    <3> QED BY <2>2, <2>4, <3>1
  <2>7. b * (Base * c) <= x /\ b <= x
    <3>1. b * (Base * c) \in Nat /\ a * c \in Nat
      BY <1>1, <2>2, ProductTyped
    <3> QED BY <2>2, <2>3, <2>5, <2>6, <3>1
  <2> QED BY <2>1, <2>2, <2>7 DEF b
<1> HIDE DEF S
<1>6. 0..Word \subseteq S
  BY <1>1, <1>4, <1>5, UpTo
<1>7. \A n \in 0..Word : q[n] * p[n] <= x /\ q[n] <= x
  BY <1>6 DEF S
<1>8. \A n \in 0..Word : q[n] < p[Word]
  BY <1>1, <1>2, <1>3, <1>7
<1>9. q[Word] = 0
  <2> SUFFICES ASSUME q[Word] # 0 PROVE FALSE
    OBVIOUS
  <2> DEFINE a == q[Word]
             c == p[Word]
  <2>1. a \in Nat /\ c \in Nat /\ a * c <= x
    BY <1>1, <1>2, <1>3, <1>7
  <2>2. a >= 1 /\ x < c
    BY <2>1
  <2> HIDE DEF a, c
  <2>3. a * c >= c
    BY <2>1, <2>2, SMT
  <2> QED BY <2>1, <2>2, <2>3
<1> QED BY <1>8, <1>9 DEF q

\* The loop of decode over the bytes of an integer.
LEMMA UnsignedDefined ==
  ASSUME NEW bytes \in Seq(Byte), Power[Word] \in Nat \ {0}
  PROVE  \E acc : /\ acc[0] = 0
                  /\ \A i \in 1..Len(bytes) : acc[i] = (acc[i - 1] * Base + bytes[i]) % Power[Word]
                  /\ Unsigned(bytes) = acc[Len(bytes)]
<1> DEFINE N == Len(bytes)
           W == Power[Word]
           step == [i \in 1..N |-> [y \in Nat |-> (y * Base + bytes[i]) % W]]
<1>1. N \in Nat /\ Base \in Nat /\ W \in Nat \ {0}
  BY BaseTyped
<1>2. \A i \in 1..N : bytes[i] \in Nat
  <2> SUFFICES ASSUME NEW i \in 1..Len(bytes) PROVE bytes[i] \in Nat
    BY DEF N
  <2>1. bytes[i] \in Byte
    OBVIOUS
  <2> QED BY <2>1, BaseTyped
<1> HIDE DEF N, W
<1>3. step \in [1..N -> [Nat -> Nat]]
  <2> SUFFICES ASSUME NEW i \in 1..N, NEW y \in Nat PROVE (y * Base + bytes[i]) % W \in Nat
    OBVIOUS
  <2>1. y * Base \in Nat /\ bytes[i] \in Nat
    BY <1>1, <1>2, ProductTyped
  <2>2. y * Base + bytes[i] \in Nat
    BY <2>1
  <2> QED BY <1>1, <2>2
<1>4. \E f \in [0..N -> Nat] : f[0] = 0 /\ \A i \in 1..N : f[i] = step[i][f[i - 1]]
  <2> DEFINE base == 0
  <2>1. base \in Nat
    OBVIOUS
  <2> HIDE DEF step, base
  <2>2. N \in Nat
    BY <1>1
  <2>3. \E f \in [0..N -> Nat] : f[0] = base /\ \A n \in 1..N : f[n] = step[n][f[n - 1]]
    BY <1>3, <2>1, <2>2, Iterated, Zenon
  <2> QED BY <2>3 DEF base
<1>5. PICK f \in [0..N -> Nat] : f[0] = 0 /\ \A i \in 1..N : f[i] = step[i][f[i - 1]]
  BY <1>4
<1>6. \A i \in 1..N : step[i][f[i - 1]] = (f[i - 1] * Base + bytes[i]) % W
  BY <1>1
<1> HIDE DEF step
<1> DEFINE Follows(g) == g = [i \in 0..N |-> IF i = 0 THEN 0 ELSE (g[i - 1] * Base + bytes[i]) % W]
<1>7. Follows(f)
  <2>1. \A i \in 0..N : i # 0 => i \in 1..N
    BY <1>1
  <2> QED BY <1>5, <1>6, <2>1
<1> DEFINE acc == CHOOSE g : Follows(g)
<1>8. Follows(acc)
  BY <1>7, Zenon
<1>9. Unsigned(bytes) = acc[N]
  BY Zenon DEF Unsigned, N, W
<1> HIDE DEF acc
<1>10. acc[0] = 0 /\ \A i \in 1..N : acc[i] = (acc[i - 1] * Base + bytes[i]) % W
  <2>1. \A i \in 0..N : acc[i] = IF i = 0 THEN 0 ELSE (acc[i - 1] * Base + bytes[i]) % W
    BY <1>8, Zenon
  <2>2. 0 \in 0..N /\ \A i \in 1..N : i \in 0..N /\ i # 0
    BY <1>1
  <2> QED BY <2>1, <2>2, Zenon
<1> QED BY <1>9, <1>10, Zenon DEF N, W

\* An integer is written in one byte at least and a word at most, and read back.
LEMMA MinimalFacts ==
  ASSUME NEW x \in Nat, x < Power[Word]
  PROVE  /\ Minimal(x) \in Seq(Byte)
         /\ Len(Minimal(x)) \in 1..Word
         /\ Unsigned(Minimal(x)) = x
<1> DEFINE q == Turns(x)
           W == Power[Word]
           Last(n) == (q[n] = 0 \/ n = Word) /\ \A k \in 1..(n - 1) : q[k] # 0
           n == CHOOSE n \in 1..Word : Last(n)
           bytes == [i \in 1..n |-> q[n - i] % Base]
<1>1. Word \in Nat \ {0} /\ Base \in Nat /\ Base > 2
  BY BusAssumption, BaseTyped
<1>2. /\ q \in [0..Word -> Nat] /\ q[0] = x
      /\ \A j \in 1..Word : q[j] = q[j - 1] \div Base
  BY TurnsDefined
<1>3. q[Word] = 0 /\ \A j \in 0..Word : q[j] < W
  BY TurnsEnd
<1>4. W \in Nat \ {0}
  <2>1. W \in Nat
    BY <1>1, PowerDefined
  <2> QED BY <2>1
<1>5. Minimal(x) = bytes
  BY Zenon DEF Minimal
<1> HIDE DEF q, W
<1>6. \E j \in 1..Word : Last(j)
  <2> DEFINE T == {j \in 1..Word : q[j] = 0 \/ j = Word}
  <2>1. T \in SUBSET Nat /\ T # {}
    BY <1>1
  <2>2. PICK j \in T : \A k \in T : j <= k
    BY <2>1, LeastOf
  <2>3. \A k \in 1..(j - 1) : k \in 1..Word /\ ~(j <= k)
    BY <1>1, <2>2
  <2>4. \A k \in 1..(j - 1) : q[k] # 0
    BY <2>2, <2>3
  <2> QED BY <2>2, <2>4
<1>7. n \in 1..Word /\ Last(n)
  BY <1>6, Zenon
<1> HIDE DEF n
<1>8. q[n] = 0 /\ n \in Nat /\ n <= Word /\ 1 <= n
  BY <1>1, <1>3, <1>7
<1>9. \A i \in 1..n : n - i \in 0..Word /\ (n - i) + 1 \in 1..Word /\ ((n - i) + 1) - 1 = n - i
  BY <1>1, <1>8
<1>10. \A i \in 1..n : bytes[i] = q[n - i] % Base /\ bytes[i] \in Byte
  <2> SUFFICES ASSUME NEW i \in 1..n PROVE bytes[i] = q[n - i] % Base /\ bytes[i] \in Byte
    OBVIOUS
  <2>1. q[n - i] \in Nat
    BY <1>2, <1>9
  <2>2. q[n - i] % Base \in Byte
    BY <2>1, LastByte
  <2> QED BY <2>2
<1>11. bytes \in Seq(Byte) /\ Len(bytes) = n
  <2>1. bytes \in [1..n -> Byte]
    BY <1>10
  <2>2. bytes \in Seq(Byte)
    BY <1>8, <2>1
  <2>3. Len(bytes) = n
    BY <1>8, <2>1
  <2> QED BY <2>2, <2>3
<1> HIDE DEF bytes
<1>12. PICK acc : /\ acc[0] = 0
                  /\ \A i \in 1..n : acc[i] = (acc[i - 1] * Base + bytes[i]) % W
                  /\ Unsigned(bytes) = acc[n]
  BY <1>4, <1>11, UnsignedDefined DEF W
<1> DEFINE S == {i \in 0..n : acc[i] = q[n - i]}
<1>13. 0 \in S
  BY <1>8, <1>12
<1>14. ASSUME NEW i \in 0..(n - 1), i \in S PROVE i + 1 \in S
  <2> DEFINE k == n - (i + 1)
  <2>1. i + 1 \in 1..n /\ (i + 1) - 1 = i /\ k \in 0..Word /\ n - i \in 1..Word /\ (n - i) - 1 = k
    BY <1>1, <1>8
  <2>2. acc[i] = q[n - i] /\ q[n - i] = q[k] \div Base
    BY <1>2, <1>14, <2>1
  <2>3. acc[i + 1] = (acc[i] * Base + (q[k] % Base)) % W
    BY <1>10, <1>12, <2>1
  <2>4. (q[k] \div Base) * Base + (q[k] % Base) = q[k]
    BY <1>2, <2>1, LastByte
  <2>5. acc[i + 1] = q[k] % W
    BY <2>2, <2>3, <2>4, Zenon
  <2>6. q[k] % W = q[k]
    <3> DEFINE a == q[k]
    <3>1. a \in Nat /\ a < W
      BY <1>2, <1>3, <2>1
    <3> HIDE DEF a
    <3>2. a % W = a
      BY <1>4, <3>1, SMT
    <3> QED BY <3>2 DEF a
  <2> QED BY <2>1, <2>5, <2>6
<1> HIDE DEF S
<1>15. 0..n \subseteq S
  BY <1>8, <1>13, <1>14, UpTo
<1>16. acc[n] = q[n - n] /\ n - n = 0
  BY <1>8, <1>15 DEF S
<1> QED BY <1>2, <1>5, <1>7, <1>11, <1>12, <1>16

-------------------------------------------------------------------------------
(* Encoding: what encode writes, and where.                                    *)

LEMMA Joined ==
  ASSUME NEW s \in Seq(Byte), NEW t \in Seq(Byte)
  PROVE  /\ s \o t \in Seq(Byte) /\ Len(s \o t) = Len(s) + Len(t)
         /\ \A i \in 1..Len(s) : (s \o t)[i] = s[i]
         /\ \A i \in 1..Len(t) : (s \o t)[Len(s) + i] = t[i]
  OBVIOUS

\* A value is written as its tag, the length of its bytes, and these.
LEMMA ValueWritten ==
  ASSUME NEW v \in Values, v.type # UInt => Len(v.bin) < Limit24
  PROVE  LET p == Payload(v)
             e == EncodedValue(v)
         IN  /\ p \in Seq(Byte) /\ Len(p) < Limit24
             /\ v.type = UInt => Unsigned(p) = v.u
             /\ e \in Seq(Byte) /\ Len(e) = 4 + Len(p)
             /\ e[1] = v.type /\ rd_be24(e[2], e[3], e[4]) = Len(p)
             /\ \A i \in 1..Len(p) : e[4 + i] = p[i]
<1> DEFINE p == Payload(v)
           w == wr_be24(Len(p))
           a == <<v.type>> \o w
           e == a \o p
<1>1. v.type \in Byte /\ v.bin \in Seq(Byte) /\ v.u \in Nat /\ v.u < Power[Word]
  <2>1. Power[Word] \in Nat
    BY BusAssumption, PowerDefined
  <2>2. v.type \in {Binary, String, UInt} /\ v.bin \in Seq(Byte) /\ v.u \in 0..(Power[Word] - 1)
    BY DEF Values
  <2>3. v.type \in Byte
    BY <2>2, BaseTyped DEF Binary, String, UInt, Byte
  <2> QED BY <2>1, <2>2, <2>3
<1>2. p \in Seq(Byte) /\ Len(p) < Limit24 /\ (v.type = UInt => Unsigned(p) = v.u)
  <2>1. CASE v.type = UInt
    <3>1. p = Minimal(v.u)
      BY <2>1 DEF Payload
    <3>2. p \in Seq(Byte) /\ Len(p) \in 1..Word /\ Unsigned(p) = v.u
      BY <1>1, <3>1, MinimalFacts
    <3> HIDE DEF p
    <3>3. Len(p) < Limit24
      BY <3>2, BusAssumption, LimitsTyped
    <3> QED BY <3>2, <3>3
  <2>2. CASE v.type # UInt
    BY <1>1, <2>2 DEF Payload
  <2> QED BY <2>1, <2>2
<1>3. e = EncodedValue(v)
  BY DEF EncodedValue
<1> HIDE DEF p
<1>4. /\ w \in Seq(Byte) /\ Len(w) = 3
      /\ rd_be24(w[1], w[2], w[3]) = Len(p)
  BY <1>2, Write24
<1> HIDE DEF w
<1>5. <<v.type>> \in Seq(Byte) /\ Len(<<v.type>>) = 1
  BY <1>1
<1>6. /\ a \in Seq(Byte) /\ Len(a) = 4
      /\ a[1] = v.type /\ a[2] = w[1] /\ a[3] = w[2] /\ a[4] = w[3]
  <2> DEFINE tag == <<v.type>>
  <2>1. tag \in Seq(Byte) /\ Len(tag) = 1 /\ tag[1] = v.type
    BY <1>5
  <2> HIDE DEF tag
  <2>2. a = tag \o w
    BY DEF tag
  <2> HIDE DEF a
  <2>3. /\ a \in Seq(Byte) /\ Len(a) = Len(tag) + Len(w)
        /\ \A i \in 1..Len(tag) : a[i] = tag[i]
        /\ \A i \in 1..Len(w) : a[Len(tag) + i] = w[i]
    BY <1>4, <2>1, <2>2, Joined, Zenon
  <2>4. a[1] = tag[1] /\ a[1 + 1] = w[1] /\ a[1 + 2] = w[2] /\ a[1 + 3] = w[3]
    BY <1>4, <2>1, <2>3
  <2> QED BY <1>4, <2>1, <2>3, <2>4
<1> HIDE DEF a
<1>7. /\ e \in Seq(Byte) /\ Len(e) = 4 + Len(p)
      /\ e[1] = a[1] /\ e[2] = a[2] /\ e[3] = a[3] /\ e[4] = a[4]
      /\ \A i \in 1..Len(p) : e[4 + i] = p[i]
  <2>1. /\ e \in Seq(Byte) /\ Len(e) = Len(a) + Len(p)
        /\ \A i \in 1..Len(a) : e[i] = a[i]
        /\ \A i \in 1..Len(p) : e[Len(a) + i] = p[i]
    BY <1>2, <1>6, Joined, Zenon
  <2>2. 1 \in 1..4 /\ 2 \in 1..4 /\ 3 \in 1..4 /\ 4 \in 1..4
    OBVIOUS
  <2> HIDE DEF e
  <2> QED BY <1>6, <2>1, <2>2
<1> HIDE DEF e
<1>8. e[1] = v.type /\ rd_be24(e[2], e[3], e[4]) = Len(p)
  BY <1>4, <1>6, <1>7, Zenon
<1> QED BY <1>2, <1>3, <1>7, <1>8, Zenon DEF p

\* Where the tag of a value is in its entry: behind the key, if there is one.
KeyBytes(k) == IF m.options = 0 THEN 1 + Len(k) ELSE 0

\* What the messages are known to be.
LEMMA ArgsTyped ==
  ASSUME m \in Messages, NEW k \in DOMAIN Args
  PROVE  Args[k] \in Values /\ (m.options = 0 => k \in Seq(Byte))
<1>1. IsMessage(m)
  BY BusAssumption
<1>2. CASE m.options = 0
  BY <1>1, <1>2 DEF Args, IsMessage
<1>3. CASE m.options # 0
  <2>1. m.args_array \in Seq(Values) /\ k \in DOMAIN m.args_array
    BY <1>1, <1>3 DEF Args, IsMessage
  <2>2. m.args_array[k] \in Values
    BY <2>1
  <2> QED BY <1>3, <2>2 DEF Args
<1> QED BY <1>2, <1>3

\* An entry is written as its key, if it has one, and its value.
LEMMA EntryWritten ==
  ASSUME m \in Messages, NEW k \in DOMAIN Args, ~TooLong(k)
  PROVE  LET v == Args[k]
             h == KeyBytes(k)
             e == EncodedEntry(k)
         IN  /\ v \in Values /\ (v.type # UInt => Len(v.bin) < Limit24)
             /\ h \in Nat /\ e \in Seq(Byte) /\ Len(e) = h + Len(EncodedValue(v))
             /\ m.options = 0 => /\ k \in Seq(Byte) /\ e[1] = Len(k)
                                 /\ \A i \in 1..Len(k) : e[1 + i] = k[i]
             /\ \A i \in 1..Len(EncodedValue(v)) : e[h + i] = EncodedValue(v)[i]
<1> DEFINE v == Args[k]
           h == KeyBytes(k)
           e == EncodedEntry(k)
           w == EncodedValue(v)
<1>1. v \in Values /\ (m.options = 0 => k \in Seq(Byte))
  BY ArgsTyped
<1>2. v.type # UInt => Len(v.bin) < Limit24
  <2>1. v.type # UInt => ~(Len(v.bin) >= Limit24)
    BY DEF TooLong
  <2>2. Len(v.bin) \in Nat
    BY <1>1 DEF Values
  <2> QED BY <2>1, <2>2, LimitsTyped
<1>3. w \in Seq(Byte)
  BY <1>1, <1>2, ValueWritten
<1>4. CASE m.options = 0
  <2>1. k \in Seq(Byte) /\ Len(k) \in Byte
    <3>1. k \in Seq(Byte) /\ ~(Len(k) >= Base)
      BY <1>1, <1>4 DEF TooLong
    <3> QED BY <3>1, BaseTyped DEF Byte
  <2> DEFINE a == <<Len(k)>> \o k
  <2>2. e = a \o w /\ h = 1 + Len(k)
    BY <1>4 DEF EncodedEntry, KeyBytes
  <2> HIDE DEF e, w, h, v
  <2>3. /\ a \in Seq(Byte) /\ Len(a) = 1 + Len(k)
        /\ a[1] = Len(k) /\ \A i \in 1..Len(k) : a[1 + i] = k[i]
    <3>1. <<Len(k)>> \in Seq(Byte) /\ Len(<<Len(k)>>) = 1 /\ <<Len(k)>>[1] = Len(k)
      BY <2>1
    <3> QED BY <2>1, <3>1, Joined
  <2> HIDE DEF a
  <2>4. /\ e \in Seq(Byte) /\ Len(e) = Len(a) + Len(w)
        /\ \A i \in 1..Len(a) : e[i] = a[i]
        /\ \A i \in 1..Len(w) : e[Len(a) + i] = w[i]
    BY <1>3, <2>2, <2>3, Joined
  <2>5. e[1] = Len(k) /\ \A i \in 1..Len(k) : e[1 + i] = k[i]
    <3>1. 1 \in 1..Len(a) /\ \A i \in 1..Len(k) : 1 + i \in 1..Len(a)
      BY <2>1, <2>3
    <3> QED BY <2>3, <2>4, <3>1
  <2>6. h \in Nat /\ h = Len(a) /\ Len(e) = h + Len(w)
    BY <2>1, <2>2, <2>3, <2>4
  <2> QED BY <1>1, <1>2, <2>1, <2>4, <2>5, <2>6 DEF v, h, e, w
<1>5. CASE m.options # 0
  <2>1. e = w /\ h = 0
    BY <1>5 DEF EncodedEntry, KeyBytes
  <2> HIDE DEF e, w, h, v
  <2>2. h \in Nat /\ Len(e) = h + Len(w) /\ \A i \in 1..Len(w) : e[h + i] = w[i]
    BY <1>3, <2>1
  <2> QED BY <1>1, <1>2, <1>3, <1>5, <2>1, <2>2 DEF v, h, e, w
<1> QED BY <1>4, <1>5

-------------------------------------------------------------------------------
(* Decoding: what decode has come through is what the grammar asks for, and    *)
(* there is no other way to cut a frame.                                       *)

Encoding == {"given", "writing", "refused"}

\* How far decode has come: any way to cut the frame goes through off.
OnTheWay ==
  /\ Len(data) >= 6 /\ Size <= Len(data)
  /\ m_out.options = data[5] /\ data[5] \in {0, 1}
  /\ off \in Nat /\ 6 + data[6] <= off /\ off <= Size
  /\ \E cuts : CutsUp(cuts, data, off)
  /\ \A cuts : CutsUp(cuts, data, Size) => off \in cuts

DecodeInv ==
  /\ seen \in Nat /\ seen <= Len(data)
  /\ phase = "entries" => OnTheWay
  /\ phase = "done" => IsFrame(data) /\ off = Size
  /\ phase = "rejected" => ~IsFrame(data)

\* Within the buffer, the bytes are those of the buffer; behind it they are bytes.
LEMMA AtTyped ==
  ASSUME data \in Seq(Byte), NEW i \in Nat
  PROVE  At(i) \in Byte /\ (i < Len(data) => At(i) = data[i + 1])
  BY BaseTyped DEF At

LEMMA SizeTyped ==
  ASSUME data \in Seq(Byte)
  PROVE  Size \in Nat
  BY AtTyped, ReadTyped DEF Size

\* The entry at off, if there is one, is the one the grammar sees there.
LEMMA EntryFits ==
  ASSUME data \in Seq(Byte), OnTheWay, off < Size
  PROVE  /\ Tag \in Nat /\ After(Tag) \in Nat /\ off <= Tag /\ Tag + 4 <= After(Tag)
         /\ Fits(Tag) => IsEntry(data[5], data, off, After(Tag))
         /\ \A j \in Nat : j <= Size /\ IsEntry(data[5], data, off, j)
                             => Fits(Tag) /\ j = After(Tag)
<1>1. off \in Nat /\ Size \in Nat /\ off < Len(data) /\ Size <= Len(data) /\ Len(data) \in Nat
  BY SizeTyped DEF OnTheWay
<1>2. At(off) = data[off + 1] /\ At(off) \in Nat
  BY <1>1, AtTyped, BaseTyped
<1> DEFINE t == Tag
<1>3. t = IF data[5] = 0 THEN off + 1 + data[off + 1] ELSE off
  BY <1>2, Zenon DEF Tag, OnTheWay
<1>4. t \in Nat /\ off <= t
  BY <1>1, <1>2, <1>3
<1> HIDE DEF t
<1>5. ValueLen(t) \in Nat
  <2>1. At(t) \in Byte /\ At(t + 1) \in Byte /\ At(t + 2) \in Byte /\ At(t + 3) \in Byte
    BY <1>4, AtTyped
  <2> QED BY <2>1, ReadTyped, Zenon DEF ValueLen
<1>6. ASSUME t + 4 <= Size
      PROVE  ValueLen(t) = rd_be24(data[t + 2], data[t + 3], data[t + 4])
  <2>1. At(t + 1) = data[(t + 1) + 1] /\ At(t + 2) = data[(t + 2) + 1] /\ At(t + 3) = data[(t + 3) + 1]
    BY <1>1, <1>4, <1>6, AtTyped
  <2>2. (t + 1) + 1 = t + 2 /\ (t + 2) + 1 = t + 3 /\ (t + 3) + 1 = t + 4
    BY <1>4
  <2> QED BY <2>1, <2>2, Zenon DEF ValueLen
<1>7. After(t) = t + 4 + ValueLen(t)
  BY DEF After
<1>8. \A j : IsEntry(data[5], data, off, j) <=>
               t + 4 <= j /\ j = t + 4 + rd_be24(data[t + 2], data[t + 3], data[t + 4])
  BY <1>3, Zenon DEF IsEntry
<1>9. Fits(t) => IsEntry(data[5], data, off, After(t))
  <2> SUFFICES ASSUME Fits(t) PROVE IsEntry(data[5], data, off, After(t))
    OBVIOUS
  <2>1. t + 4 <= Size /\ t + 4 <= After(t)
    BY <1>4, <1>5, <1>7 DEF Fits
  <2>2. After(t) = t + 4 + rd_be24(data[t + 2], data[t + 3], data[t + 4])
    BY <1>6, <1>7, <2>1, Zenon
  <2> QED BY <1>8, <2>1, <2>2, Zenon
<1>10. ASSUME NEW j \in Nat, j <= Size, IsEntry(data[5], data, off, j)
       PROVE  Fits(t) /\ j = After(t)
  <2>1. t + 4 <= j /\ j = t + 4 + rd_be24(data[t + 2], data[t + 3], data[t + 4])
    BY <1>8, <1>10, Zenon
  <2>2. t + 4 <= Size
    BY <1>1, <1>4, <1>10, <2>1
  <2>3. j = After(t)
    BY <1>6, <1>7, <2>1, <2>2, Zenon
  <2> QED BY <1>10, <2>2, <2>3 DEF Fits
<1>11. t + 4 <= After(t) /\ After(t) \in Nat
  BY <1>4, <1>5, <1>7
<1> QED BY <1>4, <1>9, <1>10, <1>11 DEF t


-------------------------------------------------------------------------------
(* What encode has written: the header's bytes, and the entries end to end.    *)

\* Entry j of the order is written behind the offset starts[j].
LaidOut(starts) ==
  /\ starts \in [1..(Len(order) + 1) -> Nat]
  /\ starts[1] = 6 + Len(m.messageID)
  /\ starts[Len(order) + 1] = Len(out)
  /\ \A j \in 1..Len(order) :
       /\ starts[j] >= 6
       /\ starts[j + 1] = starts[j] + Len(EncodedEntry(order[j]))
       /\ starts[j + 1] <= Len(out)
       /\ \A i \in 1..Len(EncodedEntry(order[j])) : out[starts[j] + i] = EncodedEntry(order[j])[i]

HeadWritten ==
  /\ m.options \in {0, 1} /\ Len(m.messageID) < Base
  /\ out \in Seq(Byte) /\ 6 + Len(m.messageID) <= Len(out)
  /\ out[5] = m.options /\ out[6] = Len(m.messageID)
  /\ \A i \in 1..Len(m.messageID) : out[6 + i] = m.messageID[i]

InOrder ==
  /\ order \in Seq(DOMAIN Args)
  /\ \A j \in 1..Len(order) : ~TooLong(order[j]) /\ (m.options = 1 => order[j] = j)

\* The frame that was written is at the start of the buffer, its length in its head.
Delivered ==
  /\ Upcoming = {}
  /\ Len(out) <= Len(data)
  /\ \A i \in 1..Len(out) : data[i] = out[i]
  /\ Len(out) < Limit32 => rd_be32(out[1], out[2], out[3], out[4]) = Len(out)

WrittenInv ==
  /\ phase = "given" => m \in Messages /\ out = <<>> /\ order = <<>>
  /\ phase = "writing" => out # <<>>
  /\ phase # "refused" /\ out # <<>> =>
       m \in Messages /\ HeadWritten /\ InOrder /\ \E starts : LaidOut(starts)
  /\ phase \notin Encoding /\ out # <<>> => Delivered
  /\ phase \in Encoding => data = <<>>
  /\ data \in Seq(Byte)

LEMMA MessagesTyped ==
  ASSUME m \in Messages
  PROVE  /\ m.messageID \in Seq(Byte)
         /\ m.options = 1 => DOMAIN Args = 1..Len(m.args_array)
         /\ m.args_array \in Seq(Values)
<1>1. IsMessage(m)
  BY BusAssumption
<1>2. m.messageID \in Seq(Byte) /\ m.args_array \in Seq(Values)
  BY <1>1 DEF IsMessage
<1>3. m.options = 1 => Args = m.args_array
  BY DEF Args
<1> QED BY <1>2, <1>3

LEMMA WrittenInit == CodecInit => WrittenInv
<1> SUFFICES ASSUME CodecInit PROVE WrittenInv
  OBVIOUS
<1>1. \A b \in Garbage : b \in Seq(Byte)
  BY BusAssumption, Zenon
<1>2. <<>> \in Seq(Byte)
  OBVIOUS
<1>3. data \in Seq(Byte)
  BY <1>1, <1>2, Zenon DEF CodecInit
<1> QED BY <1>3 DEF CodecInit, WrittenInv, Encoding

LEMMA HeadStep ==
  ASSUME WrittenInv, EncodeHead
  PROVE  WrittenInv'
<1> USE DEF EncodeHead
<1>1. CASE phase' = "refused" /\ UNCHANGED out
  BY <1>1 DEF WrittenInv, Encoding
<1>2. CASE /\ Len(m.messageID) < Base /\ m.options \in {0, 1}
           /\ out' = <<0, 0, 0, 0, m.options, Len(m.messageID)>> \o m.messageID
           /\ phase' = "writing"
  <2> DEFINE head == <<0, 0, 0, 0, m.options, Len(m.messageID)>>
  <2>1. m \in Messages /\ order = <<>> /\ data = <<>> /\ m.messageID \in Seq(Byte)
    BY MessagesTyped DEF WrittenInv, Encoding
  <2>2. /\ head \in Seq(Byte) /\ Len(head) = 6
        /\ head[5] = m.options /\ head[6] = Len(m.messageID)
    <3>1. 0 \in Byte /\ m.options \in Byte /\ Len(m.messageID) \in Byte
      BY <1>2, <2>1, BaseTyped DEF Byte
    <3> QED BY <3>1
  <2> DEFINE o == head \o m.messageID
  <2>3. out' = o
    BY <1>2
  <2> HIDE DEF head
  <2>4. /\ o \in Seq(Byte) /\ Len(o) = Len(head) + Len(m.messageID)
        /\ \A i \in 1..Len(head) : o[i] = head[i]
        /\ \A i \in 1..Len(m.messageID) : o[Len(head) + i] = m.messageID[i]
    BY <2>1, <2>2, Joined, Zenon
  <2> HIDE DEF o
  <2>5. /\ Len(o) = 6 + Len(m.messageID) /\ o[5] = m.options /\ o[6] = Len(m.messageID)
        /\ \A i \in 1..Len(m.messageID) : o[6 + i] = m.messageID[i]
    BY <2>2, <2>4
  <2>6. m' = m /\ order' = <<>> /\ data' = <<>>
    BY <2>1
  <2>7. HeadWritten'
    BY <1>2, <2>1, <2>3, <2>4, <2>5, <2>6 DEF HeadWritten
  <2>8. InOrder'
    BY <2>6 DEF InOrder
  <2>9. LaidOut([j \in 1..1 |-> 6 + Len(m.messageID)])'
    BY <2>1, <2>3, <2>5, <2>6 DEF LaidOut
  <2>10. out' # <<>>
    BY <2>1, <2>3, <2>5
  <2> QED BY <1>2, <2>1, <2>6, <2>7, <2>8, <2>9, <2>10 DEF WrittenInv, Encoding
<1> QED BY <1>1, <1>2

LEMMA SameMessage ==
  ASSUME m' = m
  PROVE  /\ Args' = Args
         /\ \A k : EncodedEntry(k)' = EncodedEntry(k) /\ TooLong(k)' = TooLong(k)
  BY DEF EncodedEntry, Args, TooLong

LEMMA EntryLength ==
  ASSUME m \in Messages, NEW k \in DOMAIN Args, ~TooLong(k)
  PROVE  EncodedEntry(k) \in Seq(Byte) /\ Len(EncodedEntry(k)) >= 4
<1> DEFINE e == EncodedEntry(k)
<1>1. /\ Args[k] \in Values /\ (Args[k].type # UInt => Len(Args[k].bin) < Limit24)
      /\ KeyBytes(k) \in Nat /\ e \in Seq(Byte) /\ Len(e) = KeyBytes(k) + Len(EncodedValue(Args[k]))
  BY EntryWritten
<1>2. Payload(Args[k]) \in Seq(Byte) /\ Len(EncodedValue(Args[k])) = 4 + Len(Payload(Args[k]))
  BY <1>1, ValueWritten
<1> HIDE DEF e
<1>3. e \in Seq(Byte) /\ Len(e) >= 4
  BY <1>1, <1>2
<1> QED BY <1>3 DEF e

LEMMA EntryStep ==
  ASSUME WrittenInv, EncodeEntry
  PROVE  WrittenInv'
<1>1. /\ phase = "writing" /\ m \in Messages /\ HeadWritten /\ InOrder /\ data = <<>> /\ out # <<>>
      /\ m' = m /\ data' = data
  BY DEF WrittenInv, EncodeEntry, Encoding
<1>2. CASE phase' = "refused"
  BY <1>1, <1>2 DEF WrittenInv, Encoding
<1>3. CASE phase' # "refused"
  <2>1. PICK k \in Upcoming :
          ~TooLong(k) /\ out' = out \o EncodedEntry(k) /\ order' = Append(order, k) /\ phase' = "writing"
    BY <1>1, <1>3 DEF EncodeEntry
  <2>2. k \in DOMAIN Args /\ (m.options = 1 => k = Len(order) + 1)
    BY DEF Upcoming
  <2> DEFINE e == EncodedEntry(k)
             n == Len(order)
             o == out \o e
             r == Append(order, k)
  <2>3. e \in Seq(Byte) /\ Len(e) >= 4
    BY <1>1, <2>1, <2>2, EntryLength
  <2>4. out \in Seq(Byte) /\ order \in Seq(DOMAIN Args) /\ n \in Nat
    BY <1>1 DEF HeadWritten, InOrder
  <2>5. out' = o /\ order' = r
    BY <2>1
  <2>6. Args' = Args /\ \A x : EncodedEntry(x)' = EncodedEntry(x) /\ TooLong(x)' = TooLong(x)
    BY <1>1, SameMessage
  <2>7. e = EncodedEntry(k) /\ n = Len(order)
    OBVIOUS
  <2> HIDE DEF e
  <2>8. /\ o \in Seq(Byte) /\ Len(o) = Len(out) + Len(e)
        /\ \A i \in 1..Len(out) : o[i] = out[i]
        /\ \A i \in 1..Len(e) : o[Len(out) + i] = e[i]
    BY <2>3, <2>4, Joined, Zenon
  <2>9. /\ r \in Seq(DOMAIN Args) /\ Len(r) = n + 1
        /\ \A j \in 1..n : r[j] = order[j]
        /\ r[n + 1] = k
    BY <2>2, <2>4
  <2> HIDE DEF n, o, r
  <2>10. HeadWritten'
    <3>1. /\ m.options \in {0, 1} /\ Len(m.messageID) < Base
          /\ 6 + Len(m.messageID) <= Len(out)
          /\ out[5] = m.options /\ out[6] = Len(m.messageID)
          /\ \A i \in 1..Len(m.messageID) : out[6 + i] = m.messageID[i]
      BY <1>1 DEF HeadWritten
    <3>2. m.messageID \in Seq(Byte)
      BY <1>1, MessagesTyped
    <3>3. Len(o) >= Len(out) /\ Len(out) \in Nat /\ Len(m.messageID) \in Nat
      BY <2>3, <2>4, <2>8, <3>2
    <3>4. 5 \in 1..Len(out) /\ 6 \in 1..Len(out) /\ \A i \in 1..Len(m.messageID) : 6 + i \in 1..Len(out)
      BY <3>1, <3>3
    <3>5. /\ o[5] = m.options /\ o[6] = Len(m.messageID)
          /\ \A i \in 1..Len(m.messageID) : o[6 + i] = m.messageID[i]
      BY <2>8, <3>1, <3>4
    <3>6. 6 + Len(m.messageID) <= Len(o)
      BY <2>8, <3>1, <3>3
    <3> QED BY <1>1, <2>5, <2>8, <3>1, <3>5, <3>6 DEF HeadWritten
  <2>11. InOrder'
    <3>1. \A j \in 1..(n + 1) : ~TooLong(r[j]) /\ (m.options = 1 => r[j] = j)
      <4> SUFFICES ASSUME NEW j \in 1..(n + 1) PROVE ~TooLong(r[j]) /\ (m.options = 1 => r[j] = j)
        OBVIOUS
      <4>1. CASE j \in 1..n
        BY <1>1, <2>7, <2>9, <4>1 DEF InOrder
      <4>2. CASE j = n + 1
        BY <2>1, <2>2, <2>7, <2>9, <4>2
      <4> QED BY <2>4, <4>1, <4>2
    <3> QED BY <1>1, <2>5, <2>6, <2>9, <3>1 DEF InOrder
  <2>12. PICK starts : LaidOut(starts)
    BY <1>1 DEF WrittenInv
  <2>13. \A j \in 1..n :
           /\ starts[j] >= 6
           /\ starts[j + 1] = starts[j] + Len(EncodedEntry(order[j]))
           /\ starts[j + 1] <= Len(out)
           /\ \A i \in 1..Len(EncodedEntry(order[j])) : out[starts[j] + i] = EncodedEntry(order[j])[i]
    BY <2>7, <2>12, Zenon DEF LaidOut
  <2>14. PICK next : next = [j \in 1..((n + 1) + 1) |-> IF j <= n + 1 THEN starts[j] ELSE Len(out) + Len(e)]
    OBVIOUS
  <2>15. LaidOut(next)'
    <3>1. starts \in [1..(n + 1) -> Nat] /\ starts[1] = 6 + Len(m.messageID) /\ starts[n + 1] = Len(out)
      BY <2>7, <2>12 DEF LaidOut
    <3>2. /\ next \in [1..((n + 1) + 1) -> Nat]
          /\ \A j \in 1..(n + 1) : next[j] = starts[j]
          /\ next[(n + 1) + 1] = Len(o)
      BY <2>3, <2>4, <2>8, <2>14, <3>1
    <3>3. Len(out) >= 6
      BY <1>1, MessagesTyped DEF HeadWritten
    <3>4. ASSUME NEW j \in 1..(n + 1)
          PROVE  /\ next[j] >= 6
                 /\ next[j + 1] = next[j] + Len(EncodedEntry(r[j]))
                 /\ next[j + 1] <= Len(o)
                 /\ \A i \in 1..Len(EncodedEntry(r[j])) : o[next[j] + i] = EncodedEntry(r[j])[i]
      <4>1. CASE j \in 1..n
        <5> DEFINE w == EncodedEntry(order[j])
        <5>1. /\ starts[j] >= 6 /\ starts[j + 1] = starts[j] + Len(w) /\ starts[j + 1] <= Len(out)
              /\ \A i \in 1..Len(w) : out[starts[j] + i] = w[i]
          BY <2>13, <4>1
        <5>2. order[j] \in DOMAIN Args /\ ~TooLong(order[j])
          BY <1>1, <2>4, <2>7, <4>1 DEF InOrder
        <5>3. w \in Seq(Byte)
          BY <1>1, <5>2, EntryLength
        <5>4. EncodedEntry(r[j]) = w
          BY <2>9, <4>1
        <5> HIDE DEF w
        <5>5. next[j] = starts[j] /\ next[j + 1] = starts[j + 1] /\ starts[j] \in Nat /\ starts[j + 1] \in Nat
          BY <2>4, <3>1, <3>2, <4>1
        <5>6. next[j + 1] <= Len(o)
          BY <2>3, <2>4, <2>8, <5>1, <5>5
        <5>7. \A i \in 1..Len(w) : o[starts[j] + i] = w[i]
          <6> SUFFICES ASSUME NEW i \in 1..Len(w) PROVE o[starts[j] + i] = w[i]
            OBVIOUS
          <6>1. starts[j] + i \in 1..Len(out)
            BY <2>4, <5>1, <5>3, <5>5
          <6> QED BY <2>8, <5>1, <6>1
        <5> QED BY <5>1, <5>4, <5>5, <5>6, <5>7
      <4>2. CASE j = n + 1
        <5>1. next[j] = Len(out) /\ EncodedEntry(r[j]) = e /\ next[j + 1] = Len(o)
          BY <2>4, <2>7, <2>9, <3>1, <3>2, <4>2
        <5>2. Len(o) \in Nat /\ Len(o) <= Len(o)
          BY <2>8
        <5> QED BY <2>8, <3>3, <5>1, <5>2
      <4> QED BY <2>4, <4>1, <4>2
    <3>5. next[1] = 6 + Len(m.messageID)
      BY <2>4, <3>1, <3>2
    <3>6. /\ next \in [1..(Len(order') + 1) -> Nat]
          /\ next[1] = 6 + Len(m'.messageID) /\ next[Len(order') + 1] = Len(out')
      BY <1>1, <2>5, <2>9, <3>2, <3>5
    <3>7. \A j \in 1..Len(order') :
            /\ next[j] >= 6
            /\ next[j + 1] = next[j] + Len(EncodedEntry(order[j])')
            /\ next[j + 1] <= Len(out')
            /\ \A i \in 1..Len(EncodedEntry(order[j])') : out'[next[j] + i] = EncodedEntry(order[j])'[i]
      BY <2>5, <2>6, <2>9, <3>4
    <3> QED BY <3>6, <3>7, Zenon DEF LaidOut
  <2>16. out' # <<>>
    BY <2>3, <2>4, <2>5, <2>8
  <2> QED BY <1>1, <2>1, <2>10, <2>11, <2>15, <2>16 DEF WrittenInv, Encoding
<1> QED BY <1>2, <1>3

LEMMA LengthStep ==
  ASSUME WrittenInv, EncodeLength
  PROVE  WrittenInv'
<1>1. /\ phase = "writing" /\ m \in Messages /\ HeadWritten /\ InOrder /\ out # <<>> /\ Upcoming = {}
      /\ m' = m /\ order' = order /\ phase' = "header"
  BY DEF WrittenInv, EncodeLength
<1> DEFINE len == wr_be32(Len(out))
           o   == [out EXCEPT ![1] = len[1], ![2] = len[2], ![3] = len[3], ![4] = len[4]]
<1>2. PICK tail \in Tails : out' = o /\ data' = o \o tail
  BY DEF EncodeLength
<1>3. out \in Seq(Byte) /\ Len(out) \in Nat /\ Len(out) >= 6
  BY <1>1, MessagesTyped DEF HeadWritten
<1>4. /\ len[1] \in Byte /\ len[2] \in Byte /\ len[3] \in Byte /\ len[4] \in Byte
      /\ Len(out) < Limit32 => rd_be32(len[1], len[2], len[3], len[4]) = Len(out)
  BY <1>3, Write32
<1> HIDE DEF len
<1>5. /\ o \in Seq(Byte) /\ Len(o) = Len(out)
      /\ o[1] = len[1] /\ o[2] = len[2] /\ o[3] = len[3] /\ o[4] = len[4]
      /\ \A i \in 5..Len(out) : o[i] = out[i]
  BY <1>3, <1>4
<1> HIDE DEF o
<1>6. tail \in Seq(Byte)
  BY BusAssumption, Zenon
<1>7. /\ o \o tail \in Seq(Byte) /\ Len(o \o tail) = Len(o) + Len(tail)
      /\ \A i \in 1..Len(o) : (o \o tail)[i] = o[i]
  BY <1>5, <1>6, Joined
<1>8. HeadWritten'
  <2>1. /\ m.options \in {0, 1} /\ Len(m.messageID) < Base
        /\ 6 + Len(m.messageID) <= Len(out)
        /\ out[5] = m.options /\ out[6] = Len(m.messageID)
        /\ \A i \in 1..Len(m.messageID) : out[6 + i] = m.messageID[i]
    BY <1>1 DEF HeadWritten
  <2>2. m.messageID \in Seq(Byte)
    BY <1>1, MessagesTyped
  <2>3. 5 \in 5..Len(out) /\ 6 \in 5..Len(out) /\ \A i \in 1..Len(m.messageID) : 6 + i \in 5..Len(out)
    BY <1>3, <2>1, <2>2
  <2>4. /\ o[5] = m.options /\ o[6] = Len(m.messageID)
        /\ \A i \in 1..Len(m.messageID) : o[6 + i] = m.messageID[i]
    BY <1>5, <2>1, <2>3
  <2> QED BY <1>1, <1>2, <1>5, <2>1, <2>4 DEF HeadWritten
<1>9. /\ Args' = Args /\ \A x : EncodedEntry(x)' = EncodedEntry(x) /\ TooLong(x)' = TooLong(x)
  BY <1>1, SameMessage
<1>10. InOrder'
  <2>1. order \in Seq(DOMAIN Args) /\ \A j \in 1..Len(order) : ~TooLong(order[j]) /\ (m.options = 1 => order[j] = j)
    BY <1>1 DEF InOrder
  <2> QED BY <1>1, <1>9, <2>1 DEF InOrder
<1>11. PICK starts : LaidOut(starts)
  BY <1>1, Zenon DEF WrittenInv
<1>12. LaidOut(starts)'
  <2>1. /\ starts \in [1..(Len(order) + 1) -> Nat]
        /\ starts[1] = 6 + Len(m.messageID) /\ starts[Len(order) + 1] = Len(out)
    BY <1>11 DEF LaidOut
  <2>2. \A j \in 1..Len(order) :
          /\ starts[j] >= 6
          /\ starts[j + 1] = starts[j] + Len(EncodedEntry(order[j]))
          /\ starts[j + 1] <= Len(out)
          /\ \A i \in 1..Len(EncodedEntry(order[j])) : out[starts[j] + i] = EncodedEntry(order[j])[i]
    BY <1>11, Zenon DEF LaidOut
  <2>3. ASSUME NEW j \in 1..Len(order)
        PROVE  \A i \in 1..Len(EncodedEntry(order[j])) : o[starts[j] + i] = EncodedEntry(order[j])[i]
    <3> DEFINE w == EncodedEntry(order[j])
    <3>1. /\ starts[j] >= 6 /\ starts[j + 1] = starts[j] + Len(w) /\ starts[j + 1] <= Len(out)
          /\ \A i \in 1..Len(w) : out[starts[j] + i] = w[i]
      BY <2>2
    <3>2. order \in Seq(DOMAIN Args)
      BY <1>1 DEF InOrder
    <3>3. order[j] \in DOMAIN Args /\ ~TooLong(order[j])
      BY <1>1, <3>2 DEF InOrder
    <3>4. w \in Seq(Byte)
      BY <1>1, <3>3, EntryLength
    <3> HIDE DEF w
    <3>5. starts[j] \in Nat
      BY <2>1, <3>2
    <3> SUFFICES ASSUME NEW i \in 1..Len(w) PROVE o[starts[j] + i] = w[i]
      BY DEF w
    <3>6. starts[j] + i \in 5..Len(out)
      BY <1>3, <3>1, <3>4, <3>5
    <3> QED BY <1>5, <3>1, <3>6
  <2>4. /\ starts \in [1..(Len(order') + 1) -> Nat]
        /\ starts[1] = 6 + Len(m'.messageID) /\ starts[Len(order') + 1] = Len(out')
    BY <1>1, <1>2, <1>5, <2>1
  <2>5. \A j \in 1..Len(order') :
          /\ starts[j] >= 6
          /\ starts[j + 1] = starts[j] + Len(EncodedEntry(order[j])')
          /\ starts[j + 1] <= Len(out')
          /\ \A i \in 1..Len(EncodedEntry(order[j])') : out'[starts[j] + i] = EncodedEntry(order[j])'[i]
    BY <1>1, <1>2, <1>5, <1>9, <2>2, <2>3
  <2> QED BY <2>4, <2>5, Zenon DEF LaidOut
<1>13. Delivered'
  <2>1. Upcoming' = {}
    BY <1>1, <1>9 DEF Upcoming
  <2>2. Len(o) <= Len(o \o tail)
    BY <1>5, <1>6, <1>7
  <2>3. \A i \in 1..Len(o) : data'[i] = o[i]
    BY <1>2, <1>7
  <2>4. Len(o) < Limit32 => rd_be32(o[1], o[2], o[3], o[4]) = Len(o)
    BY <1>4, <1>5, Zenon
  <2> QED BY <1>2, <2>1, <2>2, <2>3, <2>4, Zenon DEF Delivered
<1>14. out' # <<>> /\ data' \in Seq(Byte)
  BY <1>2, <1>3, <1>5, <1>7
<1> QED BY <1>1, <1>8, <1>10, <1>12, <1>13, <1>14 DEF WrittenInv, Encoding

\* Decoding leaves what was written alone.
LEMMA DecodingKeepsWritten ==
  ASSUME WrittenInv, phase \notin Encoding, phase' \notin Encoding, UNCHANGED <<m, out, order, data>>
  PROVE  WrittenInv'
<1>1. /\ Args' = Args /\ \A x : EncodedEntry(x)' = EncodedEntry(x) /\ TooLong(x)' = TooLong(x)
  BY SameMessage
<1>2. CASE out = <<>>
  BY <1>2 DEF WrittenInv, Encoding
<1>3. CASE out # <<>>
  <2>1. m \in Messages /\ HeadWritten /\ InOrder /\ Delivered
    BY <1>3 DEF WrittenInv, Encoding
  <2>2. PICK starts : LaidOut(starts)
    BY <1>3 DEF WrittenInv, Encoding
  <2>3. HeadWritten'
    BY <2>1 DEF HeadWritten
  <2>4. InOrder'
    BY <1>1, <2>1 DEF InOrder
  <2>5. LaidOut(starts)'
    BY <1>1, <2>2 DEF LaidOut
  <2>6. Delivered'
    BY <1>1, <2>1 DEF Delivered, Upcoming
  <2> QED BY <1>3, <2>1, <2>3, <2>4, <2>5, <2>6 DEF WrittenInv, Encoding
<1> QED BY <1>2, <1>3

LEMMA WrittenStep ==
  ASSUME WrittenInv, [CodecNext]_codecVars
  PROVE  WrittenInv'
<1>1. CASE EncodeHead
  BY <1>1, HeadStep
<1>2. CASE EncodeEntry
  BY <1>2, EntryStep
<1>3. CASE EncodeLength
  BY <1>3, LengthStep
<1>4. CASE Header \/ Entry \/ Finish
  <2>1. phase \notin Encoding /\ phase' \notin Encoding /\ UNCHANGED <<m, out, order, data>>
    BY <1>4 DEF Header, Entry, Finish, Reject, Encoding
  <2> QED BY <2>1, DecodingKeepsWritten
<1>5. CASE UNCHANGED codecVars
  <2>1. UNCHANGED <<phase, m, out, order, data>>
    BY <1>5 DEF codecVars
  <2>2. CASE phase \notin Encoding
    BY <2>1, <2>2, DecodingKeepsWritten
  <2>3. CASE phase \in Encoding
    <3>1. /\ Args' = Args /\ \A x : EncodedEntry(x)' = EncodedEntry(x) /\ TooLong(x)' = TooLong(x)
      BY <2>1, SameMessage
    <3>2. HeadWritten => HeadWritten'
      BY <2>1 DEF HeadWritten
    <3>3. InOrder => InOrder'
      BY <2>1, <3>1 DEF InOrder
    <3>4. \A starts : LaidOut(starts) => LaidOut(starts)'
      BY <2>1, <3>1 DEF LaidOut
    <3> QED BY <2>1, <2>3, <3>2, <3>3, <3>4 DEF WrittenInv, Encoding
  <2> QED BY <2>2, <2>3
<1> QED BY <1>1, <1>2, <1>3, <1>4, <1>5 DEF CodecNext
\* Size and At read the header where the grammar has it.
LEMMA HeaderRead ==
  ASSUME data \in Seq(Byte), Len(data) >= 6
  PROVE  /\ Size = rd_be32(data[1], data[2], data[3], data[4])
         /\ At(4) = data[5] /\ At(5) = data[6] /\ data[6] \in Nat
<1>1. /\ At(0) = data[0 + 1] /\ At(1) = data[1 + 1] /\ At(2) = data[2 + 1]
      /\ At(3) = data[3 + 1] /\ At(4) = data[4 + 1] /\ At(5) = data[5 + 1]
  BY DEF At
<1>2. 0 + 1 = 1 /\ 1 + 1 = 2 /\ 2 + 1 = 3 /\ 3 + 1 = 4 /\ 4 + 1 = 5 /\ 5 + 1 = 6
  OBVIOUS
<1>3. data[6] \in Byte
  OBVIOUS
<1>4. /\ At(0) = data[1] /\ At(1) = data[2] /\ At(2) = data[3]
      /\ At(3) = data[4] /\ At(4) = data[5] /\ At(5) = data[6]
  BY <1>1, <1>2
<1> QED BY <1>3, <1>4, BaseTyped, Zenon DEF Size

\* The grammar of a frame, in decode's terms.
LEMMA FrameRead ==
  ASSUME data \in Seq(Byte)
  PROVE  IsFrame(data) <=>
           /\ Len(data) >= 6
           /\ Size <= Len(data) /\ 6 + At(5) <= Size /\ At(4) \in {0, 1}
           /\ \E cuts : CutsUp(cuts, data, Size)
<1>1. CASE ~(Len(data) >= 6)
  BY <1>1 DEF IsFrame
<1>2. CASE Len(data) >= 6
  <2>1. /\ Size = rd_be32(data[1], data[2], data[3], data[4])
        /\ At(4) = data[5] /\ At(5) = data[6]
    BY <1>2, HeaderRead
  <2>2. \A cuts : CutsUp(cuts, data, Size) => cuts \in SUBSET ((6 + data[6])..Size)
    BY Zenon DEF CutsUp
  <2> QED BY <1>2, <2>1, <2>2, Zenon DEF IsFrame
<1> QED BY <1>1, <1>2

LEMMA DecodeInit == CodecInit => DecodeInv
<1> SUFFICES ASSUME CodecInit PROVE DecodeInv
  OBVIOUS
<1>1. data \in Seq(Byte)
  BY WrittenInit DEF WrittenInv
<1>2. Len(data) \in Nat
  BY <1>1
<1> QED BY <1>2 DEF CodecInit, DecodeInv, Encoding

LEMMA EncodingStep ==
  ASSUME WrittenInv, WrittenInv', DecodeInv, EncodeHead \/ EncodeEntry \/ EncodeLength
  PROVE  DecodeInv'
<1>1. phase \in Encoding /\ data = <<>> /\ seen' = seen
  BY DEF EncodeHead, EncodeEntry, EncodeLength, Encoding, WrittenInv
<1>2. seen = 0
  BY <1>1 DEF DecodeInv
<1>3. data' \in Seq(Byte)
  BY DEF WrittenInv
<1>4. seen' \in Nat /\ seen' <= Len(data')
  BY <1>1, <1>2, <1>3
<1>5. phase' \in Encoding \/ phase' = "header"
  BY DEF EncodeHead, EncodeEntry, EncodeLength, Encoding
<1> QED BY <1>4, <1>5 DEF DecodeInv, Encoding

LEMMA HeaderStep ==
  ASSUME WrittenInv, DecodeInv, Header
  PROVE  DecodeInv'
<1>1. data \in Seq(Byte) /\ data' = data /\ seen \in Nat /\ seen <= Len(data) /\ Size' = Size
  BY DEF WrittenInv, DecodeInv, Header, Reject, Size, At
<1>2. Len(data) \in Nat /\ Size \in Nat
  BY <1>1, SizeTyped
<1>3. CASE Len(data) < 6 /\ Reject /\ UNCHANGED seen
  <2>1. ~IsFrame(data)
    BY <1>1, <1>2, <1>3, FrameRead
  <2> QED BY <1>1, <1>3, <2>1 DEF DecodeInv, Reject, Encoding
<1>4. CASE Len(data) >= 6 /\ Looked(6) /\ Reject
           /\ (Size > Len(data) \/ 6 + At(5) > Size \/ At(4) \notin {0, 1})
  <2>1. At(5) \in Nat
    BY <1>1, <1>4, HeaderRead
  <2>2. ~IsFrame(data)
    BY <1>1, <1>2, <1>4, <2>1, FrameRead
  <2>3. seen' \in Nat /\ seen' <= Len(data)
    BY <1>1, <1>2, <1>4 DEF Looked
  <2> QED BY <1>1, <1>4, <2>2, <2>3 DEF DecodeInv, Reject, Encoding
<1>5. CASE /\ Len(data) >= 6 /\ Looked(6)
           /\ Size <= Len(data) /\ 6 + At(5) <= Size /\ At(4) \in {0, 1}
           /\ m_out' = [Blank EXCEPT !.options = At(4), !.messageID = Bytes(6, At(5))]
           /\ off' = 6 + At(5)
           /\ phase' = "entries"
  <2>1. At(4) = data[5] /\ At(5) = data[6] /\ data[6] \in Nat
    BY <1>1, <1>5, HeaderRead
  <2>2. m_out'.options = data[5]
    BY <1>5, <2>1 DEF Blank
  <2>3. PICK o : o = 6 + data[6] /\ o \in Nat
    BY <2>1
  <2>4. off' = o
    BY <1>5, <2>1, <2>3
  <2>5. CutsUp({o}, data, o)
    BY <2>3 DEF CutsUp
  <2>6. \A cuts : CutsUp(cuts, data, Size) => o \in cuts
    BY <2>3, Zenon DEF CutsUp
  <2>7. o <= Size /\ o <= o
    BY <1>5, <2>1, <2>3
  <2>8. OnTheWay'
    BY <1>1, <1>5, <2>1, <2>2, <2>3, <2>4, <2>5, <2>6, <2>7, Zenon DEF OnTheWay
  <2>9. seen' \in Nat /\ seen' <= Len(data)
    BY <1>1, <1>2, <1>5 DEF Looked
  <2> QED BY <1>1, <1>5, <2>8, <2>9 DEF DecodeInv, Encoding
<1> QED BY <1>3, <1>4, <1>5, Zenon DEF Header

LEMMA EntryStepDecodes ==
  ASSUME WrittenInv, DecodeInv, Entry
  PROVE  DecodeInv'
<1>1. /\ data \in Seq(Byte) /\ data' = data /\ seen \in Nat /\ seen <= Len(data) /\ Size' = Size
      /\ OnTheWay /\ off < Size
  BY DEF WrittenInv, DecodeInv, Entry, Reject, Size, At
<1>2. /\ Len(data) \in Nat /\ Size \in Nat /\ off \in Nat /\ Size <= Len(data)
      /\ Len(data) >= 6 /\ At(4) = data[5] /\ At(5) = data[6] /\ data[6] \in Nat
  BY <1>1, SizeTyped, HeaderRead DEF OnTheWay
<1>3. /\ Tag \in Nat /\ After(Tag) \in Nat /\ off <= Tag /\ Tag + 4 <= After(Tag)
      /\ Fits(Tag) => IsEntry(data[5], data, off, After(Tag))
      /\ \A j \in Nat : j <= Size /\ IsEntry(data[5], data, off, j) => Fits(Tag) /\ j = After(Tag)
  BY <1>1, EntryFits
\* Every way to cut the frame goes on from off.
<1>4. ASSUME NEW cuts, CutsUp(cuts, data, Size)
      PROVE  Fits(Tag) /\ After(Tag) \in cuts
  <2>1. off \in cuts \ {Size}
    BY <1>1, <1>2, <1>4 DEF OnTheWay
  <2>2. PICK j \in cuts : IsEntry(data[5], data, off, j)
    BY <1>4, <2>1, Zenon DEF CutsUp
  <2>3. cuts \subseteq (6 + data[6])..Size
    BY <1>4, Zenon DEF CutsUp
  <2>4. j \in Nat /\ j <= Size
    BY <1>2, <2>3
  <2> QED BY <1>3, <2>2, <2>4
<1>5. CASE /\ ~Fits(Tag) /\ Reject
           /\ Looked(IF Tag + 4 <= Size THEN Tag + 4 ELSE Ahead)
  <2>1. ~IsFrame(data)
    BY <1>1, <1>4, <1>5, FrameRead
  <2>2. Ahead \in Nat /\ Ahead <= Size
    BY <1>1, <1>2 DEF Ahead
  <2>3. seen' \in Nat /\ seen' <= Len(data)
    BY <1>1, <1>2, <1>3, <1>5, <2>2 DEF Looked
  <2> QED BY <1>1, <1>5, <2>1, <2>3 DEF DecodeInv, Reject, Encoding
<1>6. CASE /\ Fits(Tag)
           /\ m_out' = IF m_out.options = 0
                       THEN [m_out EXCEPT !.args_map = Emplace(@, Bytes(off + 1, At(off)), Value(Tag))]
                       ELSE [m_out EXCEPT !.args_array = Append(@, Value(Tag))]
           /\ off' = After(Tag)
           /\ Looked(After(Tag))
           /\ phase' = phase
  <2> DEFINE next == After(Tag)
  <2>1. next <= Size
    BY <1>6 DEF Fits
  <2>2. m_out'.options = m_out.options
    BY <1>6
  <2>3. PICK cuts : CutsUp(cuts, data, off)
    BY <1>1 DEF OnTheWay
  <2>4. next \in Nat /\ off < next /\ 6 + data[6] <= off /\ IsEntry(data[5], data, off, next)
    BY <1>1, <1>2, <1>3, <1>6 DEF OnTheWay
  <2> HIDE DEF next
  <2>5. CutsUp(cuts \cup {next}, data, next)
    <3>1. cuts \subseteq (6 + data[6])..off /\ {6 + data[6], off} \subseteq cuts
      BY <2>3, Zenon DEF CutsUp
    <3>2. cuts \cup {next} \subseteq (6 + data[6])..next
      BY <1>2, <2>4, <3>1
    <3>3. ASSUME NEW i \in (cuts \cup {next}) \ {next}
          PROVE  \E j \in cuts \cup {next} : IsEntry(data[5], data, i, j)
      <4>1. CASE i = off
        BY <2>4, <4>1
      <4>2. CASE i # off
        <5>1. i \in cuts \ {off}
          BY <4>2
        <5> QED BY <2>3, <5>1, Zenon DEF CutsUp
      <4> QED BY <4>1, <4>2
    <3> QED BY <3>1, <3>2, <3>3, Zenon DEF CutsUp
  <2>6. \A c : CutsUp(c, data, Size) => next \in c
    BY <1>4 DEF next
  <2>7. PICK o : o = next
    OBVIOUS
  <2>8. off' = o /\ o \in Nat /\ 6 + data[6] <= o /\ o <= Size
    BY <1>2, <1>6, <2>1, <2>4, <2>7 DEF next
  <2>9. m_out.options = data[5] /\ data[5] \in {0, 1}
    BY <1>1 DEF OnTheWay
  <2>10. (\E c : CutsUp(c, data, o)) /\ \A c : CutsUp(c, data, Size) => o \in c
    BY <2>5, <2>6, <2>7, Zenon
  <2>11. OnTheWay'
    BY <1>1, <1>2, <2>2, <2>8, <2>9, <2>10, Zenon DEF OnTheWay
  <2>12. seen' \in Nat /\ seen' <= Len(data)
    BY <1>1, <1>2, <1>6, <2>1, <2>4 DEF Looked, next
  <2>13. phase' = "entries"
    BY <1>6 DEF Entry
  <2> QED BY <1>1, <2>11, <2>12, <2>13 DEF DecodeInv, Encoding
<1> QED BY <1>5, <1>6, Zenon DEF Entry

LEMMA FinishStep ==
  ASSUME WrittenInv, DecodeInv, Finish
  PROVE  DecodeInv'
<1>1. /\ data \in Seq(Byte) /\ UNCHANGED <<data, off, seen>> /\ seen \in Nat /\ seen <= Len(data)
      /\ Size' = Size /\ OnTheWay /\ off >= Size /\ phase' = "done"
  BY DEF WrittenInv, DecodeInv, Finish, Size, At
<1>2. off = Size
  BY <1>1, SizeTyped DEF OnTheWay
<1>3. At(4) = data[5] /\ At(5) = data[6] /\ data[6] \in Nat
  BY <1>1, HeaderRead DEF OnTheWay
<1>4. IsFrame(data)
  BY <1>1, <1>2, <1>3, FrameRead DEF OnTheWay
<1> QED BY <1>1, <1>2, <1>4 DEF DecodeInv, Encoding

LEMMA DecodeStep ==
  ASSUME WrittenInv, WrittenInv', DecodeInv, [CodecNext]_codecVars
  PROVE  DecodeInv'
<1>1. CASE UNCHANGED codecVars
  <2>1. UNCHANGED <<phase, data, off, m_out, seen>> /\ Size' = Size
    BY <1>1 DEF codecVars, Size, At
  <2>2. OnTheWay => OnTheWay'
    BY <2>1 DEF OnTheWay
  <2> QED BY <2>1, <2>2 DEF DecodeInv
<1> QED BY <1>1, EncodingStep, HeaderStep, EntryStepDecodes, FinishStep DEF CodecNext

\* What decode accepts is a frame, what it rejects is none, and it reads only the buffer.
THEOREM DecodesExactlyFrames == CodecSpec => []DecodesFramesOnly
<1>1. CodecInit => WrittenInv /\ DecodeInv
  BY WrittenInit, DecodeInit
<1>2. WrittenInv /\ DecodeInv /\ [CodecNext]_codecVars => (WrittenInv /\ DecodeInv)'
  BY WrittenStep, DecodeStep
<1>3. WrittenInv /\ DecodeInv => DecodesFramesOnly
  BY DEF DecodeInv, DecodesFramesOnly
<1> QED BY <1>1, <1>2, <1>3, PTL DEF CodecSpec

-------------------------------------------------------------------------------
(* There and back: what encode wrote is what decode reads, entry by entry.     *)

\* The message as far as its first n entries.
Decoded(n) ==
  [options    |-> m.options,
   messageID  |-> m.messageID,
   args_map   |-> [k \in IF m.options = 0 THEN {order[i] : i \in 1..n} ELSE {} |-> OnWire(Args[k])],
   args_array |-> [i \in 1..(IF m.options = 0 THEN 0 ELSE n) |-> OnWire(Args[i])]]

\* decode has come to the start of an entry, and has the entries before it.
ReadSoFar ==
  \E starts, j : /\ LaidOut(starts) /\ j \in 1..(Len(order) + 1)
                 /\ off = starts[j] /\ m_out = Decoded(j - 1)

CarriedInv ==
  out # <<>> /\ Len(out) < Limit32 =>
    /\ phase # "rejected"
    /\ phase = "entries" => ReadSoFar
    /\ phase = "done" => m_out = Framed(m) /\ off = Len(out)

LEMMA FrameDelivered ==
  ASSUME WrittenInv, phase \notin Encoding, out # <<>>, Len(out) < Limit32
  PROVE  /\ out \in Seq(Byte) /\ data \in Seq(Byte) /\ Len(out) >= 6
         /\ Len(data) >= Len(out) /\ Size = Len(out)
         /\ \A i \in Nat : i < Len(out) => At(i) = out[i + 1]
<1>1. m \in Messages /\ HeadWritten /\ Delivered /\ data \in Seq(Byte)
  BY DEF WrittenInv, Encoding
<1>2. m.messageID \in Seq(Byte)
  BY <1>1, MessagesTyped
<1>3. out \in Seq(Byte) /\ Len(out) \in Nat /\ Len(out) >= 6 /\ Len(data) \in Nat
  BY <1>1, <1>2 DEF HeadWritten
<1>4. /\ Len(out) <= Len(data) /\ (\A i \in 1..Len(out) : data[i] = out[i])
      /\ rd_be32(out[1], out[2], out[3], out[4]) = Len(out)
  BY <1>1 DEF Delivered
<1>5. Size = rd_be32(data[1], data[2], data[3], data[4])
  BY <1>1, <1>3, <1>4, HeaderRead
<1>6. data[1] = out[1] /\ data[2] = out[2] /\ data[3] = out[3] /\ data[4] = out[4]
  BY <1>3, <1>4
<1>7. Size = Len(out)
  BY <1>4, <1>5, <1>6, Zenon
<1>8. \A i \in Nat : i < Len(out) => At(i) = out[i + 1]
  <2> SUFFICES ASSUME NEW i \in Nat, i < Len(out) PROVE At(i) = out[i + 1]
    OBVIOUS
  <2>1. At(i) = data[i + 1]
    BY <1>1, <1>3, <1>4, AtTyped
  <2>2. i + 1 \in 1..Len(out)
    BY <1>3
  <2> QED BY <1>4, <2>1, <2>2
<1> QED BY <1>1, <1>3, <1>4, <1>7, <1>8

\* A value that was written at t is read there.
LEMMA ValueRead ==
  ASSUME NEW v \in Values, v.type # UInt => Len(v.bin) < Limit24, NEW t \in Nat,
         \A i \in Nat : i < Len(EncodedValue(v)) => At(t + i) = EncodedValue(v)[i + 1]
  PROVE  After(t) = t + Len(EncodedValue(v)) /\ Value(t) = OnWire(v)
<1> DEFINE p == Payload(v)
           e == EncodedValue(v)
<1>1. /\ p \in Seq(Byte) /\ Len(p) \in Nat
      /\ v.type = UInt => Unsigned(p) = v.u
      /\ e \in Seq(Byte) /\ Len(e) = 4 + Len(p)
      /\ e[1] = v.type /\ rd_be24(e[2], e[3], e[4]) = Len(p)
      /\ \A i \in 1..Len(p) : e[4 + i] = p[i]
  BY ValueWritten
<1>2. \A i \in Nat : i < Len(e) => At(t + i) = e[i + 1]
  OBVIOUS
<1> HIDE DEF e
<1>3. At(t) = v.type /\ At(t + 1) = e[2] /\ At(t + 2) = e[3] /\ At(t + 3) = e[4]
  <2>1. 0 < Len(e) /\ 1 < Len(e) /\ 2 < Len(e) /\ 3 < Len(e)
    BY <1>1
  <2>2. At(t + 0) = e[0 + 1] /\ At(t + 1) = e[1 + 1] /\ At(t + 2) = e[2 + 1] /\ At(t + 3) = e[3 + 1]
    BY <1>2, <2>1
  <2>3. t + 0 = t /\ 0 + 1 = 1 /\ 1 + 1 = 2 /\ 2 + 1 = 3 /\ 3 + 1 = 4
    OBVIOUS
  <2> QED BY <1>1, <2>2, <2>3, Zenon
<1>4. ValueLen(t) = Len(p)
  BY <1>1, <1>3, Zenon DEF ValueLen
<1>5. After(t) = t + Len(e)
  BY <1>1, <1>4 DEF After
<1>6. Bytes(t + 4, Len(p)) = p
  <2>1. \A j \in 1..Len(p) : At((t + 4) + j - 1) = p[j]
    <3> SUFFICES ASSUME NEW j \in 1..Len(p) PROVE At((t + 4) + j - 1) = p[j]
      OBVIOUS
    <3> HIDE DEF p
    <3>1. 3 + j \in Nat /\ 3 + j < Len(e) /\ (t + 4) + j - 1 = t + (3 + j) /\ (3 + j) + 1 = 4 + j
      BY <1>1
    <3>2. At(t + (3 + j)) = e[(3 + j) + 1]
      BY <1>2, <3>1
    <3>3. At((t + 4) + j - 1) = e[4 + j]
      BY <3>1, <3>2, Zenon
    <3> QED BY <1>1, <3>3
  <2> HIDE DEF p
  <2>2. p = [j \in 1..Len(p) |-> p[j]]
    BY <1>1
  <2> QED BY <2>1, <2>2 DEF Bytes
<1>7. v.type \in {Binary, String, UInt}
  BY DEF Values
<1>8. Value(t) = OnWire(v)
  <2>1. CASE v.type = UInt
    <3>1. At(t) \notin {Binary, String}
      BY <1>3, <2>1 DEF UInt, Binary, String
    <3>2. Value(t) = [type |-> v.type, bin |-> <<>>, u |-> Unsigned(Bytes(t + 4, ValueLen(t)))]
      BY <1>3, <3>1, Zenon DEF Value
    <3>3. Unsigned(Bytes(t + 4, ValueLen(t))) = v.u
      BY <1>1, <1>4, <1>6, <2>1, Zenon
    <3> QED BY <2>1, <3>2, <3>3, Zenon DEF OnWire
  <2>2. CASE v.type # UInt
    <3>1. At(t) \in {Binary, String}
      BY <1>3, <1>7, <2>2
    <3>2. Value(t) = [type |-> v.type, bin |-> Bytes(t + 4, ValueLen(t)), u |-> 0]
      BY <1>3, <3>1, Zenon DEF Value
    <3>3. Bytes(t + 4, ValueLen(t)) = v.bin
      BY <1>4, <1>6, <2>2, Zenon DEF Payload
    <3> QED BY <2>2, <3>2, <3>3, Zenon DEF OnWire
  <2> QED BY <2>1, <2>2
<1> QED BY <1>5, <1>8 DEF e

\* An entry that was written at off is read there, and decode comes to its end.
LEMMA EntryRead ==
  ASSUME m \in Messages, m.options \in {0, 1}, m_out.options = m.options, off \in Nat,
         NEW k \in DOMAIN Args, ~TooLong(k),
         \A i \in Nat : i < Len(EncodedEntry(k)) => At(off + i) = EncodedEntry(k)[i + 1]
  PROVE  /\ Tag \in Nat /\ Tag + 4 <= After(Tag)
         /\ After(Tag) = off + Len(EncodedEntry(k))
         /\ Value(Tag) = OnWire(Args[k])
         /\ m.options = 0 => Bytes(off + 1, At(off)) = k
<1> DEFINE v == Args[k]
           h == KeyBytes(k)
           e == EncodedEntry(k)
           w == EncodedValue(v)
<1>1. /\ v \in Values /\ (v.type # UInt => Len(v.bin) < Limit24)
      /\ h \in Nat /\ e \in Seq(Byte) /\ Len(e) = h + Len(w)
      /\ \A i \in 1..Len(w) : e[h + i] = w[i]
  BY EntryWritten
<1>2. m.options = 0 => /\ k \in Seq(Byte) /\ e[1] = Len(k)
                       /\ \A i \in 1..Len(k) : e[1 + i] = k[i]
  BY EntryWritten
<1>3. w \in Seq(Byte) /\ Len(w) >= 4 /\ Len(w) \in Nat
  <2>1. Payload(v) \in Seq(Byte) /\ w \in Seq(Byte) /\ Len(w) = 4 + Len(Payload(v))
    BY <1>1, ValueWritten
  <2> HIDE DEF w, v
  <2> QED BY <2>1
<1>4. \A i \in Nat : i < Len(e) => At(off + i) = e[i + 1]
  OBVIOUS
<1>5. m.options = 0 => h = 1 + Len(k)
  BY DEF KeyBytes
<1>6. m.options # 0 => h = 0
  BY DEF KeyBytes
<1> HIDE DEF v, h, e, w
<1>7. m.options = 0 => At(off) = Len(k)
  <2>1. 0 < Len(e) /\ off + 0 = off /\ 0 + 1 = 1
    BY <1>1, <1>3
  <2>2. At(off + 0) = e[0 + 1]
    BY <1>4, <2>1
  <2> QED BY <1>2, <2>1, <2>2, Zenon
<1>8. Tag = off + h
  <2>1. CASE m.options = 0
    <3>1. Tag = off + 1 + Len(k)
      BY <1>7, <2>1, Zenon DEF Tag
    <3>2. Len(k) \in Nat
      BY <1>2, <2>1
    <3> QED BY <1>5, <2>1, <3>1, <3>2
  <2>2. CASE m.options # 0
    BY <1>6, <2>2 DEF Tag
  <2> QED BY <2>1, <2>2
<1> DEFINE t == Tag
<1>9. t \in Nat /\ t = off + h
  BY <1>1, <1>8
<1> HIDE DEF t
<1>10. \A i \in Nat : i < Len(w) => At(t + i) = w[i + 1]
  <2> SUFFICES ASSUME NEW i \in Nat, i < Len(w) PROVE At(t + i) = w[i + 1]
    OBVIOUS
  <2>1. h + i \in Nat /\ h + i < Len(e) /\ off + (h + i) = t + i /\ (h + i) + 1 = h + (i + 1) /\ i + 1 \in 1..Len(w)
    BY <1>1, <1>3, <1>9
  <2>2. At(off + (h + i)) = e[(h + i) + 1]
    BY <1>4, <2>1
  <2>3. At(t + i) = e[h + (i + 1)]
    BY <2>1, <2>2, Zenon
  <2> QED BY <1>1, <2>1, <2>3
<1>11. After(t) = t + Len(w) /\ Value(t) = OnWire(v)
  BY <1>1, <1>9, <1>10, ValueRead DEF w
<1>12. After(t) = off + Len(e) /\ t + 4 <= After(t)
  BY <1>1, <1>3, <1>9, <1>11
<1>13. ASSUME m.options = 0 PROVE Bytes(off + 1, At(off)) = k
  <2>1. k \in Seq(Byte) /\ Len(k) \in Nat
    BY <1>2, <1>13
  <2>2. \A j \in 1..Len(k) : At((off + 1) + j - 1) = k[j]
    <3> SUFFICES ASSUME NEW j \in 1..Len(k) PROVE At((off + 1) + j - 1) = k[j]
      OBVIOUS
    <3>1. j \in Nat /\ j < Len(e) /\ (off + 1) + j - 1 = off + j /\ j + 1 = 1 + j
      BY <1>1, <1>3, <1>5, <1>13, <2>1
    <3>2. At(off + j) = e[j + 1]
      BY <1>4, <3>1
    <3>3. At((off + 1) + j - 1) = e[1 + j]
      BY <3>1, <3>2, Zenon
    <3> QED BY <1>2, <1>13, <3>3
  <2>3. k = [j \in 1..Len(k) |-> k[j]]
    BY <2>1
  <2>4. Bytes(off + 1, Len(k)) = k
    BY <2>2, <2>3 DEF Bytes
  <2> QED BY <1>7, <1>13, <2>4, Zenon
<1> QED BY <1>9, <1>11, <1>12, <1>13 DEF t, v, e

\* The message of a whole frame.
LEMMA FramedFields ==
  ASSUME m \in Messages, m.options \in {0, 1}, InOrder, Upcoming = {}
  PROVE  Framed(m) = Decoded(Len(order))
<1> DEFINE F == [k \in IF m.options = 0 THEN DOMAIN m.args_map ELSE {} |-> OnWire(m.args_map[k])]
           A == [j \in 1..(IF m.options = 0 THEN 0 ELSE Len(m.args_array)) |-> OnWire(m.args_array[j])]
           n == Len(order)
           G == [k \in IF m.options = 0 THEN {order[i] : i \in 1..n} ELSE {} |-> OnWire(Args[k])]
           B == [i \in 1..(IF m.options = 0 THEN 0 ELSE n) |-> OnWire(Args[i])]
<1>1. Framed(m) = [options |-> m.options, messageID |-> m.messageID, args_map |-> F, args_array |-> A]
  BY Zenon DEF Framed
<1>2. Decoded(n) = [options |-> m.options, messageID |-> m.messageID, args_map |-> G, args_array |-> B]
  BY Zenon DEF Decoded
<1>3. order \in Seq(DOMAIN Args) /\ n \in Nat
  BY DEF InOrder
<1>4. CASE m.options = 0
  <2>1. Args = m.args_map
    BY <1>4 DEF Args
  <2>2. {order[i] : i \in 1..n} = DOMAIN m.args_map
    <3>1. DOMAIN order = 1..n
      BY <1>3
    <3>2. DOMAIN Args \ {order[j] : j \in DOMAIN order} = {}
      BY <1>4, Zenon DEF Upcoming
    <3>3. \A i \in 1..n : order[i] \in DOMAIN Args
      BY <1>3
    <3> HIDE DEF n
    <3> QED BY <2>1, <3>1, <3>2, <3>3
  <2> HIDE DEF n
  <2>3. F = G
    <3> DEFINE P == IF m.options = 0 THEN DOMAIN m.args_map ELSE {}
               Q == IF m.options = 0 THEN {order[i] : i \in 1..n} ELSE {}
    <3>1. P = Q
      BY <1>4, <2>2
    <3> HIDE DEF P, Q
    <3>2. [k \in P |-> OnWire(m.args_map[k])] = [k \in Q |-> OnWire(Args[k])]
      BY <2>1, <3>1
    <3> QED BY <3>2 DEF P, Q
  <2>4. A = B
    <3> DEFINE P == 1..(IF m.options = 0 THEN 0 ELSE Len(m.args_array))
               Q == 1..(IF m.options = 0 THEN 0 ELSE n)
    <3>1. P = {} /\ Q = {}
      BY <1>4
    <3> HIDE DEF P, Q
    <3>2. [j \in P |-> OnWire(m.args_array[j])] = [i \in Q |-> OnWire(Args[i])]
      BY <3>1
    <3> QED BY <3>2 DEF P, Q
  <2> HIDE DEF F, A, G, B
  <2>5. Framed(m) = Decoded(n)
    BY <1>1, <1>2, <2>3, <2>4
  <2> QED BY <2>5 DEF n
<1>5. CASE m.options # 0
  <2>1. m.options = 1 /\ Args = m.args_array /\ DOMAIN Args = 1..Len(Args) /\ Len(Args) \in Nat
    BY <1>5, MessagesTyped DEF Args
  <2>2. n = Len(Args)
    <3>1. DOMAIN Args \cap {n + 1} = {}
      BY <1>5, Zenon DEF Upcoming
    <3>2. ~(n + 1 <= Len(Args))
      BY <1>3, <2>1, <3>1
    <3>3. \A j \in 1..n : order[j] = j /\ order[j] \in DOMAIN Args
      BY <1>3, <2>1 DEF InOrder
    <3>4. n # 0 => n \in 1..Len(Args)
      BY <1>3, <2>1, <3>3
    <3> HIDE DEF n
    <3> QED BY <1>3, <2>1, <3>2, <3>4
  <2> HIDE DEF n
  <2>3. F = G
    BY <1>5, Zenon
  <2>4. A = B
    BY <2>1, <2>2, Zenon
  <2> HIDE DEF F, A, G, B
  <2>5. Framed(m) = Decoded(n)
    BY <1>1, <1>2, <2>3, <2>4
  <2> QED BY <2>5 DEF n
<1> QED BY <1>4, <1>5

\* What is written does not change while it is read.
LEMMA DecodingKeeps ==
  ASSUME UNCHANGED <<m, out, order>>
  PROVE  /\ \A starts : LaidOut(starts) => LaidOut(starts)'
         /\ \A n : Decoded(n)' = Decoded(n)
<1>1. /\ Args' = Args /\ \A x : EncodedEntry(x)' = EncodedEntry(x)
  BY SameMessage
<1> QED BY <1>1 DEF LaidOut, Decoded

LEMMA HeaderCarries ==
  ASSUME WrittenInv, CarriedInv, Header
  PROVE  CarriedInv'
<1> SUFFICES ASSUME out' # <<>>, Len(out') < Limit32
             PROVE  /\ phase' # "rejected"
                    /\ phase' = "entries" => ReadSoFar'
                    /\ phase' # "done"
  BY DEF CarriedInv
<1>1. UNCHANGED <<m, out, order, data>> /\ phase = "header"
  BY DEF Header, Reject
<1>2. /\ out \in Seq(Byte) /\ data \in Seq(Byte) /\ Len(out) >= 6
      /\ Len(data) >= Len(out) /\ Size = Len(out)
      /\ \A i \in Nat : i < Len(out) => At(i) = out[i + 1]
  BY <1>1, FrameDelivered DEF Encoding
<1>3. m \in Messages /\ HeadWritten /\ \E starts : LaidOut(starts)
  BY <1>1 DEF WrittenInv
<1>4. m.messageID \in Seq(Byte)
  BY <1>3, MessagesTyped
<1>5. At(4) = m.options /\ At(5) = Len(m.messageID) /\ m.options \in {0, 1}
  <2>1. At(4) = out[4 + 1] /\ At(5) = out[5 + 1]
    BY <1>2
  <2> QED BY <1>3, <2>1 DEF HeadWritten
<1>6. 6 + Len(m.messageID) <= Len(out)
  BY <1>3 DEF HeadWritten
<1>7. Bytes(6, Len(m.messageID)) = m.messageID
  <2>1. \A i \in 1..Len(m.messageID) : At(6 + i - 1) = m.messageID[i]
    <3> SUFFICES ASSUME NEW i \in 1..Len(m.messageID) PROVE At(6 + i - 1) = m.messageID[i]
      OBVIOUS
    <3>1. 5 + i \in Nat /\ 5 + i < Len(out) /\ 6 + i - 1 = 5 + i /\ (5 + i) + 1 = 6 + i
      BY <1>2, <1>4, <1>6
    <3>2. At(5 + i) = out[(5 + i) + 1]
      BY <1>2, <3>1
    <3>3. out[6 + i] = m.messageID[i]
      BY <1>3 DEF HeadWritten
    <3> QED BY <3>1, <3>2, <3>3, Zenon
  <2>2. m.messageID = [i \in 1..Len(m.messageID) |-> m.messageID[i]]
    BY <1>4
  <2> QED BY <2>1, <2>2 DEF Bytes
<1>8. Len(data) >= 6 /\ Size <= Len(data) /\ 6 + At(5) <= Size /\ At(4) \in {0, 1}
  BY <1>2, <1>5, <1>6
<1>9. Size \in Nat /\ Len(data) \in Nat /\ At(5) \in Nat
  BY <1>2, <1>4, <1>5
<1>10. ~(Len(data) < 6) /\ ~(Size > Len(data)) /\ ~(6 + At(5) > Size)
  BY <1>8, <1>9
<1>11. /\ m_out' = [Blank EXCEPT !.options = At(4), !.messageID = Bytes(6, At(5))]
       /\ off' = 6 + At(5)
       /\ phase' = "entries"
  BY <1>8, <1>10, Zenon DEF Header
<1>12. m_out' = Decoded(0)
  <2>1. m_out' = [options |-> m.options, messageID |-> m.messageID,
                  args_map |-> [k \in {} |-> k], args_array |-> <<>>]
    BY <1>5, <1>7, <1>11 DEF Blank
  <2>2. {order[i] : i \in 1..0} = {}
    OBVIOUS
  <2> DEFINE G == [k \in IF m.options = 0 THEN {order[i] : i \in 1..0} ELSE {} |-> OnWire(Args[k])]
             B == [i \in 1..(IF m.options = 0 THEN 0 ELSE 0) |-> OnWire(Args[i])]
  <2>3. G = [k \in {} |-> k]
    <3>1. (IF m.options = 0 THEN {order[i] : i \in 1..0} ELSE {}) = {}
      BY <2>2
    <3> QED BY <3>1
  <2>4. B = <<>>
    OBVIOUS
  <2>5. Decoded(0) = [options |-> m.options, messageID |-> m.messageID, args_map |-> G, args_array |-> B]
    BY Zenon DEF Decoded
  <2> HIDE DEF G, B
  <2> QED BY <2>1, <2>3, <2>4, <2>5, Zenon
<1>13. PICK starts : LaidOut(starts)
  BY <1>3
<1>14. LaidOut(starts)' /\ Decoded(0)' = Decoded(0)
  BY <1>1, <1>13, DecodingKeeps, Zenon
<1>15. off' = starts[1]
  BY <1>5, <1>11, <1>13 DEF LaidOut
<1>16. 1 \in 1..(Len(order') + 1) /\ 1 - 1 = 0
  <2>1. order \in Seq(DOMAIN Args)
    BY <1>1 DEF WrittenInv, InOrder
  <2> QED BY <1>1, <2>1
<1>17. ReadSoFar'
  BY <1>12, <1>14, <1>15, <1>16, Zenon DEF ReadSoFar
<1> QED BY <1>11, <1>17

\* One more entry.
LEMMA EntryTaken ==
  ASSUME m \in Messages, m.options \in {0, 1}, InOrder, NEW j \in 1..Len(order)
  PROVE  Decoded(j) =
           IF m.options = 0
           THEN [Decoded(j - 1) EXCEPT !.args_map   = Emplace(@, order[j], OnWire(Args[order[j]]))]
           ELSE [Decoded(j - 1) EXCEPT !.args_array = Append(@, OnWire(Args[order[j]]))]
<1> DEFINE Keys(n)  == {order[i] : i \in 1..n}
           F(n) == [k \in IF m.options = 0 THEN Keys(n) ELSE {} |-> OnWire(Args[k])]
           A(n) == [i \in 1..(IF m.options = 0 THEN 0 ELSE n) |-> OnWire(Args[i])]
           w    == OnWire(Args[order[j]])
<1>1. \A n : Decoded(n) = [options |-> m.options, messageID |-> m.messageID, args_map |-> F(n), args_array |-> A(n)]
  BY Zenon DEF Decoded
<1>2. order \in Seq(DOMAIN Args) /\ j \in Nat /\ j - 1 \in Nat /\ (m.options = 1 => order[j] = j)
  BY DEF InOrder
<1>3. CASE m.options = 0
  <2>1. Keys(j) = Keys(j - 1) \cup {order[j]}
    <3>1. 1..j = (1..(j - 1)) \cup {j}
      BY <1>2
    <3> QED BY <3>1
  <2>2. F(j) = Emplace(F(j - 1), order[j], w)
    <3> DEFINE P == Keys(j - 1)
               Q == Keys(j)
    <3>1. Q = P \cup {order[j]}
      BY <2>1
    <3> HIDE DEF P, Q
    <3>2. [k \in Q |-> OnWire(Args[k])] = Emplace([k \in P |-> OnWire(Args[k])], order[j], w)
      BY <3>1 DEF Emplace
    <3>3. F(j) = [k \in Q |-> OnWire(Args[k])] /\ F(j - 1) = [k \in P |-> OnWire(Args[k])]
      BY <1>3 DEF P, Q
    <3> HIDE DEF F
    <3> QED BY <3>2, <3>3, Zenon
  <2>3. A(j) = A(j - 1)
    BY <1>3
  <2> HIDE DEF F, A, w
  <2>4. Decoded(j) = [Decoded(j - 1) EXCEPT !.args_map = Emplace(@, order[j], w)]
    BY <1>1, <2>2, <2>3
  <2> QED BY <1>3, <2>4 DEF w
<1>4. CASE m.options # 0
  <2>1. F(j) = F(j - 1)
    BY <1>4
  <2>2. A(j) = Append(A(j - 1), w)
    <3>1. order[j] = j
      BY <1>2, <1>4
    <3>2. A(j) = [i \in 1..j |-> OnWire(Args[i])] /\ A(j - 1) = [i \in 1..(j - 1) |-> OnWire(Args[i])]
      BY <1>4
    <3> HIDE DEF A
    <3> QED BY <1>2, <3>1, <3>2
  <2> HIDE DEF F, A, w
  <2>3. Decoded(j) = [Decoded(j - 1) EXCEPT !.args_array = Append(@, w)]
    BY <1>1, <2>1, <2>2
  <2> QED BY <1>4, <2>3 DEF w
<1> QED BY <1>3, <1>4

LEMMA EntryCarries ==
  ASSUME WrittenInv, CarriedInv, Entry
  PROVE  CarriedInv'
<1> SUFFICES ASSUME out' # <<>>, Len(out') < Limit32
             PROVE  /\ phase' # "rejected"
                    /\ phase' = "entries" => ReadSoFar'
                    /\ phase' # "done"
  BY DEF CarriedInv
<1>1. UNCHANGED <<m, out, order, data>> /\ phase = "entries" /\ off < Size
  BY DEF Entry, Reject
<1>2. /\ out \in Seq(Byte) /\ Size = Len(out)
      /\ \A i \in Nat : i < Len(out) => At(i) = out[i + 1]
  BY <1>1, FrameDelivered DEF Encoding
<1>3. m \in Messages /\ HeadWritten /\ InOrder
  BY <1>1 DEF WrittenInv
<1>4. ReadSoFar
  BY <1>1 DEF CarriedInv
<1>5. PICK starts, j : /\ LaidOut(starts) /\ j \in 1..(Len(order) + 1)
                       /\ off = starts[j] /\ m_out = Decoded(j - 1)
  BY <1>4, Zenon DEF ReadSoFar
<1>6. order \in Seq(DOMAIN Args) /\ Len(order) \in Nat /\ Len(out) \in Nat
  BY <1>2, <1>3 DEF InOrder
<1>7. /\ starts \in [1..(Len(order) + 1) -> Nat] /\ starts[Len(order) + 1] = Len(out)
  BY <1>5, Zenon DEF LaidOut
<1>8. j \in 1..Len(order) /\ off \in Nat /\ j + 1 \in 1..(Len(order) + 1)
  BY <1>1, <1>2, <1>5, <1>6, <1>7
<1> DEFINE k == order[j]
           e == EncodedEntry(k)
<1>9. k \in DOMAIN Args /\ ~TooLong(k)
  BY <1>3, <1>6, <1>8 DEF InOrder
<1>10. /\ starts[j + 1] = off + Len(e) /\ starts[j + 1] <= Len(out)
       /\ \A i \in 1..Len(e) : out[off + i] = e[i]
  <2>1. /\ starts[j + 1] = starts[j] + Len(e) /\ starts[j + 1] <= Len(out)
        /\ \A i \in 1..Len(e) : out[starts[j] + i] = e[i]
    BY <1>5, <1>8, Zenon DEF LaidOut
  <2> HIDE DEF e
  <2> QED BY <1>5, <2>1
<1>11. e \in Seq(Byte) /\ Len(e) \in Nat
  BY <1>3, <1>9, EntryLength
<1> HIDE DEF k, e
<1>12. \A i \in Nat : i < Len(e) => At(off + i) = e[i + 1]
  <2> SUFFICES ASSUME NEW i \in Nat, i < Len(e) PROVE At(off + i) = e[i + 1]
    OBVIOUS
  <2>1. off + i \in Nat /\ off + i < Len(out) /\ (off + i) + 1 = off + (i + 1) /\ i + 1 \in 1..Len(e)
    BY <1>6, <1>8, <1>10, <1>11
  <2>2. At(off + i) = out[(off + i) + 1]
    BY <1>2, <2>1
  <2>3. At(off + i) = out[off + (i + 1)]
    BY <2>1, <2>2, Zenon
  <2> QED BY <1>10, <2>1, <2>3
<1>13. m_out.options = m.options /\ m.options \in {0, 1}
  BY <1>3, <1>5 DEF Decoded, HeadWritten
<1>14. /\ Tag \in Nat /\ Tag + 4 <= After(Tag)
       /\ After(Tag) = off + Len(e)
       /\ Value(Tag) = OnWire(Args[k])
       /\ m.options = 0 => Bytes(off + 1, At(off)) = k
  BY <1>3, <1>8, <1>9, <1>12, <1>13, EntryRead DEF e
<1>15. After(Tag) = starts[j + 1] /\ After(Tag) <= Size /\ After(Tag) \in Nat
  BY <1>2, <1>7, <1>8, <1>10, <1>14
<1>16. Fits(Tag)
  BY <1>2, <1>6, <1>14, <1>15 DEF Fits
<1>17. /\ m_out' = IF m_out.options = 0
                   THEN [m_out EXCEPT !.args_map = Emplace(@, Bytes(off + 1, At(off)), Value(Tag))]
                   ELSE [m_out EXCEPT !.args_array = Append(@, Value(Tag))]
       /\ off' = After(Tag) /\ phase' = "entries"
  BY <1>1, <1>16, Zenon DEF Entry
<1>18. m_out' = Decoded(j)
  <2>1. Decoded(j) = IF m.options = 0
                     THEN [m_out EXCEPT !.args_map   = Emplace(@, k, OnWire(Args[k]))]
                     ELSE [m_out EXCEPT !.args_array = Append(@, OnWire(Args[k]))]
    BY <1>3, <1>5, <1>8, <1>13, EntryTaken, Zenon DEF k
  <2> QED BY <1>13, <1>14, <1>17, <2>1, Zenon
<1>19. LaidOut(starts)' /\ Decoded(j)' = Decoded(j)
  BY <1>1, <1>5, DecodingKeeps, Zenon
<1>20. PICK n : n = j + 1 /\ n - 1 = j
  BY <1>8
<1>21. /\ LaidOut(starts)' /\ n \in 1..(Len(order') + 1)
       /\ off' = starts[n] /\ m_out' = Decoded(n - 1)'
  BY <1>1, <1>8, <1>15, <1>17, <1>18, <1>19, <1>20, Zenon
<1>22. ReadSoFar'
  BY <1>21, Zenon DEF ReadSoFar
<1> QED BY <1>17, <1>22

LEMMA FinishCarries ==
  ASSUME WrittenInv, CarriedInv, Finish
  PROVE  CarriedInv'
<1> SUFFICES ASSUME out' # <<>>, Len(out') < Limit32
             PROVE  /\ phase' # "rejected" /\ phase' # "entries"
                    /\ phase' = "done" => m_out' = Framed(m)' /\ off' = Len(out')
  BY DEF CarriedInv
<1>1. UNCHANGED <<m, out, order, data, off, m_out>> /\ phase = "entries" /\ off >= Size /\ phase' = "done"
  BY DEF Finish
<1>2. out \in Seq(Byte) /\ Size = Len(out)
  BY <1>1, FrameDelivered DEF Encoding
<1>3. m \in Messages /\ HeadWritten /\ InOrder /\ Delivered
  BY <1>1 DEF WrittenInv, Encoding
<1>4. PICK starts, j : /\ LaidOut(starts) /\ j \in 1..(Len(order) + 1)
                       /\ off = starts[j] /\ m_out = Decoded(j - 1)
  BY <1>1, Zenon DEF CarriedInv, ReadSoFar
<1>5. order \in Seq(DOMAIN Args) /\ Len(order) \in Nat /\ Len(out) \in Nat
  BY <1>2, <1>3 DEF InOrder
<1>6. starts \in [1..(Len(order) + 1) -> Nat] /\ starts[Len(order) + 1] = Len(out)
  BY <1>4, Zenon DEF LaidOut
<1>7. j \notin 1..Len(order)
  <2> SUFFICES ASSUME j \in 1..Len(order) PROVE FALSE
    OBVIOUS
  <2> DEFINE e == EncodedEntry(order[j])
  <2>1. order[j] \in DOMAIN Args /\ ~TooLong(order[j])
    BY <1>3, <1>5 DEF InOrder
  <2>2. e \in Seq(Byte) /\ Len(e) >= 4 /\ Len(e) \in Nat
    BY <1>3, <2>1, EntryLength
  <2>3. starts[j + 1] = starts[j] + Len(e) /\ starts[j + 1] <= Len(out)
    BY <1>4, Zenon DEF LaidOut
  <2> HIDE DEF e
  <2>4. starts[j] \in Nat
    BY <1>5, <1>6
  <2> QED BY <1>1, <1>2, <1>4, <1>5, <2>2, <2>3, <2>4
<1>8. j = Len(order) + 1 /\ j - 1 = Len(order)
  BY <1>4, <1>5, <1>7
<1>9. off = Len(out)
  BY <1>4, <1>6, <1>8
<1>10. m_out = Framed(m)
  <2>1. Upcoming = {} /\ m.options \in {0, 1}
    BY <1>3 DEF Delivered, HeadWritten
  <2>2. Framed(m) = Decoded(Len(order))
    BY <1>3, <2>1, FramedFields
  <2> QED BY <1>4, <1>8, <2>2, Zenon
<1> QED BY <1>1, <1>9, <1>10 DEF Framed

LEMMA CarriedStep ==
  ASSUME WrittenInv, WrittenInv', CarriedInv, [CodecNext]_codecVars
  PROVE  CarriedInv'
<1>1. CASE EncodeHead \/ EncodeEntry \/ EncodeLength
  <2>1. phase' \in {"writing", "refused", "header"}
    BY <1>1 DEF EncodeHead, EncodeEntry, EncodeLength
  <2> QED BY <2>1 DEF CarriedInv
<1>2. CASE UNCHANGED codecVars
  <2>1. UNCHANGED <<phase, m, out, order, off, m_out>>
    BY <1>2 DEF codecVars
  <2>2. ReadSoFar => ReadSoFar'
    <3> SUFFICES ASSUME ReadSoFar PROVE ReadSoFar'
      OBVIOUS
    <3>1. PICK starts, j : /\ LaidOut(starts) /\ j \in 1..(Len(order) + 1)
                           /\ off = starts[j] /\ m_out = Decoded(j - 1)
      BY Zenon DEF ReadSoFar
    <3>2. PICK n : n = j - 1
      OBVIOUS
    <3>3. LaidOut(starts)' /\ Decoded(n)' = Decoded(n)
      BY <2>1, <3>1, DecodingKeeps, Zenon
    <3>4. /\ LaidOut(starts)' /\ j \in 1..(Len(order') + 1)
          /\ off' = starts[j] /\ m_out' = Decoded(j - 1)'
      BY <2>1, <3>1, <3>2, <3>3, Zenon
    <3> QED BY <3>4, Zenon DEF ReadSoFar
  <2>3. Framed(m)' = Framed(m)
    BY <2>1 DEF Framed
  <2> QED BY <2>1, <2>2, <2>3 DEF CarriedInv
<1> QED BY <1>1, <1>2, HeaderCarries, EntryCarries, FinishCarries DEF CodecNext

\* A frame that was encoded is taken whole and gives its message back.
THEOREM FramesGoThere == CodecSpec => []RoundTrip
<1>1. CodecInit => WrittenInv /\ CarriedInv
  BY WrittenInit DEF CodecInit, CarriedInv
<1>2. WrittenInv /\ CarriedInv /\ [CodecNext]_codecVars => (WrittenInv /\ CarriedInv)'
  BY WrittenStep, CarriedStep
<1>3. CarriedInv => RoundTrip
  BY DEF CarriedInv, RoundTrip
<1> QED BY <1>1, <1>2, <1>3, PTL DEF CodecSpec

\* The loop over the entries ends: each turn takes four bytes at least, within the frame.
THEOREM DecodeAdvances ==
  CodecSpec => [][Entry => phase' = "rejected" \/ (off + 4 <= off' /\ off' <= Size)]_codecVars
<1>1. CodecInit => WrittenInv /\ DecodeInv
  BY WrittenInit, DecodeInit
<1>2. WrittenInv /\ DecodeInv /\ [CodecNext]_codecVars => (WrittenInv /\ DecodeInv)'
  BY WrittenStep, DecodeStep
<1>3. WrittenInv /\ DecodeInv /\ [CodecNext]_codecVars =>
        [Entry => phase' = "rejected" \/ (off + 4 <= off' /\ off' <= Size)]_codecVars
  <2> SUFFICES ASSUME WrittenInv, DecodeInv, Entry, phase' # "rejected"
               PROVE  off + 4 <= off' /\ off' <= Size
    BY Zenon
  <2>1. data \in Seq(Byte) /\ OnTheWay /\ off < Size
    BY DEF WrittenInv, DecodeInv, Entry
  <2>2. off \in Nat /\ Size \in Nat /\ Tag \in Nat /\ After(Tag) \in Nat /\ off <= Tag /\ Tag + 4 <= After(Tag)
    BY <2>1, SizeTyped, EntryFits DEF OnTheWay
  <2>3. Fits(Tag) /\ off' = After(Tag)
    BY DEF Entry, Reject
  <2> QED BY <2>2, <2>3 DEF Fits
<1> QED BY <1>1, <1>2, <1>3, PTL DEF CodecSpec

===============================================================================
