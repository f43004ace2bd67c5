------------------------------- MODULE QueryPath -------------------------------
(***************************************************************************)
(* The path of a GameGuard challenge: OpenKore asks on a bus connection,   *)
(* QueryServer hands the query to GameGuardBridge, the bridge sends it to  *)
(* the RO client whose session LoginHandler or CharHandler bound last, the *)
(* client answers on its session, and the answer returns on the bus.       *)
(*                                                                         *)
(* The components share one io thread; an action is one completion handler *)
(* with every call it makes into the others.  The n-th challenge that      *)
(* becomes pending is the number n, so that an answer can be told from an  *)
(* answer to another challenge.                                            *)
(***************************************************************************)
EXTENDS Naturals, Sequences, LinkStates

CONSTANTS
  Conns, NoConn,           (* bus connections                              *)
  Sessions, NoSession,     (* TcpSession objects                           *)
  RoleOf(_),               (* the listener a session belongs to            *)
  MaxRetries,              (* max_retries_                                 *)
  MaxQueries               (* bound: challenges that become pending        *)

Roles  == {"login", "char"}
NoWire == "none"

ASSUME QueryPathAssumption ==
  /\ NoConn \notin Conns
  /\ NoSession \notin Sessions
  /\ \A s \in Sessions : RoleOf(s) \in Roles
  /\ MaxRetries \in Nat
  /\ MaxQueries \in Nat

VARIABLES
  running, acceptor, sock, peer, armed, backlog, gone, frame, owed,
  wire, pending, retry, query, expired, copies, accepted, answered, abandoned,
  link,      (* what is left of each session, one of Links               *)
  target,    (* the session behind each handler's SessionWire              *)
  toClient,  (* per session, challenge copies the client has yet to answer *)
  resent,    (* history: some challenge was sent twice                     *)
  stale      (* history: a reply answered an earlier challenge             *)

busVars     == <<running, acceptor, sock, peer, armed, backlog, gone, frame, owed>>
bridgeVars  == <<wire, pending, retry, query, expired,
                 copies, accepted, answered, abandoned>>
sessionVars == <<link, target, toClient>>
vars        == <<busVars, bridgeVars, sessionVars, resent, stale>>

Bus == INSTANCE QueryServer

\* send_to_client finds the session as long as something refers to it.
Reaches(r) == target[r] # NoSession /\ link[target[r]] # "free"

Bridge == INSTANCE GameGuardBridge WITH
            Wires   <- Roles,
            Queries <- 1..MaxQueries,
            NoQuery <- 0,
            live    <- {r \in Roles : Reaches(r)}

Init ==
  /\ Bus!Init
  /\ wire = NoWire
  /\ pending = FALSE /\ retry = 0 /\ query = 0 /\ expired = FALSE
  /\ copies = 0 /\ accepted = 0 /\ answered = 0 /\ abandoned = 0
  /\ link = [s \in Sessions |-> "free"]
  /\ target = [r \in Roles |-> NoSession]
  /\ toClient = [s \in Sessions |-> <<>>]
  /\ resent = FALSE
  /\ stale = FALSE

Reading(s) == Reads(link[s])

\* session->send(): what is queued on a session that is closed is never sent.
\* (A send that overflows the write queue also ends the session and comes back
\* as on_disconnect: that is this step with Disconnect right after it.)
Send(s, q, pipes) ==
  IF Reading(s) THEN [pipes EXCEPT ![s] = Append(@, q)] ELSE pipes

-------------------------------------------------------------------------------
(* the bus *)

\* Everything the bus does without calling the bridge.
BusStep ==
  /\ \/ Bus!Start
     \/ Bus!Accept \/ Bus!AcceptThrows
     \/ Bus!ReadLen \/ Bus!Written
     \/ \E op \in Bus!Ops : Bus!ReadFails(op)
     \/ \E f \in Bus!Frames : Bus!ReadOther(f)
     \/ \E c \in Conns : Bus!Connect(c) \/ Bus!Hangup(c)
  /\ UNCHANGED <<bridgeVars, sessionVars, resent, stale>>

\* A query has arrived; the handler calls on_query_from_kore_.
Query ==
  /\ Bus!ReadQuery
  /\ accepted < MaxQueries
  /\ \/ Bridge!Drop /\ UNCHANGED toClient
     \/ Bridge!Forward(accepted + 1) /\ toClient' = Send(target[wire], accepted + 1, toClient)
     \/ Bridge!ForwardFails(accepted + 1) /\ UNCHANGED toClient
  /\ UNCHANGED <<link, target, resent, stale>>

-------------------------------------------------------------------------------
(* sessions *)

\* A client connects to the login or char port: on_connect binds its wire.
Connect(s) ==
  /\ running
  /\ link[s] = "free"
  /\ link' = [link EXCEPT ![s] = "open"]
  /\ target' = [target EXCEPT ![RoleOf(s)] = s]
  /\ toClient' = [toClient EXCEPT ![s] = <<>>]
  /\ Bridge!BindClientWire(RoleOf(s))
  /\ UNCHANGED <<busVars, resent, stale>>

\* What the client still sends is read by nobody once the session has ended.
Unread(s, next) == IF Reads(next) THEN toClient ELSE [toClient EXCEPT ![s] = <<>>]

\* Mutant: on_disconnect does not unbind the bridge.
DisconnectKeepsWire(s, next) ==
  /\ running
  /\ Loses(link[s], next)
  /\ link' = [link EXCEPT ![s] = next]
  /\ toClient' = Unread(s, next)
  /\ UNCHANGED <<busVars, bridgeVars, target, resent, stale>>

\* on_disconnect ignores which session it is told about.
Disconnect(s, next) ==
  /\ running
  /\ Loses(link[s], next)
  /\ link' = [link EXCEPT ![s] = next]
  /\ toClient' = Unread(s, next)
  /\ Bridge!BindClientWire(NoWire)
  /\ UNCHANGED <<busVars, target, resent, stale>>

\* A lost session is left by its last operations without another call.
Vanish(s, next) ==
  /\ running
  /\ Fades(link[s], next)
  /\ link' = [link EXCEPT ![s] = next]
  /\ toClient' = Unread(s, next)
  /\ UNCHANGED <<busVars, bridgeVars, target, resent, stale>>

Resends(pipes) ==
  /\ Bridge!Resend
  /\ toClient' = Send(target[wire], query, pipes)
  /\ resent' = TRUE
  /\ UNCHANGED busVars

\* Mutant: OpenKore gets an empty reply when its challenge is given up.
DataReleasesBus(f, pipes) ==
  \/ Resends(pipes)
  \/ (Bridge!ResendFails \/ Bridge!GiveUp) /\ Bus!SendReply
     /\ toClient' = pipes /\ UNCHANGED resent
  \/ Bridge!Pass(f) /\ toClient' = pipes /\ UNCHANGED <<busVars, resent>>
  \/ Bridge!Answer(f) /\ Bus!SendReply /\ toClient' = pipes /\ UNCHANGED resent

\* Mutant: the transaction is reset before the reply, which then is skipped.
DataForgetsReply(f, pipes) ==
  \/ Resends(pipes)
  \/ /\ Bridge!ResendFails \/ Bridge!GiveUp \/ Bridge!Pass(f) \/ Bridge!Answer(f)
     /\ toClient' = pipes
     /\ UNCHANGED <<busVars, resent>>

\* Mutant: a response that comes late is replied too.
DataRepliesLate(f, pipes) ==
  \/ Resends(pipes)
  \/ /\ Bridge!ResendFails \/ Bridge!GiveUp \/ (Bridge!Pass(f) /\ ~Bridge!IsResponse(f))
     /\ toClient' = pipes
     /\ UNCHANGED <<busVars, resent>>
  \/ /\ Bridge!Answer(f) \/ (Bridge!Pass(f) /\ Bridge!IsResponse(f))
     /\ Bus!SendReply
     /\ toClient' = pipes
     /\ UNCHANGED resent

\* on_data: the bridge sees the chunk first.  `pipes' are the copies the client
\* still has to answer once it has sent the chunk.
Data(f, pipes) ==
  \/ Resends(pipes)
  \/ /\ Bridge!ResendFails \/ Bridge!GiveUp \/ Bridge!Pass(f)
     /\ toClient' = pipes
     /\ UNCHANGED <<busVars, resent>>
  \/ /\ Bridge!Answer(f)
     /\ Bus!SendReply
     /\ toClient' = pipes
     /\ UNCHANGED resent

\* Keepalives and game packets.
Chatter(s) ==
  /\ running /\ Reading(s)
  /\ Data("other", toClient)
  /\ UNCHANGED <<link, target, stale>>

\* The client answers the oldest copy; the first TCP segment may be cut short.
Respond(s) ==
  /\ running /\ Reading(s)
  /\ toClient[s] # <<>>
  /\ \E f \in {"09D0", "099F", "09D0 stub"} :
       /\ Data(f, [toClient EXCEPT ![s] = Tail(@)])
       /\ stale' = (stale \/ (answered' # answered /\ Head(toClient[s]) # query))
  /\ UNCHANGED <<link, target>>

Expire ==
  /\ Bridge!Expire
  /\ UNCHANGED <<busVars, sessionVars, resent, stale>>

Next ==
  \/ BusStep
  \/ Query
  \/ \E s \in Sessions :
       \/ Connect(s)
       \/ \E next \in Links : Disconnect(s, next) \/ Vanish(s, next)
       \/ Chatter(s)
       \/ Respond(s)
  \/ Expire

Spec == Init /\ [][Next]_vars

-------------------------------------------------------------------------------
TypeOK ==
  /\ Bus!TypeOK
  /\ Bridge!TypeOK
  /\ link \in [Sessions -> Links]
  /\ target \in [Roles -> Sessions \cup {NoSession}]
  /\ toClient \in [Sessions -> Seq(1..MaxQueries)]
  /\ resent \in BOOLEAN
  /\ stale \in BOOLEAN

\* While a challenge is pending, the connection that asked it holds the one bus
\* socket and nothing is outstanding on it, across client reconnects, retries
\* and hangups.  So no second query can arrive, and sendReply, which does not
\* say to whom, can only reach the connection that asked.
PendingHoldsAsker ==
  pending =>
    /\ owed # NoConn /\ peer = owed
    /\ sock = "open"
    /\ \A o \in Bus!Ops : armed[o] = 0

\* wire_ is a raw pointer to a SessionWire with a weak pointer inside.  It is
\* only ever bound to a session whose loss has not been notified: a challenge
\* is never "sent" into a session that has ended.
BoundIsOpen ==
  wire # NoWire => target[wire] # NoSession /\ link[target[wire]] = "open"

\* Neither direction goes astray: a reply can only reach the connection that
\* asked, and a challenge is only handed to a session that is open.  (It says
\* nothing of a bridge that is bound to no session although a client is there: the
\* loss of one client unbinds the bridge from another.)
NeverMisdirected == PendingHoldsAsker /\ BoundIsOpen

\* An answer to an earlier challenge is taken for the answer to the pending one
\* only after some challenge was sent twice.
StaleOnlyAfterResend == stale => resent

\* Every call of sendReply finds its connection: the reply that settles a
\* challenge is written, and to the connection that asked.
AnswerIsWritten ==
  [][answered' # answered => peer = owed /\ armed'["write"] = 1]_vars

\* The bridge keeps the contract QueryServer has with its caller: it never
\* replies without a query, nor twice.
BusContract == Bus!Spec

-------------------------------------------------------------------------------
(* What a comment in the source says and the code does not do. *)

\* GameGuardBridge.cpp:48 "and later return the client's reply back to Poseidon":
\* the reply that OpenKore receives answers the challenge it asked.
ReplyAnswersItsQuery == ~stale
===============================================================================
