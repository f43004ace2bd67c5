----------------------------- MODULE ClientPhases -----------------------------
(***************************************************************************)
(* Clients on their way through the login, char and map phases, against    *)
(* the one LoginFlow and the one CharFlow that serve all of them.          *)
(*                                                                         *)
(* A client sends a request and waits for its reply; its phase is the      *)
(* request it has sent.  One action is the server's handling of it (the    *)
(* handler, the flow and the reply) and the client's next request.  A      *)
(* client the server does not answer, or answers with something else than  *)
(* it asked for, gets no further.  Unruly clients send anything in any     *)
(* order, on either listener.                                              *)
(***************************************************************************)
EXTENDS Integers, FiniteSets

CONSTANTS
  Clients,
  Rogues,        (* the clients that may be unruly                         *)
  MaxConnected,  (* clients that are connected at a time                   *)
  MaxTokens,     (* bound: tokens issued while an unruly client asks       *)
  MaxUnlisted    (* bound: lists owed while an unruly client selects       *)

Requests == {"key", "token", "master", "char", "server", "list", "pick", "map"}

ASSUME PhasesAssumption ==
  /\ IsFiniteSet(Clients)
  /\ Rogues \subseteq Clients
  /\ MaxConnected \in Nat
  /\ MaxTokens \in Nat
  /\ MaxUnlisted \in Nat

VARIABLES
  phase,      (* what each client has asked for                            *)
  own,        (* the account each client was given, 0 before               *)
  shown,      (* the account it entered the map with, 0 before             *)
  mixed,      (* history: a client was unruly, or arrived while another was
                 connected or had left with its redirect outstanding       *)
  awaiting, account, nextAccount, expectChar, tokens, logins, given,
  awaitingList, expecting, first, spawn, charAccount,
  outstanding, unlisted, spot

clientVars == <<phase, own, shown, mixed>>
loginVars  == <<awaiting, account, nextAccount, expectChar, tokens, logins, given>>
charVars   == <<awaitingList, expecting, first, spawn, charAccount,
                outstanding, unlisted, spot>>
vars       == <<clientVars, loginVars, charVars>>

Login == INSTANCE LoginFlow WITH
           Sessions  <- Clients,
           MaxTokens <- MaxTokens + Cardinality(Clients)

Char == INSTANCE CharFlow WITH
          Accounts       <- Nat \ {0},
          NoAccount      <- 0,
          DefaultAccount <- 1

Init ==
  /\ Login!Init /\ Char!Init
  /\ phase = [c \in Clients |-> "away"]
  /\ own = [c \in Clients |-> 0]
  /\ shown = [c \in Clients |-> 0]
  /\ mixed = FALSE

Connected == {c \in Clients : phase[c] \notin {"away", "left"}}

To(c, p) == phase' = [phase EXCEPT ![c] = p]

-------------------------------------------------------------------------------
(* the login connection *)

\* Some clients ask for a key first, some do not.
Arrive(c) ==
  /\ phase[c] = "away"
  /\ Cardinality(Connected) < MaxConnected
  /\ \E p \in {"key", "token", "unruly"} :
       /\ p = "unruly" => c \in Rogues
       /\ To(c, p)
       /\ mixed' = (mixed \/ Connected # {} \/ expecting \/ p = "unruly")
  /\ UNCHANGED <<own, shown, loginVars, charVars>>

AskKey(c) ==
  /\ phase[c] = "key"
  /\ Login!SecureHandshake(c)
  /\ To(c, "token")
  /\ UNCHANGED <<own, shown, mixed, charVars>>

AskToken(c) ==
  /\ phase[c] = "token"
  /\ Login!TokenRequest(c)
  /\ To(c, "master")
  /\ UNCHANGED <<own, shown, mixed, charVars>>

LogIn(c) ==
  /\ phase[c] = "master"
  /\ \/ Login!MasterIgnored(c) /\ To(c, "ignored") /\ UNCHANGED own
     \/ /\ Login!MasterTaken(c)
        /\ To(c, "char")
        /\ own' = [own EXCEPT ![c] = nextAccount]
  /\ UNCHANGED <<shown, mixed, charVars>>

-------------------------------------------------------------------------------
(* the char connection *)

\* CharHandler::on_connect
ConnectChar(c) ==
  /\ phase[c] = "char"
  /\ Login!TakeExpect
  /\ To(c, "server")
  /\ UNCHANGED <<own, shown, mixed, charVars>>

\* The client is sent into the map while it asks for something else.
Misled(c, op) ==
  /\ Char!TakenAsEnter(op) /\ Char!Enter(FALSE)
  /\ To(c, "misled")

SelectServer(c) ==
  /\ phase[c] = "server"
  /\ \/ Misled(c, "select server")
     \/ /\ ~Char!TakenAsEnter("select server")
        /\ Char!ServerSelected(own[c])
        /\ To(c, "list") \/ To(c, "pick")
  /\ UNCHANGED <<own, shown, mixed, loginVars>>

AskList(c) ==
  /\ phase[c] = "list"
  /\ \/ Misled(c, "list")
     \/ ~Char!TakenAsEnter("list") /\ Char!CharListReq /\ To(c, "pick")
  /\ UNCHANGED <<own, shown, mixed, loginVars>>

PickChar(c) ==
  /\ phase[c] = "pick"
  /\ \/ Misled(c, "select char")
     \/ ~Char!TakenAsEnter("select char") /\ Char!CharSelected /\ To(c, "map")
  /\ UNCHANGED <<own, shown, mixed, loginVars>>

\* The client connects again, to the map address it was sent, which is the char
\* listener's, and asks to enter.
EnterMap(c) ==
  /\ phase[c] = "map"
  /\ \/ /\ Char!TakenAsEnter("enter") /\ Char!Enter(TRUE)
        /\ To(c, "in game")
        /\ shown' = [shown EXCEPT ![c] = charAccount]
     \/ /\ ~Char!TakenAsEnter("enter") /\ UNCHANGED charVars
        /\ To(c, "ignored")
        /\ UNCHANGED shown
  /\ expectChar' = FALSE
  /\ UNCHANGED <<own, mixed, awaiting, account, nextAccount, tokens, logins, given>>

\* A client in the game sends game packets, on its map connection.
Play(c) ==
  /\ phase[c] = "in game"
  /\ Char!Handle("other", 0, FALSE)
  /\ UNCHANGED <<clientVars, loginVars>>

-------------------------------------------------------------------------------
(* clients that follow no order *)

\* On a login connection; it may go on to the char listener or not.
UnrulyLogin(c) ==
  /\ phase[c] = "unruly"
  /\ \/ Login!Unhandled(c)
     \/ tokens < MaxTokens /\ Login!TokenRequest(c)
     \/ Login!MasterLogin(c)
     \/ Login!TakeExpect
  /\ UNCHANGED <<clientVars, charVars>>

\* On a char or map connection, with any account.
UnrulyChar(c) ==
  /\ phase[c] = "unruly"
  /\ \E op \in Char!Ops, a \in 0..(Cardinality(Clients) + 1), a3 \in BOOLEAN :
       /\ op = "select server" => unlisted < MaxUnlisted
       /\ Char!Handle(op, a, a3)
  /\ UNCHANGED <<clientVars, loginVars>>

Leave(c) ==
  /\ c \in Connected
  /\ To(c, "left")
  /\ UNCHANGED <<own, shown, mixed, loginVars, charVars>>

Serve(c) ==
  \/ AskKey(c) \/ AskToken(c) \/ LogIn(c)
  \/ ConnectChar(c) \/ SelectServer(c) \/ AskList(c) \/ PickChar(c) \/ EnterMap(c)

Unruly(c) == UnrulyLogin(c) \/ UnrulyChar(c)

Next == \E c \in Clients : Arrive(c) \/ Serve(c) \/ Play(c) \/ Unruly(c) \/ Leave(c)

Spec == Init /\ [][Next]_vars

\* The io loop handles each request that was sent, and a client that was
\* answered sends its next one; it may break off all the same.
FairSpec == Spec /\ \A c \in Clients : WF_vars(Serve(c))

-------------------------------------------------------------------------------
TypeOK ==
  /\ Login!TypeOK /\ Char!TypeOK
  /\ phase \in [Clients -> Requests \cup {"away", "unruly", "in game", "ignored", "misled", "left"}]
  /\ own \in [Clients -> Nat]
  /\ shown \in [Clients -> Nat]
  /\ mixed \in BOOLEAN

\* Whatever the clients send on the login connections, and in whatever order, a
\* token lets one login pass and no two logins share an account.
EachLoginOnce == Login!OneLoginPerToken /\ Login!AccountsDistinct

\* Whatever they send on the char connections, a redirect leads to one map entry
\* and at its fixed spot, and a server selection to at most one list on request.
EachRequestOnce ==
  /\ Char!RedirectArmed
  /\ Char!EachRedirectEntersOnce
  /\ Char!SpotIsFixed
  /\ Char!ListResentOnce

\* Clients that come one after another are served in order, wherever they break
\* off: what one leaves behind in the flows (a token not used, a list not asked
\* for, its account) does not make them ignore the next one's request or send it
\* into the map before it asks.  What does is a redirect left outstanding,
\* another client connected at the same time, or an unruly one.
ServedInOrder == ~mixed => \A c \in Clients : phase[c] \notin {"ignored", "misled"}

\* As long as clients come one after another, the account a client sees in the
\* map is the one it was logged in with.
OwnAccount == ~mixed => \A c \in Clients : phase[c] = "in game" => shown[c] = own[c]

\* A client that comes alone and does not break off reaches the map.
ReachesMap ==
  \A c \in Clients : phase[c] = "token" ~> (phase[c] \in {"in game", "left"} \/ mixed)
===============================================================================
