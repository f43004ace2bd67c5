-------------------------- MODULE ClientPhases_proofs --------------------------
(***************************************************************************)
(* Proofs about the clients' side of the flows.  First ClientPhases, for   *)
(* any number of clients, connected in any number at a time; then the      *)
(* packets the flows send, of which ClientPhases says only the order.      *)
(*                                                                         *)
(* ClientPhases: clients that come one after another find the flows in a   *)
(* state that fits their next request, whatever the clients before them    *)
(* have left there; the invariant says which state that is.                *)
(***************************************************************************)
EXTENDS ClientPhases, Packets, FiniteSetTheorems, TLAPS

Phases == Requests \cup {"away", "unruly", "in game", "ignored", "misled", "left"}

Typed ==
  /\ phase \in [Clients -> Phases]
  /\ own \in [Clients -> Nat]
  /\ shown \in [Clients -> Nat]
  /\ mixed \in BOOLEAN
  /\ awaiting \in BOOLEAN /\ expecting \in BOOLEAN /\ first \in BOOLEAN
  /\ nextAccount \in Nat \ {0}
  /\ charAccount \in Nat

\* A client that the flows are ready for.
OnCourse(c) ==
  /\ phase[c] \notin {"unruly", "ignored", "misled"}
  /\ phase[c] = "master" => awaiting
  /\ expecting <=> phase[c] = "map"
  /\ phase[c] \in {"char", "server", "list", "pick", "map"} => own[c] # 0
  /\ phase[c] \in {"list", "pick", "map"} => charAccount = own[c]
  /\ phase[c] = "in game" => shown[c] = own[c]

Alone == \A c, d \in Connected : c = d

IInv ==
  /\ Typed
  /\ expecting <=> first
  /\ ~mixed => Alone /\ \A c \in Connected : OnCourse(c)

-------------------------------------------------------------------------------
LEMMA InitIInv == Init => IInv
<1> SUFFICES ASSUME Init PROVE IInv
  OBVIOUS
<1>1. mixed \in BOOLEAN /\ awaiting \in BOOLEAN /\ expecting \in BOOLEAN /\ first \in BOOLEAN
  BY DEF Init, Login!Init, Char!Init
<1>2. Typed
  BY <1>1 DEF Init, Typed, Phases, Login!Init, Char!Init
<1>3. expecting <=> first
  BY DEF Init, Char!Init
<1>4. Connected = {}
  BY DEF Init, Connected
<1> QED BY <1>2, <1>3, <1>4 DEF IInv, Alone

\* The one client that is there goes on to `p'.
LEMMA GoesOn ==
  ASSUME Typed, NEW c \in Clients, NEW p \in Phases, To(c, p),
         c \in Connected \/ Connected = {},
         Alone
  PROVE  /\ Connected' \subseteq {c}
         /\ phase'[c] = p
         /\ phase' \in [Clients -> Phases]
  BY DEF Typed, To, Connected, Alone

\* A step of a client that is served.
LEMMA ServeKeeps ==
  ASSUME IInv, NEW c \in Clients, c \in Connected, NEW p \in Phases, To(c, p),
         mixed' = mixed, Typed', (expecting <=> first)',
         ~mixed /\ phase'[c] = p => OnCourse(c)' \/ p = "left"
  PROVE  IInv'
<1>1. CASE mixed
  BY <1>1 DEF IInv
<1>2. CASE ~mixed
  <2>1. Connected' \subseteq {c} /\ phase'[c] = p
    BY <1>2, GoesOn DEF IInv
  <2>2. p = "left" => c \notin Connected'
    BY <2>1 DEF Connected
  <2>3. OnCourse(c)' \/ p = "left"
    BY <1>2, <2>1
  <2>4. Alone' /\ \A d \in Connected' : OnCourse(d)'
    BY <2>1, <2>2, <2>3 DEF Alone
  <2> QED BY <2>4 DEF IInv
<1> QED BY <1>1, <1>2 DEF IInv, Typed

LEMMA ArriveKeeps == ASSUME IInv, NEW c \in Clients, Arrive(c) PROVE IInv'
<1> USE DEF clientVars, loginVars, charVars
<1>1. PICK p \in {"key", "token", "unruly"} :
        To(c, p) /\ mixed' = (mixed \/ Connected # {} \/ expecting \/ p = "unruly")
  BY DEF Arrive
<1>2. phase' \in [Clients -> Phases]
  BY <1>1 DEF IInv, Typed, To, Phases, Requests
<1>3. mixed' \in BOOLEAN
  BY <1>1
<1>4. Typed' /\ (expecting <=> first)'
  BY <1>2, <1>3 DEF Arrive, IInv, Typed
<1>5. CASE mixed'
  BY <1>4, <1>5 DEF IInv
<1>6. CASE ~mixed'
  <2>1. ~mixed /\ Connected = {} /\ ~expecting /\ p # "unruly"
    BY <1>1, <1>6
  <2>2. Connected' \subseteq {c} /\ phase'[c] = p
    BY <1>1, <2>1, GoesOn DEF IInv, Phases, Requests
  <2>3. OnCourse(c)'
    BY <2>1, <2>2 DEF Arrive, OnCourse
  <2>4. Alone' /\ \A d \in Connected' : OnCourse(d)'
    BY <2>2, <2>3 DEF Alone
  <2> QED BY <1>4, <2>4 DEF IInv
<1> QED BY <1>3, <1>5, <1>6

\* The client's request is the first packet of the map after a redirect.
LEMMA MisledKeeps ==
  ASSUME IInv, NEW c \in Clients, NEW op, Misled(c, op),
         c \in Connected, phase[c] # "map", op # "enter",
         UNCHANGED <<own, shown, mixed, loginVars>>
  PROVE  IInv'
<1> USE DEF loginVars
<1>1. To(c, "misled") /\ expecting /\ expecting' = FALSE /\ first' = FALSE
      /\ charAccount' = charAccount
  BY DEF Misled, Char!TakenAsEnter, Char!Enter
<1>2. Typed'
  BY <1>1 DEF IInv, Typed, To, Phases
<1>3. mixed
  BY <1>1 DEF IInv, OnCourse
<1> QED BY <1>1, <1>2, <1>3, ServeKeeps DEF Phases

LEMMA LoginKeeps ==
  ASSUME IInv, NEW c \in Clients, AskKey(c) \/ AskToken(c) \/ LogIn(c) \/ ConnectChar(c)
  PROVE  IInv'
<1> USE DEF clientVars, loginVars, charVars, Phases, Requests
<1>1. c \in Connected
  BY DEF AskKey, AskToken, LogIn, ConnectChar, Connected
<1>2. CASE AskKey(c)
  <2>1. Typed' /\ (expecting <=> first)'
    BY <1>2 DEF AskKey, Login!SecureHandshake, Login!vars, To, IInv, Typed
  <2>2. phase'[c] = "token" /\ ~mixed => OnCourse(c)'
    BY <1>1, <1>2 DEF AskKey, Login!SecureHandshake, Login!vars, IInv, OnCourse
  <2> QED BY <1>1, <1>2, <2>1, <2>2, ServeKeeps DEF AskKey
<1>3. CASE AskToken(c)
  <2>1. Typed' /\ (expecting <=> first)'
    BY <1>3 DEF AskToken, Login!TokenRequest, To, IInv, Typed
  <2>2. phase'[c] = "master" /\ ~mixed => OnCourse(c)'
    BY <1>1, <1>3 DEF AskToken, Login!TokenRequest, IInv, OnCourse
  <2> QED BY <1>1, <1>3, <2>1, <2>2, ServeKeeps DEF AskToken
<1>4. CASE LogIn(c)
  <2>1. CASE Login!MasterIgnored(c) /\ To(c, "ignored") /\ UNCHANGED own
    <3>1. Typed' /\ (expecting <=> first)'
      BY <1>4, <2>1 DEF LogIn, Login!MasterIgnored, Login!vars, To, IInv, Typed
    <3>2. mixed
      BY <1>1, <1>4, <2>1 DEF LogIn, Login!MasterIgnored, IInv, OnCourse
    <3> QED BY <1>1, <1>4, <2>1, <3>1, <3>2, ServeKeeps DEF LogIn
  <2>2. CASE /\ Login!MasterTaken(c)
             /\ To(c, "char")
             /\ own' = [own EXCEPT ![c] = nextAccount]
    <3>1. Typed' /\ (expecting <=> first)'
      <4>1. awaiting' \in BOOLEAN
        BY <2>2 DEF Login!MasterTaken
      <4>2. nextAccount' \in Nat \ {0} /\ own' \in [Clients -> Nat]
        <5>1. nextAccount' = nextAccount + 1
          BY <2>2 DEF Login!MasterTaken
        <5>2. nextAccount \in Nat \ {0} /\ own \in [Clients -> Nat]
          BY DEF IInv, Typed
        <5> QED BY <2>2, <5>1, <5>2
      <4>3. phase' \in [Clients -> Phases]
        BY <2>2 DEF To, IInv, Typed
      <4>4. UNCHANGED <<shown, mixed, expecting, first, charAccount>>
        BY <1>4 DEF LogIn
      <4>5. mixed' \in BOOLEAN /\ expecting' \in BOOLEAN /\ first' \in BOOLEAN
        BY <4>4 DEF IInv, Typed
      <4>6. shown' \in [Clients -> Nat] /\ charAccount' \in Nat /\ (expecting <=> first)'
        BY <4>4 DEF IInv, Typed
      <4> QED BY <4>1, <4>2, <4>3, <4>5, <4>6 DEF Typed
    <3>2. own'[c] # 0
      BY <2>2 DEF IInv, Typed
    <3>3. phase'[c] = "char" /\ ~mixed => OnCourse(c)'
      BY <1>1, <1>4, <2>2, <3>2 DEF LogIn, Login!MasterTaken, IInv, OnCourse
    <3> QED BY <1>1, <1>4, <2>2, <3>1, <3>3, ServeKeeps DEF LogIn
  <2> QED BY <1>4, <2>1, <2>2 DEF LogIn
<1>5. CASE ConnectChar(c)
  <2>1. Typed' /\ (expecting <=> first)'
    BY <1>5 DEF ConnectChar, Login!TakeExpect, To, IInv, Typed
  <2>2. phase'[c] = "server" /\ ~mixed => OnCourse(c)'
    BY <1>1, <1>5 DEF ConnectChar, Login!TakeExpect, IInv, OnCourse
  <2> QED BY <1>1, <1>5, <2>1, <2>2, ServeKeeps DEF ConnectChar
<1> QED BY <1>2, <1>3, <1>4, <1>5

LEMMA SelectServerKeeps == ASSUME IInv, NEW c \in Clients, SelectServer(c) PROVE IInv'
<1> USE DEF loginVars, Phases, Requests
<1>1. c \in Connected
  BY DEF SelectServer, Connected
<1>2. CASE Misled(c, "select server")
  BY <1>1, <1>2, MisledKeeps DEF SelectServer
<1>3. CASE /\ ~Char!TakenAsEnter("select server")
           /\ Char!ServerSelected(own[c])
           /\ To(c, "list") \/ To(c, "pick")
  <2>1. PICK p \in {"list", "pick"} : To(c, p)
    BY <1>3
  <2>2. charAccount' \in Nat /\ (own[c] # 0 => charAccount' = own[c])
    BY <1>3 DEF Char!ServerSelected, IInv, Typed
  <2>3. expecting' = expecting /\ first' = first
    BY <1>3 DEF Char!ServerSelected
  <2>4. Typed' /\ (expecting <=> first)'
    BY <2>1, <2>2, <2>3 DEF SelectServer, To, IInv, Typed
  <2>5. phase'[c] = p /\ ~mixed => OnCourse(c)'
    BY <1>1, <2>2, <2>3 DEF SelectServer, IInv, OnCourse
  <2> QED BY <1>1, <2>1, <2>4, <2>5, ServeKeeps DEF SelectServer
<1> QED BY <1>2, <1>3 DEF SelectServer

LEMMA AskListKeeps == ASSUME IInv, NEW c \in Clients, AskList(c) PROVE IInv'
<1> USE DEF loginVars, Phases, Requests
<1>1. c \in Connected
  BY DEF AskList, Connected
<1>2. CASE Misled(c, "list")
  BY <1>1, <1>2, MisledKeeps DEF AskList
<1>3. CASE ~Char!TakenAsEnter("list") /\ Char!CharListReq /\ To(c, "pick")
  <2>1. charAccount' = charAccount /\ expecting' = expecting /\ first' = first
    BY <1>3 DEF Char!CharListReq, Char!vars
  <2>2. Typed' /\ (expecting <=> first)'
    BY <1>3, <2>1 DEF AskList, To, IInv, Typed
  <2>3. phase'[c] = "pick" /\ ~mixed => OnCourse(c)'
    BY <1>1, <2>1 DEF AskList, IInv, OnCourse
  <2> QED BY <1>1, <1>3, <2>2, <2>3, ServeKeeps DEF AskList
<1> QED BY <1>2, <1>3 DEF AskList

LEMMA PickCharKeeps == ASSUME IInv, NEW c \in Clients, PickChar(c) PROVE IInv'
<1> USE DEF loginVars, Phases, Requests
<1>1. c \in Connected
  BY DEF PickChar, Connected
<1>2. CASE Misled(c, "select char")
  BY <1>1, <1>2, MisledKeeps DEF PickChar
<1>3. CASE ~Char!TakenAsEnter("select char") /\ Char!CharSelected /\ To(c, "map")
  <2>1. charAccount' = charAccount /\ expecting' = TRUE /\ first' = TRUE
    BY <1>3 DEF Char!CharSelected
  <2>2. Typed' /\ (expecting <=> first)'
    BY <1>3, <2>1 DEF PickChar, To, IInv, Typed
  <2>3. phase'[c] = "map" /\ ~mixed => OnCourse(c)'
    BY <1>1, <2>1 DEF PickChar, IInv, OnCourse
  <2> QED BY <1>1, <1>3, <2>2, <2>3, ServeKeeps DEF PickChar
<1> QED BY <1>2, <1>3 DEF PickChar

LEMMA EnterMapKeeps == ASSUME IInv, NEW c \in Clients, EnterMap(c) PROVE IInv'
<1> USE DEF charVars, Phases, Requests
<1>1. c \in Connected
  BY DEF EnterMap, Connected
<1>2. CASE /\ Char!TakenAsEnter("enter") /\ Char!Enter(TRUE)
           /\ To(c, "in game")
           /\ shown' = [shown EXCEPT ![c] = charAccount]
  <2>1. charAccount' = charAccount /\ expecting' = FALSE /\ first' = FALSE
    BY <1>2 DEF Char!Enter
  <2>2. Typed' /\ (expecting <=> first)'
    BY <1>2, <2>1 DEF EnterMap, To, IInv, Typed
  <2>3. shown'[c] = charAccount
    BY <1>2 DEF IInv, Typed
  <2>4. phase'[c] = "in game" /\ ~mixed => OnCourse(c)'
    BY <1>1, <2>1, <2>3 DEF EnterMap, IInv, OnCourse
  <2> QED BY <1>1, <1>2, <2>2, <2>4, ServeKeeps DEF EnterMap
<1>3. CASE /\ ~Char!TakenAsEnter("enter") /\ UNCHANGED charVars
           /\ To(c, "ignored")
           /\ UNCHANGED shown
  <2>1. Typed' /\ (expecting <=> first)'
    BY <1>3 DEF EnterMap, To, IInv, Typed
  <2>2. mixed
    BY <1>1, <1>3 DEF EnterMap, Char!TakenAsEnter, IInv, OnCourse
  <2> QED BY <1>1, <1>3, <2>1, <2>2, ServeKeeps DEF EnterMap
<1> QED BY <1>2, <1>3 DEF EnterMap

\* While clients come one after another no redirect is outstanding in the game.
LEMMA PlayKeeps == ASSUME IInv, NEW c \in Clients, Play(c) PROVE IInv'
<1> USE DEF clientVars, loginVars
<1>1. c \in Connected
  BY DEF Play, Connected
<1>2. CASE Char!TakenAsEnter("other") /\ Char!Enter(FALSE)
  <2>1. expecting /\ expecting' = FALSE /\ first' = FALSE /\ charAccount' = charAccount
    BY <1>2 DEF Char!TakenAsEnter, Char!Enter
  <2>2. mixed
    BY <1>1, <2>1 DEF Play, IInv, OnCourse
  <2>3. Typed'
    BY <2>1 DEF Play, IInv, Typed
  <2> QED BY <2>1, <2>2, <2>3 DEF Play, IInv
<1>3. CASE UNCHANGED Char!vars
  BY <1>3 DEF Play, Char!vars, IInv, Typed, Alone, Connected, OnCourse
<1> QED BY <1>2, <1>3 DEF Play, Char!Handle

\* An unruly client has been mixed in; what it sends keeps the types.
LEMMA UnrulyKeeps == ASSUME IInv, NEW c \in Clients, Unruly(c) PROVE IInv'
<1> USE DEF clientVars, loginVars, charVars
<1>1. mixed /\ mixed' = mixed
  BY DEF Unruly, UnrulyLogin, UnrulyChar, IInv, Connected, OnCourse
<1>2. CASE UnrulyLogin(c)
  <2>1. awaiting' \in BOOLEAN
    BY <1>2 DEF UnrulyLogin, Login!Unhandled, Login!TokenRequest, Login!MasterLogin,
                Login!MasterIgnored, Login!MasterTaken, Login!TakeExpect, Login!vars, IInv, Typed
  <2>2. nextAccount' \in Nat \ {0}
    <3>1. nextAccount' = nextAccount \/ nextAccount' = nextAccount + 1
      BY <1>2 DEF UnrulyLogin, Login!Unhandled, Login!TokenRequest, Login!MasterLogin,
                  Login!MasterIgnored, Login!MasterTaken, Login!TakeExpect, Login!vars
    <3>2. nextAccount \in Nat \ {0}
      BY DEF IInv, Typed
    <3> QED BY <3>1, <3>2
  <2>3. UNCHANGED <<phase, own, shown, mixed, expecting, first, charAccount>>
    BY <1>2 DEF UnrulyLogin
  <2> QED BY <1>1, <2>1, <2>2, <2>3 DEF IInv, Typed
<1>3. CASE UnrulyChar(c)
  <2>1. PICK op \in Char!Ops, a \in 0..(Cardinality(Clients) + 1), a3 \in BOOLEAN :
          Char!Handle(op, a, a3)
    BY <1>3 DEF UnrulyChar
  <2>2. a \in Nat
    <3>1. Cardinality(Clients) \in Nat
      BY PhasesAssumption, FS_CardinalityType
    <3> QED BY <3>1
  <2>3. /\ expecting' \in BOOLEAN /\ first' \in BOOLEAN /\ (expecting <=> first)'
        /\ charAccount' \in Nat
    <3>1. \/ expecting' = FALSE /\ first' = FALSE
          \/ expecting' = TRUE /\ first' = TRUE
          \/ expecting' = expecting /\ first' = first
      BY <2>1 DEF Char!Handle, Char!Enter, Char!ServerSelected, Char!CharListReq,
                  Char!CharSelected, Char!vars
    <3>2. charAccount' = charAccount \/ charAccount' = a
      BY <2>1 DEF Char!Handle, Char!Enter, Char!ServerSelected, Char!CharListReq,
                  Char!CharSelected, Char!vars
    <3>3. charAccount' \in Nat
      BY <2>2, <3>2 DEF IInv, Typed
    <3>4. expecting \in BOOLEAN /\ first \in BOOLEAN /\ (expecting <=> first)
      BY DEF IInv, Typed
    <3>5. expecting' \in BOOLEAN /\ first' \in BOOLEAN /\ (expecting' <=> first')
      <4>1. CASE expecting' = FALSE /\ first' = FALSE
        BY <4>1
      <4>2. CASE expecting' = TRUE /\ first' = TRUE
        BY <4>2
      <4>3. CASE expecting' = expecting /\ first' = first
        BY <3>4, <4>3
      <4> QED BY <3>1, <4>1, <4>2, <4>3
    <3> QED BY <3>3, <3>5
  <2>4. UNCHANGED <<phase, own, shown, mixed, awaiting, nextAccount>>
    BY <1>3 DEF UnrulyChar
  <2>5. awaiting' \in BOOLEAN /\ mixed' \in BOOLEAN
    BY <2>4 DEF IInv, Typed
  <2> QED BY <1>1, <2>3, <2>4, <2>5 DEF IInv, Typed
<1> QED BY <1>2, <1>3 DEF Unruly

LEMMA LeaveKeeps == ASSUME IInv, NEW c \in Clients, Leave(c) PROVE IInv'
<1> USE DEF loginVars, charVars, Phases
<1>1. Typed' /\ (expecting <=> first)'
  BY DEF Leave, To, IInv, Typed
<1> QED BY <1>1, ServeKeeps DEF Leave

LEMMA NextIInv == IInv /\ [Next]_vars => IInv'
<1> SUFFICES ASSUME IInv, [Next]_vars PROVE IInv'
  OBVIOUS
<1>1. CASE UNCHANGED vars
  BY <1>1 DEF vars, clientVars, loginVars, charVars, IInv, Typed, Alone, Connected, OnCourse
<1> QED BY <1>1, ArriveKeeps, LoginKeeps, SelectServerKeeps, AskListKeeps, PickCharKeeps,
          EnterMapKeeps, PlayKeeps, UnrulyKeeps, LeaveKeeps DEF Next, Serve

LEMMA Invariance == Spec => []IInv
  BY InitIInv, NextIInv, PTL DEF Spec

-------------------------------------------------------------------------------
(* The flows by themselves, whatever their clients send. *)

LoginInv ==
  /\ awaiting \in BOOLEAN
  /\ tokens \in Nat /\ logins \in Nat
  /\ awaiting => logins + 1 <= tokens
  /\ ~awaiting => logins <= tokens

\* Accounts are counted with the logins, so a new one is nobody's.
AccountsInv ==
  /\ logins \in Nat
  /\ nextAccount = logins + 1
  /\ given \in [Clients -> SUBSET (1..logins)]
  /\ \A s, t \in Clients : s # t => given[s] \cap given[t] = {}
  /\ \A n \in 1..logins : \E s \in Clients : n \in given[s]

CharInv ==
  /\ expecting \in BOOLEAN /\ first \in BOOLEAN /\ spawn \in BOOLEAN
  /\ expecting <=> first
  /\ expecting <=> spawn
  /\ expecting => outstanding = 1
  /\ ~expecting => outstanding = 0
  /\ spot \in {"none", "fixed"}

ListInv ==
  /\ awaitingList \in BOOLEAN
  /\ unlisted \in Int
  /\ awaitingList => unlisted >= 1
  /\ ~awaitingList => unlisted >= 0

LoginStep ==
  \/ UNCHANGED <<awaiting, account, tokens, logins, nextAccount, given>>
  \/ \E c \in Clients : Login!TokenRequest(c) \/ Login!MasterTaken(c)

CharStep ==
  \/ UNCHANGED <<expecting, first, spawn, outstanding, spot>>
  \/ ~(expecting /\ first) /\ Char!CharSelected
  \/ expecting /\ \E a3 \in BOOLEAN : Char!Enter(a3)

ListStep ==
  \/ UNCHANGED <<awaitingList, unlisted>>
  \/ \E a : Char!ServerSelected(a)
  \/ awaitingList /\ Char!CharListReq

\* A step of the system is at most one of these in each flow.
LEMMA StepsOfFlows == [Next]_vars => LoginStep /\ CharStep
<1> SUFFICES ASSUME [Next]_vars PROVE LoginStep /\ CharStep
  OBVIOUS
<1> USE DEF LoginStep, CharStep, loginVars, charVars
<1>1. ASSUME NEW c \in Clients, Arrive(c) \/ Leave(c) PROVE LoginStep /\ CharStep
  BY <1>1 DEF Arrive, Leave
<1>2. ASSUME NEW c \in Clients, AskKey(c) \/ AskToken(c) \/ LogIn(c) \/ ConnectChar(c)
      PROVE  LoginStep /\ CharStep
  BY <1>2 DEF AskKey, AskToken, LogIn, ConnectChar, Login!SecureHandshake,
              Login!MasterIgnored, Login!TakeExpect, Login!vars
<1>3. ASSUME NEW c \in Clients, SelectServer(c) \/ AskList(c) \/ PickChar(c)
      PROVE  LoginStep /\ CharStep
  BY <1>3 DEF SelectServer, AskList, PickChar, Misled, Char!TakenAsEnter,
              Char!ServerSelected, Char!CharListReq, Char!vars
<1>4. ASSUME NEW c \in Clients, EnterMap(c) PROVE LoginStep /\ CharStep
  BY <1>4 DEF EnterMap, Char!TakenAsEnter
<1>5. ASSUME NEW c \in Clients, Play(c) PROVE LoginStep /\ CharStep
  BY <1>5 DEF Play, Char!Handle, Char!TakenAsEnter, Char!ServerSelected,
              Char!CharListReq, Char!vars
<1>6. ASSUME NEW c \in Clients, UnrulyLogin(c) PROVE LoginStep /\ CharStep
  BY <1>6 DEF UnrulyLogin, Login!Unhandled, Login!MasterLogin, Login!MasterIgnored,
              Login!TakeExpect, Login!vars
<1>7. ASSUME NEW c \in Clients, UnrulyChar(c) PROVE LoginStep /\ CharStep
  BY <1>7 DEF UnrulyChar, Char!Handle, Char!TakenAsEnter, Char!ServerSelected,
              Char!CharListReq, Char!vars
<1>8. CASE UNCHANGED vars
  BY <1>8 DEF vars
<1> QED BY <1>1, <1>2, <1>3, <1>4, <1>5, <1>6, <1>7, <1>8 DEF Next, Serve, Unruly

\* ... and at most one of these to the list a server selection owes.
LEMMA StepsOfList == [Next]_vars => ListStep
<1> SUFFICES ASSUME [Next]_vars PROVE ListStep
  OBVIOUS
<1> USE DEF ListStep, charVars
<1>1. ASSUME NEW c \in Clients, Arrive(c) \/ Leave(c) \/ AskKey(c) \/ AskToken(c)
                                \/ LogIn(c) \/ ConnectChar(c) \/ UnrulyLogin(c)
      PROVE  ListStep
  BY <1>1 DEF Arrive, Leave, AskKey, AskToken, LogIn, ConnectChar, UnrulyLogin
<1>2. ASSUME NEW c \in Clients, SelectServer(c) PROVE ListStep
  BY <1>2 DEF SelectServer, Misled, Char!Enter
<1>3. ASSUME NEW c \in Clients, AskList(c) PROVE ListStep
  BY <1>3 DEF AskList, Misled, Char!Enter, Char!CharListReq, Char!vars
<1>4. ASSUME NEW c \in Clients, PickChar(c) \/ EnterMap(c) PROVE ListStep
  BY <1>4 DEF PickChar, EnterMap, Misled, Char!Enter, Char!CharSelected
<1>5. ASSUME NEW op, NEW a, NEW a3, Char!Handle(op, a, a3) PROVE ListStep
  BY <1>5 DEF Char!Handle, Char!Enter, Char!CharSelected, Char!CharListReq, Char!vars
<1>6. ASSUME NEW c \in Clients, Play(c) \/ UnrulyChar(c) PROVE ListStep
  BY <1>5, <1>6 DEF Play, UnrulyChar
<1>7. CASE UNCHANGED vars
  BY <1>7 DEF vars
<1> QED BY <1>1, <1>2, <1>3, <1>4, <1>6, <1>7 DEF Next, Serve, Unruly

LEMMA ListInvKeeps == ListInv /\ ListStep => ListInv'
<1> SUFFICES ASSUME ListInv, ListStep PROVE ListInv'
  OBVIOUS
<1>1. CASE UNCHANGED <<awaitingList, unlisted>>
  BY <1>1 DEF ListInv
<1>2. ASSUME NEW a, Char!ServerSelected(a) PROVE ListInv'
  <2>1. awaitingList' /\ awaitingList' \in BOOLEAN
    BY <1>2 DEF Char!ServerSelected
  <2>2. unlisted' = unlisted + 1
    BY <1>2 DEF Char!ServerSelected
  <2>3. unlisted \in Int /\ unlisted >= 0
    <3>1. unlisted \in Int
      BY DEF ListInv
    <3>2. CASE awaitingList
      BY <3>1, <3>2 DEF ListInv
    <3>3. CASE ~awaitingList
      BY <3>1, <3>3 DEF ListInv
    <3> QED BY <3>1, <3>2, <3>3
  <2>4. unlisted' \in Int /\ unlisted' >= 1
    BY <2>2, <2>3
  <2> QED BY <2>1, <2>4 DEF ListInv
<1>3. CASE awaitingList /\ Char!CharListReq
  <2>1. ~awaitingList' /\ awaitingList' \in BOOLEAN
    BY <1>3 DEF Char!CharListReq
  <2>2. unlisted' = unlisted - 1
    BY <1>3 DEF Char!CharListReq
  <2>3. unlisted \in Int /\ unlisted >= 1
    BY <1>3 DEF ListInv
  <2>4. unlisted' \in Int /\ unlisted' >= 0
    BY <2>2, <2>3
  <2> QED BY <2>1, <2>4 DEF ListInv
<1> QED BY <1>1, <1>2, <1>3 DEF ListStep

LEMMA AccountsInvKeeps == AccountsInv /\ LoginStep => AccountsInv'
<1> SUFFICES ASSUME AccountsInv, LoginStep PROVE AccountsInv'
  OBVIOUS
<1>1. CASE UNCHANGED <<logins, nextAccount, given>>
  BY <1>1 DEF AccountsInv
<1>2. ASSUME NEW c \in Clients, Login!MasterTaken(c) PROVE AccountsInv'
  <2>1. /\ logins \in Nat /\ logins' = logins + 1
        /\ nextAccount = logins + 1 /\ nextAccount' = logins + 2
    BY <1>2 DEF AccountsInv, Login!MasterTaken
  <2>2. /\ given \in [Clients -> SUBSET (1..logins)]
        /\ given' = [given EXCEPT ![c] = @ \cup {nextAccount}]
    BY <1>2 DEF AccountsInv, Login!MasterTaken
  <2>3. \A s \in Clients :
          given'[s] = IF s = c THEN given[s] \cup {nextAccount} ELSE given[s]
    BY <2>2
  <2>4. 1..logins' = 1..logins \cup {nextAccount} /\ nextAccount \notin 1..logins
    BY <2>1
  <2>5. \A s \in Clients : given[s] \subseteq 1..logins
    BY <2>2
  <2>6. given' \in [Clients -> SUBSET (1..logins')]
    <3>1. \A s \in Clients : given'[s] \subseteq 1..logins'
      BY <2>3, <2>4, <2>5
    <3>2. given' = [s \in Clients |-> given'[s]]
      BY <2>2
    <3> QED BY <3>1, <3>2
  <2>7. \A s, t \in Clients : s # t => given'[s] \cap given'[t] = {}
    <3>1. \A s, t \in Clients : s # t => given[s] \cap given[t] = {}
      BY DEF AccountsInv
    <3>2. \A s \in Clients : nextAccount \notin given[s]
      BY <2>4, <2>5
    <3> QED BY <2>3, <3>1, <3>2
  <2>8. \A n \in 1..logins' : \E s \in Clients : n \in given'[s]
    <3>1. \A n \in 1..logins : \E s \in Clients : n \in given[s]
      BY DEF AccountsInv
    <3>2. nextAccount \in given'[c]
      BY <2>3
    <3>3. \A s \in Clients : given[s] \subseteq given'[s]
      BY <2>3
    <3> QED BY <2>4, <3>1, <3>2, <3>3
  <2>9. logins' \in Nat /\ nextAccount' = logins' + 1
    BY <2>1
  <2> QED BY <2>6, <2>7, <2>8, <2>9 DEF AccountsInv
<1>3. ASSUME NEW c \in Clients, Login!TokenRequest(c) PROVE AccountsInv'
  BY <1>1, <1>3 DEF Login!TokenRequest
<1> QED BY <1>1, <1>2, <1>3 DEF LoginStep

LEMMA LoginInvKeeps == LoginInv /\ LoginStep => LoginInv'
<1> SUFFICES ASSUME LoginInv, LoginStep PROVE LoginInv'
  OBVIOUS
<1>1. CASE UNCHANGED <<awaiting, account, tokens, logins, nextAccount, given>>
  BY <1>1 DEF LoginInv
<1>2. ASSUME NEW c \in Clients, Login!TokenRequest(c) PROVE LoginInv'
  <2>1. awaiting' /\ awaiting' \in BOOLEAN
    BY <1>2 DEF Login!TokenRequest
  <2>2. tokens' = tokens + 1 /\ logins' = logins
    BY <1>2 DEF Login!TokenRequest
  <2>3. logins <= tokens /\ tokens \in Nat /\ logins \in Nat
    BY DEF LoginInv
  <2>4. tokens' \in Nat /\ logins' \in Nat /\ logins' + 1 <= tokens'
    BY <2>2, <2>3
  <2> QED BY <2>1, <2>4 DEF LoginInv
<1>3. ASSUME NEW c \in Clients, Login!MasterTaken(c) PROVE LoginInv'
  <2>1. ~awaiting' /\ awaiting' \in BOOLEAN
    BY <1>3 DEF Login!MasterTaken
  <2>2. tokens' = tokens /\ logins' = logins + 1
    BY <1>3 DEF Login!MasterTaken
  <2>3. logins + 1 <= tokens /\ tokens \in Nat /\ logins \in Nat
    BY <1>3 DEF LoginInv, Login!MasterTaken
  <2>4. tokens' \in Nat /\ logins' \in Nat /\ logins' <= tokens'
    BY <2>2, <2>3
  <2> QED BY <2>1, <2>4 DEF LoginInv
<1> QED BY <1>1, <1>2, <1>3 DEF LoginStep

LEMMA CharInvKeeps == CharInv /\ CharStep => CharInv'
<1> SUFFICES ASSUME CharInv, CharStep PROVE CharInv'
  OBVIOUS
<1>1. CASE UNCHANGED <<expecting, first, spawn, outstanding, spot>>
  BY <1>1 DEF CharInv
<1>2. CASE ~(expecting /\ first) /\ Char!CharSelected
  <2>1. outstanding' = 1
    <3>1. outstanding' = outstanding + 1
      BY <1>2 DEF Char!CharSelected
    <3>2. outstanding = 0
      BY <1>2 DEF CharInv
    <3> QED BY <3>1, <3>2
  <2>2. expecting' /\ first' /\ spawn'
        /\ expecting' \in BOOLEAN /\ first' \in BOOLEAN /\ spawn' \in BOOLEAN
    BY <1>2 DEF Char!CharSelected
  <2>3. spot' \in {"none", "fixed"}
    BY <1>2 DEF Char!CharSelected, CharInv
  <2> QED BY <2>1, <2>2, <2>3 DEF CharInv
<1>3. ASSUME expecting, NEW a3 \in BOOLEAN, Char!Enter(a3) PROVE CharInv'
  <2>1. outstanding' = 0
    <3>1. outstanding' = outstanding - 1
      BY <1>3 DEF Char!Enter
    <3>2. outstanding = 1
      BY <1>3 DEF CharInv
    <3> QED BY <3>1, <3>2
  <2>2. ~expecting' /\ ~first' /\ ~spawn'
        /\ expecting' \in BOOLEAN /\ first' \in BOOLEAN /\ spawn' \in BOOLEAN
    BY <1>3 DEF Char!Enter
  <2>3. spawn
    BY <1>3 DEF CharInv
  <2>4. spot' = "fixed"
    BY <1>3, <2>3 DEF Char!Enter
  <2> QED BY <2>1, <2>2, <2>4 DEF CharInv
<1> QED BY <1>1, <1>2, <1>3 DEF CharStep

LEMMA FlowInvariance == Spec => [](LoginInv /\ AccountsInv /\ CharInv /\ ListInv)
<1>1. Init => LoginInv /\ AccountsInv /\ CharInv /\ ListInv
  <2> SUFFICES ASSUME Init PROVE LoginInv /\ AccountsInv /\ CharInv /\ ListInv
    OBVIOUS
  <2>1. tokens = 0 /\ logins = 0 /\ outstanding = 0 /\ unlisted = 0 /\ nextAccount = 1
    BY DEF Init, Login!Init, Char!Init
  <2>2. /\ ~awaiting /\ ~expecting /\ ~first /\ ~spawn /\ ~awaitingList
        /\ awaiting \in BOOLEAN /\ expecting \in BOOLEAN /\ first \in BOOLEAN
        /\ spawn \in BOOLEAN /\ awaitingList \in BOOLEAN
    BY DEF Init, Login!Init, Char!Init
  <2>3. given = [s \in Clients |-> {}] /\ spot = "none"
    BY DEF Init, Login!Init, Char!Init
  <2>4. AccountsInv
    <3>1. 1..logins = {}
      BY <2>1
    <3>2. given \in [Clients -> SUBSET (1..logins)]
      BY <2>3
    <3>3. \A s, t \in Clients : s # t => given[s] \cap given[t] = {}
      BY <2>3
    <3>4. logins \in Nat /\ nextAccount = logins + 1
      BY <2>1
    <3> QED BY <3>1, <3>2, <3>3, <3>4 DEF AccountsInv
  <2> QED BY <2>1, <2>2, <2>3, <2>4 DEF LoginInv, CharInv, ListInv
<1> QED BY <1>1, StepsOfFlows, StepsOfList, LoginInvKeeps, AccountsInvKeeps, CharInvKeeps,
          ListInvKeeps, PTL DEF Spec

-------------------------------------------------------------------------------
\* However many clients come one after another, and wherever they break off,
\* none is ignored or sent on before it asks, unless a redirect was left behind.
THEOREM OneAfterAnother == Spec => []ServedInOrder
<1>1. IInv => ServedInOrder
  BY DEF IInv, ServedInOrder, Connected, OnCourse
<1> QED BY <1>1, Invariance, PTL

\* ... and each sees in the map the account it was logged in with.
THEOREM SeesOwnAccount == Spec => []OwnAccount
<1>1. IInv => OwnAccount
  BY DEF IInv, OwnAccount, Connected, OnCourse
<1> QED BY <1>1, Invariance, PTL

\* Whatever is sent and in whatever order, no token is good for two logins and no
\* account is given twice.
THEOREM TokensAreSpent == Spec => []EachLoginOnce
<1>1. LoginInv => Login!OneLoginPerToken
  BY DEF LoginInv, Login!OneLoginPerToken
<1>2. AccountsInv => Login!AccountsDistinct
  <2> SUFFICES ASSUME AccountsInv PROVE Login!AccountsDistinct
    OBVIOUS
  <2>1. UNION {given[s] : s \in Clients} = 1..logins
    <3>1. \A s \in Clients : given[s] \subseteq 1..logins
      BY DEF AccountsInv
    <3>2. \A n \in 1..logins : \E s \in Clients : n \in given[s]
      BY DEF AccountsInv
    <3> QED BY <3>1, <3>2
  <2> QED BY <2>1 DEF AccountsInv, Login!AccountsDistinct
<1> QED BY <1>1, <1>2, FlowInvariance, PTL DEF EachLoginOnce

\* ... and no redirect for two map entries, nor an entry for none; each puts the
\* character at the fixed spot; and a list is sent for a selection once.
THEOREM RedirectsAreSpent == Spec => []EachRequestOnce
<1>1. CharInv => Char!RedirectArmed /\ Char!SpotIsFixed
  BY DEF CharInv, Char!RedirectArmed, Char!SpotIsFixed
<1>2. CharInv => Char!EachRedirectEntersOnce
  BY DEF CharInv, Char!EachRedirectEntersOnce
<1>3. ListInv => Char!ListResentOnce
  BY DEF ListInv, Char!ListResentOnce
<1> QED BY <1>1, <1>2, <1>3, FlowInvariance, PTL DEF EachRequestOnce

-------------------------------------------------------------------------------
(* Types: the numbers the flows keep are bounded by the tokens, and those by *)
(* the clients that are past asking for one.                                 *)

PastToken == {c \in Clients : phase[c] \notin {"away", "key", "token", "unruly"}}

TokensBounded == tokens \in Nat /\ tokens <= MaxTokens + Cardinality(PastToken)

AccountBounded == account \in Nat /\ logins \in Nat /\ account <= logins

Marks == expectChar \in BOOLEAN /\ charAccount # 0

LEMMA PastTokenFinite ==
  /\ IsFiniteSet(PastToken) /\ Cardinality(PastToken) \in Nat
  /\ Cardinality(Clients) \in Nat
  /\ Cardinality(PastToken) <= Cardinality(Clients)
<1>1. PastToken \subseteq Clients
  BY DEF PastToken
<1>2. IsFiniteSet(Clients)
  BY PhasesAssumption
<1>3. IsFiniteSet(PastToken) /\ Cardinality(PastToken) <= Cardinality(Clients)
  BY <1>1, <1>2, FS_Subset
<1> QED BY <1>2, <1>3, FS_CardinalityType

\* A client that goes on is past asking for a token for good.
LEMMA PastTokenGrows ==
  ASSUME Typed, NEW c \in Clients, NEW p \in Phases, To(c, p),
         phase[c] \in {"away", "key", "token", "unruly"}
           \/ p \notin {"away", "key", "token", "unruly"}
  PROVE  PastToken \subseteq PastToken'
<1>1. \A d \in Clients : phase'[d] = IF d = c THEN p ELSE phase[d]
  BY DEF Typed, To
<1> QED BY <1>1 DEF PastToken

LEMMA LargerBound ==
  ASSUME TokensBounded, tokens' = tokens, PastToken \subseteq PastToken',
         PastToken' \subseteq Clients
  PROVE  TokensBounded'
<1>1. IsFiniteSet(PastToken')
  BY PhasesAssumption, FS_Subset
<1>2. Cardinality(PastToken) <= Cardinality(PastToken') /\ Cardinality(PastToken') \in Nat
  BY <1>1, FS_Subset, FS_CardinalityType
<1>3. tokens \in Nat /\ MaxTokens \in Nat /\ Cardinality(PastToken) \in Nat
      /\ tokens <= MaxTokens + Cardinality(PastToken)
  BY PastTokenFinite, PhasesAssumption DEF TokensBounded
<1>4. tokens' \in Nat /\ tokens' <= MaxTokens + Cardinality(PastToken')
  BY <1>2, <1>3
<1> QED BY <1>4 DEF TokensBounded

\* The phases of the clients only go on.
LEMMA PhasesGoOn ==
  ASSUME Typed, [Next]_vars
  PROVE  PastToken \subseteq PastToken'
<1> USE DEF Phases, Requests
<1>1. ASSUME NEW c \in Clients, Arrive(c) \/ Leave(c) PROVE PastToken \subseteq PastToken'
  <2>1. PICK p \in {"key", "token", "unruly", "left"} :
          To(c, p) /\ (phase[c] = "away" \/ p = "left")
    BY <1>1 DEF Arrive, Leave
  <2> QED BY <2>1, PastTokenGrows
<1>2. ASSUME NEW c \in Clients, Serve(c) PROVE PastToken \subseteq PastToken'
  <2>1. CASE AskKey(c)
    <3>1. To(c, "token") /\ phase[c] = "key"
      BY <2>1 DEF AskKey
    <3> QED BY <3>1, PastTokenGrows
  <2>2. CASE AskToken(c) \/ LogIn(c) \/ ConnectChar(c)
    <3>1. PICK p \in {"master", "ignored", "char", "server"} : To(c, p)
      BY <2>2 DEF AskToken, LogIn, ConnectChar
    <3> QED BY <3>1, PastTokenGrows
  <2>3. CASE SelectServer(c) \/ AskList(c) \/ PickChar(c) \/ EnterMap(c)
    <3>1. PICK p \in {"misled", "list", "pick", "map", "in game", "ignored"} : To(c, p)
      BY <2>3 DEF SelectServer, AskList, PickChar, EnterMap, Misled
    <3> QED BY <3>1, PastTokenGrows
  <2> QED BY <1>2, <2>1, <2>2, <2>3 DEF Serve
<1>3. ASSUME NEW c \in Clients, Play(c) \/ Unruly(c) PROVE PastToken \subseteq PastToken'
  BY <1>3 DEF Play, Unruly, UnrulyLogin, UnrulyChar, clientVars, PastToken
<1>4. CASE UNCHANGED vars
  BY <1>4 DEF vars, clientVars, PastToken
<1> QED BY <1>1, <1>2, <1>3, <1>4 DEF Next

LEMMA TokensStep ==
  ASSUME [Next]_vars
  PROVE  \/ tokens' = tokens
         \/ tokens < MaxTokens /\ tokens' = tokens + 1
         \/ \E c \in Clients : AskToken(c)
<1> USE DEF loginVars
<1>1. ASSUME NEW c \in Clients, Arrive(c) \/ Leave(c) \/ Play(c) \/ UnrulyChar(c)
      PROVE  tokens' = tokens
  BY <1>1 DEF Arrive, Leave, Play, UnrulyChar
<1>2. ASSUME NEW c \in Clients, AskKey(c) \/ LogIn(c) \/ ConnectChar(c)
      PROVE  tokens' = tokens
  BY <1>2 DEF AskKey, LogIn, ConnectChar, Login!SecureHandshake, Login!MasterIgnored,
              Login!MasterTaken, Login!TakeExpect, Login!vars
<1>3. ASSUME NEW c \in Clients, SelectServer(c) \/ AskList(c) \/ PickChar(c) \/ EnterMap(c)
      PROVE  tokens' = tokens
  BY <1>3 DEF SelectServer, AskList, PickChar, EnterMap
<1>4. ASSUME NEW c \in Clients, UnrulyLogin(c)
      PROVE  \/ tokens' = tokens
             \/ tokens < MaxTokens /\ tokens' = tokens + 1
  BY <1>4 DEF UnrulyLogin, Login!Unhandled, Login!TokenRequest, Login!MasterLogin,
              Login!MasterIgnored, Login!MasterTaken, Login!TakeExpect, Login!vars
<1>5. CASE UNCHANGED vars
  BY <1>5 DEF vars
<1> QED BY <1>1, <1>2, <1>3, <1>4, <1>5 DEF Next, Serve, Unruly

LEMMA TokensBoundedKeeps == IInv /\ TokensBounded /\ [Next]_vars => TokensBounded'
<1> SUFFICES ASSUME IInv, TokensBounded, [Next]_vars PROVE TokensBounded'
  OBVIOUS
<1>1. PastToken \subseteq PastToken'
  BY PhasesGoOn DEF IInv
<1>2. PastToken' \subseteq Clients
  BY DEF PastToken
<1>3. IsFiniteSet(PastToken') /\ Cardinality(PastToken') \in Nat
  BY <1>2, PhasesAssumption, FS_Subset, FS_CardinalityType
<1>4. tokens \in Nat /\ MaxTokens \in Nat /\ tokens <= MaxTokens + Cardinality(PastToken)
  BY PhasesAssumption DEF TokensBounded
<1>5. CASE tokens' = tokens
  BY <1>1, <1>2, <1>5, LargerBound
<1>6. CASE tokens < MaxTokens /\ tokens' = tokens + 1
  <2>1. tokens' \in Nat /\ tokens' <= MaxTokens + Cardinality(PastToken')
    BY <1>3, <1>4, <1>6
  <2> QED BY <2>1 DEF TokensBounded
<1>7. ASSUME NEW c \in Clients, AskToken(c) PROVE TokensBounded'
  <2>1. phase[c] = "token" /\ To(c, "master") /\ tokens' = tokens + 1
    BY <1>7 DEF AskToken, Login!TokenRequest
  <2>2. c \notin PastToken
    BY <2>1 DEF PastToken
  <2>3. c \in PastToken'
    BY <2>1 DEF PastToken, To, IInv, Typed
  <2>4. Cardinality(PastToken \cup {c}) = Cardinality(PastToken) + 1
    BY <2>2, PastTokenFinite, FS_AddElement
  <2>5. PastToken \cup {c} \subseteq PastToken'
    BY <1>1, <2>3
  <2>6. Cardinality(PastToken \cup {c}) <= Cardinality(PastToken')
    BY <1>3, <2>5, FS_Subset
  <2>7. tokens' \in Nat /\ tokens' <= MaxTokens + Cardinality(PastToken')
    BY <1>3, <1>4, <2>1, <2>4, <2>6, PastTokenFinite
  <2> QED BY <2>7 DEF TokensBounded
<1> QED BY <1>5, <1>6, <1>7, TokensStep

LEMMA AccountBoundedKeeps == AccountsInv /\ AccountBounded /\ LoginStep => AccountBounded'
<1> SUFFICES ASSUME AccountsInv, AccountBounded, LoginStep PROVE AccountBounded'
  OBVIOUS
<1>1. CASE account' = account /\ logins' = logins
  BY <1>1 DEF AccountBounded
<1>2. ASSUME NEW c \in Clients, Login!MasterTaken(c) PROVE AccountBounded'
  <2>1. account' = nextAccount /\ logins' = logins + 1
    BY <1>2 DEF Login!MasterTaken
  <2>2. logins \in Nat /\ nextAccount = logins + 1
    BY DEF AccountsInv
  <2>3. account' \in Nat /\ logins' \in Nat /\ account' <= logins'
    BY <2>1, <2>2
  <2> QED BY <2>3 DEF AccountBounded
<1> QED BY <1>1, <1>2 DEF LoginStep, Login!TokenRequest

LEMMA MarksKeep == Marks /\ [Next]_vars => Marks'
<1> SUFFICES ASSUME Marks, [Next]_vars PROVE Marks'
  OBVIOUS
<1> USE DEF Marks, loginVars, charVars
<1>1. ASSUME NEW c \in Clients, Arrive(c) \/ Leave(c) PROVE Marks'
  BY <1>1 DEF Arrive, Leave
<1>2. ASSUME NEW c \in Clients, AskKey(c) \/ AskToken(c) \/ LogIn(c) \/ ConnectChar(c)
      PROVE  Marks'
  BY <1>2 DEF AskKey, AskToken, LogIn, ConnectChar, Login!SecureHandshake,
              Login!TokenRequest, Login!MasterIgnored, Login!MasterTaken,
              Login!TakeExpect, Login!vars
<1>3. ASSUME NEW c \in Clients, SelectServer(c) \/ AskList(c) \/ PickChar(c) PROVE Marks'
  <2>1. expectChar' = expectChar
    BY <1>3 DEF SelectServer, AskList, PickChar
  <2>2. charAccount' # 0
    BY <1>3 DEF SelectServer, AskList, PickChar, Misled, Char!Enter,
                Char!ServerSelected, Char!CharListReq, Char!CharSelected, Char!vars
  <2> QED BY <2>1, <2>2
<1>4. ASSUME NEW c \in Clients, EnterMap(c) PROVE Marks'
  BY <1>4 DEF EnterMap, Char!Enter
<1>5. ASSUME NEW op, NEW a, NEW a3, Char!Handle(op, a, a3) PROVE charAccount' # 0
  BY <1>5 DEF Char!Handle, Char!Enter, Char!ServerSelected, Char!CharListReq,
              Char!CharSelected, Char!vars
<1>6. ASSUME NEW c \in Clients, Play(c) \/ UnrulyChar(c) PROVE Marks'
  <2>1. expectChar' = expectChar
    BY <1>6 DEF Play, UnrulyChar
  <2>2. charAccount' # 0
    BY <1>5, <1>6 DEF Play, UnrulyChar
  <2> QED BY <2>1, <2>2
<1>7. ASSUME NEW c \in Clients, UnrulyLogin(c) PROVE Marks'
  BY <1>7 DEF UnrulyLogin, Login!Unhandled, Login!TokenRequest, Login!MasterLogin,
              Login!MasterIgnored, Login!MasterTaken, Login!TakeExpect, Login!vars
<1>8. CASE UNCHANGED vars
  BY <1>8 DEF vars
<1> QED BY <1>1, <1>2, <1>3, <1>4, <1>6, <1>7, <1>8 DEF Next, Serve, Unruly

TInv == TokensBounded /\ AccountBounded /\ Marks

LEMMA TypesInvariance == Spec => []TInv
<1>1. Init => TInv
  <2> SUFFICES ASSUME Init PROVE TInv
    OBVIOUS
  <2>1. tokens = 0 /\ account = 0 /\ logins = 0 /\ expectChar = FALSE /\ charAccount = 1
    BY DEF Init, Login!Init, Char!Init
  <2>2. 0 <= MaxTokens + Cardinality(PastToken)
    BY PastTokenFinite, PhasesAssumption
  <2>3. TokensBounded
    BY <2>1, <2>2 DEF TokensBounded
  <2>4. AccountBounded
    BY <2>1 DEF AccountBounded
  <2>5. expectChar \in BOOLEAN
    BY <2>1
  <2>6. charAccount # 0
    BY <2>1
  <2> QED BY <2>3, <2>4, <2>5, <2>6 DEF TInv, Marks
<1>2. IInv /\ AccountsInv /\ TInv /\ [Next]_vars => TInv'
  BY StepsOfFlows, TokensBoundedKeeps, AccountBoundedKeeps, MarksKeep DEF TInv
<1> QED BY <1>1, <1>2, Invariance, FlowInvariance, PTL DEF Spec

LEMMA LoginTyped ==
  ASSUME IInv, LoginInv, AccountsInv, TInv
  PROVE  Login!TypeOK
<1> DEFINE M == MaxTokens + Cardinality(Clients)
<1>1. M \in Nat /\ tokens \in 0..M
  <2>1. tokens \in Nat /\ tokens <= MaxTokens + Cardinality(PastToken)
    BY DEF TInv, TokensBounded
  <2> QED BY <2>1, PastTokenFinite, PhasesAssumption
<1>2. logins \in 0..M
  <2>1. logins \in Nat /\ tokens \in Nat /\ logins <= tokens
    <3>1. logins \in Nat /\ tokens \in Nat /\ awaiting \in BOOLEAN
      BY DEF LoginInv
    <3>2. CASE awaiting
      <4>1. logins + 1 <= tokens
        BY <3>2 DEF LoginInv
      <4> QED BY <3>1, <4>1
    <3>3. CASE ~awaiting
      BY <3>1, <3>3 DEF LoginInv
    <3> QED BY <3>1, <3>2, <3>3
  <2> QED BY <1>1, <2>1
<1>3. account \in 0..M
  <2>1. account \in Nat /\ account <= logins
    BY DEF TInv, AccountBounded
  <2> QED BY <1>1, <1>2, <2>1
<1>4. nextAccount \in 1..(M + 1)
  <2>1. nextAccount = logins + 1
    BY DEF AccountsInv
  <2> QED BY <1>1, <1>2, <2>1
<1>5. given \in [Clients -> SUBSET (1..M)]
  <2>1. given \in [Clients -> SUBSET (1..logins)]
    BY DEF AccountsInv
  <2>2. 1..logins \subseteq 1..M
    BY <1>1, <1>2
  <2>3. \A s \in Clients : given[s] \subseteq 1..M
    BY <2>1, <2>2
  <2>4. given = [s \in Clients |-> given[s]]
    BY <2>1
  <2> QED BY <2>3, <2>4
<1>6. awaiting \in BOOLEAN /\ expectChar \in BOOLEAN
  BY DEF LoginInv, TInv, Marks
<1> HIDE DEF M
<1>7. M = MaxTokens + Cardinality(Clients)
  BY DEF M
<1> QED BY <1>1, <1>2, <1>3, <1>4, <1>5, <1>6, <1>7 DEF Login!TypeOK

LEMMA CharTyped ==
  ASSUME IInv, CharInv, ListInv, TInv
  PROVE  Char!TypeOK
<1>1. charAccount \in Nat \ {0}
  BY DEF IInv, Typed, TInv, Marks
<1>2. outstanding \in Int
  BY DEF CharInv
<1>3. unlisted \in Int
  BY DEF ListInv
<1>4. awaitingList \in BOOLEAN /\ expecting \in BOOLEAN /\ first \in BOOLEAN /\ spawn \in BOOLEAN
  BY DEF CharInv, ListInv
<1>5. spot \in {"none", "fixed", "client", "table"}
  BY DEF CharInv
<1> QED BY <1>1, <1>2, <1>3, <1>4, <1>5 DEF Char!TypeOK

\* The types: no login without a token, so what LoginFlow counts and gives stays
\* within the tokens there can be, one for each orderly client and MaxTokens more.
THEOREM TypeCorrect == Spec => []TypeOK
<1>1. IInv /\ LoginInv /\ AccountsInv /\ CharInv /\ ListInv /\ TInv => TypeOK
  <2> SUFFICES ASSUME IInv, LoginInv, AccountsInv, CharInv, ListInv, TInv PROVE TypeOK
    OBVIOUS
  <2>1. Login!TypeOK /\ Char!TypeOK
    BY LoginTyped, CharTyped
  <2> QED BY <2>1 DEF TypeOK, IInv, Typed, Phases
<1> QED BY <1>1, Invariance, FlowInvariance, TypesInvariance, PTL

-------------------------------------------------------------------------------
(* Packets, for any names a build may have, any token length that fits, and    *)
(* every position a request can hold.                                          *)

\* What comes without a length comes in these sizes, whatever the names are.
FixedSizes ==
  { <<"PreambleAccountID", 4>>, <<"Preamble09A0", 6>>, <<"RedirectShort", 28>>,
    <<"RedirectFull", 41>>, <<"AttackRange", 4>>, <<"HpSpUpdate", 10>>,
    <<"StatsInfo", 60>>, <<"MapLoaded", 13>>, <<"AcceptEnter", 11>>, <<"Warp", 22>>,
    <<"LoadConfirm", 2>>, <<"SyncAccount", 6>>, <<"LookTo", 9>>,
    <<"ActorNameSelf", 30>>, <<"ActorInfoSelf", 106>> }

\* The client finds the end of a packet.
Delimited(p) ==
  IF p.length = <<>> THEN <<p.op, p.size>> \in FixedSizes
                     ELSE Rd16le(p.length) = p.size

\* A packet says nothing of a position, or says that the character is at `at'.
Tells(p, at) == p.at = Nowhere \/ p.at \in {at, [at EXCEPT !.dir = NoDir]}

Positions == [x : 0..1023, y : 0..1023, dir : 0..15]

SentInv ==
  /\ \A i \in DOMAIN sent : Delimited(sent[i]) /\ Tells(sent[i], place)
  /\ sizes \subseteq FixedSizes

\* The length field holds what was put there.
LEMMA LengthKept ==
  ASSUME NEW n \in Nat, n < 256 * 256
  PROVE  Put16(n) # <<>> /\ Rd16le(Put16(n)) = n
<1> DEFINE lo == n % 256
           hi == (n \div 256) % 256
<1>1. lo + 256 * hi = n
  BY SMT
<1> HIDE DEF lo, hi
<1> DEFINE p == <<lo, hi>>
<1>2. p # <<>> /\ p[1] = lo /\ p[2] = hi
  BY SMT
<1>3. p = Put16(n)
  BY Zenon DEF Put16, lo, hi
<1> HIDE DEF p
<1>4. Rd16le(p) = n
  BY <1>1, <1>2, Zenon DEF Rd16le
<1> QED BY <1>2, <1>3, <1>4, Zenon

LEMMA CountedDelimited ==
  ASSUME NEW op, NEW w \in Nat, NEW n, n = w + 4, n < 256 * 256
  PROVE  /\ Delimited(Counted(op, n, w))
         /\ \A at : Tells(Counted(op, n, w), at)
<1> DEFINE p == Counted(op, n, w)
<1>1. p = [op |-> op, length |-> Put16(n), size |-> n, at |-> Nowhere]
  <2>1. V2 + V2 + w = n
    BY DEF V2
  <2> QED BY <2>1, Zenon DEF Counted
<1> HIDE DEF p
<1>2. p.length = Put16(n) /\ p.size = n /\ p.at = Nowhere
  BY <1>1, SMT
<1>3. Put16(n) # <<>> /\ Rd16le(Put16(n)) = n
  <2>1. n \in Nat
    OBVIOUS
  <2> QED BY <2>1, LengthKept, Zenon
<1>4. Rd16le(p.length) = p.size
  BY <1>2, <1>3, Zenon
<1>5. Delimited(p)
  BY <1>2, <1>3, <1>4, Zenon DEF Delimited
<1>6. \A at : Tells(p, at)
  BY <1>2, Zenon DEF Tells
<1> QED BY <1>5, <1>6, Zenon DEF p

LEMMA PlainDelimited ==
  ASSUME NEW op, NEW n \in Nat, <<op, 2 + n>> \in FixedSizes
  PROVE  /\ Delimited(Plain(op, n))
         /\ \A at : Tells(Plain(op, n), at)
<1> DEFINE p == Plain(op, n)
<1>1. p.length = <<>> /\ p.size = 2 + n /\ p.at = Nowhere /\ p.op = op
  BY DEF Plain, V2
<1>2. Delimited(p)
  BY <1>1, Zenon DEF Delimited
<1>3. \A at : Tells(p, at)
  BY <1>1, Zenon DEF Tells
<1> QED BY <1>2, <1>3

\* A number is the digit and the rest it was made of.
LEMMA Digits ==
  ASSUME NEW a \in Nat \ {0}, NEW r \in 0..(a - 1), NEW q \in Nat
  PROVE  (r + a * q) % a = r /\ (r + a * q) \div a = q
<1> DEFINE n == r + a * q
           p == n \div a
<1>1. n \in Nat
  BY SMT
<1>2. n = a * p + (n % a) /\ n % a \in 0..(a - 1) /\ p \in Nat
  BY <1>1, SMT
<1>3. a * (q - p) = (n % a) - r /\ a * (p - q) = r - (n % a)
  BY <1>2, SMT
<1>4. \A k \in Nat \ {0} : a * k >= a
  BY SMT
<1> HIDE DEF n, p
<1>5. ~(q > p)
  <2> SUFFICES ASSUME q > p PROVE FALSE
    OBVIOUS
  <2>1. q - p \in Nat \ {0}
    BY <1>2, SMT
  <2> QED BY <2>1, <1>2, <1>3, <1>4, SMT
<1>6. ~(q < p)
  <2> SUFFICES ASSUME q < p PROVE FALSE
    OBVIOUS
  <2>1. p - q \in Nat \ {0}
    BY <1>2, SMT
  <2> QED BY <2>1, <1>2, <1>3, <1>4, SMT
<1>7. p = q
  BY <1>2, <1>5, <1>6, SMT
<1>8. n % a = r
  BY <1>2, <1>3, <1>7, SMT
<1> QED BY <1>7, <1>8 DEF n, p

\* Ten bits and ten bits and four do not overlap.
LEMMA CoordsKept ==
  ASSUME NEW at \in Positions
  PROVE  DecodeA3(PutCoordsA3(at)) = at
<1> DEFINE x == at.x
           y == at.y
           d == at.dir
<1>1. x \in 0..1023 /\ y \in 0..1023 /\ d \in 0..15 /\ at = [x |-> x, y |-> y, dir |-> d]
  BY SMT DEF Positions
<1> HIDE DEF x, y, d
<1> DEFINE rest == y + 1024 * d
           enc == x + 1024 * rest
           e1 == enc \div 256
           e2 == e1 \div 256
<1>2. rest \in Nat /\ rest < 16384
  BY <1>1, SMT
<1>3. rest % 1024 = y /\ rest \div 1024 = d
  BY <1>1, Digits, SMT
<1> HIDE DEF rest
<1>4. enc \in Nat /\ enc < 256 * (256 * 256)
  BY <1>1, <1>2, SMT
<1>5. enc % 1024 = x /\ enc \div 1024 = rest
  BY <1>1, <1>2, Digits, SMT
<1> HIDE DEF enc
<1>6. enc = (enc % 256) + 256 * e1 /\ e1 \in Nat /\ e1 < 256 * 256
  BY <1>4, SMT
<1> HIDE DEF e1
<1>7. e1 = (e1 % 256) + 256 * e2 /\ e2 \in 0..255
  BY <1>6, SMT
<1> HIDE DEF e2
<1>8. e2 % 256 = e2 /\ d % 16 = d /\ x % 1024 = x /\ y % 1024 = y
  BY <1>1, <1>7, SMT
<1>9. at.x = x /\ at.y = y /\ at.dir = d
  BY DEF x, y, d
<1>10. PutCoordsA3(at) = <<enc % 256, e1 % 256, e2>>
  <2>1. PutCoordsA3(at) = <<enc % 256, e1 % 256, e2 % 256>>
    <3>1. (at.x % 1024) + 1024 * ((at.y % 1024) + 1024 * (at.dir % 16)) = enc
      BY <1>8, <1>9 DEF enc, rest
    <3> QED BY <3>1 DEF PutCoordsA3, e1, e2
  <2> QED BY <2>1, <1>8
<1>11. DecodeA3(<<enc % 256, e1 % 256, e2>>)
         = [x |-> enc % 1024, y |-> (enc \div 1024) % 1024, dir |-> ((enc \div 1024) \div 1024) % 16]
  <2> DEFINE b == <<enc % 256, e1 % 256, e2>>
  <2>1. b[1] = enc % 256 /\ b[2] = e1 % 256 /\ b[3] = e2
    BY SMT
  <2> HIDE DEF b
  <2>2. b[1] + 256 * (b[2] + 256 * b[3]) = enc
    BY <2>1, <1>6, <1>7
  <2> QED BY <2>2 DEF b, DecodeA3
<1>12. DecodeA3(<<enc % 256, e1 % 256, e2>>) = [x |-> x, y |-> y, dir |-> d]
  BY <1>3, <1>5, <1>8, <1>11
<1> QED BY <1>1, <1>10, <1>12

-------------------------------------------------------------------------------
(* The packets, one by one. *)

Good(p, at) == Delimited(p) /\ Tells(p, at)

LEMMA PlainGood ==
  ASSUME NEW op, NEW n \in Nat, <<op, 2 + n>> \in FixedSizes, NEW at
  PROVE  Good(Plain(op, n), at)
  BY PlainDelimited, Zenon DEF Good

LEMMA CountedGood ==
  ASSUME NEW op, NEW w \in Nat, NEW n, n = w + 4, n < 256 * 256, NEW at
  PROVE  Good(Counted(op, n, w), at)
<1>1. Delimited(Counted(op, n, w)) /\ Tells(Counted(op, n, w), at)
  BY CountedDelimited
<1> QED BY <1>1, Zenon DEF Good

\* What the handlers send before the character is on the map.
LEMMA LoginPackets ==
  ASSUME NEW name \in Nat, NEW at
  PROVE  /\ Good(SecureLoginKey, at)
         /\ Good(LoginToken(TokenLength), at)
         /\ Good(AccountServerInfoV2(name), at)
         /\ Good(AccountServerInfo(name), at)
<1>1. Good(SecureLoginKey, at)
  <2>1. 16 + 4 = 20 /\ 16 + 4 < 256 * 256
    OBVIOUS
  <2> QED BY <2>1, CountedGood DEF SecureLoginKey
<1>2. Good(LoginToken(TokenLength), at)
  <2> DEFINE w == 4 + 20 + TokenLength + 1
  <2>1. w \in Nat /\ w + 4 = 4 + 4 + 20 + TokenLength + 1 /\ w + 4 < 256 * 256
    BY PacketsAssumption
  <2>2. V4 + PutZ(5, 20) + TokenLength + C = w
    BY DEF V4, PutZ, C
  <2> HIDE DEF w
  <2>3. LoginToken(TokenLength) = Counted("LoginToken", w + 4, w)
    BY <2>1, <2>2 DEF LoginToken
  <2> QED BY <2>1, <2>3, CountedGood
<1>3. Good(AccountServerInfoV2(name), at)
  <2> DEFINE p == AccountServerInfoV2(name)
             q == Counted("AccountServerInfoV2", 224, 220)
  <2>1. V2 + V2 + Triplet + 4 + 26 + C + 17 + Id + V2
            + PutZ(IF name > 20 THEN 20 ELSE name, 20) + V4 = 94
    BY DEF Triplet, PutZ, V2, V4, C, Id
  <2>2. p = [Counted("AccountServerInfoV2", 224, 0) EXCEPT !.size = 224]
    BY <2>1 DEF AccountServerInfoV2
  <2>3. p = q
    BY <2>2 DEF Counted, V2
  <2>4. Good(q, at)
    <3> DEFINE w == 220
    <3>1. w \in Nat /\ 224 = w + 4 /\ 224 < 256 * 256
      OBVIOUS
    <3> HIDE DEF w
    <3>2. Good(Counted("AccountServerInfoV2", 224, w), at)
      BY <3>1, CountedGood
    <3> QED BY <3>2 DEF w
  <2> QED BY <2>3, <2>4
<1>4. Good(AccountServerInfo(name), at)
  <2>1. /\ Triplet + 30 + C + Id + V2
             + PutZ(IF name > 20 THEN 20 ELSE name, 20) + V4 + 2 = 75
        /\ V2 + V2 + 75 = 79
    BY DEF Triplet, PutZ, V2, V4, C, Id
  <2>2. AccountServerInfo(name) = Counted("AccountServerInfo", 79, 75)
    BY <2>1 DEF AccountServerInfo
  <2>3. 79 = 75 + 4 /\ 79 < 256 * 256
    OBVIOUS
  <2> QED BY <2>2, <2>3, CountedGood
<1> QED BY <1>1, <1>2, <1>3, <1>4

LEMMA CharPackets ==
  ASSUME NEW map \in Nat, NEW at
  PROVE  /\ Good(PreambleAccountID, at)
         /\ Good(Preamble082D, at)
         /\ Good(Preamble09A0, at)
         /\ Good(CharListBlock(map), at)
         /\ Good(RedirectShort(map), at)
         /\ Good(RedirectFull(map), at)
<1>1. Good(PreambleAccountID, at)
  <2>1. PreambleAccountID = Plain("PreambleAccountID", 2)
    BY DEF PreambleAccountID, Plain, V2, Id
  <2>2. <<"PreambleAccountID", 2 + 2>> \in FixedSizes
    BY DEF FixedSizes
  <2> QED BY <2>1, <2>2, PlainGood
<1>2. Good(Preamble082D, at)
  <2>1. 25 + 4 = 29 /\ 5 + 20 = 25 /\ 25 + 4 < 256 * 256
    OBVIOUS
  <2> QED BY <2>1, CountedGood DEF Preamble082D
<1>3. Good(Preamble09A0, at)
  <2>1. <<"Preamble09A0", 2 + 4>> \in FixedSizes
    BY DEF FixedSizes
  <2> QED BY <2>1, PlainGood DEF Preamble09A0, V4
<1>4. Good(CharListBlock(map), at)
  <2>1. V4 + V8 + V4 + V8 + 6 * V4 + V2 + 2 * V4 + 4 * V2 + V4 + 9 * V2
          + PutZ(CharacterName, 24) + 8 * C + V2 + PutZ(map, 16) + 4 * V4 + C = 155
    BY DEF V2, V4, V8, C, PutZ
  <2>2. CharListBlock(map) = Counted("CharListBlock", 159, 155)
    BY <2>1 DEF CharListBlock
  <2> DEFINE w == 155
  <2>3. w \in Nat /\ 159 = w + 4 /\ 159 < 256 * 256
    OBVIOUS
  <2> HIDE DEF w
  <2>4. Good(Counted("CharListBlock", 159, w), at)
    BY <2>3, CountedGood
  <2> QED BY <2>2, <2>4 DEF w
<1>5. Good(RedirectShort(map), at)
  <2>1. Id + PutZ(map, 16) + Id + V2 = 26
    BY DEF Id, PutZ, V2
  <2>2. <<"RedirectShort", 2 + 26>> \in FixedSizes
    BY DEF FixedSizes
  <2> QED BY <2>1, <2>2, PlainGood DEF RedirectShort
<1>6. Good(RedirectFull(map), at)
  <2>1. 4 * Id + C + Id + V2 + PutZ(map, 16) = 39
    BY DEF Id, PutZ, V2, C
  <2>2. <<"RedirectFull", 2 + 39>> \in FixedSizes
    BY DEF FixedSizes
  <2> QED BY <2>1, <2>2, PlainGood DEF RedirectFull
<1> QED BY <1>1, <1>2, <1>3, <1>4, <1>5, <1>6

\* The other packets of the entry sequence.
LEMMA StatePackets ==
  ASSUME NEW at
  PROVE  /\ Good(SyncAccount, at)
         /\ Good(AttackRange, at)
         /\ Good(StatsInfo, at)
         /\ Good(HpSpUpdate, at)
         /\ Good(LoadConfirm, at)
         /\ Good(LookTo, at)
         /\ Good(SystemChat(20), at)
         /\ Good(ActorInfoSelf(CharacterName), at)
         /\ Good(ActorNameSelf(CharacterName), at)
<1>1. Good(SyncAccount, at)
  <2>1. <<"SyncAccount", 2 + 4>> \in FixedSizes
    BY DEF FixedSizes
  <2> QED BY <2>1, PlainGood DEF SyncAccount, Id
<1>2. Good(AttackRange, at)
  <2>1. <<"AttackRange", 2 + 2>> \in FixedSizes
    BY DEF FixedSizes
  <2> QED BY <2>1, PlainGood DEF AttackRange, V2
<1>3. Good(StatsInfo, at)
  <2>1. V2 + 12 + 22 * V2 = 58
    BY DEF V2
  <2>2. <<"StatsInfo", 2 + 58>> \in FixedSizes
    BY DEF FixedSizes
  <2> QED BY <2>1, <2>2, PlainGood DEF StatsInfo
<1>4. Good(HpSpUpdate, at)
  <2>1. 4 * V2 = 8
    BY DEF V2
  <2>2. <<"HpSpUpdate", 2 + 8>> \in FixedSizes
    BY DEF FixedSizes
  <2> QED BY <2>1, <2>2, PlainGood DEF HpSpUpdate
<1>5. Good(LoadConfirm, at)
  <2>1. <<"LoadConfirm", 2 + 0>> \in FixedSizes
    BY DEF FixedSizes
  <2> QED BY <2>1, PlainGood DEF LoadConfirm
<1>6. Good(LookTo, at)
  <2>1. Id + C + C + C = 7
    BY DEF Id, C
  <2>2. <<"LookTo", 2 + 7>> \in FixedSizes
    BY DEF FixedSizes
  <2> QED BY <2>1, <2>2, PlainGood DEF LookTo
<1>7. Good(SystemChat(20), at)
  <2>1. 20 + C = 21 /\ 4 + 20 + 1 = 21 + 4 /\ 21 + 4 < 256 * 256
    BY DEF C
  <2> QED BY <2>1, CountedGood DEF SystemChat
<1>8. Good(ActorInfoSelf(CharacterName), at)
  <2>1. Id + PutZ(CharacterName, 24) + 3 * PutZ(0, 24) + V4 = 104
    BY DEF Id, PutZ, V4
  <2>2. <<"ActorInfoSelf", 2 + 104>> \in FixedSizes
    BY DEF FixedSizes
  <2> QED BY <2>1, <2>2, PlainGood DEF ActorInfoSelf
<1>9. Good(ActorNameSelf(CharacterName), at)
  <2>1. Id + PutZ(CharacterName, 24) = 28
    BY DEF Id, PutZ
  <2>2. <<"ActorNameSelf", 2 + 28>> \in FixedSizes
    BY DEF FixedSizes
  <2> QED BY <2>1, <2>2, PlainGood DEF ActorNameSelf
<1> QED BY <1>1, <1>2, <1>3, <1>4, <1>5, <1>6, <1>7, <1>8, <1>9

\* Giving a packet another place moves none of its ends.
LEMMA Placed ==
  ASSUME NEW op, NEW n \in Nat, <<op, 2 + n>> \in FixedSizes,
         NEW at \in Positions, NEW q, q \in {at, [at EXCEPT !.dir = NoDir]}
  PROVE  Good([Plain(op, n) EXCEPT !.at = q], at)
<1> DEFINE p == [Plain(op, n) EXCEPT !.at = q]
<1>1. p.length = <<>> /\ p.op = op /\ p.size = 2 + n /\ p.at = q
  BY DEF Plain, V2
<1> HIDE DEF p
<1>2. Delimited(p)
  BY <1>1, Zenon DEF Delimited
<1>3. Tells(p, at)
  BY <1>1, Zenon DEF Tells
<1> QED BY <1>2, <1>3, Zenon DEF Good, p

LEMMA PlacingPackets ==
  ASSUME NEW map \in Nat, NEW at \in Positions
  PROVE  /\ Good(MapLoaded(at), at)
         /\ Good(AcceptEnter(at), at)
         /\ Good(Warp(map, at), at)
<1>1. /\ at.x \in Nat /\ at.x < 256 * 256 /\ at.y \in Nat /\ at.y < 256 * 256
      /\ at.dir \in 0..15
      /\ at = [x |-> at.x, y |-> at.y, dir |-> at.dir]
  <2> DEFINE x == at.x
             y == at.y
  <2>1. x \in 0..1023 /\ y \in 0..1023 /\ at.dir \in 0..15
    BY DEF Positions
  <2>2. at = [x |-> at.x, y |-> at.y, dir |-> at.dir]
    BY DEF Positions
  <2> HIDE DEF x, y
  <2>3. x \in Nat /\ x < 256 * 256 /\ y \in Nat /\ y < 256 * 256
    BY <2>1
  <2> QED BY <2>1, <2>2, <2>3 DEF x, y
<1>2. Read16(at.x) = at.x /\ Read16(at.y) = at.y /\ at.dir % 256 = at.dir
  BY <1>1, LengthKept DEF Read16
<1>3. Good(MapLoaded(at), at)
  <2>1. V4 + 3 + C + C + V2 = 11
    BY DEF V4, C, V2
  <2>2. <<"MapLoaded", 2 + 11>> \in FixedSizes
    BY DEF FixedSizes
  <2>3. MapLoaded(at) = [Plain("MapLoaded", 11) EXCEPT !.at = at]
    BY <2>1, CoordsKept, Zenon DEF MapLoaded
  <2>4. Good([Plain("MapLoaded", 11) EXCEPT !.at = at], at)
    BY <2>2, Placed
  <2> QED BY <2>3, <2>4
<1>4. Good(AcceptEnter(at), at)
  <2>1. V2 + V2 + C + V2 + V2 = 9
    BY DEF C, V2
  <2>2. <<"AcceptEnter", 2 + 9>> \in FixedSizes
    BY DEF FixedSizes
  <2>3. AcceptEnter(at) = [Plain("AcceptEnter", 9) EXCEPT !.at = at]
    BY <2>1, <1>1, <1>2, Zenon DEF AcceptEnter
  <2>4. Good([Plain("AcceptEnter", 9) EXCEPT !.at = at], at)
    BY <2>2, Placed
  <2> QED BY <2>3, <2>4
<1>5. Good(Warp(map, at), at)
  <2> DEFINE q == [x |-> at.x, y |-> at.y, dir |-> NoDir]
  <2>1. PutZ(IF map > 16 THEN 16 ELSE map, 16) + V2 + V2 = 20
    BY DEF PutZ, V2
  <2>2. <<"Warp", 2 + 20>> \in FixedSizes
    BY DEF FixedSizes
  <2>3. Warp(map, at) = [Plain("Warp", 20) EXCEPT !.at = q]
    BY <2>1, <1>2, Zenon DEF Warp
  <2>4. q = [at EXCEPT !.dir = NoDir]
    BY <1>1
  <2>5. Good([Plain("Warp", 20) EXCEPT !.at = q], at)
    BY <2>2, <2>4, Placed
  <2> QED BY <2>3, <2>5
<1> QED BY <1>3, <1>4, <1>5

-------------------------------------------------------------------------------
(* Every handler keeps the invariant. *)

\* Where onEnter may put the character.
LEMMA SpawnsAreKept ==
  ASSUME NEW at \in {FixedSpawn} \cup ClientSpawns \cup SafeSpawns
  PROVE  at \in Positions
<1>1. FixedSpawn \in Positions /\ SafeSpawns \subseteq Positions
  BY DEF FixedSpawn, SafeSpawns, Positions
<1>2. ClientSpawns \subseteq Positions
  <2> SUFFICES ASSUME NEW p \in [1..3 -> Coordinates]
               PROVE  Clamp1023(DecodeA3(p)) \in Positions
    BY DEF ClientSpawns
  <2> DEFINE enc == p[1] + 256 * (p[2] + 256 * p[3])
             a   == [x |-> enc % 1024, y |-> (enc \div 1024) % 1024,
                     dir |-> ((enc \div 1024) \div 1024) % 16]
  <2>1. p[1] \in Nat /\ p[2] \in Nat /\ p[3] \in Nat
    <3>1. Coordinates \subseteq Nat
      BY PacketsAssumption
    <3>2. p[1] \in Coordinates /\ p[2] \in Coordinates /\ p[3] \in Coordinates
      OBVIOUS
    <3> QED BY <3>1, <3>2
  <2>2. enc \in Nat
    BY <2>1
  <2>3. a = DecodeA3(p)
    BY DEF DecodeA3
  <2> HIDE DEF enc
  <2> DEFINE x == enc % 1024
             y == (enc \div 1024) % 1024
             d == ((enc \div 1024) \div 1024) % 16
  <2>4. x \in 0..1023 /\ y \in 0..1023 /\ d \in 0..15
    BY <2>2
  <2> HIDE DEF x, y, d
  <2>5. ~(x > 1023) /\ ~(y > 1023) /\ d % 16 = d
    BY <2>4
  <2>6. a = [x |-> x, y |-> y, dir |-> d]
    BY DEF x, y, d
  <2>7. Clamp1023([x |-> x, y |-> y, dir |-> d]) = [x |-> x, y |-> y, dir |-> d]
    BY <2>5 DEF Clamp1023
  <2> HIDE DEF a
  <2> QED BY <2>3, <2>4, <2>6, <2>7 DEF Positions
<1> QED BY <1>1, <1>2

LEMMA SendKeeps ==
  ASSUME SentInv, NEW packets, NEW at, Send(packets, at),
         \A i \in DOMAIN packets : Good(packets[i], at)
  PROVE  SentInv'
<1>1. sent' = packets /\ place' = at
  BY DEF Send
<1>2. \A i \in DOMAIN sent' : Delimited(sent'[i]) /\ Tells(sent'[i], place')
  BY <1>1, Zenon DEF Good
<1>3. ASSUME NEW i \in DOMAIN packets, packets[i].length = <<>>
      PROVE  <<packets[i].op, packets[i].size>> \in FixedSizes
  BY <1>3, Zenon DEF Good, Delimited
<1>4. sizes' \subseteq FixedSizes
  BY <1>3, Zenon DEF SentInv, Send
<1> QED BY <1>2, <1>4, Zenon DEF SentInv

NamesTyped == serverName \in Nat /\ initialMap \in Nat

PacketsInv == NamesTyped /\ SentInv

LEMMA EnterKeeps == PacketsInv /\ Enter => SentInv'
<1> SUFFICES ASSUME PacketsInv, NEW at \in {FixedSpawn} \cup ClientSpawns \cup SafeSpawns,
                    EnterAt(at)
             PROVE  SentInv'
  BY DEF Enter
<1>1. at \in Positions
  BY SpawnsAreKept
<1> DEFINE ps == <<SyncAccount, MapLoaded(at), AcceptEnter(at), Warp(initialMap, at),
                   AttackRange, StatsInfo, HpSpUpdate, LoadConfirm, LookTo, SystemChat(20),
                   ActorInfoSelf(CharacterName), ActorNameSelf(CharacterName)>>
<1>2. Good(MapLoaded(at), at) /\ Good(AcceptEnter(at), at) /\ Good(Warp(initialMap, at), at)
  BY <1>1, PlacingPackets DEF PacketsInv, NamesTyped
<1>3. ASSUME NEW i \in DOMAIN ps
      PROVE  Good(ps[i], at)
  <2>1. i \in 1..12
    OBVIOUS
  <2> QED BY <2>1, <1>2, StatePackets
<1>4. Send(ps, at)
  BY DEF EnterAt
<1> HIDE DEF ps
<1> QED BY <1>3, <1>4, SendKeeps DEF PacketsInv

LEMMA OnePacketKeeps ==
  ASSUME PacketsInv, NEW p, Good(p, Nowhere), Send(<<p>>, Nowhere)
  PROVE  SentInv'
<1> DEFINE ps == <<p>>
<1>1. \A i \in DOMAIN ps : Good(ps[i], Nowhere)
  OBVIOUS
<1> QED BY <1>1, SendKeeps DEF PacketsInv

LEMMA PacketsInitInv == PacketsInit => PacketsInv
<1> SUFFICES ASSUME PacketsInit PROVE PacketsInv
  OBVIOUS
<1>1. NamesTyped
  BY PacketsAssumption DEF PacketsInit, NamesTyped
<1>2. SentInv
  <2>1. DOMAIN sent = {}
    BY DEF PacketsInit
  <2> QED BY <2>1, Zenon DEF PacketsInit, SentInv
<1> QED BY <1>1, <1>2 DEF PacketsInv

LEMMA PacketsInductive == PacketsInv /\ [PacketsNext]_packetVars => PacketsInv'
<1> SUFFICES ASSUME PacketsInv, [PacketsNext]_packetVars PROVE PacketsInv'
  OBVIOUS
<1>1. NamesTyped'
  BY PacketsAssumption
     DEF PacketsInv, NamesTyped, PacketsNext, packetVars, Send, SecureHandshake, TokenRequest,
         MasterLogin, ServerSelected, CharListReq, CharSelected, Enter, EnterAt, Deploy
<1>2. SentInv'
  <2>1. \A at : /\ Good(SecureLoginKey, at)
                /\ Good(LoginToken(TokenLength), at)
                /\ Good(AccountServerInfoV2(serverName), at)
                /\ Good(AccountServerInfo(serverName), at)
    BY LoginPackets DEF PacketsInv, NamesTyped
  <2>2. \A at : /\ Good(PreambleAccountID, at)
                /\ Good(Preamble082D, at)
                /\ Good(Preamble09A0, at)
                /\ Good(CharListBlock(initialMap), at)
                /\ Good(RedirectShort(initialMap), at)
                /\ Good(RedirectFull(initialMap), at)
    BY CharPackets DEF PacketsInv, NamesTyped
  <2>3. CASE SecureHandshake
    BY <2>1, <2>3, OnePacketKeeps DEF SecureHandshake
  <2>4. CASE TokenRequest
    BY <2>1, <2>4, OnePacketKeeps DEF TokenRequest
  <2>5. CASE MasterLogin
    BY <2>1, <2>5, OnePacketKeeps DEF MasterLogin
  <2>6. CASE ServerSelected
    <3> DEFINE ps == <<PreambleAccountID, Preamble082D, Preamble09A0, CharListBlock(initialMap)>>
    <3>1. \A i \in DOMAIN ps : Good(ps[i], Nowhere)
      BY <2>2
    <3>2. Send(ps, Nowhere)
      BY <2>6 DEF ServerSelected
    <3> HIDE DEF ps
    <3> QED BY <3>1, <3>2, SendKeeps DEF PacketsInv
  <2>7. CASE CharListReq
    BY <2>2, <2>7, OnePacketKeeps DEF CharListReq
  <2>8. CASE CharSelected
    <3> DEFINE ps == <<RedirectShort(initialMap), RedirectFull(initialMap)>>
    <3>1. \A i \in DOMAIN ps : Good(ps[i], Nowhere)
      BY <2>2
    <3>2. Send(ps, Nowhere)
      BY <2>8 DEF CharSelected
    <3> HIDE DEF ps
    <3> QED BY <3>1, <3>2, SendKeeps DEF PacketsInv
  <2>9. CASE Enter
    BY <2>9, EnterKeeps
  <2>10. CASE Deploy
    <3>1. DOMAIN sent' = {} /\ sizes' = sizes
      BY <2>10 DEF Deploy
    <3> QED BY <3>1, Zenon DEF PacketsInv, SentInv
  <2>11. CASE UNCHANGED packetVars
    BY <2>11, Zenon DEF packetVars, PacketsInv, SentInv
  <2> QED BY <2>3, <2>4, <2>5, <2>6, <2>7, <2>8, <2>9, <2>10, <2>11 DEF PacketsNext
<1> QED BY <1>1, <1>2 DEF PacketsInv

LEMMA PacketsInvariance == PacketsSpec => []PacketsInv
  BY PacketsInitInv, PacketsInductive, PTL DEF PacketsSpec

\* A client never loses its place in the stream, whatever the names of the server
\* and its map are: every declared length is the number of bytes the mappers of
\* src/interface/ragnarok/mappers write, and an opcode without one has one size.
THEOREM PlaceInStream == PacketsSpec => []ClientKeepsItsPlace
<1>1. PacketsInv => ClientKeepsItsPlace
  <2> SUFFICES ASSUME SentInv PROVE ClientKeepsItsPlace
    BY DEF PacketsInv
  <2>1. \A i \in DOMAIN sent : sent[i].length # <<>> => Rd16le(sent[i].length) = sent[i].size
    BY Zenon DEF SentInv, Delimited
  <2>2. \A a, b \in FixedSizes : a[1] = b[1] => a = b
    BY DEF FixedSizes
  <2>3. \A a, b \in sizes : a[1] = b[1] => a = b
    BY <2>2, Zenon DEF SentInv
  <2> QED BY <2>1, <2>3 DEF ClientKeepsItsPlace
<1> QED BY <1>1, PacketsInvariance, PTL

\* Every position a request can hold, and those of the table, comes back to the
\* client from its three encodings in putCoordsA3 and put16 as onEnter chose it.
THEOREM OnePlaceTold == PacketsSpec => []OnePlace
<1>1. PacketsInv => OnePlace
  BY Zenon DEF PacketsInv, SentInv, Tells, OnePlace
<1> QED BY <1>1, PacketsInvariance, PTL
===============================================================================
