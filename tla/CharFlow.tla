------------------------------- MODULE CharFlow -------------------------------
(***************************************************************************)
(* src/interface/ragnarok/char/CharFlow.cpp, behind CharHandler::on_data.  *)
(* One CharFlow serves all connections of the char listener, which is the  *)
(* map listener too.  One action per packet; ClientPhases says who sends   *)
(* which.  A chunk that the bridge consumes, or that is answered by an     *)
(* echo, changes nothing here.                                             *)
(***************************************************************************)
EXTENDS Integers

CONSTANTS
  Accounts,    (* account ids                                              *)
  NoAccount,   (* a packet too short to hold one                           *)
  DefaultAccount (* st_.accountID at first: 2000001, as it happens          *)

VARIABLES
  awaitingList,  (* awaiting_charlist_req_                                 *)
  expecting,     (* expecting_map_login_                                   *)
  first,         (* first_packet_after_redirect_                           *)
  spawn,         (* spawn_override_ is set                                 *)
  charAccount,   (* st_.accountID                                          *)
  outstanding,   (* history: redirects sent, less map entries              *)
  unlisted,      (* history: server selections, less lists sent on request *)
  spot           (* history: where the last entry put the character        *)

vars == <<awaitingList, expecting, first, spawn, charAccount,
          outstanding, unlisted, spot>>

Ops == {"select server", "list", "select char", "enter", "other"}

Init ==
  /\ awaitingList = FALSE
  /\ expecting = FALSE
  /\ first = FALSE
  /\ spawn = FALSE
  /\ charAccount = DefaultAccount
  /\ outstanding = 0 /\ unlisted = 0
  /\ spot = "none"

\* Mutant: st_.accountID is not taken from the packet.
ServerSelectedKeepsAccount(a) ==
  /\ awaitingList' = TRUE
  /\ unlisted' = unlisted + 1
  /\ UNCHANGED <<expecting, first, spawn, charAccount, outstanding, spot>>

ServerSelected(a) ==
  /\ charAccount' = IF a = NoAccount THEN charAccount ELSE a
  /\ awaitingList' = TRUE
  /\ unlisted' = unlisted + 1
  /\ UNCHANGED <<expecting, first, spawn, outstanding, spot>>

CharListReq ==
  \/ ~awaitingList /\ UNCHANGED vars
  \/ /\ awaitingList
     /\ awaitingList' = FALSE
     /\ unlisted' = unlisted - 1
     /\ UNCHANGED <<expecting, first, spawn, charAccount, outstanding, spot>>

\* Mutant: armExpectingMapLogin is not called.
CharSelectedNotArmed ==
  /\ spawn' = TRUE
  /\ outstanding' = outstanding + 1
  /\ UNCHANGED <<awaitingList, expecting, first, charAccount, unlisted, spot>>

\* Two redirect packets, setFixedSpawn and armExpectingMapLogin.
CharSelected ==
  /\ expecting' = TRUE
  /\ first' = TRUE
  /\ spawn' = TRUE
  /\ outstanding' = outstanding + 1
  /\ UNCHANGED <<awaitingList, charAccount, unlisted, spot>>

\* onEnter: `a3' says that the packet holds a position, which is used only
\* when there is no fixed one.
Enter(a3) ==
  /\ expecting' = FALSE
  /\ first' = FALSE
  /\ spawn' = FALSE
  /\ spot' = IF spawn THEN "fixed" ELSE IF a3 THEN "client" ELSE "table"
  /\ outstanding' = outstanding - 1
  /\ UNCHANGED <<awaitingList, charAccount, unlisted>>

\* Mutant: an entry request is taken as one at any time.
TakenAsEnterAnytime(op) == op = "enter" \/ (expecting /\ first)

\* After a redirect any packet, of any connection, is taken as the map login.
TakenAsEnter(op) == expecting /\ (op = "enter" \/ first)

\* CharFlow::handle
Handle(op, a, a3) ==
  \/ TakenAsEnter(op) /\ Enter(a3)
  \/ /\ ~TakenAsEnter(op)
     /\ \/ op = "select server" /\ ServerSelected(a)
        \/ op = "list" /\ CharListReq
        \/ op = "select char" /\ CharSelected
        \/ op \in {"enter", "other"} /\ UNCHANGED vars

-------------------------------------------------------------------------------
TypeOK ==
  /\ awaitingList \in BOOLEAN
  /\ expecting \in BOOLEAN
  /\ first \in BOOLEAN
  /\ spawn \in BOOLEAN
  /\ charAccount \in Accounts
  /\ outstanding \in Int
  /\ unlisted \in Int
  /\ spot \in {"none", "fixed", "client", "table"}

\* The three marks a redirect leaves are set and taken together, in any order
\* of packets.  So the branch of handle() that tells an entry request from any
\* other packet makes no difference: both of them enter.
RedirectArmed == expecting = first /\ expecting = spawn

\* Every redirect is followed by one map entry and no entry comes without one,
\* however often a character is selected.
EachRedirectEntersOnce == outstanding = (IF expecting THEN 1 ELSE 0)

\* The client's own position is never used: the code that decodes it (onEnter's
\* second branch) is not reached.
SpotIsFixed == spot \in {"none", "fixed"}

\* The character list is sent again at most once per server selection.
ListResentOnce == unlisted >= (IF awaitingList THEN 1 ELSE 0)
===============================================================================
