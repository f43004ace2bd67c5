------------------------------ MODULE LoginFlow ------------------------------
(***************************************************************************)
(* src/interface/ragnarok/login/LoginFlow.cpp.  One LoginFlow serves all   *)
(* connections of the login listener; a reply goes to the connection that  *)
(* sent the request, since on_data makes it the current one.  One action   *)
(* per request; ClientPhases says who sends which.  Account ids count from *)
(* 1 (2000001 in the code).                                                *)
(***************************************************************************)
EXTENDS Naturals

CONSTANTS
  Sessions,    (* login connections                                        *)
  MaxTokens    (* bound: tokens issued                                     *)

VARIABLES
  awaiting,    (* awaiting_master_                                         *)
  account,     (* st_.accountID, 0 before the first login                  *)
  nextAccount, (* g_next_account_id                                        *)
  expectChar,  (* g_expect_char_on_next_connect                            *)
  tokens,      (* history: tokens issued                                   *)
  logins,      (* history: server lists sent                               *)
  given        (* history: the accounts sent to each connection            *)

vars == <<awaiting, account, nextAccount, expectChar, tokens, logins, given>>

Init ==
  /\ awaiting = FALSE
  /\ account = 0
  /\ nextAccount = 1
  /\ expectChar = FALSE
  /\ tokens = 0
  /\ logins = 0
  /\ given = [s \in Sessions |-> {}]

\* The key, and an opcode it does not know: the flow keeps no state of either.
SecureHandshake(s) == UNCHANGED vars
Unhandled(s)       == UNCHANGED vars

\* Mutant: the gate stays shut.
TokenKeepsGate(s) ==
  /\ tokens' = tokens + 1
  /\ UNCHANGED <<awaiting, account, nextAccount, expectChar, logins, given>>

TokenRequest(s) ==
  /\ awaiting' = TRUE
  /\ tokens' = tokens + 1
  /\ UNCHANGED <<account, nextAccount, expectChar, logins, given>>

MasterIgnored(s) == ~awaiting /\ UNCHANGED vars

\* Mutant: a login does not use the token up.
MasterKeepsGate(s) ==
  /\ awaiting
  /\ account' = nextAccount
  /\ nextAccount' = nextAccount + 1
  /\ expectChar' = TRUE
  /\ logins' = logins + 1
  /\ given' = [given EXCEPT ![s] = @ \cup {nextAccount}]
  /\ UNCHANGED <<awaiting, tokens>>

\* Mutant: the account of the login before is sent again.
MasterKeepsAccount(s) ==
  /\ awaiting
  /\ awaiting' = FALSE
  /\ account' = nextAccount
  /\ nextAccount' = nextAccount + 1
  /\ expectChar' = TRUE
  /\ logins' = logins + 1
  /\ given' = [given EXCEPT ![s] = @ \cup {account}]
  /\ UNCHANGED tokens

\* A new account, and the server list to the connection that asks.
MasterTaken(s) ==
  /\ awaiting
  /\ awaiting' = FALSE
  /\ account' = nextAccount
  /\ nextAccount' = nextAccount + 1
  /\ expectChar' = TRUE
  /\ logins' = logins + 1
  /\ given' = [given EXCEPT ![s] = @ \cup {nextAccount}]
  /\ UNCHANGED tokens

MasterLogin(s) == MasterIgnored(s) \/ MasterTaken(s)

\* CharHandler::on_connect takes the signal.
TakeExpect ==
  /\ expectChar' = FALSE
  /\ UNCHANGED <<awaiting, account, nextAccount, tokens, logins, given>>

-------------------------------------------------------------------------------
TypeOK ==
  /\ awaiting \in BOOLEAN
  /\ account \in 0..MaxTokens
  /\ nextAccount \in 1..(MaxTokens + 1)
  /\ expectChar \in BOOLEAN
  /\ tokens \in 0..MaxTokens
  /\ logins \in 0..MaxTokens
  /\ given \in [Sessions -> SUBSET (1..MaxTokens)]

\* Whatever the connections send and in whatever order, a token is good for one
\* login: the gate is shut by the login that passes it and opened by nothing
\* but a token.
OneLoginPerToken == logins + (IF awaiting THEN 1 ELSE 0) <= tokens

\* No two logins are given the same account, on the same connection or on two.
AccountsDistinct ==
  /\ \A s, t \in Sessions : s # t => given[s] \cap given[t] = {}
  /\ UNION {given[s] : s \in Sessions} = 1..logins
===============================================================================
