------------------------------ MODULE GGExchange ------------------------------
(***************************************************************************)
(* What GameGuardBridge promises the rest of Thanatos: challenges are      *)
(* handled one at a time.  A query that is accepted is open until it is    *)
(* answered once or abandoned once, and while it is open at most           *)
(* MaxRetries + 1 copies of its challenge go to the client.                *)
(***************************************************************************)
EXTENDS Naturals

CONSTANTS
  Queries,     (* challenges OpenKore may ask                              *)
  NoQuery,     (* no challenge, not in Queries                             *)
  MaxRetries   (* resends allowed after the first send                     *)

VARIABLES
  open,        (* the challenge being worked on, or NoQuery                *)
  copies,      (* copies of it sent to the client                          *)
  accepted,    (* challenges taken on so far                               *)
  answered,    (* challenges whose reply went back to OpenKore             *)
  abandoned    (* challenges given up                                      *)

vars == <<open, copies, accepted, answered, abandoned>>

Init ==
  /\ open = NoQuery
  /\ copies = 0
  /\ accepted = 0
  /\ answered = 0
  /\ abandoned = 0

Accept(q) ==
  /\ open = NoQuery
  /\ open' = q
  /\ copies' = 1
  /\ accepted' = accepted + 1
  /\ UNCHANGED <<answered, abandoned>>

Resend ==
  /\ open # NoQuery
  /\ copies <= MaxRetries
  /\ copies' = copies + 1
  /\ UNCHANGED <<open, accepted, answered, abandoned>>

Close ==
  /\ open # NoQuery
  /\ open' = NoQuery
  /\ copies' = 0
  /\ UNCHANGED accepted

Answer  == Close /\ answered' = answered + 1 /\ UNCHANGED abandoned
Abandon == Close /\ abandoned' = abandoned + 1 /\ UNCHANGED answered

Next ==
  \/ \E q \in Queries : Accept(q)
  \/ Resend
  \/ Answer
  \/ Abandon

Spec == Init /\ [][Next]_vars
===============================================================================
