----------------------------- MODULE SessionLink -----------------------------
(* What a handler may rely on, and what it must not, about one TcpSession. *)
EXTENDS LinkStates, Naturals

VARIABLES
  link,     (* one of Links                                                *)
  calls,    (* calls of on_data                                            *)
  losses    (* calls of on_disconnect                                      *)

vars == <<link, calls, losses>>

Init == link = "free" /\ calls = 0 /\ losses = 0

Connect ==
  /\ link = "free"
  /\ link' = "open"
  /\ UNCHANGED <<calls, losses>>

Data ==
  /\ Reads(link)
  /\ calls' = calls + 1
  /\ UNCHANGED <<link, losses>>

Lose ==
  /\ Loses(link, link')
  /\ losses' = losses + 1
  /\ UNCHANGED calls

Fade ==
  /\ Fades(link, link')
  /\ UNCHANGED <<calls, losses>>

\* The handler itself calls close().
Close ==
  /\ link = "open"
  /\ link' = "notified"
  /\ UNCHANGED <<calls, losses>>

Next == Connect \/ Data \/ Lose \/ Fade \/ Close

Spec == Init /\ [][Next]_vars
===============================================================================
