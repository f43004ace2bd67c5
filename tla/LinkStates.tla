------------------------------ MODULE LinkStates ------------------------------
(***************************************************************************)
(* A TcpSession (src/infrastructure/net/asio/AsioTcpServer.cpp) as the     *)
(* login and char handlers see it.  QueryPath moves its sessions by these  *)
(* relations; SessionLink states them as a specification of one session,   *)
(* and TcpSession is shown to implement that.                              *)
(*                                                                         *)
(*   free      no session object                                           *)
(*   open      it reads, and nothing was said of a loss                    *)
(*   notified  its socket is closed or its loss was notified, but on_data  *)
(*             may still be called                                         *)
(*   ending    it reads no more; a write or the watchdog still refers to it *)
(***************************************************************************)

Links == {"free", "open", "notified", "ending"}

\* on_data may still be called.
Reads(l) == l \in {"open", "notified"}

\* on_disconnect is called: by a failed read, which ends the reading; by a
\* failed write or an overflow, which do not.  None of them rules out another.
Loses(l, next) ==
  \/ l \in {"open", "notified"} /\ next \in {"notified", "ending", "free"}
  \/ l = "ending" /\ next \in {"ending", "free"}

\* The session ends a little more without a call of on_disconnect: it does not
\* read again once its socket is closed, and its last write or timer ends.
Fades(l, next) ==
  \/ l = "notified" /\ next \in {"ending", "free"}
  \/ l = "ending" /\ next = "free"
===============================================================================
