--------------------------- MODULE GameGuardBridge ---------------------------
(***************************************************************************)
(* src/application/services/GameGuardBridge.cpp.  The bridge takes a       *)
(* GameGuard challenge from OpenKore (on_query_from_kore_), sends it to    *)
(* the RO client that is bound to it, and hands the client's response back *)
(* (maybe_consume_c2s).  One action per call.  The program runs one io     *)
(* thread, so a call is one step.                                          *)
(*                                                                         *)
(* There is no timer: the deadline is only looked at when the client sends *)
(* something.  `expired' stands for Clock::now() > deadline_ and becomes   *)
(* true by itself (Expire) while a transaction is pending.                 *)
(***************************************************************************)
EXTENDS Naturals

CONSTANTS
  Wires,       (* the SessionWire objects of the login and char handlers   *)
  NoWire,      (* nullptr                                                  *)
  Queries,     (* challenges                                               *)
  NoQuery,     (* an empty last_gg_query_                                  *)
  MaxRetries,  (* max_retries_                                             *)
  MaxQueries   (* bound: challenges OpenKore asks in one run of the model  *)

ASSUME BridgeAssumption ==
  /\ NoWire \notin Wires
  /\ NoQuery \notin Queries
  /\ MaxRetries \in Nat
  /\ MaxQueries \in Nat

VARIABLES
  wire,        (* wire_                                                    *)
  pending,     (* pending_                                                 *)
  retry,       (* retry_count_                                             *)
  query,       (* last_gg_query_                                           *)
  expired,     (* the deadline has passed                                  *)
  copies,      (* history: copies of the pending challenge sent            *)
  accepted,    (* history: challenges that became pending                  *)
  answered,    (* history: replies handed to the query server              *)
  abandoned,   (* history: pending challenges dropped without a reply      *)
  live         (* environment: wires whose session object still exists     *)

transaction == <<pending, retry, query, expired>>
history     == <<copies, accepted, answered, abandoned>>
bridgeVars  == <<wire, pending, retry, query, expired,
                 copies, accepted, answered, abandoned>>
vars        == <<bridgeVars, live>>

(***************************************************************************)
(* A chunk from the client, as far as maybe_consume_c2s tells them apart:  *)
(* less than two bytes; a 0x09D0 or 0x099F header of less than four bytes; *)
(* a whole 0x09D0 or 0x099F; anything else.                                *)
(***************************************************************************)
Frames == {"short", "09D0 stub", "099F stub", "09D0", "099F", "other"}

IsResponse(f) == f \in {"09D0", "099F"}

\* The return value of maybe_consume_c2s: the flow never sees a consumed chunk.
Consumes(f) ==
  IF pending THEN ~expired /\ IsResponse(f)
             ELSE f \in {"09D0", "09D0 stub"}

\* wire_->send_to_client: the SessionWire still finds its session.
CanSend == wire \in live

Init ==
  /\ wire = NoWire
  /\ pending = FALSE
  /\ retry = 0
  /\ query = NoQuery
  /\ expired = FALSE
  /\ copies = 0
  /\ accepted = 0
  /\ answered = 0
  /\ abandoned = 0
  /\ live = {}

BindClientWire(w) ==
  /\ wire' = w
  /\ UNCHANGED <<transaction, history>>

-------------------------------------------------------------------------------
(* on_query_from_kore_ *)

\* A challenge is ignored while another is pending or no client is bound.
DropsQuery == pending \/ wire = NoWire

Drop == DropsQuery /\ UNCHANGED bridgeVars

Forward(q) ==
  /\ ~DropsQuery
  /\ CanSend
  /\ pending' = TRUE
  /\ retry' = 0
  /\ query' = q
  /\ expired' = FALSE
  /\ copies' = 1
  /\ accepted' = accepted + 1
  /\ UNCHANGED <<wire, answered, abandoned>>

\* The send fails: pending_ is reset, last_gg_query_ is left set.
ForwardFails(q) ==
  /\ ~DropsQuery
  /\ ~CanSend
  /\ retry' = 0
  /\ query' = q
  /\ UNCHANGED <<wire, pending, expired, history>>

\* Mutant: last_gg_query_ is saved before the check of pending_.
OnQuerySavesFirst(q) ==
  \/ DropsQuery /\ query' = q
     /\ UNCHANGED <<wire, pending, retry, expired, history>>
  \/ Forward(q) \/ ForwardFails(q)

OnQuery(q) == Drop \/ Forward(q) \/ ForwardFails(q)

-------------------------------------------------------------------------------
(* maybe_consume_c2s *)

\* Mutant: the retry count survives the transaction.
ResetKeepsRetry ==
  /\ pending' = FALSE
  /\ query' = NoQuery
  /\ expired' = FALSE
  /\ copies' = 0
  /\ UNCHANGED <<wire, retry, accepted>>

Reset ==
  /\ pending' = FALSE
  /\ retry' = 0
  /\ query' = NoQuery
  /\ expired' = FALSE
  /\ copies' = 0
  /\ UNCHANGED <<wire, accepted>>

Abandon == Reset /\ abandoned' = abandoned + 1 /\ UNCHANGED answered

\* Mutant: one resend too many.
RetriesLeftInclusive == retry <= MaxRetries

RetriesLeft == retry < MaxRetries

\* Any chunk past the deadline, a response included, makes the bridge resend.
Resend ==
  /\ pending /\ expired
  /\ RetriesLeft
  /\ CanSend /\ query # NoQuery
  /\ retry' = retry + 1
  /\ expired' = FALSE
  /\ copies' = copies + 1
  /\ UNCHANGED <<wire, pending, query, accepted, answered, abandoned>>

ResendFails ==
  /\ pending /\ expired
  /\ RetriesLeft
  /\ ~(CanSend /\ query # NoQuery)
  /\ Abandon

\* Mutant: the first timeout ends the transaction.
GiveUpAtOnce == pending /\ expired /\ Abandon

\* Mutant: the transaction is not reset when the retries are used up.
GiveUpKeepsPending == pending /\ expired /\ ~RetriesLeft /\ UNCHANGED bridgeVars

GiveUp ==
  /\ pending /\ expired
  /\ ~RetriesLeft
  /\ Abandon

\* sendReply is called first, then the transaction is reset.
Answer(f) ==
  /\ pending /\ ~expired
  /\ IsResponse(f)
  /\ answered' = answered + 1
  /\ Reset
  /\ UNCHANGED abandoned

\* A late 0x09D0 is swallowed, everything else is left to the flow.
Pass(f) ==
  /\ pending => ~expired /\ ~IsResponse(f)
  /\ UNCHANGED bridgeVars

MaybeConsume(f) == Resend \/ ResendFails \/ GiveUp \/ Answer(f) \/ Pass(f)

-------------------------------------------------------------------------------
Expire ==
  /\ pending /\ ~expired
  /\ expired' = TRUE
  /\ UNCHANGED <<wire, pending, retry, query, history>>

(* The callers: handlers bind and unbind, OpenKore asks, the client sends. *)
Bind     == \E w \in Wires \cup {NoWire} : BindClientWire(w)
Ask      == accepted < MaxQueries /\ \E q \in Queries : OnQuery(q)
Traffic  == \E f \in Frames : MaybeConsume(f)

\* Sessions come and go at any time.
Next ==
  /\ Bind \/ Ask \/ Traffic \/ Expire \/ UNCHANGED bridgeVars
  /\ live' \in SUBSET Wires

Spec == Init /\ [][Next]_vars

\* Time passes, and the client keeps sending chunks that are no responses, as
\* it does with its keepalives; no response is ever promised, and OpenKore, the
\* handlers and the sessions are free to do nothing.
FairSpec == Spec /\ WF_bridgeVars(Expire) /\ WF_bridgeVars(MaybeConsume("other"))

-------------------------------------------------------------------------------
TypeOK ==
  /\ wire \in Wires \cup {NoWire}
  /\ pending \in BOOLEAN
  /\ retry \in 0..MaxRetries
  /\ query \in Queries \cup {NoQuery}
  /\ expired \in BOOLEAN
  /\ copies \in 0..(MaxRetries + 1)
  /\ accepted \in Nat
  /\ answered \in Nat
  /\ abandoned \in Nat
  /\ live \in SUBSET Wires

\* No challenge is lost or settled twice: across retries, failed sends,
\* rebinding and give-ups, every challenge that became pending is answered
\* once, abandoned once, or still pending (the three reset sites of
\* maybe_consume_c2s and the one of on_query_from_kore_ agree).
EachSettledOnce ==
  accepted = answered + abandoned + (IF pending THEN 1 ELSE 0)

\* The client sees at most MaxRetries + 1 copies of a challenge, and
\* retry_count_ always tells how many it has seen: no path leaves a stale
\* retry_count_ or an empty last_gg_query_ behind for the next challenge.
RetriesCountCopies ==
  /\ pending => copies = retry + 1 /\ query # NoQuery
  /\ ~pending => copies = 0 /\ retry = 0 /\ ~expired

\* Both ledgers agree after every call: what became pending has been settled
\* once, and the counters that decide on a resend belong to what is pending.
BooksBalance == EachSettledOnce /\ RetriesCountCopies

\* A challenge whose client is still there is given up only after the
\* deadline of its last allowed copy has passed.
NoEarlyGiveUp ==
  [][abandoned' # abandoned /\ CanSend => copies = MaxRetries + 1 /\ expired]_vars

\* As long as the client keeps sending anything at all, every challenge is
\* settled: maybe_consume_c2s is the only place that looks at the deadline, and
\* each look past it uses up one of the finitely many retries.
PendingSettles == pending ~> ~pending

Exchange == INSTANCE GGExchange WITH open <- IF pending THEN query ELSE NoQuery

\* The bridge keeps the promise of GGExchange.
ImplementsExchange == Exchange!Spec
===============================================================================
