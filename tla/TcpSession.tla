------------------------------ MODULE TcpSession ------------------------------
(***************************************************************************)
(* TcpSession in src/infrastructure/net/asio/AsioTcpServer.cpp: one read   *)
(* loop, one write at a time out of a queue, and a watchdog on the write.  *)
(* One action per completion handler and per call of the session, except   *)
(* that on_data is left open between Receive and Return, since the handler *)
(* it calls sends on the same session.  The io loop has one thread: while  *)
(* on_data runs (serving) only its own calls happen.                       *)
(*                                                                         *)
(* The n-th packet sent on the session is the number n.                    *)
(***************************************************************************)
EXTENDS Naturals, Sequences

CONSTANTS
  QueueLimit,  (* 1000: a longer write queue closes the session            *)
  MaxSends,    (* bound: packets sent                                      *)
  MaxCalls     (* bound: calls of on_data                                  *)

ASSUME SessionAssumption ==
  /\ QueueLimit \in Nat \ {0}
  /\ MaxSends \in Nat
  /\ MaxCalls \in Nat

VARIABLES
  started,     (* start() was called                                       *)
  sock,        (* socket_: "open" or "closed"                              *)
  reading,     (* the async_read_some: "off", "armed", or "aborted" when   *)
               (* cancel() has hit it and only its handler is left to run  *)
  serving,     (* inside handler_->on_data                                 *)
  queue,       (* write_queue_                                             *)
  writing,     (* the async_write of the front, like reading               *)
  timer,       (* write_timer_ has a wait                                  *)
  fired,       (* the packet whose wait is over while its handler has yet  *)
               (* to run, or 0                                             *)
  sent,        (* history: packets sent                                    *)
  delivered,   (* history: packets written completely                      *)
  failed,      (* history: a write ended with an error                     *)
  calls,       (* history: calls of on_data                                *)
  lateCalls,   (* history: calls of on_data on a closed socket             *)
  losses       (* history: calls of on_disconnect                          *)

vars == <<started, sock, reading, serving, queue, writing, timer, fired,
          sent, delivered, failed, calls, lateCalls, losses>>

readVars  == <<reading, serving, calls, lateCalls>>
writeVars == <<queue, writing, timer, sent, delivered, failed>>

\* A completion handler runs: never while another one does.
Free == started /\ ~serving

Init ==
  /\ started = FALSE
  /\ sock = "open"
  /\ reading = "off" /\ serving = FALSE
  /\ queue = <<>> /\ writing = "off" /\ timer = FALSE /\ fired = 0
  /\ sent = 0 /\ delivered = 0 /\ failed = FALSE
  /\ calls = 0 /\ lateCalls = 0 /\ losses = 0

Start ==
  /\ ~started
  /\ started' = TRUE
  /\ reading' = "armed"
  /\ UNCHANGED <<sock, serving, fired, writeVars, calls, lateCalls, losses>>

-------------------------------------------------------------------------------
(* do_close and do_write *)

\* Mutant: do_close does not look whether the socket is closed already.
DoCloseAgain(notices) ==
  /\ sock' = "closed" /\ timer' = FALSE
  /\ losses' = losses + notices

\* Outstanding operations stay armed: on a closed socket they end one way or
\* the other, according to what happened first.
DoClose(notices) ==
  \/ sock = "closed" /\ UNCHANGED <<sock, timer, losses>>
  \/ /\ sock = "open"
     /\ sock' = "closed" /\ timer' = FALSE
     /\ losses' = losses + notices

DoWrite(q) ==
  LET go == q # <<>> /\ sock = "open" IN
  /\ writing' = IF go THEN "armed" ELSE "off"
  /\ timer' = go

-------------------------------------------------------------------------------
(* reading *)

\* A chunk arrived, perhaps just before the socket was closed.
Receive ==
  /\ Free /\ reading = "armed" /\ calls < MaxCalls
  /\ reading' = "off"
  /\ serving' = TRUE
  /\ calls' = calls + 1
  /\ lateCalls' = lateCalls + (IF sock = "closed" THEN 1 ELSE 0)
  /\ UNCHANGED <<started, sock, fired, writeVars, losses>>

\* on_data returns and the next read is started.
Return ==
  /\ serving
  /\ serving' = FALSE
  /\ reading' = IF sock = "open" THEN "armed" ELSE "off"
  /\ UNCHANGED <<started, sock, fired, writeVars, calls, lateCalls, losses>>

\* Mutant: the read loop ends without a word.
ReadFailsSilently ==
  /\ Free /\ reading # "off"
  /\ reading' = "off"
  /\ UNCHANGED <<started, sock, serving, fired, writeVars, calls, lateCalls, losses>>

\* Mutant: an aborted read is started again.
ReadFailsRetries ==
  /\ Free /\ reading # "off"
  /\ reading' = "armed"
  /\ UNCHANGED <<started, sock, serving, fired, writeVars, calls, lateCalls, losses>>

\* handle_read_error: the socket is not closed.
ReadFails ==
  /\ Free /\ reading # "off"
  /\ reading' = "off"
  /\ losses' = losses + 1
  /\ UNCHANGED <<started, sock, serving, fired, writeVars, calls, lateCalls>>

-------------------------------------------------------------------------------
(* writing *)

\* Who calls send: the flow inside on_data, the bridge while it is bound to the
\* session.  The handler unbinds it in on_disconnect.
Callable == started /\ (serving \/ losses = 0)

\* Mutant: the queue has no limit.
SendUnlimited ==
  /\ Callable /\ sent < MaxSends
  /\ sent' = sent + 1
  /\ queue' = Append(queue, sent + 1)
  /\ IF queue = <<>> THEN DoWrite(queue') ELSE UNCHANGED <<writing, timer>>
  /\ UNCHANGED <<started, sock, readVars, fired, delivered, failed, losses>>

Send ==
  /\ Callable /\ sent < MaxSends
  /\ sent' = sent + 1
  /\ queue' = Append(queue, sent + 1)
  /\ \/ /\ Len(queue') > QueueLimit
        /\ DoClose(1)
        /\ UNCHANGED writing
     \/ /\ Len(queue') <= QueueLimit
        /\ IF queue = <<>> THEN DoWrite(queue') ELSE UNCHANGED <<writing, timer>>
        /\ UNCHANGED <<sock, losses>>
  /\ UNCHANGED <<started, readVars, fired, delivered, failed>>

\* close() notifies nobody; the read it aborts does.
Close ==
  /\ Callable
  /\ DoClose(0)
  /\ UNCHANGED <<started, readVars, fired, queue, writing, sent, delivered, failed>>

\* Mutant: the write handler pops the packet and leaves it at that.
WroteStops ==
  /\ Free /\ writing = "armed"
  /\ delivered' = Head(queue)
  /\ queue' = Tail(queue)
  /\ writing' = "off" /\ timer' = FALSE
  /\ UNCHANGED <<started, sock, readVars, fired, sent, failed, losses>>

Wrote ==
  /\ Free /\ writing = "armed"
  /\ delivered' = Head(queue)
  /\ queue' = Tail(queue)
  /\ DoWrite(queue')
  /\ UNCHANGED <<started, sock, readVars, fired, sent, failed, losses>>

\* handle_write_error: neither is the packet popped nor the socket closed.
WriteFails ==
  /\ Free /\ writing # "off"
  /\ writing' = "off" /\ timer' = FALSE
  /\ failed' = TRUE
  /\ losses' = losses + 1
  /\ UNCHANGED <<started, sock, readVars, fired, queue, sent, delivered>>

\* WRITE_TIMEOUT has passed.
Expire ==
  /\ timer /\ fired = 0
  /\ timer' = FALSE
  /\ fired' = Head(queue)
  /\ UNCHANGED <<started, sock, readVars, queue, writing, sent, delivered, failed, losses>>

\* What cancel() makes of an operation: it is aborted, unless it, or the part
\* of a long write that is under way, has ended already.
Cancelled(op) == IF op = "armed" /\ sock = "open" THEN {"armed", "aborted"} ELSE {op}

\* The handler of the wait.  It cannot be recalled once it is queued, and it
\* does not look whether the write it watched is over.
Timeout ==
  /\ Free /\ fired # 0
  /\ fired' = 0
  /\ reading' \in Cancelled(reading)
  /\ writing' \in Cancelled(writing)
  /\ UNCHANGED <<started, sock, serving, calls, lateCalls, queue, timer,
                 sent, delivered, failed, losses>>

Next ==
  \/ Start
  \/ Receive \/ Return \/ ReadFails
  \/ Send \/ Close
  \/ Wrote \/ WriteFails
  \/ Expire \/ Timeout

Spec == Init /\ [][Next]_vars

\* Time passes and the io loop runs what is ready: an operation is once it was
\* aborted or the socket is closed; before that it is up to the peer.
ReadEnds  == ReadFails /\ (sock = "closed" \/ reading = "aborted")
WriteEnds == WriteFails /\ (sock = "closed" \/ writing = "aborted")

FairSpec ==
  /\ Spec
  /\ WF_vars(Start) /\ WF_vars(Return)
  /\ WF_vars(ReadEnds) /\ WF_vars(WriteEnds)
  /\ WF_vars(Expire) /\ WF_vars(Timeout)

\* Nothing refers to the session any more: it is destroyed.
Over == Free /\ reading = "off" /\ writing = "off" /\ ~timer /\ fired = 0

-------------------------------------------------------------------------------
\* The loss of a session is notified at most three times (a failed read, a
\* failed write, an overflow), whatever order they come in.
TypeOK ==
  /\ started \in BOOLEAN
  /\ sock \in {"open", "closed"}
  /\ reading \in {"off", "armed", "aborted"}
  /\ serving \in BOOLEAN
  /\ queue \in Seq(1..MaxSends)
  /\ writing \in {"off", "armed", "aborted"}
  /\ timer \in BOOLEAN
  /\ fired \in 0..MaxSends
  /\ sent \in 0..MaxSends
  /\ delivered \in 0..MaxSends
  /\ failed \in BOOLEAN
  /\ calls \in 0..MaxCalls
  /\ lateCalls \in Nat
  /\ losses \in 0..3

\* Packets leave in the order they were sent, none twice and none skipped, and
\* the buffer an async_write refers to is never popped under it: what is queued
\* is exactly what was sent after the last packet that was written.
InOrder ==
  /\ queue = [i \in 1..(sent - delivered) |-> delivered + i]
  /\ writing # "off" => queue # <<>>

\* No wakeup is lost between send(), which starts a write only when the queue
\* was empty, and the write handler, which goes on only when it is not: a queue
\* nobody writes belongs to a session that failed or is closed.
NoIdleQueue == queue # <<>> /\ writing = "off" => failed \/ sock = "closed"

\* What a session is told to send goes out, in order, for as long as it can.
QueueIsWritten == InOrder /\ NoIdleQueue

\* A slow peer, or one that was lost to a failed write while it still sends,
\* costs at most QueueLimit packets of memory before its socket is closed.
QueueBounded == sock = "open" => Len(queue) <= QueueLimit

\* After the socket is closed at most one chunk, read before, is still served.
OneChunkAfterClose == lateCalls <= 1

\* A peer that is too slow, or gone, costs a bounded number of packets and chunks.
LossIsBounded == QueueBounded /\ OneChunkAfterClose

\* A closed session is not kept alive by its operations or its watchdog.
SessionEnds == sock = "closed" ~> Over

\* A peer that takes what is written to it gets all of it, unless a write fails
\* or the session is closed.
DrainsToReader ==
  WF_vars(Wrote) => (queue # <<>> ~> queue = <<>> \/ failed \/ sock = "closed")

\* No session hangs, neither its queue nor itself.
NoSessionHangs == SessionEnds /\ DrainsToReader

LinkOf ==
  IF ~started \/ Over THEN "free"
  ELSE IF reading = "off" /\ ~serving THEN "ending"
  ELSE IF losses = 0 /\ sock = "open" THEN "open"
  ELSE "notified"

Link == INSTANCE SessionLink WITH link <- LinkOf

\* The session is what the handlers, and QueryPath's model of it, rely on.
ImplementsLink == Link!Spec
===============================================================================
