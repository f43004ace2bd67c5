---------------------------- MODULE AsioTcpClient ----------------------------
(***************************************************************************)
(* AsioTcpClient in src/infrastructure/net/asio/AsioTcpClient.cpp: a       *)
(* connection that is made again when it is lost, with a watchdog on every *)
(* connect, read and write, a queue of packets and a growing wait between  *)
(* attempts.  One action per call and per completion handler.  They run    *)
(* one at a time because the io_context has one thread: the waits (lines   *)
(* 74, 161, 211 and 271) are not put on the strand.                        *)
(*                                                                         *)
(* An asynchronous operation is live until it succeeds (done) or is        *)
(* aborted or fails (failed); its handler runs later.  A write is named by *)
(* the number of the packet its buffer belongs to.  A host name resolves   *)
(* to one address.                                                         *)
(***************************************************************************)
EXTENDS Naturals, Sequences

CONSTANTS
  MaxAttempts, (* MAX_RECONNECT_ATTEMPTS: 10                               *)
  QueueLimit,  (* kMaxWriteQueue: 1024                                     *)
  QueueKept,   (* kMaxWriteQueue / 2: what an overflow leaves in the queue *)
  MaxSends,    (* bound: packets sent                                      *)
  MaxConnects  (* bound: calls of connect                                  *)

ASSUME ClientAssumption ==
  /\ MaxAttempts \in Nat \ {0}
  /\ QueueLimit \in Nat /\ QueueKept \in Nat
  /\ 1 < QueueKept /\ QueueKept <= QueueLimit
  /\ MaxSends \in Nat /\ MaxConnects \in Nat

Packets   == 1..MaxSends
Dial      == <<"connect", 0>>
Read      == <<"read", 0>>
Write(p)  == <<"write", p>>
Ops       == {Dial, Read} \cup {Write(p) : p \in Packets}
Watchdogs == {"connect", "read", "write"}
Timers    == Watchdogs \cup {"reconnect"}
None      == [o \in Ops |-> 0]

VARIABLES
  sock,     (* socket_: "closed", "opening" (open, not connected) or       *)
            (* "connected"                                                 *)
  live,     (* operations under way on the socket                          *)
  done,     (* operations that succeeded, their handler yet to run         *)
  failed,   (* operations that did not, their handler yet to run           *)
  armed,    (* the timers that have a wait                                 *)
  due,      (* the timers whose wait is over, their handler yet to run     *)
  attempts, (* reconnect_attempts_                                         *)
  queue,    (* write_q_                                                    *)
  parked,   (* history: a packet was queued, or left queued by a write     *)
            (* that ended, while the socket was closed                     *)
  connects, (* history: calls of connect                                   *)
  sent,     (* history: packets sent                                       *)
  silent,   (* history: the user closed the client after the last connect  *)
  gaveUp,   (* history: on_error_ was called; no attempt was planned or    *)
            (* begun and no connection made since                          *)
  popped    (* history: the worst a write's handler took off the queue:    *)
            (* "own", "other" than the packet it wrote, or "nothing" at    *)
            (* all, which is undefined behaviour                           *)

vars == <<sock, live, done, failed, armed, due, attempts, queue,
          parked, connects, sent, silent, gaveUp, popped>>
opVars    == <<live, done, failed>>
queueVars == <<queue, parked>>
userVars  == <<connects, sent, silent>>

Runs == popped # "nothing"

Init ==
  /\ sock = "closed"
  /\ live = None /\ done = None /\ failed = None
  /\ armed = {} /\ due = {}
  /\ attempts = 0 /\ queue = <<>> /\ parked = FALSE
  /\ connects = 0 /\ sent = 0 /\ silent = FALSE
  /\ gaveUp = FALSE /\ popped = "own"

-------------------------------------------------------------------------------
(* what the handlers are made of *)

More(ops, o) == [ops EXCEPT ![o] = @ + 1]
Less(ops, o) == [ops EXCEPT ![o] = @ - 1]

\* socket_.cancel(), close() or a socket opened anew aborts what is under way,
\* but async_write sends a packet in parts, and a write that is between two of
\* them (kept) is not aborted: it goes on with whatever socket_ is by then, from
\* a buffer that may be freed.
Composed      == {o \in Ops : live[o] > 0 /\ o \notin {Dial, Read}}
Left(kept)    == [o \in Ops |-> IF o \in kept THEN live[o] ELSE 0]
Aborted(kept) == [o \in Ops |-> IF o \in kept THEN failed[o] ELSE failed[o] + live[o]]

\* Mutants: one attempt more, or a counter that stands still.
ExhaustedLate(n) == n > MaxAttempts
NotCounted(n)    == n

Exhausted(n) == n >= MaxAttempts
Counted(n)   == n + 1

\* schedule_reconnect, after n attempts and with the other timers as they are.
\* The timer is replaced: a wait it had is cancelled.
ScheduleReconnect(n, timers) ==
  \/ /\ Exhausted(n)
     /\ attempts' = n /\ armed' = timers
     /\ gaveUp' = TRUE
  \/ /\ ~Exhausted(n)
     /\ attempts' = Counted(n) /\ armed' = timers \cup {"reconnect"}
     /\ gaveUp' = FALSE

\* do_resolve_and_connect: the name is not resolved, or the socket is opened
\* anew, which aborts whatever was under way on it.
ResolveAndConnect(n) ==
  \/ ScheduleReconnect(n, armed) /\ UNCHANGED <<sock, live, failed>>
  \/ /\ sock' = "opening" /\ attempts' = n /\ gaveUp' = FALSE
     /\ armed' = armed \cup {"connect"}
     /\ \E kept \in SUBSET Composed :
          live' = More(Left(kept), Dial) /\ failed' = Aborted(kept)

\* do_read and do_write: the operation o is started, with its watchdog, if the
\* socket is open; timers are those that have a wait already.
Begin(o, timers) ==
  IF sock # "closed"
  THEN live' = More(live, o) /\ armed' = timers \cup {o[1]}
  ELSE live' = live /\ armed' = timers

\* Mutant: the connection is closed and not made again.
FailStops(o) ==
  /\ Runs /\ failed[o] > 0
  /\ sock' = "closed" /\ queue' = <<>> /\ parked' = FALSE /\ armed' = {}
  /\ \E kept \in SUBSET Composed :
       live' = Left(kept) /\ failed' = Less(Aborted(kept), o)
  /\ UNCHANGED <<done, due, attempts, userVars, gaveUp, popped>>

\* The handler of a failed read or write: close() and schedule_reconnect().
Fail(o) ==
  /\ Runs /\ failed[o] > 0
  /\ sock' = "closed" /\ queue' = <<>> /\ parked' = FALSE
  /\ \E kept \in SUBSET Composed :
       live' = Left(kept) /\ failed' = Less(Aborted(kept), o)
  /\ ScheduleReconnect(attempts, {})
  /\ UNCHANGED <<done, due, userVars, popped>>

-------------------------------------------------------------------------------
(* what the user calls *)

Connect ==
  /\ Runs /\ connects < MaxConnects
  /\ connects' = connects + 1 /\ silent' = FALSE
  /\ ResolveAndConnect(0)
  /\ UNCHANGED <<done, due, queueVars, sent, popped>>

\* Mutant: every packet starts a write.
WritesAnyway(q) == Len(q) > 0

\* Above its limit the queue sheds from the front.  One packet in the queue is
\* taken to mean that no write is under way.
Queued(q) ==
  IF Len(q) > QueueLimit THEN SubSeq(q, Len(q) - QueueKept + 1, Len(q)) ELSE q
Writes(q) == Len(q) = 1

Send ==
  /\ Runs /\ sent < MaxSends
  /\ sent' = sent + 1
  /\ queue' = Queued(Append(queue, sent + 1))
  /\ parked' = (parked \/ sock = "closed")
  /\ IF Writes(queue') THEN Begin(Write(Head(queue')), armed) ELSE UNCHANGED <<live, armed>>
  /\ UNCHANGED <<sock, done, failed, due, attempts, connects, silent, gaveUp, popped>>

Shut ==
  /\ sock' = "closed" /\ queue' = <<>> /\ parked' = FALSE
  /\ armed' = {} /\ silent' = TRUE
  /\ \E kept \in SUBSET Composed : live' = Left(kept) /\ failed' = Aborted(kept)

Close ==
  /\ Runs /\ Shut
  /\ UNCHANGED <<done, due, attempts, connects, sent, gaveUp, popped>>

-------------------------------------------------------------------------------
(* handlers *)

\* A socket that was closed meanwhile counts as a failure.
Connected ==
  /\ Runs /\ done[Dial] > 0
  /\ done' = Less(done, Dial)
  /\ \/ /\ sock # "closed"
        /\ attempts' = 0 /\ gaveUp' = FALSE
        /\ Begin(Read, armed \ {"connect"})
     \/ /\ sock = "closed"
        /\ ScheduleReconnect(attempts, armed \ {"connect"})
        /\ UNCHANGED live
  /\ UNCHANGED <<sock, failed, due, queueVars, userVars, popped>>

ConnectFails ==
  /\ Runs /\ failed[Dial] > 0
  /\ failed' = Less(failed, Dial)
  /\ ScheduleReconnect(attempts, armed \ {"connect"})
  /\ UNCHANGED <<sock, live, done, due, queueVars, userVars, popped>>

\* Mutant: no read follows.
ReceivedStops ==
  /\ Runs /\ done[Read] > 0
  /\ done' = Less(done, Read)
  /\ armed' = armed \ {"read"}
  /\ UNCHANGED <<sock, live, failed, due, attempts, queueVars, userVars, gaveUp, popped>>

\* on_data_ is called and the next read is started.
Received ==
  /\ Runs /\ done[Read] > 0
  /\ done' = Less(done, Read)
  /\ Begin(Read, armed \ {"read"})
  /\ UNCHANGED <<sock, failed, due, attempts, queueVars, userVars, gaveUp, popped>>

\* on_data_ calls close(): there is no next read.
ReceivedLast ==
  /\ Runs /\ done[Read] > 0
  /\ done' = Less(done, Read)
  /\ Shut
  /\ UNCHANGED <<due, attempts, connects, sent, gaveUp, popped>>

ReadFails == Fail(Read)

WriteOn(q, timers) ==
  \/ q # <<>> /\ Begin(Write(Head(q)), timers)
  \/ q = <<>> /\ live' = live /\ armed' = timers

\* The front of the queue goes, whatever it is by now, and the next is written.
Wrote(p) ==
  /\ Runs /\ done[Write(p)] > 0
  /\ done' = Less(done, Write(p))
  /\ \/ /\ queue = <<>>
        /\ popped' = "nothing"
        /\ UNCHANGED <<live, armed, queueVars>>
     \/ /\ queue # <<>>
        /\ popped' = IF Head(queue) = p THEN popped ELSE "other"
        /\ queue' = Tail(queue)
        /\ parked' = (queue' # <<>> /\ (parked \/ sock = "closed"))
        /\ WriteOn(queue', armed \ {"write"})
  /\ UNCHANGED <<sock, failed, due, attempts, userVars, gaveUp>>

WriteFails(p) == Fail(Write(p))

\* The handler of a watchdog's wait cancels all that is under way; the one of
\* the wait between attempts makes the next.
Watchdog(t) ==
  /\ Runs /\ t \in due
  /\ due' = due \ {t}
  /\ \E kept \in SUBSET Composed : live' = Left(kept) /\ failed' = Aborted(kept)
  /\ UNCHANGED <<sock, done, armed, attempts, queueVars, userVars, gaveUp, popped>>

Reconnect ==
  /\ Runs /\ "reconnect" \in due
  /\ due' = due \ {"reconnect"}
  /\ ResolveAndConnect(attempts)
  /\ UNCHANGED <<done, queueVars, userVars, popped>>

-------------------------------------------------------------------------------
(* the network and the clock *)

\* An operation on a socket that is not connected does not succeed.
Succeeds(o) ==
  /\ Runs /\ live[o] > 0
  /\ sock = (IF o = Dial THEN "opening" ELSE "connected")
  /\ sock' = "connected"
  /\ live' = Less(live, o)
  /\ done' = More(done, o)
  /\ UNCHANGED <<failed, armed, due, attempts, queueVars, userVars, gaveUp, popped>>

\* While an attempt is under way the socket does nothing else.
Breaks(o) ==
  /\ Runs /\ live[o] > 0
  /\ o # Dial => live[Dial] = 0
  /\ live' = Less(live, o)
  /\ failed' = More(failed, o)
  /\ UNCHANGED <<sock, done, armed, due, attempts, queueVars, userVars, gaveUp, popped>>

Expire(t) ==
  /\ Runs /\ t \in armed
  /\ armed' = armed \ {t}
  /\ due' = due \cup {t}
  /\ UNCHANGED <<sock, opVars, attempts, queueVars, userVars, gaveUp, popped>>

Next ==
  \/ Connect \/ Send \/ Close
  \/ Connected \/ ConnectFails
  \/ Received \/ ReceivedLast \/ ReadFails
  \/ \E p \in Packets : Wrote(p) \/ WriteFails(p)
  \/ \E t \in Watchdogs : Watchdog(t)
  \/ Reconnect
  \/ \E o \in Ops : Succeeds(o) \/ Breaks(o)
  \/ \E t \in Timers : Expire(t)

Spec == Init /\ [][Next]_vars

\* Waits end, the handlers that lead to the next attempt run, and the kernel
\* gives an attempt up by itself.
FairSpec ==
  /\ Spec
  /\ WF_vars(Succeeds(Dial) \/ Breaks(Dial)) /\ WF_vars(Connected) /\ WF_vars(ConnectFails)
  /\ WF_vars(ReadFails) /\ WF_vars(\E p \in Packets : WriteFails(p))
  /\ WF_vars(Expire("read")) /\ WF_vars(Watchdog("read"))
  /\ WF_vars(Expire("reconnect")) /\ WF_vars(Reconnect)

-------------------------------------------------------------------------------
Pending(o) == live[o] + done[o] + failed[o] > 0

\* The counter of attempts keeps to its limit, and on_error_ is only called when
\* it stands there.  (It counts failures: a read and a write of one connection that
\* fail together are two, and fewer attempts than the limit are made then.)
TypeOK ==
  /\ sock \in {"closed", "opening", "connected"}
  /\ live \in [Ops -> Nat] /\ done \in [Ops -> Nat] /\ failed \in [Ops -> Nat]
  /\ armed \in SUBSET Timers /\ due \in SUBSET Timers
  /\ attempts \in 0..MaxAttempts
  /\ gaveUp \in BOOLEAN /\ (gaveUp => attempts = MaxAttempts)
  /\ queue \in Seq(Packets) /\ parked \in BOOLEAN
  /\ connects \in 0..MaxConnects /\ sent \in 0..MaxSends
  /\ silent \in BOOLEAN
  /\ popped \in {"own", "other", "nothing"}

\* Whatever handlers of earlier connections are still to come, a connection is
\* not left without a read, the only thing that would notice its loss; and, though
\* the timers are one per kind of operation and not one per operation, none of
\* those handlers takes the watchdog of a read that is under way.
ConnectionIsWatched ==
  /\ sock = "connected" => Pending(Read) \/ done[Dial] > 0
  /\ live[Read] > 0 => "read" \in armed \cup due

\* A client that was neither closed nor told its user that it gives up has
\* something to come that goes on.  (The counter is increased twice and the
\* wait replaced when a read and a write fail together.)
NotForgotten ==
  connects > 0 /\ Runs =>
    silent \/ gaveUp \/ "reconnect" \in armed \cup due \/ Pending(Dial) \/ Pending(Read)

\* What the queue holds is the last of what was sent, in order and complete,
\* however often it was shed, popped or cleared, and never more than its limit.
QueueIsNewest ==
  /\ queue = [i \in 1..Len(queue) |-> sent - Len(queue) + i]
  /\ Len(queue) <= QueueLimit

\* No packet is given to the socket twice, and none that waits behind the front
\* has been: what is under way is the front of the queue or has left it.
WrittenInTurn ==
  \A p \in Packets :
    /\ live[Write(p)] + done[Write(p)] + failed[Write(p)] <= 1
    /\ Pending(Write(p)) /\ queue # <<>> => p <= Head(queue)

\* On a connection a queue that no write is going to go on with holds a packet
\* that was queued while there was none: nothing else makes the queue stand
\* still, though other handlers may pop from it.
IdleQueueWasParked ==
  queue # <<>> /\ sock = "connected" =>
    parked \/ \E p \in Packets : Pending(Write(p))

\* The three of them: what send(), the write handlers and the cuts of the queue
\* leave of it at any time.
QueueSound == QueueIsNewest /\ WrittenInTurn /\ IdleQueueWasParked

\* Attempts end, in a connection or in giving up, unless the client is closed.
Settles ==
  connects > 0 ~> sock = "connected" \/ gaveUp \/ silent \/ ~Runs

-------------------------------------------------------------------------------
(* What a comment in the source says and the code does not do. *)

\* AsioTcpClient.cpp:256 "Pop written packet and continue if more remain.": the
\* handler of a write pops what it wrote, whatever close(), a failed read or a
\* full queue has taken out of the queue meanwhile.
PopsOwn == popped = "own"
===============================================================================
