-------------------------- MODULE AsioTcpClient_proofs --------------------------
(***************************************************************************)
(* Proofs about AsioTcpClient, for every limit of its queue, any number of *)
(* attempts, of packets and of calls of connect.                           *)
(***************************************************************************)
EXTENDS AsioTcpClient, SequenceTheorems, TLAPS

(* Operations, and counts of them. *)

LEMMA OpsFacts ==
  /\ Dial \in Ops /\ Read \in Ops /\ Dial # Read
  /\ Dial[1] = "connect" /\ Read[1] = "read"
  /\ \A p \in Packets : /\ Write(p) \in Ops /\ Write(p) # Dial /\ Write(p) # Read
                        /\ Write(p)[1] = "write"
  /\ \A p, q \in Packets : Write(p) = Write(q) => p = q
  /\ \A o \in Ops : o[1] \in Watchdogs
BY DEF Ops, Dial, Read, Write, Watchdogs

LEMMA NoneFacts == None \in [Ops -> Nat] /\ \A o \in Ops : None[o] = 0
BY DEF None

LEMMA Counts ==
  ASSUME NEW ops \in [Ops -> Nat], NEW o \in Ops
  PROVE  /\ More(ops, o) \in [Ops -> Nat]
         /\ \A x \in Ops : More(ops, o)[x] = IF x = o THEN ops[x] + 1 ELSE ops[x]
         /\ ops[o] > 0 => Less(ops, o) \in [Ops -> Nat]
         /\ \A x \in Ops : Less(ops, o)[x] = IF x = o THEN ops[x] - 1 ELSE ops[x]
BY DEF More, Less

LEMMA OpTypes ==
  ASSUME TypeOK
  PROVE  live \in [Ops -> Nat] /\ done \in [Ops -> Nat] /\ failed \in [Ops -> Nat]
BY DEF TypeOK

\* What is aborted and what goes on.
LEMMA CutFacts ==
  ASSUME TypeOK, NEW kept \in SUBSET Composed
  PROVE  /\ Left(kept) \in [Ops -> Nat] /\ Aborted(kept) \in [Ops -> Nat]
         /\ \A o \in Ops : Left(kept)[o] + Aborted(kept)[o] = live[o] + failed[o]
         /\ \A o \in Ops : failed[o] <= Aborted(kept)[o]
         /\ Left(kept)[Dial] = 0 /\ Left(kept)[Read] = 0
<1>1. \A o \in Ops : live[o] \in Nat /\ failed[o] \in Nat
  BY DEF TypeOK
<1>2. Dial \notin kept /\ Read \notin kept
  BY DEF Composed
<1>3. /\ \A o \in Ops : Left(kept)[o] = IF o \in kept THEN live[o] ELSE 0
      /\ \A o \in Ops : Aborted(kept)[o] = IF o \in kept THEN failed[o] ELSE failed[o] + live[o]
  BY DEF Left, Aborted
<1>4. Left(kept) \in [Ops -> Nat] /\ Aborted(kept) \in [Ops -> Nat]
  BY <1>1 DEF Left, Aborted
<1> QED BY <1>1, <1>2, <1>3, <1>4, OpsFacts

-------------------------------------------------------------------------------
(* What the handlers are made of, as far as types and the next step go. *)

LEMMA ScheduleFacts ==
  ASSUME TypeOK, NEW n \in 0..MaxAttempts, NEW timers \in SUBSET Timers,
         ScheduleReconnect(n, timers)
  PROVE  /\ attempts' \in 0..MaxAttempts
         /\ gaveUp' \in BOOLEAN /\ (gaveUp' => attempts' = MaxAttempts)
         /\ armed' \in SUBSET Timers
         /\ timers \subseteq armed' /\ armed' \subseteq timers \cup {"reconnect"}
         /\ gaveUp' \/ "reconnect" \in armed'
<1>1. CASE Exhausted(n) /\ attempts' = n /\ armed' = timers /\ gaveUp' = TRUE
  BY <1>1, ClientAssumption DEF Exhausted
<1>2. CASE /\ ~Exhausted(n) /\ attempts' = Counted(n)
           /\ armed' = timers \cup {"reconnect"} /\ gaveUp' = FALSE
  <2>1. attempts' \in 0..MaxAttempts
    BY <1>2, ClientAssumption DEF Exhausted, Counted
  <2> QED BY <1>2, <2>1 DEF Timers
<1> QED BY <1>1, <1>2 DEF ScheduleReconnect

LEMMA BeginFacts ==
  ASSUME TypeOK, NEW o \in Ops, NEW timers \in SUBSET Timers, Begin(o, timers)
  PROVE  /\ live' \in [Ops -> Nat]
         /\ armed' \in SUBSET Timers /\ timers \subseteq armed'
         /\ sock # "closed" => live' = More(live, o) /\ armed' = timers \cup {o[1]}
         /\ sock = "closed" => live' = live /\ armed' = timers
<1>1. More(live, o) \in [Ops -> Nat] /\ live \in [Ops -> Nat]
  BY Counts DEF TypeOK
<1>2. timers \cup {o[1]} \in SUBSET Timers
  BY OpsFacts DEF Timers
<1> QED BY <1>1, <1>2 DEF Begin

LEMMA FailFacts ==
  ASSUME TypeOK, NEW o \in Ops, Fail(o)
  PROVE  /\ sock' = "closed" /\ queue' = <<>> /\ parked' = FALSE
         /\ live' \in [Ops -> Nat] /\ live'[Dial] = 0 /\ live'[Read] = 0
         /\ failed' \in [Ops -> Nat] /\ done' = done
         /\ \A x \in Ops : live'[x] + failed'[x] <= live[x] + failed[x]
         /\ UNCHANGED <<due, connects, sent, silent, popped>>
         /\ attempts' \in 0..MaxAttempts
         /\ gaveUp' \in BOOLEAN /\ (gaveUp' => attempts' = MaxAttempts)
         /\ armed' \in SUBSET Timers
         /\ gaveUp' \/ "reconnect" \in armed'
<1>1. ScheduleReconnect(attempts, {}) /\ attempts \in 0..MaxAttempts
  BY DEF Fail, TypeOK
<1>2. PICK kept \in SUBSET Composed : live' = Left(kept) /\ failed' = Less(Aborted(kept), o)
  BY DEF Fail
<1>3. Aborted(kept)[o] > 0
  <2>1. failed[o] > 0 /\ failed[o] <= Aborted(kept)[o]
    BY CutFacts DEF Fail
  <2>2. failed[o] \in Nat /\ Aborted(kept)[o] \in Nat
    BY CutFacts DEF TypeOK
  <2> QED BY <2>1, <2>2
<1>4. failed' \in [Ops -> Nat]
  BY <1>2, <1>3, CutFacts, Counts
<1>5. \A x \in Ops : live'[x] + failed'[x] <= live[x] + failed[x]
  <2> TAKE x \in Ops
  <2>1. failed'[x] <= Aborted(kept)[x] /\ Aborted(kept)[x] \in Nat /\ failed'[x] \in Nat
    BY <1>2, <1>4, CutFacts, Counts
  <2>2. Left(kept)[x] + Aborted(kept)[x] = live[x] + failed[x] /\ Left(kept)[x] \in Nat
    BY CutFacts
  <2> QED BY <1>2, <2>1, <2>2
<1>6. live' \in [Ops -> Nat] /\ live'[Dial] = 0 /\ live'[Read] = 0
  BY <1>2, CutFacts
<1>7. {} \in SUBSET Timers
  OBVIOUS
<1> QED BY <1>1, <1>4, <1>5, <1>6, <1>7, ScheduleFacts DEF Fail, userVars

LEMMA ResolveFacts ==
  ASSUME TypeOK, NEW n \in 0..MaxAttempts, ResolveAndConnect(n)
  PROVE  /\ attempts' \in 0..MaxAttempts
         /\ gaveUp' \in BOOLEAN /\ (gaveUp' => attempts' = MaxAttempts)
         /\ armed' \in SUBSET Timers /\ armed \subseteq armed'
         /\ live' \in [Ops -> Nat] /\ failed' \in [Ops -> Nat]
         /\ \A x \in Ops \ {Dial} : live'[x] + failed'[x] = live[x] + failed[x]
         /\ \/ /\ gaveUp' \/ "reconnect" \in armed'
               /\ UNCHANGED <<sock, live, failed>>
            \/ sock' = "opening" /\ live'[Dial] = 1 /\ live'[Read] = 0
<1>1. armed \in SUBSET Timers /\ live \in [Ops -> Nat] /\ failed \in [Ops -> Nat]
  BY DEF TypeOK
<1>2. CASE ScheduleReconnect(n, armed) /\ UNCHANGED <<sock, live, failed>>
  BY <1>1, <1>2, ScheduleFacts
<1>3. CASE /\ sock' = "opening" /\ attempts' = n /\ gaveUp' = FALSE
           /\ armed' = armed \cup {"connect"}
           /\ \E kept \in SUBSET Composed :
                live' = More(Left(kept), Dial) /\ failed' = Aborted(kept)
  <2>1. PICK kept \in SUBSET Composed : live' = More(Left(kept), Dial) /\ failed' = Aborted(kept)
    BY <1>3
  <2>2. live' \in [Ops -> Nat] /\ failed' \in [Ops -> Nat]
    BY <2>1, OpsFacts, CutFacts, Counts
  <2>3. \A x \in Ops : live'[x] = IF x = Dial THEN Left(kept)[x] + 1 ELSE Left(kept)[x]
    <3>1. Left(kept) \in [Ops -> Nat] /\ Dial \in Ops
      BY OpsFacts, CutFacts
    <3> HIDE DEF Dial
    <3> QED BY <2>1, <3>1 DEF More
  <2>4. \A x \in Ops \ {Dial} : live'[x] + failed'[x] = live[x] + failed[x]
    BY <2>1, <2>3, CutFacts
  <2>5. live'[Dial] = 1 /\ live'[Read] = 0
    BY <2>3, OpsFacts, CutFacts
  <2>6. armed' \in SUBSET Timers
    BY <1>1, <1>3 DEF Timers, Watchdogs
  <2> QED BY <1>3, <2>2, <2>4, <2>5, <2>6
<1> QED BY <1>2, <1>3 DEF ResolveAndConnect

\* What Shut and the watchdogs do to the operations.
LEMMA AbortFacts ==
  ASSUME TypeOK,
         \E kept \in SUBSET Composed : live' = Left(kept) /\ failed' = Aborted(kept)
  PROVE  /\ live' \in [Ops -> Nat] /\ failed' \in [Ops -> Nat]
         /\ live'[Dial] = 0 /\ live'[Read] = 0
         /\ \A x \in Ops : live'[x] + failed'[x] = live[x] + failed[x]
BY CutFacts

-------------------------------------------------------------------------------
(* Types. *)

LEMMA InitTypes == Init => TypeOK
<1> SUFFICES ASSUME Init PROVE TypeOK
  OBVIOUS
<1>1. 0 \in 0..MaxAttempts /\ 0 \in 0..MaxConnects /\ 0 \in 0..MaxSends
  BY ClientAssumption
<1>2. live \in [Ops -> Nat] /\ done \in [Ops -> Nat] /\ failed \in [Ops -> Nat]
  BY NoneFacts DEF Init
<1>3. queue \in Seq(Packets)
  BY DEF Init
<1> QED BY <1>1, <1>2, <1>3 DEF Init, TypeOK

\* What a full queue keeps.
LEMMA QueuedSeq == ASSUME NEW q \in Seq(Packets) PROVE Queued(q) \in Seq(Packets)
<1>1. CASE Len(q) > QueueLimit
  <2>1. /\ Len(q) \in Nat /\ Len(q) - QueueKept + 1 \in 1..(Len(q) + 1)
    BY <1>1, ClientAssumption
  <2>2. SubSeq(q, Len(q) - QueueKept + 1, Len(q)) \in Seq(Packets)
    BY <2>1, SubSeqProperties
  <2> QED BY <1>1, <2>2 DEF Queued
<1>2. CASE ~(Len(q) > QueueLimit)
  BY <1>2 DEF Queued
<1> QED BY <1>1, <1>2

LEMMA SendTypes == TypeOK /\ Send => TypeOK'
<1> SUFFICES ASSUME TypeOK, Send PROVE TypeOK'
  OBVIOUS
<1>1. sent' \in 0..MaxSends /\ sent + 1 \in Packets
  BY ClientAssumption DEF Send, TypeOK, Packets
<1>2. queue' \in Seq(Packets)
  <2>1. Append(queue, sent + 1) \in Seq(Packets)
    BY <1>1 DEF TypeOK
  <2> QED BY <2>1, QueuedSeq DEF Send
<1>3. live' \in [Ops -> Nat] /\ armed' \in SUBSET Timers
  <2>1. CASE Writes(queue') /\ Begin(Write(Head(queue')), armed)
    <3>1. Len(queue') = 1
      BY <2>1 DEF Writes
    <3>2. queue' # <<>> /\ Head(queue') \in Packets
      BY <1>2, <3>1
    <3>3. Write(Head(queue')) \in Ops /\ armed \in SUBSET Timers
      BY <3>2, OpsFacts DEF TypeOK
    <3> QED BY <2>1, <3>3, BeginFacts
  <2>2. CASE UNCHANGED <<live, armed>>
    BY <2>2 DEF TypeOK
  <2> QED BY <2>1, <2>2 DEF Send
<1>4. parked' \in BOOLEAN
  BY DEF Send, TypeOK
<1> QED BY <1>1, <1>2, <1>3, <1>4 DEF Send, TypeOK

LEMMA UserTypes == TypeOK /\ (Connect \/ Close) => TypeOK'
<1>1. ASSUME TypeOK, Connect PROVE TypeOK'
  <2>1. 0 \in 0..MaxAttempts /\ connects' \in 0..MaxConnects
    BY <1>1, ClientAssumption DEF Connect, TypeOK
  <2>2. sock' \in {"closed", "opening", "connected"}
    BY <1>1, <2>1, ResolveFacts DEF Connect, TypeOK
  <2>3. UNCHANGED <<done, due, queue, parked, sent, popped>> /\ silent' = FALSE
    BY <1>1 DEF Connect, queueVars
  <2>4. /\ attempts' \in 0..MaxAttempts
        /\ gaveUp' \in BOOLEAN /\ (gaveUp' => attempts' = MaxAttempts)
        /\ armed' \in SUBSET Timers
        /\ live' \in [Ops -> Nat] /\ failed' \in [Ops -> Nat]
    BY <1>1, <2>1, ResolveFacts DEF Connect
  <2>5. done' \in [Ops -> Nat] /\ due' \in SUBSET Timers /\ queue' \in Seq(Packets)
    BY <1>1, <2>3 DEF TypeOK
  <2>6. /\ parked' \in BOOLEAN /\ silent' \in BOOLEAN
        /\ sent' \in 0..MaxSends /\ popped' \in {"own", "other", "nothing"}
    BY <1>1, <2>3 DEF TypeOK
  <2> QED BY <2>1, <2>2, <2>4, <2>5, <2>6 DEF TypeOK
<1>2. ASSUME TypeOK, Close PROVE TypeOK'
  <2>1. live' \in [Ops -> Nat] /\ failed' \in [Ops -> Nat]
    BY <1>2, AbortFacts DEF Close, Shut
  <2>2. queue' \in Seq(Packets)
    BY <1>2 DEF Close, Shut
  <2> QED BY <1>2, <2>1, <2>2 DEF Close, Shut, TypeOK
<1> QED BY <1>1, <1>2

LEMMA DialTypes == TypeOK /\ (Connected \/ ConnectFails) => TypeOK'
<1>1. ASSUME TypeOK PROVE attempts \in 0..MaxAttempts /\ armed \ {"connect"} \in SUBSET Timers
  BY <1>1 DEF TypeOK
<1>2. ASSUME TypeOK, Connected PROVE TypeOK'
  <2>1. done' \in [Ops -> Nat]
    BY <1>2, OpsFacts, Counts DEF Connected, TypeOK
  <2>2. /\ UNCHANGED <<sock, failed, due, queue, parked, connects, sent, silent, popped>>
    BY <1>2 DEF Connected, queueVars, userVars
  <2>3. CASE /\ sock # "closed" /\ attempts' = 0 /\ gaveUp' = FALSE
             /\ Begin(Read, armed \ {"connect"})
    <3>1. live' \in [Ops -> Nat] /\ armed' \in SUBSET Timers
      BY <1>1, <1>2, <2>3, OpsFacts, BeginFacts
    <3>2. attempts' \in 0..MaxAttempts
      BY <2>3, ClientAssumption
    <3>3. gaveUp' \in BOOLEAN /\ ~gaveUp'
      BY <2>3
    <3> QED BY <1>2, <2>1, <2>2, <3>1, <3>2, <3>3 DEF TypeOK
  <2>4. CASE ScheduleReconnect(attempts, armed \ {"connect"}) /\ UNCHANGED live
    BY <1>1, <1>2, <2>1, <2>2, <2>4, ScheduleFacts DEF TypeOK
  <2> QED BY <1>2, <2>3, <2>4 DEF Connected
<1>3. ASSUME TypeOK, ConnectFails PROVE TypeOK'
  <2>1. failed' \in [Ops -> Nat]
    BY <1>3, OpsFacts, Counts DEF ConnectFails, TypeOK
  <2>2. /\ UNCHANGED <<sock, live, done, due, queue, parked, connects, sent, silent, popped>>
    BY <1>3 DEF ConnectFails, queueVars, userVars
  <2> QED BY <1>1, <1>3, <2>1, <2>2, ScheduleFacts DEF ConnectFails, TypeOK
<1> QED BY <1>2, <1>3

LEMMA FailTypes == ASSUME TypeOK, NEW o \in Ops, Fail(o) PROVE TypeOK'
<1>1. live' \in [Ops -> Nat]
  BY FailFacts
<1>2. queue' \in Seq(Packets)
  <2>1. queue' = <<>>
    BY FailFacts
  <2> QED BY <2>1
<1> QED BY <1>1, <1>2, FailFacts DEF TypeOK

LEMMA ReadTypes == TypeOK /\ (Received \/ ReceivedLast) => TypeOK'
<1>1. ASSUME TypeOK, done[Read] > 0, done' = Less(done, Read) PROVE done' \in [Ops -> Nat]
  BY <1>1, OpsFacts, Counts DEF TypeOK
<1>2. ASSUME TypeOK, Received PROVE TypeOK'
  <2>1. armed \ {"read"} \in SUBSET Timers
    BY <1>2 DEF TypeOK
  <2>2. live' \in [Ops -> Nat] /\ armed' \in SUBSET Timers
    BY <1>2, <2>1, OpsFacts, BeginFacts DEF Received
  <2> QED BY <1>1, <1>2, <2>2 DEF Received, TypeOK, queueVars, userVars
<1>3. ASSUME TypeOK, ReceivedLast PROVE TypeOK'
  <2>1. live' \in [Ops -> Nat] /\ failed' \in [Ops -> Nat]
    BY <1>3, AbortFacts DEF ReceivedLast, Shut
  <2>2. queue' \in Seq(Packets)
    BY <1>3 DEF ReceivedLast, Shut
  <2> QED BY <1>1, <1>3, <2>1, <2>2 DEF ReceivedLast, Shut, TypeOK
<1> QED BY <1>2, <1>3

LEMMA WroteTypes == ASSUME TypeOK, NEW p \in Packets, Wrote(p) PROVE TypeOK'
<1>1. done' \in [Ops -> Nat]
  BY OpsFacts, Counts DEF Wrote, TypeOK
<1>2. UNCHANGED <<sock, failed, due, attempts, connects, sent, silent, gaveUp>>
  BY DEF Wrote, userVars
<1>3. CASE queue = <<>> /\ popped' = "nothing" /\ UNCHANGED <<live, armed, queueVars>>
  BY <1>1, <1>2, <1>3 DEF TypeOK, queueVars
<1>4. CASE /\ queue # <<>>
           /\ popped' = IF Head(queue) = p THEN popped ELSE "other"
           /\ queue' = Tail(queue)
           /\ parked' = (queue' # <<>> /\ (parked \/ sock = "closed"))
           /\ WriteOn(queue', armed \ {"write"})
  <2>1. queue' \in Seq(Packets)
    BY <1>4 DEF TypeOK
  <2>2. armed \ {"write"} \in SUBSET Timers
    BY DEF TypeOK
  <2>3. live' \in [Ops -> Nat] /\ armed' \in SUBSET Timers
    <3>1. CASE queue' # <<>> /\ Begin(Write(Head(queue')), armed \ {"write"})
      <4>1. Head(queue') \in Packets
        BY <2>1, <3>1
      <4> QED BY <2>2, <3>1, <4>1, OpsFacts, BeginFacts
    <3>2. CASE live' = live /\ armed' = armed \ {"write"}
      BY <2>2, <3>2 DEF TypeOK
    <3> QED BY <1>4, <3>1, <3>2 DEF WriteOn
  <2>4. popped' \in {"own", "other", "nothing"} /\ parked' \in BOOLEAN
    BY <1>4 DEF TypeOK
  <2> QED BY <1>1, <1>2, <2>1, <2>3, <2>4 DEF TypeOK
<1> QED BY <1>3, <1>4 DEF Wrote

LEMMA WaitTypes ==
  ASSUME TypeOK, (\E t \in Watchdogs : Watchdog(t)) \/ Reconnect \/ (\E t \in Timers : Expire(t))
  PROVE  TypeOK'
<1> USE DEF queueVars, userVars
<1>1. ASSUME NEW t \in Watchdogs, Watchdog(t) PROVE TypeOK'
  <2>1. live' \in [Ops -> Nat] /\ failed' \in [Ops -> Nat]
    BY <1>1, AbortFacts DEF Watchdog
  <2> QED BY <1>1, <2>1 DEF Watchdog, TypeOK
<1>2. CASE Reconnect
  <2>1. attempts \in 0..MaxAttempts /\ due' \in SUBSET Timers
    BY <1>2 DEF Reconnect, TypeOK
  <2>2. sock' \in {"closed", "opening", "connected"}
    BY <1>2, <2>1, ResolveFacts DEF Reconnect, TypeOK
  <2>3. UNCHANGED <<done, queue, parked, connects, sent, silent, popped>>
    BY <1>2 DEF Reconnect
  <2> QED BY <1>2, <2>1, <2>2, <2>3, ResolveFacts DEF Reconnect, TypeOK
<1>3. ASSUME NEW t \in Timers, Expire(t) PROVE TypeOK'
  BY <1>3 DEF Expire, TypeOK, opVars
<1> QED BY <1>1, <1>2, <1>3

LEMMA NetworkTypes ==
  ASSUME TypeOK, NEW o \in Ops, Succeeds(o) \/ Breaks(o)
  PROVE  TypeOK'
<1> USE DEF queueVars, userVars
<1>1. CASE Succeeds(o)
  <2>1. live' \in [Ops -> Nat] /\ done' \in [Ops -> Nat]
    BY <1>1, Counts DEF Succeeds, TypeOK
  <2> QED BY <1>1, <2>1 DEF Succeeds, TypeOK
<1>2. CASE Breaks(o)
  <2>1. live' \in [Ops -> Nat] /\ failed' \in [Ops -> Nat]
    BY <1>2, Counts DEF Breaks, TypeOK
  <2> QED BY <1>2, <2>1 DEF Breaks, TypeOK
<1> QED BY <1>1, <1>2

LEMMA NextTypes == TypeOK /\ [Next]_vars => TypeOK'
<1> SUFFICES ASSUME TypeOK, [Next]_vars PROVE TypeOK'
  OBVIOUS
<1>1. CASE UNCHANGED vars
  BY <1>1 DEF vars, TypeOK
<1>2. ASSUME NEW p \in Packets, WriteFails(p) PROVE TypeOK'
  BY <1>2, OpsFacts, FailTypes DEF WriteFails
<1>3. CASE ReadFails
  BY <1>3, OpsFacts, FailTypes DEF ReadFails
<1> QED BY <1>1, <1>2, <1>3, SendTypes, UserTypes, DialTypes, ReadTypes, WroteTypes,
          WaitTypes, NetworkTypes DEF Next

\* The counter of attempts keeps to its limit, and on_error_ is only called when
\* it stands there; the other fields keep their types.
THEOREM TypeCorrect == Spec => []TypeOK
BY InitTypes, NextTypes, PTL DEF Spec

-------------------------------------------------------------------------------
(* A connection is watched, and a client that lost it goes on. *)

\* (A write between two of its parts outlives the socket.)
ClosedIsIdle  == sock = "closed" => live[Dial] = 0 /\ live[Read] = 0
ReadIsWatched == live[Read] > 0 => "read" \in armed \cup due
ReadFollows   == sock = "connected" => Pending(Read) \/ done[Dial] > 0
GoesOn ==
  connects > 0 =>
    \/ silent \/ gaveUp \/ "reconnect" \in armed \cup due
    \/ sock # "closed" /\ (Pending(Dial) \/ Pending(Read))
Watched == ClosedIsIdle /\ ReadIsWatched /\ ReadFollows /\ GoesOn

\* A step that takes nothing from what there is to come.
LEMMA WatchedKept ==
  ASSUME Watched, UNCHANGED <<sock, connects, silent>>, gaveUp => gaveUp',
         "reconnect" \in armed \cup due => "reconnect" \in armed' \cup due',
         live'[Read] > 0 =>
           live[Read] > 0 /\ ("read" \in armed \cup due => "read" \in armed' \cup due'),
         sock = "closed" => live'[Dial] = 0 /\ live'[Read] = 0,
         Pending(Dial) => Pending(Dial)', Pending(Read) => Pending(Read)',
         done[Dial] > 0 => done'[Dial] > 0
  PROVE  Watched'
<1>1. ClosedIsIdle'
  BY DEF ClosedIsIdle
<1>2. ReadIsWatched'
  BY DEF Watched, ReadIsWatched
<1>3. ReadFollows'
  BY DEF Watched, ReadFollows
<1>4. GoesOn'
  BY DEF Watched, GoesOn
<1> QED BY <1>1, <1>2, <1>3, <1>4 DEF Watched

\* What a step that aborts what is under way leaves pending.
LEMMA AbortKeeps ==
  ASSUME TypeOK, live' \in [Ops -> Nat], failed' \in [Ops -> Nat], done' = done,
         NEW o \in Ops, live'[o] + failed'[o] = live[o] + failed[o]
  PROVE  Pending(o) => Pending(o)'
<1>1. /\ live[o] \in Nat /\ done[o] \in Nat /\ failed[o] \in Nat
      /\ live'[o] \in Nat /\ failed'[o] \in Nat /\ done'[o] = done[o]
  BY DEF TypeOK
<1> QED BY <1>1 DEF Pending

LEMMA InitWatched == Init => Watched
<1> SUFFICES ASSUME Init PROVE Watched
  OBVIOUS
<1>1. live[Dial] = 0 /\ live[Read] = 0
  BY NoneFacts, OpsFacts DEF Init
<1> QED BY <1>1 DEF Init, Watched, ClosedIsIdle, ReadIsWatched, ReadFollows, GoesOn

\* The socket is closed, with its attempt and its read, and no attempt is owed.
LEMMA ClosedWatched ==
  ASSUME sock' = "closed", live'[Dial] = 0, live'[Read] = 0,
         silent' \/ gaveUp' \/ "reconnect" \in armed'
  PROVE  Watched'
BY DEF Watched, ClosedIsIdle, ReadIsWatched, ReadFollows, GoesOn

LEMMA CloseWatched == TypeOK /\ (Close \/ ReceivedLast) => Watched'
BY ClosedWatched, AbortFacts DEF Close, ReceivedLast, Shut

LEMMA FailWatched == ASSUME TypeOK, NEW o \in Ops, Fail(o) PROVE Watched'
BY FailFacts, ClosedWatched

\* An attempt, by connect() or when the wait is over.
LEMMA ResolveWatched ==
  ASSUME TypeOK, TypeOK', Watched, NEW n \in 0..MaxAttempts, ResolveAndConnect(n),
         done' = done, "read" \in due => "read" \in due'
  PROVE  Watched'
<1>1. armed \subseteq armed'
  BY ResolveFacts
<1>2. CASE (gaveUp' \/ "reconnect" \in armed') /\ UNCHANGED <<sock, live, failed>>
  <2>1. ClosedIsIdle' /\ ReadIsWatched'
    BY <1>1, <1>2 DEF Watched, ClosedIsIdle, ReadIsWatched
  <2>2. ReadFollows'
    BY <1>2 DEF Watched, ReadFollows, Pending
  <2>3. GoesOn'
    BY <1>2 DEF GoesOn
  <2> QED BY <2>1, <2>2, <2>3 DEF Watched
<1>3. CASE sock' = "opening" /\ live'[Dial] = 1 /\ live'[Read] = 0
  <2>1. Pending(Dial)'
    <3>1. done'[Dial] \in Nat /\ failed'[Dial] \in Nat
      BY OpsFacts DEF TypeOK
    <3> QED BY <1>3, <3>1 DEF Pending
  <2> QED BY <1>3, <2>1 DEF Watched, ClosedIsIdle, ReadIsWatched, ReadFollows, GoesOn
<1> QED BY <1>2, <1>3, ResolveFacts

LEMMA AttemptWatched ==
  ASSUME TypeOK, TypeOK', Watched, Connect \/ Reconnect PROVE Watched'
<1>1. 0 \in 0..MaxAttempts /\ attempts \in 0..MaxAttempts
  BY ClientAssumption DEF TypeOK
<1>2. CASE Connect
  <2>1. ResolveAndConnect(0) /\ done' = done /\ due' = due
    BY <1>2 DEF Connect
  <2> QED BY <1>1, <2>1, ResolveWatched
<1>3. CASE Reconnect
  <2>1. ResolveAndConnect(attempts) /\ done' = done /\ due' = due \ {"reconnect"}
    BY <1>3 DEF Reconnect
  <2> QED BY <1>1, <2>1, ResolveWatched
<1> QED BY <1>2, <1>3

\* A read that is begun on an open socket.
LEMMA ReadWatched ==
  ASSUME TypeOK, TypeOK', sock # "closed", sock' = sock,
         NEW timers \in SUBSET Timers, Begin(Read, timers)
  PROVE  Watched'
<1>1. live'[Read] = live[Read] + 1 /\ "read" \in armed'
  <2>1. live' = More(live, Read) /\ armed' = timers \cup {"read"}
    BY OpsFacts, BeginFacts
  <2>2. live \in [Ops -> Nat]
    BY DEF TypeOK
  <2> QED BY <2>1, <2>2, OpsFacts, Counts
<1>2. Pending(Read)'
  <2>1. live[Read] \in Nat /\ done'[Read] \in Nat /\ failed'[Read] \in Nat
    BY OpsFacts DEF TypeOK
  <2> QED BY <1>1, <2>1 DEF Pending
<1> QED BY <1>1, <1>2 DEF Watched, ClosedIsIdle, ReadIsWatched, ReadFollows, GoesOn

\* An attempt that is planned while nothing under way changes.
LEMMA PlanWatched ==
  ASSUME TypeOK, Watched, UNCHANGED <<sock, live, done, due>>,
         Pending(Read) => Pending(Read)',
         armed \ {"connect"} \subseteq armed', gaveUp' \/ "reconnect" \in armed'
  PROVE  Watched'
<1>1. ClosedIsIdle' /\ ReadIsWatched'
  BY DEF Watched, ClosedIsIdle, ReadIsWatched
<1>2. ReadFollows' /\ GoesOn'
  BY DEF Watched, ReadFollows, GoesOn
<1> QED BY <1>1, <1>2 DEF Watched

LEMMA DialWatched ==
  ASSUME TypeOK, TypeOK', Watched, Connected \/ ConnectFails PROVE Watched'
<1>1. armed \ {"connect"} \in SUBSET Timers /\ attempts \in 0..MaxAttempts
  BY DEF TypeOK
<1>2. CASE Connected
  <2>1. sock' = sock /\ due' = due /\ failed' = failed
    BY <1>2 DEF Connected
  <2>2. CASE sock # "closed" /\ Begin(Read, armed \ {"connect"})
    BY <1>1, <2>1, <2>2, ReadWatched
  <2>3. CASE /\ sock = "closed" /\ UNCHANGED live
             /\ ScheduleReconnect(attempts, armed \ {"connect"})
    <3>1. armed \ {"connect"} \subseteq armed' /\ (gaveUp' \/ "reconnect" \in armed')
      BY <1>1, <2>3, ScheduleFacts
    <3>2. ClosedIsIdle' /\ ReadIsWatched'
      BY <2>1, <2>3, <3>1 DEF Watched, ClosedIsIdle, ReadIsWatched
    <3> QED BY <2>1, <2>3, <3>1, <3>2 DEF Watched, ReadFollows, GoesOn
  <2> QED BY <1>2, <2>2, <2>3 DEF Connected
<1>3. CASE ConnectFails
  <2>1. UNCHANGED <<sock, live, done, due>> /\ failed' = Less(failed, Dial)
    BY <1>3 DEF ConnectFails
  <2>2. armed \ {"connect"} \subseteq armed' /\ (gaveUp' \/ "reconnect" \in armed')
    BY <1>1, <1>3, ScheduleFacts DEF ConnectFails
  <2>3. failed'[Read] = failed[Read]
    BY <2>1, OpTypes, OpsFacts, Counts
  <2>4. Pending(Read) => Pending(Read)'
    BY <2>1, <2>3 DEF Pending
  <2> QED BY <2>1, <2>2, <2>4, PlanWatched
<1> QED BY <1>2, <1>3

LEMMA ReceivedWatched ==
  ASSUME TypeOK, TypeOK', Watched, Received PROVE Watched'
<1>1. /\ armed \ {"read"} \in SUBSET Timers
      /\ UNCHANGED <<sock, failed, due, gaveUp, connects, silent>>
      /\ done' = Less(done, Read)
  BY DEF Received, TypeOK, userVars
<1>2. CASE sock # "closed"
  BY <1>1, <1>2, ReadWatched DEF Received
<1>3. CASE sock = "closed"
  <2>1. live' = live /\ armed' = armed \ {"read"}
    BY <1>1, <1>3, OpsFacts, BeginFacts DEF Received
  <2>2. live'[Dial] = 0 /\ live'[Read] = 0
    BY <1>3, <2>1 DEF Watched, ClosedIsIdle
  <2>4. ClosedIsIdle' /\ ReadIsWatched' /\ ReadFollows'
    BY <1>1, <1>3, <2>2 DEF ClosedIsIdle, ReadIsWatched, ReadFollows
  <2>5. GoesOn'
    BY <1>1, <1>3, <2>1 DEF Watched, GoesOn
  <2> QED BY <2>4, <2>5 DEF Watched
<1> QED BY <1>2, <1>3

\* Packets, their writes and their queue are nothing to the connection.
LEMMA BeginsWrite ==
  ASSUME TypeOK, NEW p \in Packets, NEW timers \in SUBSET Timers, Begin(Write(p), timers)
  PROVE  /\ timers \subseteq armed'
         /\ live'[Dial] = live[Dial] /\ live'[Read] = live[Read]
         /\ sock = "closed" => live' = live
<1>1. live \in [Ops -> Nat] /\ Write(p) \in Ops
  BY OpsFacts DEF TypeOK
<1>2. /\ timers \subseteq armed'
      /\ sock # "closed" => live' = More(live, Write(p))
      /\ sock = "closed" => live' = live
  BY <1>1, BeginFacts
<1> QED BY <1>1, <1>2, OpsFacts, Counts

LEMMA SendWatched ==
  ASSUME TypeOK, TypeOK', Watched, Send PROVE Watched'
<1>1. UNCHANGED <<sock, done, failed, due, connects, silent, gaveUp>>
  BY DEF Send
<1>2. /\ armed \subseteq armed'
      /\ live'[Dial] = live[Dial] /\ live'[Read] = live[Read]
      /\ sock = "closed" => live' = live
  <2>1. CASE Writes(queue') /\ Begin(Write(Head(queue')), armed)
    <3>1. Len(queue') = 1
      BY <2>1 DEF Writes
    <3>2. queue' \in Seq(Packets) /\ armed \in SUBSET Timers
      BY DEF TypeOK
    <3>3. Head(queue') \in Packets
      BY <3>1, <3>2
    <3> QED BY <2>1, <3>2, <3>3, BeginsWrite
  <2>2. CASE UNCHANGED <<live, armed>>
    BY <2>2
  <2> QED BY <2>1, <2>2 DEF Send
<1>3. (Pending(Dial) => Pending(Dial)') /\ (Pending(Read) => Pending(Read)')
  BY <1>1, <1>2 DEF Pending
<1>4. sock = "closed" => live'[Dial] = 0 /\ live'[Read] = 0
  BY <1>2 DEF Watched, ClosedIsIdle
<1> QED BY <1>1, <1>2, <1>3, <1>4, WatchedKept

LEMMA WroteWatched ==
  ASSUME TypeOK, TypeOK', Watched, NEW p \in Packets, Wrote(p) PROVE Watched'
<1>1. UNCHANGED <<sock, failed, due, connects, silent, gaveUp>>
  BY DEF Wrote, userVars
<1>2. done'[Dial] = done[Dial] /\ done'[Read] = done[Read]
  <2>1. done' = Less(done, Write(p)) /\ done \in [Ops -> Nat]
    BY OpTypes DEF Wrote
  <2> QED BY <2>1, OpsFacts, Counts
<1>3. armed \ {"write"} \in SUBSET Timers
  BY DEF TypeOK
<1>4. /\ armed \ {"write"} \subseteq armed'
      /\ live'[Dial] = live[Dial] /\ live'[Read] = live[Read]
      /\ sock = "closed" => live' = live
  <2>1. CASE live' = live /\ armed \ {"write"} \subseteq armed'
    BY <2>1
  <2>2. CASE queue' # <<>> /\ Begin(Write(Head(queue')), armed \ {"write"})
    <3>1. Head(queue') \in Packets
      BY <2>2 DEF TypeOK
    <3> QED BY <1>3, <2>2, <3>1, BeginsWrite
  <2>3. \/ UNCHANGED <<live, armed>>
        \/ live' = live /\ armed' = armed \ {"write"}
        \/ queue' # <<>> /\ Begin(Write(Head(queue')), armed \ {"write"})
    BY DEF Wrote, WriteOn
  <2> QED BY <2>1, <2>2, <2>3
<1>5. (Pending(Dial) => Pending(Dial)') /\ (Pending(Read) => Pending(Read)')
  BY <1>1, <1>2, <1>4 DEF Pending
<1>6. sock = "closed" => live'[Dial] = 0 /\ live'[Read] = 0
  BY <1>4 DEF Watched, ClosedIsIdle
<1> QED BY <1>1, <1>2, <1>4, <1>5, <1>6, WatchedKept

LEMMA WaitWatched ==
  ASSUME TypeOK, TypeOK', Watched,
         (\E t \in Watchdogs : Watchdog(t)) \/ (\E t \in Timers : Expire(t))
  PROVE  Watched'
<1>1. ASSUME NEW t \in Watchdogs, Watchdog(t) PROVE Watched'
  <2>1. /\ UNCHANGED <<sock, done, armed, gaveUp, connects, silent>>
        /\ due' = due \ {t}
    BY <1>1 DEF Watchdog, userVars
  <2>2. /\ live' \in [Ops -> Nat] /\ failed' \in [Ops -> Nat]
        /\ live'[Dial] = 0 /\ live'[Read] = 0
        /\ \A x \in Ops : live'[x] + failed'[x] = live[x] + failed[x]
    BY <1>1, AbortFacts DEF Watchdog
  <2>3. (Pending(Dial) => Pending(Dial)') /\ (Pending(Read) => Pending(Read)')
    BY <2>1, <2>2, OpsFacts, AbortKeeps
  <2>4. "reconnect" \in armed \cup due => "reconnect" \in armed' \cup due'
    BY <2>1 DEF Watchdogs
  <2> QED BY <2>1, <2>2, <2>3, <2>4, WatchedKept
<1>2. ASSUME NEW t \in Timers, Expire(t) PROVE Watched'
  <2>1. /\ UNCHANGED <<sock, live, done, failed, gaveUp, connects, silent>>
        /\ armed' \cup due' = armed \cup due
    BY <1>2 DEF Expire, opVars, userVars
  <2>2. (Pending(Dial) => Pending(Dial)') /\ (Pending(Read) => Pending(Read)')
    BY <2>1 DEF Pending
  <2>3. sock = "closed" => live'[Dial] = 0 /\ live'[Read] = 0
    BY <2>1 DEF Watched, ClosedIsIdle
  <2> QED BY <2>1, <2>2, <2>3, WatchedKept
<1> QED BY <1>1, <1>2

\* An operation that ends stays something to come, for its handler.
LEMMA EndsPending ==
  ASSUME TypeOK, NEW o \in Ops, Succeeds(o) \/ Breaks(o)
  PROVE  /\ \A x \in Ops : live'[x] <= live[x]
         /\ \A x \in Ops : done[x] <= done'[x]
         /\ \A x \in Ops : live'[x] + done'[x] + failed'[x] = live[x] + done[x] + failed[x]
         /\ \A x \in Ops : Pending(x) => Pending(x)'
<1>1. \A x \in Ops : live[x] \in Nat /\ done[x] \in Nat /\ failed[x] \in Nat
  BY DEF TypeOK
<1>2. CASE Succeeds(o)
  <2>1. failed' = failed /\ live' = Less(live, o) /\ done' = More(done, o)
    BY <1>2 DEF Succeeds
  <2>2. \A x \in Ops : live'[x] = IF x = o THEN live[x] - 1 ELSE live[x]
    BY <2>1, OpTypes, Counts
  <2>3. \A x \in Ops : done'[x] = IF x = o THEN done[x] + 1 ELSE done[x]
    BY <2>1, OpTypes, Counts
  <2> QED BY <1>1, <2>1, <2>2, <2>3 DEF Pending
<1>3. CASE Breaks(o)
  <2>1. done' = done /\ live' = Less(live, o) /\ failed' = More(failed, o)
    BY <1>3 DEF Breaks
  <2>2. \A x \in Ops : live'[x] = IF x = o THEN live[x] - 1 ELSE live[x]
    BY <2>1, OpTypes, Counts
  <2>3. \A x \in Ops : failed'[x] = IF x = o THEN failed[x] + 1 ELSE failed[x]
    BY <2>1, OpTypes, Counts
  <2> QED BY <1>1, <2>1, <2>2, <2>3 DEF Pending
<1> QED BY <1>2, <1>3

LEMMA EndsWatched ==
  ASSUME TypeOK, TypeOK', Watched, NEW o \in Ops, Succeeds(o) \/ Breaks(o)
  PROVE  Watched'
<1>1. UNCHANGED <<armed, due, gaveUp, connects, silent>>
  BY DEF Succeeds, Breaks, userVars
<1>2. /\ Pending(Dial) => Pending(Dial)'
      /\ Pending(Read) => Pending(Read)'
      /\ done[Dial] > 0 => done'[Dial] > 0
      /\ live'[Read] > 0 => live[Read] > 0
  <2>1. /\ Dial \in Ops /\ Read \in Ops
        /\ done[Dial] \in Nat /\ done'[Dial] \in Nat /\ live[Read] \in Nat /\ live'[Read] \in Nat
    BY OpsFacts DEF TypeOK
  <2> QED BY <2>1, EndsPending
<1>3. sock = "closed" => live'[Dial] = 0 /\ live'[Read] = 0
  <2>1. /\ live'[Dial] <= live[Dial] /\ live'[Read] <= live[Read]
        /\ live'[Dial] \in Nat /\ live'[Read] \in Nat
    BY OpsFacts, EndsPending DEF TypeOK
  <2> QED BY <2>1 DEF Watched, ClosedIsIdle
<1>4. CASE sock' = sock
  BY <1>1, <1>2, <1>3, <1>4, WatchedKept
<1>5. CASE sock' # sock
  <2>1. sock = "opening" /\ sock' = "connected" /\ o = Dial /\ done' = More(done, Dial)
    BY <1>5 DEF Succeeds, Breaks
  <2>2. done'[Dial] = done[Dial] + 1 /\ done[Dial] \in Nat
    BY <2>1, OpsFacts, Counts DEF TypeOK
  <2>3. ClosedIsIdle' /\ ReadIsWatched' /\ ReadFollows'
    BY <1>1, <1>2, <2>1, <2>2 DEF Watched, ClosedIsIdle, ReadIsWatched, ReadFollows
  <2>4. GoesOn'
    BY <1>1, <1>2, <2>1 DEF Watched, GoesOn
  <2> QED BY <2>3, <2>4 DEF Watched
<1> QED BY <1>4, <1>5

LEMMA NextWatched == TypeOK /\ TypeOK' /\ Watched /\ [Next]_vars => Watched'
<1> SUFFICES ASSUME TypeOK, TypeOK', Watched, [Next]_vars PROVE Watched'
  OBVIOUS
<1>1. CASE UNCHANGED vars
  BY <1>1 DEF vars, Watched, ClosedIsIdle, ReadIsWatched, ReadFollows, GoesOn, Pending
<1>2. ASSUME NEW p \in Packets, WriteFails(p) PROVE Watched'
  BY <1>2, OpsFacts, FailWatched DEF WriteFails
<1>3. CASE ReadFails
  BY <1>3, OpsFacts, FailWatched DEF ReadFails
<1> QED BY <1>1, <1>2, <1>3, CloseWatched, AttemptWatched, DialWatched, ReceivedWatched,
          SendWatched, WroteWatched, WaitWatched, EndsWatched DEF Next

\* A connection always has a read to come, or the handler that starts it, and a
\* read that is under way has its watchdog.
THEOREM NoConnectionUnwatched == Spec => []ConnectionIsWatched
<1>1. Watched => ConnectionIsWatched
  BY DEF Watched, ReadIsWatched, ReadFollows, ConnectionIsWatched
<1> QED BY <1>1, TypeCorrect, InitWatched, NextWatched, PTL DEF Spec

\* A client that was neither closed nor told its user that it gives up has an
\* attempt, a connection or the wait between them to come.
THEOREM NeverForgotten == Spec => []NotForgotten
<1>1. Watched => NotForgotten
  BY OpsFacts DEF Watched, GoesOn, NotForgotten
<1> QED BY <1>1, TypeCorrect, InitWatched, NextWatched, PTL DEF Spec

-------------------------------------------------------------------------------
(* The queue. *)

Newest(q, n) == \A i \in 1..Len(q) : q[i] = n - Len(q) + i

QueueInRange == Newest(queue, sent) /\ Len(queue) <= QueueLimit

\* A packet is written once, and the writes to come are of packets no younger
\* than the front of the queue.
Count(p) == live[Write(p)] + done[Write(p)] + failed[Write(p)]
InTurn ==
  \A p \in Packets :
    /\ Count(p) <= 1
    /\ Count(p) > 0 => p <= sent
    /\ Count(p) > 0 /\ queue # <<>> => p <= Head(queue)

WriterOrParked ==
  queue # <<>> => parked \/ \E p \in Packets : Count(p) > 0

QueueInv == QueueInRange /\ InTurn /\ WriterOrParked

LEMMA NewestEqual ==
  ASSUME TypeOK, QueueInRange PROVE QueueIsNewest
<1> DEFINE t == [i \in 1..Len(queue) |-> sent - Len(queue) + i]
<1>1. Len(queue) \in Nat /\ queue \in [1..Len(queue) -> Packets]
  BY LenProperties DEF TypeOK
<1>2. \A i \in 1..Len(queue) : queue[i] = t[i]
  BY DEF QueueInRange, Newest
<1>3. queue = t
  BY <1>1, <1>2
<1> QED BY <1>3 DEF QueueIsNewest, QueueInRange

\* A queue of which nothing, or only its older part, is left.
LEMMA NewestCut ==
  ASSUME NEW q \in Seq(Packets), NEW n \in Nat, Newest(q, n)
  PROVE  /\ Newest(Queued(q), n) /\ Len(Queued(q)) <= QueueLimit
         /\ Len(Queued(q)) <= Len(q)
         /\ q # <<>> => Queued(q) # <<>>
         /\ Len(q) > 1 => Len(Queued(q)) > 1
<1>1. CASE Len(q) > QueueLimit
  <2> DEFINE m == Len(q) - QueueKept + 1
             t == SubSeq(q, m, Len(q))
  <2>1. Len(q) \in Nat /\ m \in 1..Len(q) /\ Len(q) - m + 1 = QueueKept /\ m <= Len(q)
    BY <1>1, ClientAssumption
  <2>2. \A i \in m..Len(q) : q[i] \in Packets
    BY <2>1
  <2>3. /\ t \in Seq(Packets) /\ Len(t) = QueueKept
        /\ \A i \in 1..QueueKept : t[i] = q[m + i - 1]
    BY <2>1, <2>2, SubSeqProperties
  <2>4. \A i \in 1..Len(t) : t[i] = n - Len(t) + i
    <3> SUFFICES ASSUME NEW i \in 1..QueueKept PROVE t[i] = n - QueueKept + i
      BY <2>3
    <3>1. m + i - 1 \in 1..Len(q)
      BY <2>1, ClientAssumption
    <3>2. t[i] = n - Len(q) + (m + i - 1)
      BY <2>3, <3>1 DEF Newest
    <3> QED BY <2>1, <3>2, ClientAssumption
  <2>5. Queued(q) = t
    BY <1>1 DEF Queued
  <2> HIDE DEF t
  <2>6. t # <<>>
    BY <2>3, ClientAssumption
  <2>7. Newest(t, n)
    BY <2>4 DEF Newest
  <2>8. Len(t) <= QueueLimit /\ Len(t) <= Len(q) /\ Len(t) > 1
    BY <1>1, <2>1, <2>3, ClientAssumption
  <2> QED BY <2>5, <2>6, <2>7, <2>8
<1>2. CASE ~(Len(q) > QueueLimit)
  <2>1. Queued(q) = q
    BY <1>2 DEF Queued
  <2>2. Len(q) \in Nat /\ QueueLimit \in Nat
    BY ClientAssumption
  <2> QED BY <1>2, <2>1, <2>2
<1> QED BY <1>1, <1>2

LEMMA NewestAppend ==
  ASSUME NEW q \in Seq(Packets), NEW n \in Nat, n + 1 \in Packets, Newest(q, n)
  PROVE  Newest(Append(q, n + 1), n + 1)
<1> DEFINE t == Append(q, n + 1)
<1>1. /\ Len(q) \in Nat /\ Len(t) = Len(q) + 1
      /\ \A i \in 1..Len(q) : t[i] = q[i]
      /\ t[Len(q) + 1] = n + 1
  BY AppendProperties
<1> HIDE DEF t
<1>2. ASSUME NEW i \in 1..Len(t) PROVE t[i] = n + 1 - Len(t) + i
  <2>1. CASE i \in 1..Len(q)
    BY <1>1, <2>1 DEF Newest
  <2>2. CASE i = Len(q) + 1
    BY <1>1, <2>2
  <2> QED BY <1>1, <2>1, <2>2
<1>3. Newest(t, n + 1)
  BY <1>2 DEF Newest
<1> QED BY <1>3 DEF t

LEMMA NewestTail ==
  ASSUME NEW q \in Seq(Packets), q # <<>>, NEW n \in Nat, Newest(q, n)
  PROVE  /\ Newest(Tail(q), n) /\ Len(Tail(q)) <= Len(q)
         /\ Head(q) = n - Len(q) + 1
         /\ Tail(q) # <<>> => Head(Tail(q)) = Head(q) + 1
<1>1. /\ Tail(q) \in Seq(Packets) /\ Len(Tail(q)) = Len(q) - 1
      /\ \A i \in 1..Len(Tail(q)) : Tail(q)[i] = q[i + 1]
  BY HeadTailProperties
<1>2. Len(q) \in Nat /\ Len(q) > 0 /\ Head(q) = q[1]
  OBVIOUS
<1>3. Newest(Tail(q), n)
  <2> SUFFICES ASSUME NEW i \in 1..Len(Tail(q))
               PROVE  Tail(q)[i] = n - Len(Tail(q)) + i
    BY DEF Newest
  <2>1. i + 1 \in 1..Len(q) /\ Tail(q)[i] = q[i + 1]
    BY <1>1, <1>2
  <2>2. q[i + 1] = n - Len(q) + (i + 1)
    BY <2>1 DEF Newest
  <2> QED BY <1>1, <1>2, <2>1, <2>2
<1>4. Head(q) = n - Len(q) + 1
  BY <1>2 DEF Newest
<1>5. ASSUME Tail(q) # <<>> PROVE Head(Tail(q)) = Head(q) + 1
  <2>1. Len(Tail(q)) \in Nat /\ Len(Tail(q)) > 0 /\ Head(Tail(q)) = Tail(q)[1]
    BY <1>1, <1>5
  <2>2. Tail(q)[1] = n - Len(Tail(q)) + 1
    BY <1>3, <2>1 DEF Newest
  <2> QED BY <1>1, <1>2, <1>4, <2>1, <2>2
<1>6. Len(Tail(q)) <= Len(q)
  BY <1>1, <1>2
<1> QED BY <1>3, <1>4, <1>5, <1>6

LEMMA InitQueue == Init => QueueInv
<1> SUFFICES ASSUME Init PROVE QueueInv
  OBVIOUS
<1>1. Len(queue) = 0
  BY DEF Init
<1>2. QueueInRange
  BY <1>1, ClientAssumption DEF QueueInRange, Newest
<1>3. \A p \in Packets : live[Write(p)] = 0 /\ done[Write(p)] = 0 /\ failed[Write(p)] = 0
  BY OpsFacts, NoneFacts DEF Init
<1>4. InTurn
  BY <1>3 DEF InTurn, Count
<1>5. WriterOrParked
  BY DEF Init, WriterOrParked
<1> QED BY <1>2, <1>4, <1>5 DEF QueueInv

\* A step that neither touches the queue nor begins or ends a write.
LEMMA QueueKeeps ==
  ASSUME QueueInv, UNCHANGED <<queue, parked, sent>>,
         \A p \in Packets : Count(p)' = Count(p)
  PROVE  QueueInv'
<1>1. QueueInRange'
  BY DEF QueueInv, QueueInRange, Newest
<1>2. InTurn'
  BY DEF QueueInv, InTurn
<1>3. WriterOrParked'
  BY DEF QueueInv, WriterOrParked
<1> QED BY <1>1, <1>2, <1>3 DEF QueueInv

LEMMA CountFacts ==
  ASSUME TypeOK, NEW p \in Packets
  PROVE  /\ Write(p) \in Ops
         /\ live[Write(p)] \in Nat /\ done[Write(p)] \in Nat /\ failed[Write(p)] \in Nat
         /\ Count(p) \in Nat
<1>1. Write(p) \in Ops
  BY OpsFacts
<1>2. live[Write(p)] \in Nat /\ done[Write(p)] \in Nat /\ failed[Write(p)] \in Nat
  BY <1>1, OpTypes
<1> QED BY <1>1, <1>2 DEF Count

\* A step after which nothing is queued.
LEMMA QueueCleared ==
  ASSUME TypeOK, TypeOK', QueueInv, queue' = <<>>, UNCHANGED sent,
         \A p \in Packets : Count(p)' <= Count(p)
  PROVE  QueueInv'
<1>1. QueueInRange'
  <2>1. Len(queue') = 0
    OBVIOUS
  <2> QED BY <2>1, ClientAssumption DEF QueueInRange, Newest
<1>2. InTurn'
  <2> SUFFICES ASSUME NEW p \in Packets
               PROVE  Count(p)' <= 1 /\ (Count(p)' > 0 => p <= sent')
    BY DEF InTurn
  <2>1. Count(p) \in Nat
    BY CountFacts
  <2>2. Count(p)' \in Nat
    <3>1. Write(p) \in Ops
      BY OpsFacts
    <3> QED BY <3>1 DEF TypeOK, Count
  <2>3. Count(p) <= 1 /\ (Count(p) > 0 => p <= sent) /\ Count(p)' <= Count(p)
    BY DEF QueueInv, InTurn
  <2> QED BY <2>1, <2>2, <2>3
<1>3. WriterOrParked'
  BY DEF WriterOrParked
<1> QED BY <1>1, <1>2, <1>3 DEF QueueInv

\* What is aborted, or goes on, is still to come.
LEMMA AbortCounts ==
  ASSUME TypeOK, NEW p \in Packets, done'[Write(p)] = done[Write(p)],
         live'[Write(p)] + failed'[Write(p)] = live[Write(p)] + failed[Write(p)],
         live'[Write(p)] \in Nat, failed'[Write(p)] \in Nat
  PROVE  Count(p)' = Count(p)
BY CountFacts DEF Count

LEMMA CloseQueue ==
  ASSUME TypeOK, TypeOK', QueueInv, Close \/ ReceivedLast PROVE QueueInv'
<1>1. /\ queue' = <<>> /\ UNCHANGED sent
      /\ live' \in [Ops -> Nat] /\ failed' \in [Ops -> Nat]
      /\ \A x \in Ops : live'[x] + failed'[x] = live[x] + failed[x]
  BY AbortFacts DEF Close, ReceivedLast, Shut
<1>2. \A p \in Packets : done'[Write(p)] = done[Write(p)]
  <2>1. CASE done' = done
    BY <2>1
  <2>2. CASE done' = Less(done, Read)
    BY <2>2, OpTypes, OpsFacts, Counts
  <2> QED BY <2>1, <2>2 DEF Close, ReceivedLast
<1>3. ASSUME NEW p \in Packets PROVE Count(p)' <= Count(p)
  <2>1. Count(p)' = Count(p) /\ Count(p) \in Nat
    BY <1>1, <1>2, CountFacts, AbortCounts
  <2> QED BY <2>1
<1> QED BY <1>1, <1>3, QueueCleared

LEMMA FailQueue ==
  ASSUME TypeOK, TypeOK', QueueInv, NEW o \in Ops, Fail(o) PROVE QueueInv'
<1>1. /\ queue' = <<>> /\ done' = done /\ UNCHANGED sent
      /\ live' \in [Ops -> Nat] /\ failed' \in [Ops -> Nat]
      /\ \A x \in Ops : live'[x] + failed'[x] <= live[x] + failed[x]
  BY FailFacts
<1>2. ASSUME NEW p \in Packets PROVE Count(p)' <= Count(p)
  <2>1. Write(p) \in Ops
    BY CountFacts
  <2>2. /\ live[Write(p)] \in Nat /\ done[Write(p)] \in Nat /\ failed[Write(p)] \in Nat
        /\ live'[Write(p)] \in Nat /\ failed'[Write(p)] \in Nat
        /\ live'[Write(p)] + failed'[Write(p)] <= live[Write(p)] + failed[Write(p)]
    BY <1>1, <2>1 DEF TypeOK
  <2> QED BY <1>1, <2>2 DEF Count
<1> QED BY <1>1, <1>2, QueueCleared

LEMMA AttemptQueue ==
  ASSUME TypeOK, QueueInv, Connect \/ Reconnect PROVE QueueInv'
<1>1. UNCHANGED <<done, queue, parked, sent>>
  BY DEF Connect, Reconnect, queueVars, userVars
<1>2. /\ 0 \in 0..MaxAttempts /\ attempts \in 0..MaxAttempts
      /\ ResolveAndConnect(0) \/ ResolveAndConnect(attempts)
  BY ClientAssumption DEF TypeOK, Connect, Reconnect
<1>3. /\ live' \in [Ops -> Nat] /\ failed' \in [Ops -> Nat]
      /\ \A x \in Ops \ {Dial} : live'[x] + failed'[x] = live[x] + failed[x]
  BY <1>2, ResolveFacts
<1>4. \A p \in Packets : Count(p)' = Count(p)
  BY <1>1, <1>3, OpsFacts, AbortCounts
<1> QED BY <1>1, <1>4, QueueKeeps

\* Handlers of attempts and of reads, which are no writes.
LEMMA OthersQueue ==
  ASSUME TypeOK, QueueInv, Connected \/ ConnectFails \/ Received PROVE QueueInv'
<1>1. UNCHANGED <<queue, parked, sent>>
  BY DEF Connected, ConnectFails, Received, queueVars, userVars
<1>2. live' = live \/ live' = More(live, Read)
  BY DEF Connected, ConnectFails, Received, Begin
<1>3. done' \in {done, Less(done, Dial), Less(done, Read)} /\ failed' \in {failed, Less(failed, Dial)}
  BY DEF Connected, ConnectFails, Received
<1>4. ASSUME NEW p \in Packets
      PROVE  /\ live'[Write(p)] = live[Write(p)] /\ done'[Write(p)] = done[Write(p)]
             /\ failed'[Write(p)] = failed[Write(p)]
  <2>1. live'[Write(p)] = live[Write(p)]
    BY <1>2, OpTypes, OpsFacts, Counts
  <2>2. done'[Write(p)] = done[Write(p)]
    BY <1>3, OpTypes, OpsFacts, Counts
  <2>3. failed'[Write(p)] = failed[Write(p)]
    BY <1>3, OpTypes, OpsFacts, Counts
  <2> QED BY <2>1, <2>2, <2>3
<1> QED BY <1>1, <1>4, QueueKeeps DEF Count

LEMMA WaitQueue ==
  ASSUME TypeOK, QueueInv,
         (\E t \in Watchdogs : Watchdog(t)) \/ (\E t \in Timers : Expire(t))
  PROVE  QueueInv'
<1>1. CASE \E t \in Watchdogs : Watchdog(t)
  <2>1. UNCHANGED <<done, queue, parked, sent>>
    BY <1>1 DEF Watchdog, queueVars, userVars
  <2>2. /\ live' \in [Ops -> Nat] /\ failed' \in [Ops -> Nat]
        /\ \A x \in Ops : live'[x] + failed'[x] = live[x] + failed[x]
    BY <1>1, AbortFacts DEF Watchdog
  <2>3. \A p \in Packets : Count(p)' = Count(p)
    BY <2>1, <2>2, OpsFacts, AbortCounts
  <2> QED BY <2>1, <2>3, QueueKeeps
<1>2. CASE \E t \in Timers : Expire(t)
  <2>1. UNCHANGED <<live, done, failed, queue, parked, sent>>
    BY <1>2 DEF Expire, opVars, queueVars, userVars
  <2> QED BY <2>1, QueueKeeps DEF Count
<1> QED BY <1>1, <1>2

LEMMA EndsQueue ==
  ASSUME TypeOK, QueueInv, NEW o \in Ops, Succeeds(o) \/ Breaks(o)
  PROVE  QueueInv'
<1>1. UNCHANGED <<queue, parked, sent>>
  BY DEF Succeeds, Breaks, queueVars, userVars
<1>2. \A p \in Packets : Count(p)' = Count(p)
  BY EndsPending, OpsFacts DEF Count
<1> QED BY <1>1, <1>2, QueueKeeps

LEMMA BeginsCounts ==
  ASSUME TypeOK, NEW p \in Packets, NEW timers \in SUBSET Timers, Begin(Write(p), timers)
  PROVE  /\ \A q \in Packets : q # p => live'[Write(q)] = live[Write(q)]
         /\ live'[Write(p)] = IF sock = "closed" THEN live[Write(p)] ELSE live[Write(p)] + 1
<1>1. live \in [Ops -> Nat] /\ Write(p) \in Ops
  BY OpTypes, OpsFacts
<1>2. CASE sock = "closed"
  BY <1>1, <1>2, BeginFacts
<1>3. CASE sock # "closed"
  <2>1. live' = More(live, Write(p))
    BY <1>1, <1>3, BeginFacts
  <2>2. \A x \in Ops : live'[x] = IF x = Write(p) THEN live[x] + 1 ELSE live[x]
    BY <1>1, <2>1, Counts
  <2> QED BY <1>1, <1>3, <2>2, OpsFacts
<1> QED BY <1>2, <1>3

\* The front of a queue is as many packets old as the queue is long.
LEMMA NewestHead ==
  ASSUME NEW q \in Seq(Packets), q # <<>>, NEW n \in Nat, Newest(q, n)
  PROVE  Head(q) \in Packets /\ Head(q) = n - Len(q) + 1
<1>1. Len(q) \in Nat /\ Len(q) > 0 /\ Head(q) = q[1] /\ Head(q) \in Packets
  OBVIOUS
<1> QED BY <1>1 DEF Newest

\* What send() makes of the queue.
LEMMA SendFacts ==
  ASSUME TypeOK, TypeOK', QueueInRange, Send
  PROVE  /\ QueueInRange' /\ queue' # <<>> /\ Head(queue') \in Packets
         /\ sent + 1 \in Packets
         /\ queue = <<>> => Head(queue') = sent + 1
         /\ queue # <<>> => Len(queue') > 1 /\ Head(queue) <= Head(queue')
<1> DEFINE t == Append(queue, sent + 1)
<1>1. sent \in Nat /\ sent + 1 \in Packets /\ sent' = sent + 1
  BY ClientAssumption DEF Send, TypeOK, Packets
<1>2. queue \in Seq(Packets) /\ queue' \in Seq(Packets)
  BY DEF TypeOK
<1>3. t \in Seq(Packets) /\ t # <<>> /\ Len(t) = Len(queue) + 1
  BY <1>1, <1>2, AppendProperties
<1>4. Newest(t, sent + 1)
  BY <1>1, <1>2, NewestAppend DEF QueueInRange
<1>5. queue' = Queued(t)
  BY DEF Send
<1> HIDE DEF t
<1>6. /\ Newest(queue', sent + 1) /\ Len(queue') <= QueueLimit /\ queue' # <<>>
      /\ Len(queue') <= Len(t) /\ (Len(t) > 1 => Len(queue') > 1)
  BY <1>1, <1>3, <1>4, <1>5, NewestCut
<1>7. Head(queue') \in Packets /\ Head(queue') = sent + 1 - Len(queue') + 1
  BY <1>1, <1>2, <1>6, NewestHead
<1>8. Len(queue) \in Nat /\ Len(queue') \in Nat /\ Len(queue') > 0
  BY <1>2, <1>6
<1>9. ASSUME queue = <<>> PROVE Head(queue') = sent + 1
  <2>1. Len(queue) = 0
    BY <1>9
  <2> QED BY <1>1, <1>3, <1>6, <1>7, <1>8, <2>1
<1>10. ASSUME queue # <<>> PROVE Len(queue') > 1 /\ Head(queue) <= Head(queue')
  <2>1. Len(queue) > 0
    BY <1>2, <1>10
  <2>2. Head(queue) = sent - Len(queue) + 1
    BY <1>1, <1>2, <1>10, NewestHead DEF QueueInRange
  <2> QED BY <1>1, <1>3, <1>6, <1>7, <1>8, <2>1, <2>2
<1>11. QueueInRange'
  BY <1>1, <1>6 DEF QueueInRange
<1> QED BY <1>1, <1>6, <1>7, <1>9, <1>10, <1>11

LEMMA SendQueue ==
  ASSUME TypeOK, TypeOK', QueueInv, Send PROVE QueueInv'
<1>1. /\ UNCHANGED <<sock, done, failed>> /\ sent' = sent + 1
      /\ armed \in SUBSET Timers /\ sent \in Nat
  BY ClientAssumption DEF Send, TypeOK
<1>2. /\ QueueInRange' /\ queue' # <<>> /\ Head(queue') \in Packets
      /\ sent + 1 \in Packets
      /\ queue = <<>> => Head(queue') = sent + 1
      /\ queue # <<>> => Len(queue') > 1 /\ Head(queue) <= Head(queue')
  BY SendFacts DEF QueueInv
<1>3. parked' = (parked \/ sock = "closed")
  BY DEF Send
<1>4. \/ Len(queue') = 1 /\ Begin(Write(Head(queue')), armed)
      \/ Len(queue') # 1 /\ live' = live
  BY DEF Send, Writes
<1>5. \A p \in Packets : p \in Nat
  BY DEF Packets
<1>6. PICK h \in Packets : h = Head(queue')
  BY <1>2
<1>7. CASE queue = <<>>
  <2>1. h = sent + 1
    BY <1>2, <1>6, <1>7
  <2>2. /\ \A q \in Packets : q # h => Count(q)' = Count(q)
        /\ Count(h)' \in {Count(h), Count(h) + 1}
        /\ Len(queue') = 1 /\ sock # "closed" => Count(h)' = Count(h) + 1
    <3>1. live[Write(h)] \in Nat /\ done[Write(h)] \in Nat /\ failed[Write(h)] \in Nat
      BY CountFacts
    <3>2. CASE Len(queue') = 1 /\ Begin(Write(h), armed)
      <4>1. /\ \A q \in Packets : q # h => live'[Write(q)] = live[Write(q)]
            /\ live'[Write(h)] = IF sock = "closed" THEN live[Write(h)] ELSE live[Write(h)] + 1
        BY <1>1, <3>2, BeginsCounts
      <4> QED BY <1>1, <3>1, <4>1 DEF Count
    <3>3. CASE Len(queue') # 1 /\ live' = live
      BY <1>1, <3>1, <3>3 DEF Count
    <3> QED BY <1>4, <1>6, <3>2, <3>3
  <2>3. Count(h) = 0
    <3>1. Count(h) \in Nat /\ (Count(h) > 0 => h <= sent)
      BY CountFacts DEF QueueInv, InTurn
    <3> QED BY <1>1, <2>1, <3>1
  <2>4. InTurn'
    <3> SUFFICES ASSUME NEW q \in Packets
                 PROVE  /\ Count(q)' <= 1 /\ (Count(q)' > 0 => q <= sent')
                        /\ Count(q)' > 0 => q <= h
      BY <1>6 DEF InTurn
    <3>1. CASE q = h
      BY <1>1, <1>5, <2>1, <2>2, <2>3, <3>1
    <3>2. CASE q # h
      <4>1. Count(q)' = Count(q) /\ Count(q) <= 1 /\ (Count(q) > 0 => q <= sent)
        BY <2>2, <3>2 DEF QueueInv, InTurn
      <4> QED BY <1>1, <1>5, <2>1, <4>1
    <3> QED BY <3>1, <3>2
  <2>5. WriterOrParked'
    <3>1. Len(queue') = 1
      <4>1. queue' = Queued(Append(queue, sent + 1)) /\ Len(Append(queue, sent + 1)) = 1
        BY <1>7 DEF Send
      <4> QED BY <4>1, ClientAssumption DEF Queued
    <3>2. sock # "closed" => Count(h)' > 0
      BY <2>2, <2>3, <3>1
    <3> QED BY <1>1, <1>3, <3>2 DEF WriterOrParked
  <2> QED BY <1>2, <2>4, <2>5 DEF QueueInv
<1>8. CASE queue # <<>>
  <2>1. live' = live
    <3>1. Len(queue') > 1 /\ Len(queue') \in Nat
      BY <1>2, <1>8 DEF TypeOK
    <3>2. Len(queue') # 1
      <4> DEFINE l == Len(queue')
      <4>1. l > 1 /\ l \in Nat
        BY <3>1
      <4> HIDE DEF l
      <4>2. l # 1
        BY <4>1
      <4> QED BY <4>2 DEF l
    <3> QED BY <1>4, <3>2
  <2>2. \A p \in Packets : Count(p)' = Count(p)
    BY <1>1, <2>1 DEF Count
  <2>3. Head(queue) \in Packets
    BY <1>8 DEF TypeOK
  <2>4. InTurn'
    <3> SUFFICES ASSUME NEW q \in Packets
                 PROVE  /\ Count(q)' <= 1 /\ (Count(q)' > 0 => q <= sent')
                        /\ Count(q)' > 0 => q <= h
      BY <1>6 DEF InTurn
    <3>1. /\ Count(q)' = Count(q) /\ Count(q) <= 1 /\ (Count(q) > 0 => q <= sent)
          /\ Count(q) > 0 => q <= Head(queue)
      BY <1>8, <2>2 DEF QueueInv, InTurn
    <3>2. Head(queue) <= h
      BY <1>2, <1>6, <1>8
    <3> QED BY <1>1, <1>5, <2>3, <3>1, <3>2
  <2>5. WriterOrParked'
    BY <1>3, <1>8, <2>2 DEF QueueInv, WriterOrParked
  <2> QED BY <1>2, <2>4, <2>5 DEF QueueInv
<1> QED BY <1>7, <1>8

LEMMA WroteQueue ==
  ASSUME TypeOK, TypeOK', QueueInv, NEW p \in Packets, Wrote(p) PROVE QueueInv'
<1>1. UNCHANGED <<sock, failed, sent>> /\ done' = Less(done, Write(p)) /\ done[Write(p)] > 0
  BY DEF Wrote, queueVars, userVars
<1>2. \A q \in Packets : done'[Write(q)] = IF q = p THEN done[Write(q)] - 1 ELSE done[Write(q)]
  BY <1>1, OpTypes, OpsFacts, Counts
<1>3. \A q \in Packets : q \in Nat
  BY DEF Packets
<1>4. CASE queue = <<>> /\ UNCHANGED <<live, armed, queueVars>>
  <2>1. \A q \in Packets : Count(q)' <= Count(q)
    <3> TAKE q \in Packets
    <3>1. live[Write(q)] \in Nat /\ done[Write(q)] \in Nat /\ failed[Write(q)] \in Nat
      BY CountFacts
    <3>2. done'[Write(q)] <= done[Write(q)]
      BY <1>2, <3>1
    <3>3. done'[Write(q)] \in Nat
      BY OpsFacts DEF TypeOK
    <3> QED BY <1>1, <1>4, <3>1, <3>2, <3>3 DEF Count
  <2> QED BY <1>1, <1>4, <2>1, QueueCleared DEF queueVars
<1>5. CASE /\ queue # <<>>
           /\ queue' = Tail(queue)
           /\ parked' = (queue' # <<>> /\ (parked \/ sock = "closed"))
           /\ WriteOn(queue', armed \ {"write"})
  <2>1. /\ queue \in Seq(Packets) /\ queue' \in Seq(Packets) /\ sent \in Nat
        /\ armed \ {"write"} \in SUBSET Timers
    BY ClientAssumption DEF TypeOK
  <2>2. /\ Newest(queue', sent) /\ Len(queue') <= Len(queue)
        /\ queue' # <<>> => Head(queue') = Head(queue) + 1
    BY <1>5, <2>1, NewestTail DEF QueueInv, QueueInRange
  <2>3. QueueInRange'
    <3>1. Len(queue) \in Nat /\ Len(queue') \in Nat /\ QueueLimit \in Nat /\ Len(queue) <= QueueLimit
      BY <2>1, ClientAssumption DEF QueueInv, QueueInRange
    <3> QED BY <1>1, <2>2, <3>1 DEF QueueInRange
  <2>4. PICK f \in Packets : f = Head(queue)
    BY <1>5, <2>1
  <2>5. \A q \in Packets : Count(q) <= 1 /\ (Count(q) > 0 => q <= sent /\ q <= f)
    BY <1>5, <2>4 DEF QueueInv, InTurn
  <2>6. CASE queue' = <<>> /\ live' = live
    <3>1. \A q \in Packets : Count(q)' <= Count(q)
      <4> TAKE q \in Packets
      <4>1. live[Write(q)] \in Nat /\ done[Write(q)] \in Nat /\ failed[Write(q)] \in Nat
        BY CountFacts
      <4>2. done'[Write(q)] <= done[Write(q)]
        BY <1>2, <4>1
      <4>3. done'[Write(q)] \in Nat
        BY OpsFacts DEF TypeOK
      <4> QED BY <1>1, <2>6, <4>1, <4>2, <4>3 DEF Count
    <3> QED BY <1>1, <2>6, <3>1, QueueCleared
  <2>7. CASE queue' # <<>> /\ Begin(Write(Head(queue')), armed \ {"write"})
    <3>1. PICK h \in Packets : h = Head(queue')
      BY <2>1, <2>7
    <3>2. h = f + 1 /\ h = sent - Len(queue') + 1
      BY <2>1, <2>2, <2>4, <2>7, <3>1, NewestHead
    <3>3. h <= sent
      <4>1. Len(queue') \in Nat /\ Len(queue') > 0
        BY <2>1, <2>7
      <4> QED BY <2>1, <3>2, <4>1
    <3>4. /\ \A q \in Packets : q # h => live'[Write(q)] = live[Write(q)]
          /\ live'[Write(h)] = IF sock = "closed" THEN live[Write(h)] ELSE live[Write(h)] + 1
      BY <2>1, <2>7, <3>1, BeginsCounts
    <3>5. Count(h) = 0
      <4>1. Count(h) \in Nat /\ (Count(h) > 0 => h <= f)
        BY <2>5, CountFacts
      <4> QED BY <1>3, <3>2, <4>1
    <3>6. p # h
      <4>1. Count(p) > 0
        <5>1. live[Write(p)] \in Nat /\ done[Write(p)] \in Nat /\ failed[Write(p)] \in Nat
          BY CountFacts
        <5> QED BY <1>1, <5>1 DEF Count
      <4> QED BY <3>5, <4>1
    <3>7. Count(h)' = IF sock = "closed" THEN 0 ELSE 1
      <4>1. live[Write(h)] \in Nat /\ done[Write(h)] \in Nat /\ failed[Write(h)] \in Nat
        BY CountFacts
      <4>2. done'[Write(h)] = done[Write(h)] /\ failed'[Write(h)] = failed[Write(h)]
        BY <1>1, <1>2, <3>6
      <4> QED BY <3>4, <3>5, <4>1, <4>2 DEF Count
    <3>8. \A q \in Packets : q # h => Count(q)' <= Count(q) /\ Count(q)' \in Nat
      <4> TAKE q \in Packets
      <4>1. live[Write(q)] \in Nat /\ done[Write(q)] \in Nat /\ failed[Write(q)] \in Nat
        BY CountFacts
      <4>2. done'[Write(q)] <= done[Write(q)]
        BY <1>2, <4>1
      <4>3. done'[Write(q)] \in Nat
        BY OpsFacts DEF TypeOK
      <4> QED BY <1>1, <3>4, <4>1, <4>2, <4>3 DEF Count
    <3>9. InTurn'
      <4> SUFFICES ASSUME NEW q \in Packets
                   PROVE  Count(q)' <= 1 /\ (Count(q)' > 0 => q <= sent' /\ q <= h)
        BY <3>1 DEF InTurn
      <4>1. CASE q = h
        BY <1>1, <1>3, <3>3, <3>7, <4>1
      <4>2. CASE q # h
        <5>1. Count(q)' <= Count(q) /\ Count(q)' \in Nat /\ Count(q) \in Nat
          BY <3>8, <4>2, CountFacts
        <5>2. Count(q) <= 1 /\ (Count(q) > 0 => q <= sent /\ q <= f)
          BY <2>5
        <5> QED BY <1>1, <1>3, <3>2, <5>1, <5>2
      <4> QED BY <4>1, <4>2
    <3>10. WriterOrParked'
      <4>1. sock # "closed" => Count(h)' > 0
        BY <3>7
      <4> QED BY <1>5, <2>7, <4>1 DEF WriterOrParked
    <3> QED BY <2>3, <3>9, <3>10 DEF QueueInv
  <2> QED BY <1>5, <2>6, <2>7 DEF WriteOn
<1> QED BY <1>4, <1>5 DEF Wrote

LEMMA NextQueue == TypeOK /\ TypeOK' /\ QueueInv /\ [Next]_vars => QueueInv'
<1> SUFFICES ASSUME TypeOK, TypeOK', QueueInv, [Next]_vars PROVE QueueInv'
  OBVIOUS
<1>1. CASE UNCHANGED vars
  BY <1>1, QueueKeeps DEF vars, Count
<1>2. ASSUME NEW p \in Packets, WriteFails(p) PROVE QueueInv'
  BY <1>2, OpsFacts, FailQueue DEF WriteFails
<1>3. CASE ReadFails
  BY <1>3, OpsFacts, FailQueue DEF ReadFails
<1> QED BY <1>1, <1>2, <1>3, CloseQueue, AttemptQueue, OthersQueue, SendQueue, WroteQueue,
          WaitQueue, EndsQueue DEF Next

\* What is queued is the last of what was sent; no packet is written twice or
\* before those in front of it; and a queue without a writer holds a packet that
\* was queued while there was no connection.
THEOREM QueueIsSound == Spec => []QueueSound
<1>1. TypeOK /\ QueueInv => QueueSound
  <2> SUFFICES ASSUME TypeOK, QueueInv PROVE QueueSound
    OBVIOUS
  <2>1. QueueIsNewest
    BY NewestEqual DEF QueueInv
  <2>2. \A p \in Packets : Count(p) > 0 <=> Pending(Write(p))
    BY DEF Count, Pending
  <2>3. WrittenInTurn
    BY <2>2 DEF QueueInv, InTurn, WrittenInTurn, Count
  <2>4. IdleQueueWasParked
    BY <2>2 DEF QueueInv, WriterOrParked, IdleQueueWasParked
  <2> QED BY <2>1, <2>3, <2>4 DEF QueueSound
<1> QED BY <1>1, TypeCorrect, InitQueue, NextQueue, PTL DEF Spec
===============================================================================
