-------------------------- MODULE TcpSession_proofs --------------------------
(* Proofs about TcpSession for every queue limit and any number of packets. *)
EXTENDS TcpSession, SequenceTheorems, TLAPS

\* The packets from d + 1 to n, in order: what InOrder says of the queue.
Packets(d, n) == [i \in 1..(n - d) |-> d + i]

(* The sequence operators on such a queue. *)

LEMMA PacketsSeq ==
  ASSUME NEW d \in Nat, NEW n \in Nat, d <= n
  PROVE  /\ Packets(d, n) \in Seq(1..n) /\ Packets(d, n) \in Seq(Nat)
         /\ Len(Packets(d, n)) = n - d
         /\ Packets(d, n) = <<>> <=> d = n
<1>1. n - d \in Nat /\ \A i \in 1..(n - d) : d + i \in 1..n /\ d + i \in Nat
  OBVIOUS
<1>2. Packets(d, n) \in Seq(1..n) /\ Packets(d, n) \in Seq(Nat)
  BY <1>1 DEF Packets
<1>3. Len(Packets(d, n)) = n - d
  BY <1>1 DEF Packets
<1>4. QED
  BY <1>2, <1>3

LEMMA PacketsAppend ==
  ASSUME NEW d \in Nat, NEW n \in Nat, d <= n
  PROVE  Append(Packets(d, n), n + 1) = Packets(d, n + 1)
<1> DEFINE s == Packets(d, n)
           t == Packets(d, n + 1)
<1>1. s \in Seq(Nat) /\ Len(s) = n - d
  BY PacketsSeq
<1>2. t \in Seq(Nat) /\ Len(t) = n + 1 - d
  <2>1. n + 1 \in Nat /\ d <= n + 1
    OBVIOUS
  <2>2. QED
    BY <2>1, PacketsSeq
<1>3. \A i \in 1..(n - d) : s[i] = d + i
  BY DEF Packets
<1>4. \A i \in 1..(n + 1 - d) : t[i] = d + i
  BY DEF Packets
<1> HIDE DEF s, t
<1>5. Append(s, n + 1) \in Seq(Nat) /\ Len(Append(s, n + 1)) = Len(t)
  BY <1>1, <1>2
<1>6. \A i \in 1..Len(t) : Append(s, n + 1)[i] = t[i]
  BY <1>1, <1>2, <1>3, <1>4
<1>7. Append(s, n + 1) = t
  BY <1>2, <1>5, <1>6, SeqEqual
<1>8. QED
  BY <1>7 DEF s, t

LEMMA PacketsTail ==
  ASSUME NEW d \in Nat, NEW n \in Nat, d < n
  PROVE  Head(Packets(d, n)) = d + 1 /\ Tail(Packets(d, n)) = Packets(d + 1, n)
<1> DEFINE s == Packets(d, n)
           t == Packets(d + 1, n)
<1>1. s \in Seq(Nat) /\ Len(s) = n - d
  BY PacketsSeq
<1>2. t \in Seq(Nat) /\ Len(t) = n - (d + 1)
  <2>1. d + 1 \in Nat /\ d + 1 <= n
    OBVIOUS
  <2>2. QED
    BY <2>1, PacketsSeq
<1>3. \A i \in 1..(n - d) : s[i] = d + i
  BY DEF Packets
<1>4. \A i \in 1..(n - (d + 1)) : t[i] = d + 1 + i
  BY DEF Packets
<1> HIDE DEF s, t
<1>5. Tail(s) \in Seq(Nat) /\ Len(Tail(s)) = Len(t)
  BY <1>1, <1>2
<1>6. \A i \in 1..Len(t) : Tail(s)[i] = t[i]
  BY <1>1, <1>2, <1>3, <1>4
<1>7. Tail(s) = t
  BY <1>2, <1>5, <1>6, SeqEqual
<1>8. Head(s) = d + 1
  BY <1>1, <1>3
<1>9. QED
  BY <1>7, <1>8 DEF s, t

-------------------------------------------------------------------------------
(* The inductive invariant. *)

Types ==
  /\ started \in BOOLEAN
  /\ sock \in {"open", "closed"}
  /\ reading \in {"off", "armed", "aborted"}
  /\ serving \in BOOLEAN
  /\ writing \in {"off", "armed", "aborted"}
  /\ timer \in BOOLEAN
  /\ fired \in 0..MaxSends
  /\ sent \in 0..MaxSends
  /\ delivered \in 0..sent
  /\ failed \in BOOLEAN
  /\ calls \in 0..MaxCalls
  /\ lateCalls \in Nat
  /\ losses \in Nat

Queued == queue = Packets(delivered, sent)

\* A write, and with it a wait, is outstanding only on a packet of the queue,
\* and never again once a write has failed: that packet is never popped.
WriteState ==
  /\ writing # "off" => queue # <<>> /\ ~failed
  /\ timer => writing # "off"
  /\ failed => queue # <<>>

\* The session reads or serves until its loss is notified or its socket closed;
\* after a late chunk it does not read again.
ReadState ==
  /\ serving => reading = "off" /\ started
  /\ ~started => reading = "off" /\ losses = 0
  /\ ~started => sock = "open" /\ queue = <<>> /\ fired = 0
  /\ started /\ reading = "off" /\ ~serving => losses > 0 \/ sock = "closed"
  /\ lateCalls > 0 => sock = "closed" /\ reading = "off"

\* Who notified: a failed write, an overflow, a failed read; each only once,
\* since each of them leaves a mark that never goes away.
Notices ==
  losses <= (IF failed THEN 1 ELSE 0)
          + (IF sock = "closed" THEN 1 ELSE 0)
          + (IF reading = "off" /\ ~serving THEN 1 ELSE 0)

Inv ==
  /\ Types /\ Queued /\ WriteState /\ ReadState /\ Notices
  /\ NoIdleQueue /\ QueueBounded /\ OneChunkAfterClose

LEMMA InitInv == Init => Inv
<1> SUFFICES ASSUME Init PROVE Inv
  OBVIOUS
<1>1. Types
  <2>1. 0 \in 0..MaxSends /\ 0 \in 0..MaxCalls /\ 0 \in 0..0
    BY SessionAssumption
  <2>2. sent = 0 /\ delivered \in 0..sent
    BY <2>1 DEF Init
  <2>3. QED
    BY <2>1, <2>2 DEF Init, Types
<1>2. Queued
  BY PacketsSeq DEF Init, Queued
<1>3. QED
  BY <1>1, <1>2, SessionAssumption DEF Init, Inv, WriteState, ReadState, Notices,
     NoIdleQueue, QueueBounded, OneChunkAfterClose

\* Everything that reading and the timer's handler do leaves the queue alone.
LEMMA QueueKept ==
  ASSUME Inv, UNCHANGED <<queue, sent, delivered>>
  PROVE  Queued'
  BY DEF Inv, Queued, Packets

LEMMA StepInv == Inv /\ [Next]_vars => Inv'
<1> SUFFICES ASSUME Inv, [Next]_vars PROVE Inv'
  OBVIOUS
<1> USE SessionAssumption
<1>a. /\ Types /\ Queued /\ WriteState /\ ReadState /\ Notices
      /\ NoIdleQueue /\ QueueBounded /\ OneChunkAfterClose
  BY DEF Inv
<1>b. delivered \in Nat /\ sent \in Nat /\ delivered <= sent
  BY <1>a DEF Types
<1>c. queue \in Seq(Nat) /\ Len(queue) = sent - delivered /\ (queue = <<>> <=> delivered = sent)
  <2>1. queue = Packets(delivered, sent)
    BY <1>a DEF Queued
  <2>2. QED
    BY <1>b, <2>1, PacketsSeq
<1>1. CASE Start
  <2>1. Queued'
    BY <1>1, QueueKept DEF Start, writeVars
  <2>2. Types'
    BY <1>a, <1>1 DEF Start, Types, writeVars
  <2>3. WriteState' /\ ReadState' /\ Notices'
    BY <1>a, <1>1 DEF Start, Types, writeVars, WriteState, ReadState, Notices
  <2>4. QED
    BY <1>a, <1>1, <2>1, <2>2, <2>3
    DEF Start, Inv, writeVars, NoIdleQueue, QueueBounded, OneChunkAfterClose
<1>2. CASE Receive
  <2>1. Queued'
    BY <1>2, QueueKept DEF Receive, writeVars
  <2>2. Types'
    BY <1>a, <1>2 DEF Receive, Types, writeVars
  <2>3. WriteState' /\ ReadState' /\ Notices'
    BY <1>a, <1>2 DEF Receive, Free, Types, writeVars, WriteState, ReadState, Notices
  <2>4. OneChunkAfterClose'
    BY <1>a, <1>2 DEF Receive, Free, Types, ReadState, OneChunkAfterClose
  <2>5. QED
    BY <1>a, <1>2, <2>1, <2>2, <2>3, <2>4 DEF Receive, Inv, writeVars, NoIdleQueue, QueueBounded
<1>3. CASE Return
  <2>1. Queued'
    BY <1>3, QueueKept DEF Return, writeVars
  <2>2. Types'
    BY <1>a, <1>3 DEF Return, Types, writeVars
  <2>3. WriteState' /\ ReadState' /\ Notices'
    BY <1>a, <1>3 DEF Return, Types, writeVars, WriteState, ReadState, Notices
  <2>4. QED
    BY <1>a, <1>3, <2>1, <2>2, <2>3
    DEF Return, Inv, writeVars, NoIdleQueue, QueueBounded, OneChunkAfterClose
<1>4. CASE ReadFails
  <2>1. Queued'
    BY <1>4, QueueKept DEF ReadFails, writeVars
  <2>2. Types'
    BY <1>a, <1>4 DEF ReadFails, Types, writeVars
  <2>3. WriteState' /\ ReadState' /\ Notices'
    BY <1>a, <1>4 DEF ReadFails, Free, Types, writeVars, WriteState, ReadState, Notices
  <2>4. QED
    BY <1>a, <1>4, <2>1, <2>2, <2>3
    DEF ReadFails, Inv, writeVars, NoIdleQueue, QueueBounded, OneChunkAfterClose
<1>5. CASE Send
  <2>1. sent' = sent + 1 /\ sent' \in 0..MaxSends /\ delivered' = delivered
    BY <1>a, <1>5 DEF Send, Types
  <2>2. queue' = Packets(delivered, sent + 1)
    BY <1>a, <1>b, <1>5, PacketsAppend DEF Send, Queued
  <2>3. queue' # <<>> /\ Len(queue') = sent + 1 - delivered
    <3>1. sent + 1 \in Nat /\ delivered <= sent + 1 /\ delivered # sent + 1
      BY <1>b
    <3>2. /\ Len(Packets(delivered, sent + 1)) = sent + 1 - delivered
          /\ Packets(delivered, sent + 1) = <<>> <=> delivered = sent + 1
      BY <1>b, <3>1, PacketsSeq
    <3>3. QED
      BY <2>2, <3>1, <3>2
  <2>4. Queued'
    BY <2>1, <2>2 DEF Queued, Packets
  <2>5. CASE Len(queue') > QueueLimit /\ DoClose(1) /\ UNCHANGED writing
    <3>1. queue # <<>>
      <4>1. Len(queue') > 1 => sent # delivered
        BY <1>b, <2>3
      <4>2. Len(queue') > 1
        BY <1>b, <2>3, <2>5
      <4>3. QED
        BY <1>c, <4>1, <4>2
    <3>2. UNCHANGED <<started, readVars, fired, delivered, failed>>
      BY <1>5 DEF Send
    <3>3. Types'
      <4>1. timer' \in BOOLEAN /\ sock' \in {"open", "closed"}
        BY <1>a, <2>5 DEF Types, DoClose
      <4>2. losses' \in Nat
        BY <1>a, <2>5 DEF Types, DoClose
      <4>3. QED
        BY <1>a, <2>1, <2>5, <3>2, <4>1, <4>2 DEF Types, readVars
    <3>4. sock' = "closed" /\ (timer' => timer) /\ losses' <= losses + (IF sock = "open" THEN 1 ELSE 0)
      BY <1>a, <2>5 DEF Types, DoClose
    <3>5. WriteState' /\ ReadState'
      BY <1>a, <1>5, <2>3, <2>5, <3>2, <3>4 DEF WriteState, ReadState, readVars, Send, Callable
    <3>6. Notices'
      BY <1>a, <2>5, <3>2 DEF Notices, Types, DoClose, readVars
    <3>7. QED
      BY <1>a, <2>4, <3>2, <3>3, <3>4, <3>5, <3>6
      DEF Inv, NoIdleQueue, QueueBounded, OneChunkAfterClose, readVars
  <2>6. CASE /\ Len(queue') <= QueueLimit
             /\ IF queue = <<>> THEN DoWrite(queue') ELSE UNCHANGED <<writing, timer>>
             /\ UNCHANGED <<sock, losses>>
    <3>1. UNCHANGED <<started, readVars, fired, delivered, failed>>
      BY <1>5 DEF Send
    <3>2. writing' \in {"off", "armed", "aborted"} /\ timer' \in BOOLEAN
      <4>1. CASE queue = <<>>
        BY <2>3, <2>6, <4>1 DEF DoWrite
      <4>2. CASE queue # <<>>
        BY <1>a, <2>6, <4>2 DEF Types
      <4>3. QED
        BY <4>1, <4>2
    <3>3. Types'
      BY <1>a, <2>1, <2>6, <3>1, <3>2 DEF Types, readVars
    <3>4. ReadState' /\ Notices' /\ OneChunkAfterClose'
      BY <1>a, <1>5, <2>6, <3>1 DEF ReadState, Notices, OneChunkAfterClose, readVars, Send, Callable
    <3>5. WriteState' /\ NoIdleQueue'
      <4>1. CASE queue = <<>>
        BY <1>a, <2>3, <2>6, <3>1, <4>1 DEF WriteState, NoIdleQueue, DoWrite, Types
      <4>2. CASE queue # <<>>
        BY <1>a, <2>3, <2>6, <3>1, <4>2 DEF WriteState, NoIdleQueue
      <4>3. QED
        BY <4>1, <4>2
    <3>6. QED
      BY <2>4, <2>6, <3>3, <3>4, <3>5 DEF Inv, QueueBounded
  <2>7. QED
    BY <1>5, <2>5, <2>6 DEF Send
<1>6. CASE Close
  <2>1. UNCHANGED <<started, readVars, fired, queue, writing, sent, delivered, failed>>
    BY <1>6 DEF Close
  <2>2. Queued'
    BY <2>1, QueueKept
  <2>3. Types'
    <3>1. timer' \in BOOLEAN /\ sock' \in {"open", "closed"}
      BY <1>a, <1>6 DEF Close, Types, DoClose
    <3>2. losses' \in Nat
      BY <1>a, <1>6 DEF Close, Types, DoClose
    <3>3. QED
      BY <1>a, <2>1, <3>1, <3>2 DEF Types, readVars
  <2>4. WriteState' /\ ReadState' /\ Notices'
    BY <1>a, <1>6, <2>1 DEF Close, Callable, Types, DoClose, readVars, WriteState, ReadState, Notices
  <2>5. QED
    BY <1>a, <1>6, <2>1, <2>2, <2>3, <2>4
    DEF Close, DoClose, Inv, readVars, NoIdleQueue, QueueBounded, OneChunkAfterClose
<1>7. CASE Wrote
  <2>1. queue # <<>> /\ ~failed /\ delivered < sent
    BY <1>a, <1>b, <1>c, <1>7 DEF Wrote, WriteState
  <2>2. delivered' = delivered + 1 /\ queue' = Packets(delivered + 1, sent)
    BY <1>a, <1>b, <2>1, <1>7, PacketsTail DEF Wrote, Queued
  <2>3. UNCHANGED <<started, sock, readVars, fired, sent, failed, losses>>
    BY <1>7 DEF Wrote
  <2>4. Queued'
    BY <2>2, <2>3 DEF Queued, Packets
  <2>5. Len(queue') = sent - (delivered + 1)
    <3>1. delivered + 1 \in Nat /\ delivered + 1 <= sent
      BY <1>b, <2>1
    <3>2. QED
      BY <1>b, <2>2, <3>1, PacketsSeq
  <2>6. DoWrite(queue')
    BY <1>7 DEF Wrote
  <2>7. writing' \in {"off", "armed", "aborted"} /\ timer' \in BOOLEAN
    BY <2>6 DEF DoWrite
  <2>8. Types'
    BY <1>a, <1>b, <2>1, <2>2, <2>3, <2>7 DEF Types, readVars
  <2>9. ReadState' /\ Notices' /\ OneChunkAfterClose'
    BY <1>a, <1>7, <2>3 DEF ReadState, Notices, OneChunkAfterClose, readVars, Wrote, Free
  <2>10. WriteState' /\ NoIdleQueue'
    BY <1>a, <2>1, <2>3, <2>6 DEF WriteState, NoIdleQueue, DoWrite, Types
  <2>11. QueueBounded'
    BY <1>a, <1>b, <1>c, <2>3, <2>5 DEF QueueBounded
  <2>12. QED
    BY <2>4, <2>8, <2>9, <2>10, <2>11 DEF Inv
<1>8. CASE WriteFails
  <2>1. Queued'
    BY <1>8, QueueKept DEF WriteFails
  <2>2. Types'
    <3>1. failed' \in BOOLEAN /\ timer' \in BOOLEAN
      BY <1>8 DEF WriteFails
    <3>2. QED
      BY <1>a, <1>8, <3>1 DEF WriteFails, Types, readVars
  <2>3. WriteState' /\ ReadState' /\ Notices'
    BY <1>a, <1>8 DEF WriteFails, Free, Types, readVars, WriteState, ReadState, Notices
  <2>4. QED
    BY <1>a, <1>8, <2>1, <2>2, <2>3
    DEF WriteFails, Inv, readVars, NoIdleQueue, QueueBounded, OneChunkAfterClose
<1>9. CASE Expire
  <2>1. Queued'
    BY <1>9, QueueKept DEF Expire
  <2>2. fired' \in 0..MaxSends
    <3>1. delivered < sent
      BY <1>a, <1>b, <1>c, <1>9 DEF Expire, WriteState
    <3>2. Head(queue) = delivered + 1
      BY <1>a, <1>b, <3>1, PacketsTail DEF Queued
    <3>3. QED
      BY <1>a, <1>b, <1>9, <3>1, <3>2 DEF Expire, Types
  <2>3. Types'
    BY <1>a, <1>9, <2>2 DEF Expire, Types, readVars
  <2>4. WriteState' /\ ReadState' /\ Notices'
    <3>1. started
      BY <1>a, <1>9 DEF Expire, WriteState, ReadState
    <3>2. QED
      BY <1>a, <1>9, <3>1 DEF Expire, readVars, WriteState, ReadState, Notices
  <2>5. QED
    BY <1>a, <1>9, <2>1, <2>3, <2>4
    DEF Expire, Inv, readVars, NoIdleQueue, QueueBounded, OneChunkAfterClose
<1>10. CASE Timeout
  <2>1. Queued'
    BY <1>10, QueueKept DEF Timeout
  <2>2. /\ reading' \in {"off", "armed", "aborted"} /\ (reading' = "off" <=> reading = "off")
        /\ writing' \in {"off", "armed", "aborted"} /\ (writing' = "off" <=> writing = "off")
    BY <1>a, <1>10 DEF Timeout, Cancelled, Types
  <2>3. Types'
    BY <1>a, <1>10, <2>2 DEF Timeout, Types
  <2>4. WriteState' /\ ReadState' /\ Notices'
    BY <1>a, <1>10, <2>2 DEF Timeout, Free, WriteState, ReadState, Notices
  <2>5. QED
    BY <1>a, <1>10, <2>1, <2>2, <2>3, <2>4
    DEF Timeout, Inv, NoIdleQueue, QueueBounded, OneChunkAfterClose
<1>11. CASE UNCHANGED vars
  <2>1. Queued'
    BY <1>11, QueueKept DEF vars
  <2>2. QED
    BY <1>a, <1>11, <2>1
    DEF vars, Inv, Types, WriteState, ReadState, Notices, NoIdleQueue, QueueBounded, OneChunkAfterClose
<1>12. QED
  BY <1>1, <1>2, <1>3, <1>4, <1>5, <1>6, <1>7, <1>8, <1>9, <1>10, <1>11 DEF Next

LEMMA Invariance == Spec => []Inv
  BY InitInv, StepInv, PTL DEF Spec

-------------------------------------------------------------------------------
(* What follows from the invariant. *)

\* The session's fields keep their types, and its loss is notified at most
\* three times, once each by a failed read, a failed write and an overflow.
THEOREM TypeCorrect == Spec => []TypeOK
<1>1. Inv => TypeOK
  <2> SUFFICES ASSUME Inv PROVE TypeOK
    OBVIOUS
  <2>1. Types /\ Queued /\ Notices
    BY DEF Inv
  <2>2. delivered \in Nat /\ sent \in Nat /\ delivered <= sent /\ 1..sent \subseteq 1..MaxSends
    BY <2>1, SessionAssumption DEF Types
  <2>3. queue \in Seq(1..sent)
    BY <2>1, <2>2, PacketsSeq DEF Queued
  <2>4. queue \in Seq(1..MaxSends)
    BY <2>2, <2>3, SeqMonotonic
  <2>5. losses \in 0..3
    BY <2>1 DEF Types, Notices
  <2>6. delivered \in 0..MaxSends
    BY <2>1, <2>2, SessionAssumption DEF Types
  <2>7. QED
    BY <2>1, <2>4, <2>5, <2>6 DEF Types, TypeOK
<1>2. QED
  BY Invariance, <1>1, PTL

\* Packets are delivered in the order they were sent, none lost, none twice, the
\* packet being written stays at the front of the queue, and a queue that nobody
\* writes belongs to a failed or closed session.
THEOREM WritesInOrder == Spec => []QueueIsWritten
<1>1. Inv => InOrder
  BY DEF Inv, Queued, Packets, WriteState, InOrder
<1>2. Inv => NoIdleQueue
  BY DEF Inv
<1>3. QED
  BY Invariance, <1>1, <1>2, PTL DEF QueueIsWritten

\* The write queue of an open session stays within its limit, and at most one
\* chunk is served after the socket was closed.
THEOREM CostsAreBounded == Spec => []LossIsBounded
<1>1. Inv => LossIsBounded
  BY DEF Inv, LossIsBounded
<1>2. QED
  BY Invariance, <1>1, PTL

-------------------------------------------------------------------------------
(* The refinement. *)

LEMMA LinkInit == Init => Link!Init
  BY DEF Init, Link!Init, LinkOf

\* Every step of the session is a step of the link, or none.
LEMMA LinkStep == Inv /\ [Next]_vars => [Link!Next]_(Link!vars)
<1> SUFFICES ASSUME Inv, [Next]_vars PROVE [Link!Next]_(Link!vars)
  OBVIOUS
<1>a. Types /\ Queued /\ WriteState /\ ReadState
  BY DEF Inv
<1>1. CASE Start
  <2>1. LinkOf = "free" /\ LinkOf' = "open" /\ UNCHANGED <<calls, losses>>
    BY <1>a, <1>1 DEF Start, ReadState, LinkOf, Over, Free
  <2>2. QED
    BY <2>1 DEF Link!Next, Link!Connect
<1>2. CASE Receive
  <2>1. /\ LinkOf \in {"open", "notified"} /\ LinkOf' = LinkOf
        /\ calls' = calls + 1 /\ UNCHANGED losses
    BY <1>2 DEF Receive, Free, LinkOf, Over, writeVars
  <2>2. QED
    BY <2>1 DEF Link!Next, Link!Data, Link!Reads
<1>3. CASE Return
  <2>1. /\ LinkOf \in {"open", "notified"} /\ UNCHANGED <<calls, losses>>
        /\ LinkOf' = LinkOf \/ (LinkOf = "notified" /\ LinkOf' \in {"ending", "free"})
    BY <1>a, <1>3 DEF Return, ReadState, Free, LinkOf, Over, writeVars
  <2>2. QED
    BY <2>1 DEF Link!Next, Link!Fade, Link!Fades, Link!vars
<1>4. CASE ReadFails
  <2>1. /\ LinkOf \in {"open", "notified"} /\ LinkOf' \in {"ending", "free"}
        /\ losses' = losses + 1 /\ UNCHANGED calls
    BY <1>4 DEF ReadFails, Free, LinkOf, Over, writeVars
  <2>2. QED
    BY <2>1 DEF Link!Next, Link!Lose, Link!Loses
<1>5. CASE Send
  <2>1. UNCHANGED <<started, readVars, fired>> /\ Callable
    BY <1>5 DEF Send
  <2>2. CASE sock = "open" /\ Len(queue') > QueueLimit /\ DoClose(1) /\ UNCHANGED writing
    <3>1. /\ LinkOf \in {"open", "notified"} /\ LinkOf' = "notified"
          /\ losses' = losses + 1 /\ UNCHANGED calls
      BY <1>a, <2>1, <2>2
      DEF Callable, DoClose, ReadState, Types, LinkOf, Over, Free, readVars
    <3>2. QED
      BY <3>1 DEF Link!Next, Link!Lose, Link!Loses
  <2>3. CASE sock = "closed" /\ DoClose(1) /\ UNCHANGED writing
    BY <2>1, <2>3 DEF DoClose, LinkOf, Over, Free, readVars, Link!vars
  <2>4. CASE /\ IF queue = <<>> THEN DoWrite(queue') ELSE UNCHANGED <<writing, timer>>
             /\ UNCHANGED <<sock, losses>>
    <3>1. sock = "closed" /\ queue = <<>> => UNCHANGED <<writing, timer>>
      BY <1>a, <2>4 DEF DoWrite, WriteState, Types
    <3>2. LinkOf' = LinkOf
      <4>1. CASE sock = "closed"
        BY <2>1, <2>4, <3>1, <4>1 DEF LinkOf, Over, Free, readVars
      <4>2. CASE sock = "open"
        BY <1>a, <2>1, <2>4, <4>2 DEF Callable, ReadState, Types, LinkOf, Over, Free, readVars
      <4>3. QED
        BY <1>a, <4>1, <4>2 DEF Types
    <3>3. QED
      BY <2>1, <2>4, <3>2 DEF Link!vars, readVars
  <2>5. QED
    BY <1>a, <1>5, <2>2, <2>3, <2>4 DEF Send, Types
<1>6. CASE Close
  <2>1. UNCHANGED <<started, readVars, fired, writing>> /\ Callable
    BY <1>6 DEF Close
  <2>2. CASE sock = "closed"
    BY <1>6, <2>1, <2>2 DEF Close, DoClose, LinkOf, Over, Free, readVars, Link!vars
  <2>3. CASE sock = "open"
    <3>1. UNCHANGED losses
      BY <1>a, <1>6, <2>3 DEF Close, DoClose, Types
    <3>2. LinkOf \in {"open", "notified"} /\ LinkOf' = "notified" /\ UNCHANGED calls
      BY <1>a, <1>6, <2>1, <2>3, <3>1
      DEF Close, Callable, DoClose, ReadState, Types, LinkOf, Over, Free, readVars
    <3>3. QED
      BY <3>1, <3>2 DEF Link!Next, Link!Close, Link!vars
  <2>4. QED
    BY <1>a, <2>2, <2>3 DEF Types
<1>7. CASE Wrote
  <2>1. /\ LinkOf \in {"open", "notified", "ending"} /\ UNCHANGED <<calls, losses>>
        /\ LinkOf' = LinkOf \/ (LinkOf = "ending" /\ LinkOf' = "free")
    BY <1>7 DEF Wrote, Free, LinkOf, Over, readVars
  <2>2. QED
    BY <2>1 DEF Link!Next, Link!Fade, Link!Fades, Link!vars
<1>8. CASE WriteFails
  <2>1. /\ losses' = losses + 1 /\ UNCHANGED calls
        /\ \/ LinkOf \in {"open", "notified"} /\ LinkOf' = "notified"
           \/ LinkOf = "ending" /\ LinkOf' \in {"ending", "free"}
    BY <1>a, <1>8 DEF WriteFails, Free, Types, LinkOf, Over, readVars
  <2>2. QED
    BY <2>1 DEF Link!Next, Link!Lose, Link!Loses
<1>9. CASE Expire
  <2>1. fired' # 0
    <3>1. delivered \in Nat /\ sent \in Nat /\ delivered <= sent
      BY <1>a, SessionAssumption DEF Types
    <3>2. delivered < sent
      BY <1>a, <1>9, <3>1, PacketsSeq DEF Expire, WriteState, Queued
    <3>3. Head(queue) = delivered + 1
      BY <1>a, <3>1, <3>2, PacketsTail DEF Queued
    <3>4. QED
      BY <1>9, <3>1, <3>3 DEF Expire
  <2>2. QED
    BY <1>9, <2>1 DEF Expire, LinkOf, Over, Free, readVars, Link!vars
<1>10. CASE Timeout
  <2>1. (reading' = "off" <=> reading = "off") /\ (writing' = "off" <=> writing = "off")
    BY <1>10 DEF Timeout, Cancelled
  <2>2. /\ LinkOf \in {"open", "notified", "ending"} /\ UNCHANGED <<calls, losses>>
        /\ LinkOf' = LinkOf \/ (LinkOf = "ending" /\ LinkOf' = "free")
    BY <1>10, <2>1 DEF Timeout, Free, LinkOf, Over
  <2>3. QED
    BY <2>2 DEF Link!Next, Link!Fade, Link!Fades, Link!vars
<1>11. CASE UNCHANGED vars
  BY <1>11 DEF vars, LinkOf, Over, Free, Link!vars
<1>12. QED
  BY <1>1, <1>2, <1>3, <1>4, <1>5, <1>6, <1>7, <1>8, <1>9, <1>10, <1>11 DEF Next

\* A session is to its handler what SessionLink says: it is lost before it ends,
\* it may be lost more than once and may still deliver data after it was.
THEOREM ImplementsSessionLink == Spec => ImplementsLink
<1>1. Spec => Link!Init /\ [][Link!Next]_(Link!vars)
  BY Invariance, LinkInit, LinkStep, PTL DEF Spec
<1>2. QED
  BY <1>1 DEF ImplementsLink, Link!Spec
-------------------------------------------------------------------------------
(* How a closed session ends: the part of SessionEnds that needs no fairness. *)

\* The handlers a session still has to run, two for a read that may turn out to
\* have brought a chunk: its own, and on_data's return.
Left ==
  (IF reading # "off" THEN 2 ELSE 0) + (IF serving THEN 1 ELSE 0)
  + (IF writing # "off" THEN 1 ELSE 0) + (IF fired # 0 THEN 1 ELSE 0)

\* Closing cancels the watchdog, and nothing starts it again.
TimerOff == sock = "closed" => ~timer

LEMMA TimerStep == TimerOff /\ [Next]_vars => TimerOff'
<1> SUFFICES ASSUME TimerOff, [Next]_vars PROVE TimerOff'
  OBVIOUS
<1> USE DEF TimerOff
<1>1. CASE Start \/ Receive \/ Return \/ ReadFails
  BY <1>1 DEF Start, Receive, Return, ReadFails, writeVars
<1>2. CASE Send
  BY <1>2 DEF Send, DoClose, DoWrite
<1>3. CASE Close
  BY <1>3 DEF Close, DoClose
<1>4. CASE Wrote
  BY <1>4 DEF Wrote, DoWrite
<1>5. CASE WriteFails \/ Expire \/ Timeout
  BY <1>5 DEF WriteFails, Expire, Timeout
<1>6. CASE UNCHANGED vars
  BY <1>6 DEF vars
<1>7. QED
  BY <1>1, <1>2, <1>3, <1>4, <1>5, <1>6 DEF Next

LEMMA TimerStaysOff == Spec => []TimerOff
<1>1. Init => TimerOff
  BY DEF Init, TimerOff
<1>2. QED
  BY <1>1, TimerStep, PTL DEF Spec

ClosedIsFinite == sock = "closed" => Left \in 0..4 /\ (Left = 0 <=> Over)

\* A closed session has at most four handlers to run, and it is over exactly
\* when none is left.
THEOREM ClosedHasFewHandlersLeft == Spec => []ClosedIsFinite
<1>1. Inv /\ TimerOff => ClosedIsFinite
  <2> SUFFICES ASSUME Inv, TimerOff, sock = "closed"
               PROVE  Left \in 0..4 /\ (Left = 0 <=> Over)
    BY DEF ClosedIsFinite
  <2>1. Types /\ started /\ ~timer /\ (serving => reading = "off")
    BY DEF Inv, Types, ReadState, TimerOff
  <2>2. Left \in 0..4
    BY <2>1 DEF Left
  <2>3. Left = 0 <=> reading = "off" /\ ~serving /\ writing = "off" /\ fired = 0
    BY DEF Left
  <2>4. QED
    BY <2>1, <2>2, <2>3 DEF Over, Free
<1>2. QED
  BY Invariance, TimerStaysOff, <1>1, PTL

WindsDown ==
  sock = "closed" =>
    /\ sock' = "closed"
    /\ Left' < Left \/ (Left' = Left /\ (Send \/ Close))

LEMMA WindsDownStep == Inv /\ TimerOff /\ Next => WindsDown
<1> SUFFICES ASSUME Inv, TimerOff, Next, sock = "closed"
             PROVE  sock' = "closed" /\ (Left' < Left \/ (Left' = Left /\ (Send \/ Close)))
  BY DEF WindsDown
<1>a. Types /\ started /\ ~timer /\ (serving => reading = "off")
      /\ (writing # "off" => queue # <<>>)
  BY DEF Inv, Types, ReadState, WriteState, TimerOff
<1>1. CASE Start
  BY <1>a, <1>1 DEF Start
<1>2. CASE Receive
  BY <1>2, <1>a DEF Receive, Free, writeVars, Left
<1>3. CASE Return
  BY <1>3, <1>a DEF Return, writeVars, Left
<1>4. CASE ReadFails
  BY <1>4, <1>a DEF ReadFails, Free, writeVars, Left
<1>5. CASE Send
  <2>1. writing' = writing
    BY <1>5, <1>a DEF Send, DoWrite, Types
  <2>2. sock' = "closed" /\ UNCHANGED <<reading, serving, fired>>
    BY <1>5 DEF Send, DoClose, readVars
  <2>3. Left' = Left
    BY <2>1, <2>2 DEF Left
  <2>4. QED
    BY <1>5, <2>2, <2>3
<1>6. CASE Close
  <2>1. sock' = "closed" /\ UNCHANGED <<reading, serving, writing, fired>>
    BY <1>6 DEF Close, DoClose, readVars
  <2>2. Left' = Left
    BY <2>1 DEF Left
  <2>3. QED
    BY <1>6, <2>1, <2>2
<1>7. CASE Wrote
  BY <1>7, <1>a DEF Wrote, DoWrite, readVars, Left
<1>8. CASE WriteFails
  BY <1>8, <1>a DEF WriteFails, readVars, Left
<1>9. CASE Expire
  BY <1>9, <1>a DEF Expire
<1>10. CASE Timeout
  BY <1>10, <1>a DEF Timeout, Cancelled, Left
<1>11. QED
  BY <1>1, <1>2, <1>3, <1>4, <1>5, <1>6, <1>7, <1>8, <1>9, <1>10 DEF Next

\* A closed session stays closed, every handler that runs on it is one less to
\* run, and a late send or close adds none.
THEOREM ClosedSessionWindsDown == Spec => [][WindsDown]_vars
<1>1. Inv /\ TimerOff /\ [Next]_vars => [WindsDown]_vars
  BY WindsDownStep
<1>2. QED
  BY Invariance, TimerStaysOff, <1>1, PTL DEF Spec
===============================================================================
