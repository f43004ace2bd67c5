----------------------------- MODULE QueryServer -----------------------------
(***************************************************************************)
(* src/interface/query/QueryServer.cpp: the endpoint where OpenKore asks.  *)
(* One socket, one header and one frame buffer; every completion handler   *)
(* decides which asynchronous operation is started next.  An action is one *)
(* completion handler or one call of start, stop or sendReply.             *)
(*                                                                         *)
(* What the peers send is the choice of the outcome of a read.  A peer may *)
(* hang up at any time, in the listen backlog too.                         *)
(***************************************************************************)
EXTENDS Naturals, Sequences

CONSTANTS
  Conns,    (* TCP connections OpenKore instances make to the endpoint     *)
  NoConn    (* no connection                                               *)

ASSUME QueryServerAssumption == NoConn \notin Conns

VARIABLES
  running,  (* the io loop runs: no exception has left a handler           *)
  acceptor, (* acc                                                         *)
  sock,     (* sock: null, created for the next accept, open or closed     *)
  peer,     (* the connection sock is open on                              *)
  armed,    (* outstanding asynchronous operations, counted by kind        *)
  backlog,  (* connections completed by the kernel and not yet accepted    *)
  gone,     (* connections whose remote end has hung up                    *)
  frame,    (* what the last whole frame of this connection was            *)
  owed      (* history: the connection whose query awaits sendReply        *)

vars == <<running, acceptor, sock, peer, armed, backlog, gone, frame, owed>>

Ops    == {"accept", "read_len", "read_rest", "write"}
Frames == {"none", "query", "ignored", "undecodable"}

\* A handler of `done' has run: its operation is over.
Over(done)     == [armed EXCEPT ![done] = @ - 1]
\* ... and it has started `next'.
Rearm(done, next) == [Over(done) EXCEPT ![next] = @ + 1]

Queued == {backlog[i] : i \in 1..Len(backlog)}

Init ==
  /\ running = TRUE
  /\ acceptor = "down"
  /\ sock = "null"
  /\ peer = NoConn
  /\ armed = [o \in Ops |-> 0]
  /\ backlog = <<>>
  /\ gone = {}
  /\ frame = "none"
  /\ owed = NoConn

-------------------------------------------------------------------------------
(* start and stop *)

StartListening ==
  /\ acceptor = "down"
  /\ acceptor' = "listening"
  /\ sock' = "fresh"
  /\ armed' = [armed EXCEPT !["accept"] = @ + 1]
  /\ UNCHANGED <<running, peer, backlog, gone, frame, owed>>

\* A bad address or a port in use: start returns and nothing tells the caller.
StartFails ==
  /\ acceptor = "down"
  /\ acceptor' = "failed"
  /\ UNCHANGED <<running, sock, peer, armed, backlog, gone, frame, owed>>

\* Mutant: the socket is recycled, and an accept started on the new one.
StopRecycles ==
  /\ acceptor # "down"
  /\ acceptor' = "closed"
  /\ sock' = "fresh" /\ peer' = NoConn
  /\ armed' = [armed EXCEPT !["accept"] = @ + 1]
  /\ backlog' = <<>>
  /\ UNCHANGED <<running, gone, frame, owed>>

\* acc and sock are closed; outstanding operations complete with an error,
\* except one that completed before: its handler still runs with success.
Stop ==
  /\ acceptor # "down"
  /\ acceptor' = "closed"
  /\ sock' = IF sock = "null" THEN "null" ELSE "closed"
  /\ \/ backlog' = <<>>
     \/ armed["accept"] > 0 /\ backlog # <<>> /\ backlog' = <<Head(backlog)>>
  /\ UNCHANGED <<running, peer, armed, gone, frame, owed>>

-------------------------------------------------------------------------------
(* completion handlers *)

Runs(op) == running /\ armed[op] > 0

\* recycle(), as the last thing the handler of `op' does: the socket is closed
\* and a new one is created for the next accept.
Recycle(op) ==
  /\ sock' = "fresh"
  /\ peer' = NoConn
  /\ armed' = Rearm(op, "accept")
  /\ gone' = gone \ {peer}
  /\ frame' = "none"
  /\ owed' = NoConn
  /\ UNCHANGED <<running, acceptor, backlog>>

\* Mutant: the next accept is started right away, on the same sock.
AcceptContinues ==
  /\ Runs("accept")
  /\ backlog # <<>>
  /\ sock' = "open"
  /\ peer' = Head(backlog)
  /\ backlog' = Tail(backlog)
  /\ armed' = [Rearm("accept", "read_len") EXCEPT !["accept"] = @ + 1]
  /\ UNCHANGED <<running, acceptor, gone, frame, owed>>

Accept ==
  /\ Runs("accept")
  /\ backlog # <<>>
  /\ sock' = "open"
  /\ peer' = Head(backlog)
  /\ backlog' = Tail(backlog)
  /\ armed' = Rearm("accept", "read_len")
  /\ UNCHANGED <<running, acceptor, gone, frame, owed>>

\* remote_endpoint() has no error_code argument: it throws when the peer has
\* already reset the connection, and the exception ends io.run().
AcceptThrows ==
  /\ Runs("accept")
  /\ backlog # <<>>
  /\ Head(backlog) \in gone
  /\ running' = FALSE
  /\ sock' = "open"
  /\ peer' = Head(backlog)
  /\ backlog' = Tail(backlog)
  /\ armed' = Over("accept")
  /\ UNCHANGED <<acceptor, gone, frame, owed>>

\* The accept is aborted by stop(): it is started again all the same.
AcceptAborted ==
  /\ Runs("accept")
  /\ acceptor = "closed" /\ backlog = <<>>
  /\ sock' = "fresh"
  /\ armed' = Rearm("accept", "accept")
  /\ UNCHANGED <<running, acceptor, peer, backlog, gone, frame, owed>>

\* The 4-byte header is read and says 6 .. 16 MiB.
ReadLen ==
  /\ Runs("read_len")
  /\ armed' = Rearm("read_len", "read_rest")
  /\ UNCHANGED <<running, acceptor, sock, peer, backlog, gone, frame, owed>>

\* A read error, a short read or (read_len only) a length out of bounds.
ReadFails(op) ==
  /\ op \in {"read_len", "read_rest"}
  /\ Runs(op)
  /\ Recycle(op)

\* Mutant: the next frame is read before the reply is sent.
ReadRestKeepsReading(f) ==
  /\ Runs("read_rest")
  /\ frame' = f
  /\ armed' = Rearm("read_rest", "read_len")
  /\ UNCHANGED <<running, acceptor, sock, peer, backlog, gone>>

\* A whole frame was read: whatever it is, no operation is started.
ReadRest(f) ==
  /\ Runs("read_rest")
  /\ frame' = f
  /\ armed' = Over("read_rest")
  /\ UNCHANGED <<running, acceptor, sock, peer, backlog, gone>>

\* A Poseidon Query with a binary "packet": on_query is called (by the composer).
ReadQuery == ReadRest("query") /\ owed' = peer

\* Another message, or one decode throws on.
ReadOther(f) ==
  /\ f \in {"ignored", "undecodable"}
  /\ ReadRest(f)
  /\ UNCHANGED owed

\* sendReply: dropped unless the socket is open, else written to it.
SendReply ==
  /\ armed' = IF sock = "open" THEN [armed EXCEPT !["write"] = @ + 1] ELSE armed
  /\ owed' = NoConn
  /\ UNCHANGED <<running, acceptor, sock, peer, backlog, gone, frame>>

\* Mutant: the connection is kept after the reply.
WrittenKeepsConnection ==
  /\ Runs("write")
  /\ armed' = Over("write")
  /\ UNCHANGED <<running, acceptor, sock, peer, backlog, gone, frame, owed>>

\* The reply is written, or the write has failed.
Written == Runs("write") /\ Recycle("write")

-------------------------------------------------------------------------------
(* the peers *)

Connect(c) ==
  /\ acceptor = "listening"
  /\ c \notin Queued /\ c # peer
  /\ backlog' = Append(backlog, c)
  /\ gone' = gone \ {c}
  /\ UNCHANGED <<running, acceptor, sock, peer, armed, frame, owed>>

Hangup(c) ==
  /\ c \in Queued \/ c = peer
  /\ gone' = gone \cup {c}
  /\ UNCHANGED <<running, acceptor, sock, peer, armed, backlog, frame, owed>>

\* The caller of sendReply replies at most once to each query it was given.
Reply == running /\ owed # NoConn /\ SendReply

Start == StartListening \/ StartFails

Handlers ==
  \/ Accept \/ AcceptThrows \/ AcceptAborted
  \/ ReadLen \/ ReadQuery \/ Written
  \/ \E op \in Ops : ReadFails(op)
  \/ \E f \in Frames : ReadOther(f)

Next ==
  \/ Start
  \/ Stop
  \/ Handlers
  \/ Reply
  \/ \E c \in Conns : Connect(c) \/ Hangup(c)

Spec == Init /\ [][Next]_vars

\* The io loop runs every completion that is ready.  A read is ready once the
\* peer has hung up or the socket is closed; until then it is up to the peer.
ReadEnds(op) == ReadFails(op) /\ (peer \in gone \/ sock = "closed")

FairSpec ==
  /\ Spec
  /\ WF_vars(Accept)
  /\ WF_vars(AcceptAborted)
  /\ WF_vars(ReadEnds("read_len"))
  /\ WF_vars(ReadEnds("read_rest"))
  /\ WF_vars(Written)

-------------------------------------------------------------------------------
\* The fields keep their types, and no kind of operation is started while one of
\* its kind is outstanding.
TypeOK ==
  /\ running \in BOOLEAN
  /\ acceptor \in {"down", "failed", "listening", "closed"}
  /\ sock \in {"null", "fresh", "open", "closed"}
  /\ peer \in Conns \cup {NoConn}
  /\ armed \in [Ops -> 0..1]
  /\ backlog \in Seq(Conns)
  /\ gone \in SUBSET Conns
  /\ frame \in Frames
  /\ owed \in Conns \cup {NoConn}

\* All handlers share sock, hdr and frame without a lock or a generation
\* number: at most one operation is ever outstanding, whatever the peers send,
\* whoever hangs up, and across stop().
OneOperation ==
  \A o1, o2 \in Ops : armed[o1] > 0 /\ armed[o2] > 0 => o1 = o2 /\ armed[o1] = 1

\* An accept is only outstanding on a socket with no peer, a read or a write
\* only on one with a peer: no handler works on a socket that another replaced.
OperationOwnsSocket ==
  /\ armed["accept"] > 0 => sock # "open" /\ peer = NoConn
  /\ \A o \in Ops \ {"accept"} : armed[o] > 0 => sock \in {"open", "closed"} /\ peer # NoConn

\* sendReply has no argument that says to whom: between a query and its reply
\* the connection that asked keeps the socket, with nothing outstanding on it,
\* so that the reply can go nowhere else.
OwedHoldsSocket ==
  owed # NoConn =>
    /\ peer = owed
    /\ sock \in {"open", "closed"}
    /\ frame = "query"
    /\ \A o \in Ops : armed[o] = 0

\* Nobody works on, or replies through, a socket that belongs to another
\* connection.
SocketHeld == OperationOwnsSocket /\ OwedHoldsSocket

\* Once the reply is being written, the server accepts again, whether the peer
\* reads it, hangs up or the server is stopped.
ReplyFreesServer == armed["write"] > 0 ~> armed["accept"] > 0

\* A peer that hangs up before its frame is complete costs the server only that
\* connection.
HangupInFrameFreesServer ==
  \A c \in Conns :
    (peer = c /\ c \in gone /\ armed["read_len"] > 0) ~> (armed["accept"] > 0 \/ frame # "none")

\* No peer that goes away, before its query is complete or after, keeps the one
\* socket from the others.
ServerFreed == ReplyFreesServer /\ HangupInFrameFreesServer

-------------------------------------------------------------------------------
(* What a comment in the source says and the code does not do. *)

\* QueryServer.cpp:229 "Decoding errors are non-fatal; we close & accept again."
DecodeErrorReaccepts ==
  (frame = "undecodable" /\ acceptor = "listening") ~>
    (armed["accept"] > 0 \/ acceptor # "listening")
===============================================================================
