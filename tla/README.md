# Thanatos in TLA+

Thanatos emulates the login, character and map servers of Ragnarok Online.  A
real RO client connects to it, so that the client can answer the GameGuard
challenges that the bot OpenKore receives elsewhere and forwards to Thanatos
over a "query bus".  This directory holds TLA+ models of the program, TLC runs
of them on small instances and TLAPS proofs for every instance.  Line references
are to the repository this directory sits beside; `PROJECT.json` maps every
definition to the lines it models.

## 1. The system

### Parts, state, operations

| Part | Code | State | Operations |
|---|---|---|---|
| TCP session | `infrastructure/net/asio/AsioTcpServer.cpp` (TcpSession) | socket, write queue of at most 1000 buffers, write watchdog | start, send, close; completions of read, write and timer |
| TCP listener | same file (AsioTcpServerImpl) | acceptor, `running_` | constructor (opens, binds, listens, throws), start, stop, accept completion |
| TCP client | `AsioTcpClient.cpp` | socket, queue, three watchdogs, reconnect attempts and timer | connect, send, close; completions of connect, read, write and the timers. Used by the tests only |
| Login handler and flow | `interface/ragnarok/login/*` | current session, its wire, `awaiting_master_`, account and session ids | on_connect, on_data, on_disconnect; key, token, master login |
| Char handler and flow | `interface/ragnarok/char/*` | current session, its wire, redirect and spawn flags, account | on_connect, on_data, on_disconnect; server select, list, char select, enter |
| GameGuard bridge | `application/services/GameGuardBridge.cpp` | `wire_`, `pending_`, `retry_count_`, `deadline_`, `last_gg_query_` | bindClientWire, on_query_from_kore_, maybe_consume_c2s |
| Query server | `interface/query/QueryServer.cpp` | one acceptor, one socket, one header and one frame buffer | start, stop, sendReply; completions of accept, read_len, read_rest, write |
| Startup and shutdown | `interface/ragnarok/RagnarokServer.cpp`, `bootstrap/Main.cpp` | the port sets, the three servers, the io loop | start with rollback over the sets, stop, signals |
| Session registry, QueryHandler | `application/state`, `interface/query/QueryHandler.cpp` | active client, waiters | created and unused, or not created |
| Bus codec | `interface/query/bus/BusProtocol.hpp` | none | encode, decode |
| Packet codecs, mappers, spawn table | `interface/ragnarok/protocol`, `mappers`, `dto`, `model` | none | one `to_packet` per packet |
| Orchestrator | `scripts/thanatos-orchestrator-cli` (Python) | blocks of slots, the processes in them, `_shutdown_in_progress` | start a server, a block, n blocks; stop a server, a block, all; the signal handler |
| Configuration, logging, console, tokens | `infrastructure/*` | none that decides anything | |

### How they interact

* **One io thread.**  `main` runs one `io_context` on one thread; every
  completion handler of every component runs to its end before the next one
  starts, and calls between components are direct calls within it.  So an action
  of the models is one completion handler with all it calls.  What interleaves
  is the order of the handlers, and the state a handler finds is whatever the
  others have left.
* **A session tells its handler** (`on_connect`, `on_data`, `on_disconnect`).
  Login and char listeners have one handler object each, for all their
  sessions; the char listener is also the map listener.
* **Handlers tell the bridge** which session to use, by a raw pointer to their
  SessionWire, which holds a weak pointer to the session.  The bridge sees each
  chunk of the client before the flow does and may consume it.
* **The query server calls the bridge** with a query, and the bridge calls
  `sendReply` later, from the handler of another socket.
* **Flows share state between connections**: the token gate, the account, the
  armed redirect, and `g_expect_char_on_next_connect` between the two.
* **Processes share the host's ports**: each tries the configured port sets in
  order.  The orchestrator starts many of them, each with a triple of its own
  that nobody listened on when it was chosen.
* **The orchestrator is one thread**, which a signal interrupts between any two
  of its steps; the handler runs on its stack and never returns to it.
* **The TCP client** has one socket and one timer of each kind for the operations
  of every connection it makes.  Its handlers run one at a time because the
  io_context has one thread.  The strand it names does not cover them all: the
  waits at lines 74, 161, 211 and 271 are not bound to it.

### What is hard here, and what must hold

| Part | Hard behaviour | Correct if |
|---|---|---|
| Bridge | late, repeated and partial responses; four places that end a transaction; deadline looked at only when the client sends | each challenge settled once; retries counted; nothing given up early; settled in the end |
| Query server | one socket and two buffers shared by all handlers; hangups anywhere; stop with an accept outstanding | one operation at a time; the reply goes to the asker; accepts again |
| Query path | sessions end in any order and are notified repeatedly; the bridge's pointer; replies without an address | the asker holds the bus; no challenge goes to a session that ended; the answer is written, and is the right one unless a challenge was resent |
| Session | read, write and watchdog fail in any order; a cancel that comes too late; overflow in the middle of a send | order, no forgotten queue, bounded memory, ends |
| Flows | several clients and one state; clients that break off | gate, accounts, redirects; clients one after another are served in order |
| Startup | failure half way, processes racing for the same sets | nothing kept of a failed set; enough sets are enough |
| TCP client | handlers of a lost connection that run on the next one; a read and a write that fail together; a queue that is cut while its front is written; a write between two of its parts, which nothing aborts | a connection is read and watched; no client without a next step; the queue in order, each packet written once; attempts end |
| Bus codec | lengths that the sender claims; maps in any order; integers of any length | decode inverts encode; nothing but a frame is accepted; no look past the buffer |
| Packets | lengths declared apart from the bytes they count; three encodings of one position | the client finds the next packet; one position |
| Orchestrator | a signal between the start of a process and its slot, or inside stop_all; ports chosen before they are bound | no port given twice; no server forgotten; every command ends |

The full list of hazards, each at its line, is under `hazards` in `PROJECT.json`.

## 2. The modules

```
GGExchange  <--refines--  GameGuardBridge --+
                                            +--INSTANCE--  QueryPath
                          QueryServer ------+                 |
                                                          LinkStates
SessionLink  <--refines-- TcpSession                          |
     +--------------------------EXTENDS-----------------------+

LoginFlow --+
            +--INSTANCE--  ClientPhases
CharFlow ---+

by themselves:  Startup   AsioTcpClient   Orchestrator   BusProtocol   Packets
```

| Module | Models | State and actions |
|---|---|---|
| `GameGuardBridge` | `GameGuardBridge.cpp` | `wire, pending, retry, query` are the fields of the same name; `expired` is "the deadline has passed"; counters of copies, accepted, answered, abandoned are history.  `OnQuery` is `on_query_from_kore_`; `MaybeConsume(f)` is `maybe_consume_c2s` on a chunk of kind `f`, split by its returns into `Resend`, `ResendFails`, `GiveUp`, `Answer`, `Pass` |
| `GGExchange` | what the bridge promises | one challenge open at a time, accepted, resent at most MaxRetries times, answered or abandoned |
| `QueryServer` | `QueryServer.cpp` | `armed` counts outstanding asynchronous operations by kind; each handler is an action that ends its operation and starts the next; `backlog` and `gone` are the kernel's and the peers' |
| `QueryPath` | QueryServer, bridge, both handlers and their wires together | instances of the two modules above, sessions by `LinkStates`; `toClient` are challenge copies the client has not answered |
| `TcpSession` | TcpSession in `AsioTcpServer.cpp` | the socket, the read (`reading`, `serving` while on_data runs), `queue`, `writing`, `timer`, and `fired`: a watchdog's handler that is queued and cannot be recalled |
| `LinkStates`, `SessionLink` | a session as its handlers see it | free, open, notified, ending; on_data and on_disconnect still possible in each |
| `LoginFlow` | `LoginFlow.cpp` | the gate `awaiting`, the accounts, `expectChar`; an operator per request, used by `ClientPhases`, and the flow's own properties |
| `CharFlow` | `CharFlow.cpp` behind `CharHandler::on_data` | `awaitingList`, `expecting`, `first`, `spawn`, `charAccount`; an operator per packet, used by `ClientPhases`, and the flow's own properties |
| `ClientPhases` | both flows with their clients | an orderly client's phase is the request it has sent, and an action is the server's handling of it; an unruly client (`Unruly`) sends any packet in any order on either listener |
| `Startup` | `RagnarokServer::start`/`stop` from `main` | `holder` of each port; an action per bind, the rollback, a stray handler, the end |
| `AsioTcpClient` | `AsioTcpClient.cpp` | `live`, `done`, `failed` count the operations that are under way, or over with their handler to run, by kind (a write by its packet); `armed` and `due` the same for the timers.  An action per call (`Connect`, `Send`, `Close`), per completion handler and branch (`Connected` ... `WriteFails`), per watchdog, and for the wait between attempts; `Succeeds`, `Breaks`, `Expire` are the kernel's |
| `BusProtocol` | `encode`, `decode` of `BusProtocol.hpp` | `out` is what encode has written, `off`, `m_out` are decode's; `EncodeHead`, `EncodeEntry` (the entries of a map in any order), `EncodeLength` and `Header`, `Entry`, `Finish` are the stages of the two loops, each with the checks that make it throw; `seen` is how far decode has looked |
| `Packets` | every `to_packet`, over `Codec.hpp`, `Coords.hpp`, `SpawnTable.hpp` | the packets of one handler in the order it sends them; an action per handler of the flows that sends; `Deploy` changes the build's names and keeps its clients |
| `Orchestrator` | `orchestrator.py`, the command loop, `signal_handlers.py` | `pc` and `job` are where the one thread is in which command; `blocks`, `flag` its fields; `procs`, `todo` stop_all's lists; an action per step of a command, `Signal` between any two; `BindPort`, `Ends`, `ForeignBinds`, `ForeignCloses` are the machine's |

Each has an `MC` module with its constants (the two codecs share `MCFormats`), a `.cfg` per run and, where
something is proved, a `_proofs` module (`LoginFlow` and `CharFlow` through
`ClientPhases`).  The proofs about the two codecs stand with those of what they
carry: `Packets` in `ClientPhases_proofs`, `BusProtocol` in `QueryPath_proofs`.  An operator marked *Mutant* is a plausible mistake in the
code, used to see that a property notices it; no specification refers to it.

### Abstractions

* Challenges, responses and the clients' packets are numbers or model values: no
  property of the flows depends on their bytes.  A chunk handed to
  `maybe_consume_c2s` is a response (two forms), a stub of one, or something else.
* Deadlines and watchdogs are flags that become true at any time after they are
  set: a timeout may come before, between or after everything else.
* Calls between components are synchronous.  `send` in `QueryPath` cannot
  overflow the session's queue in the middle of a step; an overflow is that step
  followed by `Disconnect`, which is what the code does with the calls in
  another order.  `TcpSession` models the overflow where it happens.
* In `QueryPath` the query server is started at most once and not stopped: `main`
  calls stop only after the io loop has ended.
* The flows get whole packets.  The code takes what a read returned as one
  packet; two packets in one segment are not modelled.
* Account ids, ports and port sets count from 1.  The default account of
  CharState equals the first account LoginFlow gives (2000001 both), which
  `ClientPhases` keeps.
* In `AsioTcpClient` a host name has one address, and what is read is not kept.
  Reading the front of an empty queue is undefined behaviour: the model stops
  there (`popped = "nothing"`), and no property claims anything after it.
  async_write is composed of parts: when the socket is closed, cancelled or opened
  anew, each write that is under way may be between two of them (`kept`), is then
  not aborted and goes on with whatever the socket is by then.
* `BusProtocol` counts bytes to a base.  The widths of the fields are the code's,
  the base and the number of bytes of an integer are constants, so that the
  lengths, sums and edges of the code occur in small instances.  encode does not
  compare the length of the whole frame with its four bytes but cuts it to them:
  `RoundTrip` is about the frames below that length.  What decode leaves in
  `m_out` when it throws is not kept: its caller drops it.
* In `Packets` a string is its length, and a packet its opcode, declared length,
  bytes written and position.  `Enter` may use the client's or the table's spot
  too: `SpotIsFixed` shows that this program does not come to them, but the code
  that packs them is checked all the same.
* In `Orchestrator` the process's configuration file and its log are left out.  A
  process that is started binds the ports of its triple one by one at any time,
  or ends, or is killed; a process told to stop may take as long as it likes.

## 3. The runs

| Run | Instance | Shows |
|---|---|---|
| `bridge` | two wires, two challenges, three retries as configured, three queries | `BooksBalance`: every challenge is settled exactly once whatever happens in between, and the counters that decide on a resend agree with the copies sent; `NoEarlyGiveUp`: none is given up early while the client can be reached; `ImplementsExchange`: refinement of GGExchange; `PendingSettles`: a pending challenge is settled as long as the client sends anything |
| `query_server` | three connections: one served, two queued | `TypeOK`: no operation is started while one of its kind is outstanding; `OneOperation`, `SocketHeld`: one operation outstanding, on a socket nobody replaced, across hangups and stop; the asker keeps the socket until the reply; `ServerFreed`: the server accepts again after a reply and after a hangup within a frame |
| `query_path` | two bus connections, one login and two char sessions, one retry, two challenges | `NeverMisdirected`: while a challenge is pending its asker holds the bus, so no reply goes to another, and no challenge is handed to a session that ended (the bridge may be bound to none); `StaleOnlyAfterResend`; `AnswerIsWritten`: every reply is written to the one who asked; `BusContract`: the bridge keeps the query server's contract, which is the whole of QueryServer's specification |
| `tcp_session` | queue of two, five sends, three chunks | `QueueIsWritten`: order, no lost wakeup; `LossIsBounded`: bounded queue, one late chunk at most; `ImplementsLink`: refinement of SessionLink; `NoSessionHangs`: the session ends, and a reader gets everything |
| `client_phases` | two clients, each orderly or unruly, together or one after the other; two tokens beyond one per client | whatever is sent in whatever order: one login per token, accounts distinct (`EachLoginOnce`), the redirect's marks together, one entry per redirect at the fixed spot, the list resent once per selection (`EachRequestOnce`); clients one after another are answered in order (`ServedInOrder`) with their own account (`OwnAccount`), whatever the ones before left in the flows, and reach the map (`ReachesMap`) |
| `startup` | two processes, two sets, other programs on every port | `KeepsOneSet`: nothing is kept of a failed set or by an ended process; `EveryoneStarts`: both processes come up while no other program has been in the way |
| `tcp_client` | two attempts in a row, queue of two, three packets, one call of connect; any write may survive the end of its connection | `ConnectionIsWatched`: a connection has a read to come, and a read under way its watchdog, whatever handlers of earlier connections still run; `NotForgotten`: a client not closed and not given up has something to come; `QueueSound`: the queue holds the newest packets in order, no packet is given to the socket twice nor one that waits behind the front, and on a connection a queue that no write goes on with holds a packet queued while there was none.  Nothing is exempted: it holds after a shed, a clear and a pop of another's packet too.  `Settles`: attempts end in a connection or in giving up |
| `formats` | messages of up to two entries over bytes of three values; every buffer of up to six bytes, and with up to five behind a header.  Then names of 14, 17 and 25 bytes around the fields of 16, 20 and 24; position bytes with each bit next to a field's end | `RoundTrip`; `DecodesFramesOnly`: decode accepts what a grammar stated apart from it accepts, and looks at no byte outside the buffer; `ClientKeepsItsPlace`: the length declared is the number of bytes written, and an opcode without length has one size in every build; `OnePlace`: the three packets with a position agree with the one decided on |
| `orchestrator` | three servers in blocks of two, four triples over three ports that overlap, one port taken from outside, two signals | `OneServerPerPort`; `LosesNoServer`: a running server is in a slot, and the end leaves none untold but the last one started, if a signal kept it out of its slot, and those stop_all had not come to when a second signal interrupted it; `CommandsEnd` |

**Bounds.**  `MaxQueries`, `MaxSends`, `MaxCalls`, `MaxTokens`, `MaxUnlisted`,
`MaxStarts`, `MaxForeign`, `MaxSignals`, `MaxConnects` cap counters that grow
without limit in the code; each is what it takes to go once through every reset
and one more (a challenge after a challenge that was resent, a send after an
overflow, a login after a shared gate, a start after a block is full, a signal
inside the handling of a signal).  Two connections or sessions are enough for one
to disturb another, a third to follow.  `MaxAttempts`, `QueueLimit` and
`QueueKept` are constants of the code (10, 1024 and 512), made small so that they
are reached: what is left of a queue that is cut must still be two packets or
more, as in the code.  What depends on no bound is proved for every value of the
constants.

**Fairness.**  The io loop runs every completion that is ready (`QueryServer`,
`TcpSession`, `AsioTcpClient`: weak fairness of the handlers of operations that
have ended; a read is ready only when the peer hung up or the operation was
aborted).  Time passes (`Expire`), and the kernel gives up an attempt to connect
in the end.  For the bridge the client keeps sending chunks that are no
responses, as RO clients do with their keepalives; no response is ever assumed.
In `ClientPhases` a client whose request was answered sends the next one, unless
it leaves.  `DrainsToReader` assumes, inside the property, a peer that reads.  In
`Orchestrator` the one thread goes on with its command; nothing is assumed of the
processes it starts, its waits have timeouts.

**Deadlock** is checked except where the system really stops: the io loop after
an exception, a session that has ended, clients that have all left, processes
that have all ended, a client that was closed or gave up, a buffer that is
decoded, the orchestrator after exit.

### Where the code does not do what is said of it

Each is a run that TLC refutes, with the quoted line under `findings`.

| Run | What happens |
|---|---|
| `decode_error` | a frame that does not decode leaves the query server with nothing started, for ever |
| `client_pops_other` | the handler of a write that ended before the queue was cleared pops the front of an empty deque, or a packet that was queued since |
| `orphans` | a signal between Popen and the slot leaves the process just started running |

Other steps surprised us too.  Some of them are more ways to refute the same
sentence, some contradict a sentence of their own, which is quoted; no run is made
for each.  The models take all these steps, and the properties that hold are stated
so that they hold through them:

* a second signal inside stop_all finds its flag set and ends the program with the
  rest of the processes untold, against the same line (INSTALL.md:197):
  `LosesNoServer` says which ones;
* a full queue of the client sheds the packet that is being written, and its
  handler pops one that was not, against the same line (AsioTcpClient.cpp:256);
  a packet queued without a connection stays, and with it whatever is sent on the
  next one, though AsioTcpClient.cpp:197 says "otherwise the in-flight write will
  chain.": `QueueSound` says what is left of the queue;
* a read and a write of the client that fail together count as two tries
  (AsioTcpClient.cpp:27 "Give up after N tries"), and the loss of a connection is
  not told to on_error_, which tests/NetClientTests.cpp:131 waits for: `NotForgotten`
  and `Settles` say how attempts end;
* the loss of one client's session unbinds the bridge from another's, and queries
  are dropped while a client is connected (GameGuardBridge.cpp:49 "We forward it to
  the live client"); a challenge that is given up leaves its connection on the one
  bus socket, whose hangup is not read;
* an accept aborted by stop() is started again on the closed acceptor, and so on
  while the io loop runs (`AcceptAborted`);
* after a resend, a second response to the old challenge answers the next one
  (`stale` in `QueryPath`; `StaleOnlyAfterResend` says that nothing else does);
* a watchdog that ends together with a part of a write is not set again, and one
  whose handler is late cuts off a session whose packet was written (`Timeout`);
* a lost session may be notified up to three times (`losses`): the comments at
  AsioTcpServer.cpp:178 and 204 ("notify upstream once") each speak of the one
  handler they stand above, which does notify once; read, write and overflow
  together do not;
* a redirect left behind sends the next client into the map (`misled`, which
  `ServedInOrder` excepts through `mixed`);
* the token gate is the listener's, not the connection's, so one client's login
  can use up another's token (`LogIn`);
* a peer that resets in the backlog makes `remote_endpoint()` throw out of the io
  loop (`AcceptThrows`); a process comes up without its query port (`BindQuery`);
* the handlers of the listeners that a rollback destroyed are queued with a
  pointer to them, and the io loop of the set that succeeded runs them
  (`RunStray`: the process goes on or crashes);
* a long write of the client survives the end of its connection and goes on, on
  the next one, from a buffer that may be freed (`kept`).

## 4. The proofs

TLAPS proves the following for every value of the constants, from the named
assumptions of the modules (`GameGuardBridge`'s limits are naturals, `NoConn`
is no connection, a cut queue keeps more than one packet, and so on).

| Module | Theorems | The invariant behind them |
|---|---|---|
| `GameGuardBridge_proofs` | TypeCorrect, BalancedBooks, GivesUpLate, Implements | `TypeOK` with `EachSettledOnce` and `RetriesCountCopies`: the counts say what is pending, which gives the refinement its mapping |
| `QueryServer_proofs` | TypeCorrect, OneAtATime, SocketIsHeld, SilentForACause | every handler consumes the operation it ran for, so the invariants need each other: an owed reply leaves nothing outstanding, and what is outstanding owns the socket; every handler but that of a whole frame starts another operation, so the server is silent only for a reply it waits for, a frame it cannot answer or a reply stop() made impossible |
| `QueryPath_proofs` | NothingMisdirected, StaleNeedsResend, NoRetriesNoStale, RepliesAreWritten, CallerKeepsContract | the two components' invariants, and where each copy of a challenge is: an unanswered copy of another challenge than the pending one exists only after a resend |
| `QueryPath_proofs` (frames) | FramesGoThere, DecodesExactlyFrames, DecodeAdvances | `WrittenInv`: what encode has written is the header and, end to end, the entries of `order`, and the buffer begins with it.  `DecodeInv`: the bytes before `off` have been cut into entries, and every way to cut the frame cuts it at `off`; so where decode finds no entry there is none.  `CarriedInv`: at the start of the j-th entry decode has the entries before it.  The arithmetic of digits (`Digits`, `LastByte`, `Write32`, `MinimalFacts`) is proved for any base |
| `TcpSession_proofs` | TypeCorrect, WritesInOrder, CostsAreBounded, ImplementsSessionLink, ClosedHasFewHandlersLeft, ClosedSessionWindsDown | the queue is the interval after the last packet written; who can still notify a loss (read, write, overflow) bounds the losses; what is outstanding decides the abstract link; the handlers a closed session has left (`Left`) fall with each one that runs |
| `ClientPhases_proofs` | TypeCorrect, OneAfterAnother, SeesOwnAccount, TokensAreSpent, RedirectsAreSpent | `OnCourse`: for each phase, the state of the flows that its next request needs; it holds of the one client there is as long as clients come one after another.  `LoginInv`, `AccountsInv`, `CharInv`, `ListInv`: the flows by themselves, under any packets.  For the types, the tokens issued are at most `MaxTokens` and one for each client past asking, a set that only grows |
| `ClientPhases_proofs` (packets) | PlaceInStream, OnePlaceTold | what each operator that makes a packet declares and writes, for any lengths of the names (cut to their fields, or counted) and any token length that fits the length field; the bits of a packed position, taken apart by division, give the coordinates back |
| `Startup_proofs` | TypeCorrect, HoldsOneSet, EnoughSets | `Blocked`: a set that was passed by belongs to another process that stays on it; counting those processes shows that one with as many sets as processes never runs out |
| `AsioTcpClient_proofs` | TypeCorrect, NoConnectionUnwatched, NeverForgotten, QueueIsSound | `Watched`: nothing is under way on a closed socket, an open one has an attempt or a read to come, and without one there is a wait, unless the client was closed or gave up.  `QueueInv`: the queue is an interval that ends with the last packet sent, and no operation that is left is of a packet younger than its front; so a packet that is appended to an empty queue is written for the first time, and one appended behind another starts no write, whatever was cut or popped before |
| `Orchestrator_proofs` | TypeCorrect, NoSharedPort, NoServerLost | slots hold distinct servers in the order they were started (`SlotsDistinct`, `Numbered`); the triple a start has picked is disjoint from those of all listed servers until it is entered (`FreeTriple`), which is what makes ports that nobody listens on yet safe; a server leaves its slot only after it was killed or had ended (`KilledIsUnlisted`); what stop_all has still to tell is what is running and untold, and before it has its list it has told nobody (`Telling`), which is what a second signal can leave behind |

`TypeOK` or an invariant alone is not inductive: each proof names the
strengthening (`Inv`, `IInv`), shows that it holds initially and that every
action keeps it, and takes the theorems from it.

`NoRetriesNoStale` has no run of its own: it says that with `MaxRetries = 0` no
stale response is ever taken for an answer.

`DecodeAdvances` has no run of its own either: every turn of decode's loop
throws or takes four bytes at least and stays within the frame, so the loop ends
on any buffer.

The loops over the bytes of an integer are recursive functions up to a bound, and
encode and decode go through a frame one entry a step.  So the induction over the
bytes is one up to a number (`UpTo`, from the well-foundedness of < on Nat, and
`Iterated`, that what is defined by a step from each number to the next is
defined), and the induction over the entries is that of the invariants.

Only model-checked: the liveness properties (`PendingSettles`, `ServerFreed`,
`NoSessionHangs`, `ReachesMap`, `Settles`, `CommandsEnd`), since fairness and
ENABLED are out of the prover's reach.  The part of two of them that needs no
fairness is proved: `SilentForACause` says what the server can be silent for, and
`ClosedHasFewHandlersLeft` with `ClosedSessionWindsDown` that a closed session has
at most four handlers to run, that each one that runs is one less, and that it is
over when none is left.  That those handlers do run is the fairness of `FairSpec`.

## 5. Not modelled

* `SessionRegistry` and `QueryHandler`: `main` creates the registry and nothing
  uses it, the handler is not created.  A model of them would have to invent
  their callers.
* The accept loop of AsioTcpServerImpl is modelled where it decides something:
  the bind and the stray accept in `Startup`, accepted connections in `QueryPath`.
  What it does after an accept that failed is to accept again.
* Two packets in one segment, or one in two, on the char listener: on_data has no
  framing, and to say what is lost the stream would have to be kept as bytes
  through the flows.
* The values of the packets' other fields, configuration, logging, console,
  banners and token bytes: they have no state that another part depends on.
