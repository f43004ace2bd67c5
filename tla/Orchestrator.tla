----------------------------- MODULE Orchestrator -----------------------------
(***************************************************************************)
(* The program under scripts/thanatos-orchestrator-cli that starts and     *)
(* stops Thanatos processes in blocks: application/services/               *)
(* orchestrator.py, the command loop of interface/cli/main.py and the      *)
(* handler of infrastructure/system/signal_handlers.py.                    *)
(*                                                                         *)
(* The orchestrator is one thread; a signal interrupts it between any two  *)
(* steps.  The servers, and the other programs of the machine, run beside  *)
(* it.  Servers are numbered in the order they are started in.             *)
(***************************************************************************)
EXTENDS Naturals, Sequences, FiniteSets

CONSTANTS
  Triples,     (* the port triples of the configuration: a sequence of     *)
               (* sets of ports, which may overlap                         *)
  BlockSize,   (* slots of a block: 3                                      *)
  MaxStarts,   (* bound: processes started                                 *)
  MaxForeign,  (* bound: ports that other programs take                    *)
  MaxSignals   (* bound: SIGINT and SIGTERM                                *)

Ports   == UNION { Triples[t] : t \in DOMAIN Triples }
Servers == 1..MaxStarts
Empty   == 0
Slots   == 1..BlockSize

ASSUME OrchestratorAssumption ==
  /\ Triples \in Seq(SUBSET Ports)
  /\ BlockSize \in Nat \ {0}
  /\ MaxStarts \in Nat /\ MaxForeign \in Nat /\ MaxSignals \in Nat

VARIABLES
  pc,       (* where the orchestrator is                                   *)
  blocks,   (* self.blocks                                                 *)
  flag,     (* self._shutdown_in_progress                                  *)
  job,      (* the command that runs, and its local variables              *)
  procs,    (* stop_all's list of processes,                               *)
  todo,     (* those it has still to signal                                *)
  started,  (* how many processes were started                             *)
  running,  (* the servers that run                                        *)
  triple,   (* the triple each server was given                            *)
  bound,    (* the ports each server listens on                            *)
  told,     (* the signal each running server was sent last                *)
  foreign,  (* the ports other programs listen on                          *)
  signals,  (* history: signals taken                                      *)
  broken    (* history: a signal interrupted stop_all                      *)

orchestrator == <<pc, blocks, flag, job, procs, todo, broken>>
machine      == <<started, running, triple, bound, told, foreign>>
vars         == <<orchestrator, machine, signals>>

NoJob == [kind |-> "none", block |-> 0, slot |-> 0, triple |-> 0,
          batch |-> {}, more |-> 0, slots |-> <<>>]

Init ==
  /\ pc = "prompt"
  /\ blocks = <<>>
  /\ flag = FALSE
  /\ job = NoJob
  /\ procs = {} /\ todo = {}
  /\ started = 0
  /\ running = {}
  /\ triple = [i \in Servers |-> 1]
  /\ bound = [i \in Servers |-> {}]
  /\ told = [i \in Servers |-> "none"]
  /\ foreign = {}
  /\ signals = 0
  /\ broken = FALSE

-------------------------------------------------------------------------------
(* ports and slots *)

Listed == { blocks[b][s] : b \in DOMAIN blocks, s \in Slots } \ {Empty}

\* is_port_listening asks the machine, whoever it is that listens.
Listening == foreign \cup UNION { bound[i] : i \in Servers }

\* Mutant: a process that does not listen yet is not counted.
ReservedIfListening ==
  UNION { Triples[triple[i]] : i \in { j \in Listed : Triples[triple[j]] \subseteq Listening } }

\* _recompute_reserved_ports
Reserved ==
  UNION { Triples[triple[i]] :
            i \in { j \in Listed : j \in running \/ Triples[triple[j]] \subseteq Listening } }

\* The triples _pick_first_available_triple passes over the others for.
Available(extra) ==
  { t \in DOMAIN Triples : Triples[t] \cap (Reserved \cup extra \cup Listening) = {} }

First(S) == CHOOSE x \in S : \A y \in S : x <= y

FreeSlots(bs, b) == { s \in Slots : bs[b][s] = Empty }
FreeBlocks(bs) == { b \in DOMAIN bs : FreeSlots(bs, b) # {} }

\* The blocks with one of them that has a free slot.
WithRoom(bs) ==
  IF FreeBlocks(bs) # {} THEN bs ELSE Append(bs, [s \in Slots |-> Empty])

-------------------------------------------------------------------------------
(* starting *)

Idle == pc = "prompt"

StartServer ==
  /\ Idle
  /\ job' = [NoJob EXCEPT !.kind = "server"]
  /\ pc' = "pick"
  /\ UNCHANGED <<blocks, flag, procs, todo, broken, machine, signals>>

\* _count_possible_blocks
PossibleBlocks ==
  Cardinality({ t \in DOMAIN Triples : Triples[t] \cap Reserved = {} }) \div BlockSize

\* start_block; start_n_blocks with no more than are possible.
StartBlocks(n) ==
  /\ Idle
  /\ \/ n = 1 /\ job' = [NoJob EXCEPT !.kind = "block", !.more = 1]
     \/ job' = [NoJob EXCEPT !.kind = "block",
                             !.more = IF n > PossibleBlocks THEN PossibleBlocks ELSE n]
  /\ pc' = "block"
  /\ UNCHANGED <<blocks, flag, procs, todo, broken, machine, signals>>

\* The block that is filled up, a new one if all are full.
NextBlock ==
  /\ pc = "block"
  /\ IF job.more = 0
     THEN pc' = "prompt" /\ job' = NoJob /\ UNCHANGED blocks
     ELSE /\ pc' = "pick"
          /\ blocks' = WithRoom(blocks)
          /\ job' = [job EXCEPT !.block = First(FreeBlocks(blocks')),
                                !.batch = {}, !.more = @ - 1]
  /\ UNCHANGED <<flag, procs, todo, broken, machine, signals>>

\* The triple, then the slot: the block's, or the first that is free.
Pick ==
  /\ pc = "pick"
  /\ job.kind = "block" => FreeSlots(blocks, job.block) # {}
  /\ Available(job.batch) # {}
  /\ LET t  == First(Available(job.batch))
         bs == IF job.kind = "block" THEN blocks ELSE WithRoom(blocks)
         b  == IF job.kind = "block" THEN job.block ELSE First(FreeBlocks(bs))
     IN  /\ blocks' = bs
         /\ job' = [job EXCEPT !.triple = t, !.block = b, !.slot = First(FreeSlots(bs, b)),
                               !.batch = IF job.kind = "block" THEN @ \cup Triples[t] ELSE @]
  /\ pc' = "start"
  /\ UNCHANGED <<flag, procs, todo, broken, machine, signals>>

\* The block is full.
BlockDone ==
  /\ pc = "pick" /\ job.kind = "block" /\ FreeSlots(blocks, job.block) = {}
  /\ pc' = "block"
  /\ UNCHANGED <<blocks, flag, job, procs, todo, broken, machine, signals>>

\* The exception ends the command.
Raise ==
  /\ pc' = "prompt"
  /\ job' = NoJob
  /\ UNCHANGED <<blocks, flag, procs, todo, broken, machine, signals>>

NoTriple ==
  /\ pc = "pick"
  /\ job.kind = "block" => FreeSlots(blocks, job.block) # {}
  /\ Available(job.batch) = {}
  /\ Raise

StartFails == pc = "start" /\ Raise

\* The bound: when the servers are used up every start fails.
Popen ==
  /\ pc = "start" /\ started < MaxStarts
  /\ started' = started + 1
  /\ running' = running \cup {started'}
  /\ triple' = [triple EXCEPT ![started'] = job.triple]
  /\ pc' = "started"
  /\ UNCHANGED <<blocks, flag, job, procs, todo, broken, bound, told, foreign, signals>>

Enter ==
  /\ pc = "started"
  /\ blocks' = [blocks EXCEPT ![job.block][job.slot] = started]
  /\ pc' = "wait"
  /\ UNCHANGED <<flag, job, procs, todo, broken, machine, signals>>

\* The server listens, has ended, or two seconds have passed: nobody looks which.
Waited ==
  /\ pc = "wait"
  /\ IF job.kind = "block"
     THEN pc' = "pick" /\ UNCHANGED job
     ELSE pc' = "prompt" /\ job' = NoJob
  /\ UNCHANGED <<blocks, flag, procs, todo, broken, machine, signals>>

-------------------------------------------------------------------------------
(* stopping *)

Stop(b, slots) ==
  /\ job' = [NoJob EXCEPT !.kind = "stop", !.block = b, !.slots = slots]
  /\ pc' = "stop"
  /\ UNCHANGED <<blocks, flag, procs, todo, broken, machine, signals>>

StopServer(b, s) == Idle /\ blocks[b][s] # Empty /\ Stop(b, <<s>>)
StopBlock(b)     == Idle /\ Stop(b, [s \in Slots |-> s])

Inst == blocks[job.block][Head(job.slots)]

\* The slot is empty again, and the next one's turn.
Cleared ==
  /\ blocks' = [blocks EXCEPT ![job.block][Head(job.slots)] = Empty]
  /\ job' = [job EXCEPT !.slots = Tail(@)]
  /\ pc' = "stop"

Tell(S, signal) ==
  told' = [i \in Servers |-> IF i \in S \cap running THEN signal ELSE told[i]]

\* An empty slot is skipped, a process that has ended is not signalled.
StopNext ==
  /\ pc = "stop"
  /\ \/ /\ job.slots = <<>>
        /\ pc' = "prompt" /\ job' = NoJob
        /\ UNCHANGED <<blocks, told>>
     \/ /\ job.slots # <<>> /\ Inst \notin running
        /\ Cleared
        /\ UNCHANGED told
     \/ /\ job.slots # <<>> /\ Inst \in running
        /\ Tell({Inst}, "term")
        /\ pc' = "stopwait"
        /\ UNCHANGED <<blocks, job>>
  /\ UNCHANGED <<flag, procs, todo, broken, started, running, triple, bound,
                 foreign, signals>>

StopGone ==
  /\ pc = "stopwait" /\ Inst \notin running
  /\ Cleared
  /\ UNCHANGED <<flag, procs, todo, broken, machine, signals>>

\* Mutant: when the time is up the process is asked again.
StopTermAgain ==
  /\ pc = "stopwait" /\ Inst \in running
  /\ Tell({Inst}, "term")
  /\ UNCHANGED <<orchestrator, started, running, triple, bound, foreign, signals>>

\* It is killed, and not waited for.
StopTimeout ==
  /\ pc = "stopwait" /\ Inst \in running
  /\ Tell({Inst}, "kill")
  /\ Cleared
  /\ UNCHANGED <<flag, procs, todo, broken, started, running, triple, bound,
                 foreign, signals>>

-------------------------------------------------------------------------------
(* stop_all *)

BeginStopAll ==
  /\ flag' = TRUE
  /\ pc' = "collect"
  /\ job' = NoJob

\* The command, the end of the input, or Ctrl-C at the prompt without a handler.
Exit ==
  /\ Idle
  /\ BeginStopAll
  /\ UNCHANGED <<blocks, procs, todo, broken, machine, signals>>

\* The handler calls stop_all and then raises KeyboardInterrupt, which ends the
\* program wherever it was.  If stop_all has begun before, the call returns at
\* once; atexit's call does too.
Signal ==
  /\ pc # "exited" /\ signals < MaxSignals
  /\ signals' = signals + 1
  /\ \/ ~flag /\ BeginStopAll /\ UNCHANGED broken
     \/ flag /\ pc' = "exited" /\ broken' = TRUE /\ UNCHANGED <<flag, job>>
  /\ UNCHANGED <<blocks, procs, todo, machine>>

\* Mutant: only servers that are up are collected.
CollectOnline == { i \in Listed \cap running : Triples[triple[i]] \subseteq Listening }

\* Mutant: empty slots and ended processes are collected too.
CollectSlots == { blocks[b][s] : b \in DOMAIN blocks, s \in Slots }

Collected == Listed \cap running

\* With nothing to stop the slots are left as they are.
Collect ==
  /\ pc = "collect"
  /\ procs' = Collected /\ todo' = Collected
  /\ pc' = IF Collected = {} THEN "exited" ELSE "term"
  /\ UNCHANGED <<blocks, flag, job, broken, machine, signals>>

TermNext ==
  /\ pc = "term"
  /\ \E i \in todo :
       /\ Tell({i}, "term")
       /\ todo' = todo \ {i}
       /\ pc' = IF todo' = {} THEN "grace" ELSE "term"
  /\ UNCHANGED <<blocks, flag, job, procs, broken, started, running, triple,
                 bound, foreign, signals>>

\* All have ended, or the time is up.
Grace ==
  /\ pc = "grace"
  /\ pc' = "kill"
  /\ todo' = procs
  /\ UNCHANGED <<blocks, flag, job, procs, broken, machine, signals>>

KillNext ==
  /\ pc = "kill"
  /\ \E i \in todo :
       /\ Tell({i}, "kill")
       /\ todo' = todo \ {i}
       /\ pc' = IF todo' = {} THEN "clear" ELSE "kill"
  /\ UNCHANGED <<blocks, flag, job, procs, broken, started, running, triple,
                 bound, foreign, signals>>

Clear ==
  /\ pc = "clear"
  /\ blocks' = [b \in DOMAIN blocks |-> [s \in Slots |-> Empty]]
  /\ pc' = "exited"
  /\ UNCHANGED <<flag, job, procs, todo, broken, machine, signals>>

-------------------------------------------------------------------------------
(* the machine *)

\* A server binds one of its ports.
BindPort(i) ==
  /\ i \in running
  /\ \E p \in Triples[triple[i]] \ Listening : bound' = [bound EXCEPT ![i] = @ \cup {p}]
  /\ UNCHANGED <<orchestrator, started, running, triple, told, foreign, signals>>

\* A server ends: it cannot bind, fails, or was told to.
Ends(i) ==
  /\ i \in running
  /\ running' = running \ {i}
  /\ bound' = [bound EXCEPT ![i] = {}]
  /\ told' = [told EXCEPT ![i] = "none"]
  /\ UNCHANGED <<orchestrator, started, triple, foreign, signals>>

ForeignBinds ==
  /\ Cardinality(foreign) < MaxForeign
  /\ \E p \in Ports \ Listening : foreign' = foreign \cup {p}
  /\ UNCHANGED <<orchestrator, started, running, triple, bound, told, signals>>

ForeignCloses ==
  /\ foreign # {}
  /\ \E p \in foreign : foreign' = foreign \ {p}
  /\ UNCHANGED <<orchestrator, started, running, triple, bound, told, signals>>

\* What the orchestrator does by itself.
Step ==
  \/ NextBlock \/ Pick \/ BlockDone \/ NoTriple \/ StartFails \/ Popen \/ Enter
  \/ Waited
  \/ StopNext \/ StopGone \/ StopTimeout
  \/ Collect \/ TermNext \/ Grace \/ KillNext \/ Clear

Command ==
  \/ StartServer
  \/ \E n \in 1..MaxStarts : StartBlocks(n)
  \/ \E b \in DOMAIN blocks : StopBlock(b) \/ \E s \in Slots : StopServer(b, s)
  \/ Exit

Machine ==
  \/ \E i \in Servers : BindPort(i) \/ Ends(i)
  \/ ForeignBinds \/ ForeignCloses

\* The bound: nothing of interest happens on the machine after the end.
Next == Command \/ Step \/ Signal \/ (pc # "exited" /\ Machine)

Spec == Init /\ [][Next]_vars

\* A thread that is not blocked goes on, and every wait of it has a deadline.
\* Nothing is assumed of the servers.
FairSpec == Spec /\ WF_vars(Step)

-------------------------------------------------------------------------------
Places == {"prompt", "block", "pick", "start", "started", "wait", "stop", "stopwait",
           "collect", "term", "grace", "kill", "clear", "exited"}

TypeOK ==
  /\ pc \in Places
  /\ blocks \in Seq([Slots -> Servers \cup {Empty}])
  /\ flag \in BOOLEAN
  /\ procs \subseteq Servers /\ todo \subseteq procs
  /\ started \in 0..MaxStarts
  /\ running \subseteq 1..started
  /\ triple \in [Servers -> Nat] /\ \A i \in 1..started : triple[i] \in DOMAIN Triples
  /\ bound \in [Servers -> SUBSET Ports]
  /\ told \in [Servers -> {"none", "term", "kill"}]
  /\ foreign \subseteq Ports
  /\ broken \in BOOLEAN

\* Two servers are never given the same port: a triple is free only when the
\* server that was given it has ended, whether it ever listened or not.  A server
\* that was killed may live on for as long as the machine takes.
OneServerPerPort ==
  \A i, j \in running :
    i # j /\ told[i] # "kill" /\ told[j] # "kill" =>
      Triples[triple[i]] \cap Triples[triple[j]] = {}

\* A server keeps its slot until it is stopped: no start replaces another.
RunningIsListed ==
  pc # "exited" =>
    \A i \in running : told[i] # "kill" =>
      i \in Listed \/ (i = started /\ (pc = "started" \/ flag))

\* However the program ends, a server that runs on without having been told to
\* stop is the last one started, which a signal kept out of its slot, or one that
\* stop_all had not yet come to when a second signal interrupted it: before it
\* had its list of processes, or with this one still to be told.
LeavesOnlyTheUnlisted ==
  pc = "exited" =>
    \A i \in running : told[i] = "none" =>
      \/ i = started /\ i \notin Listed
      \/ broken /\ (procs = {} \/ i \in todo)

\* While the program runs every server is kept, and when it ends those two are all
\* the ways to be left behind.  (Both are open: see NoOrphans.)
LosesNoServer == RunningIsListed /\ LeavesOnlyTheUnlisted

\* Every command comes to its end: back at the prompt or, after exit or a signal,
\* at the end of the program.
CommandsEnd ==
  /\ pc # "prompt" ~> pc \in {"prompt", "exited"}
  /\ flag ~> pc = "exited"

-------------------------------------------------------------------------------
(* What the installation guide says and the code does not do. *)

\* INSTALL.md:197 "Clean process group management (no orphan processes on exit /
\* Ctrl+C)", and signal_handlers.py:8 "stop all servers before exiting.": of the
\* servers that run on after the program none is left that was not told to stop.
NoOrphans == pc = "exited" => \A i \in running : told[i] # "none"
===============================================================================
