------------------------- MODULE Orchestrator_proofs -------------------------
(***************************************************************************)
(* Proofs about Orchestrator, for any port triples, size of block, number  *)
(* of processes, of foreign ports and of signals.                          *)
(*                                                                         *)
(* OneServerPerPort rests on the slots: a triple is chosen against the     *)
(* processes that are in a slot, so no process may run outside of one.     *)
(* That in turn needs every process to be in one slot only, which is what  *)
(* empties it, and the processes that were killed to be in none.           *)
(***************************************************************************)
EXTENDS Orchestrator, FiniteSetTheorems, SequenceTheorems, TLAPS

Ending  == {"collect", "term", "grace", "kill", "clear", "exited"}
Holder  == Servers \cup {Empty}
Block   == [Slots -> Holder]

Jobs ==
  [kind : {"none", "server", "block", "stop"}, block : Nat, slot : Nat,
   triple : Nat, batch : SUBSET Ports, more : Int, slots : Seq(Slots)]

\* What the command that runs may rely on.
JobPlace ==
  /\ pc = "pick" /\ job.kind = "block" => job.block \in DOMAIN blocks
  /\ pc \in {"start", "started", "wait"} =>
       job.block \in DOMAIN blocks /\ job.slot \in Slots /\ job.triple \in DOMAIN Triples
  /\ pc \in {"start", "started"} => blocks[job.block][job.slot] = Empty
  /\ pc \in {"stop", "stopwait"} => job.block \in DOMAIN blocks
  /\ pc = "stopwait" => job.slots # <<>>

Flagged == flag <=> pc \in Ending

\* A process is in one slot at most.
SlotsDistinct ==
  \A b, c \in DOMAIN blocks, s, t \in Slots :
    blocks[b][s] = blocks[c][t] /\ blocks[b][s] # Empty => b = c /\ s = t

Numbered ==
  /\ Listed \subseteq 1..started
  /\ pc = "started" => started \in Servers /\ started \notin Listed /\ told[started] = "none"
  /\ \A i \in Servers : told[i] # "none" => i \in running

FreeTriple ==
  pc = "start" =>
    \A i \in running : told[i] # "kill" => Triples[job.triple] \cap Triples[triple[i]] = {}

KilledIsUnlisted ==
  pc \notin {"kill", "clear", "exited"} => \A i \in running : told[i] = "kill" => i \notin Listed

\* Whom stop_all has not told yet; it has no list of processes before it begins.
Unlisted(i) == i = started /\ i \notin Listed
Telling ==
  /\ pc \notin Ending \/ pc = "collect" => procs = {}
  /\ pc = "term" => todo \subseteq Listed
  /\ pc = "term" => \A i \in running : told[i] = "none" => i \in todo \/ Unlisted(i)
  /\ pc \in {"grace", "kill", "clear"} => \A i \in running : told[i] = "none" => Unlisted(i)

Types == TypeOK /\ job \in Jobs /\ JobPlace /\ Flagged
Inv ==
  /\ Types /\ SlotsDistinct /\ Numbered /\ FreeTriple /\ KilledIsUnlisted /\ Telling
  /\ OneServerPerPort /\ LosesNoServer

-------------------------------------------------------------------------------
(* The least of a set of numbers. *)

LEMMA FirstFacts == ASSUME NEW S \in SUBSET Nat, S # {} PROVE First(S) \in S
<1>1. PICK x \in S : \A y \in S : ~(<<y, x>> \in OpToRel(<, Nat))
  BY NatLessThanWellFounded, WFMin
<1>2. OpToRel(<, Nat) = {ss \in Nat \X Nat : ss[1] < ss[2]}
  BY Zenon DEF OpToRel
<1> DEFINE R == OpToRel(<, Nat)
<1>3. R = {ss \in Nat \X Nat : ss[1] < ss[2]} /\ \A y \in S : ~(<<y, x>> \in R)
  BY <1>1, <1>2
<1> HIDE DEF R
<1>4. \A y \in S : x <= y
  <2> SUFFICES ASSUME NEW y \in S PROVE x <= y
    OBVIOUS
  <2>1. x \in Nat /\ y \in Nat
    OBVIOUS
  <2>2. y < x => <<y, x>> \in {ss \in Nat \X Nat : ss[1] < ss[2]}
    BY <2>1
  <2>3. ~(y < x)
    BY <1>3, <2>2
  <2> QED BY <2>1, <2>3
<1>5. \E z \in S : \A y \in S : z <= y
  BY <1>4
<1> QED BY <1>5 DEF First

(* The blocks. *)

LEMMA SlotFacts ==
  ASSUME NEW bs \in Seq(Block), NEW b \in DOMAIN bs, NEW s \in Slots, NEW v \in Holder
  PROVE  LET cs == [bs EXCEPT ![b][s] = v]
         IN  /\ cs \in Seq(Block) /\ DOMAIN cs = DOMAIN bs
             /\ \A c \in DOMAIN bs, t \in Slots :
                  cs[c][t] = IF c = b /\ t = s THEN v ELSE bs[c][t]
<1> DEFINE cs == [bs EXCEPT ![b][s] = v]
<1>1. bs[b] \in Block /\ bs \in [1..Len(bs) -> Block] /\ DOMAIN bs = 1..Len(bs)
  BY LenProperties, ElementOfSeq
<1>2. [bs[b] EXCEPT ![s] = v] \in Block
  BY <1>1 DEF Block
<1>3. cs \in Seq(Block)
  BY <1>1, <1>2, ExceptSeq
<1>4. DOMAIN cs = DOMAIN bs
  BY <1>1
<1>5. \A c \in DOMAIN bs : cs[c] = IF c = b THEN [bs[b] EXCEPT ![s] = v] ELSE bs[c]
  BY <1>1
<1>6. \A t \in Slots : [bs[b] EXCEPT ![s] = v][t] = IF t = s THEN v ELSE bs[b][t]
  BY <1>1 DEF Block
<1>7. \A c \in DOMAIN bs, t \in Slots : cs[c][t] = IF c = b /\ t = s THEN v ELSE bs[c][t]
  BY <1>5, <1>6
<1> QED BY <1>3, <1>4, <1>7

LEMMA FreeFacts ==
  ASSUME NEW bs \in Seq(Block)
  PROVE  /\ \A b : FreeSlots(bs, b) \in SUBSET Nat /\ FreeSlots(bs, b) \subseteq Slots
         /\ FreeBlocks(bs) \in SUBSET Nat
         /\ FreeBlocks(bs) # {} => /\ First(FreeBlocks(bs)) \in DOMAIN bs
                                   /\ FreeSlots(bs, First(FreeBlocks(bs))) # {}
         /\ \A b : FreeSlots(bs, b) # {} =>
              First(FreeSlots(bs, b)) \in Slots /\ bs[b][First(FreeSlots(bs, b))] = Empty
<1>1. DOMAIN bs \subseteq Nat /\ Slots \subseteq Nat
  BY LenProperties, OrchestratorAssumption DEF Slots
<1>2. \A b : FreeSlots(bs, b) \in SUBSET Nat /\ FreeSlots(bs, b) \subseteq Slots
  BY <1>1 DEF FreeSlots
<1>3. FreeBlocks(bs) \in SUBSET Nat
  BY <1>1 DEF FreeBlocks
<1>4. ASSUME FreeBlocks(bs) # {}
      PROVE  First(FreeBlocks(bs)) \in DOMAIN bs /\ FreeSlots(bs, First(FreeBlocks(bs))) # {}
  <2>1. First(FreeBlocks(bs)) \in FreeBlocks(bs)
    BY <1>3, <1>4, FirstFacts
  <2> QED BY <2>1 DEF FreeBlocks
<1>5. ASSUME NEW b, FreeSlots(bs, b) # {}
      PROVE  First(FreeSlots(bs, b)) \in Slots /\ bs[b][First(FreeSlots(bs, b))] = Empty
  <2>1. First(FreeSlots(bs, b)) \in FreeSlots(bs, b)
    BY <1>2, <1>5, FirstFacts
  <2> QED BY <2>1 DEF FreeSlots
<1> QED BY <1>2, <1>3, <1>4, <1>5

LEMMA RoomFacts ==
  ASSUME NEW bs \in Seq(Block)
  PROVE  LET cs == WithRoom(bs)
         IN  /\ cs \in Seq(Block) /\ FreeBlocks(cs) # {}
             /\ DOMAIN bs \subseteq DOMAIN cs
             /\ \A b \in DOMAIN bs : cs[b] = bs[b]
             /\ \A b \in DOMAIN cs \ DOMAIN bs, s \in Slots : cs[b][s] = Empty
<1> DEFINE new == [s \in Slots |-> Empty]
           cs == WithRoom(bs)
<1>1. CASE FreeBlocks(bs) # {}
  BY <1>1 DEF WithRoom
<1>2. CASE FreeBlocks(bs) = {}
  <2>1. new \in Block
    BY DEF Block, Holder
  <2>2. cs = Append(bs, new)
    BY <1>2 DEF WithRoom
  <2>3. /\ cs \in Seq(Block) /\ Len(cs) = Len(bs) + 1
        /\ \A i \in 1..Len(bs) : cs[i] = bs[i]
        /\ cs[Len(bs) + 1] = new
    BY <2>1, <2>2, AppendProperties
  <2>4. Len(bs) \in Nat /\ DOMAIN bs = 1..Len(bs) /\ DOMAIN cs = 1..(Len(bs) + 1)
    BY <2>3, LenProperties
  <2> HIDE DEF cs
  <2>5. \A s \in Slots : cs[Len(bs) + 1][s] = Empty
    BY <2>3
  <2>6. DOMAIN cs \ DOMAIN bs = {Len(bs) + 1} /\ DOMAIN bs \subseteq DOMAIN cs
    BY <2>4
  <2>7. 1 \in Slots
    BY OrchestratorAssumption DEF Slots
  <2>8. FreeBlocks(cs) # {}
    BY <2>5, <2>6, <2>7 DEF FreeBlocks, FreeSlots
  <2>9. \A b \in DOMAIN bs : cs[b] = bs[b]
    BY <2>3, <2>4
  <2>10. \A b \in DOMAIN cs \ DOMAIN bs, s \in Slots : cs[b][s] = Empty
    BY <2>5, <2>6
  <2> QED BY <2>3, <2>6, <2>8, <2>9, <2>10 DEF cs
<1> QED BY <1>1, <1>2

-------------------------------------------------------------------------------
(* Types, and what a command may rely on. *)

LEMMA BlocksType == TypeOK => blocks \in Seq(Block) /\ DOMAIN blocks \subseteq Nat
<1> SUFFICES ASSUME TypeOK PROVE blocks \in Seq(Block) /\ DOMAIN blocks \subseteq Nat
  OBVIOUS
<1>1. blocks \in Seq(Block)
  BY DEF TypeOK, Block, Holder
<1> QED BY <1>1, LenProperties

LEMMA TripleFacts ==
  /\ DOMAIN Triples \subseteq Nat
  /\ \A t \in DOMAIN Triples : Triples[t] \in SUBSET Ports
<1>1. DOMAIN Triples \subseteq Nat
  BY OrchestratorAssumption, LenProperties
<1>2. \A t \in DOMAIN Triples : Triples[t] \in SUBSET Ports
  BY DEF Ports
<1> QED BY <1>1, <1>2

LEMMA NoJobType == NoJob \in Jobs
<1>1. <<>> \in Seq(Slots)
  OBVIOUS
<1> QED BY <1>1 DEF NoJob, Jobs

LEMMA PossibleType == PossibleBlocks \in Int
<1> DEFINE S == { t \in DOMAIN Triples : Triples[t] \cap Reserved = {} }
<1>1. Len(Triples) \in Int /\ DOMAIN Triples = 1..Len(Triples)
  BY OrchestratorAssumption, LenProperties
<1>2. IsFiniteSet(DOMAIN Triples)
  BY <1>1, FS_Interval
<1>3. Cardinality(S) \in Nat
  BY <1>2, FS_Subset, FS_CardinalityType
<1> HIDE DEF S
<1>4. Cardinality(S) \div BlockSize \in Int
  BY <1>3, OrchestratorAssumption
<1> QED BY <1>4 DEF PossibleBlocks, S

LEMMA InitTypes == Init => Types
<1> SUFFICES ASSUME Init PROVE Types
  OBVIOUS
<1>1. started \in 0..MaxStarts /\ running \subseteq 1..started /\ 1..started = {}
  BY OrchestratorAssumption DEF Init
<1>2. blocks \in Seq([Slots -> Servers \cup {Empty}])
  BY DEF Init
<1>3. TypeOK
  BY <1>1, <1>2 DEF Init, TypeOK, Places
<1>4. JobPlace /\ Flagged
  BY DEF Init, JobPlace, Flagged, Ending
<1> QED BY <1>3, <1>4, NoJobType DEF Init, Types

\* Steps that change where the orchestrator is and what its command remembers.
LEMMA PlainTypes ==
  ASSUME Types, pc' \in Places, job' \in Jobs, blocks' \in Seq(Block), JobPlace',
         pc \notin Ending, pc' \notin Ending,
         UNCHANGED <<flag, procs, todo, broken, machine>>
  PROVE  Types'
<1>1. blocks' \in Seq([Slots -> Servers \cup {Empty}])
  BY DEF Block, Holder
<1>2. TypeOK'
  BY <1>1 DEF Types, TypeOK, machine
<1>3. Flagged'
  BY DEF Types, Flagged
<1> QED BY <1>2, <1>3 DEF Types

LEMMA CommandTypes ==
  ASSUME Types, StartServer \/ (\E n \in 1..MaxStarts : StartBlocks(n))
                \/ (\E b \in DOMAIN blocks : StopBlock(b) \/ \E s \in Slots : StopServer(b, s))
  PROVE  /\ Types' /\ pc = "prompt" /\ pc' \in {"pick", "block", "stop"}
         /\ UNCHANGED <<blocks, procs, broken, machine>>
<1>1. blocks \in Seq(Block)
  BY BlocksType DEF Types
<1>2. CASE StartServer
  <2>1. job' \in Jobs /\ job'.kind = "server"
    BY <1>2, NoJobType DEF StartServer, Jobs
  <2>2. /\ pc = "prompt" /\ pc' = "pick"
        /\ UNCHANGED <<blocks, flag, procs, todo, broken, machine>>
    BY <1>2 DEF StartServer, Idle
  <2>3. JobPlace'
    BY <2>1, <2>2 DEF JobPlace
  <2> QED BY <1>1, <2>1, <2>2, <2>3, PlainTypes DEF Places, Ending
<1>3. ASSUME NEW n \in 1..MaxStarts, StartBlocks(n) PROVE Types' /\ pc = "prompt" /\ pc' = "block"
                                                          /\ UNCHANGED <<blocks, procs, broken, machine>>
  <2>1. n \in Int /\ 1 \in Int
    BY OrchestratorAssumption
  <2>2. job' \in Jobs
    <3>1. ASSUME NEW m \in Int, job' = [NoJob EXCEPT !.kind = "block", !.more = m]
          PROVE  job' \in Jobs
      BY <3>1, NoJobType DEF Jobs
    <3> QED BY <1>3, <2>1, <3>1, PossibleType DEF StartBlocks
  <2>3. /\ pc = "prompt" /\ pc' = "block"
        /\ UNCHANGED <<blocks, flag, procs, todo, broken, machine>>
    BY <1>3 DEF StartBlocks, Idle
  <2>4. JobPlace'
    BY <2>3 DEF JobPlace
  <2> QED BY <1>1, <2>2, <2>3, <2>4, PlainTypes DEF Places, Ending
<1>4. ASSUME NEW b \in DOMAIN blocks, NEW slots \in Seq(Slots), pc = "prompt", Stop(b, slots)
      PROVE  Types' /\ pc' = "stop" /\ UNCHANGED <<blocks, procs, broken, machine>>
  <2>1. b \in Nat
    BY BlocksType DEF Types
  <2>2. job' \in Jobs /\ job'.block = b
    BY <1>4, <2>1, NoJobType DEF Stop, Jobs
  <2>3. pc' = "stop" /\ UNCHANGED <<blocks, flag, procs, todo, broken, machine>>
    BY <1>4 DEF Stop
  <2>4. JobPlace'
    BY <2>2, <2>3 DEF JobPlace
  <2> QED BY <1>1, <1>4, <2>2, <2>3, <2>4, PlainTypes DEF Places, Ending
<1>5. ASSUME NEW b \in DOMAIN blocks, StopBlock(b)
      PROVE  Types' /\ pc = "prompt" /\ pc' = "stop" /\ UNCHANGED <<blocks, procs, broken, machine>>
  <2>1. [s \in Slots |-> s] \in Seq(Slots)
    <3>1. BlockSize \in Nat
      BY OrchestratorAssumption
    <3> QED BY <3>1 DEF Slots
  <2> QED BY <1>4, <1>5, <2>1 DEF StopBlock, Idle
<1>6. ASSUME NEW b \in DOMAIN blocks, NEW s \in Slots, StopServer(b, s)
      PROVE  Types' /\ pc = "prompt" /\ pc' = "stop" /\ UNCHANGED <<blocks, procs, broken, machine>>
  <2>1. <<s>> \in Seq(Slots)
    OBVIOUS
  <2> QED BY <1>4, <1>6, <2>1 DEF StopServer, Idle
<1> QED BY <1>2, <1>3, <1>5, <1>6

\* A block that is made holds nobody.
LEMMA RoomListed ==
  ASSUME blocks \in Seq(Block), blocks' = WithRoom(blocks)
  PROVE  Listed' = Listed /\ (SlotsDistinct => SlotsDistinct')
<1>1. /\ DOMAIN blocks \subseteq DOMAIN blocks'
      /\ \A b \in DOMAIN blocks : blocks'[b] = blocks[b]
      /\ \A b \in DOMAIN blocks' \ DOMAIN blocks, s \in Slots : blocks'[b][s] = Empty
  BY RoomFacts
<1>2. Listed \subseteq Listed'
  BY <1>1 DEF Listed
<1>3. ASSUME NEW i \in Listed' PROVE i \in Listed
  <2>1. PICK b \in DOMAIN blocks', s \in Slots : i = blocks'[b][s] /\ i # Empty
    BY <1>3 DEF Listed
  <2>2. b \in DOMAIN blocks /\ i = blocks[b][s]
    BY <1>1, <2>1
  <2> QED BY <2>1, <2>2 DEF Listed
<1>4. SlotsDistinct => SlotsDistinct'
  <2> SUFFICES ASSUME SlotsDistinct,
                      NEW b \in DOMAIN blocks', NEW c \in DOMAIN blocks',
                      NEW s \in Slots, NEW t \in Slots,
                      blocks'[b][s] = blocks'[c][t], blocks'[b][s] # Empty
               PROVE  b = c /\ s = t
    BY DEF SlotsDistinct
  <2>1. b \in DOMAIN blocks /\ c \in DOMAIN blocks
    BY <1>1
  <2>2. blocks[b][s] = blocks[c][t] /\ blocks[b][s] # Empty
    BY <1>1, <2>1
  <2> QED BY <2>1, <2>2 DEF SlotsDistinct
<1> QED BY <1>2, <1>3, <1>4

\* Steps that start no process, and leave the slots as they are but for a block
\* that is made.
Preparing ==
  /\ Types' /\ pc \in {"block", "pick", "start", "wait"}
  /\ pc' \in {"prompt", "block", "pick", "start"}
  /\ Listed' = Listed /\ (SlotsDistinct => SlotsDistinct')
  /\ UNCHANGED <<procs, broken, machine>>

LEMMA SameSlots == UNCHANGED blocks => Listed' = Listed /\ (SlotsDistinct => SlotsDistinct')
BY DEF Listed, SlotsDistinct

LEMMA RaiseTypes ==
  ASSUME Types, pc \in {"pick", "start"}, Raise PROVE Preparing
<1>1. /\ pc' = "prompt" /\ job' = NoJob
      /\ UNCHANGED <<blocks, flag, procs, todo, broken, machine>>
  BY DEF Raise
<1>2. JobPlace'
  BY <1>1 DEF JobPlace
<1>3. blocks' \in Seq(Block)
  BY <1>1, BlocksType DEF Types
<1> QED BY <1>1, <1>2, <1>3, NoJobType, PlainTypes, SameSlots DEF Preparing, Places, Ending

LEMMA PassTypes == ASSUME Types, BlockDone \/ Waited PROVE Preparing
<1>1. blocks' = blocks /\ blocks' \in Seq(Block) /\ UNCHANGED <<flag, procs, todo, broken, machine>>
  BY BlocksType DEF Types, BlockDone, Waited
<1>2. job' \in Jobs
  BY NoJobType DEF Types, BlockDone, Waited
<1>3. CASE BlockDone
  <2>1. pc = "pick" /\ pc' = "block"
    BY <1>3 DEF BlockDone
  <2>2. JobPlace'
    BY <2>1 DEF JobPlace
  <2> QED BY <1>1, <1>2, <2>1, <2>2, PlainTypes, SameSlots DEF Preparing, Places, Ending
<1>4. CASE Waited /\ job.kind = "block"
  <2>1. pc = "wait" /\ pc' = "pick" /\ job' = job
    BY <1>4 DEF Waited
  <2>2. JobPlace'
    BY <1>1, <2>1 DEF JobPlace, Types
  <2> QED BY <1>1, <1>2, <2>1, <2>2, PlainTypes, SameSlots DEF Preparing, Places, Ending
<1>5. CASE Waited /\ job.kind # "block"
  <2>1. pc = "wait" /\ pc' = "prompt"
    BY <1>5 DEF Waited
  <2>2. JobPlace'
    BY <2>1 DEF JobPlace
  <2> QED BY <1>1, <1>2, <2>1, <2>2, PlainTypes, SameSlots DEF Preparing, Places, Ending
<1> QED BY <1>3, <1>4, <1>5

LEMMA NextBlockTypes == ASSUME Types, NextBlock PROVE Preparing
<1>1. pc = "block" /\ UNCHANGED <<flag, procs, todo, broken, machine>> /\ blocks \in Seq(Block)
  BY BlocksType DEF Types, NextBlock
<1>2. CASE job.more = 0
  <2>1. pc' = "prompt" /\ job' = NoJob /\ blocks' = blocks
    BY <1>2 DEF NextBlock
  <2>2. JobPlace'
    BY <2>1 DEF JobPlace
  <2> QED BY <1>1, <2>1, <2>2, NoJobType, PlainTypes, SameSlots DEF Preparing, Places, Ending
<1>3. CASE job.more # 0
  <2>1. /\ pc' = "pick" /\ blocks' = WithRoom(blocks)
        /\ job' = [job EXCEPT !.block = First(FreeBlocks(blocks')), !.batch = {}, !.more = @ - 1]
    BY <1>3 DEF NextBlock
  <2>2. blocks' \in Seq(Block) /\ FreeBlocks(blocks') # {}
    BY <1>1, <2>1, RoomFacts
  <2>3. First(FreeBlocks(blocks')) \in DOMAIN blocks' /\ DOMAIN blocks' \subseteq Nat
    BY <2>2, FreeFacts, LenProperties
  <2>4. job' \in Jobs /\ job'.block = First(FreeBlocks(blocks'))
    <3>1. PICK b \in Nat : b = First(FreeBlocks(blocks'))
      BY <2>3
    <3>2. job \in Jobs /\ job.more - 1 \in Int /\ {} \in SUBSET Ports
      BY DEF Types, Jobs
    <3>3. job' = [job EXCEPT !.block = b, !.batch = {}, !.more = job.more - 1]
      BY <2>1, <3>1
    <3>4. job' \in Jobs
      BY <3>2, <3>3 DEF Jobs
    <3>5. job'.block = b
      BY <3>2, <3>3 DEF Jobs
    <3> QED BY <3>1, <3>4, <3>5
  <2>5. JobPlace'
    BY <2>1, <2>3, <2>4 DEF JobPlace
  <2>6. Listed' = Listed /\ (SlotsDistinct => SlotsDistinct')
    BY <1>1, <2>1, RoomListed
  <2> QED BY <1>1, <2>1, <2>2, <2>4, <2>5, <2>6, PlainTypes DEF Preparing, Places, Ending
<1> QED BY <1>2, <1>3

\* What is picked is in none of the triples that are reserved.
LEMMA PickTypes ==
  ASSUME Types, Pick
  PROVE  /\ Preparing /\ pc = "pick" /\ pc' = "start"
         /\ Triples[job'.triple] \cap Reserved = {}
<1> DEFINE t  == First(Available(job.batch))
           bs == IF job.kind = "block" THEN blocks ELSE WithRoom(blocks)
           b  == IF job.kind = "block" THEN job.block ELSE First(FreeBlocks(bs))
           s  == First(FreeSlots(bs, b))
<1>1. /\ pc = "pick" /\ pc' = "start" /\ blocks \in Seq(Block)
      /\ job.kind = "block" => FreeSlots(blocks, job.block) # {}
      /\ Available(job.batch) # {}
      /\ blocks' = bs
      /\ UNCHANGED <<flag, procs, todo, broken, machine>>
  BY BlocksType DEF Types, Pick
<1>2. t \in DOMAIN Triples /\ Triples[t] \cap Reserved = {}
  <2>1. Available(job.batch) \in SUBSET Nat
    BY TripleFacts DEF Available
  <2>2. t \in Available(job.batch)
    BY <1>1, <2>1, FirstFacts
  <2> QED BY <2>2 DEF Available
<1>3. bs \in Seq(Block)
  BY <1>1, RoomFacts
<1>4. b \in DOMAIN bs /\ FreeSlots(bs, b) # {}
  <2>1. CASE job.kind = "block"
    BY <1>1, <2>1 DEF Types, JobPlace
  <2>2. CASE job.kind # "block"
    <3>1. bs \in Seq(Block) /\ FreeBlocks(bs) # {}
      BY <1>1, <2>2, RoomFacts
    <3> QED BY <2>2, <3>1, FreeFacts
  <2> QED BY <2>1, <2>2
<1>5. s \in Slots /\ bs[b][s] = Empty
  BY <1>3, <1>4, FreeFacts
<1>6. t \in Nat /\ b \in Nat /\ s \in Nat
  BY <1>2, <1>3, <1>4, <1>5, TripleFacts, LenProperties, OrchestratorAssumption DEF Slots
<1>7. job' = [job EXCEPT !.triple = t, !.block = b, !.slot = s,
                         !.batch = IF job.kind = "block" THEN @ \cup Triples[t] ELSE @]
  BY DEF Pick
<1>8. Listed' = Listed /\ (SlotsDistinct => SlotsDistinct')
  <2>1. CASE job.kind = "block"
    BY <1>1, <2>1, SameSlots
  <2>2. CASE job.kind # "block"
    BY <1>1, <2>2, RoomListed
  <2> QED BY <2>1, <2>2
<1> HIDE DEF t, bs, b, s
<1>9. job' \in Jobs /\ job'.triple = t /\ job'.block = b /\ job'.slot = s
  <2>1. job.batch \cup Triples[t] \in SUBSET Ports
    BY <1>2, TripleFacts DEF Types, Jobs
  <2> QED BY <1>6, <1>7, <2>1 DEF Types, Jobs
<1>10. JobPlace'
  BY <1>1, <1>2, <1>4, <1>5, <1>9 DEF JobPlace
<1>11. Types'
  BY <1>1, <1>3, <1>9, <1>10, PlainTypes DEF Places, Ending
<1> QED BY <1>1, <1>2, <1>8, <1>9, <1>11 DEF Preparing

-------------------------------------------------------------------------------
(* Starting. *)

\* Before a server is started all that run, and were not killed, are in a slot.
LEMMA AllListed ==
  ASSUME Inv, pc \notin Ending, pc # "started"
  PROVE  \A i \in running : told[i] # "kill" => i \in Listed
<1>1. ~flag /\ pc # "exited"
  BY DEF Inv, Types, Flagged, Ending
<1> QED BY <1>1 DEF Inv, LosesNoServer, RunningIsListed

\* Steps after which the same servers are in the slots and on the machine.
LEMMA SameServers ==
  ASSUME Inv, Types', SlotsDistinct', FreeTriple', Listed' = Listed,
         UNCHANGED <<procs, started, running, triple, told>>,
         pc \notin Ending, pc # "started", pc' \notin Ending, pc' # "started"
  PROVE  Inv'
<1>1. \A i \in running : told[i] # "kill" => i \in Listed
  BY AllListed
<1>2. Numbered' /\ KilledIsUnlisted'
  BY DEF Inv, Numbered, KilledIsUnlisted, Ending
<1>3. Telling'
  BY DEF Inv, Telling, Ending
<1>4. OneServerPerPort'
  BY DEF Inv, OneServerPerPort
<1>5. LosesNoServer'
  BY <1>1 DEF LosesNoServer, RunningIsListed, LeavesOnlyTheUnlisted, Ending
<1> QED BY <1>2, <1>3, <1>4, <1>5 DEF Inv

LEMMA CommandInv ==
  ASSUME Inv, StartServer \/ (\E n \in 1..MaxStarts : StartBlocks(n))
              \/ (\E b \in DOMAIN blocks : StopBlock(b) \/ \E s \in Slots : StopServer(b, s))
  PROVE  Inv'
<1>1. /\ Types' /\ pc = "prompt" /\ pc' \in {"pick", "block", "stop"}
      /\ UNCHANGED <<blocks, procs, broken, machine>>
  BY CommandTypes DEF Inv
<1>2. FreeTriple'
  BY <1>1 DEF FreeTriple
<1> QED BY <1>1, <1>2, SameSlots, SameServers DEF Inv, Ending, machine

LEMMA PrepareInv ==
  ASSUME Inv, NextBlock \/ Pick \/ BlockDone \/ NoTriple \/ StartFails \/ Waited
  PROVE  Inv'
<1>1. CASE Pick
  <2>1. /\ Preparing /\ pc = "pick" /\ pc' = "start"
        /\ Triples[job'.triple] \cap Reserved = {}
    BY <1>1, PickTypes DEF Inv
  <2>2. \A i \in running : told[i] # "kill" => Triples[triple[i]] \subseteq Reserved
    BY <2>1, AllListed DEF Reserved, Ending
  <2>3. FreeTriple'
    BY <2>1, <2>2 DEF FreeTriple, Preparing, machine
  <2> QED BY <2>1, <2>3, SameServers DEF Preparing, Inv, Ending, machine
<1>2. CASE NextBlock \/ BlockDone \/ NoTriple \/ StartFails \/ Waited
  <2>1. Preparing
    BY <1>2, NextBlockTypes, PassTypes, RaiseTypes DEF Inv, NoTriple, StartFails
  <2>2. pc' # "start"
    BY <1>2 DEF NextBlock, BlockDone, NoTriple, StartFails, Raise, Waited
  <2>3. FreeTriple'
    BY <2>2 DEF FreeTriple
  <2> QED BY <2>1, <2>3, SameServers DEF Preparing, Inv, Ending, machine
<1> QED BY <1>1, <1>2

LEMMA PopenTypes == ASSUME Types, Popen PROVE Types'
<1>1. /\ pc = "start" /\ pc' = "started" /\ started' = started + 1
      /\ running' = running \cup {started'}
      /\ triple' = [triple EXCEPT ![started'] = job.triple]
      /\ UNCHANGED <<blocks, flag, job, procs, todo, broken, bound, told, foreign, signals>>
  BY DEF Popen
<1>2. started \in Nat /\ started' \in 1..MaxStarts /\ 1..started' = (1..started) \cup {started'}
  BY <1>1, OrchestratorAssumption DEF Popen, Types, TypeOK
<1>3. job.triple \in DOMAIN Triples /\ job.triple \in Nat
  BY <1>1, TripleFacts DEF Types, JobPlace
<1>4. /\ triple' \in [Servers -> Nat]
      /\ \A i \in Servers : triple'[i] = IF i = started' THEN job.triple ELSE triple[i]
  BY <1>1, <1>2, <1>3 DEF Types, TypeOK, Servers
<1>5. \A i \in 1..started' : triple'[i] \in DOMAIN Triples
  <2>1. \A i \in 1..started : triple[i] \in DOMAIN Triples
    BY DEF Types, TypeOK
  <2>2. 1..started' \subseteq Servers
    BY <1>2, OrchestratorAssumption DEF Servers
  <2> QED BY <1>2, <1>3, <1>4, <2>1, <2>2
<1>6. started' \in 0..MaxStarts /\ running' \subseteq 1..started'
  BY <1>1, <1>2, OrchestratorAssumption DEF Types, TypeOK
<1>7. TypeOK'
  BY <1>1, <1>4, <1>5, <1>6 DEF Types, TypeOK, Places
<1>8. JobPlace' /\ Flagged'
  BY <1>1 DEF Types, JobPlace, Flagged, Ending
<1> QED BY <1>1, <1>7, <1>8 DEF Types

LEMMA PopenInv == ASSUME Inv, Popen PROVE Inv'
<1>1. /\ pc = "start" /\ pc' = "started" /\ started' = started + 1
      /\ running' = running \cup {started'}
      /\ triple' = [triple EXCEPT ![started'] = job.triple]
      /\ UNCHANGED <<blocks, job, procs, told>>
  BY DEF Popen
<1>2. Types' /\ Listed' = Listed /\ SlotsDistinct'
  BY <1>1, PopenTypes, SameSlots DEF Inv
<1>3. /\ started \in Nat /\ started' \in Servers /\ started' \notin 1..started
      /\ 1..started \subseteq 1..started' /\ running \subseteq 1..started
      /\ 1..started \subseteq Servers
  BY <1>1, OrchestratorAssumption DEF Popen, Inv, Types, TypeOK, Servers
<1>4. /\ triple \in [Servers -> Nat] /\ triple'[started'] = job.triple
      /\ \A i \in running : triple'[i] = triple[i]
  BY <1>1, <1>3 DEF Inv, Types, TypeOK
<1>5. \A i \in running : told[i] # "kill" =>
        i \in Listed /\ Triples[job.triple] \cap Triples[triple[i]] = {}
  BY <1>1, AllListed DEF Inv, FreeTriple, Ending
<1>6. OneServerPerPort'
  <2> SUFFICES ASSUME NEW i \in running', NEW j \in running', i # j,
                      told[i] # "kill", told[j] # "kill"
               PROVE  Triples[triple'[i]] \cap Triples[triple'[j]] = {}
    BY <1>1 DEF OneServerPerPort
  <2>1. CASE i \in running /\ j \in running
    BY <1>4, <2>1 DEF Inv, OneServerPerPort
  <2>2. CASE i = started' /\ j \in running
    BY <1>4, <1>5, <2>2
  <2>3. CASE i \in running /\ j = started'
    BY <1>4, <1>5, <2>3
  <2> QED BY <1>1, <2>1, <2>2, <2>3
<1>7. Numbered'
  <2>1. Listed \subseteq 1..started /\ \A i \in Servers : told[i] # "none" => i \in running
    BY DEF Inv, Numbered
  <2>2. told[started'] = "none"
    BY <1>3, <2>1
  <2> QED BY <1>1, <1>2, <1>3, <2>1, <2>2 DEF Numbered
<1>8. FreeTriple' /\ KilledIsUnlisted' /\ Telling'
  <2>1. FreeTriple' /\ Telling'
    BY <1>1 DEF Inv, FreeTriple, Telling, Ending
  <2>2. told[started'] # "kill"
    BY <1>1, <1>7 DEF Numbered
  <2>3. \A i \in running : told[i] = "kill" => i \notin Listed
    BY <1>1 DEF Inv, KilledIsUnlisted
  <2> QED BY <1>1, <1>2, <2>1, <2>2, <2>3 DEF KilledIsUnlisted
<1>9. LosesNoServer'
  BY <1>1, <1>2, <1>5 DEF LosesNoServer, RunningIsListed, LeavesOnlyTheUnlisted
<1> QED BY <1>2, <1>6, <1>7, <1>8, <1>9 DEF Inv

LEMMA EnterInv == ASSUME Inv, Enter PROVE Inv'
<1>1. /\ pc = "started" /\ pc' = "wait"
      /\ blocks' = [blocks EXCEPT ![job.block][job.slot] = started]
      /\ UNCHANGED <<flag, job, procs, todo, broken, machine, signals>>
  BY DEF Enter
<1>2. /\ blocks \in Seq(Block) /\ job.block \in DOMAIN blocks /\ job.slot \in Slots
      /\ blocks[job.block][job.slot] = Empty
  BY <1>1, BlocksType DEF Inv, Types, JobPlace
<1>3. started \in Servers /\ started \notin Listed /\ told[started] = "none" /\ started # Empty
  BY <1>1, OrchestratorAssumption DEF Inv, Numbered, Servers, Empty
<1>4. /\ blocks' \in Seq(Block) /\ DOMAIN blocks' = DOMAIN blocks
      /\ \A c \in DOMAIN blocks, t \in Slots :
           blocks'[c][t] = IF c = job.block /\ t = job.slot THEN started ELSE blocks[c][t]
  BY <1>1, <1>2, <1>3, SlotFacts DEF Holder
<1>5. Listed' = Listed \cup {started}
  <2>1. Listed' \subseteq Listed \cup {started}
    BY <1>4 DEF Listed
  <2>2. started \in Listed'
    BY <1>2, <1>3, <1>4 DEF Listed
  <2>3. \A i \in Listed : i \in Listed'
    <3> SUFFICES ASSUME NEW c \in DOMAIN blocks, NEW t \in Slots, blocks[c][t] # Empty
                 PROVE  blocks[c][t] \in Listed'
      BY DEF Listed
    <3>1. blocks'[c][t] = blocks[c][t]
      BY <1>2, <1>4
    <3> QED BY <1>4, <3>1 DEF Listed
  <2> QED BY <2>1, <2>2, <2>3
<1>6. SlotsDistinct'
  <2> SUFFICES ASSUME NEW b \in DOMAIN blocks, NEW c \in DOMAIN blocks,
                      NEW s \in Slots, NEW t \in Slots,
                      blocks'[b][s] = blocks'[c][t], blocks'[b][s] # Empty
               PROVE  b = c /\ s = t
    BY <1>4 DEF SlotsDistinct
  <2>1. \A d \in DOMAIN blocks, u \in Slots : blocks[d][u] # started
    BY <1>3 DEF Listed
  <2>2. CASE b = job.block /\ s = job.slot
    BY <1>4, <2>1, <2>2
  <2>3. CASE c = job.block /\ t = job.slot
    BY <1>4, <2>1, <2>3
  <2>4. CASE ~(b = job.block /\ s = job.slot) /\ ~(c = job.block /\ t = job.slot)
    BY <1>4, <2>4 DEF Inv, SlotsDistinct
  <2> QED BY <2>2, <2>3, <2>4
<1>7. Types'
  <2>1. JobPlace'
    BY <1>1, <1>4 DEF Inv, Types, JobPlace
  <2> QED BY <1>1, <1>4, <2>1, PlainTypes DEF Inv, Types, Places, Ending
<1>8. Numbered'
  <2>1. started \in 1..started
    BY <1>3, OrchestratorAssumption DEF Servers
  <2> QED BY <1>1, <1>5, <2>1 DEF Inv, Numbered, machine
<1>9. FreeTriple' /\ Telling' /\ OneServerPerPort' /\ KilledIsUnlisted'
  <2>1. FreeTriple' /\ Telling'
    BY <1>1 DEF Inv, FreeTriple, Telling, Ending
  <2>2. OneServerPerPort'
    BY <1>1 DEF Inv, OneServerPerPort, machine
  <2>3. KilledIsUnlisted'
    BY <1>1, <1>3, <1>5 DEF Inv, KilledIsUnlisted, machine
  <2> QED BY <2>1, <2>2, <2>3
<1>10. LosesNoServer'
  <2>1. ~flag
    BY <1>1 DEF Inv, Types, Flagged, Ending
  <2>2. \A i \in running : told[i] # "kill" => i \in Listed \/ i = started
    BY <1>1, <2>1 DEF Inv, LosesNoServer, RunningIsListed
  <2> QED BY <1>1, <1>5, <2>2 DEF LosesNoServer, RunningIsListed, LeavesOnlyTheUnlisted, machine
<1> QED BY <1>6, <1>7, <1>8, <1>9, <1>10 DEF Inv

-------------------------------------------------------------------------------
(* Stopping. *)

LEMMA TellFacts ==
  ASSUME Types, NEW S, NEW signal \in {"term", "kill"}, Tell(S, signal)
  PROVE  /\ told' \in [Servers -> {"none", "term", "kill"}]
         /\ \A i \in Servers : told'[i] = IF i \in S \cap running THEN signal ELSE told[i]
BY DEF Tell, Types, TypeOK

LEMMA RunningAreServers == Types => running \subseteq Servers
<1> SUFFICES ASSUME Types PROVE running \subseteq Servers
  OBVIOUS
<1>1. started \in 0..MaxStarts /\ running \subseteq 1..started
  BY DEF Types, TypeOK
<1> QED BY <1>1, OrchestratorAssumption DEF Servers

\* Who was signalled still runs.
LEMMA ToldRun ==
  ASSUME Inv, NEW S, NEW signal \in {"term", "kill"}, Tell(S, signal), running' = running
  PROVE  \A i \in Servers : told'[i] # "none" => i \in running'
<1>1. \A i \in Servers : told'[i] = IF i \in S \cap running THEN signal ELSE told[i]
  BY TellFacts DEF Inv
<1> QED BY <1>1 DEF Inv, Numbered

\* The first of the slots that are to be emptied is emptied.
LEMMA ClearedFacts ==
  ASSUME Types, SlotsDistinct, pc \in {"stop", "stopwait"}, job.slots # <<>>, Cleared,
         NEW inst, inst = Inst
  PROVE  /\ blocks' \in Seq(Block) /\ SlotsDistinct' /\ Listed' = Listed \ {inst}
         /\ job' \in Jobs /\ JobPlace'
<1>1. /\ blocks \in Seq(Block) /\ job \in Jobs /\ job.block \in DOMAIN blocks
      /\ job.slots \in Seq(Slots) /\ Head(job.slots) \in Slots /\ Tail(job.slots) \in Seq(Slots)
  <2>1. job.slots \in Seq(Slots)
    BY DEF Types, Jobs
  <2> QED BY <2>1, BlocksType DEF Types, JobPlace
<1>2. PICK h \in Slots : h = Head(job.slots) /\ inst = blocks[job.block][h]
  BY <1>1 DEF Inst
<1>3. PICK rest \in Seq(Slots) : rest = Tail(job.slots)
  BY <1>1
<1>4. blocks' = [blocks EXCEPT ![job.block][h] = Empty] /\ job' = [job EXCEPT !.slots = rest]
      /\ pc' = "stop"
  BY <1>2, <1>3 DEF Cleared
<1>5. /\ blocks' \in Seq(Block) /\ DOMAIN blocks' = DOMAIN blocks
      /\ \A c \in DOMAIN blocks, t \in Slots :
           blocks'[c][t] = IF c = job.block /\ t = h THEN Empty ELSE blocks[c][t]
  <2>1. Empty \in Holder /\ blocks \in Seq(Block) /\ job.block \in DOMAIN blocks
    BY <1>1 DEF Holder
  <2>2. blocks' = [blocks EXCEPT ![job.block][h] = Empty]
    BY <1>4
  <2> QED BY <2>1, <2>2, SlotFacts
<1>6. SlotsDistinct'
  BY <1>5 DEF SlotsDistinct
<1>7. Listed' \subseteq Listed \ {inst}
  <2> SUFFICES ASSUME NEW c \in DOMAIN blocks, NEW t \in Slots, blocks'[c][t] # Empty
               PROVE  blocks'[c][t] \in Listed \ {inst}
    BY <1>5 DEF Listed
  <2>1. ~(c = job.block /\ t = h) /\ blocks'[c][t] = blocks[c][t]
    BY <1>5
  <2>2. blocks[c][t] # inst
    BY <1>1, <1>2, <2>1 DEF SlotsDistinct
  <2> QED BY <2>1, <2>2 DEF Listed
<1>8. Listed \ {inst} \subseteq Listed'
  <2> SUFFICES ASSUME NEW c \in DOMAIN blocks, NEW t \in Slots, blocks[c][t] # Empty,
                      blocks[c][t] # inst
               PROVE  blocks[c][t] \in Listed'
    BY DEF Listed
  <2>1. blocks'[c][t] = blocks[c][t]
    BY <1>2, <1>5
  <2> QED BY <1>5, <2>1 DEF Listed
<1>9. job' \in Jobs /\ job'.block = job.block
  BY <1>1, <1>4 DEF Jobs
<1>10. JobPlace'
  BY <1>1, <1>4, <1>5, <1>9 DEF JobPlace
<1> QED BY <1>5, <1>6, <1>7, <1>8, <1>9, <1>10

\* The one that was in the slot does not run, or is killed.
LEMMA ClearInv ==
  ASSUME Inv, pc \in {"stop", "stopwait"}, job.slots # <<>>, Cleared,
         UNCHANGED <<flag, procs, todo, broken, started, running, triple, bound, foreign>>,
         \/ Inst \notin running /\ told' = told
         \/ Tell({Inst}, "kill")
  PROVE  Inv'
<1>1. PICK inst : inst = Inst
  OBVIOUS
<1>2. /\ blocks' \in Seq(Block) /\ SlotsDistinct' /\ Listed' = Listed \ {inst}
      /\ job' \in Jobs /\ JobPlace' /\ pc' = "stop"
  BY <1>1, ClearedFacts DEF Inv, Cleared
<1>3. /\ told' \in [Servers -> {"none", "term", "kill"}]
      /\ \A i \in running : told'[i] = IF i = inst THEN "kill" ELSE told[i]
  <2>1. CASE Inst \notin running /\ told' = told
    BY <1>1, <2>1 DEF Inv, Types, TypeOK
  <2>2. CASE Tell({inst}, "kill")
    BY <2>2, TellFacts, RunningAreServers DEF Inv
  <2> QED BY <1>1, <2>1, <2>2
<1>4. Types'
  <2>1. TypeOK'
    BY <1>2, <1>3 DEF Inv, Types, TypeOK, Places, Block, Holder
  <2>2. Flagged'
    BY <1>2 DEF Inv, Types, Flagged, Ending
  <2> QED BY <1>2, <2>1, <2>2 DEF Types
<1>5. \A i \in Servers : told'[i] # "none" => i \in running
  BY <1>1, ToldRun DEF Inv, Numbered
<1>6. Numbered'
  BY <1>2, <1>5 DEF Inv, Numbered
<1>7. FreeTriple' /\ Telling'
  BY <1>2 DEF Inv, FreeTriple, Telling, Ending
<1>8. KilledIsUnlisted'
  BY <1>2, <1>3 DEF Inv, KilledIsUnlisted
<1>9. OneServerPerPort'
  BY <1>3 DEF Inv, OneServerPerPort
<1>10. LosesNoServer'
  BY <1>2, <1>3, AllListed DEF LosesNoServer, RunningIsListed, LeavesOnlyTheUnlisted, Ending
<1> QED BY <1>2, <1>4, <1>6, <1>7, <1>8, <1>9, <1>10 DEF Inv

\* The one in the slot is asked to stop, and waited for.
LEMMA AskInv ==
  ASSUME Inv, StopNext, job.slots # <<>>, Inst \in running, Tell({Inst}, "term"),
         pc' = "stopwait", UNCHANGED <<blocks, job>>
  PROVE  Inv'
<1>1. PICK inst : inst = Inst
  OBVIOUS
<1>2. /\ pc = "stop"
      /\ UNCHANGED <<flag, procs, todo, broken, started, running, triple, bound, foreign>>
  BY DEF StopNext
<1>3. /\ told' \in [Servers -> {"none", "term", "kill"}]
      /\ \A i \in running : told'[i] = IF i = inst THEN "term" ELSE told[i]
  BY <1>1, TellFacts, RunningAreServers DEF Inv
<1>4. inst \in Listed /\ told[inst] # "kill"
  <2>1. job.slots \in Seq(Slots) /\ job.block \in DOMAIN blocks
    BY <1>2 DEF Inv, Types, Jobs, JobPlace
  <2>2. Head(job.slots) \in Slots
    BY <2>1
  <2>3. inst \in Servers /\ inst # Empty
    <3>1. inst \in Servers
      BY <1>1, RunningAreServers DEF Inv
    <3> QED BY <3>1, OrchestratorAssumption DEF Servers, Empty
  <2>4. inst \in Listed
    BY <1>1, <2>1, <2>2, <2>3 DEF Listed, Inst
  <2> QED BY <1>1, <1>2, <2>4 DEF Inv, KilledIsUnlisted
<1>5. Types' /\ SlotsDistinct' /\ Listed' = Listed
  <2>1. TypeOK'
    BY <1>2, <1>3 DEF Inv, Types, TypeOK, Places
  <2>2. JobPlace' /\ Flagged'
    BY <1>2 DEF Inv, Types, JobPlace, Flagged, Ending
  <2> QED BY <2>1, <2>2, SameSlots DEF Inv, Types
<1>6. \A i \in Servers : told'[i] # "none" => i \in running'
  BY <1>2, ToldRun
<1>7. Numbered' /\ FreeTriple' /\ Telling'
  BY <1>2, <1>5, <1>6 DEF Inv, Numbered, FreeTriple, Telling, Ending
<1>8. KilledIsUnlisted'
  BY <1>2, <1>3, <1>5 DEF Inv, KilledIsUnlisted
<1>9. OneServerPerPort'
  BY <1>2, <1>3, <1>4 DEF Inv, OneServerPerPort
<1>10. LosesNoServer'
  BY <1>2, <1>3, <1>4, <1>5, AllListed
     DEF LosesNoServer, RunningIsListed, LeavesOnlyTheUnlisted, Ending
<1> QED BY <1>5, <1>7, <1>8, <1>9, <1>10 DEF Inv

LEMMA StopInv == ASSUME Inv, StopNext \/ StopGone \/ StopTimeout PROVE Inv'
<1>1. CASE StopNext /\ job.slots = <<>> /\ pc' = "prompt" /\ job' = NoJob /\ UNCHANGED <<blocks, told>>
  <2>1. pc = "stop" /\ UNCHANGED <<flag, procs, todo, broken, machine>>
    BY <1>1 DEF StopNext, machine
  <2>2. JobPlace' /\ FreeTriple'
    BY <1>1 DEF JobPlace, FreeTriple
  <2>3. Types'
    BY <1>1, <2>1, <2>2, NoJobType, BlocksType, PlainTypes DEF Inv, Types, Places, Ending
  <2> QED BY <1>1, <2>1, <2>2, <2>3, SameSlots, SameServers DEF Inv, Ending, machine
<1>2. CASE StopNext /\ job.slots # <<>> /\ Inst \notin running /\ Cleared /\ UNCHANGED told
  <2>1. pc = "stop"
        /\ UNCHANGED <<flag, procs, todo, broken, started, running, triple, bound, foreign>>
    BY <1>2 DEF StopNext
  <2> QED BY <1>2, <2>1, ClearInv
<1>3. CASE /\ StopNext /\ job.slots # <<>> /\ Inst \in running /\ Tell({Inst}, "term")
           /\ pc' = "stopwait" /\ UNCHANGED <<blocks, job>>
  BY <1>3, AskInv
<1>4. CASE StopGone
  <2>1. /\ pc = "stopwait" /\ Inst \notin running /\ Cleared /\ told' = told
        /\ UNCHANGED <<flag, procs, todo, broken, started, running, triple, bound, foreign>>
    BY <1>4 DEF StopGone, machine
  <2>2. job.slots # <<>>
    BY <2>1 DEF Inv, Types, JobPlace
  <2> QED BY <2>1, <2>2, ClearInv
<1>5. CASE StopTimeout
  <2>1. /\ pc = "stopwait" /\ Tell({Inst}, "kill") /\ Cleared
        /\ UNCHANGED <<flag, procs, todo, broken, started, running, triple, bound, foreign>>
    BY <1>5 DEF StopTimeout
  <2>2. job.slots # <<>>
    BY <2>1 DEF Inv, Types, JobPlace
  <2> QED BY <2>1, <2>2, ClearInv
<1>6. CASE StopNext
  BY <1>1, <1>2, <1>3, <1>6 DEF StopNext
<1> QED BY <1>4, <1>5, <1>6

-------------------------------------------------------------------------------
(* The end. *)

LEMMA BeginInv ==
  ASSUME Inv, pc \notin Ending, BeginStopAll,
         UNCHANGED <<blocks, procs, todo, broken, machine>>
  PROVE  Inv'
<1>1. /\ pc' = "collect" /\ flag' = TRUE /\ job' = NoJob
      /\ UNCHANGED <<blocks, procs, todo, broken, started, running, triple, bound, told, foreign>>
  BY DEF BeginStopAll, machine
<1>2. Types' /\ Listed' = Listed /\ SlotsDistinct'
  <2>1. TypeOK' /\ JobPlace' /\ Flagged'
    BY <1>1 DEF Inv, Types, TypeOK, Places, JobPlace, Flagged, Ending
  <2> QED BY <1>1, <2>1, NoJobType, SameSlots DEF Inv, Types
<1>3. Numbered' /\ FreeTriple' /\ Telling' /\ OneServerPerPort' /\ KilledIsUnlisted'
  <2>1. Numbered' /\ FreeTriple' /\ Telling'
    BY <1>1, <1>2 DEF Inv, Numbered, FreeTriple, Telling
  <2>2. OneServerPerPort'
    BY <1>1 DEF Inv, OneServerPerPort
  <2>3. KilledIsUnlisted'
    BY <1>1, <1>2 DEF Inv, KilledIsUnlisted, Ending
  <2> QED BY <2>1, <2>2, <2>3
<1>4. LosesNoServer'
  <2>1. \A i \in running : told[i] # "kill" => i \in Listed \/ i = started
    BY DEF Inv, LosesNoServer, RunningIsListed, Ending
  <2> QED BY <1>1, <1>2, <2>1 DEF LosesNoServer, RunningIsListed, LeavesOnlyTheUnlisted
<1> QED BY <1>2, <1>3, <1>4 DEF Inv

LEMMA SignalInv == ASSUME Inv, Exit \/ Signal PROVE Inv'
<1>1. CASE Exit
  BY <1>1, BeginInv DEF Exit, Idle, Ending
<1>2. CASE Signal /\ ~flag /\ BeginStopAll /\ UNCHANGED broken
  <2>1. pc \notin Ending /\ UNCHANGED <<blocks, procs, todo, broken, machine>>
    BY <1>2 DEF Signal, Inv, Types, Flagged
  <2> QED BY <1>2, <2>1, BeginInv
<1>3. CASE Signal /\ flag /\ pc' = "exited" /\ broken' = TRUE /\ UNCHANGED <<flag, job>>
  <2>1. UNCHANGED <<blocks, procs, todo, started, running, triple, bound, told, foreign>>
    BY <1>3 DEF Signal, machine
  <2>2. TypeOK' /\ JobPlace' /\ Flagged'
    BY <1>3, <2>1 DEF Inv, Types, TypeOK, Places, JobPlace, Flagged, Ending
  <2>3. Types' /\ Listed' = Listed /\ SlotsDistinct'
    BY <1>3, <2>1, <2>2, SameSlots DEF Inv, Types
  <2>4. Numbered'
    BY <1>3, <2>1, <2>3 DEF Inv, Numbered
  <2>5. FreeTriple' /\ Telling' /\ KilledIsUnlisted' /\ RunningIsListed'
    BY <1>3 DEF FreeTriple, Telling, Ending, KilledIsUnlisted, RunningIsListed
  <2>7. LeavesOnlyTheUnlisted'
    <3>1. pc \in Ending
      BY <1>3 DEF Inv, Types, Flagged
    <3>2. ASSUME NEW i \in running, told[i] = "none"
          PROVE  Unlisted(i) \/ procs = {} \/ i \in todo
      <4>1. CASE pc = "collect"
        BY <4>1 DEF Inv, Telling
      <4>2. CASE pc \in {"term", "grace", "kill", "clear"}
        BY <3>2, <4>2 DEF Inv, Telling
      <4>3. pc # "exited"
        BY <1>3 DEF Signal
      <4> QED BY <3>1, <4>1, <4>2, <4>3 DEF Ending
    <3> QED BY <1>3, <2>1, <2>3, <3>2 DEF LeavesOnlyTheUnlisted, Unlisted
  <2>6. OneServerPerPort'
    BY <2>1 DEF Inv, OneServerPerPort
  <2> QED BY <2>3, <2>4, <2>5, <2>6, <2>7 DEF Inv, LosesNoServer
<1> QED BY <1>1, <1>2, <1>3 DEF Signal

\* Steps of stop_all that leave the slots as they are.
LEMMA EndingTypes ==
  ASSUME Inv, pc \in Ending, pc' \in Ending,
         procs' \subseteq Servers, todo' \subseteq procs',
         told' \in [Servers -> {"none", "term", "kill"}],
         \A i \in Servers : told'[i] # "none" => i \in running,
         UNCHANGED <<blocks, flag, job, broken, started, running, triple, bound, foreign>>
  PROVE  /\ Types' /\ Listed' = Listed /\ SlotsDistinct' /\ Numbered' /\ FreeTriple'
<1>1. TypeOK' /\ JobPlace' /\ Flagged'
  BY DEF Inv, Types, TypeOK, Places, JobPlace, Flagged, Ending
<1>2. Types' /\ Listed' = Listed /\ SlotsDistinct'
  BY <1>1, SameSlots DEF Inv, Types
<1>3. Numbered' /\ FreeTriple'
  BY <1>2 DEF Inv, Numbered, FreeTriple, Ending
<1> QED BY <1>2, <1>3

LEMMA CollectInv == ASSUME Inv, Collect PROVE Inv'
<1>1. /\ pc = "collect" /\ procs' = Collected /\ todo' = Collected
      /\ pc' = IF Collected = {} THEN "exited" ELSE "term"
      /\ UNCHANGED <<blocks, flag, job, broken, started, running, triple, bound, told, foreign>>
  BY DEF Collect, machine
<1>2. Types' /\ Listed' = Listed /\ SlotsDistinct' /\ Numbered' /\ FreeTriple'
  <2>1. /\ Collected \subseteq Servers
        /\ told \in [Servers -> {"none", "term", "kill"}]
        /\ \A i \in Servers : told[i] # "none" => i \in running
    BY RunningAreServers DEF Collected, Inv, Types, TypeOK, Numbered
  <2> QED BY <1>1, <2>1, EndingTypes DEF Ending
<1>3. \A i \in running : told[i] = "none" => i \in Collected \/ Unlisted(i)
  BY <1>1 DEF Inv, LosesNoServer, RunningIsListed, Collected, Unlisted
<1>4. Telling'
  BY <1>1, <1>2, <1>3 DEF Telling, Unlisted, Collected, Ending
<1>5. KilledIsUnlisted' /\ OneServerPerPort'
  BY <1>1, <1>2 DEF Inv, KilledIsUnlisted, OneServerPerPort
<1>6. RunningIsListed'
  BY <1>1, <1>2 DEF Inv, LosesNoServer, RunningIsListed
<1>7. LeavesOnlyTheUnlisted'
  BY <1>1, <1>2, <1>3 DEF LeavesOnlyTheUnlisted, Unlisted
<1> QED BY <1>2, <1>4, <1>5, <1>6, <1>7 DEF Inv, LosesNoServer

LEMMA TermInv == ASSUME Inv, TermNext PROVE Inv'
<1>1. PICK i \in todo : Tell({i}, "term") /\ todo' = todo \ {i}
                        /\ pc' = IF todo' = {} THEN "grace" ELSE "term"
  BY DEF TermNext
<1>2. /\ pc = "term"
      /\ UNCHANGED <<blocks, flag, job, procs, broken, started, running, triple, bound, foreign>>
  BY DEF TermNext
<1>3. /\ told' \in [Servers -> {"none", "term", "kill"}]
      /\ \A j \in running : told'[j] = IF j = i THEN "term" ELSE told[j]
      /\ \A j \in Servers : told'[j] # "none" => j \in running
  BY <1>1, <1>2, TellFacts, RunningAreServers, ToldRun DEF Inv
<1>4. Types' /\ Listed' = Listed /\ SlotsDistinct' /\ Numbered' /\ FreeTriple'
  <2>1. procs' \subseteq Servers /\ todo' \subseteq procs'
    BY <1>1, <1>2 DEF Inv, Types, TypeOK
  <2>2. pc \in Ending /\ pc' \in Ending
    BY <1>1, <1>2 DEF Ending
  <2> QED BY <1>2, <1>3, <2>1, <2>2, EndingTypes
<1>5. i \in Listed /\ (i \in running => told[i] # "kill")
  BY <1>1, <1>2 DEF Inv, Telling, KilledIsUnlisted
<1>6. Telling'
  <2>1. todo \subseteq Listed
    BY <1>2 DEF Inv, Telling
  <2>2. \A j \in running : told'[j] = "none" => j \in todo' \/ Unlisted(j)
    BY <1>1, <1>2, <1>3 DEF Inv, Telling
  <2>3. \A j : Unlisted(j)' <=> Unlisted(j)
    BY <1>2, <1>4 DEF Unlisted
  <2>4. todo' \subseteq Listed' /\ running' = running
    BY <1>1, <1>2, <1>4, <2>1
  <2>5. pc' = "term" \/ (pc' = "grace" /\ todo' = {})
    BY <1>1
  <2> QED BY <2>2, <2>3, <2>4, <2>5 DEF Telling, Ending
<1>7. KilledIsUnlisted'
  BY <1>2, <1>3, <1>4 DEF Inv, KilledIsUnlisted
<1>8. OneServerPerPort'
  BY <1>2, <1>3, <1>5 DEF Inv, OneServerPerPort
<1>9. LosesNoServer'
  <2>1. flag /\ flag' /\ pc' # "exited"
    BY <1>1, <1>2 DEF Inv, Types, Flagged, Ending
  <2> QED BY <1>2, <1>3, <1>4, <1>5, <2>1
         DEF Inv, LosesNoServer, RunningIsListed, LeavesOnlyTheUnlisted
<1> QED BY <1>4, <1>6, <1>7, <1>8, <1>9 DEF Inv

LEMMA GraceInv == ASSUME Inv, Grace PROVE Inv'
<1>1. /\ pc = "grace" /\ pc' = "kill" /\ todo' = procs
      /\ UNCHANGED <<blocks, flag, job, procs, broken, started, running, triple, bound, told, foreign>>
  BY DEF Grace, machine
<1>2. Types' /\ Listed' = Listed /\ SlotsDistinct' /\ Numbered' /\ FreeTriple'
  BY <1>1, EndingTypes DEF Ending, Inv, Types, TypeOK, Numbered
<1>3. Telling' /\ KilledIsUnlisted' /\ OneServerPerPort'
  BY <1>1, <1>2 DEF Inv, Telling, Unlisted, KilledIsUnlisted, OneServerPerPort, Ending
<1>4. LosesNoServer'
  BY <1>1, <1>2 DEF Inv, LosesNoServer, RunningIsListed, LeavesOnlyTheUnlisted
<1> QED BY <1>2, <1>3, <1>4 DEF Inv

LEMMA KillInv == ASSUME Inv, KillNext PROVE Inv'
<1>1. PICK i \in todo : Tell({i}, "kill") /\ todo' = todo \ {i}
                        /\ pc' = IF todo' = {} THEN "clear" ELSE "kill"
  BY DEF KillNext
<1>2. /\ pc = "kill"
      /\ UNCHANGED <<blocks, flag, job, procs, broken, started, running, triple, bound, foreign>>
  BY DEF KillNext
<1>3. /\ told' \in [Servers -> {"none", "term", "kill"}]
      /\ \A j \in running : told'[j] = IF j = i THEN "kill" ELSE told[j]
      /\ \A j \in Servers : told'[j] # "none" => j \in running
  BY <1>1, <1>2, TellFacts, RunningAreServers, ToldRun DEF Inv
<1>4. Types' /\ Listed' = Listed /\ SlotsDistinct' /\ Numbered' /\ FreeTriple'
  <2>1. procs' \subseteq Servers /\ todo' \subseteq procs'
    BY <1>1, <1>2 DEF Inv, Types, TypeOK
  <2>2. pc \in Ending /\ pc' \in Ending
    BY <1>1, <1>2 DEF Ending
  <2> QED BY <1>2, <1>3, <2>1, <2>2, EndingTypes
<1>5. Telling' /\ KilledIsUnlisted'
  BY <1>1, <1>2, <1>3, <1>4 DEF Inv, Telling, Unlisted, KilledIsUnlisted, Ending
<1>6. OneServerPerPort'
  BY <1>2, <1>3 DEF Inv, OneServerPerPort
<1>7. LosesNoServer'
  <2>1. flag /\ flag' /\ pc' # "exited"
    BY <1>1, <1>2 DEF Inv, Types, Flagged, Ending
  <2> QED BY <1>2, <1>3, <1>4, <2>1
         DEF Inv, LosesNoServer, RunningIsListed, LeavesOnlyTheUnlisted
<1> QED BY <1>4, <1>5, <1>6, <1>7 DEF Inv

LEMMA ClearAllInv == ASSUME Inv, Clear PROVE Inv'
<1>1. /\ pc = "clear" /\ pc' = "exited"
      /\ blocks' = [b \in DOMAIN blocks |-> [s \in Slots |-> Empty]]
      /\ UNCHANGED <<flag, job, procs, todo, broken, started, running, triple, bound, told, foreign>>
  BY DEF Clear, machine
<1>2. Listed' = {} /\ SlotsDistinct'
  BY <1>1 DEF Listed, SlotsDistinct
<1>3. blocks' \in Seq(Block)
  <2>1. DOMAIN blocks = 1..Len(blocks) /\ Len(blocks) \in Nat
    BY BlocksType, LenProperties DEF Inv, Types
  <2>2. [s \in Slots |-> Empty] \in Block
    BY DEF Block, Holder
  <2> QED BY <1>1, <2>1, <2>2
<1>4. Types'
  <2>1. TypeOK'
    BY <1>1, <1>3 DEF Inv, Types, TypeOK, Places, Block, Holder
  <2>2. JobPlace' /\ Flagged'
    BY <1>1 DEF Inv, Types, JobPlace, Flagged, Ending
  <2> QED BY <1>1, <2>1, <2>2 DEF Inv, Types
<1>5. Numbered' /\ FreeTriple' /\ Telling' /\ KilledIsUnlisted' /\ OneServerPerPort'
  BY <1>1, <1>2 DEF Inv, Numbered, FreeTriple, Telling, KilledIsUnlisted, OneServerPerPort, Ending
<1>6. LosesNoServer'
  BY <1>1, <1>2 DEF Inv, Telling, Unlisted, LosesNoServer, RunningIsListed, LeavesOnlyTheUnlisted
<1> QED BY <1>2, <1>4, <1>5, <1>6 DEF Inv

-------------------------------------------------------------------------------
(* The machine. *)

LEMMA EndsInv == ASSUME Inv, pc # "exited", NEW i \in Servers, Ends(i) PROVE Inv'
<1>1. /\ i \in running /\ running' = running \ {i}
      /\ bound' = [bound EXCEPT ![i] = {}] /\ told' = [told EXCEPT ![i] = "none"]
      /\ UNCHANGED <<pc, blocks, flag, job, procs, todo, broken, started, triple, foreign>>
  BY DEF Ends, orchestrator
<1>2. /\ told' \in [Servers -> {"none", "term", "kill"}]
      /\ \A j \in Servers : told'[j] = IF j = i THEN "none" ELSE told[j]
  BY <1>1 DEF Inv, Types, TypeOK
<1>3. running' \subseteq running /\ \A j \in running' : told'[j] = told[j]
  BY <1>1, <1>2, RunningAreServers DEF Inv
<1>4. Types' /\ Listed' = Listed /\ SlotsDistinct'
  <2>1. bound' \in [Servers -> SUBSET Ports]
    BY <1>1 DEF Inv, Types, TypeOK
  <2>2. TypeOK'
    BY <1>1, <1>2, <2>1 DEF Inv, Types, TypeOK
  <2>3. JobPlace' /\ Flagged'
    BY <1>1 DEF Inv, Types, JobPlace, Flagged
  <2> QED BY <1>1, <2>2, <2>3, SameSlots DEF Inv, Types
<1>5. Numbered'
  BY <1>1, <1>2, <1>4 DEF Inv, Numbered
<1>6. FreeTriple' /\ Telling' /\ KilledIsUnlisted'
  BY <1>1, <1>3, <1>4 DEF Inv, FreeTriple, Telling, Unlisted, KilledIsUnlisted
<1>7. OneServerPerPort'
  BY <1>1, <1>3 DEF Inv, OneServerPerPort
<1>8. LosesNoServer'
  BY <1>1, <1>3, <1>4 DEF Inv, LosesNoServer, RunningIsListed, LeavesOnlyTheUnlisted
<1> QED BY <1>4, <1>5, <1>6, <1>7, <1>8 DEF Inv

\* Who listens on what is nothing to the slots.
LEMMA ListenInv ==
  ASSUME Inv, UNCHANGED <<orchestrator, started, running, triple, told>>,
         bound' \in [Servers -> SUBSET Ports], foreign' \subseteq Ports
  PROVE  Inv'
<1>1. UNCHANGED <<pc, blocks, flag, job, procs, todo, broken>>
  BY DEF orchestrator
<1>2. Types' /\ Listed' = Listed /\ SlotsDistinct'
  <2>1. TypeOK'
    BY <1>1 DEF Inv, Types, TypeOK
  <2>2. JobPlace' /\ Flagged'
    BY <1>1 DEF Inv, Types, JobPlace, Flagged
  <2> QED BY <1>1, <2>1, <2>2, SameSlots DEF Inv, Types
<1>3. Numbered' /\ FreeTriple' /\ Telling' /\ KilledIsUnlisted'
  BY <1>1, <1>2 DEF Inv, Numbered, FreeTriple, Telling, Unlisted, KilledIsUnlisted
<1>4. OneServerPerPort' /\ LosesNoServer'
  BY <1>1, <1>2 DEF Inv, OneServerPerPort, LosesNoServer, RunningIsListed, LeavesOnlyTheUnlisted
<1> QED BY <1>2, <1>3, <1>4 DEF Inv

LEMMA MachineInv == ASSUME Inv, pc # "exited", Machine PROVE Inv'
<1>1. bound \in [Servers -> SUBSET Ports] /\ foreign \subseteq Ports
  BY DEF Inv, Types, TypeOK
<1>2. ASSUME NEW i \in Servers, BindPort(i) PROVE Inv'
  <2>1. triple[i] \in DOMAIN Triples
    BY <1>2 DEF BindPort, Inv, Types, TypeOK
  <2>2. bound' \in [Servers -> SUBSET Ports]
    BY <1>1, <1>2, <2>1, TripleFacts DEF BindPort
  <2> QED BY <1>1, <1>2, <2>2, ListenInv DEF BindPort
<1>3. CASE ForeignBinds
  BY <1>1, <1>3, ListenInv DEF ForeignBinds
<1>4. CASE ForeignCloses
  BY <1>1, <1>4, ListenInv DEF ForeignCloses
<1> QED BY <1>2, <1>3, <1>4, EndsInv DEF Machine

-------------------------------------------------------------------------------
LEMMA InitInv == Init => Inv
<1> SUFFICES ASSUME Init PROVE Inv
  OBVIOUS
<1>1. DOMAIN blocks = {} /\ Listed = {}
  BY DEF Init, Listed
<1>2. SlotsDistinct /\ Numbered /\ FreeTriple /\ KilledIsUnlisted /\ Telling
  BY <1>1 DEF Init, SlotsDistinct, Numbered, FreeTriple, KilledIsUnlisted, Telling
<1>3. OneServerPerPort /\ LosesNoServer
  BY DEF Init, OneServerPerPort, LosesNoServer, RunningIsListed, LeavesOnlyTheUnlisted
<1> QED BY <1>2, <1>3, InitTypes DEF Inv

LEMMA NextInv == Inv /\ [Next]_vars => Inv'
<1> SUFFICES ASSUME Inv, [Next]_vars PROVE Inv'
  OBVIOUS
<1>1. CASE UNCHANGED vars
  <2>1. /\ UNCHANGED <<orchestrator, started, running, triple, told, bound, foreign>>
    BY <1>1 DEF vars, machine
  <2>2. bound' \in [Servers -> SUBSET Ports] /\ foreign' \subseteq Ports
    BY <2>1 DEF Inv, Types, TypeOK
  <2> QED BY <2>1, <2>2, ListenInv
<1>2. CASE Command
  BY <1>2, CommandInv, SignalInv DEF Command
<1>3. CASE Step
  BY <1>3, PrepareInv, PopenInv, EnterInv, StopInv, CollectInv, TermInv, GraceInv, KillInv,
     ClearAllInv DEF Step
<1> QED BY <1>1, <1>2, <1>3, SignalInv, MachineInv DEF Next

THEOREM Invariance == Spec => []Inv
BY InitInv, NextInv, PTL DEF Spec

\* The slots hold servers that were started, stop_all tells some of them.
THEOREM TypeCorrect == Spec => []TypeOK
<1>1. Inv => TypeOK
  BY DEF Inv, Types
<1> QED BY <1>1, Invariance, PTL

\* Two servers that run, and were not killed, share no port, whatever the triples
\* have in common and whenever commands and signals come.
THEOREM NoSharedPort == Spec => []OneServerPerPort
<1>1. Inv => OneServerPerPort
  BY DEF Inv
<1> QED BY <1>1, Invariance, PTL

\* A server that runs is in a slot until it is told to stop.  At the end none is
\* left untold but the last one started, if a signal kept it out of its slot, and
\* those that stop_all had not come to when a second signal interrupted it.
THEOREM NoServerLost == Spec => []LosesNoServer
<1>1. Inv => LosesNoServer
  BY DEF Inv
<1> QED BY <1>1, Invariance, PTL
===============================================================================
