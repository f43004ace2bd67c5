------------------------------- MODULE Startup -------------------------------
(***************************************************************************)
(* RagnarokServer::start and stop, as Main.cpp calls them, by several      *)
(* Thanatos processes of one host that are configured with the same port   *)
(* sets.  Other programs take and release ports too.                       *)
(*                                                                         *)
(* A process binds the three ports of a set in order, one action each; a   *)
(* bind is the step other processes see.  The first set whose login and    *)
(* char ports can be bound is kept.  Sets count from 1 (0 in the code).    *)
(***************************************************************************)
EXTENDS Naturals, FiniteSets

CONSTANTS
  Procs,
  NSets,     (* the length of the shortest of the three port lists         *)
  Contended, (* ports that other programs may hold                         *)
  Free, Other

Kinds == {"query", "login", "char"}
Ports == Kinds \X (1..NSets)

ASSUME StartupAssumption ==
  /\ IsFiniteSet(Procs)
  /\ NSets \in Nat \ {0}
  /\ Contended \subseteq Ports
  /\ Free # Other /\ Free \notin Procs /\ Other \notin Procs

VARIABLES
  holder,  (* who holds each port                                          *)
  set,     (* the set each process tries or has kept                       *)
  at,      (* the port it binds next, or what became of it                 *)
  stray,   (* accept handlers of destroyed listeners, queued in its io loop *)
  alone    (* history: no other program has held a port so far             *)

vars == <<holder, set, at, stray, alone>>

Ended == {"failed", "stopped", "crashed"}

Init ==
  /\ holder \in [Ports -> {Free, Other}]
  /\ \A r \in Ports \ Contended : holder[r] = Free
  /\ set = [p \in Procs |-> 1]
  /\ at = [p \in Procs |-> "query"]
  /\ stray = [p \in Procs |-> {}]
  /\ alone = \A r \in Ports : holder[r] # Other

Mine(p) == {r \in Ports : holder[r] = p}

Releases(p) == holder' = [r \in Ports |-> IF holder[r] = p THEN Free ELSE holder[r]]

Goes(p, where) == at' = [at EXCEPT ![p] = where]

\* A port of the set is free and p binds it.
Takes(p, kind) ==
  /\ holder[<<kind, set[p]>>] = Free
  /\ holder' = [holder EXCEPT ![<<kind, set[p]>>] = p]

-------------------------------------------------------------------------------
\* QueryServer::start returns when it cannot bind, and the caller goes on.
BindQuery(p) ==
  /\ at[p] = "query"
  /\ \/ Takes(p, "query")
     \/ holder[<<"query", set[p]>>] # Free /\ UNCHANGED holder
  /\ Goes(p, "login")
  /\ UNCHANGED <<set, stray>>

\* Mutant: the rollback does not stop the login listener.
RollBackKeepsLogin(p) ==
  /\ holder' = [r \in Ports |-> IF holder[r] = p /\ r[1] # "login" THEN Free ELSE holder[r]]
  /\ stray' = [stray EXCEPT ![p] = @ \cup {r[1] : r \in Mine(p)}]
  /\ \/ set[p] < NSets /\ set' = [set EXCEPT ![p] = @ + 1] /\ Goes(p, "query")
     \/ set[p] = NSets /\ Goes(p, "failed") /\ UNCHANGED set

\* Mutant: the loop runs one set too far.
RollBackRunsOver(p) ==
  /\ Releases(p)
  /\ stray' = [stray EXCEPT ![p] = @ \cup {r[1] : r \in Mine(p)}]
  /\ \/ set[p] <= NSets /\ set' = [set EXCEPT ![p] = @ + 1] /\ Goes(p, "query")
     \/ set[p] > NSets /\ Goes(p, "failed") /\ UNCHANGED set

\* The catch block: what was started is stopped and destroyed.  The pending
\* accept of each listener is aborted; its handler is queued and runs later.
RollBack(p) ==
  /\ Releases(p)
  /\ stray' = [stray EXCEPT ![p] = @ \cup {r[1] : r \in Mine(p)}]
  /\ \/ set[p] < NSets /\ set' = [set EXCEPT ![p] = @ + 1] /\ Goes(p, "query")
     \/ set[p] = NSets /\ Goes(p, "failed") /\ UNCHANGED set

\* Mutant: a set whose login port is busy ends the search.
BindLoginOrFail(p) ==
  /\ at[p] = "login"
  /\ \/ Takes(p, "login") /\ Goes(p, "char") /\ UNCHANGED <<set, stray>>
     \/ /\ holder[<<"login", set[p]>>] # Free
        /\ Releases(p) /\ Goes(p, "failed") /\ UNCHANGED <<set, stray>>

BindLogin(p) ==
  /\ at[p] = "login"
  /\ \/ Takes(p, "login") /\ Goes(p, "char") /\ UNCHANGED <<set, stray>>
     \/ holder[<<"login", set[p]>>] # Free /\ RollBack(p)

\* With its last port bound the set is promoted and main runs the io loop.
BindChar(p) ==
  /\ at[p] = "char"
  /\ \/ Takes(p, "char") /\ Goes(p, "up") /\ UNCHANGED <<set, stray>>
     \/ holder[<<"char", set[p]>>] # Free /\ RollBack(p)

\* The handlers hold a pointer to their destroyed listener.  What they do is
\* undefined: QueryServer's accepts again, AsioTcpServerImpl's looks at
\* running_ and most often returns.
RunStray(p) ==
  /\ at[p] = "up" /\ stray[p] # {}
  /\ stray' = [stray EXCEPT ![p] = {}]
  /\ \/ UNCHANGED <<holder, at>>
     \/ Releases(p) /\ Goes(p, "crashed")
  /\ UNCHANGED set

\* A signal.  Until main has installed its handlers it ends the process at once,
\* then it ends the io loop and main calls stop(): the ports are released.
End(p) ==
  /\ at[p] \notin Ended
  /\ Releases(p)
  /\ Goes(p, "stopped")
  /\ stray' = [stray EXCEPT ![p] = {}]
  /\ UNCHANGED set

OtherProgram(r) ==
  /\ \/ holder[r] = Free /\ holder' = [holder EXCEPT ![r] = Other] /\ alone' = FALSE
     \/ holder[r] = Other /\ holder' = [holder EXCEPT ![r] = Free] /\ UNCHANGED alone
  /\ UNCHANGED <<set, at, stray>>

Next ==
  \/ /\ \E p \in Procs : BindQuery(p) \/ BindLogin(p) \/ BindChar(p) \/ RunStray(p) \/ End(p)
     /\ UNCHANGED alone
  \/ \E r \in Contended : OtherProgram(r)

Spec == Init /\ [][Next]_vars

-------------------------------------------------------------------------------
TypeOK ==
  /\ holder \in [Ports -> Procs \cup {Free, Other}]
  /\ set \in [Procs -> 1..NSets]
  /\ at \in [Procs -> Kinds \cup {"up"} \cup Ended]
  /\ stray \in [Procs -> SUBSET Kinds]
  /\ alone \in BOOLEAN

\* A process holds ports of the one set it tries or has kept, those it has bound
\* and no others: a set it gave up, or its end, leaves it none.
KeepsOneSet ==
  \A p \in Procs :
    /\ \A r \in Mine(p) : r[2] = set[p] /\ at[p] \notin Ended
    /\ at[p] \in {"char", "up"} <=> holder[<<"login", set[p]>>] = p
    /\ at[p] = "up" <=> holder[<<"char", set[p]>>] = p

\* While no other program has been in the way and there are as many sets as processes,
\* every process comes up, in whatever order their binds interleave and
\* whichever of them end: a process passes a set by only for another one that
\* keeps it.
EveryoneStarts ==
  alone /\ Cardinality(Procs) <= NSets => \A p \in Procs : at[p] # "failed"
===============================================================================
