---------------------------- MODULE Startup_proofs ----------------------------
(***************************************************************************)
(* Proofs about Startup, for any processes, any number of sets and any     *)
(* ports that other programs use.                                          *)
(*                                                                         *)
(* EveryoneStarts needs to know why a process passes a set by: because     *)
(* another process has bound its login port, and that one stays.           *)
(***************************************************************************)
EXTENDS Startup, FiniteSetTheorems, TLAPS

\* A process that has bound the login port of its set, or is gone.
Stays(q) == at[q] \in {"char", "up", "stopped", "crashed"}

Undisturbed == alone => \A r \in Ports : holder[r] # Other

Passed(p, i) == i < set[p] \/ at[p] = "failed"

Blocked ==
  alone =>
    \A p \in Procs : \A i \in 1..NSets :
      Passed(p, i) => \E q \in Procs \ {p} : set[q] = i /\ Stays(q)

IInv == TypeOK /\ KeepsOneSet /\ Undisturbed /\ Blocked

-------------------------------------------------------------------------------
LEMMA InitIInv == Init => IInv
<1> SUFFICES ASSUME Init PROVE IInv
  OBVIOUS
<1>1. TypeOK
  BY StartupAssumption DEF Init, TypeOK, Kinds, Ended
<1>2. KeepsOneSet
  BY StartupAssumption DEF Init, KeepsOneSet, Mine, Ports, Kinds, Ended
<1>3. Undisturbed
  BY StartupAssumption DEF Init, Undisturbed
<1>4. Blocked
  BY DEF Init, Blocked, Passed
<1> QED BY <1>1, <1>2, <1>3, <1>4 DEF IInv

\* The steps that give all ports back.
LEMMA ReleaseKeeps ==
  ASSUME IInv, NEW p \in Procs, Releases(p), alone' = alone
  PROVE  /\ holder' \in [Ports -> Procs \cup {Free, Other}]
         /\ Undisturbed'
         /\ \A r \in Ports : holder'[r] # p
         /\ \A q \in Procs \ {p} : \A r \in Ports : holder'[r] = q <=> holder[r] = q
  BY StartupAssumption DEF IInv, TypeOK, Undisturbed, Releases

LEMMA TakeKeeps ==
  ASSUME IInv, NEW p \in Procs, NEW kind \in Kinds, Takes(p, kind), alone' = alone
  PROVE  /\ holder' \in [Ports -> Procs \cup {Free, Other}]
         /\ Undisturbed'
         /\ \A r \in Ports : holder'[r] = p <=> holder[r] = p \/ r = <<kind, set[p]>>
         /\ \A q \in Procs \ {p} : \A r \in Ports : holder'[r] = q <=> holder[r] = q
<1>1. <<kind, set[p]>> \in Ports
  BY DEF IInv, TypeOK, Ports
<1> QED BY <1>1, StartupAssumption DEF IInv, TypeOK, Undisturbed, Takes

\* A step that leaves the sets alone and moves no process that stays.
LEMMA BlockedKeeps ==
  ASSUME IInv, NEW p \in Procs, NEW w, set' = set, alone' = alone, Goes(p, w),
         w # "failed",
         Stays(p) => w \in {"up", "stopped", "crashed"},
         at[p] # "failed"
  PROVE  Blocked'
<1> SUFFICES ASSUME alone, NEW o \in Procs, NEW i \in 1..NSets, Passed(o, i)'
             PROVE  \E q \in Procs \ {o} : (set[q] = i /\ Stays(q))'
  BY DEF Blocked
<1>1. Passed(o, i)
  BY DEF Passed, Goes, IInv, TypeOK
<1>2. PICK q \in Procs \ {o} : set[q] = i /\ Stays(q)
  BY <1>1 DEF IInv, Blocked
<1>3. Stays(q)'
  BY <1>2 DEF Stays, Goes, IInv, TypeOK
<1> QED BY <1>2, <1>3

LEMMA BindQueryKeeps == ASSUME IInv, NEW p \in Procs, BindQuery(p), alone' = alone PROVE IInv'
<1>1. at' = [at EXCEPT ![p] = "login"] /\ set' = set /\ stray' = stray /\ at[p] = "query"
  BY DEF BindQuery, Goes
<1>2. /\ holder' \in [Ports -> Procs \cup {Free, Other}] /\ Undisturbed'
      /\ \A r \in Ports : holder'[r] = p => holder[r] = p \/ r = <<"query", set[p]>>
      /\ \A r \in Ports : holder[r] = p => holder'[r] = p
      /\ \A q \in Procs \ {p} : \A r \in Ports : holder'[r] = q <=> holder[r] = q
  <2>1. CASE Takes(p, "query")
    BY <2>1, TakeKeeps DEF Kinds
  <2>2. CASE UNCHANGED holder
    BY <2>2 DEF IInv, TypeOK, Undisturbed
  <2> QED BY <2>1, <2>2 DEF BindQuery
<1>3. TypeOK'
  BY <1>1, <1>2 DEF IInv, TypeOK, Kinds
<1>4. KeepsOneSet'
  BY <1>1, <1>2 DEF IInv, TypeOK, KeepsOneSet, Mine, Ports, Kinds, Ended
<1>5. Blocked'
  BY <1>1, BlockedKeeps DEF Goes, Stays
<1> QED BY <1>2, <1>3, <1>4, <1>5 DEF IInv

\* No process that holds the login port of its set is rolled back: whoever holds
\* the char port holds the login port as well.
LEMMA CharIsFree ==
  ASSUME IInv, alone, NEW p \in Procs, at[p] = "char"
  PROVE  holder[<<"char", set[p]>>] = Free
<1> DEFINE c == <<"char", set[p]>>
           l == <<"login", set[p]>>
<1>1. c \in Ports /\ l \in Ports
  BY DEF IInv, TypeOK, Ports, Kinds
<1>2. holder[l] = p
  BY DEF IInv, KeepsOneSet
<1>3. ASSUME NEW q \in Procs, holder[c] = q PROVE FALSE
  <2>1. c \in Mine(q)
    BY <1>1, <1>3 DEF Mine
  <2>2. set[q] = set[p]
    BY <2>1 DEF IInv, KeepsOneSet
  <2>3. at[q] = "up"
    BY <1>3, <2>2 DEF IInv, KeepsOneSet
  <2>4. holder[l] = q
    BY <2>2, <2>3 DEF IInv, KeepsOneSet
  <2> QED BY <1>2, <2>3, <2>4
<1> QED BY <1>1, <1>3 DEF IInv, TypeOK, Undisturbed

\* A busy login port belongs to another process, which stays on the set.
LEMMA LoginIsKept ==
  ASSUME IInv, alone, NEW p \in Procs, at[p] = "login",
         holder[<<"login", set[p]>>] # Free
  PROVE  \E q \in Procs \ {p} : set[q] = set[p] /\ at[q] \in {"char", "up"}
<1> DEFINE l == <<"login", set[p]>>
<1>1. l \in Ports
  BY DEF IInv, TypeOK, Ports, Kinds
<1>2. PICK q \in Procs : holder[l] = q
  BY <1>1 DEF IInv, TypeOK, Undisturbed
<1>3. q # p
  BY <1>2 DEF IInv, KeepsOneSet
<1>4. l \in Mine(q)
  BY <1>1, <1>2 DEF Mine
<1>5. set[q] = set[p]
  BY <1>4 DEF IInv, KeepsOneSet
<1>6. at[q] \in {"char", "up"}
  BY <1>2, <1>5 DEF IInv, KeepsOneSet
<1> QED BY <1>3, <1>5, <1>6

LEMMA RollBackKeeps ==
  ASSUME IInv, NEW p \in Procs, RollBack(p), alone' = alone,
         \/ at[p] = "login" /\ holder[<<"login", set[p]>>] # Free
         \/ at[p] = "char" /\ holder[<<"char", set[p]>>] # Free
  PROVE  IInv'
<1>1. /\ holder' \in [Ports -> Procs \cup {Free, Other}] /\ Undisturbed'
      /\ \A r \in Ports : holder'[r] # p
      /\ \A q \in Procs \ {p} : \A r \in Ports : holder'[r] = q <=> holder[r] = q
  BY ReleaseKeeps DEF RollBack
<1>2. /\ \A q \in Procs \ {p} : set'[q] = set[q] /\ at'[q] = at[q]
      /\ at'[p] \in {"query", "failed"}
      /\ set' \in [Procs -> 1..NSets]
      /\ at' \in [Procs -> Kinds \cup {"up"} \cup Ended]
  BY StartupAssumption DEF RollBack, Goes, IInv, TypeOK, Kinds, Ended
<1>3. stray' \in [Procs -> SUBSET Kinds]
  <2>1. {r[1] : r \in Mine(p)} \subseteq Kinds
    BY DEF Mine, Ports
  <2> QED BY <2>1 DEF RollBack, IInv, TypeOK
<1>4. TypeOK'
  <2>1. alone' \in BOOLEAN
    BY DEF IInv, TypeOK
  <2> QED BY <1>1, <1>2, <1>3, <2>1 DEF TypeOK
<1>5. KeepsOneSet'
  <2> SUFFICES ASSUME NEW q \in Procs
               PROVE  (/\ \A r \in Mine(q) : r[2] = set[q] /\ at[q] \notin Ended
                       /\ at[q] \in {"char", "up"} <=> holder[<<"login", set[q]>>] = q
                       /\ at[q] = "up" <=> holder[<<"char", set[q]>>] = q)'
    BY DEF KeepsOneSet
  <2>1. <<"login", set'[q]>> \in Ports /\ <<"char", set'[q]>> \in Ports
    BY <1>2 DEF Ports, Kinds
  <2>2. CASE q = p
    BY <2>1, <2>2, <1>1, <1>2 DEF Mine
  <2>3. CASE q # p
    BY <2>1, <2>3, <1>1, <1>2 DEF Mine, IInv, KeepsOneSet
  <2> QED BY <2>2, <2>3
<1>6. Blocked'
  <2> SUFFICES ASSUME alone, NEW o \in Procs, NEW i \in 1..NSets, Passed(o, i)'
               PROVE  \E q \in Procs \ {o} : (set[q] = i /\ Stays(q))'
    BY DEF Blocked
  <2>1. at[p] = "login" /\ holder[<<"login", set[p]>>] # Free
    BY CharIsFree
  <2>2. \E q \in Procs \ {o} : set[q] = i /\ Stays(q)
    <3>1. CASE Passed(o, i)
      BY <3>1 DEF IInv, Blocked
    <3>2. CASE ~Passed(o, i)
      <4>1. o = p /\ i = set[p]
        <5>1. o = p
          BY <3>2, <1>2 DEF Passed
        <5>2. CASE set[p] < NSets /\ set' = [set EXCEPT ![p] = @ + 1] /\ Goes(p, "query")
          BY <3>2, <5>1, <5>2 DEF Passed, Goes, IInv, TypeOK
        <5>3. CASE set[p] = NSets /\ Goes(p, "failed") /\ UNCHANGED set
          BY <3>2, <5>1, <5>3, StartupAssumption DEF Passed, Goes, IInv, TypeOK
        <5> QED BY <5>1, <5>2, <5>3 DEF RollBack
      <4> QED BY <4>1, <2>1, LoginIsKept DEF Stays
    <3> QED BY <3>1, <3>2
  <2>3. PICK q \in Procs \ {o} : set[q] = i /\ Stays(q)
    BY <2>2
  <2>4. q # p
    BY <2>1, <2>3 DEF Stays
  <2> QED BY <2>3, <2>4, <1>2 DEF Stays
<1> QED BY <1>1, <1>4, <1>5, <1>6 DEF IInv

LEMMA BindLoginKeeps == ASSUME IInv, NEW p \in Procs, BindLogin(p), alone' = alone PROVE IInv'
<1>1. CASE Takes(p, "login") /\ Goes(p, "char") /\ UNCHANGED <<set, stray>>
  <2>1. at' = [at EXCEPT ![p] = "char"] /\ set' = set /\ stray' = stray /\ at[p] = "login"
    BY <1>1 DEF BindLogin, Goes
  <2>2. /\ holder' \in [Ports -> Procs \cup {Free, Other}] /\ Undisturbed'
        /\ \A r \in Ports : holder'[r] = p <=> holder[r] = p \/ r = <<"login", set[p]>>
        /\ \A q \in Procs \ {p} : \A r \in Ports : holder'[r] = q <=> holder[r] = q
    BY <1>1, TakeKeeps DEF Kinds
  <2>3. TypeOK'
    BY <2>1, <2>2 DEF IInv, TypeOK, Kinds
  <2>4. KeepsOneSet'
    BY <2>1, <2>2 DEF IInv, TypeOK, KeepsOneSet, Mine, Ports, Kinds, Ended
  <2>5. Blocked'
    BY <2>1, BlockedKeeps DEF Goes, Stays
  <2> QED BY <2>2, <2>3, <2>4, <2>5 DEF IInv
<1>2. CASE holder[<<"login", set[p]>>] # Free /\ RollBack(p)
  BY <1>2, RollBackKeeps DEF BindLogin
<1> QED BY <1>1, <1>2 DEF BindLogin

LEMMA BindCharKeeps == ASSUME IInv, NEW p \in Procs, BindChar(p), alone' = alone PROVE IInv'
<1>1. CASE Takes(p, "char") /\ Goes(p, "up") /\ UNCHANGED <<set, stray>>
  <2>1. at' = [at EXCEPT ![p] = "up"] /\ set' = set /\ stray' = stray /\ at[p] = "char"
    BY <1>1 DEF BindChar, Goes
  <2>2. /\ holder' \in [Ports -> Procs \cup {Free, Other}] /\ Undisturbed'
        /\ \A r \in Ports : holder'[r] = p <=> holder[r] = p \/ r = <<"char", set[p]>>
        /\ \A q \in Procs \ {p} : \A r \in Ports : holder'[r] = q <=> holder[r] = q
    BY <1>1, TakeKeeps DEF Kinds
  <2>3. TypeOK'
    BY <2>1, <2>2 DEF IInv, TypeOK, Kinds
  <2>4. KeepsOneSet'
    BY <2>1, <2>2 DEF IInv, TypeOK, KeepsOneSet, Mine, Ports, Kinds, Ended
  <2>5. Blocked'
    BY <2>1, BlockedKeeps DEF Goes, Stays
  <2> QED BY <2>2, <2>3, <2>4, <2>5 DEF IInv
<1>2. CASE holder[<<"char", set[p]>>] # Free /\ RollBack(p)
  BY <1>2, RollBackKeeps DEF BindChar
<1> QED BY <1>1, <1>2 DEF BindChar

\* The end of a process, by a signal or by one of its stray handlers.
LEMMA EndingKeeps ==
  ASSUME IInv, NEW p \in Procs, NEW w \in {"stopped", "crashed"},
         Releases(p), Goes(p, w), set' = set, alone' = alone, at[p] # "failed",
         stray' = [stray EXCEPT ![p] = {}]
  PROVE  IInv'
<1>1. /\ holder' \in [Ports -> Procs \cup {Free, Other}] /\ Undisturbed'
      /\ \A r \in Ports : holder'[r] # p
      /\ \A q \in Procs \ {p} : \A r \in Ports : holder'[r] = q <=> holder[r] = q
  BY ReleaseKeeps
<1>2. TypeOK'
  BY <1>1 DEF Goes, IInv, TypeOK, Ended
<1>3. KeepsOneSet'
  BY <1>1 DEF Goes, IInv, TypeOK, KeepsOneSet, Mine, Ports, Kinds, Ended
<1>4. Blocked'
  BY BlockedKeeps
<1> QED BY <1>1, <1>2, <1>3, <1>4 DEF IInv

LEMMA RunStrayKeeps == ASSUME IInv, NEW p \in Procs, RunStray(p), alone' = alone PROVE IInv'
<1>1. CASE UNCHANGED <<holder, at>>
  <2>1. TypeOK'
    BY <1>1 DEF RunStray, IInv, TypeOK
  <2>2. KeepsOneSet' /\ Undisturbed'
    BY <1>1 DEF RunStray, IInv, KeepsOneSet, Undisturbed, Mine
  <2>3. Blocked'
    BY <1>1 DEF RunStray, IInv, Blocked, Passed, Stays
  <2> QED BY <2>1, <2>2, <2>3 DEF IInv
<1>2. CASE Releases(p) /\ Goes(p, "crashed")
  BY <1>2, EndingKeeps DEF RunStray
<1> QED BY <1>1, <1>2 DEF RunStray

LEMMA OtherKeeps == ASSUME IInv, NEW r \in Contended, OtherProgram(r) PROVE IInv'
<1>1. r \in Ports
  BY StartupAssumption
<1>2. /\ holder' \in [Ports -> Procs \cup {Free, Other}]
      /\ \A q \in Procs : \A s \in Ports : holder'[s] = q <=> holder[s] = q
  BY <1>1, StartupAssumption DEF OtherProgram, IInv, TypeOK
<1>3. TypeOK'
  <2>1. alone' \in BOOLEAN
    BY DEF OtherProgram, IInv, TypeOK
  <2> QED BY <1>2, <2>1 DEF OtherProgram, IInv, TypeOK
<1>4. KeepsOneSet'
  BY <1>2 DEF OtherProgram, IInv, TypeOK, KeepsOneSet, Mine, Ports, Kinds
<1>5. ~alone'
  BY <1>1 DEF OtherProgram, IInv, Undisturbed
<1>6. Undisturbed' /\ Blocked'
  BY <1>5 DEF Undisturbed, Blocked
<1> QED BY <1>3, <1>4, <1>6 DEF IInv

LEMMA NextIInv == IInv /\ [Next]_vars => IInv'
<1> SUFFICES ASSUME IInv, [Next]_vars PROVE IInv'
  OBVIOUS
<1>1. ASSUME NEW p \in Procs, End(p), alone' = alone PROVE IInv'
  BY <1>1, EndingKeeps DEF End, Ended
<1>2. CASE UNCHANGED vars
  BY <1>2 DEF vars, IInv, TypeOK, KeepsOneSet, Undisturbed, Blocked, Mine, Passed, Stays
<1> QED BY <1>1, <1>2, BindQueryKeeps, BindLoginKeeps, BindCharKeeps, RunStrayKeeps,
          OtherKeeps DEF Next

\* No process fails while there are as many sets: it would have passed each set
\* by for another process, and no process keeps two.
LEMMA IInvStarts == IInv => EveryoneStarts
<1> SUFFICES ASSUME IInv, alone, Cardinality(Procs) <= NSets,
                    NEW p \in Procs, at[p] = "failed"
             PROVE  FALSE
  BY DEF EveryoneStarts
<1> DEFINE Rest == Procs \ {p}
           Kept == {set[q] : q \in Rest}
<1>1. 1..NSets \subseteq Kept
  BY DEF IInv, Blocked, Passed
<1>2. IsFiniteSet(Rest) /\ Cardinality(Rest) = Cardinality(Procs) - 1
  BY StartupAssumption, FS_RemoveElement
<1>3. IsFiniteSet(Kept) /\ Cardinality(Kept) <= Cardinality(Rest)
  <2> DEFINE keeps == [q \in Rest |-> set[q]]
  <2>1. keeps \in Surjection(Rest, Kept)
    BY DEF Surjection
  <2> HIDE DEF keeps, Kept, Rest
  <2> QED BY <1>2, <2>1, FS_Surjection
<1>4. Cardinality(1..NSets) = NSets
  BY StartupAssumption, FS_Interval
<1>5. Cardinality(1..NSets) <= Cardinality(Kept)
  BY <1>1, <1>3, FS_Subset
<1>6. Cardinality(Procs) \in Nat /\ Cardinality(Rest) \in Nat /\ Cardinality(Kept) \in Nat
  BY <1>2, <1>3, StartupAssumption, FS_CardinalityType
<1> QED BY <1>2, <1>3, <1>4, <1>5, <1>6, StartupAssumption

LEMMA Invariance == Spec => []IInv
  BY InitIInv, NextIInv, PTL DEF Spec

-------------------------------------------------------------------------------
\* The ports, sets and states of the processes keep their types: no process
\* looks past the last set.
THEOREM TypeCorrect == Spec => []TypeOK
<1>1. IInv => TypeOK
  BY DEF IInv
<1> QED BY <1>1, Invariance, PTL

\* A rolled back set and an ended process hold no port, whoever else is binding.
THEOREM HoldsOneSet == Spec => []KeepsOneSet
<1>1. IInv => KeepsOneSet
  BY DEF IInv
<1> QED BY <1>1, Invariance, PTL

\* As many sets as processes are enough, for any number of processes.
THEOREM EnoughSets == Spec => []EveryoneStarts
  BY IInvStarts, Invariance, PTL
===============================================================================
