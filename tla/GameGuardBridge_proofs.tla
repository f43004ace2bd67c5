------------------------ MODULE GameGuardBridge_proofs ------------------------
(* Theorems about GameGuardBridge, for any wires, challenges and retry limit. *)
EXTENDS GameGuardBridge, TLAPS

\* The inductive invariant.  EachSettledOnce needs to know nothing of copies,
\* but the bound on copies and retries needs RetriesCountCopies.
Inv == TypeOK /\ EachSettledOnce /\ RetriesCountCopies

THEOREM InitInv == Init => Inv
<1> SUFFICES ASSUME Init PROVE Inv
  OBVIOUS
<1>1. pending \in BOOLEAN /\ expired \in BOOLEAN
  BY DEF Init
<1>2. QED
  BY <1>1, BridgeAssumption DEF Init, Inv, TypeOK, EachSettledOnce, RetriesCountCopies

THEOREM StepInv == Inv /\ [Next]_vars => Inv'
<1> SUFFICES ASSUME Inv, [Next]_vars PROVE Inv'
  OBVIOUS
<1> USE BridgeAssumption DEF Inv, TypeOK, EachSettledOnce, RetriesCountCopies
<1>1. CASE UNCHANGED vars
  BY <1>1 DEF vars, bridgeVars
<1>2. CASE Next
  <2>0. live' \in SUBSET Wires
    BY <1>2 DEF Next
  <2>1. CASE Bind
    BY <2>0, <2>1 DEF Bind, BindClientWire, transaction, history
  <2>2. CASE Ask
    <3>1. PICK q \in Queries : OnQuery(q)
      BY <2>2 DEF Ask
    <3>2. CASE Drop
      BY <2>0, <3>2 DEF Drop, bridgeVars
    <3>3. CASE Forward(q)
      <4>1. pending' \in BOOLEAN /\ expired' \in BOOLEAN
        BY <3>3 DEF Forward, DropsQuery
      <4>2. QED
        BY <2>0, <3>3, <4>1 DEF Forward, DropsQuery
    <3>4. CASE ForwardFails(q)
      BY <2>0, <3>4 DEF ForwardFails, DropsQuery, history
    <3>5. QED
      BY <3>1, <3>2, <3>3, <3>4 DEF OnQuery
  <2>3. CASE Traffic
    <3>1. PICK f \in Frames : MaybeConsume(f)
      BY <2>3 DEF Traffic
    <3>2. CASE Resend
      <4>1. pending' \in BOOLEAN /\ expired' \in BOOLEAN
        BY <3>2 DEF Resend, RetriesLeft
      <4>2. QED
        BY <2>0, <3>2, <4>1 DEF Resend, RetriesLeft
    <3>3. CASE ResendFails
      <4>1. pending' \in BOOLEAN /\ expired' \in BOOLEAN
        BY <3>3 DEF ResendFails, Abandon, Reset
      <4>2. QED
        BY <2>0, <3>3, <4>1 DEF ResendFails, Abandon, Reset
    <3>4. CASE GiveUp
      <4>1. pending' \in BOOLEAN /\ expired' \in BOOLEAN
        BY <3>4 DEF GiveUp, Abandon, Reset
      <4>2. QED
        BY <2>0, <3>4, <4>1 DEF GiveUp, Abandon, Reset
    <3>5. CASE Answer(f)
      <4>1. pending' \in BOOLEAN /\ expired' \in BOOLEAN
        BY <3>5 DEF Answer, Reset
      <4>2. QED
        BY <2>0, <3>5, <4>1 DEF Answer, Reset
    <3>6. CASE Pass(f)
      BY <2>0, <3>6 DEF Pass, bridgeVars
    <3>7. QED
      BY <3>1, <3>2, <3>3, <3>4, <3>5, <3>6 DEF MaybeConsume
  <2>4. CASE Expire
    <3>1. expired' \in BOOLEAN
      BY <2>4 DEF Expire
    <3>2. QED
      BY <2>0, <2>4, <3>1 DEF Expire, history
  <2>5. CASE UNCHANGED bridgeVars
    BY <2>0, <2>5 DEF bridgeVars
  <2>6. QED
    BY <1>2, <2>1, <2>2, <2>3, <2>4, <2>5 DEF Next
<1>3. QED
  BY <1>1, <1>2

LEMMA Invariance == Spec => []Inv
<1>1. QED
  BY InitInv, StepInv, PTL DEF Spec

\* The fields keep their types: retry_count_ never passes max_retries_ and at
\* most max_retries_ + 1 copies of a challenge are ever sent.
THEOREM TypeCorrect == Spec => []TypeOK
<1>1. Inv => TypeOK
  BY DEF Inv
<1>2. QED
  BY <1>1, Invariance, PTL

\* Every challenge that became pending is answered once, abandoned once or
\* still pending, and retry_count_ and last_gg_query_ always belong to the
\* pending one.
THEOREM BalancedBooks == Spec => []BooksBalance
<1>1. Inv => BooksBalance
  BY DEF Inv, BooksBalance
<1>2. QED
  BY <1>1, Invariance, PTL

\* With its client still there, a challenge is abandoned only past the deadline
\* of its last copy.
THEOREM GivesUpLate == Spec => NoEarlyGiveUp
<1>1. Inv /\ [Next]_vars
        => [abandoned' # abandoned /\ CanSend => copies = MaxRetries + 1 /\ expired]_vars
  <2> SUFFICES ASSUME Inv, Next, abandoned' # abandoned, CanSend
               PROVE  copies = MaxRetries + 1 /\ expired
    OBVIOUS
  <2> USE BridgeAssumption DEF Inv, TypeOK, RetriesCountCopies
  <2>1. PICK f \in Frames : MaybeConsume(f)
    BY DEF Next, Bind, BindClientWire, Ask, OnQuery, Drop, Forward, ForwardFails,
           Traffic, Expire, history, bridgeVars
  <2>2. GiveUp
    BY <2>1 DEF MaybeConsume, Resend, ResendFails, Answer, Pass, Reset, bridgeVars
  <2>3. QED
    BY <2>2 DEF GiveUp, RetriesLeft
<1>2. QED
  BY <1>1, Invariance, PTL DEF Spec, NoEarlyGiveUp

\* The bridge implements GGExchange: a challenge at a time, at most
\* MaxRetries + 1 copies of it, one settlement.
THEOREM Implements == Spec => ImplementsExchange
<1> USE BridgeAssumption DEF Exchange!Close
<1>1. Init => Exchange!Init
  BY DEF Init, Exchange!Init
<1>2. Inv /\ [Next]_vars => [Exchange!Next]_Exchange!vars
  <2> SUFFICES ASSUME Inv, [Next]_vars
               PROVE  [Exchange!Next]_Exchange!vars
    OBVIOUS
  <2> USE DEF Inv, TypeOK, RetriesCountCopies
  <2>1. CASE UNCHANGED bridgeVars
    BY <2>1 DEF bridgeVars, Exchange!vars
  <2>2. CASE Bind
    BY <2>2 DEF Bind, BindClientWire, transaction, history, Exchange!vars
  <2>3. CASE Ask
    <3>1. PICK q \in Queries : OnQuery(q)
      BY <2>3 DEF Ask
    <3>2. CASE Drop
      BY <2>1, <3>2 DEF Drop
    <3>3. CASE Forward(q)
      <4>1. Exchange!Accept(q)
        BY <3>3 DEF Forward, DropsQuery, Exchange!Accept
      <4>2. QED
        BY <4>1 DEF Exchange!Next
    <3>4. CASE ForwardFails(q)
      BY <3>4 DEF ForwardFails, DropsQuery, history, Exchange!vars
    <3>5. QED
      BY <3>1, <3>2, <3>3, <3>4 DEF OnQuery
  <2>4. CASE Traffic
    <3>1. PICK f \in Frames : MaybeConsume(f)
      BY <2>4 DEF Traffic
    <3>2. CASE Resend
      <4>1. Exchange!Resend
        BY <3>2 DEF Resend, RetriesLeft, Exchange!Resend
      <4>2. QED
        BY <4>1 DEF Exchange!Next
    <3>3. CASE ResendFails \/ GiveUp
      <4>1. Exchange!Abandon
        BY <3>3 DEF ResendFails, GiveUp, Abandon, Reset, Exchange!Abandon
      <4>2. QED
        BY <4>1 DEF Exchange!Next
    <3>4. CASE Answer(f)
      <4>1. Exchange!Answer
        BY <3>4 DEF Answer, Reset, Exchange!Answer
      <4>2. QED
        BY <4>1 DEF Exchange!Next
    <3>5. CASE Pass(f)
      BY <2>1, <3>5 DEF Pass
    <3>6. QED
      BY <3>1, <3>2, <3>3, <3>4, <3>5 DEF MaybeConsume
  <2>5. CASE Expire
    BY <2>5 DEF Expire, history, Exchange!vars
  <2>6. QED
    BY <2>1, <2>2, <2>3, <2>4, <2>5 DEF Next, vars
<1>3. QED
  BY <1>1, <1>2, Invariance, PTL DEF Spec, ImplementsExchange, Exchange!Spec
===============================================================================
