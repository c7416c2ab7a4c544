----------------------- MODULE EvaluationSessionProofs -----------------------
(***************************************************************************)
(* Proofs about the request scheduler and about the collection of a Case   *)
(* that it is part of.                                                     *)
(*                                                                         *)
(* Of the scheduler, for any number of calls, any costs, capacity, budget, *)
(* duration and strategy: the slots, the budget and the stop, the bounded  *)
(* room it implements, and what the request records say of a phase, the    *)
(* overlap they show and the order of a replayed trace.  These theorems    *)
(* cite the assumptions of RequestScheduler.tla alone.                     *)
(*                                                                         *)
(* Of the collection, for any number of samples, any requests of theirs,   *)
(* and whatever of them raises: it is a behaviour of the scheduler, so     *)
(* that what is proved of it holds here, and the pool and its samples keep *)
(* what the rows and the window say.                                       *)
(***************************************************************************)
EXTENDS EvaluationSessionProperties, FiniteSetTheorems, TLAPS

INSTANCE Folding WITH Op <- +

USE DEF Unlimited, NoOffset, allButPc

-----------------------------------------------------------------------------
(* The scheduler *)

ParameterFacts ==
  /\ Capacity \in Nat \ {0}
  /\ NumRequests \in Nat \cup {-1}
  /\ MaxDuration \in (Nat \ {0}) \cup {-1}

LEMMA Parameters == ParameterFacts
  BY LimitsAssumption DEF ParameterFacts, Capacity

LEMMA DivisionNatural ==
  ASSUME NEW m \in Nat, NEW n \in Nat \ {0}
  PROVE  m \div n \in Nat
  OBVIOUS

(***************************************************************************)
(* Type correctness.                                                       *)
(***************************************************************************)
LEMMA InitType == Init => TypeOK
  BY BoundsAssumption, CallsAssumption
  DEF Init, TypeOK, Times, Threads, Steps, Reasons

LEMMA NextType == TypeOK /\ [Next]_vars => TypeOK'
<1> SUFFICES ASSUME TypeOK, [Next]_vars PROVE TypeOK'
  OBVIOUS
<1> USE DEF TypeOK, Times, Threads, Steps, Reasons
<1>1. CASE Tick
  BY <1>1, BoundsAssumption DEF Tick, slots, strategyState, records
<1>2. CASE RequestStop
  BY <1>2 DEF RequestStop, slots, strategyState, records
<1>3. CASE PullerStep
  BY <1>3 DEF PullerStep, LookAtStops, PullerConcludes, Assigned,
              slots, strategyState, records
<1>4. ASSUME NEW c \in Calls, CallStep(c) PROVE TypeOK'
  <2>1. CASE Plan(c)
    <3>1. plan' \in [Calls -> [offset : Nat \cup {-1}, order : Nat]]
      <4>1. TraceOffset[c] \div ReplaySpeed \in Nat
        BY StrategyAssumption, DivisionNatural
      <4>2. TraceIndex[c] \in Nat
        BY StrategyAssumption
      <4>. QED BY <2>1, <4>1, <4>2 DEF Plan
    <3>2. nextOffset' \in Nat
      BY <2>1, StrategyAssumption DEF Plan
    <3>. QED BY <2>1, <3>1, <3>2 DEF Plan, slots
  <2>2. CASE PlanFails(c)
    BY <2>2 DEF PlanFails, slots, strategyState, records
  <2>3. CASE LookAtStops(c)
    BY <2>3 DEF LookAtStops, slots, strategyState, records
  <2>4. CASE ConcludeStops(c)
    BY <2>4 DEF ConcludeStops, Assigned, slots, strategyState, records
  <2>5. CASE Admit(c)
    <3>1. plan[c].offset = -1 \/ plan[c].offset \in Nat
      OBVIOUS
    <3>2. clock \in Nat /\ Cost[c] \in Nat
      BY BoundsAssumption, CostAssumption
    <3>3. ticket' \in [Calls -> [index : Nat, scheduled : Nat,
                                started : 0..MaxTime]]
      BY <2>5, <3>1, <3>2 DEF Admit, TakeSlot
    <3>4. /\ count' \in Nat /\ active' \in Int /\ peak' \in Int
          /\ nextOrder' \in Nat /\ stragglers' \in Nat
      BY <2>5, <3>2 DEF Admit, TakeSlot
    <3>5. pc' \in [Threads -> Steps]
      BY <2>5 DEF Admit, TakeSlot
    <3>. QED BY <2>5, <3>3, <3>4, <3>5 DEF Admit, TakeSlot
  <2>6. CASE Wait(c)
    BY <2>6 DEF Wait, slots, strategyState, records
  <2>7. CASE Wake(c)
    BY <2>7 DEF Wake, slots, strategyState, records
  <2>8. CASE EmitStarted(c)
    BY <2>8 DEF EmitStarted, slots, strategyState, records
  <2>9. CASE Finish(c)
    BY <2>9 DEF Finish, slots, strategyState
  <2>10. CASE Release(c)
    BY <2>10 DEF Release, strategyState, records
  <2>11. CASE EmitFinished(c)
    BY <2>11 DEF EmitFinished, slots, strategyState, records
  <2>. QED BY <1>4, <2>1, <2>2, <2>3, <2>4, <2>5, <2>6, <2>7, <2>8, <2>9,
              <2>10, <2>11 DEF CallStep
<1>5. CASE UNCHANGED vars
  BY <1>5 DEF vars
<1>. QED BY <1>1, <1>2, <1>3, <1>4, <1>5 DEF Next, Terminated

\* Every state has the shape the code gives it.
THEOREM TypeCorrect == Spec => []TypeOK
  BY InitType, NextType, PTL DEF Spec

(***************************************************************************)
(* The lock.  A call becomes critical only when no other call is.          *)
(***************************************************************************)
LEMMA NextLock == TypeOK /\ LockHeldOnce /\ [Next]_vars => LockHeldOnce'
<1> SUFFICES ASSUME TypeOK, LockHeldOnce, [Next]_vars PROVE LockHeldOnce'
  OBVIOUS
<1>0. pc \in [Threads -> Steps]
  BY DEF TypeOK
<1> USE DEF LockHeldOnce, Critical, LockFree
<1>1. CASE Tick \/ RequestStop \/ UNCHANGED vars
  BY <1>1 DEF Tick, RequestStop, vars
<1>2. CASE PullerStep
  BY <1>0, <1>2, CallsAssumption
  DEF PullerStep, LookAtStops, PullerConcludes, Threads
<1>3. ASSUME NEW c \in Calls, CallStep(c) PROVE LockHeldOnce'
  <2>1. CASE Plan(c)
    BY <1>0, <2>1 DEF Plan, Threads
  <2>2. CASE PlanFails(c)
    BY <1>0, <2>2 DEF PlanFails, Threads
  <2>3. CASE LookAtStops(c)
    BY <1>0, <2>3 DEF LookAtStops, Threads
  <2>4. CASE ConcludeStops(c)
    BY <1>0, <2>4 DEF ConcludeStops, Threads
  <2>5. CASE Admit(c)
    BY <1>0, <2>5 DEF Admit, TakeSlot, Threads
  <2>6. CASE Wait(c)
    BY <1>0, <2>6 DEF Wait, Threads
  <2>7. CASE Wake(c)
    BY <1>0, <2>7 DEF Wake, Threads
  <2>8. CASE EmitStarted(c)
    BY <1>0, <2>8 DEF EmitStarted, Threads
  <2>9. CASE Finish(c)
    BY <1>0, <2>9 DEF Finish, Threads
  <2>10. CASE Release(c)
    BY <1>0, <2>10 DEF Release, Threads
  <2>11. CASE EmitFinished(c)
    BY <1>0, <2>11 DEF EmitFinished, Threads
  <2>. QED BY <1>3, <2>1, <2>2, <2>3, <2>4, <2>5, <2>6, <2>7, <2>8, <2>9,
              <2>10, <2>11 DEF CallStep
<1>. QED BY <1>1, <1>2, <1>3 DEF Next, Terminated

(***************************************************************************)
(* Slots.  Holding grows by the admitted call, shrinks by the released     *)
(* one, and no other step changes it.                                      *)
(***************************************************************************)
LEMMA HoldingFinite == IsFiniteSet(Holding) /\ Cardinality(Holding) \in Nat
<1>1. IsFiniteSet(Holding)
  BY CallsAssumption, FS_Subset DEF Holding
<1>. QED BY <1>1, FS_CardinalityType

LEMMA NextSlots == TypeOK /\ SlotAccounting /\ [Next]_vars => SlotAccounting'
<1> SUFFICES ASSUME TypeOK, SlotAccounting, [Next]_vars
             PROVE  SlotAccounting'
  OBVIOUS
<1>0. pc \in [Threads -> Steps] /\ active \in Int /\ peak \in Int
  BY DEF TypeOK
<1>1. ASSUME Holding' = Holding, UNCHANGED <<active, peak>>
      PROVE  SlotAccounting'
  BY <1>1 DEF SlotAccounting
<1>2. CASE Tick \/ RequestStop \/ UNCHANGED vars
  BY <1>1, <1>2 DEF Tick, RequestStop, vars, slots, Holding
<1>3. CASE PullerStep
  <2>1. Holding' = Holding
    BY <1>0, <1>3, CallsAssumption
    DEF PullerStep, LookAtStops, PullerConcludes, Threads, Holding
  <2>. QED BY <1>1, <1>3, <2>1
           DEF PullerStep, LookAtStops, PullerConcludes, slots
<1>4. ASSUME NEW c \in Calls, CallStep(c) PROVE SlotAccounting'
  <2>1. CASE Plan(c) \/ PlanFails(c)
    BY <1>0, <1>1, <2>1 DEF Plan, PlanFails, Threads, Holding, slots
  <2>2. CASE LookAtStops(c) \/ ConcludeStops(c)
    BY <1>0, <1>1, <2>2
    DEF LookAtStops, ConcludeStops, Threads, Holding, slots
  <2>3. CASE Admit(c)
    <3>1. Holding' = Holding \cup {c} /\ c \notin Holding
      BY <1>0, <2>3 DEF Admit, TakeSlot, Threads, Holding
    <3>2. Cardinality(Holding') = Cardinality(Holding) + 1
      BY <3>1, HoldingFinite, FS_AddElement
    <3>3. /\ active' = active + 1 /\ active < Capacity
          /\ peak' = IF active' > peak THEN active' ELSE peak
      BY <2>3 DEF Admit, TakeSlot
    <3>. QED BY <1>0, <3>2, <3>3, Parameters DEF SlotAccounting, ParameterFacts
  <2>4. CASE Wait(c) \/ Wake(c)
    BY <1>0, <1>1, <2>4 DEF Wait, Wake, Threads, Holding, slots
  <2>5. CASE EmitStarted(c) \/ Finish(c)
    BY <1>0, <1>1, <2>5 DEF EmitStarted, Finish, Threads, Holding, slots
  <2>6. CASE Release(c)
    <3>1. Holding' = Holding \ {c} /\ c \in Holding
      BY <1>0, <2>6 DEF Release, Threads, Holding
    <3>2. Cardinality(Holding') = Cardinality(Holding) - 1
      BY <3>1, HoldingFinite, FS_RemoveElement
    <3>. QED BY <1>0, <2>6, <3>2, Parameters
             DEF Release, SlotAccounting, ParameterFacts
  <2>7. CASE EmitFinished(c)
    BY <1>0, <1>1, <2>7 DEF EmitFinished, Threads, Holding, slots
  <2>. QED BY <1>4, <2>1, <2>2, <2>3, <2>4, <2>5, <2>6, <2>7 DEF CallStep
<1>. QED BY <1>2, <1>3, <1>4 DEF Next, Terminated

(***************************************************************************)
(* Budget.  Between ConcludeStops and Admit the call holds the lock, so    *)
(* what it could afford it still can.                                      *)
(***************************************************************************)
Budget == DecisionAffordable /\ BudgetKept

LEMMA NextBudget ==
  TypeOK /\ LockHeldOnce /\ Budget /\ [Next]_vars => Budget'
<1> SUFFICES ASSUME TypeOK, LockHeldOnce, Budget, [Next]_vars PROVE Budget'
  OBVIOUS
<1>0. pc \in [Threads -> Steps] /\ count \in Nat
  BY DEF TypeOK
<1> USE DEF Budget, DecisionAffordable, BudgetKept, Unaffordable
<1>1. CASE Tick \/ RequestStop \/ UNCHANGED vars
  BY <1>1 DEF Tick, RequestStop, vars, slots
<1>2. CASE PullerStep
  BY <1>0, <1>2, CallsAssumption
  DEF PullerStep, LookAtStops, PullerConcludes, Threads, slots
<1>3. ASSUME NEW c \in Calls, CallStep(c) PROVE Budget'
  <2>1. CASE Plan(c) \/ PlanFails(c)
    BY <1>0, <2>1 DEF Plan, PlanFails, Threads, slots
  <2>2. CASE LookAtStops(c) \/ ConcludeStops(c)
    BY <1>0, <2>2 DEF LookAtStops, ConcludeStops, Threads, slots
  <2>3. CASE Admit(c)
    <3>1. \A d \in Calls : pc'[d] # "decide"
      BY <1>0, <2>3 DEF Admit, TakeSlot, Threads, LockHeldOnce, Critical
    <3>2. count' = count + Cost[c] /\ ~Unaffordable(c)
      BY <2>3 DEF Admit, TakeSlot
    <3>. QED BY <1>0, <3>1, <3>2, Parameters, CostAssumption
             DEF ParameterFacts
  <2>4. CASE Wait(c) \/ Wake(c)
    BY <1>0, <2>4 DEF Wait, Wake, Threads, slots
  <2>5. CASE EmitStarted(c) \/ Finish(c)
    BY <1>0, <2>5 DEF EmitStarted, Finish, Threads, slots
  <2>6. CASE Release(c) \/ EmitFinished(c)
    BY <1>0, <2>6 DEF Release, EmitFinished, Threads, slots
  <2>. QED BY <1>3, <2>1, <2>2, <2>3, <2>4, <2>5, <2>6 DEF CallStep
<1>. QED BY <1>1, <1>2, <1>3 DEF Next, Terminated

(***************************************************************************)
(* Request identities.  A new ticket starts at `count`, above every other. *)
(***************************************************************************)
LEMMA NextIdentities ==
  TypeOK /\ IdentitiesDisjoint /\ [Next]_vars => IdentitiesDisjoint'
<1> SUFFICES ASSUME TypeOK, IdentitiesDisjoint, [Next]_vars
             PROVE  IdentitiesDisjoint'
  OBVIOUS
<1>0. /\ pc \in [Threads -> Steps] /\ count \in Nat
      /\ ticket \in [Calls -> [index : Nat, scheduled : Nat, started : Times]]
      /\ Cost \in [Calls -> Nat \ {0}]
  BY CostAssumption DEF TypeOK
<1>1. ASSUME Admitted' = Admitted, UNCHANGED <<count, ticket>>
      PROVE  IdentitiesDisjoint'
  BY <1>1 DEF IdentitiesDisjoint
<1>2. CASE Tick \/ RequestStop \/ UNCHANGED vars
  BY <1>1, <1>2 DEF Tick, RequestStop, vars, slots, records, Admitted
<1>3. CASE PullerStep
  <2>1. Admitted' = Admitted
    BY <1>0, <1>3, CallsAssumption
    DEF PullerStep, LookAtStops, PullerConcludes, Threads, Admitted
  <2>. QED BY <1>1, <1>3, <2>1
           DEF PullerStep, LookAtStops, PullerConcludes, slots, records
<1>4. ASSUME NEW c \in Calls, CallStep(c) PROVE IdentitiesDisjoint'
  <2>1. CASE Plan(c) \/ PlanFails(c)
    BY <1>0, <1>1, <2>1
    DEF Plan, PlanFails, Threads, Admitted, slots, records
  <2>2. CASE LookAtStops(c) \/ ConcludeStops(c)
    BY <1>0, <1>1, <2>2
    DEF LookAtStops, ConcludeStops, Threads, Admitted, slots, records
  <2>3. CASE Admit(c)
    <3>1. Admitted' = Admitted \cup {c} /\ c \notin Admitted
      BY <1>0, <2>3 DEF Admit, TakeSlot, Threads, Admitted
    <3>2. /\ ticket'[c].index = count
          /\ \A d \in Admitted : ticket'[d] = ticket[d]
          /\ count' = count + Cost[c]
      BY <1>0, <2>3, <3>1 DEF Admit, TakeSlot, Admitted
    <3>3. \A d \in Admitted : ticket'[d].index + Cost[d] <= count
      BY <3>2 DEF IdentitiesDisjoint
    <3>4. \A d \in Admitted' : ticket'[d].index + Cost[d] <= count'
      <4>1. \A d \in Admitted : ticket[d].index \in Nat /\ Cost[d] \in Nat
        BY <1>0 DEF Admitted
      <4>. QED BY <1>0, <3>1, <3>2, <3>3, <4>1
    <3>5. \A d, e \in Admitted' :
            d # e => \/ ticket'[d].index + Cost[d] <= ticket'[e].index
                     \/ ticket'[e].index + Cost[e] <= ticket'[d].index
      BY <3>1, <3>2, <3>3 DEF IdentitiesDisjoint
    <3>. QED BY <3>4, <3>5 DEF IdentitiesDisjoint
  <2>4. CASE Wait(c) \/ Wake(c)
    BY <1>0, <1>1, <2>4 DEF Wait, Wake, Threads, Admitted, slots, records
  <2>5. CASE EmitStarted(c) \/ Finish(c)
    BY <1>0, <1>1, <2>5
    DEF EmitStarted, Finish, Threads, Admitted, slots, records
  <2>6. CASE Release(c) \/ EmitFinished(c)
    BY <1>0, <1>1, <2>6
    DEF Release, EmitFinished, Threads, Admitted, slots, records
  <2>. QED BY <1>4, <2>1, <2>2, <2>3, <2>4, <2>5, <2>6 DEF CallStep
<1>. QED BY <1>2, <1>3, <1>4 DEF Next, Terminated

(***************************************************************************)
(* Reasons.  What makes a reason true stays true: the stop file is never   *)
(* removed, time and the count only grow.                                  *)
(***************************************************************************)
Truth == PendingTruthful /\ ReasonTruthful

LEMMA ConditionsStay ==
  TypeOK /\ [Next]_vars => /\ stopFile => stopFile'
                           /\ DurationDue => DurationDue'
                           /\ BudgetSpent => BudgetSpent'
<1> SUFFICES ASSUME TypeOK, [Next]_vars
             PROVE  /\ stopFile => stopFile'
                    /\ clock' >= clock
                    /\ count' >= count
  BY BoundsAssumption, Parameters, NextType
  DEF DurationDue, BudgetSpent, TypeOK, Times, ParameterFacts
<1>0. clock \in Nat /\ count \in Nat
  BY BoundsAssumption DEF TypeOK, Times
<1>1. CASE Tick \/ RequestStop \/ PullerStep \/ UNCHANGED vars
  BY <1>0, <1>1 DEF Tick, RequestStop, PullerStep, LookAtStops,
                    PullerConcludes, vars, slots
<1>2. ASSUME NEW c \in Calls, CallStep(c)
      PROVE  UNCHANGED <<stopFile, clock>> /\ count' >= count
  BY <1>0, <1>2, CostAssumption
  DEF CallStep, Plan, PlanFails, LookAtStops, ConcludeStops, Admit, TakeSlot,
      Wait, Wake, EmitStarted, Finish, Release, EmitFinished, slots
<1>. QED BY <1>0, <1>1, <1>2 DEF Next, Terminated

LEMMA NextTruth == TypeOK /\ Truth /\ [Next]_vars => Truth'
<1> SUFFICES ASSUME TypeOK, Truth, [Next]_vars PROVE Truth'
  OBVIOUS
<1>0. reason \in Reasons /\ assigning \in [Threads -> Reasons]
  BY DEF TypeOK
<1>1. /\ stopFile => stopFile'
      /\ DurationDue => DurationDue'
      /\ BudgetSpent => BudgetSpent'
  BY ConditionsStay
<1>2. ASSUME UNCHANGED <<reason, assigning>> PROVE Truth'
  BY <1>1, <1>2 DEF Truth, PendingTruthful, ReasonTruthful
<1>3. ASSUME NEW t \in Threads, LookAtStops(t) PROVE Truth'
  <2>1. ReasonTruthful'
    BY <1>1, <1>3 DEF LookAtStops, Truth, ReasonTruthful
  <2>2. \/ assigning'[t] = "none" \/ assigning'[t] = reason'
        \/ assigning'[t] = "max_duration" /\ DurationDue
        \/ assigning'[t] = "num_requests" /\ BudgetSpent
    BY <1>0, <1>3 DEF LookAtStops
  <2>3. \A u \in Threads \ {t} : assigning'[u] = assigning[u]
    BY <1>0, <1>3 DEF LookAtStops
  <2>. QED BY <1>1, <2>1, <2>2, <2>3
           DEF Truth, PendingTruthful, ReasonTruthful
<1>4. ASSUME NEW t \in Threads, reason' = Assigned(t), assigning' = assigning
      PROVE  Truth'
  BY <1>1, <1>4 DEF Truth, PendingTruthful, ReasonTruthful, Assigned
<1>5. CASE Tick \/ RequestStop \/ UNCHANGED vars
  BY <1>2, <1>5 DEF Tick, RequestStop, vars
<1>6. CASE PullerStep
  BY <1>3, <1>4, <1>6 DEF PullerStep, PullerConcludes, Threads
<1>7. ASSUME NEW c \in Calls, CallStep(c) PROVE Truth'
  <2>1. CASE LookAtStops(c)
    BY <1>3, <2>1 DEF Threads
  <2>2. CASE ConcludeStops(c)
    BY <1>4, <2>2 DEF ConcludeStops, Threads
  <2>3. CASE ~LookAtStops(c) /\ ~ConcludeStops(c)
    BY <1>2, <1>7, <2>3
    DEF CallStep, Plan, PlanFails, Admit, TakeSlot, Wait, Wake, EmitStarted,
        Finish, Release, EmitFinished
  <2>. QED BY <2>1, <2>2, <2>3
<1>. QED BY <1>5, <1>6, <1>7 DEF Next, Terminated

(***************************************************************************)
(* A recorded reason is never taken back.                                  *)
(***************************************************************************)
LEMMA ReasonStays ==
  TypeOK /\ [Next]_vars => (reason # "none" => reason' # "none")
<1> SUFFICES ASSUME TypeOK, [Next]_vars, reason # "none"
             PROVE  reason' # "none"
  OBVIOUS
<1>1. CASE Tick \/ RequestStop \/ UNCHANGED vars
  BY <1>1 DEF Tick, RequestStop, vars
<1>2. CASE PullerStep
  BY <1>2 DEF PullerStep, LookAtStops, PullerConcludes, Assigned
<1>3. ASSUME NEW c \in Calls, CallStep(c) PROVE reason' # "none"
  BY <1>3
  DEF CallStep, Plan, PlanFails, LookAtStops, ConcludeStops, Assigned, Admit,
      TakeSlot, Wait, Wake, EmitStarted, Finish, Release, EmitFinished
<1>. QED BY <1>1, <1>2, <1>3 DEF Next, Terminated

(***************************************************************************)
(* Stragglers.  Once the phase is closed no step makes a call committed,   *)
(* so the admission of a committed call uses the last one up.              *)
(***************************************************************************)
Straggling == AtMostOneStraggler /\ StragglerUsedUp

LEMMA NoNewCommitment ==
  ASSUME TypeOK, [Next]_vars, Closed, NEW d \in Calls, Committed(d)'
  PROVE  Committed(d)
<1>0. pc \in [Threads -> Steps] /\ assigning \in [Threads -> Reasons]
  BY DEF TypeOK
<1>1. reason' = "none" => reason = "none"
  BY ReasonStays
<1>2. ASSUME pc'[d] = pc[d], assigning'[d] = assigning[d] PROVE Committed(d)
  BY <1>1, <1>2 DEF Committed
<1>3. CASE Tick \/ RequestStop \/ UNCHANGED vars
  BY <1>2, <1>3 DEF Tick, RequestStop, vars
<1>4. CASE PullerStep
  BY <1>0, <1>2, <1>4, CallsAssumption
  DEF PullerStep, LookAtStops, PullerConcludes, Threads
<1>5. ASSUME NEW c \in Calls, CallStep(c) PROVE Committed(d)
  <2>1. CASE LookAtStops(c)
    <3>1. CASE d = c
      <4>1. pc'[c] = "assign"
        BY <1>0, <2>1 DEF LookAtStops, Threads
      <4>2. reason' = "none" => DurationDue
        BY <2>1 DEF LookAtStops, Closed
      <4>3. reason' = "none" => assigning'[c] # "none"
        BY <1>0, <2>1, <4>2 DEF LookAtStops, Threads
      <4>. QED BY <3>1, <4>1, <4>3 DEF Committed
    <3>2. CASE d # c
      BY <1>0, <1>2, <2>1, <3>2 DEF LookAtStops, Threads
    <3>. QED BY <3>1, <3>2
  <2>2. CASE ConcludeStops(c)
    <3>1. CASE d = c
      BY <1>0, <1>1, <2>2, <3>1
      DEF ConcludeStops, Assigned, Committed, Threads
    <3>2. CASE d # c
      BY <1>0, <1>2, <2>2, <3>2 DEF ConcludeStops, Threads
    <3>. QED BY <3>1, <3>2
  <2>3. CASE ~LookAtStops(c) /\ ~ConcludeStops(c)
    <3>1. assigning' = assigning
      BY <1>5, <2>3
      DEF CallStep, Plan, PlanFails, Admit, TakeSlot, Wait, Wake, EmitStarted,
          Finish, Release, EmitFinished
    <3>2. pc'[d] = pc[d] \/ pc'[d] \notin {"decide", "assign"}
      BY <1>0, <1>5, <2>3
      DEF CallStep, Plan, PlanFails, Admit, TakeSlot, Wait, Wake, EmitStarted,
          Finish, Release, EmitFinished, Threads
    <3>. QED BY <1>2, <3>1, <3>2 DEF Committed
  <2>. QED BY <2>1, <2>2, <2>3
<1>. QED BY <1>3, <1>4, <1>5 DEF Next, Terminated

LEMMA NextStraggling ==
  TypeOK /\ LockHeldOnce /\ Straggling /\ [Next]_vars => Straggling'
<1> SUFFICES ASSUME TypeOK, LockHeldOnce, Straggling, [Next]_vars
             PROVE  Straggling'
  OBVIOUS
<1>0. pc \in [Threads -> Steps] /\ stragglers \in Nat
  BY DEF TypeOK
<1>1. Closed => Closed'
  BY ConditionsStay DEF Closed
<1>2. ASSUME stragglers' = stragglers PROVE Straggling'
  <2>1. CASE stragglers = 0
    BY <1>2, <2>1 DEF Straggling, AtMostOneStraggler, StragglerUsedUp
  <2>2. CASE stragglers # 0
    <3>1. Closed /\ \A d \in Calls : ~Committed(d)
      BY <2>2 DEF Straggling, StragglerUsedUp
    <3>2. \A d \in Calls : ~Committed(d)'
      BY <3>1, NoNewCommitment
    <3>. QED BY <1>1, <1>2, <3>1, <3>2
             DEF Straggling, AtMostOneStraggler, StragglerUsedUp
  <2>. QED BY <2>1, <2>2
<1>3. ASSUME NEW c \in Calls, Admit(c) PROVE Straggling'
  <2>1. CASE ~Closed
    BY <1>2, <1>3, <2>1 DEF Admit, TakeSlot
  <2>2. CASE Closed
    <3>1. stragglers = 0
      BY <1>3, <2>2 DEF Admit, TakeSlot, Straggling, StragglerUsedUp, Committed
    <3>2. stragglers' = 1
      BY <1>3, <2>2, <3>1 DEF Admit, TakeSlot
    <3>3. \A d \in Calls : ~Committed(d)'
      BY <1>0, <1>3
         DEF Admit, TakeSlot, Committed, LockHeldOnce, Critical, Threads
    <3>. QED BY <1>1, <2>2, <3>2, <3>3
             DEF Straggling, AtMostOneStraggler, StragglerUsedUp
  <2>. QED BY <2>1, <2>2
<1>4. CASE ~\E c \in Calls : Admit(c)
  BY <1>2, <1>4
  DEF Next, vars, Tick, RequestStop, PullerStep, PullerConcludes, CallStep,
      Plan, PlanFails, LookAtStops, ConcludeStops, Wait, Wake, EmitStarted,
      Finish, Release, EmitFinished, Terminated
<1>. QED BY <1>3, <1>4

(***************************************************************************)
(* The invariant, and what follows from it.                                *)
(***************************************************************************)
LEMMA InitIInv == Init => IInv
<1> SUFFICES ASSUME Init PROVE IInv
  OBVIOUS
<1>1. TypeOK
  BY InitType
<1>2. \A c \in Calls : pc[c] = "outside"
  BY CallsAssumption DEF Init, Threads
<1>3. Holding = {} /\ Admitted = {}
  BY <1>2 DEF Holding, Admitted
<1>4. SlotAccounting
  BY <1>3, FS_EmptySet, Parameters DEF Init, SlotAccounting, ParameterFacts
<1>5. LockHeldOnce /\ DecisionAffordable
  BY <1>2 DEF LockHeldOnce, Critical, DecisionAffordable
<1>6. BudgetKept
  BY Parameters DEF Init, BudgetKept, ParameterFacts
<1>7. IdentitiesDisjoint
  BY <1>3 DEF IdentitiesDisjoint
<1>8. PendingTruthful /\ ReasonTruthful
  BY DEF Init, PendingTruthful, ReasonTruthful
<1>9. AtMostOneStraggler /\ StragglerUsedUp
  BY DEF Init, AtMostOneStraggler, StragglerUsedUp
<1>. QED BY <1>1, <1>4, <1>5, <1>6, <1>7, <1>8, <1>9 DEF IInv

LEMMA NextIInv == IInv /\ [Next]_vars => IInv'
  BY NextType, NextLock, NextSlots, NextBudget, NextIdentities, NextTruth,
     NextStraggling
  DEF IInv, Budget, Truth, Straggling

\* The strengthened invariant holds in every state of the scheduler.
THEOREM Invariant == Spec => []IInv
  BY InitIInv, NextIInv, PTL DEF Spec

\* Slots are counted exactly and never exceed the capacity, whatever fails.
THEOREM SlotsCorrect == Spec => []SlotAccounting
<1>1. IInv => SlotAccounting
  BY DEF IInv
<1>. QED BY <1>1, Invariant, PTL

\* The admitted logical requests never exceed num_requests.
THEOREM BudgetCorrect == Spec => []BudgetKept
<1>1. IInv => BudgetKept
  BY DEF IInv
<1>. QED BY <1>1, Invariant, PTL

\* No two calls share a request identity.
THEOREM IdentitiesCorrect == Spec => []IdentitiesDisjoint
<1>1. IInv => IdentitiesDisjoint
  BY DEF IInv
<1>. QED BY <1>1, Invariant, PTL

\* After the stop file or max_duration at most one more call is admitted.
THEOREM StragglersBounded == Spec => []AtMostOneStraggler
<1>1. IInv => AtMostOneStraggler
  BY DEF IInv
<1>. QED BY <1>1, Invariant, PTL

\* A recorded stop reason has happened, in spite of the unlocked stopped().
THEOREM ReasonCorrect == Spec => []ReasonTruthful
<1>1. IInv => ReasonTruthful
  BY DEF IInv
<1>. QED BY <1>1, Invariant, PTL

(***************************************************************************)
(* Refinement.  Admit enters the room, Release leaves it, a refusal is     *)
(* one for a reason, and the steps that let the phase close close it.      *)
(***************************************************************************)
PlaceMap == [c \in Calls |-> Place(c)]

\* Which place a program counter stands for.
PlaceAt(step) ==
  IF step \in {"admitted", "running", "releasing", "leaked"} THEN "inside"
  ELSE IF step \in {"released", "done"} THEN "left"
  ELSE IF step \in {"refused", "invalid"} THEN step
  ELSE "outside"

LEMMA PlaceByStep == \A c \in Calls : Place(c) = PlaceAt(pc[c])
  BY DEF Place, PlaceAt, Holding

LEMMA PlaceUpdate ==
  ASSUME TypeOK, NEW c \in Calls, NEW step, pc' = [pc EXCEPT ![c] = step]
  PROVE  PlaceMap' = [PlaceMap EXCEPT ![c] = PlaceAt(step)]
<1>1. \A d \in Calls : Place(d)' = IF d = c THEN PlaceAt(step) ELSE Place(d)
  BY DEF TypeOK, Threads, Place, PlaceAt, Holding
<1>. QED BY <1>1 DEF PlaceMap

LEMMA PlaceStays ==
  ASSUME TypeOK, NEW c \in Calls, NEW step, pc' = [pc EXCEPT ![c] = step],
         PlaceAt(step) = PlaceAt(pc[c])
  PROVE  PlaceMap' = PlaceMap
<1>1. \A d \in Calls : Place(d)' = Place(d)
  BY PlaceByStep DEF TypeOK, Threads, Place, PlaceAt, Holding
<1>. QED BY <1>1 DEF PlaceMap

LEMMA RoomInside == Room!Inside = Holding
  BY DEF Room!Inside, Place, Holding

LEMMA RoomInit == Init => Room!Init
<1> SUFFICES ASSUME Init PROVE Room!Init
  OBVIOUS
<1>1. \A c \in Calls : Place(c) = "outside"
  BY CallsAssumption DEF Init, Place, Threads, Holding
<1>2. [c \in Calls |-> Place(c)] = [c \in Calls |-> "outside"]
  BY <1>1
<1>3. Closed \in BOOLEAN
  BY DEF Init, Closed, DurationDue
<1>. QED BY <1>2, <1>3 DEF Init, Room!Init

LEMMA RoomStep ==
  IInv /\ IInv' /\ [Next]_vars => [Room!Next]_(Room!avars)
<1> SUFFICES ASSUME IInv, IInv', [Next]_vars
             PROVE  Room!Next \/ UNCHANGED Room!avars
  BY DEF Room!avars
<1>0. /\ TypeOK /\ pc \in [Threads -> Steps]
      /\ count \in Nat /\ stragglers \in Nat
  BY DEF IInv, TypeOK
<1>1. ASSUME PlaceMap' = PlaceMap, UNCHANGED <<count, stragglers>>,
             Closed' = Closed
      PROVE  UNCHANGED Room!avars
  BY <1>1 DEF Room!avars, PlaceMap
<1>2. CASE UNCHANGED vars
  BY <1>1, <1>2
  DEF vars, PlaceMap, Place, Holding, Closed, DurationDue
<1>3. CASE Tick \/ RequestStop
  <2>1. PlaceMap' = PlaceMap /\ UNCHANGED <<count, stragglers>>
    BY <1>3 DEF Tick, RequestStop, PlaceMap, Place, Holding, slots
  <2>2. CASE Closed' = Closed
    BY <1>1, <2>1, <2>2
  <2>3. CASE Closed' # Closed
    <3>1. ~Closed /\ Closed' = TRUE
      BY <2>3, ConditionsStay, <1>0 DEF Closed, DurationDue
    <3>. QED BY <2>1, <3>1 DEF Room!Next, Room!Close, PlaceMap
  <2>. QED BY <2>2, <2>3
<1>4. CASE PullerStep
  <2>1. \A c \in Calls : pc'[c] = pc[c]
    BY <1>0, <1>4, CallsAssumption
    DEF PullerStep, LookAtStops, PullerConcludes, Threads
  <2>2. PlaceMap' = PlaceMap
    BY <2>1 DEF PlaceMap, Place, Holding
  <2>. QED BY <1>1, <1>4, <2>2
           DEF PullerStep, LookAtStops, PullerConcludes, slots, Closed,
               DurationDue
<1>5. ASSUME NEW c \in Calls, CallStep(c)
      PROVE  Room!Next \/ UNCHANGED Room!avars
  <2>0. Closed' = Closed
    BY <1>5
    DEF CallStep, Plan, PlanFails, LookAtStops, ConcludeStops, Admit, TakeSlot,
        Wait, Wake, EmitStarted, Finish, Release, EmitFinished, Closed,
        DurationDue
  <2>1. CASE Admit(c)
    <3>1. PlaceMap[c] = "outside"
      BY <2>1 DEF Admit, TakeSlot, PlaceMap, Place, Holding
    <3>2. PlaceMap' = [PlaceMap EXCEPT ![c] = "inside"]
      BY <1>0, <2>1, PlaceUpdate DEF Admit, TakeSlot, PlaceAt
    <3>3. Cardinality(Room!Inside) < Capacity
      BY <2>1, RoomInside DEF Admit, TakeSlot, IInv, SlotAccounting
    <3>4. Room!Fits(c)
      BY <1>0, <2>1, Parameters, CostAssumption
      DEF Admit, TakeSlot, IInv, DecisionAffordable, Unaffordable, Room!Fits,
          ParameterFacts
    <3>5. Closed => stragglers = 0
      BY <2>1 DEF Admit, TakeSlot, IInv, StragglerUsedUp, Committed
    <3>6. Room!Enter(c)
      <4>1. /\ count' = count + Cost[c]
            /\ stragglers' = IF Closed THEN stragglers + 1 ELSE stragglers
        BY <2>1 DEF Admit, TakeSlot
      <4>2. [d \in Calls |-> Place(d)][c] = "outside"
        BY <3>1 DEF PlaceMap
      <4>3. [d \in Calls |-> Place(d)]'
              = [[d \in Calls |-> Place(d)] EXCEPT ![c] = "inside"]
        BY <3>2 DEF PlaceMap
      <4>. QED BY ONLY <2>0, <3>3, <3>4, <3>5, <4>1, <4>2, <4>3
               DEF Room!Enter, Cardinality, Room!Cardinality, IsFiniteSet,
                   Room!IsFiniteSet
    <3>. QED BY <3>6 DEF Room!Next
  <2>2. CASE Release(c)
    <3>1. PlaceMap[c] = "inside"
      BY <2>2 DEF Release, PlaceMap, Place, Holding
    <3>2. PlaceMap' = [PlaceMap EXCEPT ![c] = "left"]
      BY <1>0, <2>2, PlaceUpdate DEF Release, PlaceAt
    <3>3. Room!Leave(c)
      BY <2>0, <2>2, <3>1, <3>2 DEF Room!Leave, Release, PlaceMap
    <3>. QED BY <3>3 DEF Room!Next
  <2>3. CASE PlanFails(c)
    <3>1. PlaceMap[c] = "outside"
      BY <2>3 DEF PlanFails, PlaceMap, Place, Holding
    <3>2. PlaceMap' = [PlaceMap EXCEPT ![c] = "invalid"]
      BY <1>0, <2>3, PlaceUpdate DEF PlanFails, PlaceAt
    <3>3. Room!Reject(c)
      BY <2>0, <2>3, <3>1, <3>2 DEF Room!Reject, PlanFails, PlaceMap, slots
    <3>. QED BY <3>3 DEF Room!Next
  <2>4. CASE ConcludeStops(c)
    <3>1. CASE reason' # "none" \/ Unaffordable(c)
      <4>1. PlaceMap[c] = "outside"
        BY <2>4 DEF ConcludeStops, PlaceMap, Place, Holding
      <4>2. PlaceMap' = [PlaceMap EXCEPT ![c] = "refused"]
        <5>1. pc' = [pc EXCEPT ![c] = "refused"]
          BY <2>4, <3>1 DEF ConcludeStops
        <5>. QED BY <1>0, <5>1, PlaceUpdate DEF PlaceAt
      <4>3. Closed \/ BudgetSpent \/ Unaffordable(c)
        <5>1. CASE Unaffordable(c)
          BY <5>1
        <5>2. CASE reason' # "none"
          BY <2>0, <2>4, <5>2
          DEF ConcludeStops, slots, IInv, ReasonTruthful, TypeOK, Reasons,
              Closed, DurationDue, BudgetSpent
        <5>. QED BY <3>1, <5>1, <5>2
      <4>4. Closed \/ ~Room!Fits(c)
        BY <1>0, <4>3, Parameters, CostAssumption
        DEF BudgetSpent, Unaffordable, Room!Fits, ParameterFacts
      <4>5. Room!Refuse(c)
        BY <2>0, <2>4, <4>1, <4>2, <4>4
        DEF Room!Refuse, ConcludeStops, PlaceMap, slots
      <4>. QED BY <4>5 DEF Room!Next
    <3>2. CASE ~(reason' # "none" \/ Unaffordable(c))
      <4>1. pc' = [pc EXCEPT ![c] = "decide"]
        BY <2>4, <3>2 DEF ConcludeStops
      <4>2. PlaceMap' = PlaceMap
        BY <1>0, <2>4, <4>1, PlaceStays DEF ConcludeStops, PlaceAt
      <4>. QED BY <1>1, <2>0, <2>4, <4>2 DEF ConcludeStops, slots
    <3>. QED BY <3>1, <3>2
  <2>5. CASE Plan(c) \/ LookAtStops(c) \/ Wait(c) \/ Wake(c)
    <3>1. PlaceMap' = PlaceMap
      BY <1>0, <2>5, PlaceStays DEF Plan, LookAtStops, Wait, Wake, PlaceAt
    <3>. QED BY <1>1, <2>0, <2>5, <3>1
             DEF Plan, LookAtStops, Wait, Wake, slots
  <2>6. CASE EmitStarted(c) \/ Finish(c) \/ EmitFinished(c)
    <3>1. PlaceMap' = PlaceMap
      BY <1>0, <2>6, PlaceStays DEF EmitStarted, Finish, EmitFinished, PlaceAt
    <3>. QED BY <1>1, <2>0, <2>6, <3>1
             DEF EmitStarted, Finish, EmitFinished, slots
  <2>. QED BY <1>5, <2>1, <2>2, <2>3, <2>4, <2>5, <2>6 DEF CallStep
<1>. QED BY <1>2, <1>3, <1>4, <1>5 DEF Next, Terminated

\* The scheduler implements the bounded room.
THEOREM Refinement == Spec => ImplementsRoom
  BY RoomInit, RoomStep, Invariant, PTL DEF Spec, ImplementsRoom, Room!Spec

-----------------------------------------------------------------------------
(***************************************************************************)
(* The steps seen by one call.  Its record only changes when it is         *)
(* admitted and when its operation ends, and then by the present time.     *)
(***************************************************************************)
LEMMA Shape ==
  TypeOK => /\ clock \in Nat
            /\ pc \in [Threads -> Steps]
            /\ ended \in [Calls -> Int]
            /\ ticket \in [Calls -> [index : Nat, scheduled : Nat,
                                     started : Int]]
            /\ Threads = Calls \cup {Puller}
  BY BoundsAssumption DEF TypeOK, Times, Threads

Before == {"outside", "stops", "assign", "decide", "waiting"}
Turned == {"refused", "invalid"}
Noted == {"releasing", "released", "done"}

Kept(e) == ticket'[e] = ticket[e] /\ ended'[e] = ended[e]

StaysPut(e) == pc'[e] = pc[e] /\ Kept(e)
StaysOut(e) == pc[e] \in Before /\ pc'[e] \in Before \cup Turned /\ Kept(e)
GoesIn(e) ==
  /\ pc[e] = "decide" /\ pc'[e] = "admitted"
  /\ ticket'[e].started = clock /\ ended'[e] = ended[e]
  /\ clock' = clock
GoesOn(e) ==
  /\ \/ pc[e] = "admitted" /\ pc'[e] \in {"running", "leaked"}
     \/ pc[e] \in Noted /\ pc'[e] \in Noted
  /\ Kept(e)
Ends(e) ==
  /\ pc[e] = "running" /\ pc'[e] = "releasing"
  /\ ticket'[e] = ticket[e] /\ ended'[e] = clock
  /\ clock' = clock

LEMMA StepOfCall ==
  ASSUME TypeOK, [Next]_vars, NEW e \in Calls
  PROVE  StaysPut(e) \/ StaysOut(e) \/ GoesIn(e) \/ GoesOn(e) \/ Ends(e)
<1>0. /\ pc \in [Threads -> Steps] /\ e \in Threads /\ e # Puller
      /\ ended \in [Calls -> Int]
      /\ ticket \in [Calls -> [index : Nat, scheduled : Nat, started : Int]]
  BY Shape, CallsAssumption
<1>1. ASSUME Tick \/ RequestStop \/ PullerStep \/ UNCHANGED vars
      PROVE  StaysPut(e)
  <2>1. pc'[e] = pc[e]
    BY <1>0, <1>1
    DEF Tick, RequestStop, PullerStep, LookAtStops, PullerConcludes, vars
  <2>2. Kept(e)
    BY <1>1
    DEF Tick, RequestStop, PullerStep, LookAtStops, PullerConcludes, vars,
        records, Kept
  <2>. QED BY <2>1, <2>2 DEF StaysPut
<1>2. ASSUME NEW c \in Calls, CallStep(c), ~Admit(c), ~Finish(c)
      PROVE  Kept(e)
  <2>1. UNCHANGED <<ticket, ended>>
    BY <1>2
    DEF CallStep, Plan, PlanFails, LookAtStops, ConcludeStops, Wait, Wake,
        EmitStarted, Release, EmitFinished, records
  <2>. QED BY <2>1 DEF Kept
<1>3. ASSUME NEW c \in Calls, CallStep(c), c # e PROVE StaysPut(e)
  <2>1. CASE Admit(c)
    BY <1>0, <1>3, <2>1 DEF Admit, TakeSlot, StaysPut, Kept
  <2>2. CASE Finish(c)
    <3>1. /\ pc' = [pc EXCEPT ![c] = "releasing"]
          /\ ended' = [ended EXCEPT ![c] = clock]
          /\ ticket' = ticket
      BY <2>2 DEF Finish
    <3>. QED BY <1>0, <1>3, <3>1 DEF StaysPut, Kept
  <2>3. CASE ~Admit(c) /\ ~Finish(c)
    <3>1. \E step : pc' = [pc EXCEPT ![c] = step]
      BY <1>3, <2>3
      DEF CallStep, Plan, PlanFails, LookAtStops, ConcludeStops, Wait, Wake,
          EmitStarted, Release, EmitFinished
    <3>2. pc'[e] = pc[e]
      BY <1>0, <1>3, <3>1
    <3>. QED BY <1>2, <1>3, <2>3, <3>2 DEF StaysPut
  <2>. QED BY <2>1, <2>2, <2>3
<1>4. ASSUME CallStep(e)
      PROVE  StaysOut(e) \/ GoesIn(e) \/ GoesOn(e) \/ Ends(e)
  <2>1. ASSUME Plan(e) \/ PlanFails(e) \/ LookAtStops(e) \/ Wait(e) \/ Wake(e)
        PROVE  pc[e] \in Before /\ pc'[e] \in Before \cup Turned
    BY <1>0, <2>1
    DEF Plan, PlanFails, LookAtStops, Wait, Wake, Before, Turned
  <2>2. ASSUME ConcludeStops(e)
        PROVE  pc[e] \in Before /\ pc'[e] \in Before \cup Turned
    BY <1>0, <2>2 DEF ConcludeStops, Before, Turned
  <2>3. CASE Admit(e)
    <3>1. /\ pc[e] = "decide" /\ pc' = [pc EXCEPT ![e] = "admitted"]
          /\ ended' = ended /\ clock' = clock
      BY <2>3 DEF Admit, TakeSlot
    <3>2. ticket'[e].started = clock
      BY <1>0, <2>3 DEF Admit, TakeSlot
    <3>. QED BY <1>0, <3>1, <3>2 DEF GoesIn
  <2>4. ASSUME EmitStarted(e)
        PROVE  pc[e] = "admitted" /\ pc'[e] \in {"running", "leaked"}
    BY <1>0, <2>4 DEF EmitStarted
  <2>5. CASE Finish(e)
    <3>1. /\ pc[e] = "running" /\ pc' = [pc EXCEPT ![e] = "releasing"]
          /\ ended' = [ended EXCEPT ![e] = clock]
          /\ ticket' = ticket /\ clock' = clock
      BY <2>5 DEF Finish
    <3>. QED BY <1>0, <3>1 DEF Ends
  <2>6. ASSUME Release(e) \/ EmitFinished(e)
        PROVE  pc[e] \in Noted /\ pc'[e] \in Noted
    BY <1>0, <2>6 DEF Release, EmitFinished, Noted
  <2>. QED BY <1>2, <1>4, <2>1, <2>2, <2>3, <2>4, <2>5, <2>6
           DEF CallStep, StaysOut, GoesOn
<1>. QED BY <1>1, <1>3, <1>4 DEF Next, Terminated

LEMMA ClockSteps ==
  ASSUME TypeOK, [Next]_vars
  PROVE  clock' = clock \/ clock' = clock + 1
<1>1. CASE Tick \/ RequestStop \/ PullerStep \/ UNCHANGED vars
  BY <1>1 DEF Tick, RequestStop, PullerStep, LookAtStops, PullerConcludes, vars
<1>2. ASSUME NEW c \in Calls, CallStep(c) PROVE clock' = clock
  BY <1>2
  DEF CallStep, Plan, PlanFails, LookAtStops, ConcludeStops, Admit, TakeSlot,
      Wait, Wake, EmitStarted, Finish, Release, EmitFinished
<1>. QED BY <1>1, <1>2 DEF Next, Terminated

(***************************************************************************)
(* Recorded overlap.  No record reaches beyond the present, so the calls   *)
(* in flight now are among those that hold a slot; and the past is closed: *)
(* no step puts another call into an earlier instant.                      *)
(***************************************************************************)
LEMMA NextPast == TypeOK /\ RecordsPast /\ [Next]_vars => RecordsPast'
<1> SUFFICES ASSUME TypeOK, RecordsPast, [Next]_vars PROVE RecordsPast'
  OBVIOUS
<1>1. SUFFICES ASSUME NEW e \in Calls
               PROVE  /\ ended'[e] <= clock'
                      /\ e \in Admitted' => ticket'[e].started <= clock'
  BY DEF RecordsPast, Admitted
<1>2. /\ clock \in Nat /\ ended[e] \in Int /\ ticket[e].started \in Int
      /\ clock' = clock \/ clock' = clock + 1
  BY Shape, ClockSteps
<1>3. /\ ended[e] <= clock
      /\ e \in Admitted => ticket[e].started <= clock
  BY DEF RecordsPast
<1>4. StaysPut(e) \/ StaysOut(e) \/ GoesIn(e) \/ GoesOn(e) \/ Ends(e)
  BY StepOfCall
<1>. QED BY <1>2, <1>3, <1>4
         DEF StaysPut, StaysOut, GoesIn, GoesOn, Ends, Kept, Before, Turned,
             Noted, Admitted

LEMMA PresentIsHeld ==
  TypeOK /\ RecordsPast => InFlightAt(clock) \subseteq Holding
  BY Shape DEF RecordsPast, InFlightAt, Admitted, Holding

LEMMA PastIsClosed ==
  ASSUME TypeOK, [Next]_vars, NEW t \in Int, t < clock'
  PROVE  InFlightAt(t)' \subseteq InFlightAt(t)
<1>1. SUFFICES ASSUME NEW e \in Calls, e \in InFlightAt(t)'
               PROVE  e \in InFlightAt(t)
  BY DEF InFlightAt, Admitted
<1>2. /\ clock \in Nat /\ ended[e] \in Int /\ ticket[e].started \in Int
      /\ clock' = clock \/ clock' = clock + 1
  BY Shape, ClockSteps
<1>3. /\ e \in Admitted' /\ ticket'[e].started <= t
      /\ pc'[e] \in Noted => t < ended'[e]
  BY <1>1 DEF InFlightAt, Noted
<1>4. StaysPut(e) \/ StaysOut(e) \/ GoesIn(e) \/ GoesOn(e) \/ Ends(e)
  BY StepOfCall
<1>. QED BY <1>2, <1>3, <1>4
         DEF StaysPut, StaysOut, GoesIn, GoesOn, Ends, Kept, Before, Turned,
             Noted, Admitted, InFlightAt

LEMMA InFlightFinite ==
  ASSUME NEW t \in Int
  PROVE  IsFiniteSet(InFlightAt(t)) /\ Cardinality(InFlightAt(t)) \in Nat
<1>1. IsFiniteSet(InFlightAt(t))
  BY CallsAssumption, FS_Subset DEF InFlightAt, Admitted
<1>. QED BY <1>1, FS_CardinalityType

LEMMA PresentBounded ==
  IInv /\ RecordsPast => Cardinality(InFlightAt(clock)) <= Capacity
<1> SUFFICES ASSUME IInv, RecordsPast
             PROVE  Cardinality(InFlightAt(clock)) <= Capacity
  OBVIOUS
<1>1. TypeOK /\ Cardinality(Holding) <= Capacity
  BY DEF IInv, SlotAccounting
<1>2. Cardinality(InFlightAt(clock)) <= Cardinality(Holding)
  BY <1>1, PresentIsHeld, HoldingFinite, FS_Subset
<1>3. Cardinality(InFlightAt(clock)) \in Nat
  BY <1>1, Shape, InFlightFinite
<1>. QED BY <1>1, <1>2, <1>3, HoldingFinite, Parameters DEF ParameterFacts

LEMMA NextOverlap ==
  IInv /\ IInv' /\ OverlapInv /\ [Next]_vars => OverlapInv'
<1> SUFFICES ASSUME IInv, IInv', OverlapInv, [Next]_vars PROVE OverlapInv'
  OBVIOUS
<1>1. TypeOK /\ TypeOK' /\ RecordsPast /\ RecordedOverlapBounded
  BY DEF IInv, OverlapInv
<1>2. RecordsPast'
  BY <1>1, NextPast
<1>3. SUFFICES ASSUME NEW t \in 0..clock'
               PROVE  Cardinality(InFlightAt(t)') <= Capacity
  BY <1>2 DEF OverlapInv, RecordedOverlapBounded
<1>4. clock \in Nat /\ clock' \in Nat /\ clock' \in {clock, clock + 1}
  BY <1>1, Shape, ClockSteps, BoundsAssumption DEF TypeOK, Times
<1>5. CASE t = clock'
  <2>1. (Cardinality(InFlightAt(clock)) <= Capacity)'
    BY <1>2, PresentBounded, PTL
  <2>. QED BY <1>5, <2>1 DEF InFlightAt, Capacity
<1>6. CASE t # clock'
  <2>1. t \in 0..clock /\ t \in Int /\ t < clock'
    BY <1>4, <1>6
  <2>2. Cardinality(InFlightAt(t)) <= Capacity
    BY <1>1, <2>1 DEF RecordedOverlapBounded
  <2>3. Cardinality(InFlightAt(t)') <= Cardinality(InFlightAt(t))
    BY <1>1, <2>1, PastIsClosed, InFlightFinite, FS_Subset
  <2>4. InFlightAt(t)' \subseteq InFlightAt(t)
    BY <1>1, <2>1, PastIsClosed
  <2>5. /\ Cardinality(InFlightAt(t)) \in Nat
        /\ Cardinality(InFlightAt(t)') \in Nat
    BY <2>1, <2>4, InFlightFinite, FS_Subset, FS_CardinalityType
  <2>. QED BY <2>2, <2>3, <2>5, Parameters DEF ParameterFacts
<1>. QED BY <1>5, <1>6

LEMMA InitPast == Init => RecordsPast /\ Admitted = {} /\ clock = 0
<1> SUFFICES ASSUME Init PROVE RecordsPast /\ Admitted = {} /\ clock = 0
  OBVIOUS
<1>1. \A c \in Calls : pc[c] = "outside" /\ ended[c] = 0
  BY CallsAssumption DEF Init, Threads
<1>. QED BY <1>1 DEF Init, RecordsPast, Admitted

\* What the report draws from the records never shows a higher concurrency
\* than was configured.
THEOREM OverlapCorrect == Spec => []RecordedOverlapBounded
<1>1. Init => OverlapInv
  <2> SUFFICES ASSUME Init PROVE OverlapInv
    OBVIOUS
  <2>1. RecordsPast /\ clock = 0
    BY InitPast
  <2>2. Cardinality(InFlightAt(clock)) <= Capacity
    BY InitIInv, PresentBounded, <2>1
  <2>3. \A t \in 0..clock : t = clock
    BY <2>1
  <2>. QED BY <2>1, <2>2, <2>3 DEF OverlapInv, RecordedOverlapBounded
<1>2. OverlapInv => RecordedOverlapBounded
  BY DEF OverlapInv
<1>. QED BY <1>1, <1>2, NextOverlap, Invariant, PTL DEF Spec

(***************************************************************************)
(* Trace replay.  A planned call keeps the trace record it was planned     *)
(* with, and admission takes exactly the record whose turn it is: it lies  *)
(* above every admitted one, in the trace, in the count and in time.       *)
(***************************************************************************)
LEMMA NextPlans ==
  ASSUME TypeOK, PlansTraced, Strategy = "replay", [Next]_vars
  PROVE  PlansTraced'
<1>0. /\ pc \in [Threads -> Steps]
      /\ plan \in [Calls -> [offset : Nat \cup {-1}, order : Nat]]
  BY DEF TypeOK
<1> SUFFICES ASSUME NEW e \in Calls, Planned(e)'
             PROVE  plan'[e] = [offset |-> TraceOffset[e] \div ReplaySpeed,
                                order |-> TraceIndex[e]]
  BY DEF PlansTraced
<1>1. CASE Plan(e)
  BY <1>0, <1>1 DEF Plan
<1>2. CASE ~Plan(e)
  <2>1. plan'[e] = plan[e]
    <3>1. CASE Tick \/ RequestStop \/ PullerStep \/ UNCHANGED vars
      BY <3>1 DEF Tick, RequestStop, PullerStep, LookAtStops,
                  PullerConcludes, vars, records
    <3>2. ASSUME NEW c \in Calls, Plan(c) PROVE plan'[e] = plan[e]
      BY <1>0, <1>2, <3>2 DEF Plan
    <3>3. ASSUME NEW c \in Calls, CallStep(c), ~Plan(c)
          PROVE  plan'[e] = plan[e]
      BY <3>3
      DEF CallStep, PlanFails, LookAtStops, ConcludeStops, Admit, TakeSlot,
          Wait, Wake, EmitStarted, Finish, Release, EmitFinished, records
    <3>. QED BY <3>1, <3>2, <3>3 DEF Next, Terminated
  <2>2. Planned(e)
    <3>1. StaysPut(e) \/ StaysOut(e) \/ GoesIn(e) \/ GoesOn(e) \/ Ends(e)
      BY StepOfCall
    <3>2. ASSUME pc[e] = "outside" PROVE ~Planned(e)'
      <4>1. CASE Tick \/ RequestStop \/ PullerStep \/ UNCHANGED vars
        BY <1>0, <3>2, <4>1, CallsAssumption
        DEF Tick, RequestStop, PullerStep, LookAtStops, PullerConcludes, vars,
            Planned, Threads
      <4>2. ASSUME NEW c \in Calls, CallStep(c) PROVE ~Planned(e)'
        <5>1. CASE c = e
          BY <1>0, <1>2, <3>2, <4>2, <5>1
          DEF CallStep, PlanFails, LookAtStops, ConcludeStops, Admit, Wait,
              Wake, EmitStarted, Finish, Release, EmitFinished, Planned,
              Threads
        <5>2. CASE c # e
          <6>1. \E step : pc' = [pc EXCEPT ![c] = step]
            BY <4>2
            DEF CallStep, Plan, PlanFails, LookAtStops, ConcludeStops, Admit,
                TakeSlot, Wait, Wake, EmitStarted, Finish, Release,
                EmitFinished
          <6>. QED BY <1>0, <3>2, <5>2, <6>1 DEF Planned, Threads
        <5>. QED BY <5>1, <5>2
      <4>. QED BY <4>1, <4>2 DEF Next, Terminated
    <3>3. pc[e] = "invalid" => pc'[e] = "invalid"
      BY <3>1 DEF StaysPut, StaysOut, GoesIn, GoesOn, Ends, Before, Noted
    <3>. QED BY <3>2, <3>3 DEF Planned
  <2>. QED BY <2>1, <2>2 DEF PlansTraced
<1>. QED BY <1>1, <1>2

LEMMA AdmitInOrder ==
  ASSUME IInv, ReplayInv, Strategy = "replay", NEW c \in Calls, Admit(c)
  PROVE  ReplayInTraceOrder'
<1>0. /\ TypeOK /\ RecordsPast /\ PlansTraced /\ ReplayInTraceOrder
      /\ IdentitiesDisjoint
  BY DEF IInv, ReplayInv
<1>1. /\ pc \in [Threads -> Steps] /\ clock \in Nat /\ count \in Nat
      /\ nextOrder \in Nat
      /\ ticket \in [Calls -> [index : Nat, scheduled : Nat, started : Int]]
      /\ Cost \in [Calls -> Nat \ {0}] /\ TraceIndex \in [Calls -> Nat]
  BY <1>0, Shape, CostAssumption, StrategyAssumption DEF TypeOK
<1>2. Admitted' = Admitted \cup {c} /\ c \notin Admitted
  BY <1>1 DEF Admit, TakeSlot, Threads, Admitted
<1>3. /\ TraceIndex[c] = nextOrder /\ nextOrder' = nextOrder + 1
      /\ clock >= TraceOffset[c] \div ReplaySpeed
  <2>1. plan[c] = [offset |-> TraceOffset[c] \div ReplaySpeed,
                   order |-> TraceIndex[c]]
    BY <1>0 DEF Admit, Planned, PlansTraced
  <2>2. TraceOffset[c] \div ReplaySpeed \in Nat
    BY StrategyAssumption, DivisionNatural
  <2>3. Ready(c) /\ nextOrder' = nextOrder + 1
    BY DEF Admit, TakeSlot
  <2>. QED BY <1>1, <2>1, <2>2, <2>3 DEF Ready, Due
<1>4. /\ ticket'[c].index = count /\ ticket'[c].started = clock
      /\ \A d \in Admitted : ticket'[d] = ticket[d]
  BY <1>1, <1>2 DEF Admit, TakeSlot, Admitted
<1>5. \A d \in Admitted :
        /\ TraceIndex[d] \in 0..(nextOrder - 1)
        /\ ticket[d].index < count /\ ticket[d].started <= clock
  <2> SUFFICES ASSUME NEW d \in Admitted
               PROVE  /\ TraceIndex[d] \in 0..(nextOrder - 1)
                      /\ ticket[d].index < count
                      /\ ticket[d].started <= clock
    OBVIOUS
  <2>1. TraceIndex[d] \in 0..(nextOrder - 1)
    BY <1>0 DEF ReplayInTraceOrder
  <2>2. ticket[d].index + Cost[d] <= count /\ ticket[d].started <= clock
    BY <1>0 DEF IdentitiesDisjoint, RecordsPast
  <2>3. d \in Calls
    BY DEF Admitted
  <2>4. /\ count \in Nat /\ ticket[d].index \in Nat
        /\ Cost[d] \in Nat /\ Cost[d] # 0
    BY <1>1, <2>3
  <2>5. ticket[d].index < count
    BY ONLY <2>2, <2>4
  <2>. QED BY <2>1, <2>2, <2>5
<1>6. {TraceIndex[d] : d \in Admitted'} = 0..(nextOrder' - 1)
  <2>1. {TraceIndex[d] : d \in Admitted} = 0..(nextOrder - 1)
    BY <1>0 DEF ReplayInTraceOrder
  <2>2. {TraceIndex[d] : d \in Admitted'}
          = {TraceIndex[d] : d \in Admitted} \cup {nextOrder}
    BY <1>2, <1>3
  <2>3. 0..(nextOrder' - 1) = 0..(nextOrder - 1) \cup {nextOrder}
    BY <1>1, <1>3
  <2>. QED BY <2>1, <2>2, <2>3
<1>7. ASSUME NEW d \in Admitted', NEW e \in Admitted',
             TraceIndex[d] < TraceIndex[e]
      PROVE  /\ ticket'[d].index < ticket'[e].index
             /\ ticket'[d].started <= ticket'[e].started
  <2>1. CASE d \in Admitted /\ e \in Admitted
    BY <1>0, <1>4, <1>7, <2>1 DEF ReplayInTraceOrder
  <2>2. CASE d \in Admitted /\ e = c
    BY <1>4, <1>5, <2>2
  <2>3. CASE d = c
    BY <1>1, <1>2, <1>3, <1>5, <1>7, <2>3
  <2>. QED BY <1>2, <2>1, <2>2, <2>3
<1>8. \A d \in Admitted' :
        ticket'[d].started >= TraceOffset[d] \div ReplaySpeed
  BY <1>0, <1>2, <1>3, <1>4 DEF ReplayInTraceOrder
<1>. QED BY <1>6, <1>7, <1>8 DEF ReplayInTraceOrder

LEMMA OthersKeepOrder ==
  ASSUME TypeOK, ReplayInTraceOrder, [Next]_vars,
         ~\E c \in Calls : Admit(c)
  PROVE  ReplayInTraceOrder'
<1>1. \A e \in Calls : /\ e \in Admitted' <=> e \in Admitted
                       /\ ticket'[e] = ticket[e]
  <2> SUFFICES ASSUME NEW e \in Calls
               PROVE  /\ e \in Admitted' <=> e \in Admitted
                      /\ ticket'[e] = ticket[e]
    OBVIOUS
  <2>1. StaysPut(e) \/ StaysOut(e) \/ GoesIn(e) \/ GoesOn(e) \/ Ends(e)
    BY StepOfCall
  <2>2. ~GoesIn(e)
    <3>1. CASE Tick \/ RequestStop \/ PullerStep \/ UNCHANGED vars
      BY <3>1, Shape, CallsAssumption
      DEF Tick, RequestStop, PullerStep, LookAtStops, PullerConcludes, vars,
          GoesIn
    <3>2. ASSUME NEW c \in Calls, CallStep(c)
          PROVE  pc'[e] # "admitted" \/ pc[e] # "decide"
      BY <3>2, Shape
      DEF CallStep, Plan, PlanFails, LookAtStops, ConcludeStops, Wait, Wake,
          EmitStarted, Finish, Release, EmitFinished
    <3>. QED BY <3>1, <3>2 DEF Next, Terminated, GoesIn
  <2>. QED BY <2>1, <2>2
           DEF StaysPut, StaysOut, GoesOn, Ends, Kept, Before, Turned, Noted,
               Admitted
<1>2. Admitted' = Admitted /\ \A e \in Admitted : ticket'[e] = ticket[e]
  BY <1>1 DEF Admitted
<1>3. nextOrder' = nextOrder
  <2>1. CASE Tick \/ RequestStop \/ PullerStep \/ UNCHANGED vars
    BY <2>1 DEF Tick, RequestStop, PullerStep, LookAtStops, PullerConcludes,
                vars, strategyState
  <2>2. ASSUME NEW c \in Calls, CallStep(c) PROVE nextOrder' = nextOrder
    BY <2>2
    DEF CallStep, Plan, PlanFails, LookAtStops, ConcludeStops, Wait, Wake,
        EmitStarted, Finish, Release, EmitFinished, strategyState
  <2>. QED BY <2>1, <2>2 DEF Next, Terminated
<1>. QED BY <1>2, <1>3 DEF ReplayInTraceOrder

LEMMA NextReplay ==
  IInv /\ ReplayInv /\ [Next]_vars => ReplayInv'
<1> SUFFICES ASSUME IInv, ReplayInv, [Next]_vars PROVE ReplayInv'
  OBVIOUS
<1>1. TypeOK /\ RecordsPast /\ ReplayInTraceOrder
  BY DEF IInv, ReplayInv
<1>2. RecordsPast'
  BY <1>1, NextPast
<1>3. CASE Strategy # "replay"
  BY <1>2, <1>3 DEF ReplayInv, ReplayInTraceOrder
<1>4. CASE Strategy = "replay"
  <2>1. PlansTraced'
    BY <1>1, <1>4, NextPlans DEF ReplayInv
  <2>2. ReplayInTraceOrder'
    BY <1>1, <1>4, AdmitInOrder, OthersKeepOrder
  <2>. QED BY <1>2, <2>1, <2>2 DEF ReplayInv
<1>. QED BY <1>3, <1>4

\* A replayed trace is admitted in its order without a gap, and no request
\* before its time.
THEOREM ReplayCorrect == Spec => []ReplayInTraceOrder
<1>1. Init => ReplayInv
  <2> SUFFICES ASSUME Init PROVE ReplayInv
    OBVIOUS
  <2>1. RecordsPast /\ Admitted = {} /\ nextOrder = 0
    BY InitPast DEF Init
  <2>2. PlansTraced
    BY CallsAssumption DEF Init, PlansTraced, Planned, Threads
  <2>. QED BY <2>1, <2>2 DEF ReplayInv, ReplayInTraceOrder
<1>2. ReplayInv => ReplayInTraceOrder
  BY DEF ReplayInv
<1>. QED BY <1>1, <1>2, NextReplay, Invariant, PTL DEF Spec
-----------------------------------------------------------------------------
(* The collection of a Case *)

(***************************************************************************)
(* What the scheduler adds.  Only Admit changes the count, by what the new *)
(* member of Admitted costs.                                               *)
(***************************************************************************)
Stays == Admitted' = Admitted /\ count' = count

LEMMA AdmittedStep ==
  ASSUME TypeOK, [Next]_vars
  PROVE  \/ Stays
         \/ \E c \in Calls : /\ Admit(c)
                             /\ c \notin Admitted
                             /\ Admitted' = Admitted \cup {c}
                             /\ count' = count + Cost[c]
<1>0. pc \in [Threads -> Steps]
  BY DEF TypeOK
<1>1. CASE Tick \/ RequestStop \/ UNCHANGED vars
  BY <1>1 DEF Tick, RequestStop, vars, slots, Admitted, Stays
<1>2. CASE PullerStep
  <2>1. Admitted' = Admitted
    BY <1>0, <1>2, CallsAssumption
    DEF PullerStep, LookAtStops, PullerConcludes, Threads, Admitted
  <2>. QED BY <1>2, <2>1
           DEF PullerStep, LookAtStops, PullerConcludes, slots, Stays
<1>3. ASSUME NEW c \in Calls, CallStep(c)
      PROVE  \/ Stays
             \/ /\ Admit(c) /\ c \notin Admitted
                /\ Admitted' = Admitted \cup {c} /\ count' = count + Cost[c]
  <2>1. CASE Plan(c) \/ PlanFails(c)
    BY <1>0, <2>1 DEF Plan, PlanFails, Threads, Admitted, slots, Stays
  <2>2. CASE LookAtStops(c) \/ ConcludeStops(c)
    BY <1>0, <2>2 DEF LookAtStops, ConcludeStops, Threads, Admitted, slots,
                      Stays
  <2>3. CASE Admit(c)
    BY <1>0, <2>3 DEF Admit, TakeSlot, Threads, Admitted
  <2>4. CASE Wait(c) \/ Wake(c)
    BY <1>0, <2>4 DEF Wait, Wake, Threads, Admitted, slots, Stays
  <2>5. CASE EmitStarted(c) \/ Finish(c)
    BY <1>0, <2>5 DEF EmitStarted, Finish, Threads, Admitted, slots, Stays
  <2>6. CASE Release(c) \/ EmitFinished(c)
    BY <1>0, <2>6 DEF Release, EmitFinished, Threads, Admitted, slots, Stays
  <2>. QED BY <1>3, <2>1, <2>2, <2>3, <2>4, <2>5, <2>6 DEF CallStep
<1>. QED BY <1>1, <1>2, <1>3 DEF Next, Terminated

LEMMA CountSum == CountAddsUp <=> count = SumOf(Cost, Admitted)
  BY DEF CountAddsUp, SumOf

LEMMA NextCount == TypeOK /\ CountAddsUp /\ [Next]_vars => CountAddsUp'
<1> SUFFICES ASSUME TypeOK, CountAddsUp, [Next]_vars PROVE CountAddsUp'
  OBVIOUS
<1>0. count = SumOf(Cost, Admitted)
  BY CountSum
<1>1. ASSUME Stays PROVE count' = SumOf(Cost, Admitted')
  BY <1>0, <1>1 DEF Stays
<1>2. ASSUME NEW c \in Calls, c \notin Admitted,
             Admitted' = Admitted \cup {c}, count' = count + Cost[c]
      PROVE  count' = SumOf(Cost, Admitted')
  <2>1. Cost \in [Calls -> Int]
    BY CostAssumption
  <2>2. Admitted \subseteq Calls /\ IsFiniteSet(Admitted)
    BY CallsAssumption, FS_Subset DEF Admitted
  <2>3. SumOf(Cost, Admitted \cup {c}) = SumOf(Cost, Admitted) + Cost[c]
    BY <1>2, <2>1, <2>2, SumAdd
  <2>. QED BY <1>0, <1>2, <2>3
<1>3. count' = SumOf(Cost, Admitted')
  BY <1>1, <1>2, AdmittedStep
<1>4. (CountAddsUp <=> count = SumOf(Cost, Admitted))'
  BY CountSum, PTL
<1>. QED BY <1>3, <1>4

LEMMA CountGrows == TypeOK /\ [Next]_vars => count' \in Nat /\ count <= count'
<1> SUFFICES ASSUME TypeOK, [Next]_vars PROVE count' \in Nat /\ count <= count'
  OBVIOUS
<1>1. count \in Nat /\ \A c \in Calls : Cost[c] \in Nat
  BY CostAssumption DEF TypeOK
<1>. QED BY <1>1, AdmittedStep DEF Stays

(***************************************************************************)
(* Refusals.  A call that leaves the look without an assignment has seen   *)
(* the budget open, under a lock that nobody else holds.                   *)
(***************************************************************************)
LEMMA NextLooks ==
  TypeOK /\ LockHeldOnce /\ LooksHold /\ [Next]_vars => LooksHold'
<1> SUFFICES ASSUME TypeOK, LockHeldOnce, LooksHold, [Next]_vars,
                    NEW d \in Calls, pc'[d] = "assign",
                    assigning'[d] = "none"
             PROVE  ~BudgetSpent'
  BY DEF LooksHold
<1>0. /\ pc \in [Threads -> Steps] /\ d \in Threads /\ d # Puller
      /\ assigning \in [Threads -> Reasons]
  BY CallsAssumption DEF TypeOK, Threads
<1>1. ASSUME count' = count, pc'[d] = pc[d], assigning'[d] = assigning[d]
      PROVE  ~BudgetSpent'
  BY <1>1 DEF LooksHold, BudgetSpent
<1>2. CASE Tick \/ RequestStop \/ UNCHANGED vars
  BY <1>1, <1>2 DEF Tick, RequestStop, vars, slots
<1>3. CASE PullerStep
  BY <1>0, <1>1, <1>3
  DEF PullerStep, LookAtStops, PullerConcludes, slots
<1>4. ASSUME NEW c \in Calls, CallStep(c) PROVE ~BudgetSpent'
  <2>0. c \in Threads
    BY DEF Threads
  <2>1. CASE LookAtStops(c)
    <3>1. CASE d = c
      <4>1. BudgetSpent => assigning'[c] # "none"
        BY <1>0, <2>0, <2>1 DEF LookAtStops
      <4>. QED BY <2>1, <3>1, <4>1 DEF LookAtStops, slots, BudgetSpent
    <3>2. CASE d # c
      BY <1>0, <1>1, <2>1, <3>2 DEF LookAtStops, slots
    <3>. QED BY <3>1, <3>2
  <2>2. CASE Admit(c)
    <3>1. pc'[d] = "assign" => pc[d] = "assign" /\ d # c
      BY <1>0, <2>0, <2>2 DEF Admit, TakeSlot
    <3>. QED BY <2>2, <3>1 DEF Admit, LockHeldOnce, Critical
  <2>3. CASE ~LookAtStops(c) /\ ~Admit(c)
    <3>1. count' = count /\ assigning' = assigning
      BY <1>4, <2>3
      DEF CallStep, Plan, PlanFails, ConcludeStops, Wait, Wake, EmitStarted,
          Finish, Release, EmitFinished, slots
    <3>2. pc'[d] = pc[d] \/ pc'[d] # "assign"
      BY <1>0, <2>0, <1>4, <2>3
      DEF CallStep, Plan, PlanFails, ConcludeStops, Wait, Wake, EmitStarted,
          Finish, Release, EmitFinished
    <3>. QED BY <1>1, <3>1, <3>2
  <2>. QED BY <2>1, <2>2, <2>3
<1>. QED BY <1>2, <1>3, <1>4 DEF Next, Terminated

LEMMA UnaffordableStays ==
  ASSUME TypeOK, [Next]_vars, NEW c \in Calls, Unaffordable(c)
  PROVE  Unaffordable(c)'
<1>1. count \in Nat /\ count' \in Nat /\ count <= count' /\ Cost[c] \in Nat
  BY CountGrows, CostAssumption DEF TypeOK
<1>. QED BY <1>1, Parameters DEF Unaffordable, ParameterFacts

LEMMA RefusedStays ==
  ASSUME TypeOK, [Next]_vars, NEW c \in Calls, Refused(c)
  PROVE  Refused(c)'
  BY ReasonStays, UnaffordableStays DEF Refused

LEMMA NextRefusals ==
  TypeOK /\ LooksHold /\ RefusalsFounded /\ [Next]_vars => RefusalsFounded'
<1> SUFFICES ASSUME TypeOK, LooksHold, RefusalsFounded, [Next]_vars,
                    NEW d \in Calls, pc'[d] = "refused"
             PROVE  Refused(d)'
  BY DEF RefusalsFounded
<1>0. pc \in [Threads -> Steps] /\ d \in Threads /\ d # Puller
  BY CallsAssumption DEF TypeOK, Threads
<1>1. CASE pc[d] = "refused"
  BY <1>1, RefusedStays DEF RefusalsFounded
<1>2. CASE pc[d] # "refused"
  <2>1. ConcludeStops(d)
    <3>1. ASSUME NEW c \in Calls, CallStep(c) PROVE ConcludeStops(d)
      BY <1>0, <1>2, <3>1
      DEF CallStep, Plan, PlanFails, LookAtStops, ConcludeStops, Admit,
          TakeSlot, Wait, Wake, EmitStarted, Finish, Release, EmitFinished,
          Threads
    <3>2. ~(Tick \/ RequestStop \/ PullerStep \/ UNCHANGED vars)
      BY <1>0, <1>2
      DEF Tick, RequestStop, PullerStep, LookAtStops, PullerConcludes, vars
    <3>. QED BY <3>1, <3>2 DEF Next, Terminated
  <2>2. reason' # "none" \/ Unaffordable(d)
    BY <1>0, <2>1 DEF ConcludeStops
  <2>3. CASE reason' # "none"
    BY <2>3 DEF Refused
  <2>4. CASE reason' = "none"
    <3>1. assigning[d] = "none"
      BY <2>1, <2>4 DEF ConcludeStops, Assigned
    <3>2. ~BudgetSpent
      BY <2>1, <3>1 DEF ConcludeStops, LooksHold
    <3>3. Unaffordable(d) /\ count \in Nat /\ Cost[d] \in Nat \ {0}
      BY <2>2, <2>4, CostAssumption DEF TypeOK
    <3>4. Cost[d] > 1
      BY <3>2, <3>3, Parameters DEF BudgetSpent, Unaffordable, ParameterFacts
    <3>. QED BY <3>3, <3>4, UnaffordableStays DEF Refused
  <2>. QED BY <2>3, <2>4
<1>. QED BY <1>1, <1>2

(***************************************************************************)
(* What the steps of a collection do.                                      *)
(***************************************************************************)
LEMMA AskFacts ==
  ASSUME NEW s \in Samples
  PROVE  /\ Len(Asks[s]) \in Nat
         /\ DOMAIN Asks[s] = 1..Len(Asks[s])
         /\ \A i \in 1..Len(Asks[s]) : Asks[s][i] \in Calls
<1>1. Asks[s] \in Seq(Calls)
  BY AsksAssumption
<1>. QED BY <1>1

LEMMA SampleFacts ==
  /\ Cardinality(Samples) \in Nat
  /\ Samples = 1..Cardinality(Samples)
  /\ IsFiniteSet(Samples)
  BY SamplesAssumption, FS_CardinalityType

\* The request that a sample has under way is a call of the scheduler.
LEMMA CurrentCall ==
  ASSUME SessionShape, RequestsOrderly, NEW s \in Samples,
         stage[s] = "asking"
  PROVE  /\ made[s] \in 1..Len(Asks[s])
         /\ Current(s) \in Calls /\ Current(s) = Asks[s][made[s]]
<1>1. made[s] \in Nat /\ made[s] > 0 /\ made[s] <= Len(Asks[s])
  BY DEF SessionShape, RequestsOrderly
<1>. QED BY <1>1, AskFacts DEF Current

\* A sample that asks plans a call that nobody has made yet.
LEMMA AskStep ==
  ASSUME SessionShape, NEW s \in Samples, Ask(s)
  PROVE  /\ made[s] + 1 \in 1..Len(Asks[s])
         /\ Asks[s][made[s] + 1] \in Calls
         /\ made' = [made EXCEPT ![s] = made[s] + 1]
         /\ made'[s] = made[s] + 1
         /\ stage' = [stage EXCEPT ![s] = "asking"]
         /\ pc[Asks[s][made[s] + 1]] = "outside"
         /\ \E step \in {"stops", "invalid"} :
              pc' = [pc EXCEPT ![Asks[s][made[s] + 1]] = step]
         /\ CallStep(Asks[s][made[s] + 1])
         /\ UNCHANGED <<pool, exhausted, pulled, futures, state, rows,
                        complete>>
<1>1. made[s] \in Nat /\ made[s] < Len(Asks[s]) /\ Len(Asks[s]) \in Nat
  BY AskFacts DEF SessionShape, Ask
<1>2. made[s] + 1 \in 1..Len(Asks[s])
  BY <1>1
<1>3. made'[s] = made[s] + 1
  BY DEF SessionShape, Ask
<1>4. LET c == Asks[s][made[s] + 1] IN Plan(c) \/ PlanFails(c)
  BY <1>3 DEF Ask
<1>5. LET c == Asks[s][made[s] + 1]
      IN  /\ pc[c] = "outside"
          /\ \E step \in {"stops", "invalid"} : pc' = [pc EXCEPT ![c] = step]
  BY <1>4 DEF Plan, PlanFails
<1>. QED BY <1>2, <1>3, <1>4, <1>5, AskFacts DEF Ask, CallStep

\* A request under way moves its own call only, and never back to the outside.
LEMMA RequestStep ==
  ASSUME SessionShape, RequestsOrderly, NEW s \in Samples, Request(s)
  PROVE  /\ stage[s] = "asking" /\ made[s] \in 1..Len(Asks[s])
         /\ Current(s) \in Calls /\ Current(s) = Asks[s][made[s]]
         /\ CallStep(Current(s))
         /\ pc[Current(s)] \notin Final \cup {"outside"}
         /\ \E step \in Steps \ {"outside"} :
              pc' = [pc EXCEPT ![Current(s)] = step]
         /\ UNCHANGED sessionVars
<1>1. stage[s] = "asking" /\ UNCHANGED sessionVars
  BY DEF Request
<1> DEFINE c == Current(s)
<1>2. \/ LookAtStops(c) \/ ConcludeStops(c) \/ Admit(c) \/ Wait(c)
      \/ Wake(c) \/ EmitStarted(c) \/ Finish(c) \/ Release(c)
      \/ EmitFinished(c)
  BY DEF Request
<1> HIDE DEF c
<1>3. CallStep(c)
  BY <1>2 DEF CallStep
<1>4. pc[c] \notin Final \cup {"outside"}
  BY <1>2
  DEF LookAtStops, ConcludeStops, Admit, Wait, Wake, EmitStarted, Finish,
      Release, EmitFinished, Final
<1>5. \E step \in Steps \ {"outside"} : pc' = [pc EXCEPT ![c] = step]
  BY <1>2
  DEF LookAtStops, ConcludeStops, Admit, TakeSlot, Wait, Wake, EmitStarted,
      Finish, Release, EmitFinished, Steps
<1>. QED BY <1>1, <1>3, <1>4, <1>5, CurrentCall DEF c

\* The pool moves no call, and of the samples only starts one.
LEMMA PoolMovesNoCall ==
  ASSUME TypeOK, PoolStep
  PROVE  /\ \A c \in Calls : pc'[c] = pc[c]
         /\ UNCHANGED <<made, state>>
         /\ stage' = stage \/ Submit
         /\ PullerStep \/ UNCHANGED vars
<1>0. pc \in [Threads -> Steps] /\ \A c \in Calls : c \in Threads /\ c # Puller
  BY CallsAssumption DEF TypeOK, Threads
<1>1. CASE PoolLooks \/ PoolConcludes
  <2>1. PullerStep
    BY <1>1 DEF PoolLooks, PoolConcludes, PullerStep
  <2>2. \A c \in Calls : pc'[c] = pc[c]
    BY <1>0, <2>1 DEF PullerStep, LookAtStops, PullerConcludes
  <2>. QED BY <1>1, <2>1, <2>2 DEF PoolLooks, PoolConcludes, sessionVars
<1>2. CASE ~(PoolLooks \/ PoolConcludes)
  <2>1. UNCHANGED vars
    BY <1>2
    DEF PoolStep, Submit, RunOutOfSamples, IteratorRaises, Gather, PoolExits,
        Decide
  <2>2. UNCHANGED <<made, state>> /\ (stage' = stage \/ Submit)
    BY <1>2
    DEF PoolStep, Submit, RunOutOfSamples, IteratorRaises, Gather, PoolExits,
        Decide
  <2>3. \A c \in Calls : pc'[c] = pc[c]
    BY <2>1 DEF vars
  <2>. QED BY <2>1, <2>2, <2>3
<1>. QED BY <1>1, <1>2

\* The environment, the end and a stutter move nothing of the collection.
Idle == Environment \/ Over \/ UNCHANGED allVars

LEMMA IdleMovesNothing ==
  Idle => /\ UNCHANGED sessionVars /\ pc' = pc
          /\ Tick \/ RequestStop \/ UNCHANGED vars
  BY DEF Idle, Environment, Over, allVars, Tick, RequestStop, vars

\* Every step of a collection is one of the scheduler, or none.
LEMMA Scheduled ==
  ASSUME TypeOK, SessionShape, RequestsOrderly, [SessionNext]_allVars
  PROVE  [Next]_vars
<1>1. CASE PoolStep
  BY <1>1, PoolMovesNoCall DEF Next
<1>2. ASSUME NEW s \in Samples, SampleStep(s) PROVE [Next]_vars
  <2>1. CASE Ask(s)
    BY <2>1, AskStep DEF Next
  <2>2. CASE Request(s)
    BY <2>2, RequestStep DEF Next
  <2>3. CASE StartSample(s) \/ Resume(s) \/ EndSample(s)
    BY <2>3 DEF StartSample, Resume, EndSample
  <2>. QED BY <1>2, <2>1, <2>2, <2>3 DEF SampleStep
<1>3. CASE Idle
  BY <1>3, IdleMovesNothing DEF Next
<1>. QED BY <1>1, <1>2, <1>3 DEF SessionNext, Idle

(***************************************************************************)
(* The invariant, part by part: the shape.                                 *)
(***************************************************************************)
LEMMA NextShape ==
  ASSUME TypeOK, SessionShape, RequestsOrderly, [SessionNext]_allVars
  PROVE  SessionShape'
<1>0. pulled \in Nat /\ Cardinality(Samples) \in Nat
  BY SampleFacts DEF SessionShape
<1>1. CASE PoolStep
  <2>1. UNCHANGED <<made, state>>
    BY <1>1, PoolMovesNoCall
  <2>2. pool' \in {"looking", "pulling", "waiting", "aborting", "aborted",
                   "ended", "decided"}
    BY <1>1
    DEF PoolStep, PoolLooks, PoolConcludes, Submit, RunOutOfSamples,
        IteratorRaises, Gather, PoolExits, Decide, PoolGoesOn, SessionShape,
        sessionVars
  <2>3. exhausted' \in BOOLEAN /\ complete' \in BOOLEAN
    <3>1. stopFile \in BOOLEAN
      BY DEF TypeOK
    <3>. QED
      BY <1>1, <3>1
      DEF PoolStep, PoolLooks, PoolConcludes, Submit, RunOutOfSamples,
          IteratorRaises, Gather, PoolExits, Decide, SessionShape, sessionVars
  <2>4. CASE Submit
    <3>1. pulled' = pulled + 1 /\ pulled' \in 1..Cardinality(Samples)
      BY <2>4, SampleFacts DEF Submit
    <3>2. futures' \subseteq 1..pulled' /\ rows' \subseteq 1..pulled'
      BY <1>0, <2>4, <3>1 DEF Submit, SessionShape
    <3>3. stage' \in [Samples -> {"unpulled", "submitted", "evaluating",
                                  "asking", "returned", "crashed"}]
      BY <2>4 DEF Submit, SessionShape
    <3>. QED BY <2>1, <2>2, <2>3, <3>1, <3>2, <3>3 DEF SessionShape
  <2>5. CASE ~Submit
    <3>1. UNCHANGED <<pulled, stage>>
      BY <1>1, <2>5
      DEF PoolStep, PoolLooks, PoolConcludes, RunOutOfSamples,
          IteratorRaises, Gather, PoolExits, Decide, sessionVars
    <3>2. futures' \subseteq futures /\ rows' \subseteq rows \cup futures
      BY <1>1, <2>5
      DEF PoolStep, PoolLooks, PoolConcludes, RunOutOfSamples,
          IteratorRaises, Gather, Finished, PoolExits, Decide, sessionVars
    <3>. QED BY <2>1, <2>2, <2>3, <3>1, <3>2 DEF SessionShape
  <2>. QED BY <2>4, <2>5
<1>2. ASSUME NEW s \in Samples, SampleStep(s) PROVE SessionShape'
  <2>1. UNCHANGED <<pool, exhausted, pulled, futures, rows, complete>>
    BY <1>2
    DEF SampleStep, StartSample, Ask, Request, Resume, EndSample, sessionVars
  <2>2. made' \in [Samples -> Nat]
    BY <1>2
    DEF SampleStep, StartSample, Ask, Request, Resume, EndSample, sessionVars,
        SessionShape
  <2>3. stage' \in [Samples -> {"unpulled", "submitted", "evaluating",
                                "asking", "returned", "crashed"}]
    BY <1>2
    DEF SampleStep, StartSample, Ask, Request, Resume, EndSample, sessionVars,
        SessionShape
  <2>4. state' \in [Samples -> {"none", "complete", "failed", "incomplete",
                                "not_started"}]
    BY <1>2
    DEF SampleStep, StartSample, Ask, Request, Resume, EndSample, sessionVars,
        SessionShape, RowStates, CutShort
  <2>. QED BY <2>1, <2>2, <2>3, <2>4 DEF SessionShape
<1>3. CASE Idle
  BY <1>3, IdleMovesNothing DEF sessionVars, SessionShape
<1>. QED BY <1>1, <1>2, <1>3 DEF SessionNext, Idle

(***************************************************************************)
(* The pool.  It looks for another sample only while there is room for a   *)
(* future, and nothing writes a reason once the collection is over.        *)
(***************************************************************************)
LEMMA FuturesFinite ==
  ASSUME SessionShape
  PROVE  IsFiniteSet(futures) /\ Cardinality(futures) \in Nat
<1>1. futures \subseteq 1..pulled /\ pulled \in Nat
  BY SampleFacts DEF SessionShape
<1>2. IsFiniteSet(1..pulled)
  BY <1>1, FS_Interval
<1>3. IsFiniteSet(futures)
  BY <1>1, <1>2, FS_Subset
<1>. QED BY <1>3, FS_CardinalityType

\* What the pool decides at the head of its loops.
LEMMA PoolDecides ==
  ASSUME NEW stopped \in BOOLEAN, NEW W, PoolGoesOn(stopped, W),
         IsFiniteSet(W), Cardinality(W) <= Capacity
  PROVE  /\ pool' \in {"looking", "waiting", "ended"}
         /\ pool' = "looking" => ~stopped /\ Cardinality(W) < Capacity
         /\ pool' = "ended" => stopped /\ W = {}
<1>1. W = {} => Cardinality(W) < Capacity
  BY FS_EmptySet, Parameters DEF ParameterFacts
<1>. QED BY <1>1 DEF PoolGoesOn

LEMMA ReasonKept ==
  ASSUME TypeOK, SessionShape, RequestsOrderly, PoolOrderly, SamplesOrderly,
         [SessionNext]_allVars, pool = "decided"
  PROVE  reason' = reason
<1>1. CASE PoolStep
  BY <1>1 DEF PoolStep, PoolLooks, PoolConcludes, Submit, RunOutOfSamples,
              IteratorRaises, Gather, PoolExits, Decide
<1>2. ASSUME NEW s \in Samples, SampleStep(s) PROVE reason' = reason
  <2>1. stage[s] # "asking" /\ stage[s] # "evaluating"
    BY DEF PoolOrderly, SamplesOrderly
  <2>. QED BY <1>2, <2>1
           DEF SampleStep, StartSample, Ask, Request, Resume, EndSample, vars
<1>3. CASE Idle
  BY <1>3, IdleMovesNothing DEF Tick, RequestStop, vars
<1>. QED BY <1>1, <1>2, <1>3 DEF SessionNext, Idle

LEMMA NextPool ==
  ASSUME TypeOK, ReasonTruthful, SessionShape, RequestsOrderly, PoolOrderly,
         SamplesOrderly, [SessionNext]_allVars
  PROVE  PoolOrderly'
<1>0. /\ IsFiniteSet(futures) /\ Cardinality(futures) \in Nat
      /\ Cardinality(futures) <= Capacity /\ Capacity \in Nat \ {0}
      /\ exhausted \in BOOLEAN /\ pulled \in 0..Cardinality(Samples)
      /\ Cardinality(Samples) \in Nat
  BY FuturesFinite, Parameters, SampleFacts
  DEF PoolOrderly, ParameterFacts, SessionShape
<1>1. reason # "none" => reason' # "none"
  BY Scheduled, ReasonStays
<1>2. complete => reason' = reason
  BY ReasonKept DEF PoolOrderly
<1>3. ASSUME UNCHANGED <<pool, exhausted, pulled, futures, complete>>
      PROVE  PoolOrderly'
  BY <1>1, <1>2, <1>3 DEF PoolOrderly
<1>4. CASE PoolLooks
  BY <1>3, <1>4 DEF PoolLooks, sessionVars
<1>5. CASE PoolConcludes
  <2>1. ~exhausted /\ Cardinality(futures) < Capacity /\ ~complete
    BY <1>5 DEF PoolConcludes, PoolOrderly
  <2>2. UNCHANGED <<pulled, futures, complete>> /\ exhausted' \in BOOLEAN
    BY <1>5 DEF PoolConcludes
  <2>3. CASE exhausted'
    <3>1. reason' # "none"
      <4>1. pc'[Puller] = "done" /\ Puller \in Threads
        BY <1>5, <2>3 DEF PoolConcludes, Threads
      <4>. QED BY <1>5, <4>1 DEF PoolConcludes, PullerConcludes, TypeOK
    <3>2. PoolGoesOn(TRUE, futures)
      BY <1>5, <2>3 DEF PoolConcludes
    <3>3. pool' # "looking" /\ pool' # "pulling" /\ pool' # "decided"
          /\ (pool' = "ended" => futures = {})
      BY <1>0, <3>2, PoolDecides
    <3>. QED BY <1>0, <2>1, <2>2, <2>3, <3>1, <3>3 DEF PoolOrderly
  <2>4. CASE ~exhausted'
    <3>1. pool' = "pulling"
      BY <1>5, <2>4 DEF PoolConcludes
    <3>. QED BY <1>0, <2>1, <2>2, <2>4, <3>1 DEF PoolOrderly
  <2>. QED BY <2>3, <2>4
<1>6. CASE Submit
  <2>1. ~exhausted /\ Cardinality(futures) < Capacity /\ ~complete
    BY <1>6 DEF Submit, PoolOrderly
  <2>2. UNCHANGED <<exhausted, complete>> /\ PoolGoesOn(FALSE, futures')
    BY <1>6 DEF Submit
  <2>3. futures' = futures \cup {pulled + 1} /\ pulled + 1 \notin futures
    BY <1>0, <1>6 DEF Submit, SessionShape
  <2>4. /\ IsFiniteSet(futures')
        /\ Cardinality(futures') = Cardinality(futures) + 1
    BY <1>0, <2>3, FS_AddElement
  <2>5. Cardinality(futures') <= Capacity
    BY <1>0, <2>1, <2>4
  <2>6. /\ pool' \in {"looking", "waiting", "ended"}
        /\ pool' = "looking" => Cardinality(futures') < Capacity
        /\ pool' # "ended"
    BY <2>2, <2>4, <2>5, PoolDecides
  <2>. QED BY <2>1, <2>2, <2>5, <2>6 DEF PoolOrderly
<1>7. CASE RunOutOfSamples
  <2>1. ~exhausted /\ Cardinality(futures) < Capacity /\ ~complete
    BY <1>7 DEF RunOutOfSamples, PoolOrderly
  <2>2. /\ UNCHANGED <<pulled, futures, complete>> /\ exhausted' = TRUE
        /\ PoolGoesOn(TRUE, futures)
    BY <1>7 DEF RunOutOfSamples
  <2>3. pulled = Cardinality(Samples)
    BY <1>0, <1>7, SampleFacts DEF RunOutOfSamples
  <2>4. pool' # "looking" /\ pool' # "pulling" /\ pool' # "decided"
        /\ (pool' = "ended" => futures = {})
    BY <1>0, <2>2, PoolDecides
  <2>. QED BY <1>0, <2>1, <2>2, <2>3, <2>4 DEF PoolOrderly
<1>8. CASE IteratorRaises \/ PoolExits
  BY <1>0, <1>1, <1>2, <1>8 DEF IteratorRaises, PoolExits, PoolOrderly
<1>9. CASE Gather
  <2>1. ~complete
    BY <1>9 DEF Gather, PoolOrderly
  <2>2. UNCHANGED <<exhausted, pulled, complete>> /\ futures' \subseteq futures
    BY <1>9 DEF Gather
  <2>3. /\ IsFiniteSet(futures')
        /\ Cardinality(futures') \in Nat
        /\ Cardinality(futures') <= Cardinality(futures)
    BY <1>0, <2>2, FS_Subset, FS_CardinalityType
  <2>4. Cardinality(futures') <= Capacity
    BY <1>0, <2>3
  <2>5. /\ pool' \in {"aborting", "looking", "waiting", "ended"}
        /\ pool' = "looking" => ~exhausted /\ Cardinality(futures') < Capacity
        /\ pool' = "ended" => exhausted /\ futures' = {}
    <3>1. CASE PoolGoesOn(exhausted, futures')
      BY <1>0, <2>3, <2>4, <3>1, PoolDecides
    <3>2. CASE ~PoolGoesOn(exhausted, futures')
      BY <1>9, <3>2 DEF Gather
    <3>. QED BY <3>1, <3>2
  <2>. QED BY <1>1, <2>1, <2>2, <2>4, <2>5 DEF PoolOrderly
<1>10. CASE Decide
  <2>1. UNCHANGED <<exhausted, pulled, futures, reason>>
    BY <1>10 DEF Decide, vars
  <2>2. pool = "ended" /\ pool' = "decided" /\ complete' = ~stopFile
    BY <1>10 DEF Decide
  <2>3. reason = "user_interrupt" => stopFile
    BY DEF ReasonTruthful
  <2>. QED BY <1>0, <2>1, <2>2, <2>3 DEF PoolOrderly
<1>11. ASSUME NEW s \in Samples, SampleStep(s) PROVE PoolOrderly'
  <2>1. UNCHANGED <<pool, exhausted, pulled, futures, complete>>
    BY <1>11
    DEF SampleStep, StartSample, Ask, Request, Resume, EndSample, sessionVars
  <2>. QED BY <1>3, <2>1
<1>12. CASE Idle
  BY <1>3, <1>12, IdleMovesNothing DEF sessionVars
<1>. QED BY <1>4, <1>5, <1>6, <1>7, <1>8, <1>9, <1>10, <1>11, <1>12
         DEF SessionNext, PoolStep, Idle

(***************************************************************************)
(* The samples.  A thread that is in its sample is pending in the pool.    *)
(***************************************************************************)
LEMMA NextSamples ==
  ASSUME TypeOK, SessionShape, RequestsOrderly, PoolOrderly, SamplesOrderly,
         [SessionNext]_allVars
  PROVE  SamplesOrderly'
<1>0. /\ pulled \in Nat /\ Cardinality(Samples) \in Nat
      /\ Samples = 1..Cardinality(Samples)
      /\ futures \subseteq 1..pulled /\ rows \subseteq 1..pulled
      /\ stage \in [Samples -> {"unpulled", "submitted", "evaluating",
                                "asking", "returned", "crashed"}]
      /\ made \in [Samples -> Nat]
  BY SampleFacts DEF SessionShape
<1>1. ASSUME UNCHANGED <<pool, pulled, futures, rows, stage, made>>
      PROVE  SamplesOrderly'
  BY <1>1 DEF SamplesOrderly, Finished
<1>2. CASE PoolLooks
  BY <1>1, <1>2 DEF PoolLooks, sessionVars
<1>3. CASE PoolConcludes \/ RunOutOfSamples
  <2>1. UNCHANGED <<pulled, futures, rows, stage, made>>
    BY <1>3 DEF PoolConcludes, RunOutOfSamples
  <2>2. pool \in {"looking", "pulling"} /\ pool' # "aborted"
    BY <1>3 DEF PoolConcludes, RunOutOfSamples, PoolGoesOn
  <2>. QED BY <2>1, <2>2 DEF SamplesOrderly
<1>4. CASE Submit
  <2>1. /\ pool = "pulling" /\ pulled' = pulled + 1
        /\ pulled + 1 \in Samples
        /\ futures' = futures \cup {pulled + 1}
        /\ stage' = [stage EXCEPT ![pulled + 1] = "submitted"]
        /\ UNCHANGED <<rows, made>>
    BY <1>4 DEF Submit
  <2>2. pool' # "aborted"
    BY <1>4 DEF Submit, PoolGoesOn
  <2>3. rows' \cup futures' = 1..pulled'
    <3>1. rows \cup futures = 1..pulled
      BY <2>1 DEF SamplesOrderly
    <3>. QED BY <1>0, <2>1, <3>1
  <2>4. stage[pulled + 1] = "unpulled"
    BY <1>0, <2>1 DEF SamplesOrderly
  <2>5. ASSUME NEW s \in Samples
        PROVE  /\ s <= pulled' <=> stage'[s] # "unpulled"
               /\ stage'[s] \in {"submitted", "evaluating", "asking"} =>
                    s \in futures'
               /\ stage'[s] \in {"unpulled", "submitted"} => made'[s] = 0
               /\ s \in rows' => stage'[s] = "returned"
    <3>1. CASE s = pulled + 1
      <4>1. stage'[s] = "submitted" /\ made'[s] = 0 /\ s \notin rows'
        BY <1>0, <2>1, <2>4, <3>1 DEF SamplesOrderly
      <4>2. s <= pulled'
        BY <1>0, <2>1, <3>1
      <4>. QED BY <2>1, <3>1, <4>1, <4>2
    <3>2. CASE s # pulled + 1
      <4>1. stage'[s] = stage[s] /\ (s <= pulled' <=> s <= pulled)
        BY <1>0, <2>1, <3>2
      <4>. QED BY <2>1, <4>1 DEF SamplesOrderly
    <3>. QED BY <3>1, <3>2
  <2>. QED BY <2>2, <2>3, <2>5 DEF SamplesOrderly
<1>5. CASE IteratorRaises \/ PoolExits
  <2>1. UNCHANGED <<pulled, futures, rows, stage, made>>
    BY <1>5 DEF IteratorRaises, PoolExits
  <2>2. /\ pool' \in {"aborting", "aborted"}
        /\ pool' = "aborted" => Finished = futures
    BY <1>5 DEF IteratorRaises, PoolExits
  <2>. QED BY <2>1, <2>2 DEF SamplesOrderly, Finished
<1>6. CASE Gather
  <2>1. /\ pool = "waiting" /\ futures' = futures \ Finished
        /\ UNCHANGED <<pulled, stage, made>>
    BY <1>6 DEF Gather
  <2>2. /\ pool' # "aborted"
        /\ \/ pool' = "aborting" /\ rows' = rows
           \/ /\ rows' = rows \cup Finished
              /\ \A s \in Finished : stage[s] # "crashed"
    BY <1>6 DEF Gather, PoolGoesOn
  <2>3. pool' # "aborting" => rows' \cup futures' = 1..pulled'
    BY <2>1, <2>2 DEF SamplesOrderly, Finished
  <2>4. ASSUME NEW s \in Samples
        PROVE  /\ s <= pulled' <=> stage'[s] # "unpulled"
               /\ stage'[s] \in {"submitted", "evaluating", "asking"} =>
                    s \in futures'
               /\ stage'[s] \in {"unpulled", "submitted"} => made'[s] = 0
               /\ s \in rows' => stage'[s] = "returned"
    BY <2>1, <2>2 DEF SamplesOrderly, Finished
  <2>. QED BY <2>2, <2>3, <2>4 DEF SamplesOrderly
<1>7. CASE Decide
  <2>1. /\ UNCHANGED <<pulled, futures, rows, stage, made>>
        /\ pool = "ended" /\ pool' = "decided"
    BY <1>7 DEF Decide
  <2>. QED BY <2>1 DEF SamplesOrderly
<1>8. ASSUME NEW s \in Samples, SampleStep(s) PROVE SamplesOrderly'
  <2>1. UNCHANGED <<pool, exhausted, pulled, futures, rows, complete>>
    BY <1>8
    DEF SampleStep, StartSample, Ask, Request, Resume, EndSample, sessionVars
  <2>2. \A t \in Samples \ {s} : stage'[t] = stage[t] /\ made'[t] = made[t]
    BY <1>0, <1>8
    DEF SampleStep, StartSample, Ask, Request, Resume, EndSample, sessionVars
  <2>3. stage[s] \in {"submitted", "evaluating", "asking"}
    BY <1>8
    DEF SampleStep, StartSample, Ask, Request, Resume, EndSample
  <2>4. stage'[s] \in {"evaluating", "asking", "returned", "crashed"}
    BY <1>0, <1>8, <2>3
    DEF SampleStep, StartSample, Ask, Request, Resume, EndSample, sessionVars
  <2>5. s \in futures /\ s \notin rows
    BY <2>3 DEF SamplesOrderly
  <2>6. pool' = "aborted" => Finished' = futures'
    <3>1. pool # "aborted"
      BY <2>3, <2>5 DEF SamplesOrderly, Finished
    <3>. QED BY <2>1, <3>1
  <2>7. ASSUME NEW t \in Samples
        PROVE  /\ t <= pulled' <=> stage'[t] # "unpulled"
               /\ stage'[t] \in {"submitted", "evaluating", "asking"} =>
                    t \in futures'
               /\ stage'[t] \in {"unpulled", "submitted"} => made'[t] = 0
               /\ t \in rows' => stage'[t] = "returned"
    <3>1. CASE t = s
      <4>1. s <= pulled
        BY <2>3 DEF SamplesOrderly
      <4>. QED BY <2>1, <2>4, <2>5, <3>1, <4>1
    <3>2. CASE t # s
      BY <2>1, <2>2, <3>2 DEF SamplesOrderly
    <3>. QED BY <3>1, <3>2
  <2>. QED BY <2>1, <2>6, <2>7 DEF SamplesOrderly
<1>9. CASE Idle
  BY <1>1, <1>9, IdleMovesNothing DEF sessionVars
<1>. QED BY <1>2, <1>3, <1>4, <1>5, <1>6, <1>7, <1>8, <1>9
         DEF SessionNext, PoolStep, Idle

(***************************************************************************)
(* The requests.  Those a sample has made are over but for the last one,   *)
(* and nobody else makes them.                                             *)
(***************************************************************************)

\* What RequestsOrderly says of one sample.
InOrder(s) ==
  /\ made[s] <= Len(Asks[s])
  /\ stage[s] = "asking" => made[s] > 0
  /\ \A i \in DOMAIN Asks[s] :
       /\ i < made[s] => pc[Asks[s][i]] \in Final
       /\ i = made[s] /\ stage[s] # "asking" => pc[Asks[s][i]] \in Final
       /\ i > made[s] => pc[Asks[s][i]] = "outside"

UnderWay(c) == \E s \in Samples : stage[s] = "asking" /\ c = Current(s)

LEMMA OrderParts ==
  RequestsOrderly <=>
    /\ \A s \in Samples : InOrder(s)
    /\ \A c \in Calls : pc[c] \notin Final \cup {"outside"} => UnderWay(c)
  BY DEF RequestsOrderly, InOrder, UnderWay

LEMMA NextRequests ==
  ASSUME TypeOK, SessionShape, SamplesOrderly, RequestsOrderly,
         [SessionNext]_allVars
  PROVE  RequestsOrderly'
<1>0. /\ pc \in [Threads -> Steps] /\ \A c \in Calls : c \in Threads
      /\ stage \in [Samples -> {"unpulled", "submitted", "evaluating",
                                "asking", "returned", "crashed"}]
      /\ made \in [Samples -> Nat]
  BY DEF TypeOK, Threads, SessionShape
<1>a. (RequestsOrderly <=>
        /\ \A s \in Samples : InOrder(s)
        /\ \A c \in Calls : pc[c] \notin Final \cup {"outside"} =>
                              UnderWay(c))'
  BY OrderParts, PTL
<1>b. /\ \A s \in Samples : InOrder(s)
      /\ \A c \in Calls : pc[c] \notin Final \cup {"outside"} => UnderWay(c)
  BY OrderParts
<1>1. ASSUME \A c \in Calls : pc'[c] = pc[c], made' = made,
             \A s \in Samples : stage'[s] = "asking" <=> stage[s] = "asking"
      PROVE  RequestsOrderly'
  <2>1. \A s \in Samples : InOrder(s)'
    BY <1>1, <1>b, AskFacts DEF InOrder
  <2>2. \A c \in Calls : UnderWay(c) => UnderWay(c)'
    BY <1>1 DEF UnderWay, Current
  <2>. QED BY <1>1, <1>a, <1>b, <2>1, <2>2
<1>2. CASE PoolStep
  <2>1. /\ \A c \in Calls : pc'[c] = pc[c]
        /\ made' = made /\ (stage' = stage \/ Submit)
    BY <1>2, PoolMovesNoCall
  <2>2. \A s \in Samples : stage'[s] = "asking" <=> stage[s] = "asking"
    <3>1. CASE Submit
      <4>1. /\ stage' = [stage EXCEPT ![pulled + 1] = "submitted"]
            /\ pulled + 1 \in Samples
        BY <3>1 DEF Submit
      <4>2. stage[pulled + 1] # "asking"
        BY <4>1, SampleFacts DEF SamplesOrderly, SessionShape
      <4>. QED BY <1>0, <4>1, <4>2
    <3>. QED BY <2>1, <3>1
  <2>. QED BY <1>1, <2>1, <2>2
<1>3. ASSUME NEW s \in Samples, Ask(s) PROVE RequestsOrderly'
  <2> DEFINE k == made[s] + 1
             c == Asks[s][k]
  <2>1. /\ k \in 1..Len(Asks[s]) /\ c \in Calls
        /\ made' = [made EXCEPT ![s] = k] /\ made'[s] = k
        /\ stage' = [stage EXCEPT ![s] = "asking"]
        /\ pc[c] = "outside"
    BY <1>3, AskStep
  <2>2. PICK step \in {"stops", "invalid"} : pc' = [pc EXCEPT ![c] = step]
    BY <1>3, AskStep
  <2>3. stage[s] = "evaluating"
    BY <1>3 DEF Ask
  <2>4. \A d \in Calls : d # c => pc'[d] = pc[d]
    BY <1>0, <2>2
  <2>5. \A i \in 1..Len(Asks[s]) : i # k => Asks[s][i] # c
    BY <2>1, AsksAssumption, AskFacts
  <2> HIDE DEF c
  <2>6. InOrder(s)'
    <3>1. \A i \in 1..Len(Asks[s]) :
            /\ i < k => pc[Asks[s][i]] \in Final
            /\ i > k => pc[Asks[s][i]] = "outside"
      BY <1>0, <1>b, <2>3, AskFacts DEF InOrder
    <3>2. \A i \in 1..Len(Asks[s]) :
            /\ i < k => pc'[Asks[s][i]] \in Final
            /\ i > k => pc'[Asks[s][i]] = "outside"
      BY <2>4, <2>5, <3>1, AskFacts
    <3>3. stage'[s] = "asking"
      BY <1>0, <2>1
    <3>4. k \in Nat /\ k <= Len(Asks[s]) /\ k > 0
      BY <2>1, AskFacts
    <3>5. DOMAIN Asks[s] = 1..Len(Asks[s])
      BY AskFacts
    <3>6. made'[s] = k
      BY <2>1
    <3> HIDE DEF k
    <3>. QED BY ONLY <3>2, <3>3, <3>4, <3>5, <3>6 DEF InOrder
  <2>7. ASSUME NEW t \in Samples, t # s PROVE InOrder(t)'
    <3>1. made'[t] = made[t] /\ stage'[t] = stage[t]
      BY <1>0, <2>1, <2>7
    <3>2. \A i \in 1..Len(Asks[t]) : Asks[t][i] # c
      <4>1. s \in Samples /\ k \in DOMAIN Asks[s] /\ c = Asks[s][k]
        BY <2>1, AskFacts DEF c
      <4> HIDE DEF k
      <4>. QED BY <2>7, <4>1, AsksAssumption, AskFacts
    <3>3. \A i \in 1..Len(Asks[t]) : pc'[Asks[t][i]] = pc[Asks[t][i]]
      BY <2>4, <3>2, AskFacts
    <3>4. InOrder(t)
      BY <1>b
    <3>. QED BY <3>1, <3>3, <3>4, AskFacts DEF InOrder
  <2>8. ASSUME NEW d \in Calls, pc'[d] \notin Final \cup {"outside"}
        PROVE  UnderWay(d)'
    <3>1. CASE d = c
      <4>1. stage'[s] = "asking" /\ c = Asks[s][made'[s]]
        BY <1>0, <2>1 DEF c
      <4>. QED BY <3>1, <4>1 DEF UnderWay, Current
    <3>2. CASE d # c
      <4>1. PICK t \in Samples : stage[t] = "asking" /\ d = Current(t)
        BY <1>b, <2>4, <2>8, <3>2 DEF UnderWay
      <4>2. t # s
        BY <2>3, <4>1
      <4>3. made'[t] = made[t] /\ stage'[t] = stage[t]
        BY <1>0, <2>1, <4>2
      <4>. QED BY <4>1, <4>3 DEF UnderWay, Current
    <3>. QED BY <3>1, <3>2
  <2>. QED BY <1>a, <2>6, <2>7, <2>8
<1>4. ASSUME NEW s \in Samples, Request(s) PROVE RequestsOrderly'
  <2> DEFINE c == Current(s)
  <2>1. /\ stage[s] = "asking" /\ made[s] \in 1..Len(Asks[s])
        /\ c \in Calls /\ c = Asks[s][made[s]]
        /\ UNCHANGED sessionVars
    BY <1>4, RequestStep
  <2>2. PICK step \in Steps \ {"outside"} : pc' = [pc EXCEPT ![c] = step]
    BY <1>4, RequestStep
  <2>3. UNCHANGED <<made, stage>>
    BY <2>1 DEF sessionVars
  <2>4. \A d \in Calls : d # c => pc'[d] = pc[d]
    BY <1>0, <2>2
  <2> HIDE DEF c
  <2>5. ASSUME NEW t \in Samples PROVE InOrder(t)'
    <3>1. \A i \in 1..Len(Asks[t]) :
            Asks[t][i] = c => t = s /\ i = made[s]
      BY <2>1, AsksAssumption, AskFacts
    <3>2. InOrder(t)
      BY <1>b
    <3>3. \A i \in 1..Len(Asks[t]) :
            /\ i < made[t] => pc'[Asks[t][i]] \in Final
            /\ i = made[t] /\ stage[t] # "asking" => pc'[Asks[t][i]] \in Final
            /\ i > made[t] => pc'[Asks[t][i]] = "outside"
      <4> SUFFICES ASSUME NEW i \in 1..Len(Asks[t])
                   PROVE  /\ i < made[t] => pc'[Asks[t][i]] \in Final
                          /\ i = made[t] /\ stage[t] # "asking" =>
                               pc'[Asks[t][i]] \in Final
                          /\ i > made[t] => pc'[Asks[t][i]] = "outside"
        OBVIOUS
      <4>1. CASE Asks[t][i] = c
        <5>1. t = s /\ i = made[s]
          BY <3>1, <4>1
        <5>. QED BY <1>0, <2>1, <5>1
      <4>2. CASE Asks[t][i] # c
        <5>1. pc'[Asks[t][i]] = pc[Asks[t][i]]
          BY <2>4, <4>2, AskFacts
        <5>. QED BY <3>2, <5>1, AskFacts DEF InOrder
      <4>. QED BY <4>1, <4>2
    <3>. QED BY <2>3, <3>2, <3>3, AskFacts DEF InOrder
  <2>6. ASSUME NEW d \in Calls, pc'[d] \notin Final \cup {"outside"}
        PROVE  UnderWay(d)'
    <3>1. UnderWay(d)
      BY <1>b, <2>1, <2>4, <2>6 DEF UnderWay, c
    <3>. QED BY <2>3, <3>1 DEF UnderWay, Current
  <2>. QED BY <1>a, <2>5, <2>6
<1>5. ASSUME NEW s \in Samples, StartSample(s) PROVE RequestsOrderly'
  <2>1. \A t \in Samples : stage'[t] = "asking" <=> stage[t] = "asking"
    BY <1>0, <1>5 DEF StartSample
  <2>2. pc' = pc /\ made' = made
    BY <1>5 DEF StartSample, vars
  <2>. QED BY <1>1, <2>1, <2>2
<1>6. ASSUME NEW s \in Samples, Resume(s) \/ EndSample(s)
      PROVE  RequestsOrderly'
  <2>1. pc' = pc /\ made' = made
    BY <1>6 DEF Resume, EndSample, vars
  <2>2. /\ stage'[s] # "asking"
        /\ \A t \in Samples \ {s} : stage'[t] = stage[t]
    BY <1>0, <1>6 DEF Resume, EndSample
  <2>3. stage[s] = "asking" => pc[Current(s)] \in Final
    BY <1>6 DEF Resume, EndSample
  <2>4. ASSUME NEW t \in Samples PROVE InOrder(t)'
    <3>1. InOrder(t)
      BY <1>b
    <3>2. CASE t = s
      <4>1. \A i \in DOMAIN Asks[s] : i = made[s] => pc[Asks[s][i]] \in Final
        BY <2>3, <3>1, <3>2 DEF InOrder, Current
      <4>. QED BY <2>1, <2>2, <3>1, <3>2, <4>1 DEF InOrder
    <3>3. CASE t # s
      BY <2>1, <2>2, <3>1, <3>3 DEF InOrder
    <3>. QED BY <3>2, <3>3
  <2>5. ASSUME NEW d \in Calls, pc'[d] \notin Final \cup {"outside"}
        PROVE  UnderWay(d)'
    <3>1. PICK t \in Samples : stage[t] = "asking" /\ d = Current(t)
      BY <1>b, <2>1, <2>5 DEF UnderWay
    <3>2. t # s
      BY <2>1, <2>3, <2>5, <3>1
    <3>. QED BY <2>1, <2>2, <3>1, <3>2 DEF UnderWay, Current
  <2>. QED BY <1>a, <2>4, <2>5
<1>7. CASE Idle
  BY <1>1, <1>7, IdleMovesNothing DEF sessionVars
<1>. QED BY <1>2, <1>3, <1>4, <1>5, <1>6, <1>7
         DEF SessionNext, SampleStep, Idle

(***************************************************************************)
(* The rows.  A request that is over stays as it is, so that a row remains *)
(* one of those its sample may end in.                                     *)
(***************************************************************************)
LEMMA FinalStays ==
  ASSUME TypeOK, SessionShape, RequestsOrderly, [SessionNext]_allVars,
         NEW c \in Calls, pc[c] \in Final
  PROVE  pc'[c] = pc[c]
<1>0. pc \in [Threads -> Steps] /\ c \in Threads
  BY DEF TypeOK, Threads
<1>1. CASE PoolStep
  BY <1>1, PoolMovesNoCall
<1>2. ASSUME NEW s \in Samples, SampleStep(s) PROVE pc'[c] = pc[c]
  <2>1. CASE Ask(s)
    BY <1>0, <2>1, AskStep DEF Final
  <2>2. CASE Request(s)
    BY <1>0, <2>2, RequestStep
  <2>3. CASE StartSample(s) \/ Resume(s) \/ EndSample(s)
    BY <2>3 DEF StartSample, Resume, EndSample, vars
  <2>. QED BY <1>2, <2>1, <2>2, <2>3 DEF SampleStep
<1>3. CASE Idle
  BY <1>3, IdleMovesNothing
<1>. QED BY <1>1, <1>2, <1>3 DEF SessionNext, Idle

LEMMA RowStatesKept ==
  ASSUME NEW s, made'[s] = made[s],
         \A c \in CallsMade(s) : pc'[c] = pc[c]
  PROVE  RowStates(s)' = RowStates(s)
<1>1. CallsMade(s)' = CallsMade(s)
  BY DEF CallsMade
<1>2. SomeAdmitted(s)' = SomeAdmitted(s) /\ SomeRefused(s)' = SomeRefused(s)
  BY <1>1 DEF SomeAdmitted, SomeRefused
<1>. QED BY <1>2 DEF RowStates, CutShort

LEMMA NextRows ==
  ASSUME TypeOK, SessionShape, RequestsOrderly, RowsFounded,
         [SessionNext]_allVars
  PROVE  RowsFounded'
<1> SUFFICES ASSUME NEW s \in Samples, stage'[s] = "returned"
             PROVE  state'[s] \in RowStates(s)'
  BY DEF RowsFounded
<1>0. /\ stage \in [Samples -> {"unpulled", "submitted", "evaluating",
                                "asking", "returned", "crashed"}]
      /\ made \in [Samples -> Nat] /\ DOMAIN state = Samples
  BY DEF SessionShape
<1>1. CASE EndSample(s)
  <2>1. pc' = pc /\ made' = made /\ state'[s] \in RowStates(s)
    BY <1>0, <1>1 DEF EndSample, vars
  <2>. QED BY <2>1, RowStatesKept
<1>2. CASE ~EndSample(s)
  <2>1. /\ stage[s] = "returned"
        /\ made'[s] = made[s] /\ state'[s] = state[s]
    <3>1. CASE PoolStep
      <4>1. UNCHANGED <<made, state>> /\ (stage' = stage \/ Submit)
        BY <3>1, PoolMovesNoCall
      <4>2. Submit => stage[s] = "returned"
        BY <1>0 DEF Submit
      <4>. QED BY <4>1, <4>2
    <3>2. ASSUME NEW t \in Samples, SampleStep(t)
          PROVE  /\ stage[s] = "returned"
                 /\ made'[s] = made[s] /\ state'[s] = state[s]
      BY <1>0, <1>2, <3>2
      DEF SampleStep, StartSample, Ask, Request, Resume, EndSample, sessionVars
    <3>3. CASE Idle
      BY <3>3, IdleMovesNothing DEF sessionVars
    <3>. QED BY <3>1, <3>2, <3>3 DEF SessionNext, Idle
  <2>2. \A c \in CallsMade(s) : c \in Calls /\ pc[c] \in Final
    <3>1. made[s] \in Nat /\ made[s] <= Len(Asks[s]) /\ Len(Asks[s]) \in Nat
      BY <1>0, AskFacts DEF RequestsOrderly
    <3>2. \A i \in 1..made[s] :
            i \in 1..Len(Asks[s]) /\ (i < made[s] \/ i = made[s])
      BY <3>1
    <3>. QED BY <2>1, <3>2, AskFacts DEF CallsMade, RequestsOrderly
  <2>3. \A c \in CallsMade(s) : pc'[c] = pc[c]
    BY <2>2, FinalStays
  <2>. QED BY <2>1, <2>3, RowStatesKept DEF RowsFounded
<1>. QED BY <1>1, <1>2

(***************************************************************************)
(* Refusals are final.  A later request for as much that had got as far as *)
(* the look would have seen the reason, or found no more budget.           *)
(***************************************************************************)
LEMMA TurnedAway ==
  ASSUME TypeOK, NEW c \in Calls, CallStep(c), c \notin Admitted,
         pc[c] # "decide"
  PROVE  /\ c \notin Admitted'
         /\ pc'[c] = "decide" => reason' = "none" /\ ~Unaffordable(c)
<1>0. pc \in [Threads -> Steps] /\ c \in Threads
  BY DEF TypeOK, Threads
<1>1. pc[c] \in {"outside", "stops", "assign", "waiting", "refused", "invalid"}
  BY <1>0 DEF Admitted, Steps
<1>2. /\ pc'[c] \in {"stops", "assign", "decide", "refused", "invalid"}
      /\ pc'[c] = "decide" => reason' = "none" /\ ~Unaffordable(c)
  BY <1>0, <1>1
  DEF CallStep, Plan, PlanFails, LookAtStops, ConcludeStops, Admit, Wait, Wake,
      EmitStarted, Finish, Release, EmitFinished
<1>. QED BY <1>2 DEF Admitted

LEMMA NextRefusalsFinal ==
  ASSUME TypeOK, RefusalsFounded, SessionShape, RequestsOrderly,
         RefusalsFinal, [SessionNext]_allVars
  PROVE  RefusalsFinal'
<1> SUFFICES ASSUME NEW s \in Samples,
                    NEW i \in 1..made'[s], NEW j \in 1..made'[s], i < j,
                    pc'[Asks[s][i]] = "refused",
                    Cost[Asks[s][j]] >= Cost[Asks[s][i]]
             PROVE  Asks[s][j] \notin Admitted' /\ pc'[Asks[s][j]] # "decide"
  BY DEF RefusalsFinal
<1> DEFINE a == Asks[s][i]
           b == Asks[s][j]
<1>0. /\ pc \in [Threads -> Steps] /\ \A c \in Calls : c \in Threads
      /\ made \in [Samples -> Nat]
      /\ made[s] \in Nat /\ made[s] <= Len(Asks[s]) /\ Len(Asks[s]) \in Nat
      /\ DOMAIN Asks[s] = 1..Len(Asks[s])
  BY AskFacts DEF TypeOK, Threads, SessionShape, RequestsOrderly
<1>1. ASSUME j <= made[s], pc'[a] = pc[a], pc'[b] = pc[b], b \in Calls
      PROVE  b \notin Admitted' /\ pc'[b] # "decide"
  <2>1. i \in 1..made[s] /\ j \in 1..made[s]
    BY <1>0, <1>1
  <2>2. b \notin Admitted /\ pc[b] # "decide"
    BY <1>1, <2>1 DEF RefusalsFinal
  <2>. QED BY <1>1, <2>2 DEF Admitted
<1>2. ASSUME made' = made, \A c \in Calls : pc'[c] = pc[c]
      PROVE  b \notin Admitted' /\ pc'[b] # "decide"
  <2>1. j <= made[s] /\ i \in 1..Len(Asks[s]) /\ j \in 1..Len(Asks[s])
    BY <1>0, <1>2
  <2>2. a \in Calls /\ b \in Calls
    BY <2>1, AskFacts
  <2>. QED BY <1>1, <1>2, <2>1, <2>2
<1>3. CASE PoolStep
  BY <1>2, <1>3, PoolMovesNoCall
<1>4. ASSUME NEW t \in Samples, Ask(t)
      PROVE  b \notin Admitted' /\ pc'[b] # "decide"
  <2> DEFINE k == made[t] + 1
             c == Asks[t][k]
  <2>1. /\ k \in 1..Len(Asks[t]) /\ c \in Calls
        /\ made' = [made EXCEPT ![t] = k]
    BY <1>4, AskStep
  <2>2. PICK step \in {"stops", "invalid"} : pc' = [pc EXCEPT ![c] = step]
    BY <1>4, AskStep
  <2>3. pc'[c] = step /\ \A d \in Calls : d # c => pc'[d] = pc[d]
    BY <1>0, <2>1, <2>2
  <2>4. k \in DOMAIN Asks[t]
    BY <2>1, AskFacts
  <2>5. made'[s] = IF s = t THEN k ELSE made[s]
    BY <1>0, <2>1
  <2>6. j \in 1..Len(Asks[s]) /\ i \in 1..Len(Asks[s]) /\ k \in Nat
    BY <1>0, <2>1, <2>5
  <2>7. a \in Calls /\ b \in Calls
    BY <2>6, AskFacts
  <2>8. (a = c => s = t /\ i = k) /\ (b = c => s = t /\ j = k)
    <3> HIDE DEF k
    <3>. QED BY <1>0, <2>4, <2>6, AsksAssumption
  <2>9. CASE b = c
    BY <2>3, <2>9 DEF Admitted
  <2>10. CASE b # c
    <3>1. a # c
      BY <2>5, <2>6, <2>8
    <3>2. j # k \/ s # t
      BY <2>10
    <3>3. j <= made[s]
      BY <1>0, <2>5, <2>6, <3>2
    <3>. QED BY <1>1, <2>3, <2>7, <2>10, <3>1, <3>3
  <2>. QED BY <2>9, <2>10
<1>5. ASSUME NEW t \in Samples, Request(t)
      PROVE  b \notin Admitted' /\ pc'[b] # "decide"
  <2> DEFINE c == Current(t)
  <2>1. /\ made[t] \in 1..Len(Asks[t]) /\ c \in Calls
        /\ c = Asks[t][made[t]] /\ UNCHANGED sessionVars /\ CallStep(c)
        /\ pc[c] \notin Final
    BY <1>5, RequestStep
  <2>2. \E step \in Steps \ {"outside"} : pc' = [pc EXCEPT ![c] = step]
    BY <1>5, RequestStep
  <2> HIDE DEF c
  <2>3. \A d \in Calls : d # c => pc'[d] = pc[d]
    BY <1>0, <2>1, <2>2
  <2>4. made'[s] = made[s] /\ i \in 1..made[s] /\ j \in 1..made[s]
    BY <2>1 DEF sessionVars
  <2>5. i \in DOMAIN Asks[s] /\ j \in DOMAIN Asks[s] /\ j <= made[s]
    BY <1>0, <2>4
  <2>6. a \in Calls /\ b \in Calls
    BY <1>0, <2>5, AskFacts
  <2>7. a # c
    <3>1. made[t] \in DOMAIN Asks[t]
      BY <2>1, AskFacts
    <3>2. a = c => s = t /\ i = made[t]
      BY <2>1, <2>5, <3>1, AsksAssumption
    <3>. QED BY <1>0, <2>4, <3>2
  <2>8. pc[a] = "refused"
    BY <2>3, <2>6, <2>7
  <2>9. CASE b # c
    BY <1>1, <2>3, <2>5, <2>6, <2>7, <2>9
  <2>10. CASE b = c
    <3>1. b \notin Admitted /\ pc[b] # "decide"
      BY <2>4, <2>8 DEF RefusalsFinal
    <3>2. /\ b \notin Admitted'
          /\ pc'[b] = "decide" => reason' = "none" /\ ~Unaffordable(b)
      BY <2>1, <2>6, <2>10, <3>1, TurnedAway
    <3>3. Refused(a)
      BY <2>6, <2>8 DEF RefusalsFounded
    <3>4. CASE reason # "none"
      BY <3>2, <3>4, Scheduled, ReasonStays
    <3>5. CASE Unaffordable(a)
      <4>1. /\ Cost[a] \in Nat /\ Cost[b] \in Nat /\ Cost[b] >= Cost[a]
            /\ count \in Nat /\ NumRequests \in Nat \cup {-1}
        BY <2>6, CostAssumption, Parameters DEF TypeOK, ParameterFacts
      <4> HIDE DEF a, b
      <4>2. Unaffordable(b)
        BY <3>5, <4>1 DEF Unaffordable
      <4>. QED BY <3>2, <4>2
    <3>. QED BY <3>3, <3>4, <3>5 DEF Refused
  <2>. QED BY <2>9, <2>10
<1>6. ASSUME NEW t \in Samples,
             StartSample(t) \/ Resume(t) \/ EndSample(t)
      PROVE  b \notin Admitted' /\ pc'[b] # "decide"
  <2>1. pc' = pc /\ made' = made
    BY <1>6 DEF StartSample, Resume, EndSample, vars
  <2>. QED BY <1>2, <2>1
<1>7. CASE Idle
  BY <1>2, <1>7, IdleMovesNothing DEF sessionVars
<1>. QED BY <1>3, <1>4, <1>5, <1>6, <1>7 DEF SessionNext, SampleStep, Idle

(***************************************************************************)
(* The invariant, and what follows from it.                                *)
(***************************************************************************)
LEMMA InitSession == SessionInit => SessionInv
<1> SUFFICES ASSUME SessionInit PROVE SessionInv
  OBVIOUS
<1>0. Init /\ IInv /\ TypeOK
  BY InitIInv DEF SessionInit, IInv
<1>1. \A c \in Calls : pc[c] = "outside"
  BY <1>0, CallsAssumption DEF Init, Threads
<1>2. CountAddsUp
  <2>1. Admitted = {} /\ count = 0
    BY <1>0, <1>1 DEF Admitted, Init
  <2>2. count = SumOf(Cost, Admitted)
    BY <2>1, SumEmpty
  <2>. QED BY <2>2, CountSum
<1>3. LooksHold /\ RefusalsFounded
  BY <1>1 DEF LooksHold, RefusalsFounded
<1>4. SessionShape
  <2>1. pulled \in 0..Cardinality(Samples)
    BY SampleFacts DEF SessionInit
  <2>2. stage \in [Samples -> {"unpulled", "submitted", "evaluating", "asking",
                              "returned", "crashed"}]
    BY DEF SessionInit
  <2>3. made \in [Samples -> Nat]
    BY DEF SessionInit
  <2>4. state \in [Samples -> {"none", "complete", "failed", "incomplete",
                              "not_started"}]
    BY DEF SessionInit
  <2>5. exhausted \in BOOLEAN /\ complete \in BOOLEAN
    BY DEF SessionInit
  <2>6. futures \subseteq 1..pulled /\ rows \subseteq 1..pulled
    BY DEF SessionInit
  <2>7. pool = "looking"
    BY DEF SessionInit
  <2>. QED BY <2>1, <2>2, <2>3, <2>4, <2>5, <2>6, <2>7 DEF SessionShape
<1>5. PoolOrderly
  BY FS_EmptySet, Parameters DEF SessionInit, PoolOrderly, ParameterFacts
<1>6. SamplesOrderly
  BY SampleFacts DEF SessionInit, SamplesOrderly
<1>7. RequestsOrderly
  <2>1. ASSUME NEW s \in Samples, NEW i \in DOMAIN Asks[s]
        PROVE  i > made[s] /\ pc[Asks[s][i]] = "outside" /\ made[s] = 0
    BY <1>1, AskFacts DEF SessionInit
  <2>. QED BY <1>1, <2>1, AskFacts DEF SessionInit, RequestsOrderly
<1>8. RowsFounded /\ RefusalsFinal
  BY DEF SessionInit, RowsFounded, RefusalsFinal
<1>. QED BY <1>0, <1>2, <1>3, <1>4, <1>5, <1>6, <1>7, <1>8 DEF SessionInv

LEMMA NextSession == SessionInv /\ [SessionNext]_allVars => SessionInv'
<1> SUFFICES ASSUME SessionInv, [SessionNext]_allVars PROVE SessionInv'
  OBVIOUS
<1>0. /\ IInv /\ TypeOK /\ LockHeldOnce /\ ReasonTruthful
      /\ CountAddsUp /\ LooksHold /\ RefusalsFounded
      /\ SessionShape /\ PoolOrderly /\ SamplesOrderly /\ RequestsOrderly
      /\ RowsFounded /\ RefusalsFinal
  BY DEF SessionInv, IInv
<1>1. [Next]_vars
  BY <1>0, Scheduled
<1>2. IInv' /\ CountAddsUp' /\ LooksHold' /\ RefusalsFounded'
  BY <1>0, <1>1, NextIInv, NextCount, NextLooks, NextRefusals
<1>3. SessionShape' /\ PoolOrderly' /\ SamplesOrderly' /\ RequestsOrderly'
  BY <1>0, NextShape, NextPool, NextSamples, NextRequests
<1>4. RowsFounded' /\ RefusalsFinal'
  BY <1>0, NextRows, NextRefusalsFinal
<1>. QED BY <1>2, <1>3, <1>4 DEF SessionInv

\* The shape of the collection and everything the properties rest on holds in
\* every state, for any samples and requests.
THEOREM SessionInvariant == SessionSpec => []SessionInv
  BY InitSession, NextSession, PTL DEF SessionSpec

\* A collection is a behaviour of the scheduler: what is proved of
\* every order of calls above holds for the calls of the samples.
THEOREM SessionSchedules == SessionSpec => Spec
<1>1. SessionInit => Init
  BY DEF SessionInit
<1>2. SessionInv /\ [SessionNext]_allVars => [Next]_vars
  BY Scheduled DEF SessionInv, IInv
<1>. QED BY <1>1, <1>2, SessionInvariant, PTL DEF SessionSpec, Spec

LEMMA Drains ==
  ASSUME SessionInv, CollectionOver
  PROVE  NothingInFlight
<1>1. \A s \in Samples : stage[s] # "asking"
  <2>1. CASE pool \in {"ended", "decided"}
    BY <2>1 DEF SessionInv, PoolOrderly, SamplesOrderly
  <2>2. CASE pool = "aborted"
    BY <2>2 DEF SessionInv, SamplesOrderly, Finished
  <2>. QED BY <2>1, <2>2 DEF CollectionOver
<1>2. \A c \in Calls : pc[c] \in Final \cup {"outside"}
  BY <1>1 DEF SessionInv, RequestsOrderly
<1>3. Holding = {c \in Calls : pc[c] = "leaked"}
  BY <1>2 DEF Holding, Final
<1>4. active = Cardinality({c \in Calls : pc[c] = "leaked"})
  BY <1>3 DEF SessionInv, IInv, SlotAccounting
<1>5. CountAddsUp
  BY DEF SessionInv
<1>. QED BY <1>2, <1>4, <1>5 DEF NothingInFlight, CountAddsUp

LEMMA BoundsEvents == SessionInv => EventsBounded
<1> SUFFICES ASSUME SessionInv PROVE EventsBounded
  OBVIOUS
<1> DEFINE Busy == {c \in Calls :
                      pc[c] \in {"running", "releasing", "released"}}
           f == [s \in futures |-> Current(s)]
           Own == {f[s] : s \in futures}
<1>1. /\ IsFiniteSet(futures) /\ Cardinality(futures) \in Nat
      /\ Cardinality(futures) <= Capacity /\ Capacity \in Nat
  BY FuturesFinite, Parameters DEF SessionInv, PoolOrderly, ParameterFacts
<1>2. Busy \subseteq Own
  <2> SUFFICES ASSUME NEW c \in Busy PROVE c \in Own
    OBVIOUS
  <2>1. PICK s \in Samples : stage[s] = "asking" /\ c = Current(s)
    BY DEF SessionInv, RequestsOrderly, Final
  <2>2. s \in futures
    BY <2>1 DEF SessionInv, SamplesOrderly
  <2>. QED BY <2>1, <2>2
<1>3. f \in Surjection(futures, Own)
  BY DEF Surjection
<1>4. IsFiniteSet(Own) /\ Cardinality(Own) <= Cardinality(futures)
  <2> HIDE DEF f, Own
  <2>. QED BY <1>1, <1>3, FS_Surjection
<1> HIDE DEF Busy, f, Own
<1>5. Cardinality(Own) \in Nat /\ Cardinality(Busy) \in Nat
      /\ Cardinality(Busy) <= Cardinality(Own)
  <2>1. IsFiniteSet(Busy) /\ Cardinality(Busy) <= Cardinality(Own)
    BY <1>2, <1>4, FS_Subset
  <2>. QED BY <1>4, <2>1, FS_CardinalityType
<1>6. Cardinality(Busy) <= Capacity
  BY ONLY <1>1, <1>4, <1>5
<1>. QED BY <1>6 DEF Busy, EventsBounded

\* When a collection is over nothing of it is under way, and at no time are
\* more requests under way in the event log than the capacity.
THEOREM DrainsCorrect == SessionSpec => []CollectionDrains
<1>1. SessionInv => CollectionDrains
  BY Drains, BoundsEvents DEF CollectionDrains
<1>. QED BY <1>1, SessionInvariant, PTL

LEMMA Rows == SessionInv => RowsHonest
<1> SUFFICES ASSUME SessionInv PROVE RowsHonest
  OBVIOUS
<1>1. ASSUME NEW s \in rows
      PROVE  /\ state[s] \in RowStates(s)
             /\ \A c \in CallsMade(s) : c \in Calls /\ pc[c] \in Final
  <2>1. s \in Samples /\ stage[s] = "returned"
    BY SampleFacts DEF SessionInv, SessionShape, SamplesOrderly
  <2>2. made[s] \in Nat /\ made[s] <= Len(Asks[s]) /\ Len(Asks[s]) \in Nat
    BY <2>1, AskFacts DEF SessionInv, SessionShape, RequestsOrderly
  <2>3. \A i \in 1..made[s] :
          i \in 1..Len(Asks[s]) /\ (i < made[s] \/ i = made[s])
    BY <2>2
  <2>4. \A c \in CallsMade(s) : c \in Calls /\ pc[c] \in Final
    BY <2>1, <2>3, AskFacts DEF CallsMade, SessionInv, RequestsOrderly
  <2>. QED BY <2>1, <2>4 DEF SessionInv, RowsFounded
<1>2. CutShortHonest
  BY <1>1
  DEF CutShortHonest, RowStates, CutShort, SomeAdmitted, Admitted, Final
<1>3. RefusalFinal
  BY DEF SessionInv, RefusalsFinal, RefusalFinal
<1>. QED BY <1>2, <1>3 DEF RowsHonest

\* A row says truly whether its sample used the budget, and a refusal is final.
THEOREM RowsCorrect == SessionSpec => []RowsHonest
  BY Rows, SessionInvariant, PTL

LEMMA Window == SessionInv => WindowHonest
<1> SUFFICES ASSUME SessionInv PROVE WindowHonest
  OBVIOUS
<1>1. ASSUME pool = "decided", reason = "none"
      PROVE  rows = Samples
  <2>1. futures = {} /\ pulled = Cardinality(Samples)
    BY <1>1 DEF SessionInv, PoolOrderly
  <2>2. rows \cup futures = 1..pulled
    BY <1>1 DEF SessionInv, SamplesOrderly
  <2>. QED BY <2>1, <2>2, SampleFacts
<1>2. ASSUME reason = "none", NEW s \in rows
      PROVE  state[s] \in {"complete", "failed"} \/ Misfit(s)
  <2>1. s \in Samples /\ stage[s] = "returned"
    BY SampleFacts DEF SessionInv, SessionShape, SamplesOrderly
  <2>2. state[s] \in RowStates(s)
    BY <2>1 DEF SessionInv, RowsFounded
  <2>3. CASE ~SomeRefused(s)
    BY <2>2, <2>3 DEF RowStates
  <2>4. CASE SomeRefused(s)
    <3>1. PICK c \in CallsMade(s) : pc[c] = "refused"
      BY <2>4 DEF SomeRefused
    <3>2. c \in Calls
      <4>1. made[s] \in Nat /\ made[s] <= Len(Asks[s])
            /\ Len(Asks[s]) \in Nat
        BY <2>1, AskFacts DEF SessionInv, SessionShape, RequestsOrderly
      <4>2. 1..made[s] \subseteq 1..Len(Asks[s])
        BY <4>1
      <4>. QED BY <2>1, <4>2, AskFacts DEF CallsMade
    <3>3. Refused(c)
      BY <3>1, <3>2 DEF SessionInv, RefusalsFounded
    <3>. QED BY <1>2, <3>1, <3>3 DEF Refused, Misfit
  <2>. QED BY <2>3, <2>4
<1>3. complete => reason # "user_interrupt"
  BY DEF SessionInv, PoolOrderly
<1>. QED BY <1>1, <1>2, <1>3 DEF WindowHonest

\* A window without a recorded reason has a row for every sample, cut short
\* only by a batch that did not fit, and an interrupted one is not complete.
THEOREM WindowCorrect == SessionSpec => []WindowHonest
  BY Window, SessionInvariant, PTL
=============================================================================
