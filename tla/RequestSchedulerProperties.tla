--------------------- MODULE RequestSchedulerProperties ---------------------
(***************************************************************************)
(* What the admission of requests guarantees, over RequestScheduler.tla.   *)
(***************************************************************************)
EXTENDS RequestScheduler

Times == 0..MaxTime

\* The state has the shape the code gives it.
TypeOK ==
  /\ clock \in Times
  /\ stopFile \in BOOLEAN
  /\ reason \in Reasons
  /\ count \in Nat /\ active \in Int /\ peak \in Int
  /\ nextOffset \in Nat /\ nextOrder \in Nat
  /\ pc \in [Threads -> Steps]
  /\ assigning \in [Threads -> Reasons]
  /\ plan \in [Calls -> [offset : Nat \cup {NoOffset}, order : Nat]]
  /\ ticket \in [Calls -> [index : Nat, scheduled : Nat, started : Times]]
  /\ ended \in [Calls -> Times]
  /\ stragglers \in Nat

(***************************************************************************)
(* Slots.  The counter `active` is the number of calls between their       *)
(* admission and their release, whatever failed in between, and it never   *)
(* exceeds the capacity; `peak` never understates it (lines 119-124 and    *)
(* 161-171).                                                               *)
(***************************************************************************)
SlotAccounting ==
  /\ active = Cardinality(Holding)
  /\ active <= Capacity
  /\ active <= peak /\ peak <= Capacity

(***************************************************************************)
(* Budget.  The logical requests admitted never exceed num_requests, with  *)
(* several calls looking at the remaining budget at once and batches that  *)
(* do not divide it (lines 82-88, 101, 122).                               *)
(***************************************************************************)
BudgetKept == NumRequests # Unlimited => count <= NumRequests

(***************************************************************************)
(* Request identities.  `request-<index>` names one call only: the index   *)
(* ranges [index, index + cost) of admitted calls are disjoint and lie     *)
(* below `count`, although the ticket is used after the lock is left       *)
(* (lines 119, 122, 127).                                                  *)
(***************************************************************************)
IdentitiesDisjoint ==
  /\ \A c \in Admitted : ticket[c].index + Cost[c] <= count
  /\ \A c, d \in Admitted :
       c # d => \/ ticket[c].index + Cost[c] <= ticket[d].index
                \/ ticket[d].index + Cost[d] <= ticket[c].index

(***************************************************************************)
(* Closing.  After the stop file exists or max_duration is over, at most   *)
(* one more call is admitted: the one that held the lock and had already   *)
(* looked (lines 71-80, 101-112).  AdmissionStopped says "No more requests *)
(* may start" (line 16); this is how far that holds under interleaving.    *)
(***************************************************************************)
AtMostOneStraggler == stragglers <= 1

(***************************************************************************)
(* The recorded reason is true, although stopped() also runs without the   *)
(* lock and may overwrite what another thread assigned (lines 71-80): a    *)
(* phase never reports a stop that did not happen.                         *)
(***************************************************************************)
ReasonTruthful ==
  /\ reason = "user_interrupt" => stopFile
  /\ reason = "max_duration" => DurationDue
  /\ reason = "num_requests" => BudgetSpent

(***************************************************************************)
(* Recorded overlap.  At every instant, the request records that contain   *)
(* it, [start_offset_s, end_offset_s), are no more than the capacity: what *)
(* the report draws from the records never shows a higher concurrency than *)
(* was configured, since the end is noted before the slot is given back    *)
(* and the start after it was taken (lines 113, 119, 162-165).             *)
(***************************************************************************)
InFlightAt(t) ==
  {c \in Admitted : /\ ticket[c].started <= t
                    /\ pc[c] \in {"releasing", "released", "done"} =>
                         t < ended[c]}

RecordedOverlapBounded ==
  \A t \in 0..clock : Cardinality(InFlightAt(t)) <= Capacity

(***************************************************************************)
(* Trace replay.  Requests are admitted in trace order without a gap,      *)
(* though their threads plan, wait and wake in any order: trace indices    *)
(* and request indices rise together, and no request starts before its     *)
(* (scaled) trace time (scheduling_strategies.py:130-154).                 *)
(***************************************************************************)
ReplayInTraceOrder ==
  Strategy = "replay" =>
    /\ {TraceIndex[c] : c \in Admitted} = 0..(nextOrder - 1)
    /\ \A c, d \in Admitted :
         TraceIndex[c] < TraceIndex[d] =>
           /\ ticket[c].index < ticket[d].index
           /\ ticket[c].started <= ticket[d].started
    /\ \A c \in Admitted :
         ticket[c].started >= TraceOffset[c] \div ReplaySpeed

(***************************************************************************)
(* The scheduler implements the bounded room of BoundedAdmission.tla.      *)
(***************************************************************************)
Place(c) ==
  IF c \in Holding THEN "inside"
  ELSE IF pc[c] \in {"released", "done"} THEN "left"
  ELSE IF pc[c] \in {"refused", "invalid"} THEN pc[c]
  ELSE "outside"

Room == INSTANCE BoundedAdmission WITH
          Unbounded <- NumRequests = Unlimited,
          Budget <- NumRequests,
          place <- [c \in Calls |-> Place(c)],
          used <- count,
          closed <- Closed

ImplementsRoom == Room!Spec

-----------------------------------------------------------------------------
(***************************************************************************)
(* The inductive invariant behind the safety properties.                   *)
(***************************************************************************)

\* The condition's lock has one holder.
LockHeldOnce ==
  \A c, d \in Calls : pc[c] \in Critical /\ pc[d] \in Critical => c = d

\* Who decides can pay: nobody else spends the budget meanwhile.
DecisionAffordable == \A c \in Calls : pc[c] = "decide" => ~Unaffordable(c)

\* What stopped() is about to assign is true as well.
PendingTruthful ==
  \A t \in Threads :
    /\ assigning[t] = "user_interrupt" => stopFile
    /\ assigning[t] = "max_duration" => DurationDue
    /\ assigning[t] = "num_requests" => BudgetSpent

\* A call that has looked and found no reason to stop.
Committed(c) ==
  \/ pc[c] = "decide"
  \/ pc[c] = "assign" /\ assigning[c] = "none" /\ reason = "none"

\* A straggler uses up the only look that preceded the closing.
StragglerUsedUp ==
  stragglers = 0 \/ (Closed /\ \A c \in Calls : ~Committed(c))

IInv ==
  /\ TypeOK
  /\ LockHeldOnce
  /\ SlotAccounting
  /\ DecisionAffordable /\ BudgetKept
  /\ IdentitiesDisjoint
  /\ PendingTruthful /\ ReasonTruthful
  /\ AtMostOneStraggler /\ StragglerUsedUp

-----------------------------------------------------------------------------
(***************************************************************************)
(* The inductive invariants behind the recorded overlap and the order of a *)
(* replay.                                                                 *)
(***************************************************************************)

\* No record reaches beyond the present.
RecordsPast ==
  /\ \A c \in Calls : ended[c] <= clock
  /\ \A c \in Admitted : ticket[c].started <= clock

\* A call that went through plan() waits for its own trace record.
Planned(c) == pc[c] \notin {"outside", "invalid"}

PlansTraced ==
  \A c \in Calls :
    Planned(c) =>
      plan[c] = [offset |-> TraceOffset[c] \div ReplaySpeed,
                 order |-> TraceIndex[c]]

OverlapInv == RecordsPast /\ RecordedOverlapBounded

ReplayInv == RecordsPast /\ (Strategy = "replay" => PlansTraced)
                         /\ ReplayInTraceOrder

-----------------------------------------------------------------------------
(***************************************************************************)
(* Fairness.  A thread keeps running (weak fairness on its own steps), an  *)
(* admitted operation ends (the model clients time out), time passes.  A   *)
(* thread that needs the condition's lock competes for it with polling     *)
(* threads which leave it for at least 10 ms between two looks (line 112), *)
(* so the lock is free again and again: strong fairness on taking it.      *)
(* Nothing makes a call come at all: its sample may fail before.           *)
(***************************************************************************)
OwnStep(c) ==
  \/ LookAtStops(c) \/ ConcludeStops(c) \/ Admit(c) \/ Wait(c)
  \/ EmitStarted(c) \/ Finish(c) \/ EmitFinished(c)

Fairness ==
  /\ WF_vars(Tick)
  /\ \A c \in Calls :
       /\ WF_vars(OwnStep(c))
       /\ SF_vars(Wake(c) \/ Release(c))

FairSpec == Spec /\ Fairness

(***************************************************************************)
(* Every call of run() ends, admitted or refused.  Under replay a trace    *)
(* index may never arrive (its sample fails before it asks, or its plan    *)
(* raises); the later requests then wait for their turn in vain, and only  *)
(* max_duration lets them go (lines 100-112,                               *)
(* scheduling_strategies.py:150-154).                                      *)
(***************************************************************************)
EveryCallEnds == \A c \in Calls : pc[c] = "stops" ~> pc[c] \in Final

=============================================================================
