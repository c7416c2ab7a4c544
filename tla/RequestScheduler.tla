-------------------------- MODULE RequestScheduler --------------------------
(***************************************************************************)
(* runtime/request_scheduler.py and runtime/scheduling_strategies.py: the  *)
(* admission of model requests during one collection phase.                *)
(*                                                                         *)
(* Every call of RequestScheduler.run is made by a thread of its own.  A   *)
(* call takes the condition's lock, plans its submission time, and then    *)
(* loops: it looks at the stop conditions, is refused, is admitted, or     *)
(* waits without the lock for at most 50 ms and looks again.  The pool     *)
(* that feeds the calls also looks at the stop conditions (stopped(),      *)
(* evaluation_session.py:168), and it does so without the lock: the read   *)
(* and the write of `reason` inside stopped() are separate steps here.     *)
(*                                                                         *)
(* Time is a counter that advances up to MaxTime.  Plan offsets are in the *)
(* same unit; a random arrival interval is any member of Gaps.             *)
(***************************************************************************)
EXTENDS Integers, FiniteSets

CONSTANTS
  Calls,             \* calls of run()
  Puller,            \* the thread that hands samples to the pool
  Cost,              \* logical requests of each call (the batch size)
  NumRequests,       \* num_requests, or Unlimited
  MaxDuration,       \* max_duration, or Unlimited
  Workers,           \* profile.workers
  ConcurrencyLimit,  \* strategy.concurrency_limit, or Unlimited
  Strategy,          \* "immediate", "interval" or "replay"
  Gaps,              \* possible results of _IntervalStrategy.interval()
  TraceOffset,       \* offset_s of each call's trace record
  TraceIndex,        \* trace_index of each call's trace record
  ReplaySpeed,       \* replay_speed
  Malformed,         \* calls whose plan raises or has an invalid offset
  EmitMayFail,       \* may writing a request event fail?
  MaxTime            \* bound on the clock

Unlimited == -1
NoOffset == -1

ASSUME CallsAssumption == IsFiniteSet(Calls) /\ Puller \notin Calls
ASSUME CostAssumption == Cost \in [Calls -> Nat \ {0}]
ASSUME LimitsAssumption ==
  /\ NumRequests \in (Nat \ {0}) \cup {Unlimited}
  /\ MaxDuration \in (Nat \ {0}) \cup {Unlimited}
  /\ Workers \in Nat \ {0}
  /\ ConcurrencyLimit \in (Nat \ {0}) \cup {Unlimited}
ASSUME StrategyAssumption ==
  /\ Strategy \in {"immediate", "interval", "replay"}
  /\ Gaps \subseteq Nat
  /\ TraceOffset \in [Calls -> Nat]
  /\ TraceIndex \in [Calls -> Nat]
  /\ ReplaySpeed \in Nat \ {0}
  /\ Malformed \subseteq Calls
ASSUME BoundsAssumption == EmitMayFail \in BOOLEAN /\ MaxTime \in Nat

\* request_capacity: the profile's workers, capped by the strategy.
Capacity ==
  IF ConcurrencyLimit # Unlimited /\ ConcurrencyLimit < Workers
  THEN ConcurrencyLimit
  ELSE Workers

Threads == Calls \cup {Puller}

Reasons == {"none", "user_interrupt", "max_duration", "num_requests"}

Steps == {"outside", "stops", "assign", "decide", "waiting", "admitted",
          "running", "releasing", "released", "done", "leaked",
          "refused", "invalid"}

VARIABLES
  clock,       \* perf_counter() - scheduler.started
  stopFile,    \* the run's .stop file exists
  reason,      \* scheduler.reason
  count,       \* scheduler.count
  active,      \* scheduler.active
  peak,        \* scheduler.peak
  nextOffset,  \* _IntervalStrategy.next_offset
  nextOrder,   \* TraceReplayStrategy.next_order
  pc,          \* what each thread does next
  assigning,   \* the value stopped() is about to assign to `reason`, if any
  plan,        \* the RequestPlan of each call
  ticket,      \* the Ticket of each admitted call
  ended,       \* end_offset_s of each call's record
  stragglers   \* history: calls admitted after the phase should have closed

vars == <<clock, stopFile, reason, count, active, peak, nextOffset,
          nextOrder, pc, assigning, plan, ticket, ended, stragglers>>

strategyState == <<nextOffset, nextOrder>>
slots == <<count, active, peak>>
records == <<plan, ticket, ended>>
allButPc == <<clock, stopFile, reason, slots, strategyState, assigning,
              records, stragglers>>

-----------------------------------------------------------------------------
(* Helpers *)

DurationDue == MaxDuration # Unlimited /\ clock >= MaxDuration
BudgetSpent == NumRequests # Unlimited /\ count >= NumRequests

\* The two ways a phase closes before its budget is spent.
Closed == stopFile \/ DurationDue

\* Slips: the budget check ignores the cost of the batch; it leaves the last
\* request unused.
UnaffordableIgnoringCost(c) == BudgetSpent
UnaffordableAtLimit(c) ==
  NumRequests # Unlimited /\ count + Cost[c] >= NumRequests

\* remaining(cost) < cost
Unaffordable(c) == NumRequests # Unlimited /\ count + Cost[c] > NumRequests

\* The steps of run() between taking the condition's lock and leaving it.
Critical == {"stops", "assign", "decide"}

LockFree == \A c \in Calls : pc[c] \notin Critical

\* Calls between `active += 1` and `active -= 1`, and those that lost
\* their way there.
Holding == {c \in Calls :
              pc[c] \in {"admitted", "running", "releasing", "leaked"}}

Admitted == {c \in Calls :
               pc[c] \in {"admitted", "running", "releasing", "leaked",
                          "released", "done"}}

Due(c) == plan[c].offset = NoOffset \/ clock >= plan[c].offset

\* Slip: any record whose turn has come or is still to come may go.
ReadyOutOfTurn(c) ==
  Due(c) /\ (Strategy = "replay" => plan[c].order >= nextOrder)

\* strategy.ready: a replayed request also waits for its turn.
Ready(c) == Due(c) /\ (Strategy = "replay" => plan[c].order = nextOrder)

-----------------------------------------------------------------------------
Init ==
  /\ clock = 0
  /\ stopFile \in BOOLEAN
  /\ reason = "none"
  /\ count = 0 /\ active = 0 /\ peak = 0
  /\ nextOffset = 0 /\ nextOrder = 0
  /\ pc = [t \in Threads |-> IF t = Puller THEN "stops" ELSE "outside"]
  /\ assigning = [t \in Threads |-> "none"]
  /\ plan = [c \in Calls |-> [offset |-> NoOffset, order |-> 0]]
  /\ ticket = [c \in Calls |-> [index |-> 0, scheduled |-> 0, started |-> 0]]
  /\ ended = [c \in Calls |-> 0]
  /\ stragglers = 0

Tick ==
  /\ clock < MaxTime
  /\ clock' = clock + 1
  /\ UNCHANGED <<stopFile, reason, slots, strategyState, pc, assigning,
                 records, stragglers>>

\* The parent process creates the stop file; nobody removes it.
RequestStop ==
  /\ ~stopFile
  /\ stopFile' = TRUE
  /\ UNCHANGED <<clock, reason, slots, strategyState, pc, assigning, records,
                 stragglers>>

\* strategy.plan under the lock, once per call.
Plan(c) ==
  /\ pc[c] = "outside"
  /\ LockFree
  /\ c \notin Malformed
  /\ \/ /\ Strategy = "immediate"
        /\ UNCHANGED <<plan, nextOffset>>
     \/ /\ Strategy = "interval"
        /\ plan' = [plan EXCEPT ![c] = [offset |-> nextOffset, order |-> 0]]
        /\ \E gap \in Gaps : nextOffset' = nextOffset + gap
     \/ /\ Strategy = "replay"
        /\ plan' = [plan EXCEPT
                      ![c] = [offset |-> TraceOffset[c] \div ReplaySpeed,
                              order |-> TraceIndex[c]]]
        /\ UNCHANGED nextOffset
  /\ pc' = [pc EXCEPT ![c] = "stops"]
  /\ UNCHANGED <<clock, stopFile, reason, slots, nextOrder, assigning, ticket,
                 ended, stragglers>>

\* The plan raises, or has an offset that is not a time: ValueError.
PlanFails(c) ==
  /\ pc[c] = "outside"
  /\ LockFree
  /\ c \in Malformed
  /\ pc' = [pc EXCEPT ![c] = "invalid"]
  /\ UNCHANGED allButPc

\* Slip: the budget is reported as the duration.
LookConfusingLimits(t) ==
  /\ pc[t] = "stops"
  /\ reason' = IF stopFile THEN "user_interrupt" ELSE reason
  /\ assigning' = [assigning EXCEPT ![t] =
                   IF DurationDue \/ BudgetSpent THEN "max_duration"
                   ELSE "none"]
  /\ pc' = [pc EXCEPT ![t] = "assign"]
  /\ UNCHANGED <<clock, stopFile, slots, strategyState, records, stragglers>>

\* stopped(), as far as it looks: the stop file overrides any earlier reason,
\* and a limit that is reached is about to assign `self.reason or <its name>`,
\* whose value was read here.  "none" stands for no assignment.
LookAtStops(t) ==
  /\ pc[t] = "stops"
  /\ reason' = IF stopFile THEN "user_interrupt" ELSE reason
  /\ assigning' = [assigning EXCEPT ![t] =
                   IF ~DurationDue /\ ~BudgetSpent THEN "none"
                   ELSE IF reason' # "none" THEN reason'
                   ELSE IF DurationDue THEN "max_duration"
                   ELSE "num_requests"]
  /\ pc' = [pc EXCEPT ![t] = "assign"]
  /\ UNCHANGED <<clock, stopFile, slots, strategyState, records, stragglers>>

\* stopped(), its assignment and its result.
Assigned(t) == IF assigning[t] # "none" THEN assigning[t] ELSE reason

\* A call leaves run() with AdmissionStopped or goes on to the slots.
ConcludeStops(c) ==
  /\ pc[c] = "assign"
  /\ reason' = Assigned(c)
  /\ pc' = [pc EXCEPT ![c] = IF reason' # "none" \/ Unaffordable(c)
                             THEN "refused" ELSE "decide"]
  /\ UNCHANGED <<clock, stopFile, slots, strategyState, assigning, records,
                 stragglers>>

\* The puller holds no lock; it stops pulling samples once it saw a reason.
PullerConcludes ==
  /\ pc[Puller] = "assign"
  /\ reason' = Assigned(Puller)
  /\ pc' = [pc EXCEPT ![Puller] = IF reason' # "none" THEN "done" ELSE "stops"]
  /\ UNCHANGED <<clock, stopFile, slots, strategyState, assigning, records,
                 stragglers>>

TakeSlot(c, width) ==
  /\ ticket' = [ticket EXCEPT ![c] =
                  [index |-> count,
                   scheduled |-> IF plan[c].offset = NoOffset
                                 THEN clock ELSE plan[c].offset,
                   started |-> clock]]
  /\ count' = count + width
  /\ active' = active + 1
  /\ peak' = IF active' > peak THEN active' ELSE peak
  /\ nextOrder' = IF Strategy = "replay" THEN nextOrder + 1 ELSE nextOrder
  /\ pc' = [pc EXCEPT ![c] = "admitted"]
  /\ stragglers' = IF Closed THEN stragglers + 1 ELSE stragglers
  /\ UNCHANGED <<clock, stopFile, reason, nextOffset, assigning, plan, ended>>

\* Slips: one slot too many; a batch counted as one request.
AdmitOneTooMany(c) ==
  pc[c] = "decide" /\ active <= Capacity /\ Ready(c) /\ TakeSlot(c, Cost[c])
AdmitCountingCalls(c) ==
  pc[c] = "decide" /\ active < Capacity /\ Ready(c) /\ TakeSlot(c, 1)

Admit(c) ==
  /\ pc[c] = "decide"
  /\ active < Capacity
  /\ Ready(c)
  /\ TakeSlot(c, Cost[c])

\* Slip: a call that cannot start now is turned away.
WaitGivingUp(c) ==
  /\ pc[c] = "decide"
  /\ active >= Capacity \/ ~Ready(c)
  /\ pc' = [pc EXCEPT ![c] = "refused"]
  /\ UNCHANGED allButPc

\* Condition.wait(timeout) gives the lock up ...
Wait(c) ==
  /\ pc[c] = "decide"
  /\ active >= Capacity \/ ~Ready(c)
  /\ pc' = [pc EXCEPT ![c] = "waiting"]
  /\ UNCHANGED allButPc

\* Slip: a woken call only looks at the slots again.
WakeWithoutLooking(c) ==
  /\ pc[c] = "waiting"
  /\ LockFree
  /\ pc' = [pc EXCEPT ![c] = "decide"]
  /\ UNCHANGED allButPc

\* ... and takes it again, notified or timed out: both start the loop anew.
Wake(c) ==
  /\ pc[c] = "waiting"
  /\ LockFree
  /\ pc' = [pc EXCEPT ![c] = "stops"]
  /\ UNCHANGED allButPc

\* emit("request_started"): after the slot was taken, outside the lock and
\* outside the try.  When it raises, nobody gives the slot back.
EmitStarted(c) ==
  /\ pc[c] = "admitted"
  /\ \/ pc' = [pc EXCEPT ![c] = "running"]
     \/ EmitMayFail /\ pc' = [pc EXCEPT ![c] = "leaked"]
  /\ UNCHANGED allButPc

\* The operation returns or raises; its end is noted before the lock.
Finish(c) ==
  /\ pc[c] = "running"
  /\ ended' = [ended EXCEPT ![c] = clock]
  /\ pc' = [pc EXCEPT ![c] = "releasing"]
  /\ UNCHANGED <<clock, stopFile, reason, slots, strategyState, assigning,
                 plan, ticket, stragglers>>

\* Slip: a slot is only given back after a success.
ReleaseAfterSuccess(c) ==
  /\ pc[c] = "releasing"
  /\ LockFree
  /\ active' \in {active, active - 1}
  /\ pc' = [pc EXCEPT ![c] = "released"]
  /\ UNCHANGED <<clock, stopFile, reason, count, peak, strategyState,
                 assigning, records, stragglers>>

\* In the finally clause, whatever became of the operation.
Release(c) ==
  /\ pc[c] = "releasing"
  /\ LockFree
  /\ active' = active - 1
  /\ pc' = [pc EXCEPT ![c] = "released"]
  /\ UNCHANGED <<clock, stopFile, reason, count, peak, strategyState,
                 assigning, records, stragglers>>

\* Slip: the end of a request is noted after its slot was given back.
EmitFinishedNotingEnd(c) ==
  /\ pc[c] = "released"
  /\ ended' = [ended EXCEPT ![c] = clock]
  /\ pc' = [pc EXCEPT ![c] = "done"]
  /\ UNCHANGED <<clock, stopFile, reason, slots, strategyState, assigning,
                 plan, ticket, stragglers>>

\* emit("request_finished"), after the slot is free again; run() ends here
\* whether or not the event could be written.
EmitFinished(c) ==
  /\ pc[c] = "released"
  /\ pc' = [pc EXCEPT ![c] = "done"]
  /\ UNCHANGED allButPc

Final == {"done", "leaked", "refused", "invalid"}

\* Every thread has ended; the model may stand still.
Terminated ==
  /\ \A t \in Threads : pc[t] \in Final
  /\ UNCHANGED vars

CallStep(c) ==
  \/ Plan(c) \/ PlanFails(c)
  \/ LookAtStops(c) \/ ConcludeStops(c) \/ Admit(c) \/ Wait(c) \/ Wake(c)
  \/ EmitStarted(c) \/ Finish(c) \/ Release(c) \/ EmitFinished(c)

PullerStep == LookAtStops(Puller) \/ PullerConcludes

Next ==
  \/ Tick
  \/ RequestStop
  \/ PullerStep
  \/ \E c \in Calls : CallStep(c)
  \/ Terminated

Spec == Init /\ [][Next]_vars
=============================================================================
