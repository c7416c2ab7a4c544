-------------------------- MODULE EvaluationSession --------------------------
(***************************************************************************)
(* runtime/evaluation_session.py: the formal collection of one Case.       *)
(*                                                                         *)
(* collect_samples pulls samples from an iterator and submits them to a    *)
(* thread pool, never more than the scheduler's capacity at a time.  Each  *)
(* sample is evaluated by a scenario that makes model requests through     *)
(* RunContext.request, one after the other, and becomes one row.  The      *)
(* module extends the scheduler: the calls of run() are here the requests  *)
(* of the samples, and the puller is the thread that runs collect_samples. *)
(*                                                                         *)
(* A scenario is any code: it may end early, and it may catch an exception *)
(* or the AdmissionStopped of a request or let it pass.                    *)
(***************************************************************************)
EXTENDS RequestScheduler, Sequences, FiniteSetsExt

CONSTANTS
  Samples,    \* 1..n, in the order of the iterator
  Asks,       \* the requests each sample would make
  MayRaise    \* may writing an event, or the sample iterator, raise?

ASSUME SamplesAssumption ==
  IsFiniteSet(Samples) /\ Samples = 1..Cardinality(Samples)
ASSUME AsksAssumption ==
  /\ Asks \in [Samples -> Seq(Calls)]
  /\ \A s, t \in Samples : \A i \in DOMAIN Asks[s], j \in DOMAIN Asks[t] :
       Asks[s][i] = Asks[t][j] => s = t /\ i = j
ASSUME RaiseAssumption == MayRaise \in BOOLEAN

VARIABLES
  pool,        \* what the thread in collect_samples does
  exhausted,   \* its local of that name
  pulled,      \* samples taken from the iterator
  futures,     \* `pending`: futures submitted and not yet waited for
  stage,       \* what the thread of each sample does
  made,        \* requests each sample has made
  state,       \* row["state"] of each sample
  rows,        \* samples whose row was taken from its future
  complete     \* collection_complete, once it is decided

sessionVars ==
  <<pool, exhausted, pulled, futures, stage, made, state, rows, complete>>
allVars == <<vars, sessionVars>>

-----------------------------------------------------------------------------
(* Helpers *)

\* The request a sample is making, or made last.
Current(s) == Asks[s][made[s]]

CallsMade(s) == {Asks[s][i] : i \in 1..made[s]}

\* local.admitted > 0: the operation of one of its requests was started.
SomeAdmitted(s) ==
  \E c \in CallsMade(s) :
    pc[c] \in {"running", "releasing", "released", "done"}

\* local.incomplete: one of its requests was refused.
SomeRefused(s) == \E c \in CallsMade(s) : pc[c] = "refused"

\* Slip: what a sample had under way is forgotten when it is refused.
CutShortForgetting(s) == "not_started"

CutShort(s) == IF SomeAdmitted(s) THEN "incomplete" ELSE "not_started"

\* The row states a sample may end in.  The facts say complete or failed; a
\* refused request overrides them, unless an exception comes out of evaluate.
RowStates(s) ==
  IF SomeRefused(s) THEN {CutShort(s), "failed"} ELSE {"complete", "failed"}

-----------------------------------------------------------------------------
SessionInit ==
  /\ Init
  /\ pool = "looking"
  /\ exhausted = FALSE
  /\ pulled = 0
  /\ futures = {}
  /\ stage = [s \in Samples |-> "unpulled"]
  /\ made = [s \in Samples |-> 0]
  /\ state = [s \in Samples |-> "none"]
  /\ rows = {}
  /\ complete = FALSE

\* context.scheduler.stopped(), called without the scheduler's lock.
PoolLooks ==
  /\ pool = "looking"
  /\ LookAtStops(Puller)
  /\ UNCHANGED sessionVars

\* Slip: a stopped pool does not wait for what is still pending.
PoolGoesOnUntilStopped(stopped, waitingFor) ==
  pool' = IF stopped THEN "ended"
          ELSE IF Cardinality(waitingFor) < Capacity THEN "looking"
          ELSE "waiting"

\* Back to the head of a loop: `while len(pending) < workers and not
\* exhausted`, then wait() when something is pending, then the outer test.
PoolGoesOn(stopped, waitingFor) ==
  pool' = IF ~stopped /\ Cardinality(waitingFor) < Capacity THEN "looking"
          ELSE IF waitingFor # {} THEN "waiting"
          ELSE "ended"

PoolConcludes ==
  /\ pool = "looking"
  /\ PullerConcludes
  /\ exhausted' = (pc'[Puller] = "done")
  /\ IF exhausted' THEN PoolGoesOn(TRUE, futures) ELSE pool' = "pulling"
  /\ UNCHANGED <<pulled, futures, stage, made, state, rows, complete>>

Submit ==
  /\ pool = "pulling"
  /\ pulled + 1 \in Samples
  /\ pulled' = pulled + 1
  /\ futures' = futures \cup {pulled'}
  /\ stage' = [stage EXCEPT ![pulled'] = "submitted"]
  /\ PoolGoesOn(FALSE, futures')
  /\ UNCHANGED <<vars, exhausted, made, state, rows, complete>>

\* StopIteration
RunOutOfSamples ==
  /\ pool = "pulling"
  /\ pulled + 1 \notin Samples
  /\ exhausted' = TRUE
  /\ PoolGoesOn(TRUE, futures)
  /\ UNCHANGED <<vars, pulled, futures, stage, made, state, rows, complete>>

\* The iterator of the scenario raises: the pool waits for what is submitted.
IteratorRaises ==
  /\ pool = "pulling"
  /\ MayRaise
  /\ pool' = "aborting"
  /\ UNCHANGED <<vars, exhausted, pulled, futures, stage, made, state, rows,
                 complete>>

Finished == {s \in futures : stage[s] \in {"returned", "crashed"}}

\* Slip: only a finished sample ends the wait, a crashed one does not.
GatherReturned ==
  /\ pool = "waiting"
  /\ \E s \in Finished : stage[s] = "returned"
  /\ futures' = {s \in futures : stage[s] # "returned"}
  /\ rows' = rows \cup (futures \ futures')
  /\ PoolGoesOn(exhausted, futures')
  /\ UNCHANGED <<vars, exhausted, pulled, stage, made, state, complete>>

\* wait(FIRST_COMPLETED) hands back whatever has finished by then.  The
\* result of a crashed future raises: the pool's exit waits for the others.
Gather ==
  /\ pool = "waiting"
  /\ Finished # {}
  /\ futures' = futures \ Finished
  /\ IF \E s \in Finished : stage[s] = "crashed"
     THEN /\ pool' = "aborting"
          /\ UNCHANGED rows
     ELSE /\ rows' = rows \cup Finished
          /\ PoolGoesOn(exhausted, futures')
  /\ UNCHANGED <<vars, exhausted, pulled, stage, made, state, complete>>

\* ThreadPoolExecutor.__exit__ returns when every submitted sample is over.
PoolExits ==
  /\ pool = "aborting"
  /\ Finished = futures
  /\ pool' = "aborted"
  /\ UNCHANGED <<vars, exhausted, pulled, futures, stage, made, state, rows,
                 complete>>

\* collection_complete = not context.stopped()
Decide ==
  /\ pool = "ended"
  /\ pool' = "decided"
  /\ complete' = ~stopFile
  /\ UNCHANGED <<vars, exhausted, pulled, futures, stage, made, state, rows>>

\* emit("sample_started"), outside the try of _collect_sample.
StartSample(s) ==
  /\ stage[s] = "submitted"
  /\ \/ stage' = [stage EXCEPT ![s] = "evaluating"]
     \/ MayRaise /\ stage' = [stage EXCEPT ![s] = "crashed"]
  /\ UNCHANGED <<vars, pool, exhausted, pulled, futures, made, state, rows,
                 complete>>

\* The scenario makes its next request.
Ask(s) ==
  /\ stage[s] = "evaluating"
  /\ made[s] < Len(Asks[s])
  /\ made' = [made EXCEPT ![s] = made[s] + 1]
  /\ Plan(Asks[s][made'[s]]) \/ PlanFails(Asks[s][made'[s]])
  /\ stage' = [stage EXCEPT ![s] = "asking"]
  /\ UNCHANGED <<pool, exhausted, pulled, futures, state, rows, complete>>

Request(s) ==
  /\ stage[s] = "asking"
  /\ LET c == Current(s)
     IN  \/ LookAtStops(c) \/ ConcludeStops(c) \/ Admit(c) \/ Wait(c)
         \/ Wake(c) \/ EmitStarted(c) \/ Finish(c) \/ Release(c)
         \/ EmitFinished(c)
  /\ UNCHANGED sessionVars

\* run() is over and the scenario goes on, with a result or a caught exception.
Resume(s) ==
  /\ stage[s] = "asking"
  /\ pc[Current(s)] \in Final
  /\ stage' = [stage EXCEPT ![s] = "evaluating"]
  /\ UNCHANGED <<vars, pool, exhausted, pulled, futures, made, state, rows,
                 complete>>

\* evaluate returns, or an exception comes out of it; the row is emitted,
\* outside the try.
EndSample(s) ==
  /\ \/ stage[s] = "evaluating"
     \/ stage[s] = "asking" /\ pc[Current(s)] \in Final
  /\ \E st \in RowStates(s) : state' = [state EXCEPT ![s] = st]
  /\ \/ stage' = [stage EXCEPT ![s] = "returned"]
     \/ MayRaise /\ stage' = [stage EXCEPT ![s] = "crashed"]
  /\ UNCHANGED <<vars, pool, exhausted, pulled, futures, made, rows, complete>>

PoolStep ==
  PoolLooks \/ PoolConcludes \/ Submit \/ RunOutOfSamples
  \/ IteratorRaises \/ Gather \/ PoolExits \/ Decide

SampleStep(s) ==
  StartSample(s) \/ Ask(s) \/ Request(s) \/ Resume(s) \/ EndSample(s)

Environment == (Tick \/ RequestStop) /\ UNCHANGED sessionVars

Over == pool \in {"decided", "aborted"} /\ UNCHANGED allVars

SessionNext ==
  \/ PoolStep
  \/ \E s \in Samples : SampleStep(s)
  \/ Environment
  \/ Over

SessionSpec == SessionInit /\ [][SessionNext]_allVars

\* The pool's thread runs; the thread of a sample runs, its operations end (the
\* clients time out), and it gets the scheduler's lock, which is free again and
\* again (request_scheduler.py:112); time passes.
FairSessionSpec ==
  /\ SessionSpec
  /\ WF_allVars(PoolStep)
  /\ \A s \in Samples : SF_allVars(SampleStep(s))
  /\ WF_allVars(Tick /\ UNCHANGED sessionVars)
=============================================================================
