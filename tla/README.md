# Verification of luban-meter

luban-meter measures model services: it expands a task file into Cases, runs
the Cases of each task in a worker process, sends requests to a service or an
engine under a load profile, and computes metrics from what it recorded.  These
TLA+ modules state what must hold of the parts that are concurrent, that fail
half way, or that are killed, and check it with TLC and TLAPS.  Paths below are
relative to `src/luban_meter/` of the repository.

## 1. The system

```
 cli / api
    |  plan (core/planning)
 RunCoordinator (parent process)        signal handler: .stop, kill
    |  one task at a time                reporting/progress reads events.jsonl
    |-- resources: DockerSandboxScope
    |-- task_worker (child process) ---- files: events.jsonl, <case>.json,
    |      one Case at a time            <case>.result.json, .prepared.json/.ack,
    |      evaluation_session            result.json
    |        |-- collect_samples: thread pool of samples
    |        |      scenario.evaluate -> RunContext.request -> RequestScheduler
    |        |      -> HTTP client, engine, sandbox
    |        `-- monitors: device, host, Prometheus (sampling threads)
    `-- case_recovery after a failure or an interrupt
```

| component | state | operations | interacts by | hard because | correct when | model |
|---|---|---|---|---|---|---|
| request admission (`runtime/request_scheduler.py`) | count, active, peak, reason, condition | `run`, `stopped`, `remaining` | condition variable, events | threads, unlocked reads, lost slots | slots, budget and identities are exact; closing holds; the reason is true | RequestScheduler |
| strategies, profiles (`scheduling_strategies.py`, `load_profiles.py`) | next_offset, next_order | `plan`, `ready`, `admitted`, `completed` | called under the scheduler's lock | order of threads against order of the trace | trace order is kept; no wait for ever | RequestScheduler |
| collection (`evaluation_session.py:31-186`) | pending futures, rows, thread-locals | `collect_samples`, `_collect_sample`, `request`, `emit` | pool, scheduler, events.jsonl | exceptions in threads, stop at any time | drains; rows and window are honest; ends | EvaluationSession |
| life of a Case (`evaluation_session.py:223-473`) | result, the Case's files | prepare, warm up, collect, record, commit, measure, discard | files shared with the parent | killed between two writes | a committed collection survives, nothing else does | TaskRun |
| task worker (`task_worker.py`) | result.json, stop_reason | loop over Cases | .stop, result.json | killed, told to stop | statuses aggregate truly | TaskRun |
| coordinator, one task (`run_coordinator.py:223-403`) | process, interruptions, errors, handles | launch, poll, acknowledge, kill, clean up, assemble | files, signals, resources | handler between any two steps | worker dead first; report agrees with disk; ends | TaskRun |
| coordinator, whole run (`:120-221`) | result.json of the run | loop over tasks, fail_fast, abort | signals, progress | interrupts and exceptions between tasks | report covers every task and is true | RunProgress |
| progress (`reporting/progress.py`) | offset, pending, counts | `EventTail.read`, `_update`, `_print_completions` | reads files others write | replaced files, cut records | each record counted once; last word is the report's | RunProgress |
| case recovery (`case_recovery.py`) | the files of every Case | `discard_case`, `recover_cases` | files | what was half done | every Case classified as the disk says | TaskRun |
| sandboxes (`docker_sandbox.py`, `common/sandbox.py`, `resource_manager.py`) | registry of .pending/.done | `execute`, `remove_container`, `cleanup` | Docker daemon | late effects, kill at any step | success means nothing is left | SandboxScope |
| monitors (`device_monitor.py`, `host_monitor.py`, `prometheus_observer.py`) | snapshots, thread, stop event | start, sample, stop, summary | a thread, HTTP | stop against a slow sample | samples settle; stop ends | Monitors |
| service observation (`service_observation.py`, `common/prometheus.py`) | none | means, rates, quantiles of a window | snapshots | counters that restart, series that vanish | a difference is of what happened | Counters, Statistics |
| multi-turn (`multi_turn_serving.py`, `common/session_metrics.py`) | history, turns, records | a conversation; session views | RunContext.request | refused, failed, late turns; missing usage | every planned turn accounted for; views agree with requests | Conversation, SessionMetrics |
| asynchronous engine (`async_engine.py`) | event loop, tasks, engine | generate, abort, close | loop and threads | timeouts, cancellation | no work for who has left; success is whole; close ends | AsyncEngine |
| batch engine (`vllm_engine.py`) | none | collect, judge, rate batches | pure | timelines, partial failure | each duration from what was measured | BatchEngine |
| streaming client (`http_client.py`, `common/streaming.py`) | buffers, observation | lines and events of a stream | HTTP | chunks cut anywhere | the same observation for every cut | Streaming |
| request records and views (`online_serving.py`, `common/phase_timing.py`, `reasoning_tokens.py`) | none | records, phases, goodput | pure | missing values | every request has one outcome | ServingRecords |
| planning (`core/planning.py`, `parameters.py`) | none | schemas, precedence, matrix | pure | many sources | runs what was asked, once | Planning |
| token totals (`core/token_totals.py`) | none | totals and throughput | pure | unknown values | unknown stays unknown | TokenTotals |
| data and lengths (`data/`, `common/tokenization.py`) | none | trace windows, lengths, turns | pure | bounds, repetition | what is sent is what the data says | Workload |
| quality benchmarks (`model_service_quality/`) | none | windows, scores | service's answers | failures beside answers | each sample once in a score | Quality |
| sandbox runner, rendering (HTML, terminal), logging, CLI, dataset scripts | none shared | | pure or pure I/O | | | not modelled |

## 2. Modules

* `BoundedAdmission` - what admission promises, without locks or time: a room
  of Capacity places, a budget, and a door that lets in at most one straggler
  after it was closed.
* `RequestScheduler` - `run()` and `stopped()` step by step.  `pc[c]` is the
  place of a call in `run()`; the steps "stops", "assign" and "decide" are
  inside the condition's lock (`LockFree`), the wait gives it up.  `stopped()`
  is two steps, `LookAtStops` (reads) and the assignment (`ConcludeStops`,
  `PullerConcludes`), because the pool calls it without the lock.  Time is a
  counter; an interval is any member of `Gaps`.
* `RequestSchedulerProperties` - properties, the refinement mapping to
  `BoundedAdmission`, the inductive invariant `IInv`, and the fairness.
* `EvaluationSession` - extends the scheduler: its calls are the requests the
  samples make and its puller is the thread in `collect_samples`.  A scenario
  is any code that makes requests in order, catches their exceptions or not,
  and returns or raises.  `EvaluationSessionProperties` states what a collection
  guarantees, with its inductive invariant `SessionInv`.
* `EvaluationSessionProofs` - the proofs of both: first the scheduler's, which
  cite nothing of the session, then the session's, which start from them.
* `CaseCommitment` - what a task promises about the evidence of its Cases.
* `TaskRun` - the parent (`parent`), the worker (`worker`, at Case `at`), the
  user, and the files as variables.  One step is one write, rename or unlink,
  so `Die` and `Kill` fall between any two.  `TaskRunProperties` holds what is
  stated of it.
* `SandboxScope` - the executions of `DockerSandboxExecutor.execute`, the
  daemon (external: it creates whenever it likes), the worker's death and
  `DockerSandboxScope.cleanup`.
* `SandboxScopeProofs`, `TaskRunProofs` - proofs about the two.
* `RunProgress` - the run above the tasks and the display beside it: the loop
  of `RunCoordinator._run`, a worker that only emits, commits, discards, exits
  or dies, and `EventTail` with its offset, its pending bytes and the identity
  of the file it follows.  A record is a few units and a newline, so a read can
  end inside it; the file system gives a freed inode again.
  `RunProgressProperties`, `RunProgressProofs` - what is stated and proved of it.
* `Counters`, `Monitors` - `Counters` has what is computed from snapshots of
  cumulative counters; `Monitors` the three monitors of a Case (`kind`), whose
  thread scrapes (`Wake`) and appends (`AppendSample`) in two steps, and an
  endpoint that counts, restarts, hides series and fails.
  `MonitorsProperties`, `MonitorsProofs` - what is stated and proved of them.
* `Conversation` over `SessionMetrics`, `ServingRecords`, `Streaming`,
  `Statistics` - sessions turn by turn against a service that replies with one
  of `Streams`; `Receive` runs the stream collector and the record builder, and
  the report of the finished Case is made by the view operators.
  `ConversationProperties`, `ConversationProofs` likewise.
* `AsyncEngine` - the main thread, the threads of the calls, the coroutines
  between their awaits, and the engine (external).  `AsyncEngineProofs`.
* `Planning`, `Workload`, `Streaming`, `ServingRecords`, `TokenTotals`,
  `BatchEngine`, `Quality`, `Statistics` - pure operators, one per function of
  the program; `Computations` starts each on an input and states, in other
  words, what its result has to be.  Their recursion is in folds.
* `Folding` - lemmas about sums, minima and maxima of finite sets and about
  folds over sequences, which the proofs of the session, of the monitors, of the
  run and of the conversations share.
* `MC...` - the instances TLC checks.

A definition whose comment begins with "Slip" is not part of a specification:
it is the form a plausible mistake would give to the definition after it, and
the property it is paired with in PROJECT.json fails under it.

## 3. Runs

| run | question | instance |
|---|---|---|
| scheduler_admission | Are slots, budget, identities, closing and reason right in every interleaving? | 4 calls (one of cost 2), 2 slots, budget 4, duration 1, events may fail |
| scheduler_replay | Is the trace's order kept, and does every call end? | 4 records, 1 slot, one malformed, any may never come, duration 2 |
| scheduler_arrivals | Is a waiting call ever forgotten? | 3 calls, one per time unit, 1 slot, no limits |
| session_collection | Does a collection drain, tell the truth and end? | 3 samples, 4 calls (one of cost 2), 2 threads, budget 3, no duration |
| task_run | Does the evidence of a Case survive or go, and the report agree, whoever dies? | 2 Cases, 1 resource, 2 interrupts |
| task_tombstone | Is a discarded Case always reported as such? (No: see section 6) | 1 Case, 2 interrupts |
| sandbox_scope | Can a container be forgotten? | 2 executions |
| run_progress | Are records counted once, and is the run's report true? | 2 tasks of 2 Cases, 2 inodes, records short and over-long, reads of 3 units, fail_fast, errors and a stop after any Case |
| monitors | Can a rate be wrong, a sample be lost after the stop, or the stop hang? | each kind, 2 series, 3 increments, 1 restart, 3 samples |
| conversation | Is every turn accounted for, and does the report agree with the requests? | 2 sessions of up to 3 turns, 5 replies, budget 3, context 7 |
| async_engine | Does the engine work for nobody who has left, is success whole, does close() end? | 2 calls, up to 2 outputs waiting |
| computations | Do the pure computations give what they are for? | every small input of 15 kinds |

What each shows:

* scheduler_*: `SlotAccounting`, `BudgetKept`, `IdentitiesDisjoint`,
  `AtMostOneStraggler`, `ReasonTruthful`, `RecordedOverlapBounded`, the
  refinement `ImplementsRoom`; `ReplayInTraceOrder`; `EveryCallEnds`.
* session_collection: `CollectionDrains` (nothing in flight when it is over,
  the count adds up, the event log never shows more requests than slots),
  `RowsHonest` (not_started and incomplete are true of the budget, and a refusal
  is final), `WindowHonest` (data_exhausted and complete are true but for a
  batch that did not fit), `CollectionEnds`.
* task_run: `ReportMatchesDisk`, `SuccessMeansAll`, `WorkerDeadFirst`,
  `CommittedKept`, the refinement `ImplementsCommitment`, `TaskEnds`
  (by its timeout whatever the worker does; but no Case waits for its
  acknowledgement for ever, and that without any timeout).
* sandbox_scope: `RegistryCovers`, `CleanupHonest`, `CleanupEnds`.
* run_progress: `CountsTrue` (what the display counts is what was written,
  whatever the cuts), `LastWordTrue` (the last line of a Case is its status in
  the report), `RunReportTrue` (fail_fast, interrupts, every task).
* monitors: `DifferencesTrue` (no rate and no mean of anything that did not
  happen), `SamplesSettle` (at most one late sample of a device, none of the
  others), `MonitorStops`.
* conversation: `SessionAccounting` (the facts of a session and its requests
  tell the same), `CacheCeiling` (the prefix a report calls
  eligible is not below what was repeated nor above the prompts, and hits within
  what a session itself repeated stay below it), `ReportAddsUp` (a finished Case can
  be reported, and every view tells of the same requests).
* async_engine: `EngineLoadBounded`, `SuccessWhole`, `CloseEnds`.
* computations: `PlanFaithful`, `WorkloadFaithful`, `StreamsFaithful`,
  `ReportsHonest`, `QualityHonest`.

Bounds.  Two slots and four calls give a free slot, a full room with a call
that waits, and one that is refused; a batch of two makes the budget fall
between two calls (three single requests leave too little for the batch).  The
calls of cost one are interchangeable there (`Alike`), which is sound because
neither the strategy nor a property of that run tells them apart.  With one
slot, two calls wait for it and either may be woken first.  Clock bounds
(`MaxTime`) let the deadline fall before, between and after the admissions.  The
third sample is the one that is pulled after a future has ended; `max_duration`
closes a phase as the stop file does and is left to the scheduler's runs.  Two
Cases give one that is over, one under way, and one that must be skipped; the
second interrupt is the one that kills, a third does the same.  Executions share
nothing but the parent's loop: two give one that is found and one that is not.
Two tasks give one that fails and one that fail_fast skips; two inodes are the
fewest with which a replaced file gets the old inode back.  Two series let one
vanish while the other keeps a sample in the window, and three increments with a
restart let a counter pass its old value unseen.  Three turns are the fewest with
a turn between a first and a last one; a budget of three for up to six turns is
spent in the middle of a session.  One cached token is all of a first prompt or a
part of what a later one repeats, four are more than any turn but a third can
have repeated.  Of two calls one is aborted while the other streams, and two waiting outputs are one to leave behind and the
end.  `MaxInterrupts`, `MaxTime`, `MaxServed`, `MaxRestarts`, `MaxSamples`,
`MaxEvents` and `MaxReady` bound counters and queues; everything else is finite
by itself.

Deadlock is checked in every run; the states in which a system is over have an
explicit step that changes nothing (`Terminated`, `Over`).

## 4. Fairness

* Scheduler: weak on a call's own steps (a thread runs; an admitted operation
  ends, because the clients time out) and strong on taking the lock: every
  waiting thread gives it up for at least 10 ms per turn
  (request_scheduler.py:112).  Time passes.  Nothing makes a call come.
* Session: weak on the pool, strong on every sample's thread for the same
  reason, time passes.
* Task: weak on the parent's loop without its timeouts (`FairSpec`).  The
  first part of `TaskEnds` assumes besides that the timeout passes (strong: the
  deadline is a time) and nothing of the worker, which may hang at any step; the
  second assumes no timeout and that the worker's wait, a loop of 10 ms, looks
  again.
* Sandbox: weak on the parent's cleanup, strong on its deadline.  Nothing is
  assumed of the daemon.
* Monitors: weak on the Case's main thread, and on the thread of the service
  and host monitors, whose clients have timeouts.  The device's thread is not
  assumed to go on: its command may hang.
* Asynchronous engine: weak on the main thread, the loop, the threads' return
  and each timeout.  Nothing makes the engine stream, and an abort is assumed
  to be answered.
* The run, the conversations and the computations have safety properties only.

## 5. Proofs

**Scheduler** (`EvaluationSessionProofs`, first part).  For every set of calls,
costs, limits, strategy and clock bound that satisfy the assumptions of
`RequestScheduler`: type correctness, `SlotAccounting`, `BudgetKept`,
`IdentitiesDisjoint`, `AtMostOneStraggler`, `ReasonTruthful`, and that the
scheduler implements `BoundedAdmission`.  The safety properties are not
inductive; `IInv` adds

* `LockHeldOnce`: at most one call is inside the lock.  From it follows that
  nobody changes `count` and `active` between a call's look and its admission;
* `DecisionAffordable`: whoever decides can still pay;
* `PendingTruthful`: what a thread is about to assign to `reason` is true,
  because the stop file, the clock and `count` only ever grow;
* `StragglerUsedUp`: once a straggler was admitted no call is left that had
  looked before the phase closed.

Preservation is proved action by action, then the temporal theorems follow by
PTL.  The refinement uses `IInv` in both states: an admission is an `Enter`
because the room has a place (`SlotAccounting`) and the call fits
(`DecisionAffordable`); a refusal is a `Refuse` because the reason is true.

`RecordedOverlapBounded` and `ReplayInTraceOrder` rest on `RecordsPast` (no
record reaches beyond the present) and on one lemma about what a step may do to
one call's record.  The calls in flight now hold slots, so `SlotAccounting`
bounds them, and no step puts a call into an earlier instant: what was bounded
when it was the present stays bounded.  For the replay `PlansTraced` says that
a call waits for the trace record it was planned with; the one admitted is then
above every earlier one in the trace, and by `IdentitiesDisjoint` and
`RecordsPast` in the count and in time.

**Session** (second part).  `CollectionDrains`, `RowsHonest` and `WindowHonest`
for any samples, requests of any cost, and threads.  Every step of a session is
a step of the scheduler or leaves it alone (`SessionSchedules`), so `IInv` comes
for free; `SessionInv` adds to it

* of the scheduler, what only a session needs: `CountAddsUp` (the count is what
  the admitted requests cost: a sum over a set that grows by one), `LooksHold`,
  and `RefusalsFounded` (a refusal without a recorded reason is of a batch that
  does not fit, and never will, because the count only grows);
* of the pool, `PoolOrderly` and `SamplesOrderly`: what was pulled is pending
  until its row is taken, so an empty set of futures means that no thread of a
  sample is left;
* of the samples, `RequestsOrderly` (one request after the other, and nobody
  else makes one), `RowsFounded` (a row is one of those its requests leave it)
  and `RefusalsFinal` (after a refusal nothing as dear gets as far as to decide:
  the reason stays, or the count does).

The event log needs more than `SlotAccounting`, since request_finished is written
after the slot is given back: calls that run or write are each of a sample that
is pending, at most one of each sample, and the pool has at most Capacity
samples pending.

**Folds** (`Folding`).  The sums and the folds of the models are those of the
community modules, which recurse over a set and take one element after the other:
any one for a sum, the last one for a sequence.  The lemmas say that the
recursion has a result, that the order of a sum does not matter, and what one
element more or less changes; each is proved by looking at a smallest set for
which it would fail, which exists because strict inclusion among the subsets of a
finite set is well-founded.  The step of a fold is the constant operator `Op` of
the module, so `INSTANCE Folding WITH Op <- ReadLine` has the lemmas for that
fold.  `FoldInduction` is the induction over a sequence: given the set `A[i]` of
results that are right after i elements, it suffices that the base is in `A[0]`
and that a step goes from `A[i - 1]` to `A[i]`.

**Sandbox** (`SandboxScopeProofs`).  For every finite set of executions, type
correctness, `RegistryCovers` and `CleanupHonest`.  The invariant adds
`CleanFinish` (a call without an exception has had the daemon's answer and has
seen its container gone; what it lists was answered) and `CleanupKnows` (once
the cleanup runs, `pending` stays what the registry says, and what it observed
was created and is gone).  A cleanup that confirms has observed all that is
pending, and by `RegistryCovers` nothing else can exist or come.

**Task** (`TaskRunProofs`).  For any number of Cases, resources and interrupts.
`WorkerDeadFirst` follows from `WorkerKnown`: which places of the parent imply
that the worker was never started, that `self.process` is set, or that it is
dead.  Type correctness, `CommittedKept` and the refinement of `CaseCommitment`
follow from `TaskInv`, which speaks of the files while the worker lives, because
the recovery rewrites them afterwards: what the worker knows of its Case is what
the disk says (`RowTrue`), a Case that was not started has no files
(`Untouched`), the lines in events.jsonl are a Case's first evidence and the
last that `discard_case` removes (`EventsLast`, `LinesLast`), so a Case is open
exactly while it has lines and no complete facts, and only the Case of a living,
busy worker is open (`OneOpen`).  A dead worker leaves at most that one;
`Recovering` carries it to the end of `recover_cases`, or says that there is
none, because a worker that returned without an error had closed its last Case.
In the refinement `StartCase` is `Open`, the write of complete facts is `Commit`,
the removal of the last lines (by the worker or by `recover_cases`) is `Discard`,
`WriteOutcome` is `End`, and every other step stutters.

For `ReportMatchesDisk` and `SuccessMeansAll`, `ReportInv` adds where a row comes
from: result.json has a row exactly for the Cases the worker has passed, each
equal to the Case's own result file or `Skipped` (`WorkerRows`); the parent has
none, those, or what `recover_cases` makes of them one by one (`OutcomeRows`);
and a row that says success has its metrics (`Appending`).

**Run and display** (`RunProgressProofs`).  `RunReportTrue`, `LastWordTrue` and
`CountsTrue` for any number of tasks and Cases, and any limits of a read.
`RunInv` adds that `failed` is what the statuses say and that no task is under
way once it is set under fail_fast (`FailedTrue`), that a task's outcome is a
success only if all of its rows are and none had to be recovered (`OutcomeTrue`),
that a task's success was shown for each of its Cases (`SuccessShown`), and where
the final status comes from (`FinalStatus`).  `WordInv` adds that the rows the
worker has appended are the states on disk (`RowsOfDisk`); the parent reports
only when the worker has passed every Case without an interrupt or an error, or
after `recover_cases`, hence `ReportIsDisk`.

`CountInv` is about bytes.  A record that is counted has a first unit, so the
records counted, those that begin in what is pending, and those that begin in
the file beyond the offset are together no more than were written (`ReadOnce`).
That is all that survives a replaced file that passes for the old one: keeping
only some lines moves each towards the beginning and brings none twice beyond
the offset.  A display that was not misled has more: what is pending is the end
of what was read of the file, all of its unfinished line unless that is too long
already (`PendingTrue`), and what was counted is what the file says up to the
offset (`CountedTrue`).  The lemma behind it (`ReadFollows`) says of one read
that the lines of the buffer, without the first while dropping, are the lines of
the file that end between the old offset and the new one, but for those that
are too long to count; a line is named by the place of its newline, so a
buffer is a window of the file, and lines that begin in a window are the same
in both (`WindowLine`).  Sizes of sets are compared by injections and
bijections between places.

**Monitors** (`MonitorsProofs`).  `SamplesSettle` and `DifferencesTrue` for any
series, restarts and missed scrapes.  `MonitorInv` orders the observations by
`Before`: a later one has counted no less; without a restart in between a
counter grew by exactly what was counted, and after one it shows only what was
counted since.  What the endpoint would say now, and what the thread has in hand
and has not appended, come after every snapshot.  One difference is then an
increase or an understatement of it; the sum over the window of the host, and
that over a kept series, telescope (`SumOfSteps` of `Folding`).  `Settling`
says that the device's thread appends at most once after its stop, and where.

**Conversation** (`ConversationProofs`).  `SessionAccounting` for any number of
sessions and turns and whatever streams the service sends.  `ConversationInv`
adds that a session has a request in flight exactly between its admission and
its release (`FlightKept`), that it goes on only while no turn was given up
(`TurnsKept`), and that the requests recorded so far are those of the turns so
far, one for each and in their order (`RequestsKept`): a release appends the
request of the present turn, so every earlier place keeps what it had.

`CacheCeiling` rests on `CeilingInv`, which adds what a successful reply and a
measured request look like (`RepliesKept`: the observation of any stream is of
the right shape, by `FoldInduction` over its lines; `Fits`), that what a session
has sent and received is its last prompt and its reply (`HistoryKept`), that the
first measured prompt is one token and each later one is that of the turn before
with its reply and one token more (`PromptsKept`), and that what the sessions
repeated is the sum of the measured prompts without their new messages
(`SharedKept`).  For each measured turn the report then calls at least as much
eligible as was repeated, because the turn before is the last measured one
(`PreviousIsLast`), hence at least as much as was cached if the turn's hit was on
its session's own prefix (`OwnHits`); the sums follow term by term (`SumBelow`).
Nothing is assumed of the cached tokens otherwise.

**Streams** (`ConversationProofs`, last parts), for every input rather than for
every behaviour.  `LinesFaithful`: after i bytes the client has the lines that
end among them and the rest (`ReadRight`), which is kept by a line feed that
belongs to a carriage return, by the end of a line (`LineEnded`) and by payload
(`LineLonger`).  Since a fold over two sequences is one after the other
(`FoldConcat`), chunks leave what their bytes leave (`ChunksLeave`), and
`ChunksDoNotMatter`.  `ThinkingCounted`: after n tokens there is no reason to
doubt exactly while they are `Orderly`, and then the count is of the tokens since
the block opened or between its marks (`Tally`).

**Asynchronous engine** (`AsyncEngineProofs`).  `EngineLoadBounded` and
`SuccessWhole` for any number of calls and of waiting outputs.  The invariant
adds `Waited` (a coroutine is pending only while its thread waits in the pool,
so the cancellation in `shutdown()` finds no request), `Worked` (a request is in
the engine only from its start to its end or abort), `Ordered` (the end of a
stream is the last thing in it, and comes with the request's end) and `Settled`
(what is recorded as a success has taken all of it).  A stream is a sequence, so
the steps that take and add an output rest on two lemmas about its front and its
back.

Every theorem rests on the named assumptions about the constants and nothing
else.  Two of these are about the service.  `HitsAssumption` only says that it
reports cached tokens as a count or not at all; `StreamsAssumption` says that its
usage counts a token of the completion for each event of content, without which
the prompt and the completion of a turn may be fewer tokens than the next turn
repeats of them.  `TypeCorrect` of the scheduler, of the task and of the
sandboxes is proved and no longer part of a run.

Only model-checked:

* liveness (`EveryCallEnds`, `CollectionEnds`, `TaskEnds`, `CleanupEnds`,
  `MonitorStops`, `CloseEnds`): the proof system has no fairness;
* `ReportAddsUp` of the conversations and the five properties of the
  computations: they compare dozens of operators that select, sort or flatten
  sequences, of whose results the provers know nothing (`SelectSeq`, `SortSeq`,
  `FlattenSeq`), and the library's theorems that speak of a selection or an
  induction over any operator take that operator as a parameter, which the
  provers cannot instantiate.  Of `StreamsFaithful` the lines of a response and
  the count of thinking tokens are proved as above; how a stream is timed and
  where a percentile lies is not.

## 6. What the checks found

`task_tombstone`: the tombstone of a discarded Case is written after everything
of the Case was removed (evaluation_session.py:464-471).  A worker killed in
between leaves nothing, and the recovery reports the Case as skipped, without
its configuration and the reason (case_recovery.py:101-102); README.md:629 of
the repository promises both.

Some properties hold only within limits that a user of this project should know.
`AtMostOneStraggler` is one and not zero: `run()` looks before it takes the
slot.  `WindowHonest` excepts a sample with a batch that costs more than the
rest of the budget: it is refused without a recorded reason
(request_scheduler.py:101), and the window says data_exhausted though a sample
was cut short; the shipped batch scenarios cut the last batch to the budget and
do not meet it.  `CollectionDrains` and `RowsHonest` except a request whose start
event could not be written: it keeps its slot for ever (request_scheduler.py:135)
and its sample is reported as not_started though it used the budget.  With all
slots lost that way the collection waits for ever, so `CollectionEnds` is checked
with events that can be written.  `EngineLoadBounded` excepts a call whose abort
raised: nobody tries again.
`CountsTrue` excepts a file that was replaced twice between two reads and has
the old inode and at least the old length (`misled`): `EventTail` cannot tell
it from the old one, and shows too little until the next one.  `CacheCeiling`
needs a usage in every successful turn: after a turn without one the prefix is
unknown, and the eligible share leaves it out.  That the cached tokens stay below
the eligible ones needs more, namely that no hit goes beyond what the session
itself sent or received before (`OwnHits`).  The docstring calls the eligible
tokens the ceiling for a cache hit (common/session_metrics.py:235-238), but a
first turn counts nothing for them and its hits are bounded by its prompt alone
(line 285).  A cache that serves another session's system prompt, repeated data
or the warmup hits there, and `server_cache_eligible_rate` is above one although
every turn was measured; so it is with the stub of
tests/test_multi_turn_serving.py:192-195, of which the test (1482-1502) asks only
that the rate be above zero.

Seen while modelling, stated by no property:

* README.md:628 of the repository says that a second Ctrl+C ends the worker at
  once.  While Popen has forked and not returned, `self.process` is still None
  (run_coordinator.py:274), the handler finds nothing to kill, and the worker
  ends by the stop file or the grace of the first one (`Launch` to `Launched`).
* `_find_char_position` (language_modeling.py:152-176) may ask for the tokens of
  the empty prefix, with a stride of one or when the first character has at
  least `stride` tokens, and only for a document longer than the context.  A
  tokenizer without a begin token returns none, which `tokenize` takes for a
  failure of the service.  The first token of the first window has no logprob
  and is in no score.
* A failed batch has no "size" in its facts and EnginePerformance reads it
  (benchmark_metrics.py:182-192): one failed batch makes that metric fail.  The
  quality metrics likewise refuse a Case with a sample that raised.
* A batch whose timeline has two equal times is accepted when it is collected
  (vllm_engine.py:276) and refused when it is scored (vllm_engine.py:558-577).
* The seeds of multi-turn requests, `index * planned + turn`
  (multi_turn_serving.py:350-360), meet when sessions plan different numbers of
  turns.
* `OnlineServing.stop_after` counts samples that were never admitted as errors
  (generation_benchmarks.py:282-295); the multi-turn one does not.
* The line of a discarded Case may show counts whose evidence is gone, and a run
  that aborts keeps in result.json the status of the tasks so far.

## 7. Abstractions

* A request's operation, its result and its wording: whether it ended.  The
  feedback hook `completed()` does nothing in every strategy and is left out.
* What a Case collects: whether its facts are there, partial or complete; one
  metric stands for all, since a failing one only changes the status.
* write_json_atomic is one step, since it renames; the temporary file a kill
  leaves behind is removed by `discard_case` and is not modelled.
* The warmup calls the same `collect_sample` with no limits; in `TaskRun` it is
  part of `Collect`.
* The monitors of a Case are a module of their own; in `TaskRun` an exception
  out of them is the `Raise` of `Collect` and `Record`.
* Container options, the preflight and the output of a sandbox.
* RunProgress: what happens inside a task is what `TaskRun` promises of it; an
  invalid line between valid ones, notifications and layout are left out.
* Conversation: a message is its tokens, thinking only delays, and the time at
  which a session expires is any; of the scheduler only the slots, the budget
  and the stop are there.  A usage gives the tokens of the prompt that was sent
  and, as cached tokens, any of `Hits`, whether the session sent them before,
  another did, or nobody (the code cannot tell).
* AsyncEngine: an output has an answer or not; two calls share nothing but the
  loop, so outputs of a request do not depend on the other's.
* Planning: `Parameter.validate` is membership in `accepted`, `scenario.validate`
  a set of pairs that exclude each other, a metric list one value.
* Records have integer times; a ratio is a pair of numerator and denominator, so
  rounding is not modelled.
* Quality: an answer is what the extractor returns (`Answer`, none, or failure),
  a reference text is a sequence of tokens.

## 8. Not modelled

* Rendering (`reporting/html.py`, `terminal.py`, `terminal_details.py`), the
  command line and logging: wording and layout over finished results.
* `sandbox_runner.py`: a script inside the container around exec and alarm; what
  it may do to the container is in `SandboxScope`'s daemon.
* Generating a text with a given number of tokens, prompts, answer extractors and
  ROUGE: work on characters, which a model would only write again.
* The parsing of device tools, metric discovery and `/proc`; Docker options;
  connections and TLS; loading of YAML and data files; `local_command.py`.
* The dataset scripts: one-off conversions run by hand.

## 9. Plan

Done: scheduler, session, task, sandbox; run and progress; monitors and
counters; conversations; both engines; the pure computations.  Every safety
property of the scheduler, the session, the task, the sandboxes, the run, the
monitors and the asynchronous engine is proved, and `SessionAccounting` and
`CacheCeiling` of the conversations.

Proved of the pure computations: the lines of a response and the count of
thinking tokens.

Left: `ReportAddsUp` and the other computations in general, which would need
selections and sorts written as folds; `RunProgress` over `TaskRun` itself
rather than over what it promises.
