------------------------------ MODULE TaskRun ------------------------------
(***************************************************************************)
(* One task: core/run_coordinator.py (the parent process), its signal      *)
(* handler, runtime/task_worker.py and the life of a Case in               *)
(* runtime/evaluation_session.py (the worker process), and the files they  *)
(* share, which runtime/case_recovery.py reconciles afterwards.            *)
(*                                                                         *)
(* The worker may be killed, or die, between any two of its steps; a step  *)
(* is one write, rename or unlink of a file (write_json_atomic renames).   *)
(* The user may interrupt at any time: the handler runs in the parent's    *)
(* main thread, between any two of the parent's steps.  What a Case        *)
(* collects is abstracted to whether it is there; the collection itself is *)
(* EvaluationSession.tla.                                                  *)
(***************************************************************************)
EXTENDS Integers, FiniteSets

CONSTANTS
  NumCases,       \* task["cases"]
  NumResources,   \* implementation.resources
  MaxInterrupts   \* bound on the user's interrupts

ASSUME CasesAssumption == NumCases \in Nat \ {0}
ASSUME ResourcesAssumption == NumResources \in Nat
ASSUME InterruptsAssumption == MaxInterrupts \in Nat

Cases == 1..NumCases

Statuses == {"none", "skipped", "discarded", "success", "partial_failed",
             "failed", "interrupted"}

\* A Case's row: its status, collection_complete, and how far its metrics are.
Metrics == {"none", "some", "complete"}
Rows == [status : Statuses, committed : BOOLEAN, metrics : Metrics]
Row(st, com, met) == [status |-> st, committed |-> com, metrics |-> met]
NoRow == Row("none", FALSE, "none")
Discarded == Row("discarded", FALSE, "none")
Skipped == Row("skipped", FALSE, "none")

NoOutcome == [status |-> "none", rows |-> [c \in Cases |-> NoRow]]

VARIABLES
  \* the user
  interruptions,  \* self.interruptions
  stopFile,       \* .stop
  \* the parent
  parent,         \* what it does next
  process,        \* self.process is set
  handles,        \* resource handles open
  errors,         \* errors # []
  globbed,        \* prepared files this poll found and has not acknowledged
  shown,          \* prepared files it has acknowledged
  outcome,        \* outcome: the task's status and the rows of its Cases
  seen,           \* recover_cases: Cases with a line in events.jsonl
  recovered,      \* recover_cases: Cases dealt with so far
  \* the worker
  worker,         \* what it does next
  at,             \* the Case it is at
  mine,           \* result: the row it builds
  complete,       \* collection_complete
  stopAfter,      \* stop_reason
  erased,         \* files discard_case has dealt with
  exit,           \* "ok" or "bad" return code, "none" while it runs
  \* the files
  facts,          \* <case>.json: "none", "partial" or "complete"
  results,        \* <case>.result.json
  events,         \* events.jsonl has lines of the Case
  prepared,       \* <case>.prepared.json
  acked,          \* <case>.prepared.ack
  taskFile,       \* result.json, as the worker writes it
  begun           \* history: Cases that were started

runVars == <<process, handles, errors, outcome>>
pollVars == <<globbed, shown>>
recoveryVars == <<seen, recovered>>
localVars == <<complete, stopAfter, erased>>
caseVars == <<at, mine, localVars>>
processVars == <<exit, begun>>
evidence == <<facts, results, events, prepared>>
files == <<evidence, acked, taskFile>>
workerVars == <<worker, caseVars, processVars>>
parentVars == <<parent, runVars, pollVars, recoveryVars>>
userVars == <<interruptions, stopFile>>
vars == <<userVars, parentVars, workerVars, files>>

-----------------------------------------------------------------------------
(* Helpers *)

Alive == exit = "none" /\ worker # "unborn"

\* task_worker.aggregate_status
AggregateStatus(states) ==
  IF "interrupted" \in states THEN "interrupted"
  ELSE IF states \subseteq {"skipped"} THEN "skipped"
  ELSE IF states = {"success"} THEN "success"
  ELSE IF states \subseteq {"failed", "skipped", "discarded"} THEN "failed"
  ELSE "partial_failed"

StatesOf(rows) == {rows[c].status : c \in Cases} \ {"none"}

\* SIGKILL to the worker's process group, and wait; a worker that has exited
\* keeps its return code.
Kill ==
  /\ exit' = IF process /\ Alive THEN "bad" ELSE exit
  /\ UNCHANGED <<worker, caseVars, begun>>

-----------------------------------------------------------------------------
Init ==
  /\ parent = "opening" /\ interruptions = 0
  /\ process = FALSE /\ handles = 0 /\ errors = FALSE
  /\ globbed = {} /\ shown = {}
  /\ outcome = NoOutcome
  /\ seen = {} /\ recovered = 0
  /\ worker = "unborn" /\ at = 1 /\ mine = NoRow
  /\ complete = FALSE /\ stopAfter = FALSE /\ erased = 0 /\ exit = "none"
  /\ stopFile = FALSE
  /\ facts = [c \in Cases |-> "none"]
  /\ results = [c \in Cases |-> NoRow]
  /\ events = [c \in Cases |-> FALSE]
  /\ prepared = [c \in Cases |-> FALSE]
  /\ acked = [c \in Cases |-> FALSE]
  /\ taskFile = NoOutcome
  /\ begun = {}

(* The signal handler *)

Interrupt ==
  /\ parent # "over"
  /\ interruptions < MaxInterrupts
  /\ interruptions' = interruptions + 1
  /\ stopFile' = TRUE
  /\ IF interruptions' >= 2 THEN Kill ELSE UNCHANGED workerVars
  /\ UNCHANGED <<parent, runVars, pollVars, recoveryVars, files>>

(* The parent: _run_task *)

\* A failure anywhere in the try leads to the cleanup.
Fails ==
  /\ errors' = TRUE
  /\ parent' = "reaping"
  /\ UNCHANGED <<process, handles, outcome>>

OpenResource ==
  /\ parent = "opening"
  /\ handles < NumResources
  /\ \/ /\ handles' = handles + 1
        /\ UNCHANGED <<parent, process, errors, outcome>>
     \/ Fails
  /\ UNCHANGED <<pollVars, recoveryVars, workerVars, files>>

Launch ==
  /\ parent = "opening"
  /\ handles = NumResources
  /\ \/ /\ parent' = "launching"
        /\ worker' = "next"
        /\ UNCHANGED <<process, handles, errors, outcome>>
     \/ Fails /\ UNCHANGED worker
  /\ UNCHANGED <<pollVars, recoveryVars, caseVars, processVars, files>>

\* Popen has forked; self.process is what it returns.
Launched ==
  /\ parent = "launching"
  /\ process' = TRUE
  /\ parent' = "polling"
  /\ UNCHANGED <<handles, errors, outcome, pollVars, recoveryVars, workerVars,
                 files>>

\* Slip: prepared Cases are looked for until the first was shown.
PollOnce ==
  /\ parent = "polling"
  /\ IF Alive
     THEN /\ parent' = "acknowledging"
          /\ globbed' = {c \in Cases : prepared[c] /\ shown = {}}
     ELSE /\ parent' = "reading"
          /\ UNCHANGED globbed
  /\ UNCHANGED <<runVars, shown, recoveryVars, workerVars, files>>

\* process.poll(), then the glob for prepared Cases.
Poll ==
  /\ parent = "polling"
  /\ IF Alive
     THEN /\ parent' = "acknowledging"
          /\ globbed' = {c \in Cases : prepared[c]} \ shown
     ELSE /\ parent' = "reading"
          /\ UNCHANGED globbed
  /\ UNCHANGED <<runVars, shown, recoveryVars, workerVars, files>>

\* prepared.read_text(): the worker may have discarded the Case by now.
ReadPrepared(c) ==
  /\ parent = "acknowledging"
  /\ c \in globbed /\ \A d \in globbed : c <= d
  /\ \/ /\ prepared[c]
        /\ parent' = "touching"
        /\ UNCHANGED <<runVars>>
     \/ ~prepared[c] /\ Fails
  /\ UNCHANGED <<pollVars, recoveryVars, workerVars, files>>

Acknowledge(c) ==
  /\ parent = "touching"
  /\ c \in globbed /\ \A d \in globbed : c <= d
  /\ acked' = [acked EXCEPT ![c] = TRUE]
  /\ shown' = shown \cup {c}
  /\ globbed' = globbed \ {c}
  /\ parent' = "acknowledging"
  /\ UNCHANGED <<runVars, recoveryVars, workerVars, evidence, taskFile>>

PollAgain ==
  /\ parent = "acknowledging"
  /\ globbed = {}
  /\ parent' = "polling"
  /\ UNCHANGED <<runVars, pollVars, recoveryVars, workerVars, files>>

\* Slip: a worker nobody has interrupted may run for ever.
TimeOutInterrupted ==
  /\ parent = "acknowledging"
  /\ globbed = {}
  /\ interruptions > 0
  /\ errors' = TRUE
  /\ Kill
  /\ parent' = "reading"
  /\ UNCHANGED <<process, handles, outcome, pollVars, recoveryVars, files>>

\* interrupt_grace after the first interrupt, or task_timeout, is over.
TimeOut ==
  /\ parent = "acknowledging"
  /\ globbed = {}
  /\ errors' = TRUE
  /\ Kill
  /\ parent' = "reading"
  /\ UNCHANGED <<process, handles, outcome, pollVars, recoveryVars, files>>

\* The return code, and the task's result.json if there is one.
ReadResult ==
  /\ parent = "reading"
  /\ errors' = (errors \/ exit = "bad")
  /\ outcome' = taskFile
  /\ parent' = "reaping"
  /\ UNCHANGED <<process, handles, pollVars, recoveryVars, workerVars, files>>

\* Slip: after an exception the worker is left alone.
ReapNothing ==
  /\ parent = "reaping"
  /\ process' = FALSE
  /\ parent' = "closing"
  /\ UNCHANGED <<handles, errors, outcome, pollVars, recoveryVars, workerVars,
                 files>>

\* kill_worker(self.process); self.process = None
Reap ==
  /\ parent = "reaping"
  /\ Kill
  /\ process' = FALSE
  /\ parent' = "closing"
  /\ UNCHANGED <<handles, errors, outcome, pollVars, recoveryVars, files>>

CloseHandle ==
  /\ parent = "closing"
  /\ handles > 0
  /\ handles' = handles - 1
  /\ errors' \in {errors, TRUE}
  /\ UNCHANGED <<parent, process, outcome, pollVars, recoveryVars, workerVars,
                 files>>

\* Slip: what the worker wrote is taken as it is.
AssembleTrustingWorker ==
  /\ parent = "closing"
  /\ handles = 0
  /\ outcome' = [outcome EXCEPT !.status =
                   IF interruptions > 0 THEN "interrupted"
                   ELSE IF @ = "none" THEN "failed" ELSE @]
  /\ parent' = "deciding"
  /\ UNCHANGED <<process, handles, errors, pollVars, recoveryVars, workerVars,
                 files>>

Assemble ==
  /\ parent = "closing"
  /\ handles = 0
  /\ outcome' = [outcome EXCEPT !.status =
                   IF interruptions > 0 THEN "interrupted"
                   ELSE IF errors \/ @ = "none" THEN "failed" ELSE @]
  /\ parent' = "deciding"
  /\ UNCHANGED <<process, handles, errors, pollVars, recoveryVars, workerVars,
                 files>>

\* Slip: only an interrupted task is recovered.
DecideOnInterrupts ==
  /\ parent = "deciding"
  /\ parent' = IF interruptions > 0 THEN "recovering" ELSE "writing"
  /\ seen' = {c \in Cases : events[c]}
  /\ UNCHANGED <<runVars, pollVars, recovered, workerVars, files>>

\* The interrupts are looked at again: one may have come since Assemble.
\* recover_cases first reads which Cases have events.
Decide ==
  /\ parent = "deciding"
  /\ parent' = IF errors \/ interruptions > 0 THEN "recovering" ELSE "writing"
  /\ seen' = {c \in Cases : events[c]}
  /\ UNCHANGED <<runVars, pollVars, recovered, workerVars, files>>

(* recover_cases, one Case after the other; the worker is dead by now *)

\* Everything discard_case removes, at once.
Erased(c) ==
  /\ facts' = [facts EXCEPT ![c] = "none"]
  /\ prepared' = [prepared EXCEPT ![c] = FALSE]
  /\ acked' = [acked EXCEPT ![c] = FALSE]
  /\ events' = [events EXCEPT ![c] = FALSE]

\* The row of a Case whose facts were committed.
Completed(saved) ==
  LET row == IF saved.committed THEN saved
             ELSE Row("partial_failed", TRUE, "none")
  IN  IF row.metrics # "complete" /\ row.status = "success"
      THEN [row EXCEPT !.status = "partial_failed"] ELSE row

Recover(c, row) == outcome' = [outcome EXCEPT !.rows[c] = row]

Keep(c) ==
  /\ facts[c] = "complete"
  /\ results' = [results EXCEPT ![c] = Completed(results[c])]
  /\ Recover(c, Completed(results[c]))
  /\ UNCHANGED <<facts, events, prepared, acked>>

KeepTombstone(c) ==
  /\ facts[c] # "complete"
  /\ results[c].status = "discarded"
  /\ Recover(c, results[c])
  /\ UNCHANGED <<evidence, acked>>

DiscardRest(c) ==
  /\ facts[c] # "complete"
  /\ results[c].status # "discarded"
  /\ c \in seen \/ facts[c] # "none" \/ results[c] # NoRow
  /\ Erased(c)
  /\ results' = [results EXCEPT ![c] = Discarded]
  /\ Recover(c, Discarded)

LeaveUnstarted(c) ==
  /\ facts[c] = "none" /\ results[c] = NoRow /\ c \notin seen
  /\ Recover(c, IF outcome.rows[c] = NoRow THEN Skipped ELSE outcome.rows[c])
  /\ UNCHANGED <<evidence, acked>>

\* Slip: only the result file is asked whether the collection was committed.
RecoverByResult(c) ==
  /\ parent = "recovering"
  /\ recovered = c - 1
  /\ \/ results[c].committed /\ Keep(c)
     \/ KeepTombstone(c) \/ LeaveUnstarted(c)
     \/ /\ ~results[c].committed /\ results[c].status # "discarded"
        /\ c \in seen
        /\ Erased(c)
        /\ results' = [results EXCEPT ![c] = Discarded]
        /\ Recover(c, Discarded)
  /\ recovered' = c
  /\ parent' = IF c = NumCases THEN "writing" ELSE parent
  /\ UNCHANGED <<process, handles, errors, pollVars, seen, workerVars,
                 taskFile>>

RecoverCase(c) ==
  /\ parent = "recovering"
  /\ recovered = c - 1
  /\ Keep(c) \/ KeepTombstone(c) \/ DiscardRest(c) \/ LeaveUnstarted(c)
  /\ recovered' = c
  /\ parent' = IF c = NumCases THEN "writing" ELSE parent
  /\ UNCHANGED <<process, handles, errors, pollVars, seen, workerVars,
                 taskFile>>

WriteOutcome ==
  /\ parent = "writing"
  /\ taskFile' = outcome
  /\ parent' = "over"
  /\ UNCHANGED <<runVars, pollVars, recoveryVars, workerVars, evidence,
                 acked>>

(* The worker: task_worker._run_task and evaluation_session._run_case *)

Goes(step) == worker' = step

\* An exception in _run_case's try.
Raise == worker' = "failing"

InCase(step) == Alive /\ worker = step

AppendRow(row) ==
  LET rows == [taskFile.rows EXCEPT ![at] = row]
  IN  taskFile' = [status |-> AggregateStatus(StatesOf(rows)), rows |-> rows]

SkipCase ==
  /\ InCase("next") /\ at <= NumCases
  /\ stopFile \/ stopAfter
  /\ AppendRow(Skipped)
  /\ at' = at + 1
  /\ UNCHANGED <<worker, mine, localVars, processVars, evidence, acked>>

GoOn ==
  /\ InCase("next") /\ at <= NumCases
  /\ ~stopFile /\ ~stopAfter
  /\ Goes("starting")
  /\ UNCHANGED <<caseVars, processVars, files>>

\* emit("case_started")
StartCase ==
  /\ InCase("starting")
  /\ mine' = Row("failed", FALSE, "none")
  /\ complete' = FALSE
  /\ erased' = 0
  /\ events' = [events EXCEPT ![at] = TRUE]
  /\ begun' = begun \cup {at}
  /\ Goes("preparing")
  /\ UNCHANGED <<at, stopAfter, exit, facts, results, prepared, acked,
                 taskFile>>

Prepare ==
  /\ InCase("preparing")
  /\ \/ /\ prepared' = [prepared EXCEPT ![at] = TRUE]
        /\ Goes("awaiting")
     \/ Raise /\ UNCHANGED prepared
  /\ UNCHANGED <<caseVars, processVars, facts, results, events, acked,
                 taskFile>>

AwaitAck ==
  /\ InCase("awaiting")
  /\ \/ acked[at] /\ Goes("collecting")
     \/ ~acked[at] /\ stopFile /\ Raise
  /\ UNCHANGED <<caseVars, processVars, files>>

\* The warmup and the formal collection; then context.stopped() is looked at.
Collect ==
  /\ InCase("collecting")
  /\ \/ complete' = ~stopFile /\ Goes("recording")
     \/ Raise /\ UNCHANGED complete
  /\ UNCHANGED <<at, mine, stopAfter, erased, processVars, files>>

\* The facts are written with collection_complete; a collection that was cut
\* short raises after that.
Record ==
  /\ InCase("recording")
  /\ \/ /\ facts' = [facts EXCEPT ![at] =
                       IF complete THEN "complete" ELSE "partial"]
        /\ IF complete
           THEN /\ \E st \in {"success", "partial_failed", "failed"} :
                     mine' = Row(st, TRUE, "none")
                /\ Goes("committing")
           ELSE Raise /\ UNCHANGED mine
     \/ Raise /\ UNCHANGED <<facts, mine>>
  /\ UNCHANGED <<at, localVars, processVars, results, events, prepared, acked,
                 taskFile>>

\* The result file marks the collection boundary, then stop_after judges.
Commit ==
  /\ InCase("committing")
  /\ \/ results' = [results EXCEPT ![at] = mine] /\ Goes("judging")
     \/ Raise /\ UNCHANGED results
  /\ UNCHANGED <<caseVars, processVars, facts, events, prepared, acked,
                 taskFile>>

Judge ==
  /\ InCase("judging")
  /\ \/ stopAfter' \in BOOLEAN /\ Goes("measuring")
     \/ Raise /\ UNCHANGED stopAfter
  /\ UNCHANGED <<at, mine, complete, erased, processVars, files>>

\* One metric; its failure only shows in the status.  The file is rewritten.
Measure ==
  /\ InCase("measuring")
  /\ mine.metrics = "none"
  /\ \/ \E st \in {mine.status,
                   IF mine.status = "success" THEN "partial_failed"
                   ELSE mine.status} :
          /\ mine' = Row(st, TRUE, "some")
          /\ results' = [results EXCEPT ![at] = mine']
          /\ UNCHANGED worker
     \/ Raise /\ UNCHANGED <<mine, results>>
  /\ UNCHANGED <<at, localVars, processVars, facts, events, prepared, acked,
                 taskFile>>

\* metrics_status = "complete", after every planned metric, perhaps none.
Measured ==
  /\ InCase("measuring")
  /\ mine.metrics # "complete"
  /\ mine' = [mine EXCEPT !.metrics = "complete"]
  /\ Goes("closing")
  /\ UNCHANGED <<at, localVars, processVars, files>>

\* The except clause of _run_case.
Fail ==
  /\ InCase("failing")
  /\ mine' = [mine EXCEPT !.status =
                IF stopFile THEN "interrupted" ELSE "failed"]
  /\ facts' = [facts EXCEPT ![at] = IF @ = "none" THEN "partial" ELSE @]
  /\ Goes("closing")
  /\ UNCHANGED <<at, localVars, processVars, results, events, prepared, acked,
                 taskFile>>

\* Slip: what failed is kept as it is.
CloseKeeping ==
  /\ InCase("closing")
  /\ mine' = mine
  /\ Goes("saving")
  /\ UNCHANGED <<at, localVars, processVars, files>>

\* scenario.close, which may raise; what is not committed is discarded.
CloseCase ==
  /\ InCase("closing")
  /\ \/ UNCHANGED mine
     \/ mine' = [mine EXCEPT !.status =
                   IF @ = "interrupted" THEN @ ELSE "failed"]
  /\ Goes(IF mine.committed THEN "saving" ELSE "discarding")
  /\ UNCHANGED <<at, localVars, processVars, files>>

\* discard_case: four files, one after the other, then the lines of
\* events.jsonl (the others are written to a file that replaces it).
Discard ==
  LET Gone(n, file, nothing) ==
        IF erased = n THEN [file EXCEPT ![at] = nothing] ELSE file
  IN  /\ InCase("discarding")
      /\ facts' = Gone(0, facts, "none")
      /\ results' = Gone(1, results, NoRow)
      /\ prepared' = Gone(2, prepared, FALSE)
      /\ acked' = Gone(3, acked, FALSE)
      /\ events' = Gone(4, events, FALSE)
      /\ erased' = erased + 1
      /\ IF erased = 4 THEN mine' = Discarded /\ Goes("saving")
         ELSE UNCHANGED <<mine, worker>>
      /\ UNCHANGED <<at, complete, stopAfter, processVars, taskFile>>

SaveResult ==
  /\ InCase("saving")
  /\ results' = [results EXCEPT ![at] = mine]
  /\ Goes("appending")
  /\ UNCHANGED <<caseVars, processVars, facts, events, prepared, acked,
                 taskFile>>

FinishCase ==
  /\ InCase("appending")
  /\ AppendRow(mine)
  /\ at' = at + 1
  /\ Goes("next")
  /\ UNCHANGED <<mine, localVars, processVars, evidence, acked>>

\* The last result.json, marked as interrupted when a stop was requested.
Exit ==
  /\ InCase("next") /\ at > NumCases
  /\ taskFile' = IF stopFile THEN [taskFile EXCEPT !.status = "interrupted"]
                 ELSE taskFile
  /\ exit' = "ok"
  /\ UNCHANGED <<worker, caseVars, begun, evidence, acked>>

\* An exception outside a Case's try, a crash of a library, the OOM killer.
Die ==
  /\ Alive
  /\ exit' = "bad"
  /\ UNCHANGED <<worker, caseVars, begun, files>>

-----------------------------------------------------------------------------
ParentStep ==
  /\ \/ OpenResource \/ Launch \/ Launched \/ Poll \/ PollAgain \/ TimeOut
     \/ \E c \in Cases : ReadPrepared(c) \/ Acknowledge(c) \/ RecoverCase(c)
     \/ ReadResult \/ Reap \/ CloseHandle \/ Assemble \/ Decide \/ WriteOutcome
  /\ UNCHANGED userVars

WorkerStep ==
  /\ \/ SkipCase \/ GoOn \/ StartCase \/ Prepare \/ AwaitAck \/ Collect
     \/ Record \/ Commit \/ Judge \/ Measure \/ Measured \/ Fail
     \/ CloseCase \/ Discard \/ SaveResult \/ FinishCase \/ Exit \/ Die
  /\ UNCHANGED <<userVars, parentVars>>

Over == parent = "over" /\ UNCHANGED vars

Next == Interrupt \/ ParentStep \/ WorkerStep \/ Over

Spec == Init /\ [][Next]_vars

\* The parent's loop goes on, whether or not a timeout ever passes.
FairSpec == Spec /\ WF_vars(ParentStep /\ ~TimeOut)

\* task_timeout passes in the end.  Nothing is assumed of the worker: it may
\* hang at any step.
TimeoutPasses == SF_vars(TimeOut /\ UNCHANGED userVars)

\* The worker's wait for the acknowledgement looks again every 10 ms.
WaitLooksAgain == WF_vars(AwaitAck /\ UNCHANGED <<userVars, parentVars>>)
=============================================================================
