------------------------- MODULE RunProgressProofs -------------------------
(***************************************************************************)
(* Proofs about a whole run and its progress display, for any number of    *)
(* tasks and of Cases, any length of records and any limits of a read.     *)
(***************************************************************************)
EXTENDS RunProgressProperties, FiniteSetTheorems, SequenceTheorems, TLAPS

INSTANCE Folding WITH Op <- +

(***************************************************************************)
(* aggregate_status says "success" of a set of statuses exactly when it    *)
(* holds nothing else.                                                     *)
(***************************************************************************)
LEMMA AggregateSuccess ==
  ASSUME NEW states
  PROVE  /\ AggregateStatus(states) = "success" <=> states = {"success"}
         /\ AggregateStatus(states) \in TaskStatuses
  BY DEF AggregateStatus, TaskStatuses

LEMMA SomeTask == NumTasks \in Nat \ {0} /\ 1 \in Tasks /\ 1 \in Cases
  BY PlanAssumption DEF Tasks, Cases

(***************************************************************************)
(* The steps within a task: they leave the run's own state alone.          *)
(***************************************************************************)
Within ==
  \/ Emit \/ Commit \/ Discard \/ AppendRow \/ Exit
  \/ Reap \/ Recover \/ PollEvents

LEMMA WithinStep ==
  ASSUME RunShape, Within
  PROVE  /\ UNCHANGED <<task, interrupted, failed, statuses, runStatus,
                        results, printed>>
         /\ stage \in {"running", "reading", "recovering"}
         /\ stage' \in {"running", "reading", "recovering", "reporting"}
         /\ disk' \in [Cases -> CaseStates]
         /\ taskFile' \in [Cases -> CaseStates]
<1>1. CASE Emit
  BY <1>1 DEF Emit, InTask, RunShape, runVars, workerVars, displayVars
<1>2. CASE Commit
  <2>1. Committed \subseteq CaseStates
    BY DEF Committed, CaseStates
  <2>. QED BY <1>2, <2>1 DEF Commit, InTask, RunShape, runVars, displayVars
<1>3. CASE Discard
  BY <1>3 DEF Discard, InTask, RunShape, runVars, displayVars, CaseStates
<1>4. CASE AppendRow
  <2>1. disk' = disk \/ disk' = [disk EXCEPT ![at] = "skipped"]
    BY <1>4 DEF AppendRow, Skipped, Finished
  <2>2. disk' \in [Cases -> CaseStates] /\ at \in Cases => disk'[at] \in CaseStates
    OBVIOUS
  <2>3. disk' \in [Cases -> CaseStates]
    BY <2>1 DEF RunShape, CaseStates
  <2>4. taskFile' = [taskFile EXCEPT ![at] = disk'[at]]
    BY <1>4 DEF AppendRow
  <2>5. taskFile' \in [Cases -> CaseStates]
    BY <2>2, <2>3, <2>4 DEF RunShape
  <2>. QED BY <1>4, <2>3, <2>5 DEF AppendRow, InTask, runVars, displayVars
<1>5. CASE Exit
  BY <1>5 DEF Exit, InTask, RunShape, runVars, displayVars
<1>6. CASE Reap
  BY <1>6 DEF Reap, RunShape, workerVars, displayVars
<1>7. CASE Recover
  <2>1. \A d \in Recovered : d \in [Cases -> CaseStates]
    BY DEF Recovered, RunShape, CaseStates
  <2>. QED BY <1>7, <2>1 DEF Recover, RunShape, displayVars, CaseStates
<1>8. CASE PollEvents
  BY <1>8 DEF PollEvents, RunShape, workerVars
<1>. QED BY <1>1, <1>2, <1>3, <1>4, <1>5, <1>6, <1>7, <1>8 DEF Within

(***************************************************************************)
(* What a task comes to, while it goes on.                                 *)
(***************************************************************************)
LEMMA WithinOutcome ==
  ASSUME RunShape, OutcomeTrue, Within
  PROVE  OutcomeTrue'
<1>1. CASE InTask /\ InTask'
  BY <1>1 DEF OutcomeTrue, InTask
<1>2. CASE Reap
  <2> DEFINE rows == {taskFile[c] : c \in Cases}
  <2>1. AggregateStatus(rows) \in TaskStatuses
    BY AggregateSuccess
  <2>2. AggregateStatus(rows) = "success" =>
          \A c \in Cases : taskFile[c] = "success"
    <3>1. AggregateStatus(rows) = "success" => rows = {"success"}
      BY AggregateSuccess
    <3>. QED BY <3>1
  <2>3. PICK errors \in BOOLEAN :
          /\ outcome' = IF interrupted THEN "interrupted"
                        ELSE IF errors THEN "failed" ELSE AggregateStatus(rows)
          /\ stage' = IF errors \/ interrupted THEN "recovering"
                      ELSE "reporting"
    BY <1>2 DEF Reap
  <2>4. taskFile' = taskFile
    BY <1>2 DEF Reap, workerVars
  <2> HIDE DEF rows
  <2>. QED BY <2>1, <2>2, <2>3, <2>4 DEF OutcomeTrue, TaskStatuses
<1>3. CASE Recover
  <2>1. /\ stage = "recovering" /\ outcome' = outcome
        /\ stage' \in {"recovering", "reporting"}
    BY <1>3 DEF Recover
  <2>. QED BY <2>1 DEF OutcomeTrue
<1>4. CASE Emit \/ Commit \/ Discard \/ AppendRow \/ Exit \/ PollEvents
  <2>1. InTask /\ InTask'
    BY <1>4 DEF Emit, Commit, Discard, AppendRow, Exit, PollEvents, InTask,
                runVars
  <2>. QED BY <1>1, <2>1
<1>. QED BY <1>2, <1>3, <1>4 DEF Within

(***************************************************************************)
(* The display takes over the statuses of one task's rows.                 *)
(***************************************************************************)
LEMMA ShowStep ==
  ASSUME RunShape, task \in Tasks, NEW rows \in [Cases -> CaseStates],
         Show(rows)
  PROVE  /\ results' \in [Tasks -> [Cases -> CaseStates]]
         /\ printed' = results'
         /\ \A t \in Tasks : t # task => results'[t] = results[t]
         /\ \A c \in Cases : rows[c] # "none" => results'[task][c] = rows[c]
<1>1. [c \in Cases |-> IF rows[c] = "none" THEN results[task][c] ELSE rows[c]]
        \in [Cases -> CaseStates]
  BY DEF RunShape
<1>2. results' = [results EXCEPT ![task] =
        [c \in Cases |-> IF rows[c] = "none" THEN results[task][c]
                         ELSE rows[c]]]
  BY DEF Show
<1>3. printed' = results'
  BY DEF Show, PrintCompletions
<1>. QED BY <1>1, <1>2, <1>3 DEF RunShape

(***************************************************************************)
(* A task ends: its status is the last one.                                *)
(***************************************************************************)
LEMMA EndStep ==
  ASSUME RunInv, task \in Tasks, NEW status \in TaskStatuses,
         EndTask(status),
         results' \in [Tasks -> [Cases -> CaseStates]], printed' = results',
         \A t \in Tasks : t # task => results'[t] = results[t],
         status = "success" => \A c \in Cases : results'[task][c] = "success",
         FailFast /\ failed => status = "skipped",
         disk' = disk, taskFile' = taskFile
  PROVE  RunInv'
<1>1. /\ task \in Nat \ {0} /\ task <= NumTasks
      /\ statuses \in Seq(TaskStatuses) /\ Len(statuses) = task - 1
      /\ failed \in BOOLEAN
  BY PlanAssumption DEF RunInv, RunShape, Tasks
<1>2. /\ task' = task + 1 /\ stage' = "starting"
      /\ interrupted' = interrupted
      /\ statuses' = Append(statuses, status)
      /\ failed' = (failed \/ status # "success")
  BY DEF EndTask
<1>3. /\ statuses' \in Seq(TaskStatuses) /\ Len(statuses') = task
      /\ statuses'[task] = status
      /\ \A t \in 1..(task - 1) : statuses'[t] = statuses[t]
  BY <1>1, <1>2
<1>4. RunShape'
  <2>1. task' \in 1..(NumTasks + 1) /\ Len(statuses') = task' - 1
    BY <1>1, <1>2, <1>3, PlanAssumption
  <2>. QED BY <1>1, <1>2, <1>3, <2>1 DEF RunInv, RunShape, Stages
<1>5. \A t \in 1..task : t = task \/ t \in 1..(task - 1)
  BY <1>1
<1>6. FailedTrue'
  <2>1. failed <=> \E t \in 1..(task - 1) : statuses[t] # "success"
    BY <1>1 DEF RunInv, FailedTrue
  <2>2. failed' <=> \E t \in 1..task : statuses'[t] # "success"
    <3>1. CASE failed
      <4>1. PICK t \in 1..(task - 1) : statuses[t] # "success"
        BY <2>1, <3>1
      <4>2. t \in 1..task /\ statuses'[t] # "success"
        BY <1>1, <1>3, <4>1
      <4>. QED BY <1>2, <3>1, <4>2
    <3>2. CASE ~failed
      <4>1. \A t \in 1..(task - 1) : statuses'[t] = "success"
        BY <1>3, <2>1, <3>2
      <4>2. task \in 1..task
        BY <1>1
      <4>. QED BY <1>2, <1>3, <1>5, <3>2, <4>1, <4>2
    <3>. QED BY <1>1, <3>1, <3>2
  <2>. QED BY <1>2, <1>3, <2>2 DEF FailedTrue
<1>7. SkippedAfterFailure'
  <2> SUFFICES ASSUME FailFast, NEW t \in 1..task, NEW u \in 1..task,
                      t < u, statuses'[t] # "success"
               PROVE  statuses'[u] = "skipped"
    BY <1>3 DEF SkippedAfterFailure
  <2>1. t \in 1..(task - 1)
    BY <1>1
  <2>2. CASE u = task
    <3>1. failed
      BY <1>1, <1>3, <2>1 DEF RunInv, FailedTrue
    <3>. QED BY <1>3, <2>2, <3>1
  <2>3. CASE u # task
    BY <1>1, <1>3, <1>5, <2>1, <2>3 DEF RunInv, SkippedAfterFailure
  <2>. QED BY <2>2, <2>3
<1>8. SuccessShown'
  <2> SUFFICES ASSUME NEW t \in 1..task, statuses'[t] = "success",
                      NEW c \in Cases
               PROVE  results'[t][c] = "success"
    BY <1>3 DEF SuccessShown
  <2>1. CASE t = task
    BY <1>3, <2>1
  <2>2. CASE t # task
    <3>1. t \in 1..(task - 1) /\ t \in Tasks
      BY <1>1, <2>2, PlanAssumption DEF Tasks
    <3>. QED BY <1>1, <1>3, <2>2, <3>1 DEF RunInv, SuccessShown
  <2>. QED BY <2>1, <2>2
<1>9. FinalStatus' /\ OutcomeTrue'
  BY <1>2 DEF FinalStatus, OutcomeTrue
<1>. QED BY <1>4, <1>6, <1>7, <1>8, <1>9 DEF RunInv

(***************************************************************************)
(* The invariant.                                                          *)
(***************************************************************************)
LEMMA InitRun == Init => RunInv
<1> SUFFICES ASSUME Init PROVE RunInv
  OBVIOUS
<1>1. RunShape
  <2>1. Nothing \in [Cases -> CaseStates]
    BY DEF Nothing, CaseStates
  <2>2. results \in [Tasks -> [Cases -> CaseStates]] /\ printed = results
    BY <2>1 DEF Init
  <2>3. disk \in [Cases -> CaseStates] /\ taskFile \in [Cases -> CaseStates]
    BY <2>1 DEF Init
  <2>4. task \in 1..(NumTasks + 1)
    BY PlanAssumption DEF Init
  <2>5. statuses \in Seq(TaskStatuses) /\ Len(statuses) = task - 1
    BY DEF Init
  <2>6. /\ stage \in Stages
        /\ interrupted \in BOOLEAN /\ failed \in BOOLEAN
    BY DEF Init, Stages
  <2>. QED BY <2>2, <2>3, <2>4, <2>5, <2>6 DEF RunShape
<1>2. statuses = <<>> /\ Len(statuses) = 0 /\ stage = "starting" /\ ~failed
  BY DEF Init
<1>. QED BY <1>1, <1>2
         DEF RunInv, OutcomeTrue, FailedTrue, SkippedAfterFailure,
             SuccessShown, FinalStatus

\* Steps that keep what the run has recorded of its finished tasks.
LEMMA KeepStep ==
  ASSUME RunInv, RunShape',
         UNCHANGED <<task, failed, statuses>>,
         \A t \in 1..(task - 1) : results'[t] = results[t],
         stage' \notin {"starting", "over", "aborted"} =>
           task <= NumTasks /\ (FailFast => ~failed),
         FinalStatus', OutcomeTrue'
  PROVE  RunInv'
<1>1. Len(statuses) = task - 1
  BY DEF RunInv, RunShape
<1>2. FailedTrue'
  BY DEF RunInv, FailedTrue
<1>3. SkippedAfterFailure'
  BY DEF RunInv, SkippedAfterFailure
<1>4. SuccessShown'
  BY <1>1 DEF RunInv, SuccessShown
<1>. QED BY <1>2, <1>3, <1>4 DEF RunInv

LEMMA NextRun == RunInv /\ [Next]_vars => RunInv'
<1> SUFFICES ASSUME RunInv, [Next]_vars PROVE RunInv'
  OBVIOUS
<1>0. RunShape /\ FailedTrue /\ FinalStatus /\ OutcomeTrue
  BY DEF RunInv
<1>1. CASE Interrupt
  <2>1. /\ UNCHANGED <<task, stage, failed, statuses, runStatus, outcome,
                       disk, taskFile, results, printed>>
        /\ interrupted' = TRUE /\ stage \notin {"over", "aborted"}
    BY <1>1 DEF Interrupt, workerVars, displayVars
  <2>2. OutcomeTrue'
    BY <1>0, <2>1 DEF OutcomeTrue
  <2>. QED BY <1>0, <2>1, <2>2, KeepStep DEF RunShape, FailedTrue, FinalStatus
<1>2. CASE StartTask
  <2>1. /\ UNCHANGED <<task, interrupted, failed, statuses, results, printed>>
        /\ task <= NumTasks /\ ~(failed /\ FailFast) /\ stage' = "running"
        /\ disk' = Nothing /\ taskFile' = Nothing
    BY <1>2 DEF StartTask, NewDisplay
  <2>2. RunShape'
    BY <1>0, <2>1 DEF RunShape, Nothing, CaseStates, Stages
  <2>. QED BY <2>1, <2>2, KeepStep DEF FinalStatus, OutcomeTrue
<1>3. CASE SkipTask
  <2>1. /\ task \in Tasks /\ EndTask("skipped")
        /\ Show([c \in Cases |-> "skipped"])
        /\ disk' = disk /\ taskFile' = taskFile
    BY <1>0, <1>3, PlanAssumption
    DEF SkipTask, RunShape, Tasks, workerVars
  <2>2. [c \in Cases |-> "skipped"] \in [Cases -> CaseStates]
    BY DEF CaseStates
  <2>3. /\ results' \in [Tasks -> [Cases -> CaseStates]]
        /\ printed' = results'
        /\ \A t \in Tasks : t # task => results'[t] = results[t]
    BY <1>0, <2>1, <2>2, ShowStep
  <2>. QED BY <2>1, <2>3, EndStep DEF TaskStatuses
<1>4. CASE Abort
  <2>1. /\ UNCHANGED <<task, interrupted, failed, statuses, runStatus, disk,
                       taskFile, results, printed>>
        /\ stage' = "aborted"
    BY <1>4 DEF Abort, displayVars
  <2>2. RunShape'
    BY <1>0, <2>1 DEF RunShape, Stages
  <2>. QED BY <2>1, <2>2, KeepStep DEF FinalStatus, OutcomeTrue
<1>5. CASE FinishRun
  <2>1. /\ UNCHANGED <<task, interrupted, failed, statuses, disk, taskFile,
                       results, printed>>
        /\ task > NumTasks /\ stage' = "over"
        /\ runStatus' = IF interrupted THEN "interrupted"
                        ELSE AggregateStatus({statuses[t] : t \in Tasks})
    BY <1>5 DEF FinishRun, workerVars, displayVars
  <2>2. task = NumTasks + 1
    BY <1>0, <2>1, PlanAssumption DEF RunShape
  <2>3. FinalStatus' /\ OutcomeTrue'
    BY <2>1, <2>2 DEF FinalStatus, OutcomeTrue
  <2>. QED BY <1>0, <2>1, <2>3, KeepStep DEF RunShape, Stages
<1>6. CASE Within
  <2>1. /\ UNCHANGED <<task, interrupted, failed, statuses, runStatus,
                       results, printed>>
        /\ stage \in {"running", "reading", "recovering"}
        /\ stage' \in {"running", "reading", "recovering", "reporting"}
        /\ disk' \in [Cases -> CaseStates]
        /\ taskFile' \in [Cases -> CaseStates]
    BY <1>0, <1>6, WithinStep
  <2>2. RunShape'
    BY <1>0, <2>1 DEF RunShape, Stages
  <2>3. FinalStatus'
    BY <2>1 DEF FinalStatus
  <2>4. OutcomeTrue'
    BY <1>0, <1>6, WithinOutcome
  <2>. QED BY <1>0, <2>1, <2>2, <2>3, <2>4, KeepStep DEF FailedTrue
<1>7. CASE PollResult
  <2>1. /\ UNCHANGED <<task, interrupted, failed, statuses, runStatus, disk,
                       taskFile>>
        /\ stage = "reading" /\ stage' = "running"
        /\ Show(taskFile)
    BY <1>7 DEF PollResult, workerVars
  <2>2. task \in Tasks /\ (FailFast => ~failed)
    BY <1>0, <2>1, PlanAssumption DEF RunShape, FailedTrue, Tasks
  <2>3. taskFile \in [Cases -> CaseStates]
    BY <1>0 DEF RunShape
  <2>4. /\ results' \in [Tasks -> [Cases -> CaseStates]]
        /\ printed' = results'
        /\ \A t \in Tasks : t # task => results'[t] = results[t]
    BY <1>0, <2>1, <2>2, <2>3, ShowStep
  <2>5. \A t \in 1..(task - 1) : t \in Tasks /\ t # task
    BY <2>2, PlanAssumption DEF Tasks
  <2>6. RunShape'
    BY <1>0, <2>1, <2>4 DEF RunShape, Stages
  <2>7. FinalStatus' /\ OutcomeTrue'
    BY <2>1 DEF FinalStatus, OutcomeTrue
  <2>8. task <= NumTasks
    BY <2>2, PlanAssumption DEF Tasks
  <2>. QED BY <2>1, <2>2, <2>4, <2>5, <2>6, <2>7, <2>8, KeepStep
<1>8. CASE ReportTask
  <2>1. /\ stage = "reporting" /\ Show(taskFile) /\ EndTask(outcome)
        /\ disk' = disk /\ taskFile' = taskFile
    BY <1>8 DEF ReportTask, workerVars
  <2>2. task \in Tasks /\ (FailFast => ~failed)
    BY <1>0, <2>1, PlanAssumption DEF RunShape, FailedTrue, Tasks
  <2>3. taskFile \in [Cases -> CaseStates]
    BY <1>0 DEF RunShape
  <2>4. /\ results' \in [Tasks -> [Cases -> CaseStates]]
        /\ printed' = results'
        /\ \A t \in Tasks : t # task => results'[t] = results[t]
        /\ \A c \in Cases : taskFile[c] # "none" =>
             results'[task][c] = taskFile[c]
    BY <1>0, <2>1, <2>2, <2>3, ShowStep
  <2>5. outcome \in TaskStatuses
    BY <1>0, <2>1 DEF OutcomeTrue
  <2>6. outcome = "success" => \A c \in Cases : results'[task][c] = "success"
    BY <1>0, <2>1, <2>4 DEF OutcomeTrue
  <2>. QED BY <2>1, <2>2, <2>4, <2>5, <2>6, EndStep
<1>9. CASE UNCHANGED vars
  <2>1. UNCHANGED <<task, stage, interrupted, failed, statuses, runStatus,
                    outcome, disk, taskFile, results, printed>>
    BY <1>9 DEF vars, runVars, workerVars, displayVars
  <2>2. OutcomeTrue'
    BY <1>0, <2>1 DEF OutcomeTrue
  <2>. QED BY <1>0, <2>1, <2>2, KeepStep DEF RunShape, FailedTrue, FinalStatus
<1>. QED BY <1>1, <1>2, <1>3, <1>4, <1>5, <1>6, <1>7, <1>8, <1>9
         DEF Next, Within, Over

\* With fail_fast no task runs after one that was not a success; an
\* interrupted run never says that it succeeded; and a run that says so ran
\* every task, and every Case of it, with success.
THEOREM ReportCorrect == Spec => []RunReportTrue
<1>1. RunInv => RunReportTrue
  <2> SUFFICES ASSUME RunInv PROVE RunReportTrue
    OBVIOUS
  <2>1. FailFast =>
          \A t, u \in 1..Len(statuses) :
            t < u /\ statuses[t] # "success" => statuses[u] = "skipped"
    BY DEF RunInv, SkippedAfterFailure
  <2>2. ASSUME stage = "over"
        PROVE  /\ Len(statuses) = NumTasks
               /\ interrupted => runStatus = "interrupted"
               /\ runStatus = "success" <=>
                    ~interrupted /\ \A t \in Tasks : statuses[t] = "success"
               /\ runStatus = "success" => \A t \in Tasks : \A c \in Cases :
                    printed[t][c] = "success"
    <3>1. /\ Len(statuses) = NumTasks /\ printed = results
          /\ interrupted \in BOOLEAN
      BY <2>2, PlanAssumption DEF RunInv, RunShape, FinalStatus
    <3>2. runStatus = IF interrupted THEN "interrupted"
                      ELSE AggregateStatus({statuses[t] : t \in Tasks})
      BY <2>2 DEF RunInv, FinalStatus
    <3>3. {statuses[t] : t \in Tasks} = {"success"}
            <=> \A t \in Tasks : statuses[t] = "success"
      BY SomeTask
    <3>4. runStatus = "success" <=>
            ~interrupted /\ \A t \in Tasks : statuses[t] = "success"
      BY <3>1, <3>2, <3>3, AggregateSuccess
    <3>5. ASSUME \A t \in Tasks : statuses[t] = "success"
          PROVE  \A t \in Tasks : \A c \in Cases : printed[t][c] = "success"
      BY <3>1, <3>5 DEF RunInv, SuccessShown, Tasks
    <3>. QED BY <3>1, <3>2, <3>4, <3>5
  <2>. QED BY <2>1, <2>2 DEF RunReportTrue
<1>. QED BY <1>1, InitRun, NextRun, PTL DEF Spec

(***************************************************************************)
(* The last word: the rows that a finished task reports are the states on  *)
(* disk, because the worker had passed every Case or recover_cases has.    *)
(***************************************************************************)
LEMMA InitWord == Init => WordInv
<1> SUFFICES ASSUME Init PROVE WordInv
  OBVIOUS
<1>1. stage = "starting" /\ statuses = <<>> /\ Len(statuses) = 0
  BY DEF Init
<1>. QED BY <1>1 DEF WordInv, RowsOfDisk, ReportIsDisk, WordsShown, InTask

LEMMA WithinWord ==
  ASSUME RunShape, WordInv, Within
  PROVE  WordInv'
<1>1. /\ UNCHANGED <<statuses, results>>
      /\ stage' \in {"running", "reading", "recovering", "reporting"}
  BY WithinStep
<1>2. WordsShown'
  BY <1>1 DEF WordInv, WordsShown
<1>3. /\ disk \in [Cases -> CaseStates] /\ taskFile \in [Cases -> CaseStates]
      /\ InTask => at \in 1..(NumCases + 1)
  BY DEF RunShape, WordInv, RowsOfDisk
<1>4. SUFFICES RowsOfDisk' /\ ReportIsDisk'
  BY <1>2 DEF WordInv
<1>5. CASE Emit \/ Exit \/ PollEvents
  <2>1. UNCHANGED <<at, disk, taskFile>> /\ InTask /\ InTask'
    BY <1>5 DEF Emit, Exit, PollEvents, InTask, runVars, workerVars
  <2>2. stage' # "reporting"
    BY <2>1 DEF InTask
  <2>. QED BY <1>1, <2>1, <2>2 DEF WordInv, RowsOfDisk, ReportIsDisk
<1>6. CASE Commit \/ Discard
  <2>1. /\ UNCHANGED <<at, taskFile, stage>> /\ InTask /\ at <= NumCases
        /\ \A c \in Cases : c # at => disk'[c] = disk[c]
    BY <1>3, <1>6 DEF Commit, Discard, runVars
  <2>2. at \in Int /\ \A c \in Cases : c < at => c # at
    BY <1>3, <2>1, PlanAssumption DEF Cases
  <2>3. stage' # "reporting"
    BY <2>1 DEF InTask
  <2>. QED BY <1>1, <2>1, <2>2, <2>3
           DEF WordInv, RowsOfDisk, ReportIsDisk, InTask
<1>7. CASE AppendRow
  <2>1. /\ UNCHANGED stage /\ InTask /\ at <= NumCases
        /\ at' = at + 1
        /\ \/ disk' = disk /\ disk[at] # "none"
           \/ disk' = [disk EXCEPT ![at] = "skipped"]
        /\ taskFile' = [taskFile EXCEPT ![at] = disk'[at]]
    BY <1>7 DEF AppendRow, Skipped, Finished, runVars
  <2>2. at \in 1..(NumCases + 1) /\ at \in Cases /\ at' \in 1..(NumCases + 1)
    BY <1>3, <2>1, PlanAssumption DEF Cases
  <2>3. ASSUME NEW c \in Cases, c < at'
        PROVE  disk'[c] # "none" /\ taskFile'[c] = disk'[c]
    <3>1. CASE c = at
      BY <1>3, <2>1, <2>2, <3>1
    <3>2. CASE c # at
      <4>1. c < at
        BY <2>1, <2>2, <2>3, <3>2 DEF Cases
      <4>2. taskFile'[c] = taskFile[c] /\ disk'[c] = disk[c]
        BY <1>3, <2>1, <3>2
      <4>. QED BY <2>1, <4>1, <4>2 DEF WordInv, RowsOfDisk
    <3>. QED BY <3>1, <3>2
  <2>4. stage' # "reporting"
    BY <2>1 DEF InTask
  <2>. QED BY <1>1, <2>1, <2>2, <2>3, <2>4
           DEF RowsOfDisk, ReportIsDisk, InTask
<1>8. CASE Reap
  <2>1. /\ UNCHANGED <<at, disk, taskFile>> /\ InTask
        /\ stage' \in {"recovering", "reporting"}
        /\ stage' = "reporting" => ~(at <= NumCases)
    BY <1>8 DEF Reap, InTask, workerVars
  <2>2. RowsOfDisk'
    BY <2>1 DEF RowsOfDisk, InTask
  <2>3. ASSUME stage' = "reporting", NEW c \in Cases
        PROVE  disk[c] # "none" /\ taskFile[c] = disk[c]
    <3>1. c < at
      BY <1>3, <2>1, <2>3, PlanAssumption DEF Cases
    <3>. QED BY <2>1, <3>1 DEF WordInv, RowsOfDisk
  <2>. QED BY <2>1, <2>2, <2>3 DEF ReportIsDisk
<1>9. CASE Recover
  <2>1. stage = "recovering" /\ stage' \in {"recovering", "reporting"}
    BY <1>9, <1>1 DEF Recover
  <2>2. RowsOfDisk'
    BY <2>1 DEF RowsOfDisk, InTask
  <2>3. CASE Unrecovered = {}
    <3>1. taskFile' = disk' /\ disk' \in Recovered
      BY <1>9, <2>3 DEF Recover
    <3>2. \A c \in Cases : disk'[c] # "none"
      <4>1. \A c \in Cases : disk[c] # "none"
        BY <2>3 DEF Unrecovered
      <4>. QED BY <1>3, <3>1, <4>1 DEF Recovered
    <3>. QED BY <2>2, <3>1, <3>2 DEF ReportIsDisk
  <2>4. CASE Unrecovered # {}
    <3>1. stage' = "recovering"
      BY <1>9, <2>1, <2>4 DEF Recover
    <3>. QED BY <2>2, <3>1 DEF ReportIsDisk
  <2>. QED BY <2>3, <2>4
<1>. QED BY <1>5, <1>6, <1>7, <1>8, <1>9 DEF Within

\* Steps that end no task and leave the files alone.
LEMMA StillWord ==
  ASSUME WordInv, UNCHANGED <<statuses, at, disk, taskFile>>,
         stage' = stage,
         \A t \in 1..Len(statuses) : results'[t] = results[t]
  PROVE  WordInv'
<1>1. RowsOfDisk'
  BY DEF WordInv, RowsOfDisk, InTask
<1>2. ReportIsDisk'
  BY DEF WordInv, ReportIsDisk
<1>3. WordsShown'
  BY DEF WordInv, WordsShown
<1>. QED BY <1>1, <1>2, <1>3 DEF WordInv

\* A task ends with all of its rows.
LEMMA EndWord ==
  ASSUME RunShape, WordInv, task \in Tasks, NEW status, EndTask(status),
         \A t \in Tasks : t # task => results'[t] = results[t],
         \A c \in Cases :
           /\ results'[task][c] # "none"
           /\ status # "skipped" => results'[task][c] = disk[c],
         disk' = disk
  PROVE  WordInv'
<1>1. /\ task \in Nat \ {0} /\ task <= NumTasks
      /\ statuses \in Seq(TaskStatuses) /\ Len(statuses) = task - 1
  BY PlanAssumption DEF RunShape, Tasks
<1>2. stage' = "starting" /\ statuses' = Append(statuses, status)
  BY DEF EndTask
<1>3. Len(statuses') = task /\ statuses'[task] = status
  BY <1>1, <1>2
<1>4. ASSUME NEW t \in 1..task, NEW c \in Cases
      PROVE  /\ results'[t][c] # "none"
             /\ t = task /\ statuses'[t] # "skipped" =>
                  results'[t][c] = disk'[c]
  <2>1. CASE t = task
    BY <1>3, <2>1
  <2>2. CASE t # task
    <3>1. t \in 1..Len(statuses) /\ t \in Tasks
      BY <1>1, <2>2, PlanAssumption DEF Tasks
    <3>. QED BY <2>2, <3>1 DEF WordInv, WordsShown
  <2>. QED BY <2>1, <2>2
<1>5. WordsShown'
  BY <1>3, <1>4 DEF WordsShown
<1>. QED BY <1>2, <1>5 DEF WordInv, RowsOfDisk, ReportIsDisk, InTask

LEMMA NextWord == RunInv /\ WordInv /\ [Next]_vars => WordInv'
<1> SUFFICES ASSUME RunInv, WordInv, [Next]_vars PROVE WordInv'
  OBVIOUS
<1>0. RunShape
  BY DEF RunInv
<1>1. CASE Interrupt
  <2>1. UNCHANGED <<stage, statuses, at, disk, taskFile, results>>
    BY <1>1 DEF Interrupt, workerVars, displayVars
  <2>. QED BY <2>1, StillWord
<1>2. CASE StartTask
  <2>1. /\ UNCHANGED <<statuses, results>> /\ stage' = "running" /\ at' = 1
    BY <1>2 DEF StartTask, NewDisplay
  <2>2. RowsOfDisk'
    BY <2>1, PlanAssumption DEF RowsOfDisk, Cases
  <2>3. WordsShown'
    BY <2>1 DEF WordInv, WordsShown
  <2>. QED BY <2>1, <2>2, <2>3 DEF WordInv, ReportIsDisk
<1>3. CASE SkipTask
  <2> DEFINE rows == [c \in Cases |-> "skipped"]
  <2>1. /\ task \in Tasks /\ EndTask("skipped") /\ Show(rows) /\ disk' = disk
    BY <1>0, <1>3, PlanAssumption DEF SkipTask, RunShape, Tasks, workerVars
  <2>2. rows \in [Cases -> CaseStates] /\ \A c \in Cases : rows[c] = "skipped"
    BY DEF CaseStates
  <2> HIDE DEF rows
  <2>3. /\ \A t \in Tasks : t # task => results'[t] = results[t]
        /\ \A c \in Cases : rows[c] # "none" => results'[task][c] = rows[c]
    BY <1>0, <2>1, <2>2, ShowStep
  <2>. QED BY <1>0, <2>1, <2>2, <2>3, EndWord
<1>4. CASE Abort
  <2>1. UNCHANGED <<statuses, results>> /\ stage' = "aborted"
    BY <1>4 DEF Abort, displayVars
  <2>. QED BY <2>1 DEF WordInv, RowsOfDisk, ReportIsDisk, WordsShown, InTask
<1>5. CASE FinishRun
  <2>1. UNCHANGED <<statuses, results>> /\ stage' = "over"
    BY <1>5 DEF FinishRun, displayVars
  <2>. QED BY <2>1 DEF WordInv, RowsOfDisk, ReportIsDisk, WordsShown, InTask
<1>6. CASE Within
  BY <1>0, <1>6, WithinWord
<1>7. CASE PollResult
  <2>1. /\ UNCHANGED <<statuses, at, disk, taskFile>>
        /\ stage = "reading" /\ stage' = "running" /\ Show(taskFile)
    BY <1>7 DEF PollResult, workerVars
  <2>2. task \in Tasks /\ taskFile \in [Cases -> CaseStates]
    BY <2>1, PlanAssumption DEF RunInv, RunShape, FailedTrue, Tasks
  <2>3. \A t \in Tasks : t # task => results'[t] = results[t]
    BY <1>0, <2>1, <2>2, ShowStep
  <2>4. \A t \in 1..Len(statuses) : t \in Tasks /\ t # task
    BY <1>0, <2>2, PlanAssumption DEF RunShape, Tasks
  <2>5. RowsOfDisk'
    BY <2>1 DEF WordInv, RowsOfDisk, InTask
  <2>6. WordsShown'
    BY <2>1, <2>3, <2>4 DEF WordInv, WordsShown
  <2>. QED BY <2>1, <2>5, <2>6 DEF WordInv, ReportIsDisk
<1>8. CASE ReportTask
  <2>1. /\ stage = "reporting" /\ Show(taskFile) /\ disk' = disk
        /\ \E status : EndTask(status)
    BY <1>8 DEF ReportTask, workerVars
  <2>2. task \in Tasks /\ taskFile \in [Cases -> CaseStates]
    BY <2>1, PlanAssumption DEF RunInv, RunShape, FailedTrue, Tasks
  <2>3. \A c \in Cases : disk[c] # "none" /\ taskFile[c] = disk[c]
    BY <2>1 DEF WordInv, ReportIsDisk
  <2>4. /\ \A t \in Tasks : t # task => results'[t] = results[t]
        /\ \A c \in Cases : taskFile[c] # "none" =>
             results'[task][c] = taskFile[c]
    BY <1>0, <2>1, <2>2, ShowStep
  <2>. QED BY <1>0, <2>1, <2>2, <2>3, <2>4, EndWord
<1>9. CASE UNCHANGED vars
  <2>1. UNCHANGED <<stage, statuses, at, disk, taskFile, results>>
    BY <1>9 DEF vars, runVars, workerVars, displayVars
  <2>. QED BY <2>1, StillWord
<1>. QED BY <1>1, <1>2, <1>3, <1>4, <1>5, <1>6, <1>7, <1>8, <1>9
         DEF Next, Within, Over

\* When a task is over, the last line printed for each of its Cases shows the
\* status the Case has in the report and, if the task ran, on disk.
THEOREM LastWordCorrect == Spec => []LastWordTrue
<1>1. RunInv /\ WordInv => LastWordTrue
  BY DEF RunInv, RunShape, WordInv, WordsShown, LastWordTrue
<1>. QED BY <1>1, InitRun, NextRun, InitWord, NextWord, PTL DEF Spec

-----------------------------------------------------------------------------
(* Counting: sets of places that correspond have as many members *)

LEMMA Corresponds ==
  ASSUME NEW S, NEW T, IsFiniteSet(S), S \subseteq Int, T \subseteq Int,
         NEW d \in Int,
         \A p \in S : d + p \in T, \A q \in T : q - d \in S
  PROVE  IsFiniteSet(T) /\ Cardinality(T) = Cardinality(S)
<1> DEFINE f == [p \in S |-> d + p]
<1>1. f \in [S -> T]
  OBVIOUS
<1>2. \A a, b \in S : f[a] = f[b] => a = b
  OBVIOUS
<1>3. \A t \in T : \E s \in S : f[s] = t
  <2>1. ASSUME NEW t \in T PROVE f[t - d] = t
    OBVIOUS
  <2>. QED BY <2>1
<1> HIDE DEF f
<1>4. f \in Bijection(S, T)
  BY <1>1, <1>2, <1>3 DEF Bijection, Injection, Surjection, IsInjective
<1>5. ExistsBijection(S, T)
  BY <1>4 DEF ExistsBijection
<1>. QED BY <1>5, FS_Bijection

LEMMA Fits ==
  ASSUME NEW S, NEW T, IsFiniteSet(T), NEW f \in [S -> T],
         \A a, b \in S : f[a] = f[b] => a = b
  PROVE  IsFiniteSet(S) /\ Cardinality(S) <= Cardinality(T)
<1>1. f \in Injection(S, T)
  BY DEF Injection, IsInjective
<1>. QED BY <1>1, FS_Injection

\* S falls into the two parts A and B.
Divides(S, A, B) == S = A \cup B /\ A \cap B = {}

LEMMA Parts ==
  ASSUME NEW S, IsFiniteSet(S), NEW A, NEW B, Divides(S, A, B)
  PROVE  /\ IsFiniteSet(A) /\ IsFiniteSet(B)
         /\ Cardinality(A) \in Nat /\ Cardinality(B) \in Nat
         /\ Cardinality(S) = Cardinality(A) + Cardinality(B)
<1>0. S = A \cup B /\ A \cap B = {}
  BY DEF Divides
<1>1. IsFiniteSet(A) /\ IsFiniteSet(B)
  BY <1>0, FS_Subset
<1>2. Cardinality(A) \in Nat /\ Cardinality(B) \in Nat
  BY <1>1, FS_CardinalityType
<1>3. Cardinality(A \cap B) = 0
  BY <1>0, FS_EmptySet
<1>4. Cardinality(A \cup B) =
        Cardinality(A) + Cardinality(B) - Cardinality(A \cap B)
  BY <1>1, FS_Union
<1>. QED BY <1>0, <1>1, <1>2, <1>3, <1>4

-----------------------------------------------------------------------------
(* Lines *)

LEMMA Sizes ==
  \A c \in Cases : Size(c) \in Nat \ {0}
  BY LimitsAssumption DEF Size

LEMMA EndsAre ==
  ASSUME NEW S, NEW bytes \in Seq(S)
  PROVE  /\ IsFiniteSet(Ends(bytes))
         /\ Ends(bytes) \subseteq 1..Len(bytes)
         /\ Len(bytes) \in Nat /\ DOMAIN bytes = 1..Len(bytes)
<1>1. Len(bytes) \in Nat /\ DOMAIN bytes = 1..Len(bytes)
  BY LenProperties
<1>2. Ends(bytes) \subseteq 1..Len(bytes)
  BY <1>1 DEF Ends
<1>3. IsFiniteSet(1..Len(bytes))
  BY <1>1, FS_Interval
<1>. QED BY <1>1, <1>2, <1>3, FS_Subset

LEMMA BeginIs ==
  ASSUME NEW S, NEW bytes \in Seq(S), NEW p \in Nat \ {0}
  PROVE  /\ Begin(bytes, p) \in 0..Len(bytes) /\ Begin(bytes, p) < p
         /\ Begin(bytes, p) = 0 \/ Begin(bytes, p) \in Ends(bytes)
         /\ \A q \in Ends(bytes) : q < p => q <= Begin(bytes, p)
<1> DEFINE M == {0} \cup {q \in Ends(bytes) : q < p}
<1>1. /\ IsFiniteSet(Ends(bytes)) /\ Ends(bytes) \subseteq 1..Len(bytes)
      /\ Len(bytes) \in Nat
  BY EndsAre
<1>2. IsFiniteSet({q \in Ends(bytes) : q < p})
  BY <1>1, FS_Subset
<1>3. IsFiniteSet({q \in Ends(bytes) : q < p} \cup {0})
  BY <1>2, FS_AddElement
<1>4. {q \in Ends(bytes) : q < p} \cup {0} = M
  OBVIOUS
<1>5. M \subseteq Int /\ M # {}
  BY <1>1
<1>6. Begin(bytes, p) = Max(M)
  BY DEF Begin
<1>7. /\ \A q \in Ends(bytes) : q < p => q \in M
      /\ \A q \in M : q = 0 \/ (q \in Ends(bytes) /\ q < p)
  OBVIOUS
<1> HIDE DEF M
<1>8. Max(M) \in M /\ \A y \in M : y <= Max(M)
  BY <1>3, <1>4, <1>5, MaxIsLargest
<1>. QED BY <1>1, <1>6, <1>7, <1>8

LEMMA BeginUnique ==
  ASSUME NEW S, NEW bytes \in Seq(S), NEW p \in Nat \ {0}, NEW b \in Nat,
         b < p, b = 0 \/ b \in Ends(bytes),
         \A q \in Ends(bytes) : q < p => q <= b
  PROVE  Begin(bytes, p) = b
<1>1. /\ Begin(bytes, p) \in 0..Len(bytes) /\ Begin(bytes, p) < p
      /\ Begin(bytes, p) = 0 \/ Begin(bytes, p) \in Ends(bytes)
      /\ \A q \in Ends(bytes) : q < p => q <= Begin(bytes, p)
  BY BeginIs
<1>2. Begin(bytes, p) <= b /\ b <= Begin(bytes, p)
  BY <1>1
<1>3. Len(bytes) \in Nat
  BY EndsAre
<1>. QED BY <1>1, <1>2, <1>3

LEMMA PieceIs ==
  ASSUME NEW S, NEW bytes \in Seq(S), NEW m \in 1..(Len(bytes) + 1),
         NEW n \in (m - 1)..Len(bytes)
  PROVE  /\ SubSeq(bytes, m, n) \in Seq(S)
         /\ Len(SubSeq(bytes, m, n)) = n - m + 1
         /\ \A i \in 1..(n - m + 1) : SubSeq(bytes, m, n)[i] = bytes[m + i - 1]
<1>1. Len(bytes) \in Nat /\ bytes \in [1..Len(bytes) -> S]
  BY LenProperties
<1>2. m \in Int /\ n \in Int /\ \A i \in m..n : bytes[i] \in S
  BY <1>1
<1>3. /\ SubSeq(bytes, m, n) \in Seq(S)
      /\ Len(SubSeq(bytes, m, n)) = IF m <= n THEN n - m + 1 ELSE 0
      /\ \A i \in 1..n - m + 1 : SubSeq(bytes, m, n)[i] = bytes[m + i - 1]
  BY <1>2, SubSeqProperties
<1>. QED BY <1>1, <1>2, <1>3

LEMMA LineIs ==
  ASSUME NEW S, NEW bytes \in Seq(S), NEW p \in 1..(Len(bytes) + 1)
  PROVE  /\ Line(bytes, p) \in Seq(S)
         /\ Len(Line(bytes, p)) = p - 1 - Begin(bytes, p)
         /\ \A i \in 1..(p - 1 - Begin(bytes, p)) :
              Line(bytes, p)[i] = bytes[Begin(bytes, p) + i]
<1> DEFINE b == Begin(bytes, p)
<1>1. b \in 0..Len(bytes) /\ b < p /\ Len(bytes) \in Nat
  BY BeginIs, EndsAre
<1> HIDE DEF b
<1>2. b + 1 \in 1..(Len(bytes) + 1) /\ p - 1 \in ((b + 1) - 1)..Len(bytes)
  BY <1>1
<1>3. /\ SubSeq(bytes, b + 1, p - 1) \in Seq(S)
      /\ Len(SubSeq(bytes, b + 1, p - 1)) = p - 1 - (b + 1) + 1
      /\ \A i \in 1..(p - 1 - (b + 1) + 1) :
           SubSeq(bytes, b + 1, p - 1)[i] = bytes[b + 1 + i - 1]
  BY <1>2, PieceIs
<1>4. p - 1 - (b + 1) + 1 = p - 1 - b
  BY <1>1
<1>5. \A i \in 1..(p - 1 - b) : b + 1 + i - 1 = b + i
  BY <1>1
<1>. QED BY <1>3, <1>4, <1>5 DEF Line, b

-----------------------------------------------------------------------------
(* Windows: a sequence that is found in another one *)

Window(a, b, d) ==
  /\ d \in Nat /\ d + Len(b) <= Len(a)
  /\ \A i \in 1..Len(b) : b[i] = a[d + i]

LEMMA WindowEnds ==
  ASSUME NEW S, NEW a \in Seq(S), NEW b \in Seq(S), NEW d, Window(a, b, d)
  PROVE  /\ \A p \in 1..Len(b) : p \in Ends(b) <=> d + p \in Ends(a)
         /\ Len(a) \in Nat /\ Len(b) \in Nat /\ d \in Nat
<1>1. /\ Len(a) \in Nat /\ DOMAIN a = 1..Len(a)
      /\ Len(b) \in Nat /\ DOMAIN b = 1..Len(b)
  BY EndsAre
<1>2. d \in Nat /\ d + Len(b) <= Len(a)
  BY DEF Window
<1>3. ASSUME NEW p \in 1..Len(b)
      PROVE  p \in Ends(b) <=> d + p \in Ends(a)
  <2>1. d + p \in 1..Len(a)
    BY <1>1, <1>2
  <2>2. b[p] = a[d + p]
    BY DEF Window
  <2>. QED BY <1>1, <2>1, <2>2 DEF Ends
<1>. QED BY <1>1, <1>2, <1>3

\* SubSeq by another name: the provers rewrite SubSeq before they look for
\* instances of a lemma about it.
Piece(s, m, n) == SubSeq(s, m, n)

LEMMA WindowPiece ==
  ASSUME NEW S, NEW a \in Seq(S), NEW b \in Seq(S), NEW d, Window(a, b, d),
         NEW m \in 1..(Len(b) + 1), NEW n \in (m - 1)..Len(b)
  PROVE  Piece(b, m, n) = Piece(a, d + m, d + n)
<1>1. /\ Len(a) \in Nat /\ Len(b) \in Nat /\ d \in Nat
      /\ d + Len(b) <= Len(a)
  BY WindowEnds DEF Window
<1> DEFINE x == d + m
           y == d + n
<1>2. x \in 1..(Len(a) + 1) /\ y \in (x - 1)..Len(a)
  BY <1>1
<1>3. y - x + 1 = n - m + 1
  BY <1>1
<1>4. \A i \in 1..(n - m + 1) : b[m + i - 1] = a[x + i - 1]
  <2>1. ASSUME NEW i \in 1..(n - m + 1)
        PROVE  m + i - 1 \in 1..Len(b) /\ d + (m + i - 1) = x + i - 1
    BY <1>1
  <2>. QED BY <2>1 DEF Window
<1> HIDE DEF x, y
<1>5. /\ SubSeq(a, x, y) \in Seq(S)
      /\ Len(SubSeq(a, x, y)) = y - x + 1
      /\ \A i \in 1..(y - x + 1) : SubSeq(a, x, y)[i] = a[x + i - 1]
  BY <1>2, PieceIs
<1>6. /\ SubSeq(b, m, n) \in Seq(S)
      /\ Len(SubSeq(b, m, n)) = n - m + 1
      /\ \A i \in 1..(n - m + 1) : SubSeq(b, m, n)[i] = b[m + i - 1]
  BY PieceIs
<1>7. SubSeq(b, m, n) = SubSeq(a, x, y)
  <2>1. Len(SubSeq(b, m, n)) = Len(SubSeq(a, x, y))
    BY <1>3, <1>5, <1>6
  <2>2. \A i \in 1..Len(SubSeq(b, m, n)) :
          SubSeq(b, m, n)[i] = SubSeq(a, x, y)[i]
    BY <1>3, <1>4, <1>5, <1>6
  <2>. QED BY <1>5, <1>6, <2>1, <2>2, SeqEqual
<1>. QED BY <1>7 DEF x, y, Piece

\* A line that begins in the window is the same line.
LEMMA WindowLine ==
  ASSUME NEW S, NEW a \in Seq(S), NEW b \in Seq(S), NEW d, Window(a, b, d),
         NEW p \in 1..(Len(b) + 1), Begin(a, d + p) >= d
  PROVE  Begin(a, d + p) = d + Begin(b, p) /\ Line(b, p) = Line(a, d + p)
<1>1. /\ \A q \in 1..Len(b) : q \in Ends(b) <=> d + q \in Ends(a)
      /\ Len(a) \in Nat /\ Len(b) \in Nat /\ d \in Nat
      /\ Ends(b) \subseteq 1..Len(b)
  BY WindowEnds, EndsAre
<1> DEFINE e == Begin(a, d + p)
<1>2. /\ e \in Nat /\ e < d + p /\ e >= d
      /\ e = 0 \/ e \in Ends(a)
      /\ \A q \in Ends(a) : q < d + p => q <= e
  BY <1>1, BeginIs
<1> HIDE DEF e
<1>3. Begin(b, p) = e - d
  <2>1. e - d \in Nat /\ e - d < p /\ p \in Nat \ {0}
    BY <1>1, <1>2
  <2>2. e - d = 0 \/ e - d \in Ends(b)
    <3>1. CASE e = d
      BY <1>1, <3>1
    <3>2. CASE e # d
      <4>1. e \in Ends(a) /\ e - d \in 1..Len(b) /\ d + (e - d) = e
        BY <1>1, <1>2, <3>2
      <4>. QED BY <1>1, <4>1
    <3>. QED BY <3>1, <3>2
  <2>3. \A q \in Ends(b) : q < p => q <= e - d
    <3>1. ASSUME NEW q \in Ends(b), q < p PROVE q <= e - d
      <4>1. q \in 1..Len(b) /\ d + q \in Ends(a)
        BY <1>1
      <4>2. d + q <= e
        BY <1>1, <1>2, <3>1, <4>1
      <4>. QED BY <1>1, <1>2, <4>1, <4>2
    <3>. QED BY <3>1
  <2>. QED BY <2>1, <2>2, <2>3, BeginUnique
<1>4. Line(b, p) = Line(a, d + p)
  <2> DEFINE m == Begin(b, p) + 1
             n == p - 1
  <2>1. m \in 1..(Len(b) + 1) /\ n \in (m - 1)..Len(b)
    BY <1>1, <1>2, <1>3
  <2>2. d + m = e + 1 /\ d + n = (d + p) - 1
    BY <1>1, <1>2, <1>3
  <2>3. Line(b, p) = SubSeq(b, m, n)
    BY DEF Line
  <2> HIDE DEF m, n
  <2>4. SubSeq(b, m, n) = SubSeq(a, d + m, d + n)
    <3>1. Piece(b, m, n) = Piece(a, d + m, d + n)
      BY <2>1, WindowPiece
    <3>. QED BY <3>1 DEF Piece
  <2>5. Line(a, d + p) = SubSeq(a, e + 1, (d + p) - 1)
    BY DEF Line, e
  <2>. QED BY ONLY <2>2, <2>3, <2>4, <2>5
<1>. QED BY <1>1, <1>2, <1>3, <1>4 DEF e

\* What is read at the end of what is pending.
Buffer(bytes, pending, f, o, to) == bytes = pending \o SubSeq(f, o + 1, to)

Joined(bytes, pending, f, o, to) ==
  /\ Len(bytes) = Len(pending) + (to - o)
  /\ Len(pending) \in Nat
  /\ \A i \in 1..Len(pending) : bytes[i] = pending[i]
  /\ \A i \in 1..(to - o) : bytes[Len(pending) + i] = f[o + i]

LEMMA BufferIs ==
  ASSUME NEW S, NEW f \in Seq(S), NEW pending \in Seq(S),
         NEW o \in 0..Len(f), NEW to \in o..Len(f),
         NEW bytes, Buffer(bytes, pending, f, o, to)
  PROVE  bytes \in Seq(S) /\ Joined(bytes, pending, f, o, to)
<1> DEFINE x == SubSeq(f, o + 1, to)
           k == Len(pending)
           both == pending \o x
<1>1. Len(f) \in Nat /\ k \in Nat
  BY EndsAre
<1>2. /\ x \in Seq(S) /\ Len(x) = to - o
      /\ \A i \in 1..(to - o) : x[i] = f[o + i]
  <2> DEFINE m == o + 1
  <2>1. m \in 1..(Len(f) + 1) /\ to \in (m - 1)..Len(f)
    BY <1>1
  <2>2. to - m + 1 = to - o /\ \A i \in 1..(to - o) : m + i - 1 = o + i
    BY <1>1
  <2> HIDE DEF m
  <2>3. /\ SubSeq(f, m, to) \in Seq(S)
        /\ Len(SubSeq(f, m, to)) = to - m + 1
        /\ \A i \in 1..(to - m + 1) : SubSeq(f, m, to)[i] = f[m + i - 1]
    BY <2>1, PieceIs
  <2>. QED BY <2>2, <2>3 DEF m
<1>3. bytes = both
  BY DEF Buffer
<1> HIDE DEF x
<1>4. /\ both \in Seq(S) /\ Len(both) = k + Len(x)
      /\ \A i \in 1..(k + Len(x)) :
           both[i] = IF i <= k THEN pending[i] ELSE x[i - k]
  BY <1>2, ConcatProperties
<1> HIDE DEF both
<1>5. \A i \in 1..k : both[i] = pending[i]
  <2>0. k \in Nat /\ Len(x) \in Nat
    BY <1>1, <1>2
  <2>1. ASSUME NEW i \in 1..k PROVE i \in 1..(k + Len(x)) /\ i <= k
    <3> HIDE DEF k
    <3>. QED BY ONLY <2>0, i \in 1..k
  <2>. QED BY ONLY <1>4, <2>1
<1>6. \A i \in 1..(to - o) : both[k + i] = f[o + i]
  <2>0. k \in Nat /\ o \in Int /\ to \in Int /\ Len(x) = to - o
    BY <1>1, <1>2
  <2>1. ASSUME NEW i \in 1..(to - o)
        PROVE  k + i \in 1..(k + Len(x)) /\ ~(k + i <= k) /\ k + i - k = i
    <3> HIDE DEF k
    <3>. QED BY ONLY <2>0, i \in 1..(to - o)
  <2>. QED BY <1>2, <1>4, <2>1
<1>. QED BY <1>1, <1>2, <1>3, <1>4, <1>5, <1>6 DEF Joined

-----------------------------------------------------------------------------
(* A read *)

LEMMA BegunIs ==
  ASSUME NEW S, NEW bytes \in Seq(S), NEW c, NEW k
  PROVE  /\ IsFiniteSet(Begun(c, bytes, k))
         /\ Begun(c, bytes, k) \subseteq 1..Len(bytes)
         /\ Cardinality(Begun(c, bytes, k)) \in Nat
<1>1. Begun(c, bytes, k) \subseteq 1..Len(bytes) /\ Len(bytes) \in Nat
  BY EndsAre DEF Begun
<1>2. IsFiniteSet(1..Len(bytes))
  BY <1>1, FS_Interval
<1>3. IsFiniteSet(Begun(c, bytes, k))
  BY <1>1, <1>2, FS_Subset
<1>. QED BY <1>1, <1>3, FS_CardinalityType

\* One read of the file: `to` is where it ends, t the tail after it.
Reads(from, to, bytes, ends, t) ==
  /\ to \in from.offset..Len(file)
  /\ Buffer(bytes, from.pending, file, from.offset, to)
  /\ ends = {p \in Ends(bytes) :
               from.dropping => \E q \in Ends(bytes) : q < p}
  /\ t \in Tails /\ t.identity = from.identity /\ t.offset = to
  /\ t.pending = IF Len(Rest(bytes)) > LineLimit THEN <<>> ELSE Rest(bytes)
  /\ t.dropping <=> \/ Len(Rest(bytes)) > LineLimit
                    \/ from.dropping /\ Ends(bytes) = {}

LEMMA RestIs ==
  ASSUME NEW S, NEW bytes \in Seq(S)
  PROVE  LET lo == Begin(bytes, Len(bytes) + 1)
         IN  /\ lo \in 0..Len(bytes)
             /\ Rest(bytes) \in Seq(S)
             /\ Len(Rest(bytes)) = Len(bytes) - lo
             /\ \A i \in 1..(Len(bytes) - lo) : Rest(bytes)[i] = bytes[lo + i]
             /\ Rest(bytes) = Piece(bytes, lo + 1, Len(bytes))
             /\ \A q \in Ends(bytes) : q <= lo
             /\ lo = 0 \/ lo \in Ends(bytes)
<1> DEFINE n == Len(bytes)
           p == n + 1
           lo == Begin(bytes, p)
<1>1. n \in Nat /\ p \in 1..(n + 1) /\ p - 1 = n /\ p \in Nat \ {0}
  BY EndsAre
<1> HIDE DEF p
<1>2. /\ Line(bytes, p) \in Seq(S)
      /\ Len(Line(bytes, p)) = p - 1 - lo
      /\ \A i \in 1..(p - 1 - lo) : Line(bytes, p)[i] = bytes[lo + i]
  BY <1>1, LineIs
<1>3. /\ lo \in 0..n /\ lo < p
      /\ lo = 0 \/ lo \in Ends(bytes)
      /\ \A q \in Ends(bytes) : q < p => q <= lo
  BY <1>1, BeginIs
<1>4. \A q \in Ends(bytes) : q < p
  BY <1>1, EndsAre
<1>5. Line(bytes, p) = Piece(bytes, lo + 1, n)
  BY <1>1 DEF Line, Piece
<1>6. Rest(bytes) = Line(bytes, p)
  BY DEF Rest, p
<1>. QED BY <1>1, <1>2, <1>3, <1>4, <1>5, <1>6 DEF p

LEMMA ReadIs ==
  ASSUME file \in Seq(Units), NEW from \in Tails, from.offset <= Len(file)
  PROVE  LET read == ReadFrom(from)
         IN  \E to : Reads(from, to, read.bytes, read.ends, read.tail)
<1> DEFINE to == IF from.offset + ReadLimit < Len(file)
                 THEN from.offset + ReadLimit ELSE Len(file)
           bytes == from.pending \o SubSeq(file, from.offset + 1, to)
           over == Len(Rest(bytes)) > LineLimit
           t == [from EXCEPT
                   !.offset = to,
                   !.pending = IF over THEN <<>> ELSE Rest(bytes),
                   !.dropping = over \/ (@ /\ Ends(bytes) = {})]
           ends == {p \in Ends(bytes) :
                      from.dropping => \E q \in Ends(bytes) : q < p}
           read == ReadFrom(from)
<1>1. read.bytes = bytes /\ read.ends = ends /\ read.tail = t
  BY DEF ReadFrom
<1>2. /\ Len(file) \in Nat /\ from.offset \in Nat
      /\ from.pending \in Seq(Units) /\ from.dropping \in BOOLEAN
      /\ ReadLimit \in Nat
  BY EndsAre, LimitsAssumption DEF Tails
<1>3. to \in from.offset..Len(file) /\ to \in Nat
  BY <1>2
<1> HIDE DEF to
<1>a. /\ Buffer(bytes, from.pending, file, from.offset, to)
      /\ from.offset \in 0..Len(file)
  BY <1>2 DEF Buffer
<1> HIDE DEF bytes
<1>4. bytes \in Seq(Units)
  BY <1>2, <1>3, <1>a, BufferIs
<1>5. Rest(bytes) \in Seq(Units)
  BY <1>4, RestIs
<1>6. /\ (IF over THEN <<>> ELSE Rest(bytes)) \in Seq(Units)
      /\ (over \/ (from.dropping /\ Ends(bytes) = {})) \in BOOLEAN
  BY <1>5
<1> HIDE DEF over
<1>7. t \in Tails
  BY <1>3, <1>6 DEF Tails
<1>8. /\ t.identity = from.identity /\ t.offset = to
      /\ t.pending = IF over THEN <<>> ELSE Rest(bytes)
      /\ t.dropping <=> over \/ (from.dropping /\ Ends(bytes) = {})
  BY DEF Tails
<1> HIDE DEF t, ends, read
<1>9. Reads(from, to, bytes, ends, t)
  BY <1>3, <1>7, <1>8, <1>a DEF Reads, ends, over
<1>. QED BY <1>1, <1>9 DEF read

\* No record is read twice.
LEMMA ReadsOnce ==
  ASSUME file \in Seq(Units), NEW from \in Tails, from.offset <= Len(file),
         NEW to, NEW bytes, NEW ends, NEW t, Reads(from, to, bytes, ends, t),
         NEW c \in Cases
  PROVE  /\ EventsOf(c, bytes, ends) \in Nat
         /\ EventsOf(c, bytes, ends) + Cardinality(Begun(c, t.pending, 0))
              + Cardinality(Begun(c, file, to))
            <= Cardinality(Begun(c, from.pending, 0))
                 + Cardinality(Begun(c, file, from.offset))
<1> DEFINE o == from.offset
           k == Len(from.pending)
           n == Len(bytes)
           lo == Begin(bytes, n + 1)
           B == {p \in ends : Counts(c, Line(bytes, p))}
           X == Begun(c, bytes, 0)
           X1 == {p \in X : p <= k}
           X2 == {p \in X : p > k}
           X3 == {p \in X : p <= lo}
           X4 == {p \in X : p > lo}
           Y == {p \in Begun(c, file, o) : p <= to}
<1>1. /\ o \in 0..Len(file) /\ to \in o..Len(file) /\ Len(file) \in Nat
      /\ file \in Seq(Units) /\ from.pending \in Seq(Units)
      /\ DOMAIN from.pending = 1..k /\ DOMAIN file = 1..Len(file)
  BY EndsAre DEF Tails, Reads
<1>2. /\ bytes \in Seq(Units) /\ n = k + (to - o) /\ k \in Nat
      /\ \A i \in 1..k : bytes[i] = from.pending[i]
      /\ \A i \in 1..(to - o) : bytes[k + i] = file[o + i]
  <2>1. Buffer(bytes, from.pending, file, o, to)
    BY DEF Reads
  <2> HIDE DEF o, k, n
  <2>2. bytes \in Seq(Units) /\ Joined(bytes, from.pending, file, o, to)
    BY <1>1, <2>1, BufferIs
  <2>3. Len(bytes) = n /\ Len(from.pending) = k
    BY DEF k, n
  <2>. QED BY <2>2, <2>3 DEF Joined
<1>3. n \in Nat /\ DOMAIN bytes = 1..n /\ Ends(bytes) \subseteq 1..n
  BY <1>2, EndsAre
<1>4. /\ lo \in 0..n
      /\ Rest(bytes) \in Seq(Units) /\ Len(Rest(bytes)) = n - lo
      /\ \A i \in 1..(n - lo) : Rest(bytes)[i] = bytes[lo + i]
      /\ \A q \in Ends(bytes) : q <= lo
  BY <1>2, RestIs
<1>5. ends \subseteq Ends(bytes)
  BY DEF Reads
<1> HIDE DEF k, n, lo
<1>6. IsFiniteSet(X) /\ X \subseteq 1..n
  BY <1>2, BegunIs DEF n
<1>7. /\ Cardinality(X1) \in Nat /\ Cardinality(X2) \in Nat
      /\ IsFiniteSet(X2)
      /\ Cardinality(X) = Cardinality(X1) + Cardinality(X2)
  <2> HIDE DEF X
  <2>1. Divides(X, X1, X2)
    <3>1. \A p \in X : p \in Int
      BY <1>3, <1>6
    <3>2. k \in Int
      BY <1>2
    <3>. QED BY ONLY <3>1, <3>2 DEF Divides
  <2>2. IsFiniteSet(X)
    BY <1>6
  <2> HIDE DEF X1, X2
  <2>. QED BY ONLY <2>1, <2>2, Parts
<1>8. /\ Cardinality(X3) \in Nat /\ Cardinality(X4) \in Nat
      /\ IsFiniteSet(X3) /\ IsFiniteSet(X4)
      /\ Cardinality(X) = Cardinality(X3) + Cardinality(X4)
  <2> HIDE DEF X
  <2>1. Divides(X, X3, X4)
    <3>1. \A p \in X : p \in Int
      BY <1>3, <1>6
    <3>2. lo \in Int
      BY <1>4
    <3>. QED BY ONLY <3>1, <3>2 DEF Divides
  <2>2. IsFiniteSet(X)
    BY <1>6
  <2> HIDE DEF X3, X4
  <2>. QED BY ONLY <2>1, <2>2, Parts
<1>9. X1 = Begun(c, from.pending, 0)
  <2>1. \A p : p \in 1..n /\ p <= k <=> p \in 1..k
    BY ONLY <1>1, <1>2
  <2>. QED BY <1>1, <1>2, <1>3, <2>1 DEF Begun
<1>10. Cardinality(Y) = Cardinality(X2)
  <2> DEFINE d == o - k
  <2>1. d \in Int /\ X2 \subseteq Int /\ Y \subseteq Int
    BY <1>1, <1>2, <1>3, <1>6 DEF Begun
  <2>a. /\ o \in Nat /\ to \in Nat /\ k \in Nat /\ Len(file) \in Nat
        /\ n = k + (to - o) /\ o <= to /\ to <= Len(file)
    BY <1>1, <1>2
  <2>2. ASSUME NEW p \in X2 PROVE d + p \in Y
    <3>1. p \in 1..n /\ p > k /\ bytes[p][1] = c /\ bytes[p][3] = 1
      BY <1>3 DEF Begun
    <3>a. p \in Int /\ p > k /\ p <= n
      BY <1>3, <3>1
    <3>2. /\ p - k \in 1..(to - o) /\ k + (p - k) = p /\ o + (p - k) = d + p
          /\ d + p \in 1..Len(file) /\ d + p > o /\ d + p <= to
      <4>1. /\ p - k \in 1..(to - o) /\ k + (p - k) = p
            /\ o + (p - k) = d + p
        BY ONLY <2>a, <3>a
      <4>2. d + p \in Int /\ d + p > o /\ d + p <= to
        BY ONLY <2>a, <3>a
      <4> HIDE DEF d
      <4>3. d + p \in 1..Len(file)
        BY ONLY <2>a, <4>2
      <4>. QED BY ONLY <4>1, <4>2, <4>3
    <3>3. bytes[p] = file[d + p]
      BY <1>2, <3>2
    <3> HIDE DEF d
    <3>. QED BY <1>1, <3>1, <3>2, <3>3 DEF Begun
  <2>3. ASSUME NEW q \in Y PROVE q - d \in X2
    <3>1. q \in 1..Len(file) /\ q > o /\ q <= to
          /\ file[q][1] = c /\ file[q][3] = 1
      BY <1>1 DEF Begun
    <3>a. q \in Int /\ q > o /\ q <= to
      BY <3>1
    <3>2. /\ q - o \in 1..(to - o) /\ k + (q - o) = q - d
          /\ o + (q - o) = q
          /\ q - d \in 1..n /\ q - d > k /\ q - d > 0
      BY ONLY <2>a, <3>a
    <3>3. bytes[q - d] = file[q]
      BY <1>2, <3>2
    <3> HIDE DEF d
    <3>. QED BY <1>3, <3>1, <3>2, <3>3 DEF Begun
  <2> HIDE DEF d, X2, Y
  <2>. QED BY <1>7, <2>1, <2>2, <2>3, Corresponds
<1>11. /\ Cardinality(Y) \in Nat /\ Cardinality(Begun(c, file, to)) \in Nat
       /\ Cardinality(Begun(c, file, o)) =
            Cardinality(Y) + Cardinality(Begun(c, file, to))
  <2>1. Begun(c, file, o) = Y \cup Begun(c, file, to)
    BY <1>1 DEF Begun
  <2>2. Y \cap Begun(c, file, to) = {}
    BY <1>1 DEF Begun
  <2>3. IsFiniteSet(Begun(c, file, o))
    BY BegunIs
  <2> DEFINE W == Begun(c, file, o)
             Z == Begun(c, file, to)
  <2>4. IsFiniteSet(W) /\ Divides(W, Y, Z)
    BY <2>1, <2>2, <2>3 DEF Divides
  <2> HIDE DEF W, Y, Z
  <2>5. /\ Cardinality(Y) \in Nat /\ Cardinality(Z) \in Nat
        /\ Cardinality(W) = Cardinality(Y) + Cardinality(Z)
    BY ONLY <2>4, Parts
  <2>. QED BY <2>5 DEF W, Z
<1>12. Cardinality(Begun(c, Rest(bytes), 0)) = Cardinality(X4)
  <2> DEFINE Z == Begun(c, Rest(bytes), 0)
  <2>1. DOMAIN Rest(bytes) = 1..(n - lo)
    BY <1>4, EndsAre
  <2>2. Z \subseteq Int /\ X4 \subseteq Int /\ lo \in Int /\ -lo \in Int
    BY <1>3, <1>4, <1>6, <2>1 DEF Begun
  <2>3. ASSUME NEW p \in X4 PROVE -lo + p \in Z
    <3>1. p \in 1..n /\ p > lo /\ bytes[p][1] = c /\ bytes[p][3] = 1
      BY <1>3 DEF Begun
    <3>2. -lo + p \in 1..(n - lo) /\ lo + (-lo + p) = p /\ -lo + p > 0
      BY <1>3, <1>4, <3>1
    <3>3. Rest(bytes)[-lo + p] = bytes[p]
      BY <1>4, <3>2
    <3>. QED BY <2>1, <3>1, <3>2, <3>3 DEF Begun
  <2>4. ASSUME NEW q \in Z PROVE q - (-lo) \in X4
    <3>1. /\ q \in 1..(n - lo)
          /\ Rest(bytes)[q][1] = c /\ Rest(bytes)[q][3] = 1
      BY <2>1 DEF Begun
    <3>2. /\ q - (-lo) = lo + q /\ lo + q \in 1..n /\ lo + q > lo
          /\ lo + q > 0
      BY <1>3, <1>4, <3>1
    <3>3. Rest(bytes)[q] = bytes[lo + q]
      BY <1>4, <3>1
    <3>. QED BY <1>3, <3>1, <3>2, <3>3 DEF Begun
  <2> HIDE DEF X4, Z
  <2>5. Cardinality(Z) = Cardinality(X4)
    BY <1>8, <2>2, <2>3, <2>4, Corresponds
  <2>. QED BY <2>5 DEF Z
<1>13. /\ Cardinality(Begun(c, t.pending, 0)) \in Nat
       /\ Cardinality(Begun(c, t.pending, 0)) <= Cardinality(X4)
  <2>1. CASE t.pending = <<>>
    <3>1. Begun(c, t.pending, 0) = {}
      BY <2>1 DEF Begun
    <3>2. Cardinality(Begun(c, t.pending, 0)) = 0
      BY <3>1, FS_EmptySet
    <3>. QED BY <1>8, <3>2
  <2>2. CASE t.pending = Rest(bytes)
    BY <1>8, <1>12, <2>2
  <2>. QED BY <2>1, <2>2 DEF Reads
<1>14. IsFiniteSet(B) /\ Cardinality(B) <= Cardinality(X3)
  <2> DEFINE f == [p \in B |-> Begin(bytes, p) + 1]
  <2>1. ASSUME NEW p \in B
        PROVE  /\ p \in 1..n /\ p \in Ends(bytes)
               /\ Begin(bytes, p) \in 0..n
               /\ Begin(bytes, p) + 1 < p
               /\ Begin(bytes, p) + 1 \in X3
    <3>1. p \in 1..n /\ p \in Ends(bytes) /\ p <= lo
      BY <1>3, <1>4, <1>5
    <3>2. Begin(bytes, p) \in 0..n /\ Begin(bytes, p) < p
      BY <1>2, <1>3, <3>1, BeginIs DEF n
    <3> DEFINE b == Begin(bytes, p)
               l == Line(bytes, p)
    <3>3. /\ l \in Seq(Units) /\ Len(l) = p - 1 - b
          /\ \A i \in 1..(p - 1 - b) : l[i] = bytes[b + i]
      <4>1. p \in 1..(Len(bytes) + 1)
        BY <1>3, <3>1 DEF n
      <4>. QED BY <1>2, <4>1, LineIs
    <3> HIDE DEF b, l
    <3>4. l # <<>> /\ l[1][1] = c /\ l[1][3] = 1
      <4>1. Whole(l) /\ l[1][1] = c
        BY DEF Counts, l
      <4>2. PICK d \in Cases, m \in 1..MaxEvents :
              l = Piece(Record(d, m), 1, Size(d))
        BY <4>1 DEF Whole, Piece
      <4>3. Size(d) \in Nat \ {0}
        BY Sizes
      <4>4. Piece(Record(d, m), 1, Size(d))[1] = Record(d, m)[1]
        BY <4>3 DEF Piece
      <4>5. Record(d, m)[1] = <<d, m, 1>>
        BY <4>3 DEF Record
      <4>6. l[1][3] = 1
        BY <4>2, <4>4, <4>5
      <4>. QED BY <4>1, <4>6 DEF Whole
    <3>5. 1 \in 1..(p - 1 - b)
      <4>1. Len(l) # 0
        BY <3>3, <3>4
      <4>. QED BY <1>3, <3>1, <3>2, <3>3, <4>1 DEF b
    <3>6. l[1] = bytes[b + 1]
      BY <3>3, <3>5
    <3>7. b + 1 < p /\ b + 1 \in 1..n /\ b + 1 > 0 /\ b + 1 <= lo
      BY <1>3, <1>4, <3>1, <3>2, <3>5 DEF b
    <3>8. b + 1 \in X3
      BY <1>3, <3>4, <3>6, <3>7 DEF Begun
    <3>. QED BY <3>1, <3>2, <3>7, <3>8 DEF b
  <2>2. ASSUME NEW p \in B, NEW q \in B, p < q
        PROVE  Begin(bytes, p) < Begin(bytes, q)
    <3>1. p <= Begin(bytes, q)
      <4>1. q \in Nat \ {0} /\ p \in Ends(bytes)
        BY <1>3, <2>1
      <4>. QED BY <1>2, <2>2, <4>1, BeginIs
    <3>. QED BY <1>3, <2>1, <3>1
  <2>3. \A p, q \in B : f[p] = f[q] => p = q
    <3>1. ASSUME NEW p \in B, NEW q \in B, f[p] = f[q] PROVE p = q
      <4>1. p \in Int /\ q \in Int /\ Begin(bytes, p) = Begin(bytes, q)
        BY <1>3, <2>1, <3>1
      <4>2. ~(p < q) /\ ~(q < p)
        BY <1>3, <2>1, <2>2, <4>1
      <4>. QED BY <4>1, <4>2
    <3>. QED BY <3>1
  <2>4. f \in [B -> X3]
    BY <2>1
  <2> HIDE DEF f, B, X3
  <2>. QED BY <1>8, <2>3, <2>4, Fits
<1>15. Cardinality(B) \in Nat
  BY <1>14, FS_CardinalityType
<1>16. EventsOf(c, bytes, ends) = Cardinality(B)
  BY DEF EventsOf
<1> DEFINE b == Cardinality(B)
           x1 == Cardinality(X1)
           x2 == Cardinality(X2)
           x3 == Cardinality(X3)
           x4 == Cardinality(X4)
           r == Cardinality(Begun(c, t.pending, 0))
           z == Cardinality(Begun(c, file, to))
<1>17. /\ b \in Nat /\ x1 \in Nat /\ x2 \in Nat /\ x3 \in Nat /\ x4 \in Nat
       /\ r \in Nat /\ z \in Nat
       /\ x1 + x2 = x3 + x4 /\ b <= x3 /\ r <= x4
  BY <1>7, <1>8, <1>11, <1>13, <1>14, <1>15
<1>18. Cardinality(Begun(c, file, from.offset)) = x2 + z
  BY <1>10, <1>11
<1>19. Cardinality(Begun(c, from.pending, 0)) = x1
  BY <1>9
<1> HIDE DEF b, x1, x2, x3, x4, r, z, X, X1, X2, X3, X4, B
<1>20. b + r + z <= x1 + (x2 + z)
  BY ONLY <1>17
<1>. QED BY <1>16, <1>17, <1>18, <1>19, <1>20 DEF b, r, z

\* What is pending after a read is the end of what was read, and what the read
\* yields is what the file says between its two ends.
LEMMA ReadFollows ==
  ASSUME file \in Seq(Units), NEW from \in Tails, PendingTrue(file, from),
         NEW to, NEW bytes, NEW ends, NEW t, Reads(from, to, bytes, ends, t)
  PROVE  /\ PendingTrue(file, t)
         /\ \A c \in Cases : EventsUpTo(c, file, to) =
              EventsUpTo(c, file, from.offset) + EventsOf(c, bytes, ends)
<1> DEFINE o == from.offset
           line == Begin(file, o + 1)
           place == o - Len(from.pending)
           n == Len(bytes)
           lo == Begin(bytes, n + 1)
           newline == Begin(file, to + 1)
<1>1. /\ o \in Nat /\ o <= Len(file) /\ Len(file) \in Nat
      /\ from.pending \in Seq(Units) /\ Len(from.pending) \in Nat
      /\ from.dropping \in BOOLEAN /\ file \in Seq(Units)
      /\ DOMAIN file = 1..Len(file)
  BY EndsAre DEF Tails, PendingTrue
<1>2. /\ line <= place
      /\ from.pending = Piece(file, place + 1, o)
      /\ IF from.dropping THEN o - line > LineLimit ELSE place = line
  BY DEF PendingTrue, Piece
<1>3. /\ line \in 0..Len(file) /\ line < o + 1
      /\ line = 0 \/ line \in Ends(file)
      /\ \A q \in Ends(file) : q < o + 1 => q <= line
  BY <1>1, BeginIs
<1>4. /\ to \in o..Len(file) /\ Buffer(bytes, from.pending, file, o, to)
      /\ ends = {p \in Ends(bytes) :
                   from.dropping => \E q \in Ends(bytes) : q < p}
      /\ t \in Tails /\ t.offset = to
      /\ t.pending = IF Len(Rest(bytes)) > LineLimit THEN <<>> ELSE Rest(bytes)
      /\ t.dropping <=> \/ Len(Rest(bytes)) > LineLimit
                        \/ from.dropping /\ Ends(bytes) = {}
  BY DEF Reads
<1>5. LineLimit \in Nat
  BY LimitsAssumption
<1> HIDE DEF o, n, lo, line, place
<1>6. /\ o \in Nat /\ place \in Nat /\ place <= o /\ line \in Nat
      /\ to \in Nat /\ o <= to /\ to <= Len(file) /\ Len(file) \in Nat
      /\ o - place \in Nat
  BY <1>1, <1>2, <1>3, <1>4 DEF place
<1>d. Len(from.pending) = o - place
  BY <1>1, <1>2, <1>3, <1>4 DEF place
<1>a. line <= place
  BY <1>2
<1>b. from.dropping => o - line > LineLimit
  BY <1>2
<1>c. ~from.dropping => place = line
  BY <1>2
<1>7. bytes \in Seq(Units) /\ Joined(bytes, from.pending, file, o, to)
  <2>1. o \in 0..Len(file)
    BY <1>1
  <2>. QED BY <1>1, <1>4, <2>1, BufferIs
<1>8. n \in Nat /\ n = to - place /\ Ends(bytes) \subseteq 1..n
  <2>1. Len(bytes) = Len(from.pending) + (to - o)
    BY <1>7 DEF Joined
  <2>2. n \in Nat /\ Ends(bytes) \subseteq 1..n
    BY <1>7, EndsAre DEF n
  <2>3. n = (o - place) + (to - o)
    BY <1>d, <2>1 DEF n
  <2>4. n = to - place
    BY ONLY <1>6, <2>2, <2>3
  <2>. QED BY <2>2, <2>4
<1>9. Window(file, bytes, place)
  <2>1. ASSUME NEW i \in 1..n PROVE bytes[i] = file[place + i]
    <3>1. CASE i <= o - place
      <4>1. i \in 1..Len(from.pending)
        BY <1>6, <1>d, <3>1
      <4>2. bytes[i] = from.pending[i]
        BY <1>7, <4>1 DEF Joined
      <4> DEFINE m == place + 1
      <4>4. /\ i \in 1..(o - m + 1) /\ m + i - 1 = place + i
            /\ m \in 1..(Len(file) + 1) /\ o \in (m - 1)..Len(file)
        <5>1. i \in 1..(o - place)
          BY <1>d, <4>1
        <5>. QED BY ONLY <1>6, <5>1
      <4>5. from.pending = Piece(file, m, o)
        BY <1>2
      <4> HIDE DEF m
      <4>6. \A j \in 1..(o - m + 1) : SubSeq(file, m, o)[j] = file[m + j - 1]
        BY <1>1, <4>4, PieceIs
      <4>7. from.pending[i] = file[m + i - 1]
        BY <4>4, <4>5, <4>6 DEF Piece
      <4>. QED BY <4>2, <4>4, <4>7
    <3>2. CASE ~(i <= o - place)
      <4> DEFINE j == i - (o - place)
      <4>a. i \in 1..(to - place)
        BY <1>8
      <4>1. j \in 1..(to - o) /\ (o - place) + j = i /\ o + j = place + i
        BY ONLY <1>6, <4>a, <3>2
      <4> HIDE DEF j
      <4>2. bytes[Len(from.pending) + j] = file[o + j]
        BY <1>7, <4>1 DEF Joined
      <4>. QED BY <1>d, <4>1, <4>2
    <3>. QED BY <3>1, <3>2
  <2>2. place + n <= Len(file)
    BY <1>6, <1>8
  <2>. QED BY <1>6, <2>1, <2>2 DEF Window, n
<1>10. \A p \in 1..n : p \in Ends(bytes) <=> place + p \in Ends(file)
  BY <1>1, <1>7, <1>9, WindowEnds DEF n
\* No line ends between what is pending and the end of what was read.
<1>11. \A q \in Ends(file) : q <= o => q <= line
  BY <1>1, <1>3, EndsAre
<1>12. /\ lo \in 0..n /\ (lo = 0 \/ lo \in Ends(bytes))
       /\ Rest(bytes) \in Seq(Units) /\ Len(Rest(bytes)) = n - lo
       /\ Rest(bytes) = Piece(bytes, lo + 1, n)
       /\ \A q \in Ends(bytes) : q <= lo
  BY <1>7, RestIs DEF n, lo
<1>13. newline = IF Ends(bytes) = {} THEN line ELSE place + lo
  <2> DEFINE b == IF Ends(bytes) = {} THEN line ELSE place + lo
  <2>1. b \in Nat /\ b < to + 1 /\ to + 1 \in Nat \ {0}
    BY <1>1, <1>2, <1>3, <1>6, <1>8, <1>12
  <2>2. b = 0 \/ b \in Ends(file)
    <3>1. CASE Ends(bytes) = {}
      BY <1>3, <3>1
    <3>2. CASE Ends(bytes) # {}
      <4>1. PICK e \in Ends(bytes) : TRUE
        BY <3>2
      <4>2. e \in 1..n /\ e <= lo
        BY <1>8, <1>12, <4>1
      <4>3. lo # 0
        BY <1>8, <1>12, <4>2
      <4>4. lo \in Ends(bytes) /\ lo \in 1..n
        BY <1>8, <1>12, <4>3
      <4>. QED BY <1>10, <3>2, <4>4
    <3>. QED BY <3>1, <3>2
  <2>3. ASSUME NEW q \in Ends(file), q < to + 1 PROVE q <= b
    <3>1. q \in 1..Len(file)
      BY <1>1, EndsAre
    <3>2. CASE q > place
      <4>1. q - place \in 1..n /\ place + (q - place) = q
        BY <1>6, <1>8, <2>3, <3>1, <3>2
      <4>2. q - place \in Ends(bytes)
        BY <1>10, <4>1
      <4>3. q - place <= lo
        BY <1>12, <4>2
      <4>. QED BY <1>6, <1>8, <1>12, <3>1, <4>2, <4>3
    <3>3. CASE ~(q > place)
      <4>1. q <= o /\ q <= line
        BY <1>1, <1>6, <1>11, <3>1, <3>3
      <4>. QED BY <1>2, <1>6, <1>8, <1>12, <3>1, <3>3, <4>1
    <3>. QED BY <3>2, <3>3
  <2> HIDE DEF b
  <2>4. Begin(file, to + 1) = b
    <3> DEFINE e == to + 1
    <3>1. e \in Nat \ {0} /\ b < e /\ \A q \in Ends(file) : q < e => q <= b
      BY <2>1, <2>3
    <3> HIDE DEF e
    <3>2. Begin(file, e) = b
      BY <1>1, <2>1, <2>2, <3>1, BeginUnique
    <3>. QED BY <3>2 DEF e
  <2>. QED BY <2>4 DEF b
<1>14. PendingTrue(file, t)
  <2>1. CASE Len(Rest(bytes)) > LineLimit
    <3>1. t.pending = <<>> /\ t.dropping
      BY <1>4, <2>1
    <3>2. Len(t.pending) = 0
      BY <3>1
    <3>3. newline <= to /\ to - newline > LineLimit
      BY <1>2, <1>5, <1>6, <1>8, <1>12, <1>13, <2>1
    <3>4. SubSeq(file, (to - 0) + 1, to) = <<>>
      BY <1>6, SubSeqEmpty
    <3>5. to - 0 = to
      BY <1>6
    <3>6. /\ t.offset = to /\ to <= Len(file)
      BY <1>4, <1>6
    <3> HIDE DEF newline
    <3>. QED BY <3>1, <3>2, <3>3, <3>4, <3>5, <3>6 DEF PendingTrue, newline
  <2>2. CASE ~(Len(Rest(bytes)) > LineLimit)
    <3> DEFINE at2 == place + lo
    <3>1. /\ t.pending = Rest(bytes)
          /\ t.dropping <=> from.dropping /\ Ends(bytes) = {}
      BY <1>4, <2>2
    <3>2. to - Len(t.pending) = at2 /\ at2 \in Nat
      BY <1>6, <1>8, <1>12, <3>1
    <3>3. t.pending = Piece(file, at2 + 1, to)
      <4> DEFINE m == lo + 1
      <4>1. m \in 1..(n + 1) /\ n \in (m - 1)..n
        BY <1>8, <1>12
      <4>2. place + m = at2 + 1 /\ place + n = to
        BY <1>6, <1>8, <1>12
      <4> HIDE DEF m, at2
      <4>3. Piece(bytes, m, n) = Piece(file, place + m, place + n)
        BY <1>1, <1>7, <1>9, <4>1, WindowPiece DEF n
      <4>. QED BY <1>12, <3>1, <4>2, <4>3 DEF m
    <3>4. newline <= at2
      BY <1>2, <1>6, <1>8, <1>12, <1>13
    <3>5. ASSUME t.dropping PROVE to - newline > LineLimit
      <4>1. o - line > LineLimit /\ newline = line
        BY <1>b, <1>13, <3>1, <3>5
      <4> HIDE DEF newline
      <4>. QED BY ONLY <1>5, <1>6, <4>1
    <3>6. ASSUME ~t.dropping PROVE at2 = newline
      <4>1. CASE Ends(bytes) = {}
        <5>1. lo = 0 /\ place = line
          BY <1>c, <1>12, <3>1, <3>6, <4>1
        <5>2. newline = line
          BY <1>13, <4>1
        <5>. QED BY <1>6, <5>1, <5>2
      <4>2. CASE Ends(bytes) # {}
        BY <1>13, <4>2
      <4>. QED BY <4>1, <4>2
    <3>7. t.offset = to /\ to <= Len(file)
      BY <1>4, <1>6
    <3> HIDE DEF at2, newline
    <3>. QED BY <3>2, <3>3, <3>4, <3>5, <3>6, <3>7
             DEF PendingTrue, newline, Piece
  <2>. QED BY <2>1, <2>2
<1>15. ASSUME NEW c \in Cases
       PROVE  EventsUpTo(c, file, to) =
                EventsUpTo(c, file, o) + EventsOf(c, bytes, ends)
  <2> DEFINE A == {p \in Ends(file) : p <= o /\ Counts(c, Line(file, p))}
             N == {p \in Ends(file) :
                     o < p /\ p <= to /\ Counts(c, Line(file, p))}
             T == {p \in Ends(file) : p <= to /\ Counts(c, Line(file, p))}
             B == {p \in ends : Counts(c, Line(bytes, p))}
  <2>1. /\ EventsUpTo(c, file, to) = Cardinality(T)
        /\ EventsUpTo(c, file, o) = Cardinality(A)
        /\ EventsOf(c, bytes, ends) = Cardinality(B)
    <3>1. T = {p \in {q \in Ends(file) : q <= to} : Counts(c, Line(file, p))}
      OBVIOUS
    <3>2. A = {p \in {q \in Ends(file) : q <= o} : Counts(c, Line(file, p))}
      OBVIOUS
    <3>. QED BY <3>1, <3>2 DEF EventsUpTo, EventsOf
  <2>2. IsFiniteSet(Ends(file)) /\ Ends(file) \subseteq 1..Len(file)
    BY <1>1, EndsAre
  <2>3. Divides(T, A, N) /\ IsFiniteSet(T)
    <3>1. IsFiniteSet(T)
      BY <2>2, FS_Subset
    <3>2. Divides(T, A, N)
      BY <1>6, <1>1, <2>2 DEF Divides
    <3>. QED BY <3>1, <3>2
  \* The lines that count and end after what was read begin there, too.
  <2>4. ASSUME NEW p \in 1..n,
               p \in Ends(bytes),
               \/ ~from.dropping
               \/ \E q \in Ends(bytes) : q < p
        PROVE  Line(bytes, p) = Line(file, place + p)
    <3>1. place + p \in Nat \ {0}
      BY <1>6
    <3>2. /\ Begin(file, place + p) \in Nat
          /\ \A q \in Ends(file) : q < place + p => q <= Begin(file, place + p)
      BY <1>1, <3>1, BeginIs
    <3>3. Begin(file, place + p) >= place
      <4>1. CASE \E q \in Ends(bytes) : q < p
        <5>1. PICK q \in Ends(bytes) : q < p
          BY <4>1
        <5>2. q \in 1..n /\ place + q \in Ends(file) /\ place + q < place + p
          BY <1>6, <1>8, <1>10, <5>1
        <5>3. place + q <= Begin(file, place + p)
          BY <3>2, <5>2
        <5>. QED BY <1>6, <3>2, <5>2, <5>3
      <4>2. CASE ~from.dropping
        <5>1. place = line
          BY <1>2, <4>2
        <5>2. CASE line = 0
          BY <3>2, <5>1, <5>2
        <5>3. CASE line \in Ends(file)
          <6>1. place < place + p
            BY <1>6
          <6>. QED BY <3>2, <5>1, <5>3, <6>1
        <5>. QED BY <1>3, <5>2, <5>3
      <4>. QED BY <2>4, <4>1, <4>2
    <3>4. p \in 1..(Len(bytes) + 1)
      BY <1>8 DEF n
    <3>. QED BY <1>1, <1>7, <1>9, <3>3, <3>4, WindowLine
  <2>5. ASSUME NEW p \in B PROVE place + p \in N
    <3>1. /\ p \in Ends(bytes) /\ p \in 1..n /\ Counts(c, Line(bytes, p))
          /\ from.dropping => \E q \in Ends(bytes) : q < p
      BY <1>4, <1>8
    <3>2. place + p \in Ends(file) /\ place + p <= to
      BY <1>6, <1>8, <1>10, <3>1
    <3>3. o < place + p
      <4>1. place + p <= o => place + p <= line
        BY <1>11, <3>2
      <4>2. p \in Nat /\ p > 0
        BY <3>1
      <4>. QED BY ONLY <1>a, <1>6, <4>1, <4>2
    <3>4. Line(bytes, p) = Line(file, place + p)
      BY <1>1, <2>4, <3>1
    <3>. QED BY <3>1, <3>2, <3>3, <3>4
  <2>6. ASSUME NEW q \in N PROVE q - place \in B
    <3> DEFINE p == q - place
    <3>1. /\ q \in Ends(file) /\ o < q /\ q <= to /\ q \in 1..Len(file)
          /\ Counts(c, Line(file, q))
      BY <2>2
    <3>a. q \in Int /\ o < q /\ q <= to
      BY <3>1
    <3>b. n = to - place /\ n \in Nat
      BY <1>8
    <3>2. p \in 1..n /\ place + p = q
      BY ONLY <1>6, <3>a, <3>b
    <3>3. p \in Ends(bytes)
      BY <1>10, <3>1, <3>2
    <3> HIDE DEF p
    <3>4. from.dropping => \E r \in Ends(bytes) : r < p
      <4>1. SUFFICES ASSUME from.dropping, \A r \in Ends(bytes) : ~(r < p)
                     PROVE  FALSE
        OBVIOUS
      <4>2. o - line > LineLimit
        BY <1>2, <4>1
      <4>3. q \in 1..(Len(file) + 1) /\ q \in Nat \ {0}
        BY <1>6, <3>1
      <4> DEFINE e == Begin(file, q)
      <4>4. e \in 0..Len(file) /\ e < q /\ (e = 0 \/ e \in Ends(file))
        BY <1>1, <4>3, BeginIs
      <4> HIDE DEF e
      <4>5. e <= line
        <5>1. CASE e = 0
          BY <1>6, <5>1
        <5>2. CASE e \in Ends(file) /\ e > place
          <6>1. e - place \in 1..n /\ place + (e - place) = e /\ e - place < p
            BY <1>6, <1>8, <3>1, <3>2, <4>4, <5>2
          <6>2. e - place \in Ends(bytes)
            BY <1>10, <5>2, <6>1
          <6>. QED BY <4>1, <6>1, <6>2
        <5>3. CASE e \in Ends(file) /\ ~(e > place)
          <6>a. e \in Nat
            BY <4>4
          <6>1. e <= o
            BY ONLY <1>6, <6>a, <5>3
          <6>. QED BY <1>11, <5>3, <6>1
        <5>. QED BY <4>4, <5>1, <5>2, <5>3
      <4>6. Len(Line(file, q)) = q - 1 - e
        BY <1>1, <4>3, LineIs DEF e
      <4>b. e \in Nat
        BY <4>4
      <4>7. q - 1 - e > LineLimit
        BY ONLY <1>5, <1>6, <3>a, <4>2, <4>b, <4>5
      <4>. QED BY <1>5, <3>1, <4>6, <4>7 DEF Counts, Short
    <3>5. Line(bytes, p) = Line(file, q)
      BY <1>1, <2>4, <3>2, <3>3, <3>4
    <3>6. p \in B
      BY <1>4, <3>1, <3>3, <3>4, <3>5
    <3>. QED BY <3>6 DEF p
  <2>7. B \subseteq Int /\ N \subseteq Int
    BY <1>4, <1>8, <2>2
  <2>8. IsFiniteSet(B)
    <3>1. IsFiniteSet(Ends(bytes)) /\ B \subseteq Ends(bytes)
      BY <1>4, <1>7, EndsAre
    <3>. QED BY <3>1, FS_Subset
  <2> HIDE DEF A, N, T, B
  <2>9. Cardinality(N) = Cardinality(B)
    <3>1. place \in Int
      BY <1>6
    <3>2. \A p \in B : place + p \in N
      BY ONLY <2>5
    <3>3. \A q \in N : q - place \in B
      BY ONLY <2>6
    <3>. QED BY ONLY <2>7, <2>8, <3>1, <3>2, <3>3, Corresponds
  <2>10. Cardinality(T) = Cardinality(A) + Cardinality(N)
    BY ONLY <2>3, Parts
  <2>. QED BY <2>1, <2>9, <2>10
<1>. QED BY <1>14, <1>15 DEF o

-----------------------------------------------------------------------------
(* What the worker does to the file *)

UpTo(S, p) == {q \in S : q <= p}

LEMMA NthIs ==
  ASSUME NEW n \in Nat, NEW S, S \subseteq 1..n, NEW i \in 1..Cardinality(S)
  PROVE  Nth(S, i) \in S /\ Cardinality(UpTo(S, Nth(S, i))) = i
<1>1. IsFiniteSet(S) /\ Cardinality(S) \in Nat
  <2>1. IsFiniteSet(1..n)
    BY FS_Interval
  <2>2. IsFiniteSet(S)
    BY <2>1, FS_Subset
  <2>. QED BY <2>2, FS_CardinalityType
<1>2. \A X : X \subseteq S => /\ IsFiniteSet(X) /\ X \subseteq Int
                              /\ Cardinality(X) \in Nat
  <2>1. ASSUME NEW X, X \subseteq S
        PROVE  IsFiniteSet(X) /\ X \subseteq Int /\ Cardinality(X) \in Nat
    <3>1. IsFiniteSet(X)
      BY <1>1, <2>1, FS_Subset
    <3>2. X \subseteq Int
      BY <2>1
    <3>3. Cardinality(X) \in Nat
      BY <3>1, FS_CardinalityType
    <3>. QED BY <3>1, <3>2, <3>3
  <2>. QED BY <2>1
<1>a. \A q \in S : q \in Int /\ q > 0
  OBVIOUS
<1>b. S \subseteq Int
  BY <1>a
<1> DEFINE G == {p \in S : Cardinality(UpTo(S, p)) >= i}
<1>3. \A p \in S : UpTo(S, p) \subseteq S
  BY DEF UpTo
<1>4. G # {}
  <2>1. S # {}
    <3>1. CASE S = {}
      <4>1. Cardinality(S) = 0
        BY <3>1, FS_EmptySet
      <4>. QED BY <4>1
    <3>. QED BY <3>1
  <2>2. Max(S) \in S /\ \A q \in S : q <= Max(S)
    BY ONLY <1>1, <1>b, <2>1, MaxIsLargest
  <2>3. UpTo(S, Max(S)) = S
    BY <2>2 DEF UpTo
  <2>4. Cardinality(UpTo(S, Max(S))) >= i
    BY <1>1, <2>3
  <2>. QED BY <2>2, <2>4
<1>5. /\ Min(G) \in G /\ \A q \in G : Min(G) <= q
  <2>1. G \subseteq S
    OBVIOUS
  <2>2. IsFiniteSet(G) /\ G \subseteq Int
    BY <1>2, <2>1
  <2> HIDE DEF G
  <2>. QED BY <1>4, <2>2, MinIsSmallest
<1> DEFINE p == Min(G)
           X == {q \in S : q < p}
           k == Cardinality(UpTo(S, p))
<1>6. p \in S /\ k >= i /\ k \in Nat /\ p \in Int /\ \A q \in G : p <= q
  <2>1. p \in S /\ k >= i
    BY <1>5
  <2>2. k \in Nat
    BY <1>2, <1>3, <2>1
  <2>3. \A q \in G : p <= q
    BY <1>5
  <2>. QED BY <1>a, <2>1, <2>2, <2>3
<1> HIDE DEF p, k
\* Were there more than i up to the smallest, the one before would do as well.
<1>7. k = i
  <2>1. SUFFICES ASSUME k # i PROVE FALSE
    OBVIOUS
  <2>2. k - 1 >= i /\ k - 1 \in Nat
    BY <1>6, <2>1
  <2>3. Cardinality(X) = k - 1
    <3>1. UpTo(S, p) \ {p} = X /\ p \in UpTo(S, p)
      <4>1. \A q \in S : q <= p /\ q # p <=> q < p
        BY <1>6, <1>a
      <4>2. p <= p
        BY <1>6
      <4>. QED BY <1>6, <4>1, <4>2 DEF UpTo
    <3>2. IsFiniteSet(UpTo(S, p))
      BY <1>2, <1>3, <1>6
    <3>3. Cardinality(UpTo(S, p) \ {p}) = Cardinality(UpTo(S, p)) - 1
      BY <3>1, <3>2, FS_RemoveElement
    <3>. QED BY <3>1, <3>3 DEF k
  <2>4. X \subseteq S /\ X \subseteq Int /\ IsFiniteSet(X)
    BY <1>2
  <2>5. X # {}
    <3>1. CASE X = {}
      <4>1. Cardinality(X) = 0
        BY <3>1, FS_EmptySet
      <4>. QED BY <2>2, <2>3, <4>1
    <3>. QED BY <3>1
  <2> DEFINE m == Max(X)
  <2>6. m \in X /\ \A q \in X : q <= m
    <3> HIDE DEF X
    <3>. QED BY <2>4, <2>5, MaxIsLargest
  <2> HIDE DEF m
  <2>7. UpTo(S, m) = X
    <3>1. m \in Int /\ m < p /\ m \in S
      BY <1>a, <2>6
    <3>2. \A q \in S : q < p <=> q <= m
      <4>1. ASSUME NEW q \in S PROVE q < p => q <= m
        BY <2>6
      <4>. QED BY <1>a, <1>6, <3>1, <4>1
    <3>. QED BY <3>2 DEF UpTo
  <2>8. m \in G
    BY <2>2, <2>3, <2>6, <2>7
  <2>9. m \in Int /\ m < p
    BY <2>4, <2>6
  <2>. QED BY <1>6, <2>8, <2>9
<1>8. \E q \in S : Cardinality({r \in S : r <= q}) = i
  BY <1>6, <1>7 DEF k, UpTo
<1>. QED BY <1>8 DEF Nth, UpTo

\* A record that is kept moves towards the beginning, and no two take the
\* same place.
LEMMA NthFurther ==
  ASSUME NEW n \in Nat, NEW S, S \subseteq 1..n, NEW i \in 1..Cardinality(S)
  PROVE  Nth(S, i) \in 1..n /\ i <= Nth(S, i)
<1> DEFINE p == Nth(S, i)
<1>1. p \in 1..n /\ Cardinality(UpTo(S, p)) = i
  BY NthIs
<1> HIDE DEF p
<1>2. IsFiniteSet(1..p) /\ Cardinality(1..p) = p
  BY <1>1, FS_Interval
<1>3. UpTo(S, p) \subseteq 1..p
  <2>1. \A q \in S : q \in Int /\ q > 0
    OBVIOUS
  <2>2. p \in Int
    BY <1>1
  <2>. QED BY ONLY <2>1, <2>2 DEF UpTo
<1>4. Cardinality(UpTo(S, p)) <= Cardinality(1..p)
  BY <1>2, <1>3, FS_Subset
<1>. QED BY <1>1, <1>2, <1>4 DEF p

Less(new, old) ==
  \A c \in Cases, k \in Nat :
    Cardinality(Begun(c, new, k)) <= Cardinality(Begun(c, old, k))

LEMMA ReplaceStep ==
  ASSUME file \in Seq(Units), NEW c, ReplaceWithout(c)
  PROVE  file' \in Seq(Units) /\ Less(file', file)
<1> DEFINE kept == {p \in DOMAIN file : file[p][1] # c}
           n == Len(file)
           m == Cardinality(kept)
<1>1. n \in Nat /\ DOMAIN file = 1..n /\ file \in [1..n -> Units]
  BY EndsAre, LenProperties
<1>2. kept \subseteq 1..n
  BY <1>1
<1>3. m \in Nat
  <2>1. IsFiniteSet(1..n)
    BY <1>1, FS_Interval
  <2>2. IsFiniteSet(kept)
    BY <1>2, <2>1, FS_Subset
  <2>. QED BY <2>2, FS_CardinalityType
<1>4. file' = [i \in 1..m |-> file[Nth(kept, i)]]
  BY DEF ReplaceWithout
<1> HIDE DEF n, m, kept
<1>5. \A i \in 1..m : /\ Nth(kept, i) \in 1..n /\ i <= Nth(kept, i)
                      /\ Cardinality(UpTo(kept, Nth(kept, i))) = i
  <2>1. ASSUME NEW i \in 1..m
        PROVE  Nth(kept, i) \in 1..n /\ i <= Nth(kept, i)
    <3>1. i \in 1..Cardinality(kept)
      BY DEF m
    <3>. QED BY <1>1, <1>2, <3>1, NthFurther
  <2>2. ASSUME NEW i \in 1..m
        PROVE  Cardinality(UpTo(kept, Nth(kept, i))) = i
    <3>1. i \in 1..Cardinality(kept)
      BY DEF m
    <3>. QED BY <1>1, <1>2, <3>1, NthIs
  <2>. QED BY <2>1, <2>2
<1>6. file' \in [1..m -> Units]
  BY <1>1, <1>4, <1>5
<1>7. file' \in Seq(Units) /\ DOMAIN file' = 1..m
  BY <1>3, <1>6, SeqDef
<1>8. ASSUME NEW d \in Cases, NEW k \in Nat
      PROVE  Cardinality(Begun(d, file', k)) <= Cardinality(Begun(d, file, k))
  <2> DEFINE S == Begun(d, file', k)
             T == Begun(d, file, k)
             f == [p \in S |-> Nth(kept, p)]
  <2>1. ASSUME NEW p \in S
        PROVE  p \in 1..m /\ Nth(kept, p) \in T
    <3>1. /\ p \in 1..m /\ p > k
          /\ file'[p][1] = d /\ file'[p][3] = 1
      BY <1>7 DEF Begun
    <3>2. file'[p] = file[Nth(kept, p)]
      BY <1>4, <3>1
    <3>3. Nth(kept, p) \in 1..n /\ p <= Nth(kept, p)
      BY <1>5, <3>1
    <3>4. Nth(kept, p) > k
      BY <3>1, <3>3
    <3>. QED BY <1>1, <3>1, <3>2, <3>3, <3>4 DEF Begun
  <2>2. f \in [S -> T]
    BY <2>1
  <2>3. \A p, q \in S : f[p] = f[q] => p = q
    <3>1. ASSUME NEW p \in S, NEW q \in S, f[p] = f[q] PROVE p = q
      <4>1. p \in 1..m /\ q \in 1..m /\ Nth(kept, p) = Nth(kept, q)
        BY <2>1, <3>1
      <4>. QED BY <1>5, <4>1
    <3>. QED BY <3>1
  <2>4. IsFiniteSet(T)
    BY BegunIs
  <2> HIDE DEF S, T, f
  <2>5. Cardinality(S) <= Cardinality(T)
    BY <2>2, <2>3, <2>4, Fits
  <2>. QED BY <2>5 DEF S, T
<1>. QED BY <1>7, <1>8 DEF Less

\* A record is appended: what was in the file stays where it was.
LEMMA AppendStep ==
  ASSUME file \in Seq(Units), written \in [Cases -> Nat], at \in Cases, Emit
  PROVE  /\ file' \in Seq(Units) /\ Window(file', file, 0)
         /\ written' \in [Cases -> Nat]
         /\ \A c \in Cases, k \in Nat :
              Cardinality(Begun(c, file', k)) + written[c]
                <= Cardinality(Begun(c, file, k)) + written'[c]
<1> DEFINE n == Len(file)
           w == written'[at]
           s == Size(at) + 1
           r == Record(at, w)
           both == file \o r
<1>1. /\ written' = [written EXCEPT ![at] = @ + 1]
      /\ file' = both
  BY DEF Emit
<1>2. written' \in [Cases -> Nat] /\ w \in Nat
  BY <1>1
<1>3. n \in Nat /\ DOMAIN file = 1..n /\ s \in Nat /\ s > 0
  BY EndsAre, Sizes
<1> HIDE DEF w, both, n
<1>4. r = [i \in 1..s |-> <<at, w, i>>]
  BY DEF Record
<1> HIDE DEF r, s
<1>5. r \in [1..s -> Units]
  BY <1>2, <1>3, <1>4 DEF Units
<1>6. r \in Seq(Units) /\ Len(r) = s
  <2>1. r \in Seq(Units)
    BY <1>3, <1>5, SeqDef
  <2>2. DOMAIN r = 1..s
    BY <1>4
  <2>. QED BY <1>3, <2>1, <2>2, LenProperties
<1>7. /\ both \in Seq(Units) /\ Len(both) = n + Len(r)
      /\ \A i \in 1..(n + Len(r)) :
           both[i] = IF i <= n THEN file[i] ELSE r[i - n]
  BY <1>6, ConcatProperties DEF both, n
<1>8. file' \in Seq(Units) /\ Len(file') = n + s /\ DOMAIN file' = 1..(n + s)
  BY <1>1, <1>6, <1>7, EndsAre
<1>9. \A i \in 1..n : file'[i] = file[i]
  BY <1>1, <1>3, <1>6, <1>7
<1>10. \A i \in 1..(n + s) : i > n =>
         i - n \in 1..s /\ file'[i] = <<at, w, i - n>>
  <2>1. ASSUME NEW i \in 1..(n + s), i > n
        PROVE  i - n \in 1..s /\ file'[i] = <<at, w, i - n>>
    <3>1. i - n \in 1..s /\ ~(i <= n)
      BY <1>3, <2>1
    <3>2. both[i] = r[i - n]
      BY <1>6, <1>7, <3>1
    <3>. QED BY <1>1, <1>4, <3>1, <3>2
  <2>. QED BY <2>1
<1>11. Window(file', file, 0)
  <2>1. 0 + n <= n + s /\ \A i \in 1..n : 0 + i = i
    BY <1>3
  <2>. QED BY <1>8, <1>9, <2>1 DEF Window, n
<1>12. ASSUME NEW c \in Cases, NEW k \in Nat
       PROVE  Cardinality(Begun(c, file', k)) + written[c]
                <= Cardinality(Begun(c, file, k)) + written'[c]
  <2> DEFINE S == Begun(c, file', k)
             T == Begun(c, file, k)
  <2>1. /\ IsFiniteSet(S) /\ Cardinality(S) \in Nat
        /\ IsFiniteSet(T) /\ Cardinality(T) \in Nat
    BY <1>8, BegunIs
  <2>2. ASSUME NEW p \in S
        PROVE  p \in T \/ (c = at /\ p = n + 1)
    <3>1. p \in 1..(n + s) /\ p > k /\ file'[p][1] = c /\ file'[p][3] = 1
      BY <1>8 DEF Begun
    <3>2. CASE p <= n
      <4>1. p \in 1..n
        BY <1>3, <3>1, <3>2
      <4>. QED BY <1>3, <1>9, <3>1, <4>1 DEF Begun
    <3>3. CASE ~(p <= n)
      <4>1. p > n
        BY <1>3, <3>1, <3>3
      <4>2. file'[p] = <<at, w, p - n>>
        BY <1>10, <3>1, <4>1
      <4>3. c = at /\ p - n = 1
        BY <3>1, <4>2
      <4>. QED BY <1>3, <3>1, <4>3
    <3>. QED BY <3>2, <3>3
  <2> HIDE DEF S, T
  <2>3. CASE c = at
    <3>1. written[c] \in Nat /\ written'[c] = written[c] + 1
      BY <1>1, <2>3
    <3>2. S \subseteq T \cup {n + 1}
      BY <2>2
    <3>3. /\ IsFiniteSet(T \cup {n + 1})
          /\ Cardinality(T \cup {n + 1}) \in
               {Cardinality(T), Cardinality(T) + 1}
      BY <2>1, FS_AddElement
    <3>4. Cardinality(S) <= Cardinality(T \cup {n + 1})
      BY <3>2, <3>3, FS_Subset
    <3>. QED BY <2>1, <3>1, <3>3, <3>4 DEF S, T
  <2>4. CASE c # at
    <3>1. written[c] \in Nat /\ written'[c] = written[c]
      BY <1>1, <2>4
    <3>2. S \subseteq T
      BY <2>2, <2>4
    <3>3. Cardinality(S) <= Cardinality(T)
      BY <2>1, <3>2, FS_Subset
    <3>. QED BY <2>1, <3>1, <3>3 DEF S, T
  <2>. QED BY <2>3, <2>4
<1>. QED BY <1>2, <1>8, <1>11, <1>12

\* What was true of the part that was read remains true.
LEMMA PrefixStays ==
  ASSUME NEW a \in Seq(Units), NEW b \in Seq(Units), Window(a, b, 0),
         NEW t \in Tails, PendingTrue(b, t)
  PROVE  /\ PendingTrue(a, t)
         /\ \A c \in Cases :
              EventsUpTo(c, a, t.offset) = EventsUpTo(c, b, t.offset)
<1> DEFINE o == t.offset
           line == Begin(b, o + 1)
           place == o - Len(t.pending)
<1>1. /\ o \in Nat /\ o <= Len(b) /\ line <= place
      /\ t.pending = Piece(b, place + 1, o)
      /\ IF t.dropping THEN o - line > LineLimit ELSE place = line
  BY DEF Tails, PendingTrue, Piece
<1>2. Len(a) \in Nat /\ Len(b) \in Nat /\ Len(b) <= Len(a)
  BY EndsAre DEF Window
<1>3. \A p \in 1..Len(b) : p \in Ends(b) <=> p \in Ends(a)
  <2>1. \A p \in 1..Len(b) : p \in Ends(b) <=> 0 + p \in Ends(a)
    BY WindowEnds
  <2>2. \A p \in 1..Len(b) : 0 + p = p
    BY <1>2
  <2>. QED BY <2>1, <2>2
<1>4. \A p \in 1..(Len(b) + 1) :
        Begin(a, p) = Begin(b, p) /\ Line(b, p) = Line(a, p)
  <2>1. ASSUME NEW p \in 1..(Len(b) + 1)
        PROVE  Begin(a, p) = Begin(b, p) /\ Line(b, p) = Line(a, p)
    <3> DEFINE q == 0 + p
    <3>1. q = p /\ p \in Nat \ {0}
      BY <1>2
    <3> HIDE DEF q
    <3>2. Begin(a, q) \in 0..Len(a) /\ Begin(b, p) \in 0..Len(b)
      BY <3>1, BeginIs
    <3>3. Begin(a, q) >= 0
      BY <1>2, <3>2
    <3>4. Begin(a, q) = 0 + Begin(b, p) /\ Line(b, p) = Line(a, q)
      BY <3>3, WindowLine DEF q
    <3>. QED BY <1>2, <3>1, <3>2, <3>4
  <2>. QED BY <2>1
<1> HIDE DEF o, place
<1>5. PendingTrue(a, t)
  <2>1. o + 1 \in 1..(Len(b) + 1)
    BY <1>1, <1>2
  <2>2. Begin(a, o + 1) = line
    BY <1>4, <2>1
  <2>3. line \in Nat
    <3>1. o + 1 \in Nat \ {0}
      BY <1>1
    <3>. QED BY <1>2, <3>1, BeginIs
  <2>4. Len(t.pending) \in Nat /\ place = o - Len(t.pending)
    BY EndsAre DEF Tails, place, o
  <2>5. place \in 0..o
    BY <1>1, <2>3, <2>4
  <2>6. Piece(b, place + 1, o) = Piece(a, place + 1, o)
    <3> DEFINE m == place + 1
    <3>1. m \in 1..(Len(b) + 1) /\ o \in (m - 1)..Len(b)
      BY <1>1, <1>2, <2>5
    <3>2. 0 + m = m /\ 0 + o = o
      BY <1>1, <3>1, <1>2
    <3> HIDE DEF m
    <3>3. Piece(b, m, o) = Piece(a, 0 + m, 0 + o)
      BY <3>1, WindowPiece
    <3>. QED BY <3>2, <3>3 DEF m
  <2>7. o <= Len(a)
    BY <1>1, <1>2
  <2> HIDE DEF line
  <2>. QED BY <1>1, <2>2, <2>6, <2>7 DEF PendingTrue, Piece, o, place, line
<1>6. ASSUME NEW c \in Cases
      PROVE  EventsUpTo(c, a, o) = EventsUpTo(c, b, o)
  <2> DEFINE A == {p \in Ends(a) : p <= o}
             B == {p \in Ends(b) : p <= o}
  <2>1. \A p \in Ends(a) : p \in 1..Len(a)
    BY EndsAre
  <2>2. \A p \in Ends(b) : p \in 1..Len(b)
    BY EndsAre
  <2>3. \A p \in 1..Len(a) : p <= o => p \in 1..Len(b)
    BY <1>1, <1>2
  <2>4. A = B
    BY <1>3, <2>1, <2>2, <2>3
  <2>5. \A p \in B : Line(b, p) = Line(a, p)
    <3>1. \A p \in B : p \in 1..(Len(b) + 1)
      BY <1>2, <2>2
    <3>. QED BY <1>4, <3>1
  <2>6. {p \in A : Counts(c, Line(a, p))} = {p \in B : Counts(c, Line(b, p))}
    BY <2>4, <2>5
  <2>. QED BY <2>6 DEF EventsUpTo, EventsOf
<1>. QED BY <1>5, <1>6 DEF o

\* A tail that has read nothing.
LEMMA FreshTail ==
  ASSUME NEW f \in Seq(Units), NEW t, t.offset = 0, t.pending = <<>>,
         t.dropping = FALSE
  PROVE  /\ PendingTrue(f, t)
         /\ \A c \in Cases : EventsUpTo(c, f, 0) = 0
         /\ \A k : \A c \in Cases : Cardinality(Begun(c, <<>>, k)) = 0
<1>1. Begin(f, 0 + 1) = 0
  <2> DEFINE p == 0 + 1
  <2>1. p \in Nat \ {0} /\ p = 1
    OBVIOUS
  <2> HIDE DEF p
  <2>2. Begin(f, p) \in 0..Len(f) /\ Begin(f, p) < p /\ Len(f) \in Nat
    BY <2>1, BeginIs, EndsAre
  <2>. QED BY <2>1, <2>2 DEF p
<1>2. 0 - Len(<<>>) = 0 /\ Len(f) \in Nat
  <2>1. 0 - Len(<<>>) = 0
    <3> DEFINE l == Len(<<>>)
    <3>1. l = 0
      BY EmptySeq
    <3> HIDE DEF l
    <3>2. 0 - l = 0
      BY <3>1
    <3>. QED BY <3>2 DEF l
  <2>2. Len(f) \in Nat
    BY EndsAre
  <2>. QED BY <2>1, <2>2
<1>3. SubSeq(f, 0 + 1, 0) = <<>>
  BY SubSeqEmpty
<1>4. PendingTrue(f, t)
  BY <1>1, <1>2, <1>3 DEF PendingTrue
<1>5. ASSUME NEW c \in Cases PROVE EventsUpTo(c, f, 0) = 0
  <2>1. \A p \in Ends(f) : p \in 1..Len(f)
    BY EndsAre
  <2>2. \A p \in 1..Len(f) : ~(p <= 0)
    BY <1>2
  <2>3. {p \in {q \in Ends(f) : q <= 0} : Counts(c, Line(f, p))} = {}
    BY <2>1, <2>2
  <2>4. EventsUpTo(c, f, 0) = Cardinality({})
    BY <2>3 DEF EventsUpTo, EventsOf
  <2>. QED BY <2>4, FS_EmptySet
<1>6. ASSUME NEW c \in Cases, NEW k PROVE Cardinality(Begun(c, <<>>, k)) = 0
  <2>1. Begun(c, <<>>, k) = {}
    BY DEF Begun
  <2>. QED BY <2>1, FS_EmptySet
<1>. QED BY <1>4, <1>5, <1>6

-----------------------------------------------------------------------------
(* The counts of the display *)

CountParts == seenAt <= replaced /\ ReadOnce

CountsKnown ==
  ~misled /\ seenAt = replaced => PendingTrue(file, tail) /\ CountedTrue

\* What a poll reads is added to what was counted, or replaces it.
ReadInto(from, base, to, bytes, ends) ==
  /\ Reads(from, to, bytes, ends, tail')
  /\ from.offset <= Len(file)
  /\ \A c \in Cases : live'[c] =
       base[c] + IF results[task][c] = "none"
                 THEN EventsOf(c, bytes, ends) ELSE 0
  /\ \/ /\ from.offset = 0 /\ from.pending = <<>>
        /\ from.dropping = FALSE
        /\ \A c \in Cases : base[c] = 0
     \/ /\ from = tail /\ base = live
        /\ misled' = (misled \/ seenAt # replaced)

LEMMA CountShape ==
  ASSUME TailShape, CountEvents,
         UNCHANGED <<file, inode, replaced, written>>
  PROVE  /\ TailShape'
         /\ seenAt' = replaced
         /\ \E from \in Tails, base \in [Cases -> Nat] : \E to, bytes, ends :
              ReadInto(from, base, to, bytes, ends)
<1> DEFINE new == [NoTail EXCEPT !.identity = inode]
           from == IF Reset THEN new ELSE tail
           base == IF Reset THEN NoCounts ELSE live
           read == ReadFrom(from)
<1>1. /\ file \in Seq(Units) /\ written \in [Cases -> Nat]
      /\ tail \in Tails
      /\ inode \in Inodes /\ replaced \in Nat /\ seenAt \in Nat
      /\ live \in [Cases -> Nat] /\ misled \in BOOLEAN
  BY DEF TailShape
<1>2. Len(file) \in Nat
  BY <1>1, EndsAre
<1>3. new \in Tails /\ new.offset = 0 /\ new.pending = <<>>
      /\ new.dropping = FALSE
  <2>1. <<>> \in Seq(Units)
    BY EmptySeq
  <2>2. NoTail \in Tails
    BY <2>1 DEF NoTail, Tails
  <2>3. new \in Tails
    BY <1>1, <2>2 DEF Tails
  <2>4. /\ new.offset = NoTail.offset /\ new.pending = NoTail.pending
        /\ new.dropping = NoTail.dropping
    BY <2>2 DEF Tails
  <2>. QED BY <2>3, <2>4 DEF NoTail
<1>4. from \in Tails /\ from.offset <= Len(file)
  <2>1. CASE Reset
    BY <1>2, <1>3, <2>1
  <2>2. CASE ~Reset
    <3>1. ~(Len(file) < tail.offset)
      BY <2>2 DEF Reset
    <3>2. tail.offset \in Nat
      BY <1>1 DEF Tails
    <3>. QED BY <1>1, <1>2, <2>2, <3>1, <3>2
  <2>. QED BY <2>1, <2>2
<1>5. base \in [Cases -> Nat]
  BY <1>1 DEF NoCounts
<1>6. /\ tail' = read.tail
      /\ live' = [c \in Cases |->
                    (IF Reset THEN 0 ELSE live[c])
                    + IF results[task][c] = "none"
                      THEN EventsOf(c, read.bytes, read.ends) ELSE 0]
      /\ misled' = IF Reset THEN FALSE
                   ELSE misled \/ (seenAt # replaced /\ tail.identity = inode)
      /\ seenAt' = replaced
  BY DEF CountEvents
<1>7. \A c \in Cases : base[c] = IF Reset THEN 0 ELSE live[c]
  BY DEF NoCounts
<1>8. \/ /\ from.offset = 0 /\ from.pending = <<>> /\ from.dropping = FALSE
         /\ \A c \in Cases : base[c] = 0
      \/ /\ from = tail /\ base = live
         /\ misled' = (misled \/ seenAt # replaced)
  <2>1. CASE Reset
    BY <1>3, <1>7, <2>1
  <2>2. CASE ~Reset
    BY <1>6, <2>2 DEF Reset
  <2>. QED BY <2>1, <2>2
<1> DEFINE bytes == read.bytes
           ends == read.ends
<1> HIDE DEF from, base
<1>9. PICK to : Reads(from, to, bytes, ends, tail')
  <2>1. \E to : Reads(from, to, read.bytes, read.ends, read.tail)
    BY <1>1, <1>4, ReadIs
  <2>. QED BY <1>6, <2>1
<1> HIDE DEF read
<1>10. \A c \in Cases : live'[c] =
         base[c] + IF results[task][c] = "none"
                   THEN EventsOf(c, bytes, ends) ELSE 0
  BY <1>6, <1>7
<1> HIDE DEF bytes, ends
<1>11. \A c \in Cases : EventsOf(c, bytes, ends) \in Nat
  BY <1>1, <1>4, <1>9, ReadsOnce
<1>12. TailShape'
  <2>1. tail' \in Tails
    BY <1>9 DEF Reads
  <2>2. live' \in [Cases -> Nat]
    <3>1. \A c \in Cases : live'[c] \in Nat
      BY <1>5, <1>10, <1>11
    <3>2. live' = [c \in Cases |-> live'[c]]
      BY <1>6
    <3>. QED BY <3>1, <3>2
  <2>3. misled' \in BOOLEAN
    BY <1>1, <1>6
  <2>. QED BY <1>1, <1>6, <2>1, <2>2, <2>3 DEF TailShape
<1>13. ReadInto(from, base, to, bytes, ends)
  BY <1>4, <1>8, <1>9, <1>10 DEF ReadInto
<1>14. \E fr \in Tails, ba \in [Cases -> Nat] : \E t, by, en :
         ReadInto(fr, ba, t, by, en)
  BY ONLY <1>4, <1>5, <1>13
<1>. QED BY <1>6, <1>12, <1>14

LEMMA CountStep ==
  ASSUME TailShape, CountParts, CountsKnown, CountEvents,
         UNCHANGED <<file, inode, replaced, written, results, task>>
  PROVE  TailShape' /\ CountParts' /\ CountsKnown'
<1>1. /\ file \in Seq(Units) /\ written \in [Cases -> Nat]
      /\ tail \in Tails /\ live \in [Cases -> Nat]
      /\ replaced \in Nat /\ misled \in BOOLEAN
  BY DEF TailShape
<1>2. /\ TailShape' /\ seenAt' = replaced
  BY CountShape
<1>a. PICK from \in Tails, base \in [Cases -> Nat] :
        \E to, bytes, ends : ReadInto(from, base, to, bytes, ends)
  BY CountShape
<1>b. PICK to, bytes, ends : ReadInto(from, base, to, bytes, ends)
  BY <1>a
<1>3. /\ Reads(from, to, bytes, ends, tail')
      /\ from.offset <= Len(file)
      /\ \A c \in Cases : live'[c] =
           base[c] + IF results[task][c] = "none"
                     THEN EventsOf(c, bytes, ends) ELSE 0
      /\ \/ /\ from.offset = 0 /\ from.pending = <<>>
            /\ from.dropping = FALSE
            /\ \A c \in Cases : base[c] = 0
         \/ /\ from = tail /\ base = live
            /\ misled' = (misled \/ seenAt # replaced)
  BY <1>b DEF ReadInto
<1>4. tail'.offset = to
  BY <1>3 DEF Reads
\* Nothing is read twice.
<1>5. ASSUME NEW c \in Cases
      PROVE  /\ Cardinality(Begun(c, file, 0)) <= written[c]
             /\ live'[c] + Cardinality(Begun(c, tail'.pending, 0))
                  + Cardinality(Begun(c, file, to)) <= written[c]
  <2> DEFINE e == EventsOf(c, bytes, ends)
             x == Cardinality(Begun(c, tail'.pending, 0))
             y == Cardinality(Begun(c, file, to))
             x0 == Cardinality(Begun(c, from.pending, 0))
             y0 == Cardinality(Begun(c, file, from.offset))
             b == base[c]
             l == live'[c]
             w == written[c]
  <2>1. e \in Nat /\ e + x + y <= x0 + y0
    BY <1>1, <1>3, ReadsOnce
  <2>2. /\ x \in Nat /\ y \in Nat /\ x0 \in Nat /\ y0 \in Nat
        /\ b \in Nat /\ w \in Nat
    <3>1. tail'.pending \in Seq(Units) /\ from.pending \in Seq(Units)
      BY <1>3 DEF Reads, Tails
    <3>2. x \in Nat /\ y \in Nat /\ x0 \in Nat /\ y0 \in Nat
      BY <1>1, <3>1, BegunIs
    <3>. QED BY <1>1, <1>3, <3>2
  <2>3. l = b \/ l = b + e
    <3>1. CASE results[task][c] = "none"
      BY <1>3, <3>1
    <3>2. CASE results[task][c] # "none"
      BY <1>3, <2>2, <3>2
    <3>. QED BY <3>1, <3>2
  <2>4. Cardinality(Begun(c, file, 0)) <= w
    BY DEF CountParts, ReadOnce
  <2>5. b + x0 + y0 <= w
    <3>1. CASE /\ from.offset = 0 /\ from.pending = <<>>
               /\ from.dropping = FALSE
               /\ \A d \in Cases : base[d] = 0
      <4>1. x0 = 0 /\ b = 0
        BY <3>1, <1>1, FreshTail
      <4>2. y0 <= w
        BY <2>4, <3>1
      <4> HIDE DEF x0, y0, b, w
      <4>. QED BY <2>2, <4>1, <4>2
    <3>2. CASE from = tail /\ base = live
      BY <3>2 DEF CountParts, ReadOnce
    <3>. QED BY <1>3, <3>1, <3>2
  <2> HIDE DEF e, x, y, x0, y0, b, l, w
  <2>6. l + x + y <= w
    BY ONLY <2>1, <2>2, <2>3, <2>5
  <2>. QED BY <2>4, <2>6 DEF x, y, l, w
<1>6. CountParts'
  <2>1. seenAt' <= replaced'
    BY <1>1, <1>2
  <2>2. ReadOnce'
    BY <1>4, <1>5 DEF ReadOnce
  <2>. QED BY <2>1, <2>2 DEF CountParts
<1>7. CountsKnown'
  <2>1. SUFFICES ASSUME ~misled' PROVE PendingTrue(file, tail') /\ CountedTrue'
    BY DEF CountsKnown
  <2>2. /\ PendingTrue(file, from)
        /\ \A c \in Cases : results[task][c] = "none" =>
             base[c] = EventsUpTo(c, file, from.offset)
    <3>1. CASE /\ from.offset = 0 /\ from.pending = <<>>
               /\ from.dropping = FALSE
               /\ \A c \in Cases : base[c] = 0
      BY <1>1, <3>1, FreshTail
    <3>2. CASE /\ from = tail /\ base = live
               /\ misled' = (misled \/ seenAt # replaced)
      <4>1. ~misled /\ seenAt = replaced
        BY <1>1, <2>1, <3>2
      <4>. QED BY <3>2, <4>1 DEF CountsKnown, CountedTrue
    <3>. QED BY <1>3, <3>1, <3>2
  <2>3. /\ PendingTrue(file, tail')
        /\ \A c \in Cases : EventsUpTo(c, file, to) =
             EventsUpTo(c, file, from.offset) + EventsOf(c, bytes, ends)
    BY <1>1, <1>3, <2>2, ReadFollows
  <2>4. ASSUME NEW c \in Cases, results[task][c] = "none"
        PROVE  live'[c] = EventsUpTo(c, file, to)
    BY <1>3, <2>2, <2>3, <2>4
  <2>5. CountedTrue'
    BY <1>4, <2>4 DEF CountedTrue
  <2>. QED BY <2>3, <2>5
<1>. QED BY <1>2, <1>6, <1>7

\* Outside a task only the shapes matter.
LEMMA OutsideTask ==
  ASSUME TailShape', stage' \notin {"running", "reading"}
  PROVE  CountInv'
  BY DEF CountInv, InTask

\* Steps that touch neither the file nor what was read of it.
LEMMA NothingRead ==
  ASSUME CountInv, UNCHANGED <<file, inode, replaced, written, tail, seenAt,
                               misled, live>>,
         InTask' => InTask /\ UNCHANGED <<results, task>>
  PROVE  CountInv'
<1>1. TailShape'
  BY DEF CountInv, TailShape
<1>2. ASSUME InTask' PROVE CountParts' /\ CountsKnown'
  <2>1. CountParts /\ CountsKnown /\ UNCHANGED <<results, task>>
    BY <1>2 DEF CountInv, CountParts, CountsKnown
  <2>2. CountParts'
    BY <2>1 DEF CountParts, ReadOnce
  <2>3. CountsKnown'
    BY <2>1 DEF CountsKnown, CountedTrue
  <2>. QED BY <2>2, <2>3
<1>. QED BY <1>1, <1>2 DEF CountInv, CountParts, CountsKnown

LEMMA InitCount == Init => CountInv
<1> SUFFICES ASSUME Init PROVE CountInv
  OBVIOUS
<1>1. file = <<>> /\ <<>> \in Seq(Units)
  BY EmptySeq DEF Init
<1>2. tail \in Tails
  BY <1>1 DEF Init, NoTail, Tails
<1>. QED BY <1>1, <1>2 DEF Init, CountInv, TailShape, InTask, NoCounts

LEMMA StartCount ==
  ASSUME StartTask
  PROVE  CountInv'
<1>1. /\ file' = <<>> /\ inode' \in Inodes /\ replaced' = 0
      /\ written' = NoCounts /\ tail' = NoTail /\ seenAt' = 0
      /\ misled' = FALSE /\ live' = NoCounts
  BY DEF StartTask, NewDisplay
<1>2. <<>> \in Seq(Units)
  BY EmptySeq
<1>3. NoTail \in Tails /\ NoTail.offset = 0 /\ NoTail.pending = <<>>
      /\ NoTail.dropping = FALSE
  BY <1>2 DEF NoTail, Tails
<1>4. TailShape'
  BY <1>1, <1>2, <1>3 DEF TailShape, NoCounts
<1>5. /\ PendingTrue(<<>>, NoTail)
      /\ \A c \in Cases : EventsUpTo(c, <<>>, 0) = 0
      /\ \A k : \A c \in Cases : Cardinality(Begun(c, <<>>, k)) = 0
  BY <1>2, <1>3, FreshTail
<1>6. CountParts'
  <2>1. \A c \in Cases : live'[c] = 0 /\ written'[c] = 0
    BY <1>1 DEF NoCounts
  <2>2. ReadOnce'
    BY <1>1, <1>3, <1>5, <2>1 DEF ReadOnce
  <2>. QED BY <1>1, <2>2 DEF CountParts
<1>7. CountsKnown'
  <2>1. \A c \in Cases : live'[c] = 0
    BY <1>1 DEF NoCounts
  <2>2. CountedTrue'
    BY <1>1, <1>3, <1>5, <2>1 DEF CountedTrue
  <2>. QED BY <1>1, <1>5, <2>2 DEF CountsKnown
<1>. QED BY <1>4, <1>6, <1>7 DEF CountInv, CountParts, CountsKnown

LEMMA EmitCount ==
  ASSUME CountInv, at \in Cases, Emit
  PROVE  CountInv'
<1>1. /\ TailShape /\ CountParts /\ CountsKnown
      /\ UNCHANGED <<inode, replaced, tail, seenAt, misled, live, results,
                     task>>
  BY DEF CountInv, Emit, CountParts, CountsKnown, tailVars, displayVars,
         runVars
<1>2. /\ file \in Seq(Units) /\ written \in [Cases -> Nat] /\ tail \in Tails
      /\ live \in [Cases -> Nat]
  BY <1>1 DEF TailShape
<1>3. /\ file' \in Seq(Units) /\ Window(file', file, 0)
      /\ written' \in [Cases -> Nat]
      /\ \A c \in Cases, k \in Nat :
           Cardinality(Begun(c, file', k)) + written[c]
             <= Cardinality(Begun(c, file, k)) + written'[c]
  BY <1>2, AppendStep
<1>4. TailShape'
  BY <1>1, <1>3 DEF TailShape
<1>5. CountParts'
  <2>1. ASSUME NEW c \in Cases
        PROVE  /\ Cardinality(Begun(c, file', 0)) <= written'[c]
               /\ live[c] + Cardinality(Begun(c, tail.pending, 0))
                    + Cardinality(Begun(c, file', tail.offset))
                  <= written'[c]
    <3> DEFINE x == Cardinality(Begun(c, tail.pending, 0))
               y == Cardinality(Begun(c, file, tail.offset))
               y1 == Cardinality(Begun(c, file', tail.offset))
               z == Cardinality(Begun(c, file, 0))
               z1 == Cardinality(Begun(c, file', 0))
               l == live[c]
               w == written[c]
               w1 == written'[c]
    <3>1. tail.pending \in Seq(Units) /\ tail.offset \in Nat
      BY <1>2 DEF Tails
    <3>2. /\ x \in Nat /\ y \in Nat /\ y1 \in Nat /\ z \in Nat /\ z1 \in Nat
          /\ l \in Nat /\ w \in Nat /\ w1 \in Nat
      BY <1>2, <1>3, <3>1, BegunIs
    <3>3. y1 + w <= y + w1 /\ z1 + w <= z + w1
      BY <1>3, <3>1
    <3>4. z <= w /\ l + x + y <= w
      BY <1>1 DEF CountParts, ReadOnce
    <3> HIDE DEF x, y, y1, z, z1, l, w, w1
    <3>5. z1 <= w1 /\ l + x + y1 <= w1
      BY ONLY <3>2, <3>3, <3>4
    <3>. QED BY <3>5 DEF x, y1, z1, l, w1
  <2>2. ReadOnce'
    BY <1>1, <2>1 DEF ReadOnce
  <2>. QED BY <1>1, <2>2 DEF CountParts
<1>6. CountsKnown'
  <2>1. SUFFICES ASSUME ~misled, seenAt = replaced
                 PROVE  PendingTrue(file', tail) /\ CountedTrue'
    BY <1>1 DEF CountsKnown
  <2>2. PendingTrue(file, tail) /\ CountedTrue
    BY <1>1, <2>1 DEF CountsKnown
  <2>3. /\ PendingTrue(file', tail)
        /\ \A c \in Cases : EventsUpTo(c, file', tail.offset) =
                              EventsUpTo(c, file, tail.offset)
    BY <1>2, <1>3, <2>2, PrefixStays
  <2>. QED BY <1>1, <2>2, <2>3 DEF CountedTrue
<1>. QED BY <1>4, <1>5, <1>6 DEF CountInv, CountParts, CountsKnown

\* A file that was replaced has no record more, and what is known of it waits
\* for the next read.
LEMMA DiscardCount ==
  ASSUME CountInv, NEW d, ReplaceWithout(d), UNCHANGED <<tailVars, live>>,
         InTask' => InTask
  PROVE  CountInv'
<1>1. /\ TailShape /\ UNCHANGED <<tail, seenAt, misled, live, written>>
      /\ inode' \in Inodes \ {inode} /\ replaced' = replaced + 1
  BY DEF CountInv, ReplaceWithout, tailVars
<1>2. /\ file \in Seq(Units) /\ written \in [Cases -> Nat] /\ tail \in Tails
      /\ live \in [Cases -> Nat] /\ replaced \in Nat /\ seenAt \in Nat
  BY <1>1 DEF TailShape
<1>3. file' \in Seq(Units) /\ Less(file', file)
  BY <1>2, ReplaceStep
<1>4. TailShape'
  BY <1>1, <1>3 DEF TailShape
<1>5. ASSUME InTask' PROVE CountParts' /\ CountsKnown'
  <2>1. CountParts
    BY <1>5 DEF CountInv, CountParts
  <2>2. ASSUME NEW c \in Cases
        PROVE  /\ Cardinality(Begun(c, file', 0)) <= written[c]
               /\ live[c] + Cardinality(Begun(c, tail.pending, 0))
                    + Cardinality(Begun(c, file', tail.offset))
                  <= written[c]
    <3> DEFINE x == Cardinality(Begun(c, tail.pending, 0))
               y == Cardinality(Begun(c, file, tail.offset))
               y1 == Cardinality(Begun(c, file', tail.offset))
               z == Cardinality(Begun(c, file, 0))
               z1 == Cardinality(Begun(c, file', 0))
               l == live[c]
               w == written[c]
    <3>1. tail.pending \in Seq(Units) /\ tail.offset \in Nat
      BY <1>2 DEF Tails
    <3>2. /\ x \in Nat /\ y \in Nat /\ y1 \in Nat /\ z \in Nat /\ z1 \in Nat
          /\ l \in Nat /\ w \in Nat
      BY <1>2, <1>3, <3>1, BegunIs
    <3>3. y1 <= y /\ z1 <= z
      BY <1>3, <3>1 DEF Less
    <3>4. z <= w /\ l + x + y <= w
      BY <2>1 DEF CountParts, ReadOnce
    <3> HIDE DEF x, y, y1, z, z1, l, w
    <3>5. z1 <= w /\ l + x + y1 <= w
      BY ONLY <3>2, <3>3, <3>4
    <3>. QED BY <3>5 DEF x, y1, z1, l, w
  <2>3. ReadOnce'
    BY <1>1, <2>2 DEF ReadOnce
  <2>4. seenAt' <= replaced' /\ seenAt' # replaced'
    BY <1>1, <1>2, <2>1 DEF CountParts
  <2>. QED BY <2>3, <2>4 DEF CountParts, CountsKnown
<1>. QED BY <1>4, <1>5 DEF CountInv, CountParts, CountsKnown

LEMMA NextCount == RunInv /\ WordInv /\ CountInv /\ [Next]_vars => CountInv'
<1> SUFFICES ASSUME RunInv, WordInv, CountInv, [Next]_vars
             PROVE  CountInv'
  OBVIOUS
<1>1. TailShape
  BY DEF CountInv
<1>2. InTask => at \in 1..(NumCases + 1) /\ task <= NumTasks
  BY DEF WordInv, RowsOfDisk, RunInv, FailedTrue, InTask
<1>3. at <= NumCases /\ InTask => at \in Cases
  BY <1>2, PlanAssumption DEF Cases
<1>4. CASE Interrupt
  BY <1>4, NothingRead DEF Interrupt, InTask, fileVars, tailVars, displayVars
<1>5. CASE StartTask
  BY <1>5, StartCount
<1>6. CASE SkipTask
  <2>1. TailShape'
    BY <1>1, <1>6 DEF SkipTask, TailShape, fileVars, tailVars, NoCounts
  <2>2. stage' = "starting"
    BY <1>6 DEF SkipTask, EndTask
  <2>. QED BY <2>1, <2>2, OutsideTask
<1>7. CASE Abort
  BY <1>7, NothingRead DEF Abort, InTask, fileVars, tailVars, displayVars
<1>8. CASE FinishRun
  BY <1>8, NothingRead DEF FinishRun, InTask, fileVars, tailVars, displayVars
<1>9. CASE Emit
  <2>1. at \in Cases
    BY <1>3, <1>9 DEF Emit
  <2>. QED BY <1>9, <2>1, EmitCount
<1>10. CASE Commit
  BY <1>10, NothingRead
     DEF Commit, InTask, fileVars, tailVars, displayVars, runVars
<1>11. CASE Discard
  <2>1. ReplaceWithout(at) /\ UNCHANGED <<tailVars, live>> /\ InTask
    BY <1>11 DEF Discard, displayVars
  <2>. QED BY <2>1, DiscardCount
<1>12. CASE AppendRow
  BY <1>12, NothingRead
     DEF AppendRow, InTask, fileVars, tailVars, displayVars, runVars
<1>13. CASE Exit
  BY <1>13, NothingRead
     DEF Exit, InTask, fileVars, tailVars, displayVars, runVars
<1>14. CASE Reap
  BY <1>14, NothingRead DEF Reap, InTask, fileVars, tailVars, displayVars
<1>15. CASE Recover
  <2>1. UNCHANGED <<tailVars, live>> /\ stage = "recovering"
        /\ stage' \in {"recovering", "reporting"}
    BY <1>15 DEF Recover, displayVars
  <2>2. UNCHANGED fileVars \/ \E d : ReplaceWithout(d)
    <3>1. CASE Unrecovered = {}
      BY <1>15, <3>1 DEF Recover
    <3>2. CASE Unrecovered # {}
      <4> DEFINE d == CHOOSE d \in Unrecovered :
                        \A e \in Unrecovered : d <= e
      <4>1. UNCHANGED fileVars \/ ReplaceWithout(d)
        BY <1>15, <3>2 DEF Recover
      <4> HIDE DEF d
      <4>. QED BY <4>1
    <3>. QED BY <3>1, <3>2
  <2>3. CASE UNCHANGED fileVars
    BY <2>1, <2>3, NothingRead DEF InTask, fileVars, tailVars
  <2>4. ASSUME NEW d, ReplaceWithout(d) PROVE CountInv'
    BY <2>1, <2>4, DiscardCount DEF InTask
  <2>. QED BY <2>2, <2>3, <2>4
<1>16. CASE PollEvents
  <2>1. /\ CountEvents /\ InTask
        /\ UNCHANGED <<file, inode, replaced, written, results, task>>
    BY <1>16 DEF PollEvents, fileVars, InTask
  <2>2. CountParts /\ CountsKnown
    BY <2>1 DEF CountInv, CountParts, CountsKnown
  <2>3. TailShape' /\ CountParts' /\ CountsKnown'
    BY <1>1, <2>1, <2>2, CountStep
  <2>. QED BY <2>3 DEF CountInv, CountParts, CountsKnown
<1>17. CASE PollResult
  <2>1. /\ InTask /\ InTask' /\ task' = task
        /\ UNCHANGED <<file, inode, replaced, written, tail, seenAt, misled,
                       live>>
    BY <1>17 DEF PollResult, fileVars, tailVars, InTask
  <2>2. \A c \in Cases : results'[task][c] = "none" =>
                           results[task][c] = "none"
    <3>1. results' = [results EXCEPT ![task] =
            [c \in Cases |-> IF taskFile[c] = "none" THEN @[c]
                             ELSE taskFile[c]]]
      BY <1>17 DEF PollResult, Show
    <3>2. task \in Tasks /\ results \in [Tasks -> [Cases -> CaseStates]]
      BY <1>2, <2>1, PlanAssumption DEF RunInv, RunShape, Tasks
    <3>3. results'[task] =
            [c \in Cases |-> IF taskFile[c] = "none" THEN results[task][c]
                             ELSE taskFile[c]]
      BY <3>1, <3>2
    <3>. QED BY <3>3
  <2>3. CountParts /\ CountsKnown
    BY <2>1 DEF CountInv, CountParts, CountsKnown
  <2>4. TailShape'
    BY <1>1, <2>1 DEF TailShape
  <2>5. CountParts'
    BY <2>1, <2>3 DEF CountParts, ReadOnce
  <2>6. CountsKnown'
    BY <2>1, <2>2, <2>3 DEF CountsKnown, CountedTrue
  <2>. QED BY <2>4, <2>5, <2>6 DEF CountInv, CountParts, CountsKnown
<1>18. CASE ReportTask
  <2>1. /\ CountEvents /\ UNCHANGED <<file, inode, replaced, written>>
        /\ stage' = "starting"
    BY <1>18 DEF ReportTask, EndTask, fileVars
  <2>2. TailShape'
    BY <1>1, <2>1, CountShape
  <2>. QED BY <2>1, <2>2, OutsideTask
<1>19. CASE Over
  BY <1>19, NothingRead
     DEF Over, vars, runVars, fileVars, tailVars, displayVars, InTask
<1>20. CASE UNCHANGED vars
  BY <1>20, NothingRead
     DEF vars, runVars, fileVars, tailVars, displayVars, InTask
<1>. QED BY <1>4, <1>5, <1>6, <1>7, <1>8, <1>9, <1>10, <1>11, <1>12, <1>13,
            <1>14, <1>15, <1>16, <1>17, <1>18, <1>19, <1>20 DEF Next

(***************************************************************************)
(* Whatever the cuts between reads, however long the records, however      *)
(* often the file is replaced and whatever inode it gets: the display      *)
(* never counts a record twice (EventTail.read, TerminalProgress._poll,    *)
(* _event; case_recovery.discard_case), and while it was not misled it     *)
(* counts what the file says as far as it was read.                        *)
(***************************************************************************)
THEOREM CountsCorrect == Spec => []CountsTrue
<1>1. RunInv /\ WordInv /\ CountInv => CountsTrue
  <2> SUFFICES ASSUME RunInv, CountInv,
                      NEW c \in Cases,
                      results[IF task <= NumTasks THEN task ELSE 1][c] = "none",
                      InTask
               PROVE  /\ live[c] <= written[c]
                      /\ ~misled /\ seenAt = replaced =>
                           live[c] =
                             EventsOf(c, file,
                                      {p \in Ends(file) : p <= tail.offset})
    BY DEF CountsTrue
  <2>1. task <= NumTasks /\ results[task][c] = "none"
    BY DEF RunInv, FailedTrue, InTask
  <2>2. /\ TailShape /\ ReadOnce
        /\ ~misled /\ seenAt = replaced => CountedTrue
    BY DEF CountInv
  <2>3. live[c] <= written[c]
    <3> DEFINE x == Cardinality(Begun(c, tail.pending, 0))
               y == Cardinality(Begun(c, file, tail.offset))
               l == live[c]
               w == written[c]
    <3>1. l + x + y <= w
      BY <2>2 DEF ReadOnce
    <3>2. x \in Nat /\ y \in Nat /\ l \in Nat /\ w \in Nat
      <4>1. file \in Seq(Units) /\ tail.pending \in Seq(Units)
            /\ live \in [Cases -> Nat] /\ written \in [Cases -> Nat]
        BY <2>2 DEF TailShape, Tails
      <4>. QED BY <4>1, BegunIs
    <3> HIDE DEF x, y, l, w
    <3>3. l <= w
      BY ONLY <3>1, <3>2
    <3>. QED BY <3>3 DEF l, w
  <2>4. ~misled /\ seenAt = replaced =>
          live[c] = EventsUpTo(c, file, tail.offset)
    BY <2>1, <2>2 DEF CountedTrue
  <2>. QED BY <2>3, <2>4 DEF EventsUpTo
<1>. QED BY <1>1, InitRun, NextRun, InitWord, NextWord, InitCount, NextCount,
            PTL DEF Spec
=============================================================================
