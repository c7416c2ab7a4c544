---------------------------- MODULE TaskRunProofs ----------------------------
(***************************************************************************)
(* Proofs about TaskRun.tla, for any number of Cases, resources and        *)
(* interrupts, in three parts: the worker is dead before anything it uses  *)
(* is cleaned up or recovered; what was committed stays, and the files     *)
(* implement CaseCommitment.tla; the report of the task says what the disk *)
(* says.                                                                   *)
(***************************************************************************)
EXTENDS TaskRunProperties, TLAPS

-----------------------------------------------------------------------------
(***************************************************************************)
(* The worker.  Nothing it uses is cleaned up, and no Case is recovered,   *)
(* while it lives.                                                         *)
(***************************************************************************)
LEMMA InitKnown == Init => WorkerKnown
  BY DEF Init, WorkerKnown, WorkerDeadFirst, Alive

\* After kill_worker a worker the parent knows of is dead.
LEMMA KillKills ==
  ASSUME Kill
  PROVE  /\ worker' = worker
         /\ process => ~Alive'
         /\ ~Alive => ~Alive'
  BY DEF Kill, Alive

\* A worker that is dead, or was never born, takes no step; one that is alive
\* does not become unborn.
LEMMA WorkerStepAlive ==
  ASSUME WorkerStep
  PROVE  Alive /\ worker' # "unborn"
<1> USE DEF WorkerStep, InCase, Alive, Goes, Raise
<1>1. ASSUME SkipCase \/ GoOn \/ StartCase \/ Prepare \/ AwaitAck \/ Collect
      PROVE  Alive /\ worker' # "unborn"
  BY <1>1 DEF SkipCase, GoOn, StartCase, Prepare, AwaitAck, Collect
<1>2. ASSUME Record \/ Commit \/ Judge \/ Measure \/ Measured \/ Fail
      PROVE  Alive /\ worker' # "unborn"
  BY <1>2 DEF Record, Commit, Judge, Measure, Measured, Fail
<1>3. ASSUME CloseCase \/ Discard \/ SaveResult \/ FinishCase \/ Exit \/ Die
      PROVE  Alive /\ worker' # "unborn"
  BY <1>3 DEF CloseCase, Discard, SaveResult, FinishCase, Exit, Die, caseVars
<1> QED BY <1>1, <1>2, <1>3

\* Steps of the parent before the worker has to be dead.
LEMMA EarlyParentKnown ==
  ASSUME WorkerKnown,
         \/ OpenResource \/ Launch \/ Launched \/ Poll \/ PollAgain \/ TimeOut
         \/ \E c \in Cases : ReadPrepared(c) \/ Acknowledge(c)
  PROVE  WorkerKnown'
<1> USE DEF WorkerKnown, WorkerDeadFirst, Alive, Fails, runVars, workerVars,
            caseVars, localVars, processVars
<1>1. CASE OpenResource
  BY <1>1 DEF OpenResource
<1>2. CASE Launch
  BY <1>2 DEF Launch
<1>3. CASE Launched
  BY <1>3 DEF Launched
<1>4. CASE Poll
  BY <1>4 DEF Poll
<1>5. CASE PollAgain
  BY <1>5 DEF PollAgain
<1>6. CASE TimeOut
  BY <1>6, KillKills DEF TimeOut
<1>7. CASE \E c \in Cases : ReadPrepared(c) \/ Acknowledge(c)
  BY <1>7 DEF ReadPrepared, Acknowledge
<1> QED BY <1>1, <1>2, <1>3, <1>4, <1>5, <1>6, <1>7

\* Steps of the parent from the reading of the result on.
LEMMA LateParentKnown ==
  ASSUME WorkerKnown,
         \/ ReadResult \/ Reap \/ CloseHandle \/ Assemble \/ Decide
         \/ WriteOutcome \/ \E c \in Cases : RecoverCase(c)
  PROVE  WorkerKnown'
<1> USE DEF WorkerKnown, WorkerDeadFirst, Alive, runVars, workerVars,
            caseVars, localVars, processVars
<1>1. CASE ReadResult
  BY <1>1 DEF ReadResult
<1>2. CASE Reap
  BY <1>2, KillKills DEF Reap
<1>3. CASE CloseHandle
  BY <1>3 DEF CloseHandle
<1>4. CASE Assemble
  BY <1>4 DEF Assemble
<1>5. CASE Decide
  BY <1>5 DEF Decide
<1>6. CASE WriteOutcome
  BY <1>6 DEF WriteOutcome
<1>7. CASE \E c \in Cases : RecoverCase(c)
  BY <1>7 DEF RecoverCase
<1> QED BY <1>1, <1>2, <1>3, <1>4, <1>5, <1>6, <1>7

LEMMA StepKnown == WorkerKnown /\ [Next]_vars => WorkerKnown'
<1> SUFFICES ASSUME WorkerKnown, [Next]_vars PROVE WorkerKnown'
  OBVIOUS
<1>1. CASE Interrupt
  <2>1. parent' = parent /\ process' = process
    BY <1>1 DEF Interrupt, runVars
  <2>2. worker' = worker /\ (~Alive => ~Alive')
    BY <1>1, KillKills DEF Interrupt, Alive, workerVars, processVars
  <2> QED BY <2>1, <2>2 DEF WorkerKnown, WorkerDeadFirst
<1>2. CASE ParentStep
  BY <1>2, EarlyParentKnown, LateParentKnown DEF ParentStep
<1>3. CASE WorkerStep
  <2>1. parent' = parent /\ process' = process
    BY <1>3 DEF WorkerStep, parentVars, runVars
  <2>2. Alive /\ worker # "unborn"
    BY <1>3, WorkerStepAlive DEF Alive
  <2> QED BY <2>1, <2>2 DEF WorkerKnown, WorkerDeadFirst
<1>4. CASE Over \/ UNCHANGED vars
  BY <1>4 DEF Over, vars, parentVars, runVars, workerVars, processVars,
              WorkerKnown, WorkerDeadFirst, Alive
<1> QED BY <1>1, <1>2, <1>3, <1>4 DEF Next

(***************************************************************************)
(* On every path out of the try the worker is dead before resources are    *)
(* cleaned up and Cases are recovered (run_coordinator.py:353-382).        *)
(***************************************************************************)
THEOREM WorkerDead == Spec => []WorkerDeadFirst
<1>1. WorkerKnown => WorkerDeadFirst
  BY DEF WorkerKnown
<1> QED BY <1>1, InitKnown, StepKnown, PTL DEF Spec

-----------------------------------------------------------------------------
(***************************************************************************)
(* The files.  What was committed stays whoever is killed when, and the    *)
(* files implement CaseCommitment.tla.  Both rest on TaskInv: only the     *)
(* Case a living worker is at is open, and the lines of a Case in          *)
(* events.jsonl are its first evidence and its last.                       *)
(***************************************************************************)
(* Types *)

LEMMA RowType ==
  /\ \A st \in Statuses, com \in BOOLEAN, met \in Metrics :
       Row(st, com, met) \in Rows
  /\ NoRow \in Rows /\ Discarded \in Rows /\ Skipped \in Rows
BY DEF Row, Rows, Statuses, Metrics, NoRow, Discarded, Skipped

LEMMA CompletedType ==
  ASSUME NEW saved \in Rows
  PROVE  Completed(saved) \in Rows
<1> DEFINE row == IF saved.committed THEN saved
                  ELSE Row("partial_failed", TRUE, "none")
<1>1. row \in Rows
  BY RowType DEF Statuses, Metrics
<1>2. [row EXCEPT !.status = "partial_failed"] \in Rows
  <2> HIDE DEF row
  <2> QED BY <1>1 DEF Rows, Statuses
<1> QED BY <1>1, <1>2 DEF Completed

LEMMA AggregateType == \A S : AggregateStatus(S) \in Statuses
BY DEF AggregateStatus, Statuses

LEMMA AppendType ==
  ASSUME taskFile \in Outcomes, NEW row \in Rows, AppendRow(row)
  PROVE  taskFile' \in Outcomes
<1> DEFINE rows == [taskFile.rows EXCEPT ![at] = row]
<1>1. rows \in [Cases -> Rows]
  BY DEF Outcomes
<1>2. AggregateStatus(StatesOf(rows)) \in Statuses
  BY AggregateType
<1>3. taskFile' = [status |-> AggregateStatus(StatesOf(rows)), rows |-> rows]
  BY DEF AppendRow
<1> HIDE DEF rows
<1> QED BY <1>1, <1>2, <1>3 DEF Outcomes

LEMMA InitInv == Init => TaskInv
<1> SUFFICES ASSUME Init PROVE TaskInv OBVIOUS
<1> USE DEF Init
<1>1. NoOutcome \in Outcomes /\ NoRow \in Rows
  BY RowType DEF Outcomes, NoOutcome, Statuses
<1>2. TypeOK
  <2> USE CasesAssumption, ResourcesAssumption, InterruptsAssumption
  <2>1. handles \in 0..NumResources /\ interruptions \in 0..MaxInterrupts
    OBVIOUS
  <2>2. recovered \in 0..NumCases /\ at \in 1..(NumCases + 1) /\ erased \in 0..5
    OBVIOUS
  <2>3. /\ globbed \subseteq Cases /\ shown \subseteq Cases
        /\ seen \subseteq Cases /\ begun \subseteq Cases
    OBVIOUS
  <2>4. process \in BOOLEAN /\ errors \in BOOLEAN
    OBVIOUS
  <2>5. /\ complete \in BOOLEAN /\ stopAfter \in BOOLEAN
        /\ stopFile \in BOOLEAN
    OBVIOUS
  <2>6. parent = "opening" /\ outcome \in Outcomes BY <1>1
  <2>7. worker = "unborn" /\ exit = "none" /\ mine \in Rows BY <1>1
  <2>8. ParentTypeOK
    BY ONLY <2>1, <2>2, <2>3, <2>4, <2>6 DEF ParentTypeOK
  <2>9. WorkerTypeOK
    BY ONLY <2>2, <2>3, <2>5, <2>7 DEF WorkerTypeOK
  <2>10. FilesTypeOK BY <1>1 DEF FilesTypeOK
  <2> QED BY <2>8, <2>9, <2>10 DEF TypeOK
<1>3. FilesInv
  <2>1. ~Alive BY DEF Alive
  <2>2. Placed /\ RowTrue /\ LinesLast
    BY <2>1 DEF Placed, RowTrue, LinesLast, Working
  <2>3. Untouched BY DEF Untouched
  <2>4. ResultsTrue BY DEF ResultsTrue, NoRow, Row
  <2>5. EventsLast /\ OneOpen BY <2>1 DEF EventsLast, OneOpen, Open
  <2> QED BY <2>2, <2>3, <2>4, <2>5 DEF FilesInv
<1>4. Recovering
  BY DEF Recovering, Open
<1> QED BY <1>2, <1>3, <1>4, InitKnown DEF TaskInv

LEMMA KillType ==
  ASSUME WorkerTypeOK, Kill, stopFile' \in BOOLEAN
  PROVE  WorkerTypeOK'
<1>1. exit' \in {"none", "ok", "bad"} /\ worker' = worker /\ begun' = begun
  BY DEF WorkerTypeOK, Kill
<1>2. /\ at' = at /\ mine' = mine /\ complete' = complete
      /\ stopAfter' = stopAfter /\ erased' = erased
  BY DEF Kill, caseVars, localVars
<1> QED BY ONLY <1>1, <1>2, WorkerTypeOK, stopFile' \in BOOLEAN DEF WorkerTypeOK

LEMMA InterruptType == TypeOK /\ Interrupt => TypeOK'
<1> SUFFICES ASSUME TypeOK, Interrupt PROVE TypeOK' OBVIOUS
<1>1. stopFile' = TRUE /\ interruptions' \in 0..MaxInterrupts
  BY InterruptsAssumption DEF Interrupt, TypeOK, ParentTypeOK
<1>2. ParentTypeOK'
  BY <1>1 DEF Interrupt, TypeOK, ParentTypeOK, runVars, pollVars, recoveryVars
<1>3. WorkerTypeOK'
  <2>1. CASE Kill
    BY <1>1, <2>1, KillType DEF TypeOK
  <2>2. CASE UNCHANGED workerVars
    BY <1>1, <2>2 DEF TypeOK, WorkerTypeOK, workerVars, caseVars, localVars,
                      processVars
  <2> QED BY <2>1, <2>2 DEF Interrupt
<1>4. FilesTypeOK'
  BY DEF Interrupt, TypeOK, FilesTypeOK, files, evidence
<1> QED BY <1>2, <1>3, <1>4 DEF TypeOK

LEMMA ParentStepParentType ==
  ASSUME TypeOK, ParentStep
  PROVE  ParentTypeOK'
<1> USE CasesAssumption, ResourcesAssumption
    DEF ParentTypeOK, userVars, runVars, pollVars, recoveryVars
<1>0. ParentTypeOK /\ UNCHANGED userVars /\ taskFile \in Outcomes
      /\ results \in [Cases -> Rows]
  BY DEF ParentStep, TypeOK, FilesTypeOK
<1>1. CASE OpenResource
  <2>1. handles' \in 0..NumResources
    BY <1>0, <1>1 DEF OpenResource, Fails
  <2>2. /\ errors' \in BOOLEAN /\ parent' \in {"opening", "reaping"}
        /\ process' = process /\ outcome' = outcome
    BY <1>0, <1>1 DEF OpenResource, Fails
  <2>3. UNCHANGED <<pollVars, recoveryVars>>
    BY <1>1 DEF OpenResource
  <2> QED BY <1>0, <2>1, <2>2, <2>3
<1>2. CASE Launch BY <1>0, <1>2 DEF Launch, Fails
<1>3. CASE Launched BY <1>0, <1>3 DEF Launched
<1>4. CASE Poll BY <1>0, <1>4 DEF Poll
<1>5. CASE PollAgain BY <1>0, <1>5 DEF PollAgain
<1>6. CASE TimeOut BY <1>0, <1>6 DEF TimeOut
<1>7. ASSUME NEW c \in Cases, ReadPrepared(c) PROVE ParentTypeOK'
  BY <1>0, <1>7 DEF ReadPrepared, Fails
<1>8. ASSUME NEW c \in Cases, Acknowledge(c) PROVE ParentTypeOK'
  BY <1>0, <1>8 DEF Acknowledge
<1>9. CASE ReadResult BY <1>0, <1>9 DEF ReadResult
<1>10. CASE Reap BY <1>0, <1>10 DEF Reap
<1>11. CASE CloseHandle
  <2>1. handles' \in 0..NumResources
    BY <1>0, <1>11 DEF CloseHandle
  <2>2. errors' \in BOOLEAN
    BY <1>0, <1>11 DEF CloseHandle
  <2>3. UNCHANGED <<parent, process, outcome, pollVars, recoveryVars>>
    BY <1>11 DEF CloseHandle
  <2> QED BY <1>0, <2>1, <2>2, <2>3
<1>12. CASE Assemble
  BY <1>0, <1>12 DEF Assemble, Outcomes, Statuses
<1>13. CASE Decide BY <1>0, <1>13 DEF Decide
<1>14. ASSUME NEW c \in Cases, RecoverCase(c) PROVE ParentTypeOK'
  <2>1. PICK row \in Rows : Recover(c, row)
    <3>1. results[c] \in Rows /\ outcome.rows[c] \in Rows
      BY <1>0 DEF Outcomes
    <3>2. Completed(results[c]) \in Rows
      BY <3>1, CompletedType
    <3> QED
      BY <1>14, <3>1, <3>2, RowType
         DEF RecoverCase, Keep, KeepTombstone, DiscardRest, LeaveUnstarted
  <2>2. outcome' \in Outcomes
    BY <1>0, <2>1 DEF Recover, Outcomes
  <2>3. recovered' \in 0..NumCases
    BY <1>14 DEF RecoverCase, Cases
  <2>4. /\ parent' \in {parent, "writing"}
        /\ UNCHANGED <<process, handles, errors, pollVars, seen>>
    BY <1>14 DEF RecoverCase
  <2> QED BY <1>0, <2>2, <2>3, <2>4
<1>15. CASE WriteOutcome BY <1>0, <1>15 DEF WriteOutcome
<1> QED BY <1>1, <1>2, <1>3, <1>4, <1>5, <1>6, <1>7, <1>8, <1>9, <1>10,
           <1>11, <1>12, <1>13, <1>14, <1>15 DEF ParentStep

LEMMA ParentStepWorkerType ==
  ASSUME TypeOK, ParentStep
  PROVE  WorkerTypeOK'
<1>0. WorkerTypeOK /\ stopFile' = stopFile /\ stopFile' \in BOOLEAN
  BY DEF TypeOK, WorkerTypeOK, ParentStep, userVars
<1>1. CASE TimeOut \/ Reap
  BY <1>0, <1>1, KillType DEF TimeOut, Reap
<1>2. CASE UNCHANGED workerVars
  BY <1>0, <1>2 DEF WorkerTypeOK, workerVars, caseVars, localVars, processVars
<1>3. CASE Launch
  <2>1. worker' \in {worker, "next"} /\ UNCHANGED <<caseVars, processVars>>
    BY <1>3 DEF Launch
  <2> QED BY <1>0, <2>1 DEF WorkerTypeOK, caseVars, localVars, processVars
<1> QED
  BY <1>1, <1>2, <1>3
     DEF ParentStep, OpenResource, Launched, Poll, PollAgain, ReadPrepared,
         Acknowledge, ReadResult, CloseHandle, Assemble, Decide, RecoverCase,
         WriteOutcome

LEMMA ParentStepFilesType ==
  ASSUME TypeOK, ParentStep
  PROVE  FilesTypeOK'
<1>0. FilesTypeOK /\ outcome \in Outcomes
  BY DEF TypeOK, ParentTypeOK
<1>1. CASE UNCHANGED files
  BY <1>0, <1>1 DEF FilesTypeOK, files, evidence
<1>2. ASSUME NEW c \in Cases, Acknowledge(c) PROVE FilesTypeOK'
  BY <1>0, <1>2 DEF Acknowledge, FilesTypeOK, evidence
<1>3. ASSUME NEW c \in Cases, RecoverCase(c) PROVE FilesTypeOK'
  <2>1. Completed(results[c]) \in Rows
    BY <1>0, CompletedType DEF FilesTypeOK
  <2>2. results' \in [Cases -> Rows]
    BY <1>0, <1>3, <2>1, RowType
       DEF FilesTypeOK, RecoverCase, Keep, KeepTombstone, DiscardRest,
           LeaveUnstarted, evidence
  <2>3. \/ UNCHANGED <<facts, events, prepared, acked>>
        \/ Erased(c)
    BY <1>3 DEF RecoverCase, Keep, KeepTombstone, DiscardRest, LeaveUnstarted,
                evidence
  <2>4. taskFile' = taskFile
    BY <1>3 DEF RecoverCase
  <2> QED BY <1>0, <2>2, <2>3, <2>4 DEF FilesTypeOK, Erased
<1>4. CASE WriteOutcome
  BY <1>0, <1>4 DEF WriteOutcome, FilesTypeOK, evidence
<1> QED
  BY <1>1, <1>2, <1>3, <1>4
     DEF ParentStep, OpenResource, Launch, Launched, Poll, PollAgain, TimeOut,
         ReadPrepared, ReadResult, Reap, CloseHandle, Assemble, Decide

\* The flags apart from the rest, for the provers' sake.
LEMMA WorkerStepFlags ==
  ASSUME TypeOK, WorkerStep
  PROVE  /\ complete' \in BOOLEAN /\ stopAfter' \in BOOLEAN
         /\ stopFile' \in BOOLEAN
<1>0. complete \in BOOLEAN /\ stopAfter \in BOOLEAN /\ stopFile' \in BOOLEAN
  BY DEF TypeOK, WorkerTypeOK, WorkerStep, userVars
<1>1. CASE UNCHANGED <<complete, stopAfter>>
  BY <1>0, <1>1
<1>2. CASE StartCase
  BY <1>0, <1>2 DEF StartCase
<1>3. CASE Collect
  BY <1>0, <1>3 DEF Collect
<1>4. CASE Judge
  BY <1>0, <1>4 DEF Judge
<1>5. CASE SkipCase \/ GoOn \/ Prepare \/ AwaitAck \/ Record \/ Commit
  BY <1>1, <1>5 DEF SkipCase, GoOn, Prepare, AwaitAck, Record, Commit,
                    caseVars, localVars
<1>6. CASE Measure \/ Measured \/ Fail \/ CloseCase \/ Discard
  BY <1>1, <1>6 DEF Measure, Measured, Fail, CloseCase, Discard, localVars
<1>7. CASE SaveResult \/ FinishCase \/ Exit \/ Die
  BY <1>1, <1>7 DEF SaveResult, FinishCase, Exit, Die, caseVars, localVars
<1> QED BY <1>2, <1>3, <1>4, <1>5, <1>6, <1>7 DEF WorkerStep

\* What the worker's place is made of, without its row.
Place ==
  /\ worker \in {"unborn", "next", "starting", "preparing", "awaiting",
                 "collecting", "recording", "committing", "judging",
                 "measuring", "failing", "closing", "discarding", "saving",
                 "appending"}
  /\ at \in 1..(NumCases + 1)
  /\ erased \in 0..5
  /\ exit \in {"none", "ok", "bad"}
  /\ begun \subseteq Cases

LEMMA WorkerStepPlace ==
  ASSUME TypeOK, Placed, WorkerStep
  PROVE  Place'
<1> USE CasesAssumption
    DEF InCase, Goes, Raise, Place, caseVars, localVars, processVars
<1>0. Place
  BY DEF TypeOK, WorkerTypeOK
<1>1. CASE SkipCase BY <1>0, <1>1 DEF SkipCase
<1>2. CASE GoOn BY <1>0, <1>2 DEF GoOn
<1>3. CASE StartCase
  BY <1>0, <1>3 DEF StartCase, Placed
<1>4. CASE Prepare BY <1>0, <1>4 DEF Prepare
<1>5. CASE AwaitAck BY <1>0, <1>5 DEF AwaitAck
<1>6. CASE Collect BY <1>0, <1>6 DEF Collect
<1>7. CASE Record BY <1>0, <1>7 DEF Record
<1>8. CASE Commit BY <1>0, <1>8 DEF Commit
<1>9. CASE Judge BY <1>0, <1>9 DEF Judge
<1>10. CASE Measure BY <1>0, <1>10 DEF Measure
<1>11. CASE Measured BY <1>0, <1>11 DEF Measured
<1>12. CASE Fail BY <1>0, <1>12 DEF Fail
<1>13. CASE CloseCase BY <1>0, <1>13 DEF CloseCase
<1>14. CASE Discard BY <1>0, <1>14 DEF Discard, Placed, Working
<1>15. CASE SaveResult BY <1>0, <1>15 DEF SaveResult
<1>16. CASE FinishCase BY <1>0, <1>16 DEF FinishCase, Placed, Cases
<1>17. CASE Exit BY <1>0, <1>17 DEF Exit
<1>18. CASE Die BY <1>0, <1>18 DEF Die
<1> QED BY <1>1, <1>2, <1>3, <1>4, <1>5, <1>6, <1>7, <1>8, <1>9, <1>10,
           <1>11, <1>12, <1>13, <1>14, <1>15, <1>16, <1>17, <1>18
        DEF WorkerStep

LEMMA WorkerStepMine ==
  ASSUME TypeOK, WorkerStep
  PROVE  mine' \in Rows
<1>0. mine \in Rows
  BY DEF TypeOK, WorkerTypeOK
<1>1. CASE mine' = mine
  BY <1>0, <1>1
<1>2. CASE StartCase
  BY <1>2, RowType DEF StartCase, Statuses, Metrics
<1>3. CASE Record
  BY <1>0, <1>3, RowType DEF Record, Statuses, Metrics, localVars
<1>4. ASSUME Measure PROVE mine' \in Rows
  <2>1. mine.status \in Statuses /\ "partial_failed" \in Statuses
    BY <1>0 DEF Rows, Statuses
  <2> QED BY <1>0, <1>4, <2>1, RowType DEF Measure, Metrics
<1>5. CASE Measured
  BY <1>0, <1>5 DEF Measured, Rows, Metrics
<1>6. CASE Fail
  BY <1>0, <1>6 DEF Fail, Rows, Statuses
<1>7. CASE CloseCase
  BY <1>0, <1>7 DEF CloseCase, Rows, Statuses
<1>8. CASE Discard
  BY <1>0, <1>8, RowType DEF Discard
<1>9. CASE SkipCase \/ GoOn \/ Prepare \/ AwaitAck \/ Collect \/ Commit \/ Judge
  BY <1>1, <1>9 DEF SkipCase, GoOn, Prepare, AwaitAck, Collect, Commit, Judge,
                    caseVars
<1>10. CASE SaveResult \/ FinishCase \/ Exit \/ Die
  BY <1>1, <1>10 DEF SaveResult, FinishCase, Exit, Die, caseVars
<1> QED BY <1>2, <1>3, <1>4, <1>5, <1>6, <1>7, <1>8, <1>9, <1>10
        DEF WorkerStep

LEMMA WorkerStepWorkerType ==
  ASSUME TypeOK, Placed, WorkerStep
  PROVE  WorkerTypeOK'
BY WorkerStepFlags, WorkerStepPlace, WorkerStepMine DEF WorkerTypeOK, Place

LEMMA WorkerStepFilesType ==
  ASSUME TypeOK, WorkerStep
  PROVE  FilesTypeOK'
<1>0. FilesTypeOK /\ mine \in Rows /\ mine' \in Rows
  BY WorkerStepMine DEF TypeOK, WorkerTypeOK
<1>1. CASE UNCHANGED files
  BY <1>0, <1>1 DEF FilesTypeOK, files, evidence
<1>2. CASE UNCHANGED <<evidence, acked>> /\ taskFile' \in Outcomes
  BY <1>0, <1>2 DEF FilesTypeOK, evidence
<1>3. CASE SkipCase
  BY <1>0, <1>2, <1>3, AppendType, RowType DEF SkipCase, FilesTypeOK
<1>4. CASE FinishCase
  BY <1>0, <1>2, <1>4, AppendType DEF FinishCase, FilesTypeOK
<1>5. CASE Exit
  <2>1. taskFile' \in Outcomes
    BY <1>0, <1>5 DEF Exit, FilesTypeOK, Outcomes, Statuses
  <2> QED BY <1>2, <1>5, <2>1 DEF Exit
<1>6. CASE StartCase
  BY <1>0, <1>6 DEF StartCase, FilesTypeOK
<1>7. CASE Prepare
  BY <1>0, <1>7 DEF Prepare, FilesTypeOK
<1>8. CASE Record
  BY <1>0, <1>8 DEF Record, FilesTypeOK
<1>9. CASE Commit \/ SaveResult
  BY <1>0, <1>9 DEF Commit, SaveResult, FilesTypeOK
<1>10. CASE Measure
  BY <1>0, <1>10 DEF Measure, FilesTypeOK
<1>11. CASE Fail
  BY <1>0, <1>11 DEF Fail, FilesTypeOK
<1>12. CASE Discard
  BY <1>0, <1>12, RowType DEF Discard, FilesTypeOK
<1>13. CASE GoOn \/ AwaitAck \/ Collect \/ Judge \/ Measured \/ CloseCase \/ Die
  BY <1>1, <1>13 DEF GoOn, AwaitAck, Collect, Judge, Measured, CloseCase, Die
<1> QED BY <1>3, <1>4, <1>5, <1>6, <1>7, <1>8, <1>9, <1>10, <1>11, <1>12, <1>13
        DEF WorkerStep

LEMMA StepType == TypeOK /\ Placed /\ [Next]_vars => TypeOK'
<1> SUFFICES ASSUME TypeOK, Placed, [Next]_vars PROVE TypeOK' OBVIOUS
<1>1. CASE Interrupt
  BY <1>1, InterruptType
<1>2. CASE ParentStep
  BY <1>2, ParentStepParentType, ParentStepWorkerType, ParentStepFilesType
     DEF TypeOK
<1>3. CASE WorkerStep
  <2>1. ParentTypeOK'
    BY <1>3 DEF WorkerStep, TypeOK, ParentTypeOK, userVars, parentVars,
                runVars, pollVars, recoveryVars
  <2> QED BY <1>3, <2>1, WorkerStepWorkerType, WorkerStepFilesType DEF TypeOK
<1>4. CASE Over \/ UNCHANGED vars
  <2>1. UNCHANGED vars BY <1>4 DEF Over
  <2> USE <2>1 DEF vars, userVars
  <2>2. ParentTypeOK'
    BY DEF TypeOK, ParentTypeOK, parentVars, runVars, pollVars, recoveryVars
  <2>3. WorkerTypeOK'
    BY DEF TypeOK, WorkerTypeOK, workerVars, caseVars, localVars, processVars
  <2>4. FilesTypeOK'
    BY DEF TypeOK, FilesTypeOK, files, evidence
  <2> QED BY <2>2, <2>3, <2>4 DEF TypeOK
<1> QED BY <1>1, <1>2, <1>3, <1>4 DEF Next

-----------------------------------------------------------------------------
(* The files: steps that leave the evidence alone *)

\* Steps that do not move the worker on, though they may kill it.
LEMMA FilesFrame ==
  ASSUME FilesInv,
         UNCHANGED <<worker, caseVars, begun, facts, results, events,
                     prepared>>,
         parent' = "opening" => parent = "opening",
         Alive' => Alive,
         exit' = "ok" => exit = "ok"
  PROVE  FilesInv'
<1> USE DEF FilesInv, caseVars, localVars
<1>1. Placed' BY DEF Placed, Working
<1>2. Untouched' BY DEF Untouched, NotStarted
<1>3. RowTrue' /\ LinesLast' BY DEF RowTrue, LinesLast, Working
<1>4. ResultsTrue' BY DEF ResultsTrue
<1>5. EventsLast' BY DEF EventsLast
<1>6. OneOpen' BY DEF OneOpen, Open, Working
<1> QED BY <1>1, <1>2, <1>3, <1>4, <1>5, <1>6

LEMMA KillFrame ==
  ASSUME Kill
  PROVE  /\ UNCHANGED <<worker, caseVars, begun>>
         /\ Alive' => Alive
         /\ exit' = "ok" => exit = "ok"
BY DEF Kill, Alive

LEMMA InterruptFiles == FilesInv /\ Interrupt => FilesInv'
<1> SUFFICES ASSUME FilesInv, Interrupt PROVE FilesInv' OBVIOUS
<1>1. /\ UNCHANGED <<worker, caseVars, begun>>
      /\ Alive' => Alive
      /\ exit' = "ok" => exit = "ok"
  BY KillFrame DEF Interrupt, Alive, workerVars, processVars
<1> QED BY <1>1, FilesFrame DEF Interrupt, files, evidence

LEMMA LaunchFiles == FilesInv /\ WorkerKnown /\ Launch => FilesInv'
<1> SUFFICES ASSUME FilesInv, WorkerKnown, Launch PROVE FilesInv' OBVIOUS
<1>1. CASE Fails /\ UNCHANGED worker
  BY <1>1, FilesFrame DEF Launch, Fails, Alive, processVars, files, evidence
<1>2. CASE parent' = "launching" /\ worker' = "next"
  <2>1. /\ UNCHANGED <<at, mine, exit, begun, facts, results, events, prepared>>
        /\ parent = "opening"
    BY DEF Launch, caseVars, processVars, files, evidence
  <2>2. \A c \in Cases : /\ facts[c] = "none" /\ results[c] = NoRow
                         /\ ~events[c] /\ c \notin begun
    BY <2>1 DEF FilesInv, Untouched, NotStarted
  <2>3. Placed' /\ RowTrue' /\ LinesLast'
    BY <1>2 DEF Placed, RowTrue, LinesLast, Working
  <2>4. Untouched' BY <2>1, <2>2 DEF Untouched
  <2>5. ResultsTrue' BY <2>1 DEF FilesInv, ResultsTrue
  <2>6. EventsLast' BY <2>1 DEF FilesInv, EventsLast
  <2>7. OneOpen' BY <2>1, <2>2 DEF OneOpen, Open
  <2> QED BY <2>3, <2>4, <2>5, <2>6, <2>7 DEF FilesInv
<1> QED BY <1>1, <1>2 DEF Launch

LEMMA ParentFiles ==
  ASSUME FilesInv, WorkerKnown, ParentStep, ~\E c \in Cases : RecoverCase(c)
  PROVE  FilesInv'
<1>1. CASE Launch
  BY <1>1, LaunchFiles
<1>2. CASE TimeOut \/ Reap
  BY <1>2, KillFrame, FilesFrame DEF TimeOut, Reap, files, evidence
<1>3. CASE UNCHANGED workerVars /\ UNCHANGED evidence
  <2>1. parent' = "opening" => parent = "opening"
    BY DEF ParentStep, OpenResource, Fails, Launch, Launched, Poll, PollAgain,
           TimeOut, ReadPrepared, Acknowledge, ReadResult, Reap, CloseHandle,
           Assemble, Decide, WriteOutcome
  <2> QED BY <1>3, <2>1, FilesFrame DEF workerVars, processVars, evidence, Alive
<1> QED
  BY <1>1, <1>2, <1>3
     DEF ParentStep, OpenResource, Launched, Poll, PollAgain, ReadPrepared,
         Acknowledge, ReadResult, CloseHandle, Assemble, Decide, WriteOutcome,
         files

-----------------------------------------------------------------------------
(* The files: recovery *)

LEMMA CompletedCommitted ==
  ASSUME NEW saved \in Rows, saved.status = "discarded" => saved = Discarded
  PROVE  /\ Completed(saved).committed
         /\ Completed(saved).status # "discarded"
         /\ saved.metrics = "complete" /\ saved.committed =>
              Completed(saved) = saved
<1> DEFINE row == IF saved.committed THEN saved
                  ELSE Row("partial_failed", TRUE, "none")
<1>1. row \in Rows
  BY RowType DEF Statuses, Metrics
<1>2. row.committed /\ row.status # "discarded"
  BY DEF Row, Discarded
<1>3. Completed(saved) = IF row.metrics # "complete" /\ row.status = "success"
                         THEN [row EXCEPT !.status = "partial_failed"] ELSE row
  BY DEF Completed
<1>4. saved.metrics = "complete" /\ saved.committed => row = saved
  OBVIOUS
<1> HIDE DEF row
<1> QED BY <1>1, <1>2, <1>3, <1>4 DEF Rows

\* What recover_cases makes of a Case, in terms of what the invariant tells
\* apart.
LEMMA RecoverOutcome ==
  ASSUME TypeOK, FilesInv, Recovering, NEW c \in Cases, RecoverCase(c)
  PROVE  /\ \A d \in Cases \ {c} :
              /\ facts'[d] = facts[d] /\ results'[d] = results[d]
              /\ events'[d] = events[d] /\ prepared'[d] = prepared[d]
         /\ \/ /\ facts[c] = "complete" /\ facts'[c] = "complete"
               /\ results'[c] = Completed(results[c])
               /\ events'[c] = events[c] /\ prepared'[c] = prepared[c]
            \/ /\ facts[c] # "complete" /\ facts'[c] = facts[c]
               /\ results'[c] = results[c] /\ ~events[c]
               /\ events'[c] = events[c] /\ prepared'[c] = prepared[c]
            \/ /\ facts[c] # "complete" /\ facts'[c] = "none"
               /\ results'[c] = Discarded
               /\ ~events'[c] /\ ~prepared'[c]
<1>0. FilesTypeOK /\ ResultsTrue
  BY DEF TypeOK, FilesInv
<1>1. CASE Keep(c)
  BY <1>0, <1>1 DEF Keep, FilesTypeOK
<1>2. CASE KeepTombstone(c)
  BY <1>0, <1>2 DEF RecoverCase, KeepTombstone, ResultsTrue, evidence,
                    FilesTypeOK
<1>3. CASE DiscardRest(c)
  BY <1>0, <1>3 DEF DiscardRest, Erased, FilesTypeOK
<1>4. CASE LeaveUnstarted(c)
  <2>1. ~events[c]
    BY <1>4 DEF LeaveUnstarted, RecoverCase, Recovering, Cases
  <2>2. UNCHANGED <<evidence>>
    BY <1>4 DEF LeaveUnstarted
  <2> QED BY <1>4, <2>1, <2>2 DEF LeaveUnstarted, evidence
<1> QED BY <1>1, <1>2, <1>3, <1>4 DEF RecoverCase

LEMMA RecoverFiles ==
  ASSUME TypeOK, WorkerKnown, FilesInv, Recovering, NEW c \in Cases,
         RecoverCase(c)
  PROVE  FilesInv'
<1>1. ~Alive /\ ~Alive' /\ exit' = exit /\ begun' = begun /\ parent' # "opening"
  BY DEF WorkerKnown, WorkerDeadFirst, RecoverCase, workerVars, processVars,
         Alive
<1>2. ResultsTrue /\ EventsLast /\ OneOpen /\ results[c] \in Rows
  BY DEF FilesInv, TypeOK, FilesTypeOK
<1>3. Placed' /\ RowTrue' /\ LinesLast' /\ Untouched'
  BY <1>1 DEF Placed, RowTrue, LinesLast, Working, Untouched, NotStarted
<1>4. ResultsTrue'
  <2>1. /\ Completed(results[c]).committed
        /\ Completed(results[c]).status # "discarded"
    BY <1>2, CompletedCommitted DEF ResultsTrue
  <2>2. Discarded.metrics = "none"
    BY DEF Discarded, Row
  <2> QED BY <1>2, <2>1, <2>2, RecoverOutcome DEF ResultsTrue
<1>5. EventsLast'
  BY <1>1, <1>2, RecoverOutcome DEF EventsLast
<1>6. OneOpen'
  BY <1>1, <1>2, RecoverOutcome DEF OneOpen, Open
<1> QED BY <1>3, <1>4, <1>5, <1>6 DEF FilesInv

LEMMA RecoverRecovering ==
  ASSUME TypeOK, WorkerKnown, FilesInv, Recovering, NEW c \in Cases,
         RecoverCase(c)
  PROVE  Recovering'
<1>1. /\ recovered = c - 1 /\ recovered' = c /\ seen' = seen
      /\ parent = "recovering"
      /\ parent' = IF c = NumCases THEN "writing" ELSE parent
  BY DEF RecoverCase
<1>2. /\ ~Open(c)'
      /\ \A d \in Cases \ {c} :
           (Open(d)' <=> Open(d)) /\ (events'[d] <=> events[d])
  BY RecoverOutcome DEF Open
<1>3. \A d \in Cases : d <= c => ~Open(d)'
  BY <1>1, <1>2 DEF Recovering, Cases
<1>4. \A d \in Cases : d > c /\ events'[d] => d \in seen
  BY <1>1, <1>2 DEF Recovering, Cases
<1>5. c = NumCases => \A d \in Cases : ~Open(d)'
  BY <1>3 DEF Cases
<1> QED BY <1>1, <1>3, <1>4, <1>5 DEF Recovering

-----------------------------------------------------------------------------
(* What the parent may rely on *)

\* Steps before the parent looks at what became of the worker.
LEMMA EarlyRecovering ==
  ASSUME Recovering, OneOpen,
         \/ OpenResource \/ Launch \/ Launched \/ Poll \/ PollAgain \/ TimeOut
         \/ \E c \in Cases : ReadPrepared(c) \/ Acknowledge(c)
  PROVE  Recovering'
<1> USE DEF Recovering, Fails, runVars, pollVars, recoveryVars, workerVars,
            caseVars
<1>1. CASE OpenResource BY <1>1 DEF OpenResource
<1>2. CASE Launch BY <1>2 DEF Launch
<1>3. CASE Launched BY <1>3 DEF Launched
<1>4. CASE Poll BY <1>4 DEF Poll
<1>5. CASE PollAgain BY <1>5 DEF PollAgain
<1>6. CASE TimeOut BY <1>6 DEF TimeOut, Kill
<1>7. CASE \E c \in Cases : ReadPrepared(c) \/ Acknowledge(c)
  BY <1>7 DEF ReadPrepared, Acknowledge
<1> QED BY <1>1, <1>2, <1>3, <1>4, <1>5, <1>6, <1>7

\* A worker that is read to have succeeded has returned, so no Case is open.
LEMMA LateRecovering ==
  ASSUME TypeOK, WorkerKnown, OneOpen, Recovering,
         \/ ReadResult \/ Reap \/ CloseHandle \/ Assemble \/ Decide
         \/ WriteOutcome
  PROVE  Recovering'
<1> USE DEF Recovering, runVars, pollVars, recoveryVars, workerVars, processVars
<1>1. CASE ReadResult
  <2>1. worker # "unborn" /\ exit # "none" /\ exit \in {"none", "ok", "bad"}
    BY <1>1 DEF ReadResult, WorkerKnown, Alive, TypeOK, WorkerTypeOK
  <2> QED BY <1>1, <2>1 DEF ReadResult
<1>2. CASE Reap
  <2>1. exit = "ok" => exit' = "ok"
    BY <1>2 DEF Reap, Kill, Alive
  <2> QED BY <1>2, <2>1 DEF Reap
<1>3. CASE CloseHandle
  <2>1. errors => errors'
    BY <1>3 DEF CloseHandle
  <2>2. /\ UNCHANGED <<parent, recoveryVars, workerVars, files>>
        /\ parent = "closing"
    BY <1>3 DEF CloseHandle
  <2> QED BY <2>1, <2>2
<1>4. CASE Assemble BY <1>4 DEF Assemble
<1>5. CASE Decide
  <2>1. ~errors => \A c \in Cases : ~Open(c)
    BY <1>5 DEF Decide, OneOpen
  <2>2. \A c \in Cases : Open(c)' <=> Open(c)
    BY <1>5 DEF Decide, Open, files, evidence
  <2>3. \A c \in Cases : events'[c] => c \in seen'
    BY <1>5 DEF Decide, files, evidence
  <2>4. recovered' = 0 /\ \A c \in Cases : ~(c <= recovered')
    BY <1>5 DEF Decide, Cases
  <2> QED BY <1>5, <2>1, <2>2, <2>3, <2>4 DEF Decide
<1>6. CASE WriteOutcome
  BY <1>6 DEF WriteOutcome, Open, evidence
<1> QED BY <1>1, <1>2, <1>3, <1>4, <1>5, <1>6

LEMMA WorkerRecovering ==
  ASSUME TypeOK, WorkerKnown, Recovering, WorkerStep
  PROVE  Recovering'
<1>1. Alive /\ worker' # "unborn"
  BY WorkerStepAlive
<1>2. UNCHANGED <<parent, errors, recovered>>
  BY DEF WorkerStep, parentVars, runVars, recoveryVars
<1>3. parent \notin {"closing", "deciding", "recovering", "writing", "over"}
  BY <1>1 DEF WorkerKnown, WorkerDeadFirst
<1>4. parent = "reaping" => errors
  BY <1>1 DEF Recovering, Alive
<1> QED BY <1>1, <1>2, <1>3, <1>4 DEF Recovering

LEMMA InterruptRecovering ==
  ASSUME Recovering, Interrupt
  PROVE  Recovering'
<1>1. worker' = worker /\ (exit = "ok" => exit' = "ok")
  BY DEF Interrupt, Kill, Alive, workerVars, processVars
<1> QED BY <1>1 DEF Interrupt, Recovering, runVars, recoveryVars, files,
                    evidence, Open

-----------------------------------------------------------------------------
(* The files: steps of the worker *)

LEMMA WorkerContext ==
  ASSUME TypeOK, WorkerKnown, FilesInv, WorkerStep
  PROVE  /\ Alive /\ exit = "none" /\ parent' = parent /\ parent # "opening"
         /\ TypeOK' /\ FilesTypeOK /\ FilesTypeOK'
         /\ at \in 1..(NumCases + 1) /\ mine \in Rows /\ mine' \in Rows
<1>1. Alive /\ exit = "none"
  BY WorkerStepAlive DEF Alive
<1>2. parent' = parent /\ parent # "opening"
  BY <1>1 DEF WorkerStep, parentVars, WorkerKnown, Alive
<1>3. TypeOK'
  BY StepType DEF FilesInv, Next
<1> QED BY <1>1, <1>2, <1>3 DEF TypeOK, WorkerTypeOK, FilesTypeOK

\* The worker touches no files but those of the Case it is at.
LEMMA OnlyAt ==
  ASSUME FilesTypeOK, WorkerStep
  PROVE  \A c \in Cases \ {at} :
           /\ facts'[c] = facts[c] /\ results'[c] = results[c]
           /\ events'[c] = events[c] /\ prepared'[c] = prepared[c]
           /\ c \in begun' <=> c \in begun
<1> USE DEF FilesTypeOK, processVars, evidence
<1>1. CASE UNCHANGED <<evidence, begun>>
  BY <1>1
<1>2. CASE StartCase BY <1>2 DEF StartCase
<1>3. CASE Prepare BY <1>3 DEF Prepare
<1>4. CASE Record BY <1>4 DEF Record
<1>5. CASE Commit BY <1>5 DEF Commit
<1>6. CASE Measure BY <1>6 DEF Measure
<1>7. CASE Fail BY <1>7 DEF Fail
<1>8. CASE Discard BY <1>8 DEF Discard
<1>9. CASE SaveResult BY <1>9 DEF SaveResult
<1>10. CASE SkipCase \/ GoOn \/ AwaitAck \/ Collect \/ Judge \/ Measured
  BY <1>1, <1>10 DEF SkipCase, GoOn, AwaitAck, Collect, Judge, Measured, files
<1>11. CASE CloseCase \/ FinishCase \/ Exit \/ Die
  BY <1>1, <1>11 DEF CloseCase, FinishCase, Exit, Die, files
<1> QED BY <1>2, <1>3, <1>4, <1>5, <1>6, <1>7, <1>8, <1>9, <1>10, <1>11
        DEF WorkerStep

LEMMA WorkerPlaced ==
  ASSUME TypeOK, WorkerKnown, FilesInv, WorkerStep
  PROVE  Placed'
<1> USE DEF Placed, Working, InCase, Goes, Raise, Alive, caseVars, localVars,
            processVars
<1>0. Placed /\ at \in 1..(NumCases + 1)
  BY WorkerContext DEF FilesInv
<1>1. CASE SkipCase BY <1>0, <1>1 DEF SkipCase
<1>2. CASE GoOn BY <1>0, <1>2, CasesAssumption DEF GoOn, Cases
<1>3. CASE StartCase BY <1>0, <1>3 DEF StartCase
<1>4. CASE Prepare BY <1>0, <1>4 DEF Prepare
<1>5. CASE AwaitAck BY <1>0, <1>5 DEF AwaitAck
<1>6. CASE Collect BY <1>0, <1>6 DEF Collect
<1>7. CASE Record BY <1>0, <1>7 DEF Record
<1>8. CASE Commit BY <1>0, <1>8 DEF Commit
<1>9. CASE Judge BY <1>0, <1>9 DEF Judge
<1>10. CASE Measure BY <1>0, <1>10 DEF Measure
<1>11. CASE Measured BY <1>0, <1>11 DEF Measured
<1>12. CASE Fail BY <1>0, <1>12 DEF Fail
<1>13. CASE CloseCase BY <1>0, <1>13 DEF CloseCase
<1>14. CASE Discard BY <1>0, <1>14 DEF Discard
<1>15. CASE SaveResult BY <1>0, <1>15 DEF SaveResult
<1>16. CASE FinishCase BY <1>0, <1>16 DEF FinishCase
<1>17. CASE Exit BY <1>0, <1>17 DEF Exit
<1>18. CASE Die BY <1>0, <1>18 DEF Die
<1> QED BY <1>1, <1>2, <1>3, <1>4, <1>5, <1>6, <1>7, <1>8, <1>9, <1>10,
           <1>11, <1>12, <1>13, <1>14, <1>15, <1>16, <1>17, <1>18
        DEF WorkerStep

\* The worker goes from Case to Case, and starts none twice.
LEMMA AtMoves ==
  ASSUME WorkerStep, at \in Nat
  PROVE  /\ at' \in {at, at + 1}
         /\ at' = at /\ Alive' /\ worker' \in {"next", "starting"} => GoOn
<1> USE DEF InCase, Goes, Raise, caseVars, Alive, processVars
<1>0. CASE SkipCase
  <2>1. at' = at + 1
    BY <1>0 DEF SkipCase
  <2> QED BY <2>1
<1>1. CASE GoOn \/ StartCase \/ Prepare \/ AwaitAck
  BY <1>1 DEF GoOn, StartCase, Prepare, AwaitAck
<1>2. CASE Collect \/ Record \/ Commit \/ Judge \/ Measured
  BY <1>2 DEF Collect, Record, Commit, Judge, Measured
<1>3. CASE Measure
  BY <1>3 DEF Measure
<1>4. CASE Fail \/ CloseCase \/ SaveResult \/ FinishCase
  BY <1>4 DEF Fail, CloseCase, SaveResult, FinishCase
<1>5. CASE Discard
  <2>1. at' = at /\ worker' \in {"discarding", "saving"}
    BY ONLY <1>5 DEF Discard, InCase, Goes
  <2> QED BY <2>1
<1>6. CASE Exit \/ Die
  BY <1>6 DEF Exit, Die
<1> QED BY <1>0, <1>1, <1>2, <1>3, <1>4, <1>5, <1>6 DEF WorkerStep

LEMMA WorkerUntouched ==
  ASSUME TypeOK, WorkerKnown, FilesInv, WorkerStep
  PROVE  Untouched'
<1> SUFFICES ASSUME NEW c \in Cases, NotStarted(c)'
             PROVE  /\ facts'[c] = "none" /\ results'[c] = NoRow
                    /\ ~events'[c] /\ c \notin begun'
  BY DEF Untouched
<1>0. /\ Untouched /\ Alive /\ FilesTypeOK /\ at \in Nat /\ c \in Nat
      /\ parent' # "opening"
  BY WorkerContext DEF FilesInv, Cases
<1>1. Alive' /\ (c > at' \/ (c = at' /\ worker' \in {"next", "starting"}))
  BY <1>0, NotStarted(c)' DEF NotStarted
<1>2. CASE c # at
  <2>1. NotStarted(c)
    BY <1>0, <1>1, <1>2, AtMoves DEF NotStarted
  <2> QED BY <1>0, <1>2, <2>1, OnlyAt DEF Untouched
<1>3. CASE c = at
  <2>1. GoOn
    BY <1>0, <1>1, <1>3, AtMoves
  <2>2. NotStarted(c)
    BY <1>3, <2>1 DEF GoOn, InCase, NotStarted
  <2> QED BY <1>0, <2>1, <2>2 DEF GoOn, Untouched, processVars, files, evidence
<1> QED BY <1>2, <1>3

\* What the worker builds stays true of its files.
LEMMA WorkerRowTrue ==
  ASSUME TypeOK, WorkerKnown, FilesInv, WorkerStep
  PROVE  RowTrue'
<1> USE DEF RowTrue, Working, InCase, Goes, Raise, Alive, caseVars, localVars,
            processVars, FilesTypeOK, files, evidence, Row, Rows, Discarded,
            NoRow
<1>0. RowTrue /\ LinesLast /\ Placed /\ Untouched /\ FilesTypeOK
      /\ Alive /\ mine \in Rows
  BY WorkerContext DEF FilesInv
<1>1. CASE SkipCase BY <1>0, <1>1 DEF SkipCase
<1>2. CASE GoOn BY <1>0, <1>2 DEF GoOn
<1>3. CASE StartCase
  <2>1. facts[at] = "none" /\ results[at] = NoRow
    BY <1>0, <1>3 DEF StartCase, Placed, Untouched, NotStarted
  <2>2. /\ UNCHANGED <<at, facts, results>> /\ worker' = "preparing"
        /\ mine' = Row("failed", FALSE, "none")
    BY <1>3 DEF StartCase
  <2> QED BY <2>1, <2>2
<1>4. CASE Prepare BY <1>0, <1>4 DEF Prepare
<1>5. CASE AwaitAck BY <1>0, <1>5 DEF AwaitAck
<1>6. CASE Collect BY <1>0, <1>6 DEF Collect
<1>7. CASE Record
  <2>1. /\ at \in Cases /\ UNCHANGED <<at, results>>
        /\ results[at].metrics # "complete"
    BY <1>0, <1>7 DEF Record, Placed
  <2>2. CASE worker' = "failing" /\ UNCHANGED <<facts, mine>>
    BY <1>0, <1>7, <2>1, <2>2 DEF Record
  <2>3. CASE facts' = [facts EXCEPT ![at] =
                         IF complete THEN "complete" ELSE "partial"]
    <3>1. CASE complete
      <4>1. /\ facts'[at] = "complete" /\ worker' = "committing"
            /\ \E st \in {"success", "partial_failed", "failed"} :
                 mine' = Row(st, TRUE, "none")
        BY <1>0, <1>7, <2>1, <2>3, <3>1 DEF Record
      <4> QED BY <2>1, <4>1
    <3>2. CASE ~complete
      <4>1. /\ facts'[at] = "partial" /\ worker' = "failing" /\ mine' = mine
        BY <1>0, <1>7, <2>1, <2>3, <3>2 DEF Record
      <4> QED BY <1>0, <1>7, <2>1, <4>1 DEF Record
    <3> QED BY <3>1, <3>2
  <2> QED BY <1>7, <2>2, <2>3 DEF Record
<1>8. CASE Commit BY <1>0, <1>8 DEF Commit
<1>9. CASE Judge BY <1>0, <1>9 DEF Judge
<1>10. CASE Measure BY <1>0, <1>10 DEF Measure
<1>11. CASE Measured BY <1>0, <1>11 DEF Measured
<1>12. CASE Fail BY <1>0, <1>12 DEF Fail
<1>13. CASE CloseCase BY <1>0, <1>13 DEF CloseCase
<1>14. CASE Discard
  <2>1. /\ at \in Cases /\ at' = at /\ erased \in 0..4
        /\ ~mine.committed /\ facts[at] # "complete" /\ Working
    BY <1>0, <1>14 DEF Discard, Placed
  <2>2. /\ facts'[at] \in {facts[at], "none"}
        /\ results'[at] \in {results[at], NoRow}
    BY <1>0, <1>14, <2>1 DEF Discard
  <2>3. results'[at].metrics # "complete"
    BY <1>0, <2>1, <2>2
  <2>4. CASE erased = 4
    <3>1. mine' = Discarded /\ worker' = "saving" /\ ~events'[at]
      BY <1>0, <1>14, <2>1, <2>4 DEF Discard
    <3> QED BY <2>1, <2>2, <2>3, <3>1
  <2>5. CASE erased # 4
    <3>1. mine' = mine /\ worker' = worker /\ worker = "discarding"
      BY <1>0, <1>14, <2>5 DEF Discard
    <3> QED BY <1>0, <2>1, <2>2, <2>3, <3>1
  <2> QED BY <2>4, <2>5
<1>15. CASE SaveResult BY <1>0, <1>15 DEF SaveResult
<1>16. CASE FinishCase BY <1>0, <1>16 DEF FinishCase
<1>17. CASE Exit BY <1>0, <1>17 DEF Exit
<1>18. CASE Die BY <1>0, <1>18 DEF Die
<1> QED BY <1>1, <1>2, <1>3, <1>4, <1>5, <1>6, <1>7, <1>8, <1>9,
           <1>10, <1>11, <1>12, <1>13, <1>14, <1>15, <1>16, <1>17, <1>18
        DEF WorkerStep

\* The lines of events.jsonl are the last that discard_case takes.
LEMMA WorkerLinesLast ==
  ASSUME TypeOK, WorkerKnown, FilesInv, WorkerStep
  PROVE  LinesLast'
<1> USE DEF LinesLast, Placed, Working, InCase, Goes, Raise, Alive, caseVars,
            localVars, processVars, FilesTypeOK, files, evidence
<1>0. LinesLast /\ Placed /\ FilesTypeOK /\ Alive
  BY WorkerContext DEF FilesInv
<1>1. CASE SkipCase BY <1>0, <1>1 DEF SkipCase
<1>2. CASE GoOn BY <1>0, <1>2 DEF GoOn
<1>3. CASE StartCase BY <1>0, <1>3 DEF StartCase
<1>4. CASE Prepare BY <1>0, <1>4 DEF Prepare
<1>5. CASE AwaitAck BY <1>0, <1>5 DEF AwaitAck
<1>6. CASE Collect BY <1>0, <1>6 DEF Collect
<1>7. CASE Record BY <1>0, <1>7 DEF Record
<1>8. CASE Commit BY <1>0, <1>8 DEF Commit
<1>9. CASE Judge BY <1>0, <1>9 DEF Judge
<1>10. CASE Measure BY <1>0, <1>10 DEF Measure
<1>11. CASE Measured BY <1>0, <1>11 DEF Measured
<1>12. CASE Fail BY <1>0, <1>12 DEF Fail
<1>13. CASE CloseCase BY <1>0, <1>13 DEF CloseCase
<1>14. CASE Discard BY <1>0, <1>14 DEF Discard
<1>15. CASE SaveResult BY <1>0, <1>15 DEF SaveResult
<1>16. CASE FinishCase BY <1>0, <1>16 DEF FinishCase
<1>17. CASE Exit BY <1>0, <1>17 DEF Exit
<1>18. CASE Die BY <1>0, <1>18 DEF Die
<1> QED BY <1>1, <1>2, <1>3, <1>4, <1>5, <1>6, <1>7, <1>8, <1>9,
           <1>10, <1>11, <1>12, <1>13, <1>14, <1>15, <1>16, <1>17, <1>18
        DEF WorkerStep

\* The same, of the Case the worker is at; OnlyAt says the rest.
LEMMA AtSuffices ==
  ASSUME TypeOK, WorkerKnown, FilesInv, WorkerStep
  PROVE  /\ (at \in Cases =>
               /\ results'[at].metrics # "none" =>
                    results'[at].committed /\ facts'[at] = "complete"
               /\ results'[at].status = "discarded" =>
                    results'[at] = Discarded /\ ~events'[at])
            => ResultsTrue'
         /\ (at \in Cases =>
               /\ prepared'[at] \/ facts'[at] # "none" => events'[at]
               /\ events'[at] => at \in begun')
            => EventsLast'
<1>1. ResultsTrue /\ EventsLast /\ FilesTypeOK
  BY WorkerContext DEF FilesInv
<1> QED BY <1>1, OnlyAt DEF ResultsTrue, EventsLast

LEMMA WorkerResultsTrue ==
  ASSUME TypeOK, WorkerKnown, FilesInv, WorkerStep
  PROVE  ResultsTrue'
<1> USE DEF InCase, FilesTypeOK, Placed, RowTrue, LinesLast, ResultsTrue,
            Working
<1>0. /\ Placed /\ Untouched /\ RowTrue /\ LinesLast /\ ResultsTrue
      /\ FilesTypeOK /\ Alive /\ mine \in Rows
  BY WorkerContext DEF FilesInv
<1>1. CASE UNCHANGED <<facts, results, events>>
  BY <1>0, <1>1
<1>2. CASE StartCase
  <2>1. at \in Cases /\ results'[at] = NoRow
    BY <1>0, <1>2 DEF StartCase, Untouched, NotStarted
  <2> QED BY <2>1, AtSuffices DEF NoRow, Row
<1>3. CASE Record
  <2>1. /\ at \in Cases /\ facts[at] # "complete" /\ events[at]
        /\ UNCHANGED <<results, events>>
    BY <1>0, <1>3 DEF Record, Row
  <2> QED BY <1>0, <2>1, AtSuffices
<1>4. CASE Commit
  <2>1. /\ at \in Cases /\ UNCHANGED <<facts, events>>
        /\ results'[at] \in {mine, results[at]} /\ mine.metrics = "none"
        /\ mine.status # "discarded"
    BY <1>0, <1>4 DEF Commit
  <2> QED BY <1>0, <2>1, AtSuffices
<1>5. CASE Measure
  <2>1. /\ at \in Cases /\ UNCHANGED <<facts, events>>
        /\ mine.committed /\ facts[at] = "complete" /\ mine.status # "discarded"
    BY <1>0, <1>5 DEF Measure
  <2>2. \/ results'[at] = results[at]
        \/ results'[at].committed /\ results'[at].status # "discarded"
    BY <1>0, <1>5, <2>1 DEF Measure, Row
  <2> QED BY <1>0, <2>1, <2>2, AtSuffices
<1>6. CASE Fail
  <2>1. /\ at \in Cases /\ UNCHANGED <<results, events>>
        /\ facts[at] = "complete" => facts'[at] = "complete"
    BY <1>0, <1>6 DEF Fail
  <2> QED BY <1>0, <2>1, AtSuffices
<1>7. CASE Discard
  <2>1. at \in Cases /\ facts[at] # "complete" /\ events[at]
    BY <1>0, <1>7 DEF Discard
  <2>2. results'[at] \in {results[at], NoRow}
    BY <1>0, <1>7, <2>1 DEF Discard
  <2>3. results[at].metrics = "none" /\ results[at].status # "discarded"
    BY <1>0, <2>1
  <2>4. NoRow.metrics = "none" /\ NoRow.status # "discarded"
    BY DEF NoRow, Row
  <2> QED BY <2>2, <2>3, <2>4, AtSuffices
<1>8. CASE SaveResult
  <2>1. at \in Cases /\ results'[at] = mine /\ UNCHANGED <<facts, events>>
    BY <1>0, <1>8 DEF SaveResult
  <2>2. /\ mine.metrics # "none" => mine.committed /\ facts[at] = "complete"
        /\ mine.status = "discarded" => mine = Discarded /\ ~events[at]
    BY <1>0, <1>8 DEF SaveResult
  <2> QED BY <2>1, <2>2, AtSuffices
<1>9. CASE SkipCase \/ GoOn \/ Prepare \/ AwaitAck \/ Collect \/ Judge
  BY <1>1, <1>9 DEF SkipCase, GoOn, Prepare, AwaitAck, Collect, Judge, files,
                    evidence
<1>10. CASE Measured \/ CloseCase \/ FinishCase \/ Exit \/ Die
  BY <1>1, <1>10 DEF Measured, CloseCase, FinishCase, Exit, Die, files, evidence
<1> QED BY <1>2, <1>3, <1>4, <1>5, <1>6, <1>7, <1>8, <1>9, <1>10
        DEF WorkerStep

LEMMA WorkerEventsLast ==
  ASSUME TypeOK, WorkerKnown, FilesInv, WorkerStep
  PROVE  EventsLast'
<1> USE DEF InCase, FilesTypeOK, Placed, LinesLast, EventsLast, Working
<1>0. Placed /\ LinesLast /\ EventsLast /\ FilesTypeOK /\ Alive
  BY WorkerContext DEF FilesInv
<1>1. CASE UNCHANGED <<facts, events, prepared, begun>>
  BY <1>0, <1>1
<1>2. CASE StartCase
  <2>1. at \in Cases => events'[at] /\ at \in begun'
    BY <1>0, <1>2 DEF StartCase
  <2> QED BY <2>1, AtSuffices
<1>3. CASE Prepare \/ Record \/ Fail
  <2>1. at \in Cases /\ events[at] /\ UNCHANGED <<events, begun>>
    BY <1>0, <1>3 DEF Prepare, Record, Fail, processVars
  <2> QED BY <1>0, <2>1, AtSuffices
<1>4. CASE Discard
  <2>1. at \in Cases /\ events[at] /\ begun' = begun /\ erased \in 0..4
    BY <1>0, <1>4 DEF Discard, processVars
  <2>2. CASE erased = 4
    <3>1. facts[at] = "none" /\ ~prepared[at]
      BY <1>0, <1>4, <2>2 DEF Discard
    <3>2. UNCHANGED <<facts, prepared>>
      BY <1>4, <2>2 DEF Discard
    <3>3. ~events'[at]
      BY <1>0, <1>4, <2>1, <2>2 DEF Discard
    <3> QED BY <3>1, <3>2, <3>3, AtSuffices
  <2>3. CASE erased # 4
    <3>1. events' = events
      BY <1>4, <2>3 DEF Discard
    <3> QED BY <1>0, <2>1, <3>1, AtSuffices
  <2> QED BY <2>2, <2>3
<1>5. CASE SkipCase \/ GoOn \/ AwaitAck \/ Collect \/ Commit \/ Judge
  BY <1>1, <1>5 DEF SkipCase, GoOn, AwaitAck, Collect, Commit, Judge, files,
                    evidence, processVars
<1>6. CASE Measure \/ Measured \/ CloseCase \/ SaveResult \/ FinishCase
  BY <1>1, <1>6 DEF Measure, Measured, CloseCase, SaveResult, FinishCase, files,
                    evidence, processVars
<1>7. CASE Exit \/ Die
  BY <1>1, <1>7 DEF Exit, Die, files, evidence
<1> QED BY <1>2, <1>3, <1>4, <1>5, <1>6, <1>7 DEF WorkerStep

\* A Case the worker is busy with stays its Case until the result is saved.
LEMMA WorkingStep ==
  ASSUME WorkerStep, Working
  PROVE  /\ at' = at /\ exit' # "ok"
         /\ Alive' /\ ~SaveResult =>
              worker' \notin {"next", "starting", "appending"}
<1> USE DEF InCase, Goes, Raise, Working, Alive, caseVars, processVars
<1>1. CASE SkipCase \/ GoOn \/ StartCase \/ FinishCase \/ Exit
  BY <1>1 DEF SkipCase, GoOn, StartCase, FinishCase, Exit
<1>2. CASE Prepare \/ AwaitAck \/ Collect \/ Record \/ Commit \/ Judge
  BY <1>2 DEF Prepare, AwaitAck, Collect, Record, Commit, Judge
<1>3. CASE Measure \/ Measured \/ Fail \/ CloseCase \/ SaveResult \/ Die
  BY <1>3 DEF Measure, Measured, Fail, CloseCase, SaveResult, Die
<1>4. CASE Discard
  <2>1. at' = at /\ exit' = exit /\ worker' \in {"discarding", "saving"}
    BY ONLY <1>4 DEF Discard, InCase, Goes, processVars
  <2> QED BY <2>1
<1> QED BY <1>1, <1>2, <1>3, <1>4 DEF WorkerStep

\* Between two Cases the worker touches no evidence before it starts the next.
LEMMA IdleStep ==
  ASSUME WorkerStep, ~Working
  PROVE  StartCase \/ UNCHANGED <<facts, results, events, prepared, begun>>
<1> USE DEF InCase, Working
<1>1. CASE SkipCase \/ GoOn \/ FinishCase \/ Exit \/ Die
  BY <1>1 DEF SkipCase, GoOn, FinishCase, Exit, Die, files, evidence,
               processVars
<1>2. CASE Prepare \/ AwaitAck \/ Collect \/ Record \/ Commit \/ Judge
  BY <1>2 DEF Prepare, AwaitAck, Collect, Record, Commit, Judge
<1>3. CASE Measure \/ Measured \/ Fail \/ CloseCase \/ SaveResult \/ Discard
  BY <1>3 DEF Measure, Measured, Fail, CloseCase, SaveResult, Discard
<1> QED BY <1>1, <1>2, <1>3 DEF WorkerStep

LEMMA WorkerOneOpen ==
  ASSUME TypeOK, WorkerKnown, FilesInv, WorkerStep
  PROVE  OneOpen'
<1>0. /\ OneOpen /\ RowTrue /\ FilesTypeOK /\ Alive /\ exit = "none"
      /\ Placed
  BY WorkerContext DEF FilesInv
<1> SUFFICES ASSUME NEW c \in Cases, Open(c)'
             PROVE  (Alive' => c = at' /\ Working') /\ exit' # "ok"
  BY DEF OneOpen
<1>1. c = at
  BY <1>0, OnlyAt DEF OneOpen, Open
<1>2. CASE Working
  <2>1. ~SaveResult
    <3>1. SaveResult => ~Open(c)'
      BY <1>0, <1>1, <1>2 DEF SaveResult, RowTrue, InCase, Open
    <3> QED BY <3>1
  <2> QED BY <1>1, <1>2, <2>1, WorkingStep DEF Working
<1>3. CASE ~Working
  <2>1. CASE StartCase
    BY <1>0, <1>1, <2>1 DEF StartCase, Working, Alive, Goes
  <2>2. CASE UNCHANGED <<facts, events>>
    BY <1>0, <1>3, <2>2 DEF OneOpen, Open
  <2> QED BY <1>0, <1>3, <2>1, <2>2, IdleStep
<1> QED BY <1>2, <1>3

-----------------------------------------------------------------------------
(* The theorems *)

LEMMA StepFiles == TaskInv /\ [Next]_vars => FilesInv'
<1> SUFFICES ASSUME TaskInv, [Next]_vars PROVE FilesInv' OBVIOUS
<1>0. TypeOK /\ WorkerKnown /\ FilesInv /\ Recovering
  BY DEF TaskInv
<1>1. CASE Interrupt
  BY <1>0, <1>1, InterruptFiles
<1>2. CASE ParentStep
  BY <1>0, <1>2, RecoverFiles, ParentFiles
<1>3. CASE WorkerStep
  BY <1>0, <1>3, WorkerPlaced, WorkerUntouched, WorkerRowTrue, WorkerLinesLast,
     WorkerResultsTrue, WorkerEventsLast, WorkerOneOpen DEF FilesInv
<1>4. CASE UNCHANGED vars
  BY <1>0, <1>4, FilesFrame DEF vars, parentVars, workerVars, processVars,
                                files, evidence, Alive
<1> QED BY <1>1, <1>2, <1>3, <1>4 DEF Next, Over

LEMMA StepRecovering == TaskInv /\ [Next]_vars => Recovering'
<1> SUFFICES ASSUME TaskInv, [Next]_vars PROVE Recovering' OBVIOUS
<1>0. TypeOK /\ WorkerKnown /\ FilesInv /\ Recovering /\ OneOpen
  BY DEF TaskInv, FilesInv
<1>1. CASE Interrupt
  BY <1>0, <1>1, InterruptRecovering
<1>2. CASE ParentStep
  BY <1>0, <1>2, EarlyRecovering, LateRecovering, RecoverRecovering
     DEF ParentStep
<1>3. CASE WorkerStep
  BY <1>0, <1>3, WorkerRecovering
<1>4. CASE UNCHANGED vars
  BY <1>0, <1>4 DEF vars, parentVars, runVars, recoveryVars, workerVars,
                    processVars, files, evidence, Recovering, Open
<1> QED BY <1>1, <1>2, <1>3, <1>4 DEF Next, Over

LEMMA StepInv == TaskInv /\ [Next]_vars => TaskInv'
<1>1. TaskInv => TypeOK /\ Placed /\ WorkerKnown
  BY DEF TaskInv, FilesInv
<1> QED BY <1>1, StepType, StepKnown, StepFiles, StepRecovering DEF TaskInv

LEMMA TaskInvariance == Spec => []TaskInv
  BY InitInv, StepInv, PTL DEF Spec

(***************************************************************************)
(* Every state of the program has the shape its data structures give it,   *)
(* the rows of task_worker.py:60-87 and case_recovery.py:69-103 included.  *)
(***************************************************************************)
THEOREM TypeCorrect == Spec => []TypeOK
<1>1. TaskInv => TypeOK
  BY DEF TaskInv
<1> QED BY <1>1, TaskInvariance, PTL

LEMMA WorkerKeeps ==
  ASSUME TaskInv, WorkerStep, NEW c \in Cases
  PROVE  /\ facts[c] = "complete" => facts'[c] = "complete"
         /\ results[c].metrics = "complete" => results'[c] = results[c]
<1>0. FilesTypeOK /\ RowTrue /\ Placed
  BY WorkerContext DEF TaskInv, FilesInv
<1>1. CASE c # at
  BY <1>0, <1>1, OnlyAt
<1>2. CASE c = at /\ ~Working
  <2>1. UNCHANGED <<facts, results>>
    BY <1>2, IdleStep DEF StartCase
  <2> QED BY <2>1
<1>3. CASE c = at /\ Working
  <2>1. /\ results[c].metrics # "complete"
        /\ mine.committed <=> facts[c] = "complete"
    BY <1>0, <1>3 DEF RowTrue
  <2>2. facts[c] = "complete" => ~Record /\ ~Discard
    BY <1>0, <1>3, <2>1 DEF RowTrue, Record, Discard, InCase, Row
  <2>3. CASE Fail
    BY <1>0, <1>3, <2>1, <2>3 DEF Fail, FilesTypeOK
  <2>4. CASE Record \/ Discard
    BY <2>1, <2>2, <2>4
  <2>5. CASE facts' = facts
    BY <2>1, <2>5
  <2>6. Fail \/ Record \/ Discard \/ facts' = facts
    <3>1. SkipCase \/ GoOn \/ StartCase \/ Prepare \/ AwaitAck \/ Collect =>
            facts' = facts
      BY DEF SkipCase, GoOn, StartCase, Prepare, AwaitAck, Collect, files,
             evidence
    <3>2. Commit \/ Judge \/ Measure \/ Measured => facts' = facts
      BY DEF Commit, Judge, Measure, Measured, files, evidence
    <3>3. CloseCase \/ SaveResult \/ FinishCase \/ Exit \/ Die => facts' = facts
      BY DEF CloseCase, SaveResult, FinishCase, Exit, Die, files, evidence
    <3> QED BY <3>1, <3>2, <3>3 DEF WorkerStep
  <2> QED BY <2>3, <2>4, <2>5, <2>6
<1> QED BY <1>1, <1>2, <1>3

\* A step of the parent that is no recovery leaves the evidence alone.
LEMMA ParentEvidence ==
  ASSUME ParentStep, ~\E c \in Cases : RecoverCase(c)
  PROVE  UNCHANGED <<evidence, begun>>
<1> USE DEF files, workerVars, processVars, Kill
<1>1. CASE OpenResource \/ Launch \/ Launched \/ Poll \/ PollAgain \/ TimeOut
  BY <1>1 DEF OpenResource, Launch, Launched, Poll, PollAgain, TimeOut
<1>2. CASE \E c \in Cases : ReadPrepared(c) \/ Acknowledge(c)
  BY <1>2 DEF ReadPrepared, Acknowledge
<1>3. CASE \/ ReadResult \/ Reap \/ CloseHandle \/ Assemble \/ Decide
           \/ WriteOutcome
  BY <1>3 DEF ReadResult, Reap, CloseHandle, Assemble, Decide, WriteOutcome
<1> QED BY <1>1, <1>2, <1>3 DEF ParentStep

LEMMA RecoveryKeeps ==
  ASSUME TaskInv, NEW d \in Cases, RecoverCase(d), NEW c \in Cases
  PROVE  /\ facts[c] = "complete" => facts'[c] = "complete"
         /\ results[c].metrics = "complete" => results'[c] = results[c]
<1>0. TypeOK /\ FilesInv /\ Recovering /\ ResultsTrue /\ results[c] \in Rows
  BY DEF TaskInv, FilesInv, TypeOK, FilesTypeOK
<1>1. results[c].metrics = "complete" =>
        results[c].committed /\ facts[c] = "complete"
  BY <1>0 DEF ResultsTrue
<1>2. results[c].metrics = "complete" => Completed(results[c]) = results[c]
  BY <1>0, <1>1, CompletedCommitted DEF ResultsTrue
<1> QED BY <1>0, <1>1, <1>2, RecoverOutcome

(***************************************************************************)
(* A committed collection and its completed metrics stay, whoever is       *)
(* killed when and whatever is recovered (case_recovery.py:69-103,         *)
(* evaluation_session.py:365-447).                                         *)
(***************************************************************************)
THEOREM CommittedCorrect == Spec => CommittedKept
<1> DEFINE Kept == \A c \in Cases :
              /\ facts[c] = "complete" => facts'[c] = "complete"
              /\ results[c].metrics = "complete" => results'[c] = results[c]
<1>1. TaskInv /\ [Next]_vars => [Kept]_vars
  <2> SUFFICES ASSUME TaskInv, [Next]_vars PROVE Kept \/ UNCHANGED vars OBVIOUS
  <2>1. CASE UNCHANGED evidence
    BY <2>1 DEF evidence
  <2>2. CASE Interrupt
    BY <2>1, <2>2 DEF Interrupt, files
  <2>3. CASE ParentStep
    BY <2>1, <2>3, ParentEvidence, RecoveryKeeps
  <2>4. CASE WorkerStep
    BY <2>4, WorkerKeeps
  <2> QED BY <2>2, <2>3, <2>4 DEF Next, Over
<1> QED BY <1>1, TaskInvariance, PTL DEF Spec, CommittedKept

-----------------------------------------------------------------------------
(* The refinement *)

fates == [c \in Cases |-> Fate(c)]

\* By EventsLast a Case is open exactly while its lines are there.
LEMMA FateByLines ==
  ASSUME EventsLast, NEW c \in Cases
  PROVE  /\ facts[c] = "complete" => Fate(c) = "committed"
         /\ Open(c) => Fate(c) = "open"
         /\ facts[c] # "complete" /\ ~events[c] =>
              Fate(c) = IF c \in begun THEN "gone" ELSE "unopened"
         /\ Fate(c) = "open" => Open(c)
BY DEF EventsLast, Fate, Open

LEMMA FatesFrame ==
  ASSUME UNCHANGED <<facts, events, prepared, begun>>
  PROVE  fates' = fates
BY DEF fates, Fate

\* A step that moves one Case moves only its fate.
LEMMA FatesAt ==
  ASSUME NEW c \in Cases, NEW f, Fate(c)' = f,
         \A d \in Cases \ {c} : Fate(d)' = Fate(d)
  PROVE  fates' = [fates EXCEPT ![c] = f]
BY DEF fates

LEMMA InitRefines == Init => Commitment!Init
<1> SUFFICES ASSUME Init PROVE Commitment!Init OBVIOUS
<1>1. \A c \in Cases : Fate(c) = "unopened"
  BY DEF Init, Fate
<1> QED BY <1>1 DEF Init, Commitment!Init

LEMMA RecoveryRefines ==
  ASSUME TaskInv, TaskInv', NEW c \in Cases, RecoverCase(c)
  PROVE  Commitment!Discard(c) \/ UNCHANGED <<fates, parent = "over">>
<1>0. /\ TypeOK /\ FilesInv /\ Recovering /\ EventsLast /\ EventsLast'
      /\ begun' = begun
  BY DEF TaskInv, FilesInv, RecoverCase, workerVars, processVars
<1>1. parent # "over" /\ parent' # "over"
  BY DEF RecoverCase
<1>2. \A d \in Cases \ {c} : Fate(d)' = Fate(d)
  BY <1>0, RecoverOutcome DEF Fate
<1>3. CASE Open(c) /\ ~events'[c]
  <2>1. Fate(c) = "open" /\ c \in begun
    BY <1>0, <1>3, FateByLines DEF EventsLast, Open
  <2>2. facts'[c] # "complete"
    BY <1>0, <1>3, RecoverOutcome DEF Open
  <2>3. Fate(c)' = "gone"
    BY <1>0, <1>3, <2>1, <2>2 DEF EventsLast, Fate
  <2>4. fates' = [fates EXCEPT ![c] = "gone"]
    BY <1>2, <2>3, FatesAt
  <2> QED BY <1>1, <2>1, <2>4 DEF Commitment!Discard, fates
<1>4. CASE ~(Open(c) /\ ~events'[c])
  <2>1. Fate(c)' = Fate(c)
    BY <1>0, <1>4, RecoverOutcome DEF EventsLast, Fate, Open
  <2>2. fates' = fates
    BY <1>2, <2>1 DEF fates
  <2> QED BY <1>1, <2>2
<1> QED BY <1>3, <1>4

\* Steps of the worker at the Case it is at.
LEMMA WorkerRefinesAt ==
  ASSUME TaskInv, TaskInv', WorkerStep, NEW c \in Cases, c = at
  PROVE  \/ Commitment!Open(c) \/ Commitment!Commit(c) \/ Commitment!Discard(c)
         \/ UNCHANGED <<fates, parent = "over">>
<1>0. /\ EventsLast /\ EventsLast' /\ FilesTypeOK /\ Alive
      /\ OneOpen /\ Untouched /\ Placed /\ RowTrue /\ LinesLast
      /\ parent' = parent
  BY WorkerContext DEF TaskInv, FilesInv
<1>1. parent # "over"
  BY <1>0 DEF TaskInv, WorkerKnown, WorkerDeadFirst
<1>2. \A d \in Cases \ {c} : Fate(d)' = Fate(d)
  BY <1>0, OnlyAt DEF Fate
<1>3. CASE UNCHANGED <<facts, events, prepared, begun>>
  BY <1>0, <1>3, FatesFrame
<1>4. CASE Fate(c)' = Fate(c)
  <2>1. fates' = fates
    BY <1>2, <1>4 DEF fates
  <2> QED BY <1>0, <2>1
<1>5. CASE StartCase
  <2>1. worker = "starting" /\ ~Working
    BY <1>5 DEF StartCase, InCase, Working
  <2>2. facts[c] = "none" /\ ~events[c] /\ c \notin begun
    BY <1>0, <2>1 DEF Untouched, NotStarted
  <2>3. Fate(c) = "unopened"
    BY <1>0, <2>2, FateByLines
  <2>4. \A d \in Cases : Fate(d) # "open"
    BY <1>0, <2>1, FateByLines DEF OneOpen
  <2>5. events'[c] /\ facts' = facts
    BY <1>0, <1>5 DEF StartCase, FilesTypeOK
  <2>6. Fate(c)' = "open"
    BY <2>2, <2>5 DEF Fate
  <2>7. fates' = [fates EXCEPT ![c] = "open"]
    BY <1>2, <2>6, FatesAt
  <2> QED BY <1>0, <1>1, <2>3, <2>4, <2>7 DEF Commitment!Open, fates
<1>6. CASE Record
  <2>1. Open(c) /\ events' = events
    BY <1>0, <1>6 DEF Record, InCase, Working, RowTrue, LinesLast, Row, Open
  <2>2. Fate(c) = "open"
    BY <1>0, <2>1, FateByLines
  <2>3. facts'[c] = "complete" => Fate(c)' = "committed"
    BY DEF Fate
  <2>4. facts'[c] # "complete" => Fate(c)' = Fate(c)
    BY <2>1, <2>2 DEF Fate, Open
  <2>5. facts'[c] = "complete" => fates' = [fates EXCEPT ![c] = "committed"]
    BY <1>2, <2>3, FatesAt
  <2> QED BY <1>0, <1>4, <2>2, <2>4, <2>5 DEF Commitment!Commit, fates
<1>7. CASE Discard
  <2>1. facts[c] # "complete" /\ events[c] /\ begun' = begun
    BY <1>0, <1>7 DEF Discard, InCase, Working, RowTrue, LinesLast, processVars
  <2>2. facts'[c] # "complete"
    BY <1>0, <1>7, <2>1 DEF Discard, FilesTypeOK
  <2>3. Fate(c) = "open" /\ c \in begun
    BY <1>0, <2>1, FateByLines DEF Open, EventsLast
  <2>4. events'[c] => Fate(c)' = Fate(c)
    BY <2>2, <2>3 DEF Fate
  <2>5. ~events'[c] => Fate(c)' = "gone"
    BY <1>0, <2>1, <2>2, <2>3 DEF Fate, EventsLast
  <2>6. ~events'[c] => fates' = [fates EXCEPT ![c] = "gone"]
    BY <1>2, <2>5, FatesAt
  <2> QED BY <1>0, <1>4, <2>3, <2>4, <2>6 DEF Commitment!Discard, fates
<1>8. CASE Prepare \/ Fail
  <2>1. events[c] /\ UNCHANGED <<events, begun>>
    BY <1>0, <1>8 DEF Prepare, Fail, InCase, Working, LinesLast, processVars
  <2>2. facts'[c] = "complete" <=> facts[c] = "complete"
    BY <1>0, <1>8 DEF Prepare, Fail, FilesTypeOK
  <2> QED BY <1>4, <2>1, <2>2 DEF Fate
<1>9. CASE SkipCase \/ GoOn \/ AwaitAck \/ Collect \/ Commit \/ Judge
  BY <1>3, <1>9 DEF SkipCase, GoOn, AwaitAck, Collect, Commit, Judge, files,
                    evidence, processVars
<1>10. CASE Measure \/ Measured \/ CloseCase \/ SaveResult \/ FinishCase
  BY <1>3, <1>10 DEF Measure, Measured, CloseCase, SaveResult, FinishCase,
                     files, evidence, processVars
<1>11. CASE Exit \/ Die
  BY <1>3, <1>11 DEF Exit, Die, files, evidence
<1> QED BY <1>5, <1>6, <1>7, <1>8, <1>9, <1>10, <1>11 DEF WorkerStep

LEMMA WorkerRefines ==
  ASSUME TaskInv, TaskInv', WorkerStep
  PROVE  \/ \E c \in Cases : Commitment!Open(c) \/ Commitment!Commit(c)
                             \/ Commitment!Discard(c)
         \/ UNCHANGED <<fates, parent = "over">>
<1>1. CASE at \in Cases
  <2>1. \E d \in Cases : d = at
    BY <1>1
  <2> QED BY <2>1, WorkerRefinesAt
<1>2. CASE at \notin Cases
  <2>1. FilesTypeOK /\ parent' = parent
    BY WorkerContext DEF TaskInv
  <2>2. \A d \in Cases : Fate(d)' = Fate(d)
    BY <1>2, <2>1, OnlyAt DEF Fate
  <2>3. fates' = fates
    BY <2>2 DEF fates
  <2> QED BY <2>1, <2>3
<1> QED BY <1>1, <1>2

LEMMA StepRefines ==
  TaskInv /\ TaskInv' /\ [Next]_vars =>
    [Commitment!Next]_<<fates, parent = "over">>
<1> SUFFICES ASSUME TaskInv, TaskInv', [Next]_vars
             PROVE  Commitment!Next \/ UNCHANGED <<fates, parent = "over">>
  OBVIOUS
<1>1. CASE Interrupt
  <2>1. parent' = parent /\ UNCHANGED <<evidence, begun>>
    BY <1>1 DEF Interrupt, files, Kill, workerVars, processVars
  <2> QED BY <2>1, FatesFrame DEF evidence
<1>2. CASE \E c \in Cases : RecoverCase(c)
  BY <1>2, RecoveryRefines DEF Commitment!Next
<1>3. CASE WriteOutcome
  <2>1. \A c \in Cases : Fate(c) # "open"
    BY <1>3, FateByLines DEF WriteOutcome, TaskInv, FilesInv, Recovering
  <2>2. fates' = fates
    BY <1>3, FatesFrame DEF WriteOutcome, evidence, workerVars, processVars
  <2>3. parent' = "over"
    BY <1>3 DEF WriteOutcome
  <2> QED BY <2>1, <2>2, <2>3 DEF Commitment!Next, Commitment!End, fates
<1>4. CASE ParentStep /\ ~WriteOutcome /\ ~\E c \in Cases : RecoverCase(c)
  <2>1. fates' = fates
    BY <1>4, ParentEvidence, FatesFrame DEF evidence
  <2>2. parent' = "over" <=> parent = "over"
    BY <1>4 DEF ParentStep, OpenResource, Launch, Launched, Poll, PollAgain,
                TimeOut, ReadPrepared, Acknowledge, ReadResult, Reap,
                CloseHandle, Assemble, Decide, Fails
  <2> QED BY <2>1, <2>2
<1>5. CASE WorkerStep
  BY <1>5, WorkerRefines DEF Commitment!Next
<1>6. CASE UNCHANGED vars
  BY <1>6, FatesFrame DEF vars, parentVars, workerVars, processVars, files,
                          evidence
<1> QED BY <1>1, <1>2, <1>3, <1>4, <1>5, <1>6 DEF Next, Over, ParentStep

(***************************************************************************)
(* The files of a task implement CaseCommitment.tla: a Case is opened with *)
(* its first event and closed by the write of its complete facts or by the *)
(* removal of its last event, by the worker or by recover_cases.           *)
(***************************************************************************)
THEOREM Refinement == Spec => ImplementsCommitment
<1>1. TaskInv /\ TaskInv' /\ [Next]_vars => [Commitment!Next]_(Commitment!vars)
  BY StepRefines DEF Commitment!vars, fates
<1> QED BY InitRefines, <1>1, TaskInvariance, PTL
        DEF Spec, ImplementsCommitment, Commitment!Spec

-----------------------------------------------------------------------------
(***************************************************************************)
(* The report.  It says of each Case what the disk says, and success only  *)
(* when everything was collected and computed.  Both rest on ReportInv:    *)
(* every row of the report comes from the worker's last result.json, where *)
(* a row is of a Case the worker has passed, or from recover_cases.        *)
(***************************************************************************)
(* Rows *)

LEMMA RowFields ==
  /\ NoRow.status = "none" /\ ~NoRow.committed /\ NoRow.metrics = "none"
  /\ Skipped.status = "skipped" /\ ~Skipped.committed
  /\ Skipped.metrics = "none"
  /\ Discarded.status = "discarded" /\ ~Discarded.committed
  /\ Discarded.metrics = "none"
BY DEF NoRow, Skipped, Discarded, Row

LEMMA NoOutcomeFields ==
  NoOutcome.status = "none" /\ \A c \in Cases : NoOutcome.rows[c] = NoRow
BY DEF NoOutcome

LEMMA RowOfNamed ==
  ASSUME NEW c, NEW row, RowOf(c, row)
  PROVE  row.status # "none" /\ row # NoRow
BY RowFields DEF RowOf

\* A row stays true of a Case whose files are left alone.
LEMMA RowOfFrame ==
  ASSUME NEW c, NEW row, RowOf(c, row),
         facts'[c] = facts[c], results'[c] = results[c], events'[c] = events[c]
  PROVE  RowOf(c, row)'
BY DEF RowOf

LEMMA AggregateSuccess ==
  ASSUME NEW S, AggregateStatus(S) = "success"
  PROVE  S = {"success"}
BY DEF AggregateStatus

LEMMA AppendedRows ==
  ASSUME taskFile \in Outcomes, NEW row \in Rows, AppendRow(row), at \in Cases
  PROVE  /\ taskFile'.rows[at] = row
         /\ \A c \in Cases \ {at} : taskFile'.rows[c] = taskFile.rows[c]
         /\ taskFile'.status = "success" =>
              \A c \in Cases : taskFile'.rows[c].status \in {"none", "success"}
<1> DEFINE rows == [taskFile.rows EXCEPT ![at] = row]
<1>1. /\ taskFile'.rows = rows
      /\ taskFile'.status = AggregateStatus(StatesOf(rows))
  BY DEF AppendRow
<1>2. /\ rows[at] = row
      /\ \A c \in Cases \ {at} : rows[c] = taskFile.rows[c]
  BY DEF Outcomes
<1> HIDE DEF rows
<1>3. ASSUME taskFile'.status = "success", NEW c \in Cases
      PROVE  rows[c].status \in {"none", "success"}
  <2>1. StatesOf(rows) = {"success"}
    BY <1>1, <1>3, AggregateSuccess
  <2>2. rows[c].status # "none" => rows[c].status \in StatesOf(rows)
    BY DEF StatesOf
  <2> QED BY <2>1, <2>2
<1> QED BY <1>1, <1>2, <1>3

LEMMA InitReport == Init => ReportInv
<1> SUFFICES ASSUME Init PROVE ReportInv OBVIOUS
<1>1. TaskInv
  BY InitInv
<1>2. ~Alive
  BY DEF Init, Alive
<1>3. Judged
  BY RowFields DEF Init, Judged
<1>4. Appending
  BY <1>2 DEF Appending
<1>5. WorkerRows
  <2>1. taskFile = NoOutcome /\ exit = "none" /\ at = 1
    BY DEF Init
  <2>2. \A c \in Cases : c >= at
    BY <2>1 DEF Cases
  <2> QED BY <2>1, <2>2, NoOutcomeFields DEF WorkerRows
<1>6. OutcomeRows
  BY <1>2 DEF Init, OutcomeRows
<1> QED BY <1>1, <1>3, <1>4, <1>5, <1>6 DEF ReportInv

-----------------------------------------------------------------------------
(* The worker *)

LEMMA WorkerFacts ==
  ASSUME ReportInv, WorkerStep
  PROVE  /\ TypeOK /\ WorkerKnown /\ FilesInv /\ FilesTypeOK /\ Placed
         /\ RowTrue /\ Untouched /\ Alive /\ exit = "none" /\ mine \in Rows
         /\ at \in 1..(NumCases + 1)
         /\ parent \notin {"opening", "closing", "deciding", "recovering",
                           "writing", "over"}
         /\ UNCHANGED <<parent, outcome, errors, recovered>>
<1>1. TypeOK /\ WorkerKnown /\ FilesInv
  BY DEF ReportInv, TaskInv
<1>2. /\ Alive /\ exit = "none" /\ FilesTypeOK /\ parent # "opening"
      /\ mine \in Rows /\ at \in 1..(NumCases + 1)
  BY <1>1, WorkerContext
<1>3. parent \notin {"closing", "deciding", "recovering", "writing", "over"}
  BY <1>1, <1>2 DEF WorkerKnown, WorkerDeadFirst
<1> QED BY <1>1, <1>2, <1>3
        DEF FilesInv, WorkerStep, parentVars, runVars, recoveryVars

LEMMA WorkerJudged == ReportInv /\ WorkerStep => Judged'
<1> SUFFICES ASSUME ReportInv, WorkerStep, NEW c \in Cases
             PROVE  results'[c].committed => results'[c].status # "none"
  BY DEF Judged
<1> USE DEF FilesTypeOK, RowTrue, Working, InCase
<1>0. /\ FilesTypeOK /\ RowTrue /\ Alive
      /\ results[c].committed => results[c].status # "none"
  BY WorkerFacts DEF ReportInv, Judged
<1>1. CASE c # at
  BY <1>0, <1>1, OnlyAt
<1>2. CASE results'[c] = results[c]
  BY <1>0, <1>2
<1>3. CASE c = at /\ (Commit \/ SaveResult)
  <2>1. results'[c] \in {mine, results[c]} /\ mine.status # "none"
    BY <1>0, <1>3 DEF Commit, SaveResult
  <2> QED BY <1>0, <2>1
<1>4. CASE c = at /\ Measure
  <2>1. \/ results'[c] = results[c]
        \/ results'[c].status \in {mine.status, "partial_failed"}
    BY <1>0, <1>4 DEF Measure, Row
  <2>2. mine.status # "none"
    BY <1>0, <1>4 DEF Measure
  <2> QED BY <1>0, <2>1, <2>2
<1>5. CASE c = at /\ Discard
  <2>1. results'[c] \in {results[c], NoRow}
    BY <1>0, <1>5 DEF Discard
  <2> QED BY <1>0, <2>1, RowFields
<1>6. CASE SkipCase \/ GoOn \/ StartCase \/ Prepare \/ AwaitAck \/ Collect
  BY <1>2, <1>6 DEF SkipCase, GoOn, StartCase, Prepare, AwaitAck, Collect,
                    files, evidence
<1>7. CASE Record \/ Judge \/ Measured \/ Fail \/ CloseCase
  BY <1>2, <1>7 DEF Record, Judge, Measured, Fail, CloseCase, files, evidence
<1>8. CASE FinishCase \/ Exit \/ Die
  BY <1>2, <1>8 DEF FinishCase, Exit, Die, files, evidence
<1> QED BY <1>1, <1>3, <1>4, <1>5, <1>6, <1>7, <1>8 DEF WorkerStep

LEMMA WorkerAppending == ReportInv /\ WorkerStep => Appending'
<1> SUFFICES ASSUME ReportInv, WorkerStep PROVE Appending' OBVIOUS
<1> USE DEF Appending, InCase, Goes, Raise
<1>0. /\ FilesTypeOK /\ RowTrue /\ Alive /\ Placed /\ Appending /\ mine \in Rows
      /\ worker = "saving" => RowTrue /\ at \in Cases
  BY WorkerFacts DEF ReportInv, Placed
<1>1. CASE SkipCase \/ GoOn \/ StartCase \/ Prepare \/ AwaitAck \/ Collect
  BY <1>0, <1>1 DEF SkipCase, GoOn, StartCase, Prepare, AwaitAck, Collect
<1>2. CASE Record \/ Commit \/ Judge
  BY <1>0, <1>2 DEF Record, Commit, Judge
<1>3. CASE Measure BY <1>0, <1>3 DEF Measure
<1>4. CASE Measured
  <2>1. mine'.metrics = "complete" /\ worker' = "closing"
    BY <1>0, <1>4 DEF Measured, Rows
  <2> QED BY <2>1
<1>5. CASE Fail
  <2>1. mine'.status # "success" /\ worker' = "closing"
    BY <1>0, <1>5 DEF Fail, Rows
  <2> QED BY <2>1
<1>6. CASE CloseCase
  <2>1. /\ mine' = mine \/ mine'.status # "success"
        /\ worker = "closing" /\ worker' \in {"saving", "discarding"}
    BY <1>0, <1>6 DEF CloseCase, Rows
  <2> QED BY <1>0, <2>1
<1>7. CASE Discard
  <2>1. /\ mine' \in {mine, Discarded} /\ worker = "discarding"
        /\ worker' \in {"saving", "discarding"}
    BY <1>7 DEF Discard
  <2> QED BY <1>0, <2>1, RowFields
<1>8. CASE SaveResult
  <2>1. /\ results'[at] = mine /\ facts' = facts /\ mine' = mine /\ at' = at
        /\ worker = "saving" /\ worker' = "appending"
    BY <1>0, <1>8 DEF SaveResult, caseVars, FilesTypeOK
  <2>2. /\ mine.status # "none" /\ (mine.committed <=> facts[at] = "complete")
        /\ mine.metrics # "none" => mine.committed
    BY <1>0, <2>1 DEF RowTrue, Working
  <2>3. RowOf(at, mine)'
    BY <1>0, <2>1, <2>2 DEF RowOf
  <2> QED BY <2>1, <2>3
<1>9. CASE FinishCase
  BY <1>9 DEF FinishCase
<1>10. CASE Exit \/ Die
  BY <1>10 DEF Exit, Die, Alive
<1> QED BY <1>1, <1>2, <1>3, <1>4, <1>5, <1>6, <1>7, <1>8, <1>9, <1>10
        DEF WorkerStep

LEMMA WorkerRowsFacts ==
  ASSUME ReportInv, WorkerStep
  PROVE  \A c \in Cases :
           /\ taskFile.rows[c] = NoRow \/ RowOf(c, taskFile.rows[c])
           /\ taskFile.rows[c] = NoRow <=> c >= at
           /\ taskFile.status = "success" =>
                taskFile.rows[c].status \in {"none", "success"}
BY WorkerFacts DEF ReportInv, WorkerRows

\* What is said of another Case than the worker's stays true.
LEMMA OtherRows ==
  ASSUME ReportInv, WorkerStep, NEW c \in Cases, c # at, NEW row, RowOf(c, row)
  PROVE  RowOf(c, row)'
<1>1. facts'[c] = facts[c] /\ results'[c] = results[c] /\ events'[c] = events[c]
  BY WorkerFacts, OnlyAt
<1> QED BY <1>1, RowOfFrame

LEMMA AppendWorkerRows ==
  ASSUME ReportInv, WorkerStep, NEW c \in Cases, c = at,
         NEW row \in Rows, AppendRow(row), RowOf(c, row)',
         at' = at + 1, exit' = exit
  PROVE  WorkerRows'
<1>1. /\ taskFile'.rows[c] = row
      /\ \A d \in Cases \ {c} : taskFile'.rows[d] = taskFile.rows[d]
      /\ taskFile'.status = "success" =>
           \A d \in Cases : taskFile'.rows[d].status \in {"none", "success"}
  BY WorkerFacts, AppendedRows DEF FilesTypeOK
<1>2. row # NoRow
  BY RowFields DEF RowOf
<1> SUFFICES ASSUME NEW d \in Cases
             PROVE  /\ taskFile'.rows[d] = NoRow \/ RowOf(d, taskFile.rows[d])'
                    /\ taskFile'.rows[d] = NoRow <=> d >= at'
  BY <1>1, WorkerFacts DEF WorkerRows
<1>3. d \in Int /\ c \in Int
  BY DEF Cases
<1>4. CASE d = c
  BY <1>1, <1>2, <1>3, <1>4 DEF RowOf
<1>5. CASE d # c
  <2>1. taskFile'.rows[d] = taskFile.rows[d]
    BY <1>1, <1>5
  <2>2. taskFile.rows[d] = NoRow <=> d >= at'
    BY <1>3, <1>5, WorkerRowsFacts
  <2>3. taskFile.rows[d] = NoRow \/ RowOf(d, taskFile.rows[d])
    BY WorkerRowsFacts
  <2>4. ASSUME RowOf(d, taskFile.rows[d]) PROVE RowOf(d, taskFile.rows[d])'
    <3>1. \A r : RowOf(d, r) => RowOf(d, r)'
      BY <1>5, OtherRows
    <3> QED BY <2>1, <2>4, <3>1 DEF RowOf
  <2> QED BY <2>1, <2>2, <2>3, <2>4
<1> QED BY <1>4, <1>5

LEMMA WorkerWorkerRows == ReportInv /\ WorkerStep => WorkerRows'
<1> SUFFICES ASSUME ReportInv, WorkerStep PROVE WorkerRows' OBVIOUS
<1>0. /\ FilesTypeOK /\ Alive /\ exit = "none" /\ Placed /\ Untouched
      /\ at \in 1..(NumCases + 1) /\ mine \in Rows /\ Appending
  BY WorkerFacts DEF ReportInv
<1>1. \A c \in Cases : taskFile'.rows[c] = taskFile.rows[c] =>
        taskFile'.rows[c] = NoRow \/ RowOf(c, taskFile.rows[c])'
  <2> SUFFICES ASSUME NEW c \in Cases, taskFile'.rows[c] = taskFile.rows[c],
                      taskFile.rows[c] # NoRow
               PROVE  RowOf(c, taskFile.rows[c])'
    OBVIOUS
  <2>1. c # at /\ RowOf(c, taskFile.rows[c])
    BY <1>0, WorkerRowsFacts
  <2>2. \A r : RowOf(c, r) => RowOf(c, r)'
    BY <2>1, OtherRows
  <2> QED BY <2>1, <2>2 DEF RowOf
<1>2. CASE UNCHANGED <<taskFile, at, exit>> \/ Die
  BY <1>0, <1>1, <1>2, WorkerRowsFacts DEF Die, caseVars, files, WorkerRows
<1>3. CASE SkipCase
  <2>1. /\ at \in Cases /\ AppendRow(Skipped) /\ at' = at + 1 /\ exit' = exit
        /\ UNCHANGED evidence
    BY <1>0, <1>3, CasesAssumption DEF SkipCase, Cases, processVars
  <2>2. PICK c \in Cases : c = at
    BY <2>1
  <2>3. facts[c] = "none" /\ results[c] = NoRow /\ ~events[c]
    BY <1>0, <1>3, <2>2 DEF SkipCase, InCase, Untouched, NotStarted
  <2>4. RowOf(c, Skipped)'
    BY <2>1, <2>3 DEF RowOf, evidence
  <2> QED BY <2>1, <2>2, <2>4, RowType, AppendWorkerRows
<1>4. CASE FinishCase
  <2>1. /\ at \in Cases /\ AppendRow(mine) /\ at' = at + 1 /\ exit' = exit
        /\ UNCHANGED evidence /\ RowOf(at, mine)
    BY <1>0, <1>4 DEF FinishCase, InCase, Placed, Appending, processVars
  <2>2. PICK c \in Cases : c = at
    BY <2>1
  <2>3. PICK row \in Rows : row = mine
    BY <1>0
  <2>4. RowOf(c, row)'
    BY <2>1, <2>2, <2>3, RowOfFrame DEF evidence
  <2> QED BY <2>1, <2>2, <2>3, <2>4, AppendWorkerRows
<1>5. CASE Exit
  <2>1. \A c \in Cases : c < at
    BY <1>0, <1>5, CasesAssumption DEF Exit, Cases
  <2>2. \A c \in Cases : taskFile.rows[c] # NoRow
    BY <1>0, <2>1, WorkerRowsFacts DEF Cases
  <2>3. /\ taskFile'.rows = taskFile.rows
        /\ taskFile'.status = "success" => taskFile.status = "success"
        /\ exit' = "ok"
    BY <1>0, <1>5 DEF Exit, FilesTypeOK, Outcomes
  <2> QED BY <1>1, <2>2, <2>3, WorkerRowsFacts DEF WorkerRows
<1>6. CASE GoOn \/ StartCase \/ Prepare \/ AwaitAck \/ Collect \/ Record
  BY <1>2, <1>6 DEF GoOn, StartCase, Prepare, AwaitAck, Collect, Record,
                    caseVars, processVars, files
<1>7. CASE Commit \/ Judge \/ Measure \/ Measured \/ Fail \/ CloseCase
  BY <1>2, <1>7 DEF Commit, Judge, Measure, Measured, Fail, CloseCase,
                    caseVars, processVars, files
<1>8. CASE Discard \/ SaveResult
  BY <1>2, <1>8 DEF Discard, SaveResult, caseVars, processVars
<1> QED BY <1>2, <1>3, <1>4, <1>5, <1>6, <1>7, <1>8 DEF WorkerStep

LEMMA WorkerOutcomeRows == ReportInv /\ WorkerStep => OutcomeRows'
<1> SUFFICES ASSUME ReportInv, WorkerStep PROVE OutcomeRows' OBVIOUS
<1>1. /\ outcome = NoOutcome /\ OutcomeRows
      /\ parent \notin {"closing", "deciding", "recovering", "writing", "over"}
      /\ UNCHANGED <<parent, outcome, errors, recovered>>
      /\ parent = "reaping" => errors
  BY WorkerFacts DEF ReportInv, OutcomeRows, TaskInv, Recovering, Alive
<1> QED BY <1>1, NoOutcomeFields, RowFields DEF OutcomeRows

-----------------------------------------------------------------------------
(* The parent and the user *)

\* Steps that leave the files and the place of the worker alone.
LEMMA RowsFrame ==
  ASSUME Judged, Appending, WorkerRows,
         UNCHANGED <<worker, at, mine, taskFile, facts, results, events>>,
         parent \in {"recovering", "writing", "over"} =>
           parent' \in {"recovering", "writing", "over"},
         Alive' => Alive,
         exit' \in {exit, "bad"}
  PROVE  Judged' /\ Appending' /\ WorkerRows'
<1>1. Judged'
  BY DEF Judged
<1>2. Appending'
  BY DEF Appending, RowOf
<1>3. WorkerRows'
  <2>1. exit' = "none" => exit = "none"
    OBVIOUS
  <2>2. exit' = "ok" => exit = "ok"
    OBVIOUS
  <2>3. \A c \in Cases :
          RowOf(c, taskFile.rows[c]) => RowOf(c, taskFile.rows[c])'
    BY DEF RowOf
  <2> QED BY <2>1, <2>2, <2>3 DEF WorkerRows
<1> QED BY <1>1, <1>2, <1>3

LEMMA KillRows ==
  ASSUME Kill
  PROVE  /\ UNCHANGED <<worker, at, mine>> /\ exit' \in {exit, "bad"}
         /\ Alive' => Alive
BY DEF Kill, Alive, caseVars

LEMMA InterruptReport ==
  ReportInv /\ Interrupt =>
    Judged' /\ Appending' /\ WorkerRows' /\ OutcomeRows'
<1> SUFFICES ASSUME ReportInv, Interrupt
             PROVE  Judged' /\ Appending' /\ WorkerRows' /\ OutcomeRows'
  OBVIOUS
<1>1. /\ UNCHANGED <<worker, at, mine>> /\ exit' \in {exit, "bad"}
      /\ Alive' => Alive
  BY KillRows DEF Interrupt, workerVars, caseVars, processVars, Alive
<1>2. UNCHANGED <<parent, outcome, errors, recovered, taskFile, facts, results,
                  events>>
  BY DEF Interrupt, runVars, recoveryVars, files, evidence
<1>3. Judged' /\ Appending' /\ WorkerRows'
  BY <1>1, <1>2, RowsFrame DEF ReportInv
<1>4. OutcomeRows'
  BY <1>1, <1>2 DEF ReportInv, OutcomeRows, RowOf, Reported
<1> QED BY <1>3, <1>4

LEMMA ParentRows ==
  ASSUME ReportInv, ParentStep, ~\E c \in Cases : RecoverCase(c), ~WriteOutcome
  PROVE  /\ Judged' /\ Appending' /\ WorkerRows'
         /\ UNCHANGED <<facts, results, events, taskFile>>
<1>1. UNCHANGED <<facts, results, events>>
  BY ParentEvidence DEF evidence
<1>2. taskFile' = taskFile
  BY DEF ParentStep, OpenResource, Launch, Launched, Poll, PollAgain, TimeOut,
         ReadPrepared, Acknowledge, ReadResult, Reap, CloseHandle, Assemble,
         Decide, files
<1>3. parent \in {"recovering", "writing", "over"} =>
        parent' \in {"recovering", "writing", "over"}
  BY DEF ParentStep, OpenResource, Launch, Launched, Poll, PollAgain, TimeOut,
         ReadPrepared, Acknowledge, ReadResult, Reap, CloseHandle, Assemble,
         Decide
<1>4. Judged /\ Appending /\ WorkerRows /\ Judged'
  BY <1>1 DEF ReportInv, Judged
<1>5. CASE TimeOut \/ Reap
  BY <1>1, <1>2, <1>3, <1>4, <1>5, KillRows, RowsFrame DEF TimeOut, Reap
<1>6. CASE UNCHANGED workerVars
  BY <1>1, <1>2, <1>3, <1>4, <1>6, RowsFrame
     DEF workerVars, caseVars, processVars, Alive
<1>7. CASE Launch /\ worker' = "next"
  <2>1. UNCHANGED <<at, mine, exit>> /\ parent = "opening"
    BY <1>7 DEF Launch, caseVars, processVars
  <2>2. Appending'
    BY <1>7 DEF Appending
  <2>3. \A c \in Cases :
          RowOf(c, taskFile.rows[c]) => RowOf(c, taskFile.rows[c])'
    BY <1>1, <1>2 DEF RowOf
  <2>4. WorkerRows'
    BY <1>2, <1>4, <2>1, <2>3 DEF WorkerRows
  <2> QED BY <1>1, <1>2, <1>4, <2>2, <2>4
<1>8. Launch => worker' = "next" \/ UNCHANGED workerVars
  BY DEF Launch, workerVars
<1> QED
  BY <1>5, <1>6, <1>7, <1>8
     DEF ParentStep, OpenResource, Launched, Poll, PollAgain, ReadPrepared,
         Acknowledge, ReadResult, CloseHandle, Assemble, Decide

\* Until the parent has read the worker's result.json there is no outcome.
LEMMA EarlyOutcomeRows ==
  ASSUME ReportInv,
         \/ OpenResource \/ Launch \/ Launched \/ Poll \/ PollAgain \/ TimeOut
         \/ \E c \in Cases : ReadPrepared(c) \/ Acknowledge(c)
  PROVE  OutcomeRows'
<1>1. /\ parent \in {"opening", "launching", "polling", "acknowledging",
                     "touching"}
      /\ outcome' = outcome
      /\ parent' \in {"opening", "launching", "polling", "acknowledging",
                      "touching", "reading", "reaping"}
      /\ parent' = "reaping" => errors'
  BY DEF OpenResource, Launch, Launched, Poll, PollAgain, TimeOut,
         ReadPrepared, Acknowledge, Fails, runVars
<1>2. outcome' = NoOutcome
  BY <1>1 DEF ReportInv, OutcomeRows
<1> QED BY <1>1, <1>2, NoOutcomeFields DEF OutcomeRows

\* The rows of the report before the recovery are the worker's.
LEMMA ReadOutcomeRows == ReportInv /\ ReadResult => OutcomeRows'
<1> SUFFICES ASSUME ReportInv, ReadResult PROVE OutcomeRows' OBVIOUS
<1>1. /\ parent = "reading" /\ parent' = "reaping" /\ outcome' = taskFile
      /\ UNCHANGED <<facts, results, events, exit, recovered, worker>>
  BY DEF ReadResult, recoveryVars, workerVars, processVars, files, evidence
<1>2. ~Alive /\ ~Alive'
  BY <1>1 DEF ReportInv, TaskInv, WorkerKnown, Alive
<1>3. ~errors' => exit = "ok"
  <2>1. worker # "unborn" /\ exit \in {"none", "ok", "bad"}
    BY <1>1 DEF ReportInv, TaskInv, Recovering, TypeOK, WorkerTypeOK
  <2>2. exit = "bad" => errors'
    BY DEF ReadResult
  <2> QED BY <1>2, <2>1, <2>2 DEF Alive
<1>4. \A c \in Cases :
        /\ taskFile.rows[c] = NoRow \/ RowOf(c, taskFile.rows[c])
        /\ exit = "ok" => taskFile.rows[c] # NoRow
        /\ taskFile.status = "success" =>
             taskFile.rows[c].status \in {"none", "success"}
  BY <1>1 DEF ReportInv, WorkerRows
<1>5. \A c \in Cases : outcome'.rows[c] = NoRow \/ RowOf(c, outcome.rows[c])'
  BY <1>1, <1>4 DEF RowOf
<1> QED BY <1>1, <1>2, <1>3, <1>4, <1>5 DEF OutcomeRows

LEMMA CleanupOutcomeRows ==
  ASSUME ReportInv, Reap \/ CloseHandle
  PROVE  OutcomeRows'
<1>1. /\ UNCHANGED <<facts, results, events, outcome, recovered>>
      /\ parent \in {"reaping", "closing"} /\ parent' = "closing"
      /\ Alive' => Alive
  BY KillKills DEF Reap, CloseHandle, recoveryVars, workerVars, processVars,
                   files, evidence, Kill, Alive
<1>2. errors => errors'
  BY DEF Reap, CloseHandle
<1>3. \A c \in Cases : RowOf(c, outcome.rows[c]) => RowOf(c, outcome.rows[c])'
  BY <1>1 DEF RowOf
<1> QED BY <1>1, <1>2, <1>3 DEF ReportInv, OutcomeRows

\* A task that is to be reported as a success has a worker that has returned.
LEMMA AssembleOutcomeRows == ReportInv /\ Assemble => OutcomeRows'
<1> SUFFICES ASSUME ReportInv, Assemble PROVE OutcomeRows' OBVIOUS
<1>1. /\ parent = "closing" /\ parent' = "deciding" /\ recovered = 0
      /\ UNCHANGED <<facts, results, events, recovered, errors, exit, worker>>
      /\ outcome \in Outcomes
  BY DEF Assemble, recoveryVars, workerVars, processVars, files, evidence,
         ReportInv, TaskInv, Recovering, TypeOK, ParentTypeOK
<1>2. ~Alive'
  BY <1>1 DEF ReportInv, TaskInv, WorkerKnown, WorkerDeadFirst, Alive
<1>3. /\ outcome'.rows = outcome.rows
      /\ outcome'.status = "success" => ~errors /\ outcome.status = "success"
  BY <1>1 DEF Assemble, Outcomes
<1>4. \A c \in Cases :
        /\ outcome.rows[c] = NoRow \/ RowOf(c, outcome.rows[c])
        /\ outcome.status = "success" =>
             outcome.rows[c].status \in {"none", "success"}
        /\ ~errors => outcome.rows[c] # NoRow
  BY <1>1 DEF ReportInv, OutcomeRows, Cases
<1>5. \A c \in Cases : RowOf(c, outcome.rows[c]) =>
        RowOf(c, outcome.rows[c])' /\ outcome.rows[c].status # "none"
  BY <1>1, <1>3, RowFields DEF RowOf
<1> QED BY <1>1, <1>2, <1>3, <1>4, <1>5 DEF OutcomeRows

\* A worker's row is the report's when nothing has to be recovered.
LEMMA RowOfReported ==
  ASSUME NEW c \in Cases, RowOf(c, outcome.rows[c]),
         outcome.status = "success" => outcome.rows[c].status = "success"
  PROVE  Reported(c)
BY RowFields DEF RowOf, Reported

LEMMA DecideOutcomeRows == ReportInv /\ Decide => OutcomeRows'
<1> SUFFICES ASSUME ReportInv, Decide PROVE OutcomeRows' OBVIOUS
<1>1. /\ parent = "deciding" /\ recovered = 0
      /\ UNCHANGED <<facts, results, events, recovered, errors, exit, worker,
                     outcome>>
      /\ parent' = "recovering" \/ (parent' = "writing" /\ ~errors)
  BY DEF Decide, runVars, workerVars, processVars, files, evidence,
         ReportInv, TaskInv, Recovering
<1>2. ~Alive'
  BY <1>1 DEF ReportInv, TaskInv, WorkerKnown, WorkerDeadFirst, Alive
<1>3. \A c \in Cases :
        /\ outcome.rows[c] = NoRow \/ RowOf(c, outcome.rows[c])
        /\ outcome.status = "success" => outcome.rows[c].status = "success"
        /\ ~errors => outcome.rows[c] # NoRow
        /\ c > recovered
  BY <1>1 DEF ReportInv, OutcomeRows, Cases
<1>4. \A c \in Cases : RowOf(c, outcome.rows[c]) => RowOf(c, outcome.rows[c])'
  BY <1>1 DEF RowOf
<1>5. ~errors => \A c \in Cases : Reported(c)'
  <2>1. ~errors => \A c \in Cases : Reported(c)
    BY <1>3, RowOfReported
  <2> QED BY <1>1, <2>1 DEF Reported
<1>6. \A c \in Cases : ~(c <= recovered')
  BY <1>1 DEF Cases
<1> QED BY <1>1, <1>2, <1>3, <1>4, <1>5, <1>6 DEF OutcomeRows

LEMMA WriteReport ==
  ReportInv /\ WriteOutcome =>
    Judged' /\ Appending' /\ WorkerRows' /\ OutcomeRows'
<1> SUFFICES ASSUME ReportInv, WriteOutcome
             PROVE  Judged' /\ Appending' /\ WorkerRows' /\ OutcomeRows'
  OBVIOUS
<1>1. /\ parent = "writing" /\ parent' = "over" /\ outcome' = outcome
      /\ UNCHANGED <<facts, results, events, worker, exit>>
  BY DEF WriteOutcome, runVars, workerVars, processVars, evidence
<1>2. ~Alive'
  BY <1>1 DEF ReportInv, TaskInv, WorkerKnown, WorkerDeadFirst, Alive
<1>3. Judged' /\ Appending' /\ WorkerRows'
  BY <1>1, <1>2 DEF ReportInv, Judged, Appending, WorkerRows
<1>4. \A c \in Cases : Reported(c)'
  BY <1>1 DEF ReportInv, OutcomeRows, Reported
<1> QED BY <1>1, <1>2, <1>3, <1>4 DEF OutcomeRows

\* What recover_cases reports of a Case.
LEMMA RecoverRow ==
  ASSUME ReportInv, NEW c \in Cases, RecoverCase(c)
  PROVE  /\ Reported(c)' /\ outcome'.status = outcome.status
         /\ \A d \in Cases \ {c} : outcome'.rows[d] = outcome.rows[d]
<1>0. /\ TypeOK /\ FilesInv /\ Recovering /\ ResultsTrue /\ FilesTypeOK
      /\ outcome \in Outcomes /\ results[c] \in Rows
      /\ results[c].committed => results[c].status # "none"
      /\ results[c].status = "discarded" => results[c] = Discarded
  BY DEF ReportInv, TaskInv, FilesInv, TypeOK, FilesTypeOK, ParentTypeOK,
         Judged, ResultsTrue
<1>1. /\ outcome.rows[c] = NoRow \/ RowOf(c, outcome.rows[c])
      /\ outcome.status = "success" => outcome.rows[c].status = "success"
  BY DEF RecoverCase, ReportInv, OutcomeRows, Cases
<1>2. outcome.status = "success" =>
        /\ outcome.rows[c] = results[c] /\ facts[c] = "complete"
        /\ results[c].committed /\ results[c].metrics = "complete"
  BY <1>1, RowFields DEF RowOf
<1>3. PICK row : Recover(c, row)
  BY DEF RecoverCase, Keep, KeepTombstone, DiscardRest, LeaveUnstarted
<1>4. /\ outcome'.status = outcome.status /\ outcome'.rows[c] = row
      /\ \A d \in Cases \ {c} : outcome'.rows[d] = outcome.rows[d]
  BY <1>0, <1>3 DEF Recover, Outcomes
<1>5. CASE Keep(c)
  <2>1. /\ facts'[c] = "complete" /\ results'[c] = Completed(results[c])
        /\ outcome'.rows[c] = Completed(results[c])
    BY <1>0, <1>5 DEF Keep, FilesTypeOK, Recover, Outcomes
  <2>2. /\ Completed(results[c]).committed
        /\ results[c].metrics = "complete" /\ results[c].committed =>
             Completed(results[c]) = results[c]
    BY <1>0, CompletedCommitted
  <2>3. Completed(results[c]).status # "none"
    <3> DEFINE r == IF results[c].committed THEN results[c]
                    ELSE Row("partial_failed", TRUE, "none")
    <3>1. r \in Rows /\ r.status # "none"
      BY <1>0, RowType DEF Statuses, Metrics, Row
    <3>2. Completed(results[c]) =
            IF r.metrics # "complete" /\ r.status = "success"
            THEN [r EXCEPT !.status = "partial_failed"] ELSE r
      BY DEF Completed
    <3> HIDE DEF r
    <3> QED BY <3>1, <3>2 DEF Rows
  <2> QED BY <1>1, <1>2, <1>4, <2>1, <2>2, <2>3 DEF Reported
<1>6. CASE KeepTombstone(c)
  <2>1. /\ facts'[c] # "complete" /\ outcome'.rows[c] = Discarded
        /\ outcome.status # "success"
    BY <1>0, <1>2, <1>6 DEF KeepTombstone, Recover, Outcomes, evidence
  <2> QED BY <1>4, <2>1, RowFields DEF Reported
<1>7. CASE DiscardRest(c)
  <2>1. /\ facts'[c] # "complete" /\ outcome'.rows[c] = Discarded
        /\ outcome.status # "success"
    BY <1>0, <1>2, <1>7 DEF DiscardRest, Erased, Recover, Outcomes, FilesTypeOK
  <2> QED BY <1>4, <2>1, RowFields DEF Reported
<1>8. CASE LeaveUnstarted(c)
  <2>1. /\ facts[c] = "none" /\ results[c] = NoRow /\ facts' = facts
        /\ outcome.status # "success"
    BY <1>2, <1>8 DEF LeaveUnstarted, evidence
  <2>2. outcome.rows[c] # NoRow => outcome.rows[c] = Skipped
    BY <1>1, <2>1, RowFields DEF RowOf
  <2>3. outcome'.rows[c] = Skipped
    BY <1>0, <1>8, <2>2 DEF LeaveUnstarted, Recover, Outcomes
  <2> QED BY <1>4, <2>1, <2>3, RowFields DEF Reported
<1> QED BY <1>4, <1>5, <1>6, <1>7, <1>8 DEF RecoverCase

LEMMA RecoverReport ==
  ASSUME ReportInv, NEW c \in Cases, RecoverCase(c)
  PROVE  Judged' /\ Appending' /\ WorkerRows' /\ OutcomeRows'
<1>0. /\ parent = "recovering" /\ parent' \in {"recovering", "writing"}
      /\ parent' = "writing" => c = NumCases
      /\ recovered = c - 1 /\ recovered' = c /\ ~Alive /\ ~Alive'
  BY DEF RecoverCase, ReportInv, TaskInv, WorkerKnown, WorkerDeadFirst, Alive,
         workerVars, processVars
<1>1. /\ TypeOK /\ FilesInv /\ Recovering /\ Judged /\ OutcomeRows
      /\ results[c] \in Rows
      /\ results[c].status = "discarded" => results[c] = Discarded
  BY DEF ReportInv, TaskInv, FilesInv, TypeOK, FilesTypeOK, ResultsTrue
<1>2. \A d \in Cases \ {c} :
        /\ facts'[d] = facts[d] /\ results'[d] = results[d]
        /\ events'[d] = events[d] /\ outcome'.rows[d] = outcome.rows[d]
  BY <1>1, RecoverOutcome, RecoverRow
<1>3. outcome'.status = outcome.status /\ Reported(c)'
  BY RecoverRow
<1>4. Appending' /\ WorkerRows'
  <2>1. Appending'
    BY <1>0 DEF Appending
  <2>2. WorkerRows'
    BY <1>0 DEF WorkerRows
  <2> QED BY <2>1, <2>2
<1>5. Judged'
  <2>1. results'[c].committed => results'[c].status # "none"
    <3>1. \/ results'[c] \in {results[c], Discarded}
          \/ results'[c] = outcome'.rows[c]
      BY <1>1, RecoverOutcome DEF RecoverCase, Keep, KeepTombstone, DiscardRest,
              LeaveUnstarted, Recover, TypeOK, ParentTypeOK, FilesTypeOK,
              Outcomes, evidence
    <3> QED BY <1>1, <1>3, <3>1, RowFields DEF Judged, Reported
  <2> QED BY <1>1, <1>2, <2>1 DEF Judged
<1>6. \A d \in Cases : d <= c => Reported(d)'
  <2> SUFFICES ASSUME NEW d \in Cases, d <= c, d # c PROVE Reported(d)'
    BY <1>3
  <2>1. Reported(d)
    BY <1>0, <1>1 DEF OutcomeRows, Cases
  <2> QED BY <1>2, <1>3, <2>1 DEF Reported
<1>7. \A d \in Cases : d > c =>
        /\ outcome'.rows[d] = NoRow \/ RowOf(d, outcome.rows[d])'
        /\ outcome'.status = "success" => outcome'.rows[d].status = "success"
  <2> SUFFICES ASSUME NEW d \in Cases, d > c
               PROVE  /\ outcome'.rows[d] = NoRow \/ RowOf(d, outcome.rows[d])'
                      /\ outcome'.status = "success" =>
                           outcome'.rows[d].status = "success"
    OBVIOUS
  <2>1. /\ outcome.rows[d] = NoRow \/ RowOf(d, outcome.rows[d])
        /\ outcome.status = "success" => outcome.rows[d].status = "success"
        /\ d # c
    BY <1>0, <1>1 DEF OutcomeRows, Cases
  <2>2. RowOf(d, outcome.rows[d]) => RowOf(d, outcome.rows[d])'
    BY <1>2, <2>1 DEF RowOf
  <2> QED BY <1>2, <1>3, <2>1, <2>2
<1>8. OutcomeRows'
  <2>1. parent' = "writing" => \A d \in Cases : Reported(d)'
    BY <1>0, <1>6 DEF Cases
  <2> QED BY <1>0, <1>6, <1>7, <2>1 DEF OutcomeRows
<1> QED BY <1>4, <1>5, <1>8

LEMMA StepReport == ReportInv /\ [Next]_vars => ReportInv'
<1> SUFFICES ASSUME ReportInv, [Next]_vars
             PROVE  Judged' /\ Appending' /\ WorkerRows' /\ OutcomeRows'
  BY StepInv DEF ReportInv
<1>1. CASE Interrupt
  BY <1>1, InterruptReport
<1>2. CASE \E c \in Cases : RecoverCase(c)
  BY <1>2, RecoverReport
<1>3. CASE WriteOutcome
  BY <1>3, WriteReport
<1>4. CASE ParentStep /\ ~WriteOutcome /\ ~\E c \in Cases : RecoverCase(c)
  <2>1. Judged' /\ Appending' /\ WorkerRows'
    BY <1>4, ParentRows
  <2>2. OutcomeRows'
    BY <1>4, EarlyOutcomeRows, ReadOutcomeRows, CleanupOutcomeRows,
       AssembleOutcomeRows, DecideOutcomeRows DEF ParentStep
  <2> QED BY <2>1, <2>2
<1>5. CASE WorkerStep
  BY <1>5, WorkerJudged, WorkerAppending, WorkerWorkerRows, WorkerOutcomeRows
<1>6. CASE UNCHANGED vars
  <2>1. UNCHANGED <<parent, outcome, errors, recovered, worker, at, mine, exit,
                    facts, results, events, taskFile>>
    BY <1>6 DEF vars, parentVars, runVars, recoveryVars, workerVars, caseVars,
                processVars, files, evidence
  <2> QED BY <2>1 DEF ReportInv, Judged, Appending, WorkerRows, OutcomeRows,
                      Reported, RowOf, Alive
<1> QED BY <1>1, <1>2, <1>3, <1>4, <1>5, <1>6 DEF Next, Over, ParentStep

-----------------------------------------------------------------------------
(* The theorems *)

LEMMA ReportInvariance == Spec => []ReportInv
  BY InitReport, StepReport, PTL DEF Spec

(***************************************************************************)
(* The report says of each Case what the disk says, whether its row is the *)
(* worker's or recover_cases made it (case_recovery.py:69-103,             *)
(* run_coordinator.py:347-382).                                            *)
(***************************************************************************)
THEOREM ReportCorrect == Spec => []ReportMatchesDisk
<1>1. ReportInv => ReportMatchesDisk
  BY DEF ReportInv, OutcomeRows, Reported, ReportMatchesDisk
<1> QED BY <1>1, ReportInvariance, PTL

(***************************************************************************)
(* A task reports success only when every Case was collected and its       *)
(* metrics computed (run_coordinator.py:366-382, task_worker.py:17-27).    *)
(***************************************************************************)
THEOREM SuccessCorrect == Spec => []SuccessMeansAll
<1>1. ReportInv => SuccessMeansAll
  BY DEF ReportInv, OutcomeRows, Reported, SuccessMeansAll
<1> QED BY <1>1, ReportInvariance, PTL
=============================================================================
