---------------------------- MODULE RunProgress ----------------------------
(***************************************************************************)
(* A whole run: the loop over tasks of core/run_coordinator.py, and the    *)
(* progress display of reporting/progress.py, which follows events.jsonl   *)
(* and result.json of the current task while its worker appends to the     *)
(* one, replaces it when it discards a Case, and rewrites the other.       *)
(*                                                                         *)
(* What happens inside a task is TaskRun.tla; here a Case emits events and *)
(* is committed, discarded or never started, and the worker may die at any *)
(* step.  A record of events.jsonl is Size(c) units and a newline; a read  *)
(* may end between any two units.                                          *)
(***************************************************************************)
EXTENDS Integers, Sequences, FiniteSets, FiniteSetsExt

CONSTANTS
  NumTasks, NumCases,  \* the plan
  FailFast,            \* --fail-fast
  MaxEvents,           \* bound on the records of a Case
  OversizedCases,      \* Cases whose records are longer than LineLimit
  LineLimit,           \* EventTail.line_limit
  ReadLimit,           \* EventTail.read_limit
  Inodes               \* inode numbers the file system has to give

ASSUME PlanAssumption == NumTasks \in Nat \ {0} /\ NumCases \in Nat \ {0}
ASSUME LimitsAssumption == LineLimit \in Nat \ {0} /\ ReadLimit \in Nat \ {0}
ASSUME InodesAssumption == \A i \in Inodes : Inodes # {i}

Tasks == 1..NumTasks
Cases == 1..NumCases

VARIABLES
  \* the coordinator
  task,        \* the task it is at
  stage,       \* what it does next
  interrupted, \* interruptions > 0
  failed,
  statuses,    \* result["tasks"]
  runStatus,   \* "status" of the run's result.json
  outcome,     \* outcome["status"] of a task whose worker is dead
  \* the worker of the current task and its files
  alive,
  at,          \* the Case it is at
  written,     \* records it has appended for each Case
  stopReason,  \* a Case has told it to stop: stop_reason
  disk,        \* how each Case ends: its status on disk, or "skipped"
  taskFile,    \* result.json of the task: status of each Case
  file,        \* events.jsonl
  inode,
  replaced,    \* history: replacements of the file
  \* EventTail
  tail,        \* identity, offset, pending and dropping
  seenAt,      \* history: value of replaced at the last read
  misled,      \* history: a replaced file had the identity of the old one
  \* TerminalProgress
  live,        \* samples counted for the Cases of the current task
  results,     \* statuses recorded
  printed      \* statuses in the last line printed for each Case

runVars == <<task, stage, interrupted, failed, statuses, runStatus, outcome>>
workerVars == <<alive, at, stopReason, disk, taskFile>>
fileVars == <<file, inode, replaced, written>>
tailVars == <<tail, seenAt, misled>>
displayVars == <<live, results, printed>>
vars == <<runVars, workerVars, fileVars, tailVars, displayVars>>

-----------------------------------------------------------------------------
(* Records and lines *)

Size(c) == IF c \in OversizedCases THEN LineLimit + 1 ELSE 1

\* Record n of a Case; its last unit is the newline.
Record(c, n) == [i \in 1..(Size(c) + 1) |-> <<c, n, i>>]
IsNewline(u) == u[3] = Size(u[1]) + 1

\* The lines of bytes.split, each named by the place of its newline, and what
\* is left after the last one.
Ends(bytes) == {p \in DOMAIN bytes : IsNewline(bytes[p])}
Begin(bytes, p) == Max({0} \cup {q \in Ends(bytes) : q < p})
Line(bytes, p) == SubSeq(bytes, Begin(bytes, p) + 1, p - 1)
Rest(bytes) == Line(bytes, Len(bytes) + 1)

\* json.loads succeeds: the line is a record from its first unit to its last.
Whole(line) ==
  /\ line # <<>>
  /\ \E c \in Cases, n \in 1..MaxEvents :
       line = SubSeq(Record(c, n), 1, Size(c))

Short(line) == Len(line) <= LineLimit

\* How many of these lines count for Case c.
Counts(c, line) == Short(line) /\ Whole(line) /\ line[1][1] = c
EventsOf(c, bytes, ends) ==
  Cardinality({p \in ends : Counts(c, Line(bytes, p))})

\* task_worker.aggregate_status
AggregateStatus(states) ==
  IF "interrupted" \in states THEN "interrupted"
  ELSE IF states \subseteq {"skipped"} THEN "skipped"
  ELSE IF states = {"success"} THEN "success"
  ELSE IF states \subseteq {"failed", "skipped", "discarded"} THEN "failed"
  ELSE "partial_failed"

NoTail == [identity |-> 0, offset |-> 0, pending |-> <<>>, dropping |-> FALSE]
Nothing == [c \in Cases |-> "none"]
NoCounts == [c \in Cases |-> 0]

Init ==
  /\ task = 1 /\ stage = "starting" /\ interrupted = FALSE /\ failed = FALSE
  /\ statuses = <<>> /\ runStatus = "none" /\ outcome = "none"
  /\ alive = FALSE /\ at = 1 /\ written = NoCounts /\ stopReason = FALSE
  /\ disk = Nothing /\ taskFile = Nothing
  /\ file = <<>> /\ inode \in Inodes /\ replaced = 0
  /\ tail = NoTail /\ seenAt = 0 /\ misled = FALSE
  /\ live = NoCounts
  /\ results = [t \in Tasks |-> Nothing] /\ printed = results

-----------------------------------------------------------------------------
(* The coordinator: _run *)

Interrupt ==
  /\ stage \notin {"over", "aborted"}
  /\ ~interrupted
  /\ interrupted' = TRUE
  /\ UNCHANGED <<task, stage, failed, statuses, runStatus, outcome,
                 workerVars, fileVars, tailVars, displayVars>>

\* "task_started": the display gets a new tail and has nothing to show.
NewDisplay ==
  /\ tail' = NoTail /\ seenAt' = 0 /\ misled' = FALSE
  /\ live' = NoCounts
  /\ UNCHANGED <<results, printed>>

StartTask ==
  /\ stage = "starting" /\ task <= NumTasks
  /\ ~interrupted /\ ~(failed /\ FailFast)
  /\ stage' = "running"
  /\ alive' = TRUE /\ at' = 1 /\ stopReason' = FALSE
  /\ disk' = Nothing /\ taskFile' = Nothing
  /\ file' = <<>> /\ inode' \in Inodes /\ replaced' = 0 /\ written' = NoCounts
  /\ NewDisplay
  /\ UNCHANGED <<task, interrupted, failed, statuses, runStatus, outcome>>

\* _print_completions: a line for every status that was not printed yet.
PrintCompletions == printed' = results'

\* _record: the Cases of the rows that have a terminal status.
Show(rows) ==
  /\ results' = [results EXCEPT ![task] =
                   [c \in Cases |-> IF rows[c] = "none" THEN @[c] ELSE rows[c]]]
  /\ PrintCompletions

\* Slip: a task that succeeded in part does not stop the run.
EndTaskForgiving(status) ==
  /\ statuses' = Append(statuses, status)
  /\ failed' = (failed \/ status = "failed")
  /\ runStatus' = AggregateStatus({statuses'[t] : t \in 1..task})
  /\ task' = task + 1 /\ outcome' = "none"
  /\ stage' = "starting"
  /\ UNCHANGED interrupted

\* The rest of an iteration, and result.json of the run.
EndTask(status) ==
  /\ statuses' = Append(statuses, status)
  /\ failed' = (failed \/ status # "success")
  /\ runStatus' = AggregateStatus({statuses'[t] : t \in 1..task})
  /\ task' = task + 1 /\ outcome' = "none"
  /\ stage' = "starting"
  /\ UNCHANGED interrupted

\* Slip: the display shows the Cases the outcome names, and it names none.
SkipTaskByRows ==
  /\ stage = "starting" /\ task <= NumTasks
  /\ interrupted \/ (failed /\ FailFast)
  /\ EndTask("skipped")
  /\ live' = NoCounts
  /\ Show(Nothing)
  /\ UNCHANGED <<workerVars, fileVars, tailVars>>

SkipTask ==
  /\ stage = "starting" /\ task <= NumTasks
  /\ interrupted \/ (failed /\ FailFast)
  /\ EndTask("skipped")
  /\ live' = NoCounts
  /\ Show([c \in Cases |-> "skipped"])
  /\ UNCHANGED <<workerVars, fileVars, tailVars>>

\* After an exception that leaves the loop, result.json stays as it is.
Abort ==
  /\ stage \in {"starting", "recovering", "reporting"} /\ task <= NumTasks
  /\ stage' = "aborted"
  /\ alive' = FALSE
  /\ UNCHANGED <<task, interrupted, failed, statuses, runStatus, outcome, at,
                 stopReason, disk, taskFile, fileVars, tailVars, displayVars>>

FinishRun ==
  /\ stage = "starting" /\ task > NumTasks
  /\ runStatus' = IF interrupted THEN "interrupted"
                  ELSE AggregateStatus({statuses[t] : t \in Tasks})
  /\ stage' = "over"
  /\ UNCHANGED <<task, interrupted, failed, statuses, outcome, workerVars,
                 fileVars, tailVars, displayVars>>

(* The worker, and what _run_task makes of its death *)

InTask == stage \in {"running", "reading"}

Emit ==
  /\ InTask /\ alive /\ at <= NumCases
  /\ ~stopReason
  /\ disk[at] = "none" /\ written[at] < MaxEvents
  /\ written' = [written EXCEPT ![at] = @ + 1]
  /\ file' = file \o Record(at, written'[at])
  /\ UNCHANGED <<runVars, workerVars, inode, replaced, tailVars, displayVars>>

\* What a Case may have for a status once its collection is complete: no
\* sample of it succeeded, or an exception came after it.
Committed ==
  {"success", "partial_failed", "failed"}
    \cup (IF interrupted THEN {"interrupted"} ELSE {})

\* The facts of the collection and the status of the Case are on disk.
Commit ==
  /\ InTask /\ alive /\ at <= NumCases
  /\ disk[at] = "none" /\ written[at] > 0
  /\ \E st \in Committed : disk' = [disk EXCEPT ![at] = st]
  /\ UNCHANGED <<runVars, alive, at, stopReason, taskFile, fileVars, tailVars,
                 displayVars>>

\* The i-th member of a set of places.
Nth(S, i) == CHOOSE p \in S : Cardinality({q \in S : q <= p}) = i

\* discard_case: the lines of the other Cases replace the file.  The old file
\* still exists while the new one is written, so the two differ in inode.
ReplaceWithout(c) ==
  /\ LET kept == {p \in DOMAIN file : file[p][1] # c}
     IN  file' = [i \in 1..Cardinality(kept) |-> file[Nth(kept, i)]]
  /\ inode' \in Inodes \ {inode}
  /\ replaced' = replaced + 1
  /\ UNCHANGED written

Discard ==
  /\ InTask /\ alive /\ at <= NumCases
  /\ disk[at] = "none" /\ written[at] > 0
  /\ ReplaceWithout(at)
  /\ disk' = [disk EXCEPT ![at] = "discarded"]
  /\ UNCHANGED <<runVars, alive, at, stopReason, taskFile, tailVars,
                 displayVars>>

\* A Case that has not begun is skipped once the stop file is seen or another
\* has told the worker to stop.
Skipped ==
  /\ disk[at] = "none" /\ written[at] = 0 /\ (interrupted \/ stopReason)
  /\ disk' = [disk EXCEPT ![at] = "skipped"]
  /\ UNCHANGED stopReason

\* A Case that was committed may tell the worker to stop: stop_after.
Finished ==
  /\ disk[at] # "none"
  /\ \/ UNCHANGED stopReason
     \/ disk[at] # "discarded" /\ stopReason' = TRUE
  /\ UNCHANGED disk

\* The row of the Case is appended.
AppendRow ==
  /\ InTask /\ alive /\ at <= NumCases
  /\ Skipped \/ Finished
  /\ taskFile' = [taskFile EXCEPT ![at] = disk'[at]]
  /\ at' = at + 1
  /\ UNCHANGED <<runVars, alive, fileVars, tailVars, displayVars>>

\* The worker exits, crashes or is killed.
Exit ==
  /\ InTask /\ alive
  /\ alive' = FALSE
  /\ UNCHANGED <<runVars, at, stopReason, disk, taskFile, fileVars, tailVars,
                 displayVars>>

\* _run_task has seen that the worker is dead.  There are errors if it died
\* early, and there may be some after its last row: a bad exit code, a
\* timeout, a cleanup that failed.
Reap ==
  /\ stage = "running" /\ ~alive
  /\ \E errors \in IF at <= NumCases THEN {TRUE} ELSE BOOLEAN :
       /\ outcome' = IF interrupted THEN "interrupted"
                     ELSE IF errors THEN "failed"
                     ELSE AggregateStatus({taskFile[c] : c \in Cases})
       /\ stage' = IF errors \/ interrupted THEN "recovering" ELSE "reporting"
  /\ UNCHANGED <<task, interrupted, failed, statuses, runStatus, workerVars,
                 fileVars, tailVars, displayVars>>

Unrecovered == {c \in Cases : disk[c] = "none"}

\* What recover_cases finds of the Cases that have an end: one whose row was
\* not appended may lack metrics, and is then no success.
Recovered ==
  {disk} \cup {[disk EXCEPT ![c] = "partial_failed"] :
                 c \in {c \in Cases : c = at /\ disk[c] = "success"}}

\* recover_cases: what has begun and was not committed is discarded.
Recover ==
  /\ stage = "recovering"
  /\ IF Unrecovered = {}
     THEN /\ stage' = "reporting"
          /\ disk' \in Recovered
          /\ taskFile' = disk'
          /\ UNCHANGED fileVars
     ELSE LET c == CHOOSE c \in Unrecovered : \A d \in Unrecovered : c <= d
          IN  /\ IF written[c] > 0
                 THEN /\ disk' = [disk EXCEPT ![c] = "discarded"]
                      /\ ReplaceWithout(c)
                 ELSE /\ disk' = [disk EXCEPT ![c] = "skipped"]
                      /\ UNCHANGED fileVars
              /\ UNCHANGED <<stage, taskFile>>
  /\ UNCHANGED <<task, interrupted, failed, statuses, runStatus, outcome,
                 alive, at, stopReason, tailVars, displayVars>>

(* The display: "poll" and "task_finished" *)

\* EventTail.read.  Slip: a shorter file alone is a new file.
ResetBySize == Len(file) < tail.offset \/ tail.identity = 0

\* EventTail.read: the file is not the one that was read, or it is shorter.
Reset == tail.identity # inode \/ Len(file) < tail.offset

\* What one read yields, and the tail after it.  While it is dropping, the
\* first line is the end of one that was too long.
ReadFrom(from) ==
  LET to == IF from.offset + ReadLimit < Len(file)
            THEN from.offset + ReadLimit ELSE Len(file)
      bytes == from.pending \o SubSeq(file, from.offset + 1, to)
      ends == Ends(bytes)
      over == Len(Rest(bytes)) > LineLimit
  IN  [bytes |-> bytes,
       ends |-> {p \in ends : from.dropping => \E q \in ends : q < p},
       tail |-> [from EXCEPT
                   !.offset = to,
                   !.pending = IF over THEN <<>> ELSE Rest(bytes),
                   !.dropping = over \/ (@ /\ ends = {})]]

\* _poll and _event: a reset forgets what was counted; Cases whose result is
\* known are left alone.
CountEvents ==
  LET read == ReadFrom(IF Reset THEN [NoTail EXCEPT !.identity = inode]
                       ELSE tail)
  IN  /\ tail' = read.tail
      /\ live' = [c \in Cases |->
                    (IF Reset THEN 0 ELSE live[c])
                    + IF results[task][c] = "none"
                      THEN EventsOf(c, read.bytes, read.ends) ELSE 0]
      /\ misled' = IF Reset THEN FALSE
                   ELSE misled \/ (seenAt # replaced /\ tail.identity = inode)
      /\ seenAt' = replaced

\* While the worker lives, the parent polls events, then result.json.
PollEvents ==
  /\ stage = "running"
  /\ CountEvents
  /\ stage' = "reading"
  /\ UNCHANGED <<task, interrupted, failed, statuses, runStatus, outcome,
                 workerVars, fileVars, results, printed>>

PollResult ==
  /\ stage = "reading"
  /\ Show(taskFile)
  /\ stage' = "running"
  /\ UNCHANGED <<task, interrupted, failed, statuses, runStatus, outcome,
                 workerVars, fileVars, tailVars, live>>

\* "task_finished": a last poll, the rows of the outcome, and "skipped" for
\* planned Cases the outcome does not name.
ReportTask ==
  /\ stage = "reporting"
  /\ CountEvents
  /\ Show(taskFile)
  /\ EndTask(outcome)
  /\ UNCHANGED <<workerVars, fileVars>>

Over == stage \in {"over", "aborted"} /\ UNCHANGED vars

Next ==
  \/ Interrupt \/ StartTask \/ SkipTask \/ Abort \/ FinishRun
  \/ Emit \/ Commit \/ Discard \/ AppendRow \/ Exit
  \/ Reap \/ Recover \/ PollEvents \/ PollResult \/ ReportTask
  \/ Over

Spec == Init /\ [][Next]_vars

=============================================================================
