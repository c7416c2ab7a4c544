------------------------ MODULE RunProgressProperties ------------------------
(***************************************************************************)
(* What a run and its progress display guarantee, over RunProgress.tla,    *)
(* and the invariants from which it is proved.                             *)
(***************************************************************************)
EXTENDS RunProgress

\* The counts the display shows are those of the records it has read, each
\* counted once whatever the cuts between reads, and no record longer than
\* the limit takes the one after it along.  When the file was replaced twice
\* between two reads and got its old inode back, the display may miss
\* records, but it never shows more than were written
\* (EventTail.read, TerminalProgress._poll and _event).
CountsTrue ==
  \A c \in Cases :
    results[IF task <= NumTasks THEN task ELSE 1][c] = "none" /\ InTask =>
      /\ live[c] <= written[c]
      /\ ~misled /\ seenAt = replaced =>
           live[c] =
             EventsOf(c, file, {p \in Ends(file) : p <= tail.offset})

\* When a task is over, the last line printed for each of its Cases shows the
\* status the Case has in the report, whatever was printed while it ran.
LastWordTrue ==
  \A t \in 1..Len(statuses) : \A c \in Cases :
    /\ printed[t][c] = results[t][c]
    /\ printed[t][c] # "none"
    /\ t = Len(statuses) /\ statuses[t] # "skipped" /\ stage = "starting" =>
         printed[t][c] = disk[c]

\* What the run reports agrees with what its tasks did: with fail_fast no task
\* runs after one that was not a success; an interrupted run never says that
\* it succeeded; and a run that says so ran every task with success.
RunReportTrue ==
  /\ FailFast =>
       \A t, u \in 1..Len(statuses) :
         t < u /\ statuses[t] # "success" => statuses[u] = "skipped"
  /\ stage = "over" =>
       /\ Len(statuses) = NumTasks
       /\ interrupted => runStatus = "interrupted"
       /\ runStatus = "success" <=>
            ~interrupted /\ \A t \in Tasks : statuses[t] = "success"
       /\ runStatus = "success" => \A t \in Tasks : \A c \in Cases :
            printed[t][c] = "success"
-----------------------------------------------------------------------------
(* The inductive invariants behind RunReportTrue and LastWordTrue *)

TaskStatuses == {"success", "skipped", "failed", "partial_failed",
                 "interrupted"}
CaseStates == {"none", "success", "partial_failed", "failed", "interrupted",
               "discarded", "skipped"}
Stages == {"starting", "running", "reading", "recovering", "reporting",
           "over", "aborted"}

RunShape ==
  /\ task \in 1..(NumTasks + 1)
  /\ stage \in Stages
  /\ interrupted \in BOOLEAN /\ failed \in BOOLEAN
  /\ statuses \in Seq(TaskStatuses) /\ Len(statuses) = task - 1
  /\ disk \in [Cases -> CaseStates] /\ taskFile \in [Cases -> CaseStates]
  /\ results \in [Tasks -> [Cases -> CaseStates]]
  /\ printed = results

\* `failed` is what the statuses say; under fail_fast it keeps a task from
\* starting, so that none is under way once it is set.
FailedTrue ==
  /\ failed <=> \E t \in 1..Len(statuses) : statuses[t] # "success"
  /\ stage \notin {"starting", "over", "aborted"} =>
       task <= NumTasks /\ (FailFast => ~failed)

SkippedAfterFailure ==
  FailFast => \A t, u \in 1..Len(statuses) :
                t < u /\ statuses[t] # "success" => statuses[u] = "skipped"

SuccessShown ==
  \A t \in 1..Len(statuses) :
    statuses[t] = "success" => \A c \in Cases : results[t][c] = "success"

FinalStatus ==
  stage = "over" =>
    /\ task = NumTasks + 1
    /\ runStatus = IF interrupted THEN "interrupted"
                   ELSE AggregateStatus({statuses[t] : t \in Tasks})

\* What a task comes to is decided once its worker is dead: it is no success
\* if its Cases have to be recovered, nor unless all of its rows are.
OutcomeTrue ==
  /\ stage \in {"recovering", "reporting"} => outcome \in TaskStatuses
  /\ stage = "recovering" => outcome # "success"
  /\ stage = "reporting" /\ outcome = "success" =>
       \A c \in Cases : taskFile[c] = "success"

RunInv ==
  /\ RunShape
  /\ OutcomeTrue
  /\ FailedTrue
  /\ SkippedAfterFailure
  /\ SuccessShown
  /\ FinalStatus

\* While a worker is at it, result.json has the rows of the Cases it has
\* passed.
RowsOfDisk ==
  InTask =>
    /\ at \in 1..(NumCases + 1)
    /\ \A c \in Cases : c < at =>
         disk[c] # "none" /\ taskFile[c] = disk[c]

\* What the task's report is made of: every Case has its state on disk.
ReportIsDisk ==
  stage = "reporting" =>
    \A c \in Cases : disk[c] # "none" /\ taskFile[c] = disk[c]

WordsShown ==
  \A t \in 1..Len(statuses) : \A c \in Cases :
    /\ results[t][c] # "none"
    /\ t = Len(statuses) /\ statuses[t] # "skipped" /\ stage = "starting" =>
         results[t][c] = disk[c]

WordInv == RowsOfDisk /\ ReportIsDisk /\ WordsShown

-----------------------------------------------------------------------------
(* The inductive invariant behind CountsTrue *)

Units == Cases \X Nat \X Nat

Tails == [identity : Inodes \cup {0}, offset : Nat, pending : Seq(Units),
          dropping : BOOLEAN]

TailShape ==
  /\ file \in Seq(Units) /\ written \in [Cases -> Nat]
  /\ tail \in Tails
  /\ inode \in Inodes /\ replaced \in Nat /\ seenAt \in Nat
  /\ live \in [Cases -> Nat] /\ misled \in BOOLEAN

\* The records of a Case that begin in these bytes after a place.
Begun(c, bytes, place) ==
  {p \in DOMAIN bytes : p > place /\ bytes[p][1] = c /\ bytes[p][3] = 1}

\* However files are replaced, no record is read twice: what was counted, what
\* is pending and what is still to be read was written.
ReadOnce ==
  \A c \in Cases :
    /\ Cardinality(Begun(c, file, 0)) <= written[c]
    /\ live[c] + Cardinality(Begun(c, tail.pending, 0))
         + Cardinality(Begun(c, file, tail.offset)) <= written[c]

\* What is pending is the end of what was read of the file: all of the line
\* that has not ended, unless it is too long already.
PendingTrue(bytes, t) ==
  LET line == Begin(bytes, t.offset + 1)
      place == t.offset - Len(t.pending)
  IN  /\ t.offset <= Len(bytes)
      /\ line <= place
      /\ t.pending = SubSeq(bytes, place + 1, t.offset)
      /\ IF t.dropping THEN t.offset - line > LineLimit ELSE place = line

EventsUpTo(c, bytes, place) ==
  EventsOf(c, bytes, {p \in Ends(bytes) : p <= place})

\* What was counted is what the file says as far as it was read.
CountedTrue ==
  \A c \in Cases : results[task][c] = "none" =>
    live[c] = EventsUpTo(c, file, tail.offset)

CountInv ==
  /\ TailShape
  /\ InTask =>
       /\ seenAt <= replaced
       /\ ReadOnce
       /\ ~misled /\ seenAt = replaced =>
            PendingTrue(file, tail) /\ CountedTrue
=============================================================================
