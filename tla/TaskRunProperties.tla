------------------------- MODULE TaskRunProperties -------------------------
(***************************************************************************)
(* What a task guarantees about its Cases, over TaskRun.tla.               *)
(***************************************************************************)
EXTENDS TaskRun

\* The state has the shape the code gives it.
Outcomes == [status : Statuses, rows : [Cases -> Rows]]

ParentTypeOK ==
  /\ parent \in {"opening", "launching", "polling", "acknowledging",
                 "touching", "reading", "reaping", "closing", "deciding",
                 "recovering", "writing", "over"}
  /\ interruptions \in 0..MaxInterrupts
  /\ process \in BOOLEAN /\ errors \in BOOLEAN
  /\ handles \in 0..NumResources
  /\ globbed \subseteq Cases /\ shown \subseteq Cases /\ seen \subseteq Cases
  /\ recovered \in 0..NumCases
  /\ outcome \in Outcomes

WorkerTypeOK ==
  /\ worker \in {"unborn", "next", "starting", "preparing", "awaiting",
                 "collecting", "recording", "committing", "judging",
                 "measuring", "failing", "closing", "discarding", "saving",
                 "appending"}
  /\ at \in 1..(NumCases + 1)
  /\ mine \in Rows
  /\ complete \in BOOLEAN /\ stopAfter \in BOOLEAN /\ stopFile \in BOOLEAN
  /\ erased \in 0..5
  /\ exit \in {"none", "ok", "bad"}
  /\ begun \subseteq Cases

FilesTypeOK ==
  /\ facts \in [Cases -> {"none", "partial", "complete"}]
  /\ results \in [Cases -> Rows]
  /\ events \in [Cases -> BOOLEAN] /\ prepared \in [Cases -> BOOLEAN]
  /\ acked \in [Cases -> BOOLEAN]
  /\ taskFile \in Outcomes

TypeOK == ParentTypeOK /\ WorkerTypeOK /\ FilesTypeOK

(***************************************************************************)
(* A collection that was committed to disk stays, and so do metrics that   *)
(* were computed for it, whoever is killed when and whatever is recovered  *)
(* ("Original collection and its completed metrics stay intact",           *)
(* case_recovery.py:90; README.md:630).                                    *)
(***************************************************************************)
CommittedKept ==
  [][\A c \in Cases :
       /\ facts[c] = "complete" => facts'[c] = "complete"
       /\ results[c].metrics = "complete" => results'[c] = results[c]]_vars

(***************************************************************************)
(* The files implement CaseCommitment.tla: one Case open at a time, no     *)
(* evidence of a Case that was not committed once the task is over.        *)
(***************************************************************************)
Fate(c) ==
  IF facts[c] = "complete" THEN "committed"
  ELSE IF events[c] \/ prepared[c] \/ facts[c] = "partial" THEN "open"
  ELSE IF c \in begun THEN "gone"
  ELSE "unopened"

Commitment == INSTANCE CaseCommitment WITH
                fate <- [c \in Cases |-> Fate(c)],
                over <- parent = "over"

ImplementsCommitment == Commitment!Spec

(***************************************************************************)
(* The report agrees with the disk: a Case is reported as collected        *)
(* exactly when its facts are committed, though the rows come from the     *)
(* worker's last result.json, from a Case's result file, or from its       *)
(* facts alone (case_recovery.py:69-103, run_coordinator.py:347-382).      *)
(***************************************************************************)
ReportMatchesDisk ==
  parent = "over" =>
    \A c \in Cases :
      /\ outcome.rows[c].committed <=> facts[c] = "complete"
      /\ outcome.rows[c].status # "none"
      /\ outcome.rows[c].metrics = "complete" =>
           results[c].metrics = "complete"

(***************************************************************************)
(* A task that reports success has collected every Case and computed its   *)
(* metrics (run_coordinator.py:366-382, task_worker.py:17-27).             *)
(***************************************************************************)
SuccessMeansAll ==
  parent = "over" /\ outcome.status = "success" =>
    \A c \in Cases :
      /\ facts[c] = "complete"
      /\ outcome.rows[c].status = "success"
      /\ outcome.rows[c].metrics = "complete"

(***************************************************************************)
(* Resources are cleaned up, and Cases recovered, only when the worker     *)
(* that uses them is dead, however the parent got there                    *)
(* (run_coordinator.py:353-365).                                           *)
(***************************************************************************)
WorkerDeadFirst ==
  parent \in {"closing", "deciding", "recovering", "writing", "over"} => ~Alive

\* The inductive invariant behind it: what the parent's place says about its
\* worker.
WorkerKnown ==
  /\ parent = "opening" => worker = "unborn" /\ ~process
  /\ parent \in {"polling", "acknowledging", "touching", "reading"} => process
  /\ parent = "reading" => ~Alive
  /\ parent = "reaping" => process \/ worker = "unborn"
  /\ WorkerDeadFirst

(***************************************************************************)
(* The inductive invariant behind CommittedKept and ImplementsCommitment.  *)
(* It speaks of a living worker, because the recovery rewrites the files   *)
(* of a dead one.                                                          *)
(***************************************************************************)
Working == Alive /\ worker \notin {"next", "starting", "appending"}

Open(c) == facts[c] # "complete" /\ events[c]

\* The worker is at a Case of the plan, and discard_case has at least its last
\* file to deal with; before it starts it has dealt with none.
Placed ==
  /\ Alive /\ worker # "next" => at \in Cases
  /\ Working /\ worker # "saving" => erased \in 0..4
  /\ Working /\ worker \notin {"discarding", "saving"} => erased = 0

\* A Case that was not started has no files.
NotStarted(c) ==
  \/ parent = "opening"
  \/ Alive /\ c > at
  \/ Alive /\ c = at /\ worker \in {"next", "starting"}

Untouched ==
  \A c \in Cases : NotStarted(c) =>
    facts[c] = "none" /\ results[c] = NoRow /\ ~events[c] /\ c \notin begun

\* What the worker knows of its Case is what the disk says of it.
RowTrue ==
  Working =>
    /\ mine.committed <=> facts[at] = "complete"
    /\ mine.metrics # "none" => mine.committed
    /\ results[at].metrics # "complete"
    /\ worker \in {"preparing", "awaiting", "collecting", "recording"} =>
         mine = Row("failed", FALSE, "none")
    /\ worker \in {"committing", "judging", "measuring"} => mine.committed
    /\ worker \in {"committing", "judging"} => mine.metrics = "none"
    /\ worker = "discarding" => ~mine.committed
    /\ mine.status # "none"
    /\ mine.status = "discarded" =>
         worker = "saving" /\ mine = Discarded /\ ~events[at]
    /\ worker = "saving" => mine.committed \/ ~events[at]

\* discard_case takes the files one by one, and the lines in events.jsonl last.
LinesLast ==
  Working =>
    /\ worker # "saving" => events[at]
    /\ worker = "discarding" => /\ erased > 0 => facts[at] = "none"
                                /\ erased > 2 => ~prepared[at]

\* Metrics on disk are of a committed collection, and a tombstone is what it
\* stands for.
ResultsTrue ==
  \A c \in Cases :
    /\ results[c].metrics # "none" =>
         results[c].committed /\ facts[c] = "complete"
    /\ results[c].status = "discarded" => results[c] = Discarded /\ ~events[c]

\* The lines of a Case are its first evidence and its last.
EventsLast ==
  \A c \in Cases :
    /\ prepared[c] \/ facts[c] # "none" => events[c]
    /\ events[c] => c \in begun

\* Only the Case the worker is at is open, and none is when it has returned.
OneOpen ==
  \A c \in Cases : Open(c) =>
    /\ Alive => c = at /\ Working
    /\ exit # "ok"

\* What the parent may rely on: a worker without an error has returned, and
\* what was recovered is closed.
Recovering ==
  /\ parent \in {"launching", "polling", "acknowledging", "touching",
                "reading"} => worker # "unborn"
  /\ parent \in {"reaping", "closing", "deciding"} /\ ~errors => exit = "ok"
  /\ parent \notin {"recovering", "writing", "over"} => recovered = 0
  /\ parent = "recovering" =>
       \A c \in Cases : /\ c <= recovered => ~Open(c)
                        /\ c > recovered /\ events[c] => c \in seen
  /\ parent \in {"writing", "over"} => \A c \in Cases : ~Open(c)

FilesInv ==
  /\ Placed /\ Untouched /\ RowTrue /\ LinesLast
  /\ ResultsTrue /\ EventsLast /\ OneOpen
TaskInv == TypeOK /\ WorkerKnown /\ FilesInv /\ Recovering

(***************************************************************************)
(* The inductive invariant behind ReportMatchesDisk and SuccessMeansAll:   *)
(* where the rows of the report come from.                                 *)
(***************************************************************************)

\* What a row of the worker's result.json says of its Case.
RowOf(c, row) ==
  \/ row = Skipped /\ facts[c] = "none" /\ results[c] = NoRow /\ ~events[c]
  \/ /\ row = results[c] /\ row.status # "none"
     /\ row.committed <=> facts[c] = "complete"
     /\ row.status = "success" => row.metrics = "complete" /\ row.committed

Appending ==
  Alive =>
    /\ worker \in {"closing", "discarding", "saving"} /\ mine.status = "success"
         => mine.metrics = "complete"
    /\ worker = "appending" => RowOf(at, mine)

\* result.json has a row for each Case the worker has passed.
WorkerRows ==
  parent \notin {"recovering", "writing", "over"} =>
    \A c \in Cases :
      /\ taskFile.rows[c] = NoRow \/ RowOf(c, taskFile.rows[c])
      /\ exit = "none" => (taskFile.rows[c] = NoRow <=> c >= at)
      /\ exit = "ok" => taskFile.rows[c] # NoRow
      /\ taskFile.status = "success" =>
           taskFile.rows[c].status \in {"none", "success"}

Reported(c) ==
  /\ outcome.rows[c].committed <=> facts[c] = "complete"
  /\ outcome.rows[c].status # "none"
  /\ outcome.rows[c].metrics = "complete" => results[c].metrics = "complete"
  /\ outcome.status = "success" =>
       /\ outcome.rows[c].status = "success"
       /\ outcome.rows[c].metrics = "complete" /\ outcome.rows[c].committed

\* The rows the parent has: none, the worker's, and what recovery makes of them.
OutcomeRows ==
  /\ Alive \/ parent \in {"opening", "launching", "polling", "acknowledging",
                          "touching", "reading"} => outcome = NoOutcome
  /\ parent \in {"reaping", "closing", "deciding", "recovering"} =>
       \A c \in Cases : c > recovered =>
         /\ outcome.rows[c] = NoRow \/ RowOf(c, outcome.rows[c])
         /\ outcome.status = "success" =>
              outcome.rows[c].status \in
                IF parent \in {"reaping", "closing"} THEN {"none", "success"}
                ELSE {"success"}
         /\ ~errors /\ parent # "recovering" => outcome.rows[c] # NoRow
  /\ parent = "recovering" => \A c \in Cases : c <= recovered => Reported(c)
  /\ parent \in {"writing", "over"} => \A c \in Cases : Reported(c)

\* A committed row says how the Case went.
Judged ==
  \A c \in Cases : results[c].committed => results[c].status # "none"

ReportInv == TaskInv /\ Judged /\ Appending /\ WorkerRows /\ OutcomeRows

\* The Case waits for the parent's acknowledgement.
Awaits(c) == Alive /\ worker = "awaiting" /\ at = c

(***************************************************************************)
(* The task comes to an end though the worker may hang at any step and the *)
(* user may interrupt at any moment (run_coordinator.py:295-333).  The     *)
(* handshake of a prepared Case ends without the help of any timeout,      *)
(* though the worker waits for the parent while the parent polls the       *)
(* worker, and also when the user interrupts or the parent stumbles over a *)
(* Case that was just discarded (evaluation_session.py:245-249,            *)
(* run_coordinator.py:302-315).                                            *)
(***************************************************************************)
TaskEnds ==
  /\ TimeoutPasses => <>(parent = "over")
  /\ WaitLooksAgain => \A c \in Cases : Awaits(c) ~> ~Awaits(c)

(***************************************************************************)
(* README.md:629: a Case that was started and not completely collected is  *)
(* reported with its configuration and the reason it was discarded.        *)
(***************************************************************************)
TombstoneKept ==
  parent = "over" =>
    \A c \in begun : facts[c] # "complete" =>
      outcome.rows[c].status = "discarded" /\ results[c].status = "discarded"
=============================================================================
