----------------------------- MODULE AsyncEngine -----------------------------
(***************************************************************************)
(* The asynchronous engine of the scenario offline_vllm_async              *)
(* (benchmarking/generation_performance/async_engine.py and                *)
(* generation_benchmarks.py): an event loop in a thread of its own, the    *)
(* coroutines that the threads of the samples hand to it, the timeout and  *)
(* the abort of each request, and the shutdown of the engine and its loop. *)
(*                                                                         *)
(* The engine is a library: it adds requests, streams outputs through a    *)
(* task of its own on the same loop, may fail a request, may never answer, *)
(* and forgets a request it is told to abort.                              *)
(***************************************************************************)
EXTENDS Naturals, Sequences, FiniteSets

CONSTANTS
  Calls,       \* calls of generate(), each in its own thread
  MaxReady     \* bound on the outputs of a request the loop has not taken

ASSUME CallsAssumption == IsFiniteSet(Calls)
ASSUME ReadyAssumption == MaxReady \in Nat

VARIABLES
  main,       \* the worker's main thread
  engine,     \* "none", "up" or "down"
  handler,    \* the engine's own task on the loop
  loop,       \* "running", "stopping", "stopped" or "closed"
  caller,     \* call -> "idle", "waiting" or "returned"
  task,       \* call -> where its coroutine _generate is
  ready,      \* call -> what the engine has streamed and the task not taken
  work,       \* call -> the request as the engine sees it
  seen,       \* call -> the last output taken
  outcome,    \* call -> what generate() returns or raises
  gathering,  \* the tasks shutdown() waits for
  complaint   \* history: calls whose abort raised, and "shutdown" if it did

callVars == <<caller, task, ready, work, seen, outcome>>
engineVars == <<engine, handler>>
vars == <<main, engineVars, loop, callVars, gathering, complaint>>

Init ==
  /\ main = "initializing" /\ engine = "none" /\ handler = "none"
  /\ loop = "running"
  /\ caller = [c \in Calls |-> "idle"]
  /\ task = [c \in Calls |-> "none"]
  /\ ready = [c \in Calls |-> <<>>]
  /\ work = [c \in Calls |-> "none"]
  /\ seen = [c \in Calls |-> "none"]
  /\ outcome = [c \in Calls |-> "none"]
  /\ gathering = {} /\ complaint = {}

-----------------------------------------------------------------------------
(* The main thread: __init__, the inputs, the pool of samples, close(). *)

\* initialize(): the engine is built, and then its tokenizer or its context
\* limit may be missing; whatever raises, __init__ closes.
Initialize ==
  /\ main = "initializing"
  /\ \/ engine' = "none" /\ handler' = "none" /\ main' = "closing"
     \/ engine' = "up" /\ handler' = "running" /\ main' \in {"preparing", "closing"}
  /\ UNCHANGED <<loop, callVars, gathering, complaint>>

\* The inputs of the Case: too long for the context, or unreadable, and the
\* session closes the scenario.
PrepareInputs ==
  /\ main = "preparing"
  /\ main' \in {"collecting", "closing"}
  /\ UNCHANGED <<engineVars, loop, callVars, gathering, complaint>>

\* collect_samples: the pool is left when every thread is back; a stop leaves
\* some calls unmade.
LeavePool ==
  /\ main = "collecting"
  /\ \A c \in Calls : caller[c] # "waiting"
  /\ main' = "closing"
  /\ UNCHANGED <<engineVars, loop, callVars, gathering, complaint>>

\* shutdown(), up to its first await: the engine's own shutdown, if it has
\* one, which may raise.
ShutdownEngine ==
  /\ main = "closing" /\ loop = "running"
  /\ \/ UNCHANGED <<engineVars, complaint>> /\ main' = "cancelling"
     \/ /\ engine = "up"
        /\ engine' = "down" /\ handler' \in {"running", "done"}
        /\ UNCHANGED complaint
        /\ main' = "cancelling"
     \/ /\ engine = "up"
        /\ UNCHANGED engineVars
        /\ complaint' = complaint \cup {"shutdown"}
        /\ main' = "stopping"
  /\ UNCHANGED <<loop, callVars, gathering>>

Pending(c) == task[c] \notin {"none", "done"}

\* Every other task is cancelled and awaited; one that was streaming still
\* aborts its request.
CancelTasks ==
  /\ main = "cancelling"
  /\ gathering' = {c \in Calls : Pending(c)}
                  \cup (IF handler = "running" THEN {"handler"} ELSE {})
  /\ task' = [c \in Calls |-> CASE task[c] \in {"queued", "aborting"} -> "done"
                                [] task[c] = "streaming" -> "failing"
                                [] OTHER -> task[c]]
  /\ main' = "gathering"
  /\ UNCHANGED <<engineVars, loop, caller, ready, work, seen, outcome, complaint>>

HandlerCancelled ==
  /\ main = "gathering" /\ "handler" \in gathering /\ handler = "running"
  /\ handler' = "done"
  /\ UNCHANGED <<main, engine, loop, callVars, gathering, complaint>>

Gathered ==
  /\ main = "gathering"
  /\ \A t \in gathering :
       IF t = "handler" THEN handler = "done" ELSE task[t] = "done"
  /\ main' = "stopping"
  /\ UNCHANGED <<engineVars, loop, callVars, gathering, complaint>>

\* The finally of close(): loop.stop, the thread that ends, loop.close.
StopLoop ==
  /\ main = "stopping" /\ main' = "joining" /\ loop' = "stopping"
  /\ UNCHANGED <<engineVars, callVars, gathering, complaint>>

LoopEnds ==
  /\ loop = "stopping" /\ loop' = "stopped"
  /\ UNCHANGED <<main, engineVars, callVars, gathering, complaint>>

CloseLoop ==
  /\ main = "joining" /\ loop = "stopped"
  /\ main' = "closed" /\ loop' = "closed"
  /\ UNCHANGED <<engineVars, callVars, gathering, complaint>>

-----------------------------------------------------------------------------
(* A thread of the pool: generate(), which is call(). *)

Submit(c) ==
  /\ main = "collecting" /\ caller[c] = "idle"
  /\ caller' = [caller EXCEPT ![c] = "waiting"]
  /\ task' = [task EXCEPT ![c] = "queued"]
  /\ UNCHANGED <<main, engineVars, loop, ready, work, seen, outcome, gathering, complaint>>

Return(c) ==
  /\ caller[c] = "waiting" /\ task[c] = "done"
  /\ caller' = [caller EXCEPT ![c] = "returned"]
  /\ UNCHANGED <<main, engineVars, loop, task, ready, work, seen, outcome, gathering, complaint>>

-----------------------------------------------------------------------------
(* The event loop: the steps of _generate between its awaits. *)

LoopRuns == loop \in {"running", "stopping"}
loopFrame == <<main, engineVars, loop, caller, gathering>>

\* The request enters the engine, or the engine refuses it.
StartGenerate(c) ==
  /\ LoopRuns /\ task[c] = "queued"
  /\ \/ /\ task' = [task EXCEPT ![c] = "streaming"]
        /\ work' = [work EXCEPT ![c] = "running"]
     \/ task' = [task EXCEPT ![c] = "failing"] /\ UNCHANGED work
  /\ UNCHANGED <<loopFrame, ready, seen, outcome, complaint>>

\* One turn of `async for`: the last output is kept, which may have no answer.
TakeOutput(c) ==
  /\ LoopRuns /\ task[c] = "streaming"
  /\ ready[c] # <<>> /\ Head(ready[c]) \in {"empty", "answer"}
  /\ ready' = [ready EXCEPT ![c] = Tail(@)]
  /\ seen' = [seen EXCEPT ![c] = Head(ready[c])]
  /\ UNCHANGED <<loopFrame, task, work, outcome, complaint>>

\* Slip: a timeout is handled like an end, and what was streamed so far passes
\* for the answer.
TakeEndOrExpire(c) ==
  /\ LoopRuns /\ task[c] = "streaming"
  /\ \/ ready[c] # <<>> /\ Head(ready[c]) = "end"
     \/ seen[c] # "none"
  /\ task' = [task EXCEPT ![c] = "done"]
  /\ ready' = [ready EXCEPT ![c] = IF @ = <<>> THEN @ ELSE Tail(@)]
  /\ outcome' = [outcome EXCEPT ![c] =
       IF seen[c] = "answer" THEN "success" ELSE "no_output"]
  /\ UNCHANGED <<loopFrame, work, seen, complaint>>

\* The iteration is over: a record, or "returned no output".
TakeEnd(c) ==
  /\ LoopRuns /\ task[c] = "streaming"
  /\ ready[c] # <<>> /\ Head(ready[c]) = "end"
  /\ ready' = [ready EXCEPT ![c] = Tail(@)]
  /\ task' = [task EXCEPT ![c] = "done"]
  /\ outcome' = [outcome EXCEPT ![c] =
       IF seen[c] = "answer" THEN "success" ELSE "no_output"]
  /\ UNCHANGED <<loopFrame, work, seen, complaint>>

\* The engine raises out of the iteration.
TakeError(c) ==
  /\ LoopRuns /\ task[c] = "streaming"
  /\ ready[c] # <<>> /\ Head(ready[c]) = "error"
  /\ ready' = [ready EXCEPT ![c] = Tail(@)]
  /\ task' = [task EXCEPT ![c] = "failing"]
  /\ UNCHANGED <<loopFrame, work, seen, outcome, complaint>>

\* Slip: only the first output is waited for with a limit.
ExpireBeforeFirst(c) ==
  /\ LoopRuns /\ task[c] = "streaming" /\ seen[c] = "none"
  /\ task' = [task EXCEPT ![c] = "failing"]
  /\ UNCHANGED <<loopFrame, ready, work, seen, outcome, complaint>>

\* asyncio.timeout cancels the task at its await, whatever is ready for it.
Expire(c) ==
  /\ LoopRuns /\ task[c] = "streaming"
  /\ task' = [task EXCEPT ![c] = "failing"]
  /\ UNCHANGED <<loopFrame, ready, work, seen, outcome, complaint>>

\* Slip: the abort is left to run while the exception is raised.
CallAbortUnawaited(c) ==
  /\ LoopRuns /\ task[c] = "failing"
  /\ task' = [task EXCEPT ![c] = "done"]
  /\ outcome' = [outcome EXCEPT ![c] = "failed"]
  /\ UNCHANGED <<loopFrame, ready, work, seen, complaint>>

\* except BaseException: engine.abort is called ...
CallAbort(c) ==
  /\ LoopRuns /\ task[c] = "failing"
  /\ \/ task' = [task EXCEPT ![c] = "aborting"] /\ UNCHANGED <<outcome, complaint>>
     \/ /\ task' = [task EXCEPT ![c] = "done"]
        /\ outcome' = [outcome EXCEPT ![c] = "failed"]
        /\ complaint' = complaint \cup {c}
  /\ UNCHANGED <<loopFrame, ready, work, seen>>

\* ... and awaited, and the exception goes to the caller.
AbortDone(c) ==
  /\ LoopRuns /\ task[c] = "aborting"
  /\ work' = [work EXCEPT ![c] = IF @ = "running" THEN "aborted" ELSE @]
  /\ task' = [task EXCEPT ![c] = "done"]
  /\ outcome' = [outcome EXCEPT ![c] = "failed"]
  /\ UNCHANGED <<loopFrame, ready, seen, complaint>>

-----------------------------------------------------------------------------
(* The engine's task. *)

EngineRuns(c) == LoopRuns /\ handler = "running" /\ work[c] = "running"

Stream(c) ==
  /\ EngineRuns(c)
  /\ Len(ready[c]) < MaxReady
  /\ \E o \in {"empty", "answer"} : ready' = [ready EXCEPT ![c] = Append(@, o)]
  /\ UNCHANGED <<main, engineVars, loop, caller, task, work, seen, outcome,
                 gathering, complaint>>

EndOfRequest(c) ==
  /\ EngineRuns(c)
  /\ \E o \in {"end", "error"} : ready' = [ready EXCEPT ![c] = Append(@, o)]
  /\ work' = [work EXCEPT ![c] = "finished"]
  /\ UNCHANGED <<main, engineVars, loop, caller, task, seen, outcome,
                 gathering, complaint>>

-----------------------------------------------------------------------------
MainSteps ==
  \/ Initialize \/ PrepareInputs \/ LeavePool \/ ShutdownEngine
  \/ CancelTasks \/ Gathered \/ StopLoop \/ CloseLoop

LoopSteps(c) ==
  \/ StartGenerate(c) \/ TakeOutput(c) \/ TakeEnd(c) \/ TakeError(c)
  \/ CallAbort(c) \/ AbortDone(c)

Finished == main = "closed" /\ UNCHANGED vars

Next ==
  \/ MainSteps \/ HandlerCancelled \/ LoopEnds
  \/ \E c \in Calls :
       \/ Submit(c) \/ Return(c) \/ LoopSteps(c) \/ Expire(c)
       \/ Stream(c) \/ EndOfRequest(c)
  \/ Finished

Spec == Init /\ [][Next]_vars

\* Threads run, the loop turns, a timeout comes, an abort is answered and a
\* cancelled task ends.  The engine owes nothing: it may never stream.
FairSpec ==
  /\ Spec
  /\ WF_vars(MainSteps) /\ WF_vars(HandlerCancelled) /\ WF_vars(LoopEnds)
  /\ \A c \in Calls :
       /\ WF_vars(Return(c)) /\ WF_vars(LoopSteps(c)) /\ WF_vars(Expire(c))

-----------------------------------------------------------------------------
\* The engine works for nobody who has left: a call that was timed out or
\* failed comes back, and gives its slot to the next one, only after its
\* request was aborted, so the engine never has more requests than the
\* scheduler admitted.  Only an abort that itself raised breaks this.
EngineLoadBounded ==
  \A c \in Calls :
    work[c] = "running" => caller[c] = "waiting" \/ c \in complaint

\* A record of success is of a whole answer: the engine has finished the
\* request, nothing it streamed was left behind, and it was not aborted.
SuccessWhole ==
  \A c \in Calls :
    outcome[c] = "success" =>
      /\ work[c] = "finished" /\ ready[c] = <<>>
      /\ seen[c] = "answer"

\* close() ends whatever the engine does, nobody waits for a coroutine on a
\* dead loop, and nothing is left pending on it unless the engine's own
\* shutdown raised.
CloseEnds ==
  <>[](/\ main = "closed" /\ loop = "closed"
       /\ \A c \in Calls : caller[c] # "waiting" /\ ~Pending(c)
       /\ handler # "running" \/ "shutdown" \in complaint)
=============================================================================
