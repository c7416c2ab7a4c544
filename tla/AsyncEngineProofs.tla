-------------------------- MODULE AsyncEngineProofs --------------------------
(***************************************************************************)
(* Proofs about AsyncEngine.tla, for any number of calls and of outputs:   *)
(* the engine works for nobody who has left, and a record of success is of *)
(* a whole answer.  They rest on two facts that no single line of the code *)
(* states: a coroutine is only pending while its thread waits in the pool, *)
(* so close() never cancels a request, and the end of a stream is the last *)
(* thing in it and comes with the request's end in the engine.             *)
(***************************************************************************)
EXTENDS AsyncEngine, SequenceTheorems, TLAPS

Outputs == {"empty", "answer", "end", "error"}

TypeOK ==
  /\ main \in {"initializing", "preparing", "collecting", "closing",
               "cancelling", "gathering", "stopping", "joining", "closed"}
  /\ caller \in [Calls -> {"idle", "waiting", "returned"}]
  /\ task \in [Calls -> {"none", "queued", "streaming", "failing", "aborting",
                         "done"}]
  /\ ready \in [Calls -> Seq(Outputs)]
  /\ work \in [Calls -> {"none", "running", "finished", "aborted"}]
  /\ seen \in [Calls -> {"none", "empty", "answer"}]
  /\ outcome \in [Calls -> {"none", "success", "no_output", "failed"}]

\* Who waits is in the pool, and what is pending has somebody who waits.
Waited ==
  \A c \in Calls :
    /\ caller[c] = "waiting" => main = "collecting"
    /\ Pending(c) => caller[c] = "waiting"
    /\ task[c] = "none" <=> caller[c] = "idle"

Empty(s) == s = <<>>

\* A request is in the engine only between its start and its end or abort.
Worked ==
  \A c \in Calls :
    /\ task[c] \in {"none", "queued"} => work[c] = "none"
    /\ work[c] = "none" => Empty(ready[c])
    /\ work[c] = "running" => Pending(c) \/ c \in complaint

\* The end of a stream is its last output.
Ordered ==
  \A c \in Calls : \A i \in 1..Len(ready[c]) :
    ready[c][i] \in {"end", "error"} => i = Len(ready[c]) /\ work[c] = "finished"

Settled ==
  \A c \in Calls :
    /\ outcome[c] # "none" => task[c] = "done"
    /\ outcome[c] = "success" =>
         work[c] = "finished" /\ Empty(ready[c]) /\ seen[c] = "answer"

IInv == TypeOK /\ Waited /\ Worked /\ Ordered /\ Settled

LEMMA InitInv == Init => IInv
<1> SUFFICES ASSUME Init PROVE IInv OBVIOUS
<1> USE DEF Init
<1>1. TypeOK
  <2>1. <<>> \in Seq(Outputs) OBVIOUS
  <2> QED BY <2>1 DEF TypeOK
<1>2. Waited BY DEF Waited, Pending
<1>3. Worked BY DEF Worked, Empty
<1>4. Ordered BY DEF Ordered
<1>5. Settled BY DEF Settled
<1> QED BY <1>1, <1>2, <1>3, <1>4, <1>5 DEF IInv

\* A step that leaves the calls alone, and with them the main thread unless
\* none of them waits.
LEMMA FrameInv ==
  ASSUME IInv, callVars' = callVars, complaint \subseteq complaint',
         main' = main \/ \A c \in Calls : caller[c] # "waiting",
         main' \in {"initializing", "preparing", "collecting", "closing",
                   "cancelling", "gathering", "stopping", "joining", "closed"}
  PROVE  IInv'
<1> USE DEF IInv
<1>1. /\ caller' = caller /\ task' = task /\ ready' = ready
      /\ work' = work /\ seen' = seen /\ outcome' = outcome
  BY DEF callVars
<1>2. TypeOK' BY <1>1 DEF TypeOK
<1>3. Waited' BY <1>1 DEF Waited, Pending
<1>4. Worked' BY <1>1 DEF Worked, Pending
<1>5. Ordered' BY <1>1 DEF Ordered
<1>6. Settled' BY <1>1 DEF Settled
<1> QED BY <1>2, <1>3, <1>4, <1>5, <1>6

\* No step of the main thread touches a call: those it could cancel are over.
LEMMA MainInv == IInv /\ MainSteps => IInv'
<1> SUFFICES ASSUME IInv, MainSteps PROVE IInv' OBVIOUS
<1>1. CASE CancelTasks
  <2>1. \A c \in Calls : ~Pending(c) /\ caller[c] # "waiting"
    BY <1>1 DEF CancelTasks, IInv, Waited
  <2>2. task' = task
    BY <1>1, <2>1 DEF CancelTasks, Pending, IInv, TypeOK
  <2>3. callVars' = callVars /\ complaint' = complaint /\ main' = "gathering"
    BY <1>1, <2>2 DEF CancelTasks, callVars
  <2> QED BY <2>1, <2>3, FrameInv
<1>2. CASE Initialize \/ PrepareInputs \/ LeavePool \/ ShutdownEngine
           \/ Gathered \/ StopLoop \/ CloseLoop
  <2>1. callVars' = callVars /\ complaint \subseteq complaint'
    BY <1>2 DEF Initialize, PrepareInputs, LeavePool, ShutdownEngine, Gathered,
       StopLoop, CloseLoop
  <2>2. \A c \in Calls : caller[c] # "waiting"
    BY <1>2 DEF Initialize, PrepareInputs, LeavePool, ShutdownEngine, Gathered,
       StopLoop, CloseLoop, IInv, Waited
  <2>3. main' \in {"preparing", "collecting", "closing", "cancelling",
                  "stopping", "joining", "closed"}
    BY <1>2 DEF Initialize, PrepareInputs, LeavePool, ShutdownEngine, Gathered,
       StopLoop, CloseLoop
  <2> QED BY <2>1, <2>2, <2>3, FrameInv
<1> QED BY <1>1, <1>2 DEF MainSteps

\* The threads of the pool.
LEMMA CallerInv == ASSUME IInv, NEW c \in Calls, Submit(c) \/ Return(c)
                   PROVE  IInv'
<1> USE DEF IInv, Submit, Return
<1>1. TypeOK'
  <2>1. CASE Submit(c) BY <2>1 DEF TypeOK
  <2>2. CASE Return(c) BY <2>2 DEF TypeOK
  <2> QED BY <2>1, <2>2
<1>2. Waited'
  <2>1. CASE Submit(c) BY <2>1 DEF TypeOK, Waited, Pending
  <2>2. CASE Return(c) BY <2>2 DEF TypeOK, Waited, Pending
  <2> QED BY <2>1, <2>2
<1>3. Worked' BY DEF TypeOK, Waited, Worked, Pending
<1>4. Ordered' BY DEF Ordered
<1>5. Submit(c) => outcome[c] = "none"
  BY DEF TypeOK, Waited, Settled
<1>6. Settled' BY <1>5 DEF TypeOK, Settled
<1> QED BY <1>1, <1>2, <1>3, <1>4, <1>6

\* What an output taken from the front leaves behind.
LEMMA TakeFront ==
  ASSUME NEW s \in Seq(Outputs), s # <<>>
  PROVE  /\ Head(s) = s[1] /\ Head(s) \in Outputs
         /\ Tail(s) \in Seq(Outputs) /\ Len(Tail(s)) = Len(s) - 1
         /\ \A i \in 1..Len(Tail(s)) : Tail(s)[i] = s[i + 1]
         /\ 1 \in 1..Len(s)
         /\ Len(s) = 1 => Empty(Tail(s))
<1>1. Len(s) \in Nat /\ Len(s) > 0 OBVIOUS
<1>2. Tail(s) \in Seq(Outputs) /\ Len(Tail(s)) = Len(s) - 1 OBVIOUS
<1>3. \A i \in 1..Len(Tail(s)) : Tail(s)[i] = s[i + 1] BY <1>1, <1>2
<1>4. Head(s) = s[1] /\ 1 \in 1..Len(s) BY <1>1
<1>5. Head(s) \in Outputs BY <1>1, <1>4
<1>6. Len(s) = 1 => Empty(Tail(s))
  <2>1. Len(s) = 1 => Len(Tail(s)) \notin Nat \ {0} BY <1>2
  <2> QED BY <1>2, <2>1, EmptySeq, Zenon DEF Empty
<1> QED BY <1>2, <1>3, <1>4, <1>5, <1>6

\* The steps of a coroutine that take an output.
LEMMA TakeInv ==
  ASSUME IInv, NEW c \in Calls, TakeOutput(c) \/ TakeEnd(c) \/ TakeError(c)
  PROVE  IInv'
<1> USE DEF IInv, loopFrame, engineVars
<1>1. /\ task[c] = "streaming" /\ ready[c] \in Seq(Outputs) /\ ready[c] # <<>>
      /\ ready' = [ready EXCEPT ![c] = Tail(ready[c])]
      /\ work' = work /\ caller' = caller /\ main' = main /\ complaint' = complaint
  BY DEF TakeOutput, TakeEnd, TakeError, TypeOK
<1>2. /\ Head(ready[c]) = ready[c][1] /\ Tail(ready[c]) \in Seq(Outputs)
      /\ Len(Tail(ready[c])) = Len(ready[c]) - 1
      /\ \A i \in 1..Len(Tail(ready[c])) : Tail(ready[c])[i] = ready[c][i + 1]
      /\ 1 \in 1..Len(ready[c])
      /\ Len(ready[c]) = 1 => Empty(Tail(ready[c]))
  BY <1>1, TakeFront
<1>3. Ordered'
  <2> SUFFICES ASSUME NEW d \in Calls, NEW i \in 1..Len(ready'[d]),
                      ready'[d][i] \in {"end", "error"}
               PROVE  i = Len(ready'[d]) /\ work'[d] = "finished"
    BY DEF Ordered
  <2>1. CASE d # c
    BY <2>1, <1>1 DEF Ordered, TypeOK
  <2>2. CASE d = c
    <3>1. ready'[c] = Tail(ready[c])
      BY <1>1 DEF TypeOK
    <3>2. i \in Nat /\ i + 1 \in 1..Len(ready[c]) /\ Len(ready[c]) \in Nat
      BY <2>2, <3>1, <1>1, <1>2
    <3>3. ready[c][i + 1] \in {"end", "error"}
      BY <2>2, <3>1, <1>2
    <3>4. i + 1 = Len(ready[c]) /\ work[c] = "finished"
      BY <3>2, <3>3 DEF Ordered
    <3> QED BY <2>2, <3>1, <3>2, <3>4, <1>1, <1>2
  <2> QED BY <2>1, <2>2
<1>4. Head(ready[c]) \in {"end", "error"} =>
        work[c] = "finished" /\ Empty(Tail(ready[c]))
  BY <1>2 DEF Ordered
<1>5. work[c] # "none" /\ ~Empty(ready[c]) BY <1>1 DEF Worked, Empty
<1>6. CASE TakeOutput(c)
  <2> USE <1>1, <1>2, <1>6 DEF TakeOutput
  <2>1. TypeOK' BY DEF TypeOK
  <2>2. Waited' BY DEF Waited, Pending
  <2>3. Worked' BY <1>5 DEF TypeOK, Worked, Pending
  <2>4. Settled' BY DEF TypeOK, Settled
  <2> QED BY <1>3, <2>1, <2>2, <2>3, <2>4
<1>7. CASE TakeEnd(c)
  <2>0. work[c] = "finished" /\ Empty(Tail(ready[c]))
    BY <1>4, <1>7 DEF TakeEnd
  <2> USE <1>1, <1>2, <1>7 DEF TakeEnd
  <2>1. TypeOK' BY DEF TypeOK
  <2>2. Waited' BY DEF TypeOK, Waited, Pending
  <2>3. Worked' BY <2>0 DEF TypeOK, Worked, Pending
  <2>4. \A d \in Calls : d # c => /\ outcome'[d] = outcome[d] /\ task'[d] = task[d]
                               /\ ready'[d] = ready[d]
    BY DEF TypeOK
  <2>5. /\ Empty(ready'[c]) /\ task'[c] = "done"
        /\ seen' = seen /\ work' = work
    BY <2>0 DEF TypeOK
  <2>6. outcome'[c] = "success" => seen[c] = "answer"
    BY DEF TypeOK
  <2>7. Settled'
    BY ONLY IInv, <2>0, <2>4, <2>5, <2>6 DEF IInv, Settled
  <2> QED BY <1>3, <2>1, <2>2, <2>3, <2>7
<1>8. CASE TakeError(c)
  <2> USE <1>1, <1>2, <1>8 DEF TakeError
  <2>1. TypeOK' BY DEF TypeOK
  <2>2. Waited' BY DEF TypeOK, Waited, Pending
  <2>3. Worked' BY <1>5 DEF TypeOK, Worked, Pending
  <2>4. Settled' BY DEF TypeOK, Settled
  <2> QED BY <1>3, <2>1, <2>2, <2>3, <2>4
<1> QED BY <1>6, <1>7, <1>8

\* Its other steps.
LEMMA LoopInv ==
  ASSUME IInv, NEW c \in Calls,
         StartGenerate(c) \/ Expire(c) \/ CallAbort(c) \/ AbortDone(c)
  PROVE  IInv'
<1> USE DEF IInv, loopFrame
<1>1. CASE StartGenerate(c)
  <2> USE <1>1 DEF StartGenerate
  <2>1. TypeOK' BY DEF TypeOK
  <2>2. Waited' BY DEF TypeOK, Waited, Pending
  <2>3. Worked' BY DEF TypeOK, Worked, Pending
  <2>4. Empty(ready[c]) /\ work[c] = "none" /\ outcome[c] = "none"
    BY DEF TypeOK, Worked, Settled
  <2>5. Ordered'
    <3>1. 1..Len(ready[c]) = {} BY <2>4, EmptySeq DEF Empty
    <3>2. \A d \in Calls : d # c => work'[d] = work[d] BY DEF TypeOK
    <3>3. ready' = ready OBVIOUS
    <3> QED BY <3>1, <3>2, <3>3 DEF Ordered
  <2>6. Settled' BY <2>4 DEF TypeOK, Settled
  <2> QED BY <2>1, <2>2, <2>3, <2>5, <2>6
<1>2. CASE Expire(c)
  <2> USE <1>2 DEF Expire
  <2>1. TypeOK' BY DEF TypeOK
  <2>2. Waited' BY DEF TypeOK, Waited, Pending
  <2>3. Worked' BY DEF TypeOK, Worked, Pending
  <2>4. Ordered' BY DEF Ordered
  <2>5. Settled' BY DEF TypeOK, Settled
  <2> QED BY <2>1, <2>2, <2>3, <2>4, <2>5
<1>3. CASE CallAbort(c)
  <2> USE <1>3 DEF CallAbort
  <2>1. TypeOK' BY DEF TypeOK
  <2>2. Waited' BY DEF TypeOK, Waited, Pending
  <2>3. Worked' BY DEF TypeOK, Worked, Pending
  <2>4. Ordered' BY DEF Ordered
  <2>5. Settled' BY DEF TypeOK, Settled
  <2> QED BY <2>1, <2>2, <2>3, <2>4, <2>5
<1>4. CASE AbortDone(c)
  <2> USE <1>4 DEF AbortDone
  <2>1. TypeOK' BY DEF TypeOK
  <2>2. Waited' BY DEF TypeOK, Waited, Pending
  <2>3. Worked' BY DEF TypeOK, Worked, Pending
  <2>4. Ordered' BY DEF TypeOK, Ordered
  <2>5. Settled' BY DEF TypeOK, Settled
  <2> QED BY <2>1, <2>2, <2>3, <2>4, <2>5
<1> QED BY <1>1, <1>2, <1>3, <1>4

\* What an output streamed to the back adds.
LEMMA AppendBack ==
  ASSUME NEW s \in Seq(Outputs), NEW o \in Outputs
  PROVE  /\ Append(s, o) \in Seq(Outputs)
         /\ Len(Append(s, o)) = Len(s) + 1 /\ Len(s) \in Nat
         /\ Append(s, o)[Len(s) + 1] = o
         /\ \A i \in 1..Len(s) : Append(s, o)[i] = s[i]
  OBVIOUS

\* The engine appends to a stream that has not ended.
LEMMA EngineInv ==
  ASSUME IInv, NEW c \in Calls, Stream(c) \/ EndOfRequest(c)
  PROVE  IInv'
<1> USE DEF IInv, engineVars
<1>1. work[c] = "running"
  BY DEF Stream, EndOfRequest, EngineRuns
<1>2. PICK o \in Outputs :
        /\ ready' = [ready EXCEPT ![c] = Append(ready[c], o)]
        /\ o \in {"end", "error"} => work' = [work EXCEPT ![c] = "finished"]
        /\ o \notin {"end", "error"} => work' = work
        /\ UNCHANGED <<main, caller, task, seen, outcome, complaint>>
  BY DEF Stream, EndOfRequest, Outputs
<1>3. /\ ready[c] \in Seq(Outputs)
      /\ Append(ready[c], o) \in Seq(Outputs)
      /\ Len(Append(ready[c], o)) = Len(ready[c]) + 1 /\ Len(ready[c]) \in Nat
      /\ Append(ready[c], o)[Len(ready[c]) + 1] = o
      /\ \A i \in 1..Len(ready[c]) : Append(ready[c], o)[i] = ready[c][i]
  BY <1>2, AppendBack DEF TypeOK
<1>4. \A i \in 1..Len(ready[c]) : ready[c][i] \notin {"end", "error"}
  BY <1>1 DEF Ordered
<1>5. TypeOK' BY <1>2, <1>3 DEF TypeOK
<1>6. Ordered'
  <2> SUFFICES ASSUME NEW d \in Calls, NEW i \in 1..Len(ready'[d]),
                      ready'[d][i] \in {"end", "error"}
               PROVE  i = Len(ready'[d]) /\ work'[d] = "finished"
    BY DEF Ordered
  <2>1. CASE d # c
    BY <2>1, <1>2 DEF Ordered, TypeOK
  <2>2. CASE d = c
    <3>1. ready'[c] = Append(ready[c], o) BY <1>2 DEF TypeOK
    <3>2. i = Len(ready[c]) + 1 BY <2>2, <3>1, <1>3, <1>4
    <3>3. o \in {"end", "error"} BY <2>2, <3>1, <3>2, <1>3
    <3> QED BY <2>2, <3>1, <3>2, <3>3, <1>2, <1>3 DEF TypeOK
  <2> QED BY <2>1, <2>2
<1>7. Worked' BY <1>1, <1>2, <1>3 DEF TypeOK, Worked, Pending
<1>8. Waited' BY <1>2 DEF Waited, Pending
<1>9. Settled' BY <1>1, <1>2 DEF TypeOK, Settled
<1> QED BY <1>5, <1>6, <1>7, <1>8, <1>9

LEMMA NextInv == IInv /\ [Next]_vars => IInv'
<1> SUFFICES ASSUME IInv, [Next]_vars PROVE IInv' OBVIOUS
<1>1. CASE MainSteps BY <1>1, MainInv
<1>2. CASE HandlerCancelled \/ LoopEnds
  <2>1. callVars' = callVars /\ complaint' = complaint /\ main' = main
    BY <1>2 DEF HandlerCancelled, LoopEnds
  <2> QED BY <2>1, FrameInv DEF IInv, TypeOK
<1>3. ASSUME NEW c \in Calls,
             \/ Submit(c) \/ Return(c) \/ LoopSteps(c) \/ Expire(c)
             \/ Stream(c) \/ EndOfRequest(c)
      PROVE  IInv'
  BY <1>3, CallerInv, TakeInv, LoopInv, EngineInv DEF LoopSteps
<1>4. CASE UNCHANGED vars
  <2>1. callVars' = callVars /\ complaint' = complaint /\ main' = main
    BY <1>4 DEF vars
  <2> QED BY <2>1, FrameInv DEF IInv, TypeOK
<1> QED BY <1>1, <1>2, <1>3, <1>4 DEF Next, Finished

THEOREM Invariance == Spec => []IInv
  BY InitInv, NextInv, PTL DEF Spec

\* However many calls there are, the engine works for nobody who has left
\* (async_engine.py:76-137).
THEOREM LoadBounded == Spec => []EngineLoadBounded
<1>1. IInv => EngineLoadBounded
  BY DEF IInv, Waited, Worked, EngineLoadBounded
<1> QED BY <1>1, Invariance, PTL

\* Whatever the engine streams and whenever the timeout comes, a record of
\* success is of a whole answer (async_engine.py:76-137).
THEOREM SuccessCorrect == Spec => []SuccessWhole
<1>1. IInv => SuccessWhole
  BY DEF IInv, Settled, SuccessWhole, Empty
<1> QED BY <1>1, Invariance, PTL
=============================================================================
