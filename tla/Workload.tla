------------------------------ MODULE Workload ------------------------------
(***************************************************************************)
(* What a Case will send: the records of a data set or a trace             *)
(* (data/engine.py, data/trace_adapter.py, data/projections.py), the       *)
(* lengths and texts made for them (generation_performance/common/         *)
(* tokenization.py, trace_inputs.py) and the samples of the scenarios      *)
(* (generation_benchmarks.py).                                             *)
(*                                                                         *)
(* A shuffle is any permutation; a random length is any the sampler may    *)
(* give.  A text is its number of tokens.  None is Python's None; errors   *)
(* are predicates named ...Refused.                                        *)
(***************************************************************************)
EXTENDS Statistics

-----------------------------------------------------------------------------
(* read_trace: a raw row is [offset, input, output, whole]; a field that    *)
(* does not parse is None, and whole says that the columns match.           *)

RowValid(row) ==
  row.offset # None /\ row.input >= 1 /\ row.output >= 1 /\ row.whole

TraceRefused(rows, skipInvalid) ==
  ~skipInvalid /\ \E i \in DOMAIN rows : ~RowValid(rows[i])

ReadTrace(rows) ==
  LET numbered == [i \in DOMAIN rows |-> [line |-> i] @@ rows[i]]
  IN  [records |-> SelectSeq(numbered, RowValid),
       rejected |-> Len(SelectSeq(rows, LAMBDA r : ~RowValid(r)))]

\* order: the permutation of a shuffle.
Shuffled(records, order) == [i \in DOMAIN records |-> records[order[i]]]

FirstOf(records, n) == SubSeq(records, 1, Min({n, Len(records)}))

-----------------------------------------------------------------------------
(* select_trace: p is [replay, shuffle, start, maxSamples, count]           *)

\* Slip: the window is cut before the trace is sorted.
WindowUnsorted(records, p, order) ==
  LET rest == SubSeq(records, p.start + 1, Len(records))
  IN  IF p.maxSamples = None THEN rest ELSE FirstOf(rest, p.maxSamples)

\* A replay goes by time, rows of the same time by their place in the file.
Window(records, p, order) ==
  LET byTime == SortSeq(records, LAMBDA a, b :
                  a.offset < b.offset \/ (a.offset = b.offset /\ a.line < b.line))
      arranged == IF p.replay THEN byTime
                  ELSE IF p.shuffle THEN Shuffled(records, order) ELSE records
      rest == SubSeq(arranged, p.start + 1, Len(arranged))
  IN  IF p.maxSamples = None THEN rest ELSE FirstOf(rest, p.maxSamples)

\* validate_trace_parameters, OnlineServing.validate and select_trace
SelectionRefused(records, p, order) ==
  \/ p.replay /\ p.shuffle
  \/ p.maxSamples # None /\ p.maxSamples < p.count
  \/ p.count > Len(Window(records, p, order))

\* Only a replay has a schedule, from the first row of the window.
SelectTrace(records, p, order) ==
  LET rows == FirstOf(Window(records, p, order), p.count)
  IN  [i \in DOMAIN rows |->
         [row |-> rows[i],
          schedule |-> IF p.replay
                       THEN [index |-> i - 1, offset |-> rows[i].offset - rows[1].offset]
                       ELSE [index |-> None, offset |-> None]]]

\* prepare_trace: the warmup goes round the selection and has no schedule.
WarmupOf(selected, number) ==
  [i \in 1..number |->
     [selected[1 + ((i - 1) % Len(selected))]
        EXCEPT !.schedule = [index |-> None, offset |-> None]]]

-----------------------------------------------------------------------------
(* LengthSampler: p is [mean, std, lower, upper], the last three optional   *)

Std(p) == IF p.std = None THEN 0 ELSE p.std
Lower(p) == IF p.lower = None THEN Max({1, p.mean - 5 * Std(p)}) ELSE p.lower
Upper(p) == IF p.upper = None THEN p.mean + 5 * Std(p) ELSE p.upper

SamplerRefused(p) ==
  \/ Lower(p) > Upper(p)
  \/ Std(p) > 0 /\ p.mean \notin Lower(p)..Upper(p)

\* sample, of which draw is the normal or the uniform number.
SampleLength(p, draw) == Max({Lower(p), Min({Upper(p), draw})})

\* validate_lengths; the limit is optional, zero is none.
LengthsRefused(input, output, synthetic, limit) ==
  \/ SamplerRefused(output)
  \/ IF synthetic
     THEN \/ SamplerRefused(input)
          \/ limit \notin {None, 0} /\ Upper(input) + Upper(output) > limit
     ELSE \/ input.lower > 0 /\ input.upper > 0 /\ input.lower > input.upper
          \/ Std(input) > 0

\* check_context
ContextRefused(input, output, limit) ==
  limit \notin {None, 0} /\ input + output > limit

-----------------------------------------------------------------------------
(* Records and samples *)

\* OnlineServing.samples, and the total prepare() announces for it.
DatasetSamples(records, number, repeat) ==
  IF repeat THEN [i \in 1..number |-> records[1 + ((i - 1) % Len(records))]]
  ELSE FirstOf(records, number)

TotalSamples(records, number, repeat) ==
  IF repeat THEN number ELSE Min({Len(records), number})

\* OfflineEngine.samples: batches, of which the last may be smaller.
Batches(inputs, size) ==
  [i \in 1..((Len(inputs) + size - 1) \div size) |->
     SubSeq(inputs, (i - 1) * size + 1, Min({i * size, Len(inputs)}))]

-----------------------------------------------------------------------------
(* Conversations: a turn is [role, text]; an unknown speaker has the role   *)
(* "other", a blank or missing text is 0.                                   *)

\* extract_conversation
ExtractConversation(turns) ==
  SelectSeq(turns, LAMBDA t : t.role # "other" /\ t.text > 0)

\* split_turns: replies end an increment; increments without a user's message
\* go with the next one.
Increments(projected) ==
  LET step(state, t) ==
        IF t.role # "assistant" THEN [state EXCEPT !.current = Append(@, t)]
        ELSE IF state.current = <<>> THEN state
        ELSE [all |-> Append(state.all, state.current), current |-> <<>>]
      end == FoldLeft(step, [all |-> <<>>, current |-> <<>>], projected)
  IN  IF end.current = <<>> THEN end.all ELSE Append(end.all, end.current)

SplitTurns(projected) ==
  LET step(state, increment) ==
        LET pending == state.pending \o increment
        IN  IF \E i \in DOMAIN pending : pending[i].role = "user"
            THEN [turns |-> Append(state.turns, pending), pending |-> <<>>]
            ELSE [state EXCEPT !.pending = pending]
  IN  FoldLeft(step, [turns |-> <<>>, pending |-> <<>>], Increments(projected)).turns

\* MultiTurnServing.prepare: the conversations that have a turn, each with its
\* place in the data and at most maxTurns turns.
SessionsOf(records, maxTurns) ==
  LET turns(i) == SplitTurns(ExtractConversation(records[i]))
      usable == SelectSeq([i \in DOMAIN records |-> i], LAMBDA i : turns(i) # <<>>)
  IN  [k \in DOMAIN usable |->
         [record |-> usable[k], available |-> Len(turns(usable[k])),
          turns |-> FirstOf(turns(usable[k]), maxTurns),
          system |-> \E m \in DOMAIN turns(usable[k])[1] :
                       turns(usable[k])[1][m].role = "system"]]

FilterFacts(sessions, records, maxTurns, cliSystem) ==
  LET number(P(_)) == Len(SelectSeq(sessions, P))
  IN  [usable |-> Len(sessions), unusable |-> Len(records) - Len(sessions),
       truncated |-> number(LAMBDA s : s.available > maxTurns),
       requests |-> Total([k \in DOMAIN sessions |-> Len(sessions[k].turns)]),
       dataset |-> number(LAMBDA s : s.system),
       cli |-> IF cliSystem THEN number(LAMBDA s : ~s.system) ELSE 0,
       ignoredCli |-> IF cliSystem THEN number(LAMBDA s : s.system) ELSE 0]

SessionsRefused(sessions, needed, repeat) ==
  sessions = <<>> \/ (Len(sessions) < needed /\ ~repeat)

\* MultiTurnServing.samples: sample i has the turns of its session, and the
\* index from which the seed of each turn's output budget is derived.
SessionSamples(sessions, needed, repeat) ==
  LET pool == DatasetSamples([k \in DOMAIN sessions |-> k], needed, repeat)
      planned(i) == Len(sessions[pool[i]].turns)
  IN  [i \in DOMAIN pool |->
         [pool |-> pool[i], record |-> sessions[pool[i]].record,
          planned |-> planned(i),
          seeds |-> [t \in 1..planned(i) |-> (i - 1) * planned(i) + t - 1]]]
=============================================================================
