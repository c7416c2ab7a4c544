---------------------------- MODULE Computations ----------------------------
(***************************************************************************)
(* The pure computations of the program, each started on one input: what   *)
(* is planned and sent before a Case runs, and what is made of it after.   *)
(* Nothing here depends on time or on other threads; a behaviour takes an  *)
(* input and stays with it, and the properties compare what the modules    *)
(* compute with what the result has to be, said in another way.            *)
(***************************************************************************)
EXTENDS Integers, Sequences, FiniteSets, SequencesExt

CONSTANTS World,                                    \* Planning: what is installed
          PlanInputs, TraceInputs, LengthInputs, TalkInputs,      \* before
          ByteInputs, StreamInputs, ThoughtInputs, ValueInputs,   \* streams
          TokenInputs, RunInputs, BatchInputs,                    \* reports
          WindowInputs, AnswerInputs, ChoiceInputs, TextInputs    \* quality

VARIABLE job

P == INSTANCE Planning
W == INSTANCE Workload
R == INSTANCE ServingRecords
T == INSTANCE TokenTotals
B == INSTANCE BatchEngine
Q == INSTANCE Quality

Idle == [kind |-> "none"]

Start(kind, inputs) ==
  /\ job = Idle
  /\ \E input \in inputs : job' = [kind |-> kind, in |-> input]

Init == job = Idle

Next ==
  \/ Start("plan", PlanInputs)
  \/ Start("trace", TraceInputs)
  \/ Start("lengths", LengthInputs)
  \/ Start("talk", TalkInputs)
  \/ Start("bytes", ByteInputs)
  \/ Start("stream", StreamInputs)
  \/ Start("thought", ThoughtInputs)
  \/ Start("values", ValueInputs)
  \/ Start("tokens", TokenInputs)
  \/ Start("run", RunInputs)
  \/ Start("batch", BatchInputs)
  \/ Start("windows", WindowInputs)
  \/ Start("answers", AnswerInputs)
  \/ Start("choices", ChoiceInputs)
  \/ Start("texts", TextInputs)
  \/ job # Idle /\ UNCHANGED job

Spec == Init /\ [][Next]_job

Holds(kind, Property(_)) == job.kind = kind => Property(job.in)

None == -1

-----------------------------------------------------------------------------
(* The plan.  An input is [common, entries, selected].                      *)

\* Where a value comes from decides what its path is relative to.
Expected(override, entry, common, spec, name) ==
  LET from(values, base) ==
        IF spec.path /\ values[name] \notin {P!Null, P!Empty}
        THEN [values[name] EXCEPT !.base = base] ELSE values[name]
  IN  IF name \in DOMAIN override THEN from(override, "config")
      ELSE IF name \in DOMAIN entry.given THEN from(entry.given, "config")
      ELSE IF name \in DOMAIN common THEN from(common, "cwd")
      ELSE IF spec.default = P!Missing THEN P!Missing
      ELSE from((name :> spec.default), "config")

\* The override of Case number k of a matrix: the last name varies fastest.
MatrixOverride(matrix, k) ==
  LET sizeFrom(j) == FoldLeft(LAMBDA n, axis : n * Len(axis.values), 1,
                              SubSeq(matrix, j, Len(matrix)))
      index(name) == CHOOSE j \in DOMAIN matrix : matrix[j].name = name
  IN  [name \in {matrix[j].name : j \in DOMAIN matrix} |->
         LET j == index(name)
         IN  matrix[j].values[1 + ((k - 1) % sizeFrom(j)) \div sizeFrom(j + 1)]]

CountOf(definition) ==
  CASE definition.kind = "none" -> 1
    [] definition.kind = "matrix" ->
         FoldLeft(LAMBDA n, axis : n * Len(axis.values), 1, definition.matrix)
    [] OTHER -> Len(definition.items)

OverrideOf(definition, k) ==
  CASE definition.kind = "none" -> <<>>
    [] definition.kind = "matrix" -> MatrixOverride(definition.matrix, k)
    [] OTHER -> definition.items[k]

TaskAsAsked(task, entry, common) ==
  /\ task.name = entry.name
  /\ Len(task.cases) = CountOf(entry.cases)
  /\ \A k \in DOMAIN task.cases : \A name \in DOMAIN task.schema :
       LET expected == Expected(OverrideOf(entry.cases, k), entry, common,
                                task.schema[name], name)
       IN  IF name = "metrics" /\ expected = P!Empty
           THEN task.cases[k][name] # P!Empty
           ELSE IF expected = P!Missing THEN name \notin DOMAIN task.cases[k]
           ELSE task.cases[k][name] = expected

\* Only the secrets are hidden, and each of them.
HidesSecrets(task, public) ==
  \A k \in DOMAIN task.cases : \A name \in DOMAIN task.cases[k] :
    IF task.schema[name].secret /\ task.cases[k][name] \notin {P!Null, P!Empty}
    THEN public.cases[k][name] = P!Redacted
    ELSE public.cases[k][name] = task.cases[k][name]

PlanAsAsked(in) ==
  LET refused(S) == P!PlanRefused(in.common, in.entries, S, World)
      plan(S) == P!Plan(in.common, in.entries, S, World)
      chosen == SelectSeq(in.entries, LAMBDA e :
                            in.selected = {} \/ e.name \in in.selected)
  IN  ~refused(in.selected) =>
        /\ Len(plan(in.selected)) = Len(chosen)
        /\ \A i \in DOMAIN chosen :
             /\ TaskAsAsked(plan(in.selected)[i], chosen[i], in.common)
             /\ HidesSecrets(plan(in.selected)[i],
                             P!PublicPlan(plan(in.selected))[i])
             \* the other entries make no difference to it
             /\ ~refused({chosen[i].name})
             /\ plan({chosen[i].name}) = <<plan(in.selected)[i]>>

\* A plan that is accepted runs what was asked for: each selected task in the
\* order of the file, each combination of its matrix exactly once, in every
\* Case the value of the most specific source with its path relative to where
\* that source is, no secret in the published plan, and no task depends on the
\* entries beside it (core/planning.py:75-221, core/parameters.py:78-101).
PlanFaithful == Holds("plan", PlanAsAsked)

-----------------------------------------------------------------------------
(* What is sent.  A trace input is [rows, skip, p, order, warmup].          *)

\* How many of the valid rows come before row i, by time or in the file.
Rank(rows, i, byTime) ==
  Cardinality({j \in DOMAIN rows :
    /\ W!RowValid(rows[j])
    /\ IF byTime THEN \/ rows[j].offset < rows[i].offset
                      \/ rows[j].offset = rows[i].offset /\ j < i
       ELSE j < i})

TraceAsRecorded(in) ==
  LET read == W!ReadTrace(in.rows)
      selected == W!SelectTrace(read.records, in.p, in.order)
      lines == {selected[i].row.line : i \in DOMAIN selected}
      warmup == W!WarmupOf(selected, in.warmup)
      accepted == /\ ~W!TraceRefused(in.rows, in.skip)
                  /\ Len(in.order) = Len(read.records)
                  /\ ~W!SelectionRefused(read.records, in.p, in.order)
  IN  accepted =>
        /\ Len(read.records) + read.rejected = Len(in.rows)
        /\ ~in.skip => read.rejected = 0
        /\ Len(selected) = in.p.count /\ Cardinality(lines) = in.p.count
        /\ \A line \in lines : W!RowValid(in.rows[line])
        /\ ~in.p.shuffle =>
             \A i \in DOMAIN selected :
               Rank(in.rows, selected[i].row.line, in.p.replay) = in.p.start + i - 1
        /\ \A i \in DOMAIN selected :
             selected[i].schedule.index = IF in.p.replay THEN i - 1 ELSE None
        /\ in.p.replay =>
             /\ selected[1].schedule.offset = 0
             /\ \A i \in 2..in.p.count :
                  selected[i].schedule.offset >= selected[i - 1].schedule.offset
        /\ \A i \in DOMAIN warmup : /\ warmup[i].row.line \in lines
                                    /\ warmup[i].schedule.index = None

\* A length input is [input, output, limit, draws, items, size, number].
LengthsKept(in) ==
  LET inputs == {W!SampleLength(in.input, d) : d \in in.draws}
      outputs == {W!SampleLength(in.output, d) : d \in in.draws}
      batches == W!Batches(in.items, in.size)
      samples(repeat) == W!DatasetSamples(in.items, in.number, repeat)
      times(i) == Cardinality({k \in DOMAIN samples(TRUE) : samples(TRUE)[k] = i})
  IN  /\ ~W!LengthsRefused(in.input, in.output, TRUE, in.limit) =>
           \A i \in inputs, o \in outputs :
             /\ i \in W!Lower(in.input)..W!Upper(in.input)
             /\ o \in W!Lower(in.output)..W!Upper(in.output)
             /\ ~W!ContextRefused(i, o, in.limit)
      /\ FlattenSeq(batches) = in.items
      /\ \A b \in DOMAIN batches :
           Len(batches[b]) \in 1..in.size
             /\ (Len(batches[b]) < in.size => b = Len(batches))
      /\ in.items # <<>> =>
           /\ \A repeat \in BOOLEAN :
                Len(samples(repeat)) = W!TotalSamples(in.items, in.number, repeat)
           \* nothing is sent twice without repetition, and with it evenly
           /\ IsInjective(samples(FALSE))
           /\ \A i, j \in Range(in.items) : times(i) - times(j) <= 1

\* A talk input is [records, maxTurns, needed, repeat, cliSystem].
TurnsInOrder(record) ==
  LET said == W!ExtractConversation(record)
      turns == W!SplitTurns(said)
      asked == SelectSeq(said, LAMBDA t : t.role # "assistant")
      sent == FlattenSeq(turns)
      \* users' messages after which an answer comes before the next of them
      answered == {i \in DOMAIN said :
                     /\ said[i].role = "user"
                     /\ \A j \in i + 1..Len(said) : said[j].role = "user" =>
                          \E k \in i..j : said[k].role = "assistant"}
  IN  /\ sent = SubSeq(asked, 1, Len(sent))
      /\ \A i \in Len(sent) + 1..Len(asked) : asked[i].role # "user"
      /\ \A k \in DOMAIN turns : \E m \in DOMAIN turns[k] : turns[k][m].role = "user"
      /\ Len(turns) = Cardinality(answered)

TalksKept(in) ==
  LET sessions == W!SessionsOf(in.records, in.maxTurns)
      facts == W!FilterFacts(sessions, in.records, in.maxTurns, in.cliSystem)
      samples == W!SessionSamples(sessions, in.needed, in.repeat)
  IN  /\ \A i \in DOMAIN in.records : TurnsInOrder(in.records[i])
      /\ ~W!SessionsRefused(sessions, in.needed, in.repeat) =>
           /\ Len(samples) = in.needed
           /\ facts.usable + facts.unusable = Len(in.records)
           /\ in.cliSystem => facts.dataset + facts.cli = facts.usable
                              /\ facts.ignoredCli = facts.dataset
           /\ \A i \in DOMAIN samples :
                /\ samples[i].planned \in 1..in.maxTurns
                \* a record beyond the usable ones is never padded with
                /\ samples[i].record \in {sessions[k].record : k \in DOMAIN sessions}
           /\ ~in.repeat => IsInjective([i \in DOMAIN samples |-> samples[i].pool])

\* What a Case sends is what its data says: a trace's valid rows, by time in a
\* replay, with a schedule from zero; lengths that fit the model, which is
\* checked before any is drawn; every prepared input once; and of a
\* conversation the users' messages in order, one turn for each stretch of them
\* that was answered (data/trace_adapter.py:13-111, common/tokenization.py:
\* 45-88, generation_benchmarks.py:173-194, data/projections.py:85-151).
WorkloadFaithful ==
  /\ Holds("trace", TraceAsRecorded)
  /\ Holds("lengths", LengthsKept)
  /\ Holds("talk", TalksKept)

-----------------------------------------------------------------------------
(* Streams and statistics.  A byte input is [chunks].                       *)

LinesWhole(in) ==
  LET bytes == FlattenSeq(in.chunks)
      ends == {i \in DOMAIN bytes :
                 \/ bytes[i] = "cr"
                 \/ bytes[i] = "lf" /\ (i > 1 => bytes[i - 1] # "cr")}
      text == {i \in DOMAIN bytes : bytes[i] \notin {"cr", "lf"}}
      lineOf(i) == 1 + Cardinality({e \in ends : e < i})
      lines == R!ResponseLines(in.chunks)
  IN  /\ FlattenSeq(lines) =
           SelectSeq(bytes, LAMBDA byte : byte \notin {"cr", "lf"})
      /\ \A k \in DOMAIN lines :
           Len(lines[k]) = Cardinality({i \in text : lineOf(i) = k})
      /\ Len(lines) = Cardinality(ends)
           + IF \E i \in text : \A e \in ends : e < i THEN 1 ELSE 0

\* A stream input is [lines], one a second; a completion has content only.
StreamTimed(in) ==
  LET chat == R!CollectChat(in.lines)
      completion == R!CollectCompletion(in.lines)
      told == SelectSeq(in.lines, LAMBDA l : l.kind = "payload" /\ l.content)
      plain == \A i \in DOMAIN in.lines :
                 in.lines[i].kind = "payload" => ~in.lines[i].thought
      record == R!BuildRecord(completion, 0, 0, Len(in.lines))
      timing == R!PhaseTiming(record, FALSE)
  IN  /\ plain => completion.state = chat.state /\ completion.events = chat.events
      /\ Range(chat.events) = Range(chat.content) \cup Range(chat.reasoning)
      /\ completion.state = "observed" =>
           /\ chat.state = "observed"
           /\ ~R!Refused(record)
           /\ timing.contentEvents = Len(completion.events)
           /\ timing.contentEvents <= Len(told)
           /\ timing.firstContent = record.ttft
           /\ record.ttft + timing.contentSpan = record.last

\* A thought input is [prompt, output].  The output is a thinking block and what
\* comes after it, and the prompt may have opened the block.
ThoughtCounted(in) ==
  LET opened == R!StartsInThinking(in.prompt)
      starts == {i \in DOMAIN in.output : in.output[i] = "start"}
      ends == {i \in DOMAIN in.output : in.output[i] = "end"}
      count == R!ThinkingCount(in.prompt, in.output, Len(in.output))
      oneBlock == /\ Cardinality(starts) = IF opened THEN 0 ELSE 1
                  /\ Cardinality(ends) = 1
                  /\ \A s \in starts, e \in ends : s < e
                  /\ \A s \in starts : \A i \in 1..s - 1 : in.output[i] = "ws"
  IN  /\ oneBlock <=> count # None
      /\ oneBlock => \A e \in ends :
           count = e - 1 - IF opened THEN 0 ELSE CHOOSE s \in starts : TRUE
      /\ R!ThinkingCount(in.prompt, in.output, Len(in.output) + 1) = None

\* A value input is [samples, present]: samples, and some of them unknown.
Ranked(samples, fraction) ==
  LET atLeast == {v \in Range(samples) :
        1000 * Len(SelectSeq(samples, LAMBDA x : x <= v)) >= fraction * Len(samples)}
  IN  CHOOSE v \in atLeast : \A u \in atLeast : v <= u

Pairs(samples) ==
  LET values == SetToSeq(Range(samples))
  IN  [i \in DOMAIN values |->
         <<values[i], Len(SelectSeq(samples, LAMBDA x : x = values[i]))>>]

Buckets(samples) ==
  [i \in 1..4 |-> [le |-> i - 1, count |-> Len(SelectSeq(samples,
                                                  LAMBDA x : x <= i - 1))]]

ValuesSummed(in) ==
  LET levels == <<500, 900, 950, 990, 999>>
      p(k) == R!Percentile(in.samples, levels[k])
      weighted(k) == R!WeightedQuantile(Pairs(in.samples), levels[k])
      bucketed(k) == R!HistogramQuantile(Buckets(in.samples), Len(in.samples), levels[k])
      known == SelectSeq(in.present, LAMBDA x : x # None)
  IN  /\ \A k \in DOMAIN levels :
           /\ \E low, high \in Range(in.samples) :
                1000 * low <= p(k) /\ p(k) <= 1000 * high
           /\ k > 1 => p(k) >= p(k - 1) /\ bucketed(k) >= bucketed(k - 1)
           \* the value that stands for the fraction, its bucket, its weight
           /\ weighted(k) = Ranked(in.samples, levels[k])
           /\ bucketed(k) <= 1000 * weighted(k)
           /\ bucketed(k) >= 1000 * (weighted(k) - 1)
           \* what is unknown is left out, and nothing is not zero
           /\ R!DevicePercentile(in.present, levels[k]) =
                IF known = <<>> THEN None ELSE R!Percentile(known, levels[k])
      \* the median is the middle of the two values in the middle
      /\ LET sorted == SortSeq(in.samples, LAMBDA x, y : x < y)
             n == Len(sorted)
         IN  p(1) = 500 * (sorted[(n + 1) \div 2] + sorted[n \div 2 + 1])

\* What is observed is what was sent, however it was cut: lines do not depend
\* on the chunks, an answer is timed alike on both endpoints, thinking is
\* counted exactly when there is one closed block, and a percentile lies where
\* the samples do (runtime/http_client.py, common/streaming.py,
\* common/reasoning_tokens.py, common/statistics.py).
StreamsFaithful ==
  /\ Holds("bytes", LinesWhole)
  /\ Holds("stream", StreamTimed)
  /\ Holds("thought", ThoughtCounted)
  /\ Holds("values", ValuesSummed)

-----------------------------------------------------------------------------
(* Reports.  A token input is [requests, samples, complete, duration].      *)

TokensKnown(in) ==
  LET total(requests) == T!RequestTotals(requests, in.samples).tokens
      requests == in.requests
      ofSample(id) == {i \in DOMAIN requests : requests[i].sample = id}
      rate == T!FormalThroughput(requests, in.samples, in.complete, in.duration).rate
      forgetting(i) == [requests EXCEPT ![i].usage = T!NoPair]
      cost == R!Total([i \in DOMAIN requests |-> requests[i].cost])
      totals == T!RequestTotals(requests, in.samples)
  IN  /\ rate # R!NoRatio =>
           in.complete /\ in.duration > 0 /\ rate[1] = total(requests)
      /\ total(requests) # None =>
           /\ totals.successful + totals.failed = cost
           /\ \A i \in DOMAIN requests :
                /\ requests[i].status = "failed" =>
                     total(forgetting(i)) = total(requests)
                \* a count that is lost makes the total unknown, not smaller
                /\ requests[i].status = "success" => total(forgetting(i)) = None
                \* nobody knows which request of a sample its usage is for
                /\ /\ requests[i].status = "success"
                   /\ {requests[i].usage, requests[i].response} = {T!Absent}
                   => ofSample(requests[i].sample) = {i}

\* A run input is a sequence of tasks.
RunKnown(tasks) ==
  LET counted == SelectSeq(tasks, LAMBDA t : t.performance /\ t.status # "skipped")
      cases == SelectSeq(FlattenSeq([i \in DOMAIN counted |-> counted[i].cases]),
                         LAMBDA c : c.status # "skipped")
      result == T!RunThroughput(tasks)
      known(c) == /\ c.complete /\ c.status \notin {"discarded", "interrupted"}
                  /\ T!SavedMetric(c).rate # R!NoRatio
  IN  result.rate # R!NoRatio <=>
        /\ cases # <<>>
        /\ \A i \in DOMAIN counted : counted[i].cases # <<>>
        /\ \A i \in DOMAIN cases : known(cases[i])
        /\ result.tokens = R!Total([i \in DOMAIN cases |-> T!SavedMetric(cases[i]).tokens])

\* A batch input is [outputs, slo], one sequence of outputs for each batch.
BatchesJudged(in) ==
  LET samples == [b \in DOMAIN in.outputs |->
                    [state |-> "complete", records |-> B!CollectBatch(in.outputs[b])]]
      cache == [blocks |-> 1]
      report == B!EnginePerformance(samples, in.slo)
      records == FlattenSeq([b \in DOMAIN samples |-> samples[b].records])
      sum(F(_)) == FoldSet(LAMBDA size, n : n + F(report[size]), 0, DOMAIN report)
      slower(r, name) ==
        CASE name = "ttft" -> r.latency > in.slo[name]
          [] name = "prefill" -> r.first - r.scheduled > in.slo[name]
          [] name = "execution" -> r.last - r.scheduled > in.slo[name]
          [] name = "step" -> r.output > 1
                                /\ r.last - r.first > in.slo[name] * (r.output - 1)
      slow == SelectSeq(records, LAMBDA r :
                \E name \in DOMAIN in.slo : in.slo[name] # None /\ slower(r, name))
      instant(r) == r.first = r.scheduled \/ (r.output > 1 /\ r.last = r.first)
      accepted == \A b \in DOMAIN in.outputs :
                    ~B!BatchRefused(Len(in.outputs[b]), in.outputs[b])
  IN  accepted =>
        IF B!EngineRefused(samples, cache)
        THEN \E i \in DOMAIN records : instant(records[i])
        ELSE /\ sum(LAMBDA c : c.goodput.evaluated) = Len(records)
             /\ sum(LAMBDA c : c.goodput.violated) = Len(slow)
             /\ \A size \in DOMAIN report :
                  /\ report[size].goodput.satisfied + report[size].goodput.violated
                       = report[size].goodput.evaluated
                  /\ report[size].goodput.status = "not_applicable" =>
                       report[size].goodput.violated = 0
             /\ sum(LAMBDA c : Len(c.prefillRates) + Len(c.decodeRates))
                  = Len(in.outputs)

\* A report does not say more than is known: a token total is of all counted
\* requests, each with the evidence that is its own, and is unknown as soon as
\* one of them is; a run has one only when each Case counts; and a request of
\* the engine violates its objectives only by a value that was measured
\* (core/token_totals.py, generation_performance/vllm_engine.py:369-648).
ReportsHonest ==
  /\ Holds("tokens", TokensKnown)
  /\ Holds("run", RunKnown)
  /\ Holds("batch", BatchesJudged)

-----------------------------------------------------------------------------
(* Quality.  A window input is [tokens, context, stride].                   *)

WindowsCover(in) ==
  LET length == Cardinality(DOMAIN in.tokens) - 1
      count == in.tokens[length]
      windows == Q!Windows(in.tokens, in.context, in.stride)
      ending(k) == in.context + (k - 1) * in.stride
      growing == \A c \in 1..length : in.tokens[c] >= in.tokens[c - 1]
      least(target) == CHOOSE c \in 0..length : /\ in.tokens[c] >= target
                                                /\ \A d \in 0..c - 1 : in.tokens[d] < target
      size(range) == range[2] - range[1]
      \* each request has a value for each of its tokens but the first
      reply(n) == [sent |-> TRUE, choices |-> TRUE, reasoning |-> TRUE, tokens |-> n,
                   logprobs |-> [i \in 1..n |-> IF i = 1 THEN None ELSE 1]]
      scored(w) == Q!ScoreWindow(size(w.context), size(w.context) + size(w.prediction),
                                 reply(size(w.context) + size(w.prediction)))
      document == Q!CollectDocument([k \in DOMAIN windows |-> scored(windows[k])], length)
      failed == Q!CollectDocument(<<>>, length)
      loss == Q!LanguageLoss(<<failed, document>>)
  IN  IF windows = <<>>
      THEN /\ \E c \in 0..length : in.tokens[c] = 0
           /\ \/ \E c \in 1..length : in.tokens[c] = 0
              \/ in.tokens[1] >= in.context \/ in.tokens[1] >= in.stride
      ELSE /\ windows[1].prediction[1] = 0
           /\ Last(windows).prediction[2] = length
           /\ \A k \in DOMAIN windows :
                /\ size(windows[k].context) >= 0 /\ size(windows[k].prediction) >= 0
                /\ k > 1 => /\ windows[k].prediction[1] = windows[k - 1].prediction[2]
                            /\ windows[k].context[2] = windows[k].prediction[1]
                /\ growing /\ k < Len(windows) =>
                     windows[k].prediction[2] = least(ending(k))
           /\ count > in.context =>
                /\ ending(Len(windows)) >= count
                /\ ending(Len(windows) - 1) < count
           /\ (\A c \in 0..length : in.tokens[c] = c) =>
                document.status = "success" /\ document.tokens = length - 1
           \* a document counts in each sum or, when a window failed, in none
           /\ Q!LossRefused(<<failed, document>>) <=> document.tokens = 0
           /\ document.tokens > 0 =>
                /\ loss.status = "partial_failed"
                /\ loss.loss = <<document.sum, document.tokens>>
                /\ loss.byByte = <<document.sum, document.bytes>>

\* An answer input is a sequence of [outcome, subject].
ReplyOf(outcome) ==
  [sent |-> outcome # "service", choices |-> TRUE, reasoning |-> TRUE,
   closed |-> outcome # "unclosed",
   parsed |-> CASE outcome = "unparsed" -> None [] outcome = "wrong" -> 2 [] OTHER -> 1]

ExecutionOf(outcome) ==
  CASE outcome = "sandbox" -> "sandbox_error" [] outcome = "timeout" -> "timeout"
    [] outcome = "wrong" -> "failed_test" [] OTHER -> "passed"

Raised == [status |-> "failed", correct |-> FALSE, passed |-> FALSE,
           execution |-> "none", score |-> 0]

Answered(in, Collect(_)) ==
  [i \in DOMAIN in |->
     [id |-> i, subject |-> in[i].subject, impossible |-> in[i].subject = "a"] @@
     (IF in[i].outcome = "raised" THEN Raised ELSE Collect(in[i].outcome))]

AnswersScored(in) ==
  LET number(outcomes) == Len(SelectSeq(in, LAMBDA a : a.outcome \in outcomes))
      right == number({"right", "sandbox", "timeout"})
      served == SelectSeq(in, LAMBDA a : a.outcome # "service")
      numeric(a) == Q!NumericAnswer("chat", ReplyOf(a), 1)
      summary(a) == [status |-> Q!SummaryAnswer("chat", ReplyOf(a)), score |-> 1]
      reading(a) == [status |-> Q!ReadingAnswer("chat", ReplyOf(a)), score |-> 1]
      code(a) == Q!CodeAnswer(ReplyOf(a), ExecutionOf(a))
      numbers == Answered(in, numeric)
      read == Answered(in, reading)
      programs == Answered(in, code)
      subjects == Q!ChoiceAccuracy(numbers).bySubject
      sum(k) == FoldSet(LAMBDA s, n : n + subjects[s][k], 0, DOMAIN subjects)
      score == Q!ReadingScore(read)
      part(ratio, k) == IF ratio = R!NoRatio THEN 0 ELSE ratio[k]
      passed == Q!PassRate(programs)
      lost == number({"service", "sandbox"})
  IN  \* one sample that raised leaves the whole Case without a metric
      /\ Q!AnswersRefused(numbers) <=> number({"raised"}) > 0 \/ served = <<>>
      /\ Q!SampleAccuracy(numbers) = <<right, Len(in)>>
      /\ ~Q!AnswersRefused(numbers) =>
           /\ Q!NumericAccuracy(numbers).accuracy = <<right, Len(served)>>
           /\ Q!NumericAccuracy(Answered(served, numeric)).accuracy = <<right, Len(served)>>
           /\ <<sum(1), sum(2)>> = <<right, Len(served)>>
           /\ Q!ChoiceAccuracy(numbers).accuracy = <<right, Len(served)>>
           /\ Q!SummaryRouge(Answered(in, summary)).rouge =
                <<number({"right", "sandbox", "timeout", "wrong", "unparsed"}),
                  Len(served)>>
           /\ Q!NumericAccuracy(numbers).status = "success" <=> served = in
      /\ ~Q!ReadingRefused(read) =>
           /\ score.all = <<number({"right", "wrong", "sandbox", "timeout"}), Len(in)>>
           /\ \A k \in 1..2 : part(score.hasAnswer, k) + part(score.noAnswer, k)
                                = score.all[k]
           /\ score.status = "failed" <=> served = <<>>
      /\ ~Q!CodeRefused(programs) =>
           /\ passed.passAt1 = <<number({"right"}), Len(in)>>
           /\ passed.timeouts = number({"timeout"})
           /\ passed.status = CASE lost = 0 -> "success" [] lost = Len(in) -> "failed"
                                [] OTHER -> "partial_failed"

\* A choice input is [prompt, fulls, replies], a text input [p, q].
ChoiceLikely(in) ==
  LET scores == Q!ScoreChoices(in.prompt, in.fulls, in.replies)
      answer(i) == Q!ChoiceByLikelihood(scores, i)
      mean(i) == <<scores[i].sum, scores[i].tokens>>
      none == \E i \in DOMAIN scores : scores[i].tokens \in {None, 0}
  IN  /\ \A i \in DOMAIN scores : answer(i).status = IF none THEN "service_failed"
                                                     ELSE "success"
      /\ ~none => \E i \in DOMAIN scores :
           /\ answer(i).correct
           /\ \A j \in DOMAIN scores : j # i =>
                ~answer(j).correct /\ ~Q!Less(mean(j), mean(i))

TextsCompared(in) ==
  LET f1 == Q!TokenF1(in.p, in.q)
      sameBag == \A t \in Range(in.p) \cup Range(in.q) :
                   Len(SelectSeq(in.p, LAMBDA x : x = t))
                     = Len(SelectSeq(in.q, LAMBDA x : x = t))
  IN  /\ f1 = Q!TokenF1(in.q, in.p)
      /\ f1[1] <= f1[2]
      /\ f1[1] = f1[2] <=> sameBag
      /\ f1[1] = 0 <=> Range(in.p) \cap Range(in.q) = {} /\ in.p \o in.q # <<>>
      /\ Q!ScoreAnswer(in.p, {in.p, in.q}).exact
      /\ LET best == Q!ScoreAnswer(in.p, {in.p, in.q}).f1 IN best[1] = best[2]

\* A score counts every sample once, in its denominator or in the failures
\* beside it: windows predict each part of a text once, whatever the tokenizer
\* does to prefixes; an answer that is no answer is wrong and not left out; a
\* failure of the service leaves the answers' accuracy alone or counts against
\* it, as the domain says, and always shows; and the choice is the likeliest by
\* the token (language_modeling.py:152-333, arithmetic_qa.py:211-286,
\* choice_result.py, reading_comprehension.py:291-407, code_generation.py).
QualityHonest ==
  /\ Holds("windows", WindowsCover)
  /\ Holds("answers", AnswersScored)
  /\ Holds("choices", ChoiceLikely)
  /\ Holds("texts", TextsCompared)
=============================================================================
