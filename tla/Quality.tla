------------------------------- MODULE Quality -------------------------------
(***************************************************************************)
(* The domains of model_service_quality: what becomes of one answer, and   *)
(* how the samples of a Case turn into its score.                          *)
(*                                                                         *)
(* A reply of the service is [sent, choices, reasoning]: whether HTTP and  *)
(* JSON succeeded, whether there is a choice in it, and whether its        *)
(* reasoning is well formed.  An answer adds [closed, parsed]: whether the *)
(* text has a final part, and what the domain's parser finds in it, None   *)
(* for nothing.  Texts are opaque, or ranges <<from, to>> of characters.   *)
(* Log-probabilities are natural numbers, for their absolute values, and a *)
(* score is a pair of its numerator and its denominator.                   *)
(***************************************************************************)
EXTENDS Statistics

-----------------------------------------------------------------------------
(* OpenAIClient: there is no retry, and what is refused is a ServiceError   *)

ServiceError(endpoint, reply) ==
  \/ ~reply.sent \/ ~reply.choices
  \/ endpoint = "chat" /\ ~reply.reasoning

LogprobsRefused(reply) ==
  ServiceError("completions", reply) \/ reply.tokens \notin {Len(reply.logprobs)} \ {0}

-----------------------------------------------------------------------------
(* language_modeling.  tokens[c] is the number of tokens of the first c     *)
(* characters of a text, which need not grow with c.                        *)

\* _find_char_position, the bisection as it is, over pairs of bounds; the
\* service refuses to tokenize what has no tokens, and then there is no position.
FindCharPosition(tokens, target, lower) ==
  LET length == Max(DOMAIN tokens)
      search[b \in (0..length + 1) \X (0..length)] ==
        LET middle == (b[1] + b[2]) \div 2
        IN  IF b[1] >= b[2] THEN b[1]
            ELSE IF tokens[middle] = 0 THEN None
            ELSE IF tokens[middle] < target THEN search[<<middle + 1, b[2]>>]
            ELSE search[<<b[1], middle>>]
  IN  IF target <= 0 THEN 0 ELSE search[<<lower, length>>]

\* The starts of the windows after the first one, in tokens.
Bases(count, context, stride) ==
  {base \in context..count - 1 : (base - context) % stride = 0}

Chunk(count, base, stride) == Min({stride, count - base})

Boundaries(count, context, stride) ==
  {0, context} \cup
  UNION {{Max({0, base - context}), base, base + Chunk(count, base, stride)} :
           base \in Bases(count, context, stride)}

\* A boundary is looked for from the previous one on.
CharPositions(tokens, boundaries) ==
  LET length == Max(DOMAIN tokens)
      count == tokens[length]
      at[b \in boundaries] ==
        LET below == {a \in boundaries : 0 < a /\ a < b}
        IN  IF b <= 0 THEN 0 ELSE IF b >= count THEN length
            ELSE IF below = {} THEN FindCharPosition(tokens, b, 0)
            ELSE IF at[Max(below)] = None THEN None
            ELSE FindCharPosition(tokens, b, at[Max(below)])
  IN  at

\* compute_windows; no windows is a ServiceError.
Windows(tokens, context, stride) ==
  LET length == Max(DOMAIN tokens)
      count == tokens[length]
      at == CharPositions(tokens, Boundaries(count, context, stride))
      bases == SetToSortSeq(Bases(count, context, stride), LAMBDA a, b : a < b)
  IN  IF count <= context
      THEN <<[context |-> <<0, 0>>, prediction |-> <<0, length>>]>>
      ELSE IF None \in Range(at) THEN <<>>
      ELSE <<[context |-> <<0, 0>>, prediction |-> <<0, at[context]>>]>> \o
           [i \in DOMAIN bases |->
              [context |-> <<at[Max({0, bases[i] - context})], at[bases[i]]>>,
               prediction |-> <<at[bases[i]],
                                at[bases[i] + Chunk(count, bases[i], stride)]>>]]

\* Slip: the tokens of the context are scored again.
ScoreWindowWhole(prompt, full, reply) ==
  LET scored == Present(SubSeq(reply.logprobs, 1, Min({full, Len(reply.logprobs)})))
  IN  IF LogprobsRefused(reply) THEN [sum |-> 0, tokens |-> None]
      ELSE [sum |-> Total(scored), tokens |-> Len(scored)]

\* score_window, of the values the service gives for context and prediction
\* together; the first token of a request has no value.
ScoreWindow(prompt, full, reply) ==
  LET scored == Present(SubSeq(reply.logprobs, prompt + 1,
                               Min({full, Len(reply.logprobs)})))
  IN  IF LogprobsRefused(reply) THEN [sum |-> 0, tokens |-> None]
      ELSE [sum |-> Total(scored), tokens |-> Len(scored)]

\* collect_sample: one window the service fails takes the document with it.
CollectDocument(windows, bytes) ==
  LET failed == windows = <<>> \/ \E i \in DOMAIN windows : windows[i].tokens = None
      sum(name) == Total([i \in DOMAIN windows |-> windows[i][name]])
  IN  [status |-> IF failed THEN "service_failed" ELSE "success", bytes |-> bytes,
       sum |-> IF failed THEN 0 ELSE sum("sum"),
       tokens |-> IF failed THEN 0 ELSE sum("tokens")]

-----------------------------------------------------------------------------
(* collect_sample of the domains that ask for an answer *)

\* arithmetic_qa
NumericAnswer(endpoint, a, reference) ==
  LET status == IF ServiceError(endpoint, a) THEN "service_failed"
                ELSE IF ~a.closed \/ a.parsed = None THEN "parse_failed"
                ELSE "success"
  IN  [status |-> status, correct |-> status = "success" /\ a.parsed = reference]

\* choice in mode ppl: the likeliest choice is taken, the first where several
\* are.  fulls and replies are those of the choices, each with the prompt.
ScoreChoices(prompt, fulls, replies) ==
  [i \in DOMAIN replies |-> ScoreWindow(prompt, fulls[i], replies[i])]

Less(x, y) == x[1] * y[2] < y[1] * x[2]

Likeliest(scores) ==
  LET mean(i) == <<scores[i].sum, scores[i].tokens>>
  IN  CHOOSE i \in DOMAIN scores : \A j \in DOMAIN scores :
        /\ ~Less(mean(j), mean(i))
        /\ j < i => Less(mean(i), mean(j))

ChoiceByLikelihood(scores, reference) ==
  IF \E i \in DOMAIN scores : scores[i].tokens \in {None, 0}
  THEN [status |-> "service_failed", correct |-> FALSE]
  ELSE [status |-> "success", correct |-> Likeliest(scores) = reference]

\* reading_comprehension: an empty answer is no refusal to answer, which is "".
ReadingAnswer(endpoint, a) ==
  IF ServiceError(endpoint, a) THEN "service_failed"
  ELSE IF ~a.closed \/ a.parsed = None THEN "parse_failed" ELSE "success"

\* text_summarization: any final text is a summary.
SummaryAnswer(endpoint, a) ==
  IF ServiceError(endpoint, a) THEN "service_failed"
  ELSE IF ~a.closed THEN "parse_failed" ELSE "success"

\* code_generation: the execution says whether the program passed, and
\* whether that was the sandbox's doing.
CodeAnswer(a, execution) ==
  LET ran == ~ServiceError("completions", a) /\ a.closed /\ a.parsed # None
  IN  [status |-> IF ServiceError("completions", a) THEN "service_failed"
                  ELSE IF ~ran THEN "parse_failed"
                  ELSE IF execution = "sandbox_error" THEN "sandbox_failed"
                  ELSE "success",
       passed |-> ran /\ execution = "passed",
       execution |-> IF ran THEN execution ELSE "none"]

-----------------------------------------------------------------------------
(* process of each domain.  A sample that raised has the status "failed",   *)
(* which no domain accepts: the metric of the whole Case is refused then.   *)

Count(samples, status) == Len(SelectSeq(samples, LAMBDA s : s.status = status))

AnswerStatuses == {"success", "parse_failed", "service_failed"}

ScoredAnswers(samples) ==
  SelectSeq(samples, LAMBDA s : s.status # "service_failed")

AnswersRefused(samples) ==
  \/ \E i \in DOMAIN samples : samples[i].status \notin AnswerStatuses
  \/ ScoredAnswers(samples) = <<>>

PartOf(failed) == IF failed = 0 THEN "success" ELSE "partial_failed"

Correct(samples) ==
  Len(SelectSeq(samples, LAMBDA s : s.status = "success" /\ s.correct))

\* arithmetic_qa
NumericAccuracy(samples) ==
  LET scored == ScoredAnswers(samples)
  IN  [status |-> PartOf(Count(samples, "service_failed")),
       accuracy |-> <<Correct(scored), Len(scored)>>]

\* choice_result
ChoiceAccuracy(samples) ==
  LET scored == ScoredAnswers(samples)
      of(subject) == SelectSeq(scored, LAMBDA s : s.subject = subject)
  IN  [status |-> PartOf(Count(samples, "service_failed")),
       accuracy |-> <<Correct(scored), Len(scored)>>,
       bySubject |-> [subject \in {scored[i].subject : i \in DOMAIN scored} |->
                        <<Correct(of(subject)), Len(of(subject))>>]]

\* text_summarization: what was not parsed scores nothing.
SummaryRouge(samples) ==
  LET scored == ScoredAnswers(samples)
  IN  [status |-> PartOf(Count(samples, "service_failed")),
       rouge |-> <<Total([i \in DOMAIN scored |->
                    IF scored[i].status = "parse_failed" THEN 0 ELSE scored[i].score]),
                   Len(scored)>>]

\* reading_comprehension: every selected sample counts.  What was parsed is
\* parsed again, which changes nothing.
ReadingRefused(samples) ==
  \/ samples = <<>>
  \/ \E i \in DOMAIN samples : samples[i].status \notin AnswerStatuses
  \/ \E i, j \in DOMAIN samples : i # j /\ samples[i].id = samples[j].id

Aggregate(samples) ==
  IF samples = <<>> THEN NoRatio
  ELSE <<Total([i \in DOMAIN samples |->
           IF samples[i].status = "success" THEN samples[i].score ELSE 0]),
         Len(samples)>>

ReadingScore(samples) ==
  LET failed == Count(samples, "service_failed")
      which(impossible) ==
        SelectSeq(samples, LAMBDA s : s.impossible = impossible)
  IN  [status |-> IF failed = Len(samples) THEN "failed" ELSE PartOf(failed),
       all |-> Aggregate(samples),
       hasAnswer |-> Aggregate(which(FALSE)), noAnswer |-> Aggregate(which(TRUE))]

\* code_generation
CodeRefused(samples) ==
  \/ samples = <<>>
  \/ \E i \in DOMAIN samples :
       \/ samples[i].status \notin AnswerStatuses \cup {"sandbox_failed"}
       \/ samples[i].status # "success" /\ samples[i].passed
  \/ \E i, j \in DOMAIN samples : i # j /\ samples[i].id = samples[j].id

PassRate(samples) ==
  LET failed == Count(samples, "service_failed") + Count(samples, "sandbox_failed")
  IN  [status |-> IF failed = Len(samples) THEN "failed" ELSE PartOf(failed),
       passAt1 |-> <<Len(SelectSeq(samples, LAMBDA s : s.passed)), Len(samples)>>,
       timeouts |-> Len(SelectSeq(samples, LAMBDA s : s.execution = "timeout"))]

\* language_modeling: only complete documents count.
LossScored(samples) == SelectSeq(samples, LAMBDA s : s.status = "success")

LossTokens(samples) ==
  Total([i \in DOMAIN LossScored(samples) |-> LossScored(samples)[i].tokens])

LossRefused(samples) ==
  \/ \E i \in DOMAIN samples : samples[i].status \notin {"success", "service_failed"}
  \/ LossScored(samples) = <<>> \/ LossTokens(samples) <= 0

LanguageLoss(samples) ==
  LET scored == LossScored(samples)
      sum == Total([i \in DOMAIN scored |-> scored[i].sum])
  IN  [status |-> PartOf(Count(samples, "service_failed")),
       loss |-> <<sum, LossTokens(samples)>>,
       byByte |-> <<sum, Total([i \in DOMAIN scored |-> scored[i].bytes])>>]

-----------------------------------------------------------------------------
(* benchmark_metrics.py and common/metrics.py *)

\* SampleAccuracy, of the samples that were completed: a failed one is wrong.
SampleAccuracy(samples) ==
  IF samples = <<>> THEN NoRatio ELSE <<Correct(samples), Len(samples)>>

\* token_f1, two times the overlap over the lengths; tokens are counted, not set
\* against each other.
Overlap(p, q) ==
  LET times(s, t) == Cardinality({i \in DOMAIN s : s[i] = t})
  IN  FoldSet(LAMBDA t, sum : sum + Min({times(p, t), times(q, t)}), 0,
              Range(p) \cup Range(q))

TokenF1(p, q) ==
  IF p = <<>> /\ q = <<>> THEN <<1, 1>>
  ELSE IF p = <<>> \/ q = <<>> THEN <<0, 1>>
  ELSE <<2 * Overlap(p, q), Len(p) + Len(q)>>

\* score_answer: the best over the references, and "" where there is none.
ScoreAnswer(prediction, golds) ==
  LET against == IF golds = {} THEN {<<>>} ELSE golds
  IN  [exact |-> prediction \in against,
       f1 |-> CHOOSE best \in {TokenF1(prediction, g) : g \in against} :
                \A g \in against : ~Less(best, TokenF1(prediction, g))]
=============================================================================
