--------------------------- MODULE ServingRecords ---------------------------
(***************************************************************************)
(* The record of one online request and what the report makes of all of    *)
(* them: generation_performance/online_serving.py, common/phase_timing.py, *)
(* common/reasoning_tokens.py and common/lengths.py.                       *)
(*                                                                         *)
(* Times are ticks; a ratio is the pair of its parts.  Rounding, which     *)
(* keeps the order of times, and units are left out.                       *)
(***************************************************************************)
EXTENDS Streaming

-----------------------------------------------------------------------------
(* _build_request_record *)

FailedRecord(scheduled, started, ended) ==
  [status |-> "failed", dispatch |-> started - scheduled, start |-> started,
   latency |-> ended - scheduled, duration |-> ended - started,
   ttft |-> None, last |-> None, e2el |-> None, itl |-> <<>>,
   input |-> None, output |-> None, queue |-> None, cached |-> None,
   content |-> <<>>, reasoning |-> <<>>, finish |-> "none",
   thinking |-> None, hasContent |-> FALSE, hasReasoning |-> FALSE]

BuildRecord(observation, scheduled, started, ended) ==
  LET offsets(times) == [i \in DOMAIN times |-> times[i] - started]
      events == offsets(observation.events)
      content == IF observation.content = <<>> /\ observation.reasoning = <<>>
                 THEN observation.events ELSE observation.content
  IN  IF observation.state = "error" THEN FailedRecord(scheduled, started, ended)
      ELSE [FailedRecord(scheduled, started, ended) EXCEPT
              !.status = "success",
              !.ttft = Head(events), !.last = Last(events),
              !.e2el = ended - started,
              !.itl = [i \in 1..(Len(events) - 1) |-> events[i + 1] - events[i]],
              !.input = observation.usage.input,
              !.output = observation.usage.output,
              !.queue = observation.queue,
              !.cached = observation.usage.cached,
              !.content = offsets(content),
              !.reasoning = offsets(observation.reasoning),
              !.finish = observation.finish,
              !.thinking = observation.usage.reasoning,
              !.hasContent = content # <<>>,
              !.hasReasoning = observation.reasoning # <<>>]

\* guidellm_token_latencies: the parts of TPOT, and of ITL with two tokens.
TokenLatencies(record) ==
  [tpot |-> <<record.last, record.output>>,
   itl |-> IF record.output > 1
           THEN <<record.last - record.ttft, record.output - 1>> ELSE NoRatio]

-----------------------------------------------------------------------------
(* request_phase_timing and phase_timing_metric *)

Span(times) == IF times = <<>> THEN None ELSE Last(times) - Head(times)

PhaseStatus(record) ==
  IF record.status # "success" THEN "failed"
  ELSE IF record.finish = "length" THEN "truncated"
  ELSE IF record.finish = "none" THEN "missing_finish"
  ELSE IF record.finish # "stop" THEN "other_finish" ELSE "eligible"

\* Without thinking metrics the thoughts are not looked at.
PhaseTiming(record, thinking) ==
  LET content == record.content
      thought == IF thinking THEN record.reasoning ELSE <<>>
      counted == thought # <<>> /\ record.thinking > 0
  IN  [status |-> PhaseStatus(record),
       contentSpan |-> Span(content), contentEvents |-> Len(content),
       firstContent |-> IF content = <<>> THEN None ELSE Head(content),
       thoughtSpan |-> Span(thought), thoughtEvents |-> Len(thought),
       interleaved |-> /\ thought # <<>> /\ content # <<>>
                       /\ Head(content) < Last(thought),
       thoughtTtft |-> IF thought = <<>> THEN None ELSE Head(thought),
       thoughtTpot |-> IF counted THEN <<Last(thought), record.thinking>>
                       ELSE NoRatio,
       thoughtItl |-> IF counted /\ record.thinking > 1
                      THEN <<Span(thought), record.thinking - 1>> ELSE NoRatio,
       thoughtGaps |-> [i \in 1..(Len(thought) - 1) |->
                          thought[i + 1] - thought[i]]]

Exclusions == {"failed", "truncated", "missing_finish", "other_finish"}

\* Only eligible requests give samples; a channel that is absent gives none.
PhaseMetric(records, thinking) ==
  LET timing == [i \in DOMAIN records |-> PhaseTiming(records[i], thinking)]
      eligible == SelectSeq(timing, LAMBDA t : t.status = "eligible")
      samples(name) == Present([i \in DOMAIN eligible |-> eligible[i][name]])
      number(name) == Len(SelectSeq(timing, LAMBDA t : t.status = name))
      pairs(name) == SelectSeq([i \in DOMAIN eligible |-> eligible[i][name]],
                               LAMBDA p : p # NoRatio)
      channels == {"content"} \cup IF thinking THEN {"thought"} ELSE {}
      events(c) == [i \in DOMAIN eligible |->
                      IF c = "content" THEN eligible[i].contentEvents
                      ELSE eligible[i].thoughtEvents]
  IN  [total |-> Len(records),
       eligible |-> Len(eligible),
       excluded |-> [e \in Exclusions |-> number(e)],
       interleaved |-> Len(SelectSeq(timing, LAMBDA t : t.interleaved)),
       single |-> [c \in channels |->
                     Len(SelectSeq(events(c), LAMBDA n : n = 1))],
       missing |-> [c \in channels |->
                      Len(SelectSeq(events(c), LAMBDA n : n = 0))],
       contentSpan |-> Summarize(samples("contentSpan")),
       firstContent |-> Summarize(samples("firstContent")),
       thoughtSpan |-> Summarize(samples("thoughtSpan")),
       thoughtTtft |-> Summarize(samples("thoughtTtft")),
       thoughtGaps |-> Summarize(FlattenSeq(
                         [i \in DOMAIN eligible |-> eligible[i].thoughtGaps])),
       \* token weighted: the weights are the denominators
       tpotWeight |-> WeightOf(pairs("thoughtTpot")),
       itlWeight |-> WeightOf(pairs("thoughtItl")),
       available |-> \E i \in DOMAIN eligible :
                       eligible[i].contentEvents + eligible[i].thoughtEvents > 0]

-----------------------------------------------------------------------------
(* ReasoningTokenCounter.count: "start" and "end" are the markers, "ws" is *)
(* a token that decodes to white space.                                    *)

LastIndexOf(tokens, token) ==
  LET at == {i \in DOMAIN tokens : tokens[i] = token}
  IN  IF at = {} THEN 0 ELSE CHOOSE i \in at : \A j \in at : j <= i

Blank(tokens) == \A i \in DOMAIN tokens : tokens[i] = "ws"

\* The prompt left a thinking block open, with nothing but space after it.
StartsInThinking(prompt) ==
  LET start == LastIndexOf(prompt, "start")
  IN  /\ start > LastIndexOf(prompt, "end")
      /\ Blank(SubSeq(prompt, start + 1, Len(prompt)))

CountToken(state, token) ==
  IF state.reason # "none" THEN state
  ELSE CASE token = "start" ->
              IF state.started THEN [state EXCEPT !.reason = "nested"]
              ELSE [state EXCEPT !.started = TRUE, !.inside = TRUE]
         [] token = "end" ->
              IF ~state.inside THEN [state EXCEPT !.reason = "unexpected_end"]
              ELSE [state EXCEPT !.inside = FALSE, !.closed = TRUE]
         [] OTHER -> IF state.inside THEN [state EXCEPT !.count = @ + 1]
                     ELSE state

\* The tokens of the one thinking block, or None when there is any doubt.
ThinkingCount(prompt, output, outputTokens) ==
  LET initial == StartsInThinking(prompt)
      starts == {i \in DOMAIN output : output[i] = "start"}
      first == CHOOSE i \in starts : \A j \in starts : i <= j
      end == FoldLeft(CountToken,
                      [count |-> 0, reason |-> "none", closed |-> FALSE,
                       started |-> initial, inside |-> initial], output)
  IN  IF \/ output = <<>> \/ Len(output) # outputTokens
         \/ ~initial /\ (starts = {} \/ ~Blank(SubSeq(output, 1, first - 1)))
         \/ end.reason # "none" \/ ~end.closed
      THEN None ELSE end.count

-----------------------------------------------------------------------------
(* compute_goodput; an objective that is not configured is None *)

Measured(record, slo) ==
  LET whole(time) == IF time = None THEN NoRatio ELSE <<time, 1>>
  IN  [ttft |-> whole(record.ttft), e2el |-> whole(record.e2el),
       tpot |-> IF slo.tpot # None /\ record.output # None
                THEN TokenLatencies(record).itl ELSE NoRatio]

Exceeds(ratio, limit) == ratio[1] > limit * ratio[2]

Objectives(slo) == {name \in {"ttft", "tpot", "e2el"} : slo[name] # None}

\* A measurement that is missing leaves a success undetermined, even when
\* another objective is violated.
Outcome(record, slo) ==
  LET measured == Measured(record, slo)
  IN  IF \E name \in Objectives(slo) : measured[name] = NoRatio
      THEN "undetermined"
      ELSE IF \E name \in Objectives(slo) : Exceeds(measured[name], slo[name])
      THEN "violated" ELSE "satisfied"

Successful(records) == SelectSeq(records, LAMBDA r : r.status = "success")

\* A sum over records; None as soon as one of them has no value.
ReportedTotal(values) ==
  IF \E i \in DOMAIN values : values[i] = None THEN None ELSE Total(values)

Goodput(records, slo) ==
  LET good == Successful(records)
      with(outcome) == SelectSeq(good, LAMBDA r : Outcome(r, slo) = outcome)
      failed == Len(records) - Len(good)
      determined == Len(with("satisfied")) + Len(with("violated")) + failed
  IN  [satisfied |-> Len(with("satisfied")), violated |-> Len(with("violated")),
       undetermined |-> Len(with("undetermined")), failed |-> failed,
       determined |-> determined,
       tokens |-> IF determined = 0 THEN None
                  ELSE ReportedTotal([i \in DOMAIN with("satisfied") |->
                                        with("satisfied")[i].output])]

-----------------------------------------------------------------------------
(* process_case *)

\* What process_case and the functions it calls raise an error for.
Refused(record) ==
  \/ record.dispatch < 0 \/ record.start < 0 \/ record.duration < 0
  \/ /\ record.status = "success"
     /\ \/ record.ttft < 0 \/ record.e2el < record.ttft
        \/ record.output # None /\ record.output <= 0
        \/ record.output # None /\ ~(record.last \in record.ttft..record.e2el)
        \/ \E i \in DOMAIN record.itl : record.itl[i] < 0

\* Values of a field in the successful records that have it.
Samples(records, field) ==
  Present([i \in DOMAIN Successful(records) |-> Successful(records)[i][field]])

Counted(records) ==
  SelectSeq(Successful(records), LAMBDA r : r.output # None)

RequestView(records) ==
  LET counted == Counted(records)
      latencies == [i \in DOMAIN counted |-> TokenLatencies(counted[i])]
      decoded == SelectSeq(latencies, LAMBDA l : l.itl # NoRatio)
  IN  [ttft |-> Summarize(Samples(records, "ttft")),
       e2el |-> Summarize(Samples(records, "e2el")),
       input |-> Summarize(Samples(records, "input")),
       output |-> Summarize(Samples(records, "output")),
       waits |-> Summarize(SelectSeq(Samples(records, "queue"),
                                     LAMBDA q : q > 0)),
       gaps |-> Summarize(FlattenSeq([i \in DOMAIN Successful(records) |->
                                        Successful(records)[i].itl])),
       dispatch |-> Summarize([i \in DOMAIN records |-> records[i].dispatch]),
       latency |-> Summarize([i \in DOMAIN records |-> records[i].latency]),
       tpotWeight |-> Total([i \in DOMAIN latencies |-> latencies[i].tpot[2]]),
       itlWeight |-> Total([i \in DOMAIN decoded |-> decoded[i].itl[2]])]

\* Why no wait in the queue can be given, or for how many it is.
QueueReason(records) ==
  LET successes == Len(Successful(records))
      reported == Samples(records, "queue")
      waited == SelectSeq(reported, LAMBDA q : q > 0)
  IN  IF successes > 0 /\ reported = <<>> THEN "not_reported"
      ELSE IF reported # <<>> /\ waited = <<>>
      THEN IF Len(reported) < successes THEN "no_wait_partial" ELSE "no_wait"
      ELSE IF reported # <<>> /\ Len(reported) < successes
      THEN "partial" ELSE "none"

\* Totals are withheld when a success has no usage.
ServiceView(records, duration, slo, peak) ==
  LET good == Successful(records)
      totalOf(field) == ReportedTotal([i \in DOMAIN good |-> good[i][field]])
      both == IF None \in {totalOf("input"), totalOf("output")} THEN None
              ELSE totalOf("input") + totalOf("output")
      starts == {records[i].start : i \in DOMAIN records}
  IN  [total |-> Len(records), successful |-> Len(good),
       failed |-> Len(records) - Len(good),
       peak |-> peak,
       busy |-> Total([i \in DOMAIN records |-> records[i].duration]),
       duration |-> duration,
       startWindow |-> Max(starts) - Min(starts),
       inputTokens |-> totalOf("input"), outputTokens |-> totalOf("output"),
       allTokens |-> both,
       queueReported |-> Len(Samples(records, "queue")),
       queueMissing |-> Len(good) - Len(Samples(records, "queue")),
       queueReason |-> QueueReason(records),
       goodput |-> IF Objectives(slo) = {} THEN None
                   ELSE Goodput(records, slo),
       outcome |-> IF Len(good) = Len(records) THEN "all_success"
                   ELSE IF good = <<>> THEN "all_failed" ELSE "partial_failed"]
=============================================================================
