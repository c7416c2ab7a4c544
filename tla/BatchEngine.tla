----------------------------- MODULE BatchEngine -----------------------------
(***************************************************************************)
(* The synchronous engine of the scenario offline_vllm_engine              *)
(* (generation_performance/vllm_engine.py): what it accepts as the outputs *)
(* of a batch, and what a Case is made of afterwards.                      *)
(*                                                                         *)
(* Times are ticks on the engine's clock, a rate is a pair of its parts.   *)
(* A value the engine does not give is None.                               *)
(***************************************************************************)
EXTENDS Statistics

-----------------------------------------------------------------------------
(* collect_request_record and generate_batch.  An output is                 *)
(*   [prompt, output, latency, scheduled, first, last, candidates].         *)

Timestamps == {"latency", "scheduled", "first", "last"}

InOrder(r) == r.scheduled <= r.first /\ r.first <= r.last

OutputRefused(o) ==
  \/ o.candidates # 1
  \/ \E t \in Timestamps : o[t] <= 0
  \/ ~InOrder(o)

BatchRefused(prompts, outputs) ==
  Len(outputs) # prompts \/ \E i \in DOMAIN outputs : OutputRefused(outputs[i])

CollectBatch(outputs) ==
  [i \in DOMAIN outputs |-> [index |-> i - 1] @@ outputs[i]]

-----------------------------------------------------------------------------
(* The environment of a Case: what must be known of the engine *)

EnvironmentRefused(cache) == \E name \in DOMAIN cache : cache[name] <= 0

-----------------------------------------------------------------------------
(* process_case.  EnginePerformance gives it the batches of one size.       *)

BySize(batches) ==
  [size \in {Len(batches[i]) : i \in DOMAIN batches} |->
     SelectSeq(batches, LAMBDA b : Len(b) = size)]

Prefill(r) == r.first - r.scheduled
Execution(r) == r.last - r.scheduled
Decode(r) == r.last - r.first
FollowOn(r) == r.output - 1

\* A stage of no duration, which the collection let pass, has no rate.
RecordRefused(r) ==
  \/ r.prompt <= 0 \/ r.output <= 0
  \/ \E t \in Timestamps : r[t] <= 0
  \/ ~InOrder(r)
  \/ Prefill(r) <= 0
  \/ r.output > 1 /\ Decode(r) <= 0

Times(batch, name) == {batch[i][name] : i \in DOMAIN batch}
EngineWindow(batch) == Max(Times(batch, "last")) - Min(Times(batch, "scheduled"))
PrefillOnly(batch) == \A i \in DOMAIN batch : batch[i].output = 1

RatePrefill(batch) ==
  <<Total([i \in DOMAIN batch |-> batch[i].prompt]),
    Max(Times(batch, "first")) - Min(Times(batch, "scheduled"))>>

RateDecode(batch) ==
  <<Total([i \in DOMAIN batch |-> FollowOn(batch[i])]),
    Max(Times(batch, "last")) - Min(Times(batch, "first"))>>

CaseRefused(size, batches) ==
  \/ batches = <<>>
  \/ \E b \in DOMAIN batches :
       \/ Len(batches[b]) # size
       \/ \E i \in DOMAIN batches[b] : RecordRefused(batches[b][i])
       \/ EngineWindow(batches[b]) <= 0
       \/ IF PrefillOnly(batches[b]) THEN RatePrefill(batches[b])[2] <= 0
          ELSE RateDecode(batches[b])[2] <= 0

\* The mean time of a decode step, where there is one.
StepLatency(r) == IF r.output > 1 THEN <<Decode(r), FollowOn(r)>> ELSE NoRatio

ActiveDuration(batches) == Total([b \in DOMAIN batches |-> EngineWindow(batches[b])])

-----------------------------------------------------------------------------
(* compute_engine_goodput; an objective that is not configured is None *)

Observed(r) ==
  [ttft |-> <<r.latency, 1>>, prefill |-> <<Prefill(r), 1>>,
   step |-> StepLatency(r), execution |-> <<Execution(r), 1>>]

\* Decode steps are not asked of requests without any.
Applicable(records, slo) ==
  {name \in DOMAIN slo :
     /\ slo[name] # None
     /\ name = "step" => \E i \in DOMAIN records : StepLatency(records[i]) # NoRatio}

Satisfies(r, dimensions, slo) ==
  \A name \in dimensions :
    Observed(r)[name] # NoRatio =>
      Observed(r)[name][1] <= slo[name] * Observed(r)[name][2]

EngineGoodput(records, slo, duration) ==
  LET dimensions == Applicable(records, slo)
      good == SelectSeq(records, LAMBDA r : Satisfies(r, dimensions, slo))
  IN  [status |-> IF dimensions = {} THEN "not_applicable" ELSE "applicable",
       evaluated |-> Len(records), satisfied |-> Len(good),
       violated |-> Len(records) - Len(good),
       tokens |-> Total([i \in DOMAIN good |-> good[i].output]),
       duration |-> duration]

\* The distributions of the requests, of which each value stands for one, and
\* the rates of the batches, which have either a prefill or a decode rate.
ProcessCase(batches, slo) ==
  LET records == FlattenSeq(batches)
      decoding == SelectSeq(records, LAMBDA r : r.output > 1)
      alone == SelectSeq(batches, PrefillOnly)
      mixed == SelectSeq(batches, LAMBDA b : ~PrefillOnly(b))
      duration == ActiveDuration(batches)
  IN  [ttft |-> Summarize([i \in DOMAIN records |-> records[i].latency]),
       prefill |-> Summarize([i \in DOMAIN records |-> Prefill(records[i])]),
       execution |-> Summarize([i \in DOMAIN records |-> Execution(records[i])]),
       decode |-> Summarize([i \in DOMAIN decoding |-> Decode(decoding[i])]),
       prefillRates |-> [i \in DOMAIN alone |-> RatePrefill(alone[i])],
       decodeRates |-> [i \in DOMAIN mixed |-> RateDecode(mixed[i])],
       duration |-> duration,
       goodput |-> EngineGoodput(records, slo, duration)]

-----------------------------------------------------------------------------
(* benchmark_metrics.py.  A sample is [state, records], records its batch.  *)

\* completed_samples
Completed(samples) ==
  SelectSeq(samples, LAMBDA s : s.state \in {"complete", "failed"})

\* EnginePerformance: a batch that failed left no records, and there is no
\* metric then.
EngineRefused(samples, cache) ==
  LET done == Completed(samples)
      batches == [i \in DOMAIN done |-> done[i].records]
  IN  \/ \E i \in DOMAIN done : done[i].state = "failed"
      \/ EnvironmentRefused(cache)
      \/ \E size \in DOMAIN BySize(batches) :
           CaseRefused(size, BySize(batches)[size])

EnginePerformance(samples, slo) ==
  LET done == Completed(samples)
      groups == BySize([i \in DOMAIN done |-> done[i].records])
  IN  [size \in DOMAIN groups |-> ProcessCase(groups[size], slo)]
=============================================================================
