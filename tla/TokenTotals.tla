----------------------------- MODULE TokenTotals -----------------------------
(***************************************************************************)
(* The tokens of a Case and of a run (core/token_totals.py): an unknown    *)
(* count makes the total unknown, and never smaller.                       *)
(*                                                                         *)
(* A formal request is [sample, cost, status, usage, response], a sample   *)
(* [sample, usage, records]; a pair of counts is [input, output], and what *)
(* is missing or no count is None.                                         *)
(***************************************************************************)
EXTENDS Statistics

NoPair == [input |-> None, output |-> None]
Absent == [input |-> -2, output |-> -2]  \* there is no such object

\* token_pair
PairTotal(pair) ==
  IF None \in {pair.input, pair.output} THEN None ELSE pair.input + pair.output

SumOrNone(values) ==
  IF \E i \in DOMAIN values : values[i] = None THEN None ELSE Total(values)

-----------------------------------------------------------------------------
(* request_totals *)

OfSample(rows, id) == SelectSeq(rows, LAMBDA r : r.sample = id)

\* Slip: the facts of a sample serve each of its requests.
UniqueSample(requests, samples, id) == Len(OfSample(samples, id)) = 1

\* A sample's facts speak for its request only when both are the only ones.
Unique(requests, samples, id) ==
  Len(OfSample(requests, id)) = 1 /\ Len(OfSample(samples, id)) = 1

\* The request's usage, its sample's, its response's, or the sum over the
\* records of its batch, whichever is there first.
TokensOf(requests, samples, i) ==
  LET request == requests[i]
      unique == Unique(requests, samples, request.sample)
      facts == OfSample(samples, request.sample)[1]
  IN  IF request.usage # Absent THEN PairTotal(request.usage)
      ELSE IF unique /\ facts.usage # Absent THEN PairTotal(facts.usage)
      ELSE IF request.response # Absent THEN PairTotal(request.response)
      ELSE IF unique /\ facts.records # <<>> /\ Len(facts.records) = request.cost
      THEN SumOrNone([k \in DOMAIN facts.records |-> PairTotal(facts.records[k])])
      ELSE None

RequestTotals(requests, samples) ==
  LET sound(i) == requests[i].cost >= 1
      with(status) == {i \in DOMAIN requests : sound(i) /\ requests[i].status = status}
      costOf(S) == FoldSet(LAMBDA i, sum : sum + requests[i].cost, 0, S)
      good == with("success")
      unknown == {i \in good : TokensOf(requests, samples, i) = None}
      unavailable ==
        {i \in DOMAIN requests : ~sound(i)
           \/ requests[i].status \notin {"success", "failed"} \/ i \in unknown}
        \cup (IF requests = <<>> /\ samples # <<>> THEN {0} ELSE {})
  IN  [tokens |-> IF unavailable # {} THEN None
                  ELSE FoldSet(LAMBDA i, sum : sum + TokensOf(requests, samples, i),
                               0, good),
       successful |-> costOf(good), failed |-> costOf(with("failed")),
       missing |-> costOf(unknown), unavailable |-> unavailable]

-----------------------------------------------------------------------------
(* throughput_result, formal_throughput *)

Rate(total, duration) ==
  IF total = None \/ duration <= 0 THEN NoRatio ELSE <<total, duration>>

ThroughputResult(total, duration, reason) ==
  LET rate == Rate(total, duration)
  IN  [status |-> IF rate = NoRatio THEN "unavailable" ELSE "success",
       tokens |-> total, duration |-> IF duration > 0 THEN duration ELSE None,
       rate |-> rate,
       reason |-> IF rate # NoRatio THEN "none"
                  ELSE IF reason # "none" THEN reason
                  ELSE IF total = None THEN "missing actual token usage"
                  ELSE "missing or invalid formal duration"]

FormalThroughput(requests, samples, complete, duration) ==
  LET totals == RequestTotals(requests, samples)
  IN  ThroughputResult(IF complete THEN totals.tokens ELSE None, duration,
        IF ~complete THEN "Case collection not complete"
        ELSE IF totals.unavailable # {}
        THEN "missing or ambiguous successful request token usage" ELSE "none")

-----------------------------------------------------------------------------
(* saved_throughput_metric and run_throughput: a task is                    *)
(* [performance, status, cases], a Case [status, complete, own, common]     *)
(* with its own metric's result and the one common to all, or NoResult.     *)

NoResult == ThroughputResult(None, None, "Case metric missing")

SavedMetric(case) == IF case.own # NoResult THEN case.own ELSE case.common

Ledger(case) ==
  IF case.status = "skipped" THEN "skipped"
  ELSE IF \/ case.status \in {"discarded", "interrupted"} \/ ~case.complete
          \/ SavedMetric(case).status = "unavailable"
          \/ Rate(SavedMetric(case).tokens, SavedMetric(case).duration) = NoRatio
  THEN "unavailable" ELSE "included"

\* Skipped tasks and tasks of other categories do not count; one that has no
\* Cases hides what it did.
RunThroughput(tasks) ==
  LET counted == SelectSeq(tasks, LAMBDA t : t.performance /\ t.status # "skipped")
      cases == FlattenSeq([i \in DOMAIN counted |-> counted[i].cases])
      included == SelectSeq(cases, LAMBDA c : Ledger(c) = "included")
      hidden == \/ \E i \in DOMAIN counted : counted[i].cases = <<>>
                \/ \E i \in DOMAIN cases : Ledger(cases[i]) = "unavailable"
      sum(F(_)) == Total([i \in DOMAIN included |-> F(SavedMetric(included[i]))])
  IN  IF hidden
      THEN ThroughputResult(None, None,
             "one or more Cases lack complete throughput evidence")
      ELSE IF included = <<>> THEN ThroughputResult(None, None, "no measured Cases")
      ELSE ThroughputResult(sum(LAMBDA m : m.tokens), sum(LAMBDA m : m.duration), "none")
=============================================================================
