--------------------------- MODULE SessionMetrics ---------------------------
(***************************************************************************)
(* The views of a multi-turn Case: generation_performance/common/          *)
(* session_metrics.py.  A request is [session, turn, status, response],    *)
(* with a record of ServingRecords as its response.                        *)
(***************************************************************************)
EXTENDS ServingRecords

\* _successful
SuccessfulRows(rows) == SelectSeq(rows, LAMBDA r : r.status = "success")

Responses(rows) == [i \in DOMAIN rows |-> rows[i].response]

Field(rows, name) ==
  Present([i \in DOMAIN rows |-> rows[i].response[name]])

\* turn_view: for every turn with a success, its distributions.
TurnView(rows) ==
  LET good == SuccessfulRows(rows)
      turns == {good[i].turn : i \in DOMAIN good}
      at(t) == SelectSeq(good, LAMBDA r : r.turn = t)
  IN  [observed |-> Len(good),
       byTurn |-> [t \in turns |->
                     [name \in {"ttft", "e2el", "input", "output"} |->
                        Summarize(Field(at(t), name))]]]

\* _slope: least squares, without a value when the points share their x.
Slope(points) ==
  LET n == Len(points)
      sum(F(_)) == FoldLeft(LAMBDA acc, p : acc + F(p), 0, points)
      x == sum(LAMBDA p : p[1])
      y == sum(LAMBDA p : p[2])
      spread == n * sum(LAMBDA p : p[1] * p[1]) - x * x
  IN  IF n < 2 \/ spread = 0 THEN NoRatio
      ELSE <<n * sum(LAMBDA p : p[1] * p[2]) - x * y, spread>>

\* caching_view: how the first turns compare with the others, and how the
\* latency grows with the turns and with the context.
CachingView(rows) ==
  LET good == SelectSeq(SuccessfulRows(rows),
                        LAMBDA r : r.response.ttft # None)
      first == Field(SelectSeq(good, LAMBDA r : r.turn = 0), "ttft")
      rest == Field(SelectSeq(good, LAMBDA r : r.turn # 0), "ttft")
      known == SelectSeq(good, LAMBDA r : r.response.input > 0)
  IN  [first |-> Average(first), rest |-> Average(rest),
       ratio |-> IF first = <<>> \/ rest = <<>> \/ Total(rest) = 0 THEN NoRatio
                 ELSE <<Total(first) * Len(rest), Total(rest) * Len(first)>>,
       perTurn |-> Slope([i \in DOMAIN good |->
                            <<good[i].turn, good[i].response.ttft>>]),
       perContext |-> Slope([i \in DOMAIN known |->
                               <<known[i].response.input,
                                 known[i].response.ttft>>])]

-----------------------------------------------------------------------------
(* prefix_cache_view *)

Least(a, b) == IF a < b THEN a ELSE b

\* The turns whose usage is known; the others are passed over.
MeasuredTurns(rows) ==
  {i \in DOMAIN rows :
     rows[i].status = "success" /\ rows[i].response.input # None}

\* Those of the same session before turn i, and the last of them.
Earlier(rows, i) ==
  {j \in MeasuredTurns(rows) : /\ rows[j].session = rows[i].session
                               /\ rows[j].turn < rows[i].turn}

Previous(rows, i) ==
  CHOOSE j \in Earlier(rows, i) :
    \A k \in Earlier(rows, i) : rows[k].turn <= rows[j].turn

\* The prompt and the completion of the last turn; nothing without one, or
\* without a count of its completion.
PrefixOf(rows, i) ==
  IF Earlier(rows, i) = {} THEN 0
  ELSE LET last == rows[Previous(rows, i)].response
       IN  IF last.output = None THEN 0 ELSE last.input + last.output

\* Slip: the prefix is not bounded by what the turn sends.
EligibleUncapped(rows, i) == PrefixOf(rows, i)

\* The prefix a turn repeats, as far as it sends that much.
Eligible(rows, i) == Least(rows[i].response.input, PrefixOf(rows, i))

CachedOf(response) ==
  IF response.cached = None THEN 0 ELSE Least(response.cached, response.input)

PrefixCacheView(rows) ==
  LET turns == MeasuredTurns(rows)
      reporting == {i \in turns : rows[i].response.cached # None}
      tally == [measured |-> Cardinality(turns),
                reporting |-> Cardinality(reporting),
                prompt |-> SumOver([i \in turns |-> rows[i].response.input], turns),
                eligible |-> SumOver([i \in turns |-> Eligible(rows, i)], turns),
                cached |-> SumOver([i \in turns |-> CachedOf(rows[i].response)],
                                   turns)]
      reports == reporting # {}
  IN  [measured |-> tally.measured, reporting |-> tally.reporting,
       prompt |-> tally.prompt, eligible |-> tally.eligible,
       cached |-> IF reports THEN tally.cached ELSE None,
       hitRate |-> IF reports /\ tally.prompt > 0
                   THEN <<tally.cached, tally.prompt>> ELSE NoRatio,
       eligibleRate |-> IF reports /\ tally.eligible > 0
                        THEN <<tally.cached, tally.eligible>> ELSE NoRatio,
       reason |-> IF tally.measured = 0 THEN "no_turns"
                  ELSE IF ~reports THEN "not_reported"
                  ELSE IF tally.reporting < tally.measured THEN "partial"
                  ELSE "none"]

-----------------------------------------------------------------------------
(* pressure_view and session_view *)

PressureView(rows) ==
  LET contexts == Field(SuccessfulRows(rows), "input")
  IN  [contexts |-> Summarize(contexts),
       total |-> Total(contexts),
       peak |-> IF contexts = <<>> THEN None ELSE Summarize(contexts).max]

\* facts: those of the sessions that were not interrupted.
SessionView(facts) ==
  LET values(name) == [i \in DOMAIN facts |-> facts[i][name]]
      reasons == {facts[i].abort : i \in DOMAIN facts} \ {"none"}
  IN  [completed |-> Summarize(values("completed")),
       planned |-> Summarize(values("planned")),
       notStarted |-> Total(values("notStarted")),
       sentFailed |-> Total(values("sentFailed")),
       finished |-> Len(SelectSeq(facts, LAMBDA f : f.status = "success")),
       reasons |-> [r \in reasons |->
                      Len(SelectSeq(facts, LAMBDA f : f.abort = r))]]
=============================================================================
