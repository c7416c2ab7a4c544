----------------------------- MODULE Statistics -----------------------------
(***************************************************************************)
(* The descriptive statistics the reports are made of: generation_         *)
(* performance/common/statistics.py, the quantiles of common/prometheus.py *)
(* and the percentile of runtime/device_monitor.py.                        *)
(*                                                                         *)
(* Samples are natural numbers, fractions are in thousandths and a value   *)
(* between two samples is given in thousandths, too; a mean is the pair    *)
(* of its numerator and its denominator.  None and NoRatio are Python's    *)
(* None.                                                                   *)
(***************************************************************************)
EXTENDS Integers, Sequences, FiniteSets, SequencesExt

None == -1
NoRatio == <<>>

Fractions == [p50 |-> 500, p90 |-> 900, p95 |-> 950, p99 |-> 990,
              p999 |-> 999]

Ordered(samples) == SortSeq(samples, LAMBDA x, y : x < y)
SumOver(f, S) == MapThenSumSet(LAMBDA x : f[x], S)
Total(samples) == SumOver(samples, DOMAIN samples)
Present(samples) == SelectSeq(samples, LAMBDA x : x # None)

\* percentile: linear interpolation between the closest ranks.
Percentile(samples, fraction) ==
  LET ordered == Ordered(samples)
      position == (Len(ordered) - 1) * fraction
      lower == 1 + position \div 1000
      weight == position % 1000
  IN  IF weight = 0 THEN 1000 * ordered[lower]
      ELSE 1000 * ordered[lower] + (ordered[lower + 1] - ordered[lower]) * weight

\* summarize: everything is None without samples.
Summarize(samples) ==
  [count |-> Len(samples),
   mean |-> IF samples = <<>> THEN NoRatio ELSE <<Total(samples), Len(samples)>>,
   min |-> IF samples = <<>> THEN None ELSE Ordered(samples)[1],
   max |-> IF samples = <<>> THEN None ELSE Last(Ordered(samples)),
   at |-> [p \in DOMAIN Fractions |->
             IF samples = <<>> THEN None
             ELSE Percentile(samples, Fractions[p])]]

\* The device monitor's _percentile: None is left out, and nothing remains
\* None.
DevicePercentile(samples, fraction) ==
  IF Present(samples) = <<>> THEN None
  ELSE Percentile(Present(samples), fraction)

\* caching_view's mean
Average(samples) ==
  LET present == Present(samples)
  IN  IF present = <<>> THEN NoRatio ELSE <<Total(present), Len(present)>>

-----------------------------------------------------------------------------
(* summarize_weighted: pairs of a value and its number of tokens *)

WeightOf(pairs) == FoldLeft(LAMBDA sum, p : sum + p[2], 0, pairs)

\* The least value at which the cumulated weight reaches the fraction.
WeightedQuantile(pairs, fraction) ==
  LET values == SortSeq(pairs, LAMBDA p, q : \/ p[1] < q[1]
                                             \/ p[1] = q[1] /\ p[2] < q[2])
      reached == {i \in DOMAIN values :
                    1000 * WeightOf(SubSeq(values, 1, i))
                      >= fraction * WeightOf(values)}
  IN  values[CHOOSE i \in reached : \A j \in reached : i <= j][1]

-----------------------------------------------------------------------------
(* histogram_quantiles, over the cumulative buckets of all snapshots        *)

\* buckets: a sequence of [le, count] rows in the order of the samples, total
\* the last count that was reported; the quantile is in thousandths.
HistogramQuantile(buckets, total, fraction) ==
  LET rows == SortSeq(
                [i \in DOMAIN buckets |-> [at |-> i] @@ buckets[i]],
                LAMBDA a, b : \/ a.le < b.le
                              \/ a.le = b.le /\ a.at < b.at)
      hits == {i \in DOMAIN rows : 1000 * rows[i].count >= fraction * total}
      hit == CHOOSE i \in hits : \A j \in hits : i <= j
      bound == IF hit = 1 THEN 0 ELSE rows[hit - 1].le
      before == IF hit = 1 THEN 0 ELSE rows[hit - 1].count
      width == rows[hit].le - bound
  IN  IF rows = <<>> \/ total <= 0 \/ hits = {} THEN None
      ELSE IF rows[hit].count <= before THEN 1000 * bound
      ELSE 1000 * bound + (width * (fraction * total - 1000 * before))
                             \div (rows[hit].count - before)
=============================================================================
