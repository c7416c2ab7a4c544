------------------------------ MODULE Counters ------------------------------
(***************************************************************************)
(* What is computed from sampled cumulative counters: the rates of         *)
(* runtime/host_monitor.py and the aggregates of generation_performance/   *)
(* service_observation.py and common/prometheus.py.                        *)
(*                                                                         *)
(* A snapshot has a field "ok" (the scrape succeeded), a field "value"     *)
(* (for each series its counter, or Missing) and a field "mark" (when it   *)
(* finished: before, in or after the formal window).  A rate is the        *)
(* increment it is computed from; divisions by the time in between, which  *)
(* is the same for all, are left out.                                      *)
(***************************************************************************)
EXTENDS Integers, Sequences, FiniteSets, FiniteSetsExt

Missing == -1
NoRate == -1

Exposes(snap, s) == snap.ok /\ snap.value[s] # Missing

-----------------------------------------------------------------------------
(* host_monitor.derive_rates: a failed scrape leaves no baseline. *)

HasBaseline(snaps, i) == i > 1 /\ snaps[i].ok /\ snaps[i - 1].ok

\* _rates: one disk or network device.
DeviceRate(snaps, i, s) ==
  IF /\ HasBaseline(snaps, i)
     /\ Exposes(snaps[i], s) /\ Exposes(snaps[i - 1], s)
     /\ snaps[i].value[s] >= snaps[i - 1].value[s]
  THEN snaps[i].value[s] - snaps[i - 1].value[s]
  ELSE NoRate

\* The CPU has a rate only when every mode is there as before and none fell.
CpuRate(snaps, i, modes) ==
  IF /\ HasBaseline(snaps, i)
     /\ \A s \in modes : /\ Exposes(snaps[i], s) <=> Exposes(snaps[i - 1], s)
                         /\ snaps[i].value[s] >= snaps[i - 1].value[s]
  THEN MapThenSumSet(
         LAMBDA s : snaps[i].value[s] - snaps[i - 1].value[s], modes)
  ELSE NoRate

\* summarize: rate_in_window, both ends of the interval in the formal window.
InWindow(snaps, i) ==
  /\ i > 1 /\ snaps[i].ok /\ snaps[i - 1].ok
  /\ snaps[i].mark = "in" /\ snaps[i - 1].mark = "in"

\* _stats of one device: the increments that count.
SummedRates(snaps, s) ==
  MapThenSumSet(LAMBDA i : DeviceRate(snaps, i, s),
                {i \in DOMAIN snaps :
                   InWindow(snaps, i) /\ DeviceRate(snaps, i, s) # NoRate})

-----------------------------------------------------------------------------
(* service_observation *)

\* Snapshots in which the metric has a series.
Exposing(snaps, series) ==
  {i \in DOMAIN snaps : \E s \in series : Exposes(snaps[i], s)}

\* _aggregate_counter_rate: the increment from the first to the last snapshot
\* that has the counter; zero after a visible reset.
CounterIncrease(snaps, s) ==
  LET seen == Exposing(snaps, {s})
      first == snaps[Min(seen)].value[s]
      last == snaps[Max(seen)].value[s]
  IN  IF seen = {} THEN NoRate
      ELSE IF last < first THEN 0 ELSE last - first

\* _aggregate_window_delta_mean: the series fell between two snapshots that
\* have it, with none in between that has.
WasReset(snaps, s) ==
  \E i, j \in Exposing(snaps, {s}) :
    /\ i < j /\ \A k \in Exposing(snaps, {s}) : k <= i \/ k >= j
    /\ snaps[j].value[s] < snaps[i].value[s]

\* Slip: only the ends of the window are compared.
KeptByEnds(snaps, series) ==
  LET last == snaps[Max(Exposing(snaps, series))]
      first == snaps[Min(Exposing(snaps, series))]
  IN  {s \in series : /\ Exposes(last, s)
                      /\ Exposes(first, s) => last.value[s] >= first.value[s]}

\* Series that are neither dropped for a reset nor missing at the end.
KeptSeries(snaps, series) ==
  LET last == snaps[Max(Exposing(snaps, series))]
  IN  {s \in series : Exposes(last, s) /\ ~WasReset(snaps, s)}

\* A series that was not there at first starts from zero.
SeriesDelta(snaps, series, s) ==
  LET first == snaps[Min(Exposing(snaps, series))]
      last == snaps[Max(Exposing(snaps, series))]
  IN  last.value[s] - (IF Exposes(first, s) THEN first.value[s] ELSE 0)
=============================================================================
