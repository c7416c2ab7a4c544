------------------------- MODULE MonitorsProperties -------------------------
(***************************************************************************)
(* What the monitors of a Case guarantee, over Monitors.tla, and the       *)
(* invariant from which it is proved.                                      *)
(***************************************************************************)
EXTENDS Monitors

Increase(i, j, s) == snapshots[j].total[s] - snapshots[i].total[s]
Steady(i, j) == snapshots[i].restarts = snapshots[j].restarts

HostRates ==
  kind = "host" =>
    /\ \A i \in DOMAIN snapshots : \A s \in Series :
         LET rate == DeviceRate(snapshots, i, s)
         IN  rate # NoRate =>
               /\ rate \in 0..Increase(i - 1, i, s)
               /\ Steady(i - 1, i) => rate = Increase(i - 1, i, s)
    /\ \A i \in DOMAIN snapshots :
         CpuRate(snapshots, i, Series) # NoRate =>
           CpuRate(snapshots, i, Series) <=
             MapThenSumSet(LAMBDA s : Increase(i - 1, i, s), Series)
    /\ LET inside == {i \in DOMAIN snapshots :
                       snapshots[i].ok /\ snapshots[i].mark = "in"}
       IN  \A s \in Series :
             IF inside = {} THEN SummedRates(snapshots, s) = 0
             ELSE SummedRates(snapshots, s) <=
                    Increase(Min(inside), Max(inside), s)

WindowMeans ==
  kind = "service" /\ Exposing(snapshots, Series) # {} =>
    LET first == Min(Exposing(snapshots, Series))
        last == Max(Exposing(snapshots, Series))
    IN  /\ \A s \in KeptSeries(snapshots, Series) :
             /\ SeriesDelta(snapshots, Series, s)
                  \in 0..snapshots[last].total[s]
             /\ Exposes(snapshots[first], s) =>
                  SeriesDelta(snapshots, Series, s) <= Increase(first, last, s)
             /\ Steady(first, last) /\ restarts = 0 =>
                  SeriesDelta(snapshots, Series, s) = Increase(first, last, s)
             /\ \A i, j \in Exposing(snapshots, {s}) :
                  i < j => snapshots[i].value[s] <= snapshots[j].value[s]
        /\ \A s \in Series : CounterIncrease(snapshots, s) # NoRate =>
             CounterIncrease(snapshots, s) <= Increase(first, last, s)

\* What is derived from counters that restart, vanish and fail to be scraped
\* really happened.  A rate of the host is never negative, never more than what
\* was counted between its two samples, and exact unless the endpoint restarted
\* in between, and what is summed over the formal window happened in it.  The
\* mean over the observation window rests on requests that ended in it: the
\* increment of a series that is kept is exact without a restart, a series that
\* fell between two samples is not kept, and a throughput is never overstated
\* (host_monitor.py:117-236, service_observation.py:47-226).
DifferencesTrue == HostRates /\ WindowMeans

\* A monitor that was told to stop settles: the device's thread, which its
\* stop() may leave behind, adds at most one sample to those the summary
\* shows, and nothing follows the closing sample of the other two
\* (device_monitor.py:141-150, 300-316, host_monitor.py:291-303).
SamplesSettle ==
  main = "closed" =>
    IF kind = "device" THEN sampleCount - seriesLength \in 0..1
    ELSE thread \in {"none", "done"}

\* Stopping a monitor comes to an end, however long a device scrape takes
\* (device_monitor.py:141-148, evaluation_session.py:312-340).
MonitorStops == (main = "ending") ~> (main = "closed")

-----------------------------------------------------------------------------
(* The inductive invariant *)

\* What a scrape of the endpoint would give now.
Now == [ok |-> TRUE,
        value |-> [s \in Series |-> IF s \in exposed THEN counter[s]
                                   ELSE Missing],
        total |-> total, restarts |-> restarts]

\* A counter, where a missing series is one that has not counted yet.
Counted(snap, s) == IF Exposes(snap, s) THEN snap.value[s] ELSE 0

\* A counter shows no more than what was counted, and all of it before the
\* first restart.
Observation(snap) ==
  /\ snap.ok \in BOOLEAN
  /\ snap.value \in [Series -> Int] /\ snap.total \in [Series -> Nat]
  /\ snap.restarts \in Nat
  /\ \A s \in Series :
       /\ snap.value[s] = Missing \/ snap.value[s] \in 0..snap.total[s]
       /\ snap.ok /\ snap.restarts = 0 => Counted(snap, s) = snap.total[s]

\* Two observations in their order: without a restart in between a counter
\* has grown by what was counted and no series has vanished; after one it
\* shows only what was counted since.
Before(p, q) ==
  /\ p.restarts <= q.restarts
  /\ \A s \in Series :
       /\ p.total[s] <= q.total[s]
       /\ IF p.restarts = q.restarts
          THEN /\ Counted(q, s) - Counted(p, s) = q.total[s] - p.total[s]
               /\ Exposes(p, s) => Exposes(q, s)
          ELSE Counted(q, s) <= q.total[s] - p.total[s]

Held == IF thread = "scraping" /\ inHand.ok THEN {inHand} ELSE {}

MonitorShape ==
  /\ kind \in Kinds
  /\ main \in {"starting", "started", "collecting", "ending", "joining",
               "sampling", "summing", "counting", "closed"}
  /\ mark \in {"before", "in", "after"}
  /\ stopping <=> main \in {"joining", "sampling", "summing", "counting",
                           "closed"}
  /\ thread \in {"none", "waiting", "scraping", "done"}
  /\ sampleCount \in Nat /\ seriesLength \in Nat

EndpointShape ==
  /\ counter \in [Series -> Nat] /\ total \in [Series -> Nat]
  /\ restarts \in Nat /\ exposed \subseteq Series
  /\ \A s \in Series : /\ counter[s] <= total[s]
                       /\ s \notin exposed => counter[s] = 0
                       /\ restarts = 0 => counter[s] = total[s]

\* Where a monitor can be: the device's thread, left behind by stop(), may
\* append what it has in hand, once, between the two looks of the summary.
Settling ==
  /\ main = "starting" => snapshots = <<>> /\ thread = "none"
  /\ IF kind = "device"
     THEN /\ main # "sampling"
          /\ main \notin {"counting", "closed"} => sampleCount = 0
          /\ main \notin {"counting", "closed"} => seriesLength = 0
     ELSE /\ main \notin {"summing", "counting"}
          /\ main \in {"sampling", "closed"} => thread \in {"none", "done"}
  /\ main = "counting" =>
       /\ Len(snapshots) - seriesLength \in 0..1
       /\ thread = "scraping" => Len(snapshots) = seriesLength

Snapshots == [ok : BOOLEAN, value : [Series -> Int],
              mark : {"before", "in", "after"},
              total : [Series -> Nat], restarts : Nat]

\* The snapshots are observations in the order in which they were made.
SnapshotsOrderly ==
  /\ snapshots \in Seq(Snapshots)
  /\ \A i \in DOMAIN snapshots :
       /\ Observation(snapshots[i])
       /\ snapshots[i].ok =>
            \A q \in Held \cup {Now} : Before(snapshots[i], q)
  /\ \A i, j \in DOMAIN snapshots :
       i < j /\ snapshots[i].ok /\ snapshots[j].ok =>
         Before(snapshots[i], snapshots[j])
  /\ Observation(inHand)
  /\ \A q \in Held : Before(q, Now)

MonitorInv ==
  MonitorShape /\ EndpointShape /\ Settling /\ SnapshotsOrderly
  /\ SamplesSettle
=============================================================================
