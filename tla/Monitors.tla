------------------------------ MODULE Monitors ------------------------------
(***************************************************************************)
(* The monitors of a Case: runtime/prometheus_observer.py ("service"),     *)
(* runtime/host_monitor.py ("host") and runtime/device_monitor.py          *)
(* ("device"), started before the formal collection and stopped after it   *)
(* by runtime/evaluation_session.py.  Each has a thread that samples an    *)
(* endpoint until it is told to stop; they share nothing, so a behaviour   *)
(* follows one of them.                                                    *)
(*                                                                         *)
(* The endpoint exposes cumulative counters.  Between two samples it may   *)
(* count, or restart, which sets them back and hides or shows series; any  *)
(* scrape may fail.                                                        *)
(***************************************************************************)
EXTENDS Counters, Functions

CONSTANTS
  Series,       \* series, disks, network devices or CPU modes of an endpoint
  MaxServed,    \* bound on the increments of all counters
  MaxRestarts,  \* bound on restarts
  MaxSamples    \* bound on the samples of the thread

ASSUME SeriesAssumption == IsFiniteSet(Series)
ASSUME BoundsAssumption ==
  MaxServed \in Nat /\ MaxRestarts \in Nat /\ MaxSamples \in Nat

Kinds == {"service", "host", "device"}

VARIABLES
  kind,       \* which monitor
  counter,    \* what the endpoint counts, since its last restart
  exposed,    \* series it shows
  total,      \* history: what it has counted, restarts or not
  restarts,   \* history: restarts so far
  main,       \* where the Case is
  mark,       \* before, in or after the formal window
  stopping,   \* the stop event
  thread,     \* "none", "waiting", "scraping", "done"
  inHand,     \* the snapshot the thread has scraped and not appended
  snapshots,
  sampleCount, seriesLength  \* device: what the summary reads, and when

serverVars == <<counter, exposed, total, restarts>>
summaryVars == <<sampleCount, seriesLength>>
vars == <<kind, serverVars, main, mark, stopping, thread, inHand, snapshots,
          summaryVars>>

NoSnapshot == [ok |-> FALSE, value |-> [s \in Series |-> Missing],
               total |-> [s \in Series |-> 0], restarts |-> 0]

\* What happened at the endpoint since it was last looked at.
Serve(s) ==
  /\ FoldFunction(+, 0, total) < MaxServed
  /\ counter' = [counter EXCEPT ![s] = @ + 1]
  /\ total' = [total EXCEPT ![s] = @ + 1]
  /\ exposed' = exposed \cup {s}
  /\ UNCHANGED restarts

Restart ==
  /\ restarts < MaxRestarts
  /\ restarts' = restarts + 1
  /\ counter' = [s \in Series |-> 0]
  /\ exposed' \in SUBSET Series
  /\ UNCHANGED total

Drift ==
  \/ UNCHANGED serverVars
  \/ kind # "device" /\ (Restart \/ \E s \in Series : Serve(s))

\* What a request gives after the drift; total and restarts are history.
Scraped ==
  {NoSnapshot,
   [ok |-> TRUE,
    value |-> [s \in Series |-> IF s \in exposed' THEN counter'[s] ELSE Missing],
    total |-> total', restarts |-> restarts']}

\* finished_at, and self.snapshots.append
Finished(snap) == [ok |-> snap.ok, value |-> snap.value, mark |-> mark,
                   total |-> snap.total, restarts |-> snap.restarts]

Init ==
  /\ kind \in Kinds
  /\ counter = [s \in Series |-> 0] /\ total = counter /\ restarts = 0
  /\ exposed \in SUBSET Series
  /\ main = "starting" /\ mark = "before" /\ stopping = FALSE
  /\ thread = "none" /\ inHand = NoSnapshot /\ snapshots = <<>>
  /\ sampleCount = 0 /\ seriesLength = 0

-----------------------------------------------------------------------------
(* The Case: _run_case *)

\* observer.start, host_monitor.start: a first sample, then the thread.
StartSampling ==
  /\ main = "starting" /\ kind # "device"
  /\ Drift /\ \E snap \in Scraped : snapshots' = <<Finished(snap)>>
  /\ thread' = "waiting"
  /\ main' = "started"
  /\ UNCHANGED <<kind, mark, stopping, inHand, summaryVars>>

\* DeviceMonitorDaemon.start: without devices there is no thread.
StartDevice ==
  /\ main = "starting" /\ kind = "device"
  /\ thread' \in {"none", "scraping"}
  /\ Drift /\ inHand' \in Scraped
  /\ main' = "started"
  /\ UNCHANGED <<kind, mark, stopping, snapshots, summaryVars>>

\* started_at, and collect_samples
OpenWindow ==
  /\ main = "started"
  /\ mark' = "in"
  /\ main' = "collecting"
  /\ UNCHANGED <<kind, serverVars, stopping, thread, inHand, snapshots,
                 summaryVars>>

\* ended_at
CloseWindow ==
  /\ main = "collecting"
  /\ mark' = "after"
  /\ main' = "ending"
  /\ UNCHANGED <<kind, serverVars, stopping, thread, inHand, snapshots,
                 summaryVars>>

\* An exception in the collection: the finally stops what was started.
FailCase ==
  /\ main = "collecting"
  /\ main' = "ending"
  /\ UNCHANGED <<kind, serverVars, mark, stopping, thread, inHand, snapshots,
                 summaryVars>>

\* stop(): the event is set, then the thread is joined.
Stop ==
  /\ main = "ending"
  /\ stopping' = TRUE
  /\ main' = "joining"
  /\ UNCHANGED <<kind, serverVars, mark, thread, inHand, snapshots,
                 summaryVars>>

\* Slip: the device's thread is joined without a time limit, too.
JoinAll ==
  /\ main = "joining"
  /\ thread \in {"none", "done"}
  /\ main' = IF kind = "device" THEN "summing" ELSE "sampling"
  /\ UNCHANGED <<kind, serverVars, mark, stopping, thread, inHand, snapshots,
                 summaryVars>>

\* join() waits for the thread; the device's gives up after five seconds.
Join ==
  /\ main = "joining"
  /\ thread \in {"none", "done"} \/ kind = "device"
  /\ main' = IF kind = "device" THEN "summing" ELSE "sampling"
  /\ UNCHANGED <<kind, serverVars, mark, stopping, thread, inHand, snapshots,
                 summaryVars>>

\* A last sample in the main thread.
SampleLast ==
  /\ main = "sampling"
  /\ Drift
  /\ \E snap \in Scraped : snapshots' = Append(snapshots, Finished(snap))
  /\ main' = "closed"
  /\ UNCHANGED <<kind, mark, stopping, thread, inHand, summaryVars>>

\* DeviceMonitorDaemon.summary goes over the snapshots, and asks for their
\* number afterwards; there is none without snapshots.
Summarize ==
  /\ main = "summing"
  /\ seriesLength' = Len(snapshots)
  /\ main' = IF snapshots = <<>> THEN "closed" ELSE "counting"
  /\ UNCHANGED <<kind, serverVars, mark, stopping, thread, inHand, snapshots,
                 sampleCount>>

CountSamples ==
  /\ main = "counting"
  /\ sampleCount' = Len(snapshots)
  /\ main' = "closed"
  /\ UNCHANGED <<kind, serverVars, mark, stopping, thread, inHand, snapshots,
                 seriesLength>>

-----------------------------------------------------------------------------
(* The thread: _run and _loop *)

\* Slip: the thread does not look at the event.
WakeDeaf ==
  /\ thread = "waiting"
  /\ IF Len(snapshots) = MaxSamples
     THEN stopping /\ thread' = "done" /\ UNCHANGED <<inHand, serverVars>>
     ELSE thread' = "scraping" /\ Drift /\ inHand' \in Scraped
  /\ UNCHANGED <<kind, main, mark, stopping, snapshots, summaryVars>>

\* The wait for the interval is over, or the event ends it.
Wake ==
  /\ thread = "waiting"
  /\ \/ stopping /\ thread' = "done" /\ UNCHANGED <<inHand, serverVars>>
     \/ /\ ~stopping /\ Len(snapshots) < MaxSamples
        /\ thread' = "scraping"
        /\ Drift /\ inHand' \in Scraped
  /\ UNCHANGED <<kind, main, mark, stopping, snapshots,
                 summaryVars>>

\* The observer's emit may raise after the append, which ends its thread.
AppendSample ==
  /\ thread = "scraping"
  /\ snapshots' = Append(snapshots, Finished(inHand))
  /\ inHand' = NoSnapshot
  /\ thread' \in {"waiting"} \cup IF kind = "service" THEN {"done"} ELSE {}
  /\ UNCHANGED <<kind, serverVars, main, mark, stopping, summaryVars>>

Closed == main = "closed" /\ thread \in {"none", "done"} /\ UNCHANGED vars

Next ==
  \/ StartSampling \/ StartDevice \/ OpenWindow \/ CloseWindow \/ FailCase
  \/ Stop \/ Join \/ SampleLast \/ Summarize \/ CountSamples
  \/ Wake \/ AppendSample
  \/ Closed

Spec == Init /\ [][Next]_vars

\* The Case goes on, and a scrape ends: every client has a timeout.  A device
\* scrape is not even assumed to end, since its join does not need it.
MainStep ==
  \/ StartSampling \/ StartDevice \/ OpenWindow \/ CloseWindow \/ Stop
  \/ Join \/ SampleLast \/ Summarize \/ CountSamples
FairSpec ==
  /\ Spec /\ WF_vars(MainStep)
  /\ WF_vars(kind # "device" /\ (Wake \/ AppendSample))
=============================================================================
