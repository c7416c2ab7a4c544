--------------------------- MODULE MonitorsProofs ---------------------------
(***************************************************************************)
(* Proofs about the monitors of a Case, for any finite set of series and   *)
(* any bounds.                                                             *)
(***************************************************************************)
EXTENDS MonitorsProperties, FiniteSetTheorems, TLAPS

INSTANCE Folding WITH Op <- +

-----------------------------------------------------------------------------
(* Observations *)

LEMMA CountedIn ==
  ASSUME NEW p, Observation(p), NEW s \in Series
  PROVE  /\ Counted(p, s) \in Nat
         /\ p.total[s] \in Nat /\ p.restarts \in Nat
         /\ Counted(p, s) <= p.total[s]
<1>1. /\ p.ok \in BOOLEAN /\ p.value[s] \in Int /\ p.total[s] \in Nat
      /\ p.restarts \in Nat
      /\ p.value[s] = Missing \/ p.value[s] \in 0..p.total[s]
  BY DEF Observation
<1>. QED BY <1>1 DEF Counted, Exposes

\* What came before what came before came before.
LEMMA BeforeIsTransitive ==
  ASSUME NEW p, NEW q, NEW r, Observation(p), Observation(q), Observation(r),
         Before(p, q), Before(q, r)
  PROVE  Before(p, r)
<1>1. p.restarts <= r.restarts
  <2>1. p.restarts \in Nat /\ q.restarts \in Nat /\ r.restarts \in Nat
    BY DEF Observation
  <2>. QED BY <2>1 DEF Before
<1>2. ASSUME NEW s \in Series
      PROVE  /\ p.total[s] <= r.total[s]
             /\ p.restarts = r.restarts =>
                  /\ Counted(r, s) - Counted(p, s) = r.total[s] - p.total[s]
                  /\ Exposes(p, s) => Exposes(r, s)
             /\ p.restarts # r.restarts =>
                  Counted(r, s) <= r.total[s] - p.total[s]
  <2>1. /\ Counted(p, s) \in Nat /\ Counted(q, s) \in Nat
        /\ Counted(r, s) \in Nat
        /\ p.total[s] \in Nat /\ q.total[s] \in Nat /\ r.total[s] \in Nat
        /\ p.restarts \in Nat /\ q.restarts \in Nat /\ r.restarts \in Nat
    BY <1>2, CountedIn
  <2>2. /\ p.restarts <= q.restarts /\ p.total[s] <= q.total[s]
        /\ p.restarts = q.restarts =>
             /\ Counted(q, s) - Counted(p, s) = q.total[s] - p.total[s]
             /\ Exposes(p, s) => Exposes(q, s)
        /\ p.restarts # q.restarts =>
             Counted(q, s) <= q.total[s] - p.total[s]
    BY <1>2 DEF Before
  <2>3. /\ q.restarts <= r.restarts /\ q.total[s] <= r.total[s]
        /\ q.restarts = r.restarts =>
             /\ Counted(r, s) - Counted(q, s) = r.total[s] - q.total[s]
             /\ Exposes(q, s) => Exposes(r, s)
        /\ q.restarts # r.restarts =>
             Counted(r, s) <= r.total[s] - q.total[s]
    BY <1>2 DEF Before
  <2>. QED BY ONLY <2>1, <2>2, <2>3
<1>. QED BY <1>1, <1>2 DEF Before

LEMMA NoSnapshotObserves == Observation(NoSnapshot) /\ ~NoSnapshot.ok
BY DEF Observation, NoSnapshot, Missing, Counted, Exposes

LEMMA NowObserves ==
  ASSUME EndpointShape
  PROVE  Observation(Now) /\ Now.ok
<1>1. /\ Now.ok = TRUE /\ Now.total = total /\ Now.restarts = restarts
      /\ Now.value = [s \in Series |-> IF s \in exposed THEN counter[s]
                                       ELSE Missing]
  BY DEF Now
<1>2. /\ total \in [Series -> Nat] /\ restarts \in Nat
      /\ counter \in [Series -> Nat]
  BY DEF EndpointShape
<1>3. Now.value \in [Series -> Int]
  BY <1>1, <1>2 DEF Missing
<1>4. ASSUME NEW s \in Series
      PROVE  /\ Now.value[s] = Missing \/ Now.value[s] \in 0..Now.total[s]
             /\ Now.restarts = 0 => Counted(Now, s) = Now.total[s]
  <2>1. /\ Now.value[s] = IF s \in exposed THEN counter[s] ELSE Missing
        /\ counter[s] \in Nat /\ total[s] \in Nat /\ counter[s] <= total[s]
        /\ s \notin exposed => counter[s] = 0
        /\ restarts = 0 => counter[s] = total[s]
    BY <1>1, <1>2, <1>4 DEF EndpointShape
  <2>. QED BY <1>1, <2>1 DEF Counted, Exposes, Missing
<1>. QED BY <1>1, <1>2, <1>3, <1>4 DEF Observation

\* Now shows the counters, whatever is exposed.
NowShows ==
  /\ Now.total = total /\ Now.restarts = restarts
  /\ \A s \in Series : /\ Counted(Now, s) = counter[s]
                       /\ Exposes(Now, s) <=> s \in exposed

LEMMA NowCounts == EndpointShape => NowShows
<1>. SUFFICES ASSUME EndpointShape, NEW s \in Series
     PROVE  /\ Now.total = total /\ Now.restarts = restarts
            /\ Counted(Now, s) = counter[s]
            /\ Exposes(Now, s) <=> s \in exposed
  <2>1. Now.total = total /\ Now.restarts = restarts
    BY DEF Now
  <2>. QED BY <2>1 DEF NowShows
<1>1. /\ Now.value[s] = IF s \in exposed THEN counter[s] ELSE Missing
      /\ Now.ok = TRUE /\ Now.total = total /\ Now.restarts = restarts
  BY DEF Now
<1>2. counter[s] \in Nat /\ (s \notin exposed => counter[s] = 0)
  BY DEF EndpointShape
<1>. QED BY <1>1, <1>2 DEF Counted, Exposes, Missing

\* An observation comes before itself.
LEMMA BeforeIsReflexive ==
  ASSUME NEW p, Observation(p)
  PROVE  Before(p, p)
<1>1. p.restarts \in Nat
  BY DEF Observation
<1>2. ASSUME NEW s \in Series
      PROVE  /\ p.total[s] <= p.total[s]
             /\ Counted(p, s) - Counted(p, s) = p.total[s] - p.total[s]
  <2>1. Counted(p, s) \in Nat /\ p.total[s] \in Nat
    BY <1>2, CountedIn
  <2>. QED BY ONLY <2>1
<1>. QED BY <1>1, <1>2 DEF Before

-----------------------------------------------------------------------------
(* What the endpoint does *)

LEMMA ServeStep ==
  ASSUME EndpointShape, NEW s \in Series, Serve(s)
  PROVE  EndpointShape' /\ Before(Now, Now')
<1>1. /\ counter \in [Series -> Nat] /\ total \in [Series -> Nat]
      /\ restarts \in Nat /\ exposed \subseteq Series
  BY DEF EndpointShape
<1>2. /\ counter' = [counter EXCEPT ![s] = @ + 1]
      /\ total' = [total EXCEPT ![s] = @ + 1]
      /\ exposed' = exposed \cup {s} /\ restarts' = restarts
  BY DEF Serve
<1>3. ASSUME NEW t \in Series
      PROVE  /\ counter'[t] - counter[t] = total'[t] - total[t]
             /\ total[t] <= total'[t] /\ counter'[t] <= total'[t]
             /\ t \notin exposed' => counter'[t] = 0
             /\ restarts = 0 => counter'[t] = total'[t]
  <2>1. /\ counter[t] \in Nat /\ total[t] \in Nat /\ counter[t] <= total[t]
        /\ t \notin exposed => counter[t] = 0
        /\ restarts = 0 => counter[t] = total[t]
    BY <1>3 DEF EndpointShape
  <2>2. /\ counter'[t] = IF t = s THEN counter[t] + 1 ELSE counter[t]
        /\ total'[t] = IF t = s THEN total[t] + 1 ELSE total[t]
    BY <1>1, <1>2, <1>3
  <2>. QED BY <1>2, <2>1, <2>2
<1>4. EndpointShape'
  <2>1. counter' \in [Series -> Nat] /\ total' \in [Series -> Nat]
    BY <1>1, <1>2
  <2>2. restarts' \in Nat /\ exposed' \subseteq Series
    BY <1>1, <1>2
  <2>. QED BY <1>2, <1>3, <2>1, <2>2 DEF EndpointShape
<1>5. NowShows /\ NowShows'
  <2>1. EndpointShape' => NowShows'
    BY NowCounts, PTL
  <2>. QED BY <1>4, <2>1, NowCounts
<1>6. /\ Now'.restarts = Now.restarts /\ Now.restarts <= Now'.restarts
      /\ Now.total = total /\ Now'.total = total'
  BY <1>1, <1>2, <1>5 DEF NowShows
<1>7. ASSUME NEW t \in Series
      PROVE  /\ total[t] <= total'[t]
             /\ Counted(Now', t) - Counted(Now, t) = total'[t] - total[t]
             /\ Exposes(Now, t) => Exposes(Now', t)
  BY <1>2, <1>3, <1>5, <1>7 DEF NowShows
<1>. QED BY <1>4, <1>6, <1>7 DEF Before

LEMMA RestartStep ==
  ASSUME EndpointShape, Restart
  PROVE  EndpointShape' /\ Before(Now, Now')
<1>1. /\ counter \in [Series -> Nat] /\ total \in [Series -> Nat]
      /\ restarts \in Nat
  BY DEF EndpointShape
<1>2. /\ counter' = [s \in Series |-> 0] /\ total' = total
      /\ restarts' = restarts + 1 /\ exposed' \subseteq Series
  BY DEF Restart
<1>3. EndpointShape'
  <2>1. counter' \in [Series -> Nat]
    BY <1>2
  <2>2. restarts' \in Nat /\ restarts' # 0
    BY <1>1, <1>2
  <2>. QED BY <1>1, <1>2, <2>1, <2>2 DEF EndpointShape
<1>4. NowShows /\ NowShows'
  <2>1. EndpointShape' => NowShows'
    BY NowCounts, PTL
  <2>. QED BY <1>3, <2>1, NowCounts
<1>5. /\ Now.restarts < Now'.restarts
      /\ Now.total = total /\ Now'.total = total
  BY <1>1, <1>2, <1>4 DEF NowShows
<1>6. ASSUME NEW t \in Series
      PROVE  total[t] <= total[t] /\ Counted(Now', t) <= total[t] - total[t]
  BY <1>1, <1>2, <1>4, <1>6 DEF NowShows
<1>7. Now.restarts <= Now'.restarts /\ Now.restarts # Now'.restarts
  BY <1>1, <1>2, <1>4 DEF NowShows
<1>. QED BY <1>3, <1>5, <1>6, <1>7 DEF Before

LEMMA DriftStep ==
  ASSUME EndpointShape, Drift
  PROVE  EndpointShape' /\ Before(Now, Now')
<1>1. CASE UNCHANGED serverVars
  <2>1. Now' = Now
    BY <1>1 DEF serverVars, Now
  <2>2. EndpointShape'
    BY <1>1 DEF EndpointShape, serverVars
  <2>. QED BY <2>1, <2>2, NowObserves, BeforeIsReflexive
<1>2. CASE Restart
  BY <1>2, RestartStep
<1>3. CASE \E s \in Series : Serve(s)
  BY <1>3, ServeStep
<1>. QED BY <1>1, <1>2, <1>3 DEF Drift

\* A request gives nothing, or what the endpoint shows then.
LEMMA ScrapedIsNow ==
  ASSUME NEW snap \in Scraped
  PROVE  snap = NoSnapshot \/ snap = Now'
BY DEF Scraped, Now

\* A scrape observes; what was before is before what it sees.
LEMMA ScrapeStep ==
  ASSUME EndpointShape, Drift, NEW snap \in Scraped
  PROVE  /\ Observation(snap) /\ Observation(Now)'
         /\ snap.ok => Before(snap, Now')
         /\ \A p : Observation(p) /\ Before(p, Now) =>
              Before(p, Now') /\ (snap.ok => Before(p, snap))
<1>1. EndpointShape' /\ Before(Now, Now') /\ Observation(Now)
  BY DriftStep, NowObserves
<1>2. Observation(Now)'
  <2>1. (EndpointShape => Observation(Now))'
    BY NowObserves, PTL
  <2>. QED BY <1>1, <2>1
<1>3. snap = NoSnapshot \/ snap = Now'
  BY ScrapedIsNow
<1>4. \A p : Observation(p) /\ Before(p, Now) => Before(p, Now')
  BY <1>1, <1>2, BeforeIsTransitive
<1>5. Observation(snap) /\ (snap.ok => snap = Now')
  BY <1>2, <1>3, NoSnapshotObserves
<1>6. Before(Now', Now')
  BY <1>2, BeforeIsReflexive
<1>. QED BY <1>2, <1>4, <1>5, <1>6

-----------------------------------------------------------------------------
(* What happens to the snapshots *)

\* Finishing a snapshot notes the window; what was seen stays.
LEMMA FinishedSees ==
  ASSUME NEW snap, Observation(snap), mark \in {"before", "in", "after"}
  PROVE  /\ Finished(snap) \in Snapshots
         /\ Finished(snap).ok = snap.ok
         /\ Observation(Finished(snap))
         /\ \A p : /\ Before(p, snap) => Before(p, Finished(snap))
                   /\ Before(snap, p) => Before(Finished(snap), p)
<1>1. /\ Finished(snap).ok = snap.ok /\ Finished(snap).value = snap.value
      /\ Finished(snap).total = snap.total
      /\ Finished(snap).restarts = snap.restarts
  BY DEF Finished
<1>2. \A s \in Series : /\ Exposes(Finished(snap), s) <=> Exposes(snap, s)
                        /\ Counted(Finished(snap), s) = Counted(snap, s)
  BY <1>1 DEF Exposes, Counted
<1>3. Finished(snap) \in Snapshots
  BY DEF Finished, Snapshots, Observation
<1>4. Observation(Finished(snap))
  BY <1>1, <1>2 DEF Observation
<1>5. ASSUME NEW p
      PROVE  /\ Before(p, snap) => Before(p, Finished(snap))
             /\ Before(snap, p) => Before(Finished(snap), p)
  BY <1>1, <1>2 DEF Before
<1>. QED BY <1>1, <1>3, <1>4, <1>5

\* A step that takes no sample and leaves the endpoint alone.
LEMMA SnapshotsRest ==
  ASSUME SnapshotsOrderly, UNCHANGED <<snapshots, serverVars>>,
         inHand' \in {inHand, NoSnapshot}, Held' \subseteq Held
  PROVE  SnapshotsOrderly'
<1>1. Now' = Now
  BY DEF Now, serverVars
<1>2. Observation(inHand')
  BY NoSnapshotObserves DEF SnapshotsOrderly
<1>. QED BY <1>1, <1>2 DEF SnapshotsOrderly

\* The thread has scraped what it will append.
LEMMA SnapshotTaken ==
  ASSUME SnapshotsOrderly, EndpointShape, Drift, UNCHANGED snapshots,
         inHand' \in Scraped
  PROVE  SnapshotsOrderly'
<1>1. /\ Observation(inHand') /\ (inHand'.ok => Before(inHand', Now'))
      /\ \A p : Observation(p) /\ Before(p, Now) =>
           Before(p, Now') /\ (inHand'.ok => Before(p, inHand'))
  BY ScrapeStep
<1>2. Held' \subseteq IF inHand'.ok THEN {inHand'} ELSE {}
  BY DEF Held
<1>3. ASSUME NEW i \in DOMAIN snapshots, snapshots[i].ok,
             NEW q \in Held' \cup {Now'}
      PROVE  Before(snapshots[i], q)
  <2>1. Observation(snapshots[i]) /\ Before(snapshots[i], Now)
    BY <1>3 DEF SnapshotsOrderly
  <2>. QED BY <1>1, <1>2, <1>3, <2>1
<1>4. \A q \in Held' : Before(q, Now')
  BY <1>1, <1>2
<1>. QED BY <1>1, <1>3, <1>4 DEF SnapshotsOrderly

\* A sample is appended, and none is in hand afterwards.
LEMMA SnapshotAppended ==
  ASSUME SnapshotsOrderly, mark \in {"before", "in", "after"},
         NEW snap, Observation(snap), snap.ok => Before(snap, Now'),
         \A i \in DOMAIN snapshots : snapshots[i].ok =>
           Before(snapshots[i], Now') /\
           (snap.ok => Before(snapshots[i], snap)),
         snapshots' = Append(snapshots, Finished(snap)),
         Held' = {}, Observation(inHand')
  PROVE  SnapshotsOrderly'
<1> DEFINE n == Len(snapshots)
<1>1. /\ n \in Nat /\ DOMAIN snapshots = 1..n
      /\ snapshots \in Seq(Snapshots)
  BY DEF SnapshotsOrderly
<1>2. /\ Finished(snap) \in Snapshots /\ Observation(Finished(snap))
      /\ Finished(snap).ok = snap.ok
      /\ snap.ok => Before(Finished(snap), Now')
      /\ \A i \in 1..n : snapshots[i].ok /\ snap.ok =>
           Before(snapshots[i], Finished(snap))
  BY <1>1, FinishedSees
<1>3. /\ snapshots' \in Seq(Snapshots) /\ DOMAIN snapshots' = 1..(n + 1)
      /\ snapshots'[n + 1] = Finished(snap)
      /\ \A i \in 1..n : snapshots'[i] = snapshots[i]
  BY <1>1, <1>2
<1>4. \A i \in 1..(n + 1) : i = n + 1 \/ i \in 1..n
  BY <1>1
<1>5. \A i \in 1..n : /\ Observation(snapshots[i])
                      /\ snapshots[i].ok => Before(snapshots[i], Now')
  BY <1>1 DEF SnapshotsOrderly
<1>6. \A i \in 1..(n + 1) :
        /\ Observation(snapshots'[i])
        /\ snapshots'[i].ok =>
             \A q \in Held' \cup {Now'} : Before(snapshots'[i], q)
  BY <1>2, <1>3, <1>4, <1>5
<1>7. ASSUME NEW i \in 1..(n + 1), NEW j \in 1..(n + 1), i < j,
             snapshots'[i].ok, snapshots'[j].ok
      PROVE  Before(snapshots'[i], snapshots'[j])
  <2>1. i \in 1..n
    BY <1>1, <1>7
  <2>2. CASE j \in 1..n
    BY <1>1, <1>3, <1>7, <2>1, <2>2 DEF SnapshotsOrderly
  <2>3. CASE j = n + 1
    BY <1>2, <1>3, <1>7, <2>1, <2>3
  <2>. QED BY <1>4, <2>2, <2>3
<1>. QED BY <1>3, <1>6, <1>7 DEF SnapshotsOrderly

\* A sample of the main thread, while the other has none in hand.
LEMMA SnapshotMade ==
  ASSUME SnapshotsOrderly, EndpointShape, Drift,
         mark \in {"before", "in", "after"},
         NEW snap \in Scraped,
         snapshots' = Append(snapshots, Finished(snap)),
         Held' = {}, UNCHANGED inHand
  PROVE  SnapshotsOrderly'
<1>1. /\ Observation(snap) /\ (snap.ok => Before(snap, Now'))
      /\ \A p : Observation(p) /\ Before(p, Now) =>
           Before(p, Now') /\ (snap.ok => Before(p, snap))
  BY ScrapeStep
<1>2. \A i \in DOMAIN snapshots : snapshots[i].ok =>
        Before(snapshots[i], Now') /\ (snap.ok => Before(snapshots[i], snap))
  BY <1>1 DEF SnapshotsOrderly
<1>3. Observation(inHand')
  BY DEF SnapshotsOrderly
<1>. QED BY <1>1, <1>2, <1>3, SnapshotAppended

-----------------------------------------------------------------------------
(* The invariant *)

LEMMA InitMonitors ==
  ASSUME Init
  PROVE  MonitorInv
<1>1. MonitorShape /\ Settling /\ SamplesSettle
  BY DEF Init, MonitorShape, Settling, SamplesSettle
<1>2. EndpointShape
  BY DEF Init, EndpointShape
<1>3. SnapshotsOrderly
  <2>1. Held = {} /\ DOMAIN snapshots = {} /\ snapshots \in Seq(Snapshots)
    BY DEF Init, Held
  <2>2. Observation(inHand)
    BY NoSnapshotObserves DEF Init
  <2>. QED BY <2>1, <2>2 DEF SnapshotsOrderly
<1>. QED BY <1>1, <1>2, <1>3 DEF MonitorInv

LEMMA EndpointRests ==
  ASSUME EndpointShape, UNCHANGED serverVars
  PROVE  EndpointShape'
BY DEF EndpointShape, serverVars

LEMMA SomeSnapshots ==
  ASSUME MonitorInv
  PROVE  Len(snapshots) \in Nat /\ snapshots \in Seq(Snapshots)
BY DEF MonitorInv, SnapshotsOrderly

\* A sample before the formal window; the thread begins to wait.
LEMMA StartSamplingKeeps ==
  ASSUME MonitorInv, StartSampling
  PROVE  MonitorInv'
<1>1. PICK snap \in Scraped : snapshots' = <<Finished(snap)>>
  BY DEF StartSampling
<1>2. snapshots = <<>> /\ Held' = {}
  BY DEF StartSampling, MonitorInv, Settling, Held
<1>3. snapshots' = Append(snapshots, Finished(snap))
  BY <1>1, <1>2
<1>4. Drift /\ EndpointShape'
  BY DriftStep DEF StartSampling, MonitorInv
<1>5. SnapshotsOrderly'
  BY <1>2, <1>3, <1>4, SnapshotMade
     DEF StartSampling, MonitorInv, MonitorShape
<1>6. MonitorShape' /\ Settling' /\ SamplesSettle'
  BY DEF StartSampling, MonitorInv, MonitorShape, Settling, SamplesSettle,
         summaryVars
<1>. QED BY <1>4, <1>5, <1>6 DEF MonitorInv

LEMMA StartDeviceKeeps ==
  ASSUME MonitorInv, StartDevice
  PROVE  MonitorInv'
<1>1. Drift /\ EndpointShape'
  BY DriftStep DEF StartDevice, MonitorInv
<1>2. SnapshotsOrderly'
  BY <1>1, SnapshotTaken DEF StartDevice, MonitorInv
<1>3. MonitorShape' /\ Settling' /\ SamplesSettle'
  BY DEF StartDevice, MonitorInv, MonitorShape, Settling, SamplesSettle,
         summaryVars
<1>. QED BY <1>1, <1>2, <1>3 DEF MonitorInv

\* The steps of the Case that take no sample.
CaseStep ==
  \/ OpenWindow \/ CloseWindow \/ FailCase \/ Stop \/ Join \/ Summarize
  \/ CountSamples

LEMMA CaseStepKeeps ==
  ASSUME MonitorInv, CaseStep
  PROVE  MonitorInv'
<1>1. UNCHANGED <<kind, serverVars, thread, inHand, snapshots>>
  BY DEF CaseStep, OpenWindow, CloseWindow, FailCase, Stop, Join, Summarize,
         CountSamples
<1>2. Held' \subseteq Held
  BY <1>1 DEF Held
<1>3. SnapshotsOrderly' /\ EndpointShape'
  BY <1>1, <1>2, SnapshotsRest, EndpointRests DEF MonitorInv
<1>4. /\ Len(snapshots) \in Nat
      /\ seriesLength \in Nat /\ sampleCount \in Nat
  BY SomeSnapshots DEF MonitorInv, MonitorShape
<1>5. snapshots = <<>> => Len(snapshots) = 0
  OBVIOUS
<1>6. MonitorShape'
  BY <1>1, <1>4 DEF CaseStep, OpenWindow, CloseWindow, FailCase, Stop, Join,
     Summarize, CountSamples, MonitorInv, MonitorShape, summaryVars
<1>7. Settling' /\ SamplesSettle'
  <2>1. CASE OpenWindow \/ CloseWindow \/ FailCase \/ Stop
    BY <1>1, <2>1 DEF OpenWindow, CloseWindow, FailCase, Stop, MonitorInv,
       MonitorShape, Settling, SamplesSettle, summaryVars
  <2>2. CASE Join
    BY <1>1, <2>2 DEF Join, MonitorInv, MonitorShape, Settling,
       SamplesSettle, summaryVars
  <2>3. CASE Summarize
    <3>1. /\ main = "summing" /\ kind = "device" /\ sampleCount = 0
          /\ seriesLength' = Len(snapshots) /\ sampleCount' = 0
          /\ main' = IF snapshots = <<>> THEN "closed" ELSE "counting"
      BY <2>3 DEF Summarize, MonitorInv, MonitorShape, Settling, Kinds
    <3>2. CASE snapshots = <<>>
      <4>1. main' = "closed" /\ seriesLength' = 0 /\ sampleCount' = 0
        BY <1>5, <3>1, <3>2
      <4>2. kind' = "device" /\ sampleCount' - seriesLength' \in 0..1
        BY <1>1, <3>1, <4>1
      <4>. QED BY <4>1, <4>2 DEF Settling, SamplesSettle
    <3>3. CASE snapshots # <<>>
      BY <1>1, <1>4, <3>1, <3>3 DEF Settling, SamplesSettle
    <3>. QED BY <3>2, <3>3
  <2>4. CASE CountSamples
    <3>1. /\ main = "counting" /\ kind = "device" /\ main' = "closed"
          /\ sampleCount' = Len(snapshots) /\ seriesLength' = seriesLength
          /\ Len(snapshots) - seriesLength \in 0..1
      BY <2>4 DEF CountSamples, MonitorInv, Settling
    <3>. QED BY <1>1, <3>1 DEF Settling, SamplesSettle
  <2>. QED BY <2>1, <2>2, <2>3, <2>4 DEF CaseStep
<1>. QED BY <1>3, <1>6, <1>7 DEF MonitorInv

\* The closing sample, after the thread has ended.
LEMMA SampleLastKeeps ==
  ASSUME MonitorInv, SampleLast
  PROVE  MonitorInv'
<1>1. PICK snap \in Scraped : snapshots' = Append(snapshots, Finished(snap))
  BY DEF SampleLast
<1>2. kind # "device" /\ thread \in {"none", "done"}
  BY DEF SampleLast, MonitorInv, Settling
<1>3. UNCHANGED <<kind, mark, stopping, thread, inHand, summaryVars>>
      /\ main = "sampling" /\ main' = "closed"
  BY DEF SampleLast
<1>4. Held' = {}
  BY <1>2, <1>3 DEF Held
<1>5. Drift /\ EndpointShape'
  BY DriftStep DEF SampleLast, MonitorInv
<1>6. SnapshotsOrderly'
  BY <1>1, <1>3, <1>4, <1>5, SnapshotMade DEF MonitorInv, MonitorShape
<1>7. MonitorShape' /\ Settling' /\ SamplesSettle'
  BY <1>2, <1>3 DEF MonitorInv, MonitorShape, Settling, SamplesSettle,
     summaryVars
<1>. QED BY <1>5, <1>6, <1>7 DEF MonitorInv

\* The thread ends, or scrapes: only before the stop event is set.
LEMMA WakeKeeps ==
  ASSUME MonitorInv, Wake
  PROVE  MonitorInv'
<1>1. /\ thread = "waiting"
      /\ UNCHANGED <<kind, main, mark, stopping, snapshots, summaryVars>>
  BY DEF Wake
<1>2. EndpointShape' /\ SnapshotsOrderly'
  <2>1. CASE thread' = "done" /\ UNCHANGED <<inHand, serverVars>>
    <3>1. Held' \subseteq Held
      BY <2>1 DEF Held
    <3>. QED BY <1>1, <2>1, <3>1, SnapshotsRest, EndpointRests
             DEF MonitorInv
  <2>2. CASE Drift /\ inHand' \in Scraped
    BY <1>1, <2>2, SnapshotTaken, DriftStep DEF MonitorInv
  <2>. QED BY <2>1, <2>2 DEF Wake
<1>3. thread' = "done" \/ (thread' = "scraping" /\ ~stopping)
  BY DEF Wake
<1>4. MonitorShape' /\ Settling' /\ SamplesSettle'
  BY <1>1, <1>3 DEF MonitorInv, MonitorShape, Settling, SamplesSettle,
     summaryVars
<1>. QED BY <1>2, <1>4 DEF MonitorInv

LEMMA AppendSampleKeeps ==
  ASSUME MonitorInv, AppendSample
  PROVE  MonitorInv'
<1>1. /\ thread = "scraping" /\ thread' \in {"waiting", "done"}
      /\ snapshots' = Append(snapshots, Finished(inHand))
      /\ inHand' = NoSnapshot
      /\ UNCHANGED <<kind, serverVars, main, mark, stopping, summaryVars>>
  BY DEF AppendSample
<1>2. EndpointShape' /\ Now' = Now
  BY <1>1, EndpointRests DEF MonitorInv, serverVars, Now
<1>3. Held' = {} /\ (inHand.ok => Held = {inHand})
  BY <1>1 DEF Held
<1>4. SnapshotsOrderly'
  <2>1. /\ Observation(inHand) /\ (inHand.ok => Before(inHand, Now'))
        /\ \A i \in DOMAIN snapshots : snapshots[i].ok =>
             Before(snapshots[i], Now') /\
             (inHand.ok => Before(snapshots[i], inHand))
    BY <1>2, <1>3 DEF MonitorInv, SnapshotsOrderly
  <2>2. Observation(inHand')
    BY <1>1, NoSnapshotObserves
  <2>. QED BY <1>1, <1>3, <2>1, <2>2, SnapshotAppended
           DEF MonitorInv, MonitorShape
<1>5. Len(snapshots') = Len(snapshots) + 1 /\ Len(snapshots) \in Nat
  BY <1>1, SomeSnapshots
<1>6. MonitorShape'
  BY <1>1 DEF MonitorInv, MonitorShape, summaryVars
<1>7. main # "starting" /\ (kind # "device" => main \notin {"sampling",
                                                             "closed"})
  BY <1>1 DEF MonitorInv, Settling
<1>8. Settling' /\ SamplesSettle'
  <2>1. main = "counting" => Len(snapshots') - seriesLength \in 0..1
    BY <1>1, <1>5 DEF MonitorInv, MonitorShape, Settling
  <2>. QED BY <1>1, <1>7, <2>1 DEF MonitorInv, Settling, SamplesSettle,
           summaryVars
<1>. QED BY <1>2, <1>4, <1>6, <1>8 DEF MonitorInv

LEMMA NextMonitors ==
  ASSUME MonitorInv, [Next]_vars
  PROVE  MonitorInv'
<1>1. CASE UNCHANGED vars
  <2>1. Held' \subseteq Held /\ inHand' \in {inHand, NoSnapshot}
    BY <1>1 DEF vars, Held
  <2>2. SnapshotsOrderly' /\ EndpointShape'
    BY <1>1, <2>1, SnapshotsRest, EndpointRests DEF vars, MonitorInv
  <2>3. MonitorShape' /\ Settling' /\ SamplesSettle'
    BY <1>1 DEF vars, summaryVars, MonitorInv, MonitorShape, Settling,
       SamplesSettle
  <2>. QED BY <2>2, <2>3 DEF MonitorInv
<1>2. CASE StartSampling
  BY <1>2, StartSamplingKeeps
<1>3. CASE StartDevice
  BY <1>3, StartDeviceKeeps
<1>4. CASE CaseStep
  BY <1>4, CaseStepKeeps
<1>5. CASE SampleLast
  BY <1>5, SampleLastKeeps
<1>6. CASE Wake
  BY <1>6, WakeKeeps
<1>7. CASE AppendSample
  BY <1>7, AppendSampleKeeps
<1>. QED BY <1>1, <1>2, <1>3, <1>4, <1>5, <1>6, <1>7
         DEF Next, Closed, CaseStep

(***************************************************************************)
(* A monitor's snapshots are observations in the order in which they were  *)
(* made, and a thread that stop() left behind appends at most one.         *)
(***************************************************************************)
THEOREM MonitorsInvariant == Spec => []MonitorInv
<1>. QED BY InitMonitors, NextMonitors, PTL DEF Spec

(***************************************************************************)
(* What the summary of a device shows misses at most one sample, and the   *)
(* other monitors take none after their closing one                        *)
(* (device_monitor.py:141-150, 300-316, host_monitor.py:291-303).          *)
(***************************************************************************)
THEOREM SettlesCorrect == Spec => []SamplesSettle
<1>1. MonitorInv => SamplesSettle
  BY DEF MonitorInv
<1>. QED BY <1>1, MonitorsInvariant, PTL

-----------------------------------------------------------------------------
(* Two samples of a monitor *)

LEMMA SampleFacts ==
  ASSUME MonitorInv, NEW i \in DOMAIN snapshots, snapshots[i].ok,
         NEW s \in Series
  PROVE  /\ i \in Nat /\ Observation(snapshots[i])
         /\ snapshots[i].total[s] \in Nat
         /\ Counted(snapshots[i], s) \in 0..snapshots[i].total[s]
         /\ snapshots[i].value[s] =
              IF Exposes(snapshots[i], s) THEN Counted(snapshots[i], s)
              ELSE Missing
         /\ restarts = 0 =>
              Counted(snapshots[i], s) = snapshots[i].total[s]
<1>1. Observation(snapshots[i]) /\ i \in Nat
  BY DEF MonitorInv, SnapshotsOrderly
<1>2. /\ Counted(snapshots[i], s) \in Nat /\ snapshots[i].total[s] \in Nat
      /\ snapshots[i].restarts \in Nat
      /\ Counted(snapshots[i], s) <= snapshots[i].total[s]
  BY <1>1, CountedIn
<1>3. snapshots[i].restarts <= restarts /\ restarts \in Nat
  <2>1. Before(snapshots[i], Now) /\ Now.restarts = restarts
    BY DEF MonitorInv, SnapshotsOrderly, Now
  <2>. QED BY <2>1 DEF Before, MonitorInv, EndpointShape
<1>4. restarts = 0 => Counted(snapshots[i], s) = snapshots[i].total[s]
  BY <1>1, <1>2, <1>3 DEF Observation
<1>. QED BY <1>1, <1>2, <1>4 DEF Counted, Exposes

LEMMA PairFacts ==
  ASSUME MonitorInv, NEW i \in DOMAIN snapshots, NEW j \in DOMAIN snapshots,
         i <= j, snapshots[i].ok, snapshots[j].ok, NEW s \in Series
  PROVE  /\ snapshots[i].total[s] <= snapshots[j].total[s]
         /\ Steady(i, j) =>
              Counted(snapshots[j], s) - Counted(snapshots[i], s) =
                Increase(i, j, s)
         /\ Counted(snapshots[j], s) - Counted(snapshots[i], s) <=
              Increase(i, j, s)
<1>1. /\ snapshots[i].total[s] \in Nat /\ snapshots[j].total[s] \in Nat
      /\ Counted(snapshots[i], s) \in Nat /\ Counted(snapshots[j], s) \in Nat
      /\ Observation(snapshots[i]) /\ i \in Nat /\ j \in Nat
  BY SampleFacts
<1>2. Before(snapshots[i], snapshots[j])
  <2>1. CASE i = j
    BY <1>1, <2>1, BeforeIsReflexive
  <2>2. CASE i < j
    BY <2>2 DEF MonitorInv, SnapshotsOrderly
  <2>. QED BY <1>1, <2>1, <2>2
<1>3. /\ snapshots[i].total[s] <= snapshots[j].total[s]
      /\ snapshots[i].restarts = snapshots[j].restarts =>
           Counted(snapshots[j], s) - Counted(snapshots[i], s) =
             snapshots[j].total[s] - snapshots[i].total[s]
      /\ snapshots[i].restarts # snapshots[j].restarts =>
           Counted(snapshots[j], s) <=
             snapshots[j].total[s] - snapshots[i].total[s]
  BY <1>2 DEF Before
<1>. QED BY <1>1, <1>3 DEF Steady, Increase

-----------------------------------------------------------------------------
(* The host's rates *)

LEMMA BaselineIsSample ==
  ASSUME MonitorInv, NEW i \in DOMAIN snapshots, i > 1
  PROVE  i - 1 \in DOMAIN snapshots /\ i - 1 <= i /\ i \in Nat
<1>1. DOMAIN snapshots = 1..Len(snapshots) /\ Len(snapshots) \in Nat
  BY SomeSnapshots
<1>. QED BY <1>1

\* A rate is what was counted in between, or what is left of it.
LEMMA RateHonest ==
  ASSUME MonitorInv, NEW i \in DOMAIN snapshots, NEW s \in Series
  PROVE  /\ DeviceRate(snapshots, i, s) \in Int
         /\ DeviceRate(snapshots, i, s) # NoRate =>
              /\ DeviceRate(snapshots, i, s) \in 0..Increase(i - 1, i, s)
              /\ Steady(i - 1, i) =>
                   DeviceRate(snapshots, i, s) = Increase(i - 1, i, s)
<1>1. CASE /\ HasBaseline(snapshots, i)
           /\ Exposes(snapshots[i], s) /\ Exposes(snapshots[i - 1], s)
           /\ snapshots[i].value[s] >= snapshots[i - 1].value[s]
  <2>1. /\ i - 1 \in DOMAIN snapshots /\ i - 1 <= i
        /\ snapshots[i].ok /\ snapshots[i - 1].ok
    BY <1>1, BaselineIsSample DEF HasBaseline
  <2>2. /\ snapshots[i].value[s] = Counted(snapshots[i], s)
        /\ snapshots[i - 1].value[s] = Counted(snapshots[i - 1], s)
    BY <1>1, <2>1, SampleFacts
  <2>3. /\ Counted(snapshots[i], s) \in Nat
        /\ Counted(snapshots[i - 1], s) \in Nat
        /\ snapshots[i].total[s] \in Nat /\ snapshots[i - 1].total[s] \in Nat
    BY <2>1, SampleFacts
  <2>4. DeviceRate(snapshots, i, s) =
          Counted(snapshots[i], s) - Counted(snapshots[i - 1], s)
    BY <1>1, <2>2 DEF DeviceRate
  <2>5. /\ Steady(i - 1, i) =>
             Counted(snapshots[i], s) - Counted(snapshots[i - 1], s) =
               Increase(i - 1, i, s)
        /\ Counted(snapshots[i], s) - Counted(snapshots[i - 1], s) <=
             Increase(i - 1, i, s)
    BY <2>1, PairFacts
  <2>6. Increase(i - 1, i, s) \in Int
    BY <2>3 DEF Increase
  <2>7. Counted(snapshots[i], s) >= Counted(snapshots[i - 1], s)
    BY <1>1, <2>2
  <2>. QED BY ONLY <2>3, <2>4, <2>5, <2>6, <2>7
<1>2. CASE ~ (/\ HasBaseline(snapshots, i)
              /\ Exposes(snapshots[i], s) /\ Exposes(snapshots[i - 1], s)
              /\ snapshots[i].value[s] >= snapshots[i - 1].value[s])
  BY <1>2 DEF DeviceRate, NoRate
<1>. QED BY <1>1, <1>2

\* The sum over the modes of a CPU is a sum of a function.
LEMMA CpuRateIsSum ==
  ASSUME NEW i, NEW f,
         f = [s \in Series |->
               snapshots[i].value[s] - snapshots[i - 1].value[s]]
  PROVE  MapThenSumSet(
           LAMBDA s : snapshots[i].value[s] - snapshots[i - 1].value[s],
           Series) = SumOf(f, Series)
<1> DEFINE Sums(w) == w = [v \in SUBSET Series |->
                        IF v = {} THEN 0
                        ELSE (snapshots[i].value[Taken(v)] -
                                snapshots[i - 1].value[Taken(v)])
                             + w[v \ {Taken(v)}]]
           W == CHOOSE w : Sums(w)
<1>1. MapThenSumSet(
        LAMBDA s : snapshots[i].value[s] - snapshots[i - 1].value[s],
        Series) = W[Series]
  BY DEF MapThenSumSet, MapThenFoldSet, Taken
<1>2. PICK it : SumsUp(f, Series, it)
  BY SumsExist, SeriesAssumption
<1>3. \A v \in SUBSET Series : v # {} =>
        f[Taken(v)] = snapshots[i].value[Taken(v)] -
                        snapshots[i - 1].value[Taken(v)]
  BY TakenIn
<1>4. Sums(it)
  BY <1>2, <1>3 DEF SumsUp
<1>5. Sums(W)
  BY <1>4
<1>6. SumsUp(f, Series, W)
  BY <1>3, <1>5 DEF SumsUp
<1> HIDE DEF W
<1>7. SumOf(f, Series) = W[Series]
  BY <1>6, SumIs, SeriesAssumption
<1>. QED BY <1>1, <1>7

LEMMA IncreaseIsSum ==
  ASSUME NEW i, NEW g, g = [s \in Series |-> Increase(i - 1, i, s)]
  PROVE  MapThenSumSet(LAMBDA s : Increase(i - 1, i, s), Series) =
           SumOf(g, Series)
<1> DEFINE Sums(w) == w = [v \in SUBSET Series |->
                        IF v = {} THEN 0
                        ELSE Increase(i - 1, i, Taken(v))
                             + w[v \ {Taken(v)}]]
           W == CHOOSE w : Sums(w)
<1>1. MapThenSumSet(LAMBDA s : Increase(i - 1, i, s), Series) = W[Series]
  BY DEF MapThenSumSet, MapThenFoldSet, Taken
<1>2. PICK it : SumsUp(g, Series, it)
  BY SumsExist, SeriesAssumption
<1>3. \A v \in SUBSET Series : v # {} =>
        g[Taken(v)] = Increase(i - 1, i, Taken(v))
  BY TakenIn
<1>4. Sums(it)
  BY <1>2, <1>3 DEF SumsUp
<1>5. Sums(W)
  BY <1>4
<1>6. SumsUp(g, Series, W)
  BY <1>3, <1>5 DEF SumsUp
<1> HIDE DEF W
<1>7. SumOf(g, Series) = W[Series]
  BY <1>6, SumIs, SeriesAssumption
<1>. QED BY <1>1, <1>7

\* The CPU's rate is at most what was counted in all modes.
LEMMA CpuRateHonest ==
  ASSUME MonitorInv, NEW i \in DOMAIN snapshots,
         CpuRate(snapshots, i, Series) # NoRate
  PROVE  CpuRate(snapshots, i, Series) <=
           MapThenSumSet(LAMBDA s : Increase(i - 1, i, s), Series)
<1> DEFINE f == [s \in Series |->
                  snapshots[i].value[s] - snapshots[i - 1].value[s]]
           g == [s \in Series |-> Increase(i - 1, i, s)]
<1>1. /\ HasBaseline(snapshots, i)
      /\ \A s \in Series : Exposes(snapshots[i], s) <=>
                             Exposes(snapshots[i - 1], s)
      /\ CpuRate(snapshots, i, Series) =
           MapThenSumSet(
             LAMBDA s : snapshots[i].value[s] - snapshots[i - 1].value[s],
             Series)
  BY DEF CpuRate
<1>2. /\ i - 1 \in DOMAIN snapshots /\ i - 1 <= i
      /\ snapshots[i].ok /\ snapshots[i - 1].ok
  BY <1>1, BaselineIsSample DEF HasBaseline
<1>3. ASSUME NEW s \in Series
      PROVE  /\ f[s] \in Int /\ g[s] \in Int /\ f[s] <= g[s]
  <2>1. /\ Counted(snapshots[i], s) \in Nat
        /\ Counted(snapshots[i - 1], s) \in Nat
        /\ snapshots[i].total[s] \in Nat /\ snapshots[i - 1].total[s] \in Nat
        /\ snapshots[i].value[s] =
             IF Exposes(snapshots[i], s) THEN Counted(snapshots[i], s)
             ELSE Missing
        /\ snapshots[i - 1].value[s] =
             IF Exposes(snapshots[i - 1], s) THEN Counted(snapshots[i - 1], s)
             ELSE Missing
    BY <1>2, SampleFacts
  <2>2. /\ Counted(snapshots[i], s) - Counted(snapshots[i - 1], s) <=
             Increase(i - 1, i, s)
        /\ snapshots[i - 1].total[s] <= snapshots[i].total[s]
    BY <1>2, PairFacts
  <2>3. Increase(i - 1, i, s) =
          snapshots[i].total[s] - snapshots[i - 1].total[s]
    BY DEF Increase
  <2>4. /\ f[s] = snapshots[i].value[s] - snapshots[i - 1].value[s]
        /\ g[s] = Increase(i - 1, i, s)
        /\ Exposes(snapshots[i], s) <=> Exposes(snapshots[i - 1], s)
    BY <1>1
  <2> HIDE DEF f, g
  <2>. QED BY <2>1, <2>2, <2>3, <2>4 DEF Missing
<1>4. f \in [Series -> Int] /\ g \in [Series -> Int]
  BY <1>3
<1>5. MapThenSumSet(
        LAMBDA s : snapshots[i].value[s] - snapshots[i - 1].value[s],
        Series) = SumOf(f, Series)
  BY CpuRateIsSum
<1>6. MapThenSumSet(LAMBDA s : Increase(i - 1, i, s), Series) =
        SumOf(g, Series)
  BY IncreaseIsSum
<1> HIDE DEF f, g
<1>7. SumOf(f, Series) <= SumOf(g, Series)
  BY <1>3, <1>4, SumBelow, SeriesAssumption
<1>. QED BY <1>1, <1>5, <1>6, <1>7

\* The increments of one device in the formal window are a sum of a function.
LEMMA SummedRatesIsSum ==
  ASSUME NEW s, NEW f, NEW W, IsFiniteSet(W),
         W = {i \in DOMAIN snapshots : InWindow(snapshots, i) /\
                                       DeviceRate(snapshots, i, s) # NoRate},
         f = [i \in DOMAIN snapshots |-> DeviceRate(snapshots, i, s)]
  PROVE  SummedRates(snapshots, s) = SumOf(f, W)
<1> DEFINE Sums(w) == w = [v \in SUBSET W |->
                        IF v = {} THEN 0
                        ELSE DeviceRate(snapshots, Taken(v), s)
                             + w[v \ {Taken(v)}]]
           C == CHOOSE w : Sums(w)
<1>1. SummedRates(snapshots, s) = C[W]
  <2>1. SummedRates(snapshots, s) =
          MapThenSumSet(LAMBDA i : DeviceRate(snapshots, i, s), W)
    BY DEF SummedRates
  <2>2. MapThenSumSet(LAMBDA i : DeviceRate(snapshots, i, s), W) = C[W]
    BY DEF MapThenSumSet, MapThenFoldSet, Taken
  <2>. QED BY <2>1, <2>2
<1>2. PICK it : SumsUp(f, W, it)
  BY SumsExist
<1>3. \A v \in SUBSET W : v # {} =>
        f[Taken(v)] = DeviceRate(snapshots, Taken(v), s)
  BY TakenIn
<1>4. Sums(it)
  BY <1>2, <1>3 DEF SumsUp
<1>5. Sums(C)
  BY <1>4
<1>6. SumsUp(f, W, C)
  <2> HIDE DEF C
  <2>. QED BY ONLY <1>3, <1>5 DEF SumsUp
<1> HIDE DEF C
<1>7. SumOf(f, W) = C[W]
  BY <1>6, SumIs
<1>. QED BY <1>1, <1>7

LEMMA SampleIndices ==
  ASSUME MonitorInv, NEW S, S \subseteq DOMAIN snapshots
  PROVE  IsFiniteSet(S) /\ S \subseteq Int
<1>1. DOMAIN snapshots = 1..Len(snapshots) /\ Len(snapshots) \in Nat
  BY SomeSnapshots
<1>2. IsFiniteSet(1..Len(snapshots))
  BY <1>1, FS_Interval
<1>3. IsFiniteSet(S)
  BY <1>1, <1>2, FS_Subset
<1>. QED BY <1>1, <1>3

\* What the window's rates sum up to happened between its first and its last
\* sample: a rate is over two adjacent ones.
LEMMA SummedRatesHonest ==
  ASSUME MonitorInv, NEW s \in Series, NEW inside,
         inside = {i \in DOMAIN snapshots :
                     snapshots[i].ok /\ snapshots[i].mark = "in"}
  PROVE  IF inside = {} THEN SummedRates(snapshots, s) = 0
         ELSE SummedRates(snapshots, s) <=
                Increase(Min(inside), Max(inside), s)
<1> DEFINE W == {i \in DOMAIN snapshots : InWindow(snapshots, i) /\
                                       DeviceRate(snapshots, i, s) # NoRate}
           f == [i \in DOMAIN snapshots |-> DeviceRate(snapshots, i, s)]
           g == [i \in inside |-> snapshots[i].total[s]]
<1>1. /\ IsFiniteSet(W) /\ W \subseteq Int
      /\ IsFiniteSet(inside) /\ inside \subseteq Int
  BY SampleIndices
<1>2. SummedRates(snapshots, s) = SumOf(f, W)
  BY <1>1, SummedRatesIsSum
<1>3. ASSUME NEW i \in W
      PROVE  /\ i \in inside /\ i - 1 \in inside
             /\ DeviceRate(snapshots, i, s) <= Increase(i - 1, i, s)
  <2>1. /\ i > 1 /\ snapshots[i].ok /\ snapshots[i - 1].ok
        /\ snapshots[i].mark = "in" /\ snapshots[i - 1].mark = "in"
        /\ i \in DOMAIN snapshots
    BY <1>3 DEF InWindow
  <2>2. i - 1 \in DOMAIN snapshots /\ i - 1 <= i
    BY <2>1, BaselineIsSample
  <2>3. DeviceRate(snapshots, i, s) \in 0..Increase(i - 1, i, s)
    BY <1>3, RateHonest
  <2>4. Increase(i - 1, i, s) \in Int
    <3>1. /\ snapshots[i].total[s] \in Nat
          /\ snapshots[i - 1].total[s] \in Nat
      BY <2>1, <2>2, SampleFacts
    <3>. QED BY <3>1 DEF Increase
  <2>. QED BY <2>1, <2>2, <2>3, <2>4
<1>4. CASE inside = {}
  <2>1. W = {}
    BY <1>3, <1>4
  <2>. QED BY <1>2, <1>4, <2>1, SumEmpty
<1>5. CASE inside # {}
  <2> DEFINE a == Min(inside)
             b == Max(inside)
  <2>1. /\ a \in inside /\ \A i \in inside : a <= i
        /\ b \in inside /\ \A i \in inside : i <= b
    BY <1>1, <1>5, MaxIsLargest, MinIsSmallest
  <2> HIDE DEF a, b
  <2>2. f \in [DOMAIN snapshots -> Int]
    BY RateHonest
  <2>3. g \in [inside -> Int]
    <3>1. \A i \in inside : snapshots[i].total[s] \in Nat
      BY SampleFacts
    <3>. QED BY <3>1
  <2>4. \A i, j \in inside : i <= j => g[i] <= g[j]
    <3>1. ASSUME NEW i \in inside, NEW j \in inside, i <= j
          PROVE  snapshots[i].total[s] <= snapshots[j].total[s]
      BY <3>1, PairFacts
    <3>. QED BY <3>1
  <2>5. \A i \in W : /\ i - 1 \in inside /\ f[i] <= g[i] - g[i - 1]
                     /\ i \in inside /\ a < i /\ i <= b
    <3>1. ASSUME NEW i \in W
          PROVE  /\ i - 1 \in inside /\ f[i] <= g[i] - g[i - 1]
                 /\ i \in inside /\ a < i /\ i <= b
      <4>1. /\ i \in inside /\ i - 1 \in inside
            /\ DeviceRate(snapshots, i, s) <= Increase(i - 1, i, s)
        BY <3>1, <1>3
      <4>2. f[i] <= g[i] - g[i - 1]
        BY <3>1, <4>1 DEF Increase
      <4>3. a <= i - 1 /\ i <= b /\ i \in Int /\ a \in Int
        BY <1>1, <2>1, <4>1
      <4>. QED BY <4>1, <4>2, <4>3
    <3>. QED BY <3>1
  <2>6. W \subseteq DOMAIN snapshots /\ W \subseteq inside
    BY <1>3
  <2>7. g[b] - g[a] = Increase(a, b, s) /\ a <= b
    BY <2>1 DEF Increase
  <2> HIDE DEF f, g, W
  <2>8. SumOf(f, W) <= g[b] - g[a]
    BY <1>1, <2>1, <2>2, <2>3, <2>4, <2>5, <2>6, <2>7, SumOfSteps
  <2>9. SummedRates(snapshots, s) <= Increase(a, b, s)
    BY <1>2, <2>7, <2>8
  <2>. QED BY <1>5, <2>9 DEF a, b
<1>. QED BY <1>4, <1>5

LEMMA HostRatesHold ==
  ASSUME MonitorInv
  PROVE  HostRates
<1>1. \A i \in DOMAIN snapshots : \A s \in Series :
        DeviceRate(snapshots, i, s) # NoRate =>
          /\ DeviceRate(snapshots, i, s) \in 0..Increase(i - 1, i, s)
          /\ Steady(i - 1, i) =>
               DeviceRate(snapshots, i, s) = Increase(i - 1, i, s)
  BY RateHonest
<1>2. \A i \in DOMAIN snapshots :
        CpuRate(snapshots, i, Series) # NoRate =>
          CpuRate(snapshots, i, Series) <=
            MapThenSumSet(LAMBDA s : Increase(i - 1, i, s), Series)
  BY CpuRateHonest
<1>3. LET inside == {i \in DOMAIN snapshots :
                       snapshots[i].ok /\ snapshots[i].mark = "in"}
      IN  \A s \in Series :
            IF inside = {} THEN SummedRates(snapshots, s) = 0
            ELSE SummedRates(snapshots, s) <=
                   Increase(Min(inside), Max(inside), s)
  BY SummedRatesHonest
<1>. QED BY <1>1, <1>2, <1>3 DEF HostRates

-----------------------------------------------------------------------------
(* The means of the observation window *)

\* The samples that expose a series, and the first and last of those that
\* expose any.
LEMMA ExposingFacts ==
  ASSUME MonitorInv, NEW S, S \subseteq Series, Exposing(snapshots, S) # {}
  PROVE  LET first == Min(Exposing(snapshots, S))
             last == Max(Exposing(snapshots, S))
         IN  /\ first \in Exposing(snapshots, S)
             /\ last \in Exposing(snapshots, S)
             /\ \A i \in Exposing(snapshots, S) :
                  /\ first <= i /\ i <= last /\ i \in Nat
                  /\ i \in DOMAIN snapshots /\ snapshots[i].ok
<1>1. Exposing(snapshots, S) \subseteq DOMAIN snapshots
  BY DEF Exposing
<1>2. /\ IsFiniteSet(Exposing(snapshots, S))
      /\ Exposing(snapshots, S) \subseteq Int
  BY <1>1, SampleIndices
<1>3. \A i \in Exposing(snapshots, S) :
        i \in DOMAIN snapshots /\ snapshots[i].ok /\ i \in Nat
  BY SampleFacts DEF Exposing, Exposes, MonitorInv, SnapshotsOrderly
<1>. QED BY <1>2, <1>3, MaxIsLargest, MinIsSmallest

\* A series without a reset never falls: the first sample that would show it
\* below an earlier one has a predecessor that does not.
LEMMA NoFall ==
  ASSUME MonitorInv, NEW s \in Series, ~WasReset(snapshots, s)
  PROVE  \A i, j \in Exposing(snapshots, {s}) :
           i < j => snapshots[i].value[s] <= snapshots[j].value[s]
<1> DEFINE E == Exposing(snapshots, {s})
<1>1. E \subseteq DOMAIN snapshots /\ \A i \in E : Exposes(snapshots[i], s)
  BY DEF Exposing
<1>2. \A i \in E : snapshots[i].value[s] \in Int /\ i \in Int
  <2>1. \A i \in E : i \in DOMAIN snapshots /\ snapshots[i].ok
    BY <1>1 DEF Exposes
  <2>. QED BY <2>1, SampleFacts DEF Observation
<1>3. ASSUME NEW i \in E, NEW j \in E, i < j,
             \A k \in E : k <= i \/ k >= j
      PROVE  snapshots[i].value[s] <= snapshots[j].value[s]
  <2>1. ~ (snapshots[j].value[s] < snapshots[i].value[s])
    BY <1>3 DEF WasReset
  <2>. QED BY <1>2, <1>3, <2>1
<1> HIDE DEF E
<1>4. ASSUME NEW i \in E, NEW j \in E, i < j,
             ~ (snapshots[i].value[s] <= snapshots[j].value[s])
      PROVE  FALSE
  <2> DEFINE Low == {k \in E : i < k /\
                       ~ (snapshots[i].value[s] <= snapshots[k].value[s])}
             l == Min(Low)
  <2>1. IsFiniteSet(Low) /\ Low \subseteq Int /\ Low # {}
    BY <1>1, <1>4, SampleIndices
  <2>2. l \in Low /\ \A k \in Low : l <= k
    BY <2>1, MinIsSmallest
  <2> HIDE DEF l
  <2> DEFINE Ahead == {k \in E : k < l}
             p == Max(Ahead)
  <2>3. l \in E /\ i < l /\ ~ (snapshots[i].value[s] <= snapshots[l].value[s])
    BY <2>2
  <2>4. IsFiniteSet(Ahead) /\ Ahead \subseteq Int /\ i \in Ahead
    BY <1>1, <1>4, <2>3, SampleIndices
  <2>5. p \in Ahead /\ \A k \in Ahead : k <= p
    BY <2>4, MaxIsLargest
  <2> HIDE DEF p
  <2>6. p \in E /\ p < l /\ i <= p
    BY <2>4, <2>5
  <2>7. \A k \in E : k <= p \/ k >= l
    BY <1>2, <2>3, <2>5
  <2>8. snapshots[p].value[s] <= snapshots[l].value[s]
    BY <1>3, <2>3, <2>6, <2>7
  <2>9. snapshots[i].value[s] <= snapshots[p].value[s]
    <3>1. CASE p = i
      BY <1>2, <1>4, <3>1
    <3>2. CASE p # i
      <4>1. i < p
        BY <1>2, <1>4, <2>6, <3>2
      <4>2. p \notin Low
        BY <1>2, <2>2, <2>3, <2>6
      <4>. QED BY <2>6, <4>1, <4>2
    <3>. QED BY <3>1, <3>2
  <2>10. /\ snapshots[i].value[s] \in Int /\ snapshots[p].value[s] \in Int
         /\ snapshots[l].value[s] \in Int
    BY <1>2, <1>4, <2>3, <2>6
  <2>. QED BY ONLY <2>3, <2>8, <2>9, <2>10
<1>. QED BY <1>4 DEF E

LEMMA KeptHonest ==
  ASSUME MonitorInv, Exposing(snapshots, Series) # {},
         NEW s \in KeptSeries(snapshots, Series),
         NEW first, first = Min(Exposing(snapshots, Series)),
         NEW last, last = Max(Exposing(snapshots, Series))
  PROVE  /\ SeriesDelta(snapshots, Series, s) \in 0..snapshots[last].total[s]
         /\ Exposes(snapshots[first], s) =>
              SeriesDelta(snapshots, Series, s) <= Increase(first, last, s)
         /\ Steady(first, last) /\ restarts = 0 =>
              SeriesDelta(snapshots, Series, s) = Increase(first, last, s)
<1>1. /\ s \in Series /\ Exposes(snapshots[last], s)
      /\ ~WasReset(snapshots, s)
  BY DEF KeptSeries
<1>2. /\ first \in Exposing(snapshots, Series)
      /\ last \in Exposing(snapshots, Series)
      /\ \A i \in Exposing(snapshots, Series) :
           /\ first <= i /\ i <= last /\ i \in Nat
           /\ i \in DOMAIN snapshots /\ snapshots[i].ok
  BY ExposingFacts
<1>3. /\ first \in DOMAIN snapshots /\ last \in DOMAIN snapshots
      /\ snapshots[first].ok /\ snapshots[last].ok
      /\ first <= last /\ first \in Nat /\ last \in Nat
  BY <1>2
<1> DEFINE cf == Counted(snapshots[first], s)
           cl == Counted(snapshots[last], s)
           tf == snapshots[first].total[s]
           tl == snapshots[last].total[s]
<1>4. /\ tf \in Nat /\ tl \in Nat /\ cf \in 0..tf /\ cl \in 0..tl
      /\ restarts = 0 => cf = tf /\ cl = tl
      /\ snapshots[last].value[s] = cl
  BY <1>1, <1>3, SampleFacts
<1>5. tf <= tl /\ cl - cf <= Increase(first, last, s)
  BY <1>1, <1>3, PairFacts
<1>6. Increase(first, last, s) = tl - tf
  BY DEF Increase
<1>7. cf = IF Exposes(snapshots[first], s) THEN snapshots[first].value[s]
           ELSE 0
  BY DEF Counted
<1>8. SeriesDelta(snapshots, Series, s) = cl - cf
  BY <1>4, <1>7 DEF SeriesDelta
<1>9. cf <= cl
  <2>1. CASE Exposes(snapshots[first], s)
    <3>1. /\ first \in Exposing(snapshots, {s})
          /\ last \in Exposing(snapshots, {s})
      BY <1>1, <1>3, <2>1 DEF Exposing
    <3>2. first < last => snapshots[first].value[s] <= snapshots[last].value[s]
      BY <1>1, <3>1, NoFall
    <3>3. CASE first < last
      BY <1>4, <1>7, <2>1, <3>2, <3>3
    <3>4. CASE first = last
      BY <1>4, <3>4
    <3>. QED BY <1>3, <3>3, <3>4
  <2>2. CASE ~Exposes(snapshots[first], s)
    BY <1>4, <1>7, <2>2
  <2>. QED BY <2>1, <2>2
<1> HIDE DEF cf, cl, tf
<1>. QED BY <1>4, <1>5, <1>6, <1>8, <1>9

\* A throughput is never overstated, whatever was restarted.
LEMMA ThroughputHonest ==
  ASSUME MonitorInv, Exposing(snapshots, Series) # {}, NEW s \in Series,
         CounterIncrease(snapshots, s) # NoRate,
         NEW first, first = Min(Exposing(snapshots, Series)),
         NEW last, last = Max(Exposing(snapshots, Series))
  PROVE  CounterIncrease(snapshots, s) <= Increase(first, last, s)
<1> DEFINE E == Exposing(snapshots, {s})
           a == Min(E)
           b == Max(E)
<1>1. E # {}
  BY DEF CounterIncrease
<1>2. /\ first \in Exposing(snapshots, Series)
      /\ last \in Exposing(snapshots, Series)
      /\ \A i \in Exposing(snapshots, Series) :
           /\ first <= i /\ i <= last /\ i \in Nat
           /\ i \in DOMAIN snapshots /\ snapshots[i].ok
  BY ExposingFacts
<1>3. /\ a \in E /\ b \in E /\ a <= b
  BY <1>1, ExposingFacts
<1>4. E \subseteq Exposing(snapshots, Series)
  BY DEF Exposing
<1>5. /\ first <= a /\ a <= b /\ b <= last
      /\ a \in DOMAIN snapshots /\ b \in DOMAIN snapshots
      /\ first \in DOMAIN snapshots /\ last \in DOMAIN snapshots
      /\ snapshots[a].ok /\ snapshots[b].ok
      /\ snapshots[first].ok /\ snapshots[last].ok
  BY <1>2, <1>3, <1>4
<1>6. Exposes(snapshots[a], s) /\ Exposes(snapshots[b], s)
  BY <1>3 DEF Exposing
<1>7. CounterIncrease(snapshots, s) =
        IF snapshots[b].value[s] < snapshots[a].value[s] THEN 0
        ELSE snapshots[b].value[s] - snapshots[a].value[s]
  BY <1>1 DEF CounterIncrease
<1> HIDE DEF a, b, E
<1>8. /\ snapshots[a].value[s] = Counted(snapshots[a], s)
      /\ snapshots[b].value[s] = Counted(snapshots[b], s)
      /\ Counted(snapshots[a], s) \in Nat /\ Counted(snapshots[b], s) \in Nat
      /\ snapshots[a].total[s] \in Nat /\ snapshots[b].total[s] \in Nat
      /\ snapshots[first].total[s] \in Nat /\ snapshots[last].total[s] \in Nat
  BY <1>5, <1>6, SampleFacts
<1>9. /\ snapshots[first].total[s] <= snapshots[a].total[s]
      /\ snapshots[b].total[s] <= snapshots[last].total[s]
      /\ snapshots[a].total[s] <= snapshots[b].total[s]
      /\ Counted(snapshots[b], s) - Counted(snapshots[a], s) <=
           Increase(a, b, s)
  BY <1>5, PairFacts
<1>. QED BY <1>7, <1>8, <1>9 DEF Increase

LEMMA WindowMeansHold ==
  ASSUME MonitorInv
  PROVE  WindowMeans
<1>. SUFFICES ASSUME Exposing(snapshots, Series) # {},
                     NEW first, first = Min(Exposing(snapshots, Series)),
                     NEW last, last = Max(Exposing(snapshots, Series))
     PROVE
        /\ \A s \in KeptSeries(snapshots, Series) :
             /\ SeriesDelta(snapshots, Series, s)
                  \in 0..snapshots[last].total[s]
             /\ Exposes(snapshots[first], s) =>
                  SeriesDelta(snapshots, Series, s) <= Increase(first, last, s)
             /\ Steady(first, last) /\ restarts = 0 =>
                  SeriesDelta(snapshots, Series, s) = Increase(first, last, s)
             /\ \A i, j \in Exposing(snapshots, {s}) :
                  i < j => snapshots[i].value[s] <= snapshots[j].value[s]
        /\ \A s \in Series : CounterIncrease(snapshots, s) # NoRate =>
             CounterIncrease(snapshots, s) <= Increase(first, last, s)
  BY DEF WindowMeans
<1>1. ASSUME NEW s \in KeptSeries(snapshots, Series)
      PROVE  /\ SeriesDelta(snapshots, Series, s)
                  \in 0..snapshots[last].total[s]
             /\ Exposes(snapshots[first], s) =>
                  SeriesDelta(snapshots, Series, s) <= Increase(first, last, s)
             /\ Steady(first, last) /\ restarts = 0 =>
                  SeriesDelta(snapshots, Series, s) = Increase(first, last, s)
  BY <1>1, KeptHonest
<1>2. ASSUME NEW s \in KeptSeries(snapshots, Series)
      PROVE  \A i, j \in Exposing(snapshots, {s}) :
               i < j => snapshots[i].value[s] <= snapshots[j].value[s]
  <2>1. s \in Series /\ ~WasReset(snapshots, s)
    BY <1>2 DEF KeptSeries
  <2>. QED BY <2>1, NoFall
<1>3. ASSUME NEW s \in Series, CounterIncrease(snapshots, s) # NoRate
      PROVE  CounterIncrease(snapshots, s) <= Increase(first, last, s)
  BY <1>3, ThroughputHonest
<1>. QED BY <1>1, <1>2, <1>3

(***************************************************************************)
(* No rate of the host and no mean or throughput of the observation window *)
(* is of anything that did not happen, whatever restarted, vanished or     *)
(* failed in between (host_monitor.py:117-236,                             *)
(* service_observation.py:47-226).                                         *)
(***************************************************************************)
THEOREM DifferencesCorrect == Spec => []DifferencesTrue
<1>1. MonitorInv => DifferencesTrue
  BY HostRatesHold, WindowMeansHold DEF DifferencesTrue
<1>. QED BY <1>1, MonitorsInvariant, PTL
=============================================================================
