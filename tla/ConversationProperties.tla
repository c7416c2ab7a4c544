----------------------- MODULE ConversationProperties -----------------------
(***************************************************************************)
(* What the sessions of a multi-turn Case guarantee, over                  *)
(* Conversation.tla, and the invariant behind the first of it.             *)
(***************************************************************************)
EXTENDS Conversation

Ended == {s \in Sessions : pc[s] = "over"}

\* The requests of a session, by their places in what was recorded.
RequestsOf(s) == {i \in DOMAIN requests : requests[i].session = s}

Answered(i) == requests[i].status = "success" /\ requests[i].response.hasContent

\* A session's facts and its requests tell the same: every turn was
\* completed, was sent and failed, or was not started; one request was made
\* for each turn of the first two kinds and for no other, in the order of the
\* turns, and those of the completed turns alone were answered; and what the
\* tracker counted never exceeds the requests in flight
\* (multi_turn_serving.py:429-550, online_serving.py:28-60).
SessionAccounting ==
  /\ \A s \in Ended :
       LET facts == Facts(s)
           mine == RequestsOf(s)
       IN  /\ facts.notStarted >= 0
           /\ facts.notStarted > 0 => facts.abort # "none"
           /\ Cardinality(mine) = facts.completed + facts.sentFailed
           /\ {requests[i].turn : i \in mine}
                = 0..(facts.completed + facts.sentFailed - 1)
           /\ \A i, j \in mine : i < j => requests[i].turn < requests[j].turn
           /\ \A i \in mine :
                Answered(i) <=> requests[i].turn < facts.completed
  /\ tracked.active <= Cardinality(inFlight) /\ tracked.peak <= Capacity
  /\ Over => tracked.active = 0 /\ inFlight = {}

SharedTotal == SumOver(shared, Sessions)

AllMeasured ==
  \A i \in DOMAIN requests :
    requests[i].status = "success" => requests[i].response.input # None

\* No hit of a successful turn went beyond what its own session had sent or
\* received before: its prompt without the new message.
OwnHits ==
  \A i \in MeasuredTurns(requests) :
    LET response == requests[i].response
    IN  CachedOf(response) <= response.input - 1

\* Whatever a service reports as cached, the ceiling of prefix caching in the
\* report lies between what the sessions really repeated and what they sent,
\* though replies carry tokens that are not carried forward, sessions end at
\* any turn and their requests are recorded in any order; so a rate above one
\* tells of hits on what the session itself never sent.  The lower bound takes
\* a usage in every successful turn; without, the tokens of a hit are still
\* prompt tokens (common/session_metrics.py:232-359).
CacheCeiling ==
  Over =>
    LET view == PrefixCacheView(requests)
    IN  /\ view.eligible <= view.prompt
        /\ view.cached <= view.prompt
        /\ AllMeasured =>
             /\ view.eligible >= SharedTotal
             /\ OwnHits => view.cached <= view.eligible

\* Whatever the service replied, the report of a finished Case can be made, and
\* its parts add up: each request has one outcome under the objectives, in the
\* phase counts and among the reported waits; the views by session, by turn and
\* by context tell of the same requests; and the circuit breaker goes by first
\* turns alone, and only by enough of them (online_serving.py:409-742,
\* common/session_metrics.py:98-506, multi_turn_serving.py:573-606).
ReportAddsUp ==
  Over /\ requests # <<>> =>
    LET records == Responses(requests)
        service == ServiceView(records, 1, Slo, tracked.peak)
        view == RequestView(records)
        phases == PhaseMetric(records, TRUE)
        cache == PrefixCacheView(requests)
        ended == SetToSeq(Ended)
        sessions == SessionView([i \in DOMAIN ended |-> Facts(ended[i])])
        turns == TurnView(requests)
        caching == CachingView(requests)
        ofEnded == SelectSeq(requests, LAMBDA r : r.session \in Ended)
        goodput == service.goodput
        first == SelectSeq(SuccessfulRows(requests), LAMBDA r : r.turn = 0)
        slow == SelectSeq(first, LAMBDA r : r.response.e2el > Threshold)
    IN  /\ \A i \in DOMAIN records : ~Refused(records[i])
        /\ goodput.satisfied + goodput.violated + goodput.undetermined
              = service.successful
        /\ goodput.determined + goodput.undetermined = service.total
        /\ service.outputTokens # None => goodput.tokens <= service.outputTokens
        /\ phases.eligible + Total([i \in 1..4 |-> phases.excluded[
              <<"failed", "truncated", "missing_finish", "other_finish">>[i]]])
              = phases.total
        /\ view.waits.count <= service.queueReported
        /\ service.queueReported + service.queueMissing = service.successful
        /\ turns.observed = service.successful
        /\ PressureView(requests).total = cache.prompt
        /\ 0 \in DOMAIN turns.byTurn =>
             caching.first = turns.byTurn[0].ttft.mean
        /\ caching.rest = NoRatio => caching.perTurn = NoRatio
        /\ sessions.finished
             + MapThenSumSet(LAMBDA r : sessions.reasons[r], DOMAIN sessions.reasons)
               = Len(ended)
        /\ ended # <<>> =>
             Len(ofEnded) = sessions.completed.mean[1] + sessions.sentFailed
        /\ StopAfter(requests) = "circuit_breaker_exceeded" =>
             Len(first) >= BreakerSamples /\ slow # <<>>
        /\ Len(first) >= BreakerSamples /\ slow = first =>
             StopAfter(requests) = "circuit_breaker_exceeded"

-----------------------------------------------------------------------------
(* The inductive invariant behind SessionAccounting *)

Reasons == {"session_timeout", "context_overflow", "turn_failed",
            "reasoning_only", "no_output", "none"}

SessionShape ==
  /\ pc \in [Sessions -> {"turn", "asking", "admitted", "sent", "received",
                          "over", "interrupted"}]
  /\ planned \in [Sessions -> Nat]
  /\ turn \in [Sessions -> Nat] /\ completed \in [Sessions -> Nat]
  /\ abort \in [Sessions -> Reasons]
  /\ DOMAIN ticket = Sessions
  /\ requests \in Seq(Range(requests))
  /\ tracked \in [active : Nat, peak : Nat]

\* Who has a request, and who is counted by the tracker.
FlightKept ==
  /\ inFlight = {s \in Sessions : pc[s] \in {"admitted", "sent", "received"}}
  /\ tracked.active = Cardinality({s \in Sessions : pc[s] = "sent"})
  /\ Cardinality(inFlight) <= Capacity /\ tracked.peak <= Capacity

\* A session goes on while no turn was given up; it is over with all of its
\* turns or with a reason.
TurnsKept ==
  \A s \in Sessions :
    /\ turn[s] = completed[s] /\ completed[s] <= planned[s]
    /\ pc[s] # "over" => abort[s] = "none" /\ completed[s] < planned[s]
    /\ pc[s] = "over" => (abort[s] = "none" <=> completed[s] = planned[s])

\* The requests made so far are those of the turns so far.
RequestsKept ==
  \A s \in Sessions :
    /\ Cardinality(RequestsOf(s)) = completed[s] + SentFailed(s)
    /\ {requests[i].turn : i \in RequestsOf(s)}
         = 0..(completed[s] + SentFailed(s) - 1)
    /\ \A i, j \in RequestsOf(s) : i < j => requests[i].turn < requests[j].turn
    /\ \A i \in RequestsOf(s) : Answered(i) <=> requests[i].turn < completed[s]

ConversationInv == SessionShape /\ FlightKept /\ TurnsKept /\ RequestsKept

-----------------------------------------------------------------------------
(* The inductive invariant behind CacheCeiling *)

\* A reply to a prompt of so many tokens.
Fits(response, prompt) ==
  /\ Len(response.content) \in Nat
  /\ response.input # None =>
       /\ response.input = prompt /\ prompt \in Nat \ {0}
       /\ response.output \in Nat /\ Len(response.content) <= response.output
       /\ response.cached \in Counts

RepliesKept ==
  \A i \in DOMAIN requests :
    /\ requests[i].session \in Sessions /\ requests[i].turn \in Nat
    /\ requests[i].status = "success" =>
         Fits(requests[i].response, requests[i].response.input)

\* What a session has sent and received before its next message.
Kept(s) == IF pc[s] = "turn" THEN Total(history[s]) ELSE Repeated(s)

\* It grows from turn to turn with the message and the reply.
KeptOf(s) ==
  pc[s] \notin {"over", "interrupted"} =>
    /\ history[s] \in Seq(Nat) /\ Kept(s) \in Nat
    /\ pc[s] # "turn" => Total(history[s]) = Kept(s) + 1
    /\ completed[s] = 0 => Kept(s) = 0
    /\ \A i \in RequestsOf(s) \cap MeasuredTurns(requests) :
         requests[i].turn = completed[s] - 1 =>
           Kept(s) = requests[i].response.input + Len(requests[i].response.content)
    /\ pc[s] = "received" /\ ticket[s].status = "success" =>
         Fits(ticket[s], Total(history[s]))

HistoryKept == DOMAIN history = Sessions /\ \A s \in Sessions : KeptOf(s)

PromptsKept ==
  \A i \in MeasuredTurns(requests) :
    /\ requests[i].turn = 0 => requests[i].response.input = 1
    /\ \A j \in MeasuredTurns(requests) :
         /\ requests[j].session = requests[i].session
         /\ requests[j].turn = requests[i].turn + 1
         => requests[j].response.input =
              requests[i].response.input + Len(requests[i].response.content) + 1

SharedKept ==
  /\ shared \in [Sessions -> Nat]
  /\ AllMeasured =>
       SharedTotal = SumOver([i \in MeasuredTurns(requests) |->
                                requests[i].response.input - 1],
                             MeasuredTurns(requests))

CeilingInv ==
  ConversationInv /\ RepliesKept /\ HistoryKept /\ PromptsKept /\ SharedKept
=============================================================================
