---------------------------- MODULE Conversation ----------------------------
(***************************************************************************)
(* Sessions of several turns against an online chat service:               *)
(* generation_performance/multi_turn_serving.py, and the request of each   *)
(* turn in online_serving.py.                                              *)
(*                                                                         *)
(* A session sends one turn after the other, in a thread of its own; the   *)
(* sessions share the admission of runtime/request_scheduler.py, of which  *)
(* only the limit on active requests, the request budget and the stop are  *)
(* here, and the tracker of active requests.  The service replies with one *)
(* of a few streams.  Messages are abstracted to their tokens: one for a   *)
(* message of the user, and one for each event of content in a reply.      *)
(***************************************************************************)
EXTENDS SessionMetrics

CONSTANTS
  Sessions,       \* the sessions, numbered as their samples
  MaxTurns,       \* multi_max_turns, and the turns in the data
  Streams,        \* what the service may reply
  Hits,           \* cached tokens it may report; None: it does not say
  OutputBudget,   \* output_tokens
  ModelLimit,     \* max_model_len
  Capacity,       \* effective request capacity
  RequestBudget,  \* num_requests of the profile
  Slo,            \* goodput objectives
  Threshold,      \* circuit_breaker
  BreakerSamples  \* successes below which there is no P99; ten in the code

ASSUME SessionsAssumption == IsFiniteSet(Sessions) /\ Sessions \subseteq Nat
ASSUME LimitsAssumption ==
  /\ {MaxTurns, OutputBudget, Capacity, BreakerSamples} \subseteq Nat \ {0}
  /\ {ModelLimit, RequestBudget, Threshold} \subseteq Nat
ASSUME HitsAssumption == Hits \subseteq Counts
\* Of a completion, the service counts a token for each event of content.
ASSUME StreamsAssumption ==
  \A stream \in Streams :
    /\ stream \in Seq(StreamLines)
    /\ LET seen == CollectChat(stream)
       IN  seen.usage # NoUsage => Len(seen.content) <= seen.usage.output

VARIABLES
  pc,        \* where each session is in evaluate()
  planned,   \* planned_turns
  turn,
  history,   \* tokens of each message
  completed, \* completed turns
  abort,     \* abort_reason
  ticket,    \* the request in flight: its record once it has one
  admitted,  \* scheduler: requests so far
  inFlight,  \* scheduler: sessions with a request
  tracked,   \* tracker: active and peak
  stopped,   \* the user asked to stop
  requests,  \* request_records
  shared     \* history: prompt tokens of successful turns of each session
             \* that repeat what it had sent or received before

caseVars == <<admitted, inFlight, stopped, requests>>
sessionVars == <<pc, planned, turn, history, completed, abort, ticket>>
vars == <<sessionVars, caseVars, tracked, shared>>

Idle == FailedRecord(0, 0, 0)

Init ==
  /\ pc = [s \in Sessions |-> "turn"]
  /\ planned \in [Sessions -> 1..MaxTurns]
  /\ turn = [s \in Sessions |-> 0]
  /\ history = [s \in Sessions |-> <<>>]
  /\ completed = [s \in Sessions |-> 0]
  /\ abort = [s \in Sessions |-> "none"]
  /\ ticket = [s \in Sessions |-> Idle]
  /\ admitted = 0 /\ inFlight = {} /\ stopped = FALSE /\ requests = <<>>
  /\ tracked = [active |-> 0, peak |-> 0]
  /\ shared = [s \in Sessions |-> 0]

End(s, reason) ==
  /\ abort' = [abort EXCEPT ![s] = reason]
  /\ pc' = [pc EXCEPT ![s] = "over"]

-----------------------------------------------------------------------------
(* One session: evaluate() *)

\* _context_overflow: the history that would be sent and the output budget.
Overflows(messages) == Total(messages) + OutputBudget > ModelLimit

\* A turn that was sent and failed is not also a turn that was not started.
SentFailed(s) ==
  IF abort[s] \in {"turn_failed", "reasoning_only", "no_output"} THEN 1 ELSE 0

\* The facts evaluate() returns.
Facts(s) ==
  [status |-> IF completed[s] = planned[s] THEN "success" ELSE "failed",
   planned |-> planned[s], completed |-> completed[s], abort |-> abort[s],
   sentFailed |-> SentFailed(s),
   notStarted |-> planned[s] - completed[s] - SentFailed(s)]

\* The head of the loop: the session's time is up, or the next message makes
\* the prompt too long, or the turn is ready.
TakeTurn(s) ==
  /\ pc[s] = "turn"
  /\ \/ /\ End(s, "session_timeout")
        /\ UNCHANGED history
     \/ /\ history' = [history EXCEPT ![s] = Append(@, 1)]
        /\ IF Overflows(history'[s]) THEN End(s, "context_overflow")
           ELSE /\ pc' = [pc EXCEPT ![s] = "asking"]
                /\ UNCHANGED abort
  /\ UNCHANGED <<planned, turn, completed, ticket, caseVars, tracked,
                 shared>>

\* AdmissionStopped leaves no facts, only the requests so far.
Interrupt(s) ==
  /\ pc[s] = "asking"
  /\ stopped \/ admitted >= RequestBudget
  /\ pc' = [pc EXCEPT ![s] = "interrupted"]
  /\ UNCHANGED <<planned, turn, history, completed, abort, ticket, caseVars,
                 tracked, shared>>

Admit(s) ==
  /\ pc[s] = "asking"
  /\ ~stopped /\ admitted < RequestBudget
  /\ Cardinality(inFlight) < Capacity
  /\ admitted' = admitted + 1
  /\ inFlight' = inFlight \cup {s}
  /\ pc' = [pc EXCEPT ![s] = "admitted"]
  /\ UNCHANGED <<planned, turn, history, completed, abort, ticket, stopped,
                 requests, tracked, shared>>

\* execute_request: tracker.enter, and the request goes out.
Enter(s) ==
  /\ pc[s] = "admitted"
  /\ tracked' = [active |-> tracked.active + 1,
                 peak |-> Max({tracked.peak, tracked.active + 1})]
  /\ pc' = [pc EXCEPT ![s] = "sent"]
  /\ UNCHANGED <<planned, turn, history, completed, abort, ticket, caseVars,
                 shared>>

\* Tokens of the prompt that the session has sent or received before.
Repeated(s) == Total(SubSeq(history[s], 1, Len(history[s]) - 1))

\* The usage a service reports is that of this prompt.  What it calls cached
\* it may have seen in this session, in another or in the warmup, on a first
\* turn too; nothing here bounds it.
Reported(s, seen) ==
  IF seen.usage = NoUsage THEN {seen}
  ELSE {[seen EXCEPT !.usage.input = Total(history[s]),
                     !.usage.cached = cached] : cached \in Hits}

\* The stream is collected, drained and closed; tracker.exit comes last,
\* whatever failed.
Receive(s) ==
  /\ pc[s] = "sent"
  /\ \E stream \in Streams : \E seen \in Reported(s, CollectChat(stream)) :
       ticket' = [ticket EXCEPT ![s] =
                    BuildRecord(seen, 0, 1, Last(stream).time)]
  /\ tracked' = [tracked EXCEPT !.active = @ - 1]
  /\ pc' = [pc EXCEPT ![s] = "received"]
  /\ UNCHANGED <<planned, turn, history, completed, abort, caseVars, shared>>

\* Slip: the session goes on after a reply without content.
GoOnAnyway(s) ==
  IF ticket[s].status # "success" THEN "turn_failed" ELSE "none"

\* Why the session cannot go on after this reply.
Verdict(s) ==
  IF ticket[s].status # "success" THEN "turn_failed"
  ELSE IF ticket[s].hasContent THEN "none"
  ELSE IF ticket[s].hasReasoning THEN "reasoning_only" ELSE "no_output"

\* RequestScheduler.run records the request; the session carries the reply
\* forward, waits its think time and takes the next turn, or ends.
Release(s) ==
  /\ pc[s] = "received"
  /\ inFlight' = inFlight \ {s}
  /\ requests' = Append(requests, [session |-> s, turn |-> turn[s],
                                   status |-> ticket[s].status,
                                   response |-> ticket[s]])
  /\ shared' = [shared EXCEPT ![s] = @ + IF ticket[s].status = "success"
                                         THEN Repeated(s) ELSE 0]
  /\ ticket' = [ticket EXCEPT ![s] = Idle]
  /\ IF Verdict(s) # "none"
     THEN End(s, Verdict(s)) /\ UNCHANGED <<completed, history, turn>>
     ELSE /\ completed' = [completed EXCEPT ![s] = @ + 1]
          /\ history' = [history EXCEPT
                           ![s] = Append(@, Len(ticket[s].content))]
          /\ turn' = [turn EXCEPT ![s] = @ + 1]
          /\ pc' = [pc EXCEPT ![s] = IF turn[s] + 1 < planned[s] THEN "turn"
                                     ELSE "over"]
          /\ UNCHANGED abort
  /\ UNCHANGED <<planned, admitted, stopped, tracked>>

Interruption ==
  /\ ~stopped /\ stopped' = TRUE
  /\ UNCHANGED <<sessionVars, admitted, inFlight, requests, tracked, shared>>

Over == \A s \in Sessions : pc[s] \in {"over", "interrupted"}
Done == Over /\ UNCHANGED vars

Next ==
  \/ \E s \in Sessions : \/ TakeTurn(s) \/ Interrupt(s) \/ Admit(s)
                         \/ Enter(s) \/ Receive(s) \/ Release(s)
  \/ Interruption \/ Done

Spec == Init /\ [][Next]_vars

-----------------------------------------------------------------------------
(* The end of a Case: stop_after *)

\* Slip: the latency of every turn counts.
AllTurns(all) == Responses(SuccessfulRows(all))

FirstTurns(all) ==
  Responses(SelectSeq(SuccessfulRows(all), LAMBDA r : r.turn = 0))

\* case_p99_e2el_ms: None for few samples.
CaseP99(responses) ==
  IF Len(responses) < BreakerSamples THEN None
  ELSE Percentile([i \in DOMAIN responses |-> responses[i].e2el], 990)

\* check_stop_constraints: more than one request in two failed.
TooManyErrors(all) ==
  2 * (Len(all) - Len(SuccessfulRows(all))) > Len(all)

StopAfter(all) ==
  IF CaseP99(FirstTurns(all)) > 1000 * Threshold
  THEN "circuit_breaker_exceeded"
  ELSE IF TooManyErrors(all) THEN "max_error_rate_exceeded" ELSE "none"
=============================================================================
