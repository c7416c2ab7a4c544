--------------------- MODULE EvaluationSessionProperties ---------------------
(***************************************************************************)
(* What the collection of a Case guarantees, over EvaluationSession.tla,   *)
(* and the inductive invariant behind it.                                  *)
(***************************************************************************)
EXTENDS EvaluationSession, RequestSchedulerProperties

CollectionOver == pool \in {"ended", "decided", "aborted"}

NothingInFlight ==
  /\ \A c \in Calls : pc[c] \in Final \cup {"outside"}
  /\ active = Cardinality({c \in Calls : pc[c] = "leaked"})
  /\ count = MapThenSumSet(LAMBDA c : Cost[c], Admitted)

EventsBounded ==
  Cardinality({c \in Calls : pc[c] \in {"running", "releasing", "released"}})
    <= Capacity

(***************************************************************************)
(* When the collection is over, also because a row could not be written,   *)
(* nothing of it is still under way: no request is in flight, every slot   *)
(* is free but those lost to a start event that could not be written, and  *)
(* the admitted count is what the admitted requests add up to              *)
(* (evaluation_session.py:164-186; "waits for requests in flight", README).*)
(* And in the event log, too, no more requests are under way than the      *)
(* capacity allows: request_finished is written after the slot is free     *)
(* again, but the sample that would use the slot is only submitted after   *)
(* the one that held it is over (evaluation_session.py:162-185,            *)
(* request_scheduler.py:135, 171).                                         *)
(***************************************************************************)
CollectionDrains == (CollectionOver => NothingInFlight) /\ EventsBounded

CutShortHonest ==
  \A s \in rows :
    /\ state[s] = "not_started" =>
         \A c \in CallsMade(s) \cap Admitted : pc[c] = "leaked"
    /\ state[s] = "incomplete" => CallsMade(s) \cap Admitted # {}

RefusalFinal ==
  \A s \in Samples : \A i, j \in 1..made[s] :
    /\ i < j
    /\ pc[Asks[s][i]] = "refused"
    /\ Cost[Asks[s][j]] >= Cost[Asks[s][i]]
    => Asks[s][j] \notin Admitted

(***************************************************************************)
(* A sample reported as not started has spent nothing of the budget, but   *)
(* for requests whose start could not be written, and one reported as      *)
(* incomplete has, whatever its scenario caught.  And what cut it short is *)
(* final: a scenario that catches AdmissionStopped and                     *)
(* asks again, for as much, is refused again, so that a conversation never *)
(* resumes after a gap (evaluation_session.py:86-106, 131-146,             *)
(* request_scheduler.py:71-88, 101).                                       *)
(***************************************************************************)
RowsHonest == CutShortHonest /\ RefusalFinal

(***************************************************************************)
(* What a finished window says of itself is true.  "data_exhausted", which *)
(* it reports when no reason was recorded, means that every sample has a   *)
(* row and none was cut short, unless a batch of it did not fit into what  *)
(* was left of the budget: that refusal records no reason.  And a          *)
(* collection that the user's interrupt cut short is never called          *)
(* complete, though one is looked at without a lock before the other       *)
(* (evaluation_session.py:307, 361, request_scheduler.py:72, 101).         *)
(***************************************************************************)
Misfit(s) ==
  \E c \in CallsMade(s) :
    pc[c] = "refused" /\ Cost[c] > 1 /\ Unaffordable(c)

WindowHonest ==
  /\ pool = "decided" /\ reason = "none" =>
       /\ rows = Samples
       /\ \A s \in rows : state[s] \in {"complete", "failed"} \/ Misfit(s)
  /\ complete => reason # "user_interrupt"

(***************************************************************************)
(* Every collection comes to an end (evaluation_session.py:164-186).       *)
(***************************************************************************)
CollectionEnds == <>(pool \in {"decided", "aborted"})

-----------------------------------------------------------------------------
(***************************************************************************)
(* The inductive invariant behind them.                                    *)
(***************************************************************************)

\* What the scheduler adds to it: the count is what the admitted calls cost,
\* and a refusal that recorded no reason is of a batch that did not fit.
CountAddsUp == count = MapThenSumSet(LAMBDA c : Cost[c], Admitted)

LooksHold ==
  \A c \in Calls : pc[c] = "assign" /\ assigning[c] = "none" => ~BudgetSpent

Refused(c) == reason # "none" \/ (Cost[c] > 1 /\ Unaffordable(c))
RefusalsFounded == \A c \in Calls : pc[c] = "refused" => Refused(c)

SessionShape ==
  /\ pool \in {"looking", "pulling", "waiting", "aborting", "aborted",
               "ended", "decided"}
  /\ exhausted \in BOOLEAN /\ complete \in BOOLEAN
  /\ pulled \in 0..Cardinality(Samples)
  /\ futures \subseteq 1..pulled /\ rows \subseteq 1..pulled
  /\ stage \in [Samples -> {"unpulled", "submitted", "evaluating", "asking",
                            "returned", "crashed"}]
  /\ made \in [Samples -> Nat]
  /\ state \in [Samples -> {"none", "complete", "failed", "incomplete",
                            "not_started"}]

\* The pool never has more futures than the capacity, and room for one when it
\* looks for another sample; it ends when nothing is pending or to come.
PoolOrderly ==
  /\ Cardinality(futures) <= Capacity
  /\ pool \in {"looking", "pulling"} =>
       ~exhausted /\ Cardinality(futures) < Capacity
  /\ pool \in {"ended", "decided"} => exhausted /\ futures = {}
  /\ exhausted => reason # "none" \/ pulled = Cardinality(Samples)
  /\ complete => pool = "decided" /\ reason # "user_interrupt"

\* Every sample that was pulled is pending until its row is taken, and its
\* thread runs only as long as it is pending.
SamplesOrderly ==
  /\ pool \notin {"aborting", "aborted"} => rows \cup futures = 1..pulled
  /\ pool = "aborted" => Finished = futures
  /\ \A s \in Samples :
       /\ s <= pulled <=> stage[s] # "unpulled"
       /\ stage[s] \in {"submitted", "evaluating", "asking"} => s \in futures
       /\ stage[s] \in {"unpulled", "submitted"} => made[s] = 0
       /\ s \in rows => stage[s] = "returned"

\* A sample makes its requests one after the other.
RequestsOrderly ==
  /\ \A s \in Samples :
       /\ made[s] <= Len(Asks[s])
       /\ stage[s] = "asking" => made[s] > 0
       /\ \A i \in DOMAIN Asks[s] :
            /\ i < made[s] => pc[Asks[s][i]] \in Final
            /\ i = made[s] /\ stage[s] # "asking" => pc[Asks[s][i]] \in Final
            /\ i > made[s] => pc[Asks[s][i]] = "outside"
  /\ \A c \in Calls :
       pc[c] \notin Final \cup {"outside"} =>
         \E s \in Samples : stage[s] = "asking" /\ c = Current(s)

\* The row of a sample is one of those its requests leave it.
RowsFounded ==
  \A s \in Samples : stage[s] = "returned" => state[s] \in RowStates(s)

\* After a refusal no request for as much even gets to the slots.
RefusalsFinal ==
  \A s \in Samples : \A i, j \in 1..made[s] :
    /\ i < j
    /\ pc[Asks[s][i]] = "refused"
    /\ Cost[Asks[s][j]] >= Cost[Asks[s][i]]
    => Asks[s][j] \notin Admitted /\ pc[Asks[s][j]] # "decide"

SessionInv ==
  /\ IInv
  /\ CountAddsUp /\ LooksHold /\ RefusalsFounded
  /\ SessionShape
  /\ PoolOrderly /\ SamplesOrderly /\ RequestsOrderly
  /\ RowsFounded /\ RefusalsFinal
=============================================================================
