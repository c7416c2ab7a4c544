------------------------- MODULE ConversationProofs -------------------------
(***************************************************************************)
(* Proofs about the sessions of a multi-turn Case, for any finite set of   *)
(* sessions, any replies of the service, and any limits.                   *)
(***************************************************************************)
EXTENDS ConversationProperties, FiniteSetTheorems, SequenceTheorems, TLAPS

INSTANCE Folding WITH Op <- +
Reading == INSTANCE Folding WITH Op <- ReadLine
Bytes == INSTANCE Folding WITH Op <- EatByte
Chunks == INSTANCE Folding WITH Op <- EatChunk
Pieces == INSTANCE Folding WITH Op <- \o
AddText(text, byte) == IF byte \in {"cr", "lf"} THEN text ELSE Append(text, byte)
Texts == INSTANCE Folding WITH Op <- AddText
Thoughts == INSTANCE Folding WITH Op <- CountToken

LEMMA LimitsAreNumbers == Capacity \in Nat \ {0} /\ MaxTurns \in Nat \ {0}
BY LimitsAssumption

LEMMA UpToFinite == ASSUME NEW n \in Nat PROVE IsFiniteSet(1..n)
BY FS_Interval

LEMMA MaxOfTwo ==
  ASSUME NEW a \in Nat, NEW b \in Nat, NEW c \in Nat, a <= c, b <= c
  PROVE  Max({a, b}) \in Nat /\ Max({a, b}) <= c
<1>1. IsFiniteSet({a, b})
  <2>1. IsFiniteSet({b})
    BY FS_Singleton
  <2>2. IsFiniteSet({b} \cup {a})
    BY <2>1, FS_AddElement
  <2>3. {b} \cup {a} = {a, b}
    OBVIOUS
  <2>. QED BY <2>2, <2>3
<1>2. Max({a, b}) \in {a, b}
  BY <1>1, MaxIsLargest
<1>. QED BY <1>2

-----------------------------------------------------------------------------
(* The requests *)

LEMMA RequestAppended ==
  ASSUME requests \in Seq(Range(requests)), NEW r,
         requests' = Append(requests, r)
  PROVE  /\ Len(requests) \in Nat
         /\ DOMAIN requests = 1..Len(requests)
         /\ DOMAIN requests' = 1..(Len(requests) + 1)
         /\ requests'[Len(requests) + 1] = r
         /\ \A i \in 1..Len(requests) : requests'[i] = requests[i]
         /\ requests' \in Seq(Range(requests'))
<1> DEFINE T == Range(requests) \cup {r}
           n == Len(requests)
<1>1. requests \in Seq(T)
  <2>1. n \in Nat /\ requests \in [1..n -> Range(requests)]
    OBVIOUS
  <2>2. requests \in [1..n -> T]
    BY <2>1
  <2> HIDE DEF T
  <2>. QED BY <2>1, <2>2
<1>2. r \in T
  OBVIOUS
<1> HIDE DEF T
<1>3. /\ n \in Nat /\ DOMAIN requests = 1..n
      /\ requests' \in Seq(T) /\ Len(requests') = n + 1
      /\ DOMAIN requests' = 1..(n + 1)
      /\ requests'[n + 1] = r
      /\ \A i \in 1..n : requests'[i] = requests[i]
  BY <1>1, <1>2
<1>4. requests' \in Seq(Range(requests'))
  <2>1. requests' \in [1..(n + 1) -> T]
    <3>1. requests' \in [1..Len(requests') -> T]
      BY <1>3, LenProperties
    <3>. QED BY <1>3, <3>1
  <2>2. \A i \in 1..(n + 1) : requests'[i] \in Range(requests')
    BY <1>3 DEF Range
  <2>3. requests' = [i \in 1..(n + 1) |-> requests'[i]]
    BY <2>1
  <2>4. requests' \in [1..(n + 1) -> Range(requests')]
    <3> DEFINE R == Range(requests')
    <3>1. \A i \in 1..(n + 1) : requests'[i] \in R
      BY <2>2
    <3> HIDE DEF R
    <3>2. requests' \in [1..(n + 1) -> R]
      BY <2>3, <3>1
    <3>. QED BY <3>2 DEF R
  <2>5. n + 1 \in Nat
    BY <1>3
  <2> DEFINE R == Range(requests')
  <2>6. requests' \in [1..(n + 1) -> R]
    BY <2>4
  <2> HIDE DEF R
  <2>7. requests' \in Seq(R)
    BY ONLY <2>5, <2>6
  <2>. QED BY <2>7 DEF R
<1>. QED BY <1>3, <1>4

\* The places of a session's requests.
LEMMA PlacesAreFinite ==
  ASSUME requests \in Seq(Range(requests)), NEW s
  PROVE  /\ IsFiniteSet(RequestsOf(s))
         /\ RequestsOf(s) \subseteq 1..Len(requests)
         /\ Len(requests) \in Nat
<1>1. Len(requests) \in Nat /\ DOMAIN requests = 1..Len(requests)
  OBVIOUS
<1>2. RequestsOf(s) \subseteq 1..Len(requests)
  BY <1>1 DEF RequestsOf
<1>3. IsFiniteSet(1..Len(requests))
  BY <1>1, UpToFinite
<1>. QED BY <1>1, <1>2, <1>3, FS_Subset

\* A step that records nothing and gives up no turn that was sent.
LEMMA RequestsRest ==
  ASSUME RequestsKept, UNCHANGED <<requests, completed>>,
         \A s \in Sessions : SentFailed(s)' = SentFailed(s)
  PROVE  RequestsKept'
<1>1. \A s : RequestsOf(s)' = RequestsOf(s)
  BY DEF RequestsOf
<1>2. \A i : Answered(i)' <=> Answered(i)
  BY DEF Answered
<1>. QED BY <1>1, <1>2 DEF RequestsKept

-----------------------------------------------------------------------------
(* The steps *)

LEMMA InitConversation ==
  ASSUME Init
  PROVE  ConversationInv
<1>1. SessionShape
  <2>1. planned \in [Sessions -> Nat]
    BY LimitsAreNumbers DEF Init
  <2>2. requests \in Seq(Range(requests))
    BY DEF Init
  <2>3. tracked \in [active : Nat, peak : Nat]
    BY DEF Init
  <2>. QED BY <2>1, <2>2, <2>3 DEF Init, SessionShape, Reasons
<1>2. FlightKept
  <2>1. /\ inFlight = {s \in Sessions :
                         pc[s] \in {"admitted", "sent", "received"}}
        /\ {s \in Sessions : pc[s] = "sent"} = {} /\ inFlight = {}
    BY DEF Init
  <2>2. Cardinality({}) = 0
    BY FS_EmptySet
  <2>3. tracked.active = 0 /\ tracked.peak = 0
    BY DEF Init
  <2>. QED BY <2>1, <2>2, <2>3, LimitsAreNumbers DEF FlightKept
<1>3. TurnsKept
  BY LimitsAreNumbers DEF Init, TurnsKept
<1>4. RequestsKept
  <2>1. \A s : RequestsOf(s) = {}
    BY DEF Init, RequestsOf
  <2>2. Cardinality({}) = 0
    BY FS_EmptySet
  <2>3. \A s \in Sessions : completed[s] = 0 /\ SentFailed(s) = 0
    BY DEF Init, SentFailed
  <2>4. 0..(0 + 0 - 1) = {}
    OBVIOUS
  <2>. QED BY <2>1, <2>2, <2>3, <2>4 DEF RequestsKept
<1>. QED BY <1>1, <1>2, <1>3, <1>4 DEF ConversationInv

\* What a session in flight holds.
LEMMA FlightIsFinite ==
  ASSUME ConversationInv
  PROVE  /\ IsFiniteSet(inFlight) /\ Cardinality(inFlight) \in Nat
         /\ IsFiniteSet({s \in Sessions : pc[s] = "sent"})
         /\ Cardinality({s \in Sessions : pc[s] = "sent"}) \in Nat
         /\ {s \in Sessions : pc[s] = "sent"} \subseteq inFlight
<1>1. inFlight \subseteq Sessions
  BY DEF ConversationInv, FlightKept
<1>2. {s \in Sessions : pc[s] = "sent"} \subseteq inFlight
  BY DEF ConversationInv, FlightKept
<1>3. IsFiniteSet(inFlight)
  BY <1>1, FS_Subset, SessionsAssumption
<1>4. IsFiniteSet({s \in Sessions : pc[s] = "sent"})
  BY <1>2, <1>3, FS_Subset
<1>. QED BY <1>2, <1>3, <1>4, FS_CardinalityType

LEMMA TakeTurnKeeps ==
  ASSUME ConversationInv, NEW s \in Sessions, TakeTurn(s)
  PROVE  ConversationInv'
<1>1. /\ pc[s] = "turn"
      /\ UNCHANGED <<planned, turn, completed, ticket, admitted, inFlight,
                     stopped, requests, tracked>>
      /\ \/ /\ pc' = [pc EXCEPT ![s] = "over"]
            /\ \E why \in {"session_timeout", "context_overflow"} :
                 abort' = [abort EXCEPT ![s] = why]
         \/ pc' = [pc EXCEPT ![s] = "asking"] /\ abort' = abort
  BY DEF TakeTurn, End, caseVars
<1>2. SessionShape'
  <2>1. SessionShape
    BY DEF ConversationInv
  <2>2. abort' \in [Sessions -> Reasons]
    BY ONLY <1>1, <2>1 DEF SessionShape, Reasons
  <2>3. pc' \in [Sessions -> {"turn", "asking", "admitted", "sent", "received",
                              "over", "interrupted"}]
    BY ONLY <1>1, <2>1 DEF SessionShape
  <2>. QED BY ONLY <1>1, <2>1, <2>2, <2>3 DEF SessionShape
<1>3. FlightKept'
  <2>1. /\ {u \in Sessions : pc'[u] = "sent"} =
             {u \in Sessions : pc[u] = "sent"}
        /\ {u \in Sessions : pc'[u] \in {"admitted", "sent", "received"}} =
             {u \in Sessions : pc[u] \in {"admitted", "sent", "received"}}
    BY <1>1 DEF ConversationInv, SessionShape
  <2>. QED BY <1>1, <2>1 DEF ConversationInv, FlightKept
<1>4. TurnsKept'
  BY <1>1 DEF ConversationInv, SessionShape, TurnsKept
<1>5. \A u \in Sessions : SentFailed(u)' = SentFailed(u)
  BY <1>1 DEF ConversationInv, SessionShape, TurnsKept, SentFailed
<1>6. RequestsKept'
  BY <1>1, <1>5, RequestsRest DEF ConversationInv
<1>. QED BY <1>2, <1>3, <1>4, <1>6 DEF ConversationInv

\* The steps in which a request changes its place, but nothing is recorded.
LEMMA RequestStepKeeps ==
  ASSUME ConversationInv, NEW s \in Sessions,
         pc[s] \in {"asking", "admitted", "sent"},
         \E to \in {"interrupted", "admitted", "sent", "received"} :
           pc' = [pc EXCEPT ![s] = to],
         UNCHANGED <<planned, turn, completed, abort, requests>>,
         DOMAIN ticket' = Sessions,
         tracked' \in [active : Nat, peak : Nat],
         FlightKept'
  PROVE  ConversationInv'
<1>1. SessionShape'
  BY DEF ConversationInv, SessionShape
<1>2. TurnsKept'
  BY DEF ConversationInv, SessionShape, TurnsKept
<1>3. \A u \in Sessions : SentFailed(u)' = SentFailed(u)
  BY DEF SentFailed
<1>4. RequestsKept'
  BY <1>3, RequestsRest DEF ConversationInv
<1>. QED BY <1>1, <1>2, <1>4 DEF ConversationInv

LEMMA InterruptKeeps ==
  ASSUME ConversationInv, NEW s \in Sessions, Interrupt(s)
  PROVE  ConversationInv'
<1>1. /\ pc[s] = "asking" /\ pc' = [pc EXCEPT ![s] = "interrupted"]
      /\ UNCHANGED <<planned, turn, completed, abort, ticket, inFlight,
                     requests, tracked>>
  BY DEF Interrupt, caseVars
<1>2. FlightKept'
  <2>1. /\ {u \in Sessions : pc'[u] = "sent"} =
             {u \in Sessions : pc[u] = "sent"}
        /\ {u \in Sessions : pc'[u] \in {"admitted", "sent", "received"}} =
             {u \in Sessions : pc[u] \in {"admitted", "sent", "received"}}
    BY <1>1 DEF ConversationInv, SessionShape
  <2>. QED BY <1>1, <2>1 DEF ConversationInv, FlightKept
<1>3. DOMAIN ticket' = Sessions /\ tracked' \in [active : Nat, peak : Nat]
  BY <1>1 DEF ConversationInv, SessionShape
<1>4. /\ pc[s] \in {"asking", "admitted", "sent"}
      /\ pc' = [pc EXCEPT ![s] = "interrupted"]
      /\ UNCHANGED <<planned, turn, completed, abort, requests>>
  BY <1>1
<1>. QED BY <1>2, <1>3, <1>4, RequestStepKeeps

LEMMA AdmitKeeps ==
  ASSUME ConversationInv, NEW s \in Sessions, Admit(s)
  PROVE  ConversationInv'
<1>1. /\ pc[s] = "asking" /\ pc' = [pc EXCEPT ![s] = "admitted"]
      /\ Cardinality(inFlight) < Capacity /\ inFlight' = inFlight \cup {s}
      /\ UNCHANGED <<planned, turn, completed, abort, ticket, requests,
                     tracked>>
  BY DEF Admit
<1>2. FlightKept'
  <2>1. /\ {u \in Sessions : pc'[u] = "sent"} =
             {u \in Sessions : pc[u] = "sent"}
        /\ {u \in Sessions : pc'[u] \in {"admitted", "sent", "received"}} =
             {u \in Sessions : pc[u] \in {"admitted", "sent", "received"}}
               \cup {s}
    BY <1>1 DEF ConversationInv, SessionShape
  <2>2. s \notin inFlight
    BY <1>1 DEF ConversationInv, FlightKept
  <2>3. IsFiniteSet(inFlight) /\ Cardinality(inFlight) \in Nat
    BY FlightIsFinite
  <2>4. Cardinality(inFlight') = Cardinality(inFlight) + 1
    BY <1>1, <2>2, <2>3, FS_AddElement
  <2>5. Cardinality(inFlight') <= Capacity
    BY <1>1, <2>3, <2>4, LimitsAreNumbers
  <2>. QED BY <1>1, <2>1, <2>5 DEF ConversationInv, FlightKept
<1>3. DOMAIN ticket' = Sessions /\ tracked' \in [active : Nat, peak : Nat]
  BY <1>1 DEF ConversationInv, SessionShape
<1>. QED BY <1>1, <1>2, <1>3, RequestStepKeeps

LEMMA EnterKeeps ==
  ASSUME ConversationInv, NEW s \in Sessions, Enter(s)
  PROVE  ConversationInv'
<1> DEFINE Sent == {u \in Sessions : pc[u] = "sent"}
<1>1. /\ pc[s] = "admitted" /\ pc' = [pc EXCEPT ![s] = "sent"]
      /\ tracked' = [active |-> tracked.active + 1,
                     peak |-> Max({tracked.peak, tracked.active + 1})]
      /\ UNCHANGED <<planned, turn, completed, abort, ticket, requests,
                     inFlight>>
  BY DEF Enter, caseVars
<1>2. /\ IsFiniteSet(Sent) /\ Cardinality(Sent) \in Nat
      /\ Sent \subseteq inFlight
      /\ IsFiniteSet(inFlight) /\ Cardinality(inFlight) \in Nat
  BY FlightIsFinite
<1>3. /\ tracked.active = Cardinality(Sent) /\ tracked.peak \in Nat
      /\ tracked.peak <= Capacity /\ Cardinality(inFlight) <= Capacity
      /\ s \in inFlight /\ s \notin Sent
  BY <1>1 DEF ConversationInv, FlightKept, SessionShape
<1>4. /\ {u \in Sessions : pc'[u] = "sent"} = Sent \cup {s}
      /\ {u \in Sessions : pc'[u] \in {"admitted", "sent", "received"}} =
           {u \in Sessions : pc[u] \in {"admitted", "sent", "received"}}
  BY <1>1 DEF ConversationInv, SessionShape
<1> HIDE DEF Sent
<1>5. Cardinality(Sent \cup {s}) = Cardinality(Sent) + 1
  BY <1>2, <1>3, FS_AddElement
<1>6. Cardinality(Sent \cup {s}) <= Cardinality(inFlight)
  <2>1. Sent \cup {s} \subseteq inFlight
    BY <1>2, <1>3
  <2>. QED BY <1>2, <2>1, FS_Subset
<1>7. tracked.active + 1 \in Nat /\ tracked.active + 1 <= Capacity
  BY <1>2, <1>3, <1>5, <1>6, LimitsAreNumbers
<1>8. /\ Max({tracked.peak, tracked.active + 1}) \in Nat
      /\ Max({tracked.peak, tracked.active + 1}) <= Capacity
  BY <1>3, <1>7, MaxOfTwo, LimitsAreNumbers
<1>9. FlightKept'
  <2>1. /\ tracked'.active = Cardinality({u \in Sessions : pc'[u] = "sent"})
        /\ tracked'.peak <= Capacity
    BY <1>1, <1>3, <1>4, <1>5, <1>8
  <2>. QED BY <1>1, <1>4, <2>1 DEF ConversationInv, FlightKept
<1>10. DOMAIN ticket' = Sessions /\ tracked' \in [active : Nat, peak : Nat]
  BY <1>1, <1>7, <1>8 DEF ConversationInv, SessionShape
<1>. QED BY <1>1, <1>9, <1>10, RequestStepKeeps

LEMMA ReceiveKeeps ==
  ASSUME ConversationInv, NEW s \in Sessions, Receive(s)
  PROVE  ConversationInv'
<1> DEFINE Sent == {u \in Sessions : pc[u] = "sent"}
<1>1. /\ pc[s] = "sent" /\ pc' = [pc EXCEPT ![s] = "received"]
      /\ tracked' = [tracked EXCEPT !.active = @ - 1]
      /\ UNCHANGED <<planned, turn, completed, abort, requests, inFlight>>
      /\ \E record : ticket' = [ticket EXCEPT ![s] = record]
  BY DEF Receive, caseVars
<1>2. /\ IsFiniteSet(Sent) /\ Cardinality(Sent) \in Nat
  BY FlightIsFinite
<1>3. /\ tracked.active = Cardinality(Sent) /\ s \in Sent
      /\ tracked \in [active : Nat, peak : Nat]
  BY <1>1 DEF ConversationInv, FlightKept, SessionShape
<1>4. /\ {u \in Sessions : pc'[u] = "sent"} = Sent \ {s}
      /\ {u \in Sessions : pc'[u] \in {"admitted", "sent", "received"}} =
           {u \in Sessions : pc[u] \in {"admitted", "sent", "received"}}
  BY <1>1 DEF ConversationInv, SessionShape
<1> HIDE DEF Sent
<1>5. /\ Cardinality(Sent \ {s}) = Cardinality(Sent) - 1
      /\ Cardinality(Sent \ {s}) \in Nat
  <2>1. IsFiniteSet(Sent \ {s}) /\ Cardinality(Sent \ {s}) =
                                     Cardinality(Sent) - 1
    BY <1>2, <1>3, FS_RemoveElement
  <2>. QED BY <2>1, FS_CardinalityType
<1>6. /\ tracked'.active = Cardinality(Sent \ {s})
      /\ tracked'.peak = tracked.peak
      /\ tracked' \in [active : Nat, peak : Nat]
  BY <1>1, <1>3, <1>5
<1>7. FlightKept'
  BY <1>1, <1>4, <1>6 DEF ConversationInv, FlightKept
<1>8. DOMAIN ticket' = Sessions
  BY <1>1 DEF ConversationInv, SessionShape
<1>9. /\ pc[s] \in {"asking", "admitted", "sent"}
      /\ pc' = [pc EXCEPT ![s] = "received"]
      /\ UNCHANGED <<planned, turn, completed, abort, requests>>
  BY <1>1
<1>. QED BY <1>6, <1>7, <1>8, <1>9, RequestStepKeeps

\* The request of the turn is recorded; the turn was completed or it is the
\* last one.
LEMMA ReleaseKeeps ==
  ASSUME ConversationInv, NEW s \in Sessions, Release(s)
  PROVE  ConversationInv'
<1> PICK n : n = Len(requests)
  OBVIOUS
<1> DEFINE r == [session |-> s, turn |-> turn[s], status |-> ticket[s].status,
                 response |-> ticket[s]]
           good == ticket[s].status = "success" /\ ticket[s].hasContent
<1>1. /\ pc[s] = "received"
      /\ inFlight' = inFlight \ {s} /\ requests' = Append(requests, r)
      /\ ticket' = [ticket EXCEPT ![s] = Idle]
      /\ UNCHANGED <<planned, tracked>>
  BY DEF Release
<1>2. /\ good <=> Verdict(s) = "none"
      /\ ~good => Verdict(s) \in {"turn_failed", "reasoning_only",
                                  "no_output"}
  BY DEF Verdict
<1>3. \/ /\ good
         /\ completed' = [completed EXCEPT ![s] = @ + 1]
         /\ turn' = [turn EXCEPT ![s] = @ + 1]
         /\ pc' = [pc EXCEPT ![s] = IF turn[s] + 1 < planned[s] THEN "turn"
                                    ELSE "over"]
         /\ UNCHANGED abort
      \/ /\ ~good
         /\ abort' = [abort EXCEPT ![s] = Verdict(s)]
         /\ pc' = [pc EXCEPT ![s] = "over"]
         /\ UNCHANGED <<completed, turn>>
  <2>1. CASE Verdict(s) # "none"
    BY <1>2, <2>1 DEF Release, End
  <2>2. CASE Verdict(s) = "none"
    BY <1>2, <2>2 DEF Release
  <2>. QED BY <2>1, <2>2
<1> HIDE DEF good
<1>4. /\ pc \in [Sessions -> {"turn", "asking", "admitted", "sent",
                              "received", "over", "interrupted"}]
      /\ planned \in [Sessions -> Nat]
      /\ turn \in [Sessions -> Nat] /\ completed \in [Sessions -> Nat]
      /\ abort \in [Sessions -> Reasons]
      /\ DOMAIN ticket = Sessions
      /\ requests \in Seq(Range(requests))
      /\ tracked \in [active : Nat, peak : Nat]
  BY DEF ConversationInv, SessionShape
<1>5. /\ turn[s] = completed[s] /\ completed[s] < planned[s]
      /\ abort[s] = "none" /\ SentFailed(s) = 0
  BY <1>1 DEF ConversationInv, TurnsKept, SentFailed
<1>6. /\ n \in Nat /\ DOMAIN requests = 1..n
      /\ DOMAIN requests' = 1..(n + 1)
      /\ requests'[n + 1] = r
      /\ \A i \in 1..n : requests'[i] = requests[i]
      /\ requests' \in Seq(Range(requests'))
  BY <1>1, <1>4, RequestAppended
<1> HIDE DEF r
<1>7. SessionShape'
  <2>1. \A u : u = Verdict(s) /\ ~good => u \in Reasons
    BY <1>2 DEF Reasons
  <2>2. abort' \in [Sessions -> Reasons]
    BY <1>3, <1>4, <2>1
  <2>3. /\ turn' \in [Sessions -> Nat] /\ completed' \in [Sessions -> Nat]
        /\ pc' \in [Sessions -> {"turn", "asking", "admitted", "sent",
                                 "received", "over", "interrupted"}]
    <3>1. CASE good
      <4>1. IF turn[s] + 1 < planned[s]
            THEN pc' = [pc EXCEPT ![s] = "turn"]
            ELSE pc' = [pc EXCEPT ![s] = "over"]
        BY <1>3, <3>1
      <4>2. turn' \in [Sessions -> Nat] /\ completed' \in [Sessions -> Nat]
        <5>1. /\ turn' = [turn EXCEPT ![s] = @ + 1]
              /\ completed' = [completed EXCEPT ![s] = @ + 1]
          BY <1>3, <3>1
        <5>2. turn[s] + 1 \in Nat /\ completed[s] + 1 \in Nat
          BY <1>4
        <5>3. turn' \in [Sessions -> Nat]
          BY <1>4, <5>1, <5>2
        <5>4. completed' \in [Sessions -> Nat]
          BY <1>4, <5>1, <5>2
        <5>. QED BY <5>3, <5>4
      <4>3. CASE turn[s] + 1 < planned[s]
        BY <1>4, <4>1, <4>2, <4>3
      <4>4. CASE ~(turn[s] + 1 < planned[s])
        BY <1>4, <4>1, <4>2, <4>4
      <4>. QED BY <4>3, <4>4
    <3>2. CASE ~good
      BY <1>3, <1>4, <3>2
    <3>. QED BY <3>1, <3>2
  <2>4. DOMAIN ticket' = Sessions
    BY <1>1, <1>4
  <2>. QED BY <1>1, <1>4, <1>6, <2>2, <2>3, <2>4 DEF SessionShape
<1>8. FlightKept'
  <2>1. /\ {u \in Sessions : pc'[u] = "sent"} =
             {u \in Sessions : pc[u] = "sent"}
        /\ {u \in Sessions : pc'[u] \in {"admitted", "sent", "received"}} =
             {u \in Sessions : pc[u] \in {"admitted", "sent", "received"}}
               \ {s}
    BY <1>1, <1>3, <1>4
  <2>2. Cardinality(inFlight \ {s}) <= Cardinality(inFlight)
    BY FlightIsFinite, FS_Subset
  <2>3. Cardinality(inFlight \ {s}) \in Nat
    <3>1. IsFiniteSet(inFlight \ {s})
      BY FlightIsFinite, FS_Subset
    <3>. QED BY <3>1, FS_CardinalityType
  <2>4. Cardinality(inFlight') <= Capacity
    BY <1>1, <2>2, <2>3, FlightIsFinite, LimitsAreNumbers
       DEF ConversationInv, FlightKept
  <2>. QED BY <1>1, <2>1, <2>4 DEF ConversationInv, FlightKept
<1>9. TurnsKept'
  <2>1. ASSUME NEW u \in Sessions, u # s
        PROVE  /\ turn'[u] = turn[u] /\ completed'[u] = completed[u]
               /\ pc'[u] = pc[u] /\ abort'[u] = abort[u]
    BY <1>3, <1>4, <2>1
  <2>2. /\ turn'[s] = completed'[s] /\ completed'[s] <= planned[s]
        /\ pc'[s] # "over" => abort'[s] = "none" /\ completed'[s] < planned[s]
        /\ pc'[s] = "over" => (abort'[s] = "none" <=>
                                 completed'[s] = planned[s])
    <3>1. CASE good
      BY <1>3, <1>4, <1>5, <3>1
    <3>2. CASE ~good
      BY <1>2, <1>3, <1>4, <1>5, <3>2
    <3>. QED BY <3>1, <3>2
  <2>. QED BY <1>1, <2>1, <2>2 DEF ConversationInv, TurnsKept
<1>10. RequestsKept'
  <2>1. r.session = s /\ r.turn = turn[s] /\ r.status = ticket[s].status
        /\ r.response = ticket[s]
    BY DEF r
  <2>2. Answered(n + 1)' <=> good
    BY <1>6, <2>1 DEF Answered, good
  <2>3. \A i \in 1..n : Answered(i)' <=> Answered(i)
    BY <1>6 DEF Answered
  <2>4. ASSUME NEW u \in Sessions, u # s
        PROVE  /\ RequestsOf(u)' = RequestsOf(u)
               /\ completed'[u] = completed[u] /\ SentFailed(u)' = SentFailed(u)
    <3>1. RequestsOf(u)' = RequestsOf(u)
      BY <1>6, <2>1, <2>4 DEF RequestsOf
    <3>. QED BY <1>3, <1>4, <2>4, <3>1 DEF SentFailed
  <2>5. ASSUME NEW u \in Sessions, u # s
        PROVE  /\ Cardinality(RequestsOf(u)') = completed'[u] + SentFailed(u)'
               /\ {requests'[i].turn : i \in RequestsOf(u)'}
                    = 0..(completed'[u] + SentFailed(u)' - 1)
               /\ \A i, j \in RequestsOf(u)' :
                    i < j => requests'[i].turn < requests'[j].turn
               /\ \A i \in RequestsOf(u)' :
                    Answered(i)' <=> requests'[i].turn < completed'[u]
    <3>1. RequestsOf(u) \subseteq 1..n
      BY <1>4, PlacesAreFinite
    <3>2. \A i \in RequestsOf(u) : requests'[i] = requests[i]
      BY <1>6, <3>1
    <3>3. {requests'[i].turn : i \in RequestsOf(u)} =
            {requests[i].turn : i \in RequestsOf(u)}
      BY <3>2
    <3>. QED BY <2>3, <2>4, <2>5, <3>1, <3>2, <3>3
             DEF ConversationInv, RequestsKept
  <2>6. /\ Cardinality(RequestsOf(s)') = completed'[s] + SentFailed(s)'
        /\ {requests'[i].turn : i \in RequestsOf(s)'}
             = 0..(completed'[s] + SentFailed(s)' - 1)
        /\ \A i, j \in RequestsOf(s)' :
             i < j => requests'[i].turn < requests'[j].turn
        /\ \A i \in RequestsOf(s)' :
             Answered(i)' <=> requests'[i].turn < completed'[s]
    <3> DEFINE Old == RequestsOf(s)
               k == completed[s]
    <3>1. /\ Cardinality(Old) = k
          /\ {requests[i].turn : i \in Old} = 0..(k - 1)
          /\ \A i, j \in Old : i < j => requests[i].turn < requests[j].turn
          /\ \A i \in Old : Answered(i) <=> requests[i].turn < k
      BY <1>4, <1>5 DEF ConversationInv, RequestsKept
    <3>2. IsFiniteSet(Old) /\ Old \subseteq 1..n /\ k \in Nat
      BY <1>4, PlacesAreFinite
    <3>3. RequestsOf(s)' = Old \cup {n + 1} /\ n + 1 \notin Old
      BY <1>6, <2>1, <3>2 DEF RequestsOf
    <3>4. /\ completed'[s] + SentFailed(s)' = k + 1
          /\ completed'[s] = IF good THEN k + 1 ELSE k
      <4>1. CASE good
        BY <1>3, <1>4, <1>5, <4>1 DEF SentFailed
      <4>2. CASE ~good
        BY <1>2, <1>3, <1>4, <1>5, <4>2 DEF SentFailed
      <4>. QED BY <4>1, <4>2
    <3> HIDE DEF Old, k
    <3>5. requests'[n + 1].turn = k /\ \A i \in Old : requests'[i] = requests[i]
      BY <1>5, <1>6, <2>1, <3>2 DEF k
    <3>6. Cardinality(Old \cup {n + 1}) = k + 1
      BY <3>1, <3>2, <3>3, FS_AddElement
    <3>7. \A i \in Old : requests[i].turn \in 0..(k - 1)
      BY <3>1
    <3>8. {requests'[i].turn : i \in Old \cup {n + 1}} = 0..k
      <4>1. {requests'[i].turn : i \in Old \cup {n + 1}} =
              {requests[i].turn : i \in Old} \cup {k}
        BY <3>5
      <4>2. 0..(k - 1) \cup {k} = 0..k
        BY <3>2
      <4>. QED BY <3>1, <4>1, <4>2
    <3>9. \A i, j \in Old \cup {n + 1} :
            i < j => requests'[i].turn < requests'[j].turn
      BY <1>6, <3>1, <3>2, <3>5, <3>7
    <3>10. \A i \in Old \cup {n + 1} :
             Answered(i)' <=> requests'[i].turn < completed'[s]
      <4>1. ASSUME NEW i \in Old
            PROVE  Answered(i)' <=> requests'[i].turn < completed'[s]
        <5>1. Answered(i)' <=> Answered(i)
          BY <2>3, <3>2, <4>1
        <5>2. Answered(i) /\ requests'[i].turn \in 0..(k - 1)
          BY <3>1, <3>2, <3>5, <3>7, <4>1
        <5>. QED BY <3>2, <3>4, <5>1, <5>2
      <4>2. Answered(n + 1)' <=> requests'[n + 1].turn < completed'[s]
        BY <2>2, <3>2, <3>4, <3>5
      <4>. QED BY <4>1, <4>2
    <3>11. completed'[s] \in Nat /\ SentFailed(s)' \in Nat
      BY <3>2, <3>4 DEF SentFailed
    <3>12. /\ Cardinality(RequestsOf(s)') = k + 1
           /\ {requests'[i].turn : i \in RequestsOf(s)'} = 0..k
           /\ \A i, j \in RequestsOf(s)' :
                i < j => requests'[i].turn < requests'[j].turn
           /\ \A i \in RequestsOf(s)' :
                Answered(i)' <=> requests'[i].turn < completed'[s]
      BY <3>3, <3>6, <3>8, <3>9, <3>10
    <3>13. completed'[s] + SentFailed(s)' - 1 = k
      BY <3>2, <3>4, <3>11
    <3>. QED BY <3>4, <3>12, <3>13
  <2>7. \A u \in Sessions : u = s \/ u # s
    OBVIOUS
  <2>. QED BY <2>5, <2>6, <2>7 DEF RequestsKept
<1>. QED BY <1>7, <1>8, <1>9, <1>10 DEF ConversationInv

LEMMA ConversationRests ==
  ASSUME ConversationInv, UNCHANGED <<sessionVars, inFlight, requests, tracked>>
  PROVE  ConversationInv'
<1>1. SessionShape' /\ TurnsKept' /\ FlightKept'
  BY DEF ConversationInv, SessionShape, TurnsKept, FlightKept, sessionVars
<1>2. \A u \in Sessions : SentFailed(u)' = SentFailed(u)
  BY DEF SentFailed, sessionVars
<1>3. RequestsKept'
  BY <1>2, RequestsRest DEF ConversationInv, sessionVars
<1>. QED BY <1>1, <1>3 DEF ConversationInv

LEMMA NextConversation ==
  ASSUME ConversationInv, [Next]_vars
  PROVE  ConversationInv'
<1>1. CASE UNCHANGED vars \/ Done \/ Interruption
  BY <1>1, ConversationRests DEF vars, caseVars, Done, Interruption
<1>2. ASSUME NEW s \in Sessions,
             \/ TakeTurn(s) \/ Interrupt(s) \/ Admit(s)
             \/ Enter(s) \/ Receive(s) \/ Release(s)
      PROVE  ConversationInv'
  BY <1>2, TakeTurnKeeps, InterruptKeeps, AdmitKeeps, EnterKeeps,
     ReceiveKeeps, ReleaseKeeps
<1>. QED BY <1>1, <1>2 DEF Next

(***************************************************************************)
(* The requests recorded for a session are those of its turns so far, in   *)
(* their order, and the tracker counts the requests that are on their way. *)
(***************************************************************************)
THEOREM ConversationInvariant == Spec => []ConversationInv
<1>. QED BY InitConversation, NextConversation, PTL DEF Spec

(***************************************************************************)
(* For any number of sessions, whatever the service replies and wherever   *)
(* the budget, the limits, a timeout or an interrupt end a session, its    *)
(* facts account for every planned turn by the requests that were made     *)
(* (multi_turn_serving.py:429-550, online_serving.py:28-60).               *)
(***************************************************************************)
THEOREM AccountingCorrect == Spec => []SessionAccounting
<1>1. ASSUME ConversationInv
      PROVE  SessionAccounting
  <2>1. ASSUME NEW s \in Ended
        PROVE  LET facts == Facts(s)
                   mine == RequestsOf(s)
               IN  /\ facts.notStarted >= 0
                   /\ facts.notStarted > 0 => facts.abort # "none"
                   /\ Cardinality(mine) = facts.completed + facts.sentFailed
                   /\ {requests[i].turn : i \in mine}
                        = 0..(facts.completed + facts.sentFailed - 1)
                   /\ \A i, j \in mine :
                        i < j => requests[i].turn < requests[j].turn
                   /\ \A i \in mine :
                        Answered(i) <=> requests[i].turn < facts.completed
    <3>1. s \in Sessions /\ pc[s] = "over"
      BY <2>1 DEF Ended
    <3>2. /\ completed[s] \in Nat /\ planned[s] \in Nat
          /\ completed[s] <= planned[s]
          /\ abort[s] = "none" <=> completed[s] = planned[s]
      BY <1>1, <3>1 DEF ConversationInv, SessionShape, TurnsKept
    <3>3. SentFailed(s) \in {0, 1} /\ (abort[s] = "none" => SentFailed(s) = 0)
      BY DEF SentFailed
    <3>4. /\ Facts(s).completed = completed[s]
          /\ Facts(s).sentFailed = SentFailed(s)
          /\ Facts(s).abort = abort[s]
          /\ Facts(s).notStarted = planned[s] - completed[s] - SentFailed(s)
      BY DEF Facts
    <3>5. Facts(s).notStarted >= 0
      BY <3>2, <3>3, <3>4
    <3>6. Facts(s).notStarted > 0 => Facts(s).abort # "none"
      BY <3>2, <3>3, <3>4
    <3>. QED BY <1>1, <3>1, <3>4, <3>5, <3>6
             DEF ConversationInv, RequestsKept
  <2>2. tracked.active <= Cardinality(inFlight) /\ tracked.peak <= Capacity
    <3>1. /\ IsFiniteSet(inFlight)
          /\ {s \in Sessions : pc[s] = "sent"} \subseteq inFlight
      BY <1>1, FlightIsFinite
    <3>2. Cardinality({s \in Sessions : pc[s] = "sent"}) <=
            Cardinality(inFlight)
      BY <3>1, FS_Subset
    <3>. QED BY <1>1, <3>2 DEF ConversationInv, FlightKept
  <2>3. Over => tracked.active = 0 /\ inFlight = {}
    <3>1. SUFFICES ASSUME Over PROVE tracked.active = 0 /\ inFlight = {}
      OBVIOUS
    <3>2. inFlight = {} /\ {s \in Sessions : pc[s] = "sent"} = {}
      BY <1>1, <3>1 DEF Over, ConversationInv, FlightKept
    <3>3. Cardinality({}) = 0
      BY FS_EmptySet
    <3>. QED BY <1>1, <3>2, <3>3 DEF ConversationInv, FlightKept
  <2>. QED BY <2>1, <2>2, <2>3 DEF SessionAccounting
<1>. QED BY <1>1, ConversationInvariant, PTL

-----------------------------------------------------------------------------
(* What is collected from a stream *)

LEMMA SumsAreFolds ==
  ASSUME NEW f, NEW S PROVE SumOver(f, S) = SumOf(f, S)
BY DEF SumOver, SumOf

LEMMA LinesAreFolded ==
  ASSUME NEW stream
  PROVE  FoldLeft(ReadLine, Opened, stream) = Reading!FoldOf(Opened, stream)
BY DEF Reading!FoldOf, Reading!FoldUpTo, Reading!Max, FoldLeft, MapThenFoldSet,
       Max

\* Observations; an event has an output in one of the channels.
Seen ==
  {seen \in [state : {"reading", "ended", "error", "observed"},
             events : Seq(Nat), content : Seq(Nat), reasoning : Seq(Nat),
             usage : Usages, queue : Counts, finish : Finishes] :
     seen.content = <<>> /\ seen.reasoning = <<>> => seen.events = <<>>}

LEMMA ReadLineKeeps ==
  ASSUME NEW seen \in Seen, NEW line \in StreamLines
  PROVE  ReadLine(seen, line) \in Seen
<1>1. CASE seen.state # "reading" \/ line.kind = "noise"
  BY <1>1 DEF ReadLine
<1>2. CASE seen.state = "reading" /\ line.kind \in {"broken", "done", "cut"}
  BY <1>2 DEF ReadLine, Seen
<1>3. CASE seen.state = "reading" /\ line.kind = "payload"
  <2>1. /\ line.time \in Nat /\ line.thought \in BOOLEAN
        /\ line.content \in BOOLEAN /\ line.finish \in Finishes
        /\ line.usage \in Usages /\ line.queue \in Counts
    BY <1>3 DEF StreamLines
  <2>2. \A times \in Seq(Nat) : /\ Append(times, line.time) \in Seq(Nat)
                                /\ Append(times, line.time) # <<>>
    <3>1. line.time \in Nat
      BY <2>1
    <3>2. ASSUME NEW times \in Seq(Nat), NEW time \in Nat
          PROVE  Append(times, time) \in Seq(Nat) /\ Append(times, time) # <<>>
      BY ONLY times \in Seq(Nat), time \in Nat, AppendProperties
    <3>. QED BY ONLY <3>1, <3>2
  <2> DEFINE after == TakePayload(seen, line)
  <2>3. /\ after.state = "reading" /\ after.events \in Seq(Nat)
        /\ after.content \in Seq(Nat) /\ after.reasoning \in Seq(Nat)
        /\ after.usage \in Usages /\ after.queue \in Counts
        /\ after.finish \in Finishes
        /\ after = [state |-> after.state, events |-> after.events,
                    content |-> after.content, reasoning |-> after.reasoning,
                    usage |-> after.usage, queue |-> after.queue,
                    finish |-> after.finish]
    <3>1. after.state = "reading"
      BY DEF TakePayload
    <3>2. after.events \in Seq(Nat) /\ after.content \in Seq(Nat)
          /\ after.reasoning \in Seq(Nat)
      <4>1. /\ after.events = IF line.thought \/ line.content
                             THEN Append(seen.events, line.time) ELSE seen.events
            /\ after.content = IF line.content
                              THEN Append(seen.content, line.time)
                              ELSE seen.content
            /\ after.reasoning = IF line.thought
                                THEN Append(seen.reasoning, line.time)
                                ELSE seen.reasoning
        BY DEF TakePayload
      <4>2. seen.events \in Seq(Nat) /\ seen.content \in Seq(Nat)
            /\ seen.reasoning \in Seq(Nat)
        BY DEF Seen
      <4> HIDE DEF after
      <4>. QED BY ONLY <2>2, <4>1, <4>2
    <3>3. /\ after.usage \in Usages /\ after.queue \in Counts
          /\ after.finish \in Finishes
      BY <2>1 DEF TakePayload, Seen
    <3>4. after = [state |-> after.state, events |-> after.events,
                    content |-> after.content, reasoning |-> after.reasoning,
                    usage |-> after.usage, queue |-> after.queue,
                    finish |-> after.finish]
      BY DEF TakePayload
    <3>. QED BY <3>1, <3>2, <3>3, <3>4
  <2>4. after.content = <<>> /\ after.reasoning = <<>> => after.events = <<>>
    BY <2>1, <2>2 DEF TakePayload, Seen
  <2>5. ReadLine(seen, line) = after
    BY <1>3 DEF ReadLine
  <2> HIDE DEF after
  <2>. QED BY <2>3, <2>4, <2>5 DEF Seen
<1>. QED BY <1>1, <1>2, <1>3 DEF StreamLines

\* Whatever the lines are, an observation without an error has an output.
LEMMA Collected ==
  ASSUME NEW stream \in Seq(StreamLines)
  PROVE  /\ CollectChat(stream) \in Seen
         /\ CollectChat(stream).state # "error" =>
              CollectChat(stream).events # <<>>
<1> DEFINE n == Len(stream)
           A == [i \in 0..n |-> Seen]
           seen == FoldLeft(ReadLine, Opened, stream)
<1>1. n \in Nat /\ DOMAIN stream = 1..n
  OBVIOUS
<1>2. Opened \in A[0]
  <2>1. Opened \in Seen
    BY DEF Seen, Opened, Usages, Counts, Finishes
  <2>. QED BY <1>1, <2>1
<1>3. \A i \in 1..n : \A a \in A[i - 1] : ReadLine(a, stream[i]) \in A[i]
  BY ReadLineKeeps
<1>4. \A i \in 0..n : Reading!FoldUpTo(Opened, stream, 1..i) \in A[i]
  <2> HIDE DEF A
  <2>. QED BY <1>1, <1>2, <1>3, Reading!FoldInduction
<1>5. seen \in Seen
  BY <1>1, <1>4, LinesAreFolded DEF Reading!FoldOf
<1> HIDE DEF seen
<1>6. CollectChat(stream) =
        IF seen.state = "error" \/ seen.events = <<>> \/ seen.usage.output = 0
        THEN [seen EXCEPT !.state = "error"] ELSE [seen EXCEPT !.state = "observed"]
  BY DEF CollectChat, seen
<1>7. /\ seen.state \in {"reading", "ended", "error", "observed"}
      /\ seen.events \in Seq(Nat)
      /\ [seen EXCEPT !.state = "error"] \in Seen
      /\ [seen EXCEPT !.state = "observed"] \in Seen
      /\ [seen EXCEPT !.state = "error"].state = "error"
      /\ [seen EXCEPT !.state = "observed"].events = seen.events
  BY <1>5 DEF Seen
<1>. QED BY <1>6, <1>7

\* The record of a reply fits the prompt it was for.
LEMMA RecordFits ==
  ASSUME NEW s \in Sessions, NEW stream \in Streams, NEW time,
         Total(history[s]) \in Nat \ {0},
         NEW seen \in Reported(s, CollectChat(stream)),
         BuildRecord(seen, 0, 1, time).status = "success"
  PROVE  Fits(BuildRecord(seen, 0, 1, time), Total(history[s]))
<1> DEFINE all == CollectChat(stream)
           record == BuildRecord(seen, 0, 1, time)
<1>1. /\ all \in Seen /\ (all.state # "error" => all.events # <<>>)
      /\ all.usage # NoUsage => Len(all.content) <= all.usage.output
  <2>1. /\ stream \in Seq(StreamLines)
        /\ all.usage # NoUsage => Len(all.content) <= all.usage.output
    BY StreamsAssumption
  <2>. QED BY <2>1, Collected
<1> HIDE DEF all
<1>2. /\ seen.state = all.state /\ seen.events = all.events
      /\ seen.content = all.content /\ seen.reasoning = all.reasoning
      /\ seen.usage.output = all.usage.output
      /\ all.usage = NoUsage => seen.usage = NoUsage
      /\ all.usage # NoUsage => /\ seen.usage.input = Total(history[s])
                                /\ seen.usage.cached \in Hits
  <2>1. CASE all.usage = NoUsage
    BY <2>1 DEF all, Reported
  <2>2. CASE all.usage # NoUsage
    <3>1. all.usage \in [input : Nat, output : Nat, reasoning : Counts,
                         cached : Counts]
      BY <1>1, <2>2 DEF Seen, Usages
    <3>2. PICK cached \in Hits :
            seen = [all EXCEPT !.usage.input = Total(history[s]),
                               !.usage.cached = cached]
      BY <2>2 DEF all, Reported
    <3>3. all \in [state : {"reading", "ended", "error", "observed"},
                   events : Seq(Nat), content : Seq(Nat), reasoning : Seq(Nat),
                   usage : Usages, queue : Counts, finish : Finishes]
      BY <1>1 DEF Seen
    <3>. QED BY <2>2, <3>1, <3>2, <3>3
  <2>. QED BY <2>1, <2>2
<1>3. seen.state # "error"
  BY DEF BuildRecord, FailedRecord
<1>4. /\ seen.content \in Seq(Nat)
      /\ ~ (seen.content = <<>> /\ seen.reasoning = <<>>)
  BY <1>1, <1>2, <1>3 DEF Seen
<1>5. /\ record.content = [i \in DOMAIN seen.content |-> seen.content[i] - 1]
      /\ record.input = seen.usage.input /\ record.output = seen.usage.output
      /\ record.cached = seen.usage.cached
  BY <1>3, <1>4 DEF BuildRecord, FailedRecord
<1> HIDE DEF record
<1>6. Len(record.content) = Len(seen.content) /\ Len(seen.content) \in Nat
  <2>1. Len(seen.content) \in Nat /\ DOMAIN seen.content = 1..Len(seen.content)
    BY <1>4
  <2>. QED BY <1>5, <2>1
<1>7. CASE all.usage = NoUsage
  BY <1>2, <1>5, <1>6, <1>7 DEF Fits, NoUsage, record
<1>8. CASE all.usage # NoUsage
  <2>1. all.usage.output \in Nat
    BY <1>1, <1>8 DEF Seen, Usages
  <2>2. record.cached \in Counts
    BY <1>2, <1>5, <1>8, HitsAssumption
  <2>. QED BY <1>1, <1>2, <1>5, <1>6, <1>8, <2>1, <2>2 DEF Fits, record
<1>. QED BY <1>7, <1>8

-----------------------------------------------------------------------------
(* The ceiling of prefix caching: the steps *)

\* The tokens of a history with one message more, and without it again.
LEMMA HistoryGrows ==
  ASSUME NEW h \in Seq(Nat), NEW x \in Nat
  PROVE  /\ Append(h, x) \in Seq(Nat) /\ Total(h) \in Nat
         /\ Total(Append(h, x)) = Total(h) + x
         /\ SubSeq(Append(h, x), 1, Len(Append(h, x)) - 1) = h
<1>1. h \in Seq(Int) /\ x \in Int
  <2>1. Len(h) \in Nat /\ h \in [1..Len(h) -> Nat]
    OBVIOUS
  <2>2. h \in [1..Len(h) -> Int]
    BY <2>1
  <2>. QED BY <2>1, <2>2
<1>2. Total(Append(h, x)) = Total(h) + x
  BY <1>1, SumAppend, SumsAreFolds DEF Total
<1>3. Total(h) \in Nat
  <2>1. Len(h) \in Nat /\ DOMAIN h = 1..Len(h) /\ h \in [1..Len(h) -> Nat]
    OBVIOUS
  <2>2. IsFiniteSet(DOMAIN h)
    BY <2>1, UpToFinite
  <2>. QED BY <2>1, <2>2, SumNatural, SumsAreFolds DEF Total
<1>4. SubSeq(Append(h, x), 1, Len(Append(h, x)) - 1) = h
  <2> DEFINE a == Append(h, x)
             b == SubSeq(a, 1, Len(h))
  <2>1. /\ a \in Seq(Nat) /\ Len(a) = Len(h) + 1 /\ Len(h) \in Nat
        /\ \A i \in 1..Len(h) : a[i] = h[i]
    BY AppendProperties
  <2>2. b \in Seq(Nat) /\ Len(b) = Len(h) /\ \A i \in 1..Len(h) : b[i] = a[i]
    <3> HIDE DEF a
    <3>. QED BY <2>1, SubSeqProperties
  <2> HIDE DEF a, b
  <2>3. b = h
    BY <2>1, <2>2, SeqEqual
  <2>4. Len(a) - 1 = Len(h)
    BY <2>1
  <2>. QED BY <2>3, <2>4 DEF a, b
<1>. QED BY <1>2, <1>3, <1>4

\* A step that records nothing.
LEMMA RecordsRest ==
  ASSUME CeilingInv, UNCHANGED <<requests, shared>>
  PROVE  RepliesKept' /\ PromptsKept' /\ SharedKept'
<1>1. RepliesKept'
  BY DEF CeilingInv, RepliesKept
<1>2. PromptsKept'
  BY DEF CeilingInv, PromptsKept
<1>3. SharedKept'
  BY DEF CeilingInv, SharedKept, AllMeasured, SharedTotal
<1>. QED BY <1>1, <1>2, <1>3

LEMMA EachHistory ==
  ASSUME DOMAIN history' = Sessions, \A s \in Sessions : KeptOf(s)'
  PROVE  HistoryKept'
BY DEF HistoryKept

\* A session that takes no part in a step.
LEMMA OthersKeep ==
  ASSUME NEW s, KeptOf(s), pc'[s] = pc[s], history'[s] = history[s],
         completed'[s] = completed[s], ticket'[s] = ticket[s],
         RequestsOf(s)' \cap MeasuredTurns(requests') =
           RequestsOf(s) \cap MeasuredTurns(requests),
         \A i \in RequestsOf(s) : requests'[i] = requests[i]
  PROVE  KeptOf(s)'
BY DEF KeptOf, Kept, Repeated

LEMMA TakeTurnCeiling ==
  ASSUME CeilingInv, NEW s \in Sessions, TakeTurn(s)
  PROVE  HistoryKept'
<1>1. /\ pc[s] = "turn"
      /\ UNCHANGED <<completed, ticket, requests>>
      /\ \/ /\ pc' = [pc EXCEPT ![s] = "over"]
            /\ \/ history' = history
               \/ history' = [history EXCEPT ![s] = Append(@, 1)]
         \/ /\ history' = [history EXCEPT ![s] = Append(@, 1)]
            /\ pc' = [pc EXCEPT ![s] = "asking"]
      /\ DOMAIN history = Sessions /\ DOMAIN pc = Sessions
  <2>1. DOMAIN history = Sessions /\ DOMAIN pc = Sessions
    BY DEF CeilingInv, HistoryKept, ConversationInv, SessionShape
  <2>. QED BY <2>1 DEF TakeTurn, End, caseVars
<1>2. \A u : RequestsOf(u)' = RequestsOf(u)
  BY <1>1 DEF RequestsOf
<1>3. \A u \in Sessions : KeptOf(u)
  BY DEF CeilingInv, HistoryKept
<1>4. ASSUME NEW u \in Sessions, u # s PROVE KeptOf(u)'
  <2>1. pc'[u] = pc[u] /\ history'[u] = history[u]
    BY <1>1, <1>4
  <2>. QED BY <1>1, <1>2, <1>3, <2>1, OthersKeep
<1>5. KeptOf(s)'
  <2>1. CASE pc'[s] = "over"
    BY <2>1 DEF KeptOf
  <2>2. CASE pc'[s] # "over"
    <3>1. pc'[s] = "asking" /\ history'[s] = Append(history[s], 1)
      BY <1>1, <2>2
    <3>2. /\ history[s] \in Seq(Nat) /\ Kept(s) = Total(history[s])
          /\ Kept(s) \in Nat
          /\ completed[s] = 0 => Kept(s) = 0
          /\ \A i \in RequestsOf(s) \cap MeasuredTurns(requests) :
               requests[i].turn = completed[s] - 1 =>
                 Kept(s) = requests[i].response.input
                             + Len(requests[i].response.content)
      BY <1>1, <1>3 DEF KeptOf, Kept
    <3>3. /\ history'[s] \in Seq(Nat) /\ Repeated(s)' = Kept(s)
          /\ Total(history'[s]) = Kept(s) + 1
      <4> DEFINE h == history[s]
                 g == Append(h, 1)
      <4>1. /\ g \in Seq(Nat) /\ Total(g) = Total(h) + 1
            /\ SubSeq(g, 1, Len(g) - 1) = h
        <5> HIDE DEF h
        <5>1. h \in Seq(Nat)
          BY <3>2 DEF h
        <5>. QED BY <5>1, HistoryGrows
      <4>2. Repeated(s)' = Total(SubSeq(g, 1, Len(g) - 1)) /\ history'[s] = g
        BY <3>1 DEF Repeated
      <4> HIDE DEF g
      <4>. QED BY <3>2, <4>1, <4>2
    <3>4. Kept(s)' = Kept(s)
      BY <3>1, <3>3 DEF Kept
    <3>. QED BY <1>1, <1>2, <3>1, <3>2, <3>3, <3>4 DEF KeptOf
  <2>. QED BY <1>1, <2>1, <2>2
<1>6. DOMAIN history' = Sessions
  BY <1>1
<1>7. \A u \in Sessions : KeptOf(u)'
  BY <1>4, <1>5
<1>. QED BY <1>6, <1>7, EachHistory

\* The steps in which a request only changes its place.
LEMMA PlaceCeiling ==
  ASSUME CeilingInv, NEW s \in Sessions,
         pc[s] \in {"asking", "admitted"},
         NEW to \in {"interrupted", "admitted", "sent"},
         pc' = [pc EXCEPT ![s] = to],
         UNCHANGED <<history, completed, ticket, requests>>
  PROVE  HistoryKept'
<1>1. \A u : RequestsOf(u)' = RequestsOf(u)
  BY DEF RequestsOf
<1>2. DOMAIN history = Sessions /\ DOMAIN pc = Sessions
      /\ \A u \in Sessions : KeptOf(u)
  BY DEF CeilingInv, HistoryKept, ConversationInv, SessionShape
<1>3. ASSUME NEW u \in Sessions, u # s PROVE KeptOf(u)'
  <2>1. pc'[u] = pc[u]
    BY <1>3
  <2>. QED BY <1>1, <1>2, <2>1, OthersKeep
<1>4. KeptOf(s)'
  <2>1. pc'[s] = to /\ Kept(s)' = Kept(s)
    BY <1>2 DEF Kept, Repeated
  <2>. QED BY <1>1, <1>2, <2>1 DEF KeptOf
<1>5. \A u \in Sessions : KeptOf(u)'
  BY <1>3, <1>4
<1>. QED BY <1>2, <1>5, EachHistory

LEMMA ReceiveCeiling ==
  ASSUME CeilingInv, NEW s \in Sessions, Receive(s)
  PROVE  HistoryKept'
<1>1. /\ pc[s] = "sent" /\ pc' = [pc EXCEPT ![s] = "received"]
      /\ UNCHANGED <<history, completed, requests>>
      /\ DOMAIN pc = Sessions /\ DOMAIN ticket = Sessions
  BY DEF Receive, caseVars, CeilingInv, ConversationInv, SessionShape
<1>2. PICK stream \in Streams :
        \E seen \in Reported(s, CollectChat(stream)) :
          ticket' = [ticket EXCEPT ![s] =
                       BuildRecord(seen, 0, 1, Last(stream).time)]
  BY DEF Receive
<1> PICK seen \in Reported(s, CollectChat(stream)) :
        ticket' = [ticket EXCEPT ![s] =
                     BuildRecord(seen, 0, 1, Last(stream).time)]
  BY <1>2
<1>3. \A u : RequestsOf(u)' = RequestsOf(u)
  BY <1>1 DEF RequestsOf
<1>4. DOMAIN history = Sessions /\ \A u \in Sessions : KeptOf(u)
  BY DEF CeilingInv, HistoryKept
<1>5. ASSUME NEW u \in Sessions, u # s PROVE KeptOf(u)'
  <2>1. pc'[u] = pc[u] /\ ticket'[u] = ticket[u]
    BY <1>1, <1>2, <1>5
  <2>. QED BY <1>1, <1>3, <1>4, <2>1, OthersKeep
<1>6. KeptOf(s)'
  <2>1. /\ pc'[s] = "received" /\ Kept(s)' = Kept(s)
        /\ ticket'[s] = BuildRecord(seen, 0, 1, Last(stream).time)
    BY <1>1, <1>2 DEF Kept, Repeated
  <2>2. Kept(s) \in Nat /\ Total(history[s]) = Kept(s) + 1
    BY <1>1, <1>4 DEF KeptOf
  <2>3. Total(history[s]) \in Nat \ {0}
    BY <2>2
  <2>4. ticket'[s].status = "success" => Fits(ticket'[s], Total(history[s]))
    BY <2>1, <2>3, RecordFits
  <2>. QED BY <1>1, <1>3, <1>4, <2>1, <2>4 DEF KeptOf
<1>7. \A u \in Sessions : KeptOf(u)'
  BY <1>5, <1>6
<1>8. DOMAIN history' = Sessions
  BY <1>1, <1>4
<1>. QED BY <1>7, <1>8, EachHistory

\* The turns that are measured after one request more.
LEMMA MeasuredAppended ==
  ASSUME requests \in Seq(Range(requests)), NEW r,
         requests' = Append(requests, r)
  PROVE  /\ MeasuredTurns(requests) \subseteq 1..Len(requests)
         /\ IsFiniteSet(MeasuredTurns(requests))
         /\ MeasuredTurns(requests') = MeasuredTurns(requests) \cup
              (IF r.status = "success" /\ r.response.input # None
               THEN {Len(requests) + 1} ELSE {})
         /\ \A i \in MeasuredTurns(requests) : requests'[i] = requests[i]
         /\ \A u : RequestsOf(u)' = RequestsOf(u) \cup
              (IF r.session = u THEN {Len(requests) + 1} ELSE {})
<1>1. /\ Len(requests) \in Nat
      /\ DOMAIN requests = 1..Len(requests)
      /\ DOMAIN requests' = 1..(Len(requests) + 1)
      /\ requests'[Len(requests) + 1] = r
      /\ \A i \in 1..Len(requests) : requests'[i] = requests[i]
  BY RequestAppended
<1>2. MeasuredTurns(requests) \subseteq 1..Len(requests)
  BY <1>1 DEF MeasuredTurns
<1>3. IsFiniteSet(MeasuredTurns(requests))
  <2>1. IsFiniteSet(1..Len(requests))
    BY <1>1, UpToFinite
  <2>. QED BY <1>2, <2>1, FS_Subset
<1>4. 1..(Len(requests) + 1) = 1..Len(requests) \cup {Len(requests) + 1}
  BY <1>1
<1>5. MeasuredTurns(requests') = MeasuredTurns(requests) \cup
        (IF r.status = "success" /\ r.response.input # None
         THEN {Len(requests) + 1} ELSE {})
  BY <1>1, <1>4 DEF MeasuredTurns
<1>6. \A u : RequestsOf(u)' = RequestsOf(u) \cup
        (IF r.session = u THEN {Len(requests) + 1} ELSE {})
  BY <1>1, <1>4 DEF RequestsOf
<1>. QED BY <1>1, <1>2, <1>3, <1>5, <1>6

\* The request of the turn is recorded.
LEMMA ReleaseCeiling ==
  ASSUME CeilingInv, NEW s \in Sessions, Release(s)
  PROVE  RepliesKept' /\ HistoryKept' /\ PromptsKept' /\ SharedKept'
<1> DEFINE r == [session |-> s, turn |-> turn[s], status |-> ticket[s].status,
                 response |-> ticket[s]]
           good == ticket[s].status = "success"
           n == Len(requests) + 1
           M == MeasuredTurns(requests)
           Known == good /\ ticket[s].input # None
<1>1. /\ pc[s] = "received" /\ requests' = Append(requests, r)
      /\ ticket' = [ticket EXCEPT ![s] = Idle]
      /\ shared' = [shared EXCEPT ![s] = @ + IF good THEN Repeated(s) ELSE 0]
  BY DEF Release
<1>2. /\ DOMAIN pc = Sessions /\ DOMAIN ticket = Sessions
      /\ DOMAIN history = Sessions /\ DOMAIN completed = Sessions
      /\ requests \in Seq(Range(requests))
      /\ completed[s] \in Nat /\ turn[s] = completed[s] /\ SentFailed(s) = 0
  BY <1>1 DEF CeilingInv, HistoryKept, ConversationInv, SessionShape,
              TurnsKept, SentFailed
<1>3. \/ pc' = [pc EXCEPT ![s] = "over"] /\ UNCHANGED <<completed, history>>
      \/ /\ good
         /\ pc' = [pc EXCEPT ![s] = IF turn[s] + 1 < planned[s] THEN "turn"
                                    ELSE "over"]
         /\ completed' = [completed EXCEPT ![s] = @ + 1]
         /\ history' = [history EXCEPT ![s] = Append(@, Len(ticket[s].content))]
  <2>1. CASE Verdict(s) # "none"
    BY <2>1 DEF Release, End
  <2>2. CASE Verdict(s) = "none"
    BY <2>2 DEF Release, Verdict
  <2>. QED BY <2>1, <2>2
<1>4. /\ history[s] \in Seq(Nat) /\ Kept(s) \in Nat /\ Kept(s) = Repeated(s)
      /\ Total(history[s]) = Kept(s) + 1
      /\ completed[s] = 0 => Kept(s) = 0
      /\ \A i \in RequestsOf(s) \cap M :
           requests[i].turn = completed[s] - 1 =>
             Kept(s) = requests[i].response.input
                         + Len(requests[i].response.content)
      /\ good => Fits(ticket[s], Total(history[s]))
  BY <1>1 DEF CeilingInv, HistoryKept, KeptOf, Kept
<1>5. /\ n \in Nat /\ DOMAIN requests = 1..(n - 1) /\ DOMAIN requests' = 1..n
      /\ requests'[n] = r
      /\ \A i \in 1..(n - 1) : requests'[i] = requests[i]
  <2> HIDE DEF r
  <2>. QED BY <1>1, <1>2, RequestAppended
<1>6. /\ M \subseteq 1..(n - 1) /\ IsFiniteSet(M) /\ n \notin M
      /\ MeasuredTurns(requests') = M \cup (IF Known THEN {n} ELSE {})
      /\ \A i \in M : requests'[i] = requests[i]
      /\ \A u : RequestsOf(u)' = RequestsOf(u) \cup (IF u = s THEN {n} ELSE {})
  <2>1. /\ r.status = ticket[s].status /\ r.response = ticket[s]
        /\ r.session = s
    OBVIOUS
  <2> HIDE DEF r
  <2>. QED BY <1>1, <1>2, <1>5, <2>1, MeasuredAppended
<1>7. /\ r.status = ticket[s].status /\ r.response = ticket[s]
      /\ r.session = s /\ r.turn = completed[s]
  BY <1>2
<1> HIDE DEF r
<1>8. \A i \in RequestsOf(s) : requests[i].turn \in Nat
                               /\ requests[i].turn < completed[s]
  <2>1. {requests[i].turn : i \in RequestsOf(s)}
          = 0..(completed[s] + SentFailed(s) - 1)
    BY DEF CeilingInv, ConversationInv, RequestsKept
  <2>2. completed[s] + SentFailed(s) - 1 = completed[s] - 1
    BY <1>2
  <2>3. \A i \in RequestsOf(s) : requests[i].turn \in 0..(completed[s] - 1)
    BY <2>1, <2>2
  <2>. QED BY <1>2, <2>3
<1>9. \A u : RequestsOf(u) \subseteq 1..(n - 1)
  BY <1>5 DEF RequestsOf
<1>10. RepliesKept'
  <2>1. \A i \in 1..(n - 1) :
          /\ requests[i].session \in Sessions /\ requests[i].turn \in Nat
          /\ requests[i].status = "success" =>
               Fits(requests[i].response, requests[i].response.input)
    BY <1>5 DEF CeilingInv, RepliesKept
  <2>2. good => Fits(ticket[s], ticket[s].input)
    BY <1>4 DEF Fits
  <2>3. ASSUME NEW i \in 1..n
        PROVE  /\ requests'[i].session \in Sessions /\ requests'[i].turn \in Nat
               /\ requests'[i].status = "success" =>
                    Fits(requests'[i].response, requests'[i].response.input)
    <3>1. CASE i = n
      BY <1>2, <1>5, <1>7, <2>2, <3>1
    <3>2. CASE i # n
      <4>1. i \in 1..(n - 1)
        BY <1>5, <3>2
      <4>. QED BY <1>5, <2>1, <4>1
    <3>. QED BY <3>1, <3>2
  <2>. QED BY <1>5, <2>3 DEF RepliesKept
<1>11. HistoryKept'
  <2>1. \A u \in Sessions : KeptOf(u)
    BY DEF CeilingInv, HistoryKept
  <2>2. ASSUME NEW u \in Sessions, u # s PROVE KeptOf(u)'
    <3>1. /\ pc'[u] = pc[u] /\ history'[u] = history[u]
          /\ completed'[u] = completed[u] /\ ticket'[u] = ticket[u]
      BY <1>1, <1>2, <1>3, <2>2
    <3>2. RequestsOf(u)' \cap MeasuredTurns(requests') = RequestsOf(u) \cap M
      BY <1>5, <1>6, <1>9, <2>2
    <3>3. \A i \in RequestsOf(u) : requests'[i] = requests[i]
      BY <1>5, <1>9
    <3>. QED BY <2>1, <3>1, <3>2, <3>3, OthersKeep
  <2>3. KeptOf(s)'
    <3>1. CASE pc'[s] = "over"
      BY <3>1 DEF KeptOf
    <3>2. CASE pc'[s] # "over"
      <4> DEFINE k == Len(ticket[s].content)
      <4>1. /\ good /\ pc'[s] = "turn" /\ completed'[s] = completed[s] + 1
            /\ history'[s] = Append(history[s], k)
        BY <1>2, <1>3, <3>2
      <4>2. k \in Nat
        BY <1>4, <4>1 DEF Fits
      <4> HIDE DEF k
      <4>3. /\ history'[s] \in Seq(Nat)
            /\ Total(history'[s]) = Total(history[s]) + k
        BY <1>4, <4>1, <4>2, HistoryGrows
      <4>4. Kept(s)' = Total(history'[s]) /\ Kept(s)' \in Nat
        BY <1>4, <4>1, <4>2, <4>3 DEF Kept
      <4>5. ASSUME NEW i \in RequestsOf(s)' \cap MeasuredTurns(requests'),
                   requests'[i].turn = completed'[s] - 1
            PROVE  Kept(s)' = requests'[i].response.input
                                + Len(requests'[i].response.content)
        <5>1. i = n
          BY <1>2, <1>5, <1>6, <1>8, <1>9, <4>1, <4>5
        <5>2. Known /\ requests'[i].response = ticket[s]
          BY <1>5, <1>6, <1>7, <5>1
        <5>3. ticket[s].input = Total(history[s])
          BY <1>4, <5>2 DEF Fits
        <5>. QED BY <4>3, <4>4, <5>2, <5>3 DEF k
      <4>. QED BY <1>2, <4>1, <4>3, <4>4, <4>5 DEF KeptOf
    <3>. QED BY <3>1, <3>2
  <2>4. DOMAIN history' = Sessions /\ \A u \in Sessions : KeptOf(u)'
    BY <1>2, <1>3, <2>2, <2>3
  <2>. QED BY <2>4, EachHistory
<1>12. PromptsKept'
  <2> DEFINE In(i) == requests[i].response.input
             Out(i) == Len(requests[i].response.content)
  <2>1. \A i \in M :
          /\ requests'[i] = requests[i] /\ i \in 1..(n - 1)
          /\ requests[i].turn = 0 => In(i) = 1
          /\ \A j \in M : /\ requests[j].session = requests[i].session
                          /\ requests[j].turn = requests[i].turn + 1
                          => In(j) = In(i) + Out(i) + 1
    BY <1>6 DEF CeilingInv, PromptsKept
  <2>2. ASSUME Known
        PROVE  /\ requests'[n].response.input = Kept(s) + 1
               /\ requests'[n].session = s /\ requests'[n].turn = completed[s]
    <3>1. ticket[s].input = Total(history[s])
      BY <1>4, <2>2 DEF Fits
    <3>. QED BY <1>4, <1>5, <1>7, <3>1
  <2>3. ASSUME NEW i \in MeasuredTurns(requests'), requests'[i].turn = 0
        PROVE  requests'[i].response.input = 1
    <3>1. CASE i \in M
      BY <2>1, <2>3, <3>1
    <3>2. CASE i \notin M
      <4>1. Known /\ i = n
        BY <1>6, <3>2
      <4>. QED BY <1>4, <2>2, <2>3, <4>1
    <3>. QED BY <3>1, <3>2
  <2>4. ASSUME NEW i \in MeasuredTurns(requests'),
               NEW j \in MeasuredTurns(requests'),
               requests'[j].session = requests'[i].session,
               requests'[j].turn = requests'[i].turn + 1
        PROVE  requests'[j].response.input =
                 requests'[i].response.input
                   + Len(requests'[i].response.content) + 1
    <3>1. CASE i \in M /\ j \in M
      BY <2>1, <2>4, <3>1
    <3>2. CASE i \in M /\ j \notin M
      <4>1. Known /\ j = n
        BY <1>6, <3>2
      <4>2. /\ requests'[i] = requests[i] /\ i \in 1..(n - 1)
            /\ requests[i].session = s
            /\ completed[s] = requests[i].turn + 1
        BY <2>1, <2>2, <2>4, <3>2, <4>1
      <4>3. i \in RequestsOf(s)
        BY <1>5, <4>2 DEF RequestsOf
      <4>4. requests[i].turn = completed[s] - 1
        BY <1>8, <4>2, <4>3
      <4>5. Kept(s) = In(i) + Out(i)
        BY <1>4, <3>2, <4>3, <4>4
      <4>. QED BY <2>2, <4>1, <4>2, <4>5
    <3>3. CASE i \notin M
      <4>1. Known /\ i = n
        BY <1>6, <3>3
      <4>2. j \in M
        <5>1. j # n
          BY <1>2, <2>2, <2>4, <4>1
        <5>. QED BY <1>6, <5>1
      <4>3. j \in RequestsOf(s) /\ requests[j].turn = completed[s] + 1
        BY <1>5, <2>1, <2>2, <2>4, <4>1, <4>2 DEF RequestsOf
      <4>. QED BY <1>2, <1>8, <4>3
    <3>. QED BY <3>1, <3>2, <3>3
  <2>. QED BY <2>3, <2>4 DEF PromptsKept
<1>13. SharedKept'
  <2>1. /\ shared \in [Sessions -> Nat]
        /\ AllMeasured =>
             SharedTotal = SumOver([i \in M |-> requests[i].response.input - 1], M)
    BY DEF CeilingInv, SharedKept
  <2>2. shared' \in [Sessions -> Nat]
    BY <1>1, <1>4, <2>1
  <2>3. ASSUME AllMeasured'
        PROVE  SharedTotal' =
                 SumOver([i \in MeasuredTurns(requests') |->
                            requests'[i].response.input - 1],
                         MeasuredTurns(requests'))
    <3> DEFINE f == [i \in M |-> requests[i].response.input - 1]
               N == MeasuredTurns(requests')
               g == [i \in N |-> requests'[i].response.input - 1]
    <3>1. AllMeasured
      <4>1. \A i \in 1..n : requests'[i].status = "success" =>
                              requests'[i].response.input # None
        BY <1>5, <2>3 DEF AllMeasured
      <4>2. \A i \in 1..(n - 1) : i \in 1..n
        BY <1>5
      <4>. QED BY <1>5, <4>1, <4>2 DEF AllMeasured
    <3>2. \A i \in M : requests[i].response.input \in Int
      BY DEF CeilingInv, RepliesKept, MeasuredTurns, Fits
    <3>3. good => Known
      BY <1>5, <1>7, <2>3 DEF AllMeasured
    <3>4. f \in [M -> Int] /\ SharedTotal = SumOf(f, M)
      BY <2>1, <3>1, <3>2, SumsAreFolds
    <3>5. SumOver(g, N) = SumOf(g, N)
      BY SumsAreFolds
    <3>6. CASE good
      <4>1. N = M \cup {n} /\ \A i \in M : requests'[i] = requests[i]
        BY <1>6, <3>3, <3>6
      <4>2. requests'[n].response.input = Kept(s) + 1
        <5>1. ticket[s].input = Total(history[s])
          BY <1>4, <3>3, <3>6 DEF Fits
        <5>. QED BY <1>4, <1>5, <1>7, <5>1
      <4>3. g \in [N -> Int] /\ g[n] = Kept(s) /\ \A i \in M : f[i] = g[i]
        <5>1. g[n] = Kept(s)
          BY <1>4, <4>1, <4>2
        <5>2. \A i \in M : f[i] = g[i]
          BY <4>1
        <5>3. \A i \in N : requests'[i].response.input - 1 \in Int
          BY <1>4, <3>2, <4>1, <4>2
        <5>. QED BY <5>1, <5>2, <5>3
      <4> HIDE DEF f, g, N, M
      <4>4. SumOf(g, M \cup {n}) = SumOf(g, M) + g[n]
        BY <1>6, <4>1, <4>3, SumAdd
      <4>5. SumOf(f, M) = SumOf(g, M)
        BY <1>6, <3>4, <4>1, <4>3, SumSame
      <4>6. SumOf(shared', Sessions) =
              SumOf(shared, Sessions) - shared[s] + (shared[s] + Kept(s))
        <5>1. shared' = [shared EXCEPT ![s] = shared[s] + Kept(s)]
          BY <1>1, <1>4, <3>6
        <5>2. /\ shared \in [Sessions -> Int] /\ shared' \in [Sessions -> Int]
              /\ shared'[s] = shared[s] + Kept(s)
              /\ \A u \in Sessions \ {s} : shared'[u] = shared[u]
          BY <2>1, <2>2, <5>1
        <5>3. SumOf(shared', Sessions) =
                SumOf(shared, Sessions) - shared[s] + shared'[s]
          <6>1. ASSUME NEW a \in [Sessions -> Int], NEW b \in [Sessions -> Int],
                       \A u \in Sessions \ {s} : b[u] = a[u]
                PROVE  SumOf(b, Sessions) = SumOf(a, Sessions) - a[s] + b[s]
            <7>1. IsFiniteSet(Sessions) /\ s \in Sessions
              BY SessionsAssumption
            <7>. QED BY ONLY <6>1, <7>1, a \in [Sessions -> Int],
                             b \in [Sessions -> Int], SumUpdate
          <6>. QED BY <5>2, <6>1
        <5>. QED BY <5>2, <5>3
      <4>7. SumOf(shared, Sessions) \in Int /\ shared[s] \in Int
        <5>1. shared \in [Sessions -> Int]
          BY <2>1
        <5>. QED BY <5>1, SessionsAssumption, SumRemove
      <4>8. /\ SharedTotal = SumOf(shared, Sessions)
            /\ SharedTotal' = SumOf(shared', Sessions)
        BY SumsAreFolds DEF SharedTotal
      <4>9. SharedTotal' = SumOf(f, M) + Kept(s)
        BY <1>4, <3>4, <4>6, <4>7, <4>8
      <4>. QED BY <3>5, <4>1, <4>3, <4>4, <4>5, <4>9 DEF g, N
    <3>7. CASE ~good
      <4>1. N = M /\ \A i \in M : requests'[i] = requests[i]
        BY <1>6, <3>7
      <4>2. shared' = shared
        BY <1>1, <2>1, <3>7
      <4>3. g = f
        BY <4>1
      <4>. QED BY <2>1, <3>1, <4>1, <4>2, <4>3 DEF SharedTotal
    <3>. QED BY <3>6, <3>7
  <2>. QED BY <2>2, <2>3 DEF SharedKept
<1>. QED BY <1>10, <1>11, <1>12, <1>13

LEMMA InitCeiling == ASSUME Init PROVE CeilingInv
<1>1. ConversationInv
  BY InitConversation
<1>2. requests = <<>> /\ DOMAIN requests = {} /\ MeasuredTurns(requests) = {}
  BY DEF Init, MeasuredTurns
<1>3. RepliesKept /\ PromptsKept
  BY <1>2 DEF RepliesKept, PromptsKept
<1>4. HistoryKept
  <2>1. Total(<<>>) = 0
    <3>1. DOMAIN <<>> = {}
      OBVIOUS
    <3>. QED BY <3>1, SumEmpty, SumsAreFolds DEF Total
  <2>2. \A s \in Sessions : /\ history[s] = <<>> /\ pc[s] = "turn"
                            /\ completed[s] = 0
    BY DEF Init
  <2>3. \A s \in Sessions : Kept(s) = 0
    BY <2>1, <2>2 DEF Kept
  <2>4. DOMAIN history = Sessions /\ <<>> \in Seq(Nat)
    BY DEF Init
  <2>5. \A s \in Sessions : RequestsOf(s) \cap MeasuredTurns(requests) = {}
    BY <1>2
  <2>6. ASSUME NEW s \in Sessions
        PROVE  history[s] \in Seq(Nat) /\ Kept(s) \in Nat /\ pc[s] # "received"
    <3>1. history[s] \in Seq(Nat)
      BY <2>2, <2>4
    <3>. QED BY <2>2, <2>3, <3>1
  <2>. QED BY <2>2, <2>3, <2>4, <2>5, <2>6 DEF HistoryKept, KeptOf
<1>5. SharedKept
  <2>1. shared = [s \in Sessions |-> 0] /\ shared \in [Sessions -> Nat]
    BY DEF Init
  <2>2. SumOf(shared, Sessions) = 0
    <3>1. shared \in [Sessions -> Int] /\ \A s \in Sessions : shared[s] = 0
      BY <2>1
    <3>. QED BY <3>1, SessionsAssumption, SumZero
  <2>3. SharedTotal = 0
    BY <2>2, SumsAreFolds DEF SharedTotal
  <2>4. \A f : SumOver(f, MeasuredTurns(requests)) = 0
    BY <1>2, SumEmpty, SumsAreFolds
  <2>. QED BY <2>1, <2>3, <2>4 DEF SharedKept
<1>. QED BY <1>1, <1>3, <1>4, <1>5 DEF CeilingInv

LEMMA NextCeiling ==
  ASSUME CeilingInv, [Next]_vars
  PROVE  CeilingInv'
<1>1. ConversationInv'
  BY NextConversation DEF CeilingInv
<1>2. CASE UNCHANGED <<pc, history, completed, ticket, requests, shared>>
  <2>1. RepliesKept' /\ PromptsKept' /\ SharedKept'
    BY <1>2, RecordsRest
  <2>2. \A u : RequestsOf(u)' = RequestsOf(u)
    BY <1>2 DEF RequestsOf
  <2>3. HistoryKept'
    <3>1. DOMAIN history = Sessions /\ \A u \in Sessions : KeptOf(u)
      BY DEF CeilingInv, HistoryKept
    <3>2. \A u \in Sessions : KeptOf(u)'
      BY <1>2, <2>2, <3>1, OthersKeep
    <3>3. DOMAIN history' = Sessions
      BY <1>2, <3>1
    <3>. QED BY <3>2, <3>3, EachHistory
  <2>. QED BY <1>1, <2>1, <2>3 DEF CeilingInv
<1>3. ASSUME NEW s \in Sessions, TakeTurn(s) \/ Receive(s) PROVE CeilingInv'
  <2>1. UNCHANGED <<requests, shared>>
    BY <1>3 DEF TakeTurn, Receive, caseVars
  <2>2. HistoryKept'
    BY <1>3, TakeTurnCeiling, ReceiveCeiling
  <2>. QED BY <1>1, <2>1, <2>2, RecordsRest DEF CeilingInv
<1>4. ASSUME NEW s \in Sessions, Interrupt(s) \/ Admit(s) \/ Enter(s)
      PROVE  CeilingInv'
  <2>1. /\ UNCHANGED <<history, completed, ticket, requests, shared>>
        /\ pc[s] \in {"asking", "admitted"}
        /\ \E to \in {"interrupted", "admitted", "sent"} :
             pc' = [pc EXCEPT ![s] = to]
    BY <1>4 DEF Interrupt, Admit, Enter, caseVars
  <2>2. HistoryKept'
    BY <2>1, PlaceCeiling
  <2>. QED BY <1>1, <2>1, <2>2, RecordsRest DEF CeilingInv
<1>5. ASSUME NEW s \in Sessions, Release(s) PROVE CeilingInv'
  BY <1>1, <1>5, ReleaseCeiling DEF CeilingInv
<1>6. CASE UNCHANGED vars \/ Done \/ Interruption
  BY <1>2, <1>6 DEF vars, sessionVars, caseVars, Done, Interruption
<1>. QED BY <1>3, <1>4, <1>5, <1>6 DEF Next

-----------------------------------------------------------------------------
(* The ceiling of prefix caching: what the report says *)

\* The last measured turn before turn i is one.
LEMMA PreviousIsLast ==
  ASSUME CeilingInv, NEW i, Earlier(requests, i) # {}
  PROVE  /\ Previous(requests, i) \in Earlier(requests, i)
         /\ \A k \in Earlier(requests, i) :
              requests[k].turn <= requests[Previous(requests, i)].turn
<1> DEFINE before == Earlier(requests, i)
<1>1. before \subseteq DOMAIN requests
  BY DEF Earlier, MeasuredTurns
<1>2. DOMAIN requests = 1..Len(requests) /\ Len(requests) \in Nat
  BY DEF CeilingInv, ConversationInv, SessionShape
<1>3. IsFiniteSet(before) /\ before \subseteq Int
  <2>1. IsFiniteSet(1..Len(requests))
    BY <1>2, UpToFinite
  <2>. QED BY <1>1, <1>2, <2>1, FS_Subset
<1>4. PICK j \in before : \A k \in before : j >= k
  <2> HIDE DEF before
  <2>. QED BY <1>3, LargestExists DEF before
<1>5. ASSUME NEW k \in before PROVE requests[k].turn <= requests[j].turn
  <2>1. PICK s \in Sessions : requests[j].session = s
    BY <1>1 DEF CeilingInv, RepliesKept
  <2>2. j \in RequestsOf(s) /\ k \in RequestsOf(s)
    BY <1>1, <2>1 DEF Earlier, RequestsOf
  <2>3. k < j => requests[k].turn < requests[j].turn
    BY <2>2 DEF CeilingInv, ConversationInv, RequestsKept
  <2>4. requests[k].turn \in Nat /\ requests[j].turn \in Nat
    BY <1>1 DEF CeilingInv, RepliesKept
  <2>5. k = j \/ k < j
    BY <1>3, <1>4
  <2>. QED BY <2>3, <2>4, <2>5
<1>. QED BY <1>5 DEF Previous

\* With a usage in every reply, the turn before any other was measured.
LEMMA TurnBefore ==
  ASSUME CeilingInv, AllMeasured, NEW i \in MeasuredTurns(requests),
         requests[i].turn # 0
  PROVE  \E j \in Earlier(requests, i) : requests[j].turn = requests[i].turn - 1
<1> PICK s \in Sessions : requests[i].session = s
  BY DEF CeilingInv, RepliesKept, MeasuredTurns
<1>1. i \in RequestsOf(s) /\ requests[i].turn \in Nat \ {0}
  BY DEF CeilingInv, RepliesKept, MeasuredTurns, RequestsOf
<1>2. completed[s] \in Nat /\ SentFailed(s) \in {0, 1}
  BY DEF CeilingInv, ConversationInv, SessionShape, SentFailed
<1>3. {requests[k].turn : k \in RequestsOf(s)}
        = 0..(completed[s] + SentFailed(s) - 1)
  BY DEF CeilingInv, ConversationInv, RequestsKept
<1>4. requests[i].turn \in 0..(completed[s] + SentFailed(s) - 1)
  BY <1>1, <1>3
<1>5. /\ requests[i].turn - 1 \in 0..(completed[s] + SentFailed(s) - 1)
      /\ requests[i].turn - 1 < completed[s]
  BY <1>1, <1>2, <1>4
<1>6. PICK j \in RequestsOf(s) : requests[j].turn = requests[i].turn - 1
  BY <1>3, <1>5
<1>7. Answered(j)
  BY <1>5, <1>6 DEF CeilingInv, ConversationInv, RequestsKept
<1>8. j \in MeasuredTurns(requests)
  BY <1>6, <1>7 DEF Answered, AllMeasured, MeasuredTurns, RequestsOf
<1>9. requests[j].session = s
  BY <1>6 DEF RequestsOf
<1>. QED BY <1>1, <1>6, <1>8, <1>9 DEF Earlier

\* What one turn counts for.
LEMMA TurnCounts ==
  ASSUME CeilingInv, NEW i \in MeasuredTurns(requests)
  PROVE  LET response == requests[i].response
         IN  /\ response.input \in Nat \ {0}
             /\ Eligible(requests, i) \in Nat
             /\ Eligible(requests, i) <= response.input
             /\ CachedOf(response) \in Nat /\ CachedOf(response) <= response.input
             /\ AllMeasured => response.input - 1 <= Eligible(requests, i)
<1> DEFINE input == requests[i].response.input
           before == Earlier(requests, i)
           p == Previous(requests, i)
<1>1. \A k \in MeasuredTurns(requests) :
        /\ requests[k].response.input \in Nat \ {0}
        /\ requests[k].response.output \in Nat
        /\ Len(requests[k].response.content) \in Nat
        /\ Len(requests[k].response.content) <= requests[k].response.output
        /\ requests[k].response.cached \in Counts
        /\ requests[k].turn \in Nat
  BY DEF CeilingInv, RepliesKept, Fits, MeasuredTurns
<1>2. /\ CachedOf(requests[i].response) \in Nat
      /\ CachedOf(requests[i].response) <= input
  BY <1>1 DEF CachedOf, Least, Counts
<1>3. before # {} => /\ p \in MeasuredTurns(requests) /\ p \in before
                     /\ PrefixOf(requests, i) =
                          requests[p].response.input + requests[p].response.output
  <2>1. before # {} => p \in before
    BY PreviousIsLast
  <2>2. before \subseteq MeasuredTurns(requests)
    BY DEF Earlier
  <2>3. \A k \in MeasuredTurns(requests) : requests[k].response.output # None
    BY <1>1 DEF None
  <2>. QED BY <2>1, <2>2, <2>3 DEF PrefixOf
<1>4. before = {} => PrefixOf(requests, i) = 0
  BY DEF PrefixOf
<1>5. PrefixOf(requests, i) \in Nat
  BY <1>1, <1>3, <1>4
<1>6. Eligible(requests, i) \in Nat /\ Eligible(requests, i) <= input
  BY <1>1, <1>5 DEF Eligible, Least
<1>7. ASSUME AllMeasured PROVE input - 1 <= Eligible(requests, i)
  <2>1. CASE requests[i].turn = 0
    <3>1. input = 1
      BY <2>1 DEF CeilingInv, PromptsKept
    <3>. QED BY <1>6, <3>1
  <2>2. CASE requests[i].turn # 0
    <3>1. PICK j \in before : requests[j].turn = requests[i].turn - 1
      BY <1>7, <2>2, TurnBefore
    <3>2. /\ requests[j].turn <= requests[p].turn /\ p \in before
          /\ p \in MeasuredTurns(requests)
      BY <1>3, <3>1, PreviousIsLast
    <3>3. /\ requests[p].session = requests[i].session
          /\ requests[p].turn < requests[i].turn
      BY <3>2 DEF Earlier
    <3>4. requests[i].turn = requests[p].turn + 1
      BY <1>1, <3>1, <3>2, <3>3
    <3>5. input = requests[p].response.input
                    + Len(requests[p].response.content) + 1
      BY <3>2, <3>3, <3>4 DEF CeilingInv, PromptsKept
    <3>6. input - 1 <= PrefixOf(requests, i)
      <4>1. /\ requests[p].response.input \in Nat
            /\ requests[p].response.output \in Nat
            /\ Len(requests[p].response.content) \in Nat
            /\ Len(requests[p].response.content)
                 <= requests[p].response.output
        BY <1>1, <3>2
      <4>2. PrefixOf(requests, i) =
              requests[p].response.input + requests[p].response.output
        BY <1>3, <3>1
      <4>3. ASSUME NEW a \in Nat, NEW b \in Nat, NEW c \in Nat, c <= b
            PROVE  a + c + 1 - 1 <= a + b
        BY <4>3
      <4>. QED BY <3>5, <4>1, <4>2, <4>3
    <3>. QED BY <1>1, <1>5, <3>6 DEF Eligible, Least
  <2>. QED BY <2>1, <2>2
<1>. QED BY <1>1, <1>2, <1>6, <1>7

(***************************************************************************)
(* The prompts grow by the replies and the messages, and what the sessions *)
(* repeated is the prompts without the new messages.                       *)
(***************************************************************************)
THEOREM CeilingInvariant == Spec => []CeilingInv
<1>. QED BY InitCeiling, NextCeiling, PTL DEF Spec

(***************************************************************************)
(* For any number of sessions and turns, any replies of a service that     *)
(* counts what it sends, and any tokens it reports as cached, the ceiling  *)
(* of prefix caching in the report is never below what the sessions        *)
(* repeated nor above their prompts; the cached tokens stay below the      *)
(* prompts, and below the ceiling too as long as no hit goes beyond the    *)
(* session's own prefix (common/session_metrics.py:232-359).               *)
(***************************************************************************)
THEOREM CeilingCorrect == Spec => []CacheCeiling
<1>1. ASSUME CeilingInv PROVE CacheCeiling
  <2> DEFINE M == MeasuredTurns(requests)
             prompt == [i \in M |-> requests[i].response.input]
             fresh == [i \in M |-> requests[i].response.input - 1]
             eligible == [i \in M |-> Eligible(requests, i)]
             cached == [i \in M |-> CachedOf(requests[i].response)]
             view == PrefixCacheView(requests)
  <2>1. \A i \in M :
          /\ requests[i].response.input \in Nat \ {0}
          /\ Eligible(requests, i) \in Nat
          /\ Eligible(requests, i) <= requests[i].response.input
          /\ CachedOf(requests[i].response) \in Nat
          /\ CachedOf(requests[i].response) <= requests[i].response.input
          /\ AllMeasured =>
               requests[i].response.input - 1 <= Eligible(requests, i)
          /\ OwnHits => CachedOf(requests[i].response)
                          <= requests[i].response.input - 1
    BY <1>1, TurnCounts DEF OwnHits
  <2>2. /\ prompt \in [M -> Nat] /\ fresh \in [M -> Nat]
        /\ eligible \in [M -> Nat] /\ cached \in [M -> Nat]
    BY <2>1
  <2>3. IsFiniteSet(M)
    <3>1. DOMAIN requests = 1..Len(requests) /\ Len(requests) \in Nat
      BY <1>1 DEF CeilingInv, ConversationInv, SessionShape
    <3>2. IsFiniteSet(1..Len(requests)) /\ M \subseteq 1..Len(requests)
      BY <3>1, UpToFinite DEF MeasuredTurns
    <3>. QED BY <3>2, FS_Subset
  <2>4. /\ view.prompt = SumOf(prompt, M) /\ view.eligible = SumOf(eligible, M)
        /\ view.cached = SumOf(cached, M) \/ view.cached = None
    BY SumsAreFolds DEF PrefixCacheView
  <2>5. AllMeasured => SharedTotal = SumOf(fresh, M)
    BY <1>1, SumsAreFolds DEF CeilingInv, SharedKept
  <2>6. /\ \A i \in M : eligible[i] <= prompt[i] /\ cached[i] <= prompt[i]
        /\ AllMeasured => \A i \in M : fresh[i] <= eligible[i]
        /\ OwnHits => \A i \in M : cached[i] <= fresh[i]
    BY <2>1
  <2> HIDE DEF view, prompt, fresh, eligible, cached, M
  <2>7. \A f \in [M -> Nat] : f \in [M -> Int] /\ SumOf(f, M) \in Nat
    BY <2>3, SumNatural
  <2>8. /\ SumOf(eligible, M) <= SumOf(prompt, M)
        /\ SumOf(cached, M) <= SumOf(prompt, M)
    BY <2>2, <2>3, <2>6, <2>7, SumBelow
  <2>9. /\ AllMeasured => SumOf(fresh, M) <= SumOf(eligible, M)
        /\ OwnHits => SumOf(cached, M) <= SumOf(fresh, M)
    BY <2>2, <2>3, <2>6, <2>7, SumBelow
  <2>10. /\ view.eligible <= view.prompt /\ view.cached <= view.prompt
         /\ AllMeasured => /\ view.eligible >= SharedTotal
                           /\ OwnHits => view.cached <= view.eligible
    BY <2>2, <2>4, <2>5, <2>7, <2>8, <2>9 DEF None
  <2>. QED BY <2>10 DEF CacheCeiling, view
<1>. QED BY <1>1, CeilingInvariant, PTL

-----------------------------------------------------------------------------
(* The lines of a response *)

NothingRead == [lines |-> <<>>, pending |-> <<>>, cr |-> FALSE]

\* Some pieces, one after the other.
Joined(pieces) == FoldLeft(\o, <<>>, pieces)

LEMMA BytesAreFolded ==
  ASSUME NEW state, NEW chunk
  PROVE  EatChunk(state, chunk) = Bytes!FoldOf(state, chunk)
BY DEF EatChunk, Bytes!FoldOf, Bytes!FoldUpTo, Bytes!Max, FoldLeft,
       MapThenFoldSet, Max

LEMMA ChunksAreFolded ==
  ASSUME NEW chunks
  PROVE  FoldLeft(EatChunk, NothingRead, chunks) =
           Chunks!FoldOf(NothingRead, chunks)
BY DEF Chunks!FoldOf, Chunks!FoldUpTo, Chunks!Max, FoldLeft, MapThenFoldSet,
       Max

LEMMA PiecesAreFolded ==
  ASSUME NEW pieces PROVE Joined(pieces) = Pieces!FoldOf(<<>>, pieces)
BY DEF Joined, Pieces!FoldOf, Pieces!FoldUpTo, Pieces!Max, FoldLeft,
       MapThenFoldSet, Max

LEMMA JoinedBytes ==
  ASSUME NEW T, NEW pieces \in Seq(Seq(T)), NEW i \in 0..Len(pieces)
  PROVE  Pieces!FoldUpTo(<<>>, pieces, 1..i) \in Seq(T)
<1> DEFINE n == Len(pieces)
           A == [j \in 0..n |-> Seq(T)]
<1>1. n \in Nat /\ \A j \in 1..n : pieces[j] \in Seq(T)
  OBVIOUS
<1>2. <<>> \in A[0]
  OBVIOUS
<1>3. \A j \in 1..n : \A a \in A[j - 1] : a \o pieces[j] \in A[j]
  <2> SUFFICES ASSUME NEW j \in 1..n, NEW a \in A[j - 1]
               PROVE  a \o pieces[j] \in A[j]
    OBVIOUS
  <2>1. j - 1 \in 0..n /\ j \in 0..n
    BY <1>1
  <2>2. a \in Seq(T) /\ pieces[j] \in Seq(T)
    BY <1>1, <2>1
  <2>3. a \o pieces[j] \in Seq(T)
    BY <2>2
  <2>. QED BY <2>1, <2>3
<1> HIDE DEF A
<1>4. \A j \in 0..n : Pieces!FoldUpTo(<<>>, pieces, 1..j) \in A[j]
  BY <1>1, <1>2, <1>3, Pieces!FoldInduction
<1>. QED BY <1>4 DEF A

\* All chunks leave what their bytes leave that arrive in one.
LEMMA ChunksLeave ==
  ASSUME NEW T, NEW chunks \in Seq(Seq(T))
  PROVE  Chunks!FoldOf(NothingRead, chunks) =
           Bytes!FoldOf(NothingRead, Joined(chunks))
<1> DEFINE n == Len(chunks)
           J(i) == Pieces!FoldUpTo(<<>>, chunks, 1..i)
           A == [i \in 0..n |-> {Bytes!FoldOf(NothingRead, J(i))}]
<1>1. n \in Nat /\ DOMAIN chunks = 1..n /\ \A i \in 1..n : chunks[i] \in Seq(T)
  OBVIOUS
<1>2. \A i \in 0..n : J(i) \in Seq(T)
  BY JoinedBytes
<1>3. NothingRead \in A[0]
  <2>1. 0 \in 0..n /\ 1..0 = {} /\ DOMAIN <<>> = {}
    BY <1>1
  <2>2. J(0) = <<>>
    BY <2>1, Pieces!FoldNone
  <2>3. Bytes!FoldOf(NothingRead, <<>>) = NothingRead
    BY <2>1, Bytes!FoldNone DEF Bytes!FoldOf
  <2>. QED BY <2>1, <2>2, <2>3
<1>4. \A i \in 1..n : \A a \in A[i - 1] : EatChunk(a, chunks[i]) \in A[i]
  <2> SUFFICES ASSUME NEW i \in 1..n, NEW a \in A[i - 1]
               PROVE  EatChunk(a, chunks[i]) \in A[i]
    OBVIOUS
  <2>1. PICK k \in Nat : k = i - 1
    BY <1>1
  <2>2. k \in 0..n /\ i \in 0..n /\ k + 1 = i
    BY <1>1, <2>1
  <2>3. a = Bytes!FoldOf(NothingRead, J(k))
    BY <2>1, <2>2
  <2>4. J(k + 1) = J(k) \o chunks[k + 1]
    BY <2>1, Pieces!FoldOneMore
  <2>5. J(k) \in Seq(T) /\ chunks[i] \in Seq(T)
    BY <1>1, <1>2, <2>2
  <2> HIDE DEF J
  <2>6. Bytes!FoldOf(NothingRead, J(k) \o chunks[i]) =
          Bytes!FoldOf(Bytes!FoldOf(NothingRead, J(k)), chunks[i])
    BY <2>5, Bytes!FoldConcat
  <2>. QED BY <2>2, <2>3, <2>4, <2>6, BytesAreFolded
<1>5. Chunks!FoldUpTo(NothingRead, chunks, 1..n) \in A[n]
  <2> HIDE DEF A
  <2>1. \A i \in 0..n : Chunks!FoldUpTo(NothingRead, chunks, 1..i) \in A[i]
    BY <1>1, <1>3, <1>4, Chunks!FoldInduction
  <2>. QED BY <1>1, <2>1
<1>6. J(n) = Joined(chunks) /\ n \in 0..n
  BY <1>1, PiecesAreFolded DEF Pieces!FoldOf
<1>. QED BY <1>1, <1>5, <1>6 DEF Chunks!FoldOf

\* The lines of a response do not depend on where the transport cut it into
\* chunks (runtime/http_client.py:94-118), not even between CR and LF.
THEOREM ChunksDoNotMatter ==
  ASSUME NEW T, NEW chunks \in Seq(Seq(T))
  PROVE  ResponseLines(chunks) = ResponseLines(<<Joined(chunks)>>)
<1> DEFINE whole == <<Joined(chunks)>>
<1>1. Joined(chunks) \in Seq(T)
  <2>1. Len(chunks) \in 0..Len(chunks) /\ DOMAIN chunks = 1..Len(chunks)
    OBVIOUS
  <2>. QED BY <2>1, JoinedBytes, PiecesAreFolded DEF Pieces!FoldOf
<1>2. whole \in Seq(Seq(T))
  BY <1>1
<1>3. Joined(whole) = Joined(chunks)
  <2>1. DOMAIN whole = 1..(0 + 1) /\ whole[0 + 1] = Joined(chunks) /\ 1..0 = {}
    OBVIOUS
  <2>2. Pieces!FoldUpTo(<<>>, whole, 1..(0 + 1)) =
          Pieces!FoldUpTo(<<>>, whole, 1..0) \o whole[0 + 1]
    BY Pieces!FoldOneMore
  <2>3. Pieces!FoldUpTo(<<>>, whole, 1..0) = <<>>
    BY <2>1, Pieces!FoldNone
  <2>4. <<>> \o Joined(chunks) = Joined(chunks)
    BY <1>1
  <2>. QED BY <2>1, <2>2, <2>3, <2>4, PiecesAreFolded DEF Pieces!FoldOf
<1>4. FoldLeft(EatChunk, NothingRead, chunks) =
        FoldLeft(EatChunk, NothingRead, whole)
  <2> HIDE DEF whole
  <2>. QED BY <1>2, <1>3, ChunksLeave, ChunksAreFolded
<1>. QED BY <1>4 DEF ResponseLines, NothingRead

\* A line ends with a CR, or with an LF that follows none.
EndsLine(bytes, i) ==
  \/ bytes[i] = "cr"
  \/ bytes[i] = "lf" /\ (i > 1 => bytes[i - 1] # "cr")

LineEnds(bytes, n) == {i \in 1..n : EndsLine(bytes, i)}

\* The number of the line that byte i ends.
LineAt(bytes, i) == Cardinality(LineEnds(bytes, i))

\* The payload of the first n bytes.
TextUpTo(bytes, n) == Texts!FoldUpTo(<<>>, bytes, 1..n)

\* The first k lines, one after the other.
FirstLines(lines, k) == Pieces!FoldUpTo(<<>>, lines, 1..k)

\* What the client has after i bytes: every line it has found ends where a
\* line ends, and the rest is pending.
LinesRight(bytes, i, lines, pending) ==
  /\ Len(lines) = LineAt(bytes, i)
  /\ FirstLines(lines, Len(lines)) \o pending = TextUpTo(bytes, i)
  /\ \A e \in LineEnds(bytes, i) :
       /\ LineAt(bytes, e) <= Len(lines)
       /\ FirstLines(lines, LineAt(bytes, e)) = TextUpTo(bytes, e)

AfterCr(bytes, i) == i > 0 /\ bytes[i] = "cr"

ReadRight(T, bytes, i) ==
  {st \in [lines : Seq(Seq(T)), pending : Seq(T), cr : BOOLEAN] :
     /\ st.cr = AfterCr(bytes, i)
     /\ LinesRight(bytes, i, st.lines, st.pending)}

LEMMA EndsGrow ==
  ASSUME NEW bytes, NEW i \in Nat
  PROVE  /\ IsFiniteSet(LineEnds(bytes, i))
         /\ LineAt(bytes, i) \in Nat
         /\ i + 1 \notin LineEnds(bytes, i)
         /\ EndsLine(bytes, i + 1) =>
              /\ LineEnds(bytes, i + 1) = LineEnds(bytes, i) \cup {i + 1}
              /\ LineAt(bytes, i + 1) = LineAt(bytes, i) + 1
         /\ ~ EndsLine(bytes, i + 1) =>
              /\ LineEnds(bytes, i + 1) = LineEnds(bytes, i)
              /\ LineAt(bytes, i + 1) = LineAt(bytes, i)
<1>1. IsFiniteSet(LineEnds(bytes, i))
  <2>1. IsFiniteSet(1..i) /\ LineEnds(bytes, i) \subseteq 1..i
    BY UpToFinite DEF LineEnds
  <2>. QED BY <2>1, FS_Subset
<1>2. LineAt(bytes, i) \in Nat
  BY <1>1, FS_CardinalityType DEF LineAt
<1>3. 1..(i + 1) = 1..i \cup {i + 1} /\ i + 1 \notin 1..i
  OBVIOUS
<1>4. i + 1 \notin LineEnds(bytes, i)
  BY <1>3 DEF LineEnds
<1>5. ASSUME EndsLine(bytes, i + 1)
      PROVE  LineEnds(bytes, i + 1) = LineEnds(bytes, i) \cup {i + 1}
  BY <1>3, <1>5 DEF LineEnds
<1>6. ASSUME ~ EndsLine(bytes, i + 1)
      PROVE  LineEnds(bytes, i + 1) = LineEnds(bytes, i)
  BY <1>3, <1>6 DEF LineEnds
<1>7. ASSUME EndsLine(bytes, i + 1)
      PROVE  LineAt(bytes, i + 1) = LineAt(bytes, i) + 1
  BY <1>1, <1>4, <1>5, <1>7, FS_AddElement DEF LineAt
<1>. QED BY <1>1, <1>2, <1>4, <1>5, <1>6, <1>7 DEF LineAt

\* Whether a byte ends a line shows after the byte before it.
LEMMA EndsSeen ==
  ASSUME NEW bytes, NEW i \in Nat
  PROVE  EndsLine(bytes, i + 1) <=>
           /\ bytes[i + 1] \in {"cr", "lf"}
           /\ ~ (bytes[i + 1] = "lf" /\ AfterCr(bytes, i))
<1> PICK k : k = i + 1
  OBVIOUS
<1>1. (k > 1 <=> i > 0) /\ k - 1 = i
  OBVIOUS
<1>2. EndsLine(bytes, k) <=>
        \/ bytes[k] = "cr"
        \/ bytes[k] = "lf" /\ (i > 0 => bytes[i] # "cr")
  BY <1>1 DEF EndsLine
<1>3. EndsLine(bytes, k) <=>
        /\ bytes[k] \in {"cr", "lf"}
        /\ ~ (bytes[k] = "lf" /\ AfterCr(bytes, i))
  BY <1>2 DEF AfterCr
<1>. QED BY <1>3

\* Of more lines, the first are the same.
LEMMA LineAppended ==
  ASSUME NEW T, NEW lines \in Seq(Seq(T)), NEW line \in Seq(T)
  PROVE  /\ Append(lines, line) \in Seq(Seq(T))
         /\ Len(lines) \in Nat
         /\ Len(Append(lines, line)) = Len(lines) + 1
         /\ \A k \in 0..Len(lines) :
              /\ FirstLines(Append(lines, line), k) = FirstLines(lines, k)
              /\ FirstLines(lines, k) \in Seq(T)
         /\ FirstLines(Append(lines, line), Len(lines) + 1) =
              FirstLines(lines, Len(lines)) \o line
<1> DEFINE more == Append(lines, line)
           n == Len(lines)
<1>1. /\ more \in Seq(Seq(T)) /\ n \in Nat /\ Len(more) = n + 1
      /\ more[n + 1] = line /\ \A i \in 1..n : more[i] = lines[i]
  OBVIOUS
<1> HIDE DEF more
<1>2. ASSUME NEW k \in 0..n
      PROVE  FirstLines(more, k) = FirstLines(lines, k)
  <2>1. k \in Nat /\ \A i \in 1..k : more[i] = lines[i]
    BY <1>1
  <2>. QED BY <2>1, Pieces!FoldSame DEF FirstLines
<1>3. \A k \in 0..n : FirstLines(lines, k) \in Seq(T)
  BY JoinedBytes DEF FirstLines
<1>4. FirstLines(more, n + 1) = FirstLines(more, n) \o more[n + 1]
  BY <1>1, Pieces!FoldOneMore DEF FirstLines
<1>5. FirstLines(more, n) = FirstLines(lines, n)
  BY <1>1, <1>2
<1>. QED BY <1>1, <1>2, <1>3, <1>4, <1>5 DEF more

\* A line that ends.
LEMMA LineEnded ==
  ASSUME NEW T, NEW bytes, NEW i \in Nat, EndsLine(bytes, i + 1),
         NEW lines \in Seq(Seq(T)), NEW pending \in Seq(T),
         LinesRight(bytes, i, lines, pending)
  PROVE  LinesRight(bytes, i + 1, Append(lines, pending), <<>>)
<1> DEFINE next == Append(lines, pending)
           n == Len(lines)
<1>1. /\ next \in Seq(Seq(T)) /\ n \in Nat /\ Len(next) = n + 1
      /\ \A k \in 0..n : /\ FirstLines(next, k) = FirstLines(lines, k)
                         /\ FirstLines(lines, k) \in Seq(T)
      /\ FirstLines(next, n + 1) = FirstLines(lines, n) \o pending
  BY LineAppended
<1> HIDE DEF next
<1>2. /\ n = LineAt(bytes, i)
      /\ FirstLines(lines, n) \o pending = TextUpTo(bytes, i)
      /\ \A e \in LineEnds(bytes, i) :
           /\ LineAt(bytes, e) <= n
           /\ FirstLines(lines, LineAt(bytes, e)) = TextUpTo(bytes, e)
  BY DEF LinesRight
<1>3. /\ LineEnds(bytes, i + 1) = LineEnds(bytes, i) \cup {i + 1}
      /\ LineAt(bytes, i + 1) = n + 1
  BY <1>2, EndsGrow
<1>4. TextUpTo(bytes, i + 1) = TextUpTo(bytes, i)
  <2>1. TextUpTo(bytes, i + 1) = AddText(TextUpTo(bytes, i), bytes[i + 1])
    BY Texts!FoldOneMore DEF TextUpTo
  <2>2. bytes[i + 1] \in {"cr", "lf"}
    BY EndsSeen
  <2>. QED BY <2>1, <2>2 DEF AddText
<1>5. FirstLines(next, n + 1) = TextUpTo(bytes, i + 1)
  BY <1>1, <1>2, <1>4
<1>6. FirstLines(next, n + 1) \o <<>> = FirstLines(next, n + 1)
  <2>1. n \in 0..n
    BY <1>1
  <2> PICK first \in Seq(T) : first = FirstLines(lines, n)
    BY <1>1, <2>1
  <2>2. first \o pending \in Seq(T)
    OBVIOUS
  <2>. QED BY <1>1, <2>2
<1>7. ASSUME NEW e \in LineEnds(bytes, i + 1)
      PROVE  /\ LineAt(bytes, e) <= n + 1
             /\ FirstLines(next, LineAt(bytes, e)) = TextUpTo(bytes, e)
  <2>1. CASE e = i + 1
    BY <1>1, <1>3, <1>5, <2>1
  <2>2. CASE e \in LineEnds(bytes, i)
    <3>1. e \in Nat
      BY <2>2 DEF LineEnds
    <3>2. LineAt(bytes, e) \in 0..n
      BY <1>1, <1>2, <2>2, <3>1, EndsGrow
    <3>. QED BY <1>1, <1>2, <2>2, <3>2
  <2>. QED BY <1>3, <2>1, <2>2
<1>. QED BY <1>1, <1>3, <1>5, <1>6, <1>7 DEF LinesRight, next

\* A byte of payload.
LEMMA LineLonger ==
  ASSUME NEW T, NEW bytes, NEW i \in Nat, bytes[i + 1] \in T,
         bytes[i + 1] \notin {"cr", "lf"},
         NEW lines \in Seq(Seq(T)), NEW pending \in Seq(T),
         LinesRight(bytes, i, lines, pending)
  PROVE  LinesRight(bytes, i + 1, lines, Append(pending, bytes[i + 1]))
<1> PICK byte \in T : byte = bytes[i + 1]
  OBVIOUS
<1>1. TextUpTo(bytes, i + 1) = Append(TextUpTo(bytes, i), byte)
  <2>1. TextUpTo(bytes, i + 1) = AddText(TextUpTo(bytes, i), byte)
    BY Texts!FoldOneMore DEF TextUpTo
  <2>. QED BY <2>1 DEF AddText
<1>2. /\ LineEnds(bytes, i + 1) = LineEnds(bytes, i)
      /\ LineAt(bytes, i + 1) = LineAt(bytes, i)
  BY EndsSeen, EndsGrow
<1>3. FirstLines(lines, Len(lines)) \in Seq(T)
  <2>1. Len(lines) \in 0..Len(lines)
    OBVIOUS
  <2>. QED BY <2>1, JoinedBytes DEF FirstLines
<1>4. FirstLines(lines, Len(lines)) \o Append(pending, byte)
        = Append(FirstLines(lines, Len(lines)) \o pending, byte)
  <2> PICK first \in Seq(T) : first = FirstLines(lines, Len(lines))
    BY <1>3
  <2>1. Append(pending, byte) = pending \o <<byte>>
    BY AppendIsConcat
  <2>2. first \o pending \in Seq(T)
    OBVIOUS
  <2>3. Append(first \o pending, byte) = (first \o pending) \o <<byte>>
    BY <2>2, AppendIsConcat
  <2>4. <<byte>> \in Seq(T)
    OBVIOUS
  <2>5. first \o (pending \o <<byte>>) = (first \o pending) \o <<byte>>
    BY <2>4, ConcatAssociative
  <2>. QED BY <2>1, <2>3, <2>5
<1>. QED BY <1>1, <1>2, <1>4 DEF LinesRight

LEMMA EatByteRight ==
  ASSUME NEW T, NEW bytes, NEW i \in Nat, bytes[i + 1] \in T,
         NEW st \in ReadRight(T, bytes, i)
  PROVE  EatByte(st, bytes[i + 1]) \in ReadRight(T, bytes, i + 1)
<1> DEFINE byte == bytes[i + 1]
           next == EatByte(st, byte)
<1>1. /\ st \in [lines : Seq(Seq(T)), pending : Seq(T), cr : BOOLEAN]
      /\ st.lines \in Seq(Seq(T)) /\ st.pending \in Seq(T)
      /\ st.cr = AfterCr(bytes, i)
      /\ LinesRight(bytes, i, st.lines, st.pending)
  BY DEF ReadRight
<1>2. AfterCr(bytes, i + 1) = (byte = "cr")
  BY DEF AfterCr
<1>3. CASE byte = "lf" /\ AfterCr(bytes, i)
  <2>1. next = [st EXCEPT !.cr = FALSE]
    BY <1>1, <1>3 DEF EatByte
  <2>2. /\ LineEnds(bytes, i + 1) = LineEnds(bytes, i)
        /\ LineAt(bytes, i + 1) = LineAt(bytes, i)
    BY <1>3, EndsSeen, EndsGrow
  <2>3. TextUpTo(bytes, i + 1) = TextUpTo(bytes, i)
    <3>1. TextUpTo(bytes, i + 1) = AddText(TextUpTo(bytes, i), byte)
      BY Texts!FoldOneMore DEF TextUpTo
    <3>. QED BY <1>3, <3>1 DEF AddText
  <2>4. LinesRight(bytes, i + 1, st.lines, st.pending)
    BY <1>1, <2>2, <2>3 DEF LinesRight
  <2>5. AfterCr(bytes, i + 1) = FALSE
    BY <1>2, <1>3
  <2>. QED BY <1>1, <2>1, <2>4, <2>5 DEF ReadRight
<1>4. CASE EndsLine(bytes, i + 1)
  <2>1. byte \in {"cr", "lf"} /\ ~ (byte = "lf" /\ AfterCr(bytes, i))
    BY <1>4, EndsSeen
  <2>2. next = [lines |-> Append(st.lines, st.pending), pending |-> <<>>,
                cr |-> byte = "cr"]
    BY <1>1, <2>1 DEF EatByte
  <2>3. Append(st.lines, st.pending) \in Seq(Seq(T))
    BY <1>1
  <2>4. LinesRight(bytes, i + 1, Append(st.lines, st.pending), <<>>)
    BY <1>1, <1>4, LineEnded
  <2>5. <<>> \in Seq(T) /\ (byte = "cr") \in BOOLEAN
    OBVIOUS
  <2> HIDE DEF byte
  <2>6. next \in [lines : Seq(Seq(T)), pending : Seq(T), cr : BOOLEAN]
    BY <2>2, <2>3, <2>5
  <2>7. /\ next.cr = AfterCr(bytes, i + 1)
        /\ LinesRight(bytes, i + 1, next.lines, next.pending)
    BY <1>2, <2>2, <2>4
  <2> HIDE DEF next
  <2>8. next \in ReadRight(T, bytes, i + 1)
    BY <2>6, <2>7 DEF ReadRight
  <2>. QED BY <2>8 DEF next, byte
<1>5. CASE byte \notin {"cr", "lf"}
  <2>1. next = [st EXCEPT !.pending = Append(@, byte), !.cr = FALSE]
    BY <1>5 DEF EatByte
  <2>2. Append(st.pending, byte) \in Seq(T)
    BY <1>1
  <2>3. LinesRight(bytes, i + 1, st.lines, Append(st.pending, byte))
    BY <1>1, <1>5, LineLonger
  <2>4. AfterCr(bytes, i + 1) = FALSE
    BY <1>2, <1>5
  <2>. QED BY <1>1, <2>1, <2>2, <2>3, <2>4 DEF ReadRight
<1>. QED BY <1>3, <1>4, <1>5, EndsSeen

LEMMA NothingReadRight ==
  ASSUME NEW T, NEW bytes PROVE NothingRead \in ReadRight(T, bytes, 0)
<1>1. 1..0 = {} /\ Len(<<>>) = 0 /\ <<>> \o <<>> = <<>>
  OBVIOUS
<1>2. LineEnds(bytes, 0) = {}
  BY <1>1 DEF LineEnds
<1>3. LineAt(bytes, 0) = 0
  BY <1>2, FS_EmptySet DEF LineAt
<1>4. FirstLines(<<>>, 0) = <<>> /\ TextUpTo(bytes, 0) = <<>>
  BY <1>1, Pieces!FoldNone, Texts!FoldNone DEF FirstLines, TextUpTo
<1>5. LinesRight(bytes, 0, <<>>, <<>>)
  BY <1>1, <1>2, <1>3, <1>4 DEF LinesRight
<1>6. AfterCr(bytes, 0) = FALSE
  BY DEF AfterCr
<1>7. NothingRead \in [lines : Seq(Seq(T)), pending : Seq(T), cr : BOOLEAN]
  <2>1. <<>> \in Seq(Seq(T)) /\ <<>> \in Seq(T)
    OBVIOUS
  <2>. QED BY <2>1 DEF NothingRead
<1>8. /\ NothingRead.lines = <<>> /\ NothingRead.pending = <<>>
      /\ NothingRead.cr = FALSE
  BY DEF NothingRead
<1>. QED BY <1>5, <1>6, <1>7, <1>8 DEF ReadRight

\* However a response is cut into chunks, its lines are its payload, whole and
\* in order, and end where a CR, an LF or a CR with an LF is, each of them once;
\* what is after the last of these is a line if there is anything
\* (runtime/http_client.py:94-118).
THEOREM LinesFaithful ==
  ASSUME NEW T, NEW chunks \in Seq(Seq(T))
  PROVE  LET bytes == Joined(chunks)
             n == Len(bytes)
             lines == ResponseLines(chunks)
         IN  /\ Joined(lines) = TextUpTo(bytes, n)
             /\ \A e \in LineEnds(bytes, n) :
                  /\ LineAt(bytes, e) <= Len(lines)
                  /\ FirstLines(lines, LineAt(bytes, e)) = TextUpTo(bytes, e)
             /\ \/ Len(lines) = LineAt(bytes, n)
                \/ /\ Len(lines) = LineAt(bytes, n) + 1
                   /\ lines[Len(lines)] # <<>>
<1> DEFINE bytes == Joined(chunks)
           n == Len(bytes)
           st == Bytes!FoldOf(NothingRead, bytes)
           lines == ResponseLines(chunks)
           A == [i \in 0..n |-> ReadRight(T, bytes, i)]
<1>1. bytes \in Seq(T)
  <2>1. Len(chunks) \in 0..Len(chunks) /\ DOMAIN chunks = 1..Len(chunks)
    OBVIOUS
  <2>. QED BY <2>1, JoinedBytes, PiecesAreFolded DEF Pieces!FoldOf
<1> HIDE DEF bytes
<1>2. /\ n \in Nat /\ DOMAIN bytes = 1..n
      /\ \A i \in 0..(n - 1) : bytes[i + 1] \in T
  BY <1>1
<1>3. \A i \in 1..n : \A a \in A[i - 1] : EatByte(a, bytes[i]) \in A[i]
  <2> SUFFICES ASSUME NEW i \in 1..n, NEW a \in A[i - 1]
               PROVE  EatByte(a, bytes[i]) \in A[i]
    OBVIOUS
  <2>1. PICK k \in Nat : k = i - 1
    BY <1>2
  <2>2. k \in 0..n /\ k \in 0..(n - 1) /\ i \in 0..n /\ k + 1 = i
    BY <1>2, <2>1
  <2>3. a \in ReadRight(T, bytes, k) /\ bytes[k + 1] \in T
    BY <1>2, <2>1, <2>2
  <2>4. EatByte(a, bytes[k + 1]) \in ReadRight(T, bytes, k + 1)
    BY <2>3, EatByteRight
  <2>. QED BY <2>2, <2>4
<1>4. NothingRead \in A[0]
  BY <1>2, NothingReadRight
<1>5. st \in ReadRight(T, bytes, n)
  <2>1. \A i \in 0..n : Bytes!FoldUpTo(NothingRead, bytes, 1..i) \in A[i]
    <3> HIDE DEF A, n
    <3>. QED BY <1>2, <1>3, <1>4, Bytes!FoldInduction
  <2>2. n \in 0..n
    BY <1>2
  <2>. QED BY <1>2, <2>1, <2>2 DEF Bytes!FoldOf
<1>6. lines = IF st.pending = <<>> THEN st.lines
              ELSE Append(st.lines, st.pending)
  BY ChunksAreFolded, ChunksLeave DEF ResponseLines, NothingRead, bytes
<1> HIDE DEF st, A, lines
<1>7. /\ st.lines \in Seq(Seq(T)) /\ st.pending \in Seq(T)
      /\ LinesRight(bytes, n, st.lines, st.pending)
  BY <1>5 DEF ReadRight
<1> PICK found \in Seq(Seq(T)) : found = st.lines
  BY <1>7
<1> PICK rest \in Seq(T) : rest = st.pending
  BY <1>7
<1>8. /\ Len(found) \in Nat /\ Len(found) = LineAt(bytes, n)
      /\ FirstLines(found, Len(found)) \o rest = TextUpTo(bytes, n)
      /\ \A e \in LineEnds(bytes, n) :
           /\ LineAt(bytes, e) <= Len(found) /\ LineAt(bytes, e) \in Nat
           /\ FirstLines(found, LineAt(bytes, e)) = TextUpTo(bytes, e)
  <2>1. \A e \in LineEnds(bytes, n) : e \in Nat
    BY <1>2 DEF LineEnds
  <2>. QED BY <1>7, <2>1, EndsGrow DEF LinesRight
<1>9. ASSUME NEW more \in Seq(Seq(T))
      PROVE  Joined(more) = FirstLines(more, Len(more))
  <2>1. DOMAIN more = 1..Len(more)
    OBVIOUS
  <2>. QED BY <2>1, PiecesAreFolded DEF Pieces!FoldOf, FirstLines
<1>10. CASE rest = <<>>
  <2>1. lines = found
    BY <1>6, <1>10
  <2>2. FirstLines(found, Len(found)) \o rest = FirstLines(found, Len(found))
    <3>1. Len(found) \in 0..Len(found)
      BY <1>8
    <3> PICK first \in Seq(T) : first = FirstLines(found, Len(found))
      BY <3>1, JoinedBytes DEF FirstLines
    <3>. QED BY <1>10
  <2>. QED BY <1>8, <1>9, <2>1, <2>2 DEF lines, bytes
<1>11. CASE rest # <<>>
  <2> PICK more : more = Append(found, rest)
    OBVIOUS
  <2>1. lines = more
    BY <1>6, <1>11
  <2>2. /\ more \in Seq(Seq(T)) /\ Len(more) = Len(found) + 1
        /\ \A k \in 0..Len(found) : FirstLines(more, k) = FirstLines(found, k)
        /\ FirstLines(more, Len(found) + 1) =
             FirstLines(found, Len(found)) \o rest
    <3>0. found \in Seq(Seq(T)) /\ rest \in Seq(T)
      OBVIOUS
    <3>1. Append(found, rest) \in Seq(Seq(T))
      BY ONLY <3>0, LineAppended
    <3>2. Len(Append(found, rest)) = Len(found) + 1
      BY ONLY <3>0, LineAppended
    <3>3. \A k \in 0..Len(found) :
            FirstLines(Append(found, rest), k) = FirstLines(found, k)
      BY ONLY <3>0, LineAppended
    <3>4. FirstLines(Append(found, rest), Len(found) + 1) =
            FirstLines(found, Len(found)) \o rest
      BY ONLY <3>0, LineAppended
    <3>5. more = Append(found, rest)
      OBVIOUS
    <3>6. more \in Seq(Seq(T)) /\ Len(more) = Len(found) + 1
      BY ONLY <3>1, <3>2, <3>5, Zenon
    <3>7. \A k \in 0..Len(found) : FirstLines(more, k) = FirstLines(found, k)
      BY ONLY <3>3, <3>5, Zenon
    <3>8. FirstLines(more, Len(found) + 1) =
            FirstLines(found, Len(found)) \o rest
      BY ONLY <3>4, <3>5, Zenon
    <3>. QED BY ONLY <3>6, <3>7, <3>8
  <2>3. more[Len(more)] = rest
    <3>1. Append(found, rest)[Len(found) + 1] = rest
      OBVIOUS
    <3>2. more = Append(found, rest) /\ Len(more) = Len(found) + 1
      BY <2>2
    <3>. QED BY ONLY <3>1, <3>2, Zenon
  <2>4. Joined(more) = TextUpTo(bytes, n)
    BY <1>8, <1>9, <2>2
  <2>5. \A e \in LineEnds(bytes, n) :
          /\ LineAt(bytes, e) <= Len(more)
          /\ FirstLines(more, LineAt(bytes, e)) = TextUpTo(bytes, e)
    BY <1>8, <2>2
  <2>. QED BY <1>8, <1>11, <2>1, <2>2, <2>3, <2>4, <2>5 DEF lines, bytes
<1>. QED BY <1>10, <1>11

-----------------------------------------------------------------------------
(* The tokens of a thinking block *)

\* The block opens at place s; at none, when the prompt has opened it.
Opens(opened, output, s) ==
  IF opened THEN s = 0 ELSE s >= 1 /\ output[s] = "start"

\* Among the first n tokens the block is not opened again, and it is closed at
\* most once, after it was opened.
Orderly(opened, output, n) ==
  /\ \A s \in 0..n, k \in 1..n :
       Opens(opened, output, s) /\ output[k] = "start" => s = k
  /\ \A j, k \in 1..n : output[j] = "end" /\ output[k] = "end" => j = k
  /\ \A k \in 1..n : output[k] = "end" =>
       \E s \in 0..(k - 1) : Opens(opened, output, s)

\* What has been counted after n tokens that are orderly.
Tally(opened, output, n, st) ==
  /\ st.started <=> \E s \in 0..n : Opens(opened, output, s)
  /\ st.closed <=> \E e \in 1..n : output[e] = "end"
  /\ st.inside <=> st.started /\ ~ st.closed
  /\ ~ st.started => st.count = 0
  /\ \A s \in 0..n : Opens(opened, output, s) =>
       /\ st.inside => st.count = n - s
       /\ \A e \in 1..n : output[e] = "end" => st.count = e - 1 - s

States == [count : Nat, reason : {"none", "nested", "unexpected_end"},
           closed : BOOLEAN, started : BOOLEAN, inside : BOOLEAN]

CountedRight(opened, output, n) ==
  {st \in States :
     /\ st.reason = "none" <=> Orderly(opened, output, n)
     /\ st.reason = "none" => Tally(opened, output, n, st)}

CountOf(opened) == [count |-> 0, reason |-> "none", closed |-> FALSE,
                    started |-> opened, inside |-> opened]

LEMMA DisorderStays ==
  ASSUME NEW opened, NEW output, NEW n \in Nat, Orderly(opened, output, n + 1)
  PROVE  Orderly(opened, output, n)
<1>1. 0..n \subseteq 0..(n + 1) /\ 1..n \subseteq 1..(n + 1)
  OBVIOUS
<1>. QED BY <1>1 DEF Orderly

\* A block that opens where none was open.
LEMMA BlockOpens ==
  ASSUME NEW opened \in BOOLEAN, NEW output, NEW n \in Nat, NEW st \in States,
         Orderly(opened, output, n), Tally(opened, output, n, st),
         ~ st.started, output[n + 1] = "start"
  PROVE  /\ Orderly(opened, output, n + 1)
         /\ Tally(opened, output, n + 1,
                  [st EXCEPT !.started = TRUE, !.inside = TRUE])
<1> PICK m : m = n + 1
  OBVIOUS
<1>1. /\ m \in Nat /\ m >= 1 /\ m \in 0..m /\ m \in 1..m
      /\ 1..m = 1..n \cup {m} /\ 0..m = 0..n \cup {m} /\ 0 \in 0..n
      /\ m \notin 0..n
  OBVIOUS
<1>2. \A s \in 0..n : ~ Opens(opened, output, s)
  BY DEF Tally
<1>3. ~ opened
  BY <1>1, <1>2 DEF Opens
<1>4. Opens(opened, output, m) /\ output[m] = "start"
  BY <1>1, <1>3 DEF Opens
<1>5. \A k \in 1..n : output[k] # "end"
  <2> SUFFICES ASSUME NEW k \in 1..n, output[k] = "end" PROVE FALSE
    OBVIOUS
  <2>1. PICK s \in 0..(k - 1) : Opens(opened, output, s)
    BY DEF Orderly
  <2>. QED BY <1>2, <2>1
<1>6. \A k \in 1..m : output[k] # "end"
  BY <1>1, <1>4, <1>5
<1>7. \A k \in 1..n : output[k] # "start"
  BY <1>2, <1>3 DEF Opens
<1>8. Orderly(opened, output, m)
  <2>1. \A s \in 0..m, k \in 1..m :
          Opens(opened, output, s) /\ output[k] = "start" => s = k
    BY <1>1, <1>2, <1>7
  <2>. QED BY <1>6, <2>1 DEF Orderly
<1> PICK next : next = [st EXCEPT !.started = TRUE, !.inside = TRUE]
  OBVIOUS
<1>9. next.started = TRUE /\ next.inside = TRUE /\ next.closed = st.closed
        /\ next.count = st.count
  BY DEF States
<1>10. st.count = 0 /\ ~ st.closed
  BY <1>5 DEF Tally
<1>11. ASSUME NEW s \in 0..m, Opens(opened, output, s) PROVE s = m
  BY <1>1, <1>2, <1>11
<1>12. Tally(opened, output, m, next)
  BY <1>1, <1>4, <1>6, <1>9, <1>10, <1>11 DEF Tally
<1>. QED BY <1>8, <1>12

\* A block that closes.
LEMMA BlockCloses ==
  ASSUME NEW opened \in BOOLEAN, NEW output, NEW n \in Nat, NEW st \in States,
         Orderly(opened, output, n), Tally(opened, output, n, st),
         st.inside, output[n + 1] = "end"
  PROVE  /\ Orderly(opened, output, n + 1)
         /\ Tally(opened, output, n + 1,
                  [st EXCEPT !.inside = FALSE, !.closed = TRUE])
<1> PICK m : m = n + 1
  OBVIOUS
<1>1. /\ m \in Nat /\ m >= 1 /\ m \in 1..m /\ m - 1 = n
      /\ 1..m = 1..n \cup {m} /\ 0..m = 0..n \cup {m} /\ 0 \in 0..n
  OBVIOUS
<1>2. /\ st.started /\ ~ st.closed
      /\ \A k \in 1..n : output[k] # "end"
  BY DEF Tally
<1>3. PICK first \in 0..n : Opens(opened, output, first)
  BY <1>2 DEF Tally
<1>4. output[m] = "end" /\ ~ Opens(opened, output, m)
  BY <1>1 DEF Opens
<1>5. Orderly(opened, output, m)
  <2>1. \A s \in 0..m, k \in 1..m :
          Opens(opened, output, s) /\ output[k] = "start" => s = k
    BY <1>1, <1>4 DEF Orderly
  <2>2. \A j, k \in 1..m : output[j] = "end" /\ output[k] = "end" => j = k
    BY <1>1, <1>2
  <2>3. \A k \in 1..m : output[k] = "end" =>
          \E s \in 0..(k - 1) : Opens(opened, output, s)
    BY <1>1, <1>2, <1>3
  <2>. QED BY <2>1, <2>2, <2>3 DEF Orderly
<1> PICK next : next = [st EXCEPT !.inside = FALSE, !.closed = TRUE]
  OBVIOUS
<1>6. next.started = st.started /\ next.inside = FALSE /\ next.closed = TRUE
        /\ next.count = st.count
  BY DEF States
<1>7. \A s \in 0..n : Opens(opened, output, s) => st.count = n - s
  BY DEF Tally
<1>8. \A s \in 0..m : Opens(opened, output, s) =>
        \A e \in 1..m : output[e] = "end" => st.count = e - 1 - s
  BY <1>1, <1>2, <1>4, <1>7
<1>9. \E s \in 0..m : Opens(opened, output, s)
  BY <1>1, <1>3
<1>10. Tally(opened, output, m, next)
  BY <1>1, <1>2, <1>4, <1>6, <1>8, <1>9 DEF Tally
<1>. QED BY <1>5, <1>10

\* A token inside the block, or outside.
LEMMA BlockGoesOn ==
  ASSUME NEW opened \in BOOLEAN, NEW output, NEW n \in Nat, NEW st \in States,
         Orderly(opened, output, n), Tally(opened, output, n, st),
         output[n + 1] \notin {"start", "end"}
  PROVE  /\ Orderly(opened, output, n + 1)
         /\ Tally(opened, output, n + 1,
                  IF st.inside THEN [st EXCEPT !.count = @ + 1] ELSE st)
<1> PICK m : m = n + 1
  OBVIOUS
<1>1. /\ m \in Nat /\ m >= 1 /\ m \in 1..m
      /\ 1..m = 1..n \cup {m} /\ 0..m = 0..n \cup {m} /\ 0 \in 0..n
  OBVIOUS
<1>2. /\ output[m] # "start" /\ output[m] # "end"
      /\ ~ Opens(opened, output, m)
  BY <1>1 DEF Opens
<1>3. Orderly(opened, output, m)
  BY <1>1, <1>2 DEF Orderly
<1> PICK next : next = IF st.inside THEN [st EXCEPT !.count = @ + 1] ELSE st
  OBVIOUS
<1>4. /\ next.started = st.started /\ next.inside = st.inside
      /\ next.closed = st.closed /\ st.count \in Nat
      /\ next.count = IF st.inside THEN st.count + 1 ELSE st.count
  BY DEF States
<1>5. /\ (\E s \in 0..m : Opens(opened, output, s))
           <=> \E s \in 0..n : Opens(opened, output, s)
      /\ (\E e \in 1..m : output[e] = "end")
           <=> \E e \in 1..n : output[e] = "end"
  BY <1>1, <1>2
<1>6. ASSUME NEW s \in 0..m, Opens(opened, output, s)
      PROVE  /\ st.inside => next.count = m - s
             /\ \A e \in 1..m : output[e] = "end" => next.count = e - 1 - s
  <2>1. s \in 0..n
    BY <1>1, <1>2, <1>6
  <2>2. st.inside => next.count = m - s
    BY <1>4, <1>6, <2>1 DEF Tally
  <2>3. ASSUME NEW e \in 1..m, output[e] = "end"
        PROVE  next.count = e - 1 - s
    <3>1. e \in 1..n
      BY <1>1, <1>2, <2>3
    <3>2. ~ st.inside /\ st.count = e - 1 - s
      BY <1>6, <2>1, <2>3, <3>1 DEF Tally
    <3>. QED BY <1>4, <3>2
  <2>. QED BY <2>2, <2>3
<1>7. Tally(opened, output, m, next)
  <2>1. /\ next.started <=> \E s \in 0..m : Opens(opened, output, s)
        /\ next.closed <=> \E e \in 1..m : output[e] = "end"
    BY <1>4, <1>5 DEF Tally
  <2>2. /\ next.inside <=> next.started /\ ~ next.closed
        /\ ~ next.started => next.count = 0
    BY <1>4 DEF Tally
  <2>. QED BY <1>4, <1>6, <2>1, <2>2 DEF Tally
<1>. QED BY <1>3, <1>7

LEMMA CountTokenRight ==
  ASSUME NEW opened \in BOOLEAN, NEW output, NEW n \in Nat,
         NEW st \in CountedRight(opened, output, n)
  PROVE  CountToken(st, output[n + 1]) \in CountedRight(opened, output, n + 1)
<1> DEFINE token == output[n + 1]
           next == CountToken(st, token)
<1>1. /\ st \in States /\ st.count \in Nat
      /\ st.reason \in {"none", "nested", "unexpected_end"}
      /\ st.reason = "none" <=> Orderly(opened, output, n)
      /\ st.reason = "none" => Tally(opened, output, n, st)
  BY DEF CountedRight, States
<1>2. SUFFICES /\ next \in States
               /\ next.reason = "none" <=> Orderly(opened, output, n + 1)
               /\ next.reason = "none" => Tally(opened, output, n + 1, next)
  BY DEF CountedRight
<1>3. CASE st.reason # "none"
  <2>1. next = st
    BY <1>3 DEF CountToken
  <2>. QED BY <1>1, <1>3, <2>1, DisorderStays
<1>4. CASE st.reason = "none" /\ token = "start" /\ st.started
  <2>1. next = [st EXCEPT !.reason = "nested"]
    BY <1>4 DEF CountToken
  <2>2. next \in States /\ next.reason = "nested"
    BY <1>1, <2>1 DEF States
  <2>3. ~ Orderly(opened, output, n + 1)
    <3>1. PICK s \in 0..n : Opens(opened, output, s)
      BY <1>1, <1>4 DEF Tally
    <3>2. s \in 0..(n + 1) /\ n + 1 \in 1..(n + 1) /\ s # n + 1
      OBVIOUS
    <3>. QED BY <1>4, <3>1, <3>2 DEF Orderly
  <2>. QED BY <2>2, <2>3
<1>5. CASE st.reason = "none" /\ token = "start" /\ ~ st.started
  <2>1. next = [st EXCEPT !.started = TRUE, !.inside = TRUE]
    BY <1>5 DEF CountToken
  <2>2. next \in States /\ next.reason = "none"
    BY <1>1, <1>5, <2>1 DEF States
  <2>3. /\ Orderly(opened, output, n + 1)
        /\ Tally(opened, output, n + 1, next)
    <3>1. Orderly(opened, output, n + 1)
      BY <1>1, <1>5, BlockOpens
    <3>2. Tally(opened, output, n + 1,
                [st EXCEPT !.started = TRUE, !.inside = TRUE])
      BY <1>1, <1>5, BlockOpens
    <3>. QED BY <2>1, <3>1, <3>2
  <2>. QED BY <2>2, <2>3
<1>6. CASE st.reason = "none" /\ token = "end" /\ ~ st.inside
  <2>1. next = [st EXCEPT !.reason = "unexpected_end"]
    BY <1>6 DEF CountToken
  <2>2. next \in States /\ next.reason = "unexpected_end"
    BY <1>1, <2>1 DEF States
  <2>3. ~ Orderly(opened, output, n + 1)
    <3>1. SUFFICES ASSUME Orderly(opened, output, n + 1) PROVE FALSE
      OBVIOUS
    <3>2. n + 1 \in 1..(n + 1) /\ (n + 1) - 1 = n /\ 1..n \subseteq 1..(n + 1)
            /\ n + 1 \notin 1..n
      OBVIOUS
    <3>3. \E s \in 0..((n + 1) - 1) : Opens(opened, output, s)
      BY <1>6, <3>1, <3>2 DEF Orderly
    <3>4. \A k \in 1..n : output[k] # "end"
      BY <1>6, <3>1, <3>2 DEF Orderly
    <3>5. st.started /\ ~ st.closed
      BY <1>1, <1>6, <3>2, <3>3, <3>4 DEF Tally
    <3>. QED BY <1>1, <1>6, <3>5 DEF Tally
  <2>. QED BY <2>2, <2>3
<1>7. CASE st.reason = "none" /\ token = "end" /\ st.inside
  <2>1. next = [st EXCEPT !.inside = FALSE, !.closed = TRUE]
    BY <1>7 DEF CountToken
  <2>2. next \in States /\ next.reason = "none"
    BY <1>1, <1>7, <2>1 DEF States
  <2>3. /\ Orderly(opened, output, n + 1)
        /\ Tally(opened, output, n + 1, next)
    <3>1. Orderly(opened, output, n + 1)
      BY <1>1, <1>7, BlockCloses
    <3>2. Tally(opened, output, n + 1,
                [st EXCEPT !.inside = FALSE, !.closed = TRUE])
      BY <1>1, <1>7, BlockCloses
    <3>. QED BY <2>1, <3>1, <3>2
  <2>. QED BY <2>2, <2>3
<1>8. CASE st.reason = "none" /\ token \notin {"start", "end"}
  <2>1. next = IF st.inside THEN [st EXCEPT !.count = @ + 1] ELSE st
    BY <1>8 DEF CountToken
  <2>2. next \in States /\ next.reason = "none"
    BY <1>1, <1>8, <2>1 DEF States
  <2>3. /\ Orderly(opened, output, n + 1)
        /\ Tally(opened, output, n + 1, next)
    BY <1>1, <1>8, <2>1, BlockGoesOn
  <2>. QED BY <2>2, <2>3
<1>. QED BY <1>3, <1>4, <1>5, <1>6, <1>7, <1>8

LEMMA NothingCounted ==
  ASSUME NEW opened \in BOOLEAN, NEW output
  PROVE  CountOf(opened) \in CountedRight(opened, output, 0)
<1> DEFINE st == CountOf(opened)
<1>1. 1..0 = {} /\ 0..0 = {0}
  OBVIOUS
<1>2. /\ st \in States /\ st.reason = "none" /\ st.count = 0
      /\ st.closed = FALSE /\ st.started = opened /\ st.inside = opened
  BY DEF CountOf, States
<1> HIDE DEF st
<1>3. Orderly(opened, output, 0)
  BY <1>1 DEF Orderly
<1>4. Opens(opened, output, 0) <=> opened
  BY DEF Opens
<1>5. Tally(opened, output, 0, st)
  <2>1. /\ st.started <=> \E s \in 0..0 : Opens(opened, output, s)
        /\ st.closed <=> \E e \in 1..0 : output[e] = "end"
    BY <1>1, <1>2, <1>4
  <2>2. \A s \in 0..0 : Opens(opened, output, s) =>
          /\ st.inside => st.count = 0 - s
          /\ \A e \in 1..0 : output[e] = "end" => st.count = e - 1 - s
    <3>1. ASSUME NEW s \in 0..0 PROVE st.count = 0 - s
      <4>1. s = 0
        BY <1>1
      <4>2. 0 - 0 = 0
        OBVIOUS
      <4>. QED BY <1>2, <4>1, <4>2
    <3>. QED BY <1>1, <3>1
  <2>. QED BY <1>2, <2>1, <2>2 DEF Tally
<1>. QED BY <1>2, <1>3, <1>5 DEF CountedRight, st

LEMMA TokensAreFolded ==
  ASSUME NEW state, NEW output
  PROVE  FoldLeft(CountToken, state, output) = Thoughts!FoldOf(state, output)
BY DEF Thoughts!FoldOf, Thoughts!FoldUpTo, Thoughts!Max, FoldLeft,
       MapThenFoldSet, Max

LEMMA OutputCounted ==
  ASSUME NEW opened \in BOOLEAN, NEW T, NEW output \in Seq(T)
  PROVE  FoldLeft(CountToken, CountOf(opened), output)
           \in CountedRight(opened, output, Len(output))
<1> DEFINE n == Len(output)
           A == [i \in 0..n |-> CountedRight(opened, output, i)]
<1>1. n \in Nat /\ DOMAIN output = 1..n /\ n \in 0..n /\ 0 \in 0..n
  OBVIOUS
<1> HIDE DEF n
<1>2. \A i \in 1..n : \A a \in A[i - 1] : CountToken(a, output[i]) \in A[i]
  <2> SUFFICES ASSUME NEW i \in 1..n, NEW a \in A[i - 1]
               PROVE  CountToken(a, output[i]) \in A[i]
    OBVIOUS
  <2>1. PICK k \in Nat : k = i - 1
    BY <1>1
  <2>2. k \in 0..n /\ i \in 0..n /\ k + 1 = i
    BY <1>1, <2>1
  <2>3. a \in CountedRight(opened, output, k)
    BY <2>1, <2>2
  <2>4. CountToken(a, output[k + 1]) \in CountedRight(opened, output, k + 1)
    BY <2>3, CountTokenRight
  <2>. QED BY <2>2, <2>4
<1>3. CountOf(opened) \in A[0]
  BY <1>1, NothingCounted
<1>4. \A i \in 0..n : Thoughts!FoldUpTo(CountOf(opened), output, 1..i) \in A[i]
  <2> HIDE DEF A
  <2>. QED BY <1>1, <1>2, <1>3, Thoughts!FoldInduction
<1>. QED BY <1>1, <1>4, TokensAreFolded DEF Thoughts!FoldOf, n

\* The output of one block: it opens at place s (0 when the prompt has opened
\* it), with nothing but space before it, and closes at place e.
OneBlock(prompt, output, s, e) ==
  LET opened == StartsInThinking(prompt)
  IN  /\ e \in DOMAIN output /\ s \in 0..(e - 1)
      /\ \A k \in DOMAIN output : output[k] = "end" <=> k = e
      /\ \A k \in DOMAIN output : output[k] = "start" <=> k = s
      /\ opened <=> s = 0
      /\ \A k \in 1..(s - 1) : output[k] = "ws"

\* The first place of something in a sequence.
LEMMA FirstPlace ==
  ASSUME NEW S \in SUBSET Nat, S # {}
  PROVE  LET first == CHOOSE i \in S : \A j \in S : i <= j
         IN  first \in S /\ \A j \in S : first <= j
BY LeastNatural

\* What is counted as thinking is the tokens between the marks of the one
\* block of the output, and nothing is counted of any other output
\* (common/reasoning_tokens.py:42-106).
THEOREM ThinkingCounted ==
  ASSUME NEW prompt, NEW T, NEW output \in Seq(T)
  PROVE  LET count == ThinkingCount(prompt, output, Len(output))
         IN  /\ count # None <=> \E s, e \in 0..Len(output) :
                                   OneBlock(prompt, output, s, e)
             /\ \A s, e \in 0..Len(output) :
                  OneBlock(prompt, output, s, e) => count = e - 1 - s
<1> DEFINE opened == StartsInThinking(prompt)
           n == Len(output)
           starts == {i \in DOMAIN output : output[i] = "start"}
           first == CHOOSE i \in starts : \A j \in starts : i <= j
           st == FoldLeft(CountToken, CountOf(opened), output)
           led == opened \/ (starts # {} /\ Blank(SubSeq(output, 1, first - 1)))
           count == ThinkingCount(prompt, output, n)
<1>1. n \in Nat /\ DOMAIN output = 1..n
  OBVIOUS
<1>2. opened \in BOOLEAN
  BY DEF StartsInThinking
<1>3. count = IF output = <<>> \/ ~ led \/ st.reason # "none" \/ ~ st.closed
              THEN None ELSE st.count
  BY DEF ThinkingCount, CountOf
<1> HIDE DEF st, count
<1>4. st \in CountedRight(opened, output, n)
  BY <1>2, OutputCounted DEF st
<1>5. /\ st.count \in Nat
      /\ st.reason = "none" <=> Orderly(opened, output, n)
      /\ st.reason = "none" => Tally(opened, output, n, st)
  BY <1>4 DEF CountedRight, States
<1>6. st.count # None
  BY <1>5 DEF None
<1>7. starts # {} => first \in starts /\ \A j \in starts : first <= j
  <2>1. starts \in SUBSET Nat
    BY <1>1
  <2> HIDE DEF starts
  <2>. QED BY <2>1, FirstPlace
<1> HIDE DEF first
<1>8. ASSUME starts # {}
      PROVE  Blank(SubSeq(output, 1, first - 1)) <=>
               \A k \in 1..(first - 1) : output[k] = "ws"
  <2>1. first \in 1..n /\ first - 1 \in 0..n
    BY <1>1, <1>7, <1>8
  <2>2. /\ DOMAIN SubSeq(output, 1, first - 1) = 1..(first - 1)
        /\ \A k \in 1..(first - 1) : SubSeq(output, 1, first - 1)[k] = output[k]
    BY <1>1, <2>1
  <2>. QED BY <2>2 DEF Blank
<1>9. ASSUME NEW s \in 0..n, NEW e \in 0..n, OneBlock(prompt, output, s, e)
      PROVE  count = e - 1 - s
  <2>1. /\ e \in 1..n /\ s \in 0..(e - 1)
        /\ \A k \in 1..n : output[k] = "end" <=> k = e
        /\ \A k \in 1..n : output[k] = "start" <=> k = s
        /\ opened <=> s = 0
        /\ \A k \in 1..(s - 1) : output[k] = "ws"
    BY <1>1, <1>9 DEF OneBlock
  <2>2. \A k \in 0..n : Opens(opened, output, k) <=> k = s
    BY <1>1, <2>1 DEF Opens
  <2>3. Orderly(opened, output, n)
    BY <1>1, <2>1, <2>2 DEF Orderly
  <2>4. led
    <3>1. CASE ~ opened
      <4>1. s \in 1..n /\ output[s] = "start"
        BY <1>1, <2>1, <3>1
      <4>2. starts # {} /\ first = s
        BY <1>1, <1>7, <2>1, <4>1
      <4>. QED BY <1>8, <2>1, <4>2
    <3>. QED BY <3>1
  <2>5. st.closed /\ st.count = e - 1 - s
    BY <1>5, <2>1, <2>2, <2>3 DEF Tally
  <2>6. output # <<>>
    BY <1>1, <2>1
  <2>. QED BY <1>3, <1>5, <2>3, <2>4, <2>5, <2>6
<1>10. ASSUME count # None
       PROVE  \E s, e \in 0..n : OneBlock(prompt, output, s, e)
  <2>1. led /\ Orderly(opened, output, n) /\ st.closed
          /\ Tally(opened, output, n, st)
    BY <1>3, <1>5, <1>10
  <2>2. PICK e \in 1..n : output[e] = "end"
    BY <2>1 DEF Tally
  <2>3. PICK s \in 0..(e - 1) : Opens(opened, output, s)
    BY <2>1, <2>2 DEF Orderly
  <2>4. s \in 0..n /\ e \in 0..n
    BY <1>1, <2>2, <2>3
  <2>5. \A k \in 1..n : output[k] = "end" <=> k = e
    BY <2>1, <2>2 DEF Orderly
  <2>6. \A k \in 1..n : output[k] = "start" => k = s
    BY <2>1, <2>3, <2>4 DEF Orderly
  <2>7. /\ opened <=> s = 0
        /\ ~ opened => s \in 1..n /\ output[s] = "start"
    BY <1>1, <2>3, <2>4 DEF Opens
  <2>8. \A k \in 1..n : output[k] = "start" <=> k = s
    BY <1>1, <2>6, <2>7
  <2>9. \A k \in 1..(s - 1) : output[k] = "ws"
    <3>1. CASE opened
      BY <2>7, <3>1
    <3>2. CASE ~ opened
      <4>1. starts # {} /\ Blank(SubSeq(output, 1, first - 1))
        BY <2>1, <3>2
      <4>2. first = s
        BY <1>1, <1>7, <2>6, <4>1
      <4>. QED BY <1>8, <4>1, <4>2
    <3>. QED BY <3>1, <3>2
  <2>10. OneBlock(prompt, output, s, e)
    BY <1>1, <2>2, <2>5, <2>7, <2>8, <2>9 DEF OneBlock
  <2>. QED BY <2>4, <2>10
<1>11. ASSUME NEW s \in 0..n, NEW e \in 0..n, OneBlock(prompt, output, s, e)
       PROVE  count # None
  <2>1. e \in 1..n /\ s \in 0..(e - 1)
    BY <1>1, <1>11 DEF OneBlock
  <2>2. e - 1 - s \in Nat
    BY <1>1, <2>1
  <2>. QED BY <1>9, <1>11, <2>2 DEF None
<1>. QED BY <1>9, <1>10, <1>11 DEF count
=============================================================================
