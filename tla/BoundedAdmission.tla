-------------------------- MODULE BoundedAdmission --------------------------
(***************************************************************************)
(* What the request scheduler promises the rest of the program, without    *)
(* locks, polling or strategies: calls enter a bounded room and leave it.  *)
(* At most Capacity calls are inside, the logical requests ever let in     *)
(* never exceed Budget, a call is only turned away for a reason, and once  *)
(* the room is closed (a stop was requested or the time is over) at most   *)
(* one straggler, which had already been looked at, still gets in.         *)
(* RequestScheduler.tla is shown to implement it.                          *)
(***************************************************************************)
EXTENDS Integers, FiniteSets

CONSTANTS
  Calls,      \* calls of RequestScheduler.run
  Cost,       \* logical requests each call stands for
  Capacity,   \* slots
  Unbounded,  \* TRUE when there is no request budget
  Budget      \* num_requests, when there is one

VARIABLES
  place,      \* where each call is
  used,       \* logical requests let in so far
  closed,     \* no more requests should start
  stragglers  \* calls let in after closing

avars == <<place, used, closed, stragglers>>

Places == {"outside", "inside", "left", "refused", "invalid"}

Inside == {c \in Calls : place[c] = "inside"}

Fits(c) == Unbounded \/ used + Cost[c] <= Budget

Init ==
  /\ place = [c \in Calls |-> "outside"]
  /\ used = 0
  /\ closed \in BOOLEAN
  /\ stragglers = 0

Enter(c) ==
  /\ place[c] = "outside"
  /\ Cardinality(Inside) < Capacity
  /\ Fits(c)
  /\ closed => stragglers = 0
  /\ place' = [place EXCEPT ![c] = "inside"]
  /\ used' = used + Cost[c]
  /\ stragglers' = IF closed THEN stragglers + 1 ELSE stragglers
  /\ UNCHANGED closed

Leave(c) ==
  /\ place[c] = "inside"
  /\ place' = [place EXCEPT ![c] = "left"]
  /\ UNCHANGED <<used, closed, stragglers>>

Refuse(c) ==
  /\ place[c] = "outside"
  /\ closed \/ ~Fits(c)
  /\ place' = [place EXCEPT ![c] = "refused"]
  /\ UNCHANGED <<used, closed, stragglers>>

\* A call whose arrival plan is malformed is answered with an error.
Reject(c) ==
  /\ place[c] = "outside"
  /\ place' = [place EXCEPT ![c] = "invalid"]
  /\ UNCHANGED <<used, closed, stragglers>>

Close ==
  /\ ~closed
  /\ closed' = TRUE
  /\ UNCHANGED <<place, used, stragglers>>

Next ==
  \/ Close
  \/ \E c \in Calls : Enter(c) \/ Leave(c) \/ Refuse(c) \/ Reject(c)

Spec == Init /\ [][Next]_avars
=============================================================================
