------------------------- MODULE MCRequestScheduler -------------------------
(***************************************************************************)
(* Small instances of the request scheduler, and plausible slips of its    *)
(* code that the runs can tell from the code.                              *)
(***************************************************************************)
EXTENDS RequestSchedulerProperties, TLC

CONSTANTS c1, c2, c3, c4

\* One call stands for a batch of two logical requests.
BatchCost == [c \in Calls |-> IF c = c2 THEN 2 ELSE 1]
\* Calls of the same cost are interchangeable.
Alike == Permutations({c1, c3, c4})
NoTrace == [c \in Calls |-> 0]

UnitCost == [c \in Calls |-> 1]

\* Trace records at 0, 1, 1 and 2 clock units, replayed twice as fast as they
\* were recorded.
Offsets == [c \in Calls |-> IF c = c1 THEN 0 ELSE IF c = c4 THEN 4 ELSE 2]
Orders == [c \in Calls |->
             IF c = c1 THEN 0 ELSE IF c = c2 THEN 1
             ELSE IF c = c3 THEN 2 ELSE 3]
=============================================================================
