------------------------- MODULE MCEvaluationSession -------------------------
(***************************************************************************)
(* A small collection: three samples, the first of which makes two         *)
(* requests; the last asks for a batch of two.                             *)
(***************************************************************************)
EXTENDS EvaluationSessionProperties

CONSTANTS c1, c2, c3, c4

BatchCost == [c \in Calls |-> IF c = c4 THEN 2 ELSE 1]
NoTrace == [c \in Calls |-> 0]
Requests == <<<<c1, c2>>, <<c3>>, <<c4>>>>
=============================================================================
