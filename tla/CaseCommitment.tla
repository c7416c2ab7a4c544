--------------------------- MODULE CaseCommitment ---------------------------
(***************************************************************************)
(* What a task promises about the evidence of its Cases, whoever stops,    *)
(* fails or is killed meanwhile: Cases are opened one at a time, a Case    *)
(* whose collection was committed stays, any other one leaves no evidence, *)
(* and nothing is left open when the task is over.                         *)
(***************************************************************************)
CONSTANT Cases

VARIABLES
  fate,  \* "unopened", "open", "committed" or "gone" for each Case
  over   \* the task has ended

vars == <<fate, over>>

Init ==
  /\ fate = [c \in Cases |-> "unopened"]
  /\ over = FALSE

Open(c) ==
  /\ ~over
  /\ fate[c] = "unopened"
  /\ \A d \in Cases : fate[d] # "open"
  /\ fate' = [fate EXCEPT ![c] = "open"]
  /\ UNCHANGED over

Commit(c) ==
  /\ fate[c] = "open"
  /\ fate' = [fate EXCEPT ![c] = "committed"]
  /\ UNCHANGED over

Discard(c) ==
  /\ fate[c] = "open"
  /\ fate' = [fate EXCEPT ![c] = "gone"]
  /\ UNCHANGED over

End ==
  /\ \A c \in Cases : fate[c] # "open"
  /\ over' = TRUE
  /\ UNCHANGED fate

Next == End \/ \E c \in Cases : Open(c) \/ Commit(c) \/ Discard(c)

Spec == Init /\ [][Next]_vars
=============================================================================
