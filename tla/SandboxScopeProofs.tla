------------------------- MODULE SandboxScopeProofs -------------------------
(***************************************************************************)
(* Proofs about SandboxScope.tla, for any set of executions: the registry  *)
(* covers the daemon, and a cleanup that reports success left nothing.     *)
(***************************************************************************)
EXTENDS SandboxScope, TLAPS

LEMMA InitInv == Init => IInv
  BY DEF Init, IInv, TypeOK, RegistryCovers, CleanFinish, CleanupKnows, Exists

\* A stuttering step changes none of the variables.
LEMMA StutterInv == IInv /\ UNCHANGED vars => IInv'
  BY DEF IInv, TypeOK, RegistryCovers, CleanFinish, CleanupKnows, Exists,
     vars, threads, daemon, cleanup

\* The calls of execute, in the threads of the worker.
LEMMA ExecuteInv ==
  ASSUME IInv, NEW e \in Executions, Execute(e)
  PROVE  IInv'
<1> USE DEF IInv
<1>1. CASE Register(e)
  <2> USE <1>1 DEF Register, Step, threads, daemon, cleanup
  <2>1. TypeOK' BY DEF TypeOK, CleanFinish, CleanupKnows, Exists
  <2>2. RegistryCovers' BY DEF TypeOK, RegistryCovers, CleanFinish,
     CleanupKnows, Exists
  <2>3. CleanFinish' BY DEF TypeOK, RegistryCovers, CleanFinish, CleanupKnows,
     Exists
  <2>4. CleanupKnows' BY DEF TypeOK, RegistryCovers, CleanFinish,
     CleanupKnows, Exists
  <2> QED BY <2>1, <2>2, <2>3, <2>4
<1>2. CASE RequestCreate(e)
  <2> USE <1>2 DEF RequestCreate, Step, threads, daemon, cleanup
  <2>1. TypeOK' BY DEF TypeOK, CleanFinish, CleanupKnows, Exists
  <2>2. RegistryCovers' BY DEF TypeOK, RegistryCovers, CleanFinish,
     CleanupKnows, Exists
  <2>3. CleanFinish' BY DEF TypeOK, RegistryCovers, CleanFinish, CleanupKnows,
     Exists
  <2>4. CleanupKnows' BY DEF TypeOK, RegistryCovers, CleanFinish,
     CleanupKnows, Exists
  <2> QED BY <2>1, <2>2, <2>3, <2>4
<1>3. CASE CreateReturns(e)
  <2> USE <1>3 DEF CreateReturns, Step, threads, daemon, cleanup
  <2>1. TypeOK' BY DEF TypeOK, CleanFinish, CleanupKnows, Exists
  <2>2. RegistryCovers' BY DEF TypeOK, RegistryCovers, CleanFinish,
     CleanupKnows, Exists
  <2>3. CleanFinish' BY DEF TypeOK, RegistryCovers, CleanFinish, CleanupKnows,
     Exists
  <2>4. CleanupKnows' BY DEF TypeOK, RegistryCovers, CleanFinish,
     CleanupKnows, Exists
  <2> QED BY <2>1, <2>2, <2>3, <2>4
<1>4. CASE RequestStart(e)
  <2> USE <1>4 DEF RequestStart, Step, threads, daemon, cleanup
  <2>1. TypeOK' BY DEF TypeOK, CleanFinish, CleanupKnows, Exists
  <2>2. RegistryCovers' BY DEF TypeOK, RegistryCovers, CleanFinish,
     CleanupKnows, Exists
  <2>3. CleanFinish' BY DEF TypeOK, RegistryCovers, CleanFinish, CleanupKnows,
     Exists
  <2>4. CleanupKnows' BY DEF TypeOK, RegistryCovers, CleanFinish,
     CleanupKnows, Exists
  <2> QED BY <2>1, <2>2, <2>3, <2>4
<1>5. CASE StartReturns(e)
  <2> USE <1>5 DEF StartReturns, Step, threads, daemon, cleanup
  <2>1. TypeOK' BY DEF TypeOK, CleanFinish, CleanupKnows, Exists
  <2>2. RegistryCovers' BY DEF TypeOK, RegistryCovers, CleanFinish,
     CleanupKnows, Exists
  <2>3. CleanFinish' BY DEF TypeOK, RegistryCovers, CleanFinish, CleanupKnows,
     Exists
  <2>4. CleanupKnows' BY DEF TypeOK, RegistryCovers, CleanFinish,
     CleanupKnows, Exists
  <2> QED BY <2>1, <2>2, <2>3, <2>4
<1>6. CASE List(e)
  <2> USE <1>6 DEF List, Step, threads, daemon, cleanup
  <2>1. TypeOK' BY DEF TypeOK, CleanFinish, CleanupKnows, Exists
  <2>2. RegistryCovers' BY DEF TypeOK, RegistryCovers, CleanFinish,
     CleanupKnows, Exists
  <2>3. CleanFinish' BY DEF TypeOK, RegistryCovers, CleanFinish, CleanupKnows,
     Exists
  <2>4. CleanupKnows' BY DEF TypeOK, RegistryCovers, CleanFinish,
     CleanupKnows, Exists
  <2> QED BY <2>1, <2>2, <2>3, <2>4
<1>7. CASE Remove(e)
  <2> USE <1>7 DEF Remove, Step, threads, daemon, cleanup
  <2>1. TypeOK' BY DEF TypeOK, CleanFinish, CleanupKnows, Exists
  <2>2. RegistryCovers' BY DEF TypeOK, RegistryCovers, CleanFinish,
     CleanupKnows, Exists
  <2>3. CleanFinish' BY DEF TypeOK, RegistryCovers, CleanFinish, CleanupKnows,
     Exists
  <2>4. CleanupKnows' BY DEF TypeOK, RegistryCovers, CleanFinish,
     CleanupKnows, Exists
  <2> QED BY <2>1, <2>2, <2>3, <2>4
<1>8. CASE RemovalFails(e)
  <2> USE <1>8 DEF RemovalFails, Step, Removed, threads, daemon, cleanup
  <2>1. TypeOK' BY DEF TypeOK, CleanFinish, CleanupKnows, Exists
  <2>2. RegistryCovers' BY DEF TypeOK, RegistryCovers, CleanFinish,
     CleanupKnows, Exists
  <2>3. CleanFinish' BY DEF TypeOK, RegistryCovers, CleanFinish, CleanupKnows,
     Exists
  <2>4. CleanupKnows' BY DEF TypeOK, RegistryCovers, CleanFinish,
     CleanupKnows, Exists
  <2> QED BY <2>1, <2>2, <2>3, <2>4
<1>9. CASE Verify(e)
  <2> USE <1>9 DEF Verify, Step, Removed, threads, daemon, cleanup
  <2>1. TypeOK' BY DEF TypeOK, CleanFinish, CleanupKnows, Exists
  <2>2. RegistryCovers' BY DEF TypeOK, RegistryCovers, CleanFinish,
     CleanupKnows, Exists
  <2>3. CleanFinish' BY DEF TypeOK, RegistryCovers, CleanFinish, CleanupKnows,
     Exists
  <2>4. CleanupKnows' BY DEF TypeOK, RegistryCovers, CleanFinish,
     CleanupKnows, Exists
  <2> QED BY <2>1, <2>2, <2>3, <2>4
<1>10. CASE Finish(e)
  <2> USE <1>10 DEF Finish, Step, threads, daemon, cleanup
  <2>1. TypeOK' BY DEF TypeOK, CleanFinish, CleanupKnows, Exists
  <2>2. RegistryCovers' BY DEF TypeOK, RegistryCovers, CleanFinish,
     CleanupKnows, Exists
  <2>3. CleanFinish' BY DEF TypeOK, RegistryCovers, CleanFinish, CleanupKnows,
     Exists
  <2>4. CleanupKnows' BY DEF TypeOK, RegistryCovers, CleanFinish,
     CleanupKnows, Exists
  <2> QED BY <2>1, <2>2, <2>3, <2>4
<1> QED BY <1>1, <1>2, <1>3, <1>4, <1>5, <1>6, <1>7, <1>8, <1>9, <1>10 DEF
   Execute

\* The daemon creates: only what was announced and not yet answered.
LEMMA DaemonInv ==
  ASSUME IInv, NEW e \in Executions, DaemonCreates(e)
  PROVE  IInv'
<1> USE DEF IInv, DaemonCreates, threads, cleanup, Exists
<1>1. TypeOK' BY DEF TypeOK
<1>2. RegistryCovers' BY DEF TypeOK, RegistryCovers
<1>3. CleanFinish' BY DEF TypeOK, CleanFinish
<1>4. CleanupKnows' BY DEF TypeOK, CleanupKnows
<1> QED BY <1>1, <1>2, <1>3, <1>4

\* The worker dies.
LEMMA WorkerInv == IInv /\ WorkerEnds => IInv'
  BY DEF IInv, TypeOK, RegistryCovers, CleanFinish, CleanupKnows, Exists,
     WorkerEnds, threads, daemon, cleanup

\* The parent's cleanup.
LEMMA CleanupInv ==
  ASSUME IInv, CleanupStep
  PROVE  IInv'
<1> USE DEF IInv
<1>1. CASE BeginCleanup
  <2> USE <1>1 DEF BeginCleanup, Parent, threads, daemon, cleanup
  <2>1. TypeOK' BY DEF TypeOK, CleanFinish, CleanupKnows, Exists
  <2>2. RegistryCovers' BY DEF TypeOK, RegistryCovers, CleanFinish,
     CleanupKnows, Exists
  <2>3. CleanFinish' BY DEF TypeOK, RegistryCovers, CleanFinish, CleanupKnows,
     Exists
  <2>4. CleanupKnows' BY DEF TypeOK, RegistryCovers, CleanFinish,
     CleanupKnows, Exists
  <2> QED BY <2>1, <2>2, <2>3, <2>4
<1>2. CASE ListScope
  <2> USE <1>2 DEF ListScope, Parent, threads, daemon, cleanup
  <2>1. TypeOK' BY DEF TypeOK, CleanFinish, CleanupKnows, Exists
  <2>2. RegistryCovers' BY DEF TypeOK, RegistryCovers, CleanFinish,
     CleanupKnows, Exists
  <2>3. CleanFinish' BY DEF TypeOK, RegistryCovers, CleanFinish, CleanupKnows,
     Exists
  <2>4. CleanupKnows' BY DEF TypeOK, RegistryCovers, CleanFinish,
     CleanupKnows, Exists
  <2> QED BY <2>1, <2>2, <2>3, <2>4
<1>3. CASE Confirm
  <2> USE <1>3 DEF Confirm, Parent, threads, daemon, cleanup
  <2>1. TypeOK' BY DEF TypeOK, CleanFinish, CleanupKnows, Exists
  <2>2. RegistryCovers' BY DEF TypeOK, RegistryCovers, CleanFinish,
     CleanupKnows, Exists
  <2>3. CleanFinish' BY DEF TypeOK, RegistryCovers, CleanFinish, CleanupKnows,
     Exists
  <2>4. CleanupKnows' BY DEF TypeOK, RegistryCovers, CleanFinish,
     CleanupKnows, Exists
  <2> QED BY <2>1, <2>2, <2>3, <2>4
<1>4. CASE GiveUp
  <2> USE <1>4 DEF GiveUp, Parent, Unconfirmed, threads, daemon, cleanup
  <2>1. TypeOK' BY DEF TypeOK, CleanFinish, CleanupKnows, Exists
  <2>2. RegistryCovers' BY DEF TypeOK, RegistryCovers, CleanFinish,
     CleanupKnows, Exists
  <2>3. CleanFinish' BY DEF TypeOK, RegistryCovers, CleanFinish, CleanupKnows,
     Exists
  <2>4. CleanupKnows' BY DEF TypeOK, RegistryCovers, CleanFinish,
     CleanupKnows, Exists
  <2> QED BY <2>1, <2>2, <2>3, <2>4
<1>5. CASE CommandFails
  <2> USE <1>5 DEF CommandFails, Parent, threads, daemon, cleanup
  <2>1. TypeOK' BY DEF TypeOK, CleanFinish, CleanupKnows, Exists
  <2>2. RegistryCovers' BY DEF TypeOK, RegistryCovers, CleanFinish,
     CleanupKnows, Exists
  <2>3. CleanFinish' BY DEF TypeOK, RegistryCovers, CleanFinish, CleanupKnows,
     Exists
  <2>4. CleanupKnows' BY DEF TypeOK, RegistryCovers, CleanFinish,
     CleanupKnows, Exists
  <2> QED BY <2>1, <2>2, <2>3, <2>4
<1>6. CASE LookAgain
  <2> USE <1>6 DEF LookAgain, Parent, Unconfirmed, threads, daemon, cleanup
  <2>1. TypeOK' BY DEF TypeOK, CleanFinish, CleanupKnows, Exists
  <2>2. RegistryCovers' BY DEF TypeOK, RegistryCovers, CleanFinish,
     CleanupKnows, Exists
  <2>3. CleanFinish' BY DEF TypeOK, RegistryCovers, CleanFinish, CleanupKnows,
     Exists
  <2>4. CleanupKnows' BY DEF TypeOK, RegistryCovers, CleanFinish,
     CleanupKnows, Exists
  <2> QED BY <2>1, <2>2, <2>3, <2>4
<1>7. CASE \E e \in Executions : RemoveFound(e)
  <2> PICK e \in Executions : RemoveFound(e) BY <1>7
  <2> USE DEF RemoveFound, Parent, threads, Exists
  <2>1. TypeOK' BY DEF TypeOK, RegistryCovers, CleanFinish, CleanupKnows
  <2>2. RegistryCovers' BY DEF TypeOK, RegistryCovers, CleanFinish, CleanupKnows
  <2>3. CleanFinish' BY DEF TypeOK, RegistryCovers, CleanFinish, CleanupKnows
  <2>4. CleanupKnows' BY DEF TypeOK, RegistryCovers, CleanFinish, CleanupKnows
  <2> QED BY <2>1, <2>2, <2>3, <2>4
<1> QED BY <1>1, <1>2, <1>3, <1>4, <1>5, <1>6, <1>7 DEF CleanupStep

LEMMA StepInv == IInv /\ [Next]_vars => IInv'
<1> SUFFICES ASSUME IInv, [Next]_vars PROVE IInv'
  OBVIOUS
<1>1. CASE \E e \in Executions : Execute(e) \/ DaemonCreates(e)
  BY <1>1, ExecuteInv, DaemonInv
<1>2. CASE WorkerEnds
  BY <1>2, WorkerInv
<1>3. CASE CleanupStep
  BY <1>3, CleanupInv
<1>4. CASE Over \/ UNCHANGED vars
  BY <1>4, StutterInv DEF Over
<1> QED BY <1>1, <1>2, <1>3, <1>4 DEF Next

THEOREM Invariance == Spec => []IInv
  BY InitInv, StepInv, PTL DEF Spec

-----------------------------------------------------------------------------
(***************************************************************************)
(* The state keeps its shape, and nothing is listed or observed that was   *)
(* not announced.                                                          *)
(***************************************************************************)
THEOREM TypeCorrect == Spec => []TypeOK
<1>1. IInv => TypeOK
  BY DEF IInv
<1> QED BY <1>1, Invariance, PTL

(***************************************************************************)
(* Whatever exists or may still come has its pending file.                 *)
(***************************************************************************)
THEOREM RegistryCorrect == Spec => []RegistryCovers
<1>1. IInv => RegistryCovers
  BY DEF IInv
<1> QED BY <1>1, Invariance, PTL

(***************************************************************************)
(* A cleanup that reports success left nothing: what may exist is pending, *)
(* the parent has observed all that is pending, and what it observed was   *)
(* created and is gone.                                                    *)
(***************************************************************************)
THEOREM CleanupCorrect == Spec => []CleanupHonest
<1>1. IInv => CleanupHonest
  <2> SUFFICES ASSUME IInv, verdict = "ok", NEW e \in Executions
               PROVE  ~Exists(e) /\ create[e] # "sent"
    BY DEF CleanupHonest
  <2>1. pending = {d \in Executions : entry[d] = "pending"}
    BY DEF IInv, CleanupKnows
  <2>2. CASE entry[e] = "pending"
    <3>1. e \in observed
      BY <2>1, <2>2 DEF IInv, CleanupKnows
    <3> QED BY <3>1 DEF IInv, CleanupKnows
  <2>3. CASE entry[e] # "pending"
    BY <2>3 DEF IInv, RegistryCovers
  <2> QED BY <2>2, <2>3
<1> QED BY <1>1, Invariance, PTL
=============================================================================
