---------------------------- MODULE SandboxScope ----------------------------
(***************************************************************************)
(* The Docker sandboxes of one task: DockerSandboxExecutor.execute         *)
(* (common/sandbox.py), called by the sample threads of the worker, the    *)
(* containers' life (utils/docker_sandbox.py), and the scope that the      *)
(* parent opens before the worker starts and cleans up once it is dead.    *)
(*                                                                         *)
(* The daemon is external: a create whose client gave up, or was killed,   *)
(* may still take effect at any later time, or never.  A file              *)
(* <name>.pending announces a container before the daemon can hear of it   *)
(* and is renamed to .done only after its removal was verified.            *)
(***************************************************************************)
EXTENDS FiniteSets

CONSTANT Executions  \* calls of execute(), each with a container name

ASSUME ExecutionsAssumption == IsFiniteSet(Executions)

VARIABLES
  stage,      \* what each call of execute does next
  raised,     \* calls in which an exception is on its way out
  timedOut,   \* calls removing their container for a timeout
  listed,     \* calls whose `ps` found their container
  entry,      \* each call's registry file: "none", "pending" or "done"
  create,     \* its create request: "none", "sent" or "answered"
  container,  \* its container: "absent", "created" or "removed"
  worker,     \* the worker process: "alive" or "dead"
  scope,      \* what the parent does: "idle", "listing", "removing", "over"
  verdict,    \* of cleanup: "none", "ok" or "error"
  pending,    \* cleanup's local of that name
  observed,   \* cleanup's local of that name
  rows        \* what its last `ps` found

threads == <<stage, raised, timedOut, listed>>
daemon == <<create, container>>
cleanup == <<scope, verdict, pending, observed, rows>>
vars == <<threads, entry, daemon, worker, cleanup>>

Exists(e) == container[e] = "created"

-----------------------------------------------------------------------------
Init ==
  /\ stage = [e \in Executions |-> "idle"]
  /\ raised = {} /\ timedOut = {} /\ listed = {}
  /\ entry = [e \in Executions |-> "none"]
  /\ create = [e \in Executions |-> "none"]
  /\ container = [e \in Executions |-> "absent"]
  /\ worker = "alive"
  /\ scope = "idle" /\ verdict = "none"
  /\ pending = {} /\ observed = {} /\ rows = {}

(* DockerSandboxExecutor.execute *)

Step(e, from, to) ==
  /\ worker = "alive"
  /\ stage[e] = from
  /\ stage' = [stage EXCEPT ![e] = to]

\* pending.touch(), before Docker can receive the create request.
Register(e) ==
  /\ Step(e, "idle", "registered")
  /\ entry' = [entry EXCEPT ![e] = "pending"]
  /\ UNCHANGED <<raised, timedOut, listed, daemon, worker, cleanup>>

RequestCreate(e) ==
  /\ Step(e, "registered", "creating")
  /\ create' = [create EXCEPT ![e] = "sent"]
  /\ UNCHANGED <<raised, timedOut, listed, entry, container, worker, cleanup>>

\* The client brings the daemon's answer, or fails, or is out of time: then
\* the finally clause removes the container and the exception goes on.
CreateReturns(e) ==
  /\ \/ create[e] = "answered" /\ Step(e, "creating", "created")
        /\ UNCHANGED raised
     \/ Step(e, "creating", "listing") /\ raised' = raised \cup {e}
  /\ UNCHANGED <<timedOut, listed, entry, daemon, worker, cleanup>>

\* `docker start --attach`; a client that cannot be launched is a result too.
RequestStart(e) ==
  /\ Step(e, "created", "started") \/ Step(e, "created", "listing")
  /\ UNCHANGED <<raised, timedOut, listed, entry, daemon, worker, cleanup>>

\* The client ends, or raises, or is out of time: then it is killed and the
\* container removed, before the finally clause removes it once more.
StartReturns(e) ==
  /\ Step(e, "started", "listing")
  /\ \/ UNCHANGED <<raised, timedOut>>
     \/ raised' = raised \cup {e} /\ UNCHANGED timedOut
     \/ timedOut' = timedOut \cup {e} /\ UNCHANGED raised
  /\ UNCHANGED <<listed, entry, daemon, worker, cleanup>>

\* remove_container: ps, rm -f what it shows, ps again.
List(e) ==
  /\ Step(e, "listing", "removing")
  /\ listed' = IF Exists(e) THEN listed \cup {e} ELSE listed \ {e}
  /\ UNCHANGED <<raised, timedOut, entry, daemon, worker, cleanup>>

Remove(e) ==
  /\ Step(e, "removing", "verifying")
  /\ container' = [container EXCEPT ![e] = IF e \in listed THEN "removed"
                                           ELSE @]
  /\ UNCHANGED <<raised, timedOut, listed, entry, create, worker, cleanup>>

\* Where the removal leads: the one for a timeout is followed by another.
Removed(e, from) ==
  /\ Step(e, from, IF e \in timedOut THEN "listing" ELSE "finishing")
  /\ timedOut' = timedOut \ {e}

\* Any of the commands may fail, rm after it has taken effect; and the second
\* ps may show that the container is there.
RemovalFails(e) ==
  /\ \/ Removed(e, "listing") /\ UNCHANGED container
     \/ /\ Removed(e, "removing")
        /\ e \in listed
        /\ container' \in {container, [container EXCEPT ![e] = "removed"]}
     \/ Removed(e, "verifying") /\ UNCHANGED container
  /\ raised' = raised \cup {e}
  /\ UNCHANGED <<listed, entry, create, worker, cleanup>>

Verify(e) ==
  /\ ~Exists(e)
  /\ Removed(e, "verifying")
  /\ UNCHANGED <<raised, listed, entry, daemon, worker, cleanup>>

\* Slip: once its removal was verified a container is done, whatever became of
\* its create request.
FinishAlways(e) ==
  /\ Step(e, "finishing", "over")
  /\ entry' = [entry EXCEPT ![e] = "done"]
  /\ UNCHANGED <<raised, timedOut, listed, daemon, worker, cleanup>>

\* An exception skips the rename.
Finish(e) ==
  /\ Step(e, "finishing", "over")
  /\ entry' = [entry EXCEPT ![e] = IF e \in raised THEN @ ELSE "done"]
  /\ UNCHANGED <<raised, timedOut, listed, daemon, worker, cleanup>>

(* The daemon, in its own time *)

DaemonCreates(e) ==
  /\ create[e] = "sent"
  /\ create' = [create EXCEPT ![e] = "answered"]
  /\ container' = [container EXCEPT ![e] = "created"]
  /\ UNCHANGED <<threads, entry, worker, cleanup>>

(* The end of the worker: its last sample, a kill, a crash *)

WorkerEnds ==
  /\ worker = "alive"
  /\ worker' = "dead"
  /\ UNCHANGED <<threads, entry, daemon, cleanup>>

(* DockerSandboxScope.cleanup; TaskRun!WorkerDeadFirst says when it is called *)

Parent(from, to) == worker = "dead" /\ scope = from /\ scope' = to

\* The glob for *.pending.
BeginCleanup ==
  /\ Parent("idle", "listing")
  /\ pending' = {e \in Executions : entry[e] = "pending"}
  /\ UNCHANGED <<threads, entry, daemon, worker, verdict, observed, rows>>

ListScope ==
  /\ Parent("listing", "removing")
  /\ rows' = {e \in Executions : Exists(e)}
  /\ UNCHANGED <<threads, entry, daemon, worker, verdict, pending, observed>>

RemoveFound(e) ==
  /\ Parent("removing", "removing")
  /\ e \in rows \ observed
  /\ container' = [container EXCEPT ![e] = "removed"]
  /\ observed' = observed \cup {e}
  /\ UNCHANGED <<threads, entry, create, worker, verdict, pending, rows>>

\* ps or rm fails, rm perhaps after it has taken effect.
CommandFails ==
  /\ \/ Parent("listing", "over") /\ UNCHANGED container
     \/ /\ Parent("removing", "over")
        /\ \E e \in rows \ observed :
             container' \in {container, [container EXCEPT ![e] = "removed"]}
  /\ verdict' = "error"
  /\ UNCHANGED <<threads, entry, create, worker, pending, observed, rows>>

\* Slip: an empty list is enough.
ConfirmEmpty ==
  /\ Parent("removing", "over")
  /\ rows = {}
  /\ verdict' = "ok"
  /\ UNCHANGED <<threads, entry, daemon, worker, pending, observed, rows>>

\* Nothing was found, and every announced container was seen and removed.
Confirm ==
  /\ Parent("removing", "over")
  /\ rows = {}
  /\ pending \subseteq observed
  /\ verdict' = "ok"
  /\ UNCHANGED <<threads, entry, daemon, worker, pending, observed, rows>>

Unconfirmed ==
  /\ rows \subseteq observed
  /\ rows # {} \/ pending \ observed # {}

\* Slip: the deadline only counts while containers are found.
GiveUpOnFound ==
  /\ Parent("removing", "over")
  /\ Unconfirmed /\ rows # {}
  /\ verdict' = "error"
  /\ UNCHANGED <<threads, entry, daemon, worker, pending, observed, rows>>

\* The deadline is over.
GiveUp ==
  /\ Parent("removing", "over")
  /\ Unconfirmed
  /\ verdict' = "error"
  /\ UNCHANGED <<threads, entry, daemon, worker, pending, observed, rows>>

LookAgain ==
  /\ Parent("removing", "listing")
  /\ Unconfirmed
  /\ UNCHANGED <<threads, entry, daemon, worker, verdict, pending, observed,
                 rows>>

-----------------------------------------------------------------------------
Execute(e) ==
  \/ Register(e) \/ RequestCreate(e) \/ CreateReturns(e) \/ RequestStart(e)
  \/ StartReturns(e) \/ List(e) \/ Remove(e) \/ RemovalFails(e) \/ Verify(e)
  \/ Finish(e)

CleanupStep ==
  \/ BeginCleanup \/ ListScope \/ Confirm \/ GiveUp \/ CommandFails
  \/ LookAgain \/ \E e \in Executions : RemoveFound(e)

Over == scope = "over" /\ UNCHANGED vars

Next ==
  \/ \E e \in Executions : Execute(e) \/ DaemonCreates(e)
  \/ WorkerEnds
  \/ CleanupStep
  \/ Over

Spec == Init /\ [][Next]_vars

\* The parent runs, and its deadline passes.  Nothing is assumed of the daemon.
FairSpec == Spec /\ WF_vars(CleanupStep) /\ SF_vars(GiveUp)

-----------------------------------------------------------------------------
(***************************************************************************)
(* The state has the shape the code gives it: among others, no container   *)
(* is listed or observed that was not announced.                           *)
(***************************************************************************)
TypeOK ==
  /\ stage \in [Executions -> {"idle", "registered", "creating", "created",
                               "started", "listing", "removing", "verifying",
                               "finishing", "over"}]
  /\ raised \subseteq Executions /\ timedOut \subseteq Executions
  /\ listed \subseteq {e \in Executions : entry[e] # "none"}
  /\ entry \in [Executions -> {"none", "pending", "done"}]
  /\ create \in [Executions -> {"none", "sent", "answered"}]
  /\ container \in [Executions -> {"absent", "created", "removed"}]
  /\ worker \in {"alive", "dead"}
  /\ scope \in {"idle", "listing", "removing", "over"}
  /\ verdict \in {"none", "ok", "error"}
  /\ pending \subseteq Executions /\ rows \subseteq Executions
  /\ observed \subseteq {e \in Executions : entry[e] # "none"}

(***************************************************************************)
(* The registry covers the daemon: whatever may still create a container,  *)
(* and every container there is, has its pending file, however its call    *)
(* of execute failed, timed out or was killed (sandbox.py:92-105).         *)
(***************************************************************************)
RegistryCovers ==
  \A e \in Executions :
    create[e] = "sent" \/ Exists(e) => entry[e] = "pending"

(***************************************************************************)
(* A cleanup that reports success leaves no container, and no create       *)
(* request that could still make one: "report ambiguity rather than        *)
(* success" (docker_sandbox.py:259-303).                                   *)
(***************************************************************************)
CleanupHonest ==
  verdict = "ok" =>
    \A e \in Executions : ~Exists(e) /\ create[e] # "sent"

(***************************************************************************)
(* Once the worker is dead the cleanup ends, though a create that the      *)
(* daemon lost is never observed (docker_sandbox.py:268-296).              *)
(***************************************************************************)
CleanupEnds == worker = "dead" ~> scope = "over"

(***************************************************************************)
(* The inductive invariant behind RegistryCovers and CleanupHonest.        *)
(***************************************************************************)

\* A call that came through without an exception got its container's answer,
\* and saw the container gone.
CleanFinish ==
  \A e \in Executions :
    /\ e \notin raised /\ stage[e] \notin {"idle", "registered", "creating"}
         => create[e] = "answered"
    /\ stage[e] = "finishing" /\ e \notin raised => ~Exists(e)
    /\ stage[e] \in {"idle", "registered"} =>
         create[e] = "none" /\ container[e] = "absent"
    /\ create[e] # "answered" => container[e] = "absent"
    /\ e \in listed => create[e] = "answered"
    /\ create[e] = "none" => stage[e] \in {"idle", "registered"}
    /\ stage[e] # "idle" => entry[e] # "none"
    /\ entry[e] = "done" => stage[e] = "over"

\* What the parent read does not change behind its back, but for the daemon's
\* late creations, which `pending` foretells.
CleanupKnows ==
  /\ scope # "idle" =>
       worker = "dead" /\ pending = {e \in Executions : entry[e] = "pending"}
  /\ \A e \in observed : create[e] = "answered" /\ ~Exists(e)
  /\ \A e \in rows : create[e] = "answered" /\ entry[e] # "none"
  /\ verdict # "none" => scope = "over"
  /\ verdict = "ok" => pending \subseteq observed

IInv == TypeOK /\ RegistryCovers /\ CleanFinish /\ CleanupKnows
=============================================================================
