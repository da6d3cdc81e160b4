------------------------ MODULE SupervisorInvariant ------------------------
(***************************************************************************)
(* The inductive invariant of Supervisor: what an await of the tick may    *)
(* still rely on while the owner, the host and the cluster go on.          *)
(***************************************************************************)
EXTENDS Supervisor

(***************************************************************************)
(* A start was decided for an owner who shared; one who has withdrawn      *)
(* since then has left a deadline or a stop request behind.                *)
(***************************************************************************)
StartIsWithdrawable ==
  task \in {"bootstrap", "starting", "configuring"} \/ (task = "inventory" /\ allowed)
    => enabled \/ draining \/ stop

\* The operation lock: an update is requested and cancelled between ticks only.
StartsBeforeUpdate ==
  ~running /\ task \in {"heartbeat", "inventory", "bootstrap", "starting"} => ~updating

UpdateTasks == {"maintenance", "inspect", "updateStop"}
UpdateIsPending == task \in UpdateTasks => updating

\* What a closed node has not been assigned cannot arrive.
ShutIsClosed ==
  /\ shut => ~open
  /\ shut /\ settled => inflight = 0
  /\ shut /\ settled /\ task = "stop" => jobs = 0

\* From its first inspection on the node is closed to work, until the update is cancelled.
UpdateIsClosed ==
  /\ idleSeen \/ task \in {"inspect", "updateStop"} => ~open /\ ~reported
  /\ settled /\ idleSeen /\ task \in {"heartbeat", "maintenance", "inspect"} => inflight = 0
  /\ settled /\ task = "updateStop" => inflight = 0 /\ jobs = 0

(***************************************************************************)
(* Every reachable state satisfies all of these, and every step keeps them *)
(* (the supervisor's tick and the lock it holds).                          *)
(***************************************************************************)
IInv ==
  /\ TypeOK /\ PauseHasDeadline
  /\ StartIsWithdrawable /\ StartsBeforeUpdate /\ UpdateIsPending
  /\ ShutIsClosed /\ UpdateIsClosed
=============================================================================
