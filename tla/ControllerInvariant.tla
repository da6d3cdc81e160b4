------------------------- MODULE ControllerInvariant -------------------------
(***************************************************************************)
(* The inductive invariant of Controller: its safety properties together   *)
(* with what holds between two steps of the handler that has the lock.     *)
(***************************************************************************)
EXTENDS Controller

(***************************************************************************)
(* Which handlers pass through which steps.                                *)
(***************************************************************************)
Provisioning == {"group", "mintKey", "recordKey", "mintToken", "recordToken"}
Removing     == {"peerGroup", "peer", "node"}

JobSteps ==
  /\ at \in Provisioning => job.kind = "bootstrap"
  /\ at = "cordon" => job.kind \in {"heartbeat", "maintenance", "drain", "pause", "reset"}
  /\ at = "undrain" => job.kind = "heartbeat"
  /\ at = "uncordon" => job.kind = "resume"
  /\ at = "keys" => job.kind \in {"bootstrap", "expire", "revoke", "reset"}
  /\ at \in Removing => job.kind \in {"revoke", "reset"}
  /\ at = "tokens" => job.kind \in {"expire", "revoke", "reset"}
  /\ at = "forget" => job.kind = "revoke"
  /\ at = "complete" => job.kind = "reset"
  /\ at \in {"place", "publish"} => job.kind = "reconcile"
  /\ at = "idle" => job.kind = "idle"

(***************************************************************************)
(* What a handler read before its first step still holds: the rows change  *)
(* only under the lock.                                                    *)
(***************************************************************************)
Open(d) ==
  /\ d \in permitted /\ state[d] = "sharing"
  /\ d \notin revoked \cup remotePaused \cup drainPending
  /\ ~Resetting(d)

RowsHold ==
  /\ job.kind = "bootstrap" => job.dev \notin revoked
  /\ job.kind = "revoke" => job.dev \in revoked
  /\ job.kind = "reset" => job.dev \notin revoked
  /\ job.kind = "reconcile" =>
       /\ job.dev \notin revoked /\ ~Resetting(job.dev)
       /\ job.accepting => Open(job.dev)
       /\ job.labels # {} => job.accepting
       /\ job.labels \subseteq allow[job.dev]

(***************************************************************************)
(* The credentials of the bootstrap in progress are new and unsent, and    *)
(* its setup key is on record before it can be sent.                       *)
(***************************************************************************)
GrantsAreNew ==
  /\ \A d \in Devices : \A n \in Grants :
       n \in issued[d] \cup setupKeys[d] => n <= minted[d]
  /\ job.kind = "bootstrap" => minted[job.dev] \in Grants \ issued[job.dev]
  /\ job.kind = "bootstrap" /\ at \in {"group", "keys", "mintKey"} =>
       minted[job.dev] \notin setupKeys[job.dev]
  /\ at \in {"mintToken", "recordToken"} /\ minted[job.dev] \in setupKeys[job.dev] =>
       minted[job.dev] \in keyRows[job.dev]

(***************************************************************************)
(* How far a revocation or a reset has got: each thing it removed stays    *)
(* removed while the later ones still exist.                               *)
(***************************************************************************)
CleanupHolds ==
  job.kind \in {"revoke", "reset"} =>
    /\ at \in Removing \cup {"tokens", "forget", "complete"} =>
         issued[job.dev] \cap setupKeys[job.dev] = {}
    /\ at \in {"node", "tokens", "forget", "complete"} => job.dev \notin peers
    /\ at \in {"tokens", "forget", "complete"} => job.dev \notin registered
    /\ at \in {"forget", "complete"} => issued[job.dev] \cap tokens[job.dev] = {}

(***************************************************************************)
(* Labels are gone when their node is, and after a drain was done.         *)
(***************************************************************************)
LabelsNeedNode ==
  /\ \A d \in Devices \ registered : labels[d] = {}
  /\ at = "undrain" => labels[job.dev] = {}

(***************************************************************************)
(* Every reachable state satisfies all of these, and every step keeps them.*)
(* (the `operations` mutex over all of the controller's handlers)          *)
(***************************************************************************)
IInv ==
  /\ TypeOK
  /\ JobSteps /\ RowsHold /\ GrantsAreNew /\ CleanupHolds /\ LabelsNeedNode
  /\ IssuedIsRecorded /\ RevokedLeavesNoAccess
  /\ StorageChangeRequalifies /\ EligibleRowsAreOpen
=============================================================================
