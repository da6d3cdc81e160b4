-------------------------- MODULE ControllerProofs --------------------------
(***************************************************************************)
(* Proofs about Controller, for any devices, requests, storage generations,*)
(* window and number of bootstraps.                                        *)
(***************************************************************************)
EXTENDS ControllerInvariant, TLAPS

USE DEF vars, tables, world, lock, deviceTable, policyTable, healthTable,
        resetTable, grantTables, network, node, guest

(***************************************************************************)
(* Taking the lock, going on to the next step and returning leave a typed  *)
(* handler.                                                                *)
(***************************************************************************)
LEMMA NoJobType == NoJob \in JobType
<1>1. (CHOOSE d \in Devices : TRUE) \in Devices
  BY ControllerAssumption
<1> QED
  BY <1>1 DEF NoJob, Job, JobType, JobKinds

LEMMA ReturnType ==
  ASSUME Return
  PROVE  job' \in JobType /\ at' \in Steps /\ at' = "idle" /\ job'.kind = "idle"
  BY NoJobType DEF Return, Steps, NoJob, Job

LEMMA BeginType ==
  ASSUME NEW kind \in JobKinds, NEW d \in Devices, NEW step \in Steps,
         Begin(kind, d, step)
  PROVE  /\ job' \in JobType /\ at' \in Steps /\ at' = step
         /\ job'.kind = kind /\ job'.dev = d
  BY DEF Begin, Job, JobType

LEMMA GotoType ==
  ASSUME TypeOK, NEW step \in Steps, Goto(step)
  PROVE  job' \in JobType /\ at' \in Steps /\ at' = step /\ job' = job
  BY DEF Goto, TypeOK

(***************************************************************************)
(* The type invariant, one lemma for each group of actions.                *)
(***************************************************************************)
LEMMA RequestType ==
  ASSUME TypeOK, NEW d \in Devices, Request(d)
  PROVE  TypeOK'
<1> USE DEF TypeOK
<1>1. ASSUME NEW g \in Generations, NEW st \in Reports, NEW owner \in BOOLEAN,
             NEW kinds \in Allowances, Heartbeat(d, g, st, owner, kinds)
      PROVE  TypeOK'
  <2>1. st \in States /\ kinds \in SUBSET Kinds
    BY ControllerAssumption
  <2>2. job' \in JobType /\ at' \in Steps
    BY <1>1, ReturnType, BeginType DEF Heartbeat, JobKinds, Steps
  <2> QED
    BY <1>1, <2>1, <2>2 DEF Heartbeat, DrainOwed
<1>2. CASE Bootstrap(d)
  <2>1. job' \in JobType /\ at' \in Steps
    BY <1>2, BeginType DEF Bootstrap, JobKinds, Steps
  <2> QED
    BY <1>2, <2>1, ControllerAssumption DEF Bootstrap
<1>3. CASE Maintenance(d)
  <2>1. job' \in JobType /\ at' \in Steps
    BY <1>3, BeginType DEF Maintenance, JobKinds, Steps
  <2> QED
    BY <1>3, <2>1 DEF Maintenance, States
<1>4. CASE Drain(d)
  <2>1. job' \in JobType /\ at' \in Steps
    BY <1>4, BeginType DEF Drain, JobKinds, Steps
  <2> QED
    BY <1>4, <2>1 DEF Drain, States
<1>5. CASE Resume(d)
  <2>1. job' \in JobType /\ at' \in Steps
    BY <1>5, BeginType DEF Resume, JobKinds, Steps
  <2> QED
    BY <1>5, <2>1 DEF Resume
<1>6. CASE AdminPause(d)
  <2>1. job' \in JobType /\ at' \in Steps
    BY <1>6, BeginType DEF AdminPause, JobKinds, Steps
  <2> QED
    BY <1>6, <2>1 DEF AdminPause
<1>7. CASE AdminResume(d)
  BY <1>7 DEF AdminResume
<1>8. CASE Revoke(d)
  <2>1. job' \in JobType /\ at' \in Steps
    BY <1>8, BeginType DEF Revoke, JobKinds, Steps
  <2> QED
    BY <1>8, <2>1 DEF Revoke
<1>9. ASSUME NEW r \in Requests, RequestReset(d, r)
      PROVE  TypeOK'
  <2>1. job' \in JobType /\ at' \in Steps
    BY <1>9, BeginType DEF RequestReset, JobKinds, Steps
  <2> QED
    BY <1>9, <2>1 DEF RequestReset, States
<1> QED
  BY <1>1, <1>2, <1>3, <1>4, <1>5, <1>6, <1>7, <1>8, <1>9 DEF Request

(***************************************************************************)
(* The row reconciliation writes is a row, whatever the slot held before.  *)
(***************************************************************************)
LEMMA RecordedType ==
  ASSUME TypeOK, NEW d \in Devices, NEW ok \in BOOLEAN
  PROVE  Recorded(d, ok) \in SUBSET Sample
<1>1. 0 \in Ages
  BY ControllerAssumption DEF Ages
<1>2. samples[d] \subseteq Sample /\ generation[d] \in Generations
  BY DEF TypeOK
<1>3. [age |-> 0, ready |-> ok, generation |-> generation[d]] \in Sample
  BY <1>1, <1>2 DEF Sample
<1>4. ASSUME NEW s \in samples[d]
      PROVE  [age |-> s.age, ready |-> s.ready /\ (ok \/ s.age # 0),
              generation |-> s.generation] \in Sample
  <2>1. s \in Sample
    BY <1>2
  <2>2. s.age \in Ages /\ s.ready \in BOOLEAN /\ s.generation \in Generations
    BY <2>1 DEF Sample
  <2>3. (s.ready /\ (ok \/ s.age # 0)) \in BOOLEAN
    OBVIOUS
  <2> QED
    BY <2>2, <2>3 DEF Sample
<1> QED
  BY <1>2, <1>3, <1>4 DEF Recorded

LEMMA MaintainType ==
  ASSUME TypeOK, NEW d \in Devices, Maintain(d)
  PROVE  TypeOK'
<1>1. CASE RetryRevocation(d)
  <2>1. job' \in JobType /\ at' \in Steps
    BY <1>1, BeginType DEF RetryRevocation, JobKinds, Steps
  <2> QED
    BY <1>1, <2>1 DEF RetryRevocation, TypeOK
<1>2. CASE RetryReset(d)
  <2>1. job' \in JobType /\ at' \in Steps
    BY <1>2, BeginType DEF RetryReset, JobKinds, Steps
  <2> QED
    BY <1>2, <2>1 DEF RetryReset, TypeOK
<1>3. CASE ExpireGrants(d)
  <2>1. job' \in JobType /\ at' \in Steps
    BY <1>3, BeginType DEF ExpireGrants, JobKinds, Steps
  <2> QED
    BY <1>3, <2>1 DEF ExpireGrants, TypeOK
<1>4. ASSUME NEW ok \in BOOLEAN, NEW services \in BOOLEAN, Reconcile(d, ok, services)
      PROVE  TypeOK'
  <2>1. samples' \in [Devices -> SUBSET Sample]
    BY <1>4, RecordedType DEF Reconcile, TypeOK
  <2>2. Accepting(d) \in BOOLEAN
    BY DEF Accepting
  <2>3. job' \in JobType
    BY <1>4, <2>2 DEF Reconcile, JobType, JobKinds, Kinds
  <2>4. at' \in Steps
    BY <1>4 DEF Reconcile, Steps
  <2> QED
    BY <1>4, <2>1, <2>3, <2>4 DEF Reconcile, TypeOK
<1> QED
  BY <1>1, <1>2, <1>3, <1>4 DEF Maintain

LEMMA BookType ==
  ASSUME TypeOK, BookStep
  PROVE  TypeOK'
<1>1. job.dev \in Devices
  BY DEF TypeOK, JobType
<1>2. job' \in JobType /\ at' \in Steps
  BY ReturnType DEF BookStep, ClearDrainPending, CompleteReset, ForgetRevocation, Publish
<1>3. CASE ClearDrainPending
  BY <1>1, <1>2, <1>3 DEF ClearDrainPending, TypeOK
<1>4. CASE CompleteReset
  BY <1>1, <1>2, <1>4 DEF CompleteReset, TypeOK, States
<1>5. CASE ForgetRevocation
  BY <1>1, <1>2, <1>5 DEF ForgetRevocation, TypeOK
<1>6. CASE Publish
  BY <1>1, <1>2, <1>6 DEF Publish, TypeOK, JobType
<1> QED
  BY <1>3, <1>4, <1>5, <1>6 DEF BookStep

LEMMA NodeType ==
  ASSUME TypeOK, NodeStep
  PROVE  TypeOK'
<1>1. job.dev \in Devices /\ job.labels \subseteq Kinds
  BY DEF TypeOK, JobType
<1>2. job' \in JobType /\ at' \in Steps
  BY ReturnType, GotoType
     DEF NodeStep, Cordon, NothingToCordon, AfterCordon, Uncordon, DeleteNode, Place, Steps
<1>3. CASE Cordon
  BY <1>1, <1>2, <1>3 DEF Cordon, TypeOK
<1>4. CASE NothingToCordon
  BY <1>1, <1>2, <1>4 DEF NothingToCordon, TypeOK
<1>5. CASE Uncordon
  BY <1>1, <1>2, <1>5 DEF Uncordon, TypeOK
<1>6. CASE DeleteNode
  BY <1>1, <1>2, <1>6 DEF DeleteNode, TypeOK
<1>7. CASE Place
  BY <1>1, <1>2, <1>7 DEF Place, TypeOK
<1> QED
  BY <1>3, <1>4, <1>5, <1>6, <1>7 DEF NodeStep

(***************************************************************************)
(* A bootstrap in progress was counted when it began, so its number is one *)
(* of the grants: this needs the part of the invariant that says so.       *)
(***************************************************************************)
LEMMA MintType ==
  ASSUME TypeOK, MintStep, minted[job.dev] \in Grants
  PROVE  TypeOK'
<1>1. job.dev \in Devices
  BY DEF TypeOK, JobType
<1>2. job' \in JobType /\ at' \in Steps
  <2>1. CASE InspectGroup
    BY <1>1, <2>1 DEF InspectGroup, JobType, JobKinds, Steps
  <2>2. CASE ~InspectGroup
    BY <2>2, ReturnType, GotoType
       DEF MintStep, MintKey, RecordKey, MintToken, RecordToken, Steps
  <2> QED
    BY <2>1, <2>2
<1>3. CASE InspectGroup
  BY <1>2, <1>3 DEF InspectGroup, TypeOK
<1>4. CASE MintKey
  BY <1>1, <1>2, <1>4 DEF MintKey, TypeOK
<1>5. CASE RecordKey
  BY <1>1, <1>2, <1>5 DEF RecordKey, TypeOK
<1>6. CASE MintToken
  BY <1>1, <1>2, <1>6 DEF MintToken, TypeOK
<1>7. CASE RecordToken
  BY <1>1, <1>2, <1>7 DEF RecordToken, TypeOK
<1> QED
  BY <1>3, <1>4, <1>5, <1>6, <1>7 DEF MintStep

LEMMA RemoveType ==
  ASSUME TypeOK, RemoveStep
  PROVE  TypeOK'
<1>1. job.dev \in Devices
  BY DEF TypeOK, JobType
<1>2. ASSUME NEW g \in Grants,
             DeleteKey(g) \/ ForgetKey(g) \/ DeleteToken(g) \/ ForgetToken(g)
      PROVE  TypeOK'
  BY <1>1, <1>2 DEF DeleteKey, ForgetKey, DeleteToken, ForgetToken, TypeOK
<1>3. CASE KeysRemoved \/ TokensRemoved \/ InspectPeers
  <2>1. job' \in JobType /\ at' \in Steps
    BY <1>3, ReturnType, GotoType DEF KeysRemoved, TokensRemoved, InspectPeers, Steps
  <2> QED
    BY <1>3, <2>1 DEF KeysRemoved, TokensRemoved, InspectPeers, TypeOK
<1>4. CASE DeletePeer
  <2>1. job' \in JobType /\ at' \in Steps
    BY <1>4, GotoType DEF DeletePeer, Steps
  <2> QED
    BY <1>4, <2>1 DEF DeletePeer, TypeOK
<1> QED
  BY <1>2, <1>3, <1>4 DEF RemoveStep

LEMMA ClockType ==
  ASSUME TypeOK, Clock
  PROVE  TypeOK'
<1>1. CASE NextSlot
  <2>1. ASSUME NEW d \in Devices
        PROVE  {Older(s) : s \in {x \in samples[d] : x.age + 1 \in Ages}} \subseteq Sample
    BY DEF TypeOK, Sample, Older
  <2> QED
    BY <1>1, <2>1 DEF NextSlot, TypeOK
<1>2. CASE \E d \in Devices : HeartbeatAges(d)
  BY <1>2 DEF HeartbeatAges, TypeOK
<1> QED
  BY <1>1, <1>2 DEF Clock

LEMMA GuestType ==
  ASSUME TypeOK, NEW d \in Devices, Guest(d)
  PROVE  TypeOK'
  BY DEF Guest, RegisterNode, JoinNetwork, TypeOK

LEMMA AbortType == ASSUME TypeOK, Abort PROVE TypeOK'
  BY ReturnType DEF Abort, TypeOK

-----------------------------------------------------------------------------
(***************************************************************************)
(* What each group of actions leaves alone.                                *)
(***************************************************************************)
LEMMA RequestFrame ==
  ASSUME NEW d \in Devices, Request(d)
  PROVE  UNCHANGED <<grantTables, network, tokens, node, issued, certified>>
  BY DEF Request, Heartbeat, Bootstrap, Maintenance, Drain, Resume, AdminPause,
         AdminResume, Revoke, RequestReset

LEMMA MaintainFrame ==
  ASSUME NEW d \in Devices, Maintain(d)
  PROVE  UNCHANGED <<world, revoked, remotePaused, state, fresh, policyTable,
                     generation, drainPending, resetTable, revocations>>
  BY DEF Maintain, RetryRevocation, RetryReset, ExpireGrants, Reconcile

LEMMA BookFrame ==
  ASSUME BookStep
  PROVE  UNCHANGED <<world, revoked, remotePaused, fresh, allow, generation>>
  BY DEF BookStep, ClearDrainPending, CompleteReset, ForgetRevocation, Publish

LEMMA NodeFrame ==
  ASSUME NodeStep
  PROVE  UNCHANGED <<tables, grantTables, network, tokens, guest>>
  BY DEF NodeStep, Cordon, NothingToCordon, Uncordon, DeleteNode, Place

LEMMA MintFrame ==
  ASSUME MintStep
  PROVE  UNCHANGED <<tables, peers, node, minted, certified>>
  BY DEF MintStep, InspectGroup, MintKey, RecordKey, MintToken, RecordToken

LEMMA RemoveFrame ==
  ASSUME RemoveStep
  PROVE  UNCHANGED <<tables, node, guest>>
  BY DEF RemoveStep, DeleteKey, ForgetKey, DeleteToken, ForgetToken, KeysRemoved,
         TokensRemoved, InspectPeers, DeletePeer

LEMMA ClockFrame ==
  ASSUME Clock
  PROVE  UNCHANGED <<world, lock, revoked, remotePaused, state, eligible, policyTable,
                     generation, drainPending, resetTable, revocations>>
  BY DEF Clock, NextSlot, HeartbeatAges

LEMMA GuestFrame ==
  ASSUME NEW d \in Devices, Guest(d)
  PROVE  UNCHANGED <<tables, lock, grantTables, tokens, cordoned, labels, labelled,
                     minted, issued>>
  BY DEF Guest, RegisterNode, JoinNetwork

(***************************************************************************)
(* A request finds the lock free and starts one kind of handler, at its    *)
(* first step, or returns at once.                                         *)
(***************************************************************************)
LEMMA RequestStarts ==
  ASSUME IInv, NEW d \in Devices, Request(d)
  PROVE  \/ at' = "idle" /\ job'.kind = "idle"
         \/ at' = "cordon" /\ job'.kind \in {"heartbeat", "maintenance", "drain", "pause"}
         \/ at' = "cordon" /\ job'.kind = "reset" /\ job'.dev \notin revoked'
         \/ at' = "uncordon" /\ job'.kind = "resume"
         \/ at' = "keys" /\ job'.kind = "revoke" /\ job'.dev \in revoked'
         \/ /\ at' = "group" /\ job'.kind = "bootstrap" /\ job'.dev = d
            /\ Bootstrap(d) /\ d \notin revoked'
<1>1. at = "idle" => job.kind = "idle"
  BY DEF IInv, JobSteps
<1>2. CASE Bootstrap(d)
  <2>1. at' = "group" /\ job'.kind = "bootstrap" /\ job'.dev = d /\ d \notin revoked'
    BY <1>2 DEF Bootstrap, Begin, Job
  <2> QED
    BY <1>2, <2>1
<1>3. ASSUME NEW g \in Generations, NEW st \in Reports, NEW owner \in BOOLEAN,
             NEW kinds \in Allowances, Heartbeat(d, g, st, owner, kinds)
      PROVE  \/ at' = "idle" /\ job'.kind = "idle"
             \/ at' = "cordon" /\ job'.kind = "heartbeat"
  BY <1>3, ReturnType DEF Heartbeat, Begin, Job
<1>4. CASE Maintenance(d) \/ Drain(d) \/ AdminPause(d)
  BY <1>4 DEF Maintenance, Drain, AdminPause, Begin, Job
<1>5. CASE AdminResume(d)
  BY <1>1, <1>5 DEF AdminResume, Free
<1>6. CASE Resume(d) \/ Revoke(d)
  BY <1>6 DEF Resume, Revoke, Begin, Job
<1>7. ASSUME NEW r \in Requests, RequestReset(d, r)
      PROVE  at' = "cordon" /\ job'.kind = "reset" /\ job'.dev \notin revoked'
  BY <1>7 DEF RequestReset, Begin, Job
<1> QED
  BY <1>2, <1>3, <1>4, <1>5, <1>6, <1>7 DEF Request

LEMMA RequestInv ==
  ASSUME IInv, NEW d \in Devices, Request(d)
  PROVE  IInv'
<1> USE RequestStarts, RequestFrame
<1>0. TypeOK /\ TypeOK'
  BY RequestType DEF IInv
<1>1. JobSteps'
  BY DEF JobSteps, Provisioning, Removing
<1>2. RowsHold'
  BY DEF RowsHold
<1>3. GrantsAreNew'
  <2>1. CASE Bootstrap(d) /\ at' = "group" /\ job'.kind = "bootstrap" /\ job'.dev = d
    <3>1. minted' = [minted EXCEPT ![d] = @ + 1] /\ minted[d] < MaxGrants
      BY <2>1 DEF Bootstrap
    <3>2. minted \in [Devices -> 0..MaxGrants]
      BY <1>0 DEF TypeOK
    <3>3. minted'[d] = minted[d] + 1 /\ minted'[d] \in Grants
      BY <3>1, <3>2, ControllerAssumption DEF Grants
    <3>4. \A e \in Devices : minted[e] \in Nat /\ minted'[e] \in Nat /\ minted[e] <= minted'[e]
      BY <3>1, <3>2, ControllerAssumption
    <3>5. \A e \in Devices : \A n \in Grants :
            n \in issued[e] \cup setupKeys[e] => n <= minted[e]
      BY DEF IInv, GrantsAreNew
    <3>6. minted'[d] \notin issued[d] \cup setupKeys[d]
      BY <3>3, <3>4, <3>5 DEF Grants
    <3> QED
      BY <2>1, <3>3, <3>4, <3>5, <3>6, ControllerAssumption DEF GrantsAreNew, Grants
  <2>2. CASE job'.kind # "bootstrap"
    <3>1. minted' = minted
      BY <2>2 DEF Request, Heartbeat, Bootstrap, Maintenance, Drain, Resume, AdminPause,
         AdminResume, Revoke, RequestReset, Begin, Job
    <3> QED
      BY <2>2, <3>1 DEF GrantsAreNew, IInv
  <2> QED
    BY <2>1, <2>2
<1>4. CleanupHolds'
  BY DEF CleanupHolds, Removing
<1>5. LabelsNeedNode'
  BY DEF LabelsNeedNode, IInv
<1>6. IssuedIsRecorded'
  BY DEF IssuedIsRecorded, IInv
<1>7. RevokedLeavesNoAccess'
  <2>1. revoked' \ revocations' \subseteq revoked \ revocations
    BY DEF Request, Heartbeat, Bootstrap, Maintenance, Drain, Resume, AdminPause,
       AdminResume, Revoke, RequestReset
  <2> QED
    BY <2>1 DEF RevokedLeavesNoAccess, NoAccess, IInv
<1>8. StorageChangeRequalifies'
  <2>1. ASSUME NEW g \in Generations, NEW st \in Reports, NEW owner \in BOOLEAN,
               NEW kinds \in Allowances, Heartbeat(d, g, st, owner, kinds)
        PROVE  StorageChangeRequalifies'
    BY <1>0, <2>1 DEF Heartbeat, DrainOwed, StorageChangeRequalifies, IInv, TypeOK
  <2>2. ASSUME NEW r \in Requests, RequestReset(d, r)
        PROVE  StorageChangeRequalifies'
    BY <1>0, <2>2 DEF RequestReset, StorageChangeRequalifies, IInv, TypeOK
  <2>3. CASE UNCHANGED healthTable
    BY <2>3 DEF StorageChangeRequalifies, IInv
  <2> QED
    BY <2>1, <2>2, <2>3 DEF Request, Bootstrap, Maintenance, Drain, Resume, AdminPause,
       AdminResume, Revoke
<1>9. EligibleRowsAreOpen'
  <2>1. eligible \in [Devices -> SUBSET Kinds]
    BY <1>0 DEF TypeOK
  <2>2. ASSUME NEW g \in Generations, NEW st \in Reports, NEW owner \in BOOLEAN,
               NEW kinds \in Allowances, Heartbeat(d, g, st, owner, kinds)
        PROVE  EligibleRowsAreOpen'
    BY <2>1, <2>2 DEF Heartbeat, DrainOwed, EligibleRowsAreOpen, Resetting, IInv
  <2>3. ASSUME NEW r \in Requests, RequestReset(d, r)
        PROVE  EligibleRowsAreOpen'
    BY <2>1, <2>3 DEF RequestReset, EligibleRowsAreOpen, Resetting, IInv
  <2>4. CASE Bootstrap(d) \/ Resume(d)
    BY <2>4 DEF Bootstrap, Resume, EligibleRowsAreOpen, Resetting, IInv
  <2>5. CASE Maintenance(d) \/ Drain(d) \/ AdminPause(d) \/ AdminResume(d) \/ Revoke(d)
    BY <2>1, <2>5 DEF Maintenance, Drain, AdminPause, AdminResume, Revoke,
       EligibleRowsAreOpen, Resetting, IInv
  <2> QED
    BY <2>2, <2>3, <2>4, <2>5 DEF Request
<1> QED
  BY <1>0, <1>1, <1>2, <1>3, <1>4, <1>5, <1>6, <1>7, <1>8, <1>9 DEF IInv

LEMMA MaintainInv ==
  ASSUME IInv, NEW d \in Devices, Maintain(d)
  PROVE  IInv'
<1> USE MaintainFrame
<1>0. TypeOK /\ TypeOK'
  BY MaintainType DEF IInv
<1>1. \/ /\ at' = "keys" /\ job'.kind = "expire" /\ UNCHANGED tables
      \/ /\ at' = "keys" /\ job'.kind = "revoke" /\ job'.dev \in revoked' /\ UNCHANGED tables
      \/ /\ at' = "cordon" /\ job'.kind = "reset" /\ job'.dev \notin revoked'
         /\ UNCHANGED tables
      \/ /\ at' = "place" /\ job'.kind = "reconcile"
         /\ \E ok, services \in BOOLEAN : Reconcile(d, ok, services)
  <2>1. ASSUME NEW ok \in BOOLEAN, NEW services \in BOOLEAN, Reconcile(d, ok, services)
        PROVE  at' = "place" /\ job'.kind = "reconcile"
    BY <2>1 DEF Reconcile
  <2>2. CASE RetryRevocation(d) \/ RetryReset(d) \/ ExpireGrants(d)
    BY <2>2 DEF RetryRevocation, RetryReset, ExpireGrants, Begin, Job
  <2> QED
    BY <2>1, <2>2 DEF Maintain
<1>2. JobSteps'
  BY <1>1 DEF JobSteps, Provisioning, Removing
<1>3. RowsHold'
  <2>1. ASSUME NEW ok \in BOOLEAN, NEW services \in BOOLEAN, Reconcile(d, ok, services)
        PROVE  RowsHold'
    BY <2>1 DEF Reconcile, Selected, RowsHold, Open, Accepting, Resetting
  <2> QED
    BY <1>1, <2>1 DEF RowsHold
<1>4. GrantsAreNew'
  BY <1>1 DEF GrantsAreNew, IInv
<1>5. CleanupHolds'
  BY <1>1 DEF CleanupHolds, Removing
<1>6. LabelsNeedNode'
  BY <1>1 DEF LabelsNeedNode, IInv
<1>7. IssuedIsRecorded' /\ RevokedLeavesNoAccess'
  BY DEF IssuedIsRecorded, RevokedLeavesNoAccess, NoAccess, IInv
<1>8. StorageChangeRequalifies' /\ EligibleRowsAreOpen'
  <2>1. ASSUME NEW ok \in BOOLEAN, NEW services \in BOOLEAN, Reconcile(d, ok, services)
        PROVE  StorageChangeRequalifies' /\ EligibleRowsAreOpen'
    <3>1. \A s \in Recorded(d, ok) : s.generation = generation[d]
      BY DEF Recorded, StorageChangeRequalifies, IInv
    <3>2. samples' = [samples EXCEPT ![d] = Recorded(d, ok)]
      BY <2>1 DEF Reconcile
    <3>3. eligible' = [eligible EXCEPT ![d] = {}]
      BY <2>1 DEF Reconcile
    <3>4. StorageChangeRequalifies'
      BY <1>0, <3>1, <3>2 DEF StorageChangeRequalifies, IInv, TypeOK
    <3>5. EligibleRowsAreOpen'
      BY <1>0, <3>3 DEF EligibleRowsAreOpen, Resetting, IInv, TypeOK
    <3> QED
      BY <3>4, <3>5
  <2>2. CASE UNCHANGED tables
    BY <2>2 DEF StorageChangeRequalifies, EligibleRowsAreOpen, Resetting, IInv
  <2> QED
    BY <1>1, <2>1, <2>2
<1> QED
  BY <1>0, <1>2, <1>3, <1>4, <1>5, <1>6, <1>7, <1>8 DEF IInv

LEMMA BookInv ==
  ASSUME IInv, BookStep
  PROVE  IInv'
<1> USE BookFrame
<1>0. TypeOK /\ TypeOK' /\ job.dev \in Devices
  BY BookType DEF IInv, TypeOK, JobType
<1>1. at' = "idle" /\ job'.kind = "idle"
  BY ReturnType DEF BookStep, ClearDrainPending, CompleteReset, ForgetRevocation, Publish
<1>2. JobSteps' /\ RowsHold' /\ CleanupHolds'
  BY <1>1 DEF JobSteps, RowsHold, CleanupHolds, Provisioning, Removing
<1>3. GrantsAreNew' /\ LabelsNeedNode'
  BY <1>1 DEF GrantsAreNew, LabelsNeedNode, IInv
<1>4. IssuedIsRecorded'
  BY DEF IssuedIsRecorded, IInv
<1>5. RevokedLeavesNoAccess'
  <2>1. CASE ForgetRevocation
    <3>1. job.kind = "revoke" /\ at = "forget"
      BY <2>1 DEF ForgetRevocation, At, JobSteps, IInv
    <3>2. NoAccess(job.dev)
      BY <3>1 DEF CleanupHolds, NoAccess, IInv
    <3> QED
      BY <2>1, <3>2 DEF ForgetRevocation, RevokedLeavesNoAccess, NoAccess, IInv
  <2>2. CASE UNCHANGED revocations
    BY <2>2 DEF RevokedLeavesNoAccess, NoAccess, IInv
  <2> QED
    BY <2>1, <2>2 DEF BookStep, ClearDrainPending, CompleteReset, Publish
<1>6. StorageChangeRequalifies'
  <2>1. CASE ClearDrainPending
    BY <1>0, <2>1 DEF ClearDrainPending, At, LabelsNeedNode, StorageChangeRequalifies, IInv
  <2>2. CASE CompleteReset
    BY <1>0, <2>2 DEF CompleteReset, StorageChangeRequalifies, IInv, TypeOK
  <2>3. CASE UNCHANGED healthTable
    BY <2>3 DEF StorageChangeRequalifies, IInv
  <2> QED
    BY <2>1, <2>2, <2>3 DEF BookStep, ForgetRevocation, Publish
<1>7. EligibleRowsAreOpen'
  <2>1. CASE ClearDrainPending \/ ForgetRevocation
    BY <2>1 DEF ClearDrainPending, ForgetRevocation, EligibleRowsAreOpen, Resetting, IInv
  <2>2. CASE CompleteReset
    BY <1>0, <2>2 DEF CompleteReset, EligibleRowsAreOpen, Resetting, IInv, TypeOK
  <2>3. CASE Publish
    <3>1. job.labels # {} => Open(job.dev)
      BY <2>3 DEF Publish, At, JobSteps, RowsHold, IInv
    <3> QED
      BY <1>0, <2>3, <3>1 DEF Publish, Open, EligibleRowsAreOpen, Resetting, IInv, TypeOK
  <2> QED
    BY <2>1, <2>2, <2>3 DEF BookStep
<1> QED
  BY <1>0, <1>2, <1>3, <1>4, <1>5, <1>6, <1>7 DEF IInv

LEMMA NodeInv ==
  ASSUME IInv, NodeStep
  PROVE  IInv'
<1> USE NodeFrame
<1>0. TypeOK /\ TypeOK' /\ job.dev \in Devices
  BY NodeType DEF IInv, TypeOK, JobType
<1>1. \/ at' = "idle" /\ job'.kind = "idle"
      \/ at' = "undrain" /\ job.kind = "heartbeat" /\ job' = job /\ at = "cordon"
      \/ at' = "keys" /\ job.kind = "reset" /\ job' = job /\ at = "cordon"
      \/ /\ at' = "tokens" /\ job.kind \in {"revoke", "reset"} /\ job' = job
         /\ at = "node" /\ DeleteNode
      \/ at' = "publish" /\ job.kind = "reconcile" /\ job' = job /\ at = "place"
  <2>1. CASE DeleteNode
    BY <2>1 DEF DeleteNode, Goto, At, JobSteps, Removing, IInv
  <2>2. CASE ~DeleteNode
    BY <2>2, ReturnType DEF NodeStep, Cordon, NothingToCordon, AfterCordon, Uncordon, Place,
       Goto, At, JobSteps, IInv
  <2> QED
    BY <2>1, <2>2
<1>2. JobSteps'
  BY <1>1 DEF JobSteps, Provisioning, Removing
<1>3. RowsHold'
  BY <1>1 DEF RowsHold, Open, Resetting, IInv
<1>4. GrantsAreNew'
  BY <1>1 DEF GrantsAreNew, IInv
<1>5. CleanupHolds'
  <2>1. CASE DeleteNode /\ at = "node" /\ at' = "tokens"
    BY <1>1, <2>1 DEF DeleteNode, CleanupHolds, Removing, IInv
  <2>2. CASE at' \in {"idle", "undrain", "keys", "publish"}
    BY <2>2 DEF CleanupHolds, Removing
  <2> QED
    BY <1>1, <2>1, <2>2
<1>6. LabelsNeedNode'
  <2>1. CASE Cordon
    BY <1>0, <1>1, <2>1 DEF Cordon, LabelsNeedNode, IInv, TypeOK
  <2>2. CASE NothingToCordon
    BY <1>0, <1>1, <2>2 DEF NothingToCordon, LabelsNeedNode, IInv, TypeOK
  <2>3. CASE Uncordon
    BY <1>0, <1>1, <2>3, ReturnType DEF Uncordon, LabelsNeedNode, IInv, TypeOK
  <2>4. CASE DeleteNode
    BY <1>0, <2>4 DEF DeleteNode, Goto, LabelsNeedNode, IInv, TypeOK
  <2>5. CASE Place
    BY <1>0, <2>5 DEF Place, Goto, LabelsNeedNode, IInv, TypeOK
  <2> QED
    BY <2>1, <2>2, <2>3, <2>4, <2>5 DEF NodeStep
<1>7. IssuedIsRecorded'
  BY DEF IssuedIsRecorded, IInv
<1>8. RevokedLeavesNoAccess'
  <2>1. registered' \subseteq registered
    BY DEF NodeStep, Cordon, NothingToCordon, Uncordon, DeleteNode, Place
  <2> QED
    BY <2>1 DEF RevokedLeavesNoAccess, NoAccess, IInv
<1>9. StorageChangeRequalifies'
  <2>1. CASE Place
    BY <1>0, <2>1 DEF Place, StorageChangeRequalifies, IInv, TypeOK
  <2>2. CASE ~Place
    BY <1>0, <2>2 DEF NodeStep, Cordon, NothingToCordon, Uncordon, DeleteNode,
       StorageChangeRequalifies, IInv, TypeOK
  <2> QED
    BY <2>1, <2>2
<1>10. EligibleRowsAreOpen'
  BY DEF EligibleRowsAreOpen, Resetting, IInv
<1> QED
  BY <1>0, <1>2, <1>3, <1>4, <1>5, <1>6, <1>7, <1>8, <1>9, <1>10 DEF IInv

LEMMA MintInv ==
  ASSUME IInv, MintStep
  PROVE  IInv'
<1> USE MintFrame
<1>0. job.kind = "bootstrap"
  BY DEF MintStep, InspectGroup, MintKey, RecordKey, MintToken, RecordToken, At,
     JobSteps, Provisioning, IInv
<1>1. TypeOK /\ job.dev \in Devices /\ minted[job.dev] \in Grants \ issued[job.dev]
  BY <1>0 DEF GrantsAreNew, IInv, TypeOK, JobType
<1>2. TypeOK'
  BY <1>1, MintType
<1>3. \/ /\ at = "group" /\ at' = "keys" /\ job'.kind = "bootstrap" /\ job'.dev = job.dev
         /\ UNCHANGED <<grantTables, network, tokens, issued>>
      \/ at = "mintKey" /\ at' = "recordKey" /\ job' = job /\ MintKey
      \/ at = "recordKey" /\ at' = "mintToken" /\ job' = job /\ RecordKey
      \/ at = "mintToken" /\ at' = "recordToken" /\ job' = job /\ MintToken
      \/ at = "recordToken" /\ at' = "idle" /\ job'.kind = "idle" /\ RecordToken
  <2>1. CASE InspectGroup
    BY <2>1 DEF InspectGroup, At
  <2>2. CASE MintKey
    BY <2>2 DEF MintKey, At, Goto
  <2>3. CASE RecordKey
    BY <2>3 DEF RecordKey, At, Goto
  <2>4. CASE MintToken
    BY <2>4 DEF MintToken, At, Goto
  <2>5. CASE RecordToken
    BY <2>5, ReturnType DEF RecordToken, At
  <2> QED
    BY <2>1, <2>2, <2>3, <2>4, <2>5 DEF MintStep
<1>4. JobSteps'
  BY <1>0, <1>3 DEF JobSteps, Provisioning, Removing
<1>5. RowsHold'
  BY <1>0, <1>3 DEF RowsHold, IInv
<1>6. CleanupHolds'
  BY <1>0, <1>3 DEF CleanupHolds, Removing
<1>7. LabelsNeedNode'
  BY <1>3 DEF LabelsNeedNode, IInv
<1>8. GrantsAreNew'
  <2>1. minted \in [Devices -> 0..MaxGrants] /\ setupKeys \in [Devices -> SUBSET Grants]
        /\ issued \in [Devices -> SUBSET Grants] /\ keyRows \in [Devices -> SUBSET Grants]
    BY <1>1 DEF TypeOK
  <2>2. minted[job.dev] \in Nat /\ minted[job.dev] <= minted[job.dev]
    BY <1>1 DEF Grants
  <2>3. \A e \in Devices : \A n \in Grants :
          n \in issued[e] \cup setupKeys[e] => n <= minted[e]
    BY DEF GrantsAreNew, IInv
  <2>4. CASE at = "group" \/ at = "mintToken"
    BY <1>0, <1>3, <2>4 DEF GrantsAreNew, IInv, MintToken
  <2>5. CASE at = "mintKey"
    <3>1. setupKeys' = [setupKeys EXCEPT ![job.dev] = @ \cup {minted[job.dev]}]
          /\ UNCHANGED <<issued, keyRows>>
      BY <1>3, <2>5 DEF MintKey
    <3> QED
      BY <1>1, <1>3, <2>1, <2>2, <2>3, <2>5, <3>1 DEF GrantsAreNew
  <2>6. CASE at = "recordKey"
    <3>1. keyRows' = [keyRows EXCEPT ![job.dev] = @ \cup {minted[job.dev]}]
          /\ UNCHANGED <<issued, setupKeys>>
      BY <1>3, <2>6 DEF RecordKey
    <3> QED
      BY <1>1, <1>3, <2>1, <2>3, <2>6, <3>1 DEF GrantsAreNew
  <2>7. CASE at = "recordToken"
    <3>1. issued' = [issued EXCEPT ![job.dev] = @ \cup {minted[job.dev]}]
          /\ UNCHANGED setupKeys
      BY <1>3, <2>7 DEF RecordToken
    <3> QED
      BY <1>1, <1>3, <2>1, <2>2, <2>3, <2>7, <3>1 DEF GrantsAreNew
  <2> QED
    BY <1>3, <2>4, <2>5, <2>6, <2>7
<1>9. IssuedIsRecorded'
  <2>1. CASE at = "group"
    BY <1>3, <2>1 DEF IssuedIsRecorded, IInv
  <2>2. CASE at = "mintKey"
    BY <1>1, <1>3, <2>2 DEF MintKey, IssuedIsRecorded, IInv, TypeOK
  <2>3. CASE at = "recordKey"
    BY <1>1, <1>3, <2>3 DEF RecordKey, IssuedIsRecorded, IInv, TypeOK
  <2>4. CASE at = "mintToken"
    BY <1>1, <1>3, <2>4 DEF MintToken, IssuedIsRecorded, IInv, TypeOK
  <2>5. CASE at = "recordToken"
    BY <1>1, <1>3, <2>5 DEF RecordToken, IssuedIsRecorded, GrantsAreNew, IInv, TypeOK
  <2> QED
    BY <1>3, <2>1, <2>2, <2>3, <2>4, <2>5
<1>10. RevokedLeavesNoAccess'
  <2>1. job.dev \notin revoked
    BY <1>0 DEF RowsHold, IInv
  <2>2. \A e \in Devices \ {job.dev} :
          UNCHANGED <<setupKeys[e], tokens[e], issued[e]>>
    BY <1>1, <1>3 DEF MintKey, RecordKey, MintToken, RecordToken, TypeOK
  <2>3. revoked \subseteq Devices
    BY <1>1 DEF TypeOK
  <2> QED
    BY <2>1, <2>2, <2>3 DEF RevokedLeavesNoAccess, NoAccess, IInv
<1>11. StorageChangeRequalifies' /\ EligibleRowsAreOpen'
  BY DEF StorageChangeRequalifies, EligibleRowsAreOpen, Resetting, IInv
<1> QED
  BY <1>2, <1>4, <1>5, <1>6, <1>7, <1>8, <1>9, <1>10, <1>11 DEF IInv

LEMMA RemoveInv ==
  ASSUME IInv, RemoveStep
  PROVE  IInv'
<1> USE RemoveFrame
<1>0. TypeOK /\ TypeOK' /\ job.dev \in Devices
  BY RemoveType DEF IInv, TypeOK, JobType
<1>1. ASSUME NEW g \in Grants,
             DeleteKey(g) \/ ForgetKey(g) \/ DeleteToken(g) \/ ForgetToken(g)
      PROVE  IInv'
  <2>1. \A e \in Devices : setupKeys'[e] \subseteq setupKeys[e]
                           /\ tokens'[e] \subseteq tokens[e]
    BY <1>0, <1>1 DEF DeleteKey, ForgetKey, DeleteToken, ForgetToken, TypeOK
  <2>2. peers' = peers /\ UNCHANGED lock /\ at \in {"keys", "tokens"}
    BY <1>1 DEF DeleteKey, ForgetKey, DeleteToken, ForgetToken, At
  <2>3. JobSteps' /\ RowsHold' /\ CleanupHolds'
    BY <1>0, <2>1, <2>2 DEF JobSteps, RowsHold, Open, Resetting, CleanupHolds, IInv
  <2>4. GrantsAreNew' /\ LabelsNeedNode'
    BY <1>0, <2>1, <2>2 DEF GrantsAreNew, LabelsNeedNode, IInv
  <2>5. IssuedIsRecorded'
    BY <1>0, <1>1 DEF DeleteKey, ForgetKey, DeleteToken, ForgetToken,
       IssuedIsRecorded, IInv, TypeOK
  <2>6. RevokedLeavesNoAccess'
    BY <1>0, <2>1, <2>2 DEF RevokedLeavesNoAccess, NoAccess, IInv, TypeOK
  <2>7. StorageChangeRequalifies' /\ EligibleRowsAreOpen'
    BY DEF StorageChangeRequalifies, EligibleRowsAreOpen, Resetting, IInv
  <2> QED
    BY <1>0, <2>3, <2>4, <2>5, <2>6, <2>7 DEF IInv
<1>2. CASE KeysRemoved \/ TokensRemoved \/ InspectPeers \/ DeletePeer
  <2>1. UNCHANGED <<grantTables, setupKeys, tokens>> /\ peers' \subseteq peers
    BY <1>2 DEF KeysRemoved, TokensRemoved, InspectPeers, DeletePeer
  <2>2. \/ /\ at = "keys" /\ job' = job /\ job.kind = "bootstrap"
           /\ at' = "mintKey" \/ at' = "mintToken"
        \/ at = "keys" /\ job' = job /\ job.kind = "expire" /\ at' = "tokens"
        \/ /\ at = "keys" /\ job' = job /\ job.kind \in {"revoke", "reset"}
           /\ at' = "peerGroup" /\ keyRows[job.dev] = {}
        \/ at = "tokens" /\ at' = "idle" /\ job'.kind = "idle"
        \/ /\ at = "tokens" /\ job' = job /\ tokenRows[job.dev] = {}
           /\ \/ job.kind = "revoke" /\ at' = "forget"
              \/ job.kind = "reset" /\ at' = "complete"
        \/ /\ at = "peerGroup" /\ job' = job
           /\ at' = "peer" \/ (at' = "node" /\ job.dev \notin peers')
        \/ at = "peer" /\ at' = "node" /\ job' = job /\ job.dev \notin peers'
    <3>1. CASE KeysRemoved
      BY <3>1 DEF KeysRemoved, At, Goto
    <3>2. CASE TokensRemoved
      BY <3>2, ReturnType DEF TokensRemoved, At, Goto
    <3>3. CASE InspectPeers
      BY <3>3 DEF InspectPeers, At, Goto
    <3>4. CASE DeletePeer
      BY <3>4 DEF DeletePeer, At, Goto
    <3> QED
      BY <1>2, <3>1, <3>2, <3>3, <3>4
  <2>3. JobSteps'
    BY <2>2 DEF JobSteps, Provisioning, Removing, IInv
  <2>4. RowsHold'
    BY <2>2 DEF RowsHold, Open, Resetting, IInv
  <2>5. GrantsAreNew'
    BY <2>1, <2>2 DEF GrantsAreNew, IInv
  <2>6. CleanupHolds'
    <3>1. keyRows[job.dev] = {} => issued[job.dev] \cap setupKeys[job.dev] = {}
      BY <1>0 DEF IssuedIsRecorded, IInv
    <3>2. tokenRows[job.dev] = {} => issued[job.dev] \cap tokens[job.dev] = {}
      BY <1>0 DEF IssuedIsRecorded, IInv
    <3> QED
      BY <2>1, <2>2, <3>1, <3>2 DEF CleanupHolds, Removing, IInv
  <2>7. LabelsNeedNode'
    BY <2>2 DEF LabelsNeedNode, IInv
  <2>8. IssuedIsRecorded' /\ RevokedLeavesNoAccess'
    BY <2>1 DEF IssuedIsRecorded, RevokedLeavesNoAccess, NoAccess, IInv
  <2>9. StorageChangeRequalifies' /\ EligibleRowsAreOpen'
    BY DEF StorageChangeRequalifies, EligibleRowsAreOpen, Resetting, IInv
  <2> QED
    BY <1>0, <2>3, <2>4, <2>5, <2>6, <2>7, <2>8, <2>9 DEF IInv
<1> QED
  BY <1>1, <1>2 DEF RemoveStep

LEMMA ClockInv ==
  ASSUME IInv, Clock
  PROVE  IInv'
<1> USE ClockFrame
<1>0. TypeOK /\ TypeOK'
  BY ClockType DEF IInv
<1>1. JobSteps' /\ RowsHold' /\ GrantsAreNew' /\ CleanupHolds' /\ LabelsNeedNode'
  BY DEF JobSteps, RowsHold, Open, Resetting, GrantsAreNew, CleanupHolds, LabelsNeedNode, IInv
<1>2. IssuedIsRecorded' /\ RevokedLeavesNoAccess' /\ EligibleRowsAreOpen'
  BY DEF IssuedIsRecorded, RevokedLeavesNoAccess, NoAccess, EligibleRowsAreOpen, Resetting, IInv
<1>3. StorageChangeRequalifies'
  <2>1. CASE NextSlot
    BY <2>1 DEF NextSlot, Older, StorageChangeRequalifies, IInv
  <2>2. CASE UNCHANGED samples
    BY <2>2 DEF StorageChangeRequalifies, IInv
  <2> QED
    BY <2>1, <2>2 DEF Clock, HeartbeatAges
<1> QED
  BY <1>0, <1>1, <1>2, <1>3 DEF IInv

LEMMA GuestInv ==
  ASSUME IInv, NEW d \in Devices, Guest(d)
  PROVE  IInv'
<1> USE GuestFrame
<1>0. TypeOK /\ TypeOK'
  BY GuestType DEF IInv
<1>1. JobSteps' /\ RowsHold'
  BY DEF JobSteps, RowsHold, Open, Resetting, IInv
<1>2. /\ \A e \in Devices : setupKeys'[e] \subseteq setupKeys[e]
      /\ peers' = peers \/ (peers' = peers \cup {d} /\ issued[d] \cap setupKeys[d] # {})
      /\ registered' = registered \/ (registered' = registered \cup {d} /\ d \in peers)
  BY <1>0 DEF Guest, RegisterNode, JoinNetwork, TypeOK
<1>3. GrantsAreNew' /\ LabelsNeedNode'
  BY <1>0, <1>2 DEF GrantsAreNew, LabelsNeedNode, IInv, TypeOK, JobType
<1>4. CleanupHolds'
  <2>1. job.dev \in Devices
    BY <1>0 DEF TypeOK, JobType
  <2> QED
    BY <1>2, <2>1 DEF CleanupHolds, Removing, IInv
<1>5. IssuedIsRecorded' /\ RevokedLeavesNoAccess'
  BY <1>0, <1>2 DEF IssuedIsRecorded, RevokedLeavesNoAccess, NoAccess, IInv, TypeOK
<1>6. StorageChangeRequalifies' /\ EligibleRowsAreOpen'
  BY DEF StorageChangeRequalifies, EligibleRowsAreOpen, Resetting, IInv
<1> QED
  BY <1>0, <1>1, <1>3, <1>4, <1>5, <1>6 DEF IInv

LEMMA AbortInv ==
  ASSUME IInv, Abort
  PROVE  IInv'
<1>0. TypeOK'
  BY AbortType DEF IInv
<1>1. at' = "idle" /\ job'.kind = "idle" /\ UNCHANGED <<tables, world>>
  BY ReturnType DEF Abort
<1>2. JobSteps' /\ RowsHold' /\ GrantsAreNew' /\ CleanupHolds' /\ LabelsNeedNode'
  BY <1>1 DEF JobSteps, RowsHold, GrantsAreNew, CleanupHolds, LabelsNeedNode,
     Provisioning, Removing, IInv
<1>3. /\ IssuedIsRecorded' /\ RevokedLeavesNoAccess'
      /\ StorageChangeRequalifies' /\ EligibleRowsAreOpen'
  BY <1>1 DEF IssuedIsRecorded, RevokedLeavesNoAccess, NoAccess, StorageChangeRequalifies,
     EligibleRowsAreOpen, Resetting, IInv
<1> QED
  BY <1>0, <1>2, <1>3 DEF IInv

-----------------------------------------------------------------------------
LEMMA InitInv == Init => IInv
<1> SUFFICES ASSUME Init PROVE IInv
  OBVIOUS
<1>1. TypeOK
  BY NoJobType, ControllerAssumption DEF Init, TypeOK, States, Generations, Steps
<1>2. job.kind = "idle" /\ at = "idle"
  BY DEF Init, NoJob, Job
<1>3. JobSteps /\ RowsHold /\ GrantsAreNew /\ CleanupHolds /\ LabelsNeedNode
  BY <1>2 DEF Init, JobSteps, RowsHold, GrantsAreNew, CleanupHolds, LabelsNeedNode,
     Provisioning, Removing
<1>4. IssuedIsRecorded /\ RevokedLeavesNoAccess /\ StorageChangeRequalifies /\ EligibleRowsAreOpen
  BY DEF Init, IssuedIsRecorded, RevokedLeavesNoAccess, StorageChangeRequalifies,
     EligibleRowsAreOpen
<1> QED
  BY <1>1, <1>3, <1>4 DEF IInv

LEMMA NextInv == IInv /\ [Next]_vars => IInv'
<1> SUFFICES ASSUME IInv, [Next]_vars PROVE IInv'
  OBVIOUS
<1>1. ASSUME NEW d \in Devices, Request(d) \/ Maintain(d) \/ Guest(d)
      PROVE  IInv'
  BY <1>1, RequestInv, MaintainInv, GuestInv
<1>2. CASE HandlerStep
  BY <1>2, BookInv, NodeInv, MintInv, RemoveInv DEF HandlerStep
<1>3. CASE Abort
  BY <1>3, AbortInv
<1>4. CASE Clock
  BY <1>4, ClockInv
<1>5. CASE UNCHANGED vars
  BY <1>5 DEF IInv, TypeOK, JobSteps, RowsHold, Open, Resetting, GrantsAreNew,
     CleanupHolds, LabelsNeedNode, IssuedIsRecorded, RevokedLeavesNoAccess, NoAccess,
     StorageChangeRequalifies, EligibleRowsAreOpen
<1> QED
  BY <1>1, <1>2, <1>3, <1>4, <1>5 DEF Next

(***************************************************************************)
(* The inductive invariant holds in every reachable state.                 *)
(***************************************************************************)
THEOREM Invariance == Spec => []IInv
<1>1. Init => IInv
  BY InitInv
<1>2. IInv /\ [Next]_vars => IInv'
  BY NextInv
<1> QED
  BY <1>1, <1>2, PTL DEF Spec

(***************************************************************************)
(* Tables, cluster objects and the handler in progress are always typed.   *)
(***************************************************************************)
THEOREM TypeCorrect == Spec => []TypeOK
<1>1. IInv => TypeOK
  BY DEF IInv
<1> QED
  BY <1>1, Invariance, PTL

(***************************************************************************)
(* No credential a guest can use ever escapes the tables, wherever the     *)
(* handlers that mint, record, delete and forget it are cut short.         *)
(***************************************************************************)
THEOREM GrantsRecorded == Spec => []IssuedIsRecorded
<1>1. IInv => IssuedIsRecorded
  BY DEF IInv
<1> QED
  BY <1>1, Invariance, PTL

(***************************************************************************)
(* A revocation whose cleanup is done leaves the guest no access, forever. *)
(***************************************************************************)
THEOREM RevocationIsFinal == Spec => []RevokedLeavesNoAccess
<1>1. IInv => RevokedLeavesNoAccess
  BY DEF IInv
<1> QED
  BY <1>1, Invariance, PTL

(***************************************************************************)
(* Evidence and labels never outlive the storage generation they are for,  *)
(* except labels whose drain is still owed.                                *)
(***************************************************************************)
THEOREM StorageRequalified == Spec => []StorageChangeRequalifies
<1>1. IInv => StorageChangeRequalifies
  BY DEF IInv
<1> QED
  BY <1>1, Invariance, PTL

(***************************************************************************)
(* The dashboard shows no closed device as eligible.                       *)
(***************************************************************************)
THEOREM EligibleOpen == Spec => []EligibleRowsAreOpen
<1>1. IInv => EligibleRowsAreOpen
  BY DEF IInv
<1> QED
  BY <1>1, Invariance, PTL

(***************************************************************************)
(* Only the last step of a reset completes it, and the steps before it     *)
(* have removed everything of the previous worker.                         *)
(***************************************************************************)
THEOREM ResetIsClean == Spec => CompletedResetIsClean
<1> DEFINE Clean == \A d \in Devices : \A r \in Requests :
       <<d, r>> \in complete' \ complete =>
         /\ NoAccess(d)' /\ samples'[d] = {} /\ eligible'[d] = {}
         /\ d \notin permitted'
<1>1. IInv /\ [Next]_vars => [Clean]_vars
  <2> SUFFICES ASSUME IInv, [Next]_vars PROVE Clean \/ UNCHANGED vars
    OBVIOUS
  <2>1. CASE CompleteReset
    <3>1. job.kind = "reset" /\ at = "complete" /\ job.dev \in Devices
      BY <2>1 DEF CompleteReset, At, JobSteps, IInv, TypeOK, JobType
    <3>2. NoAccess(job.dev)
      BY <3>1 DEF CleanupHolds, NoAccess, IInv
    <3>3. samples'[job.dev] = {} /\ eligible'[job.dev] = {} /\ job.dev \notin permitted'
      BY <2>1, <3>1 DEF CompleteReset, IInv, TypeOK
    <3>4. \A d \in Devices : d = job.dev => NoAccess(d)'
      BY <2>1, <3>2 DEF CompleteReset, NoAccess
    <3>5. \A d \in Devices : \A r \in Requests : <<d, r>> \in complete' \ complete => d = job.dev
      BY <2>1 DEF CompleteReset
    <3> QED
      BY <3>3, <3>4, <3>5
  <2>2. CASE ~CompleteReset /\ HandlerStep
    <3>1. complete' = complete
      BY <2>2, NodeFrame, MintFrame, RemoveFrame
         DEF HandlerStep, BookStep, ClearDrainPending, ForgetRevocation, Publish
    <3> QED
      BY <3>1
  <2>3. ASSUME NEW d \in Devices, Request(d)
        PROVE  complete' = complete
    BY <2>3 DEF Request, Heartbeat, Bootstrap, Maintenance, Drain, Resume, AdminPause,
       AdminResume, Revoke, RequestReset
  <2>4. ASSUME Next, ~HandlerStep
        PROVE  complete' = complete
    BY <2>3, <2>4, MaintainFrame, GuestFrame, ClockFrame DEF Next, Abort
  <2> QED
    BY <2>1, <2>2, <2>4
<1> QED
  BY <1>1, Invariance, PTL DEF Spec, CompletedResetIsClean

(***************************************************************************)
(* Labels are added only by reconciliation, for a row that is still open   *)
(* when the node is patched and for kinds its owner allows.                *)
(***************************************************************************)
THEOREM AdmissionConsented == Spec => AdmissionNeedsConsent
<1> DEFINE Consented == \A d \in Devices : labels'[d] \ labels[d] # {} =>
       /\ labels'[d] \subseteq allow[d]
       /\ d \in permitted /\ state[d] = "sharing"
       /\ d \notin revoked \cup remotePaused \cup drainPending
       /\ ~Resetting(d)
<1>1. IInv /\ [Next]_vars => [Consented]_vars
  <2> SUFFICES ASSUME IInv, [Next]_vars PROVE Consented \/ UNCHANGED vars
    OBVIOUS
  <2>0. TypeOK /\ job.dev \in Devices
    BY DEF IInv, TypeOK, JobType
  <2>1. CASE Place
    <3>1. job.kind = "reconcile"
      BY <2>1 DEF Place, At, JobSteps, IInv
    <3>2. job.labels # {} => Open(job.dev) /\ job.labels \subseteq allow[job.dev]
      BY <3>1 DEF RowsHold, IInv
    <3>3. \A d \in Devices : labels'[d] \ labels[d] # {} =>
            d = job.dev /\ labels'[d] = job.labels /\ job.labels # {}
      BY <2>0, <2>1 DEF Place, TypeOK
    <3> QED
      BY <3>2, <3>3 DEF Open
  <2>2. CASE NodeStep /\ ~Place
    <3>1. \A d \in Devices : labels'[d] \subseteq labels[d]
      BY <2>0, <2>2 DEF NodeStep, Cordon, NothingToCordon, Uncordon, DeleteNode, TypeOK
    <3> QED
      BY <3>1
  <2>3. ASSUME Next, ~NodeStep
        PROVE  labels' = labels
    BY <2>3, RequestFrame, MaintainFrame, BookFrame, MintFrame, RemoveFrame, GuestFrame,
       ClockFrame DEF Next, HandlerStep, Abort
  <2> QED
    BY <2>1, <2>2, <2>3
<1> QED
  BY <1>1, Invariance, PTL DEF Spec, AdmissionNeedsConsent

(***************************************************************************)
(* A cordon is lifted only by the device's resume or by reconciliation of  *)
(* a row that is still sharing when the node is patched.                   *)
(***************************************************************************)
THEOREM CordonHeld == Spec => CordonIsHeld
<1> DEFINE Held == \A d \in Devices : d \in cordoned /\ d \in registered' /\ d \notin cordoned' =>
       /\ job.dev = d
       /\ job.kind = "resume" \/ (d \in permitted \ remotePaused /\ state[d] = "sharing")
<1>1. IInv /\ [Next]_vars => [Held]_vars
  <2> SUFFICES ASSUME IInv, [Next]_vars PROVE Held \/ UNCHANGED vars
    OBVIOUS
  <2>1. CASE Place
    <3>1. job.accepting => Open(job.dev)
      BY <2>1 DEF Place, At, JobSteps, RowsHold, IInv
    <3> QED
      BY <2>1, <3>1 DEF Place, Open
  <2>2. CASE Uncordon
    BY <2>2 DEF Uncordon, At, JobSteps, IInv
  <2>3. CASE Cordon \/ NothingToCordon \/ DeleteNode
    BY <2>3 DEF Cordon, NothingToCordon, DeleteNode
  <2>4. ASSUME Next, ~NodeStep
        PROVE  cordoned' = cordoned
    BY <2>4, RequestFrame, MaintainFrame, BookFrame, MintFrame, RemoveFrame, GuestFrame,
       ClockFrame DEF Next, HandlerStep, Abort
  <2> QED
    BY <2>1, <2>2, <2>3, <2>4 DEF NodeStep
<1> QED
  BY <1>1, Invariance, PTL DEF Spec, CordonIsHeld
=============================================================================
