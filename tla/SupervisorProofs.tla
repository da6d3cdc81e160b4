-------------------------- MODULE SupervisorProofs --------------------------
(***************************************************************************)
(* Safety of Supervisor for every grace period, amount of work, owner and  *)
(* pattern of crashes: the invariant is inductive and implies it.          *)
(***************************************************************************)
EXTENDS SupervisorInvariant, TLAPS

USE DEF vars, store, machine, cluster, runtime, locals, ghosts, Tasks, UpdateTasks,
        SettingsType, OfferType, RuntimeType, TickType, CountsType

LEMMA Bounds == DrainSeconds \in Nat /\ MaxJobs \in Nat
  BY SupervisorAssumption

LEMMA InitInv == Init => IInv
<1> SUFFICES ASSUME Init PROVE IInv
  OBVIOUS
<1>1. SettingsType /\ OfferType
  BY DEF Init
<1>2. RuntimeType /\ TickType
  BY DEF Init
<1>3. CountsType
  BY Bounds DEF Init
<1>4. PauseHasDeadline /\ StartIsWithdrawable /\ StartsBeforeUpdate /\ UpdateIsPending
  BY DEF Init, PauseHasDeadline, StartIsWithdrawable, StartsBeforeUpdate, UpdateIsPending
<1>5. ShutIsClosed /\ UpdateIsClosed
  BY DEF Init, ShutIsClosed, UpdateIsClosed
<1> QED
  BY <1>1, <1>2, <1>3, <1>4, <1>5 DEF IInv, TypeOK

\* What an action may call on the way.
USE DEF OwnerMay, OwnerLeaves, BeginDrain, ClearDrain, KeepDrain, DeadlineExpired, Rules,
        LocalDrainRequired, Goto, End, Reset, Ticks

(***************************************************************************)
(* The supervisor's steps, in three parts.                                 *)
(***************************************************************************)
Deciding ==
  \/ TickUpdateReady \/ TickApply \/ TickBegin \/ Inventory
  \/ \E arrived, ok \in BOOLEAN : Heartbeat(arrived, ok)
Sharing ==
  \/ Bootstrap \/ StartMachine \/ Configure \/ ClearDrainIfPermitted \/ ResumeNode \/ Renew
  \/ StopMachine
  \/ \E arrived, ok \in BOOLEAN : DrainNode(arrived, ok) \/ Report(arrived, ok)
Updating ==
  \/ Maintenance(TRUE) \/ Maintenance(FALSE) \/ Inspect \/ StopForUpdate
  \/ Fail \/ Interrupt \/ ForceOff \/ FinishStop \/ Crash

\* The owner's requests.
LEMMA OwnerInv == IInv /\ (Owner) => IInv'
<1> SUFFICES ASSUME IInv, Owner PROVE IInv'
  OBVIOUS
<1> USE Bounds DEF Owner, Pause, Resume, StopNow, SavePolicy, BeginApplicationUpdate,
             CancelApplicationUpdate
<1>1. SettingsType'
  BY DEF IInv, TypeOK
<1>2. OfferType'
  BY DEF IInv, TypeOK
<1>3. RuntimeType'
  BY DEF IInv, TypeOK
<1>4. TickType'
  BY DEF IInv, TypeOK
<1>5. CountsType'
  BY DEF IInv, TypeOK
<1>6. PauseHasDeadline'
  BY DEF IInv, TypeOK, PauseHasDeadline, StartIsWithdrawable
<1>7. StartIsWithdrawable'
  BY DEF IInv, TypeOK, StartIsWithdrawable
<1>8. StartsBeforeUpdate'
  BY DEF IInv, TypeOK, StartsBeforeUpdate
<1>9. UpdateIsPending'
  BY DEF IInv, TypeOK, UpdateIsPending
<1>10. ShutIsClosed'
  BY DEF IInv, TypeOK, ShutIsClosed
<1>11. UpdateIsClosed'
  BY DEF IInv, TypeOK, UpdateIsClosed, UpdateIsPending
<1> QED
  BY <1>1, <1>2, <1>3, <1>4, <1>5, <1>6, <1>7, <1>8, <1>9, <1>10, <1>11 DEF IInv, TypeOK

\* The clock, the host and the cluster.
LEMMA WorldInv == IInv /\ (Time \/ World) => IInv'
<1> SUFFICES ASSUME IInv, Time \/ World PROVE IInv'
  OBVIOUS
<1> USE Bounds DEF Time, World, HostChanges, AdminControl, Reconcile, Assign, Land, JobEnds
<1>1. SettingsType'
  BY DEF IInv, TypeOK
<1>2. OfferType'
  BY DEF IInv, TypeOK
<1>3. RuntimeType'
  BY DEF IInv, TypeOK
<1>4. TickType'
  BY DEF IInv, TypeOK
<1>5. CountsType'
  BY DEF IInv, TypeOK
<1>6. PauseHasDeadline'
  BY DEF IInv, TypeOK, PauseHasDeadline, StartIsWithdrawable
<1>7. StartIsWithdrawable'
  BY DEF IInv, TypeOK, StartIsWithdrawable
<1>8. StartsBeforeUpdate'
  BY DEF IInv, TypeOK, StartsBeforeUpdate
<1>9. UpdateIsPending'
  BY DEF IInv, TypeOK, UpdateIsPending
<1>10. ShutIsClosed'
  BY DEF IInv, TypeOK, ShutIsClosed
<1>11. UpdateIsClosed'
  BY DEF IInv, TypeOK, UpdateIsClosed, UpdateIsPending
<1> QED
  BY <1>1, <1>2, <1>3, <1>4, <1>5, <1>6, <1>7, <1>8, <1>9, <1>10, <1>11 DEF IInv, TypeOK

\* From the beginning of a tick to its decision.
LEMMA DecidingInv == IInv /\ (Deciding) => IInv'
<1> SUFFICES ASSUME IInv, Deciding PROVE IInv'
  OBVIOUS
<1> USE Bounds DEF Deciding, TickUpdateReady, TickApply, TickBegin, Heartbeat, Beat,
             ForUpdate, Inventory, InventoryOf, Then, WorkerTransition
<1>1. SettingsType'
  BY DEF IInv, TypeOK
<1>2. OfferType'
  BY DEF IInv, TypeOK
<1>3. RuntimeType'
  BY DEF IInv, TypeOK
<1>4. TickType'
  BY DEF IInv, TypeOK
<1>5. CountsType'
  BY DEF IInv, TypeOK
<1>6. PauseHasDeadline'
  BY DEF IInv, TypeOK, PauseHasDeadline, StartIsWithdrawable
<1>7. StartIsWithdrawable'
  BY DEF IInv, TypeOK, StartIsWithdrawable
<1>8. StartsBeforeUpdate'
  BY DEF IInv, TypeOK, StartsBeforeUpdate
<1>9. UpdateIsPending'
  BY DEF IInv, TypeOK, UpdateIsPending
<1>10. ShutIsClosed'
  BY DEF IInv, TypeOK, ShutIsClosed
<1>11. UpdateIsClosed'
  BY DEF IInv, TypeOK, UpdateIsClosed, UpdateIsPending
<1> QED
  BY <1>1, <1>2, <1>3, <1>4, <1>5, <1>6, <1>7, <1>8, <1>9, <1>10, <1>11 DEF IInv, TypeOK

\* Starting, resuming and draining a worker, and the report that ends a tick.
LEMMA SharingInv == IInv /\ (Sharing) => IInv'
<1> SUFFICES ASSUME IInv, Sharing PROVE IInv'
  OBVIOUS
<1> USE Bounds DEF Sharing, Bootstrap, StartMachine, Configure, ClearDrainIfPermitted, AfterClear,
             ResumeNode, Renew, DrainNode, StopMachine, Report
<1>1. SettingsType'
  BY DEF IInv, TypeOK
<1>2. OfferType'
  BY DEF IInv, TypeOK
<1>3. RuntimeType'
  BY DEF IInv, TypeOK
<1>4. TickType'
  BY DEF IInv, TypeOK
<1>5. CountsType'
  BY DEF IInv, TypeOK
<1>6. PauseHasDeadline'
  BY DEF IInv, TypeOK, PauseHasDeadline, StartIsWithdrawable
<1>7. StartIsWithdrawable'
  BY DEF IInv, TypeOK, StartIsWithdrawable
<1>8. StartsBeforeUpdate'
  BY DEF IInv, TypeOK, StartsBeforeUpdate
<1>9. UpdateIsPending'
  BY DEF IInv, TypeOK, UpdateIsPending
<1>10. ShutIsClosed'
  BY DEF IInv, TypeOK, ShutIsClosed
<1>11. UpdateIsClosed'
  BY DEF IInv, TypeOK, UpdateIsClosed, UpdateIsPending
<1> QED
  BY <1>1, <1>2, <1>3, <1>4, <1>5, <1>6, <1>7, <1>8, <1>9, <1>10, <1>11 DEF IInv, TypeOK

\* The inspections for an update; failures and forced stops.
LEMMA UpdatingInv == IInv /\ (Updating) => IInv'
<1> SUFFICES ASSUME IInv, Updating PROVE IInv'
  OBVIOUS
<1> USE Bounds DEF Updating, Maintenance, Inspect, StopForUpdate, Fail, Interrupt, ForceOff, FinishStop,
             Crash
<1>1. SettingsType'
  BY DEF IInv, TypeOK
<1>2. OfferType'
  BY DEF IInv, TypeOK
<1>3. RuntimeType'
  BY DEF IInv, TypeOK
<1>4. TickType'
  BY DEF IInv, TypeOK
<1>5. CountsType'
  <2>1. CASE Maintenance(TRUE)
    BY <2>1 DEF IInv, TypeOK, UpdateIsPending
  <2>2. CASE Maintenance(FALSE)
    BY <2>2 DEF IInv, TypeOK, UpdateIsPending
  <2>3. CASE Inspect
    BY <2>3 DEF IInv, TypeOK, UpdateIsPending
  <2>4. CASE StopForUpdate
    BY <2>4 DEF IInv, TypeOK, UpdateIsPending
  <2>5. CASE Fail
    BY <2>5 DEF IInv, TypeOK, UpdateIsPending
  <2>6. CASE Interrupt
    BY <2>6 DEF IInv, TypeOK, UpdateIsPending
  <2>7. CASE ForceOff
    BY <2>7 DEF IInv, TypeOK, UpdateIsPending
  <2>8. CASE FinishStop
    BY <2>8 DEF IInv, TypeOK, UpdateIsPending
  <2>9. CASE Crash
    BY <2>9 DEF IInv, TypeOK, UpdateIsPending
  <2> QED
    BY <2>1, <2>2, <2>3, <2>4, <2>5, <2>6, <2>7, <2>8, <2>9
<1>6. PauseHasDeadline'
  BY DEF IInv, TypeOK, PauseHasDeadline, StartIsWithdrawable
<1>7. StartIsWithdrawable'
  BY DEF IInv, TypeOK, StartIsWithdrawable
<1>8. StartsBeforeUpdate'
  BY DEF IInv, TypeOK, StartsBeforeUpdate
<1>9. UpdateIsPending'
  BY DEF IInv, TypeOK, UpdateIsPending
<1>10. ShutIsClosed'
  <2>1. CASE Maintenance(TRUE)
    BY <2>1 DEF IInv, TypeOK, ShutIsClosed
  <2>2. CASE Maintenance(FALSE)
    BY <2>2 DEF IInv, TypeOK, ShutIsClosed
  <2>3. CASE Inspect
    BY <2>3 DEF IInv, TypeOK, ShutIsClosed
  <2>4. CASE StopForUpdate
    BY <2>4 DEF IInv, TypeOK, ShutIsClosed
  <2>5. CASE Fail
    BY <2>5 DEF IInv, TypeOK, ShutIsClosed
  <2>6. CASE Interrupt
    BY <2>6 DEF IInv, TypeOK, ShutIsClosed
  <2>7. CASE ForceOff
    BY <2>7 DEF IInv, TypeOK, ShutIsClosed
  <2>8. CASE FinishStop
    BY <2>8 DEF IInv, TypeOK, ShutIsClosed
  <2>9. CASE Crash
    BY <2>9 DEF IInv, TypeOK, ShutIsClosed
  <2> QED
    BY <2>1, <2>2, <2>3, <2>4, <2>5, <2>6, <2>7, <2>8, <2>9
<1>11. UpdateIsClosed'
  BY DEF IInv, TypeOK, UpdateIsClosed, UpdateIsPending
<1> QED
  BY <1>1, <1>2, <1>3, <1>4, <1>5, <1>6, <1>7, <1>8, <1>9, <1>10, <1>11 DEF IInv, TypeOK

LEMMA StutterInv == IInv /\ UNCHANGED vars => IInv'
  BY DEF IInv, TypeOK, PauseHasDeadline, StartIsWithdrawable, StartsBeforeUpdate,
         UpdateIsPending, ShutIsClosed, UpdateIsClosed

LEMMA NextInv == IInv /\ [Next]_vars => IInv'
<1>1. Supervise \/ Crash => Deciding \/ Sharing \/ Updating
  BY DEF Supervise, Deciding, Sharing, Updating
<1> QED
  BY <1>1, OwnerInv, WorldInv, DecidingInv, SharingInv, UpdatingInv, StutterInv DEF Next

(***************************************************************************)
(* The inductive invariant holds in every reachable state.                 *)
(***************************************************************************)
THEOREM Invariance == Spec => []IInv
<1>1. Init => IInv BY InitInv
<1>2. IInv /\ [Next]_vars => IInv' BY NextInv
<1> QED BY <1>1, <1>2, PTL DEF Spec

(***************************************************************************)
(* Settings, runtime state and the tick are always typed and agree.        *)
(***************************************************************************)
THEOREM TypeCorrect == Spec => []TypeOK
<1>1. IInv => TypeOK BY DEF IInv
<1> QED BY <1>1, Invariance, PTL

(***************************************************************************)
(* A worker withdrawn by its owner always has an end of its drain on       *)
(* record, whatever was under way when it was withdrawn.                   *)
(***************************************************************************)
THEOREM PauseIsKept == Spec => []PauseHasDeadline
<1>1. IInv => PauseHasDeadline BY DEF IInv
<1> QED BY <1>1, Invariance, PTL

(***************************************************************************)
(* An ordinary stop cuts only work placed on the node during its own tick. *)
(***************************************************************************)
THEOREM StopIsSafe == Spec => WorkIsNotCut
<1>1. IInv /\ [Next]_vars
        => (task = "stop" /\ running /\ ~running' /\ jobs > 0 => ~(shut /\ settled))
  BY DEF IInv, ShutIsClosed, TypeOK
<1> QED BY <1>1, Invariance, PTL DEF Spec, WorkIsNotCut

(***************************************************************************)
(* A stop for an application update cuts no work that had arrived, or had  *)
(* not been assigned, when its second inspection's tick began.             *)
(***************************************************************************)
THEOREM UpdateIsSafe == Spec => UpdateLosesNothing
<1>1. IInv /\ [Next]_vars
        => (task = "updateStop" /\ running /\ ~running' /\ jobs > 0 => ~settled)
  BY DEF IInv, UpdateIsClosed, TypeOK
<1> QED BY <1>1, Invariance, PTL DEF Spec, UpdateLosesNothing

(***************************************************************************)
(* Nothing starts the machine under a pending update: only StartMachine    *)
(* could, and a start decided before the request holds the lock.           *)
(***************************************************************************)
THEOREM UpdateHoldsMachine == Spec => UpdateNeverStarts
<1>1. IInv /\ [Next]_vars => (updating /\ ~running => ~running' \/ ~updating')
  <2> SUFFICES ASSUME IInv, [Next]_vars, ~running, running' PROVE ~updating
    OBVIOUS
  <2>1. ~Owner /\ ~Time /\ ~World /\ vars' # vars
    BY DEF Owner, Pause, Resume, StopNow, SavePolicy, BeginApplicationUpdate,
           CancelApplicationUpdate, Time, World, HostChanges, AdminControl, Reconcile, Assign,
           Land, JobEnds
  <2>2. ~Deciding
    BY DEF Deciding, TickUpdateReady, TickApply, TickBegin, Heartbeat, Inventory,
           InventoryOf
  <2>3. ~Updating
    BY DEF Updating, Maintenance, Inspect, StopForUpdate, Fail, Interrupt, ForceOff, FinishStop,
           Crash
  <2>4. Sharing
    BY <2>1, <2>2, <2>3 DEF Next, Supervise, Deciding, Sharing, Updating
  <2>5. StartMachine
    BY <2>4 DEF Sharing, Bootstrap, Configure, ClearDrainIfPermitted, ResumeNode, Renew,
                StopMachine, DrainNode, Report
  <2> QED
    BY <2>5 DEF StartMachine, IInv, StartsBeforeUpdate
<1> QED BY <1>1, Invariance, PTL DEF Spec, UpdateNeverStarts
=============================================================================
