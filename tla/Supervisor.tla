----------------------------- MODULE Supervisor -----------------------------
(***************************************************************************)
(* The agent's supervisor for a prepared worker: it reports to the         *)
(* controller, starts the virtual machine when the owner's rules allow it, *)
(* drains and stops it when they do not, and stops it for an application   *)
(* update.  One tick is a sequence of awaits; `task` is the one it is in   *)
(* and the locals are what it computed before.  The owner's settings       *)
(* change under it between any two of them, from another process; a stop   *)
(* request, an expired drain deadline or a withdrawn start drops the tick  *)
(* and stops the machine at once.                                          *)
(*                                                                         *)
(* Around it: the host, whose power, idleness and schedule allow sharing   *)
(* or not, and the cluster, which assigns work to an open node.            *)
(***************************************************************************)
EXTENDS Naturals

CONSTANTS
  DrainSeconds,  \* policy.drain_seconds, in steps of the clock
  MaxJobs,       \* bound: work on the node or on its way to it
  OwnerActs,     \* bound: what the owner does
  Crashes        \* bound: whether the agent may be killed and restarted

ASSUME SupervisorAssumption ==
  /\ DrainSeconds \in Nat /\ MaxJobs \in Nat /\ Crashes \in BOOLEAN

VARIABLES
  enabled, stop, updating, change,  \* settings: policy.enabled, stop_requested,
                                    \* application_update_pending; policy.resources differ
                                    \* from allocated_resources, which a stop must precede
  draining, age,                    \* settings: draining_since is set; its age
  host,                             \* the rest of the owner's rules allow sharing
  running, jobs,                    \* the machine and the work on it
  fleetPaused, reported, open, inflight, \* cluster: remote pause, the worker is offered,
                                    \* the node takes work, work assigned but not bound
  remotePaused, idleSeen, ready, sharing,  \* runtime: lost by a crash
  task, was, on, allowed, heard, unbound,  \* the tick's await and locals
  shut, settled                     \* ghosts: in this tick the node took no new work;
                                    \* when it began none was on its way

store   == <<enabled, stop, updating, change, draining, age>>
machine == <<running, jobs>>
cluster == <<fleetPaused, reported, open, inflight>>
runtime == <<remotePaused, idleSeen, ready, sharing>>
locals  == <<was, on, allowed, heard, unbound>>
ghosts  == <<shut, settled>>
vars    == <<store, host, machine, cluster, runtime, task, locals, ghosts>>

Tasks == {"idle", "heartbeat", "inventory", "bootstrap", "starting", "configuring",
          "drain", "stop", "resume", "clear", "clearResumed", "renew", "report",
          "maintenance", "inspect", "updateStop", "stopping"}

Init ==
  /\ enabled \in BOOLEAN /\ host \in BOOLEAN
  /\ stop = FALSE /\ updating = FALSE /\ change = FALSE
  /\ draining = FALSE /\ age = 0
  /\ running = FALSE /\ jobs = 0
  /\ fleetPaused = FALSE /\ reported = FALSE /\ open = FALSE /\ inflight = 0
  /\ remotePaused = FALSE /\ idleSeen = FALSE /\ ready = FALSE /\ sharing = FALSE
  /\ task = "idle"
  /\ was = FALSE /\ on = FALSE /\ allowed = FALSE /\ heard = FALSE /\ unbound = FALSE
  /\ shut = FALSE /\ settled = FALSE

(***************************************************************************)
(* draining_since.get_or_insert_with(now): a drain keeps its first time.   *)
(***************************************************************************)
\* mutant: every tick that still drains restarts the owner's grace period
BeginDrainAgain ==
  /\ draining' = TRUE /\ age' = 0

BeginDrain ==
  /\ draining' = TRUE
  /\ age' = IF draining THEN age ELSE 0
ClearDrain == draining' = FALSE /\ age' = 0
KeepDrain  == UNCHANGED <<draining, age>>

DeadlineExpired == draining /\ age >= DrainSeconds

\* evaluate(policy, observation).allowed
Rules == enabled /\ host

LocalDrainRequired == ~Rules \/ change

(***************************************************************************)
(* worker_transition.  The age counts only when the drain is not new.      *)
(***************************************************************************)
WorkerTransition(permitted, isRunning, known, elapsed, empty) ==
  IF permitted THEN (IF isRunning THEN "keep" ELSE "start")
  ELSE IF ~isRunning THEN "keep"
  ELSE IF ~known THEN "drain"
  ELSE IF empty \/ elapsed >= DrainSeconds THEN "stop" ELSE "wait"

Reset == was' = FALSE /\ on' = FALSE /\ allowed' = FALSE /\ heard' = FALSE /\ unbound' = FALSE
End   == task' = "idle" /\ Reset
Goto(t) == task' = t /\ UNCHANGED locals

-----------------------------------------------------------------------------
(* The owner.                                                              *)

OwnerMay(act) == act \in OwnerActs
OwnerLeaves == UNCHANGED <<host, machine, cluster, task, locals, ghosts>>

Pause ==
  /\ OwnerMay("pause") /\ enabled
  /\ enabled' = FALSE /\ BeginDrain
  /\ OwnerLeaves /\ UNCHANGED <<stop, updating, change, runtime>>

Resume ==
  /\ OwnerMay("resume") /\ ~enabled
  /\ enabled' = TRUE /\ stop' = FALSE /\ ClearDrain
  /\ OwnerLeaves /\ UNCHANGED <<updating, change, runtime>>

StopNow ==
  /\ OwnerMay("stop") /\ ~stop
  /\ enabled' = FALSE /\ stop' = TRUE /\ KeepDrain
  /\ OwnerLeaves /\ UNCHANGED <<updating, change, runtime>>

\* A policy with other resources.
SavePolicy ==
  /\ OwnerMay("resize") /\ ~change
  /\ change' = TRUE /\ BeginDrain
  /\ OwnerLeaves /\ UNCHANGED <<enabled, stop, updating, runtime>>

\* mutant: the request does not wait for the tick's lock
BeginUpdateUnlocked ==
  /\ OwnerMay("update") /\ ~stop /\ ~updating
  /\ updating' = TRUE
  /\ ready' = FALSE /\ idleSeen' = FALSE /\ sharing' = FALSE
  /\ OwnerLeaves /\ KeepDrain /\ UNCHANGED <<enabled, stop, change, remotePaused>>

\* These two take the lock a tick holds.
BeginApplicationUpdate ==
  /\ OwnerMay("update") /\ task = "idle" /\ ~stop /\ ~updating
  /\ updating' = TRUE
  /\ ready' = FALSE /\ idleSeen' = FALSE /\ sharing' = FALSE
  /\ OwnerLeaves /\ KeepDrain /\ UNCHANGED <<enabled, stop, change, remotePaused>>

\* mutant: the observation outlives the update it was made for
CancelUpdateStale ==
  /\ OwnerMay("update") /\ task = "idle" /\ updating
  /\ updating' = FALSE /\ ready' = FALSE
  /\ OwnerLeaves /\ KeepDrain
  /\ UNCHANGED <<enabled, stop, change, remotePaused, idleSeen, sharing>>

CancelApplicationUpdate ==
  /\ OwnerMay("update") /\ task = "idle" /\ updating
  /\ updating' = FALSE
  /\ ready' = FALSE /\ idleSeen' = FALSE
  /\ OwnerLeaves /\ KeepDrain /\ UNCHANGED <<enabled, stop, change, remotePaused, sharing>>

Owner == \/ Pause \/ Resume \/ StopNow \/ SavePolicy
         \/ BeginApplicationUpdate \/ CancelApplicationUpdate

-----------------------------------------------------------------------------
(* The host's clock and conditions, the administrator and the cluster.     *)

Time ==
  /\ draining /\ age < DrainSeconds
  /\ age' = age + 1
  /\ UNCHANGED <<enabled, stop, updating, change, draining, host, machine, cluster,
                 runtime, task, locals, ghosts>>

HostChanges ==
  /\ host' = ~host
  /\ UNCHANGED <<store, machine, cluster, runtime, task, locals, ghosts>>

\* Pausing from the dashboard closes the node; resuming leaves that to reconciliation.
AdminControl ==
  /\ fleetPaused' = ~fleetPaused
  /\ open' = (open /\ fleetPaused)
  /\ UNCHANGED <<store, host, machine, reported, inflight, runtime, task, locals, ghosts>>

\* Reconciliation opens and closes the node by the last heartbeat.
Reconcile ==
  /\ open' = (reported /\ ~fleetPaused /\ running)
  /\ open' # open
  /\ shut' = (shut /\ ~open')
  /\ UNCHANGED <<store, host, machine, fleetPaused, reported, inflight, runtime, task,
                 locals, settled>>

\* The scheduler picks the node; binding the work to it follows.
Assign ==
  /\ open /\ running /\ jobs + inflight < MaxJobs
  /\ inflight' = inflight + 1
  /\ UNCHANGED <<store, host, machine, fleetPaused, reported, open, runtime, task, locals,
                 ghosts>>

Land ==
  /\ inflight > 0 /\ inflight' = inflight - 1
  /\ jobs' = IF running THEN jobs + 1 ELSE jobs
  /\ UNCHANGED <<store, host, running, fleetPaused, reported, open, runtime, task, locals,
                 ghosts>>

JobEnds ==
  /\ jobs > 0 /\ jobs' = jobs - 1
  /\ UNCHANGED <<store, host, running, cluster, runtime, task, locals, ghosts>>

World == HostChanges \/ AdminControl \/ Reconcile \/ Assign \/ Land \/ JobEnds

-----------------------------------------------------------------------------
(* A tick.  Ticks are ten seconds apart, or follow a change of settings.   *)

Ticks == task = "idle" /\ ~stop /\ ~DeadlineExpired

TickUpdateReady ==
  /\ Ticks /\ updating /\ ~running
  /\ ready' = TRUE /\ sharing' = FALSE
  /\ UNCHANGED <<store, host, machine, cluster, remotePaused, idleSeen, task, locals, ghosts>>

\* The stopped machine is resized.
TickApply ==
  /\ Ticks /\ ~updating /\ ~running /\ change
  /\ change' = FALSE /\ ready' = FALSE /\ sharing' = FALSE
  /\ UNCHANGED <<enabled, stop, updating, draining, age, host, machine, cluster, remotePaused,
                 idleSeen, task, locals, ghosts>>

\* Restrictions are recorded before a request can stall; the heartbeat is sent.
TickBegin ==
  /\ Ticks /\ (running \/ ~(updating \/ change))
  /\ ready' = FALSE /\ sharing' = (sharing /\ ~updating)
  /\ was' = draining /\ shut' = ~open /\ settled' = (inflight = 0)
  /\ \/ running /\ LocalDrainRequired /\ BeginDrain
     \/ running /\ ~LocalDrainRequired /\ KeepDrain
     \/ ~running /\ ClearDrain
  /\ on' = Rules /\ task' = "heartbeat"
  /\ UNCHANGED <<enabled, stop, updating, change, host, machine, cluster, remotePaused,
                 idleSeen, allowed, heard, unbound>>

(***************************************************************************)
(* A heartbeat: it may arrive and its answer get lost.                     *)
(***************************************************************************)
Beat(permitted, arrived, ok) ==
  /\ reported' = IF arrived THEN permitted /\ ~updating /\ sharing ELSE reported
  /\ remotePaused' = IF ok THEN fleetPaused ELSE remotePaused
  /\ heard' = ok

\* The decision is made from the settings read after the answer.
ForUpdate == updating /\ Rules /\ ~change /\ ~remotePaused'

Heartbeat(arrived, ok) ==
  /\ task = "heartbeat" /\ Beat(on, arrived, ok)
  /\ \/ /\ ForUpdate /\ ok /\ task' = "maintenance"
        /\ on' = enabled /\ allowed' = FALSE /\ sharing' = sharing /\ KeepDrain
     \/ /\ ForUpdate /\ ~ok /\ task' = "idle"
        /\ on' = FALSE /\ allowed' = FALSE /\ sharing' = FALSE /\ KeepDrain
     \/ /\ ~ForUpdate /\ task' = "inventory"
        /\ on' = enabled /\ allowed' = (Rules /\ ~change /\ ok /\ ~remotePaused')
        /\ sharing' = sharing
        /\ IF running /\ ~allowed' THEN BeginDrain ELSE KeepDrain
  /\ was' = (was /\ task' # "idle")
  /\ UNCHANGED <<enabled, stop, updating, change, host, machine, fleetPaused, open, inflight,
                 idleSeen, ready, unbound, ghosts>>

(***************************************************************************)
(* What the guest runs is empty, busy or, when it cannot be inspected,     *)
(* unknown; then worker_transition.                                        *)
(***************************************************************************)
Then(action) ==
  \/ action = "start" /\ task' = "bootstrap" /\ sharing' = FALSE
  \/ action \in {"drain", "wait"} /\ task' = "drain" /\ sharing' = FALSE
  \/ /\ action = "stop" /\ sharing' = sharing
     /\ task' = IF DeadlineExpired THEN "stopping" ELSE "stop"
  \/ /\ action = "keep" /\ running /\ sharing' = sharing
     /\ task' = IF draining THEN "resume" ELSE "renew"
  \/ action = "keep" /\ ~running /\ task' = "report" /\ sharing' = FALSE

InventoryOf(counts) ==
  /\ task = "inventory"
  /\ \E empty \in counts :
       Then(WorkerTransition(allowed, running, was /\ draining, age, empty))
  /\ stop' = (stop \/ task' = "stopping")
  /\ UNCHANGED <<enabled, updating, change, draining, age, host, machine, cluster,
                 remotePaused, idleSeen, ready, locals, ghosts>>

\* mutant: a guest that cannot be inspected counts as empty
InventoryOptimistic == InventoryOf({TRUE, jobs = 0})

Inventory == InventoryOf({FALSE, jobs = 0})

Bootstrap ==
  /\ task = "bootstrap" /\ Goto("starting")
  /\ UNCHANGED <<store, host, machine, cluster, runtime, ghosts>>

StartMachine ==
  /\ task = "starting" /\ running' = TRUE /\ Goto("configuring")
  /\ UNCHANGED <<store, host, jobs, cluster, runtime, ghosts>>

Configure ==
  /\ task = "configuring" /\ Goto("clear")
  /\ UNCHANGED <<store, host, machine, cluster, runtime, ghosts>>

AfterClear == Goto(IF task = "clear" THEN "report" ELSE "renew")

\* mutant: the drain is cleared whatever the owner did meanwhile
ClearDrainAlways ==
  /\ task \in {"clear", "clearResumed"} /\ ClearDrain /\ AfterClear
  /\ UNCHANGED <<enabled, stop, updating, change, host, machine, cluster, runtime, ghosts>>

ClearDrainIfPermitted ==
  /\ task \in {"clear", "clearResumed"} /\ AfterClear
  /\ IF stop \/ LocalDrainRequired THEN KeepDrain ELSE ClearDrain
  /\ UNCHANGED <<enabled, stop, updating, change, host, machine, cluster, runtime, ghosts>>

\* Resuming drops the labels that attract work; reconciliation restores them.
ResumeNode ==
  /\ task = "resume" /\ Goto("clearResumed")
  /\ open' = FALSE
  /\ UNCHANGED <<store, host, machine, fleetPaused, reported, inflight, runtime, ghosts>>

Renew ==
  /\ task = "renew" /\ sharing' = TRUE /\ Goto("report")
  /\ UNCHANGED <<store, host, machine, cluster, remotePaused, idleSeen, ready, ghosts>>

DrainNode(arrived, ok) ==
  /\ task = "drain"
  /\ open' = (open /\ ~arrived) /\ reported' = (reported /\ ~arrived)
  /\ IF ok THEN Goto("report") ELSE End
  /\ UNCHANGED <<store, host, machine, fleetPaused, inflight, runtime, ghosts>>

StopMachine ==
  /\ task = "stop"
  /\ running' = FALSE /\ jobs' = 0 /\ ClearDrain /\ Goto("report")
  /\ UNCHANGED <<enabled, stop, updating, change, host, cluster, runtime, ghosts>>

\* The tick's last heartbeat, unless its first one failed.
Report(arrived, ok) ==
  /\ task = "report" /\ End
  /\ IF heard
     THEN /\ reported' = IF arrived THEN on /\ host /\ ~updating /\ sharing ELSE reported
          /\ remotePaused' = IF ok THEN fleetPaused ELSE remotePaused
     ELSE UNCHANGED <<reported, remotePaused>>
  /\ sharing' = (sharing /\ heard /\ ok)
  /\ UNCHANGED <<store, host, machine, fleetPaused, open, inflight, idleSeen, ready, ghosts>>

\* mutant: the node is left open, though not offered
MaintenanceLeavesOpen(ok) ==
  /\ task = "maintenance"
  /\ reported' = FALSE
  /\ IF ok THEN /\ task' = "inspect" /\ unbound' = (jobs = 0)
                /\ UNCHANGED <<was, on, allowed, heard>>
     ELSE End
  /\ UNCHANGED <<store, host, machine, fleetPaused, open, inflight, runtime, ghosts>>

Maintenance(ok) ==
  /\ task = "maintenance"
  /\ open' = FALSE /\ reported' = FALSE
  /\ IF ok THEN /\ task' = "inspect" /\ unbound' = (jobs = 0)
                /\ UNCHANGED <<was, on, allowed, heard>>
     ELSE End
  /\ UNCHANGED <<store, host, machine, fleetPaused, inflight, runtime, ghosts>>

\* mutant: one look at the guest is enough
InspectOnce ==
  /\ task = "inspect"
  /\ idleSeen' = (unbound /\ jobs = 0)
  /\ IF idleSeen' THEN Goto("updateStop") ELSE End
  /\ UNCHANGED <<store, host, machine, cluster, remotePaused, ready, sharing, ghosts>>

Inspect ==
  /\ task = "inspect"
  /\ idleSeen' = (unbound /\ jobs = 0)
  /\ IF idleSeen' /\ idleSeen THEN Goto("updateStop") ELSE End
  /\ UNCHANGED <<store, host, machine, cluster, remotePaused, ready, sharing, ghosts>>

StopForUpdate ==
  /\ task = "updateStop"
  /\ running' = FALSE /\ jobs' = 0 /\ ready' = TRUE /\ End
  /\ UNCHANGED <<store, host, cluster, remotePaused, idleSeen, sharing, ghosts>>

\* A request or a runtime command fails: the tick ends and the status is error.
Fail ==
  /\ task \in {"bootstrap", "starting", "configuring", "resume", "renew", "stop", "maintenance",
               "inspect", "updateStop", "stopping"}
  /\ End /\ sharing' = FALSE
  /\ UNCHANGED <<store, host, machine, cluster, remotePaused, idleSeen, ready, ghosts>>

-----------------------------------------------------------------------------
(* finish_immediate_stop: the request is written first and kept until the  *)
(* machine has stopped.                                                    *)

Interrupted ==
  \/ stop \/ DeadlineExpired
  \/ task \in {"bootstrap", "starting", "configuring"} /\ ~enabled

Interrupt ==
  /\ task # "stopping" /\ Interrupted
  /\ stop' = TRUE /\ task' = "stopping" /\ Reset
  /\ UNCHANGED <<enabled, updating, change, draining, age, host, machine, cluster, runtime,
                 ghosts>>

ForceOff ==
  /\ task = "stopping" /\ running
  /\ running' = FALSE /\ jobs' = 0
  /\ UNCHANGED <<store, host, cluster, runtime, task, locals, ghosts>>

FinishStop ==
  /\ task = "stopping" /\ ~running
  /\ stop' = FALSE /\ ClearDrain /\ sharing' = FALSE /\ End
  /\ UNCHANGED <<enabled, updating, change, host, machine, cluster, remotePaused, idleSeen,
                 ready, ghosts>>

Crash ==
  /\ Crashes /\ End
  /\ remotePaused' = FALSE /\ idleSeen' = FALSE /\ ready' = FALSE /\ sharing' = FALSE
  /\ UNCHANGED <<store, host, machine, cluster, ghosts>>

Supervise ==
  \/ TickUpdateReady \/ TickApply \/ TickBegin
  \/ \E arrived, ok \in BOOLEAN :   \* an answer means that the request arrived
       (ok => arrived) /\ (\/ Heartbeat(arrived, ok) \/ DrainNode(arrived, ok)
                          \/ Report(arrived, ok))
  \/ Inventory
  \/ Bootstrap \/ StartMachine \/ Configure \/ ClearDrainIfPermitted
  \/ ResumeNode \/ Renew \/ StopMachine
  \/ Maintenance(TRUE) \/ Maintenance(FALSE) \/ Inspect \/ StopForUpdate
  \/ Fail \/ Interrupt \/ ForceOff \/ FinishStop

Next == Owner \/ Time \/ World \/ Supervise \/ Crash

Spec == Init /\ [][Next]_vars

(***************************************************************************)
(* Time passes and the supervisor goes on: every await ends, if only by a  *)
(* timeout.  Nothing else is sure to happen, except that a forced stop     *)
(* tried again and again at last succeeds.                                 *)
(***************************************************************************)
Fairness ==
  /\ WF_vars(Time) /\ WF_vars(Supervise)
  /\ SF_vars(ForceOff) /\ SF_vars(FinishStop)

FairSpec == Spec /\ Fairness

(***************************************************************************)
(* Besides: jobs finish, assigned work arrives, a call or an inspection    *)
(* that is retried for ever succeeds now and then, and from some time on   *)
(* the agent does not crash and the owner leaves sharing as it is.  A tick *)
(* that ends by itself may look like a crash and is none: one that found   *)
(* the worker busy, for example, and waits for the next.                   *)
(***************************************************************************)
CutShort == Crash /\ ~Supervise

Reachable ==
  /\ WF_vars(JobEnds) /\ WF_vars(Land)
  /\ SF_vars(Heartbeat(TRUE, TRUE)) /\ SF_vars(Maintenance(TRUE))
  /\ SF_vars(Inspect) /\ SF_vars(StopForUpdate)
  /\ <>[][~CutShort /\ ~Pause /\ ~Resume /\ ~StopNow]_vars

-----------------------------------------------------------------------------
(* Properties.                                                             *)

(***************************************************************************)
(* The types, and what the settings and the runtime state say together: a  *)
(* drain that has not begun has no age, a machine that is off runs         *)
(* nothing, and what was seen for one update is not kept for another.      *)
(***************************************************************************)
SettingsType == {enabled, stop, updating, change, draining, host, running} \subseteq BOOLEAN
OfferType    == {fleetPaused, reported, open, remotePaused, sharing} \subseteq BOOLEAN
RuntimeType  == {idleSeen, ready, unbound, allowed, heard} \subseteq BOOLEAN
TickType     == task \in Tasks /\ {was, on, shut, settled} \subseteq BOOLEAN
CountsType   ==
  /\ age \in 0..DrainSeconds /\ jobs \in Nat /\ inflight \in Nat /\ jobs + inflight <= MaxJobs
  /\ ~draining => age = 0
  /\ ~running => jobs = 0
  /\ idleSeen => updating

TypeOK == SettingsType /\ OfferType /\ RuntimeType /\ TickType /\ CountsType

(***************************************************************************)
(* A worker that runs although its owner no longer shares it is on its way *)
(* to a stop that no failure can put off: a deadline is recorded, or a     *)
(* stop is requested, whatever the owner did while it was being started    *)
(* or resumed (clear_drain_if_permitted).                                  *)
(***************************************************************************)
PauseHasDeadline == running /\ ~enabled => draining \/ stop

(***************************************************************************)
(* A worker that is stopped as empty, and not by force, loses no job it    *)
(* had or was about to get when the tick began: only work the cluster      *)
(* placed during that very tick can be cut (the inventory read before      *)
(* vm.stop, agent.rs tick_inner).                                          *)
(***************************************************************************)
WorkIsNotCut ==
  [][task = "stop" /\ running /\ ~running' /\ jobs > 0 => ~(shut /\ settled)]_vars

(***************************************************************************)
(* An application update cuts no job at all, unless work the scheduler had *)
(* assigned two ticks ago had still not arrived when the second began:     *)
(* the node stays closed between the two inspections, whatever reports,    *)
(* reconciliation and the dashboard do.                                    *)
(***************************************************************************)
UpdateLosesNothing ==
  [][task = "updateStop" /\ running /\ ~running' /\ jobs > 0 => ~settled]_vars

(***************************************************************************)
(* Nothing starts the machine while an update waits for it to be off, not  *)
(* even a start under way when the update was requested (the operation     *)
(* lock, begin_application_update).                                        *)
(***************************************************************************)
UpdateNeverStarts == [][updating /\ ~running => ~running' \/ ~updating']_vars

(***************************************************************************)
(* A drain ends: the work finishes, the owner lifts the restriction or the *)
(* deadline stops the machine, even if every request to the controller     *)
(* fails, the guest cannot be inspected and the agent keeps crashing.      *)
(***************************************************************************)
DeadlineIsKept == running /\ draining ~> ~running \/ ~draining

(***************************************************************************)
(* An update that is requested finds the worker stopped in the end, or is  *)
(* cancelled, while owner rules, the dashboard and the cluster change: as  *)
(* long as jobs end and what is retried succeeds at times.                 *)
(***************************************************************************)
UpdatesFinish == Reachable => (updating ~> ready \/ ~updating)

(***************************************************************************)
(* "Automatic updates never evict jobs or force a drain deadline": a tick  *)
(* that found the rules to permit sharing and waits for the update is not  *)
(* dropped for a deadline.                                                 *)
(***************************************************************************)
UpdatesNeverForce ==
  [][task' = "stopping" /\ task \in {"maintenance", "inspect", "updateStop"}
       => stop \/ LocalDrainRequired]_vars
=============================================================================
