# A formal model of NodeHarbor

NodeHarbor lets people lend the idle capacity of their computers and phones to a
private Kubernetes cluster. A *controller* enrols devices, gives their workers
access to the network (NetBird) and the cluster (K3s), and decides which of them
take work. An *agent* on each device runs the worker in a virtual machine, shares
it by the owner's rules, and drains and stops it when the rules, the owner or the
administrator say so.

This directory holds TLA+ modules translated from that code, the TLC
configurations that check them on small instances, and theorems about them that
TLAPS proves for every value of the constants. `PROJECT.json` lists the
components, the runs, the source lines each definition stands for, a mutation of
the code that each property detects, the hazards and the theorems. Paths below
are relative to `crates/` of the repository unless they say otherwise.

To repeat the work, in this directory: `tlc -config Remote.cfg MCRemote` and so on
for each run of the table below, and `tlapm ControllerProofs.tla` and so on for the eight
modules named `*Proofs`.

## The system

| part | state it keeps | what changes it |
|---|---|---|
| controller API (`controller/src/lib.rs`) | SQLite: devices, policy, storage generation, pending drains, revocations, audit, sessions | heartbeat, bootstrap, maintenance, drain, resume, reset, the administrator's pause, resume, revoke, configuration requests; periodic retries |
| provisioner (`provision.rs`, `network.rs`) | NetBird setup keys, peers; Kubernetes nodes, bootstrap tokens; their rows | steps of the handlers above, each one call to another service |
| reconciler (`reconcile.rs`), runtime (`runtime.rs`) | labels and eligibility of every node | a pass every 30 seconds |
| health (`health.rs`) | samples per 30-second slot | reconciliation, storage changes |
| reset (`reset.rs`) | pending and complete worker resets | `/device/reset`, the retry loop |
| remote configuration (`controller/src/configuration.rs`, `agent/src/remote.rs`, `core/src/configuration.rs`) | requests, reports; the agent's consent, revision, receipts, pending edit | administrator, heartbeats, owner, the agent's supervisor |
| agent supervisor (`agent/src/agent.rs`) | runtime state in memory, settings in a file, the machine | ticks ten seconds apart, owner requests, application updates |
| sharing rules (`core/src/lib.rs`) | none | evaluated in every tick |
| settings store (`agent/src/store.rs`) | `config.json`, replaced atomically under a file lock | every owner command and supervisor step |
| storage maintenance (`agent/src/agent/storage_lifecycle.rs`), growth (`storage_operations.rs`), relocation (`storage_layout.rs`) | a journal in the settings; disks, backups | supervisor ticks |
| guest scripts (`guest/` of the repository) | LVM pool and its journal, lease of the watchdog | commands of the agent, a timer |
| desktop application (`desktop/`) | update in progress | owner, a timer |
| Android worker (`android/`, `guest/android_*.py`) | its own supervisor, storage journal, shutdown coordinator | Android's callbacks, owner |
| telemetry, UI, scripts, deployment | none that decides anything | - |

How they interact:

- The agent sends a heartbeat twice in a tick. It carries whether the owner allows
  sharing, the worker's state, the storage generation and the receipts of remote
  configuration; the answer carries the administrator's pause and one command.
- `/device/drain`, `/device/maintenance`, `/device/resume`, `/device/bootstrap` and
  `/device/reset` make the controller change the device's node. Every handler
  that does takes the mutex `State.operations`, and holds it over its awaits.
- Every heartbeat takes the same mutex, and a pass of reconciliation holds it over all
  devices. What a handler reads therefore holds until it ends; what can go wrong is
  what it leaves to the next one when it is cut short, and what it decides.
- In the agent a tick holds `Agent.operation`. Pause, Resume, Stop and the other
  commands do not: they write the settings between any two awaits of the tick,
  possibly from another process.
- The guest registers its node with what it was sent, whenever it likes.

What is hard, by kind: interleavings of handlers, reconciliation, owner and tick;
decisions of the agent made from settings read before an await; a handler or an
agent that ends between an effect and its record; lost answers and requests that
arrive late; retries that must end; drains whose deadline must be kept by an agent
that fails or dies; windows over slots of time and over midnight. The list with
lines is `hazards` in `PROJECT.json`.

## Modules

| module | models | in `PROJECT.json` |
|---|---|---|
| `Controller` | controller API, provisioner, reconciler, reset | component and lines |
| `ControllerInvariant` | its inductive invariant | |
| `ControllerProofs` | theorems | |
| `RemoteConfiguration` | both ends of remote configuration | |
| `RemoteInvariant`, `RemoteProofs` | invariants and theorems | |
| `Supervisor` | the agent's tick, its owner and the update | |
| `SupervisorInvariant`, `SupervisorProofs` | invariant and theorems | |
| `StorageMaintenance` | replacement, deletion and recovery of a worker's storage | |
| `StorageInvariant`, `StorageProofs` | invariant and theorems | |
| `WorkerDisks` | what a change of storage promises: the abstract specification | |
| `StorageGrowth` | growth and moves of disks and of the runtime directory | |
| `GrowthInvariant`, `GrowthProofs` | invariant and theorems, the refinement among them | |
| `RoomProofs` | the theorem about the room of volumes, and what sums it needs | |
| `Health` | `assess_health` and the samples | |
| `HealthProofs` | theorems | |
| `Schedule` | `in_window` | |
| `ScheduleProofs` | theorem | |
| `MC*` | instances for TLC | |

### Controller

`job` is the handler that holds the mutex, with its locals; `at` the next call it
makes. One step is one call to NetBird or Kubernetes, or one transaction. The
database's tables are the variables of the first block, named as in the schema.
`Abort` ends a handler before any step: the service refused, the answer was lost,
the process died, or the HTTP client went away and the future was dropped. What
is left is in the tables and in the other services, and that is what the
properties are about. `Guest` steps let a guest join and register with whatever it
has been sent. `Clock` ages the samples and the last heartbeat.

Abstractions: a pass of reconciliation releases the mutex between two devices, which adds
behaviours; the quarantine and contribution taints stand with the cordon;
evictions and pods are not represented; audit rows, names and versions are left
out; the NetBird group check is a step that may fail; keys of a device are removed
in any order; a heartbeat's consecutive updates are one transaction where no await
that fails lies between them; whether a worker is healthy enough for services is
a free choice, since `Health` covers it. Requests to Kubernetes take effect in the
step that sends them or not at all.

### RemoteConfiguration

`calls` are heartbeats under way or abandoned, `awaits` the one the agent waits
for. A message is a snapshot of consent, revision and receipts at the time it was
sent. The controller's exchange applies it in one transaction, in any order with
others. `task`, `claimed` and `target` are the supervisor's await and locals, lost
by `Crash`. `vm` is the machine's actual size and is `Mixed` after a resize
that stopped half-way (`ResizePart`). `Advance` is the part of `Store::update` that
notices a change of tracked settings and cancels the edit in hand.

Abstractions: an edit changes the size and the owner's switch, which stand for the
tracked settings; capacity checks fail by choice; the receipt of a command and its
rejection are one transaction as in the code; storage requests are left out; the
limit of 64 receipts is left out.

### Supervisor

`task` names the await of the tick in progress and `was`, `on`, `allowed`, `heard`,
`unbound` are its locals. `age` is the age of `draining_since` in steps of a clock,
`change` says that `policy.resources` differs from `allocated_resources`. `host`
is everything else `evaluate` looks at. `open` says that the node takes work,
`inflight` counts work assigned and not yet bound, `jobs` work that runs.
`Interrupt` is the branch of the `select!` in `tick_operation` that drops the
tick; `ForceOff` and `FinishStop` are `finish_immediate_stop`. `shut` and `settled` are
history: the node took no new work since this tick began, and none was on its way
then.

Abstractions: the worker is prepared and stays so; storage operations, recreation
and remote edits are not under way (the code excludes them from updates, and they
have their own modules); a machine that is running is reachable unless an
inspection fails; the cluster's reconciliation is the one line that matters here,
since `Controller` has the rest.

### StorageMaintenance

The journal is `kind`, `phase`, `paused`, `error`, `backup` (written and verified), `target`
and `previous`, as in `Maintenance`. A tick that finds a phase puts its steps into
`todo` (`Steps`) and takes them one by one; the last, `SavePhase` or `Finish`, writes the journal.
`Fail`, `Interrupt` and `Crash` end the tick before any step, so that the phase is run
again from its start: by the next tick, or after `RetryStorageMaintenance` when the error was
latched. `Partial` are the steps that stop half-way: a torn backup, a torn restore, a reset that
was done and not answered, a drain that still waits. `missing_storage_tick` is the
other kind of tick: `Halt`, `Miss`, and `InformLost` or `InformReturned`, whose decision uses
what the tick read at its beginning (`lost`, `seen`).

`data[g]` is what the pool of generation g holds and `copy` the backup file: a number of
writes, `Torn` or `Gone`. `images` are the disk images on all volumes, also those unplugged. `k3s`
says that the service is enabled, `active` that it runs; an enabled service comes up with
the machine, and while it runs `Work` may write. `access` says that the controller still
honours the worker's credentials. `written` (what must not be lost) and `gone` (time
since a tick last saw every disk) are history.

Abstractions: a worker is prepared already; the branch of Delete that moves the runtime to
another disk, capacity checks (they fail by choice) and the removal of backup files after
the end are left out; whether the drain's deadline has passed is a free choice; a backup
file that was verified stays readable or fails its check (`Fail`); a volume that is away
fails whatever needs it.

### StorageGrowth and WorkerDisks

`locations`, `generation`, `retained`, `system`, `home` and `source` are the settings
(`storage_locations`, `storage_generation`, `storage_retained`, the layout's disk and directory,
the source of `runtime_relocation`); `phase`, `target`, `nextSystem` and `paused` the
`storage_operation`. On the volumes are `images` (a managed disk by directory: the size its
receipt says, its real size, its data), `staged` (unfinished copies) and `boot` (the system image in
a runtime directory); `registry` are Lima's links, `attached` the disks in its configuration, `pool`
and `poolGeneration` the guest's. `task` and `at` say how far the tick has got: one step is one call of
the storage adapter or one save of the settings. `Fail` ends the tick before any step, and the next
tick runs the saved phase from its start against whatever is there; `StageTorn` and
`Configure(FALSE)` are the steps that stop half-way. A directory stands for its volume, which may
go away and come back. Data is the number of the last write to the pool. At the beginning the worker has
one disk and its volume has room for it, as the first allocation makes sure.

| phase | steps |
|---|---|
| pending | `TickPending`: drain and stop |
| disks | `TickDisks`; `Relabel` or `RecordSource`, `CopySystem`, `SwitchHome`; for each disk `LimaCreate`, `StageNew`, `Unregister`, `Link`, or `StageMove`, `CommitMove`, or `Resize`, `SaveReceipt`; `Configure` |
| guest | `TickGuest`, `ApplyPool` (external: the guest's script), `SaveVerified` |
| verified | `TickVerified`, `RemoveSource`, `ForgetSource`, `Complete` |
| none | `Serve`, `Write`, `EraseCopy`, `ForgetCopy` |

`WorkerDisks` knows where each disk and the system image are and how much was written to each:
they are made, moved and written to, and never emptied, replaced by something older or left
without a place. The mapping takes a disk's place from its link (`WhereIs`), the system image's
from the settings, and what it holds from the file there (`Holds`). `DisksKeepTheirData` says that
`StorageGrowth` implements it.

Abstractions: the worker exists and runs under Lima; the order in which disks are done is open;
removing a runtime directory is one step; every state in which the creation of a disk can be found
half-way is acceptable to its retry, since the creation marker makes it so in the code; a thread that
goes on copying after its tick was dropped holds the adapter's lock and is part of the step; an image
that was written to fills its size; a change that changes nothing is not entered.

### Health and Schedule

`Health` keeps the slots as the table does, merged by the SQL of `reconcile.rs`, beside
`seen`, the set of everything that was really observed in each slot; the properties
compare the decision on the table with a decision on what was seen. `Schedule` keeps
`left`, the minutes that remain of a window that opened, and compares `in_window`
with it.

## Runs

| run | module | shows | instance |
|---|---|---|---|
| `controller` | `MCController` | types; no evidence over a storage change; no eligible row that is closed; labels only with consent; cordons held; credentials on record; revocation and reset leave nothing, and finish; a pause closes the node | one device, one bootstrap, two storage generations, one reset, fairness |
| `remote` | `MCRemote` | overtaken edits are not applied; answers are true and final; a shared worker has the size its settings say | two requests, two sizes, two calls, every owner action, symmetric |
| `answered` | `MCRemote` | every request is answered | one request, two sizes, one call, fairness |
| `local_resize` | `MCRemote` | *violation*, see Findings | one interrupted local resize |
| `supervisor` | `MCSupervisor` | a withdrawn worker has a recorded end; stops and updates cut no work; nothing starts under an update | grace of two, one job, every owner action, crashes |
| `deadline` | `MCSupervisor` | a drain ends by its deadline though everything else fails for ever; an update gets its stopped worker | grace of one, pause and update, crashes, fairness |
| `update_forced` | `MCSupervisor` | *violation*, see Findings | |
| `storage` | `MCStorage` | no data lost in a change of size; settings name the pool; no image forgotten; access ends before its disk; nothing given up unasked | one machine with its own disk or one or two of two volumes, one maintenance, one write, every owner action, crashes, symmetric |
| `hasty_recovery` | `MCStorage` | *violation*, see Findings | two volumes, a wait of two |
| `growth` | `MCGrowth` | implements `WorkerDisks`; originals kept until the guest runs from the copies; settings, files, links and pool agree between changes; no file forgotten; promised room stays free; a change ends but for three named states | two disks, two directories with room for three, sizes up to two, two changes, two writes, pauses, withdrawals, volumes that go away, fairness |
| `schedule` | `MCSchedule` | `in_window` accepts the minutes of opened windows | every window over a day of five minutes |
| `health` | `MCHealth` | qualification is earned by what was observed | a day of five slots, three latencies |

Why the bounds are enough. Devices meet in the controller only in the mutex and in the
order of reconciliation, so that one device with all its handlers reaches the
cases; two generations are one change of storage. A heartbeat reports "sharing", the state that
can open a node; the other states of the row come from the handlers that write them, and the
owner's withdrawal from the report itself. One bootstrap is what a liveness run can
afford; that an old credential might outlive a new one takes two, and is a case of the theorems
about `Controller`, which hold for any number. Two remote requests are one that
overtakes another; two calls are a late and a current one; two sizes are a resize
and its reversal. A grace of two steps distinguishes a new, a current and an expired
drain, and one job suffices to be cut. One maintenance at a time is the code's own rule;
two volumes are one that stays and one that goes, or the old and the new one; one write
tells a pool that has everything from one that has not; volumes go away before the last new
generation only (`Unplug`), since what follows it is the same again. In `growth` the first change can make or move
or grow a disk and the second can do it to one that was moved before, also back to where its old copy
is; three units of room are less than two disks of full size beside a system image, so that changes are
refused and attempts run out of room; the second write happens between changes or while the guest
takes new disks. A day of five minutes has windows that lie
inside a day, span midnight and touch both ends. What the theorems cover holds
for every value anyway.

`CHECK_DEADLOCK` is on in all of them.

### Fairness

- `Controller`: the maintenance loop runs every 30 seconds for as long as the
  process lives and tokio's mutex is first come, first served, so that a retry
  that is due again and again gets the lock (strong fairness of `RetryRevocation`,
  `RetryReset` and the pass over a device); a handler that began goes on (weak
  fairness of `HandlerStep`); and from some time on handlers are not cut short:
  without that, a service that is down for ever would refute any retry. `CutShort` is an
  `Abort` that no step of the handler could have been: a pass over a paused device ends by publishing
  nothing over nothing, which must stay possible for as long as the pause lasts.
- `RemoteConfiguration`: the supervisor goes on, reaches its heartbeat and the edit in
  hand again and again, a call that was sent is answered, and a worker that has to stop
  is stopped (its drain has a deadline, which `Supervisor` shows). From some time on
  neither the network nor crashes nor the owner's Stop cut the work short (`CutShort`).
- `Supervisor`: `Fairness` is only that time passes, that the supervisor's awaits end,
  if by a timeout, and that a forced stop tried again and again succeeds. `DeadlineIsKept`
  needs no more. `UpdatesFinish` has `Reachable` as its premise: jobs end, assigned work arrives,
  what is retried for ever succeeds at times, and from some time on the agent neither crashes
  nor is paused or resumed. `CutShort` leaves out the ends of a tick that only look like a crash, so
  that an inspection may find the worker busy any number of times; that it does not do so for ever
  follows from the closed node.
- `StorageGrowth`: the supervisor ticks for as long as the process lives (weak fairness of `Step`, and
  of `Fail`, which is how a tick that cannot go on ends), volumes come back, and from some time on
  calls succeed when they can, volumes stay, and the owner neither pauses nor withdraws. Nothing
  obliges the owner to resume: `GrowthFinishes` counts a paused change as waiting.

## Proofs

`tlapm` checks every proof below; nothing is assumed but the named assumptions on
constants (`ControllerAssumption`, `SupervisorAssumption`, `ScheduleAssumption`,
`RemoteAssumption`, `StorageAssumption`, `GrowthAssumption`, `HealthAssumption`). Each safety property that a run checks
is a theorem for every value of the constants.
Every component's invariant was checked by TLC before it was proved.

**Controller** (`ControllerProofs`). The safety properties are not inductive: that a
revoked device has no access left when its row in `pending_revocations` goes says
nothing of the steps in between. `IInv` adds which handler passes through which step
(`JobSteps`), what a handler read before its first await and still relies on
(`RowsHold`: rows change only under the mutex), that a
bootstrap's credentials are new and unsent and recorded before they are sent
(`GrantsAreNew`), how far a cleanup has got (`CleanupHolds`: keys before peers before the node
before tokens, which is why a guest cannot come back behind it) and that labels need
a node. Each group of actions has a lemma with a step for every part. From the invariant
follow `TypeCorrect`, `GrantsRecorded`, `RevocationIsFinal`, `StorageRequalified`,
`EligibleOpen`, and, as properties of steps, `ResetIsClean`, `AdmissionConsented` and
`CordonHeld`.

**Supervisor** (`SupervisorProofs`). `PauseHasDeadline` needs `StartIsWithdrawable`: an owner
who withdraws while the machine is being started, when nothing runs yet, has left a
deadline or a stop request behind, and `clear_drain_if_permitted` looks again before it clears.
`UpdateNeverStarts` needs `StartsBeforeUpdate`, which is the operation lock.
`WorkIsNotCut` and `UpdateLosesNothing` need `ShutIsClosed` and `UpdateIsClosed`: while
the node is closed nothing can be assigned, so what was not on its way cannot arrive.
Theorems: `TypeCorrect`, `PauseIsKept`, `StopIsSafe`, `UpdateIsSafe`, `UpdateHoldsMachine`.

**Schedule** (`ScheduleProofs`). For every length of the day, the minutes left of an opened
window are a function of the clock; the invariant states that function.

**RemoteConfiguration** (`RemoteProofs`). The two ends never agree at once, so `IInv` says what a
message in flight may still claim: a final receipt in it is final at the device, and each revision has
one consent, whoever mentions it (`Snapshots`, `Consented`). `Passed` is the key: once the agent has
told anyone of a revision beyond a request's without having applied the request, it will not apply
it. From these follow `AnswersStayTrue` and `OvertakenIsDead`; `FinishedIsFinal` is about steps. The
machine has an invariant of its own (`Works`): whatever runs has the size on record,
since a remote edit marks the record before it touches the machine (`ClaimHolds`). The owner's own
resize does not, which is why `SharedWorkerIsVerified` assumes that none is interrupted
(`LocalFaults = 0`), and why the run `local_resize` refutes the property without that.

**StorageMaintenance** (`StorageProofs`). What a tick still has to do is a sequence, `todo`. All
reasoning about sequences is in the first lemmas: `Plans` says what each phase puts into it, and
`Where` in which phase and kind a step can stand at its head, so that the proof of a step sees sets only.
`IInv` says, for every phase and what of it is done (`Since`), to which generation the machine is
attached (`Placed`), when it is off or on (`Powered`), that nothing writes from the backup to its
restoration (`Quiet`), where the data is (`Kept`, `Bounded`), what of the images is recorded and made
(`Listed`, `Imaged`), and that the credentials are dead before disks go (`Barred`).
Theorems: `TypeCorrect`, `NothingIsLost`, `SettingsAreRight`, `EveryImageIsListed`,
`ResetComesFirst`, `RecoveryIsAgreed`.

**StorageGrowth** (`GrowthProofs`). `IInv` says what the next tick may rely on whatever the last one
left: the change is one the review admits (`Planned`), a relocation knows where it began
(`Relocating`, `SystemWhole`), disks are linked to their old or their new place (`Registered`), no copy
is newer than what is linked (`Newest`), and while disks are moved every original is there and as new
(`OriginalThere`), as is a copy about to be linked (`CopyIsOriginal`). `KeepsWorkerDisks` is the
refinement: initial states map to initial states of `WorkerDisks`, and every step to one of its steps
or to a stutter. `Attached` is a second, small invariant: which disks Lima's configuration lists in which
phase. `OriginalsAreKept`, `RecordsMatch` and `NoneForgotten` follow from the two.
These proofs do not need the capacity checks.

`RoomIsPromised` (`RoomProofs`) does. `RoomInv` adds to `IInv` that an unfinished copy is of a disk whose
move is still to be done (`Unfinished`), that the original of such a disk has its old size (`Ungrown`),
and `Roomy`: before a change every volume has the room it promised; while the disks are done, one that gets a disk
has what it will have promised when the change is complete (`AfterChange`), as the tick that is
working on it checked, and one that gets none had it before. The check counts real files and
credits, the promise sizes on record, and completion nothing but the settings; the proof
compares these sums. The library says nothing of sums that the provers can use, so the first half of
the module proves what is needed: a sum of natural numbers is the cardinality of a set (`SumIsUnits`),
by an induction over finite sets that needs no operator as its parameter (`SetInduction`, from the
well-foundedness of strict inclusion); from this follow `SumStep`, `SumMonotone`, `SumOfTwo` and
`SumOfPart`.

**Health** (`HealthProofs`). `SlotsSummarise` is the invariant: a slot of the table holds the worst of what was
ever observed in it, and nothing if nothing was, although rows are merged by an upsert that
compares with the row alone. `CiIsEarnedAlways` and `ServicesAreEarnedAlways` need arithmetic besides: the
k-th smallest of a set has exactly k members up to it, so that the element at the percentile's index is
within the limit exactly when enough of the window is (`PercentileIndex`, `PercentileShare`), with
the rounding of the code and for every percentage.

Only model-checked: what must happen in the end (fairness and ENABLED are outside the prover):
`RevocationFinishes`, `ResetFinishes`, `PauseCloses`, `RequestsAreAnswered`, `DeadlineIsKept`,
`UpdatesFinish`, `GrowthFinishes`.

## Findings

- `update_forced`: "Automatic updates never evict jobs or force a drain deadline" says the
  repository's README. A drain that began for a restriction since lifted keeps its deadline
  while the update waits, and the expired deadline then kills the running jobs.
- `local_resize`: the owner's own resize is recorded after the machine was changed. A crash in
  between, followed by the owner restoring the old size, leaves a worker sharing at a size
  its settings do not say; the remote path guards against the same case with
  `repair_required`.
- `hasty_recovery`: "Optional automatic recovery waits two minutes for a missing disk" says
  the repository's README. When a disk is back but its pool could not be validated, because the
  heartbeat failed or the owner had paused, `missing.since` stays; when the disk goes
  away again the old absence counts and the whole pool is rebuilt at once.

More were seen while the models were written and have no run of their own:

- After Pause or a change of resources the first tick stops an empty worker without telling the
  controller, though its node still takes work (`was_draining` is read from settings that the
  request itself wrote).
- The error text of a failed cluster operation says that the worker remains unavailable,
  also when the failed call was the one that would have closed the node.
- A device's resume removes the labels of a node while its row stays eligible until the next
  reconciliation.
- A change of storage can get stuck in three states, which `GrowthFinishes` names and excepts. `HalfGrown`:
  a disk that moved was grown and the tick died before its receipt; `inspect` then refuses it for its size
  and `stage_move` for its link. `Revisits`: a disk goes back to a directory where an older copy of it still
  waits for cleanup; the copy differs, and no cleanup runs during a change. `NoRoom`: an attempt is
  refused for the room that the attempt before it filled.
- The disks of a new worker are created before there is a machine. An owner who chooses other
  ones before that leaves the first behind, in no settings.

## Plan

Done, in this order: `Controller` with its proofs (what the fleet relies on),
`RemoteConfiguration`, `Supervisor` with its proofs, `Schedule` with its proof, `Health`,
`StorageMaintenance`; then `WorkerDisks` and `StorageGrowth` with the refinement and its proof, the
proofs about `RemoteConfiguration` and `StorageMaintenance`, and those about `Health` and about the room of volumes.

Next, in order of weight:

1. That a maintenance of storage can be retried to its end, on an instance smaller than that of the
   safety properties; the first allocation of a new worker, and remote storage requests, which drive
   both journals.
2. An abstract specification of what a device may do (nothing, what it was granted, nothing again
   once revoked), and the proof that `Controller` implements it.
3. Enrolment (one code, one device, a lost answer), the desktop's update flow on top
   of `Supervisor`'s update, the guest's watchdog lease against the agent's renewals.
4. The guest's pool journal (`guest/storage_pool.py`), and Android's shutdown coordinator and
   storage journal.

## Not modelled

Virtual machine drivers, process execution, host observation, the files inside the guest,
telemetry, user interfaces, manifests, build and release scripts: input and output whose
outcome the modules above take as a free choice, or code that decides nothing. The
components in `PROJECT.json` say so one by one.

Of the modelled components these parts are missing: the first allocation of a new worker's disks
and the automatic choice of disks; rules saved together with a change of storage; requests for storage
from the dashboard; the runtime directory that a replacement retires, and the growth of the system image
itself; enrolment, sessions and audit in the controller.

A credential that was created and not recorded, because the handler ended in between, is left to
its expiry by the code (ten minutes for a token, a day for a setup key) and by the model: `IssuedIsRecorded`
says only that no guest has it.

Four hazards were seen that nothing here covers: the resume of a device opens its node before the
dashboard's row says so (`controller/src/lib.rs:643`); a request to Kubernetes whose connection
was dropped may be applied after the lock was released (`provision.rs:524`); receipts are capped at 64, and
a request older than that could be taken for a new one (`core/src/configuration.rs:79`); and a drain that
is resumed by a failing call keeps its first time, so that the next pause inherits its age
(`agent/src/agent.rs:1100`).
