------------------------- MODULE StorageMaintenance -------------------------
(***************************************************************************)
(* Replacing, deleting and rebuilding a worker's storage                   *)
(* (agent/storage_lifecycle.rs).  A maintenance is a journal in the        *)
(* settings: each tick runs the saved phase from its start and then saves  *)
(* the next.  Disks come and go, calls fail, the owner pauses and stops,   *)
(* and the agent may die between any two steps.                            *)
(***************************************************************************)
EXTENDS Integers, Sequences, FiniteSets

CONSTANTS
  Providers,      \* subset of {"Lima", "Multipass"}
  Volumes,        \* host volumes that can hold a disk of the pool
  Wait,           \* 120 seconds, in steps of the clock
  MaxGeneration,  \* bound: storage generations; no volume goes away in the last
  MaxWork,        \* bound: what workloads write
  OwnerActs       \* bound: what the owner does

ASSUME StorageAssumption ==
  /\ Providers \subseteq {"Lima", "Multipass"}
  /\ Wait \in Nat \ {0} /\ MaxGeneration \in Nat \ {0} /\ MaxWork \in Nat

VARIABLES
  provider,                          \* vm_provider
  enabled, consent, stop,            \* settings: sharing, automatic recovery, stop_requested
  locations, generation, disabled,   \* settings: the pool's disks, storage_generation
  retired,                           \* settings: images still to be removed
  since, failed,                     \* settings: age of `missing` (None if there is none), its error
  kind, phase, paused, error,        \* journal
  backup, target, previous,          \* journal: the backup is verified; disks to be; images to go
  plugged, images,                   \* host: volumes, images on any volume
  installed, running, k3s, active, attached, \* machine; k3s is enabled, runs; the guest's pool
  data, copy,                        \* what each generation's pool and the backup file hold
  access,                            \* controller: the worker's credentials are good
  todo, lost, seen,                  \* the tick: steps to go; absent disks, settings it read
  written, gone                      \* ghosts: writes so far; time since a tick last saw all disks

settings == <<provider, enabled, consent, stop>>
pool     == <<locations, generation, disabled, retired>>
absence  == <<since, failed>>
journal  == <<kind, phase, paused, error, backup, target, previous>>
disks    == <<plugged, images>>
machine  == <<installed, running, k3s, active, attached>>
contents == <<data, copy>>
locals   == <<lost, seen>>
ghosts   == <<written, gone>>
vars == <<settings, pool, absence, journal, disks, machine, contents, access, todo, locals,
          ghosts>>

None == -1
Gone == -1  \* no such copy
Torn == -2  \* a copy in the making
Generations == 1..MaxGeneration
Images   == Volumes \X Generations
Kinds    == {"none", "resize", "delete", "recovery"}
Phases   == {"Drain", "Backup", "BackupVerified", "Reset", "Delete", "Create", "Restore",
             "Verify", "Bootstrap", "Capacity", "Cleanup"}
Copies   == {Gone, Torn} \cup 0..MaxWork

Lima   == provider = "Lima"
Whole  == ~Lima \/ kind # "resize"   \* whole_vm
Backed == kind = "resize"            \* backup_required

\* What a tick that finds disks missing has read: consented, shared, failed, waited long
\* enough; and whether no tick saw the disks back meanwhile.
Unread == [enabled |-> FALSE, consent |-> FALSE, failed |-> FALSE, old |-> FALSE, long |-> FALSE]

Init ==
  /\ provider \in Providers
  /\ locations \in IF provider = "Lima" THEN SUBSET Volumes \ {{}} ELSE {{}}
  /\ enabled \in BOOLEAN /\ consent \in BOOLEAN /\ stop = FALSE
  /\ generation = 1 /\ disabled = FALSE /\ retired = {}
  /\ since = None /\ failed = FALSE
  /\ kind = "none" /\ phase = "Drain" /\ paused = FALSE /\ error = FALSE
  /\ backup = FALSE /\ target = {} /\ previous = {}
  /\ plugged = Volumes /\ images = locations \X {1}
  /\ installed = TRUE /\ running = FALSE /\ k3s = TRUE /\ active = FALSE /\ attached = 1
  /\ data = [g \in Generations |-> IF g = 1 THEN 0 ELSE Gone] /\ copy = Gone
  /\ access = TRUE
  /\ todo = <<>> /\ lost = {} /\ seen = Unread
  /\ written = 0 /\ gone = 0

-----------------------------------------------------------------------------
(* The owner.  Reviewed changes wait for the tick to end; the rest does    *)
(* not.  A request that would change nothing is left out.                  *)

OwnerMay(act) == act \in OwnerActs

Absent(there) == locations \ there # {}

OwnerLeaves == UNCHANGED <<provider, pool, kind, phase, backup, target, previous, disks,
                           machine, contents, access, todo, locals, ghosts>>

\* new_maintenance.  The pool that comes out of it has not been away.
Begin(k, first, disksToBe, waits) ==
  /\ kind' = k /\ phase' = first /\ target' = disksToBe
  /\ previous' = (locations \X {generation})
                   \cup {i \in retired : k = "delete" \/ i[1] \in disksToBe}
  /\ paused' = waits /\ error' = FALSE /\ backup' = FALSE
  /\ gone' = 0

\* apply_storage_maintenance_settings
Review(k, disksToBe, waits) ==
  /\ OwnerMay(k)
  /\ todo = <<>> /\ kind = "none" /\ generation < MaxGeneration
  /\ Begin(k, "Drain", disksToBe, waits)
  /\ UNCHANGED <<provider, consent, stop, pool, absence, disks, machine, contents, access,
                 todo, locals, written>>

\* Reviewed against a worker that runs, and perhaps saved with new sharing rules.
ReviewResize(disksToBe, waits) ==
  /\ Review("resize", disksToBe, waits)
  /\ running /\ ~disabled
  /\ disksToBe \subseteq plugged /\ (disksToBe = {}) = ~Lima
  /\ enabled' \in BOOLEAN /\ (waits => ~enabled')

ReviewDelete ==
  /\ Review("delete", {}, FALSE)
  /\ installed \/ retired # {}
  /\ enabled' = FALSE

Pause ==
  /\ OwnerMay("pause") /\ (enabled \/ paused # (kind # "none"))
  /\ enabled' = FALSE /\ paused' = (kind # "none")
  /\ OwnerLeaves /\ UNCHANGED <<consent, stop, absence, error>>

Stop ==
  /\ OwnerMay("stop") /\ (enabled \/ ~stop \/ paused # (kind # "none"))
  /\ enabled' = FALSE /\ paused' = (kind # "none") /\ stop' = TRUE
  /\ OwnerLeaves /\ UNCHANGED <<consent, absence, error>>

\* "resume", or "prepare", which leaves the rules alone.
Resume(shares) ==
  /\ OwnerMay("resume") /\ (stop \/ paused \/ (shares /\ ~enabled))
  /\ ~disabled /\ (kind = "none" => ~Absent(plugged))
  /\ enabled' = (enabled \/ shares) /\ stop' = FALSE /\ paused' = FALSE
  /\ OwnerLeaves /\ UNCHANGED <<consent, absence, error>>

SetRecovery ==
  /\ OwnerMay("consent")
  /\ consent' = ~consent
  /\ OwnerLeaves /\ UNCHANGED <<enabled, stop, absence, paused, error>>

RetryStorageMaintenance ==
  /\ since # None \/ kind # "none"
  /\ failed \/ error \/ paused
  /\ failed' = FALSE /\ error' = FALSE /\ paused' = FALSE
  /\ OwnerLeaves /\ UNCHANGED <<enabled, consent, stop, since>>

Owner ==
  \/ \E disksToBe \in SUBSET Volumes, waits \in BOOLEAN : ReviewResize(disksToBe, waits)
  \/ \E shares \in BOOLEAN : Resume(shares)
  \/ ReviewDelete \/ Pause \/ Stop \/ SetRecovery \/ RetryStorageMaintenance

-----------------------------------------------------------------------------
(* The host: volumes, the clock, and the work in the guest.                *)

Unplug(v) ==
  /\ v \in plugged /\ Lima /\ generation < MaxGeneration
  /\ plugged' = plugged \ {v}
  /\ UNCHANGED <<settings, pool, absence, journal, images, machine, contents, access, todo,
                 locals, ghosts>>

Plug(v) ==
  /\ v \notin plugged
  /\ plugged' = plugged \cup {v}
  /\ UNCHANGED <<settings, pool, absence, journal, images, machine, contents, access, todo,
                 locals, ghosts>>

Later(age) == IF age < Wait THEN age + 1 ELSE age

Clock ==
  /\ since # None /\ kind = "none"
  /\ since' = Later(since)
  /\ gone' = Later(gone)
  /\ UNCHANGED <<settings, pool, failed, journal, disks, machine, contents, access, todo,
                 locals, written>>

\* The disks behind the guest's pool.
Behind == IF attached = generation THEN locations
          ELSE IF attached = generation + 1 THEN target ELSE {}

Work ==
  /\ active /\ attached # 0 /\ data[attached] \in Nat /\ written < MaxWork
  /\ Lima => Behind \subseteq plugged
  /\ data' = [data EXCEPT ![attached] = @ + 1] /\ written' = written + 1
  /\ UNCHANGED <<settings, pool, absence, journal, disks, machine, copy, access, todo, locals,
                 gone>>

-----------------------------------------------------------------------------
(* The tick.  `todo` is what is left of it.                                *)

Deciding(steps) == steps # <<>> /\ steps[Len(steps)] = "inform"
Sorting(steps)  == steps # <<>> /\ Head(steps) = "images"
Goto(steps) ==
  /\ todo' = steps
  /\ IF Deciding(steps) \/ Sorting(steps) THEN UNCHANGED locals ELSE lost' = {} /\ seen' = Unread
Done == Goto(Tail(todo))
End  == Goto(<<>>)
At(step) == todo # <<>> /\ Head(todo) = step

\* mutant: a worker that is off is still thought to work
OffButActive == running' = FALSE /\ UNCHANGED <<installed, k3s, active, attached>>

Off == running' = FALSE /\ active' = FALSE /\ UNCHANGED <<installed, k3s, attached>>

\* What maintenance_step does for the phase it finds, before it saves the next.
Steps ==
  CASE phase = "Drain"   -> IF Backed THEN <<"drain", "boot", "quiesce">> ELSE <<"drain", "halt">>
    [] phase = "Backup"  -> <<"boot", "quiesce", "backup", "compare">>
    [] phase = "BackupVerified" ->
         IF Whole THEN <<"check", "halt">> ELSE <<"check", "boot", "quiesce", "retire", "halt">>
    [] phase = "Reset"   -> <<"check", "reset">>
    [] phase = "Delete"  -> IF Lima THEN <<"check", "detach", "list", "images">>
                                    ELSE <<"check", "detach">>
    [] phase = "Create"  -> IF Lima THEN <<"check", "make", "boot", "quiesce", "apply">>
                                    ELSE <<"check", "boot">>
    [] phase = "Restore" -> <<"check", "boot", "restore">>
    [] phase = "Verify"  -> IF Backed THEN <<"boot", "check", "compare", "restored">>
                                      ELSE <<"boot", "restored">>
    [] phase = "Bootstrap" -> IF Lima THEN <<"boot", "bootstrap", "configure">>
                              ELSE <<"boot", "quiesce", "bootstrap", "configure">>
    [] phase = "Capacity"  -> <<"boot", "halt">>
    [] phase = "Cleanup"   -> <<"check">>

\* mutant: a worker that is not backed up keeps its access until its disks are gone
AfterDrainUnreset == IF Backed THEN "Backup" ELSE "Delete"

AfterDrain == IF Backed THEN "Backup" ELSE "Reset"

\* mutant: only a change of size makes a new worker
AfterDeleteNothing == IF Backed THEN "Create" ELSE "Cleanup"

AfterDelete == IF kind = "delete" THEN "Cleanup" ELSE "Create"

NextPhase ==
  CASE phase = "Drain"   -> AfterDrain
    [] phase = "Backup"  -> "BackupVerified"
    [] phase = "BackupVerified" -> IF Whole THEN "Reset" ELSE "Delete"
    [] phase = "Reset"   -> "Delete"
    [] phase = "Delete"  -> AfterDelete
    [] phase = "Create"  -> IF Backed THEN "Restore" ELSE "Verify"
    [] phase = "Restore" -> "Verify"
    [] phase = "Verify"  -> "Bootstrap"
    [] phase = "Bootstrap" -> "Capacity"
    [] OTHER             -> "Cleanup"

Resting == paused \/ error \/ (kind = "recovery" /\ ~(enabled /\ consent))

\* Maintenance goes before everything but Stop; absent disks before serving.
Begun ==
  IF stop THEN <<"stopping">>
  ELSE IF kind # "none" THEN IF Resting THEN <<"halt">> ELSE Steps \o <<"save">>
  ELSE IF ~disabled /\ Lima /\ (Absent(plugged) \/ since # None) THEN <<"halt", "miss", "inform">>
  ELSE <<>>

TickBegins ==
  /\ todo = <<>> /\ todo' = Begun /\ todo' # <<>>
  /\ IF Deciding(todo')
     THEN /\ lost' = locations \ plugged
          /\ seen' = [enabled |-> enabled, consent |-> consent, failed |-> failed,
                      old |-> since >= Wait, long |-> gone >= Wait]
          /\ gone' = IF Absent(plugged) THEN gone ELSE 0
     ELSE UNCHANGED <<locals, gone>>
  /\ UNCHANGED <<settings, pool, absence, journal, disks, machine, contents, access, written>>

\* The ordinary tick shares the worker and stops it again.
Serve ==
  /\ todo = <<>> /\ Begun = <<>> /\ ~disabled
  /\ IF enabled
     THEN running' = TRUE /\ active' = TRUE /\ k3s' = TRUE /\ access' = TRUE
          /\ UNCHANGED <<installed, attached>>
     ELSE Off /\ UNCHANGED access
  /\ UNCHANGED <<settings, pool, absence, journal, disks, contents, todo, locals, ghosts>>

\* The calls that change nothing here: the heartbeat, the checks, the ensures.
Pass(step) ==
  /\ At(step) /\ Done
  /\ UNCHANGED <<settings, pool, absence, journal, disks, machine, contents, access, ghosts>>

Checked ==
  /\ Pass("check")
  /\ phase \in {"Reset", "Delete", "Cleanup"} => ~running
  /\ Backed /\ phase # "Cleanup" => backup /\ copy \notin {Gone, Torn}
Compare  == Pass("compare") /\ copy = data[attached]
Restored == (Lima => attached = generation + 1) /\ Pass("restored")

\* Work that still runs sends the tick home until it ends or the deadline has passed.
Drain(empty) ==
  /\ At("drain") /\ IF empty THEN Done ELSE running /\ End
  /\ UNCHANGED <<settings, pool, absence, journal, disks, machine, contents, access, ghosts>>

\* vm.start, or vm.create when there is no machine; Multipass keeps the pool in it.
Boot ==
  /\ At("boot") /\ Done
  /\ Lima => Behind \subseteq plugged
  /\ installed' = TRUE /\ running' = TRUE
  /\ active' = (active \/ (installed /\ k3s))
  /\ IF installed \/ Lima THEN UNCHANGED data
     ELSE data' = [data EXCEPT ![generation + 1] = 0]
  /\ IF installed THEN UNCHANGED <<k3s, attached>>
     ELSE k3s' = FALSE /\ attached' = IF Lima THEN 0 ELSE generation + 1
  /\ UNCHANGED <<settings, pool, absence, journal, disks, copy, access, ghosts>>

\* mutant: the service is stopped but stays enabled
QuiesceOnce ==
  /\ At("quiesce") /\ Done
  /\ active' = FALSE
  /\ UNCHANGED <<settings, pool, absence, journal, disks, installed, running, k3s, attached,
                 contents, access, ghosts>>

\* systemctl disable --now k3s-agent
Quiesce ==
  /\ At("quiesce") /\ Done
  /\ k3s' = FALSE /\ active' = FALSE
  /\ UNCHANGED <<settings, pool, absence, journal, disks, installed, running, attached,
                 contents, access, ghosts>>

Halt ==
  /\ At("halt") /\ Done /\ Off
  /\ UNCHANGED <<settings, pool, absence, journal, disks, contents, access, ghosts>>

\* The stream is written over the recorded file; it may stop half-way.
WriteBackup(whole) ==
  /\ At("backup") /\ IF whole THEN Done ELSE UNCHANGED <<todo, locals>>
  /\ copy' = IF whole THEN data[attached] ELSE Torn
  /\ UNCHANGED <<settings, pool, absence, journal, disks, machine, data, access, ghosts>>

\* storage_pool.py retire: the guest forgets its pool.
Retire ==
  /\ At("retire") /\ Done
  /\ attached' = 0
  /\ UNCHANGED <<settings, pool, absence, journal, disks, installed, running, k3s, active,
                 contents, access, ghosts>>

\* The controller's reset, done although the answer may be lost.
ResetAccess(answered) ==
  /\ At("reset") /\ IF answered THEN Done ELSE UNCHANGED <<todo, locals>>
  /\ access' = FALSE
  /\ UNCHANGED <<settings, pool, absence, journal, disks, machine, contents, ghosts>>

\* vm.remove, or no disks attached any more.
Detach ==
  /\ At("detach") /\ Done
  /\ IF Whole
     THEN /\ installed' = FALSE /\ k3s' = FALSE /\ attached' = 0
          /\ IF Lima \/ attached = 0 THEN UNCHANGED data
             ELSE data' = [data EXCEPT ![attached] = Gone]
     ELSE UNCHANGED <<installed, k3s, attached, data>>
  /\ UNCHANGED <<settings, pool, absence, journal, disks, running, active, copy, access,
                 ghosts>>

\* mutant: only disks that are there are written down
ListThere ==
  /\ At("list") /\ todo' = Tail(todo) /\ lost' = Volumes \ plugged
  /\ retired' = retired \cup {i \in previous : i[1] \in plugged}
  /\ UNCHANGED <<settings, locations, generation, disabled, absence, journal, disks, machine,
                 contents, access, seen, ghosts>>

ListRetired ==
  /\ At("list") /\ todo' = Tail(todo) /\ lost' = Volumes \ plugged
  /\ retired' = retired \cup previous
  /\ UNCHANGED <<settings, locations, generation, disabled, absence, journal, disks, machine,
                 contents, access, seen, ghosts>>

EraseImage(i) ==
  /\ At("images") /\ i \in previous \cap retired \cap images /\ i[1] \in plugged \ lost
  /\ images' = images \ {i}
  /\ data' = [data EXCEPT ![i[2]] = Gone]
  /\ UNCHANGED <<settings, pool, absence, journal, plugged, machine, copy, access, todo,
                 locals, ghosts>>

ForgetImage(i) ==
  /\ At("images") /\ i \in (previous \cap retired) \ images /\ i[1] \in plugged \ lost
  /\ retired' = retired \ {i}
  /\ UNCHANGED <<settings, locations, generation, disabled, absence, journal, disks, machine,
                 contents, access, todo, locals, ghosts>>

\* Disks that are away are left for later, but never when they are being replaced.
ImagesGone ==
  /\ At("images") /\ Done
  /\ \A i \in previous \cap retired : i[1] \in lost /\ ~Backed
  /\ UNCHANGED <<settings, pool, absence, journal, disks, machine, contents, access, ghosts>>

MakeImages ==
  /\ At("make") /\ Done
  /\ IF running THEN UNCHANGED images
     ELSE /\ target \subseteq plugged
          /\ images' = images \cup (target \X {generation + 1})
  /\ UNCHANGED <<settings, pool, absence, journal, plugged, machine, contents, access, ghosts>>

\* storage_pool.py apply: the pool is made of the new disks, or found as it was made.
Apply ==
  /\ At("apply") /\ Done
  /\ attached' = generation + 1
  /\ data' = [data EXCEPT ![generation + 1] = IF @ = Gone THEN 0 ELSE @]
  /\ UNCHANGED <<settings, pool, absence, journal, disks, installed, running, k3s, active,
                 copy, access, ghosts>>

Restore(whole) ==
  /\ At("restore") /\ IF whole THEN Done ELSE UNCHANGED <<todo, locals>>
  /\ data' = [data EXCEPT ![attached] = IF whole THEN copy ELSE Torn]
  /\ UNCHANGED <<settings, pool, absence, journal, disks, machine, copy, access, ghosts>>

Bootstrap ==
  /\ At("bootstrap") /\ Done
  /\ access' = TRUE
  /\ UNCHANGED <<settings, pool, absence, journal, disks, machine, contents, ghosts>>

Configure ==
  /\ At("configure") /\ Done
  /\ k3s' = TRUE /\ active' = TRUE
  /\ UNCHANGED <<settings, pool, absence, journal, disks, installed, running, attached,
                 contents, access, ghosts>>

SavePhase ==
  /\ At("save") /\ phase # "Cleanup" /\ Done
  /\ phase' = NextPhase /\ backup' = (backup \/ phase = "Backup")
  /\ UNCHANGED <<settings, pool, absence, kind, paused, error, target, previous, disks,
                 machine, contents, access, ghosts>>

\* The settings take over the new pool; the backup leaves the journal to be removed.
Finish ==
  /\ At("save") /\ phase = "Cleanup" /\ Done
  /\ locations' = target /\ generation' = generation + 1
  /\ disabled' = (kind = "delete") /\ enabled' = (enabled /\ kind # "delete")
  /\ since' = None /\ failed' = FALSE
  /\ kind' = "none" /\ phase' = "Drain" /\ paused' = FALSE /\ error' = FALSE
  /\ backup' = FALSE /\ target' = {} /\ previous' = {} /\ copy' = Gone
  /\ gone' = 0
  /\ written' = IF Backed THEN written ELSE IF attached = 0 THEN 0 ELSE data[attached]
  /\ UNCHANGED <<provider, consent, stop, retired, disks, machine, data, access>>

-----------------------------------------------------------------------------
(* missing_storage_tick: the worker is off, the absence is on record and   *)
(* the controller has been told before anything is decided.                *)

Miss ==
  /\ At("miss") /\ todo' = Tail(todo)
  /\ since' = IF since = None THEN 0 ELSE since
  /\ seen' = [seen EXCEPT !.failed = IF lost = {} THEN @ ELSE failed]
  /\ UNCHANGED <<settings, pool, failed, journal, disks, machine, contents, access, lost,
                 ghosts>>

Returning == <<"boot", "quiesce", "activate", "bootstrap", "configure", "returned">>

\* The disks are back: their pool is checked before it is used again.
InformReturned ==
  /\ At("inform") /\ lost = {}
  /\ IF seen.enabled /\ ~seen.failed THEN Goto(Returning) ELSE End
  /\ UNCHANGED <<settings, pool, absence, journal, disks, machine, contents, access, ghosts>>

\* recovery_decision
Rebuild ==
  /\ seen.consent /\ seen.enabled /\ ~seen.failed
  /\ seen.old /\ locations \ lost # {} /\ generation < MaxGeneration

\* mutant: the settings are not looked at again when the rebuild is written down
InformUnasked ==
  /\ At("inform") /\ lost # {} /\ End
  /\ IF Rebuild THEN Begin("recovery", "Reset", locations \ lost, FALSE)
     ELSE UNCHANGED <<journal, gone>>
  /\ UNCHANGED <<settings, pool, absence, disks, machine, contents, access, written>>

InformLost ==
  /\ At("inform") /\ lost # {} /\ End
  /\ IF Rebuild /\ enabled /\ consent
     THEN Begin("recovery", "Reset", locations \ lost, FALSE)
     ELSE UNCHANGED <<journal, gone>>
  /\ UNCHANGED <<settings, pool, absence, disks, machine, contents, access, written>>

Activate ==
  /\ attached = generation /\ Behind \subseteq plugged
  /\ Pass("activate")

Returned ==
  /\ At("returned") /\ Done
  /\ since' = None /\ failed' = FALSE /\ gone' = 0
  /\ UNCHANGED <<settings, pool, journal, disks, machine, contents, access, written>>

-----------------------------------------------------------------------------
(* Failures, interruptions and crashes.                                    *)

ValidatingPool == kind = "none" /\ todo[Len(todo)] = "returned"

\* A failed step is latched until Retry, and the machine is stopped if it can be.
Fail ==
  /\ todo # <<>> /\ End
  /\ error' = (error \/ (kind # "none" /\ todo[Len(todo)] = "save"))
  /\ failed' = (failed \/ ValidatingPool)
  /\ \/ UNCHANGED machine
     \/ (error' \/ ValidatingPool) /\ Off
  /\ UNCHANGED <<settings, pool, since, kind, phase, paused, backup, target, previous, disks,
                 contents, access, ghosts>>

\* wait_for_owner_interruption
Interrupt ==
  /\ todo # <<>> /\ Head(todo) # "stopping"
  /\ stop \/ paused
  /\ stop' = TRUE /\ Goto(<<"stopping">>)
  /\ UNCHANGED <<provider, enabled, consent, pool, absence, journal, disks, machine, contents,
                 access, ghosts>>

\* finish_immediate_stop
Stopped ==
  /\ At("stopping") /\ Done /\ Off
  /\ stop' = FALSE
  /\ UNCHANGED <<provider, enabled, consent, pool, absence, journal, disks, contents, access,
                 ghosts>>

\* The agent dies, and the machine with it or not.
Crash ==
  /\ OwnerMay("crash")
  /\ todo # <<>> /\ End
  /\ Off \/ UNCHANGED machine
  /\ UNCHANGED <<settings, pool, absence, journal, disks, contents, access, ghosts>>

Step ==
  \/ Checked \/ Compare \/ Restored \/ Drain(TRUE)
  \/ Boot \/ Quiesce \/ Halt \/ WriteBackup(TRUE) \/ Retire \/ ResetAccess(TRUE) \/ Detach
  \/ ListRetired \/ ImagesGone \/ MakeImages \/ Apply \/ Restore(TRUE) \/ Bootstrap
  \/ Configure \/ SavePhase \/ Finish
  \/ Miss \/ InformReturned \/ InformLost \/ Activate \/ Returned \/ Stopped
  \/ \E i \in Images : EraseImage(i) \/ ForgetImage(i)

Partial == Drain(FALSE) \/ WriteBackup(FALSE) \/ Restore(FALSE) \/ ResetAccess(FALSE)

Host == (\E v \in Volumes : Plug(v) \/ Unplug(v)) \/ Clock \/ Work

Next == Owner \/ Host \/ TickBegins \/ Serve \/ Step \/ Partial \/ Fail \/ Interrupt \/ Crash

Spec == Init /\ [][Next]_vars

-----------------------------------------------------------------------------
(* Properties.                                                             *)

StepNames == {"drain", "boot", "quiesce", "backup", "compare", "check", "retire",
           "halt", "reset", "detach", "list", "images", "make", "apply", "restore", "restored",
           "bootstrap", "configure", "save", "miss", "inform", "activate",
           "returned", "stopping"}

(***************************************************************************)
(* The types, and what the journal and the machine say together: no        *)
(* maintenance, nothing to be done for one; a machine that is off or was   *)
(* removed does no work.                                                   *)
(***************************************************************************)
SettingsType ==
  /\ provider \in Providers
  /\ {enabled, consent, stop, disabled, failed} \subseteq BOOLEAN
  /\ locations \subseteq Volumes /\ generation \in Generations /\ retired \subseteq Images
  /\ since \in {None} \cup 0..Wait

JournalType ==
  /\ kind \in Kinds /\ phase \in Phases
  /\ {paused, error, backup} \subseteq BOOLEAN
  /\ target \subseteq Volumes /\ previous \subseteq Images
  /\ kind = "none" => ~paused /\ ~error /\ ~backup /\ target = {} /\ previous = {}
  /\ kind # "none" => generation < MaxGeneration

MachineType ==
  /\ plugged \subseteq Volumes /\ images \subseteq Images
  /\ {installed, running, k3s, active, access} \subseteq BOOLEAN
  /\ (active => running) /\ (running => installed)
  /\ attached \in {0} \cup Generations
  /\ data \in [Generations -> Copies] /\ copy \in Copies

TickType ==
  /\ todo \in Seq(StepNames) /\ lost \subseteq Volumes
  /\ gone \in 0..Wait /\ written \in 0..MaxWork

TypeOK == SettingsType /\ JournalType /\ MachineType /\ TickType

(***************************************************************************)
(* What workloads wrote is never lost to a change of size: at every step,  *)
(* through failures, crashes, pauses and retries, all of it is in the old  *)
(* pool, in a verified backup or in the new pool.                          *)
(***************************************************************************)
DataIsKept ==
  kind \in {"none", "resize"} /\ ~disabled =>
    \/ backup /\ copy = written
    \/ \E g \in Generations : g \in {generation, generation + 1} /\ data[g] = written

(***************************************************************************)
(* Between maintenances the settings name the pool the guest has: all its  *)
(* disks exist, and the guest is attached to that generation.              *)
(***************************************************************************)
SettingsNameThePool ==
  kind = "none" /\ ~disabled =>
    installed /\ attached = generation /\ locations \X (IF Lima THEN {generation} ELSE {}) \subseteq images

(***************************************************************************)
(* No image of a worker's disk is left on any volume, there or away, that  *)
(* the settings do not list, so that the owner can have it removed         *)
(* ("Unavailable retired images remain listed").                           *)
(***************************************************************************)
NothingForgotten ==
  images \subseteq (locations \X {generation}) \cup (target \X {generation + 1})
                     \cup retired \cup previous

(***************************************************************************)
(* "It resets controller access before deleting surviving images": a       *)
(* machine is removed, and disks outside a change of size are, only when   *)
(* the credentials they hold are dead.                                     *)
(***************************************************************************)
AccessEndsFirst ==
  [][(installed /\ ~installed') \/ (images \ images' # {} /\ kind # "resize") => ~access]_vars

(***************************************************************************)
(* A pool is given up only while its owner shares and consents, although   *)
(* the tick decides from settings it read before it stopped the machine    *)
(* and told the controller (missing_storage_tick).                         *)
(***************************************************************************)
RecoveryIsWanted == [][kind = "none" /\ kind' = "recovery" => enabled /\ consent]_vars

(***************************************************************************)
(* "Optional automatic recovery waits two minutes for a missing disk": a   *)
(* pool is given up only after a disk has been away that long.             *)
(***************************************************************************)
RecoveryWaits == [][kind = "none" /\ kind' = "recovery" => seen.long]_vars
=============================================================================
