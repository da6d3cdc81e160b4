--------------------------- MODULE StorageGrowth ---------------------------
(***************************************************************************)
(* Growing and moving the storage of an existing Lima worker.  The owner   *)
(* reviews where its data disks and its system image shall be and how      *)
(* large; the change is saved with the settings and done by the ticks of   *)
(* the supervisor, phase by phase: the worker is drained and stopped, its  *)
(* runtime directory is copied to the system disk's new directory, its     *)
(* disks are created, copied or grown, the guest takes them into its pool, *)
(* and what the change replaced is removed.                                *)
(*                                                                         *)
(* The settings, the files on the volumes, Lima's registry of disks (links *)
(* in the runtime directory) and the guest's pool outlive a tick; `task`   *)
(* and `at` say how far the running tick is.  A tick is dropped by a       *)
(* failed or timed out command, by its owner or with the process (`Fail`); *)
(* the next one begins the saved phase again and looks at what is there.   *)
(*                                                                         *)
(* A directory stands for its volume.  `data` is the number of the last    *)
(* write to the pool an image holds; images are sparse, and one that was   *)
(* written to fills its size.  Changes that shrink or remove a disk are    *)
(* replacements (StorageMaintenance).                                      *)
(***************************************************************************)
EXTENDS Naturals, FiniteSets, Functions

CONSTANTS
  Disks,          \* identities of data disks
  Dirs,           \* directories the owner can select, each on its volume
  First, Original, \* the disk and the directory the worker began with
  SystemGib,      \* size of the system image
  Capacity,       \* room of a volume beyond what is always kept free
  MaxGib,         \* bound: size of a data disk
  MaxGeneration,  \* bound: changes, by pool generation
  MaxWrites,      \* bound: writes to the pool
  OwnerActs,      \* bound: what the owner does
  None,           \* no directory
  Own,            \* registered in the runtime directory itself
  System          \* the system image, as one of the worker's disks

ASSUME GrowthAssumption ==
  /\ First \in Disks /\ Original \in Dirs /\ System \notin Disks
  /\ None \notin Dirs /\ Own \notin Dirs /\ None # Own
  /\ SystemGib \in Nat \ {0} /\ Capacity \in Nat /\ MaxGib \in Nat \ {0}
  /\ MaxGeneration \in Nat \ {0} /\ MaxWrites \in Nat \ {0}
  /\ IsFiniteSet(Disks)

VARIABLES
  locations, generation, retained,     \* settings: storage_locations of each disk,
                                       \* storage_generation, storage_retained
  system, home, source,                \* settings: storage_layout's disk and directory;
                                       \* the source of runtime_relocation
  phase, target, nextSystem, paused,   \* settings: storage_operation
  plugged,                             \* directories whose volume is there
  images, staged,                      \* managed disks by directory: receipt, size and
                                       \* data; unfinished copies
  registry,                            \* Lima: the directory each disk is linked to
  boot,                                \* the system image in the runtime directory there
  attached, running,                   \* Lima: disks in the worker's configuration; it runs
  pool, poolGeneration,                \* guest: size of each member disk; its generation
  task, at,                            \* the tick's step and disk
  written                              \* ghost: the last write to the pool

settings  == <<locations, generation, retained>>
layout    == <<system, home, source>>
operation == <<phase, target, nextSystem, paused>>
files     == <<images, staged>>
worker    == <<attached, running>>
guest     == <<pool, poolGeneration>>
tick      == <<task, at>>
vars == <<settings, layout, operation, plugged, files, registry, boot, worker, guest, tick,
          written>>

Place   == [dir : Dirs \cup {None}, gib : 0..MaxGib]
NoPlace == [dir |-> None, gib |-> 0]
Image   == [gib : 0..MaxGib, size : 0..MaxGib, data : 0..MaxWrites]
NoImage == [gib |-> 0, size |-> 0, data |-> 0]
Copy    == [disk : Disks, dir : Dirs, gib : 1..MaxGib]
Phases  == {"none", "pending", "disks", "guest", "verified"}
Tasks   == {"idle", "system", "copy", "switch", "disks", "staged", "moved", "resized",
            "guest", "applied", "verified", "forget", "complete"}

Members(places) == {d \in Disks : places[d].gib > 0}

\* The worker was prepared where there is room for it.
Init ==
  \E n \in 1..MaxGib :
    /\ SystemGib + n <= Capacity
    /\ locations = [d \in Disks |-> IF d = First THEN [dir |-> Original, gib |-> n] ELSE NoPlace]
    /\ generation = 1 /\ retained = {}
    /\ system = First /\ home = Original /\ source = None
    /\ phase = "none" /\ target = locations /\ nextSystem = First /\ paused = FALSE
    /\ plugged = Dirs
    /\ images = [v \in Dirs |-> [d \in Disks |->
                   IF v = Original /\ d = First THEN [gib |-> n, size |-> n, data |-> 1]
                   ELSE NoImage]]
    /\ staged = {}
    /\ registry = [d \in Disks |-> IF d = First THEN Original ELSE None]
    /\ boot = [v \in Dirs |-> IF v = Original THEN 1 ELSE 0]
    /\ attached = {First} /\ running = FALSE
    /\ pool = [d \in Disks |-> locations[d].gib] /\ poolGeneration = 1
    /\ task = "idle" /\ at = First
    /\ written = 1

-----------------------------------------------------------------------------
(***************************************************************************)
(* What LimaStorage accepts as the disk at a place: an image with the      *)
(* receipt for it on its volume; registered there; of the size it says.    *)
(***************************************************************************)
Backing(d, p) ==
  p.dir \in plugged /\ images[p.dir][d].gib = p.gib /\ images[p.dir][d].size > 0

Linked(d, p) == home \in plugged /\ registry[d] = p.dir /\ Backing(d, p)

Inspects(d, p) == Linked(d, p) /\ images[p.dir][d].size = p.gib

Moved(d) == locations[d].gib > 0 /\ target[d].dir # locations[d].dir

\* The moved disk before it is grown.
Arrived(d) == [target[d] EXCEPT !.gib = locations[d].gib]

NewHome == target[nextSystem].dir

\* The layout of the operation is the saved one.
Placed == system = nextSystem /\ home = NewHome

-----------------------------------------------------------------------------
(***************************************************************************)
(* Room.  What an image may still grow by is reserved; what it already     *)
(* takes is credited, if it is at its place and its receipt is the one     *)
(* expected there.                                                         *)
(***************************************************************************)
Blocks(i) == IF i.data > 0 THEN i.size ELSE 0
Less(a, b) == IF a > b THEN a - b ELSE 0
SystemAt(v) == IF boot[v] > 0 THEN SystemGib ELSE 0

\* mutant: only what the settings name is counted
UsedByDisks(v) ==
  SystemAt(v)
    + SumFunction([d \in Disks |-> IF locations[d].dir = v THEN Blocks(images[v][d]) ELSE 0])

Used(v) ==
  SystemAt(v) + SumFunction([d \in Disks |-> Blocks(images[v][d])])
    + SumFunction([d \in Disks |-> IF <<v, d>> \in staged THEN locations[d].gib ELSE 0])

Credit(d, p) ==
  IF images[p.dir][d].gib \in {p.gib} \cup {n \in {locations[d].gib} : p.dir = locations[d].dir}
  THEN Blocks(images[p.dir][d]) ELSE 0

\* reserve_boot_storage
SystemNeed(v, runtime) == IF v = runtime THEN SystemGib - SystemAt(v) ELSE 0

\* plan_disks: every disk can be filled, and the system image beside it.
Fits(places, runtime) ==
  \A v \in {places[d].dir : d \in Members(places)} :
    Used(v) + SystemNeed(v, runtime)
      + SumFunction([d \in {e \in Members(places) : places[e].dir = v} |->
                       Less(places[d].gib, Credit(d, places[d]))]) <= Capacity

ValidStorage(places) ==
  Fits(places, home) /\ \A d \in Members(places) : Linked(d, places[d])

ValidTargets ==
  Fits(target, NewHome) /\ \A d \in Members(target) : target[d].dir \in plugged

\* The review counts the system image with the data disk beside it, before and after.
ReviewNeed(d, p, onSystem) ==
  Less(p.gib + (IF onSystem THEN SystemGib ELSE 0),
       IF p.dir # locations[d].dir THEN 0
       ELSE Credit(d, locations[d]) + (IF d = system THEN SystemAt(home) ELSE 0))

ReviewFits(places, s) ==
  \A v \in {places[d].dir : d \in Members(places)} :
    Used(v) + SumFunction([d \in {e \in Members(places) : places[e].dir = v} |->
                             ReviewNeed(d, places[d], d = s)]) <= Capacity

-----------------------------------------------------------------------------
(* The owner.  Applying a review takes the lock a tick holds.              *)

OwnerMay(act) == act \in OwnerActs

(***************************************************************************)
(* Layout::resolve: the system image stays with its disk if that is still  *)
(* large enough in all, or goes to any disk that is.                       *)
(***************************************************************************)
MayBeSystem(s, places) ==
  \/ s = system
  \/ s \in Members(places) /\ places[system].gib <= SystemGib

\* No disk is removed or shrunk, and each has a directory of its own.
Growth(places) ==
  /\ \A d \in Disks : places[d].gib >= locations[d].gib
  /\ \A d, e \in Members(places) : d # e => places[d].dir # places[e].dir
  /\ \A d \in Disks : places[d].gib = 0 <=> places[d].dir = None

Reviews(places, s) ==
  /\ Growth(places) /\ MayBeSystem(s, places)
  /\ \A d \in Members(places) : places[d].dir \in plugged
  /\ ReviewFits(places, s)

Apply(places, s, held) ==
  /\ phase = "none" /\ task = "idle" /\ generation < MaxGeneration
  /\ Reviews(places, s) /\ (places # locations \/ s # system)
  /\ phase' = "pending" /\ target' = places /\ nextSystem' = s /\ paused' = held
  /\ UNCHANGED <<settings, layout, plugged, files, registry, boot, worker, guest, tick, written>>

OwnerLeaves ==
  UNCHANGED <<settings, layout, plugged, files, registry, boot, guest,
              written>>

Pause ==
  /\ OwnerMay("pause") /\ phase # "none" /\ ~paused /\ paused' = TRUE
  /\ OwnerLeaves /\ UNCHANGED <<phase, target, nextSystem, worker, tick>>

Resume ==
  /\ paused /\ paused' = FALSE
  /\ OwnerLeaves /\ UNCHANGED <<phase, target, nextSystem, worker, tick>>

(***************************************************************************)
(* A remote request that its owner overtakes or that fails: a change that  *)
(* has not begun is dropped, another one waits (pause_remote_storage).     *)
(***************************************************************************)
Withdraw ==
  /\ OwnerMay("withdraw")
  /\ \/ /\ phase = "pending"
        /\ phase' = "none" /\ target' = locations /\ nextSystem' = system /\ paused' = FALSE
     \/ /\ phase \notin {"none", "pending"} /\ ~paused /\ paused' = TRUE
        /\ UNCHANGED <<phase, target, nextSystem>>
  /\ OwnerLeaves /\ UNCHANGED <<worker, tick>>

\* wait_for_owner_interruption, finish_immediate_stop
Interrupt ==
  /\ task # "idle" /\ paused
  /\ task' = "idle" /\ running' = FALSE
  /\ OwnerLeaves /\ UNCHANGED <<operation, attached, at>>

-----------------------------------------------------------------------------
(* Volumes and the guest.                                                  *)

HostLeaves ==
  UNCHANGED <<settings, layout, operation, staged, registry, attached, guest, tick>>

Plug(v) ==
  /\ v \notin plugged /\ plugged' = plugged \cup {v}
  /\ HostLeaves /\ UNCHANGED <<images, boot, running, written>>

Unplug(v) ==
  /\ OwnerMay("unplug") /\ v \in plugged /\ plugged' = plugged \ {v}
  /\ HostLeaves /\ UNCHANGED <<images, boot, running, written>>

\* Work on the node writes to the pool and to the system image.
Write ==
  /\ running /\ written < MaxWrites /\ written' = written + 1
  /\ {home} \cup {registry[d] : d \in {e \in Disks : pool[e] > 0}} \subseteq plugged
  /\ images' = [v \in Dirs |-> [d \in Disks |->
       IF pool[d] > 0 /\ registry[d] = v THEN [images[v][d] EXCEPT !.data = written']
       ELSE images[v][d]]]
  /\ boot' = [boot EXCEPT ![home] = written']
  /\ HostLeaves /\ UNCHANGED <<plugged, running>>

\* The guest's watchdog, the supervisor or a pause stops the machine.
Stops ==
  /\ running /\ running' = FALSE
  /\ HostLeaves /\ UNCHANGED <<plugged, images, boot, written>>

\* Between changes the worker is started when its storage is valid.
Serve ==
  /\ phase = "none" /\ task = "idle" /\ ~running
  /\ home \in plugged /\ ValidStorage(locations)
  /\ running' = TRUE
  /\ HostLeaves /\ UNCHANGED <<plugged, images, boot, written>>

-----------------------------------------------------------------------------
(* The ticks of a change.                                                  *)

Ticks(p) == task = "idle" /\ phase = p /\ ~paused /\ home \in plugged

At(t) == task = t
Goto(t) == task' = t /\ UNCHANGED at
End == Goto("idle")

\* The worker is cordoned, drained and stopped.
TickPending ==
  /\ Ticks("pending")
  /\ IF Placed THEN ValidStorage(locations)
     ELSE \A d \in Members(locations) : Linked(d, locations[d])
  /\ running' = FALSE /\ phase' = "disks"
  /\ UNCHANGED <<settings, layout, target, nextSystem, paused, plugged, files, registry, boot,
                 attached, guest, tick, written>>

TickDisks ==
  /\ Ticks("disks") /\ ~running /\ ValidTargets
  /\ Goto(IF Placed THEN "disks" ELSE "system")
  /\ UNCHANGED <<settings, layout, operation, plugged, files, registry, boot, worker, guest,
                 written>>

-----------------------------------------------------------------------------
(* relocate_runtime                                                        *)

SystemLeaves ==
  UNCHANGED <<settings, operation, plugged, files, registry, worker, guest, written>>

\* Another disk takes over the directory the system image is in.
Relabel ==
  /\ At("system") /\ home = NewHome /\ End
  /\ system' = nextSystem
  /\ SystemLeaves /\ UNCHANGED <<home, source, boot>>

\* mutant: a relocation that began cannot be begun again
RecordSourceOnce ==
  /\ At("system") /\ home # NewHome /\ source = None /\ Goto("copy")
  /\ source' = home
  /\ SystemLeaves /\ UNCHANGED <<system, home, boot>>

RecordSource ==
  /\ At("system") /\ home # NewHome /\ source \in {None, home} /\ Goto("copy")
  /\ source' = home
  /\ SystemLeaves /\ UNCHANGED <<system, home, boot>>

\* copy_file: an image that is already there is compared, never overwritten.
SystemCopyIs == boot[NewHome] \in {0, boot[home]}

\* copy_runtime: the whole directory, with the links to the disks.
CopySystem ==
  /\ At("copy") /\ Goto("switch") /\ SystemCopyIs
  /\ {home, NewHome} \cup {locations[d].dir : d \in Members(locations)} \subseteq plugged
  /\ boot' = [boot EXCEPT ![NewHome] = boot[home]]
  /\ SystemLeaves /\ UNCHANGED layout

SwitchHome ==
  /\ At("switch") /\ ~paused /\ End
  /\ home' = NewHome /\ system' = nextSystem
  /\ SystemLeaves /\ UNCHANGED <<source, boot>>

-----------------------------------------------------------------------------
(***************************************************************************)
(* The disks, one after the other, each until it inspects as the target.   *)
(* A new disk is made by Lima in the runtime directory, copied to its      *)
(* place, and linked to it; its creation marker lets a retry go on from    *)
(* any of these.                                                           *)
(***************************************************************************)
DisksLeave == UNCHANGED <<settings, layout, operation, plugged, boot, worker, guest, written>>

Doing(d) ==
  At("disks") /\ home \in plugged /\ d \in Members(target) /\ ~Inspects(d, target[d])
New(d)   == locations[d].gib = 0

LimaCreate(d) ==
  /\ Doing(d) /\ New(d) /\ registry[d] = None /\ ~Backing(d, target[d])
  /\ target[d].dir \in plugged
  /\ registry' = [registry EXCEPT ![d] = Own]
  /\ DisksLeave /\ UNCHANGED <<files, tick>>

StageNew(d) ==
  /\ Doing(d) /\ New(d) /\ registry[d] = Own /\ target[d].dir \in plugged
  /\ images[target[d].dir][d] = NoImage
  /\ images' = [images EXCEPT ![target[d].dir][d] =
                  [gib |-> target[d].gib, size |-> target[d].gib, data |-> 0]]
  /\ DisksLeave /\ UNCHANGED <<staged, registry, tick>>

Unregister(d) ==
  /\ Doing(d) /\ New(d) /\ registry[d] = Own /\ Backing(d, target[d])
  /\ registry' = [registry EXCEPT ![d] = None]
  /\ DisksLeave /\ UNCHANGED <<files, tick>>

Link(d) ==
  /\ Doing(d) /\ New(d) /\ registry[d] = None /\ Backing(d, target[d])
  /\ registry' = [registry EXCEPT ![d] = target[d].dir]
  /\ DisksLeave /\ UNCHANGED <<files, tick>>

(***************************************************************************)
(* A disk that moves is copied beside the original and compared; a whole   *)
(* copy an earlier attempt made is compared again.  Then its link changes. *)
(***************************************************************************)
Stages(d) ==
  /\ Doing(d) /\ Moved(d) /\ ~Inspects(d, Arrived(d))
  /\ Linked(d, locations[d]) /\ target[d].dir \in plugged

CopyIs(d) == images[target[d].dir][d] \in {NoImage, images[locations[d].dir][d]}

\* mutant: a copy that is already there is taken for the disk
StageMoveUnverified(d) ==
  /\ Stages(d)
  /\ images' = [images EXCEPT ![target[d].dir][d] =
                  IF @.size > 0 THEN @ ELSE images[locations[d].dir][d]]
  /\ staged' = staged \ {<<target[d].dir, d>>}
  /\ task' = "staged" /\ at' = d
  /\ DisksLeave /\ UNCHANGED registry

StageMove(d) ==
  /\ Stages(d) /\ CopyIs(d)
  /\ images' = [images EXCEPT ![target[d].dir][d] = images[locations[d].dir][d]]
  /\ staged' = staged \ {<<target[d].dir, d>>}
  /\ task' = "staged" /\ at' = d
  /\ DisksLeave /\ UNCHANGED registry

\* The copy is not finished; the next attempt begins it again.
StageTorn(d) ==
  /\ Stages(d) /\ images[target[d].dir][d] = NoImage
  /\ staged' = staged \cup {<<target[d].dir, d>>} /\ End
  /\ DisksLeave /\ UNCHANGED <<images, registry>>

\* mutant: the original goes as soon as the copy is linked
CommitMoveForGood ==
  /\ At("staged") /\ home \in plugged /\ Backing(at, locations[at]) /\ Backing(at, Arrived(at))
  /\ registry' = [registry EXCEPT ![at] = target[at].dir]
  /\ images' = [images EXCEPT ![locations[at].dir][at] = NoImage]
  /\ Goto(IF target[at].gib = locations[at].gib THEN "disks" ELSE "moved")
  /\ DisksLeave /\ UNCHANGED staged

CommitMove ==
  /\ At("staged") /\ home \in plugged /\ Backing(at, locations[at]) /\ Backing(at, Arrived(at))
  /\ registry' = [registry EXCEPT ![at] = target[at].dir]
  /\ Goto(IF target[at].gib = locations[at].gib THEN "disks" ELSE "moved")
  /\ DisksLeave /\ UNCHANGED files

(***************************************************************************)
(* A disk grows where it is, or where it has arrived: its image, then its  *)
(* receipt.  An image that was grown before is accepted.                   *)
(***************************************************************************)
Grows(d) ==
  \/ At("moved") /\ d = at
  \/ Doing(d) /\ locations[d].gib > 0 /\ ~Moved(d)
  \/ Doing(d) /\ Moved(d) /\ Inspects(d, Arrived(d))

Resize(d) ==
  /\ Grows(d) /\ Linked(d, Arrived(d))
  /\ images[target[d].dir][d].size \in {locations[d].gib, target[d].gib}
  /\ images' = [images EXCEPT ![target[d].dir][d].size = target[d].gib]
  /\ task' = "resized" /\ at' = d
  /\ DisksLeave /\ UNCHANGED <<staged, registry>>

SaveReceipt ==
  /\ At("resized") /\ {home, target[at].dir} \subseteq plugged /\ Goto("disks")
  /\ images' = [images EXCEPT ![target[at].dir][at].gib = target[at].gib]
  /\ DisksLeave /\ UNCHANGED <<staged, registry>>

\* update_storage_configuration
Attach == attached' = Members(target)

\* set_storage_configuration; the phase is saved after it.
Configure(saved) ==
  /\ At("disks") /\ \A d \in Members(target) : Inspects(d, target[d])
  /\ Attach /\ End
  /\ phase' = IF saved THEN "guest" ELSE phase
  /\ UNCHANGED <<settings, layout, target, nextSystem, paused, plugged, files, registry, boot,
                 running, guest, written>>

-----------------------------------------------------------------------------
(* The guest takes the disks into its pool.                                *)

TickGuest ==
  /\ Ticks("guest") /\ ValidStorage(target)
  /\ \A d \in Members(target) : Inspects(d, target[d])
  /\ running' = TRUE /\ Goto("guest")
  /\ UNCHANGED <<settings, layout, operation, plugged, files, registry, boot, attached, guest,
                 written>>

\* storage_pool.py apply: members are added and grown, never dropped.
PoolTakes ==
  /\ \A d \in Disks : pool[d] > 0 => d \in attached
  /\ poolGeneration \in {generation, generation + 1}

ApplyPool ==
  /\ At("guest") /\ running /\ PoolTakes /\ Goto("applied")
  /\ pool' = [d \in Disks |-> IF d \in attached THEN target[d].gib ELSE 0]
  /\ poolGeneration' = generation + 1
  /\ UNCHANGED <<settings, layout, operation, plugged, files, registry, boot, worker, written>>

\* verify_pool_identity
PoolIsTarget ==
  poolGeneration = generation + 1 /\ \A d \in Disks : pool[d] = target[d].gib

\* The pool is checked, the node configured again, the machine stopped.
SaveVerified ==
  /\ At("applied") /\ running /\ PoolIsTarget /\ End
  /\ running' = FALSE /\ phase' = "verified"
  /\ UNCHANGED <<settings, layout, target, nextSystem, paused, plugged, files, registry, boot,
                 attached, guest, written>>

-----------------------------------------------------------------------------
(* Completion: the old runtime directory goes, the settings take over.     *)

VerifiedLeaves ==
  UNCHANGED <<plugged, files, registry, worker, guest, written>>

\* verify_boot_image
SystemVerified == boot[home] > 0

\* mutant: the old runtime directory stays
TickVerifiedAtOnce ==
  /\ Ticks("verified") /\ ~running /\ SystemVerified /\ Goto("complete")
  /\ VerifiedLeaves /\ UNCHANGED <<settings, layout, operation, boot>>

TickVerified ==
  /\ Ticks("verified") /\ ~running /\ SystemVerified
  /\ Goto(IF source = None THEN "complete" ELSE "verified")
  /\ VerifiedLeaves /\ UNCHANGED <<settings, layout, operation, boot>>

RemoveSource ==
  /\ At("verified") /\ {source, home} \subseteq plugged /\ SystemVerified /\ Goto("forget")
  /\ boot' = [boot EXCEPT ![source] = 0]
  /\ VerifiedLeaves /\ UNCHANGED <<settings, layout, operation>>

ForgetSource ==
  /\ At("forget") /\ Goto("complete")
  /\ source' = None
  /\ VerifiedLeaves /\ UNCHANGED <<settings, system, home, operation, boot>>

\* mutant: only of a disk that did not grow as well
LeftUngrown == {[disk |-> d, dir |-> locations[d].dir, gib |-> locations[d].gib] :
                  d \in {e \in Disks : Moved(e) /\ target[e].gib = locations[e].gib}}

\* mutant: of every disk that is new where it is
LeftAnywhere == {[disk |-> d, dir |-> locations[d].dir, gib |-> locations[d].gib] :
                   d \in {e \in Disks : target[e].dir # locations[e].dir}}

Left == {[disk |-> d, dir |-> locations[d].dir, gib |-> locations[d].gib] :
           d \in {e \in Disks : Moved(e)}}

Complete ==
  /\ At("complete") /\ End
  /\ locations' = target /\ generation' = generation + 1
  /\ retained' = retained \cup Left
  /\ phase' = "none" /\ paused' = FALSE
  /\ VerifiedLeaves /\ UNCHANGED <<layout, target, nextSystem, boot>>

-----------------------------------------------------------------------------
(***************************************************************************)
(* cleanup_storage_copies, when the worker is stopped: an old copy goes    *)
(* when the disk is in order somewhere else and the volume is there; its   *)
(* image, its receipt and directory, and then its record.                  *)
(***************************************************************************)
Removable(c) == registry[c.disk] # c.dir /\ c.dir \in plugged

Cleans(c) ==
  /\ phase = "none" /\ task = "idle" /\ ~running
  /\ c \in retained /\ locations[c.disk].dir # c.dir
  /\ Inspects(c.disk, locations[c.disk]) /\ Removable(c)

CleanupLeaves ==
  UNCHANGED <<locations, generation, layout, operation, plugged, staged, registry, boot, worker,
              guest, tick, written>>

EraseCopy(c) ==
  /\ Cleans(c) /\ images[c.dir][c.disk].gib = c.gib
  /\ images' = [images EXCEPT ![c.dir][c.disk] =
                  IF @.size > 0 THEN [gib |-> @.gib, size |-> 0, data |-> 0] ELSE NoImage]
  /\ CleanupLeaves /\ UNCHANGED retained

ForgetCopy(c) ==
  /\ Cleans(c) /\ images[c.dir][c.disk] = NoImage
  /\ retained' = retained \ {c}
  /\ CleanupLeaves /\ UNCHANGED images

-----------------------------------------------------------------------------
\* A command fails or times out, a volume is gone, or the agent dies.
Fail ==
  /\ task # "idle" /\ End
  /\ UNCHANGED <<settings, layout, operation, plugged, files, registry, boot, worker, guest,
                 written>>

Owner ==
  \/ \E places \in [Disks -> Place], s \in Disks, held \in BOOLEAN :
       (held => OwnerMay("pause")) /\ Apply(places, s, held)
  \/ Pause \/ Resume \/ Withdraw \/ Interrupt

Host == (\E v \in Dirs : Plug(v) \/ Unplug(v)) \/ Write \/ Stops \/ Serve

Disk(d) == LimaCreate(d) \/ StageNew(d) \/ Unregister(d) \/ Link(d) \/ StageMove(d) \/ Resize(d)

Step ==
  \/ TickPending \/ TickDisks \/ Relabel \/ RecordSource \/ CopySystem \/ SwitchHome
  \/ (\E d \in Disks : Disk(d)) \/ CommitMove \/ SaveReceipt \/ Configure(TRUE)
  \/ TickGuest \/ ApplyPool \/ SaveVerified
  \/ TickVerified \/ RemoveSource \/ ForgetSource \/ Complete

Cleanup == \E c \in Copy : EraseCopy(c) \/ ForgetCopy(c)

Next ==
  \/ Owner \/ Host \/ Step \/ Cleanup
  \/ Configure(FALSE) \/ (\E d \in Disks : StageTorn(d)) \/ Fail

Spec == Init /\ [][Next]_vars

(***************************************************************************)
(* The supervisor goes on ticking, volumes come back, and from some time   *)
(* on nothing fails and the owner lets the change go on.                   *)
(***************************************************************************)
Fairness ==
  /\ WF_vars(Step) /\ WF_vars(Fail) /\ \A v \in Dirs : WF_vars(Plug(v))
  /\ <>[][(Fail => ~ENABLED Step) /\ ~Pause /\ ~Withdraw /\ ~Stops /\ ~(\E v \in Dirs : Unplug(v))
          /\ ~Configure(FALSE) /\ ~(\E d \in Disks : StageTorn(d))]_vars

FairSpec == Spec /\ Fairness

-----------------------------------------------------------------------------
\* The values of the variables.
SettingsType ==
  /\ locations \in [Disks -> Place] /\ generation \in 1..MaxGeneration /\ retained \subseteq Copy
  /\ system \in Disks /\ home \in Dirs /\ source \in Dirs \cup {None}

ChangeType ==
  /\ phase \in Phases /\ paused \in BOOLEAN
  /\ target \in [Disks -> Place] /\ nextSystem \in Disks
  /\ task \in Tasks /\ at \in Disks

FilesType ==
  /\ plugged \subseteq Dirs /\ staged \subseteq Dirs \X Disks
  /\ images \in [Dirs -> [Disks -> Image]] /\ registry \in [Disks -> Dirs \cup {None, Own}]
  /\ boot \in [Dirs -> 0..MaxWrites] /\ written \in 1..MaxWrites

WorkerType ==
  /\ attached \subseteq Disks /\ running \in BOOLEAN
  /\ pool \in [Disks -> 0..MaxGib] /\ poolGeneration \in 1..MaxGeneration

TypeOK == SettingsType /\ ChangeType /\ FilesType /\ WorkerType

(***************************************************************************)
(* The data disks and the system image implement WorkerDisks: a disk is    *)
(* where its link says and the system image where the settings say, and    *)
(* whatever a change, its retries, a crash or a cleanup does, a disk that  *)
(* was made is never without a place, and what it holds there is what was  *)
(* last written to it.  (lima_storage.rs: copy, compare, then link;        *)
(* storage_layout.rs: copy, verify, then switch.)                          *)
(***************************************************************************)
Items == Disks \cup {System}

WhereIs == [x \in Items |->
  IF x = System THEN home ELSE IF registry[x] \in Dirs THEN registry[x] ELSE None]

Holds == [x \in Items |->
  IF x = System THEN boot[home]
  ELSE IF registry[x] \in Dirs THEN images[registry[x]][x].data ELSE 0]

Worker == INSTANCE WorkerDisks WITH
  Items <- Items, Places <- Dirs, None <- None, place <- WhereIs, held <- Holds

DisksKeepTheirData == Worker!Spec

(***************************************************************************)
(* "Moves preserve the original image until the replacement has been       *)
(* checked" (docs/storage-724.md): until the guest runs from the new       *)
(* files, every original is whole, under its old receipt if it moves, and  *)
(* as new as any copy of it; so is the system image at the directory a     *)
(* relocation started from.                                                *)
(***************************************************************************)
OriginalIsKept ==
  phase \in {"pending", "disks"} =>
    /\ \A d \in Members(locations) :
          LET i == images[locations[d].dir][d] IN
            /\ i.size >= locations[d].gib /\ \A v \in Dirs : images[v][d].data <= i.data
            /\ Moved(d) => i.gib = locations[d].gib
    /\ \A v \in Dirs : boot[v] <= boot[IF source = None THEN home ELSE source]

(***************************************************************************)
(* Between changes the worker may fill every disk and the system image to  *)
(* the sizes it was promised: nothing a change left behind, neither old    *)
(* copies that wait for a cleanup nor unfinished ones, was admitted at the *)
(* cost of that room.  (storage_operations.rs, plan_disks and the review.) *)
(***************************************************************************)
Promised(v) ==
  (IF v = home THEN SystemGib ELSE 0)
    + SumFunction([d \in Disks |-> IF locations[d].dir = v THEN locations[d].gib ELSE 0])

LeftBehind(v) ==
  SumFunction([d \in Disks |-> IF locations[d].dir = v THEN 0 ELSE Blocks(images[v][d])])
    + SumFunction([d \in Disks |-> IF <<v, d>> \in staged THEN locations[d].gib ELSE 0])

PromisedRoom == phase = "none" => \A v \in Dirs : Promised(v) + LeftBehind(v) <= Capacity

(***************************************************************************)
(* Between changes the settings, the files on the volumes, Lima's          *)
(* registry and its list of attached disks, the guest's pool and the       *)
(* runtime directory agree, and there is one system image: a change is     *)
(* complete everywhere or not at all, however often its ticks were cut     *)
(* short.                                                                  *)
(***************************************************************************)
RecordedMatches ==
  phase = "none" =>
    /\ \A d \in Members(locations) :
         /\ registry[d] = locations[d].dir
         /\ images[locations[d].dir][d].gib = locations[d].gib
         /\ images[locations[d].dir][d].size = locations[d].gib
    /\ attached = Members(locations)
    /\ pool = [d \in Disks |-> locations[d].gib] /\ poolGeneration = generation
    /\ home = locations[system].dir /\ source = None
    /\ \A v \in Dirs : boot[v] > 0 <=> v = home

(***************************************************************************)
(* Every file of a disk the agent ever made is a disk of the settings or   *)
(* of the change, or is recorded for the cleanup: nothing fills an owner's *)
(* volume without the settings knowing.                                    *)
(***************************************************************************)
NothingForgotten ==
  \A v \in Dirs, d \in Disks : images[v][d] # NoImage =>
    \/ locations[d].dir = v
    \/ phase # "none" /\ target[d].dir = v
    \/ \E c \in retained : c.disk = d /\ c.dir = v

(***************************************************************************)
(* A change ends, or waits for its owner, once volumes are there and       *)
(* nothing fails any more, except for three states in which the code       *)
(* cannot end it, each reached when the phase "disks" begins again:        *)
(*   HalfGrown - a disk that moved was resized, its receipt was not saved: *)
(*     inspect refuses the disk at its new place for its size, stage_move  *)
(*     refuses it at its old place for its link;                           *)
(*   Revisits - a disk goes where an older copy of it was not cleaned up   *)
(*     yet: it differs from the disk, and no cleanup runs during a change; *)
(*   NoRoom - the check of every attempt counts what the attempts before   *)
(*     it copied, and the system image, otherwise than the review did.     *)
(***************************************************************************)
Again == task = "idle" /\ phase = "disks"

HalfGrown ==
  Again /\ \E d \in Disks :
    Moved(d) /\ registry[d] = target[d].dir
      /\ images[target[d].dir][d].gib # images[target[d].dir][d].size

Revisits ==
  Again /\ \E d \in Disks :
    Moved(d) /\ registry[d] = locations[d].dir
      /\ images[target[d].dir][d] \notin {NoImage, images[locations[d].dir][d]}

NoRoom == Again /\ ~Fits(target, NewHome)

GrowthFinishes ==
  phase # "none" ~> phase = "none" \/ paused \/ HalfGrown \/ Revisits \/ NoRoom
=============================================================================
