-------------------------- MODULE GrowthInvariant --------------------------
(***************************************************************************)
(* The inductive invariant of StorageGrowth: what a tick that was cut      *)
(* short leaves behind, and what the next one may still rely on.           *)
(***************************************************************************)
EXTENDS StorageGrowth

Before == {"none", "pending"}
DiskTasks == {"disks", "staged", "moved", "resized"}

\* A place that is used has a directory and a size.
Real(places) == \A d \in Disks : places[d].gib > 0 <=> places[d].dir # None

\* The change is one the review admits, and has a generation of its own.
Planned ==
  /\ Real(locations) /\ Real(target)
  /\ \A d \in Disks : target[d].gib >= locations[d].gib
  /\ nextSystem \in Members(target)
  /\ phase \in Before => system \in Members(locations) /\ home = locations[system].dir
  /\ phase = "none" => target = locations /\ nextSystem = system
  /\ phase # "none" => generation < MaxGeneration

\* The tick does the saved phase, and the machine does not run while files are moved.
Phased ==
  /\ task \in {"system", "copy", "switch"} \cup DiskTasks => phase = "disks"
  /\ task \in {"guest", "applied"} => phase = "guest"
  /\ task \in {"verified", "forget", "complete"} => phase = "verified"
  /\ phase \in {"disks", "verified"} => ~running
  /\ task \in DiskTasks \/ phase \in {"guest", "verified"} => Placed

(***************************************************************************)
(* A relocation of the runtime directory in progress knows where it began, *)
(* and there is no system image but at the two ends of it.                 *)
(***************************************************************************)
Relocating ==
  /\ source # None => IF home = NewHome THEN source # home ELSE source = home
  /\ phase \in Before => source = None
  /\ task \in {"copy", "switch"} => source = home /\ home # NewHome
  /\ task \in {"verified", "forget"} => source # None
  /\ task = "complete" => source = None

SystemWhole ==
  /\ 0 < boot[home] /\ boot[home] <= written
  /\ \A v \in Dirs : boot[v] <= boot[home]
  /\ \A v \in Dirs : boot[v] > 0 => v = home \/ (source # None /\ v \in {source, NewHome})
  /\ phase = "disks" /\ source # None => boot[source] = boot[home]
  /\ task = "switch" => boot[NewHome] = boot[home]
  /\ task = "forget" => boot[source] = 0

\* Disk d is exactly where and what the place says.
Is(d, p) ==
  registry[d] = p.dir /\ images[p.dir][d].gib = p.gib /\ images[p.dir][d].size = p.gib

\* Disks are where the settings say before, and where the change says after it.
Registered ==
  /\ phase \in Before => \A d \in Members(locations) : Is(d, locations[d])
  /\ phase = "disks" => \A d \in Members(locations) : registry[d] \in {locations[d].dir, target[d].dir}
  /\ phase \in {"guest", "verified"} => \A d \in Members(target) : Is(d, target[d])

\* The pool is the settings' before, and the change's once that was verified.
Pooled ==
  /\ phase \in Before => poolGeneration = generation /\ \A d \in Disks : pool[d] = locations[d].gib
  /\ phase = "verified" => PoolIsTarget

\* Nothing was written to a disk that is not in the pool yet.
Blank(d) == pool[d] = 0 /\ \A v \in Dirs : images[v][d].data = 0

Unwritten ==
  \A d \in Disks :
    target[d].gib = 0 \/ (phase \notin {"guest", "verified"} /\ locations[d].gib = 0) => Blank(d)

\* No copy is newer than the disk that is linked.
Newest ==
  \A d \in Disks, v \in Dirs :
    /\ images[v][d].data <= written
    /\ registry[d] \in Dirs => images[v][d].data <= images[registry[d]][d].data

(***************************************************************************)
(* While disks are moved every original is there, and as new as the disk   *)
(* that is linked; a copy that is about to be linked is like it.           *)
(***************************************************************************)
OriginalThere ==
  phase = "disks" => \A d \in Members(locations) :
    LET i == images[locations[d].dir][d] IN
      /\ i.size >= locations[d].gib /\ (Moved(d) => i.gib = locations[d].gib)
      /\ i.data = images[registry[d]][d].data

CopyIsOriginal ==
  task = "staged" =>
    /\ Moved(at) /\ registry[at] = locations[at].dir
    /\ images[target[at].dir][at].data = images[locations[at].dir][at].data

\* Files that are in no settings are recorded; a change makes its own when it has begun.
Recorded ==
  \A v \in Dirs, d \in Disks : images[v][d] # NoImage =>
    \/ locations[d].dir = v
    \/ phase \notin Before /\ target[d].dir = v
    \/ \E c \in retained : c.disk = d /\ c.dir = v

(***************************************************************************)
(* Every reachable state satisfies all of these, and every step keeps them *)
(* (the phases of a storage change and the ticks that do them).            *)
(***************************************************************************)
IInv ==
  /\ TypeOK /\ Planned /\ Phased /\ Relocating /\ SystemWhole
  /\ Registered /\ Pooled /\ Unwritten /\ Newest /\ OriginalThere /\ CopyIsOriginal /\ Recorded

(***************************************************************************)
(* Lima attaches the disks of the settings before a change, and its new    *)
(* ones once the phase that writes its configuration is saved.             *)
(***************************************************************************)
Attached ==
  /\ phase \in Before => attached = Members(locations)
  /\ phase \in {"guest", "verified"} => attached = Members(target)

-----------------------------------------------------------------------------
(***************************************************************************)
(* Room, for PromisedRoom.  An unfinished copy is of a disk whose move is  *)
(* still to be done; the original of such a disk is not grown.             *)
(***************************************************************************)
Unfinished ==
  \A v \in Dirs, d \in Disks : <<v, d>> \in staged =>
    /\ phase = "disks" /\ v = target[d].dir /\ Moved(d) /\ registry[d] = locations[d].dir
    /\ task = "staged" => d # at

Ungrown ==
  phase = "disks" => \A d \in Members(locations) :
    Moved(d) => images[locations[d].dir][d].size = locations[d].gib

\* What the volume will hold and promise when the change is complete.
AfterChange(v) ==
  (IF v = NewHome THEN SystemGib ELSE 0)
    + SumFunction([d \in Disks |-> IF target[d].dir = v THEN target[d].gib ELSE 0])
    + SumFunction([d \in Disks |-> IF target[d].dir = v THEN 0 ELSE Blocks(images[v][d])])

(***************************************************************************)
(* Before the change every volume keeps its promises.  A volume that gets  *)
(* no disk keeps them to the end; one that does was checked by the tick    *)
(* that works on it, and by the one that completed the disks.              *)
(***************************************************************************)
Roomy ==
  /\ phase \in Before => \A v \in Dirs : Promised(v) + LeftBehind(v) <= Capacity
  /\ phase \notin Before => \A v \in Dirs :
       \/ AfterChange(v) <= Capacity
       \/ phase = "disks" /\ task = "idle" /\ v \in {target[d].dir : d \in Disks}

RoomInv == Unfinished /\ Ungrown /\ Roomy
=============================================================================
