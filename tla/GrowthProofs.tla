--------------------------- MODULE GrowthProofs ---------------------------
(***************************************************************************)
(* Safety of StorageGrowth for every number of disks and directories, any  *)
(* sizes and any number of changes: the invariant is inductive, and with   *)
(* it the storage of a worker implements WorkerDisks.  What a volume has   *)
(* room for (Fits) is never needed.                                        *)
(***************************************************************************)
EXTENDS GrowthInvariant, TLAPS

USE GrowthAssumption
USE DEF vars, settings, layout, operation, files, worker, guest, tick,
        Place, Image, NoImage, NoPlace, Copy, Phases, Tasks, DiskTasks, Before,
        Real, Members, Moved, Arrived, NewHome, Placed, Is, Blank, PoolIsTarget
\* What an action may call on the way.
USE DEF OwnerMay, OwnerLeaves, HostLeaves, SystemLeaves, DisksLeave, VerifiedLeaves,
  CleanupLeaves,
        Ticks, At, Goto, End, Doing, New, Backing, Linked, Inspects, Cleans

\* An image stays one when it is written to or resized.
LEMMA ImageUpdates ==
  ASSUME NEW i \in Image
  PROVE  /\ \A n \in 1..MaxWrites : [i EXCEPT !.data = n] \in Image
         /\ \A n \in 0..MaxGib : [i EXCEPT !.size = n] \in Image /\ [i EXCEPT !.gib = n] \in Image
  OBVIOUS

\* One file of one disk changes.
LEMMA ImageChanges ==
  ASSUME FilesType, NEW d \in Disks, NEW v \in Dirs, NEW i \in Image,
         images' = [images EXCEPT ![v][d] = i]
  PROVE  /\ images' \in [Dirs -> [Disks -> Image]]
         /\ images'[v][d] = i
         /\ \A w \in Dirs, e \in Disks : w # v \/ e # d => images'[w][e] = images[w][e]
<1>1. images \in [Dirs -> [Disks -> Image]]
  BY DEF FilesType
<1> HIDE DEF Image
<1> QED
  BY <1>1

\* The worker at the beginning: one disk, in use, and no change.
LEMMA InitInv == Init => IInv
<1> SUFFICES ASSUME Init PROVE IInv
  OBVIOUS
<1> USE DEF Init
<1>1. PICK n \in 1..MaxGib :
        /\ locations = [d \in Disks |->
             IF d = First THEN [dir |-> Original, gib |-> n] ELSE NoPlace]
        /\ images = [v \in Dirs |-> [d \in Disks |->
             IF v = Original /\ d = First THEN [gib |-> n, size |-> n, data |-> 1] ELSE NoImage]]
  OBVIOUS
<1>2. locations \in [Disks -> Place]
  BY <1>1
<1>2a. SettingsType
  <2>1. 1 \in 1..MaxGeneration
    OBVIOUS
  <2> QED
    BY <1>2, <2>1 DEF SettingsType
<1>2b. ChangeType
  BY <1>2 DEF ChangeType
<1>3. FilesType
  BY <1>1 DEF FilesType
<1>4. WorkerType
  <2>1. 1 \in 1..MaxGeneration
    OBVIOUS
  <2>2. pool \in [Disks -> 0..MaxGib]
    BY <1>2
  <2> QED
    BY <2>1, <2>2 DEF WorkerType
<1>5. Planned /\ Phased /\ Relocating
  BY <1>1 DEF Planned, Phased, Relocating
<1>6. SystemWhole
  BY <1>1 DEF SystemWhole
<1>7. Registered /\ Pooled
  BY <1>1 DEF Registered, Pooled
<1>8. Unwritten /\ Newest
  BY <1>1 DEF Unwritten, Newest
<1>9. OriginalThere /\ CopyIsOriginal /\ Recorded
  BY <1>1 DEF OriginalThere, CopyIsOriginal, Recorded
<1> QED
  BY <1>2a, <1>2b, <1>3, <1>4, <1>5, <1>6, <1>7, <1>8, <1>9 DEF IInv, TypeOK

\* A change is reviewed and saved; nothing else is touched.
LEMMA ApplyInv ==
  ASSUME IInv, NEW places \in [Disks -> Place], NEW s \in Disks, NEW held \in BOOLEAN,
    Apply(places, s, held)
  PROVE  IInv'
<1> USE DEF Apply, Reviews, Growth, MayBeSystem
<1>1. UNCHANGED <<locations, generation, retained, system, home, source, plugged, images, staged,
                  registry, boot, attached, running, pool, poolGeneration, task, at, written>>
  OBVIOUS
<1>2. SettingsType' /\ FilesType' /\ WorkerType' /\ Newest'
  BY <1>1 DEF IInv, TypeOK, SettingsType, FilesType, WorkerType, Newest
<1>3. ChangeType'
  BY <1>1 DEF IInv, TypeOK, ChangeType
<1>4. Planned'
  BY <1>1 DEF IInv, TypeOK, Planned, SettingsType, ChangeType, FilesType, WorkerType
<1>5. Phased'
  BY <1>1 DEF IInv, TypeOK, Phased
<1>6. Relocating'
  BY <1>1 DEF IInv, TypeOK, Relocating
<1>7. SystemWhole'
  BY <1>1 DEF IInv, TypeOK, SystemWhole, SettingsType, ChangeType, FilesType, WorkerType, Planned,
              Phased
<1>8. Registered'
  BY <1>1 DEF IInv, TypeOK, Registered
<1>9. Pooled'
  BY <1>1 DEF IInv, TypeOK, Pooled
<1>10. Unwritten'
  BY <1>1 DEF IInv, TypeOK, Unwritten, SettingsType, ChangeType, FilesType, WorkerType
<1>11. OriginalThere'
  BY <1>1 DEF IInv, TypeOK, OriginalThere
<1>12. CopyIsOriginal'
  BY <1>1 DEF IInv, TypeOK, CopyIsOriginal
<1>13. Recorded'
  BY <1>1 DEF IInv, TypeOK, Recorded
<1> QED
  BY <1>2, <1>3, <1>4, <1>5, <1>6, <1>7, <1>8, <1>9, <1>10, <1>11, <1>12, <1>13 DEF IInv, TypeOK

\* The owner holds the change back, or drops one that has not begun.
LEMMA WaitInv ==
  ASSUME IInv, Pause \/ Resume \/ Withdraw \/ Interrupt
  PROVE  IInv'
<1> USE DEF Pause, Resume, Withdraw, Interrupt
<1>1. UNCHANGED <<locations, generation, retained, system, home, source, plugged, images, staged,
                  registry, boot, attached, pool, poolGeneration, at, written>>
  OBVIOUS
<1>2. SettingsType' /\ FilesType' /\ Newest'
  BY <1>1 DEF IInv, TypeOK, SettingsType, FilesType, Newest
<1>3. ChangeType'
  <2>1. CASE Pause
    BY <1>1, <2>1 DEF IInv, TypeOK, ChangeType, SettingsType
  <2>2. CASE Resume
    BY <1>1, <2>2 DEF IInv, TypeOK, ChangeType, SettingsType
  <2>3. CASE Withdraw
    BY <1>1, <2>3 DEF IInv, TypeOK, ChangeType, SettingsType
  <2>4. CASE Interrupt
    BY <1>1, <2>4 DEF IInv, TypeOK, ChangeType, SettingsType
  <2> QED
    BY <2>1, <2>2, <2>3, <2>4
<1>4. WorkerType'
  BY <1>1 DEF IInv, TypeOK, WorkerType
<1>5. Planned'
  BY <1>1 DEF IInv, TypeOK, Planned, SettingsType, ChangeType, FilesType, WorkerType
<1>6. Phased'
  BY <1>1 DEF IInv, TypeOK, Phased
<1>7. Relocating'
  BY <1>1 DEF IInv, TypeOK, Relocating, SettingsType, ChangeType, FilesType, WorkerType
<1>8. SystemWhole'
  BY <1>1 DEF IInv, TypeOK, SystemWhole, SettingsType, ChangeType, FilesType, WorkerType, Planned,
              Phased, Relocating
<1>9. Registered'
  BY <1>1 DEF IInv, TypeOK, Registered
<1>10. Pooled'
  BY <1>1 DEF IInv, TypeOK, Pooled
<1>11. Unwritten'
  BY <1>1 DEF IInv, TypeOK, Unwritten
<1>12. OriginalThere'
  BY <1>1 DEF IInv, TypeOK, OriginalThere
<1>13. CopyIsOriginal'
  BY <1>1 DEF IInv, TypeOK, CopyIsOriginal, SettingsType, ChangeType, FilesType, WorkerType,
              Planned, Phased
<1>14. Recorded'
  BY <1>1 DEF IInv, TypeOK, Recorded
<1> QED
  BY <1>2, <1>3, <1>4, <1>5, <1>6, <1>7, <1>8, <1>9, <1>10, <1>11, <1>12, <1>13, <1>14 DEF IInv,
    TypeOK

\* Volumes come and go, and the machine stops or is started between changes.
LEMMA HostInv ==
  ASSUME IInv, NEW v \in Dirs, Plug(v) \/ Unplug(v) \/ Stops \/ Serve
  PROVE  IInv'
<1> USE DEF Plug, Unplug, Stops, Serve
<1>1. UNCHANGED <<locations, generation, retained, system, home, source, phase, target,
                  nextSystem, paused, images, staged, registry, boot, attached, pool,
                  poolGeneration, task, at, written>>
  OBVIOUS
<1>2. SettingsType' /\ ChangeType' /\ Planned' /\ Relocating' /\ SystemWhole'
  BY <1>1 DEF IInv, TypeOK, SettingsType, ChangeType, Planned, Relocating, SystemWhole
<1>3. Registered' /\ Pooled' /\ Unwritten' /\ Newest' /\ OriginalThere'
  BY <1>1 DEF IInv, TypeOK, Registered, Pooled, Unwritten, Newest, OriginalThere
<1>4. CopyIsOriginal' /\ Recorded'
  BY <1>1 DEF IInv, TypeOK, CopyIsOriginal, Recorded
<1>5. FilesType'
  BY <1>1 DEF IInv, TypeOK, FilesType
<1>6. WorkerType'
  BY <1>1 DEF IInv, TypeOK, WorkerType
<1>7. Phased'
  BY <1>1 DEF IInv, TypeOK, Phased
<1> QED
  BY <1>2, <1>3, <1>4, <1>5, <1>6, <1>7 DEF IInv, TypeOK

\* What is linked takes the write, so that it stays the newest.
LEMMA WriteInv ==
  ASSUME IInv, Write
  PROVE  IInv'
<1> USE DEF Write
<1>1. UNCHANGED <<locations, generation, retained, system, home, source, phase, target,
                  nextSystem, paused, plugged, staged, registry, attached, running, pool,
                  poolGeneration, task, at>>
  OBVIOUS
<1>2. SettingsType' /\ ChangeType' /\ WorkerType' /\ Planned' /\ Phased'
  BY <1>1 DEF IInv, TypeOK, SettingsType, ChangeType, WorkerType, Planned, Phased
<1>3. Relocating' /\ Pooled'
  BY <1>1 DEF IInv, TypeOK, Relocating, Pooled
<1>4. FilesType'
  <2>1. written' \in 1..MaxWrites
    BY DEF IInv, TypeOK, FilesType
  <2>2. images' \in [Dirs -> [Disks -> Image]]
    <3> SUFFICES ASSUME NEW v \in Dirs, NEW d \in Disks PROVE images'[v][d] \in Image
      BY DEF IInv, TypeOK, FilesType
    <3>1. images[v][d] \in Image
      BY DEF IInv, TypeOK, FilesType
    <3> QED
      BY <2>1, <3>1, ImageUpdates
  <2>3. boot' \in [Dirs -> 0..MaxWrites]
    BY <2>1 DEF IInv, TypeOK, FilesType
  <2> QED
    BY <1>1, <2>1, <2>2, <2>3 DEF IInv, TypeOK, FilesType
<1>5. SystemWhole'
  BY <1>1 DEF IInv, TypeOK, SystemWhole, SettingsType, ChangeType, FilesType, WorkerType, Planned,
              Phased
<1>6. Registered'
  <2>1. Registered /\ \A d \in Members(locations) : locations[d].dir \in Dirs
    BY DEF IInv, TypeOK, SettingsType, Planned
  <2>2. \A d \in Members(target) : target[d].dir \in Dirs
    BY DEF IInv, TypeOK, ChangeType, Planned
  <2>3. \A v \in Dirs, d \in Disks :
          images'[v][d].gib = images[v][d].gib /\ images'[v][d].size = images[v][d].size
    BY DEF IInv, TypeOK, FilesType
  <2> HIDE DEF Write
  <2> QED
    BY <1>1, <2>1, <2>2, <2>3 DEF Registered
<1>7. Unwritten'
  BY <1>1 DEF IInv, TypeOK, Unwritten
<1>8. Newest'
  BY <1>1 DEF IInv, TypeOK, Newest, SettingsType, ChangeType, FilesType, WorkerType
<1>9. OriginalThere'
  BY <1>1 DEF IInv, TypeOK, OriginalThere, SettingsType, ChangeType, FilesType, WorkerType,
              Planned, Phased
<1>10. CopyIsOriginal'
  BY <1>1 DEF IInv, TypeOK, CopyIsOriginal, SettingsType, ChangeType, FilesType, WorkerType,
              Planned, Phased
<1>11. Recorded'
  BY <1>1 DEF IInv, TypeOK, Recorded, SettingsType, ChangeType, FilesType, WorkerType, Planned,
              Phased, Registered, Unwritten
<1> QED
  BY <1>2, <1>3, <1>4, <1>5, <1>6, <1>7, <1>8, <1>9, <1>10, <1>11 DEF IInv, TypeOK

\* A tick begins, or is dropped with its place in the phase forgotten.
LEMMA BeginInv ==
  ASSUME IInv, TickPending \/ TickDisks \/ Fail
  PROVE  IInv'
<1> USE DEF TickPending, TickDisks, Fail
<1>1. UNCHANGED <<locations, generation, retained, system, home, source, target, nextSystem,
                  paused, plugged, images, staged, registry, boot, attached, pool, poolGeneration,
                  at, written>>
  OBVIOUS
<1>2. SettingsType' /\ FilesType' /\ Newest'
  BY <1>1 DEF IInv, TypeOK, SettingsType, FilesType, Newest
<1>3. ChangeType'
  BY <1>1 DEF IInv, TypeOK, ChangeType
<1>4. WorkerType'
  BY <1>1 DEF IInv, TypeOK, WorkerType
<1>5. Planned'
  BY <1>1 DEF IInv, TypeOK, Planned
<1>6. Phased'
  BY <1>1 DEF IInv, TypeOK, Phased
<1>7. Relocating'
  BY <1>1 DEF IInv, TypeOK, Relocating
<1>8. SystemWhole'
  BY <1>1 DEF IInv, TypeOK, SystemWhole, SettingsType, ChangeType, FilesType, WorkerType, Planned,
              Phased, Relocating
<1>9. Registered'
  BY <1>1 DEF IInv, TypeOK, Registered
<1>10. Pooled'
  BY <1>1 DEF IInv, TypeOK, Pooled
<1>11. Unwritten'
  BY <1>1 DEF IInv, TypeOK, Unwritten
<1>12. OriginalThere'
  <2>1. CASE TickPending
    BY <1>1, <2>1 DEF IInv, TypeOK, OriginalThere, Registered, Phased, Planned, SettingsType,
                      ChangeType
  <2>2. CASE TickDisks
    BY <1>1, <2>2 DEF IInv, TypeOK, OriginalThere, Registered, Phased, Planned, SettingsType,
                      ChangeType
  <2>3. CASE Fail
    BY <1>1, <2>3 DEF IInv, TypeOK, OriginalThere, Registered, Phased, Planned, SettingsType,
                      ChangeType
  <2> QED
    BY <2>1, <2>2, <2>3
<1>13. CopyIsOriginal'
  BY <1>1 DEF IInv, TypeOK, CopyIsOriginal
<1>14. Recorded'
  BY <1>1 DEF IInv, TypeOK, Recorded
<1> QED
  BY <1>2, <1>3, <1>4, <1>5, <1>6, <1>7, <1>8, <1>9, <1>10, <1>11, <1>12, <1>13, <1>14 DEF IInv,
    TypeOK

\* The runtime directory is switched when the system image is in both.
LEMMA RelocateInv ==
  ASSUME IInv, Relabel \/ RecordSource \/ SwitchHome
  PROVE  IInv'
<1> USE DEF Relabel, RecordSource, SwitchHome
<1>1. UNCHANGED <<locations, generation, retained, phase, target, nextSystem, paused, plugged,
                  images, staged, registry, boot, attached, running, pool, poolGeneration, at,
                  written>>
  OBVIOUS
<1>2. FilesType' /\ WorkerType' /\ Registered' /\ Pooled' /\ Unwritten'
  BY <1>1 DEF IInv, TypeOK, FilesType, WorkerType, Registered, Pooled, Unwritten
<1>3. Newest' /\ OriginalThere' /\ Recorded'
  BY <1>1 DEF IInv, TypeOK, Newest, OriginalThere, Recorded
<1>4. SettingsType'
  BY <1>1 DEF IInv, TypeOK, SettingsType, ChangeType, FilesType, WorkerType, Planned, Phased
<1>5. ChangeType'
  BY <1>1 DEF IInv, TypeOK, ChangeType
<1>6. Planned'
  BY <1>1 DEF IInv, TypeOK, Planned, SettingsType, ChangeType, FilesType, WorkerType, Phased
<1>7. Phased'
  BY <1>1 DEF IInv, TypeOK, Phased
<1>8. Relocating'
  BY <1>1 DEF IInv, TypeOK, Relocating, SettingsType, ChangeType, FilesType, WorkerType, Planned,
              Phased
<1>9. SystemWhole'
  BY <1>1 DEF IInv, TypeOK, SystemWhole, SettingsType, ChangeType, FilesType, WorkerType, Planned,
              Phased, Relocating
<1>10. CopyIsOriginal'
  BY <1>1 DEF IInv, TypeOK, CopyIsOriginal
<1> QED
  BY <1>2, <1>3, <1>4, <1>5, <1>6, <1>7, <1>8, <1>9, <1>10 DEF IInv, TypeOK

\* Only the new directory is written.
LEMMA CopySystemInv ==
  ASSUME IInv, CopySystem
  PROVE  IInv'
<1> USE DEF CopySystem, SystemCopyIs
<1>1. UNCHANGED <<locations, generation, retained, system, home, source, phase, target,
                  nextSystem, paused, plugged, images, staged, registry, attached, running, pool,
                  poolGeneration, at, written>>
  OBVIOUS
<1>2. SettingsType' /\ WorkerType' /\ Planned' /\ Registered' /\ Pooled'
  BY <1>1 DEF IInv, TypeOK, SettingsType, WorkerType, Planned, Registered, Pooled
<1>3. Unwritten' /\ Newest' /\ OriginalThere' /\ Recorded'
  BY <1>1 DEF IInv, TypeOK, Unwritten, Newest, OriginalThere, Recorded
<1>4. ChangeType'
  BY <1>1 DEF IInv, TypeOK, ChangeType
<1>5. FilesType'
  BY <1>1 DEF IInv, TypeOK, FilesType
<1>6. Phased'
  BY <1>1 DEF IInv, TypeOK, Phased
<1>7. Relocating'
  BY <1>1 DEF IInv, TypeOK, Relocating
<1>8. SystemWhole'
  BY <1>1 DEF IInv, TypeOK, SystemWhole, SettingsType, ChangeType, FilesType, WorkerType, Planned,
              Phased, Relocating
<1>9. CopyIsOriginal'
  BY <1>1 DEF IInv, TypeOK, CopyIsOriginal
<1> QED
  BY <1>2, <1>3, <1>4, <1>5, <1>6, <1>7, <1>8, <1>9 DEF IInv, TypeOK

\* A new disk is registered; the disks of the settings are not touched.
LEMMA CreateInv ==
  ASSUME IInv, NEW d \in Disks, LimaCreate(d) \/ Unregister(d) \/ Link(d)
  PROVE  IInv'
<1> USE DEF LimaCreate, Unregister, Link
<1>1. UNCHANGED <<locations, generation, retained, system, home, source, phase, target,
                  nextSystem, paused, plugged, images, staged, boot, attached, running, pool,
                  poolGeneration, task, at, written>>
  OBVIOUS
<1>2. SettingsType' /\ ChangeType' /\ WorkerType' /\ Planned' /\ Phased'
  BY <1>1 DEF IInv, TypeOK, SettingsType, ChangeType, WorkerType, Planned, Phased
<1>3. Relocating' /\ SystemWhole' /\ Pooled' /\ Unwritten' /\ Recorded'
  <2> HIDE DEF LimaCreate, Unregister, Link
  <2>1. Relocating' /\ SystemWhole'
    BY <1>1 DEF IInv, Relocating, SystemWhole
  <2>2. Pooled' /\ Unwritten'
    BY <1>1 DEF IInv, Pooled, Unwritten
  <2>3. Recorded'
    BY <1>1 DEF IInv, Recorded
  <2> QED
    BY <2>1, <2>2, <2>3
<1>4. FilesType'
  <2>1. CASE LimaCreate(d)
    BY <1>1, <2>1 DEF IInv, TypeOK, FilesType, ChangeType, Planned
  <2>2. CASE Unregister(d)
    BY <1>1, <2>2 DEF IInv, TypeOK, FilesType, ChangeType, Planned
  <2>3. CASE Link(d)
    BY <1>1, <2>3 DEF IInv, TypeOK, FilesType, ChangeType, Planned
  <2> QED
    BY <2>1, <2>2, <2>3
<1>5. Registered'
  <2>1. phase = "disks" /\ Registered
    BY DEF IInv, Phased
  <2>2. \A e \in Members(locations) : registry'[e] = registry[e]
    BY DEF IInv, TypeOK, FilesType
  <2> QED
    BY <1>1, <2>1, <2>2 DEF Registered
<1>6. Newest'
  <2>1. Blank(d) /\ Newest
    BY DEF IInv, Unwritten, Phased
  <2>2. \A e \in Disks : e # d => registry'[e] = registry[e]
    BY DEF IInv, TypeOK, FilesType
  <2>3. \A v \in Dirs : images[v][d].data = 0
    BY <2>1
  <2> HIDE DEF LimaCreate, Unregister, Link
  <2> SUFFICES ASSUME NEW e \in Disks, NEW v \in Dirs
               PROVE  /\ images[v][e].data <= written
                      /\ registry'[e] \in Dirs => images[v][e].data <= images[registry'[e]][e].data
    BY <1>1 DEF Newest
  <2>4. CASE e = d
    BY <2>1, <2>3, <2>4 DEF Newest
  <2>5. CASE e # d
    BY <2>1, <2>2, <2>5 DEF Newest
  <2> QED
    BY <2>4, <2>5
<1>7. OriginalThere'
  <2>1. phase = "disks" /\ OriginalThere
    BY DEF IInv, Phased
  <2>2. \A e \in Members(locations) : registry'[e] = registry[e]
    BY DEF IInv, TypeOK, FilesType
  <2> QED
    BY <1>1, <2>1, <2>2 DEF OriginalThere
<1>8. CopyIsOriginal'
  BY <1>1 DEF IInv, TypeOK, CopyIsOriginal
<1> QED
  BY <1>2, <1>3, <1>4, <1>5, <1>6, <1>7, <1>8 DEF IInv, TypeOK

\* The new disk's image is empty.
LEMMA StageNewInv ==
  ASSUME IInv, NEW d \in Disks, StageNew(d)
  PROVE  IInv'
<1> USE DEF StageNew
<1>1. UNCHANGED <<locations, generation, retained, system, home, source, phase, target,
                  nextSystem, paused, plugged, staged, registry, boot, attached, running, pool,
                  poolGeneration, task, at, written>>
  OBVIOUS
<1>2. SettingsType' /\ ChangeType' /\ WorkerType' /\ Planned' /\ Phased'
  BY <1>1 DEF IInv, TypeOK, SettingsType, ChangeType, WorkerType, Planned, Phased
<1>3. Relocating' /\ SystemWhole' /\ Pooled'
  BY <1>1 DEF IInv, TypeOK, Relocating, SystemWhole, Pooled
<1>4. FilesType'
  BY <1>1 DEF IInv, TypeOK, FilesType, SettingsType, ChangeType, WorkerType
<1>5. Registered'
  <2>1. phase = "disks" /\ Registered
    BY DEF IInv, Phased
  <2> HIDE DEF StageNew
  <2> QED
    BY <1>1, <2>1 DEF Registered
<1>6. Unwritten'
  BY <1>1 DEF IInv, TypeOK, Unwritten
<1>7. Newest'
  BY <1>1 DEF IInv, TypeOK, Newest
<1>8. OriginalThere'
  BY <1>1 DEF IInv, TypeOK, OriginalThere
<1>9. CopyIsOriginal'
  BY <1>1 DEF IInv, TypeOK, CopyIsOriginal
<1>10. Recorded'
  BY <1>1 DEF IInv, TypeOK, Recorded, SettingsType, ChangeType, FilesType, WorkerType, Planned,
              Phased
<1> QED
  BY <1>2, <1>3, <1>4, <1>5, <1>6, <1>7, <1>8, <1>9, <1>10 DEF IInv, TypeOK

\* The copy is the original, in another directory.
LEMMA StageInv ==
  ASSUME IInv, NEW d \in Disks, StageMove(d)
  PROVE  IInv'
<1> USE DEF StageMove, Stages, CopyIs
<1>1. UNCHANGED <<locations, generation, retained, system, home, source, phase, target,
                  nextSystem, paused, plugged, registry, boot, attached, running, pool,
                  poolGeneration, written>>
  OBVIOUS
<1>2. SettingsType' /\ WorkerType' /\ Planned' /\ Pooled'
  BY <1>1 DEF IInv, TypeOK, SettingsType, WorkerType, Planned, Pooled
<1>3. ChangeType'
  BY <1>1 DEF IInv, TypeOK, ChangeType
<1>4. /\ FilesType' /\ locations[d].dir \in Dirs /\ target[d].dir \in Dirs
      /\ images'[target[d].dir][d] = images[locations[d].dir][d]
      /\ \A w \in Dirs, e \in Disks :
           w # target[d].dir \/ e # d => images'[w][e] = images[w][e]
  <2>1. locations[d].dir \in Dirs /\ target[d].dir \in Dirs
    BY DEF IInv, TypeOK, FilesType
  <2>2. images[locations[d].dir][d] \in Image
    BY <2>1 DEF IInv, TypeOK, FilesType
  <2>3. images' = [images EXCEPT ![target[d].dir][d] = images[locations[d].dir][d]]
    OBVIOUS
  <2>4. staged' \subseteq Dirs \X Disks
    BY DEF IInv, TypeOK, FilesType
  <2>5. FilesType
    BY DEF IInv, TypeOK
  <2> HIDE DEF StageMove, Stages, CopyIs, Image
  <2> QED
    BY <1>1, <2>1, <2>2, <2>3, <2>4, <2>5, ImageChanges DEF FilesType
<1>5. Phased'
  BY <1>1 DEF IInv, TypeOK, Phased
<1>6. Relocating'
  BY <1>1 DEF IInv, TypeOK, Relocating
<1>7. SystemWhole'
  BY <1>1 DEF IInv, TypeOK, SystemWhole
<1>8. Registered'
  BY <1>1 DEF IInv, TypeOK, Registered, SettingsType, ChangeType, FilesType, WorkerType, Planned,
              Phased
<1>9. Unwritten'
  <2> SUFFICES ASSUME NEW e \in Disks, Blank(e) PROVE Blank(e)'
    BY <1>1 DEF IInv, Unwritten
  <2> QED
    BY <1>1 DEF IInv, TypeOK, FilesType, SettingsType, ChangeType, Planned
<1>10. Newest'
  BY <1>1 DEF IInv, TypeOK, Newest, SettingsType, ChangeType, FilesType, WorkerType
<1>11. OriginalThere'
  <2>1. phase = "disks" /\ OriginalThere /\ registry[d] = locations[d].dir
        /\ locations[d].dir # target[d].dir
    BY DEF IInv, Phased
  <2>2. \A e \in Members(locations) : locations[e].dir \in Dirs /\ target[e].dir \in Dirs
    BY DEF IInv, TypeOK, SettingsType, ChangeType, Planned
  <2> HIDE DEF StageMove, Stages, CopyIs
  <2> SUFFICES ASSUME NEW e \in Members(locations)
               PROVE  /\ images'[locations[e].dir][e] = images[locations[e].dir][e]
                      /\ images'[registry[e]][e] = images[registry[e]][e]
    BY <1>1, <2>1 DEF OriginalThere
  <2>3. registry[e] \in {locations[e].dir, target[e].dir}
    BY <2>1 DEF IInv, Registered
  <2> QED
    BY <1>4, <2>1, <2>2, <2>3
<1>12. CopyIsOriginal'
  BY <1>1 DEF IInv, TypeOK, CopyIsOriginal, SettingsType, ChangeType, FilesType, WorkerType
<1>13. Recorded'
  BY <1>1 DEF IInv, TypeOK, Recorded, SettingsType, ChangeType, FilesType, WorkerType, Planned,
              Phased
<1> QED
  BY <1>2, <1>3, <1>4, <1>5, <1>6, <1>7, <1>8, <1>9, <1>10, <1>11, <1>12, <1>13 DEF IInv, TypeOK

\* An unfinished copy is beside the images.
LEMMA TornInv ==
  ASSUME IInv, NEW d \in Disks, StageTorn(d)
  PROVE  IInv'
<1> USE DEF StageTorn, Stages
<1>1. UNCHANGED <<locations, generation, retained, system, home, source, phase, target,
                  nextSystem, paused, plugged, images, registry, boot, attached, running, pool,
                  poolGeneration, at, written>>
  OBVIOUS
<1>2. SettingsType' /\ WorkerType' /\ Planned' /\ Pooled'
  <2>1. SettingsType' /\ WorkerType'
    BY <1>1 DEF IInv, TypeOK, SettingsType, WorkerType
  <2>2. Planned'
    BY <1>1 DEF IInv, Planned
  <2>3. Pooled'
    BY <1>1 DEF IInv, Pooled
  <2> QED
    BY <2>1, <2>2, <2>3
<1>3. Registered' /\ Unwritten' /\ Newest' /\ OriginalThere' /\ Recorded'
  <2>1. Registered'
    BY <1>1 DEF IInv, Registered
  <2>2. Unwritten' /\ Newest'
    BY <1>1 DEF IInv, Unwritten, Newest
  <2>3. OriginalThere'
    BY <1>1 DEF IInv, OriginalThere
  <2>4. Recorded'
    BY <1>1 DEF IInv, Recorded
  <2> QED
    BY <2>1, <2>2, <2>3, <2>4
<1>4. ChangeType'
  BY <1>1 DEF IInv, TypeOK, ChangeType
<1>5. FilesType'
  BY <1>1 DEF IInv, TypeOK, FilesType
<1>6. Phased'
  BY <1>1 DEF IInv, TypeOK, Phased
<1>7. Relocating'
  BY <1>1 DEF IInv, TypeOK, Relocating
<1>8. SystemWhole'
  BY <1>1 DEF IInv, TypeOK, SystemWhole
<1>9. CopyIsOriginal'
  BY <1>1 DEF IInv, TypeOK, CopyIsOriginal
<1> QED
  BY <1>2, <1>3, <1>4, <1>5, <1>6, <1>7, <1>8, <1>9 DEF IInv, TypeOK

\* The link changes to a copy that is as new as the original.
LEMMA CommitInv ==
  ASSUME IInv, CommitMove
  PROVE  IInv'
<1> USE DEF CommitMove
<1>1. UNCHANGED <<locations, generation, retained, system, home, source, phase, target,
                  nextSystem, paused, plugged, images, staged, boot, attached, running, pool,
                  poolGeneration, at, written>>
  OBVIOUS
<1>2. SettingsType' /\ WorkerType' /\ Planned' /\ Pooled' /\ Unwritten'
  BY <1>1 DEF IInv, TypeOK, SettingsType, WorkerType, Planned, Pooled, Unwritten
<1>3. Recorded'
  BY <1>1 DEF IInv, TypeOK, Recorded
<1>4. ChangeType'
  BY <1>1 DEF IInv, TypeOK, ChangeType
<1>5. FilesType'
  BY <1>1 DEF IInv, TypeOK, FilesType, SettingsType, ChangeType, WorkerType
<1>6. Phased'
  BY <1>1 DEF IInv, TypeOK, Phased
<1>7. Relocating'
  BY <1>1 DEF IInv, TypeOK, Relocating
<1>8. SystemWhole'
  BY <1>1 DEF IInv, TypeOK, SystemWhole
<1>9. Registered'
  BY <1>1 DEF IInv, TypeOK, Registered, SettingsType, ChangeType, FilesType, WorkerType, Planned,
              Phased
<1>10. Newest'
  BY <1>1 DEF IInv, TypeOK, Newest, SettingsType, ChangeType, FilesType, WorkerType, Planned,
              Phased, Registered, OriginalThere, CopyIsOriginal
<1>11. OriginalThere'
  <2>1. phase = "disks" /\ Moved(at) /\ at \in Disks /\ CopyIsOriginal /\ OriginalThere
    BY DEF IInv, TypeOK, ChangeType, Phased, CopyIsOriginal
  <2> QED
    BY <1>1, <2>1 DEF IInv, TypeOK, OriginalThere, CopyIsOriginal, FilesType
<1>12. CopyIsOriginal'
  BY <1>1 DEF IInv, TypeOK, CopyIsOriginal
<1> QED
  BY <1>2, <1>3, <1>4, <1>5, <1>6, <1>7, <1>8, <1>9, <1>10, <1>11, <1>12 DEF IInv, TypeOK

\* A grown image keeps what it holds.
LEMMA ResizeInv ==
  ASSUME IInv, NEW d \in Disks, Resize(d)
  PROVE  IInv'
<1> USE DEF Resize, Grows
<1>1. UNCHANGED <<locations, generation, retained, system, home, source, phase, target,
                  nextSystem, paused, plugged, staged, registry, boot, attached, running, pool,
                  poolGeneration, written>>
  OBVIOUS
<1>2. SettingsType' /\ WorkerType' /\ Planned' /\ Pooled'
  BY <1>1 DEF IInv, TypeOK, SettingsType, WorkerType, Planned, Pooled
<1>3. ChangeType'
  BY <1>1 DEF IInv, TypeOK, ChangeType
<1>4. /\ FilesType' /\ target[d].dir \in Dirs
      /\ images'[target[d].dir][d] = [images[target[d].dir][d] EXCEPT !.size = target[d].gib]
      /\ \A w \in Dirs, e \in Disks :
           w # target[d].dir \/ e # d => images'[w][e] = images[w][e]
  <2>1. target[d].gib \in 0..MaxGib /\ target[d].dir \in Dirs
    BY DEF IInv, TypeOK, ChangeType, FilesType
  <2>2. FilesType
    BY DEF IInv, TypeOK
  <2>3. images' = [images EXCEPT ![target[d].dir][d] =
                     [images[target[d].dir][d] EXCEPT !.size = target[d].gib]]
    OBVIOUS
  <2> HIDE DEF Resize, Grows, Image
  <2>4. images[target[d].dir][d] \in Image
    BY <2>1, <2>2 DEF FilesType
  <2>5. [images[target[d].dir][d] EXCEPT !.size = target[d].gib] \in Image
    BY <2>1, <2>4, ImageUpdates
  <2> DEFINE new == [images[target[d].dir][d] EXCEPT !.size = target[d].gib]
  <2>6. new \in Image /\ images' = [images EXCEPT ![target[d].dir][d] = new]
    BY <2>3, <2>5
  <2> HIDE DEF new
  <2>7. /\ images' \in [Dirs -> [Disks -> Image]] /\ images'[target[d].dir][d] = new
        /\ \A w \in Dirs, e \in Disks :
             w # target[d].dir \/ e # d => images'[w][e] = images[w][e]
    <3> DEFINE v == target[d].dir
    <3>0. images \in [Dirs -> [Disks -> Image]] /\ new \in Image
      BY <2>2, <2>6 DEF FilesType
    <3>1. v \in Dirs /\ images' = [images EXCEPT ![v][d] = new]
      BY <2>1, <2>6
    <3> HIDE DEF v
    <3>2. /\ images' \in [Dirs -> [Disks -> Image]] /\ images'[v][d] = new
          /\ \A w \in Dirs, e \in Disks : w # v \/ e # d => images'[w][e] = images[w][e]
      BY <3>0, <3>1
    <3> QED
      BY <3>2 DEF v
  <2> QED
    BY <1>1, <2>1, <2>2, <2>7 DEF FilesType, new
<1>5. Phased'
  BY <1>1 DEF IInv, TypeOK, Phased
<1>6. Relocating'
  BY <1>1 DEF IInv, TypeOK, Relocating
<1>7. SystemWhole'
  BY <1>1 DEF IInv, TypeOK, SystemWhole
<1>8. Registered'
  BY <1>1 DEF IInv, TypeOK, Registered, SettingsType, ChangeType, FilesType, WorkerType, Planned,
              Phased
<1>8a. ASSUME NEW v \in Dirs, NEW e \in Disks
       PROVE  images'[v][e].data = images[v][e].data /\ images'[v][e].gib = images[v][e].gib
  <2> HIDE DEF Resize, Grows
  <2>1. images[target[d].dir][d] \in Image
    BY <1>4 DEF IInv, TypeOK, FilesType
  <2>2. CASE v = target[d].dir /\ e = d
    BY <1>4, <2>1, <2>2
  <2>3. CASE ~(v = target[d].dir /\ e = d)
    <3>1. images'[v][e] = images[v][e]
      BY <1>4, <2>3
    <3> QED
      BY <3>1
  <2> QED
    BY <2>2, <2>3
<1>9. Unwritten'
  <2> HIDE DEF Resize, Grows
  <2>1. \A e \in Disks : Blank(e) => Blank(e)'
    BY <1>1, <1>8a
  <2> QED
    BY <1>1, <2>1 DEF IInv, Unwritten
<1>10. Newest'
  <2> HIDE DEF Resize, Grows
  <2> QED
    BY <1>1, <1>8a DEF IInv, Newest
<1>11. OriginalThere'
  <2>1. phase = "disks" /\ OriginalThere /\ Registered /\ target[d].gib >= locations[d].gib
    BY DEF IInv, Phased, Planned
  <2>2. \A e \in Members(locations) : locations[e].dir \in Dirs /\ target[e].dir \in Dirs
    BY DEF IInv, TypeOK, SettingsType, ChangeType, Planned
  <2> HIDE DEF Resize, Grows
  <2>3. images[target[d].dir][d] \in Image
    BY <1>4 DEF IInv, TypeOK, FilesType
  <2> SUFFICES ASSUME NEW e \in Members(locations)
               PROVE  LET i == images'[locations[e].dir][e] IN
                        /\ i.size >= locations[e].gib
                        /\ Moved(e) => i.gib = locations[e].gib
                        /\ i.data = images'[registry[e]][e].data
    BY <1>1, <2>1 DEF OriginalThere
  <2>4. registry[e] \in Dirs
    BY <2>1, <2>2 DEF Registered
  <2>5. images'[locations[e].dir][e].size >= locations[e].gib
    <3>1. CASE locations[e].dir = target[d].dir /\ e = d
      <4>1. images'[locations[e].dir][e].size = target[d].gib
        BY <1>4, <2>3, <3>1
      <4> QED
        BY <2>1, <3>1, <4>1
    <3>2. CASE ~(locations[e].dir = target[d].dir /\ e = d)
      <4>1. images'[locations[e].dir][e] = images[locations[e].dir][e]
        BY <1>4, <2>2, <3>2
      <4> QED
        BY <2>1, <4>1 DEF OriginalThere
    <3> QED
      BY <3>1, <3>2
  <2> QED
    BY <1>8a, <2>1, <2>2, <2>4, <2>5 DEF OriginalThere
<1>12. CopyIsOriginal'
  BY <1>1 DEF IInv, TypeOK, CopyIsOriginal
<1>13. Recorded'
  <2>1. phase = "disks" /\ Recorded
    BY DEF IInv, Phased
  <2>2. \A v \in Dirs, e \in Disks : images'[v][e] # images[v][e] => e = d /\ v = target[d].dir
    BY <1>4
  <2>3. phase' = "disks" /\ target' = target /\ locations' = locations /\ retained' = retained
    BY <1>1, <2>1
  <2> HIDE DEF Resize, Grows
  <2> SUFFICES ASSUME NEW v \in Dirs, NEW e \in Disks, images'[v][e] # NoImage
               PROVE  \/ locations[e].dir = v
                      \/ target[e].dir = v
                      \/ \E c \in retained : c.disk = e /\ c.dir = v
    BY <2>3 DEF Recorded
  <2>4. CASE e = d /\ v = target[d].dir
    BY <2>4
  <2>5. CASE ~(e = d /\ v = target[d].dir)
    <3>1. images[v][e] # NoImage
      BY <2>2, <2>5
    <3> QED
      BY <2>1, <3>1 DEF Recorded
  <2> QED
    BY <2>4, <2>5
<1> QED
  BY <1>2, <1>3, <1>4, <1>5, <1>6, <1>7, <1>8, <1>9, <1>10, <1>11, <1>12, <1>13 DEF IInv, TypeOK

\* The receipt of a disk that moves is the copy's, not the original's.
LEMMA ReceiptInv ==
  ASSUME IInv, SaveReceipt
  PROVE  IInv'
<1> USE DEF SaveReceipt
<1>1. UNCHANGED <<locations, generation, retained, system, home, source, phase, target,
                  nextSystem, paused, plugged, staged, registry, boot, attached, running, pool,
                  poolGeneration, at, written>>
  OBVIOUS
<1>2. SettingsType' /\ WorkerType' /\ Planned' /\ Pooled'
  BY <1>1 DEF IInv, TypeOK, SettingsType, WorkerType, Planned, Pooled
<1>3. ChangeType'
  BY <1>1 DEF IInv, TypeOK, ChangeType
<1>4. FilesType'
  <2>1. at \in Disks /\ target[at].gib \in 0..MaxGib
    BY DEF IInv, TypeOK, ChangeType
  <2>2. ASSUME NEW v \in Dirs, NEW d \in Disks PROVE images[v][d] \in Image
    BY DEF IInv, TypeOK, FilesType
  <2>3. images' = [v \in Dirs |-> [d \in Disks |->
           IF v = target[at].dir /\ d = at THEN [images[v][d] EXCEPT !.gib = target[at].gib]
           ELSE images[v][d]]]
    BY <2>1 DEF IInv, TypeOK, FilesType
  <2>4. ASSUME NEW v \in Dirs, NEW d \in Disks
        PROVE  [images[v][d] EXCEPT !.gib = target[at].gib] \in Image
    BY <2>1, <2>2, ImageUpdates
  <2>5. images' \in [Dirs -> [Disks -> Image]]
    <3> HIDE DEF Image, SaveReceipt
    <3> QED
      BY <2>2, <2>3, <2>4
  <2> QED
    BY <1>1, <2>5 DEF IInv, TypeOK, FilesType
<1>5. Phased'
  BY <1>1 DEF IInv, TypeOK, Phased
<1>6. Relocating'
  BY <1>1 DEF IInv, TypeOK, Relocating
<1>7. SystemWhole'
  BY <1>1 DEF IInv, TypeOK, SystemWhole
<1>8. Registered'
  BY <1>1 DEF IInv, TypeOK, Registered, SettingsType, ChangeType, FilesType, WorkerType, Planned,
              Phased
<1>9. Unwritten'
  BY <1>1 DEF IInv, TypeOK, Unwritten
<1>10. Newest'
  BY <1>1 DEF IInv, TypeOK, Newest
<1>11. OriginalThere'
  BY <1>1 DEF IInv, TypeOK, OriginalThere
<1>12. CopyIsOriginal'
  BY <1>1 DEF IInv, TypeOK, CopyIsOriginal
<1>13. Recorded'
  BY <1>1 DEF IInv, TypeOK, Recorded, SettingsType, ChangeType, FilesType, WorkerType, Planned,
              Phased
<1> QED
  BY <1>2, <1>3, <1>4, <1>5, <1>6, <1>7, <1>8, <1>9, <1>10, <1>11, <1>12, <1>13 DEF IInv, TypeOK

\* The disks phase ends with every disk inspected.
LEMMA ConfigureInv ==
  ASSUME IInv, NEW saved \in BOOLEAN, Configure(saved)
  PROVE  IInv'
<1> USE DEF Configure, Attach
<1>1. UNCHANGED <<locations, generation, retained, system, home, source, target, nextSystem,
                  paused, plugged, images, staged, registry, boot, running, pool, poolGeneration,
                  at, written>>
  OBVIOUS
<1>2. SettingsType' /\ FilesType' /\ Newest'
  BY <1>1 DEF IInv, TypeOK, SettingsType, FilesType, Newest
<1>3. ChangeType'
  BY <1>1 DEF IInv, TypeOK, ChangeType
<1>4. WorkerType'
  BY <1>1 DEF IInv, TypeOK, WorkerType
<1>5. Planned'
  BY <1>1 DEF IInv, TypeOK, Planned, SettingsType, ChangeType, FilesType, WorkerType, Phased
<1>6. Phased'
  BY <1>1 DEF IInv, TypeOK, Phased
<1>7. Relocating'
  BY <1>1 DEF IInv, TypeOK, Relocating
<1>8. SystemWhole'
  BY <1>1 DEF IInv, TypeOK, SystemWhole
<1>9. Registered'
  BY <1>1 DEF IInv, TypeOK, Registered
<1>10. Pooled'
  BY <1>1 DEF IInv, TypeOK, Pooled
<1>11. Unwritten'
  BY <1>1 DEF IInv, TypeOK, Unwritten
<1>12. OriginalThere'
  BY <1>1 DEF IInv, TypeOK, OriginalThere
<1>13. CopyIsOriginal'
  BY <1>1 DEF IInv, TypeOK, CopyIsOriginal
<1>14. Recorded'
  BY <1>1 DEF IInv, TypeOK, Recorded
<1> QED
  BY <1>2, <1>3, <1>4, <1>5, <1>6, <1>7, <1>8, <1>9, <1>10, <1>11, <1>12, <1>13, <1>14 DEF IInv,
    TypeOK

\* The pool becomes the target's before the phase says so.
LEMMA GuestInv ==
  ASSUME IInv, TickGuest \/ ApplyPool \/ SaveVerified
  PROVE  IInv'
<1> USE DEF TickGuest, ApplyPool, PoolTakes, SaveVerified
<1>1. UNCHANGED <<locations, generation, retained, system, home, source, target, nextSystem,
                  paused, plugged, images, staged, registry, boot, attached, at, written>>
  OBVIOUS
<1>2. SettingsType' /\ FilesType' /\ Newest'
  BY <1>1 DEF IInv, TypeOK, SettingsType, FilesType, Newest
<1>3. ChangeType'
  BY <1>1 DEF IInv, TypeOK, ChangeType
<1>4. WorkerType'
  <2>1. CASE TickGuest
    BY <1>1, <2>1 DEF IInv, TypeOK, WorkerType, ChangeType, SettingsType, Planned, Phased
  <2>2. CASE ApplyPool
    BY <1>1, <2>2 DEF IInv, TypeOK, WorkerType, ChangeType, SettingsType, Planned, Phased
  <2>3. CASE SaveVerified
    BY <1>1, <2>3 DEF IInv, TypeOK, WorkerType, ChangeType, SettingsType, Planned, Phased
  <2> QED
    BY <2>1, <2>2, <2>3
<1>5. Planned'
  BY <1>1 DEF IInv, TypeOK, Planned, SettingsType, ChangeType, FilesType, WorkerType
<1>6. Phased'
  BY <1>1 DEF IInv, TypeOK, Phased
<1>7. Relocating'
  BY <1>1 DEF IInv, TypeOK, Relocating
<1>8. SystemWhole'
  BY <1>1 DEF IInv, TypeOK, SystemWhole
<1>9. Registered'
  BY <1>1 DEF IInv, TypeOK, Registered, SettingsType, ChangeType, FilesType, WorkerType, Planned,
              Phased
<1>10. Pooled'
  BY <1>1 DEF IInv, TypeOK, Pooled, SettingsType, ChangeType, FilesType, WorkerType, Planned,
              Phased
<1>11. Unwritten'
  BY <1>1 DEF IInv, TypeOK, Unwritten, SettingsType, ChangeType, FilesType, WorkerType, Planned,
              Phased
<1>12. OriginalThere'
  BY <1>1 DEF IInv, TypeOK, OriginalThere
<1>13. CopyIsOriginal'
  BY <1>1 DEF IInv, TypeOK, CopyIsOriginal
<1>14. Recorded'
  BY <1>1 DEF IInv, TypeOK, Recorded
<1> QED
  BY <1>2, <1>3, <1>4, <1>5, <1>6, <1>7, <1>8, <1>9, <1>10, <1>11, <1>12, <1>13, <1>14 DEF IInv,
    TypeOK

\* Only the directory a relocation left is removed.
LEMMA VerifiedInv ==
  ASSUME IInv, TickVerified \/ RemoveSource \/ ForgetSource
  PROVE  IInv'
<1> USE DEF TickVerified, SystemVerified, RemoveSource, ForgetSource
<1>1. UNCHANGED <<locations, generation, retained, system, home, phase, target, nextSystem,
                  paused, plugged, images, staged, registry, attached, running, pool,
                  poolGeneration, at, written>>
  OBVIOUS
<1>2. WorkerType' /\ Planned' /\ Registered' /\ Pooled' /\ Unwritten'
  BY <1>1 DEF IInv, TypeOK, WorkerType, Planned, Registered, Pooled, Unwritten
<1>3. Newest' /\ OriginalThere' /\ Recorded'
  BY <1>1 DEF IInv, TypeOK, Newest, OriginalThere, Recorded
<1>4. SettingsType'
  BY <1>1 DEF IInv, TypeOK, SettingsType
<1>5. ChangeType'
  BY <1>1 DEF IInv, TypeOK, ChangeType
<1>6. FilesType'
  <2>1. CASE TickVerified
    BY <1>1, <2>1 DEF IInv, TypeOK, FilesType
  <2>2. CASE RemoveSource
    BY <1>1, <2>2 DEF IInv, TypeOK, FilesType
  <2>3. CASE ForgetSource
    BY <1>1, <2>3 DEF IInv, TypeOK, FilesType
  <2> QED
    BY <2>1, <2>2, <2>3
<1>7. Phased'
  BY <1>1 DEF IInv, TypeOK, Phased
<1>8. Relocating'
  BY <1>1 DEF IInv, TypeOK, Relocating
<1>9. SystemWhole'
  <2>1. CASE TickVerified
    BY <1>1, <2>1 DEF IInv, TypeOK, SystemWhole, Relocating, Phased, FilesType, SettingsType
  <2>2. CASE RemoveSource
    BY <1>1, <2>2 DEF IInv, TypeOK, SystemWhole, Relocating, Phased, FilesType, SettingsType
  <2>3. CASE ForgetSource
    BY <1>1, <2>3 DEF IInv, TypeOK, SystemWhole, Relocating, Phased, FilesType, SettingsType
  <2> QED
    BY <2>1, <2>2, <2>3
<1>10. CopyIsOriginal'
  BY <1>1 DEF IInv, TypeOK, CopyIsOriginal
<1> QED
  BY <1>2, <1>3, <1>4, <1>5, <1>6, <1>7, <1>8, <1>9, <1>10 DEF IInv, TypeOK

\* The settings take over what the phases before have made true.
LEMMA CompleteInv ==
  ASSUME IInv, Complete
  PROVE  IInv'
<1> USE DEF Complete, Left
<1>1. UNCHANGED <<system, home, source, target, nextSystem, plugged, images, staged, registry,
                  boot, attached, running, pool, poolGeneration, at, written>>
  OBVIOUS
<1>2. FilesType' /\ WorkerType' /\ Newest'
  BY <1>1 DEF IInv, TypeOK, FilesType, WorkerType, Newest
<1>3. SettingsType'
  BY <1>1 DEF IInv, TypeOK, SettingsType, ChangeType, FilesType, WorkerType, Planned, Phased
<1>4. ChangeType'
  BY <1>1 DEF IInv, TypeOK, ChangeType
<1>5. Planned'
  BY <1>1 DEF IInv, TypeOK, Planned, SettingsType, ChangeType, FilesType, WorkerType, Phased
<1>6. Phased'
  BY <1>1 DEF IInv, TypeOK, Phased
<1>7. Relocating'
  BY <1>1 DEF IInv, TypeOK, Relocating
<1>8. SystemWhole'
  BY <1>1 DEF IInv, TypeOK, SystemWhole
<1>9. Registered'
  BY <1>1 DEF IInv, TypeOK, Registered, SettingsType, ChangeType, FilesType, WorkerType, Planned,
              Phased
<1>10. Pooled'
  BY <1>1 DEF IInv, TypeOK, Pooled, SettingsType, ChangeType, FilesType, WorkerType, Planned,
              Phased
<1>11. Unwritten'
  BY <1>1 DEF IInv, TypeOK, Unwritten
<1>12. OriginalThere'
  BY <1>1 DEF IInv, TypeOK, OriginalThere
<1>13. CopyIsOriginal'
  BY <1>1 DEF IInv, TypeOK, CopyIsOriginal
<1>14. Recorded'
  <2> SUFFICES ASSUME NEW v \in Dirs, NEW d \in Disks, images[v][d] # NoImage
             PROVE  target[d].dir = v \/ \E c \in retained' : c.disk = d /\ c.dir = v
    BY <1>1 DEF Recorded
  <2>1. CASE locations[d].dir = v /\ target[d].dir # v
    <3>1. locations[d].gib > 0
      BY <2>1 DEF IInv, Planned
    <3>2. [disk |-> d, dir |-> v, gib |-> locations[d].gib] \in Left
      BY <2>1, <3>1
    <3>3. [disk |-> d, dir |-> v, gib |-> locations[d].gib] \in retained'
      BY <3>2
    <3> QED
      BY <3>3
  <2> QED
    BY <2>1 DEF IInv, Recorded
<1> QED
  BY <1>2, <1>3, <1>4, <1>5, <1>6, <1>7, <1>8, <1>9, <1>10, <1>11, <1>12, <1>13, <1>14 DEF IInv,
    TypeOK

\* A cleanup erases nothing the settings name.
LEMMA EraseInv ==
  ASSUME IInv, NEW c \in Copy, EraseCopy(c)
  PROVE  IInv'
<1> USE DEF EraseCopy, Removable
<1>1. UNCHANGED <<locations, generation, retained, system, home, source, phase, target,
                  nextSystem, paused, plugged, staged, registry, boot, attached, running, pool,
                  poolGeneration, task, at, written>>
  OBVIOUS
<1>2. SettingsType' /\ ChangeType' /\ WorkerType' /\ Planned' /\ Phased'
  BY <1>1 DEF IInv, TypeOK, SettingsType, ChangeType, WorkerType, Planned, Phased
<1>3. Relocating' /\ SystemWhole' /\ Pooled'
  BY <1>1 DEF IInv, TypeOK, Relocating, SystemWhole, Pooled
<1>4. FilesType'
  <2>1. c.dir \in Dirs /\ c.disk \in Disks
    OBVIOUS
  <2>2. images[c.dir][c.disk] \in Image
    BY <2>1 DEF IInv, TypeOK, FilesType
  <2>3. images'[c.dir][c.disk] \in Image
    <3>1. images'[c.dir][c.disk] =
            IF images[c.dir][c.disk].size > 0
            THEN [gib |-> images[c.dir][c.disk].gib, size |-> 0, data |-> 0] ELSE NoImage
      BY <2>1 DEF IInv, TypeOK, FilesType
    <3> QED
      BY <2>2, <3>1
  <2> QED
    BY <1>1, <2>1, <2>3 DEF IInv, TypeOK, FilesType
<1>5. Registered'
  <2>1. phase = "none" /\ locations[c.disk].dir # c.dir /\ Registered
    BY DEF IInv
  <2>2. \A e \in Members(locations) : images'[locations[e].dir][e] = images[locations[e].dir][e]
    <3> SUFFICES ASSUME NEW e \in Members(locations)
               PROVE  images'[locations[e].dir][e] = images[locations[e].dir][e]
      OBVIOUS
    <3>1. locations[e].dir \in Dirs
      BY DEF IInv, TypeOK, SettingsType, Planned
    <3>2. e # c.disk \/ locations[e].dir # c.dir
      BY <2>1
    <3> QED
      BY <3>1, <3>2 DEF IInv, TypeOK, FilesType
  <2>3. \A e \in Members(locations) : Is(e, locations[e])'
    <3> SUFFICES ASSUME NEW e \in Members(locations) PROVE Is(e, locations[e])'
      OBVIOUS
    <3>1. Is(e, locations[e])
      BY <2>1 DEF Registered
    <3>2. images'[locations[e].dir][e] = images[locations[e].dir][e]
      BY <2>2
    <3>3. registry' = registry /\ locations' = locations
      BY <1>1
    <3> QED
      BY <3>1, <3>2, <3>3
  <2>4. Members(locations)' = Members(locations) /\ phase' = "none"
    BY <1>1, <2>1
  <2> QED
    BY <2>3, <2>4 DEF Registered
<1>6. Unwritten'
  BY <1>1 DEF IInv, TypeOK, Unwritten
<1>7. Newest'
  BY <1>1 DEF IInv, TypeOK, Newest, SettingsType, ChangeType, FilesType, WorkerType
<1>8. OriginalThere'
  BY <1>1 DEF IInv, TypeOK, OriginalThere
<1>9. CopyIsOriginal'
  BY <1>1 DEF IInv, TypeOK, CopyIsOriginal
<1>10. Recorded'
  BY <1>1 DEF IInv, TypeOK, Recorded
<1> QED
  BY <1>2, <1>3, <1>4, <1>5, <1>6, <1>7, <1>8, <1>9, <1>10 DEF IInv, TypeOK

\* A record goes when its files are gone.
LEMMA ForgetInv ==
  ASSUME IInv, NEW c \in Copy, ForgetCopy(c)
  PROVE  IInv'
<1> USE DEF ForgetCopy, Removable
<1>1. UNCHANGED <<locations, generation, system, home, source, phase, target, nextSystem, paused,
                  plugged, images, staged, registry, boot, attached, running, pool,
                  poolGeneration, task, at, written>>
  OBVIOUS
<1>2. ChangeType' /\ FilesType' /\ WorkerType' /\ Planned' /\ Phased'
  BY <1>1 DEF IInv, TypeOK, ChangeType, FilesType, WorkerType, Planned, Phased
<1>3. Relocating' /\ SystemWhole' /\ Registered' /\ Pooled' /\ Unwritten'
  <2> HIDE DEF ForgetCopy, Removable
  <2>1. Relocating' /\ SystemWhole'
    BY <1>1 DEF IInv, Relocating, SystemWhole
  <2>2. Registered' /\ Pooled' /\ Unwritten'
    BY <1>1 DEF IInv, Registered, Pooled, Unwritten
  <2> QED
    BY <2>1, <2>2
<1>4. Newest' /\ OriginalThere' /\ CopyIsOriginal'
  BY <1>1 DEF IInv, TypeOK, Newest, OriginalThere, CopyIsOriginal
<1>5. SettingsType'
  BY <1>1 DEF IInv, TypeOK, SettingsType
<1>6. Recorded'
  BY <1>1 DEF IInv, TypeOK, Recorded
<1> QED
  BY <1>2, <1>3, <1>4, <1>5, <1>6 DEF IInv, TypeOK

LEMMA StutterInv == IInv /\ UNCHANGED vars => IInv'
<1> SUFFICES ASSUME IInv, UNCHANGED vars PROVE IInv'
  OBVIOUS
<1> USE DEF vars
<1>1. TypeOK'
  BY DEF IInv, TypeOK, SettingsType, ChangeType, FilesType, WorkerType
<1>2. Planned' /\ Phased' /\ Relocating' /\ SystemWhole' /\ Pooled'
  BY DEF IInv, Planned, Phased, Relocating, SystemWhole, Pooled
<1>3. Registered' /\ Unwritten' /\ Newest'
  BY DEF IInv, Registered, Unwritten, Newest
<1>4. OriginalThere' /\ CopyIsOriginal' /\ Recorded'
  BY DEF IInv, OriginalThere, CopyIsOriginal, Recorded
<1> QED
  BY <1>1, <1>2, <1>3, <1>4 DEF IInv

\* The invariant is inductive.
LEMMA NextInv == IInv /\ [Next]_vars => IInv'
<1> SUFFICES ASSUME IInv, Next PROVE IInv'
  BY StutterInv
<1>1. CASE Owner
  BY <1>1, ApplyInv, WaitInv DEF Owner
<1>2. CASE Host
  BY <1>2, HostInv, WriteInv DEF Host
<1>3. CASE \E d \in Disks : Disk(d)
  BY <1>3, CreateInv, StageNewInv, StageInv, ResizeInv DEF Disk
<1>4. CASE Step
  BY <1>3, <1>4, BeginInv, RelocateInv, CopySystemInv, CommitInv, ReceiptInv, ConfigureInv,
     GuestInv, VerifiedInv, CompleteInv DEF Step
<1>5. CASE Cleanup
  BY <1>5, EraseInv, ForgetInv DEF Cleanup
<1>6. CASE Configure(FALSE) \/ (\E d \in Disks : StageTorn(d)) \/ Fail
  BY <1>6, BeginInv, ConfigureInv, TornInv
<1> QED
  BY <1>1, <1>2, <1>4, <1>5, <1>6 DEF Next

LEMMA Invariance == Spec => []IInv
<1> QED
  BY InitInv, NextInv, PTL DEF Spec

(***************************************************************************)
(* The settings, the files and the tick keep their types.                  *)
(***************************************************************************)
THEOREM TypeCorrect == Spec => []TypeOK
<1>1. IInv => TypeOK
  BY DEF IInv
<1> QED
  BY <1>1, Invariance, PTL

(***************************************************************************)
(* "Moves preserve the original image until the replacement has been       *)
(* checked", whatever becomes of the ticks that move it.                   *)
(***************************************************************************)
THEOREM OriginalsAreKept == Spec => []OriginalIsKept
<1>1. IInv => OriginalIsKept
  <2> SUFFICES ASSUME IInv, phase \in {"pending", "disks"} PROVE OriginalIsKept
    BY DEF OriginalIsKept
  <2>1. ASSUME NEW d \in Members(locations)
        PROVE  LET i == images[locations[d].dir][d] IN
                 /\ i.size >= locations[d].gib /\ \A v \in Dirs : images[v][d].data <= i.data
                 /\ Moved(d) => i.gib = locations[d].gib
    <3>1. locations[d].dir \in Dirs /\ target[d].dir \in Dirs /\ registry[d] \in Dirs
      BY DEF IInv, TypeOK, SettingsType, ChangeType, Planned, Registered
    <3>2. /\ images[locations[d].dir][d].size >= locations[d].gib
          /\ Moved(d) => images[locations[d].dir][d].gib = locations[d].gib
          /\ images[locations[d].dir][d].data = images[registry[d]][d].data
      BY DEF IInv, TypeOK, SettingsType, OriginalThere, Registered
    <3>3. \A v \in Dirs : images[v][d].data <= images[registry[d]][d].data
      BY <3>1 DEF IInv, Newest
    <3> QED
      BY <3>2, <3>3
  <2>2. \A v \in Dirs : boot[v] <= boot[IF source = None THEN home ELSE source]
    BY DEF IInv, SystemWhole, Relocating
  <2> QED
    BY <2>1, <2>2 DEF OriginalIsKept
<1> QED
  BY <1>1, Invariance, PTL

(***************************************************************************)
(* What Lima attaches changes in Configure only; otherwise one list of     *)
(* disks takes the place of an equal one.                                  *)
(***************************************************************************)
LEMMA AttachedInv ==
  ASSUME IInv, Attached, [Next]_vars PROVE Attached'
<1> USE DEF Attached
<1>1. CASE UNCHANGED <<phase, attached, locations, target>>
  BY <1>1
<1>2. CASE Owner
  <2>1. CASE \E places \in [Disks -> Place], s \in Disks, held \in BOOLEAN : Apply(places, s, held)
    BY <2>1 DEF Apply
  <2>2. CASE Withdraw
    BY <2>2 DEF Withdraw
  <2>3. CASE Pause \/ Resume \/ Interrupt
    BY <1>1, <2>3 DEF Pause, Resume, Interrupt
  <2> QED
    BY <1>2, <2>1, <2>2, <2>3 DEF Owner
<1>3. CASE Host
  BY <1>1, <1>3 DEF Host, Plug, Unplug, Write, Stops, Serve
<1>4. CASE Step
  <2>1. CASE TickPending
    BY <2>1 DEF TickPending
  <2>2. CASE Configure(TRUE)
    BY <2>2 DEF Configure, Attach, IInv, Phased
  <2>3. CASE SaveVerified
    BY <2>3 DEF SaveVerified, IInv, Phased
  <2>4. CASE Complete
    BY <2>4 DEF Complete, IInv, Phased
  <2>5. CASE \E d \in Disks : Disk(d)
    BY <1>1, <2>5
       DEF Disk, LimaCreate, StageNew, Unregister, Link, StageMove, Resize
  <2>6. CASE \/ TickDisks \/ Relabel \/ RecordSource \/ CopySystem \/ SwitchHome
             \/ CommitMove \/ SaveReceipt
    BY <1>1, <2>6
       DEF TickDisks, Relabel, RecordSource, CopySystem, SwitchHome, CommitMove, SaveReceipt
  <2>7. CASE TickGuest \/ ApplyPool \/ TickVerified \/ RemoveSource \/ ForgetSource
    BY <1>1, <2>7 DEF TickGuest, ApplyPool, TickVerified, RemoveSource, ForgetSource
  <2> QED
    BY <1>4, <2>1, <2>2, <2>3, <2>4, <2>5, <2>6, <2>7 DEF Step
<1>5. CASE Cleanup
  BY <1>1, <1>5 DEF Cleanup, EraseCopy, ForgetCopy
<1>6. CASE Configure(FALSE)
  BY <1>6 DEF Configure, Attach, IInv, Phased
<1>7. CASE (\E d \in Disks : StageTorn(d)) \/ Fail \/ UNCHANGED vars
  BY <1>1, <1>7 DEF StageTorn, Fail
<1> QED
  BY <1>2, <1>3, <1>4, <1>5, <1>6, <1>7 DEF Next

LEMMA AttachedInvariance == Spec => []Attached
<1>1. Init => Attached
  BY DEF Init, Attached
<1> QED
  BY <1>1, AttachedInv, Invariance, PTL DEF Spec

(***************************************************************************)
(* Between changes settings, files, Lima's registry and attached disks,    *)
(* pool and runtime directory agree, and there is one system image.        *)
(***************************************************************************)
THEOREM RecordsMatch == Spec => []RecordedMatches
<1>1. IInv /\ Attached => RecordedMatches
  <2> SUFFICES ASSUME IInv, Attached, phase = "none" PROVE RecordedMatches
    BY DEF RecordedMatches
  <2>1. \A d \in Members(locations) : Is(d, locations[d])
    BY DEF IInv, Registered
  <2>2. attached = Members(locations)
    BY DEF Attached
  <2>3. pool = [d \in Disks |-> locations[d].gib] /\ poolGeneration = generation
    BY DEF IInv, Pooled, TypeOK, WorkerType
  <2>4. home = locations[system].dir /\ source = None
    BY DEF IInv, Planned, Relocating
  <2>5. \A v \in Dirs : boot[v] > 0 <=> v = home
    BY <2>4 DEF IInv, SystemWhole
  <2> QED
    BY <2>1, <2>2, <2>3, <2>4, <2>5 DEF RecordedMatches
<1> QED
  BY <1>1, Invariance, AttachedInvariance, PTL

(***************************************************************************)
(* No file the agent made is unknown to the settings.                      *)
(***************************************************************************)
THEOREM NoneForgotten == Spec => []NothingForgotten
<1>1. IInv => NothingForgotten
  BY DEF IInv, Recorded, NothingForgotten
<1> QED
  BY <1>1, Invariance, PTL

-----------------------------------------------------------------------------
(***************************************************************************)
(* The refinement.  Every step leaves a disk and what it holds alone, makes *)
(* it, moves it with all it holds, or writes to it.                        *)
(***************************************************************************)
LEMMA Mapped ==
  ASSUME FilesType, SettingsType
  PROVE  /\ WhereIs \in [Items -> Dirs \cup {None}]
         /\ Holds \in [Items -> Nat]
<1>1. WhereIs \in [Items -> Dirs \cup {None}]
  BY DEF FilesType, SettingsType, WhereIs, Items
<1>2. ASSUME NEW x \in Disks, registry[x] \in Dirs PROVE images[registry[x]][x].data \in Nat
  BY <1>2 DEF FilesType
<1>3. boot[home] \in Nat
  BY DEF FilesType, SettingsType
<1> QED
  BY <1>1, <1>2, <1>3 DEF Holds, Items

\* What decides where the disks are and what they hold.
LEMMA Unmapped ==
  ASSUME home' = home, boot'[home] = boot[home],
         \A d \in Disks :
           /\ registry'[d] = registry[d] \/ (registry'[d] \notin Dirs /\ registry[d] \notin Dirs)
           /\ registry[d] \in Dirs =>
                images'[registry[d]][d].data = images[registry[d]][d].data
  PROVE  UNCHANGED <<WhereIs, Holds>>
<1>1. WhereIs' = WhereIs
  BY DEF WhereIs, Items
<1>2. Holds' = Holds
  BY DEF Holds, Items
<1> QED
  BY <1>1, <1>2

Elsewhere ==
  \/ Owner \/ (\E v \in Dirs : Plug(v) \/ Unplug(v)) \/ Stops \/ Serve
  \/ TickPending \/ TickDisks \/ Relabel \/ RecordSource
  \/ (\E saved \in BOOLEAN : Configure(saved)) \/ (\E d \in Disks : StageTorn(d))
  \/ TickGuest \/ ApplyPool \/ SaveVerified
  \/ TickVerified \/ ForgetSource \/ Complete \/ (\E c \in Copy : ForgetCopy(c)) \/ Fail

LEMMA ElsewhereMaps == Elsewhere => UNCHANGED <<WhereIs, Holds>>
<1> SUFFICES ASSUME Elsewhere PROVE UNCHANGED <<WhereIs, Holds>>
  OBVIOUS
<1>1. UNCHANGED <<home, boot, registry, images>>
  BY DEF Elsewhere, Owner, Apply, Pause, Resume, Withdraw, Interrupt, Plug, Unplug, Stops, Serve,
         TickPending, TickDisks, Relabel, RecordSource, Configure, StageTorn, TickGuest,
           ApplyPool,
         SaveVerified, TickVerified, ForgetSource, Complete, ForgetCopy, Fail
<1> QED
  BY <1>1 DEF WhereIs, Holds

LEMMA SystemMaps ==
  ASSUME IInv, CopySystem \/ RemoveSource
  PROVE  UNCHANGED <<WhereIs, Holds>>
<1>1. UNCHANGED <<home, registry, images>>
  BY DEF CopySystem, RemoveSource
<1>2. boot'[home] = boot[home]
  BY DEF CopySystem, RemoveSource, IInv, TypeOK, FilesType, SettingsType, Relocating, Phased
<1> QED
  BY <1>1, <1>2, Unmapped

LEMMA SwitchMaps == ASSUME IInv, SwitchHome PROVE Worker!Move(System)
<1>1. WhereIs' = [WhereIs EXCEPT ![System] = NewHome]
  BY DEF SwitchHome, WhereIs, Items
<1>2. Holds' = Holds
  BY DEF SwitchHome, Holds, IInv, SystemWhole
<1>3. NewHome \in Dirs /\ WhereIs[System] # None
  BY DEF IInv, TypeOK, SettingsType, ChangeType, Planned, WhereIs, Items
<1> QED
  BY <1>1, <1>2, <1>3 DEF Worker!Move

\* Images are made, copied, grown and erased where no link leads, or keep their data.
LEMMA FilesMap ==
  ASSUME IInv,
         \/ \E d \in Disks : StageNew(d) \/ StageMove(d) \/ Resize(d)
         \/ SaveReceipt \/ \E c \in Copy : EraseCopy(c)
  PROVE  UNCHANGED <<WhereIs, Holds>>
<1>1. UNCHANGED <<home, boot, registry>>
  BY DEF StageNew, StageMove, Resize, SaveReceipt, EraseCopy
<1>2. ASSUME NEW e \in Disks, registry[e] \in Dirs
      PROVE  images'[registry[e]][e].data = images[registry[e]][e].data
  <2>1. CASE \E d \in Disks : StageNew(d)
    <3>1. PICK d \in Disks : StageNew(d)
      BY <2>1
    <3>2. \A v \in Dirs : v # target[d].dir \/ e # d => images'[v][e] = images[v][e]
      BY <3>1 DEF StageNew, IInv, TypeOK, FilesType
    <3>3. registry[d] \notin Dirs
      BY <3>1 DEF StageNew
    <3> QED
      BY <1>2, <3>2, <3>3
  <2>2. CASE \E d \in Disks : StageMove(d)
    <3>1. PICK d \in Disks : StageMove(d)
      BY <2>2
    <3>2. \A v \in Dirs : v # target[d].dir \/ e # d => images'[v][e] = images[v][e]
      BY <3>1 DEF StageMove, IInv, TypeOK, FilesType
    <3>3. registry[d] # target[d].dir
      BY <3>1 DEF StageMove, Stages
    <3> QED
      BY <1>2, <3>2, <3>3
  <2>3. CASE \E d \in Disks : Resize(d)
    <3>1. PICK d \in Disks : Resize(d)
      BY <2>3
    <3>2. images'[registry[e]][e] \in {images[registry[e]][e],
                                       [images[registry[e]][e] EXCEPT !.size = target[d].gib]}
      BY <1>2, <3>1 DEF Resize, IInv, TypeOK, FilesType
    <3> QED
      BY SMTT(30), <1>2, <3>2 DEF IInv, TypeOK, FilesType
  <2>4. CASE SaveReceipt
    BY <1>2, <2>4 DEF SaveReceipt, IInv, TypeOK, FilesType
  <2>5. CASE \E c \in Copy : EraseCopy(c)
    <3>1. PICK c \in Copy : EraseCopy(c)
      BY <2>5
    <3>2. \A v \in Dirs : v # c.dir \/ e # c.disk => images'[v][e] = images[v][e]
      <4> SUFFICES ASSUME NEW v \in Dirs, v # c.dir \/ e # c.disk
                 PROVE  images'[v][e] = images[v][e]
        OBVIOUS
      <4>1. images \in [Dirs -> [Disks -> Image]] /\ c.dir \in Dirs
        BY DEF IInv, TypeOK, FilesType
      <4>2. CASE v # c.dir
        BY <3>1, <4>1, <4>2 DEF EraseCopy
      <4>3. CASE e # c.disk
        <5>1. images[c.dir] \in [Disks -> Image] /\ e \in DOMAIN images[c.dir]
          BY <4>1
        <5>2. images'[c.dir][e] = images[c.dir][e]
          BY <3>1, <4>1, <4>3, <5>1 DEF EraseCopy
        <5> QED
          BY <4>2, <5>2
      <4> QED
        BY <4>2, <4>3
    <3>3. registry[c.disk] # c.dir
      BY <3>1 DEF EraseCopy, Removable
    <3> QED
      BY <1>2, <3>2, <3>3
  <2> QED
    BY <2>1, <2>2, <2>3, <2>4, <2>5
<1> QED
  BY <1>1, <1>2, Unmapped

LEMMA RegistryMaps ==
  ASSUME IInv, NEW d \in Disks, LimaCreate(d) \/ Unregister(d)
  PROVE  UNCHANGED <<WhereIs, Holds>>
<1>1. UNCHANGED <<home, boot, images>>
  BY DEF LimaCreate, Unregister
<1>2. \A e \in Disks : registry'[e] = registry[e] \/ (registry'[e] \notin Dirs /\ registry[e]
  \notin Dirs)
  BY DEF LimaCreate, Unregister, IInv, TypeOK, FilesType
<1> QED
  BY <1>1, <1>2, Unmapped

LEMMA LinkMaps == ASSUME IInv, NEW d \in Disks, Link(d) PROVE Worker!Make(d)
<1>1. target[d].dir \in Dirs /\ d # System /\ registry[d] = None
  BY DEF Link, IInv, TypeOK, FilesType
<1>2. registry' = [registry EXCEPT ![d] = target[d].dir] /\ UNCHANGED <<home, boot, images>>
  BY DEF Link
<1>3. WhereIs' = [WhereIs EXCEPT ![d] = target[d].dir]
  BY <1>1, <1>2 DEF WhereIs, Items, IInv, TypeOK, FilesType
<1>4. images[target[d].dir][d].data = 0
  BY <1>1 DEF Link, IInv, Unwritten, Phased
<1>5. Holds' = Holds
  BY <1>1, <1>2, <1>4 DEF Holds, Items, IInv, TypeOK, FilesType
<1>6. WhereIs[d] = None
  BY <1>1 DEF WhereIs, Items
<1> QED
  BY <1>1, <1>3, <1>5, <1>6 DEF Worker!Make

LEMMA CommitMaps == ASSUME IInv, CommitMove PROVE Worker!Move(at)
<1>1. /\ at \in Disks /\ at # System /\ registry[at] \in Dirs /\ target[at].dir \in Dirs
      /\ images[target[at].dir][at].data = images[registry[at]][at].data
  BY DEF CommitMove, IInv, TypeOK, SettingsType, ChangeType, FilesType, CopyIsOriginal
<1>2. registry' = [registry EXCEPT ![at] = target[at].dir] /\ UNCHANGED <<home, boot, images>>
  BY DEF CommitMove
<1>3. WhereIs' = [WhereIs EXCEPT ![at] = target[at].dir]
  BY <1>1, <1>2 DEF WhereIs, Items, IInv, TypeOK, FilesType
<1>4. Holds' = Holds
  BY <1>1, <1>2 DEF Holds, Items, IInv, TypeOK, FilesType
<1>5. WhereIs[at] # None
  BY <1>1 DEF WhereIs, Items
<1> QED
  BY <1>1, <1>3, <1>4, <1>5 DEF Worker!Move

LEMMA WriteMaps == ASSUME IInv, Write PROVE Worker!Write
<1>1. UNCHANGED <<home, registry>>
  BY DEF Write
<1>2. WhereIs' = WhereIs
  BY <1>1 DEF WhereIs
<1>3. boot'[home] >= boot[home]
  BY DEF Write, IInv, TypeOK, SettingsType, FilesType, SystemWhole
<1>4. ASSUME NEW d \in Disks, registry[d] \in Dirs
      PROVE  images'[registry[d]][d].data >= images[registry[d]][d].data
  <2>1. images[registry[d]][d] \in Image /\ images[registry[d]][d].data <= written
    BY <1>4 DEF IInv, TypeOK, FilesType, Newest
  <2> QED
    BY <1>4, <2>1 DEF Write, IInv, TypeOK, FilesType
<1>5. ASSUME NEW x \in Items
      PROVE  IF WhereIs[x] = None THEN Holds'[x] = Holds[x] ELSE Holds'[x] >= Holds[x]
  BY <1>1, <1>3, <1>4 DEF WhereIs, Holds, Items, IInv, TypeOK, SettingsType
<1> QED
  BY <1>2, <1>5 DEF Worker!Write

LEMMA StepMaps == IInv /\ [Next]_vars => [Worker!Next]_(Worker!vars)
<1> SUFFICES ASSUME IInv, [Next]_vars PROVE Worker!Next \/ UNCHANGED <<WhereIs, Holds>>
  BY DEF Worker!vars
<1>1. CASE UNCHANGED vars
  BY <1>1 DEF WhereIs, Holds
<1>2. CASE Elsewhere
  BY <1>2, ElsewhereMaps
<1>3. CASE Write
  BY <1>3, WriteMaps DEF Worker!Next
<1>4. CASE CopySystem \/ RemoveSource
  BY <1>4, SystemMaps
<1>5. CASE SwitchHome
  BY <1>5, SwitchMaps DEF Worker!Next, Items
<1>6. CASE \E d \in Disks : Disk(d)
  BY <1>6, FilesMap, RegistryMaps, LinkMaps DEF Disk, Worker!Next, Items
<1>7. CASE CommitMove
  BY <1>7, CommitMaps DEF Worker!Next, Items, IInv, TypeOK, ChangeType
<1>8. CASE SaveReceipt
  BY <1>8, FilesMap
<1>9. CASE \E c \in Copy : EraseCopy(c)
  BY <1>9, FilesMap
<1> QED
  BY <1>1, <1>2, <1>3, <1>4, <1>5, <1>6, <1>7, <1>8, <1>9
     DEF Next, Host, Step, Cleanup, Elsewhere

(***************************************************************************)
(* Storage changes implement WorkerDisks: no interleaving of the owner,    *)
(* failing ticks, volumes and cleanups empties a disk or the system image, *)
(* puts an older copy in its place or leaves it without one.               *)
(***************************************************************************)
THEOREM KeepsWorkerDisks == Spec => DisksKeepTheirData
<1>1. Init => Worker!Init
  BY InitInv, Mapped DEF Worker!Init, IInv, TypeOK
<1> QED
  BY <1>1, StepMaps, Invariance, PTL DEF Spec, DisksKeepTheirData, Worker!Spec
=============================================================================
