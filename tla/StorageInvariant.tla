-------------------------- MODULE StorageInvariant --------------------------
(***************************************************************************)
(* The inductive invariant of StorageMaintenance: for every phase and      *)
(* every step of the tick that runs it, where the worker's data is, what   *)
(* has been recorded and what has been removed.                            *)
(***************************************************************************)
EXTENDS StorageMaintenance

-----------------------------------------------------------------------------
(* The tick.                                                               *)

\* What is left of the tick.  While "save" is, it runs the saved phase.
StepsOf(steps) == {steps[n] : n \in 1..Len(steps)}
Left  == StepsOf(todo)
Saves == "save" \in Left
Since(step) == Saves /\ step \notin Left

\* The disks are away, or were when the tick began.
Missing == <<"halt", "miss", "inform">>

\* Every x of the steps comes before every y.
Before(steps, x, y) == \A m, n \in 1..Len(steps) : steps[m] = x /\ steps[n] = y => m < n

Ordered(steps) ==
  /\ Before(steps, "backup", "compare") /\ Before(steps, "make", "boot")
  /\ Before(steps, "boot", "apply") /\ Before(steps, "check", "detach")
  /\ Before(steps, "boot", "configure")
  /\ \A n \in 1..Len(steps) : steps[n] = "save" => n = Len(steps)

InOrder == Ordered(todo)

Routes ==
  /\ \/ Left \subseteq {"halt"}
     \/ Left \subseteq {"stopping"}
     \/ Saves /\ kind # "none" /\ Left \subseteq StepsOf(Steps) \cup {"save"}
     \/ kind = "none" /\ ~disabled /\ Lima /\ Left \subseteq StepsOf(Returning)
     \/ kind = "none" /\ ~disabled /\ Lima /\ Left \subseteq StepsOf(Missing)
  /\ "backup" \in Left => "compare" \in Left
  /\ phase = "Create" /\ Lima /\ "boot" \in Left /\ Saves => "apply" \in Left

\* The phases of each kind.
Phased ==
  /\ kind = "delete" => phase \in {"Drain", "Reset", "Delete", "Cleanup"}
  /\ kind = "recovery" =>
       Lima /\ phase \in {"Reset", "Delete", "Create", "Verify", "Bootstrap", "Capacity", "Cleanup"}
  /\ kind = "resize" /\ Lima => phase # "Reset"
  /\ disabled => kind \in {"none", "delete"}

-----------------------------------------------------------------------------
(* The machine and its pool.                                               *)

Remakes == kind \in {"resize", "recovery"}
Later2  == {"Restore", "Verify", "Bootstrap", "Capacity", "Cleanup"}

Placed ==
  /\ kind = "none" => IF disabled THEN ~installed /\ attached = 0
                      ELSE installed /\ attached = generation
  /\ kind = "delete" => attached \in {0, generation}
  /\ kind = "delete" /\ phase = "Cleanup" => ~installed /\ attached = 0
  /\ Remakes =>
       /\ phase \in {"Drain", "Backup"} => installed /\ attached = generation
       /\ phase \in {"BackupVerified", "Reset"} =>
            installed /\ attached \in {0, generation} /\ (Whole => attached = generation)
       /\ phase = "Delete" => attached \in {0, generation} /\ (~Whole => installed /\ attached = 0)
       /\ phase = "Create" =>
            /\ attached \in {0, generation + 1} /\ (~installed => attached = 0)
            /\ ~Lima /\ installed => attached = generation + 1
            /\ ~Whole => installed
            /\ Since("boot") => installed
            /\ Since("apply") /\ Lima => installed /\ attached = generation + 1
       /\ phase \in Later2 => installed /\ attached = generation + 1
  /\ kind # "none" /\ phase = "BackupVerified" /\ ~Whole /\ Since("retire") => attached = 0
  /\ kind # "none" /\ phase = "Delete" /\ Whole /\ Since("detach") => ~installed /\ attached = 0

\* Where a machine has to be off, or on.
Powered ==
  /\ phase = "Delete" /\ Since("check") => ~running
  /\ "configure" \in Left /\ "boot" \notin Left => running

\* Nothing is written between the backup and its restoration.
Resting2 == {"Backup", "BackupVerified", "Reset", "Delete", "Create", "Restore", "Verify"}
Quiet ==
  kind = "resize" /\ (phase \in Resting2 \/ (phase = "Drain" /\ Since("quiesce"))) =>
    ~k3s /\ ~active

-----------------------------------------------------------------------------
(* The data.                                                               *)

Kept ==
  /\ kind = "none" /\ ~disabled => data[generation] = written
  /\ kind = "resize" =>
       /\ phase \in {"Drain", "Backup"} => data[generation] = written
       /\ phase = "Backup" /\ Since("compare") => copy = data[attached]
       /\ phase \in Resting2 \ {"Backup"} => backup /\ copy = written
       /\ phase = "Verify" /\ Since("compare") => copy = data[attached]
       /\ phase \in {"Bootstrap", "Capacity", "Cleanup"} => data[generation + 1] = written

Made == kind # "none" /\ phase \notin {"Drain", "Backup", "BackupVerified", "Reset", "Delete"}

Bounded ==
  /\ copy <= written
  /\ \A g \in Generations : g >= generation => data[g] <= written
  /\ \A g \in Generations :
       g > generation + 1 \/ (g = generation + 1 /\ (~Made \/ kind = "delete")) => data[g] = Gone
  /\ kind = "recovery" => data[generation + 1] # Torn
  /\ kind = "recovery" /\ attached = generation + 1 => data[generation + 1] # Gone

-----------------------------------------------------------------------------
(* The images.                                                             *)

Former == retired \cup previous

Listed ==
  /\ \A i \in Former : i[2] <= generation
  /\ ~Lima => images = {} /\ locations = {} /\ target = {}
  /\ kind # "none" => locations \X {generation} \subseteq previous
  /\ kind # "none" /\ Lima /\ (Made \/ (phase = "Delete" /\ Since("list"))) =>
       previous \cap images \subseteq retired

Imaged ==
  Lima =>
    /\ kind = "none" /\ ~disabled => locations \X {generation} \subseteq images
    /\ Remakes /\ (phase \in Later2 \/ (phase = "Create" /\ (running \/ Since("make")))) =>
         target \X {generation + 1} \subseteq images

\* The credentials are dead before the disks are removed, until the new worker has its own.
Barred ==
  kind # "none" /\ Whole =>
    /\ phase \in {"Delete", "Create", "Restore", "Verify"} => ~access
    /\ phase = "Reset" /\ Since("reset") => ~access

(***************************************************************************)
(* Every reachable state satisfies this, and every step keeps it           *)
(* (agent/storage_lifecycle.rs).                                           *)
(***************************************************************************)
IInv ==
  /\ TypeOK /\ InOrder /\ Routes /\ Phased /\ Placed /\ Powered /\ Quiet /\ Kept /\ Bounded
  /\ Listed /\ Imaged /\ Barred /\ NothingForgotten
=============================================================================
