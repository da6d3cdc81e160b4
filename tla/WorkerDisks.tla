----------------------------- MODULE WorkerDisks -----------------------------
(***************************************************************************)
(* What a storage change promises.  The worker's data disks and its system *)
(* image each have one place, and whatever is done to them, what they hold *)
(* there is what was last written: a disk may be added, may be moved with  *)
(* all it holds, may be written to, and is never emptied, never replaced   *)
(* by an older copy and never without a place again.                       *)
(***************************************************************************)
EXTENDS Naturals

CONSTANTS Items,   \* the data disks and the system image
          Places,  \* where they can be
          None     \* the place of a disk that has not been made

VARIABLES place, held   \* held: how much has been written to the item

vars == <<place, held>>

Init ==
  /\ place \in [Items -> Places \cup {None}]
  /\ held \in [Items -> Nat]

Make(x) ==
  /\ place[x] = None
  /\ \E p \in Places : place' = [place EXCEPT ![x] = p]
  /\ UNCHANGED held

Move(x) ==
  /\ place[x] # None
  /\ \E p \in Places : place' = [place EXCEPT ![x] = p]
  /\ UNCHANGED held

Write ==
  /\ \A x \in Items : IF place[x] = None THEN held'[x] = held[x] ELSE held'[x] >= held[x]
  /\ UNCHANGED place

Next == Write \/ \E x \in Items : Make(x) \/ Move(x)

Spec == Init /\ [][Next]_vars
=============================================================================
