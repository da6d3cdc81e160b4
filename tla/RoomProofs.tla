----------------------------- MODULE RoomProofs -----------------------------
(***************************************************************************)
(* PromisedRoom, for every number of disks and directories and any sizes:  *)
(* what a change of storage leaves behind never takes the room a worker's  *)
(* disks were promised.  The review and the ticks add sizes up in          *)
(* different ways; the first half is about sums, the second shows that     *)
(* each check covers what the next one relies on.                          *)
(***************************************************************************)
EXTENDS GrowthProofs, FiniteSetTheorems, WellFoundedInduction

-----------------------------------------------------------------------------
(* Sums over finite sets.                                                  *)

\* Some of the sets a property holds of is smallest.
LEMMA SmallestSet ==
  ASSUME NEW D, IsFiniteSet(D), NEW Bad \in SUBSET (SUBSET D), Bad # {}
  PROVE  \E S \in Bad : \A T \in Bad : T \subseteq S => T = S
<1>1. IsWellFoundedOn(StrictSubsetOrdering(D), FiniteSubsetsOf(D))
  BY FS_StrictSubsetOrderingWellFounded
<1>2. Bad \subseteq FiniteSubsetsOf(D)
  BY FS_Subset DEF FiniteSubsetsOf
<1>3. PICK S \in Bad : \A T \in Bad : ~ (<<T, S>> \in StrictSubsetOrdering(D))
  BY <1>1, <1>2, WFMin
<1>4. ASSUME NEW T \in Bad, T \subseteq S PROVE T = S
  BY <1>3, <1>4 DEF StrictSubsetOrdering
<1> QED
  BY <1>4

(***************************************************************************)
(* What holds of the empty set, and of a set if it holds without some      *)
(* element, holds of every finite set; B are the subsets it holds of.      *)
(***************************************************************************)
LEMMA SetInduction ==
  ASSUME NEW D, IsFiniteSet(D), NEW B, {} \in B,
         \A S \in SUBSET D : S # {} /\ S \ {CHOOSE x \in S : TRUE} \in B => S \in B
  PROVE  \A S \in SUBSET D : S \in B
<1> DEFINE Bad == {S \in SUBSET D : S \notin B}
<1>1. SUFFICES ASSUME Bad # {} PROVE FALSE
  OBVIOUS
<1>2. PICK S \in Bad : \A T \in Bad : T \subseteq S => T = S
  <2>1. Bad \in SUBSET (SUBSET D)
    OBVIOUS
  <2> HIDE DEF Bad
  <2> QED
    BY <1>1, <2>1, SmallestSet
<1>3. S # {} /\ S \in SUBSET D /\ S \notin B
  OBVIOUS
<1>4. (CHOOSE x \in S : TRUE) \in S
  BY <1>3
<1>5. S \ {CHOOSE x \in S : TRUE} \in Bad
  BY <1>3
<1> QED
  BY <1>2, <1>4, <1>5

\* A sum of natural numbers is the number of these units.
Units(f, S) == {u \in S \X Nat : 1 <= u[2] /\ u[2] <= f[u[1]]}

LEMMA UnitsStep ==
  ASSUME NEW D, NEW f \in [D -> Nat], NEW S \in SUBSET D, NEW x \in S,
         IsFiniteSet(Units(f, S \ {x}))
  PROVE  /\ IsFiniteSet(Units(f, S))
         /\ Cardinality(Units(f, S)) = f[x] + Cardinality(Units(f, S \ {x}))
<1> DEFINE A == Units(f, S \ {x})
           X == {x} \X (1..f[x])
<1>1. Units(f, S) = A \cup X /\ A \cap X = {}
  BY DEF Units
<1>2. f[x] \in Nat
  OBVIOUS
<1>3. IsFiniteSet(X) /\ Cardinality(X) = f[x]
  <2>1. IsFiniteSet(1..f[x]) /\ Cardinality(1..f[x]) = f[x]
    BY <1>2, FS_Interval
  <2>2. IsFiniteSet({x}) /\ Cardinality({x}) = 1
    BY FS_Singleton
  <2>3. IsFiniteSet(X) /\ Cardinality(X) = Cardinality({x}) * Cardinality(1..f[x])
    BY <2>1, <2>2, FS_Product
  <2> QED
    BY <1>2, <2>1, <2>2, <2>3
<1> HIDE DEF A, X
<1>4. IsFiniteSet(A)
  BY DEF A
<1>5. /\ IsFiniteSet(A \cup X)
      /\ Cardinality(A \cup X) = Cardinality(A) + Cardinality(X) - Cardinality(A \cap X)
  BY <1>3, <1>4, FS_Union
<1>6. Cardinality(A \cap X) = 0
  BY <1>1, FS_EmptySet
<1>7. Cardinality(A) \in Nat
  BY <1>4, FS_CardinalityType
<1> QED
  BY <1>1, <1>3, <1>5, <1>6, <1>7 DEF A

LEMMA UnitsFinite ==
  ASSUME NEW D, IsFiniteSet(D), NEW f \in [D -> Nat]
  PROVE  \A S \in SUBSET D : IsFiniteSet(Units(f, S))
<1> DEFINE B == {S \in SUBSET D : IsFiniteSet(Units(f, S))}
<1>1. {} \in B
  <2>1. Units(f, {}) = {}
    BY DEF Units
  <2> QED
    BY <2>1, FS_EmptySet
<1>2. \A S \in SUBSET D : S # {} /\ S \ {CHOOSE x \in S : TRUE} \in B => S \in B
  BY UnitsStep
<1> HIDE DEF B
<1>3. \A S \in SUBSET D : S \in B
  BY <1>1, <1>2, SetInduction
<1> QED
  BY <1>3 DEF B

LEMMA SumIsUnits ==
  ASSUME NEW D, IsFiniteSet(D), NEW f \in [D -> Nat], NEW S \in SUBSET D
  PROVE  SumFunctionOnSet(f, S) = Cardinality(Units(f, S))
<1> DEFINE Add(g) == [s \in SUBSET S |->
                        IF s = {} THEN 0
                        ELSE f[CHOOSE x \in s : TRUE] + g[s \ {CHOOSE x \in s : TRUE}]]
           h == [s \in SUBSET S |-> Cardinality(Units(f, s))]
           it == CHOOSE g : g = Add(g)
<1>1. SumFunctionOnSet(f, S) = it[S]
  BY DEF SumFunctionOnSet, FoldFunctionOnSet, MapThenFoldSet
<1>2. IsFiniteSet(S)
  BY FS_Subset
<1>3. ASSUME NEW s \in SUBSET S, NEW x \in s
      PROVE  h[s] = f[x] + h[s \ {x}]
  BY UnitsFinite, UnitsStep
<1>4. h[{}] = 0
  <2>1. Units(f, {}) = {}
    BY DEF Units
  <2> QED
    BY <2>1, FS_EmptySet
<1> HIDE DEF h
<1>5. h = Add(h)
  <2>1. ASSUME NEW s \in SUBSET S, s # {}
        PROVE  h[s] = f[CHOOSE x \in s : TRUE] + h[s \ {CHOOSE x \in s : TRUE}]
    <3>1. (CHOOSE x \in s : TRUE) \in s
      BY <2>1
    <3> QED
      BY <1>3, <3>1
  <2>2. h = [s \in SUBSET S |-> h[s]]
    BY DEF h
  <2> QED
    BY <1>4, <2>1, <2>2
<1>6. it = Add(it)
  <2> HIDE DEF Add
  <2> QED
    BY <1>5
<1> HIDE DEF it
<1> DEFINE B == {s \in SUBSET S : it[s] = h[s]}
<1>7. {} \in B
  BY <1>4, <1>6
<1>8. ASSUME NEW s \in SUBSET S, s # {}, s \ {CHOOSE x \in s : TRUE} \in B
      PROVE  s \in B
  <2>1. (CHOOSE x \in s : TRUE) \in s
    BY <1>8
  <2>2. it[s] = f[CHOOSE x \in s : TRUE] + it[s \ {CHOOSE x \in s : TRUE}]
    BY <1>6, <1>8
  <2>3. it[s \ {CHOOSE x \in s : TRUE}] = h[s \ {CHOOSE x \in s : TRUE}]
    BY <1>8
  <2> QED
    BY <1>3, <2>1, <2>2, <2>3
<1> HIDE DEF B
<1>9. S \in B
  BY <1>2, <1>7, <1>8, SetInduction
<1> QED
  BY <1>1, <1>9 DEF B, h

\* Which member is taken out first does not matter.
LEMMA SumStep ==
  ASSUME NEW D, IsFiniteSet(D), NEW f \in [D -> Nat], NEW S \in SUBSET D
  PROVE  /\ SumFunctionOnSet(f, S) \in Nat
         /\ S = {} => SumFunctionOnSet(f, S) = 0
         /\ \A x \in S : SumFunctionOnSet(f, S) = f[x] + SumFunctionOnSet(f, S \ {x})
<1>1. IsFiniteSet(Units(f, S)) /\ Cardinality(Units(f, S)) \in Nat
  BY UnitsFinite, FS_CardinalityType
<1>2. S = {} => Cardinality(Units(f, S)) = 0
  BY FS_EmptySet DEF Units
<1>3. ASSUME NEW x \in S
      PROVE  SumFunctionOnSet(f, S) = f[x] + SumFunctionOnSet(f, S \ {x})
  <2>1. S \ {x} \in SUBSET D /\ IsFiniteSet(Units(f, S \ {x}))
    BY UnitsFinite
  <2>2. SumFunctionOnSet(f, S \ {x}) = Cardinality(Units(f, S \ {x}))
    BY <2>1, SumIsUnits
  <2>3. Cardinality(Units(f, S)) = f[x] + Cardinality(Units(f, S \ {x}))
    BY <2>1, UnitsStep
  <2> QED
    BY <2>2, <2>3, SumIsUnits
<1> QED
  BY <1>1, <1>2, <1>3, SumIsUnits

\* A sum of less is not more.
LEMMA SumMonotone ==
  ASSUME NEW D, IsFiniteSet(D), NEW f \in [D -> Nat], NEW g \in [D -> Nat],
         NEW S \in SUBSET D, \A x \in S : f[x] <= g[x]
  PROVE  SumFunctionOnSet(f, S) <= SumFunctionOnSet(g, S)
<1> DEFINE B == {T \in SUBSET S : SumFunctionOnSet(f, T) <= SumFunctionOnSet(g, T)}
<1>1. IsFiniteSet(S)
  BY FS_Subset
<1>2. {} \in B
  BY SumStep
<1>3. ASSUME NEW T \in SUBSET S, T # {}, T \ {CHOOSE x \in T : TRUE} \in B
      PROVE  T \in B
  <2>1. PICK x \in T : T \ {x} \in B
    BY <1>3
  <2>2. /\ SumFunctionOnSet(f, T) = f[x] + SumFunctionOnSet(f, T \ {x})
        /\ SumFunctionOnSet(g, T) = g[x] + SumFunctionOnSet(g, T \ {x})
        /\ SumFunctionOnSet(f, T \ {x}) \in Nat /\ SumFunctionOnSet(g, T \ {x}) \in Nat
    BY SumStep
  <2>3. f[x] \in Nat /\ g[x] \in Nat /\ f[x] <= g[x]
    OBVIOUS
  <2> QED
    BY <2>1, <2>2, <2>3
<1> HIDE DEF B
<1>4. \A T \in SUBSET S : T \in B
  BY <1>1, <1>2, <1>3, SetInduction
<1> QED
  BY <1>4 DEF B

\* Sums over the same set add up.
LEMMA SumOfTwo ==
  ASSUME NEW D, IsFiniteSet(D), NEW f \in [D -> Nat], NEW g \in [D -> Nat],
         NEW h \in [D -> Nat], NEW S \in SUBSET D, \A x \in S : h[x] = f[x] + g[x]
  PROVE  SumFunctionOnSet(h, S) = SumFunctionOnSet(f, S) + SumFunctionOnSet(g, S)
<1> DEFINE B == {T \in SUBSET S :
                   SumFunctionOnSet(h, T) = SumFunctionOnSet(f, T) + SumFunctionOnSet(g, T)}
<1>1. IsFiniteSet(S)
  BY FS_Subset
<1>2. {} \in B
  BY SumStep
<1>3. ASSUME NEW T \in SUBSET S, T # {}, T \ {CHOOSE x \in T : TRUE} \in B
      PROVE  T \in B
  <2>1. PICK x \in T : T \ {x} \in B
    BY <1>3
  <2>2. /\ SumFunctionOnSet(f, T) = f[x] + SumFunctionOnSet(f, T \ {x})
        /\ SumFunctionOnSet(g, T) = g[x] + SumFunctionOnSet(g, T \ {x})
        /\ SumFunctionOnSet(h, T) = h[x] + SumFunctionOnSet(h, T \ {x})
        /\ SumFunctionOnSet(f, T \ {x}) \in Nat /\ SumFunctionOnSet(g, T \ {x}) \in Nat
    BY SumStep
  <2>3. f[x] \in Nat /\ g[x] \in Nat /\ h[x] = f[x] + g[x]
    OBVIOUS
  <2> QED
    BY <2>1, <2>2, <2>3
<1> HIDE DEF B
<1>4. \A T \in SUBSET S : T \in B
  BY <1>1, <1>2, <1>3, SetInduction
<1> QED
  BY <1>4 DEF B

\* What is nothing outside a part can be summed over the part.
LEMMA SumOfPart ==
  ASSUME NEW D, IsFiniteSet(D), NEW S \in SUBSET D, NEW f \in [S -> Nat], NEW g \in [D -> Nat],
         \A x \in D : g[x] = IF x \in S THEN f[x] ELSE 0
  PROVE  SumFunction(f) = SumFunction(g)
<1>1. Units(f, S) = Units(g, D)
  BY DEF Units
<1>2. IsFiniteSet(S)
  BY FS_Subset
<1>3. SumFunctionOnSet(f, S) = Cardinality(Units(f, S))
  BY <1>2, SumIsUnits
<1>4. SumFunctionOnSet(g, D) = Cardinality(Units(g, D))
  BY SumIsUnits
<1> QED
  BY <1>1, <1>3, <1>4 DEF SumFunction

-----------------------------------------------------------------------------
(* What a step may do to the room of a volume.                             *)

USE GrowthAssumption
USE DEF vars, settings, layout, operation, files, worker, guest, tick,
        Place, Image, NoImage, NoPlace, Copy, Phases, Tasks, DiskTasks, Before,
        Real, Members, Moved, Arrived, NewHome, Placed, Is, Blank, PoolIsTarget
USE DEF OwnerMay, OwnerLeaves, HostLeaves, SystemLeaves, DisksLeave, VerifiedLeaves,
        CleanupLeaves, Ticks, At, Goto, End, Doing, New, Backing, Linked, Inspects, Cleans

(***************************************************************************)
(* Before and after a change only the disks the settings name grow, while  *)
(* it is done only those at their new places; a tick that passes the disks *)
(* has checked the room.                                                   *)
(***************************************************************************)
Frame ==
  /\ phase \in Before /\ phase' \in Before =>
       /\ UNCHANGED <<locations, home, staged>>
       /\ \A v \in Dirs, d \in Disks :
            locations[d].dir # v => Blocks(images[v][d])' <= Blocks(images[v][d])
  /\ phase \notin Before /\ phase' \notin Before =>
       /\ UNCHANGED <<target, nextSystem>>
       /\ \A v \in Dirs, d \in Disks :
            target[d].dir # v => Blocks(images[v][d])' = Blocks(images[v][d])
  /\ phase = "disks" /\ task = "idle" => TickDisks \/ (phase' = "disks" /\ task' = "idle")
  /\ phase \in Before /\ phase' \notin Before => TickPending
  /\ phase \notin Before /\ phase' \in Before => Complete

LEMMA BlocksAreNat ==
  ASSUME IInv
  PROVE  \A v \in Dirs, d \in Disks : images[v][d] \in Image /\ Blocks(images[v][d]) \in Nat
BY DEF IInv, TypeOK, FilesType, Blocks

\* What most steps leave alone.
Quiet ==
  /\ UNCHANGED <<locations, staged, phase, target, nextSystem, images, registry>>
  /\ phase # "disks" => UNCHANGED home
  /\ UNCHANGED <<task, at>> \/ task' # "staged"
  /\ phase = "disks" /\ task = "idle" => task' = "idle"

LEMMA QuietSteps ==
  ASSUME IInv,
         \/ Pause \/ Resume \/ Interrupt \/ (\E v \in Dirs : Plug(v) \/ Unplug(v)) \/ Stops \/ Serve
         \/ Relabel \/ RecordSource \/ CopySystem \/ SwitchHome
         \/ TickGuest \/ ApplyPool \/ TickVerified \/ RemoveSource \/ ForgetSource
         \/ (\E c \in Copy : ForgetCopy(c)) \/ Fail \/ UNCHANGED vars
  PROVE  Quiet
<1>1. CASE \/ Pause \/ Resume \/ Interrupt \/ (\E v \in Dirs : Plug(v) \/ Unplug(v)) \/ Stops
           \/ Serve \/ Fail \/ UNCHANGED vars
  BY <1>1 DEF Quiet, Pause, Resume, Interrupt, Plug, Unplug, Stops, Serve, Fail
<1>2. CASE Relabel \/ RecordSource \/ CopySystem \/ SwitchHome
  BY <1>2 DEF Quiet, Relabel, RecordSource, CopySystem, SwitchHome, IInv, Phased
<1>3. CASE TickGuest \/ ApplyPool \/ TickVerified \/ RemoveSource \/ ForgetSource
  BY <1>3 DEF Quiet, TickGuest, ApplyPool, TickVerified, RemoveSource, ForgetSource
<1>4. CASE \E c \in Copy : ForgetCopy(c)
  BY <1>4 DEF Quiet, ForgetCopy
<1> QED
  BY <1>1, <1>2, <1>3, <1>4

LEMMA QuietRoom ==
  ASSUME IInv, RoomInv, Quiet
  PROVE  Frame /\ Unfinished' /\ Ungrown'
<1>1. Frame
  <2>1. \A v \in Dirs, d \in Disks : Blocks(images[v][d])' = Blocks(images[v][d])
    BY DEF Quiet, Blocks
  <2> QED
    BY <2>1, BlocksAreNat DEF Quiet, Frame
<1>2. Unfinished'
  BY DEF Quiet, RoomInv, Unfinished
<1>3. Ungrown'
  BY DEF Quiet, RoomInv, Ungrown
<1> QED
  BY <1>1, <1>2, <1>3

LEMMA ApplyRoom ==
  ASSUME IInv, RoomInv,
         NEW places \in [Disks -> Place], NEW s \in Disks, NEW held \in BOOLEAN,
         Apply(places, s, held)
  PROVE  Frame /\ Unfinished' /\ Ungrown'
<1>1. Frame
  BY DEF Frame, Blocks, Apply, IInv, TypeOK, FilesType
<1>2. Unfinished'
  BY DEF RoomInv, Unfinished, Apply
<1>3. Ungrown'
  BY DEF Ungrown, Apply
<1> QED
  BY <1>1, <1>2, <1>3

LEMMA WithdrawRoom ==
  ASSUME IInv, RoomInv, Withdraw
  PROVE  Frame /\ Unfinished' /\ Ungrown'
<1>1. Frame
  BY DEF Frame, Blocks, Withdraw, IInv, TypeOK, FilesType
<1>2. Unfinished'
  BY DEF RoomInv, Unfinished, Withdraw
<1>3. Ungrown'
  BY DEF RoomInv, Ungrown, Withdraw
<1> QED
  BY <1>1, <1>2, <1>3

LEMMA WriteRoom ==
  ASSUME IInv, RoomInv, Write
  PROVE  Frame /\ Unfinished' /\ Ungrown'
<1>1. Frame
  <2>1. UNCHANGED <<locations, home, staged, target, nextSystem, phase, task>>
    BY DEF Write
  <2>2. ASSUME NEW v \in Dirs, NEW d \in Disks, ~ (pool[d] > 0 /\ registry[d] = v)
        PROVE  images'[v][d] = images[v][d]
    BY <2>2 DEF Write
  <2>3. ASSUME phase \in Before, NEW v \in Dirs, NEW d \in Disks, locations[d].dir # v
        PROVE  ~ (pool[d] > 0 /\ registry[d] = v)
    BY <2>3 DEF IInv, Registered, Pooled
  <2>4. ASSUME phase \notin Before, NEW v \in Dirs, NEW d \in Disks, target[d].dir # v
        PROVE  ~ (pool[d] > 0 /\ registry[d] = v)
    <3>1. phase = "guest"
      BY <2>4 DEF Write, IInv, TypeOK, ChangeType, Phased
    <3> QED
      BY <2>4, <3>1 DEF IInv, TypeOK, ChangeType, Registered, Unwritten
  <2> QED
    BY <2>1, <2>2, <2>3, <2>4, BlocksAreNat DEF Frame
<1>2. Unfinished'
  BY DEF RoomInv, Unfinished, Write
<1>3. Ungrown'
  BY DEF Ungrown, Write, IInv, Phased
<1> QED
  BY <1>1, <1>2, <1>3

LEMMA PendingRoom ==
  ASSUME IInv, RoomInv, TickPending
  PROVE  Frame /\ Unfinished' /\ Ungrown'
<1>1. Frame
  BY DEF Frame, TickPending
<1>2. Unfinished'
  BY DEF RoomInv, Unfinished, TickPending
<1>3. Ungrown'
  BY DEF Ungrown, Registered, TickPending, IInv
<1> QED
  BY <1>1, <1>2, <1>3

LEMMA TickDisksRoom ==
  ASSUME IInv, RoomInv, TickDisks
  PROVE  Frame /\ Unfinished' /\ Ungrown'
<1>1. Frame
  BY DEF Frame, TickDisks
<1>2. Unfinished'
  BY DEF RoomInv, Unfinished, TickDisks
<1>3. Ungrown'
  BY DEF RoomInv, Ungrown, TickDisks
<1> QED
  BY <1>1, <1>2, <1>3

LEMMA NewDiskRoom ==
  ASSUME IInv, RoomInv, NEW d \in Disks, LimaCreate(d) \/ Unregister(d) \/ Link(d)
  PROVE  Frame /\ Unfinished' /\ Ungrown'
<1>1. Frame
  BY DEF Frame, LimaCreate, Unregister, Link, IInv, Phased
<1>2. Unfinished'
  <2>1. locations[d].gib = 0 /\ UNCHANGED <<staged, phase, target, locations, task, at>>
    BY DEF LimaCreate, Unregister, Link
  <2>2. \A e \in Disks : e # d => registry'[e] = registry[e]
    BY DEF LimaCreate, Unregister, Link, IInv, TypeOK, FilesType
  <2> QED
    BY <2>1, <2>2 DEF RoomInv, Unfinished
<1>3. Ungrown'
  BY DEF RoomInv, Ungrown, LimaCreate, Unregister, Link
<1> QED
  BY <1>1, <1>2, <1>3

LEMMA StageNewRoom ==
  ASSUME IInv, RoomInv, NEW d \in Disks, StageNew(d)
  PROVE  Frame /\ Unfinished' /\ Ungrown'
<1>1. Frame
  BY DEF Frame, Blocks, StageNew, IInv, TypeOK, ChangeType, FilesType
<1>2. Unfinished'
  BY DEF RoomInv, Unfinished, StageNew
<1>3. Ungrown'
  <2>1. locations[d].gib = 0 /\ UNCHANGED <<phase, target, locations>>
    BY DEF StageNew
  <2>2. \A v \in Dirs : \A e \in Disks : e # d => images'[v][e] = images[v][e]
    BY DEF StageNew, IInv, TypeOK, FilesType
  <2> QED
    BY <2>1, <2>2 DEF RoomInv, Ungrown, IInv, TypeOK, SettingsType, Planned
<1> QED
  BY <1>1, <1>2, <1>3

LEMMA StageMoveRoom ==
  ASSUME IInv, RoomInv, NEW d \in Disks, StageMove(d)
  PROVE  Frame /\ Unfinished' /\ Ungrown'
<1>1. Frame
  BY DEF Frame, StageMove, Stages, IInv, TypeOK, FilesType, Phased
<1>2. Unfinished'
  BY DEF RoomInv, Unfinished, StageMove
<1>3. Ungrown'
  <2>1. UNCHANGED <<phase, target, locations>> /\ d \in Disks
    BY DEF StageMove, IInv, TypeOK, ChangeType
  <2>2. ASSUME NEW e \in Members(locations), Moved(e)
        PROVE  images'[locations[e].dir][e].size = images[locations[e].dir][e].size
    <3>1. locations[e].dir \in Dirs /\ locations[e].dir # target[e].dir
      BY <2>2 DEF IInv, TypeOK, SettingsType, Planned
    <3> QED
      BY <3>1 DEF StageMove, IInv, TypeOK, FilesType
  <2> QED
    BY <2>1, <2>2 DEF RoomInv, Ungrown
<1> QED
  BY <1>1, <1>2, <1>3

LEMMA StageTornRoom ==
  ASSUME IInv, RoomInv, NEW d \in Disks, StageTorn(d)
  PROVE  Frame /\ Unfinished' /\ Ungrown'
<1>1. Frame
  BY DEF Frame, StageTorn, Stages, IInv, Phased
<1>2. Unfinished'
  BY DEF RoomInv, Unfinished, StageTorn, Stages, IInv, Phased
<1>3. Ungrown'
  BY DEF RoomInv, Ungrown, StageTorn
<1> QED
  BY <1>1, <1>2, <1>3

LEMMA ResizeRoom ==
  ASSUME IInv, RoomInv, NEW d \in Disks, Resize(d)
  PROVE  Frame /\ Unfinished' /\ Ungrown'
<1>1. Frame
  <2>1. UNCHANGED <<phase, target, nextSystem>> /\ phase = "disks" /\ task # "idle"
    BY DEF Resize, Grows, IInv, Phased
  <2>2. ASSUME NEW v \in Dirs, NEW e \in Disks, target[e].dir # v
        PROVE  images'[v][e] = images[v][e]
    BY <2>2 DEF Resize, IInv, TypeOK, FilesType
  <2> QED
    BY <2>1, <2>2 DEF Frame
<1>2. Unfinished'
  BY DEF RoomInv, Unfinished, Resize
<1>3. Ungrown'
  <2>1. UNCHANGED <<phase, target, locations>> /\ d \in Disks
    BY DEF Resize, IInv, TypeOK, ChangeType
  <2>2. ASSUME NEW e \in Members(locations), Moved(e)
        PROVE  images'[locations[e].dir][e].size = images[locations[e].dir][e].size
    <3>1. locations[e].dir \in Dirs /\ locations[e].dir # target[e].dir
      BY <2>2 DEF IInv, TypeOK, SettingsType, Planned
    <3> QED
      BY <3>1 DEF Resize, IInv, TypeOK, FilesType
  <2> QED
    BY <2>1, <2>2 DEF RoomInv, Ungrown
<1> QED
  BY <1>1, <1>2, <1>3

LEMMA CommitMoveRoom ==
  ASSUME IInv, RoomInv, CommitMove
  PROVE  Frame /\ Unfinished' /\ Ungrown'
<1>1. Frame
  BY DEF Frame, Blocks, CommitMove, IInv, TypeOK, FilesType
<1>2. Unfinished'
  BY DEF RoomInv, Unfinished, CommitMove
<1>3. Ungrown'
  BY DEF RoomInv, Ungrown, CommitMove
<1> QED
  BY <1>1, <1>2, <1>3

LEMMA SaveReceiptRoom ==
  ASSUME IInv, RoomInv, SaveReceipt
  PROVE  Frame /\ Unfinished' /\ Ungrown'
<1>1. Frame
  BY DEF Frame, Blocks, Pooled, SaveReceipt, IInv, TypeOK, ChangeType, FilesType
<1>2. Unfinished'
  BY DEF RoomInv, Unfinished, SaveReceipt
<1>3. Ungrown'
  <2>1. UNCHANGED <<phase, target, locations>> /\ at \in Disks
    BY DEF SaveReceipt, IInv, TypeOK, ChangeType
  <2>2. ASSUME NEW e \in Members(locations), Moved(e)
        PROVE  images'[locations[e].dir][e].size = images[locations[e].dir][e].size
    <3>1. locations[e].dir \in Dirs /\ locations[e].dir # target[e].dir
      BY <2>2 DEF IInv, TypeOK, SettingsType, Planned
    <3> QED
      BY <3>1 DEF SaveReceipt, IInv, TypeOK, FilesType
  <2> QED
    BY <2>1, <2>2 DEF RoomInv, Ungrown
<1> QED
  BY <1>1, <1>2, <1>3

LEMMA ConfigureRoom ==
  ASSUME IInv, RoomInv, NEW saved \in BOOLEAN, Configure(saved)
  PROVE  Frame /\ Unfinished' /\ Ungrown'
<1>1. Frame
  BY DEF Frame, Configure, IInv, Phased
<1>2. Unfinished'
  BY DEF RoomInv, Unfinished, Configure, IInv, Planned
<1>3. Ungrown'
  BY DEF RoomInv, Ungrown, Configure
<1> QED
  BY <1>1, <1>2, <1>3

LEMMA SaveVerifiedRoom ==
  ASSUME IInv, RoomInv, SaveVerified
  PROVE  Frame /\ Unfinished' /\ Ungrown'
<1>1. Frame
  BY DEF Frame, Blocks, SaveVerified, IInv, Phased
<1>2. Unfinished'
  BY DEF RoomInv, Unfinished, SaveVerified, IInv, Phased
<1>3. Ungrown'
  BY DEF RoomInv, Ungrown, SaveVerified
<1> QED
  BY <1>1, <1>2, <1>3

LEMMA CompleteRoom ==
  ASSUME IInv, RoomInv, Complete
  PROVE  Frame /\ Unfinished' /\ Ungrown'
<1>1. Frame
  BY DEF Frame, Complete, IInv, Phased
<1>2. Unfinished'
  BY DEF RoomInv, Unfinished, Complete, IInv, Phased
<1>3. Ungrown'
  BY DEF Ungrown, Complete
<1> QED
  BY <1>1, <1>2, <1>3

LEMMA EraseCopyRoom ==
  ASSUME IInv, RoomInv, NEW c \in Copy, EraseCopy(c)
  PROVE  Frame /\ Unfinished' /\ Ungrown'
<1>1. Frame
  <2>1. /\ UNCHANGED <<locations, home, staged, phase>> /\ phase = "none"
        /\ c.disk \in Disks /\ c.dir \in Dirs
    BY DEF EraseCopy
  <2>2. ASSUME NEW v \in Dirs, NEW d \in Disks, ~ (d = c.disk /\ v = c.dir)
        PROVE  images'[v][d] = images[v][d]
    BY <2>2 DEF EraseCopy, IInv, TypeOK, FilesType
  <2>3. images'[c.dir][c.disk].data = 0
    BY <2>1 DEF EraseCopy, IInv, TypeOK, FilesType
  <2>4. Blocks(images[c.dir][c.disk])' = 0
    BY <2>1, <2>3 DEF Blocks
  <2> QED
    BY <2>1, <2>2, <2>4, BlocksAreNat DEF Frame
<1>2. Unfinished'
  BY DEF RoomInv, Unfinished, EraseCopy
<1>3. Ungrown'
  BY DEF Ungrown, EraseCopy
<1> QED
  BY <1>1, <1>2, <1>3

-----------------------------------------------------------------------------
(* The sums over all disks.                                                *)

LEMMA SumIsNat ==
  ASSUME NEW D, IsFiniteSet(D), NEW f \in [D -> Nat]
  PROVE  SumFunction(f) = SumFunctionOnSet(f, D) /\ SumFunction(f) \in Nat
<1>1. SumFunction(f) = SumFunctionOnSet(f, D)
  BY DEF SumFunction
<1> QED
  BY <1>1, SumStep

\* A sum of nothing is nothing.
LEMMA SumOfNothing ==
  ASSUME NEW D, IsFiniteSet(D), NEW f \in [D -> Nat], \A x \in D : f[x] = 0
  PROVE  SumFunction(f) = 0
<1>1. Units(f, D) = {}
  BY DEF Units
<1> QED
  BY <1>1, SumIsUnits, FS_EmptySet DEF SumFunction

LEMMA SumIsLess ==
  ASSUME NEW D, IsFiniteSet(D), NEW f \in [D -> Nat], NEW g \in [D -> Nat],
         \A x \in D : f[x] <= g[x]
  PROVE  SumFunction(f) <= SumFunction(g)
<1>1. SumFunctionOnSet(f, D) <= SumFunctionOnSet(g, D)
  BY SumMonotone
<1> QED
  BY <1>1, SumIsNat

LEMMA SumsAddUp ==
  ASSUME NEW D, IsFiniteSet(D), NEW f \in [D -> Nat], NEW g \in [D -> Nat],
         NEW h \in [D -> Nat], \A x \in D : h[x] = f[x] + g[x]
  PROVE  SumFunction(h) = SumFunction(f) + SumFunction(g)
<1>1. SumFunctionOnSet(h, D) = SumFunctionOnSet(f, D) + SumFunctionOnSet(g, D)
  BY SumOfTwo
<1> QED
  BY <1>1, SumIsNat

\* What is promised on a volume before and after the change, what else is there, what is torn.
Kept(v)    == [d \in Disks |-> IF locations[d].dir = v THEN locations[d].gib ELSE 0]
Aside(v)   == [d \in Disks |-> IF locations[d].dir = v THEN 0 ELSE Blocks(images[v][d])]
Torn(v)    == [d \in Disks |-> IF <<v, d>> \in staged THEN locations[d].gib ELSE 0]
Wanted(v)  == [d \in Disks |-> IF target[d].dir = v THEN target[d].gib ELSE 0]
Leftover(v) == [d \in Disks |-> IF target[d].dir = v THEN 0 ELSE Blocks(images[v][d])]

CountsAreNat ==
  \A v \in Dirs : {Kept(v), Aside(v), Torn(v), Wanted(v), Leftover(v)} \subseteq [Disks -> Nat]

LEMMA CountsType == IInv => CountsAreNat
<1> SUFFICES ASSUME IInv, NEW v \in Dirs
             PROVE  {Kept(v), Aside(v), Torn(v), Wanted(v), Leftover(v)} \subseteq [Disks -> Nat]
  BY DEF CountsAreNat
<1>1. \A d \in Disks : locations[d].gib \in Nat /\ target[d].gib \in Nat
  BY DEF IInv, TypeOK, SettingsType, ChangeType
<1>2. Kept(v) \in [Disks -> Nat] /\ Torn(v) \in [Disks -> Nat] /\ Wanted(v) \in [Disks -> Nat]
  BY <1>1 DEF Kept, Torn, Wanted
<1>3. Aside(v) \in [Disks -> Nat] /\ Leftover(v) \in [Disks -> Nat]
  BY BlocksAreNat DEF Aside, Leftover
<1> QED
  BY <1>2, <1>3

-----------------------------------------------------------------------------
(* The promises are kept.                                                  *)

\* Until a change begins, only disks at their places grow, and no copy is begun.
LEMMA PromisesKept ==
  ASSUME IInv, IInv', RoomInv, Frame, phase \in Before, phase' \in Before
  PROVE  Roomy'
<1>1. ASSUME NEW v \in Dirs PROVE (Promised(v) + LeftBehind(v) <= Capacity)'
  <2>1. Promised(v) + LeftBehind(v) <= Capacity
    BY DEF RoomInv, Roomy
  <2>2. UNCHANGED <<locations, home, staged>>
    BY DEF Frame
  <2>3. Kept(v)' = Kept(v) /\ Torn(v)' = Torn(v)
    BY <2>2 DEF Kept, Torn
  <2>4. \A d \in Disks : Aside(v)'[d] <= Aside(v)[d]
    BY <2>2 DEF Frame, Aside
  <2>5. {Kept(v), Aside(v), Torn(v)} \subseteq [Disks -> Nat] /\ Aside(v)' \in [Disks -> Nat]
    <3>1. CountsAreNat /\ CountsAreNat'
      BY CountsType, PTL
    <3> QED
      BY <3>1 DEF CountsAreNat
  <2>6. SumFunction(Aside(v)') <= SumFunction(Aside(v))
    BY <2>4, <2>5, SumIsLess
  <2>7. /\ SumFunction(Kept(v)) \in Nat /\ SumFunction(Aside(v)) \in Nat
        /\ SumFunction(Torn(v)) \in Nat /\ SumFunction(Aside(v)') \in Nat
    BY <2>5, SumIsNat
  <2>8. (Promised(v) + LeftBehind(v))'
          = (IF v = home THEN SystemGib ELSE 0) + SumFunction(Kept(v))
              + (SumFunction(Aside(v)') + SumFunction(Torn(v)))
    BY <2>2 DEF Promised, LeftBehind, Kept, Aside, Torn
  <2>9. Promised(v) + LeftBehind(v)
          = (IF v = home THEN SystemGib ELSE 0) + SumFunction(Kept(v))
              + (SumFunction(Aside(v)) + SumFunction(Torn(v)))
    BY DEF Promised, LeftBehind, Kept, Aside, Torn
  <2> QED
    BY <2>1, <2>6, <2>7, <2>8, <2>9
<1> QED
  BY <1>1 DEF Roomy

\* While a change is done, what is not at a new place stays as it is.
LEMMA ChangeKeepsRoom ==
  ASSUME IInv, Frame, phase \notin Before, phase' \notin Before, NEW v \in Dirs
  PROVE  AfterChange(v)' = AfterChange(v)
<1>1. UNCHANGED <<target, nextSystem>>
  BY DEF Frame
<1>2. Wanted(v)' = Wanted(v) /\ Leftover(v)' = Leftover(v)
  BY <1>1 DEF Frame, Wanted, Leftover
<1>3. /\ AfterChange(v) = (IF v = NewHome THEN SystemGib ELSE 0) + SumFunction(Wanted(v))
                             + SumFunction(Leftover(v))
      /\ AfterChange(v)' = (IF v = NewHome' THEN SystemGib ELSE 0) + SumFunction(Wanted(v)')
                             + SumFunction(Leftover(v)')
  BY DEF AfterChange, Wanted, Leftover
<1> QED
  BY <1>1, <1>2, <1>3

\* What the check before the disks are done adds up to.
LEMMA CheckedRoom ==
  ASSUME IInv, TickDisks, NEW e \in Disks, target[e].dir \in Dirs
  PROVE  AfterChange(target[e].dir) <= Capacity
<1> DEFINE v == target[e].dir
           A == {d \in Members(target) : target[d].dir = v}
           more == [d \in A |-> Less(target[d].gib, Credit(d, target[d]))]
           grow == [d \in Disks |-> IF d \in A THEN more[d] ELSE 0]
           have == [d \in Disks |-> Blocks(images[v][d])]
           both == [d \in Disks |-> have[d] + grow[d]]
           all  == [d \in Disks |-> Wanted(v)[d] + Leftover(v)[d]]
           system0 == IF v = NewHome THEN SystemGib ELSE 0
<1>1. \A d \in Disks : target[d].gib \in Nat /\ locations[d].gib \in Nat
  BY DEF IInv, TypeOK, SettingsType, ChangeType
<1>2. /\ target[e].gib > 0 /\ e \in A
      /\ \A d \in A : d \in Disks /\ target[d].dir = v /\ target[d].gib > 0
  BY DEF IInv, TypeOK, ChangeType, Planned
<1>3. ASSUME NEW d \in A
      PROVE  Credit(d, target[d]) \in Nat /\ Credit(d, target[d]) <= Blocks(images[v][d])
  BY <1>2, BlocksAreNat DEF Credit
<1>4. ASSUME NEW d \in A
      PROVE  more[d] \in Nat /\ target[d].gib <= Blocks(images[v][d]) + more[d]
  BY <1>1, <1>2, <1>3, BlocksAreNat DEF Less
<1>5. /\ more \in [A -> Nat] /\ grow \in [Disks -> Nat] /\ have \in [Disks -> Nat]
      /\ both \in [Disks -> Nat]
      /\ \A d \in Disks : grow[d] = IF d \in A THEN more[d] ELSE 0
      /\ \A d \in Disks : both[d] = have[d] + grow[d]
  <2>1. more \in [A -> Nat]
    BY <1>4
  <2>2. grow \in [Disks -> Nat]
    BY <2>1
  <2>3. have \in [Disks -> Nat]
    BY BlocksAreNat
  <2> HIDE DEF grow, have
  <2>4. both \in [Disks -> Nat] /\ \A d \in Disks : both[d] = have[d] + grow[d]
    BY <2>2, <2>3
  <2> QED
    BY <2>1, <2>2, <2>3, <2>4 DEF grow
<1>6. Wanted(v) \in [Disks -> Nat] /\ Leftover(v) \in [Disks -> Nat]
  BY CountsType DEF CountsAreNat
<1>7. all \in [Disks -> Nat] /\ \A d \in Disks : all[d] = Wanted(v)[d] + Leftover(v)[d]
  BY <1>6
<1>8. ASSUME NEW d \in Disks PROVE all[d] <= both[d]
  <2>1. CASE target[d].dir = v
    <3>1. d \in A
      BY <2>1 DEF IInv, TypeOK, ChangeType, Planned
    <3>2. all[d] = target[d].gib
      BY <1>1, <2>1 DEF Wanted, Leftover
    <3> QED
      BY <1>4, <3>1, <3>2
  <2>2. CASE target[d].dir # v
    BY <2>2, BlocksAreNat DEF Wanted, Leftover
  <2> QED
    BY <2>1, <2>2
<1>9. Used(v) + SystemNeed(v, NewHome) + SumFunction(more) <= Capacity
  BY <1>2 DEF TickDisks, ValidTargets, Fits
<1>10. /\ SumFunction(all) <= SumFunction(both)
       /\ SumFunction(both) = SumFunction(have) + SumFunction(grow)
       /\ SumFunction(all) = SumFunction(Wanted(v)) + SumFunction(Leftover(v))
       /\ SumFunction(more) = SumFunction(grow)
  <2> HIDE DEF A, more, grow, have, both, all, v
  <2>1. SumFunction(all) <= SumFunction(both)
    BY <1>5, <1>7, <1>8, SumIsLess
  <2>2. SumFunction(both) = SumFunction(have) + SumFunction(grow)
    BY <1>5, SumsAddUp
  <2>3. SumFunction(all) = SumFunction(Wanted(v)) + SumFunction(Leftover(v))
    BY <1>6, <1>7, SumsAddUp
  <2>4. A \in SUBSET Disks
    BY DEF A
  <2>5. SumFunction(more) = SumFunction(grow)
    BY <1>5, <2>4, SumOfPart
  <2> QED
    BY <2>1, <2>2, <2>3, <2>5
<1>11. /\ SumFunction(have) \in Nat /\ SumFunction(grow) \in Nat /\ SumFunction(Torn(v)) \in Nat
       /\ SumFunction(Wanted(v)) \in Nat /\ SumFunction(Leftover(v)) \in Nat
  <2>1. Torn(v) \in [Disks -> Nat]
    BY CountsType DEF CountsAreNat
  <2> HIDE DEF grow, have, v
  <2> QED
    BY <1>5, <1>6, <2>1, SumIsNat
<1>12. Used(v) = SystemAt(v) + SumFunction(have) + SumFunction(Torn(v))
  BY DEF Used, Torn
<1>13. SystemAt(v) \in Nat /\ SystemNeed(v, NewHome) \in Nat
       /\ system0 <= SystemAt(v) + SystemNeed(v, NewHome)
  BY DEF SystemAt, SystemNeed
<1>14. AfterChange(v) = system0 + SumFunction(Wanted(v)) + SumFunction(Leftover(v))
  BY DEF AfterChange, Wanted, Leftover
<1>15. system0 \in Nat /\ Capacity \in Nat
  OBVIOUS
<1> HIDE DEF system0, all, both, have, grow, more, v
<1> QED
  BY <1>9, <1>10, <1>11, <1>12, <1>13, <1>14, <1>15 DEF v

\* The tick that checks the disks; for the other volumes the room was there before.
LEMMA DisksRoomy ==
  ASSUME IInv, RoomInv, Frame, phase \notin Before, phase' \notin Before
  PROVE  Roomy'
<1>1. SUFFICES ASSUME NEW v \in Dirs
               PROVE  \/ AfterChange(v)' <= Capacity
                      \/ phase' = "disks" /\ task' = "idle" /\ v \in {target'[d].dir : d \in Disks}
  BY DEF Roomy
<1>2. AfterChange(v)' = AfterChange(v) /\ target' = target
  BY ChangeKeepsRoom DEF Frame
<1>3. CASE AfterChange(v) <= Capacity
  BY <1>2, <1>3
<1>4. CASE /\ phase = "disks" /\ task = "idle" /\ v \in {target[d].dir : d \in Disks}
           /\ TickDisks
  BY <1>2, <1>4, CheckedRoom
<1>5. CASE /\ phase = "disks" /\ task = "idle" /\ v \in {target[d].dir : d \in Disks}
           /\ phase' = "disks" /\ task' = "idle"
  BY <1>2, <1>5
<1> QED
  BY <1>3, <1>4 DEF RoomInv, Roomy, Frame

\* A volume that gets no disk has the disks of the settings full, and nothing promised after.
LEMMA BegunRoom ==
  ASSUME IInv, IInv', RoomInv, TickPending
  PROVE  Roomy'
<1>0. /\ UNCHANGED <<locations, target, nextSystem, home, images, staged, task>>
      /\ phase = "pending" /\ phase' = "disks" /\ task = "idle"
  BY DEF TickPending
<1>1. SUFFICES ASSUME NEW v \in Dirs, \A d \in Disks : target[d].dir # v
               PROVE  AfterChange(v)' <= Capacity
  BY <1>0 DEF Roomy
<1> DEFINE full == [d \in Disks |-> Kept(v)[d] + Aside(v)[d]]
<1>2. Promised(v) + LeftBehind(v) <= Capacity
  BY <1>0 DEF RoomInv, Roomy
<1>3. v # NewHome
  BY <1>1 DEF IInv, TypeOK, ChangeType
<1>4. /\ Kept(v) \in [Disks -> Nat] /\ Aside(v) \in [Disks -> Nat] /\ Torn(v) \in [Disks -> Nat]
      /\ Wanted(v) \in [Disks -> Nat] /\ Leftover(v) \in [Disks -> Nat]
  BY CountsType DEF CountsAreNat
<1>5. full \in [Disks -> Nat] /\ \A d \in Disks : full[d] = Kept(v)[d] + Aside(v)[d]
  BY <1>4
<1>6. ASSUME NEW d \in Disks PROVE Leftover(v)[d] <= full[d] /\ Wanted(v)[d] = 0
  <2>1. Wanted(v)[d] = 0 /\ Leftover(v)[d] = Blocks(images[v][d])
    BY <1>1 DEF Wanted, Leftover
  <2>2. CASE locations[d].dir = v
    <3>1. images[v][d].size = locations[d].gib
      BY <1>0, <2>2 DEF IInv, Planned, Registered
    <3>2. Blocks(images[v][d]) <= locations[d].gib /\ Kept(v)[d] = locations[d].gib
      BY <2>2, <3>1 DEF Blocks, Kept, IInv, TypeOK, SettingsType
    <3>3. Kept(v)[d] \in Nat /\ Aside(v)[d] \in Nat
      BY <1>4
    <3>4. Blocks(images[v][d]) \in Nat
      BY BlocksAreNat
    <3> QED
      BY <1>5, <2>1, <3>2, <3>3, <3>4
  <2>3. CASE locations[d].dir # v
    <3>1. Aside(v)[d] = Blocks(images[v][d]) /\ Kept(v)[d] = 0
      BY <2>3 DEF Aside, Kept
    <3> QED
      BY <1>5, <2>1, <3>1, BlocksAreNat
  <2> QED
    BY <2>1, <2>2, <2>3
<1> HIDE DEF full
<1>7. /\ SumFunction(Leftover(v)) <= SumFunction(full) /\ SumFunction(Wanted(v)) = 0
      /\ SumFunction(full) = SumFunction(Kept(v)) + SumFunction(Aside(v))
  <2>1. SumFunction(Leftover(v)) <= SumFunction(full)
    BY <1>4, <1>5, <1>6, SumIsLess
  <2>2. SumFunction(Wanted(v)) = 0
    BY <1>4, <1>6, SumOfNothing
  <2>3. SumFunction(full) = SumFunction(Kept(v)) + SumFunction(Aside(v))
    BY <1>4, <1>5, SumsAddUp
  <2> QED
    BY <2>1, <2>2, <2>3
<1>8. /\ SumFunction(Kept(v)) \in Nat /\ SumFunction(Aside(v)) \in Nat
      /\ SumFunction(Torn(v)) \in Nat /\ SumFunction(Leftover(v)) \in Nat
  BY <1>4, SumIsNat
<1>9. Promised(v) + LeftBehind(v)
        = (IF v = home THEN SystemGib ELSE 0) + SumFunction(Kept(v))
            + (SumFunction(Aside(v)) + SumFunction(Torn(v)))
  BY DEF Promised, LeftBehind, Kept, Aside, Torn
<1>10. AfterChange(v)' = 0 + SumFunction(Wanted(v)) + SumFunction(Leftover(v))
  BY <1>0, <1>3 DEF AfterChange, Wanted, Leftover
<1> QED
  BY <1>2, <1>7, <1>8, <1>9, <1>10

\* A complete change promises what it was checked for, and left no unfinished copy.
LEMMA CompletedRoom ==
  ASSUME IInv, IInv', RoomInv, Complete
  PROVE  Roomy'
<1>0. /\ locations' = target /\ UNCHANGED <<target, nextSystem, home, images, staged>>
      /\ phase = "verified" /\ phase' = "none"
  BY DEF Complete, IInv, Phased
<1>1. SUFFICES ASSUME NEW v \in Dirs PROVE (Promised(v) + LeftBehind(v) <= Capacity)'
  BY <1>0 DEF Roomy
<1>2. AfterChange(v) <= Capacity
  BY <1>0 DEF RoomInv, Roomy
<1>3. home = NewHome
  BY <1>0 DEF IInv, Phased
<1>4. staged = {}
  BY <1>0 DEF RoomInv, Unfinished, IInv, TypeOK, FilesType
<1>5. Kept(v)' = Wanted(v) /\ Aside(v)' = Leftover(v)
  BY <1>0 DEF Kept, Wanted, Aside, Leftover
<1>6. Wanted(v) \in [Disks -> Nat] /\ Leftover(v) \in [Disks -> Nat] /\ Torn(v)' \in [Disks -> Nat]
  <2>1. CountsAreNat /\ CountsAreNat'
    BY CountsType, PTL
  <2> QED
    BY <2>1 DEF CountsAreNat
<1>7. SumFunction(Torn(v)') = 0
  <2>1. \A d \in Disks : Torn(v)'[d] = 0
    BY <1>0, <1>4 DEF Torn
  <2> QED
    BY <1>6, <2>1, SumOfNothing
<1>8. SumFunction(Wanted(v)) \in Nat /\ SumFunction(Leftover(v)) \in Nat
  BY <1>6, SumIsNat
<1>9. (Promised(v) + LeftBehind(v))'
        = (IF v = home' THEN SystemGib ELSE 0) + SumFunction(Kept(v)')
            + (SumFunction(Aside(v)') + SumFunction(Torn(v)'))
  BY DEF Promised, LeftBehind, Kept, Aside, Torn
<1>10. AfterChange(v) = (IF v = NewHome THEN SystemGib ELSE 0) + SumFunction(Wanted(v))
                          + SumFunction(Leftover(v))
  BY DEF AfterChange, Wanted, Leftover
<1> QED
  BY <1>0, <1>2, <1>3, <1>5, <1>7, <1>8, <1>9, <1>10

LEMMA StepFrame ==
  ASSUME IInv, RoomInv, [Next]_vars PROVE Frame /\ Unfinished' /\ Ungrown'
<1>1. CASE Owner
  BY <1>1, ApplyRoom, WithdrawRoom, QuietSteps, QuietRoom DEF Owner
<1>2. CASE Host
  BY <1>2, WriteRoom, QuietSteps, QuietRoom DEF Host
<1>3. CASE Step
  <2>1. CASE TickPending \/ TickDisks \/ Configure(TRUE) \/ SaveVerified \/ Complete
    BY <2>1, PendingRoom, TickDisksRoom, ConfigureRoom, SaveVerifiedRoom, CompleteRoom
  <2>2. CASE (\E d \in Disks : Disk(d)) \/ CommitMove \/ SaveReceipt
    BY <2>2, NewDiskRoom, StageNewRoom, StageMoveRoom, ResizeRoom, CommitMoveRoom,
       SaveReceiptRoom
       DEF Disk
  <2>3. CASE \/ Relabel \/ RecordSource \/ CopySystem \/ SwitchHome
             \/ TickGuest \/ ApplyPool \/ TickVerified \/ RemoveSource \/ ForgetSource
    BY <2>3, QuietSteps, QuietRoom
  <2> QED
    BY <1>3, <2>1, <2>2, <2>3 DEF Step
<1>4. CASE Cleanup
  BY <1>4, EraseCopyRoom, QuietSteps, QuietRoom DEF Cleanup
<1>5. CASE Configure(FALSE) \/ \E d \in Disks : StageTorn(d)
  BY <1>5, ConfigureRoom, StageTornRoom
<1>6. CASE Fail \/ UNCHANGED vars
  BY <1>6, QuietSteps, QuietRoom
<1> QED
  BY <1>1, <1>2, <1>3, <1>4, <1>5, <1>6 DEF Next

LEMMA RoomStep == IInv /\ IInv' /\ RoomInv /\ [Next]_vars => RoomInv'
<1> SUFFICES ASSUME IInv, IInv', RoomInv, [Next]_vars PROVE RoomInv'
  OBVIOUS
<1>1. Frame /\ Unfinished' /\ Ungrown'
  BY StepFrame
<1>2. CASE phase \in Before /\ phase' \in Before
  BY <1>1, <1>2, PromisesKept DEF RoomInv
<1>3. CASE phase \notin Before /\ phase' \notin Before
  BY <1>1, <1>3, DisksRoomy DEF RoomInv
<1>4. CASE phase \in Before /\ phase' \notin Before
  <2>1. TickPending
    BY <1>1, <1>4 DEF Frame
  <2> QED
    BY <1>1, <2>1, BegunRoom DEF RoomInv
<1>5. CASE phase \notin Before /\ phase' \in Before
  <2>1. Complete
    BY <1>1, <1>5 DEF Frame
  <2> QED
    BY <1>1, <2>1, CompletedRoom DEF RoomInv
<1> QED
  BY <1>2, <1>3, <1>4, <1>5

\* The worker began with one disk and room for it and the system image.
LEMMA RoomInit == Init => RoomInv
<1> SUFFICES ASSUME Init PROVE RoomInv
  OBVIOUS
<1>0. IInv
  BY InitInv
<1>1. PICK n \in 1..MaxGib :
        /\ SystemGib + n <= Capacity
        /\ locations = [d \in Disks |->
             IF d = First THEN [dir |-> Original, gib |-> n] ELSE NoPlace]
        /\ images = [v \in Dirs |-> [d \in Disks |->
             IF v = Original /\ d = First THEN [gib |-> n, size |-> n, data |-> 1] ELSE NoImage]]
        /\ phase = "none" /\ home = Original /\ staged = {}
  BY DEF Init
<1>2. Unfinished /\ Ungrown
  BY <1>1 DEF Unfinished, Ungrown
<1>3. ASSUME NEW v \in Dirs PROVE Promised(v) + LeftBehind(v) <= Capacity
  <2>1. Kept(v) \in [Disks -> Nat] /\ Aside(v) \in [Disks -> Nat] /\ Torn(v) \in [Disks -> Nat]
    BY <1>0, CountsType DEF CountsAreNat
  <2>2. SumFunction(Torn(v)) = 0
    <3>1. \A d \in Disks : Torn(v)[d] = 0
      BY <1>1 DEF Torn
    <3> QED
      BY <2>1, <3>1, SumOfNothing
  <2>3. SumFunction(Aside(v)) = 0
    <3>1. \A d \in Disks : Aside(v)[d] = 0
      BY <1>1 DEF Aside, Blocks
    <3> QED
      BY <2>1, <3>1, SumOfNothing
  <2>4. CASE v = Original
    <3>1. Kept(v)[First] = n /\ \A d \in Disks \ {First} : Kept(v)[d] = 0
      BY <1>1, <2>4 DEF Kept
    <3>2. SumFunction(Kept(v)) = n
      <4>1. SumFunctionOnSet(Kept(v), Disks)
              = Kept(v)[First] + SumFunctionOnSet(Kept(v), Disks \ {First})
        BY <2>1, SumStep
      <4>2. SumFunctionOnSet(Kept(v), Disks \ {First}) = 0
        <5>1. Units(Kept(v), Disks \ {First}) = {}
          BY <3>1 DEF Units
        <5>2. Disks \ {First} \in SUBSET Disks
          OBVIOUS
        <5>3. SumFunctionOnSet(Kept(v), Disks \ {First}) = Cardinality({})
          BY <2>1, <5>1, <5>2, SumIsUnits
        <5> QED
          BY <5>3, FS_EmptySet
      <4> QED
        BY <2>1, <3>1, <4>1, <4>2, SumIsNat
    <3> QED
      BY <1>1, <2>2, <2>3, <3>2 DEF Promised, LeftBehind, Kept, Aside, Torn
  <2>5. CASE v # Original
    <3>1. \A d \in Disks : Kept(v)[d] = 0
      BY <1>1, <2>5 DEF Kept
    <3>2. SumFunction(Kept(v)) = 0
      BY <2>1, <3>1, SumOfNothing
    <3> QED
      BY <1>1, <2>3, <2>5, <3>2 DEF Promised, LeftBehind, Kept, Aside
  <2> QED
    BY <2>4, <2>5
<1> QED
  BY <1>1, <1>2, <1>3 DEF RoomInv, Roomy

(***************************************************************************)
(* Between changes every disk and the system image may grow to the size    *)
(* that was promised for it, beside whatever changes, their retries and    *)
(* crashes left on the volume (plan_disks and the review).                 *)
(***************************************************************************)
THEOREM RoomIsPromised == Spec => []PromisedRoom
<1>1. RoomInv => PromisedRoom
  BY DEF RoomInv, Roomy, PromisedRoom
<1> QED
  BY <1>1, RoomInit, RoomStep, Invariance, PTL DEF Spec
=============================================================================
